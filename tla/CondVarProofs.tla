---------------------------- MODULE CondVarProofs ----------------------------
(***************************************************************************)
(* Proofs about psync::ConditionVariable with psync::Mutex, for any finite *)
(* sets of producers and consumers and any number of items.                *)
(***************************************************************************)
EXTENDS CondVar, FiniteSetTheorems, TLAPS

-----------------------------------------------------------------------------
(* The inductive invariant *)

\* What the clients need of the mutex: it has one owner, who is the thread
\* whose pc says so.  The number of waiters in the word does not matter here.
MutexTypeOK ==
    /\ pc \in [Threads -> M!Labels]
    /\ state \in [locked : BOOLEAN, waiters : Int]
    /\ current \in [Threads -> [locked : BOOLEAN, waiters : Int]]

Owning == {"in", "unlock_cas", "unlock_contended"}
OneOwner ==
    /\ state.locked <=> \E t \in Threads : pc[t] \in Owning
    /\ \A t, u \in Threads : pc[t] \in Owning /\ pc[u] \in Owning => t = u

MutexInv == MutexTypeOK /\ OneOwner /\ M!LocalInv

\* Where the clients are; a client at the start of its code has not come to
\* an unlock().
ClientsOK ==
    /\ DOMAIN at = Threads
    /\ \A t \in Consumers :
          at[t] \in {"start", "waiting", "asleep", "awake", "got", "timeout"}
    /\ \A t \in Producers : at[t] \in {"start", "hold", "signal", "broadcast"}
    /\ \A t \in Threads :
          at[t] = "start" => pc[t] \notin {"unlock_cas", "unlock_contended", "wake"}

DataOK ==
    /\ seq \in Nat /\ items \in Nat
    /\ my_seq \in [Threads -> Nat]
    /\ \A t \in Threads : my_seq[t] <= seq
    /\ DOMAIN owed = Producers
    /\ \A t \in Producers : at[t] = "start" => ~ owed[t]

\* A consumer that still has the current seq_ loaded it when there was no
\* item: whatever was put since then is by a producer that has not even
\* incremented seq_.
Unannounced == {t \in Producers : owed[t]}
SomeLoaded == \E t \in Consumers : at[t] = "waiting" /\ my_seq[t] = seq
LoadedEmpty == SomeLoaded => items <= Cardinality(Unannounced)

SomeDozes == \E t \in Consumers : Dozing(t)

CondVarInv ==
    MutexInv /\ ClientsOK /\ DataOK /\ LoadedEmpty /\ SignalsSuffice

-----------------------------------------------------------------------------
(* The steps of the mutex *)

\* A thread's step in lock() or unlock(), the call included.
MutexAct(t) ==
    \/ pc[t] \in {"out", "spin"} /\ \E o \in {"spin", "register"} : M!TryAcquire(t, o)
    \/ M!Register(t) \/ M!Load(t) \/ M!AcquireRegistered(t) \/ M!FutexWait(t)
    \/ M!SpuriousWake(t)
    \/ M!Unlock(t) \/ M!UnlockFast(t) \/ M!UnlockContended(t) \/ M!Wake(t)

LEMMA TryAcquireKeeps ==
    ASSUME MutexInv, NEW t \in Threads, pc[t] \in {"out", "spin"},
           NEW o \in {"spin", "register"}, M!TryAcquire(t, o)
    PROVE  MutexInv'
<1> USE DEF MutexInv, MutexTypeOK, M!TryAcquire, M!Goto, M!UNLOCKED, M!LOCKED_NO_WAITERS
<1>1. MutexTypeOK'
  <2>1. pc' \in [Threads -> M!Labels]
    BY DEF M!Labels
  <2>2. state' \in [locked : BOOLEAN, waiters : Int]
    <3>1. [locked |-> TRUE, waiters |-> 0] \in [locked : BOOLEAN, waiters : Int]
      OBVIOUS
    <3>2. state' = [locked |-> TRUE, waiters |-> 0] \/ state' = state
      OBVIOUS
    <3> QED BY <3>1, <3>2
  <2>3. current' \in [Threads -> [locked : BOOLEAN, waiters : Int]]
    BY DEF M!UNLOCKED
  <2> QED BY <2>1, <2>2, <2>3
<1>2. CASE state = M!UNLOCKED
  <2>1. state'.locked /\ pc' = [pc EXCEPT ![t] = "in"] /\ ~ state.locked
    BY <1>2
  <2>2. \A u \in Threads : pc[u] \notin Owning
    BY <2>1 DEF OneOwner
  <2>3. \A u \in Threads : pc'[u] \in Owning <=> u = t
    BY <2>1, <2>2 DEF Owning
  <2>4. OneOwner'
    BY <2>1, <2>3 DEF OneOwner
  <2>5. M!LocalInv'
    BY <2>1 DEF M!LocalInv
  <2> QED BY <1>1, <2>4, <2>5
<1>3. CASE state # M!UNLOCKED
  <2>1. state' = state /\ pc' = [pc EXCEPT ![t] = o]
    BY <1>3
  <2>2. \A u \in Threads : pc'[u] \in Owning <=> pc[u] \in Owning
    BY <2>1 DEF Owning
  <2>3. OneOwner'
    BY <2>1, <2>2 DEF OneOwner
  <2>4. M!LocalInv'
    BY <2>1 DEF M!LocalInv
  <2> QED BY <1>1, <2>3, <2>4
<1> QED
  BY <1>2, <1>3

\* Steps of a thread that neither takes the mutex nor gives it up.
LEMMA QuietStepKeeps ==
    ASSUME MutexInv, NEW t \in Threads,
           \/ M!Register(t) \/ M!Load(t) \/ M!FutexWait(t) \/ M!SpuriousWake(t)
           \/ M!Unlock(t) \/ M!Wake(t)
    PROVE  MutexInv'
<1> USE DEF MutexInv, MutexTypeOK, M!Goto, M!Forget
<1>1. MutexTypeOK' /\ state'.locked = state.locked
  <2>1. CASE M!Register(t)
    BY <2>1 DEF M!Register, M!Labels
  <2>2. CASE M!Load(t)
    BY <2>2 DEF M!Load, M!Labels
  <2>3. CASE M!FutexWait(t)
    BY <2>3 DEF M!FutexWait, M!Labels, M!UNLOCKED
  <2>4. CASE M!SpuriousWake(t)
    BY <2>4 DEF M!SpuriousWake, M!Labels
  <2>5. CASE M!Unlock(t)
    BY <2>5 DEF M!Unlock, M!Labels
  <2>6. CASE M!Wake(t)
    BY <2>6 DEF M!Wake, M!Labels
  <2> QED BY <2>1, <2>2, <2>3, <2>4, <2>5, <2>6
<1>2. \A u \in Threads : pc'[u] \in Owning <=> pc[u] \in Owning
  <2>1. CASE M!Register(t)
    BY <2>1 DEF M!Register, Owning
  <2>2. CASE M!Load(t)
    BY <2>2 DEF M!Load, Owning
  <2>3. CASE M!FutexWait(t)
    BY <2>3 DEF M!FutexWait, Owning
  <2>4. CASE M!SpuriousWake(t)
    BY <2>4 DEF M!SpuriousWake, Owning
  <2>5. CASE M!Unlock(t)
    BY <2>5 DEF M!Unlock, Owning
  <2>6. CASE M!Wake(t)
    BY <2>6 DEF M!Wake, Owning, M!Sleepers, WakeOne, M!WakeOne
  <2> QED BY <2>1, <2>2, <2>3, <2>4, <2>5, <2>6
<1>3. OneOwner'
  BY <1>1, <1>2 DEF OneOwner
<1>4. M!LocalInv'
  <2>1. CASE M!Register(t)
    BY <2>1 DEF M!Register, M!LocalInv
  <2>2. CASE M!Load(t)
    BY <2>2 DEF M!Load, M!LocalInv
  <2>3. CASE M!FutexWait(t)
    BY <2>3 DEF M!FutexWait, M!LocalInv
  <2>4. CASE M!SpuriousWake(t)
    BY <2>4 DEF M!SpuriousWake, M!LocalInv
  <2>5. CASE M!Unlock(t)
    BY <2>5 DEF M!Unlock, M!LocalInv
  <2>6. CASE M!Wake(t)
    BY <2>6 DEF M!Wake, M!LocalInv
  <2> QED BY <2>1, <2>2, <2>3, <2>4, <2>5, <2>6
<1> QED
  BY <1>1, <1>3, <1>4

LEMMA AcquireRegisteredKeeps ==
    ASSUME MutexInv, NEW t \in Threads, M!AcquireRegistered(t)
    PROVE  MutexInv'
<1> USE DEF MutexInv, MutexTypeOK, M!AcquireRegistered, M!Goto, M!Forget, M!TakenBy
<1>1. MutexTypeOK'
  <2>1. pc' \in [Threads -> M!Labels]
    BY DEF M!Labels
  <2>2. state' \in [locked : BOOLEAN, waiters : Int]
    <3>1. [locked |-> TRUE, waiters |-> state.waiters - 1] \in [locked : BOOLEAN, waiters : Int]
      OBVIOUS
    <3>2. state' = [locked |-> TRUE, waiters |-> state.waiters - 1] \/ state' = state
      OBVIOUS
    <3> QED BY <3>1, <3>2
  <2>3. current' \in [Threads -> [locked : BOOLEAN, waiters : Int]]
    BY DEF M!UNLOCKED
  <2> QED BY <2>1, <2>2, <2>3
<1>2. CASE state = current[t]
  <2>1. state'.locked /\ pc' = [pc EXCEPT ![t] = "in"] /\ ~ state.locked
    BY <1>2 DEF M!LocalInv
  <2>2. \A u \in Threads : pc[u] \notin Owning
    BY <2>1 DEF OneOwner
  <2>3. \A u \in Threads : pc'[u] \in Owning <=> u = t
    BY <2>1, <2>2 DEF Owning
  <2>4. OneOwner'
    BY <2>1, <2>3 DEF OneOwner
  <2>5. M!LocalInv'
    BY <2>1 DEF M!LocalInv
  <2> QED BY <1>1, <2>4, <2>5
<1>3. CASE state # current[t]
  <2>1. state' = state /\ pc' = [pc EXCEPT ![t] = "load"] /\ pc[t] = "cas"
    BY <1>3
  <2>2. \A u \in Threads : pc'[u] \in Owning <=> pc[u] \in Owning
    BY <2>1 DEF Owning
  <2>3. OneOwner'
    BY <2>1, <2>2 DEF OneOwner
  <2>4. M!LocalInv'
    BY <2>1 DEF M!LocalInv
  <2> QED BY <1>1, <2>3, <2>4
<1> QED
  BY <1>2, <1>3

LEMMA ReleaseKeeps ==
    ASSUME MutexInv, NEW t \in Threads, M!UnlockFast(t) \/ M!UnlockContended(t)
    PROVE  MutexInv'
<1> USE DEF MutexInv, MutexTypeOK, M!UnlockFast, M!UnlockContended, M!Goto
<1>1. MutexTypeOK'
  <2>1. pc' \in [Threads -> M!Labels]
    BY DEF M!Labels
  <2>2. state' \in [locked : BOOLEAN, waiters : Int]
    <3>1. /\ [locked |-> FALSE, waiters |-> 0] \in [locked : BOOLEAN, waiters : Int]
          /\ [state EXCEPT !.locked = FALSE] \in [locked : BOOLEAN, waiters : Int]
      <4>1. state \in [locked : BOOLEAN, waiters : Int]
        OBVIOUS
      <4>2. [locked |-> FALSE, waiters |-> 0] \in [locked : BOOLEAN, waiters : Int]
        OBVIOUS
      <4>3. [state EXCEPT !.locked = FALSE] \in [locked : BOOLEAN, waiters : Int]
        BY ONLY <4>1
      <4> QED BY <4>2, <4>3
    <3>2. \/ state' = [locked |-> FALSE, waiters |-> 0]
          \/ state' = [state EXCEPT !.locked = FALSE]
          \/ state' = state
      BY DEF M!UNLOCKED
    <3> QED BY <3>1, <3>2
  <2>3. current' \in [Threads -> [locked : BOOLEAN, waiters : Int]]
    BY DEF M!UNLOCKED
  <2> QED BY <2>1, <2>2, <2>3
<1>2. M!LocalInv'
  BY DEF M!LocalInv
<1>3. CASE state' = state /\ pc' = [pc EXCEPT ![t] = "unlock_contended"] /\ pc[t] = "unlock_cas"
  <2>1. \A u \in Threads : pc'[u] \in Owning <=> pc[u] \in Owning
    BY <1>3 DEF Owning
  <2> QED BY <1>1, <1>2, <1>3, <2>1 DEF OneOwner
<1>4. CASE /\ ~ state'.locked
           /\ pc[t] \in Owning
           /\ \E l \in {"out", "wake"} : pc' = [pc EXCEPT ![t] = l]
  <2>1. \A u \in Threads : pc[u] \in Owning => u = t
    BY <1>4 DEF OneOwner
  <2>2. \A u \in Threads : pc'[u] \notin Owning
    BY <1>4, <2>1 DEF Owning
  <2> QED BY <1>1, <1>2, <1>4, <2>2 DEF OneOwner
<1>5. CASE M!UnlockFast(t)
  BY <1>3, <1>4, <1>5 DEF Owning, M!UNLOCKED
<1>6. CASE M!UnlockContended(t)
  BY <1>4, <1>6 DEF Owning
<1> QED
  BY <1>5, <1>6

LEMMA MutexActKeeps ==
    ASSUME MutexInv, NEW t \in Threads, MutexAct(t)
    PROVE  MutexInv'
  BY TryAcquireKeeps, QuietStepKeeps, AcquireRegisteredKeeps, ReleaseKeeps DEF MutexAct

LEMMA MutexRests ==
    ASSUME MutexInv, UNCHANGED <<state, pc, current>>
    PROVE  MutexInv'
  BY DEF MutexInv, MutexTypeOK, OneOwner, M!LocalInv

\* Where a step of the mutex can send its threads.
LEMMA MutexMoves ==
    ASSUME MutexInv, NEW t \in Threads, MutexAct(t)
    PROVE  /\ \A u \in Threads :
                 u # t => pc'[u] = pc[u] \/ (pc[u] = "asleep" /\ pc'[u] = "load")
           /\ pc'[t] = "out" => pc[t] \in {"unlock_cas", "wake"}
           /\ pc'[t] \in {"unlock_cas", "unlock_contended", "wake"} =>
                 M!Unlock(t) \/ pc[t] \in {"unlock_cas", "unlock_contended"}
<1> USE DEF MutexInv, MutexTypeOK, M!Goto
<1>1. CASE M!Wake(t)
  BY <1>1 DEF M!Wake, M!Sleepers, M!WakeOne
<1>2. CASE ~ M!Wake(t)
  BY <1>2 DEF MutexAct, M!TryAcquire, M!Register, M!Load, M!AcquireRegistered, M!FutexWait,
              M!SpuriousWake, M!Unlock, M!UnlockFast, M!UnlockContended
<1> QED
  BY <1>1, <1>2

-----------------------------------------------------------------------------
(* Counting *)

LEMMA CardGrows ==
    ASSUME NEW S, IsFiniteSet(S), NEW A \in SUBSET S, NEW B \in SUBSET S, A \subseteq B
    PROVE  Cardinality(A) \in Nat /\ Cardinality(B) \in Nat /\ Cardinality(A) <= Cardinality(B)
<1>1. IsFiniteSet(A) /\ IsFiniteSet(B)
  BY FS_Subset
<1> QED
  BY <1>1, FS_Subset, FS_CardinalityType

LEMMA CardGains ==
    ASSUME NEW S, IsFiniteSet(S), NEW A \in SUBSET S, NEW B \in SUBSET S, A \subseteq B,
           NEW x \in B, x \notin A
    PROVE  /\ Cardinality(A) \in Nat /\ Cardinality(B) \in Nat
           /\ Cardinality(A) + 1 <= Cardinality(B)
<1>1. IsFiniteSet(A) /\ IsFiniteSet(B)
  BY FS_Subset
<1>2. Cardinality(A \cup {x}) = Cardinality(A) + 1 /\ IsFiniteSet(A \cup {x})
  BY <1>1, FS_AddElement
<1>3. Cardinality(A \cup {x}) <= Cardinality(B)
  BY <1>1, FS_Subset
<1> QED
  BY <1>1, <1>2, <1>3, FS_CardinalityType

LEMMA CardLoses ==
    ASSUME NEW S, IsFiniteSet(S), NEW A \in SUBSET S, NEW B \in SUBSET S,
           NEW x, A \subseteq B \cup {x}
    PROVE  /\ Cardinality(A) \in Nat /\ Cardinality(B) \in Nat
           /\ Cardinality(A) <= Cardinality(B) + 1
<1>1. IsFiniteSet(A) /\ IsFiniteSet(B)
  BY FS_Subset
<1>2. /\ IsFiniteSet(B \cup {x})
      /\ Cardinality(B \cup {x}) = IF x \in B THEN Cardinality(B) ELSE Cardinality(B) + 1
  BY <1>1, FS_AddElement
<1>3. Cardinality(A) <= Cardinality(B \cup {x})
  BY <1>2, FS_Subset
<1>4. Cardinality(A) \in Nat /\ Cardinality(B) \in Nat
  BY <1>1, FS_CardinalityType
<1> QED
  BY <1>2, <1>3, <1>4

LEMMA SetsBounded ==
    /\ AwakeInside \in SUBSET Consumers /\ AwakeInside' \in SUBSET Consumers
    /\ Owing \in SUBSET Producers /\ Owing' \in SUBSET Producers
    /\ Unannounced \in SUBSET Producers /\ Unannounced' \in SUBSET Producers
    /\ IsFiniteSet(Consumers) /\ IsFiniteSet(Producers)
<1>1. IsFiniteSet(Consumers) /\ IsFiniteSet(Producers)
  BY CondVarAssumption
<1>2. AwakeInside \in SUBSET Consumers /\ AwakeInside' \in SUBSET Consumers
  BY DEF AwakeInside
<1>3. Owing \in SUBSET Producers /\ Owing' \in SUBSET Producers
  BY DEF Owing
<1> QED
  BY <1>1, <1>2, <1>3 DEF Unannounced

\* A step that brings no item and takes nobody off the two sets.
LEMMA CoverKept ==
    ASSUME CondVarInv, items' \in Nat, items' <= items,
           AwakeInside \subseteq AwakeInside', Owing \subseteq Owing',
           Unannounced \subseteq Unannounced',
           SomeLoaded' => SomeLoaded, SomeDozes' => SomeDozes
    PROVE  LoadedEmpty' /\ SignalsSuffice'
<1>1. /\ Cardinality(AwakeInside) \in Nat /\ Cardinality(AwakeInside') \in Nat
      /\ Cardinality(AwakeInside) <= Cardinality(AwakeInside')
  BY SetsBounded, CardGrows
<1>2. /\ Cardinality(Owing) \in Nat /\ Cardinality(Owing') \in Nat
      /\ Cardinality(Owing) <= Cardinality(Owing')
  BY SetsBounded, CardGrows
<1>3. /\ Cardinality(Unannounced) \in Nat /\ Cardinality(Unannounced') \in Nat
      /\ Cardinality(Unannounced) <= Cardinality(Unannounced')
  BY SetsBounded, CardGrows
<1>4. items \in Nat
  BY DEF CondVarInv, DataOK
<1>5. LoadedEmpty'
  BY <1>3, <1>4 DEF CondVarInv, LoadedEmpty
<1>6. SomeDozes => items <= Cardinality(AwakeInside) + Cardinality(Owing)
  BY DEF CondVarInv, SignalsSuffice, SomeDozes
<1>7. SomeDozes' => items' <= Cardinality(AwakeInside') + Cardinality(Owing')
  BY <1>1, <1>2, <1>4, <1>6
<1>8. SignalsSuffice'
  BY <1>7 DEF SignalsSuffice, SomeDozes
<1> QED
  BY <1>5, <1>8

\* A step that leaves no item.
LEMMA NothingToCover ==
    ASSUME items' = 0
    PROVE  LoadedEmpty' /\ SignalsSuffice'
<1>1. Cardinality(AwakeInside') \in Nat /\ Cardinality(Owing') \in Nat
  BY SetsBounded, CardGrows
<1>2. Cardinality(Unannounced') \in Nat
  BY SetsBounded, CardGrows
<1> QED
  BY <1>1, <1>2 DEF LoadedEmpty, SignalsSuffice

-----------------------------------------------------------------------------
(* The invariant is inductive *)

LEMMA CondVarInvInit == Init => CondVarInv
<1> SUFFICES ASSUME Init
             PROVE  CondVarInv
  OBVIOUS
<1>1. /\ state = M!UNLOCKED /\ pc = [t \in Threads |-> "out"]
      /\ current = [t \in Threads |-> M!UNLOCKED]
  BY DEF Init, M!Init
<1>2. MutexInv
  <2>1. MutexTypeOK
    BY <1>1 DEF MutexTypeOK, M!Labels, M!UNLOCKED
  <2>2. OneOwner
    BY <1>1 DEF OneOwner, Owning, M!UNLOCKED
  <2>3. M!LocalInv
    BY <1>1 DEF M!LocalInv
  <2> QED BY <2>1, <2>2, <2>3 DEF MutexInv
<1>3. ClientsOK
  BY <1>1 DEF Init, ClientsOK, Threads
<1>4. DataOK
  BY DEF Init, DataOK
<1>5. ~ SomeLoaded /\ ~ SomeDozes
  BY DEF Init, SomeLoaded, SomeDozes, Dozing, Threads
<1> QED
  BY <1>2, <1>3, <1>4, <1>5 DEF CondVarInv, LoadedEmpty, SignalsSuffice, SomeDozes

LEMMA ConsumerMoves ==
    ASSUME ClientsOK, NEW t \in Consumers, pc' = pc,
           NEW l \in {"waiting", "asleep", "awake", "got", "timeout"},
           at' = [at EXCEPT ![t] = l]
    PROVE  ClientsOK' /\ \A u \in Producers : at'[u] = at[u]
<1>1. t \in Threads /\ t \notin Producers
  BY CondVarAssumption DEF Threads
<1> QED
  BY <1>1 DEF ClientsOK, Threads

\* A step of the mutex alone.
LEMMA MutexStepCV ==
    ASSUME CondVarInv, NEW t \in Threads, MutexAct(t), UNCHANGED cvVars,
           M!Unlock(t) => at[t] # "start"
    PROVE  CondVarInv'
<1> USE DEF CondVarInv, cvVars
<1>1. MutexInv'
  BY MutexActKeeps
<1>2. /\ \A u \in Threads :
            u # t => pc'[u] = pc[u] \/ (pc[u] = "asleep" /\ pc'[u] = "load")
      /\ pc'[t] = "out" => pc[t] \in {"unlock_cas", "wake"}
      /\ pc'[t] \in {"unlock_cas", "unlock_contended", "wake"} =>
            M!Unlock(t) \/ pc[t] \in {"unlock_cas", "unlock_contended"}
  BY MutexMoves
<1>3. \A u \in Threads : at[u] = "start" =>
         /\ pc'[u] \notin {"unlock_cas", "unlock_contended", "wake"}
         /\ pc'[u] = "out" => pc[u] = "out"
  BY <1>2 DEF ClientsOK
<1>4. ClientsOK'
  BY <1>3 DEF ClientsOK
<1>5. DataOK'
  BY DEF DataOK
<1>6. AwakeInside \subseteq AwakeInside'
  BY <1>3 DEF AwakeInside, Dozing, Outside, Threads
<1>7. /\ Owing \subseteq Owing' /\ Unannounced \subseteq Unannounced'
      /\ (SomeLoaded' => SomeLoaded) /\ (SomeDozes' => SomeDozes)
  BY DEF Owing, Unannounced, SomeLoaded, SomeDozes, Dozing
<1>8. items' \in Nat /\ items' <= items
  BY DEF DataOK
<1> QED
  BY <1>1, <1>4, <1>5, <1>6, <1>7, <1>8, CoverKept

LEMMA TakeCV ==
    ASSUME CondVarInv, NEW t \in Consumers, Take(t)
    PROVE  CondVarInv'
<1> USE DEF CondVarInv, Take, GoOn, mutexVars
<1>0. t \in Threads
  BY DEF Threads
<1>1. MutexInv'
  BY MutexRests
<1>2. ClientsOK'
  BY <1>0, CondVarAssumption DEF ClientsOK
<1>3. DataOK'
  BY CondVarAssumption DEF DataOK
<1>4. AwakeInside \subseteq AwakeInside' \cup {t}
  BY DEF AwakeInside, Dozing, Outside, ClientsOK, Threads
<1>5. Owing \subseteq Owing'
  BY CondVarAssumption DEF Owing, ClientsOK, Threads
<1>6. Unannounced' = Unannounced
  BY DEF Unannounced
<1>7. (SomeLoaded' => SomeLoaded) /\ (SomeDozes' => SomeDozes)
  BY DEF SomeLoaded, SomeDozes, Dozing, ClientsOK, Threads
<1>8. /\ Cardinality(AwakeInside) \in Nat /\ Cardinality(AwakeInside') \in Nat
      /\ Cardinality(AwakeInside) <= Cardinality(AwakeInside') + 1
  BY <1>4, SetsBounded, CardLoses
<1>9. /\ Cardinality(Owing) \in Nat /\ Cardinality(Owing') \in Nat
      /\ Cardinality(Owing) <= Cardinality(Owing')
  BY <1>5, SetsBounded, CardGrows
<1>a. Cardinality(Unannounced) \in Nat /\ items \in Nat /\ items' = items - 1
  BY SetsBounded, CardGrows DEF DataOK
<1>b. LoadedEmpty'
  BY <1>6, <1>7, <1>a DEF LoadedEmpty
<1>c. SomeDozes => items <= Cardinality(AwakeInside) + Cardinality(Owing)
  BY DEF SignalsSuffice, SomeDozes
<1>d. SomeDozes' => items' <= Cardinality(AwakeInside') + Cardinality(Owing')
  BY <1>7, <1>8, <1>9, <1>a, <1>c
<1>e. SignalsSuffice'
  BY <1>d DEF SignalsSuffice, SomeDozes
<1> QED
  BY <1>1, <1>2, <1>3, <1>b, <1>e

\* A consumer gives up, or begins to wait, when there is no item.
LEMMA NoItemCV ==
    ASSUME CondVarInv, NEW t \in Consumers, GiveUp(t) \/ BeginWait(t)
    PROVE  CondVarInv'
<1> USE DEF CondVarInv, GiveUp, BeginWait, GoOn, mutexVars
<1>0. t \in Threads
  BY DEF Threads
<1>1. MutexInv'
  BY MutexRests
<1>2. ClientsOK' /\ \A u \in Producers : at'[u] = at[u]
  <2>1. pc' = pc
    OBVIOUS
  <2>2. \E l \in {"waiting", "asleep", "awake", "got", "timeout"} : at' = [at EXCEPT ![t] = l]
    OBVIOUS
  <2> QED BY <2>1, <2>2, ConsumerMoves
<1>3. DataOK'
  <2>1. seq' = seq /\ items' = items /\ owed' = owed
    OBVIOUS
  <2>2. my_seq' \in [Threads -> Nat] /\ \A u \in Threads : my_seq'[u] <= seq
    BY <1>0 DEF DataOK
  <2>3. \A u \in Producers : at'[u] = "start" => at[u] = "start"
    BY <1>2
  <2> QED BY <2>1, <2>2, <2>3 DEF DataOK
<1>4. items' = 0
  OBVIOUS
<1> QED
  BY <1>1, <1>2, <1>3, <1>4, NothingToCover

\* futex::wait: a consumer whose seq_ has moved is awake before and after.
LEMMA SleepOnSeqCV ==
    ASSUME CondVarInv, NEW t \in Consumers, SleepOnSeq(t)
    PROVE  CondVarInv'
<1> USE DEF CondVarInv, SleepOnSeq, GoOn, mutexVars
<1>0. t \in Threads
  BY DEF Threads
<1>1. MutexInv'
  BY MutexRests
<1>2. ClientsOK' /\ \A u \in Producers : at'[u] = at[u]
  <2>1. pc' = pc
    OBVIOUS
  <2>2. \E l \in {"waiting", "asleep", "awake", "got", "timeout"} : at' = [at EXCEPT ![t] = l]
    OBVIOUS
  <2> QED BY <2>1, <2>2, ConsumerMoves
<1>3. DataOK'
  <2>1. seq' = seq /\ items' = items /\ owed' = owed
    OBVIOUS
  <2>2. my_seq' \in [Threads -> Nat] /\ \A u \in Threads : my_seq'[u] <= seq
    BY <1>0 DEF DataOK
  <2>3. \A u \in Producers : at'[u] = "start" => at[u] = "start"
    BY <1>2
  <2> QED BY <2>1, <2>2, <2>3 DEF DataOK
<1>4. AwakeInside \subseteq AwakeInside'
  BY DEF AwakeInside, Dozing, Outside, ClientsOK, DataOK, Threads
<1>5. Owing \subseteq Owing' /\ Unannounced \subseteq Unannounced'
  BY CondVarAssumption DEF Owing, Unannounced, ClientsOK, Threads
<1>6. (SomeLoaded' => SomeLoaded) /\ (SomeDozes' => SomeDozes)
  BY DEF SomeLoaded, SomeDozes, Dozing, ClientsOK, DataOK, Threads
<1>7. items' \in Nat /\ items' <= items
  BY DEF DataOK
<1> QED
  BY <1>1, <1>2, <1>3, <1>4, <1>5, <1>6, <1>7, CoverKept

\* The wait is cut short: the consumer joins those awake inside their call.
LEMMA WokenCV ==
    ASSUME CondVarInv, NEW t \in Consumers, TimeOut(t) \/ Interrupt(t)
    PROVE  CondVarInv'
<1> USE DEF CondVarInv, TimeOut, Interrupt, GoOn, mutexVars
<1>0. t \in Threads
  BY DEF Threads
<1>1. MutexInv'
  BY MutexRests
<1>2. ClientsOK' /\ \A u \in Producers : at'[u] = at[u]
  <2>1. pc' = pc
    OBVIOUS
  <2>2. \E l \in {"waiting", "asleep", "awake", "got", "timeout"} : at' = [at EXCEPT ![t] = l]
    OBVIOUS
  <2> QED BY <2>1, <2>2, ConsumerMoves
<1>3. DataOK'
  <2>1. seq' = seq /\ items' = items /\ owed' = owed /\ my_seq' = my_seq
    OBVIOUS
  <2>3. \A u \in Producers : at'[u] = "start" => at[u] = "start"
    BY <1>2
  <2> QED BY <2>1, <2>3 DEF DataOK
<1>4. AwakeInside \subseteq AwakeInside'
  BY DEF AwakeInside, Dozing, Outside, ClientsOK, Threads
<1>5. Owing \subseteq Owing' /\ Unannounced \subseteq Unannounced'
  BY CondVarAssumption DEF Owing, Unannounced, ClientsOK, Threads
<1>6. (SomeLoaded' => SomeLoaded) /\ (SomeDozes' => SomeDozes)
  BY DEF SomeLoaded, SomeDozes, Dozing, ClientsOK, Threads
<1>7. items' \in Nat /\ items' <= items
  BY DEF DataOK
<1> QED
  BY <1>1, <1>2, <1>3, <1>4, <1>5, <1>6, <1>7, CoverKept

\* wait() goes for the mutex again.
LEMMA RelockCV ==
    ASSUME CondVarInv, NEW t \in Consumers, Relock(t)
    PROVE  CondVarInv'
<1> USE DEF CondVarInv, Relock, GoOn
<1>0. t \in Threads /\ pc[t] = "out"
  BY DEF Threads, Outside
<1>1. MutexAct(t)
  BY <1>0 DEF MutexAct
<1>2. MutexInv'
  BY <1>0, <1>1, MutexActKeeps
<1>3. /\ pc'[t] \in {"in", "spin"}
      /\ \A u \in Threads : u # t => pc'[u] = pc[u]
  BY <1>0 DEF M!TryAcquire, M!Goto, MutexInv, MutexTypeOK
<1>4. ClientsOK'
  BY <1>0, <1>3, CondVarAssumption DEF ClientsOK
<1>5. DataOK'
  <2>1. seq' = seq /\ items' = items /\ owed' = owed /\ my_seq' = my_seq
    OBVIOUS
  <2>3. \A u \in Producers : at'[u] = "start" => at[u] = "start"
    BY <1>0, CondVarAssumption DEF ClientsOK, Threads
  <2> QED BY <2>1, <2>3 DEF DataOK
<1>6. AwakeInside \subseteq AwakeInside'
  BY <1>3 DEF AwakeInside, Dozing, Outside, ClientsOK, Threads
<1>7. Owing \subseteq Owing' /\ Unannounced \subseteq Unannounced'
  BY CondVarAssumption DEF Owing, Unannounced, ClientsOK, Threads
<1>8. (SomeLoaded' => SomeLoaded) /\ (SomeDozes' => SomeDozes)
  BY DEF SomeLoaded, SomeDozes, Dozing, ClientsOK, Threads
<1>9. items' \in Nat /\ items' <= items
  BY DEF DataOK
<1> QED
  BY <1>2, <1>4, <1>5, <1>6, <1>7, <1>8, <1>9, CoverKept

LEMMA ProducerMoves ==
    ASSUME ClientsOK, NEW t \in Producers, pc' = pc,
           NEW l \in {"start", "hold", "signal", "broadcast"},
           at' = [at EXCEPT ![t] = l], l = "start" => pc[t] = "out"
    PROVE  ClientsOK' /\ at'[t] = l /\ \A u \in Threads : u # t => at'[u] = at[u]
<1>1. t \in Threads /\ t \notin Consumers
  BY CondVarAssumption DEF Threads
<1> QED
  BY <1>1 DEF ClientsOK, Threads

\* A new item is owed by the producer that has put it.
LEMMA PutCV ==
    ASSUME CondVarInv, NEW t \in Producers, Put(t)
    PROVE  CondVarInv'
<1> USE DEF CondVarInv, Put, GoOn, mutexVars
<1>0. t \in Threads /\ t \notin Consumers
  BY CondVarAssumption DEF Threads
<1>1. MutexInv'
  BY MutexRests
<1>2. ClientsOK' /\ at'[t] = "hold" /\ \A u \in Threads : u # t => at'[u] = at[u]
  BY ProducerMoves
<1>3. DataOK'
  <2>1. DOMAIN owed' = Producers /\ \A u \in Producers : u # t => owed'[u] = owed[u]
    BY DEF DataOK
  <2> QED BY <1>0, <1>2, <2>1 DEF DataOK, Threads
<1>4. \A u \in Consumers : at'[u] = at[u]
  BY <1>0, <1>2 DEF Threads
<1>5. AwakeInside \subseteq AwakeInside'
  BY <1>4 DEF AwakeInside, Dozing, Outside
<1>6. (SomeLoaded' => SomeLoaded) /\ (SomeDozes' => SomeDozes)
  BY <1>4 DEF SomeLoaded, SomeDozes, Dozing
<1>7. owed'[t] /\ ~ owed[t] /\ at[t] = "start" /\ \A u \in Producers : u # t => owed'[u] = owed[u]
  BY DEF DataOK
<1>8. Owing \subseteq Owing' /\ t \in Owing' /\ t \notin Owing
  BY <1>2, <1>7 DEF Owing, Threads
<1>9. Unannounced \subseteq Unannounced' /\ t \in Unannounced' /\ t \notin Unannounced
  BY <1>7 DEF Unannounced
<1>a. /\ Cardinality(AwakeInside) \in Nat /\ Cardinality(AwakeInside') \in Nat
      /\ Cardinality(AwakeInside) <= Cardinality(AwakeInside')
  BY <1>5, SetsBounded, CardGrows
<1>b. /\ Cardinality(Owing) \in Nat /\ Cardinality(Owing') \in Nat
      /\ Cardinality(Owing) + 1 <= Cardinality(Owing')
  BY <1>8, SetsBounded, CardGains
<1>c. /\ Cardinality(Unannounced) \in Nat /\ Cardinality(Unannounced') \in Nat
      /\ Cardinality(Unannounced) + 1 <= Cardinality(Unannounced')
  BY <1>9, SetsBounded, CardGains
<1>d. items \in Nat /\ items' = items + 1
  BY DEF DataOK
<1>e. LoadedEmpty'
  BY <1>6, <1>c, <1>d DEF LoadedEmpty
<1>f. SomeDozes => items <= Cardinality(AwakeInside) + Cardinality(Owing)
  BY DEF SignalsSuffice, SomeDozes
<1>g. SomeDozes' => items' <= Cardinality(AwakeInside') + Cardinality(Owing')
  BY <1>6, <1>a, <1>b, <1>d, <1>f
<1>h. SignalsSuffice'
  BY <1>g DEF SignalsSuffice, SomeDozes
<1> QED
  BY <1>1, <1>2, <1>3, <1>e, <1>h

\* seq_ moves on: nobody has it loaded any more, and whoever had is awake.
LEMMA BumpCV ==
    ASSUME CondVarInv, NEW t \in Producers, NEW kind \in {"signal", "broadcast"}, Bump(t, kind)
    PROVE  CondVarInv'
<1> USE DEF CondVarInv, Bump, GoOn, mutexVars
<1>0. t \in Threads /\ t \notin Consumers
  BY CondVarAssumption DEF Threads
<1>1. MutexInv'
  BY MutexRests
<1>2. ClientsOK' /\ at'[t] = kind /\ \A u \in Threads : u # t => at'[u] = at[u]
  BY ProducerMoves
<1>3. seq \in Nat /\ seq' = seq + 1 /\ items' = items /\ items \in Nat
  BY DEF DataOK
<1>4. /\ my_seq' \in [Threads -> Nat]
      /\ \A u \in Threads : my_seq'[u] <= seq
      /\ \A u \in Threads : u # t => my_seq'[u] = my_seq[u]
  BY <1>0 DEF DataOK
<1>5. /\ DOMAIN owed' = Producers
      /\ \A u \in Producers : u # t => owed'[u] = owed[u]
  BY DEF DataOK
<1>6. DataOK'
  BY <1>2, <1>3, <1>4, <1>5 DEF DataOK, Threads
<1>7. \A u \in Consumers : at'[u] = at[u] /\ my_seq'[u] # seq'
  BY <1>0, <1>2, <1>3, <1>4 DEF Threads
<1>8. ~ SomeLoaded'
  BY <1>7 DEF SomeLoaded
<1>9. SomeDozes' => SomeDozes
  BY <1>7 DEF SomeDozes, Dozing
<1>a. AwakeInside \subseteq AwakeInside'
  BY <1>7 DEF AwakeInside, Dozing, Outside
<1>b. Owing \subseteq Owing'
  BY <1>2, <1>5 DEF Owing, Threads
<1>c. /\ Cardinality(AwakeInside) \in Nat /\ Cardinality(AwakeInside') \in Nat
      /\ Cardinality(AwakeInside) <= Cardinality(AwakeInside')
  BY <1>a, SetsBounded, CardGrows
<1>d. /\ Cardinality(Owing) \in Nat /\ Cardinality(Owing') \in Nat
      /\ Cardinality(Owing) <= Cardinality(Owing')
  BY <1>b, SetsBounded, CardGrows
<1>e. SomeDozes => items <= Cardinality(AwakeInside) + Cardinality(Owing)
  BY DEF SignalsSuffice, SomeDozes
<1>f. SomeDozes' => items' <= Cardinality(AwakeInside') + Cardinality(Owing')
  BY <1>3, <1>9, <1>c, <1>d, <1>e
<1>g. LoadedEmpty' /\ SignalsSuffice'
  BY <1>8, <1>f DEF SignalsSuffice, SomeDozes, LoadedEmpty
<1> QED
  BY <1>1, <1>2, <1>6, <1>g

\* The wake: it finds nobody asleep, and then every dozing consumer has loaded
\* seq_ after the increment, when there was no item; or it takes a producer
\* off the owing ones and adds a consumer to the awake ones.
LEMMA WakeSeqCV ==
    ASSUME CondVarInv, NEW t \in Producers, at[t] \in {"signal", "broadcast"},
           NEW W, W \in WakeOne(SeqSleepers) \/ W \in WakeAll(SeqSleepers), WakeSeq(t, W)
    PROVE  CondVarInv'
<1> USE DEF CondVarInv, WakeSeq, mutexVars
<1>0. t \in Threads /\ t \notin Consumers
  BY CondVarAssumption DEF Threads
<1>1. MutexInv'
  BY MutexRests
<1>2. /\ W \subseteq SeqSleepers
      /\ SeqSleepers # {} => W # {}
  BY DEF WakeOne, WakeAll
<1>3. /\ DOMAIN at' = Threads /\ at'[t] = "hold"
      /\ \A u \in W : u \in Consumers /\ at[u] = "asleep" /\ at'[u] = "awake"
      /\ \A u \in Threads : u # t /\ u \notin W => at'[u] = at[u]
  BY <1>0, <1>2 DEF SeqSleepers, Threads
<1>4. \A u \in Producers : u \notin W
  BY <1>3, CondVarAssumption
<1>5. ClientsOK'
  <2>1. \A u \in Consumers :
           at'[u] \in {"start", "waiting", "asleep", "awake", "got", "timeout"}
    BY <1>0, <1>3 DEF ClientsOK, Threads
  <2>2. \A u \in Producers : at'[u] \in {"start", "hold", "signal", "broadcast"}
    BY <1>3, <1>4 DEF ClientsOK, Threads
  <2>3. \A u \in Threads :
          at'[u] = "start" => pc'[u] \notin {"unlock_cas", "unlock_contended", "wake"}
    BY <1>3 DEF ClientsOK
  <2> QED BY <1>3, <2>1, <2>2, <2>3 DEF ClientsOK
<1>6. /\ my_seq' \in [Threads -> Nat]
      /\ \A u \in Threads : my_seq'[u] <= seq
      /\ \A u \in Threads : u # t => my_seq'[u] = my_seq[u]
  BY <1>0 DEF DataOK
<1>7. DataOK'
  BY <1>3, <1>4, <1>6 DEF DataOK, Threads
<1>8. Unannounced' = Unannounced /\ items' = items /\ items \in Nat /\ seq' = seq
  BY DEF Unannounced, DataOK
<1>9. (SomeLoaded' => SomeLoaded) /\ (SomeDozes' => SomeDozes)
  BY <1>0, <1>3, <1>6, <1>8 DEF SomeLoaded, SomeDozes, Dozing, Threads
<1>a. LoadedEmpty'
  BY <1>8, <1>9 DEF LoadedEmpty
<1>b. AwakeInside \subseteq AwakeInside'
  BY <1>0, <1>3, <1>6, <1>8 DEF AwakeInside, Dozing, Outside, Threads
<1>c. Owing \subseteq Owing' \cup {t} /\ Unannounced \subseteq Owing'
  BY <1>3, <1>4, <1>8 DEF Owing, Unannounced, Threads
<1>d. /\ Cardinality(Owing) \in Nat /\ Cardinality(Owing') \in Nat
      /\ Cardinality(Owing) <= Cardinality(Owing') + 1
  BY <1>c, SetsBounded, CardLoses
<1>e. /\ Cardinality(Unannounced) \in Nat
      /\ Cardinality(Unannounced) <= Cardinality(Owing')
  BY <1>c, SetsBounded, CardGrows
<1>f. CASE SeqSleepers = {}
  <2>1. Cardinality(AwakeInside') \in Nat
    BY SetsBounded, CardGrows
  <2>2. SomeDozes' => SomeLoaded
    BY <1>9, <1>f DEF SomeDozes, SomeLoaded, Dozing, SeqSleepers
  <2>3. SomeDozes' => items' <= Cardinality(AwakeInside') + Cardinality(Owing')
    BY <1>8, <1>d, <1>e, <2>1, <2>2 DEF LoadedEmpty
  <2>4. SignalsSuffice'
    BY <2>3 DEF SignalsSuffice, SomeDozes
  <2> QED BY <1>1, <1>5, <1>7, <1>a, <2>4
<1>g. CASE SeqSleepers # {}
  <2>1. PICK w \in W : TRUE
    BY <1>2, <1>g
  <2>2. w \in AwakeInside' /\ w \notin AwakeInside
    BY <1>3 DEF AwakeInside, Dozing
  <2>3. /\ Cardinality(AwakeInside) \in Nat /\ Cardinality(AwakeInside') \in Nat
        /\ Cardinality(AwakeInside) + 1 <= Cardinality(AwakeInside')
    BY <1>b, <2>2, SetsBounded, CardGains
  <2>4. SomeDozes => items <= Cardinality(AwakeInside) + Cardinality(Owing)
    BY DEF SignalsSuffice, SomeDozes
  <2>5. SomeDozes' => items' <= Cardinality(AwakeInside') + Cardinality(Owing')
    BY <1>8, <1>9, <1>d, <2>3, <2>4
  <2>6. SignalsSuffice'
    BY <2>5 DEF SignalsSuffice, SomeDozes
  <2> QED BY <1>1, <1>5, <1>7, <1>a, <2>6
<1> QED
  BY <1>f, <1>g

LEMMA AgainCV ==
    ASSUME CondVarInv, NEW t \in Producers, Again(t)
    PROVE  CondVarInv'
<1> USE DEF CondVarInv, Again, GoOn, mutexVars
<1>0. t \in Threads /\ t \notin Consumers
  BY CondVarAssumption DEF Threads
<1>1. MutexInv'
  BY MutexRests
<1>2. ClientsOK' /\ at'[t] = "start" /\ \A u \in Threads : u # t => at'[u] = at[u]
  BY ProducerMoves DEF Outside
<1>3. DataOK'
  BY <1>2 DEF DataOK, Threads
<1>4. \A u \in Consumers : at'[u] = at[u]
  BY <1>0, <1>2 DEF Threads
<1>5. AwakeInside \subseteq AwakeInside'
  BY <1>4 DEF AwakeInside, Dozing, Outside
<1>6. (SomeLoaded' => SomeLoaded) /\ (SomeDozes' => SomeDozes)
  BY <1>4 DEF SomeLoaded, SomeDozes, Dozing
<1>7. Owing \subseteq Owing' /\ Unannounced \subseteq Unannounced'
  BY <1>2 DEF Owing, Unannounced, Threads
<1>8. items' \in Nat /\ items' <= items
  BY DEF DataOK
<1> QED
  BY <1>1, <1>2, <1>3, <1>5, <1>6, <1>7, <1>8, CoverKept

\* A step that leaves all but the deadlines alone.
LEMMA RestCV ==
    ASSUME CondVarInv, UNCHANGED <<mutexVars, seq, at, my_seq, items, owed>>
    PROVE  CondVarInv'
<1> USE DEF CondVarInv, mutexVars
<1>1. MutexInv'
  BY MutexRests
<1>2. ClientsOK' /\ DataOK'
  BY DEF ClientsOK, DataOK
<1>3. /\ AwakeInside \subseteq AwakeInside' /\ Owing \subseteq Owing'
      /\ Unannounced \subseteq Unannounced'
      /\ (SomeLoaded' => SomeLoaded) /\ (SomeDozes' => SomeDozes)
  BY DEF AwakeInside, Owing, Unannounced, SomeLoaded, SomeDozes, Dozing, Outside
<1>4. items' \in Nat /\ items' <= items
  BY DEF DataOK
<1> QED
  BY <1>1, <1>2, <1>3, <1>4, CoverKept

LEMMA CondVarInvStep == CondVarInv /\ [Next]_vars => CondVarInv'
<1> SUFFICES ASSUME CondVarInv, [Next]_vars
             PROVE  CondVarInv'
  OBVIOUS
<1>1. ASSUME NEW t \in Threads, Lock(t)
      PROVE  CondVarInv'
  <2>1. MutexAct(t) /\ ~ M!Unlock(t)
    BY <1>1 DEF Lock, M!Lock, M!Call, M!Unlock, MutexAct
  <2> QED BY <1>1, <2>1, MutexStepCV DEF Lock
<1>2. ASSUME NEW t \in Threads, Unlock(t)
      PROVE  CondVarInv'
  <2>1. MutexAct(t) /\ at[t] # "start"
    BY <1>2 DEF Unlock, MutexAct
  <2> QED BY <1>2, <2>1, MutexStepCV DEF Unlock
<1>3. ASSUME NEW t \in Threads, MutexStep(t)
      PROVE  CondVarInv'
  <2>1. MutexAct(t)
    BY <1>3 DEF MutexStep, MutexAct, M!Progress, M!Spin
  <2>2. ~ M!Unlock(t)
    BY <1>3 DEF MutexStep, M!Progress, M!Spin, M!Register, M!Load, M!AcquireRegistered,
       M!FutexWait, M!UnlockFast, M!UnlockContended, M!Wake, M!SpuriousWake, M!Unlock
  <2> QED BY <1>3, <2>1, <2>2, MutexStepCV DEF MutexStep
<1>4. ASSUME NEW t \in Consumers, ConsumerStep(t) \/ Interrupt(t)
      PROVE  CondVarInv'
  BY <1>4, TakeCV, NoItemCV, SleepOnSeqCV, RelockCV, WokenCV DEF ConsumerStep
<1>5. ASSUME NEW t \in Consumers, Expire(t)
      PROVE  CondVarInv'
  BY <1>5, RestCV DEF Expire
<1>6. ASSUME NEW t \in Producers, ProducerStep(t)
      PROVE  CondVarInv'
  <2>1. CASE Signal(t)
    BY <2>1, WakeSeqCV DEF Signal
  <2>2. CASE Broadcast(t)
    BY <2>2, WakeSeqCV DEF Broadcast
  <2> QED BY <1>6, <2>1, <2>2, PutCV, BumpCV, AgainCV DEF ProducerStep
<1>7. CASE UNCHANGED vars
  BY <1>7, RestCV DEF vars, cvVars
<1> QED
  BY <1>1, <1>2, <1>3, <1>4, <1>5, <1>6, <1>7 DEF Next, Finished

THEOREM CondVarInvariance == Spec => []CondVarInv
  BY CondVarInvInit, CondVarInvStep, PTL DEF Spec

\* One signal() per item is enough, for any number of producers and consumers:
\* while a consumer dozes in wait(), every item is matched by a consumer that
\* is awake inside its call or by a producer that has yet to wake somebody.
THEOREM SignalsAlwaysSuffice == Spec => []SignalsSuffice
  BY CondVarInvariance, PTL DEF CondVarInv

\* wait() returns with the mutex: the data of the predicate changes only in a
\* step of the one thread that owns it.
THEOREM ClientsActAsOwners == Spec => ActsAsOwner
<1>1. CondVarInv /\ [Next]_vars =>
         [items' # items => \E t \in Threads : M!Holders = {t} /\ at'[t] # at[t]]_vars
  <2> SUFFICES ASSUME CondVarInv, Next, items' # items
               PROVE  \E t \in Threads : M!Holders = {t} /\ at'[t] # at[t]
    OBVIOUS
  <2>1. PICK t \in Threads : (t \in Consumers /\ Take(t)) \/ (t \in Producers /\ Put(t))
    <3>1. \A t \in Threads : Lock(t) \/ Unlock(t) \/ MutexStep(t) => UNCHANGED items
      BY DEF Lock, Unlock, MutexStep, cvVars
    <3>2. \A t \in Consumers : ConsumerStep(t) \/ Interrupt(t) \/ Expire(t)
                                  => Take(t) \/ UNCHANGED items
      BY DEF ConsumerStep, Interrupt, Expire, GiveUp, BeginWait, SleepOnSeq, Relock, TimeOut
    <3>3. \A t \in Producers : ProducerStep(t) => Put(t) \/ UNCHANGED items
      BY DEF ProducerStep, Bump, Signal, Broadcast, Again, WakeSeq
    <3>4. Finished => UNCHANGED items
      BY DEF Finished, vars, cvVars
    <3> QED BY <3>1, <3>2, <3>3, <3>4 DEF Next, Threads
  <2>2. pc[t] = "in" /\ at[t] = "start" /\ at'[t] \in {"got", "hold"}
    BY <2>1 DEF Take, Put, Owns, GoOn, CondVarInv, ClientsOK
  <2>3. \A u \in Threads : pc[u] \in Owning <=> u = t
    BY <2>2 DEF Owning, CondVarInv, MutexInv, OneOwner
  <2>4. M!Holders = {t}
    BY <2>3 DEF M!Holders, Owning
  <2> QED BY <2>2, <2>4
<1> QED
  BY <1>1, CondVarInvariance, PTL DEF Spec, ActsAsOwner
=============================================================================
