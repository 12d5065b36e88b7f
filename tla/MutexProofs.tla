----------------------------- MODULE MutexProofs -----------------------------
(***************************************************************************)
(* Proofs about psync::Mutex for any finite set of threads and any number  *)
(* of calls: the safety invariants of Mutex.tla, and that the mutex        *)
(* implements AbstractLock.                                                *)
(***************************************************************************)
EXTENDS Mutex, FiniteSetTheorems, TLAPS

\* The registered threads form a finite set, so their number is a natural
\* number that moves by one when a thread enters or leaves.
LEMMA RegisteredFinite ==
    /\ IsFiniteSet(Registered)
    /\ Cardinality(Registered) \in Nat
  <1>1. Registered \in SUBSET Threads
    BY DEF Registered
  <1>2. IsFiniteSet(Registered)
    BY <1>1, FS_Subset, MutexAssumption
  <1> QED BY <1>2, FS_CardinalityType

\* A registered thread is counted by the word, so an unlock() that finds
\* LOCKED_NO_WAITERS leaves nobody behind.
LEMMA RegisteredCounted ==
    ASSUME WaitersCounted, NEW t \in Threads, t \in Registered
    PROVE  state.waiters # 0
  <1>1. Registered # {}
    OBVIOUS
  <1>2. Cardinality(Registered) # 0
    BY <1>1, RegisteredFinite, FS_EmptySet
  <1> QED BY <1>2 DEF WaitersCounted

\* The initial state satisfies the invariant: the mutex is free, nobody is
\* registered.
LEMMA InitIInv == Init => IInv
  <1> SUFFICES ASSUME Init PROVE IInv
    OBVIOUS
  <1> USE DEF Init
  <1>1. TypeOK
    BY MutexAssumption DEF TypeOK, Words, Labels, UNLOCKED
  <1>2. Registered = {} /\ Holders = {} /\ Sleepers = {}
    BY DEF Registered, Holders, Sleepers
  <1>3. OwnerInv /\ LocalInv /\ NoLostWakeup
    BY <1>2 DEF OwnerInv, LocalInv, NoLostWakeup, UNLOCKED
  <1>4. WaitersCounted
    BY <1>2, FS_EmptySet DEF WaitersCounted, UNLOCKED
  <1> QED BY <1>1, <1>3, <1>4 DEF IInv

\* The compare-exchange UNLOCKED -> LOCKED_NO_WAITERS by a thread that is
\* neither an owner nor registered keeps the invariant, whether it succeeds
\* or sends the thread to a label of the same kind.
LEMMA TryAcquireIInv ==
    ASSUME IInv, NEW t \in Threads, pc[t] \in {"out", "spin"},
           NEW otherwise \in {"out", "spin", "register"},
           TryAcquire(t, otherwise),
           calls' \in [Threads -> 0 .. MaxCalls]
    PROVE  IInv'
  <1> USE DEF IInv
  <1>1. TypeOK'
    <2>1. "in" \in Labels /\ otherwise \in Labels
      BY DEF Labels
    <2>2. pc' \in [Threads -> Labels]
      BY <2>1 DEF TypeOK, TryAcquire, Goto
    <2>3. LOCKED_NO_WAITERS \in Words
      BY DEF Words, LOCKED_NO_WAITERS
    <2>4. state' \in Words /\ current' \in [Threads -> Words]
      BY <2>3 DEF TypeOK, TryAcquire
    <2> QED BY <2>2, <2>4 DEF TypeOK
  <1>2. Registered' = Registered /\ Sleepers' = Sleepers
    BY DEF TypeOK, TryAcquire, Goto, Registered, Sleepers
  <1>3. CASE state = UNLOCKED
    <2>1. Holders = {} /\ Holders' = {t}
      BY <1>3 DEF TypeOK, OwnerInv, TryAcquire, Goto, Holders, UNLOCKED
    <2>2. state' = LOCKED_NO_WAITERS
      BY <1>3 DEF TryAcquire
    <2>3. OwnerInv'
      BY <2>1, <2>2 DEF OwnerInv, LOCKED_NO_WAITERS
    <2>4. WaitersCounted'
      BY <1>2, <1>3, <2>2 DEF WaitersCounted, LOCKED_NO_WAITERS, UNLOCKED
    <2>5. NoLostWakeup'
      BY <2>2 DEF NoLostWakeup, LOCKED_NO_WAITERS
    <2>6. LocalInv'
      BY <1>3 DEF TypeOK, TryAcquire, Goto, LocalInv
    <2> QED BY <1>1, <2>3, <2>4, <2>5, <2>6
  <1>4. CASE state # UNLOCKED
    <2>1. state' = state /\ current' = current /\ Holders' = Holders
      BY <1>4 DEF TypeOK, TryAcquire, Goto, Holders
    <2>2. OwnerInv' /\ WaitersCounted'
      BY <1>2, <2>1 DEF OwnerInv, WaitersCounted
    <2>3. LocalInv'
      BY <1>4, <2>1 DEF TypeOK, TryAcquire, Goto, LocalInv
    <2>4. NoLostWakeup'
      BY <1>2, <1>4, <2>1 DEF TypeOK, TryAcquire, Goto, NoLostWakeup
    <2> QED BY <1>1, <2>2, <2>3, <2>4
  <1> QED BY <1>3, <1>4

\* The fetch_add of lock_contended(): one more registered thread, counted.
LEMMA RegisterIInv ==
    ASSUME IInv, NEW t \in Threads, Register(t)
    PROVE  IInv'
  <1> USE DEF IInv
  <1>1. state' = [state EXCEPT !.waiters = @ + 1]
    BY DEF Register
  <1>2. state.waiters \in Nat /\ state'.waiters = state.waiters + 1
        /\ state'.locked = state.locked /\ state' \in Words
    <2>1. state \in Words /\ state.waiters \in Nat /\ state.locked \in BOOLEAN
      BY DEF TypeOK, Words
    <2>2. state'.waiters = state.waiters + 1 /\ state'.locked = state.locked
      BY <1>1, <2>1 DEF Words
    <2>3. state' = [locked |-> state.locked, waiters |-> state.waiters + 1]
      BY <1>1, <2>1 DEF Words
    <2>4. state' \in Words
      BY <2>1, <2>3 DEF Words
    <2> QED BY <2>1, <2>2, <2>4
  <1>3. TypeOK'
    <2>1. "load" \in Labels
      BY DEF Labels
    <2> QED BY <1>2, <2>1 DEF TypeOK, Register, Goto
  <1>4. Registered' = Registered \cup {t} /\ t \notin Registered
    BY DEF TypeOK, Register, Goto, Registered
  <1>5. WaitersCounted'
    <2>1. Cardinality(Registered \cup {t}) = Cardinality(Registered) + 1
      BY <1>4, RegisteredFinite, FS_AddElement
    <2> QED BY <1>2, <1>4, <2>1 DEF WaitersCounted
  <1>6. Holders' = Holders /\ Sleepers' = Sleepers
    BY DEF TypeOK, Register, Goto, Holders, Sleepers
  <1>7. OwnerInv'
    BY <1>2, <1>6 DEF OwnerInv
  <1>8. LocalInv'
    BY DEF TypeOK, Register, Goto, LocalInv
  <1>9. NoLostWakeup'
    BY DEF TypeOK, Register, Goto, NoLostWakeup
  <1> QED BY <1>3, <1>5, <1>7, <1>8, <1>9

\* The load of lock_contended() fixes what is known of `current'.
LEMMA LoadIInv ==
    ASSUME IInv, NEW t \in Threads, Load(t)
    PROVE  IInv'
  <1> USE DEF IInv
  <1>1. TypeOK'
    <2>1. "wait" \in Labels /\ "cas" \in Labels
      BY DEF Labels
    <2> QED BY <2>1 DEF TypeOK, Load, Goto
  <1>2. Registered' = Registered /\ Holders' = Holders
    BY DEF TypeOK, Load, Goto, Registered, Holders
  <1>3. OwnerInv' /\ WaitersCounted'
    BY <1>2 DEF Load, OwnerInv, WaitersCounted
  <1>4. LocalInv'
    BY DEF TypeOK, Load, Goto, LocalInv
  <1>5. NoLostWakeup'
    BY DEF TypeOK, Load, Goto, NoLostWakeup
  <1> QED BY <1>1, <1>3, <1>4, <1>5

\* The acquiring compare-exchange of a registered waiter: the word said the
\* mutex is free, so there was no owner, and one registered thread leaves.
LEMMA AcquireRegisteredIInv ==
    ASSUME IInv, NEW t \in Threads, AcquireRegistered(t)
    PROVE  IInv'
  <1> USE DEF IInv
  <1>1. t \in Registered
    BY DEF AcquireRegistered, Registered
  <1>2. current' = [current EXCEPT ![t] = UNLOCKED]
        /\ current' \in [Threads -> Words]
    <2>1. UNLOCKED \in Words
      BY DEF UNLOCKED, Words
    <2> QED BY <2>1 DEF AcquireRegistered, Forget, TypeOK
  <1>3. CASE state = current[t]
    <2>1. state' = TakenBy(state) /\ pc' = [pc EXCEPT ![t] = "in"]
          /\ calls' = calls
      BY <1>3 DEF AcquireRegistered, Goto
    <2>2. ~ state.locked
      BY <1>3 DEF AcquireRegistered, LocalInv
    <2>3. state.waiters \in Nat /\ state.waiters # 0
      BY <1>1, RegisteredCounted DEF TypeOK, Words
    <2>4. state'.locked /\ state'.waiters = state.waiters - 1
          /\ state'.waiters \in Nat
      BY <2>1, <2>3 DEF TakenBy
    <2>5. TypeOK'
      <3>1. "in" \in Labels
        BY DEF Labels
      <3>2. state' \in Words
        BY <2>1, <2>4 DEF TakenBy, Words
      <3> QED BY <1>2, <2>1, <3>1, <3>2 DEF TypeOK
    <2>6. Holders = {} /\ Holders' = {t}
      BY <2>1, <2>2 DEF TypeOK, OwnerInv, Holders
    <2>7. OwnerInv'
      BY <2>4, <2>6 DEF OwnerInv
    <2>8. Registered' = Registered \ {t}
      BY <2>1 DEF TypeOK, Registered
    <2>9. WaitersCounted'
      <3>1. Cardinality(Registered \ {t}) = Cardinality(Registered) - 1
        BY <1>1, RegisteredFinite, FS_RemoveElement
      <3> QED BY <2>4, <2>8, <3>1 DEF WaitersCounted
    <2>10. LocalInv'
      BY <1>2, <2>1 DEF TypeOK, LocalInv
    <2>11. NoLostWakeup'
      BY <2>4 DEF NoLostWakeup
    <2> QED BY <2>5, <2>7, <2>9, <2>10, <2>11
  <1>4. CASE state # current[t]
    <2>1. state' = state /\ pc' = [pc EXCEPT ![t] = "load"]
          /\ calls' = calls /\ pc[t] = "cas"
      BY <1>4 DEF AcquireRegistered, Goto
    <2>2. TypeOK'
      <3>1. "load" \in Labels
        BY DEF Labels
      <3> QED BY <1>2, <2>1, <3>1 DEF TypeOK
    <2>3. Registered' = Registered /\ Holders' = Holders
      BY <2>1 DEF TypeOK, Registered, Holders
    <2>4. OwnerInv' /\ WaitersCounted'
      BY <2>1, <2>3 DEF OwnerInv, WaitersCounted
    <2>5. LocalInv' /\ NoLostWakeup'
      BY <1>2, <2>1 DEF TypeOK, LocalInv, NoLostWakeup
    <2> QED BY <2>2, <2>4, <2>5
  <1> QED BY <1>3, <1>4

\* futex::wait: a thread falls asleep only on a word that says "locked", so
\* it never becomes a sleeper of a free mutex.
LEMMA FutexWaitIInv ==
    ASSUME IInv, NEW t \in Threads, FutexWait(t)
    PROVE  IInv'
  <1> USE DEF IInv
  <1>1. TypeOK'
    <2>1. "asleep" \in Labels /\ "load" \in Labels
      BY DEF Labels
    <2>2. UNLOCKED \in Words
      BY DEF UNLOCKED, Words
    <2> QED BY <2>1, <2>2 DEF TypeOK, FutexWait, Goto, Forget
  <1>2. Registered' = Registered /\ Holders' = Holders
    BY DEF TypeOK, FutexWait, Goto, Registered, Holders
  <1>3. OwnerInv' /\ WaitersCounted'
    BY <1>2 DEF FutexWait, OwnerInv, WaitersCounted
  <1>4. LocalInv'
    BY DEF TypeOK, FutexWait, Goto, Forget, LocalInv
  <1>5. NoLostWakeup'
    BY DEF TypeOK, FutexWait, Goto, LocalInv, NoLostWakeup
  <1> QED BY <1>1, <1>3, <1>4, <1>5

\* A wait that returns by itself leaves the thread awake and registered.
LEMMA SpuriousWakeIInv ==
    ASSUME IInv, NEW t \in Threads, SpuriousWake(t)
    PROVE  IInv'
  <1> USE DEF IInv
  <1>1. TypeOK'
    <2>1. "load" \in Labels
      BY DEF Labels
    <2> QED BY <2>1 DEF TypeOK, SpuriousWake, Goto
  <1>2. Registered' = Registered /\ Holders' = Holders
    BY DEF TypeOK, SpuriousWake, Goto, Registered, Holders
  <1>3. OwnerInv' /\ WaitersCounted'
    BY <1>2 DEF SpuriousWake, OwnerInv, WaitersCounted
  <1>4. LocalInv' /\ NoLostWakeup'
    BY DEF TypeOK, SpuriousWake, Goto, LocalInv, NoLostWakeup
  <1> QED BY <1>1, <1>3, <1>4

\* The load of unlock() only chooses a path: the thread stays the owner.
LEMMA UnlockIInv ==
    ASSUME IInv, NEW t \in Threads, Unlock(t)
    PROVE  IInv'
  <1> USE DEF IInv
  <1>1. TypeOK'
    <2>1. "unlock_cas" \in Labels /\ "unlock_contended" \in Labels
      BY DEF Labels
    <2> QED BY <2>1 DEF TypeOK, Unlock, Goto
  <1>2. Registered' = Registered /\ Holders' = Holders /\ Sleepers' = Sleepers
    BY DEF TypeOK, Unlock, Goto, Registered, Holders, Sleepers
  <1>3. OwnerInv' /\ WaitersCounted'
    BY <1>2 DEF Unlock, OwnerInv, WaitersCounted
  <1>4. LocalInv'
    BY DEF TypeOK, Unlock, Goto, LocalInv
  <1>5. NoLostWakeup'
    BY <1>2 DEF TypeOK, Unlock, Goto, NoLostWakeup
  <1> QED BY <1>1, <1>3, <1>4, <1>5

\* The releasing compare-exchange of unlock(): it succeeds only when no
\* thread is registered, hence none asleep, and may skip the wake.
LEMMA UnlockFastIInv ==
    ASSUME IInv, NEW t \in Threads, UnlockFast(t)
    PROVE  IInv'
  <1> USE DEF IInv
  <1>1. t \in Holders
    BY DEF UnlockFast, Holders
  <1>2. CASE state = LOCKED_NO_WAITERS
    <2>1. state' = UNLOCKED /\ pc' = [pc EXCEPT ![t] = "out"]
          /\ current' = current /\ calls' = calls /\ pc[t] = "unlock_cas"
      BY <1>2 DEF UnlockFast, Goto
    <2>2. TypeOK'
      <3>1. "out" \in Labels
        BY DEF Labels
      <3>2. UNLOCKED \in Words
        BY DEF UNLOCKED, Words
      <3> QED BY <2>1, <3>1, <3>2 DEF TypeOK
    <2>3. Registered' = Registered /\ Sleepers' = Sleepers
      BY <2>1 DEF TypeOK, Registered, Sleepers
    <2>4. Holders' = Holders \ {t}
      BY <2>1 DEF TypeOK, Holders
    <2>5. OwnerInv'
      BY <1>1, <2>1, <2>4 DEF OwnerInv, UNLOCKED
    <2>6. WaitersCounted'
      BY <1>2, <2>1, <2>3 DEF WaitersCounted, UNLOCKED, LOCKED_NO_WAITERS
    <2>7. LocalInv'
      BY <2>1 DEF TypeOK, LocalInv
    <2>8. Registered = {}
      BY <1>2, RegisteredFinite, FS_EmptySet
      DEF WaitersCounted, LOCKED_NO_WAITERS
    <2>9. NoLostWakeup'
      BY <2>3, <2>8 DEF NoLostWakeup, Registered, Sleepers
    <2> QED BY <2>2, <2>5, <2>6, <2>7, <2>9
  <1>3. CASE state # LOCKED_NO_WAITERS
    <2>1. state' = state /\ pc' = [pc EXCEPT ![t] = "unlock_contended"]
          /\ current' = current /\ calls' = calls /\ pc[t] = "unlock_cas"
      BY <1>3 DEF UnlockFast, Goto
    <2>2. TypeOK'
      <3>1. "unlock_contended" \in Labels
        BY DEF Labels
      <3> QED BY <2>1, <3>1 DEF TypeOK
    <2>3. Registered' = Registered /\ Holders' = Holders /\ Sleepers' = Sleepers
      BY <2>1 DEF TypeOK, Registered, Holders, Sleepers
    <2>4. OwnerInv' /\ WaitersCounted'
      BY <2>1, <2>3 DEF OwnerInv, WaitersCounted
    <2>5. LocalInv'
      BY <2>1 DEF TypeOK, LocalInv
    <2>6. NoLostWakeup'
      BY <2>1, <2>3 DEF TypeOK, NoLostWakeup
    <2> QED BY <2>2, <2>4, <2>5, <2>6
  <1> QED BY <1>2, <1>3

\* The fetch_and of unlock_contended(): the mutex becomes free and this
\* thread owes a wake.
LEMMA UnlockContendedIInv ==
    ASSUME IInv, NEW t \in Threads, UnlockContended(t)
    PROVE  IInv'
  <1> USE DEF IInv
  <1>1. pc' = [pc EXCEPT ![t] = "wake"] /\ current' = current
        /\ calls' = calls /\ pc[t] = "unlock_contended"
    BY DEF UnlockContended, Goto
  <1>2. state' = [locked |-> FALSE, waiters |-> state.waiters]
        /\ state.waiters \in Nat
    BY DEF UnlockContended, TypeOK, Words
  <1>3. TypeOK'
    <2>1. "wake" \in Labels
      BY DEF Labels
    <2>2. state' \in Words
      BY <1>2 DEF Words
    <2> QED BY <1>1, <2>1, <2>2 DEF TypeOK
  <1>4. Registered' = Registered
    BY <1>1 DEF TypeOK, Registered
  <1>5. t \in Holders /\ Holders' = Holders \ {t}
    BY <1>1 DEF TypeOK, Holders
  <1>6. OwnerInv'
    BY <1>2, <1>5 DEF OwnerInv
  <1>7. WaitersCounted'
    BY <1>2, <1>4 DEF WaitersCounted
  <1>8. LocalInv'
    BY <1>1 DEF TypeOK, LocalInv
  <1>9. NoLostWakeup'
    BY <1>1 DEF TypeOK, NoLostWakeup
  <1> QED BY <1>3, <1>6, <1>7, <1>8, <1>9

\* futex::wake(&state_, 1): pays the wake that was owed.  Either a sleeper is
\* now awake, or there was none.
LEMMA WakeIInv ==
    ASSUME IInv, NEW t \in Threads, Wake(t)
    PROVE  IInv'
  <1> USE DEF IInv
  <1>1. PICK W \in WakeOne(Sleepers) :
            pc' = [u \in Threads |-> IF u = t THEN "out"
                                     ELSE IF u \in W THEN "load" ELSE pc[u]]
    BY DEF Wake
  <1>2. W \subseteq Sleepers /\ (Sleepers # {} => W # {})
    BY DEF WakeOne
  <1>3. state' = state /\ current' = current /\ calls' = calls /\ pc[t] = "wake"
    BY DEF Wake
  <1>4. TypeOK'
    <2>1. "out" \in Labels /\ "load" \in Labels
      BY DEF Labels
    <2> QED BY <1>1, <1>3, <2>1 DEF TypeOK
  <1>5. Registered' = Registered /\ Holders' = Holders
    BY <1>1, <1>2, <1>3 DEF TypeOK, Registered, Holders, Sleepers
  <1>6. OwnerInv' /\ WaitersCounted'
    BY <1>3, <1>5 DEF OwnerInv, WaitersCounted
  <1>7. LocalInv'
    BY <1>1, <1>2, <1>3 DEF TypeOK, LocalInv, Sleepers
  <1>8. NoLostWakeup'
    BY <1>1, <1>2, <1>3 DEF TypeOK, NoLostWakeup, Sleepers
  <1> QED BY <1>4, <1>6, <1>7, <1>8

\* Every step of the mutex preserves the invariant.
LEMMA NextIInv == IInv /\ [Next]_vars => IInv'
  <1> SUFFICES ASSUME IInv, [Next]_vars PROVE IInv'
    OBVIOUS
  <1>1. ASSUME NEW t \in Threads, Lock(t) PROVE IInv'
    <2>1. calls' \in [Threads -> 0 .. MaxCalls]
      BY <1>1, MutexAssumption DEF IInv, TypeOK, Lock, Call
    <2> QED BY <1>1, <2>1, TryAcquireIInv DEF Lock, Call
  <1>2. ASSUME NEW t \in Threads, TryLock(t) PROVE IInv'
    <2>1. calls' \in [Threads -> 0 .. MaxCalls]
      BY <1>2, MutexAssumption DEF IInv, TypeOK, TryLock, Call
    <2> QED BY <1>2, <2>1, TryAcquireIInv DEF TryLock, Call
  <1>3. ASSUME NEW t \in Threads, Progress(t) PROVE IInv'
    <2>1. CASE Spin(t)
      <3>1. calls' \in [Threads -> 0 .. MaxCalls]
        BY <2>1 DEF IInv, TypeOK, Spin
      <3> QED BY <2>1, <3>1, TryAcquireIInv DEF Spin
    <2> QED BY <1>3, <2>1, RegisterIInv, LoadIInv, AcquireRegisteredIInv,
               FutexWaitIInv, UnlockFastIInv, UnlockContendedIInv, WakeIInv
            DEF Progress
  <1>4. CASE UNCHANGED vars
    BY <1>4 DEF vars, IInv, TypeOK, OwnerInv, LocalInv, WaitersCounted,
                NoLostWakeup, Registered, Holders, Sleepers
  <1> QED BY <1>1, <1>2, <1>3, <1>4, UnlockIInv, SpuriousWakeIInv
          DEF Next, Finished

\* The inductive invariant holds in every reachable state.
THEOREM Invariance == Spec => []IInv
  BY InitIInv, NextIInv, PTL DEF Spec

\* Type correctness: among other things the waiter field of the word never
\* underflows, however many threads contend.
THEOREM TypeCorrect == Spec => []TypeOK
  BY Invariance, PTL DEF IInv

\* The waiter field counts the registered threads, so that unlock() may rely
\* on LOCKED_NO_WAITERS to skip the wake.
THEOREM WaitersAreCounted == Spec => []WaitersCounted
  BY Invariance, PTL DEF IInv

\* A free mutex with a sleeper always has a wake outstanding or an awake
\* contender: unlock() loses no wake-up.
THEOREM NoWakeupIsLost == Spec => []NoLostWakeup
  BY Invariance, PTL DEF IInv

\* How a step changes the set of owners: it does nothing, or a thread takes
\* a mutex nobody owns, or the only owner gives it up.
LEMMA OwnersStep ==
    ASSUME IInv, Next
    PROVE  \/ Holders' = Holders
           \/ \E t \in Threads : Holders = {} /\ Holders' = {t}
           \/ \E t \in Threads : Holders = {t} /\ Holders' = {}
  <1> DEFINE Goal ==
           \/ Holders' = Holders
           \/ \E t \in Threads : Holders = {} /\ Holders' = {t}
           \/ \E t \in Threads : Holders = {t} /\ Holders' = {}
  <1> USE DEF IInv
  <1>1. ASSUME NEW t \in Threads, NEW otherwise \in {"out", "spin", "register"},
               pc[t] \in {"out", "spin"}, TryAcquire(t, otherwise)
        PROVE  Goal
    <2>1. CASE state = UNLOCKED
      <3>1. Holders = {} /\ Holders' = {t}
        BY <1>1, <2>1 DEF TypeOK, OwnerInv, TryAcquire, Goto, Holders, UNLOCKED
      <3> QED BY <3>1
    <2>2. CASE state # UNLOCKED
      BY <1>1, <2>2 DEF TypeOK, TryAcquire, Goto, Holders
    <2> QED BY <2>1, <2>2
  <1>2. ASSUME NEW t \in Threads, AcquireRegistered(t) PROVE Goal
    <2>1. CASE state = current[t]
      <3>1. Holders = {}
        BY <1>2, <2>1 DEF AcquireRegistered, LocalInv, OwnerInv
      <3>2. Holders' = {t}
        BY <1>2, <2>1, <3>1 DEF TypeOK, AcquireRegistered, Goto, Holders
      <3> QED BY <3>1, <3>2
    <2>2. CASE state # current[t]
      BY <1>2, <2>2 DEF TypeOK, AcquireRegistered, Goto, Holders
    <2> QED BY <2>1, <2>2
  <1>3. ASSUME NEW t \in Threads, UnlockFast(t) \/ UnlockContended(t) PROVE Goal
    <2>1. Holders = {t}
      BY <1>3 DEF TypeOK, OwnerInv, UnlockFast, UnlockContended, Holders
    <2>2. Holders' = {t} \/ Holders' = {}
      BY <1>3, <2>1 DEF TypeOK, UnlockFast, UnlockContended, Goto, Holders
    <2> QED BY <2>1, <2>2
  <1>4. ASSUME NEW t \in Threads,
               Register(t) \/ Load(t) \/ FutexWait(t) \/ SpuriousWake(t) \/ Unlock(t)
        PROVE  Goal
    BY <1>4 DEF TypeOK, Register, Load, FutexWait, SpuriousWake, Unlock, Goto,
                Holders
  <1>5. ASSUME NEW t \in Threads, Wake(t) PROVE Goal
    BY <1>5 DEF TypeOK, Wake, WakeOne, Sleepers, Holders
  <1>6. ASSUME Finished PROVE Goal
    BY <1>6 DEF Finished, vars, Holders
  <1> HIDE DEF Goal
  <1>7. Goal
    <2>1. ASSUME NEW t \in Threads, Lock(t) \/ TryLock(t) \/ Spin(t) PROVE Goal
      BY <1>1, <2>1 DEF Lock, TryLock, Call, Spin
    <2>2. ASSUME NEW t \in Threads, Progress(t) PROVE Goal
      BY <1>2, <1>3, <1>4, <1>5, <2>1, <2>2 DEF Progress
    <2> QED BY <1>4, <1>6, <2>1, <2>2 DEF Next
  <1> QED BY <1>7 DEF Goal

\* Mutual exclusion as a refinement: the futex mutex implements the abstract
\* lock, for every set of threads.
THEOREM MutexImplementsLock == Spec => ImplementsLock
  <1>1. Init => Abstract!Init
    BY DEF Init, Abstract!Init, Holders
  <1>2. IInv /\ [Next]_vars => [Abstract!Next]_Holders
    <2> SUFFICES ASSUME IInv, [Next]_vars PROVE [Abstract!Next]_Holders
      OBVIOUS
    <2>1. CASE Next
      BY <2>1, OwnersStep
      DEF Abstract!Next, Abstract!Acquire, Abstract!Release
    <2>2. CASE UNCHANGED vars
      BY <2>2 DEF vars, Holders
    <2> QED BY <2>1, <2>2
  <1> QED BY <1>1, <1>2, Invariance, PTL DEF Spec, ImplementsLock, Abstract!Spec

=============================================================================
