--------------------------- MODULE SpinningProofs ---------------------------
(***************************************************************************)
(* Proofs about the primitives of Primitives that never sleep: SeqLock,    *)
(* the RAII wrappers, SpinLock and TicketLock, for every number of threads *)
(* and calls.                                                              *)
(***************************************************************************)
EXTENDS SleepingProofs

-----------------------------------------------------------------------------
(* SeqLock *)

\* What a cell held while the sequence number was seq, or the last even number
\* before it.
ValueAt(seq) == IF seq = 0 THEN 0 ELSE seq - 1

IsWriter(t) == pc[t] \in {"write1", "write2", "write_end"}

SeqTypeOK ==
    /\ DOMAIN pc = Threads
    /\ word \in Nat
    /\ local \in [Threads -> Nat]
    /\ cells \in [{1, 2} -> Nat]
    /\ copy \in [Threads -> [{1, 2} -> Nat]]

\* There is one writer at most, and while there is one the number is odd.  The
\* cells it has not written are those of the even number before.
WriterInv ==
    /\ \A t, u \in Threads : IsWriter(t) /\ IsWriter(u) => t = u
    /\ word % 2 = 1 <=> \E t \in Threads : IsWriter(t)
    /\ word % 2 = 0 => cells[1] = ValueAt(word) /\ cells[2] = ValueAt(word)
    /\ \A t \in Threads :
          /\ pc[t] \in {"write1", "write2"} => local[t] = word
          /\ pc[t] = "write1" => cells[1] = ValueAt(word - 1)
          /\ pc[t] \in {"write1", "write2"} => cells[2] = ValueAt(word - 1)
          /\ pc[t] \in {"write2", "write_end"} => cells[1] = word
          /\ pc[t] = "write_end" => cells[2] = word

\* A reader began at an even number.  As long as that is the number, what it
\* has copied so far is what the cells held then; once accepted, it always is.
ReaderInv ==
    \A t \in Threads :
        /\ pc[t] \in {"read1", "read2", "read_retry", "accept"} =>
              local[t] % 2 = 0 /\ local[t] <= word
        /\ pc[t] \in {"read2", "read_retry"} /\ word = local[t] =>
              copy[t][1] = ValueAt(local[t])
        /\ pc[t] = "read_retry" /\ word = local[t] => copy[t][2] = ValueAt(local[t])
        /\ pc[t] = "accept" =>
              copy[t][1] = ValueAt(local[t]) /\ copy[t][2] = ValueAt(local[t])

SeqInv == SeqTypeOK /\ WriterInv /\ ReaderInv

SeqNext ==
    \E t \in Threads : WriteBegin(t) \/ ReadTransaction(t) \/ SeqRun(t)

LEMMA SeqSteps ==
    ASSUME kind = "seqlock", [Next]_vars
    PROVE  kind' = "seqlock" /\ (SeqNext \/ UNCHANGED <<wordVars, seqVars>>)
  BY DEF Next, vars, Start, Disturb, Run, Over, SeqNext,
     WordStep, BarrierStep, OnceStep, TicketStep, SeqStep, GuardStep

LEMMA SeqStart == Init /\ kind = "seqlock" => SeqInv
<1> SUFFICES ASSUME Init, kind = "seqlock" PROVE SeqInv
  OBVIOUS
<1>1. WordInit(0, MaxCalls) /\ SeqInit
  BY DEF Init
<1> QED
  BY <1>1 DEF WordInit, SeqInit, Nothing, SeqInv, SeqTypeOK, WriterInv, ReaderInv,
              IsWriter, ValueAt

\* The next number has the other parity.
LEMMA Parity ==
    ASSUME word \in Nat, word' = word + 1
    PROVE  /\ word % 2 = 0 => word' % 2 = 1
           /\ word % 2 = 1 => word' % 2 = 0
           /\ word % 2 = 0 \/ word % 2 = 1
           /\ word' - 1 = word /\ word' > word
  OBVIOUS

LEMMA SeqStepInv ==
    ASSUME SeqInv, SeqNext \/ UNCHANGED <<wordVars, seqVars>>
    PROVE  SeqInv'
<1> USE DEF SeqInv, SeqTypeOK, WriterInv, ReaderInv, IsWriter, ValueAt, seqVars
<1>1. CASE UNCHANGED <<wordVars, seqVars>>
  BY <1>1 DEF wordVars
<1>2. ASSUME NEW t \in Threads, WriteBegin(t)
      PROVE  SeqInv'
  <2> USE DEF WriteBegin, Writing, Begin, Keep, Idle
  <2>1. SeqTypeOK'
    BY <1>2
  <2>2. word % 2 = 0 /\ word' % 2 = 1 /\ word' - 1 = word /\ word' > word
    <3>1. word' = word + 1 /\ word \in Nat
      BY <1>2
    <3>2. word % 2 # 1
      BY <1>2
    <3> QED
      BY <3>1, <3>2, Parity
  <2>3. WriterInv'
    BY <1>2, <2>2
  <2>4. ReaderInv'
    BY <1>2, <2>2
  <2> QED
    BY <2>1, <2>3, <2>4
<1>3. ASSUME NEW t \in Threads, ReadTransaction(t)
      PROVE  SeqInv'
  BY <1>3 DEF ReadTransaction, Begin, Keep, Idle
<1>4. ASSUME NEW t \in Threads, WriteCell(t)
      PROVE  SeqInv'
  <2> USE DEF WriteCell, Fill, Move, Keep, Idle
  <2>1. SeqTypeOK' /\ word' = word /\ copy' = copy
    BY <1>4
  <2>2. WriterInv'
    <3>1. CASE pc[t] = "write1"
      BY <1>4, <3>1
    <3>2. CASE pc[t] = "write2"
      BY <1>4, <3>2
    <3> QED
      BY <1>4, <3>1, <3>2
  <2>3. ReaderInv'
    BY <1>4, <2>1
  <2> QED
    BY <2>1, <2>2, <2>3
<1>5. ASSUME NEW t \in Threads, WriteEnd(t)
      PROVE  SeqInv'
  <2> USE DEF WriteEnd, Move, Keep, Idle
  <2>1. SeqTypeOK'
    BY <1>5
  <2>2. word % 2 = 1 /\ word' % 2 = 0 /\ word' - 1 = word /\ word' > word
    <3>1. word' = word + 1 /\ word \in Nat
      BY <1>5
    <3>2. word % 2 = 1
      BY <1>5
    <3> QED
      BY <3>1, <3>2, Parity
  <2>3. WriterInv'
    BY <1>5, <2>2
  <2>4. ReaderInv'
    BY <1>5, <2>2
  <2> QED
    BY <2>1, <2>3, <2>4
<1>6. ASSUME NEW t \in Threads, ReadBegin(t)
      PROVE  SeqInv'
  BY <1>6 DEF ReadBegin, Move, Keep, Idle
<1>7. ASSUME NEW t \in Threads, ReadCell(t)
      PROVE  SeqInv'
  BY <1>7 DEF ReadCell, Fill, Move, Keep, Idle
<1>8. ASSUME NEW t \in Threads, ReadRetry(t) \/ ReadReturn(t)
      PROVE  SeqInv'
  BY <1>8 DEF ReadRetry, ReadReturn, Discard, Nothing, Move, Keep, Idle
<1> QED
  BY <1>1, <1>2, <1>3, <1>4, <1>5, <1>6, <1>7, <1>8 DEF SeqNext, SeqRun

\* A transaction of SeqLock returns what the cells held at one moment, for any
\* number of readers and of writes that overtake it.
THEOREM SnapshotAlwaysConsistent == Spec => []SnapshotConsistent
<1> DEFINE Inv == kind = "seqlock" => SeqInv
<1>1. Init => Inv
  BY SeqStart
<1>2. Inv /\ [Next]_vars => Inv'
  <2>1. [Next]_vars => kind' = kind
    BY DEF Next, vars, Start, Disturb, Run, Over,
       WordStep, BarrierStep, OnceStep, TicketStep, SeqStep, GuardStep
  <2> QED
    BY <2>1, SeqSteps, SeqStepInv
<1>3. Inv => SnapshotConsistent
  <2> SUFFICES ASSUME SeqInv, NEW t \in Threads, pc[t] = "accept"
               PROVE  copy[t] = SnapshotOf(local[t])
    BY DEF SnapshotConsistent
  <2> QED
    BY DEF SeqInv, SeqTypeOK, ReaderInv, ValueAt, SnapshotOf
<1> QED
  BY <1>1, <1>2, <1>3, PTL DEF Spec

-----------------------------------------------------------------------------
(* The RAII wrappers *)

GuardTypeOK ==
    /\ alive \subseteq Objects
    /\ mutex \in [Objects -> Mutexes \cup {nullptr}]
    /\ owns \in [Objects -> BOOLEAN]
    /\ held \in [Mutexes -> Int]
    /\ byHand \in [Mutexes -> Nat]
    /\ guarded \subseteq Mutexes

Bit(b) == IF b THEN 1 ELSE 0

\* g will unlock m.
Holds(g, m) == g \in alive /\ owns[g] /\ mutex[g] = m

\* Only objects that exist own anything, and an owner has a mutex.
OwnershipInv ==
    \A g \in Objects : owns[g] => g \in alive /\ mutex[g] \in Mutexes

\* The locks held are those of the objects, of the client and of the LockGuards.
Ledger(m) == held[m] = Cardinality(OwnersOf(m)) + byHand[m] + Bit(m \in guarded)

LedgerInv == \A m \in Mutexes : Ledger(m) /\ (class = "UniqueLock" => held[m] <= 1)

GuardInv == GuardTypeOK /\ OwnershipInv /\ LedgerInv

GuardNext ==
    \/ \E g \in Objects : ObjectStep(g)
    \/ \E m \in Mutexes :
         ByHand(m) \/ LockGuard(m) \/ \E how \in {"exclusive", "shared"} : Scoped(m, how)

LEMMA GuardSteps ==
    ASSUME [Next]_vars
    PROVE  GuardNext \/ UNCHANGED guardVars
  BY DEF Next, vars, Start, Disturb, Run, Over, GuardNext,
     WordStep, BarrierStep, OnceStep, TicketStep, SeqStep, GuardStep,
     UniqueLock, SharedLock, BatchGuard, ExclusiveBatchGuard, SharedBatchGuard

\* A finite set has one element more than without the one that is in it.
LEMMA CountOne ==
    ASSUME NEW S, IsFiniteSet(S), NEW g
    PROVE  /\ IsFiniteSet(S \ {g})
           /\ Cardinality(S) \in Nat /\ Cardinality(S \ {g}) \in Nat
           /\ Cardinality(S) = Cardinality(S \ {g}) + Bit(g \in S)
<1>1. IsFiniteSet(S \ {g}) /\ Cardinality(S) \in Nat
  BY FS_RemoveElement, FS_CardinalityType
<1>2. Cardinality(S \ {g}) \in Nat
  BY <1>1, FS_CardinalityType
<1>3. CASE g \in S
  BY <1>1, <1>2, <1>3, FS_RemoveElement DEF Bit
<1>4. CASE g \notin S
  <2>1. S \ {g} = S
    BY <1>4
  <2> QED
    BY <1>1, <1>4, <2>1 DEF Bit
<1> QED
  BY <1>1, <1>2, <1>3, <1>4

\* The owners of m after a step that touches no object but g and h.
LEMMA OwnersChange ==
    ASSUME GuardTypeOK, GuardTypeOK', NEW g \in Objects, NEW h \in Objects, g # h,
           NEW m \in Mutexes,
           \A k \in Objects \ {g, h} : Holds(k, m)' <=> Holds(k, m)
    PROVE  /\ Cardinality(OwnersOf(m)) \in Nat /\ Cardinality(OwnersOf(m))' \in Nat
           /\ Cardinality(OwnersOf(m))' + Bit(Holds(g, m)) + Bit(Holds(h, m))
                = Cardinality(OwnersOf(m)) + Bit(Holds(g, m)') + Bit(Holds(h, m)')
<1>1. PICK S : S = OwnersOf(m)
  OBVIOUS
<1>2. PICK T : T = OwnersOf(m)'
  OBVIOUS
<1>3. S = {k \in Objects : Holds(k, m)} /\ T = {k \in Objects : Holds(k, m)'}
  BY <1>1, <1>2 DEF OwnersOf, Holds, GuardTypeOK
<1>4. IsFiniteSet(S) /\ IsFiniteSet(T)
  BY <1>3, GuardsAssumption, FS_Subset
<1>5. (S \ {g}) \ {h} = (T \ {g}) \ {h}
  BY <1>3
<1>6. /\ IsFiniteSet(S \ {g}) /\ IsFiniteSet(T \ {g})
      /\ Cardinality(S) \in Nat /\ Cardinality(T) \in Nat
      /\ Cardinality(S) = Cardinality(S \ {g}) + Bit(g \in S)
      /\ Cardinality(T) = Cardinality(T \ {g}) + Bit(g \in T)
  BY <1>4, CountOne
<1>7. /\ Cardinality((S \ {g}) \ {h}) \in Nat
      /\ Cardinality(S \ {g}) = Cardinality((S \ {g}) \ {h}) + Bit(h \in S \ {g})
      /\ Cardinality(T \ {g}) = Cardinality((T \ {g}) \ {h}) + Bit(h \in T \ {g})
  BY <1>6, CountOne
<1>8. /\ (g \in S <=> Holds(g, m)) /\ (h \in S <=> Holds(h, m))
      /\ (g \in T <=> Holds(g, m)') /\ (h \in T <=> Holds(h, m)')
      /\ (h \in S \ {g} <=> h \in S) /\ (h \in T \ {g} <=> h \in T)
  BY <1>3
<1> QED
  BY <1>1, <1>2, <1>5, <1>6, <1>7, <1>8 DEF Bit

\* The same for a step that touches no object but g.
LEMMA OwnersChangeOne ==
    ASSUME GuardTypeOK, GuardTypeOK', NEW g \in Objects, NEW m \in Mutexes,
           \A k \in Objects \ {g} : Holds(k, m)' <=> Holds(k, m)
    PROVE  /\ Cardinality(OwnersOf(m)) \in Nat /\ Cardinality(OwnersOf(m))' \in Nat
           /\ Cardinality(OwnersOf(m))' + Bit(Holds(g, m))
                = Cardinality(OwnersOf(m)) + Bit(Holds(g, m)')
<1>1. PICK S : S = OwnersOf(m)
  OBVIOUS
<1>2. PICK T : T = OwnersOf(m)'
  OBVIOUS
<1>3. S = {k \in Objects : Holds(k, m)} /\ T = {k \in Objects : Holds(k, m)'}
  BY <1>1, <1>2 DEF OwnersOf, Holds, GuardTypeOK
<1>4. IsFiniteSet(S) /\ IsFiniteSet(T)
  BY <1>3, GuardsAssumption, FS_Subset
<1>5. S \ {g} = T \ {g}
  BY <1>3
<1>6. /\ Cardinality(S) \in Nat /\ Cardinality(T) \in Nat /\ Cardinality(S \ {g}) \in Nat
      /\ Cardinality(S) = Cardinality(S \ {g}) + Bit(g \in S)
      /\ Cardinality(T) = Cardinality(S \ {g}) + Bit(g \in T)
  BY <1>4, <1>5, CountOne
<1>7. (g \in S <=> Holds(g, m)) /\ (g \in T <=> Holds(g, m)')
  BY <1>3
<1> QED
  BY <1>1, <1>2, <1>6, <1>7 DEF Bit

\* The owners of m when no object is touched.
LEMMA OwnersKept ==
    ASSUME UNCHANGED objectVars, NEW m \in Mutexes
    PROVE  Cardinality(OwnersOf(m))' = Cardinality(OwnersOf(m))
  BY DEF objectVars, OwnersOf

LEMMA OwnersNat ==
    ASSUME GuardTypeOK, NEW m \in Mutexes
    PROVE  Cardinality(OwnersOf(m)) \in Nat
<1>1. OwnersOf(m) \subseteq Objects
  BY DEF GuardTypeOK, OwnersOf
<1> QED
  BY <1>1, GuardsAssumption, FS_Subset, FS_CardinalityType

LEMMA GuardStart == Init => GuardInv
<1> SUFFICES ASSUME Init PROVE GuardInv
  OBVIOUS
<1>1. GuardTypeOK /\ OwnershipInv
  BY DEF Init, GuardsInit, GuardTypeOK, OwnershipInv
<1>2. \A m \in Mutexes : OwnersOf(m) = {} /\ held[m] = 0 /\ byHand[m] = 0 /\ m \notin guarded
  BY DEF Init, GuardsInit, OwnersOf
<1>3. LedgerInv
  BY <1>2, FS_EmptySet DEF LedgerInv, Ledger, Bit
<1> QED
  BY <1>1, <1>3 DEF GuardInv

\* A step that gives the right account of every mutex keeps the invariant.
LEMMA OneObjectInv ==
    ASSUME GuardInv, NEW g \in Objects, GuardTypeOK', OwnershipInv',
           \A k \in Objects \ {g} : \A m \in Mutexes : Holds(k, m)' <=> Holds(k, m),
           \A m \in Mutexes :
              /\ held'[m] + Bit(Holds(g, m)) + byHand[m] + Bit(m \in guarded)
                   = held[m] + Bit(Holds(g, m)') + byHand'[m] + Bit(m \in guarded')
              /\ class' = "UniqueLock" => held'[m] <= 1
    PROVE  GuardInv'
<1> SUFFICES ASSUME NEW m \in Mutexes PROVE Ledger(m)'
  BY DEF GuardInv, LedgerInv
<1>1. /\ Cardinality(OwnersOf(m)) \in Nat /\ Cardinality(OwnersOf(m))' \in Nat
      /\ Cardinality(OwnersOf(m))' + Bit(Holds(g, m))
           = Cardinality(OwnersOf(m)) + Bit(Holds(g, m)')
  BY OwnersChangeOne DEF GuardInv
<1>2. held[m] = Cardinality(OwnersOf(m)) + byHand[m] + Bit(m \in guarded)
  BY DEF GuardInv, LedgerInv, Ledger
<1>3. /\ held[m] \in Int /\ held'[m] \in Int /\ byHand[m] \in Nat /\ byHand'[m] \in Nat
  BY DEF GuardInv, GuardTypeOK
<1>4. held'[m] = Cardinality(OwnersOf(m))' + byHand'[m] + Bit(m \in guarded')
  BY <1>1, <1>2, <1>3 DEF Bit
<1> QED
  BY <1>4 DEF Ledger

LEMMA TwoObjectsInv ==
    ASSUME GuardInv, NEW g \in Objects, NEW h \in Objects, g # h,
           GuardTypeOK', OwnershipInv', UNCHANGED <<byHand, guarded>>,
           \A k \in Objects \ {g, h} : \A m \in Mutexes : Holds(k, m)' <=> Holds(k, m),
           \A m \in Mutexes :
              /\ held'[m] + Bit(Holds(g, m)) + Bit(Holds(h, m))
                   = held[m] + Bit(Holds(g, m)') + Bit(Holds(h, m)')
              /\ class' = "UniqueLock" => held'[m] <= 1
    PROVE  GuardInv'
<1> SUFFICES ASSUME NEW m \in Mutexes PROVE Ledger(m)'
  BY DEF GuardInv, LedgerInv
<1>1. /\ Cardinality(OwnersOf(m)) \in Nat /\ Cardinality(OwnersOf(m))' \in Nat
      /\ Cardinality(OwnersOf(m))' + Bit(Holds(g, m)) + Bit(Holds(h, m))
           = Cardinality(OwnersOf(m)) + Bit(Holds(g, m)') + Bit(Holds(h, m)')
  BY OwnersChange DEF GuardInv
<1>2. held[m] = Cardinality(OwnersOf(m)) + byHand[m] + Bit(m \in guarded)
  BY DEF GuardInv, LedgerInv, Ledger
<1>3. /\ held[m] \in Int /\ held'[m] \in Int /\ byHand[m] \in Nat
  BY DEF GuardInv, GuardTypeOK
<1>4. held'[m] = Cardinality(OwnersOf(m))' + byHand'[m] + Bit(m \in guarded')
  BY <1>1, <1>2, <1>3 DEF Bit
<1> QED
  BY <1>4 DEF Ledger

LEMMA NoObjectInv ==
    ASSUME GuardInv, GuardTypeOK', UNCHANGED objectVars,
           \A m \in Mutexes :
              /\ held'[m] + byHand[m] + Bit(m \in guarded)
                   = held[m] + byHand'[m] + Bit(m \in guarded')
              /\ class' = "UniqueLock" => held'[m] <= 1
    PROVE  GuardInv'
<1>1. OwnershipInv'
  BY DEF GuardInv, OwnershipInv, objectVars
<1> SUFFICES ASSUME NEW m \in Mutexes PROVE Ledger(m)'
  BY <1>1 DEF GuardInv, LedgerInv
<1>2. /\ Cardinality(OwnersOf(m)) \in Nat
      /\ Cardinality(OwnersOf(m))' = Cardinality(OwnersOf(m))
  BY OwnersKept, OwnersNat DEF GuardInv
<1>3. held[m] = Cardinality(OwnersOf(m)) + byHand[m] + Bit(m \in guarded)
  BY DEF GuardInv, LedgerInv, Ledger
<1>4. /\ held[m] \in Int /\ held'[m] \in Int /\ byHand[m] \in Nat /\ byHand'[m] \in Nat
  BY DEF GuardInv, GuardTypeOK
<1>5. held'[m] = Cardinality(OwnersOf(m))' + byHand'[m] + Bit(m \in guarded')
  BY <1>2, <1>3, <1>4 DEF Bit
<1> QED
  BY <1>5 DEF Ledger

\* The steps that lock, unlock or hand over a mutex through the object g alone.
LEMMA OneObjectSteps ==
    ASSUME GuardInv, UNCHANGED <<class, guarded>>, NEW g \in Objects,
           \/ Born(g, ConstructNone(g))
           \/ \E m \in Mutexes :
                Born(g, Construct(g, m)) \/ Born(g, ConstructDefer(g, m))
                \/ Born(g, ConstructAdopt(g, m))
           \/ Lock(g) \/ Unlock(g) \/ ReleaseMutex(g) \/ Destroy(g)
    PROVE  GuardInv'
<1> DEFINE Account ==
        /\ GuardTypeOK' /\ OwnershipInv'
        /\ \A k \in Objects \ {g} : \A m \in Mutexes : Holds(k, m)' <=> Holds(k, m)
        /\ \A m \in Mutexes :
              /\ held'[m] + Bit(Holds(g, m)) + byHand[m] + Bit(m \in guarded)
                   = held[m] + Bit(Holds(g, m)') + byHand'[m] + Bit(m \in guarded')
              /\ class' = "UniqueLock" => held'[m] <= 1
<1>1. CASE Born(g, ConstructNone(g))
  <2>1. Account
    BY <1>1, GuardsAssumption
    DEF ConstructNone, Sets, Born, Holds,
        GuardInv, GuardTypeOK, OwnershipInv, LedgerInv, Bit
  <2> QED
    BY <2>1, OneObjectInv
<1>2. ASSUME NEW m \in Mutexes, Born(g, Construct(g, m)) PROVE GuardInv'
  <2>1. Account
    BY <1>2, GuardsAssumption
    DEF Construct, Grantable, Locked, Sets, Born, Holds,
        GuardInv, GuardTypeOK, OwnershipInv, LedgerInv, Bit
  <2> QED
    BY <2>1, OneObjectInv
<1>3. ASSUME NEW m \in Mutexes, Born(g, ConstructDefer(g, m)) PROVE GuardInv'
  <2>1. Account
    BY <1>3, GuardsAssumption
    DEF ConstructDefer, Sets, Born, Holds,
        GuardInv, GuardTypeOK, OwnershipInv, LedgerInv, Bit
  <2> QED
    BY <2>1, OneObjectInv
<1>4. ASSUME NEW m \in Mutexes, Born(g, ConstructAdopt(g, m)) PROVE GuardInv'
  <2>1. Account
    BY <1>4, GuardsAssumption
    DEF ConstructAdopt, Adopted, Sets, Born, Holds,
        GuardInv, GuardTypeOK, OwnershipInv, LedgerInv, Bit
  <2> QED
    BY <2>1, OneObjectInv
<1>5. CASE Lock(g)
  <2>1. Account
    BY <1>5, GuardsAssumption
    DEF Lock, Grantable, Locked, Sets, Born, Holds,
        GuardInv, GuardTypeOK, OwnershipInv, LedgerInv, Bit
  <2> QED
    BY <2>1, OneObjectInv
<1>6. CASE Unlock(g)
  <2>1. Account
    BY <1>6, GuardsAssumption
    DEF Unlock, Unlocked, Sets, Born, Holds,
        GuardInv, GuardTypeOK, OwnershipInv, LedgerInv, Bit
  <2> QED
    BY <2>1, OneObjectInv
<1>7. CASE ReleaseMutex(g)
  <2>1. Account
    BY <1>7, GuardsAssumption
    DEF ReleaseMutex, Sets, Born, Holds,
        GuardInv, GuardTypeOK, OwnershipInv, LedgerInv, Bit
  <2> QED
    BY <2>1, OneObjectInv
<1>8. CASE Destroy(g)
  <2>1. Account
    BY <1>8, GuardsAssumption
    DEF Destroy, GiveUp, Unlocked, Sets, Born, Holds,
        GuardInv, GuardTypeOK, OwnershipInv, LedgerInv, Bit
  <2> QED
    BY <2>1, OneObjectInv
<1> QED
  BY <1>1, <1>2, <1>3, <1>4, <1>5, <1>6, <1>7, <1>8

\* The steps that move a lock from one object to another.
LEMMA TwoObjectSteps ==
    ASSUME GuardInv, UNCHANGED <<class, guarded>>,
           NEW g \in Objects, NEW h \in Objects,
           Born(g, MoveConstruct(g, h)) \/ MoveAssign(g, h) \/ Swap(g, h)
    PROVE  GuardInv'
<1> DEFINE Account ==
        /\ GuardTypeOK' /\ OwnershipInv' /\ UNCHANGED <<byHand, guarded>>
        /\ \A k \in Objects \ {g, h} : \A m \in Mutexes : Holds(k, m)' <=> Holds(k, m)
        /\ \A m \in Mutexes :
              /\ held'[m] + Bit(Holds(g, m)) + Bit(Holds(h, m))
                   = held[m] + Bit(Holds(g, m)') + Bit(Holds(h, m)')
              /\ class' = "UniqueLock" => held'[m] <= 1
<1>1. CASE Born(g, MoveConstruct(g, h))
  <2>1. Account /\ g # h
    BY <1>1, GuardsAssumption
    DEF MoveConstruct, Moved, Born, Holds,
        GuardInv, GuardTypeOK, OwnershipInv, LedgerInv, Bit
  <2> QED
    BY <2>1, TwoObjectsInv
<1>2. CASE MoveAssign(g, h)
  <2>1. Account /\ g # h
    BY <1>2, GuardsAssumption
    DEF MoveAssign, GiveUp, Unlocked, Moved, Born, Holds,
        GuardInv, GuardTypeOK, OwnershipInv, LedgerInv, Bit
  <2> QED
    BY <2>1, TwoObjectsInv
<1>3. CASE Swap(g, h) /\ g # h
  <2>1. Account
    BY <1>3, GuardsAssumption
    DEF Swap, Moved, Born, Holds,
        GuardInv, GuardTypeOK, OwnershipInv, LedgerInv, Bit
  <2> QED
    BY <1>3, <2>1, TwoObjectsInv
<1>4. CASE Swap(g, h) /\ g = h
  <2>1. UNCHANGED <<objectVars, held, byHand>>
    BY <1>4 DEF Swap, objectVars, GuardInv, GuardTypeOK
  <2>2. /\ GuardTypeOK' /\ UNCHANGED objectVars
        /\ \A m \in Mutexes :
              /\ held'[m] + byHand[m] + Bit(m \in guarded)
                   = held[m] + byHand'[m] + Bit(m \in guarded')
              /\ class' = "UniqueLock" => held'[m] <= 1
    BY <2>1 DEF objectVars, GuardInv, GuardTypeOK, LedgerInv, Bit
  <2> QED
    BY <2>2, NoObjectInv
<1> QED
  BY <1>1, <1>2, <1>3, <1>4

LEMMA GuardStepInv ==
    ASSUME GuardInv, GuardNext \/ UNCHANGED guardVars
    PROVE  GuardInv'
<1> DEFINE Account ==
        /\ GuardTypeOK' /\ UNCHANGED objectVars
        /\ \A m \in Mutexes :
              /\ held'[m] + byHand[m] + Bit(m \in guarded)
                   = held[m] + byHand'[m] + Bit(m \in guarded')
              /\ class' = "UniqueLock" => held'[m] <= 1
<1>1. ASSUME Account PROVE GuardInv'
  BY <1>1, NoObjectInv
<1>2. CASE UNCHANGED guardVars
  <2>1. Account
    BY <1>2 DEF guardVars, objectVars, GuardInv, GuardTypeOK, LedgerInv, Bit
  <2> QED
    BY <1>1, <2>1
<1>3. ASSUME NEW g \in Objects, ObjectStep(g) PROVE GuardInv'
  BY <1>3, OneObjectSteps, TwoObjectSteps DEF ObjectStep, Born, ConstructTry
<1>4. ASSUME NEW m \in Mutexes, ByHand(m) PROVE GuardInv'
  <2>1. Account
    BY <1>4 DEF ByHand, Adopted, Grantable, Locked, Unlocked,
       objectVars, GuardInv, GuardTypeOK, LedgerInv, Bit
  <2> QED
    BY <1>1, <2>1
<1>5. ASSUME NEW m \in Mutexes, LockGuard(m) PROVE GuardInv'
  <2>1. m \in guarded => held[m] >= 1
    <3>1. Cardinality(OwnersOf(m)) \in Nat
      BY OwnersNat DEF GuardInv
    <3> QED
      BY <3>1 DEF GuardInv, GuardTypeOK, LedgerInv, Ledger, Bit
  <2>2. byHand[m] > 0 => m \notin guarded
    <3>1. Cardinality(OwnersOf(m)) \in Nat
      BY OwnersNat DEF GuardInv
    <3> QED
      BY <3>1, <1>5 DEF GuardInv, GuardTypeOK, LedgerInv, Ledger, Bit, LockGuard
  <2>3. Account
    BY <1>5, <2>1, <2>2 DEF LockGuard, Adopted, Grantable, Locked, Unlocked,
       objectVars, GuardInv, GuardTypeOK, LedgerInv, Bit
  <2> QED
    BY <1>1, <2>3
<1>6. ASSUME NEW m \in Mutexes, NEW how, Scoped(m, how) PROVE GuardInv'
  <2>1. Account
    BY <1>6 DEF Scoped, objectVars, GuardInv, GuardTypeOK, LedgerInv, Bit
  <2> QED
    BY <1>1, <2>1
<1> QED
  BY <1>2, <1>3, <1>4, <1>5, <1>6 DEF GuardNext

\* Through any sequence of operations on any number of lock objects, every
\* lock the thread has taken has exactly one party that will give it back, and
\* an exclusive lock is taken once.
THEOREM GuardsAlwaysBalanced == Spec => []GuardsBalanced
<1>1. Init => GuardInv
  BY GuardStart
<1>2. GuardInv /\ [Next]_vars => GuardInv'
  BY GuardSteps, GuardStepInv
<1>3. GuardInv => GuardsBalanced
  BY DEF GuardInv, LedgerInv, Ledger, Bit, GuardsBalanced
<1> QED
  BY <1>1, <1>2, <1>3, PTL DEF Spec

-----------------------------------------------------------------------------
(* Spin locks in general *)

\* The owners after a step of a mutual-exclusion lock.
OwnerStep ==
    \/ Owners' = Owners
    \/ \E t \in Threads : Owners = {} /\ Owners' = {t}
    \/ \E t \in Threads : Owners = {t} /\ Owners' = {}

-----------------------------------------------------------------------------
(* SpinLock *)

SpinInv ==
    /\ DOMAIN pc = Threads
    /\ word \in {0, 1}
    /\ \A t, u \in Threads : pc[t] = "in" /\ pc[u] = "in" => t = u
    /\ word = 1 <=> \E t \in Threads : pc[t] = "in"

SpinNext ==
    \E t \in Threads : SpinLock(t) \/ SpinTryLock(t) \/ SpinRun(t)

LEMMA SpinSteps ==
    ASSUME kind = "spin", [Next]_vars
    PROVE  kind' = "spin" /\ (SpinNext \/ UNCHANGED wordVars)
  BY DEF Next, vars, Start, Disturb, Run, Over, SpinNext,
     WordStep, BarrierStep, OnceStep, TicketStep, SeqStep, GuardStep

LEMMA SpinStart == Init /\ kind = "spin" => SpinInv /\ Owners = {}
  BY DEF Init, WordInit, SpinInv, Owners

\* The compare-exchange succeeds only while nobody owns the lock.
LEMMA SpinStepInv ==
    ASSUME SpinInv, SpinNext \/ UNCHANGED wordVars
    PROVE  SpinInv' /\ OwnerStep
<1> USE DEF SpinInv, Owners, OwnerStep
<1>1. CASE UNCHANGED wordVars
  BY <1>1 DEF wordVars
<1>2. ASSUME NEW t \in Threads, SpinLock(t) \/ SpinTryLock(t) \/ SpinCas(t)
      PROVE  SpinInv' /\ OwnerStep
  <2> USE DEF SpinLock, SpinTryLock, SpinCas, Begin, Move, Idle
  <2>1. CASE word = 0
    <3>1. \A u \in Threads : pc[u] # "in"
      BY <2>1
    <3>2. CASE pc'[t] = "in"
      BY <1>2, <2>1, <3>1, <3>2
    <3> QED
      BY <1>2, <2>1, <3>2
  <2>2. CASE word # 0
    BY <1>2, <2>2
  <2> QED
    BY <2>1, <2>2
<1>3. ASSUME NEW t \in Threads, SpinLoad(t)
      PROVE  SpinInv' /\ OwnerStep
  BY <1>3 DEF SpinLoad, Move
<1>4. ASSUME NEW t \in Threads, SpinUnlock(t)
      PROVE  SpinInv' /\ OwnerStep
  <2>1. Owners = {t} /\ Owners' = {}
    BY <1>4 DEF SpinUnlock, Move
  <2> QED
    BY <1>4, <2>1 DEF SpinUnlock, Move
<1> QED
  BY <1>1, <1>2, <1>3, <1>4 DEF SpinNext, SpinRun

-----------------------------------------------------------------------------
(* TicketLock *)

\* How many tickets come after a until it is b's turn.
Dist(a, b) == (b - a) % TicketModulus

Tickets == 0 .. TicketModulus - 1

\* The threads that have drawn a ticket and not returned it.
Ticketed == {t \in Threads : pc[t] \in {"loop", "in"}}

Trying(t) == pc[t] \in {"load_next", "cas"}

\* The tickets each thread may still draw.
Left == [t \in Threads |-> calls[t] + (IF Trying(t) THEN 1 ELSE 0)]

TicketTypeOK ==
    /\ DOMAIN pc = Threads
    /\ word \in Tickets /\ next_ticket \in Tickets
    /\ local \in [Threads -> Tickets]
    /\ calls \in [Threads -> Nat]

\* The tickets between now_serving_ and next_ticket_ are those of the owner
\* and of the waiters, each its own, the owner's the first.
QueueInv ==
    /\ \A t, u \in Threads : pc[t] = "in" /\ pc[u] = "in" => t = u
    /\ Dist(word, next_ticket) = Cardinality(Ticketed)
    /\ \A t \in Threads : pc[t] = "loop" => Dist(word, local[t]) < Cardinality(Ticketed)
    /\ \A t, u \in Threads : pc[t] = "loop" /\ pc[u] = "loop" /\ local[t] = local[u] => t = u
    /\ \A t, u \in Threads : pc[t] = "loop" /\ pc[u] = "in" => local[t] # word

\* Nobody draws more tickets than it makes calls.
BudgetInv ==
    \A t \in Threads :
        Left[t] <= MaxCalls[t] /\ (t \in Ticketed => Left[t] < MaxCalls[t])

\* Seen from the ticket that a try_lock() has read as now_serving_, both
\* counters have gone on, now_serving_ no further than next_ticket_, and
\* next_ticket_ not once around.
TryInv ==
    \A t \in Threads :
        Trying(t) =>
            /\ Dist(local[t], word) <= Dist(local[t], next_ticket)
            /\ Dist(local[t], next_ticket) + Cardinality(Units(Left, Threads \ {t}))
                 <= Cardinality(Units(MaxCalls, Threads \ {t}))

TicketInv == TicketTypeOK /\ QueueInv /\ BudgetInv /\ TryInv

TicketNext ==
    \E t \in Threads : DrawTicket(t) \/ TicketTryLock(t) \/ TicketRun(t)

LEMMA TicketSteps ==
    ASSUME kind = "ticket", [Next]_vars
    PROVE  kind' = "ticket" /\ (TicketNext \/ UNCHANGED <<wordVars, next_ticket>>)
  BY DEF Next, vars, Start, Disturb, Run, Over, TicketNext,
     WordStep, BarrierStep, OnceStep, TicketStep, SeqStep, GuardStep

LEMMA ZeroTicket == 0 \in Tickets /\ Tickets \subseteq Nat
  BY TicketAssumption, FutexWordAssumption, FS_CardinalityType DEF Tickets

\* Distances on the circle of the tickets.
LEMMA DistValue ==
    ASSUME NEW a \in Tickets, NEW b \in Tickets
    PROVE  Dist(a, b) = IF b >= a THEN b - a ELSE b - a + TicketModulus
  BY TicketAssumption DEF Tickets, Dist

LEMMA AfterValue ==
    ASSUME NEW a \in Tickets
    PROVE  After(a) = IF a = TicketModulus - 1 THEN 0 ELSE a + 1
  BY TicketAssumption DEF Tickets, After

LEMMA DistFacts ==
    ASSUME NEW a \in Tickets, NEW b \in Tickets
    PROVE  /\ Dist(a, b) \in Tickets
           /\ Dist(a, b) = 0 <=> a = b
           /\ After(a) \in Tickets
           /\ Dist(a, b) < TicketModulus - 1 => Dist(a, After(b)) = Dist(a, b) + 1
           /\ a # b => Dist(After(a), b) = Dist(a, b) - 1
<1>1. TicketModulus \in Nat
  BY TicketAssumption
<1>2. After(a) \in Tickets /\ After(b) \in Tickets
  BY <1>1, AfterValue DEF Tickets
<1>3. /\ Dist(a, b) = IF b >= a THEN b - a ELSE b - a + TicketModulus
      /\ Dist(a, After(b)) = IF After(b) >= a THEN After(b) - a ELSE After(b) - a + TicketModulus
      /\ Dist(After(a), b) = IF b >= After(a) THEN b - After(a) ELSE b - After(a) + TicketModulus
  BY <1>2, DistValue
<1> QED
  BY <1>1, <1>2, <1>3, AfterValue DEF Tickets

\* Of two tickets seen from a third, the nearer comes first.
LEMMA DistBetween ==
    ASSUME NEW a \in Tickets, NEW b \in Tickets, NEW c \in Tickets
    PROVE  /\ Dist(a, b) = Dist(a, c) => b = c
           /\ Dist(a, b) <= Dist(a, c) => Dist(b, c) = Dist(a, c) - Dist(a, b)
<1>1. TicketModulus \in Nat
  BY TicketAssumption
<1>2. /\ Dist(a, b) = IF b >= a THEN b - a ELSE b - a + TicketModulus
      /\ Dist(a, c) = IF c >= a THEN c - a ELSE c - a + TicketModulus
      /\ Dist(b, c) = IF c >= b THEN c - b ELSE c - b + TicketModulus
  BY DistValue
<1> QED
  BY <1>1, <1>2 DEF Tickets

\* One unit less at t.
LEMMA UnitsLess ==
    ASSUME NEW S, IsFiniteSet(S), NEW t \in S, NEW f, NEW g,
           \A u \in S : f[u] \in Nat /\ g[u] \in Nat,
           g[t] = f[t] - 1, \A u \in S \ {t} : g[u] = f[u]
    PROVE  Cardinality(Units(g, S)) = Cardinality(Units(f, S)) - 1
<1> DEFINE R == S \ {t}
<1>1. IsFiniteSet(R) /\ S = R \cup {t} /\ t \notin R
  <2>1. IsFiniteSet(S \ {t})
    BY FS_RemoveElement
  <2> QED
    BY <2>1
<1>2. Units(g, R) = Units(f, R)
  BY UnitsSame
<1>3. /\ \A u \in R \cup {t} : f[u] \in Nat
      /\ \A u \in R \cup {t} : g[u] \in Nat
  OBVIOUS
<1> HIDE DEF R
<1>4. Cardinality(Units(g, R \cup {t})) = Cardinality(Units(g, R)) + g[t]
  BY <1>1, <1>3, UnitsAdd
<1>5. Cardinality(Units(f, R \cup {t})) = Cardinality(Units(f, R)) + f[t]
  BY <1>1, <1>3, UnitsAdd
<1>6. Cardinality(Units(f, R)) \in Nat
  BY <1>1, <1>3, UnitsFinite
<1> QED
  BY <1>1, <1>2, <1>3, <1>4, <1>5, <1>6

\* A sum that is smaller at every member of T is smaller by as many as T has.
LEMMA UnitsGap ==
    ASSUME NEW S, IsFiniteSet(S), NEW T \in SUBSET S, NEW f, NEW g,
           \A u \in S : f[u] \in Nat /\ g[u] \in Nat /\ f[u] <= g[u],
           \A u \in T : f[u] < g[u]
    PROVE  Cardinality(T) + Cardinality(Units(f, S)) <= Cardinality(Units(g, S))
<1> DEFINE G == {<<u, g[u]>> : u \in T}
<1>1. IsFiniteSet(T)
  BY FS_Subset
<1>2. IsFiniteSet(G) /\ Cardinality(G) = Cardinality(T)
  <2>1. [u \in T |-> <<u, g[u]>>] \in Bijection(T, G)
    BY DEF Bijection, Injection, Surjection, IsInjective
  <2>2. ExistsBijection(T, G)
    BY <2>1 DEF ExistsBijection
  <2> QED
    BY <1>1, <2>2, FS_Bijection
<1>3. G \cap Units(f, S) = {}
  <2>1. \A x \in Units(f, S) : x[1] \in S /\ x[2] \in 1 .. f[x[1]]
    BY DEF Units
  <2>2. \A x \in G : x[1] \in T /\ x[2] = g[x[1]]
    OBVIOUS
  <2> QED
    BY <2>1, <2>2
<1>4. G \cup Units(f, S) \in SUBSET Units(g, S)
  <2>1. ASSUME NEW u \in T
        PROVE  <<u, g[u]>> \in Units(g, S)
    <3>1. g[u] \in 1 .. g[u] /\ u \in S
      OBVIOUS
    <3> QED
      BY <3>1 DEF Units
  <2>2. ASSUME NEW u \in S, NEW k \in 1 .. f[u]
        PROVE  <<u, k>> \in Units(g, S)
    <3>1. k \in 1 .. g[u]
      OBVIOUS
    <3> QED
      BY <3>1 DEF Units
  <2>3. Units(f, S) \subseteq Units(g, S)
    BY <2>2 DEF Units
  <2> QED
    BY <2>1, <2>3
<1>5. IsFiniteSet(Units(f, S)) /\ IsFiniteSet(Units(g, S))
  BY UnitsFinite
<1> HIDE DEF G
<1>6. Cardinality(G \cup Units(f, S)) = Cardinality(G) + Cardinality(Units(f, S))
  BY <1>2, <1>3, <1>5, DisjointUnion
<1>7. Cardinality(G \cup Units(f, S)) <= Cardinality(Units(g, S))
  BY <1>4, <1>5, FS_Subset
<1> QED
  BY <1>2, <1>6, <1>7

\* The sum over the others after t has used up a unit, or none.
LEMMA OthersLess ==
    ASSUME NEW f \in [Threads -> Nat], NEW g \in [Threads -> Nat],
           NEW t \in Threads, NEW v \in Threads,
           g[t] = f[t] \/ g[t] = f[t] - 1, \A u \in Threads \ {t} : g[u] = f[u]
    PROVE  /\ Cardinality(Units(g, Threads \ {v})) <= Cardinality(Units(f, Threads \ {v}))
           /\ v # t /\ g[t] = f[t] - 1 =>
                Cardinality(Units(g, Threads \ {v})) = Cardinality(Units(f, Threads \ {v})) - 1
           /\ Cardinality(Units(f, Threads \ {v})) \in Nat
           /\ Cardinality(Units(g, Threads \ {v})) \in Nat
<1> DEFINE S == Threads \ {v}
<1>1. S \in SUBSET Threads
  OBVIOUS
<1>2. IsFiniteSet(S)
  BY <1>1, ThreadSets
<1>3. \A u \in S : f[u] \in Nat /\ g[u] \in Nat
  OBVIOUS
<1>4. Cardinality(Units(f, S)) \in Nat /\ Cardinality(Units(g, S)) \in Nat
  BY <1>2, <1>3, UnitsFinite
<1>5. CASE v = t \/ g[t] = f[t]
  <2>1. \A u \in S : g[u] = f[u]
    BY <1>5
  <2>2. Units(g, S) = Units(f, S)
    BY <2>1, UnitsSame
  <2> QED
    BY <1>4, <1>5, <2>2
<1>6. CASE v # t /\ g[t] = f[t] - 1
  <2>1. t \in S /\ \A u \in S \ {t} : g[u] = f[u]
    BY <1>6
  <2>2. Cardinality(Units(g, S)) = Cardinality(Units(f, S)) - 1
    BY <1>2, <1>3, <1>6, <2>1, UnitsLess
  <2> QED
    BY <1>4, <2>2
<1> QED
  BY <1>5, <1>6

LEMMA LeftType ==
    ASSUME TicketTypeOK
    PROVE  Left \in [Threads -> Nat]
  BY DEF TicketTypeOK, Left

LEMMA LeftTypeNext ==
    ASSUME TicketTypeOK'
    PROVE  Left' \in [Threads -> Nat]
  BY DEF TicketTypeOK, Left

\* A step that moves neither counter keeps what every try_lock() relies on.
LEMMA TryKept ==
    ASSUME TicketInv, TicketTypeOK', word' = word, next_ticket' = next_ticket,
           NEW t \in Threads, Left'[t] = Left[t] \/ Left'[t] = Left[t] - 1,
           \A u \in Threads \ {t} : Left'[u] = Left[u],
           \A u \in Threads : Trying(u)' => Trying(u) /\ local'[u] = local[u]
    PROVE  TryInv'
<1> SUFFICES ASSUME NEW v \in Threads, Trying(v)'
             PROVE  /\ Dist(local[v], word)' <= Dist(local[v], next_ticket)'
                    /\ Dist(local[v], next_ticket)' + Cardinality(Units(Left, Threads \ {v}))'
                         <= Cardinality(Units(MaxCalls, Threads \ {v}))
  BY DEF TryInv
<1>1. Trying(v) /\ local'[v] = local[v]
  OBVIOUS
<1>2. /\ Dist(local[v], word)' = Dist(local[v], word)
      /\ Dist(local[v], next_ticket)' = Dist(local[v], next_ticket)
  BY <1>1 DEF Dist
<1>3. /\ Dist(local[v], word) <= Dist(local[v], next_ticket)
      /\ Dist(local[v], next_ticket) + Cardinality(Units(Left, Threads \ {v}))
           <= Cardinality(Units(MaxCalls, Threads \ {v}))
  BY <1>1 DEF TicketInv, TryInv
<1>4. Left \in [Threads -> Nat] /\ Left' \in [Threads -> Nat]
  BY LeftType, LeftTypeNext DEF TicketInv
<1>5. /\ Cardinality(Units(Left', Threads \ {v})) <= Cardinality(Units(Left, Threads \ {v}))
      /\ Cardinality(Units(Left', Threads \ {v})) \in Nat
      /\ Cardinality(Units(Left, Threads \ {v})) \in Nat
  BY <1>4, OthersLess
<1>6. Cardinality(Units(MaxCalls, Threads \ {v})) \in Nat
  BY FutexWordAssumption, OthersLess
<1>7. Dist(local[v], next_ticket) \in Nat
  BY DistFacts DEF TicketInv, TicketTypeOK, Tickets
<1> QED
  BY <1>2, <1>3, <1>5, <1>6, <1>7

\* A ticket drawn by t.
LEMMA DrawKept ==
    ASSUME TicketInv, TicketTypeOK', word' = word, next_ticket' = After(next_ticket),
           NEW t \in Threads, Left'[t] = Left[t] - 1, t \notin Ticketed, ~ Trying(t)',
           \A u \in Threads \ {t} : pc'[u] = pc[u] /\ local'[u] = local[u] /\ Left'[u] = Left[u],
           pc'[t] \in {"loop", "in"}
    PROVE  /\ Ticketed' = Ticketed \cup {t}
           /\ Cardinality(Ticketed') = Cardinality(Ticketed) + 1
           /\ Cardinality(Ticketed) \in Nat
           /\ Dist(word, next_ticket)' = Cardinality(Ticketed')
           /\ BudgetInv' /\ TryInv'
<1> USE DEF TicketInv
<1>1. Ticketed' = Ticketed \cup {t}
  BY DEF Ticketed
<1>2. /\ Cardinality(Ticketed') = Cardinality(Ticketed) + 1
      /\ Cardinality(Ticketed) \in Nat /\ Cardinality(Ticketed') < TicketModulus
  <2>1. Ticketed \in SUBSET Threads /\ Ticketed' \in SUBSET Threads
    BY DEF Ticketed
  <2>2. IsFiniteSet(Ticketed) /\ Cardinality(Ticketed) \in Nat
    BY <2>1, ThreadSets
  <2>3. Cardinality(Ticketed \cup {t}) = Cardinality(Ticketed) + 1
    BY <2>2, FS_AddElement
  <2>4. Cardinality(Ticketed') <= Cardinality(Threads) /\ Cardinality(Threads) \in Nat
    BY <2>1, ThreadSets
  <2> QED
    BY <1>1, <2>2, <2>3, <2>4, TicketAssumption
<1>3. Left \in [Threads -> Nat] /\ Left' \in [Threads -> Nat]
  BY LeftType, LeftTypeNext
<1>4. /\ word \in Tickets /\ next_ticket \in Tickets /\ local \in [Threads -> Tickets]
      /\ TicketModulus \in Nat
  BY TicketAssumption DEF TicketTypeOK
<1>5. Dist(word, next_ticket)' = Cardinality(Ticketed')
  <2>1. Dist(word, next_ticket) = Cardinality(Ticketed)
    BY DEF QueueInv
  <2>2. Dist(word, After(next_ticket)) = Dist(word, next_ticket) + 1
    BY <1>2, <1>4, <2>1, DistFacts
  <2>3. Dist(word, next_ticket)' = Dist(word, After(next_ticket))
    BY DEF Dist
  <2> QED
    BY <1>2, <2>1, <2>2, <2>3
<1>6. BudgetInv'
  BY <1>1, <1>3, FutexWordAssumption DEF BudgetInv
<1>7. TryInv'
  <2> SUFFICES ASSUME NEW v \in Threads, Trying(v)'
               PROVE  /\ Dist(local[v], word)' <= Dist(local[v], next_ticket)'
                      /\ Dist(local[v], next_ticket)' + Cardinality(Units(Left, Threads \ {v}))'
                           <= Cardinality(Units(MaxCalls, Threads \ {v}))
    BY DEF TryInv
  <2>1. v # t /\ Trying(v) /\ local'[v] = local[v]
    BY DEF Trying
  <2> DEFINE a == Dist(local[v], next_ticket)
             n == Cardinality(Units(Left, Threads \ {v}))
             m == Cardinality(Units(MaxCalls, Threads \ {v}))
  <2>2. Dist(local[v], word) <= a /\ a + n <= m
    BY <2>1 DEF TryInv
  <2>3. Cardinality(Units(Left', Threads \ {v})) = n - 1
        /\ n \in Nat /\ Cardinality(Units(Left', Threads \ {v})) \in Nat
    BY <1>3, <2>1, OthersLess
  <2>4. m \in Nat /\ m < TicketModulus
    BY FutexWordAssumption, OthersLess, TicketAssumption
  <2>5. a \in Nat /\ Dist(local[v], word) \in Nat
    BY <1>4, DistFacts DEF Tickets
  <2>6. a < TicketModulus - 1
    BY <1>4, <2>2, <2>3, <2>4, <2>5
  <2>7. Dist(local[v], After(next_ticket)) = a + 1
    BY <1>4, <2>6, DistFacts
  <2>8. /\ Dist(local[v], word)' = Dist(local[v], word)
        /\ Dist(local[v], next_ticket)' = a + 1
    BY <2>1, <2>7 DEF Dist
  <2> HIDE DEF a, n, m
  <2> QED
    BY <2>2, <2>3, <2>4, <2>5, <2>8 DEF m
<1> QED
  BY <1>1, <1>2, <1>5, <1>6, <1>7

\* Who enters is ahead of all that wait.
FifoStep ==
    \A t \in Owners' \ Owners : \A u \in Threads \ {t} :
        pc[u] = "loop" => pc[t] = "loop" /\ Ahead(t) < Ahead(u)

LEMMA TicketStart == Init /\ kind = "ticket" => TicketInv /\ Owners = {}
<1> SUFFICES ASSUME Init, kind = "ticket" PROVE TicketInv /\ Owners = {}
  OBVIOUS
<1>1. WordInit(0, MaxCalls) /\ TicketInit
  BY DEF Init
<1>2. TicketModulus \in Nat /\ TicketModulus > 0
  BY TicketAssumption, FutexWordAssumption, FS_CardinalityType
<1>3. TicketTypeOK
  BY <1>1, <1>2, FutexWordAssumption DEF WordInit, TicketInit, TicketTypeOK, Tickets
<1>4. Ticketed = {} /\ Owners = {} /\ \A t \in Threads : pc[t] = "out"
  BY <1>1 DEF WordInit, Ticketed, Owners
<1>5. Dist(word, next_ticket) = 0 /\ Cardinality(Ticketed) = 0
  BY <1>1, <1>3, <1>4, DistFacts, FS_EmptySet DEF WordInit, TicketInit, TicketTypeOK
<1>6. QueueInv
  BY <1>4, <1>5 DEF QueueInv
<1>7. BudgetInv /\ TryInv
  BY <1>1, <1>4, FutexWordAssumption DEF WordInit, BudgetInv, TryInv, Left, Trying
<1> QED
  BY <1>3, <1>4, <1>6, <1>7 DEF TicketInv

LEMMA DrawTicketInv ==
    ASSUME TicketInv, NEW t \in Threads, DrawTicket(t)
    PROVE  TicketInv' /\ OwnerStep /\ FifoStep
<1> USE DEF DrawTicket, Begin, Keep, Idle
<1>1. TicketTypeOK'
  BY DistFacts DEF TicketInv, TicketTypeOK
<1>2. /\ t \notin Ticketed /\ ~ Trying(t) /\ ~ Trying(t)' /\ pc'[t] = "loop"
      /\ local'[t] = next_ticket /\ pc[t] # "in"
      /\ \A u \in Threads \ {t} : pc'[u] = pc[u] /\ local'[u] = local[u]
  BY DEF TicketInv, TicketTypeOK, Ticketed, Trying
<1>3. Left'[t] = Left[t] - 1 /\ \A u \in Threads \ {t} : Left'[u] = Left[u]
  BY <1>2 DEF TicketInv, TicketTypeOK, Left, Trying
<1>4. /\ Ticketed' = Ticketed \cup {t}
      /\ Cardinality(Ticketed') = Cardinality(Ticketed) + 1
      /\ Cardinality(Ticketed) \in Nat
      /\ Dist(word, next_ticket)' = Cardinality(Ticketed')
      /\ BudgetInv' /\ TryInv'
  BY <1>1, <1>2, <1>3, DrawKept
<1>5. Owners' = Owners
  BY <1>2 DEF Owners
<1>6. QueueInv'
  <2>1. Dist(word, next_ticket) = Cardinality(Ticketed) /\ word' = word
    BY DEF TicketInv, QueueInv
  <2>2. word \in Tickets /\ next_ticket \in Tickets /\ local \in [Threads -> Tickets]
    BY DEF TicketInv, TicketTypeOK
  <2>3. \A u \in Threads \ {t} : pc[u] = "loop" => local[u] # next_ticket
    <3>1. \A u \in Threads : pc[u] = "loop" => Dist(word, local[u]) < Dist(word, next_ticket)
      BY <2>1 DEF TicketInv, QueueInv
    <3>2. Dist(word, next_ticket) \in Nat
      BY <1>4, <2>1
    <3> QED
      BY <3>1, <3>2
  <2>4. ASSUME NEW u \in Threads, pc[u] = "in"
        PROVE  next_ticket # word
    <3>1. Ticketed # {} /\ Ticketed \in SUBSET Threads
      BY <2>4 DEF Ticketed
    <3>2. Cardinality(Ticketed) # 0
      BY <3>1, ThreadSets
    <3> QED
      BY <2>1, <2>2, <3>2, DistFacts
  <2>5. ASSUME NEW u \in Threads, pc'[u] = "loop"
        PROVE  Dist(word, local[u])' < Cardinality(Ticketed')
    <3>1. CASE u = t
      <4>1. Dist(word, local[u])' = Dist(word, next_ticket)
        BY <1>2, <2>1, <3>1 DEF Dist
      <4> QED
        BY <1>4, <2>1, <4>1
    <3>2. CASE u # t
      <4>1. Dist(word, local[u])' = Dist(word, local[u])
        BY <1>2, <2>1, <3>2 DEF Dist
      <4>2. Dist(word, local[u]) < Cardinality(Ticketed)
        BY <1>2, <2>5, <3>2 DEF TicketInv, QueueInv
      <4>3. Dist(word, local[u]) \in Nat
        BY <2>2, DistFacts DEF Tickets
      <4> QED
        BY <1>4, <4>1, <4>2, <4>3
    <3> QED
      BY <3>1, <3>2
  <2>6. \A u, v \in Threads : pc'[u] = "in" /\ pc'[v] = "in" => u = v
    BY <1>2 DEF TicketInv, QueueInv
  <2>7. \A u, v \in Threads : pc'[u] = "loop" /\ pc'[v] = "loop" /\ local'[u] = local'[v] => u = v
    BY <1>2, <2>3 DEF TicketInv, QueueInv
  <2>8. \A u, v \in Threads : pc'[u] = "loop" /\ pc'[v] = "in" => local'[u] # word'
    BY <1>2, <2>1, <2>4 DEF TicketInv, QueueInv
  <2> QED
    BY <1>4, <2>5, <2>6, <2>7, <2>8 DEF QueueInv
<1> QED
  BY <1>1, <1>4, <1>5, <1>6 DEF TicketInv, OwnerStep, FifoStep

\* The ticket of a waiter is served only after the owner has left.
LEMMA ServedInv ==
    ASSUME TicketInv, NEW t \in Threads, Served(t)
    PROVE  TicketInv' /\ OwnerStep /\ FifoStep
<1> USE DEF Served, Move, Keep, Idle
<1>1. TicketTypeOK' /\ word' = word /\ next_ticket' = next_ticket
  BY ZeroTicket DEF TicketInv, TicketTypeOK
<1>2. /\ pc[t] = "loop" /\ pc'[t] = "in" /\ local[t] = word
      /\ \A u \in Threads \ {t} : pc'[u] = pc[u] /\ local'[u] = local[u]
  BY DEF TicketInv, TicketTypeOK
<1>3. Owners = {} /\ Owners' = {t}
  BY <1>2 DEF Owners, TicketInv, QueueInv
<1>4. \A u \in Threads : Left'[u] = Left[u] /\ (Trying(u)' => Trying(u) /\ local'[u] = local[u])
  BY <1>2 DEF TicketInv, TicketTypeOK, Left, Trying
<1>5. Ticketed' = Ticketed
  BY <1>2 DEF Ticketed
<1>6. \A u \in Threads \ {t} : pc[u] = "loop" => local[u] # word
  BY <1>2 DEF TicketInv, QueueInv
<1>7. QueueInv'
  <2>1. \A u \in Threads \ {t} : Dist(word, local[u])' = Dist(word, local[u])
    BY <1>1, <1>2 DEF Dist
  <2>2. Dist(word, next_ticket)' = Dist(word, next_ticket)
    BY <1>1 DEF Dist
  <2>3. \A u \in Threads : pc'[u] = "loop" => u # t /\ pc[u] = "loop"
    BY <1>2
  <2>4. \A u \in Threads : pc'[u] = "in" => u = t
    BY <1>2, <1>3 DEF Owners
  <2> QED
    BY <1>1, <1>2, <1>5, <1>6, <2>1, <2>2, <2>3, <2>4 DEF TicketInv, QueueInv
<1>8. BudgetInv'
  BY <1>4, <1>5 DEF TicketInv, BudgetInv
<1>9. TryInv'
  BY <1>1, <1>4, TryKept
<1>10. FifoStep
  <2> SUFFICES ASSUME NEW u \in Threads \ {t}, pc[u] = "loop"
               PROVE  Ahead(t) < Ahead(u)
    BY <1>2, <1>3 DEF FifoStep
  <2>1. word \in Tickets /\ local[t] \in Tickets /\ local[u] \in Tickets
    BY DEF TicketInv, TicketTypeOK
  <2>2. Ahead(t) = Dist(word, local[t]) /\ Ahead(u) = Dist(word, local[u])
    BY DEF Ahead, Dist
  <2>3. Dist(word, local[t]) = 0 /\ Dist(word, local[u]) # 0 /\ Dist(word, local[u]) \in Nat
    <3>1. local[t] = word /\ local[u] # word
      BY <1>2, <1>6
    <3> QED
      BY <2>1, <3>1, DistFacts, ZeroTicket, ZenonT(60)
  <2> QED
    BY <2>2, <2>3
<1> QED
  BY <1>1, <1>3, <1>7, <1>8, <1>9, <1>10 DEF TicketInv, OwnerStep

\* now_serving_ is read: the tickets out are those of the others, each of
\* whom has used up a call.
LEMMA TicketTryLockInv ==
    ASSUME TicketInv, NEW t \in Threads, TicketTryLock(t)
    PROVE  TicketInv' /\ OwnerStep /\ FifoStep
<1> USE DEF TicketTryLock, Begin, Keep, Idle
<1>1. TicketTypeOK' /\ word' = word /\ next_ticket' = next_ticket
  BY DEF TicketInv, TicketTypeOK
<1>2. /\ pc[t] \in Idle /\ pc'[t] = "load_next" /\ local'[t] = word
      /\ \A u \in Threads \ {t} : pc'[u] = pc[u] /\ local'[u] = local[u]
  BY DEF TicketInv, TicketTypeOK
<1>3. Owners' = Owners /\ Ticketed' = Ticketed /\ t \notin Ticketed
  BY <1>2 DEF Owners, Ticketed
<1>4. Left' = Left
  BY <1>2 DEF TicketInv, TicketTypeOK, Left, Trying
<1>5. QueueInv'
  <2>1. \A u \in Threads \ {t} : Dist(word, local[u])' = Dist(word, local[u])
    BY <1>1, <1>2 DEF Dist
  <2>2. Dist(word, next_ticket)' = Dist(word, next_ticket)
    BY <1>1 DEF Dist
  <2>3. \A u \in Threads : pc'[u] \in {"loop", "in"} => u # t /\ pc'[u] = pc[u]
    BY <1>2
  <2> QED
    BY <1>1, <1>2, <1>3, <2>1, <2>2, <2>3 DEF TicketInv, QueueInv
<1>6. BudgetInv'
  BY <1>3, <1>4 DEF TicketInv, BudgetInv
<1>7. TryInv'
  <2>1. ASSUME NEW v \in Threads \ {t}, Trying(v)'
        PROVE  /\ Dist(local[v], word)' <= Dist(local[v], next_ticket)'
               /\ Dist(local[v], next_ticket)' + Cardinality(Units(Left, Threads \ {v}))'
                    <= Cardinality(Units(MaxCalls, Threads \ {v}))
    <3>1. Trying(v) /\ local'[v] = local[v]
      BY <1>2, <2>1 DEF Trying
    <3>2. /\ Dist(local[v], word)' = Dist(local[v], word)
          /\ Dist(local[v], next_ticket)' = Dist(local[v], next_ticket)
      BY <1>1, <3>1 DEF Dist
    <3> QED
      BY <1>4, <3>1, <3>2 DEF TicketInv, TryInv
  <2>2. Cardinality(Ticketed) + Cardinality(Units(Left, Threads \ {t}))
          <= Cardinality(Units(MaxCalls, Threads \ {t}))
    <3>1. Threads \ {t} \in SUBSET Threads /\ Ticketed \in SUBSET (Threads \ {t})
      BY <1>3 DEF Ticketed
    <3>2. IsFiniteSet(Threads \ {t})
      BY <3>1, ThreadSets
    <3>3. Left \in [Threads -> Nat] /\ MaxCalls \in [Threads -> Nat]
      BY LeftType, FutexWordAssumption DEF TicketInv
    <3>4. \A u \in Threads \ {t} : Left[u] \in Nat /\ MaxCalls[u] \in Nat /\ Left[u] <= MaxCalls[u]
      BY <3>3 DEF TicketInv, BudgetInv
    <3>5. \A u \in Ticketed : Left[u] < MaxCalls[u]
      BY <3>1 DEF TicketInv, BudgetInv
    <3> QED
      BY <3>1, <3>2, <3>4, <3>5, UnitsGap
  <2>3. /\ Dist(local[t], word)' = Dist(word, word)
        /\ Dist(local[t], next_ticket)' = Dist(word, next_ticket)
    BY <1>1, <1>2 DEF Dist
  <2>4. Dist(word, word) = 0 /\ Dist(word, next_ticket) \in Nat
    BY DistFacts, ZeroTicket DEF TicketInv, TicketTypeOK
  <2>5. Dist(word, next_ticket) = Cardinality(Ticketed)
    BY DEF TicketInv, QueueInv
  <2>6. /\ Dist(local[t], word)' <= Dist(local[t], next_ticket)'
        /\ Dist(local[t], next_ticket)' + Cardinality(Units(Left, Threads \ {t}))'
             <= Cardinality(Units(MaxCalls, Threads \ {t}))
    BY <1>4, <2>2, <2>3, <2>4, <2>5
  <2> QED
    BY <2>1, <2>6 DEF TryInv
<1> QED
  BY <1>1, <1>3, <1>5, <1>6, <1>7 DEF TicketInv, OwnerStep, FifoStep

\* A try_lock() that goes on without a ticket, or gives up.
LEMMA NoTicketInv ==
    ASSUME TicketInv, NEW t \in Threads, Trying(t), pc'[t] \in {"cas", "out"},
           TicketTypeOK', word' = word, next_ticket' = next_ticket, calls' = calls,
           pc'[t] = "cas" => local'[t] = local[t],
           \A u \in Threads \ {t} : pc'[u] = pc[u] /\ local'[u] = local[u]
    PROVE  TicketInv' /\ Owners' = Owners
<1>1. Owners' = Owners /\ Ticketed' = Ticketed /\ t \notin Ticketed
  BY DEF Owners, Ticketed, Trying
<1>2. /\ Left'[t] = Left[t] \/ Left'[t] = Left[t] - 1
      /\ \A u \in Threads \ {t} : Left'[u] = Left[u]
  BY DEF TicketInv, TicketTypeOK, Left, Trying
<1>3. QueueInv'
  <2>1. \A u \in Threads \ {t} : Dist(word, local[u])' = Dist(word, local[u])
    BY DEF Dist
  <2>2. Dist(word, next_ticket)' = Dist(word, next_ticket)
    BY DEF Dist
  <2>3. \A u \in Threads : pc'[u] \in {"loop", "in"} => u # t /\ pc'[u] = pc[u]
    OBVIOUS
  <2> QED
    BY <1>1, <2>1, <2>2, <2>3 DEF TicketInv, QueueInv
<1>4. BudgetInv'
  <2>1. Left \in [Threads -> Nat] /\ Left' \in [Threads -> Nat]
    BY LeftType, LeftTypeNext DEF TicketInv
  <2> QED
    BY <1>1, <1>2, <2>1, FutexWordAssumption DEF TicketInv, BudgetInv
<1>5. TryInv'
  <2>1. \A u \in Threads : Trying(u)' => Trying(u) /\ local'[u] = local[u]
    BY DEF Trying
  <2> QED
    BY <1>2, <2>1, TryKept
<1> QED
  BY <1>1, <1>3, <1>4, <1>5 DEF TicketInv

LEMMA LoadNextInv ==
    ASSUME TicketInv, NEW t \in Threads, LoadNext(t)
    PROVE  TicketInv' /\ OwnerStep /\ FifoStep
<1> USE DEF LoadNext, Move, Keep, Idle
<1>1. TicketTypeOK' /\ word' = word /\ next_ticket' = next_ticket /\ calls' = calls
  BY ZeroTicket DEF TicketInv, TicketTypeOK
<1>2. /\ Trying(t) /\ pc'[t] \in {"cas", "out"} /\ (pc'[t] = "cas" => local'[t] = local[t])
      /\ \A u \in Threads \ {t} : pc'[u] = pc[u] /\ local'[u] = local[u]
  BY DEF TicketInv, TicketTypeOK, Trying
<1>3. TicketInv' /\ Owners' = Owners
  BY <1>1, <1>2, NoTicketInv
<1> QED
  BY <1>3 DEF OwnerStep, FifoStep

\* A compare-exchange that finds the ticket it has read as now_serving_ finds
\* the lock free: next_ticket_ has not come around.
LEMMA TicketCasInv ==
    ASSUME TicketInv, NEW t \in Threads, TicketCas(t)
    PROVE  TicketInv' /\ OwnerStep /\ FifoStep
<1> USE DEF TicketCas, Move, Keep, Idle
<1>1. TicketTypeOK' /\ word' = word /\ calls' = calls
  BY ZeroTicket, DistFacts DEF TicketInv, TicketTypeOK
<1>2. /\ pc[t] = "cas" /\ Trying(t) /\ t \notin Ticketed
      /\ \A u \in Threads \ {t} : pc'[u] = pc[u] /\ local'[u] = local[u]
  BY DEF TicketInv, TicketTypeOK, Trying, Ticketed
<1>3. CASE next_ticket # local[t]
  <2>1. next_ticket' = next_ticket /\ pc'[t] = "out"
    BY <1>3 DEF TicketInv, TicketTypeOK
  <2>2. TicketInv' /\ Owners' = Owners
    BY <1>1, <1>2, <2>1, NoTicketInv
  <2> QED
    BY <2>2 DEF OwnerStep, FifoStep
<1>4. CASE next_ticket = local[t]
  <2>1. next_ticket' = After(next_ticket) /\ pc'[t] = "in"
    BY <1>4 DEF TicketInv, TicketTypeOK
  <2>2. Ticketed = {}
    <3>1. word \in Tickets /\ next_ticket \in Tickets /\ local[t] \in Tickets
      BY DEF TicketInv, TicketTypeOK
    <3>2. Dist(local[t], next_ticket) = 0
      BY <1>4, <3>1, DistFacts
    <3>3. Dist(local[t], word) <= Dist(local[t], next_ticket)
      BY <1>2 DEF TicketInv, TryInv
    <3>4. Dist(local[t], word) \in Nat
      BY <3>1, DistFacts, ZeroTicket
    <3>5. Dist(local[t], word) = 0
      BY <3>2, <3>3, <3>4
    <3>6. Dist(word, next_ticket) = 0
      BY <1>4, <3>1, <3>5, DistFacts
    <3>7. Cardinality(Ticketed) = 0
      BY <3>6 DEF TicketInv, QueueInv
    <3>8. Ticketed \in SUBSET Threads
      BY DEF Ticketed
    <3> QED
      BY <3>7, <3>8, ThreadSets
  <2>3. \A u \in Threads : pc[u] \notin {"loop", "in"}
    BY <2>2 DEF Ticketed
  <2>4. Owners = {} /\ Owners' = {t}
    BY <1>2, <2>1, <2>3 DEF Owners
  <2>5. Left'[t] = Left[t] - 1 /\ ~ Trying(t)' /\ \A u \in Threads \ {t} : Left'[u] = Left[u]
    BY <1>1, <1>2, <2>1 DEF TicketInv, TicketTypeOK, Left, Trying
  <2>6. Dist(word, next_ticket)' = Cardinality(Ticketed') /\ BudgetInv' /\ TryInv'
    BY <1>1, <1>2, <2>1, <2>5, DrawKept
  <2>7. \A u \in Threads : pc'[u] # "loop" /\ (pc'[u] = "in" => u = t)
    BY <1>2, <2>1, <2>3
  <2>8. QueueInv'
    BY <2>6, <2>7 DEF QueueInv
  <2> QED
    BY <1>1, <2>3, <2>4, <2>6, <2>8 DEF TicketInv, OwnerStep, FifoStep
<1> QED
  BY <1>3, <1>4

LEMMA TicketUnlockInv ==
    ASSUME TicketInv, NEW t \in Threads, TicketUnlock(t)
    PROVE  TicketInv' /\ OwnerStep /\ FifoStep
<1> USE DEF TicketUnlock, Move, Keep, Idle
<1>1. TicketTypeOK' /\ word' = After(word) /\ next_ticket' = next_ticket /\ calls' = calls
  BY ZeroTicket, DistFacts DEF TicketInv, TicketTypeOK
<1>2. /\ pc[t] = "in" /\ pc'[t] = "out"
      /\ \A u \in Threads \ {t} : pc'[u] = pc[u] /\ local'[u] = local[u]
  BY DEF TicketInv, TicketTypeOK
<1>3. Owners = {t} /\ Owners' = {}
  BY <1>2 DEF Owners, TicketInv, QueueInv
<1>4. t \in Ticketed /\ Ticketed' = Ticketed \ {t}
  BY <1>2 DEF Ticketed
<1>5. /\ Cardinality(Ticketed') = Cardinality(Ticketed) - 1
      /\ Cardinality(Ticketed) \in Nat /\ Cardinality(Ticketed) > 0
  <2>1. Ticketed \in SUBSET Threads /\ Ticketed # {}
    BY <1>4 DEF Ticketed
  <2>2. IsFiniteSet(Ticketed) /\ Cardinality(Ticketed) \in Nat /\ Cardinality(Ticketed) # 0
    BY <2>1, ThreadSets
  <2>3. Cardinality(Ticketed \ {t}) = Cardinality(Ticketed) - 1
    BY <1>4, <2>2, FS_RemoveElement
  <2> QED
    BY <1>4, <2>2, <2>3
<1>6. \A u \in Threads : Left'[u] = Left[u] /\ (Trying(u)' <=> Trying(u))
  BY <1>1, <1>2 DEF TicketInv, TicketTypeOK, Left, Trying
<1>7. word \in Tickets /\ next_ticket \in Tickets /\ local \in [Threads -> Tickets]
  BY DEF TicketInv, TicketTypeOK
<1>8. Dist(word, next_ticket) = Cardinality(Ticketed) /\ word # next_ticket
  BY <1>5, <1>7, DistFacts DEF TicketInv, QueueInv
<1>9. QueueInv'
  <2>1. Dist(word, next_ticket)' = Cardinality(Ticketed')
    <3>1. Dist(After(word), next_ticket) = Dist(word, next_ticket) - 1
      BY <1>7, <1>8, DistFacts
    <3> QED
      BY <1>1, <1>5, <1>8, <3>1 DEF Dist
  <2>2. ASSUME NEW u \in Threads, pc'[u] = "loop"
        PROVE  Dist(word, local[u])' < Cardinality(Ticketed')
    <3>1. u # t /\ pc[u] = "loop" /\ local'[u] = local[u]
      BY <1>2, <2>2
    <3>2. local[u] # word /\ Dist(word, local[u]) < Cardinality(Ticketed)
      BY <1>2, <3>1 DEF TicketInv, QueueInv
    <3>3. Dist(After(word), local[u]) = Dist(word, local[u]) - 1 /\ Dist(word, local[u]) \in Nat
      BY <1>7, <3>2, DistFacts, ZeroTicket
    <3>4. Dist(word, local[u])' = Dist(After(word), local[u])
      BY <1>1, <3>1 DEF Dist
    <3> QED
      BY <1>5, <3>2, <3>3, <3>4
  <2>3. \A u \in Threads : pc'[u] # "in"
    BY <1>3 DEF Owners
  <2>4. \A u, v \in Threads : pc'[u] = "loop" /\ pc'[v] = "loop" /\ local'[u] = local'[v] => u = v
    BY <1>2 DEF TicketInv, QueueInv
  <2> QED
    BY <2>1, <2>2, <2>3, <2>4 DEF QueueInv
<1>10. BudgetInv'
  BY <1>4, <1>6 DEF TicketInv, BudgetInv
<1>11. TryInv'
  <2> SUFFICES ASSUME NEW v \in Threads, Trying(v)'
               PROVE  /\ Dist(local[v], word)' <= Dist(local[v], next_ticket)'
                      /\ Dist(local[v], next_ticket)' + Cardinality(Units(Left, Threads \ {v}))'
                           <= Cardinality(Units(MaxCalls, Threads \ {v}))
    BY DEF TryInv
  <2>1. v # t /\ Trying(v) /\ local'[v] = local[v]
    BY <1>2, <1>6 DEF Trying
  <2>2. /\ Dist(local[v], word) <= Dist(local[v], next_ticket)
        /\ Dist(local[v], next_ticket) + Cardinality(Units(Left, Threads \ {v}))
             <= Cardinality(Units(MaxCalls, Threads \ {v}))
    BY <2>1 DEF TicketInv, TryInv
  <2>3. Units(Left', Threads \ {v}) = Units(Left, Threads \ {v})
    BY <1>6, UnitsSame
  <2>4. local[v] \in Tickets
    BY <1>7
  <2>5. Dist(word, next_ticket) = Dist(local[v], next_ticket) - Dist(local[v], word)
    BY <1>7, <2>2, <2>4, DistBetween
  <2>6. Dist(local[v], word) \in Tickets /\ Dist(local[v], next_ticket) \in Tickets
    BY <1>7, <2>4, DistFacts
  <2>7. Dist(local[v], word) < Dist(local[v], next_ticket)
        /\ Dist(local[v], word) < TicketModulus - 1
    BY <1>5, <1>8, <2>5, <2>6, TicketAssumption DEF Tickets
  <2>8. Dist(local[v], After(word)) = Dist(local[v], word) + 1
    BY <1>7, <2>4, <2>7, DistFacts
  <2>9. /\ Dist(local[v], word)' = Dist(local[v], After(word))
        /\ Dist(local[v], next_ticket)' = Dist(local[v], next_ticket)
    BY <1>1, <2>1 DEF Dist
  <2>10. Dist(local[v], word) + 1 <= Dist(local[v], next_ticket)
    <3>1. Dist(local[v], word) \in Nat /\ Dist(local[v], next_ticket) \in Nat
      BY <2>6, ZeroTicket
    <3> QED
      BY <2>7, <3>1
  <2> QED
    BY <2>2, <2>3, <2>8, <2>9, <2>10
<1> QED
  BY <1>1, <1>3, <1>9, <1>10, <1>11 DEF TicketInv, OwnerStep, FifoStep

LEMMA TicketStepInv ==
    ASSUME TicketInv, TicketNext \/ UNCHANGED <<wordVars, next_ticket>>
    PROVE  TicketInv' /\ OwnerStep /\ FifoStep
<1>1. CASE UNCHANGED <<wordVars, next_ticket>>
  BY <1>1 DEF wordVars, TicketInv, TicketTypeOK, QueueInv, BudgetInv, TryInv,
              Ticketed, Trying, Left, Dist, Owners, OwnerStep, FifoStep, Units
<1> QED
  BY <1>1, DrawTicketInv, ServedInv, TicketTryLockInv, LoadNextInv, TicketCasInv, TicketUnlockInv
  DEF TicketNext, TicketRun

-----------------------------------------------------------------------------
(* The theorems on both locks *)

LockInv ==
    /\ kind = "spin" => SpinInv
    /\ kind = "ticket" => TicketInv

LEMMA LockStep ==
    ASSUME LockInv, [Next]_vars
    PROVE  /\ LockInv' /\ kind' = kind
           /\ kind \in {"spin", "ticket"} => OwnerStep
           /\ kind = "ticket" => FifoStep
<1>1. kind' = kind
  BY DEF Next, vars, Start, Disturb, Run, Over,
     WordStep, BarrierStep, OnceStep, TicketStep, SeqStep, GuardStep
<1>2. CASE kind = "spin"
  BY <1>1, <1>2, SpinSteps, SpinStepInv DEF LockInv
<1>3. CASE kind = "ticket"
  BY <1>1, <1>3, TicketSteps, TicketStepInv DEF LockInv
<1> QED
  BY <1>1, <1>2, <1>3 DEF LockInv

LEMMA LockInvAlways == Spec => []LockInv
<1>1. Init => LockInv
  BY SpinStart, TicketStart DEF LockInv
<1>2. LockInv /\ [Next]_vars => LockInv'
  BY LockStep
<1> QED
  BY <1>1, <1>2, PTL DEF Spec

\* SpinLock and TicketLock implement AbstractLock: for any number of threads
\* and calls, tickets that wrap included.
THEOREM SpinLocksImplement == Spec => LocksImplement
<1>1. Init => AL!Init
  BY SpinStart, TicketStart DEF AL!Init
<1>2. LockInv /\ [Next]_vars =>
         [AL!Next]_(IF kind \in {"spin", "ticket"} THEN Owners ELSE {})
  <2> SUFFICES ASSUME LockInv, [Next]_vars
               PROVE  [AL!Next]_(IF kind \in {"spin", "ticket"} THEN Owners ELSE {})
    OBVIOUS
  <2> QED
    BY LockStep DEF AL!Next, AL!Acquire, AL!Release, OwnerStep
<1> QED
  BY <1>1, <1>2, LockInvAlways, PTL DEF Spec, LocksImplement, AL!Spec

\* TicketLock serves in the order of the tickets, and a try_lock() succeeds
\* only when nobody waits.
THEOREM TicketsServedInOrder == Spec => TicketFifo
<1>1. LockInv /\ [Next]_vars =>
         [\A t \in Owners' \ Owners :
             kind = "ticket" =>
                 \A u \in Threads \ {t} :
                     pc[u] = "loop" => pc[t] = "loop" /\ Ahead(t) < Ahead(u)]_vars
  BY LockStep DEF FifoStep
<1> QED
  BY <1>1, LockInvAlways, PTL DEF Spec, TicketFifo
=============================================================================
