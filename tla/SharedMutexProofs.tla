-------------------------- MODULE SharedMutexProofs --------------------------
(***************************************************************************)
(* Proofs about psync::SharedMutex for any finite set of threads and any   *)
(* number of calls: exact counts, no lost wake-up, writer preference, and  *)
(* that it implements AbstractSharedLock.                                  *)
(***************************************************************************)
EXTENDS SharedMutex, FiniteSetTheorems, TLAPS

\* The labels of a registered writer.
WaitingLabels == {"w_load", "w_cas", "w_wait", "w_asleep"}

\* Sets of threads are finite, so the counts of the word are naturals.
LEMMA ThreadSetFinite ==
    ASSUME NEW S \in SUBSET Threads
    PROVE  /\ IsFiniteSet(S)
           /\ Cardinality(S) \in Nat
           /\ Cardinality(S) = 0 <=> S = {}
  <1>1. IsFiniteSet(S)
    BY FS_Subset, SharedMutexAssumption
  <1> QED BY <1>1, FS_CardinalityType, FS_EmptySet

\* A count moves by one when a thread joins or leaves.
LEMMA CountAdd ==
    ASSUME NEW S \in SUBSET Threads, NEW t \in Threads, t \notin S
    PROVE  Cardinality(S \cup {t}) = Cardinality(S) + 1
  BY ThreadSetFinite, FS_AddElement

LEMMA CountRemove ==
    ASSUME NEW S \in SUBSET Threads, NEW t \in S
    PROVE  /\ Cardinality(S \ {t}) = Cardinality(S) - 1
           /\ Cardinality(S) # 0
  BY ThreadSetFinite, FS_RemoveElement

\* The initial state satisfies the invariant.
LEMMA InitIInv == Init => IInv
  <1> SUFFICES ASSUME Init PROVE IInv
    OBVIOUS
  <1> USE DEF Init
  <1>1. TypeOK
    <2>1. UNLOCKED \in Words
      BY DEF UNLOCKED, Words
    <2>2. "out" \in Labels
      BY DEF Labels
    <2> QED BY <2>1, <2>2, SharedMutexAssumption DEF TypeOK
  <1>2. ActiveWriters = {} /\ ActiveReaders = {} /\ WaitingWriters = {}
    BY DEF ActiveWriters, ActiveReaders, WaitingWriters
  <1>3. CountsExact
    BY <1>2, FS_EmptySet DEF CountsExact, UNLOCKED
  <1>4. ExclusionInv /\ LocalInv /\ NoLostWakeup
    BY <1>2 DEF ExclusionInv, LocalInv, NoLostWakeup
  <1> QED BY <1>1, <1>3, <1>4 DEF IInv

\* A step that leaves the word alone, moves one thread between labels that
\* mean the same to the counts, and puts nobody to sleep on a word that is
\* free for it, keeps the invariant.
LEMMA QuietIInv ==
    ASSUME IInv, NEW t \in Threads, NEW label \in Labels,
           Goto(t, label), state' = state,
           current' \in [Threads -> Words], LocalInv',
           writes' \in [Threads -> 0 .. MaxWrites],
           pc[t] \in WaitingLabels <=> label \in WaitingLabels,
           pc[t] \notin {"w_in", "r_in", "wake_all"},
           label \notin {"w_in", "r_in"},
           label = "w_asleep" => ~ FreeForWriter(state),
           label = "r_asleep" => ~ FreeForReader(state)
    PROVE  IInv'
  <1> USE DEF IInv
  <1>1. pc \in [Threads -> Labels] /\ pc' = [pc EXCEPT ![t] = label]
    BY DEF TypeOK, Goto
  <1>2. TypeOK'
    BY <1>1 DEF TypeOK
  <1>3. ActiveWriters' = ActiveWriters /\ ActiveReaders' = ActiveReaders
    BY <1>1 DEF ActiveWriters, ActiveReaders
  <1>4. WaitingWriters' = WaitingWriters
    BY <1>1 DEF WaitingWriters, WaitingLabels
  <1>5. CountsExact' /\ ExclusionInv'
    BY <1>3, <1>4 DEF CountsExact, ExclusionInv
  <1>6. NoLostWakeup'
    <2>1. FreeForWriter(state') = FreeForWriter(state)
          /\ FreeForReader(state') = FreeForReader(state)
      OBVIOUS
    <2>2. ASSUME FreeForWriter(state), NEW u \in Threads, pc'[u] = "w_asleep"
          PROVE  \E v \in Threads :
                    pc'[v] \in {"wake_all", "w_load", "w_cas", "w_wait"}
      <3>1. label # "w_asleep"
        BY <2>2
      <3>2. u # t /\ pc[u] = "w_asleep"
        BY <1>1, <2>2, <3>1
      <3>3. PICK v \in Threads : pc[v] \in {"wake_all", "w_load", "w_cas", "w_wait"}
        BY <2>2, <3>2 DEF NoLostWakeup
      <3>4. v # t => pc'[v] = pc[v]
        BY <1>1
      <3>5. v = t => pc'[v] \in {"w_load", "w_cas", "w_wait"}
        BY <1>1, <3>1, <3>3 DEF WaitingLabels
      <3> QED BY <3>3, <3>4, <3>5
    <2>3. ASSUME FreeForReader(state), NEW u \in Threads, pc'[u] = "r_asleep"
          PROVE  \E v \in Threads : pc'[v] = "wake_all"
      <3>1. u # t /\ pc[u] = "r_asleep"
        BY <1>1, <2>3
      <3>2. PICK v \in Threads : pc[v] = "wake_all"
        BY <2>3, <3>1 DEF NoLostWakeup
      <3> QED BY <1>1, <3>2
    <2> QED BY <2>1, <2>2, <2>3 DEF NoLostWakeup
  <1> QED BY <1>2, <1>5, <1>6

\* The compare-exchange UNLOCKED -> WRITER_LOCKED of lock() and try_lock().
LEMMA TryAcquireExclusiveIInv ==
    ASSUME IInv, NEW t \in Threads, NEW otherwise \in {"out", "w_register"},
           TryAcquireExclusive(t, otherwise)
    PROVE  IInv'
  <1> USE DEF IInv
  <1>1. pc[t] = "out" /\ current' = current
    BY DEF TryAcquireExclusive
  <1>2. writes' \in [Threads -> 0 .. MaxWrites]
    BY SharedMutexAssumption DEF TypeOK, TryAcquireExclusive
  <1>3. CASE state = UNLOCKED
    <2>1. state' = WRITER_LOCKED /\ pc' = [pc EXCEPT ![t] = "w_in"]
      BY <1>3 DEF TryAcquireExclusive, Goto
    <2>2. TypeOK'
      <3>1. WRITER_LOCKED \in Words /\ "w_in" \in Labels
        BY DEF WRITER_LOCKED, Words, Labels, WriterLabels
      <3> QED BY <1>1, <1>2, <2>1, <3>1 DEF TypeOK
    <2>3. ActiveWriters = {} /\ ActiveReaders = {} /\ WaitingWriters = {}
      <3>1. ActiveReaders \in SUBSET Threads /\ WaitingWriters \in SUBSET Threads
        BY DEF ActiveReaders, WaitingWriters
      <3>2. ~ state.writer /\ state.waiting = 0 /\ state.readers = 0
        BY <1>3 DEF UNLOCKED
      <3>3. Cardinality(ActiveReaders) = 0 /\ Cardinality(WaitingWriters) = 0
        BY <3>2 DEF CountsExact
      <3>4. ActiveWriters = {}
        BY <3>2 DEF CountsExact
      <3> QED BY <3>1, <3>3, <3>4, ThreadSetFinite
    <2>4. ActiveWriters' = {t} /\ ActiveReaders' = {} /\ WaitingWriters' = {}
      <3>1. pc \in [Threads -> Labels]
        BY DEF TypeOK
      <3> QED BY <2>1, <2>3, <3>1
              DEF ActiveWriters, ActiveReaders, WaitingWriters
    <2>5. CountsExact' /\ ExclusionInv'
      <3>1. Cardinality({}) = 0
        BY FS_EmptySet
      <3> QED BY <2>1, <2>4, <3>1 DEF CountsExact, ExclusionInv, WRITER_LOCKED
    <2>6. LocalInv'
      BY <1>1, <2>1 DEF TypeOK, LocalInv
    <2>7. NoLostWakeup'
      BY <2>1 DEF NoLostWakeup, FreeForWriter, FreeForReader, WRITER_LOCKED
    <2> QED BY <2>2, <2>5, <2>6, <2>7
  <1>4. CASE state # UNLOCKED
    <2>1. state' = state /\ Goto(t, otherwise)
      BY <1>4 DEF TryAcquireExclusive
    <2>2. LocalInv'
      BY <1>1, <2>1 DEF TypeOK, LocalInv, Goto
    <2>3. otherwise \in Labels
      BY DEF Labels, WriterLabels
    <2>4. current' \in [Threads -> Words]
      BY <1>1 DEF TypeOK
    <2> QED BY <1>1, <1>2, <2>1, <2>2, <2>3, <2>4, QuietIInv DEF WaitingLabels
  <1> QED BY <1>3, <1>4

\* The fetch_add of lock_contended(): one more waiting writer, counted.
LEMMA RegisterWriterIInv ==
    ASSUME IInv, NEW t \in Threads, RegisterWriter(t)
    PROVE  IInv'
  <1> USE DEF IInv
  <1>1. /\ pc \in [Threads -> Labels]
        /\ pc[t] = "w_register" /\ pc' = [pc EXCEPT ![t] = "w_load"]
        /\ current' = current /\ writes' = writes
    BY DEF RegisterWriter, Goto, TypeOK
  <1>2. state.writer \in BOOLEAN /\ state.waiting \in Nat /\ state.readers \in Nat
    BY DEF TypeOK, Words
  <1>3. state' = [writer |-> state.writer, waiting |-> state.waiting + 1,
                  readers |-> state.readers]
    BY DEF RegisterWriter, TypeOK, Words
  <1>4. TypeOK'
    <2>1. state' \in Words
      BY <1>2, <1>3 DEF Words
    <2>2. "w_load" \in Labels
      BY DEF Labels, WriterLabels
    <2> QED BY <1>1, <2>1, <2>2 DEF TypeOK
  <1>5. /\ ActiveWriters' = ActiveWriters /\ ActiveReaders' = ActiveReaders
        /\ WaitingWriters' = WaitingWriters \cup {t}
        /\ t \notin WaitingWriters /\ WaitingWriters \in SUBSET Threads
    BY <1>1 DEF ActiveWriters, ActiveReaders, WaitingWriters
  <1>6. CountsExact' /\ ExclusionInv'
    <2>1. Cardinality(WaitingWriters') = Cardinality(WaitingWriters) + 1
      BY <1>5, CountAdd
    <2> QED BY <1>3, <1>5, <2>1 DEF CountsExact, ExclusionInv
  <1>7. LocalInv'
    BY <1>1 DEF LocalInv
  <1>8. NoLostWakeup'
    <2>1. state'.waiting # 0
      BY <1>2, <1>3
    <2>2. ~ FreeForReader(state')
      BY <2>1 DEF FreeForReader
    <2>3. pc'[t] = "w_load"
      BY <1>1
    <2> QED BY <2>2, <2>3 DEF NoLostWakeup
  <1> QED BY <1>4, <1>6, <1>7, <1>8

\* A registered writer takes the lock it found free.
LEMMA AcquireWriterIInv ==
    ASSUME IInv, NEW t \in Threads, AcquireWriter(t)
    PROVE  IInv'
  <1> USE DEF IInv
  <1>1. /\ pc \in [Threads -> Labels] /\ pc[t] = "w_cas"
        /\ current' = [current EXCEPT ![t] = UNLOCKED] /\ writes' = writes
    BY DEF AcquireWriter, Forget, TypeOK
  <1>2. current' \in [Threads -> Words]
    <2>1. UNLOCKED \in Words
      BY DEF UNLOCKED, Words
    <2> QED BY <1>1, <2>1 DEF TypeOK
  <1>3. CASE state = current[t]
    <2>1. state' = TakenByWriter(state) /\ pc' = [pc EXCEPT ![t] = "w_in"]
      BY <1>3 DEF AcquireWriter, Goto
    <2>2. FreeForWriter(state)
      BY <1>1, <1>3 DEF LocalInv
    <2>3. /\ WaitingWriters \in SUBSET Threads /\ t \in WaitingWriters
          /\ ActiveReaders \in SUBSET Threads
      BY <1>1 DEF WaitingWriters, ActiveReaders
    <2>4. /\ ActiveWriters = {} /\ ActiveReaders = {}
          /\ Cardinality(WaitingWriters \ {t}) = Cardinality(WaitingWriters) - 1
          /\ Cardinality(WaitingWriters) \in Nat \ {0}
      <3>1. ActiveWriters = {}
        BY <2>2 DEF FreeForWriter, CountsExact
      <3>2. Cardinality(ActiveReaders) = 0
        BY <2>2 DEF FreeForWriter, CountsExact
      <3> QED BY <2>3, <3>1, <3>2, ThreadSetFinite, CountRemove
    <2>5. state.waiting \in Nat \ {0}
      BY <2>4 DEF CountsExact
    <2>6. state' = [writer |-> TRUE, waiting |-> state.waiting - 1, readers |-> 0]
      <3>1. state' = [writer |-> TRUE, waiting |-> state.waiting - 1,
                      readers |-> state.readers]
        BY <2>1 DEF TypeOK, Words, TakenByWriter
      <3> QED BY <2>2, <3>1 DEF FreeForWriter
    <2>7. TypeOK'
      <3>1. state' \in Words
        BY <2>5, <2>6 DEF Words
      <3>2. "w_in" \in Labels
        BY DEF Labels, WriterLabels
      <3> QED BY <1>1, <1>2, <2>1, <3>1, <3>2 DEF TypeOK
    <2>8. /\ ActiveWriters' = {t} /\ ActiveReaders' = {}
          /\ WaitingWriters' = WaitingWriters \ {t}
      BY <1>1, <2>1, <2>4 DEF ActiveWriters, ActiveReaders, WaitingWriters
    <2>9. CountsExact' /\ ExclusionInv'
      <3>1. Cardinality({}) = 0
        BY FS_EmptySet
      <3>2. state.waiting = Cardinality(WaitingWriters)
        BY DEF CountsExact
      <3> QED BY <2>4, <2>6, <2>8, <3>1, <3>2 DEF CountsExact, ExclusionInv
    <2>10. LocalInv'
      BY <1>1, <2>1 DEF LocalInv, TypeOK
    <2>11. NoLostWakeup'
      BY <2>6 DEF NoLostWakeup, FreeForWriter, FreeForReader
    <2> QED BY <2>7, <2>9, <2>10, <2>11
  <1>4. CASE state # current[t]
    <2>1. state' = state /\ Goto(t, "w_load")
      BY <1>4 DEF AcquireWriter
    <2>2. LocalInv'
      BY <1>1, <2>1 DEF TypeOK, LocalInv, Goto
    <2>3. "w_load" \in Labels
      BY DEF Labels, WriterLabels
    <2>4. writes' \in [Threads -> 0 .. MaxWrites]
      BY <1>1 DEF TypeOK
    <2> QED BY <1>1, <1>2, <2>1, <2>2, <2>3, <2>4, QuietIInv DEF WaitingLabels
  <1> QED BY <1>3, <1>4

\* A load or a failed compare-exchange that only changes t's place and its
\* local `current'.
LEMMA LoadWriterIInv ==
    ASSUME IInv, NEW t \in Threads, LoadWriter(t)
    PROVE  IInv'
  <1> USE DEF IInv
  <1> DEFINE label == IF FreeForWriter(state) THEN "w_cas" ELSE "w_wait"
  <1>1. /\ pc[t] = "w_load" /\ Goto(t, label) /\ state' = state
        /\ current' = [current EXCEPT ![t] = state] /\ writes' = writes
    BY DEF LoadWriter
  <1>2. label \in {"w_cas", "w_wait"} /\ label \in Labels
    BY DEF Labels, WriterLabels
  <1>3. current' \in [Threads -> Words] /\ writes' \in [Threads -> 0 .. MaxWrites]
    BY <1>1 DEF TypeOK
  <1>4. LocalInv'
    BY <1>1 DEF LocalInv, TypeOK, Goto
  <1> HIDE DEF label
  <1> QED BY <1>1, <1>2, <1>3, <1>4, QuietIInv DEF WaitingLabels

LEMMA LoadReaderIInv ==
    ASSUME IInv, NEW t \in Threads, LoadReader(t)
    PROVE  IInv'
  <1> USE DEF IInv
  <1> DEFINE label == IF FreeForReader(state) THEN "r_cas" ELSE "r_wait"
  <1>1. /\ pc[t] = "r_load" /\ Goto(t, label) /\ state' = state
        /\ current' = [current EXCEPT ![t] = state] /\ writes' = writes
    BY DEF LoadReader
  <1>2. label \in {"r_cas", "r_wait"} /\ label \in Labels
    BY DEF Labels, ReaderLabels
  <1>3. current' \in [Threads -> Words] /\ writes' \in [Threads -> 0 .. MaxWrites]
    BY <1>1 DEF TypeOK
  <1>4. LocalInv'
    BY <1>1 DEF LocalInv, TypeOK, Goto
  <1> HIDE DEF label
  <1> QED BY <1>1, <1>2, <1>3, <1>4, QuietIInv DEF WaitingLabels

\* futex::wait: a thread falls asleep only on the word it saw blocked.
LEMMA FutexWaitIInv ==
    ASSUME IInv, NEW t \in Threads, FutexWait(t)
    PROVE  IInv'
  <1> USE DEF IInv
  <1>1. /\ state' = state /\ writes' = writes
        /\ current' = [current EXCEPT ![t] = UNLOCKED]
    BY DEF FutexWait, Forget
  <1>2. current' \in [Threads -> Words] /\ writes' \in [Threads -> 0 .. MaxWrites]
    <2>1. UNLOCKED \in Words
      BY DEF UNLOCKED, Words
    <2> QED BY <1>1, <2>1 DEF TypeOK
  <1>3. ASSUME pc[t] = "w_wait" /\ Goto(t, IF state = current[t] THEN "w_asleep" ELSE "w_load")
        PROVE  IInv'
    <2>1. PICK label \in {"w_asleep", "w_load"} :
             Goto(t, label) /\ (label = "w_asleep" => state = current[t])
      BY <1>3
    <2>2. label = "w_asleep" => ~ FreeForWriter(state)
      BY <1>3, <2>1 DEF LocalInv
    <2>3. label \in Labels
      BY DEF Labels, WriterLabels
    <2>4. LocalInv'
      BY <1>1, <2>1 DEF LocalInv, TypeOK, Goto
    <2> QED BY <1>1, <1>2, <1>3, <2>1, <2>2, <2>3, <2>4, QuietIInv DEF WaitingLabels
  <1>4. ASSUME pc[t] = "r_wait" /\ Goto(t, IF state = current[t] THEN "r_asleep" ELSE "r_load")
        PROVE  IInv'
    <2>1. PICK label \in {"r_asleep", "r_load"} :
             Goto(t, label) /\ (label = "r_asleep" => state = current[t])
      BY <1>4
    <2>2. label = "r_asleep" => ~ FreeForReader(state)
      BY <1>4, <2>1 DEF LocalInv
    <2>3. label \in Labels
      BY DEF Labels, ReaderLabels
    <2>4. LocalInv'
      BY <1>1, <2>1 DEF LocalInv, TypeOK, Goto
    <2> QED BY <1>1, <1>2, <1>4, <2>1, <2>2, <2>3, <2>4, QuietIInv DEF WaitingLabels
  <1> QED BY <1>3, <1>4 DEF FutexWait

\* An interrupted wait.
LEMMA SpuriousWakeIInv ==
    ASSUME IInv, NEW t \in Threads, SpuriousWake(t)
    PROVE  IInv'
  <1> USE DEF IInv
  <1>1. state' = state /\ writes' = writes /\ current' = current
    BY DEF SpuriousWake
  <1>2. PICK label \in {"w_load", "r_load"} :
           /\ Goto(t, label)
           /\ pc[t] = IF label = "w_load" THEN "w_asleep" ELSE "r_asleep"
    BY DEF SpuriousWake
  <1>3. label \in Labels
    BY DEF Labels, WriterLabels, ReaderLabels
  <1>4. current' \in [Threads -> Words] /\ writes' \in [Threads -> 0 .. MaxWrites]
    BY <1>1 DEF TypeOK
  <1>5. LocalInv'
    BY <1>1, <1>2 DEF LocalInv, TypeOK, Goto
  <1> QED BY <1>1, <1>2, <1>3, <1>4, <1>5, QuietIInv DEF WaitingLabels

\* A load on the way to a shared acquisition, with what a failed
\* compare-exchange of the fast path returns.
LEMMA LoadSharedIInv ==
    ASSUME IInv, NEW t \in Threads, pc[t] \in {"out", "r_first", "r_try"},
           NEW next \in {"r_first", "r_try"}, NEW blocked \in {"r_load", "out"},
           LoadShared(t, next, blocked)
    PROVE  IInv'
  <1> USE DEF IInv
  <1>1. state' = state /\ writes' = writes
    BY DEF LoadShared
  <1>2. PICK label \in {"r_first", "r_try", "r_load", "out"} :
           /\ Goto(t, label)
           /\ label \in {"r_first", "r_try"} =>
                FreeForReader(state) /\ current' = [current EXCEPT ![t] = state]
           /\ label \in {"r_load", "out"} =>
                current' = [current EXCEPT ![t] = UNLOCKED]
    BY DEF LoadShared, Forget
  <1>3. label \in Labels
    BY DEF Labels, ReaderLabels
  <1>4. current' \in [Threads -> Words] /\ writes' \in [Threads -> 0 .. MaxWrites]
    <2>1. UNLOCKED \in Words
      BY DEF UNLOCKED, Words
    <2> QED BY <1>1, <1>2, <2>1 DEF TypeOK
  <1>5. LocalInv'
    BY <1>1, <1>2 DEF LocalInv, TypeOK, Goto
  <1> QED BY <1>1, <1>2, <1>3, <1>4, <1>5, QuietIInv DEF WaitingLabels

\* A reader enters: the word it compares is free for readers.
LEMMA AcquireSharedIInv ==
    ASSUME IInv, NEW t \in Threads, pc[t] \in {"r_first", "r_try", "r_cas"},
           AcquireShared(t)
    PROVE  IInv'
  <1> USE DEF IInv
  <1>1. /\ pc \in [Threads -> Labels] /\ pc' = [pc EXCEPT ![t] = "r_in"]
        /\ current' = [current EXCEPT ![t] = UNLOCKED] /\ writes' = writes
    BY DEF AcquireShared, Forget, Goto, TypeOK
  <1>2. FreeForReader(state)
    BY DEF AcquireShared, LocalInv
  <1>3. state.writer \in BOOLEAN /\ state.waiting \in Nat /\ state.readers \in Nat
    BY DEF TypeOK, Words
  <1>4. state' = [writer |-> state.writer, waiting |-> state.waiting,
                  readers |-> state.readers + 1]
    BY DEF AcquireShared, TakenByReader, TypeOK, Words
  <1>5. TypeOK'
    <2>1. state' \in Words /\ UNLOCKED \in Words
      BY <1>3, <1>4 DEF Words, UNLOCKED
    <2>2. "r_in" \in Labels
      BY DEF Labels, ReaderLabels
    <2> QED BY <1>1, <2>1, <2>2 DEF TypeOK
  <1>6. /\ ActiveWriters' = ActiveWriters /\ WaitingWriters' = WaitingWriters
        /\ ActiveReaders' = ActiveReaders \cup {t}
        /\ t \notin ActiveReaders /\ ActiveReaders \in SUBSET Threads
    BY <1>1 DEF ActiveWriters, ActiveReaders, WaitingWriters
  <1>7. ActiveWriters = {}
    BY <1>2 DEF FreeForReader, CountsExact
  <1>8. CountsExact' /\ ExclusionInv'
    <2>1. Cardinality(ActiveReaders') = Cardinality(ActiveReaders) + 1
      BY <1>6, CountAdd
    <2> QED BY <1>4, <1>6, <1>7, <2>1 DEF CountsExact, ExclusionInv
  <1>9. LocalInv'
    BY <1>1 DEF LocalInv, TypeOK
  <1>10. NoLostWakeup'
    <2>1. ~ FreeForWriter(state')
      BY <1>3, <1>4 DEF FreeForWriter
    <2>2. FreeForReader(state') = FreeForReader(state)
      BY <1>4 DEF FreeForReader
    <2>3. \A u \in Threads : /\ pc'[u] = "r_asleep" => pc[u] = "r_asleep"
                             /\ pc[u] = "wake_all" => pc'[u] = "wake_all"
      BY <1>1
    <2> QED BY <2>1, <2>2, <2>3 DEF NoLostWakeup
  <1> QED BY <1>5, <1>8, <1>9, <1>10

\* unlock(): the one writer leaves and is about to wake everybody.
LEMMA UnlockIInv ==
    ASSUME IInv, NEW t \in Threads, Unlock(t)
    PROVE  IInv'
  <1> USE DEF IInv
  <1>1. /\ pc \in [Threads -> Labels] /\ pc[t] = "w_in"
        /\ pc' = [pc EXCEPT ![t] = "wake_all"]
        /\ current' = current /\ writes' = writes
    BY DEF Unlock, Goto, TypeOK
  <1>2. state.writer \in BOOLEAN /\ state.waiting \in Nat /\ state.readers \in Nat
    BY DEF TypeOK, Words
  <1>3. state' = [writer |-> FALSE, waiting |-> state.waiting,
                  readers |-> state.readers]
    BY DEF Unlock, TypeOK, Words
  <1>4. TypeOK'
    <2>1. state' \in Words
      BY <1>2, <1>3 DEF Words
    <2>2. "wake_all" \in Labels
      BY DEF Labels
    <2> QED BY <1>1, <2>1, <2>2 DEF TypeOK
  <1>5. ActiveWriters = {t}
    BY <1>1 DEF ActiveWriters, ExclusionInv
  <1>6. /\ ActiveWriters' = {} /\ WaitingWriters' = WaitingWriters
        /\ ActiveReaders' = ActiveReaders
    BY <1>1, <1>5 DEF ActiveWriters, ActiveReaders, WaitingWriters
  <1>7. CountsExact' /\ ExclusionInv'
    BY <1>3, <1>6 DEF CountsExact, ExclusionInv
  <1>8. LocalInv'
    BY <1>1 DEF LocalInv
  <1>9. NoLostWakeup'
    <2>1. pc'[t] = "wake_all"
      BY <1>1
    <2> QED BY <2>1 DEF NoLostWakeup
  <1> QED BY <1>4, <1>7, <1>8, <1>9

\* unlock_shared(): the last reader wakes if a writer is counted as waiting,
\* and the count is exact, so a writer that sleeps is counted.
LEMMA UnlockSharedIInv ==
    ASSUME IInv, NEW t \in Threads, UnlockShared(t)
    PROVE  IInv'
  <1> USE DEF IInv
  <1>1. PICK label \in {"wake_all", "out"} :
           /\ pc' = [pc EXCEPT ![t] = label]
           /\ (state.readers = 1 /\ state.waiting > 0) => label = "wake_all"
    BY DEF UnlockShared, Goto
  <1>2. /\ pc \in [Threads -> Labels] /\ pc[t] = "r_in"
        /\ current' = current /\ writes' = writes
    BY DEF UnlockShared, TypeOK
  <1>3. state.writer \in BOOLEAN /\ state.waiting \in Nat /\ state.readers \in Nat
    BY DEF TypeOK, Words
  <1>4. state' = [writer |-> state.writer, waiting |-> state.waiting,
                  readers |-> state.readers - 1]
    BY DEF UnlockShared, TypeOK, Words
  <1>5. /\ ActiveReaders \in SUBSET Threads /\ t \in ActiveReaders
        /\ WaitingWriters \in SUBSET Threads
    BY <1>2 DEF ActiveReaders, WaitingWriters
  <1>6. /\ Cardinality(ActiveReaders \ {t}) = Cardinality(ActiveReaders) - 1
        /\ Cardinality(ActiveReaders) # 0
    BY <1>5, CountRemove
  <1>7. state.readers = Cardinality(ActiveReaders)
    BY DEF CountsExact
  <1>8. state.readers - 1 \in Nat
    BY <1>3, <1>6, <1>7
  <1>9. TypeOK'
    <2>1. state' \in Words
      BY <1>3, <1>4, <1>8 DEF Words
    <2>2. label \in Labels
      BY DEF Labels
    <2> QED BY <1>1, <1>2, <2>1, <2>2 DEF TypeOK
  <1>10. /\ ActiveWriters' = ActiveWriters /\ WaitingWriters' = WaitingWriters
         /\ ActiveReaders' = ActiveReaders \ {t}
    BY <1>1, <1>2 DEF ActiveWriters, ActiveReaders, WaitingWriters
  <1>11. CountsExact' /\ ExclusionInv'
    BY <1>4, <1>5, <1>6, <1>7, <1>10 DEF CountsExact, ExclusionInv
  <1>12. LocalInv'
    BY <1>1, <1>2 DEF LocalInv
  <1>13. NoLostWakeup'
    <2>1. ASSUME FreeForWriter(state'), NEW u \in Threads, pc'[u] = "w_asleep"
          PROVE  \E v \in Threads :
                    pc'[v] \in {"wake_all", "w_load", "w_cas", "w_wait"}
      <3>1. state.readers = 1
        BY <1>3, <1>4, <2>1 DEF FreeForWriter
      <3>2. u \in WaitingWriters
        BY <1>1, <1>2, <2>1 DEF WaitingWriters
      <3>3. Cardinality(WaitingWriters) # 0
        BY <1>5, <3>2, ThreadSetFinite
      <3>4. state.waiting > 0
        BY <1>3, <3>3 DEF CountsExact
      <3>5. pc'[t] = "wake_all"
        BY <1>1, <1>2, <3>1, <3>4
      <3> QED BY <3>5
    <2>2. FreeForReader(state') = FreeForReader(state)
      BY <1>4 DEF FreeForReader
    <2>3. \A u \in Threads : /\ pc'[u] = "r_asleep" => pc[u] = "r_asleep"
                             /\ pc[u] = "wake_all" => pc'[u] = "wake_all"
      BY <1>1, <1>2
    <2> QED BY <2>1, <2>2, <2>3 DEF NoLostWakeup
  <1> QED BY <1>9, <1>11, <1>12, <1>13

\* futex::wake_all: nobody is asleep afterwards.
LEMMA WakeIInv ==
    ASSUME IInv, NEW t \in Threads, Wake(t)
    PROVE  IInv'
  <1> USE DEF IInv
  <1>1. /\ state' = state /\ current' = current /\ writes' = writes
        /\ pc \in [Threads -> Labels] /\ pc[t] = "wake_all"
    BY DEF Wake, TypeOK
  <1>2. pc' = [u \in Threads |->
                 IF u = t THEN "out"
                 ELSE IF u \notin Sleepers THEN pc[u]
                 ELSE IF pc[u] = "w_asleep" THEN "w_load" ELSE "r_load"]
    BY DEF Wake, WakeAll
  <1>3. \A u \in Threads :
           /\ u = t => pc'[u] = "out"
           /\ u # t /\ pc[u] = "w_asleep" => pc'[u] = "w_load"
           /\ u # t /\ pc[u] = "r_asleep" => pc'[u] = "r_load"
           /\ u # t /\ pc[u] \notin {"w_asleep", "r_asleep"} => pc'[u] = pc[u]
    BY <1>1, <1>2 DEF Sleepers
  <1>4. pc' \in [Threads -> Labels]
    <2>1. {"out", "w_load", "r_load"} \subseteq Labels
      BY DEF Labels, WriterLabels, ReaderLabels
    <2>2. \A u \in Threads : pc'[u] \in Labels
      BY <1>1, <1>3, <2>1
    <2> QED BY <1>2, <2>2
  <1>5. TypeOK'
    BY <1>1, <1>4 DEF TypeOK
  <1>6. /\ ActiveWriters' = ActiveWriters /\ ActiveReaders' = ActiveReaders
        /\ WaitingWriters' = WaitingWriters
    BY <1>1, <1>3 DEF ActiveWriters, ActiveReaders, WaitingWriters
  <1>7. CountsExact' /\ ExclusionInv'
    BY <1>1, <1>6 DEF CountsExact, ExclusionInv
  <1>8. LocalInv'
    BY <1>1, <1>3 DEF LocalInv
  <1>9. NoLostWakeup'
    BY <1>1, <1>3 DEF NoLostWakeup
  <1> QED BY <1>5, <1>7, <1>8, <1>9

\* Every step keeps the invariant.
LEMMA NextIInv == IInv /\ [Next]_vars => IInv'
  <1> SUFFICES ASSUME IInv, [Next]_vars PROVE IInv'
    OBVIOUS
  <1>1. CASE UNCHANGED vars
    BY <1>1 DEF vars, IInv, TypeOK, CountsExact, ExclusionInv, LocalInv,
                NoLostWakeup, ActiveWriters, ActiveReaders, WaitingWriters,
                FreeForWriter, FreeForReader
  <1>2. CASE Next
    <2>1. PICK t \in Threads :
             \/ Lock(t) \/ TryLock(t) \/ LockShared(t) \/ TryLockShared(t)
             \/ Progress(t) \/ Release(t) \/ SpuriousWake(t)
      BY <1>2 DEF Next
    <2>2. CASE Lock(t) \/ TryLock(t)
      BY <2>2, TryAcquireExclusiveIInv DEF Lock, TryLock
    <2>3. CASE LockShared(t) \/ TryLockShared(t)
      BY <2>3, LoadSharedIInv DEF LockShared, TryLockShared
    <2>4. CASE FastShared(t) \/ TryShared(t)
      BY <2>4, LoadSharedIInv, AcquireSharedIInv DEF FastShared, TryShared
    <2>5. CASE AcquireReader(t)
      <3>1. CASE AcquireShared(t)
        BY <2>5, <3>1, AcquireSharedIInv DEF AcquireReader
      <3>2. CASE ~ AcquireShared(t)
        <4>1. /\ pc[t] = "r_cas" /\ Goto(t, "r_load") /\ Forget(t)
              /\ state' = state /\ writes' = writes
          BY <2>5, <3>2 DEF AcquireReader
        <4>2. "r_load" \in Labels /\ UNLOCKED \in Words
          BY DEF Labels, ReaderLabels, UNLOCKED, Words
        <4>3. /\ current' \in [Threads -> Words]
              /\ writes' \in [Threads -> 0 .. MaxWrites]
          BY <4>1, <4>2 DEF Forget, IInv, TypeOK
        <4>4. LocalInv'
          BY <4>1 DEF IInv, LocalInv, TypeOK, Goto, Forget
        <4> QED BY <4>1, <4>2, <4>3, <4>4, QuietIInv DEF WaitingLabels
      <3> QED BY <3>1, <3>2
    <2>6. CASE RegisterWriter(t) \/ LoadWriter(t) \/ AcquireWriter(t)
      BY <2>6, RegisterWriterIInv, LoadWriterIInv, AcquireWriterIInv
    <2>7. CASE LoadReader(t) \/ FutexWait(t) \/ Wake(t)
      BY <2>7, LoadReaderIInv, FutexWaitIInv, WakeIInv
    <2>8. CASE Unlock(t) \/ UnlockShared(t) \/ SpuriousWake(t)
      BY <2>8, UnlockIInv, UnlockSharedIInv, SpuriousWakeIInv
    <2> QED BY <2>1, <2>2, <2>3, <2>4, <2>5, <2>6, <2>7, <2>8
            DEF Progress, Release
  <1> QED BY <1>1, <1>2

-----------------------------------------------------------------------------
\* The invariant holds in every reachable state, for any finite set of
\* threads and any number of calls.
THEOREM Invariance == Spec => []IInv
  <1> QED BY InitIInv, NextIInv, PTL DEF Spec

\* The fields keep their types: no counter of the word goes below zero.
THEOREM TypeCorrect == Spec => []TypeOK
  <1>1. IInv => TypeOK
    BY DEF IInv
  <1> QED BY <1>1, Invariance, PTL

\* The word counts its readers and its waiting writers exactly.
THEOREM CountsAreExact == Spec => []CountsExact
  <1>1. IInv => CountsExact
    BY DEF IInv
  <1> QED BY <1>1, Invariance, PTL

\* Nobody sleeps on a lock it could take without a wake on its way.
THEOREM NoWakeupIsLost == Spec => []NoLostWakeup
  <1>1. IInv => NoLostWakeup
    BY DEF IInv
  <1> QED BY <1>1, Invariance, PTL

\* The five things a step can do to the owners of the lock.
OwnersMove ==
    \/ ActiveWriters' = ActiveWriters /\ ActiveReaders' = ActiveReaders
    \/ \E t \in Threads :
          \/ /\ ActiveWriters = {} /\ ActiveReaders = {}
             /\ ActiveWriters' = {t} /\ ActiveReaders' = ActiveReaders
          \/ /\ ActiveWriters = {t}
             /\ ActiveWriters' = {} /\ ActiveReaders' = ActiveReaders
          \/ /\ FreeForReader(state) /\ ActiveWriters = {} /\ t \notin ActiveReaders
             /\ ActiveReaders' = ActiveReaders \cup {t}
             /\ ActiveWriters' = ActiveWriters
          \/ /\ t \in ActiveReaders
             /\ ActiveReaders' = ActiveReaders \ {t}
             /\ ActiveWriters' = ActiveWriters

\* A thread that moves between labels outside the critical sections.
LEMMA OutsideMove ==
    ASSUME TypeOK, NEW t \in Threads, pc[t] \notin {"w_in", "r_in"},
           NEW label, label \notin {"w_in", "r_in"}, Goto(t, label)
    PROVE  OwnersMove
  BY DEF OwnersMove, TypeOK, Goto, ActiveWriters, ActiveReaders

\* A writer enters a lock that is free for it.
LEMMA WriterMove ==
    ASSUME IInv, NEW t \in Threads, pc[t] \notin {"w_in", "r_in"},
           FreeForWriter(state), Goto(t, "w_in")
    PROVE  OwnersMove
  <1>1. ActiveReaders \in SUBSET Threads /\ pc \in [Threads -> Labels]
    BY DEF ActiveReaders, IInv, TypeOK
  <1>2. ActiveWriters = {} /\ Cardinality(ActiveReaders) = 0
    BY DEF IInv, CountsExact, FreeForWriter
  <1>3. ActiveReaders = {}
    BY <1>1, <1>2, ThreadSetFinite
  <1>4. ActiveWriters' = {t} /\ ActiveReaders' = ActiveReaders
    BY <1>1, <1>2 DEF Goto, ActiveWriters, ActiveReaders
  <1> QED BY <1>2, <1>3, <1>4 DEF OwnersMove

\* A reader enters on a word that is free for readers.
LEMMA ReaderMove ==
    ASSUME IInv, NEW t \in Threads, pc[t] \in {"r_first", "r_try", "r_cas"},
           AcquireShared(t)
    PROVE  OwnersMove
  <1>1. FreeForReader(state)
    BY DEF IInv, LocalInv, AcquireShared
  <1>2. ActiveWriters = {}
    BY <1>1 DEF IInv, CountsExact, FreeForReader
  <1>3. pc \in [Threads -> Labels]
    BY DEF IInv, TypeOK
  <1>4. /\ t \notin ActiveReaders
        /\ ActiveReaders' = ActiveReaders \cup {t} /\ ActiveWriters' = ActiveWriters
    BY <1>3 DEF AcquireShared, Goto, ActiveReaders, ActiveWriters
  <1> QED BY <1>1, <1>2, <1>4 DEF OwnersMove

\* Every step does one of these things.
LEMMA NextMove ==
    ASSUME IInv, Next
    PROVE  OwnersMove
  <1>1. TypeOK /\ LocalInv /\ ExclusionInv /\ pc \in [Threads -> Labels]
    BY DEF IInv, TypeOK
  <1>2. PICK t \in Threads :
           \/ Lock(t) \/ TryLock(t) \/ LockShared(t) \/ TryLockShared(t)
           \/ Progress(t) \/ Release(t) \/ SpuriousWake(t)
    BY DEF Next
  <1>3. CASE Lock(t) \/ TryLock(t)
    <2>1. CASE state = UNLOCKED
      <3>1. FreeForWriter(state)
        BY <2>1 DEF UNLOCKED, FreeForWriter
      <3>2. pc[t] = "out" /\ Goto(t, "w_in")
        BY <1>3, <2>1 DEF Lock, TryLock, TryAcquireExclusive
      <3> QED BY <3>1, <3>2, WriterMove
    <2>2. CASE state # UNLOCKED
      BY <1>1, <1>3, <2>2, OutsideMove DEF Lock, TryLock, TryAcquireExclusive
    <2> QED BY <2>1, <2>2
  <1>4. CASE LockShared(t) \/ TryLockShared(t)
    BY <1>1, <1>4, OutsideMove DEF LockShared, TryLockShared, LoadShared
  <1>5. CASE FastShared(t) \/ TryShared(t) \/ AcquireReader(t)
    <2>1. pc[t] \in {"r_first", "r_try", "r_cas"}
      BY <1>5 DEF FastShared, TryShared, AcquireReader
    <2>2. CASE AcquireShared(t)
      BY <2>1, <2>2, ReaderMove
    <2>3. CASE ~ AcquireShared(t)
      BY <1>1, <1>5, <2>1, <2>3, OutsideMove
      DEF FastShared, TryShared, AcquireReader, LoadShared
    <2> QED BY <2>2, <2>3
  <1>6. CASE AcquireWriter(t)
    <2>1. CASE state = current[t]
      BY <1>1, <1>6, <2>1, WriterMove DEF AcquireWriter, LocalInv
    <2>2. CASE state # current[t]
      BY <1>1, <1>6, <2>2, OutsideMove DEF AcquireWriter
    <2> QED BY <2>1, <2>2
  <1>7. CASE RegisterWriter(t) \/ LoadWriter(t) \/ LoadReader(t) \/ FutexWait(t)
             \/ SpuriousWake(t)
    BY <1>1, <1>7, OutsideMove
    DEF RegisterWriter, LoadWriter, LoadReader, FutexWait, SpuriousWake
  <1>8. CASE Wake(t)
    BY <1>1, <1>8
    DEF Wake, WakeAll, Sleepers, OwnersMove, ActiveWriters, ActiveReaders
  <1>9. CASE Unlock(t)
    <2>1. ActiveWriters = {t}
      BY <1>1, <1>9 DEF Unlock, ActiveWriters, ExclusionInv
    <2>2. ActiveWriters' = {} /\ ActiveReaders' = ActiveReaders
      BY <1>1, <1>9, <2>1 DEF Unlock, Goto, ActiveWriters, ActiveReaders
    <2> QED BY <2>1, <2>2 DEF OwnersMove
  <1>10. CASE UnlockShared(t)
    <2>1. /\ t \in ActiveReaders /\ ActiveReaders' = ActiveReaders \ {t}
          /\ ActiveWriters' = ActiveWriters
      BY <1>1, <1>10 DEF UnlockShared, Goto, ActiveWriters, ActiveReaders
    <2> QED BY <2>1 DEF OwnersMove
  <1> QED BY <1>2, <1>3, <1>4, <1>5, <1>6, <1>7, <1>8, <1>9, <1>10
          DEF Progress, Release

\* Writer preference: while a writer is registered no reader enters.
THEOREM WritersArePreferred == Spec => WriterPreference
  <1>1. IInv /\ [Next]_vars =>
          [WaitingWriters # {} => ActiveReaders' \subseteq ActiveReaders]_vars
    <2> SUFFICES ASSUME IInv, Next, WaitingWriters # {}
                 PROVE  ActiveReaders' \subseteq ActiveReaders
      OBVIOUS
    <2>1. ~ FreeForReader(state)
      <3>1. WaitingWriters \in SUBSET Threads
        BY DEF WaitingWriters
      <3>2. Cardinality(WaitingWriters) # 0
        BY <3>1, ThreadSetFinite
      <3> QED BY <3>2 DEF IInv, CountsExact, FreeForReader
    <2> QED BY <2>1, NextMove DEF OwnersMove
  <1> QED BY <1>1, Invariance, PTL DEF Spec, WriterPreference

\* Reader-writer exclusion as a refinement, for every set of threads.
THEOREM SharedMutexImplementsLock == Spec => ImplementsSharedLock
  <1>1. Init => Abstract!Init
    BY DEF Init, Abstract!Init, ActiveWriters, ActiveReaders
  <1>2. IInv /\ [Next]_vars =>
          [Abstract!Next]_<<ActiveWriters, ActiveReaders>>
    <2> SUFFICES ASSUME IInv, [Next]_vars
                 PROVE  [Abstract!Next]_<<ActiveWriters, ActiveReaders>>
      OBVIOUS
    <2>1. CASE Next
      BY <2>1, NextMove
      DEF OwnersMove, Abstract!Next, Abstract!AcquireExclusive,
          Abstract!ReleaseExclusive, Abstract!AcquireShared, Abstract!ReleaseShared
    <2>2. CASE UNCHANGED vars
      BY <2>2 DEF vars, ActiveWriters, ActiveReaders
    <2> QED BY <2>1, <2>2
  <1> QED BY <1>1, <1>2, Invariance, PTL
          DEF Spec, ImplementsSharedLock, Abstract!Spec

=============================================================================
