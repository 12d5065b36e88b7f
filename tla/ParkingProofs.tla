--------------------------- MODULE ParkingProofs ---------------------------
(***************************************************************************)
(* Proofs about MicroLock and TaggedLockPtr over the parking lot, for any  *)
(* number of threads, locks, buckets and calls.                            *)
(***************************************************************************)
EXTENDS ParkingLocks, SequenceTheorems, TLAPS

-----------------------------------------------------------------------------
(* Lists of nodes *)

In(s, n) == \E i \in 1 .. Len(s) : s[i] = n
Distinct(s) == \A i, j \in 1 .. Len(s) : s[i] = s[j] => i = j

\* Taking the i-th node out of a list.
LEMMA RemovedFrom ==
    ASSUME NEW S, NEW s \in Seq(S), Distinct(s), NEW i \in 1 .. Len(s)
    PROVE  /\ RemoveAt(s, i) \in Seq(S) /\ Distinct(RemoveAt(s, i))
           /\ \A n : In(RemoveAt(s, i), n) <=> In(s, n) /\ n # s[i]
<1> DEFINE a == SubSeq(s, 1, i - 1)
           b == SubSeq(s, i + 1, Len(s))
           r == a \o b
<1>1. Len(s) \in Nat /\ \A k \in 1 .. Len(s) : s[k] \in S
  OBVIOUS
<1>2. a \in Seq(S) /\ Len(a) = i - 1 /\ \A k \in 1 .. i - 1 : a[k] = s[k]
  BY <1>1, SubSeqProperties
<1>3. b \in Seq(S) /\ Len(b) = Len(s) - i /\ \A k \in 1 .. Len(s) - i : b[k] = s[i + k]
  BY <1>1, SubSeqProperties
<1>4. /\ r \in Seq(S) /\ Len(r) = Len(s) - 1
      /\ \A k \in 1 .. Len(s) - 1 : r[k] = IF k < i THEN s[k] ELSE s[k + 1]
  <2> HIDE DEF a, b
  <2>1. r \in Seq(S) /\ Len(r) = Len(a) + Len(b)
        /\ \A k \in 1 .. Len(a) + Len(b) : r[k] = IF k <= Len(a) THEN a[k] ELSE b[k - Len(a)]
    BY <1>2, <1>3, ConcatProperties
  <2>2. \A k \in 1 .. Len(s) - 1 :
          IF k <= Len(a) THEN k < i /\ k \in 1 .. i - 1
          ELSE ~ (k < i) /\ k - Len(a) \in 1 .. Len(s) - i /\ i + (k - Len(a)) = k + 1
    BY <1>1, <1>2
  <2>3. Len(a) + Len(b) = Len(s) - 1
    BY <1>1, <1>2, <1>3
  <2> HIDE DEF r
  <2> QED
    BY <1>2, <1>3, <2>1, <2>2, <2>3
<1>5. RemoveAt(s, i) = r
  BY Zenon DEF RemoveAt
<1> HIDE DEF r
<1>6. Distinct(r)
  <2> SUFFICES ASSUME NEW j \in 1 .. Len(r), NEW k \in 1 .. Len(r), r[j] = r[k] PROVE j = k
    BY DEF Distinct
  <2> DEFINE at(m) == IF m < i THEN m ELSE m + 1
  <2>1. /\ at(j) \in 1 .. Len(s) /\ at(k) \in 1 .. Len(s)
        /\ r[j] = s[at(j)] /\ r[k] = s[at(k)]
    BY <1>1, <1>4
  <2>2. at(j) = at(k)
    BY <2>1 DEF Distinct
  <2> QED
    BY <1>1, <1>4, <2>2
<1>7. ASSUME NEW n PROVE In(r, n) <=> In(s, n) /\ n # s[i]
  <2>1. ASSUME In(r, n) PROVE In(s, n) /\ n # s[i]
    BY <2>1, <1>1, <1>4 DEF In, Distinct
  <2>2. ASSUME In(s, n), n # s[i] PROVE In(r, n)
    <3>1. PICK k \in 1 .. Len(s) : s[k] = n
      BY <2>2 DEF In
    <3>2. CASE k < i
      BY <3>1, <3>2, <1>1, <1>4 DEF In
    <3>3. CASE k > i
      <4>1. k - 1 \in 1 .. Len(s) - 1 /\ ~ (k - 1 < i) /\ (k - 1) + 1 = k
        BY <3>3, <1>1
      <4> QED
        BY <3>1, <4>1, <1>4 DEF In
    <3> QED
      BY <3>1, <3>2, <3>3, <2>2, <1>1
  <2> QED
    BY <2>1, <2>2
<1> QED
  BY <1>4, <1>5, <1>6, <1>7

\* Appending a node that is not in the list.
LEMMA AppendedTo ==
    ASSUME NEW S, NEW s \in Seq(S), Distinct(s), NEW n \in S, ~ In(s, n)
    PROVE  /\ Append(s, n) \in Seq(S) /\ Distinct(Append(s, n))
           /\ Append(s, n) # <<>>
           /\ \A m : In(Append(s, n), m) <=> In(s, m) \/ m = n
<1>1. /\ Append(s, n) \in Seq(S) /\ Len(Append(s, n)) = Len(s) + 1 /\ Len(s) \in Nat
      /\ Append(s, n) # <<>>
      /\ \A k \in 1 .. Len(s) : Append(s, n)[k] = s[k]
      /\ Append(s, n)[Len(s) + 1] = n
  BY AppendProperties
<1>2. \A k : k \in 1 .. Len(s) + 1 <=> k \in 1 .. Len(s) \/ k = Len(s) + 1
  BY <1>1
<1>3. Distinct(Append(s, n))
  BY <1>1, <1>2 DEF Distinct, In
<1>4. \A m : In(Append(s, n), m) <=> In(s, m) \/ m = n
  BY <1>1, <1>2 DEF In
<1> QED
  BY <1>1, <1>3, <1>4

\* Dropping the first node of a list.
LEMMA Dropped ==
    ASSUME NEW S, NEW s \in Seq(S), Distinct(s), s # <<>>
    PROVE  /\ Tail(s) \in Seq(S) /\ Distinct(Tail(s)) /\ Head(s) = s[1] /\ In(s, Head(s))
           /\ Len(s) \in Nat /\ Len(s) >= 1
           /\ \A n : In(Tail(s), n) <=> \E i \in 1 .. Len(s) : i > 1 /\ s[i] = n
           /\ \A n : In(Tail(s), n) <=> In(s, n) /\ n # Head(s)
<1>1. /\ Tail(s) \in Seq(S) /\ Len(Tail(s)) = Len(s) - 1 /\ Len(s) \in Nat /\ Len(s) >= 1
      /\ Head(s) = s[1] /\ \A k \in 1 .. Len(Tail(s)) : Tail(s)[k] = s[k + 1]
  BY HeadTailProperties, EmptySeq
<1>2. Distinct(Tail(s)) /\ In(s, Head(s))
  BY <1>1 DEF Distinct, In
<1>3. ASSUME NEW n PROVE In(Tail(s), n) <=> \E i \in 1 .. Len(s) : i > 1 /\ s[i] = n
  <2>1. ASSUME NEW i \in 1 .. Len(s), i > 1, s[i] = n PROVE In(Tail(s), n)
    <3>1. i - 1 \in 1 .. Len(Tail(s)) /\ (i - 1) + 1 = i
      BY <1>1, <2>1
    <3> QED
      BY <1>1, <2>1, <3>1 DEF In
  <2>2. ASSUME In(Tail(s), n) PROVE \E i \in 1 .. Len(s) : i > 1 /\ s[i] = n
    BY <1>1, <2>2 DEF In
  <2> QED
    BY <2>1, <2>2
<1>4. \A n : (\E i \in 1 .. Len(s) : i > 1 /\ s[i] = n) <=> In(s, n) /\ n # Head(s)
  BY <1>1 DEF In, Distinct
<1> QED
  BY <1>1, <1>2, <1>3, <1>4
-----------------------------------------------------------------------------
(* The inductive invariant *)

Waits == {"parked", "park_wait", "asleep"}
Wakes == {"unpark_flag", "unpark_wake", "all_flag"}
OnlyTagged == {"lock_load", "lock_cas", "try_cas", "spin_cas", "park_load",
               "park_cas", "set_waiters", "unlock_load", "unlock_cas"}
Attempts == {"lock_cas", "try_cas", "spin_cas", "park_cas"}
Words == [locked : BOOLEAN, waiters : BOOLEAN, ptr : Pointers]

LotTypeOK ==
    /\ DOMAIN pc = Threads
    /\ target \in [Threads -> Locks]
    /\ bucket_lock \in [Buckets -> Threads \cup {NoThread}]
    /\ queue \in [Buckets -> Seq(Threads)]
    /\ wake_flag \in [Threads -> {0, 1}]
    /\ woken \in [Threads -> Seq(Threads)]

\* The thread in a bucket is the one the bucket's spinlock names.
BucketInv ==
    /\ \A t \in Threads : pc[t] \in InBucket <=> bucket_lock[BucketOf(t)] = t
    /\ \A b \in Buckets, t \in Threads : bucket_lock[b] = t => b = BucketOf(t)

\* Node n has been unlinked by u, which has not set its flag yet.
Hand(u, n) ==
    \E i \in 1 .. Len(woken[u]) : woken[u][i] = n /\ (pc[u] = "unpark_wake" => i > 1)

\* The node of a thread that waits with a clear flag is in its bucket's list
\* or in one thread's hands, and only such nodes are.
NodeInv ==
    /\ \A b \in Buckets : Distinct(queue[b])
    /\ \A u \in Threads : Distinct(woken[u])
    /\ \A b \in Buckets, n \in Threads : In(queue[b], n) =>
          b = BucketOf(n) /\ pc[n] \in Waits /\ wake_flag[n] = 0
    /\ \A u, n \in Threads : Hand(u, n) =>
          pc[n] \in Waits /\ wake_flag[n] = 0 /\ ~ In(queue[BucketOf(n)], n)
    /\ \A u, v, n \in Threads : Hand(u, n) /\ Hand(v, n) => u = v
    /\ \A n \in Threads : pc[n] \in Waits /\ wake_flag[n] = 0 =>
          In(queue[BucketOf(n)], n) \/ \E u \in Threads : Hand(u, n)
    /\ \A u \in Threads : pc[u] \in Wakes => woken[u] # <<>>
    /\ \A u \in Threads : pc[u] \notin Wakes \cup {"all_collect"} => woken[u] = <<>>

Holds(t) == pc[t] \in {"in", "unlock_load", "unlock_cas"}
Taken(l) == IF l \in MicroLocks THEN locked[l] ELSE word[l].locked

\* The words of the locks, and what a thread has read of them.
WordInv ==
    /\ locked \in [MicroLocks -> BOOLEAN]
    /\ word \in [TaggedPtrs -> Words] /\ seen \in [Threads -> Words]
    /\ \A t \in Threads : pc[t] \in OnlyTagged => target[t] \in TaggedPtrs
    /\ \A t \in Threads : pc[t] \in Attempts => ~ seen[t].locked

\* The lock bit says that there is an owner, and there is at most one.
OwnerInv ==
    /\ \A t \in Threads : Holds(t) => Taken(target[t])
    /\ \A l \in Locks : Taken(l) => \E t \in Threads : target[t] = l /\ Holds(t)
    /\ \A t, u \in Threads : Holds(t) /\ Holds(u) /\ target[t] = target[u] => t = u

ParkingInv ==
    LotTypeOK /\ BucketInv /\ NodeInv /\ FlaggedIsWoken /\ WordInv /\ OwnerInv
    /\ WaitersBitSet /\ MicroNoLostWakeup

-----------------------------------------------------------------------------
(* What a step does to the parking lot *)

Away(label) == label \notin InBucket \cup Waits \cup Wakes
Others(t) == \A u \in Threads \ {t} : pc'[u] = pc[u] /\ target'[u] = target[u]

\* The thread is nowhere in the parking lot.
Quiet(t) ==
    /\ Away(pc[t]) /\ Away(pc'[t]) /\ Others(t)
    /\ DOMAIN pc' = Threads /\ target' \in [Threads -> Locks]
    /\ UNCHANGED lotVars

\* It goes round the wait loop of park().
Loop(t) == CheckFlag(t) \/ ParkWait(t) \/ SpuriousWake(t)

\* It releases the bucket, with or without nodes in its hands.
Release(t) ==
    /\ pc[t] \in InBucket \ {"unpark_flag"} /\ UnlockBucket(t)
    /\ \/ \E label : Away(label) /\ Goto(t, label) /\ woken[t] = <<>>
       \/ Goto(t, "all_flag") /\ woken[t] # <<>>
    /\ UNCHANGED <<target, queue, wake_flag, woken>>

\* The validation of a TaggedLockPtr goes on.
Tag(t) ==
    /\ pc[t] = "validate" /\ Goto(t, "set_waiters")
    /\ UNCHANGED <<target, lotVars>>

Park(t) == pc[t] \in {"validate", "set_waiters"} /\ Enqueue(t)

\* It takes a node out of the list.
Take(t) ==
    /\ Unlink(t)
    /\ pc[t] \in {"unpark", "all_collect"}
    /\ pc'[t] = (IF pc[t] = "unpark" THEN "unpark_flag" ELSE "all_collect")
    /\ Others(t) /\ DOMAIN pc' = Threads
    /\ UNCHANGED <<target, bucket_lock, wake_flag>>

\* It sets the flag of the first node in its hands.
Flag(t) ==
    /\ pc[t] \in {"unpark_flag", "all_flag"} /\ Goto(t, "unpark_wake")
    /\ wake_flag' = [wake_flag EXCEPT ![Head(woken[t])] = 1]
    /\ IF pc[t] = "unpark_flag" THEN UnlockBucket(t) ELSE UNCHANGED bucket_lock
    /\ UNCHANGED <<target, queue, woken>>

LotEffect(t) ==
    \/ Quiet(t) \/ LockBucket(t) \/ Loop(t) \/ Release(t) \/ Tag(t)
    \/ Park(t) \/ Take(t) \/ Flag(t) \/ UnparkWake(t)

LEMMA CallEffect ==
    ASSUME LotTypeOK, NEW t \in Threads, Call(t) \/ Unlock(t)
    PROVE  Quiet(t)
<1> USE DEF Goto, LotTypeOK, Away, InBucket, Waits, Wakes, Others, Quiet, lotVars
<1>1. CASE \E l \in MicroLocks : MicroLockCall(t, l) \/ MicroTryLock(t, l)
  <2>1. PICK l \in MicroLocks : MicroLockCall(t, l) \/ MicroTryLock(t, l)
    BY <1>1
  <2>2. l \in Locks
    BY ParkingLocksAssumption
  <2>3. /\ pc[t] = "out" /\ target' = [target EXCEPT ![t] = l] /\ UNCHANGED lotVars
        /\ \E label \in {"in", "spin", "out"} : Goto(t, label)
    BY <2>1 DEF MicroLockCall, MicroTryLock, MicroTryAcquire
  <2> QED BY <2>2, <2>3
<1>2. CASE \E l \in TaggedPtrs : TaggedLock(t, l) \/ TaggedTryLock(t, l)
  <2>1. PICK l \in TaggedPtrs : TaggedLock(t, l) \/ TaggedTryLock(t, l)
    BY <1>2
  <2>2. l \in Locks
    BY ParkingLocksAssumption
  <2>3. /\ pc[t] = "out" /\ target' = [target EXCEPT ![t] = l] /\ UNCHANGED lotVars
        /\ \E label \in {"lock_cas", "try_cas", "spin", "out"} : Goto(t, label)
    BY <2>1 DEF TaggedLock, TaggedTryLock, LoadThen
  <2> QED BY <2>2, <2>3
<1>3. CASE \E l \in TaggedPtrs, p, q \in Pointers : CompareExchange(t, l, p, q)
  BY <1>3 DEF CompareExchange
<1>4. CASE \E l \in TaggedPtrs, p \in Pointers : Exchange(t, l, p)
  BY <1>4 DEF Exchange
<1>5. CASE \E l \in Locks : UnparkAll(t, l)
  BY <1>5 DEF UnparkAll
<1>6. CASE MicroUnlock(t) \/ TaggedUnlock(t)
  BY <1>6 DEF MicroUnlock, TaggedUnlock
<1> QED
  BY <1>1, <1>2, <1>3, <1>4, <1>5, <1>6 DEF Call, Unlock

\* The steps of the validation and unpark callbacks are the lot's; the other
\* steps of a lock leave the lot alone.
LEMMA MicroEffect ==
    ASSUME LotTypeOK, NodeInv, NEW t \in Threads, MicroStep(t)
    PROVE  LotEffect(t)
<1> USE DEF Goto, LotTypeOK, LotEffect
<1>1. CASE MicroSpin(t) \/ MicroRetry(t)
  <2> USE DEF Away, InBucket, Waits, Wakes, Others, Quiet, lotVars
  <2>1. Quiet(t)
    BY <1>1 DEF MicroSpin, MicroRetry, MicroTryAcquire
  <2> QED BY <2>1
<1>2. CASE MicroPark(t)
  <2>1. Park(t) \/ (pc[t] = "validate" /\ Reject(t))
    BY <1>2 DEF MicroPark, Park
  <2>2. pc[t] = "validate" => woken[t] = <<>>
    BY DEF NodeInv, Wakes
  <2>3. ASSUME pc[t] = "validate", Reject(t) PROVE Release(t)
    BY <2>2, <2>3 DEF Reject, Release, Away, InBucket, Waits, Wakes
  <2> QED BY <2>1, <2>3
<1>3. CASE MicroUnpark(t)
  <2>1. pc[t] = "unpark" => woken[t] = <<>>
    BY DEF NodeInv, Wakes
  <2>2. ASSUME Dequeue(t) PROVE Take(t)
    BY <1>3, <2>2 DEF MicroUnpark, Dequeue, Take, Others
  <2>3. ASSUME DequeueNone(t) PROVE Release(t)
    BY <1>3, <2>1, <2>3 DEF MicroUnpark, DequeueNone, Release, Away, InBucket, Waits, Wakes
  <2> QED BY <1>3, <2>2, <2>3 DEF MicroUnpark
<1> QED
  BY <1>1, <1>2, <1>3 DEF MicroStep

LEMMA TaggedEffect ==
    ASSUME LotTypeOK, NodeInv, NEW t \in Threads, TaggedStep(t)
    PROVE  LotEffect(t)
<1> USE DEF Goto, LotTypeOK, LotEffect
<1>1. CASE \/ TaggedReload(t) \/ TaggedLockCas(t) \/ TaggedTryCas(t)
           \/ TaggedSpin(t) \/ TaggedSpinCas(t) \/ TaggedParkLoad(t) \/ TaggedParkCas(t)
           \/ TaggedUnlockCas(t)
  <2> USE DEF Away, InBucket, Waits, Wakes, Others, Quiet, lotVars
  <2>1. CASE TaggedReload(t) \/ TaggedSpin(t) \/ TaggedParkLoad(t)
    BY <2>1 DEF TaggedReload, TaggedSpin, TaggedParkLoad, LoadThen
  <2>2. CASE TaggedLockCas(t) \/ TaggedTryCas(t) \/ TaggedSpinCas(t) \/ TaggedParkCas(t)
    BY <2>2 DEF TaggedLockCas, TaggedTryCas, TaggedSpinCas, TaggedParkCas, SetLocked
  <2>3. CASE TaggedUnlockCas(t)
    BY <2>3 DEF TaggedUnlockCas
  <2> QED BY <1>1, <2>1, <2>2, <2>3
<1>2. CASE TaggedValidate(t) \/ TaggedSetWaiters(t)
  <2>1. \/ Park(t) \/ (pc[t] = "validate" /\ Reject(t)) \/ Tag(t)
    BY <1>2 DEF TaggedValidate, TaggedSetWaiters, Park, Tag
  <2>2. pc[t] = "validate" => woken[t] = <<>>
    BY DEF NodeInv, Wakes
  <2>3. ASSUME pc[t] = "validate", Reject(t) PROVE Release(t)
    BY <2>2, <2>3 DEF Reject, Release, Away, InBucket, Waits, Wakes
  <2> QED BY <2>1, <2>3
<1>3. CASE TaggedUnpark(t)
  <2>1. pc[t] = "unpark" => woken[t] = <<>>
    BY DEF NodeInv, Wakes
  <2>2. ASSUME Dequeue(t) PROVE Take(t)
    BY <1>3, <2>2 DEF TaggedUnpark, Dequeue, Take, Others
  <2>3. ASSUME DequeueNone(t) PROVE Release(t)
    BY <1>3, <2>1, <2>3 DEF TaggedUnpark, DequeueNone, Release, Away, InBucket, Waits, Wakes
  <2> QED BY <1>3, <2>2, <2>3 DEF TaggedUnpark
<1> QED
  BY <1>1, <1>2, <1>3 DEF TaggedStep

LEMMA LotStepEffect ==
    ASSUME LotTypeOK, NodeInv, NEW t \in Threads, LotStep(t) \/ SpuriousWake(t)
    PROVE  LotEffect(t)
<1>1. CASE LockBucket(t) \/ Loop(t) \/ UnparkWake(t)
  BY <1>1 DEF LotEffect
<1>2. CASE SetFlagAndUnlock(t) \/ SetNextFlag(t)
  BY <1>2 DEF SetFlagAndUnlock, SetNextFlag, Flag, LotEffect
<1>3. CASE CollectAll(t)
  <2>1. CASE Unlink(t) /\ UNCHANGED <<pc, bucket_lock>>
    BY <1>3, <2>1 DEF CollectAll, Take, Others, LotTypeOK, LotEffect
  <2>2. CASE ~ (Unlink(t) /\ UNCHANGED <<pc, bucket_lock>>)
    <3>1. /\ pc[t] = "all_collect" /\ UnlockBucket(t)
          /\ Goto(t, IF woken[t] = <<>> THEN "out" ELSE "all_flag")
          /\ UNCHANGED <<target, queue, wake_flag, woken>>
      BY <1>3, <2>2 DEF CollectAll
    <3>2. Away("out")
      BY DEF Away, InBucket, Waits, Wakes
    <3> QED BY <3>1, <3>2 DEF Release, InBucket, LotEffect
  <2> QED BY <2>1, <2>2
<1> QED
  BY <1>1, <1>2, <1>3 DEF LotStep, Loop

LEMMA Effects ==
    ASSUME LotTypeOK, NodeInv, Next
    PROVE  (\E t \in Threads : LotEffect(t)) \/ UNCHANGED vars
  BY CallEffect, MicroEffect, TaggedEffect, LotStepEffect
     DEF Next, Progress, Interrupted, Finished, LotEffect

LEMMA BucketTyped ==
    ASSUME LotTypeOK, NEW t \in Threads
    PROVE  BucketOf(t) \in Buckets /\ queue[BucketOf(t)] \in Seq(Threads)
  BY ParkingLotAssumption DEF LotTypeOK, BucketOf

\* A thread that takes a node out of its bucket's list takes one of its key.
LEMMA Taking ==
    ASSUME LotTypeOK, NodeInv, NEW t \in Threads, Unlink(t)
    PROVE  \E n \in Threads :
              /\ target[n] = target[t] /\ In(queue[BucketOf(t)], n)
              /\ queue' \in [Buckets -> Seq(Threads)]
              /\ \A b \in Buckets \ {BucketOf(t)} : queue'[b] = queue[b]
              /\ Distinct(queue'[BucketOf(t)])
              /\ \A m : In(queue'[BucketOf(t)], m) <=> In(queue[BucketOf(t)], m) /\ m # n
              /\ woken' = [woken EXCEPT ![t] = Append(@, n)]
<1> DEFINE q == queue[BucketOf(t)]
<1>1. BucketOf(t) \in Buckets /\ q \in Seq(Threads) /\ Distinct(q)
  BY BucketTyped DEF NodeInv
<1>2. PICK i \in DOMAIN queue[hash_address[target[t]]] :
          /\ target[q[i]] = target[t]
          /\ queue' = [queue EXCEPT ![BucketOf(t)] = RemoveAt(@, i)]
          /\ woken' = [woken EXCEPT ![t] = Append(@, q[i])]
  BY DEF Unlink, Waiting, BucketOf
<1>3. i \in 1 .. Len(q) /\ q[i] \in Threads /\ In(q, q[i])
  BY <1>1, <1>2, LenProperties DEF BucketOf, In
<1>4. /\ queue'[BucketOf(t)] = RemoveAt(q, i)
      /\ \A b \in Buckets \ {BucketOf(t)} : queue'[b] = queue[b]
  BY <1>1, <1>2 DEF LotTypeOK
<1>5. /\ RemoveAt(q, i) \in Seq(Threads) /\ Distinct(RemoveAt(q, i))
      /\ \A n : In(RemoveAt(q, i), n) <=> In(q, n) /\ n # q[i]
  BY <1>1, <1>3, RemovedFrom
<1>6. queue' \in [Buckets -> Seq(Threads)]
  BY <1>1, <1>2, <1>5 DEF LotTypeOK
<1> HIDE DEF q
<1> QED
  BY <1>2, <1>3, <1>4, <1>5, <1>6 DEF q

LEMMA LotTypeNext ==
    ASSUME LotTypeOK, NodeInv, NEW t \in Threads, LotEffect(t)
    PROVE  LotTypeOK'
<1>0. BucketOf(t) \in Buckets /\ queue[BucketOf(t)] \in Seq(Threads)
  BY BucketTyped
<1>1. CASE Quiet(t)
  BY <1>1 DEF LotTypeOK, Quiet, lotVars
<1>2. CASE LockBucket(t) \/ Loop(t) \/ Release(t) \/ Tag(t)
  BY <1>2, <1>0 DEF LotTypeOK, LockBucket, Loop, CheckFlag, ParkWait, SpuriousWake, Release, Tag,
                    UnlockBucket, Goto, lotVars
<1>3. CASE Park(t)
  <2>1. Append(queue[BucketOf(t)], t) \in Seq(Threads)
    BY <1>0, AppendProperties
  <2> QED BY <1>0, <1>3, <2>1 DEF LotTypeOK, Park, Enqueue, UnlockBucket, Goto
<1>4. CASE Take(t)
  <2>1. PICK n \in Threads : /\ queue' \in [Buckets -> Seq(Threads)]
                             /\ woken' = [woken EXCEPT ![t] = Append(@, n)]
    BY <1>4, Taking DEF Take
  <2>2. Append(woken[t], n) \in Seq(Threads)
    BY AppendProperties DEF LotTypeOK
  <2> QED BY <1>4, <2>1, <2>2 DEF LotTypeOK, Take
<1>5. CASE Flag(t)
  BY <1>0, <1>5 DEF LotTypeOK, Flag, UnlockBucket, Goto
<1>6. CASE UnparkWake(t)
  <2>1. woken[t] # <<>>
    BY <1>6 DEF NodeInv, UnparkWake, Wakes
  <2>2. Tail(woken[t]) \in Seq(Threads)
    BY <2>1, Dropped DEF LotTypeOK, NodeInv
  <2> QED BY <1>6, <2>2 DEF LotTypeOK, UnparkWake
<1> QED
  BY <1>1, <1>2, <1>3, <1>4, <1>5, <1>6 DEF LotEffect

\* Steps that change no bucket's spinlock.
LEMMA BucketFrame ==
    ASSUME LotTypeOK, BucketInv, UNCHANGED bucket_lock,
           \A u \in Threads : /\ pc'[u] \in InBucket <=> pc[u] \in InBucket
                              /\ target'[u] = target[u] \/ pc[u] \notin InBucket,
           target' \in [Threads -> Locks]
    PROVE  BucketInv'
<1>1. \A u \in Threads : BucketOf(u) \in Buckets /\ BucketOf(u)' \in Buckets
  BY ParkingLotAssumption DEF LotTypeOK, BucketOf
<1>2. \A u \in Threads : pc[u] \in InBucket => BucketOf(u)' = BucketOf(u)
  BY DEF BucketOf
<1>3. \A b \in Buckets, u \in Threads : bucket_lock[b] = u => pc[u] \in InBucket
  BY DEF BucketInv
<1> QED
  BY <1>1, <1>2, <1>3 DEF BucketInv

\* A thread that is in a bucket leaves it.
LEMMA BucketLeft ==
    ASSUME LotTypeOK, BucketInv, NEW t \in Threads, pc[t] \in InBucket, pc'[t] \notin InBucket,
           UnlockBucket(t), UNCHANGED target, \A u \in Threads \ {t} : pc'[u] = pc[u]
    PROVE  BucketInv'
<1>1. \A u \in Threads : BucketOf(u) \in Buckets /\ BucketOf(u)' = BucketOf(u)
  BY ParkingLotAssumption DEF LotTypeOK, BucketOf
<1>2. /\ bucket_lock[BucketOf(t)] = t /\ bucket_lock'[BucketOf(t)] = NoThread
      /\ \A b \in Buckets \ {BucketOf(t)} : bucket_lock'[b] = bucket_lock[b]
  BY <1>1 DEF BucketInv, UnlockBucket, LotTypeOK
<1> QED
  BY <1>1, <1>2, ParkingLotAssumption DEF BucketInv

LEMMA BucketNext ==
    ASSUME LotTypeOK, BucketInv, NEW t \in Threads, LotEffect(t), target' \in [Threads -> Locks]
    PROVE  BucketInv'
<1> USE DEF InBucket, Goto, LotTypeOK
<1>1. CASE Quiet(t)
  BY <1>1, BucketFrame DEF Quiet, Away, Others, lotVars
<1>2. CASE Loop(t) \/ Tag(t)
  BY <1>2, BucketFrame DEF Loop, CheckFlag, ParkWait, SpuriousWake, Tag, lotVars
<1>3. CASE Take(t)
  BY <1>3, BucketFrame DEF Take, Others
<1>4. CASE UnparkWake(t)
  BY <1>4, BucketFrame DEF UnparkWake
<1>5. CASE Release(t) \/ Park(t)
  BY <1>5, BucketLeft DEF Release, Park, Enqueue, Away
<1>6. CASE Flag(t)
  <2>1. CASE pc[t] = "unpark_flag"
    BY <1>6, <2>1, BucketLeft DEF Flag
  <2>2. CASE pc[t] = "all_flag"
    BY <1>6, <2>2, BucketFrame DEF Flag
  <2> QED BY <1>6, <2>1, <2>2 DEF Flag
<1>7. CASE LockBucket(t)
  <2>1. \A u \in Threads : BucketOf(u) \in Buckets /\ BucketOf(u)' = BucketOf(u)
    BY <1>7, ParkingLotAssumption DEF LockBucket, BucketOf
  <2>2. /\ bucket_lock[BucketOf(t)] = NoThread /\ bucket_lock'[BucketOf(t)] = t
        /\ \A b \in Buckets \ {BucketOf(t)} : bucket_lock'[b] = bucket_lock[b]
        /\ pc[t] \notin InBucket /\ pc'[t] \in InBucket
        /\ \A u \in Threads \ {t} : pc'[u] = pc[u]
    BY <1>7, <2>1 DEF LockBucket
  <2> HIDE DEF InBucket, Goto, LotTypeOK
  <2>3. \A b \in Buckets : bucket_lock[b] # t
    BY <2>1, <2>2, ParkingLotAssumption DEF BucketInv
  <2>4. \A u \in Threads : pc'[u] \in InBucket <=> bucket_lock'[BucketOf(u)] = u
    BY <2>1, <2>2, <2>3, ParkingLotAssumption DEF BucketInv
  <2>5. \A b \in Buckets, u \in Threads : bucket_lock'[b] = u => b = BucketOf(u)
    BY <2>1, <2>2, <2>3 DEF BucketInv
  <2> QED BY <2>1, <2>4, <2>5 DEF BucketInv
<1> QED
  BY <1>1, <1>2, <1>3, <1>4, <1>5, <1>6, <1>7 DEF LotEffect

-----------------------------------------------------------------------------
(* The nodes *)

\* Steps that touch no node: the thread that moves is not waiting, or goes
\* on waiting, or returns because its flag is set.
LEMMA NodeFrame ==
    ASSUME LotTypeOK, NodeInv, NEW t \in Threads, Others(t), UNCHANGED <<queue, wake_flag, woken>>,
           pc[t] # "unpark_wake", pc'[t] # "unpark_wake",
           \/ pc[t] \notin Waits /\ pc'[t] \notin Waits
           \/ pc[t] \in Waits /\ target'[t] = target[t] /\ pc'[t] \in Waits
           \/ pc[t] \in Waits /\ wake_flag[t] = 1 /\ pc'[t] \notin Waits,
           pc'[t] \in Wakes => woken[t] # <<>>,
           pc'[t] \notin Wakes \cup {"all_collect"} => woken[t] = <<>>
    PROVE  NodeInv'
<1>1. \A u, n \in Threads : Hand(u, n)' <=> Hand(u, n)
  BY DEF Hand, Others
<1>2. \A b \in Buckets, n \in Threads : In(queue[b], n) =>
        /\ BucketOf(n)' = BucketOf(n) /\ pc'[n] \in Waits /\ wake_flag'[n] = 0
  <2> SUFFICES ASSUME NEW b \in Buckets, NEW n \in Threads, In(queue[b], n)
               PROVE  BucketOf(n)' = BucketOf(n) /\ pc'[n] \in Waits /\ wake_flag'[n] = 0
    OBVIOUS
  <2>1. pc[n] \in Waits /\ wake_flag[n] = 0
    BY DEF NodeInv
  <2> QED BY <2>1 DEF Others, BucketOf
<1>3. \A u, n \in Threads : Hand(u, n) =>
        /\ BucketOf(n)' = BucketOf(n) /\ pc'[n] \in Waits /\ wake_flag'[n] = 0
  <2> SUFFICES ASSUME NEW u \in Threads, NEW n \in Threads, Hand(u, n)
               PROVE  BucketOf(n)' = BucketOf(n) /\ pc'[n] \in Waits /\ wake_flag'[n] = 0
    OBVIOUS
  <2>1. pc[n] \in Waits /\ wake_flag[n] = 0
    BY DEF NodeInv
  <2> QED BY <2>1 DEF Others, BucketOf
<1>4. \A n \in Threads : pc'[n] \in Waits => pc[n] \in Waits /\ BucketOf(n)' = BucketOf(n)
  BY DEF Others, BucketOf
<1>5. \A u \in Threads : /\ pc'[u] \in Wakes => woken'[u] # <<>>
                         /\ pc'[u] \notin Wakes \cup {"all_collect"} => woken'[u] = <<>>
  BY DEF Others, NodeInv
<1> QED
  BY <1>1, <1>2, <1>3, <1>4, <1>5 DEF NodeInv

LEMMA NodesQuiet ==
    ASSUME LotTypeOK, NodeInv, NEW t \in Threads,
           Quiet(t) \/ LockBucket(t) \/ Loop(t) \/ Release(t) \/ Tag(t)
    PROVE  NodeInv'
<1> USE DEF Goto, LotTypeOK, Others
<1>0. /\ pc[t] \in Wakes => woken[t] # <<>>
      /\ pc[t] \notin Wakes \cup {"all_collect"} => woken[t] = <<>>
  BY DEF NodeInv
<1>1. CASE Quiet(t)
  BY <1>0, <1>1, NodeFrame DEF Quiet, Away, InBucket, Waits, Wakes, lotVars
<1>2. CASE LockBucket(t)
  BY <1>0, <1>2, NodeFrame DEF LockBucket, Waits, Wakes
<1>3. CASE Loop(t)
  BY <1>0, <1>3, NodeFrame DEF Loop, CheckFlag, ParkWait, SpuriousWake, Waits, Wakes, lotVars
<1>4. CASE Release(t)
  BY <1>0, <1>4, NodeFrame DEF Release, Away, InBucket, Waits, Wakes
<1>5. CASE Tag(t)
  BY <1>0, <1>5, NodeFrame DEF Tag, Waits, Wakes, lotVars
<1> QED
  BY <1>1, <1>2, <1>3, <1>4, <1>5

\* park() puts the node of its own thread into the list.
LEMMA NodesPark ==
    ASSUME LotTypeOK, NodeInv, NEW t \in Threads, Park(t)
    PROVE  NodeInv'
<1> DEFINE b0 == BucketOf(t)
<1>1. /\ b0 \in Buckets /\ queue[b0] \in Seq(Threads)
      /\ \A u \in Threads : BucketOf(u)' = BucketOf(u) /\ BucketOf(u) \in Buckets
  BY BucketTyped DEF Park, Enqueue, BucketOf
<1>2. pc[t] \notin Waits \cup Wakes /\ pc[t] # "all_collect" /\ pc[t] # "unpark_wake"
  BY DEF Park, Waits, Wakes
<1>3. (\A b \in Buckets : ~ In(queue[b], t)) /\ (\A u \in Threads : ~ Hand(u, t)) /\ woken[t] = <<>>
  BY <1>2 DEF NodeInv
<1>4. /\ pc'[t] = "parked" /\ \A u \in Threads \ {t} : pc'[u] = pc[u]
      /\ wake_flag'[t] = 0 /\ \A u \in Threads \ {t} : wake_flag'[u] = wake_flag[u]
      /\ queue'[b0] = Append(queue[b0], t) /\ \A b \in Buckets \ {b0} : queue'[b] = queue[b]
      /\ woken' = woken
  BY <1>1 DEF Park, Enqueue, Goto, LotTypeOK
<1>5. /\ Distinct(queue'[b0]) /\ \A n : In(queue'[b0], n) <=> In(queue[b0], n) \/ n = t
  BY <1>1, <1>3, <1>4, AppendedTo DEF NodeInv
<1>6. \A u, n \in Threads : Hand(u, n)' <=> Hand(u, n)
  BY <1>2, <1>4 DEF Hand
<1>7. pc'[t] \in Waits \ Wakes /\ "parked" \notin Wakes
  BY <1>4 DEF Waits, Wakes
<1> HIDE DEF b0
<1>8. \A b \in Buckets, n \in Threads : In(queue'[b], n) <=> In(queue[b], n) \/ (b = b0 /\ n = t)
  BY <1>4, <1>5
<1>9. BucketOf(t) = b0
  BY DEF b0
<1>10. \A b \in Buckets : Distinct(queue'[b])
  BY <1>4, <1>5 DEF NodeInv
<1>11. \A n \in Threads : In(queue'[BucketOf(n)], n) <=> In(queue[BucketOf(n)], n) \/ n = t
  BY <1>1, <1>8, <1>9
<1>12. \A n \in Threads \ {t} : pc'[n] = pc[n] /\ wake_flag'[n] = wake_flag[n]
  BY <1>4
<1> QED
  BY <1>1, <1>2, <1>3, <1>4, <1>6, <1>7, <1>8, <1>9, <1>10, <1>11, <1>12 DEF NodeInv

\* An unparker takes a node from the list into its hands.
LEMMA NodesTake ==
    ASSUME LotTypeOK, NodeInv, NEW t \in Threads, Take(t)
    PROVE  NodeInv'
<1> DEFINE b0 == BucketOf(t)
<1>1. PICK n \in Threads :
          /\ target[n] = target[t] /\ In(queue[b0], n)
          /\ \A b \in Buckets \ {b0} : queue'[b] = queue[b]
          /\ Distinct(queue'[b0])
          /\ \A m : In(queue'[b0], m) <=> In(queue[b0], m) /\ m # n
          /\ woken' = [woken EXCEPT ![t] = Append(@, n)]
  BY Taking DEF Take
<1>2. /\ b0 \in Buckets /\ BucketOf(n) = b0
      /\ \A u \in Threads : BucketOf(u)' = BucketOf(u) /\ BucketOf(u) \in Buckets
  BY <1>1, BucketTyped DEF Take, BucketOf
<1>3. pc[n] \in Waits /\ wake_flag[n] = 0 /\ \A u \in Threads : ~ Hand(u, n)
  BY <1>1, <1>2 DEF NodeInv
<1>4. /\ pc[t] \notin Waits /\ pc'[t] \notin Waits /\ pc[t] # "unpark_wake" /\ pc'[t] # "unpark_wake"
      /\ \A u \in Threads \ {t} : pc'[u] = pc[u]
      /\ wake_flag' = wake_flag /\ pc'[t] \in Wakes \cup {"all_collect"}
  BY DEF Take, Waits, Wakes, Others
<1>5. ~ In(woken[t], n)
  BY <1>3, <1>4 DEF Hand, In
<1>6. /\ woken'[t] = Append(woken[t], n) /\ \A u \in Threads \ {t} : woken'[u] = woken[u]
      /\ woken[t] \in Seq(Threads)
  BY <1>1 DEF LotTypeOK
<1>7. /\ Distinct(woken'[t]) /\ woken'[t] # <<>>
      /\ \A m : In(woken'[t], m) <=> In(woken[t], m) \/ m = n
  BY <1>5, <1>6, AppendedTo DEF NodeInv
<1>8. \A m \in Threads : Hand(t, m) <=> In(woken[t], m)
  BY <1>4 DEF Hand, In
<1>9. \A m \in Threads : Hand(t, m)' <=> In(woken'[t], m)
  BY <1>4 DEF Hand, In
<1>10. \A u \in Threads \ {t}, m \in Threads : Hand(u, m)' <=> Hand(u, m)
  BY <1>4, <1>6 DEF Hand
<1>11. \A u, m \in Threads : Hand(u, m)' <=> Hand(u, m) \/ (u = t /\ m = n)
  BY <1>7, <1>8, <1>9, <1>10
<1> HIDE DEF b0
<1>12. \A b \in Buckets, m \in Threads : In(queue'[b], m) <=> In(queue[b], m) /\ ~ (b = b0 /\ m = n)
  BY <1>1
<1>13. \A m \in Threads : In(queue'[BucketOf(m)], m) <=> In(queue[BucketOf(m)], m) /\ m # n
  BY <1>2, <1>12
<1>14. \A m \in Threads : pc'[m] \in Waits <=> pc[m] \in Waits
  BY <1>4
<1>15. (\A b \in Buckets : Distinct(queue'[b])) /\ (\A u \in Threads : Distinct(woken'[u]))
  BY <1>1, <1>6, <1>7 DEF NodeInv
<1>16. \A u \in Threads : /\ pc'[u] \in Wakes => woken'[u] # <<>>
                          /\ pc'[u] \notin Wakes \cup {"all_collect"} => woken'[u] = <<>>
  BY <1>4, <1>6, <1>7 DEF NodeInv
<1>17. \A b \in Buckets, m \in Threads : In(queue'[b], m) =>
          b = BucketOf(m)' /\ pc'[m] \in Waits /\ wake_flag'[m] = 0
  BY <1>2, <1>4, <1>12, <1>14 DEF NodeInv
<1>18. \A u, m \in Threads : Hand(u, m)' =>
          pc'[m] \in Waits /\ wake_flag'[m] = 0 /\ ~ In(queue'[BucketOf(m)], m)
  BY <1>3, <1>4, <1>11, <1>13, <1>14 DEF NodeInv
<1>19. \A u, v, m \in Threads : Hand(u, m)' /\ Hand(v, m)' => u = v
  BY <1>3, <1>11 DEF NodeInv
<1>20. \A m \in Threads : pc'[m] \in Waits /\ wake_flag'[m] = 0 =>
          In(queue'[BucketOf(m)], m) \/ \E u \in Threads : Hand(u, m)'
  BY <1>4, <1>11, <1>13, <1>14 DEF NodeInv
<1> QED
  BY <1>2, <1>15, <1>16, <1>17, <1>18, <1>19, <1>20 DEF NodeInv

\* An unparker sets the flag of the first node in its hands.
LEMMA NodesFlag ==
    ASSUME LotTypeOK, NodeInv, NEW t \in Threads, Flag(t)
    PROVE  NodeInv' /\ Head(woken[t]) \in Threads /\ pc'[t] = "unpark_wake"
           /\ \A u \in Threads \ {t} : pc'[u] = pc[u]
<1> DEFINE n == Head(woken[t])
<1>1. /\ pc[t] \in Wakes \ Waits /\ pc[t] # "unpark_wake" /\ pc'[t] = "unpark_wake"
      /\ \A u \in Threads \ {t} : pc'[u] = pc[u]
      /\ UNCHANGED <<target, queue, woken>>
      /\ wake_flag' = [wake_flag EXCEPT ![n] = 1]
  BY DEF Flag, Goto, LotTypeOK, Waits, Wakes
<1>2. woken[t] # <<>> /\ woken[t] \in Seq(Threads) /\ Distinct(woken[t])
  BY <1>1 DEF NodeInv, LotTypeOK
<1>3. /\ In(woken[t], n) /\ n = woken[t][1] /\ Len(woken[t]) \in Nat /\ Len(woken[t]) >= 1
      /\ \A m : In(Tail(woken[t]), m) <=> \E i \in 1 .. Len(woken[t]) : i > 1 /\ woken[t][i] = m
      /\ \A m : In(Tail(woken[t]), m) <=> In(woken[t], m) /\ m # n
  BY <1>2, Dropped
<1>4. n \in Threads
  BY <1>2, <1>3
<1> HIDE DEF n
<1>5. \A m \in Threads : Hand(t, m) <=> In(woken[t], m)
  BY <1>1 DEF Hand, In
<1>6. \A m \in Threads : Hand(t, m)' <=> Hand(t, m) /\ m # n
  BY <1>1, <1>3, <1>5 DEF Hand
<1>7. \A u \in Threads \ {t}, m \in Threads : Hand(u, m)' <=> Hand(u, m)
  BY <1>1 DEF Hand
<1>8. Hand(t, n) /\ \A u \in Threads \ {t} : ~ Hand(u, n)
  BY <1>3, <1>4, <1>5 DEF NodeInv
<1>9. \A u, m \in Threads : Hand(u, m)' <=> Hand(u, m) /\ m # n
  BY <1>6, <1>7, <1>8
<1>10. wake_flag'[n] = 1 /\ \A m \in Threads \ {n} : wake_flag'[m] = wake_flag[m]
  BY <1>1, <1>4 DEF LotTypeOK
<1>11. \A b \in Buckets : ~ In(queue[b], n)
  BY <1>4, <1>8 DEF NodeInv
<1>12. \A m \in Threads : (pc'[m] \in Waits <=> pc[m] \in Waits) /\ BucketOf(m)' = BucketOf(m)
                          /\ BucketOf(m) \in Buckets
  BY <1>1, BucketTyped DEF Waits, BucketOf
<1>13. \A u \in Threads : /\ pc'[u] \in Wakes => woken'[u] # <<>>
                          /\ pc'[u] \notin Wakes \cup {"all_collect"} => woken'[u] = <<>>
  BY <1>1, <1>2 DEF NodeInv, Wakes
<1>14. \A b \in Buckets, m \in Threads : In(queue'[b], m) =>
          b = BucketOf(m)' /\ pc'[m] \in Waits /\ wake_flag'[m] = 0
  BY <1>1, <1>10, <1>11, <1>12 DEF NodeInv
<1>15. \A u, m \in Threads : Hand(u, m)' =>
          pc'[m] \in Waits /\ wake_flag'[m] = 0 /\ ~ In(queue'[BucketOf(m)'], m)
  BY <1>1, <1>9, <1>10, <1>12 DEF NodeInv
<1>16. \A m \in Threads : pc'[m] \in Waits /\ wake_flag'[m] = 0 =>
          In(queue'[BucketOf(m)'], m) \/ \E u \in Threads : Hand(u, m)'
  BY <1>1, <1>9, <1>10, <1>12 DEF NodeInv
<1>17. \A u, v, m \in Threads : Hand(u, m)' /\ Hand(v, m)' => u = v
  BY <1>9 DEF NodeInv
<1>18. NodeInv'
  BY <1>1, <1>13, <1>14, <1>15, <1>16, <1>17 DEF NodeInv
<1> QED
  BY <1>1, <1>4, <1>18 DEF n

\* futex::wake() wakes at most the thread of the first node.
LEMMA NodesWake ==
    ASSUME LotTypeOK, NodeInv, NEW t \in Threads, UnparkWake(t)
    PROVE  NodeInv'
<1>1. /\ pc[t] = "unpark_wake" /\ pc'[t] = (IF Tail(woken[t]) = <<>> THEN "out" ELSE "all_flag")
      /\ \A u \in Threads \ {t} : pc'[u] = IF u = Head(woken[t]) /\ pc[u] = "asleep" THEN "parked" ELSE pc[u]
      /\ UNCHANGED <<target, queue, wake_flag>>
      /\ woken'[t] = Tail(woken[t]) /\ \A u \in Threads \ {t} : woken'[u] = woken[u]
  BY DEF UnparkWake, LotTypeOK
<1>2. woken[t] # <<>> /\ woken[t] \in Seq(Threads) /\ Distinct(woken[t])
  BY <1>1 DEF NodeInv, LotTypeOK, Wakes
<1>3. /\ Distinct(Tail(woken[t]))
      /\ \A m : In(Tail(woken[t]), m) <=> \E i \in 1 .. Len(woken[t]) : i > 1 /\ woken[t][i] = m
  BY <1>2, Dropped
<1>4. \A m \in Threads : Hand(t, m)' <=> In(woken'[t], m)
  BY <1>1 DEF Hand, In
<1>5. \A m \in Threads : Hand(t, m) <=> In(Tail(woken[t]), m)
  BY <1>1, <1>3 DEF Hand
<1>6. \A u \in Threads \ {t} : /\ pc'[u] = pc[u] \/ (pc[u] = "asleep" /\ pc'[u] = "parked")
                               /\ woken'[u] = woken[u]
  BY <1>1
<1>7. \A u \in Threads \ {t}, m \in Threads : Hand(u, m)' <=> Hand(u, m)
  BY <1>6 DEF Hand
<1>8. \A u, m \in Threads : Hand(u, m)' <=> Hand(u, m)
  BY <1>1, <1>4, <1>5, <1>7
<1>9. \A m \in Threads : (pc'[m] \in Waits <=> pc[m] \in Waits) /\ BucketOf(m)' = BucketOf(m)
                         /\ BucketOf(m) \in Buckets
  BY <1>1, <1>6, BucketTyped DEF Waits, BucketOf
<1>10. \A u \in Threads : /\ pc'[u] \in Wakes => woken'[u] # <<>>
                          /\ pc'[u] \notin Wakes \cup {"all_collect"} => woken'[u] = <<>>
  BY <1>1, <1>6 DEF NodeInv, Wakes
<1>11. \A u \in Threads : Distinct(woken'[u])
  BY <1>1, <1>3, <1>6 DEF NodeInv
<1> QED
  BY <1>1, <1>8, <1>9, <1>10, <1>11 DEF NodeInv

\* A thread that sleeps with its flag set: the flag was set after it had gone
\* to sleep, and who set it wakes it.
LEMMA FlaggedNext ==
    ASSUME LotTypeOK, NodeInv, FlaggedIsWoken, NEW t \in Threads, LotEffect(t)
    PROVE  FlaggedIsWoken'
<1> SUFFICES ASSUME NEW s \in Threads, pc'[s] = "asleep", wake_flag'[s] = 1
             PROVE  \E u \in Threads : pc'[u] = "unpark_wake" /\ Head(woken'[u]) = s
  BY DEF FlaggedIsWoken
<1>1. CASE Flag(t)
  <2>1. /\ pc'[t] = "unpark_wake" /\ woken' = woken /\ \A u \in Threads \ {t} : pc'[u] = pc[u]
        /\ pc[t] # "unpark_wake" /\ \A u \in Threads \ {Head(woken[t])} : wake_flag'[u] = wake_flag[u]
    BY <1>1, NodesFlag DEF Flag, LotTypeOK
  <2>2. CASE s = Head(woken[t])
    BY <2>1, <2>2
  <2>3. CASE s # Head(woken[t])
    BY <2>1, <2>3 DEF FlaggedIsWoken
  <2> QED BY <2>2, <2>3
<1>2. CASE UnparkWake(t)
  <2>1. /\ pc[t] = "unpark_wake" /\ wake_flag' = wake_flag
        /\ \A u \in Threads \ {t} : /\ pc'[u] = IF u = Head(woken[t]) /\ pc[u] = "asleep" THEN "parked" ELSE pc[u]
                                    /\ woken'[u] = woken[u]
        /\ pc'[t] \in {"out", "all_flag"}
    BY <1>2 DEF UnparkWake, LotTypeOK
  <2>2. s # t /\ pc[s] = "asleep" /\ s # Head(woken[t])
    BY <2>1
  <2>3. PICK u \in Threads : pc[u] = "unpark_wake" /\ Head(woken[u]) = s
    BY <2>1, <2>2 DEF FlaggedIsWoken
  <2> QED BY <2>1, <2>2, <2>3
<1>3. CASE ~ Flag(t) /\ ~ UnparkWake(t)
  <2>1. /\ \A u \in Threads \ {t} : pc'[u] = pc[u] /\ woken'[u] = woken[u] /\ wake_flag'[u] = wake_flag[u]
        /\ pc[t] # "unpark_wake"
        /\ pc'[t] = "asleep" => wake_flag'[t] = 0
    <3>1. CASE Quiet(t) \/ LockBucket(t) \/ Loop(t) \/ Release(t) \/ Tag(t)
      BY <3>1 DEF Quiet, LockBucket, Loop, CheckFlag, ParkWait, SpuriousWake, Release, Tag, Others,
                  Away, InBucket, Waits, Wakes, lotVars, Goto, LotTypeOK
    <3>2. CASE Park(t)
      BY <3>2 DEF Park, Enqueue, Goto, LotTypeOK
    <3>3. CASE Take(t)
      BY <3>3 DEF Take, Unlink, Others, LotTypeOK
    <3> QED BY <1>3, <3>1, <3>2, <3>3 DEF LotEffect
  <2>2. s # t /\ pc[s] = "asleep" /\ wake_flag[s] = 1
    BY <2>1
  <2> QED BY <2>1, <2>2 DEF FlaggedIsWoken
<1> QED
  BY <1>1, <1>2, <1>3

\* The parking lot keeps its books.
LEMMA LotNext ==
    ASSUME LotTypeOK, BucketInv, NodeInv, FlaggedIsWoken, [Next]_vars
    PROVE  LotTypeOK' /\ BucketInv' /\ NodeInv' /\ FlaggedIsWoken'
<1>1. CASE UNCHANGED vars
  BY <1>1 DEF vars, lotVars, LotTypeOK, BucketInv, BucketOf, NodeInv, Hand, FlaggedIsWoken
<1>2. ASSUME NEW t \in Threads, LotEffect(t) PROVE LotTypeOK' /\ BucketInv' /\ NodeInv' /\ FlaggedIsWoken'
  <2>1. LotTypeOK'
    BY <1>2, LotTypeNext
  <2>2. NodeInv'
    BY <1>2, NodesQuiet, NodesPark, NodesTake, NodesFlag, NodesWake DEF LotEffect
  <2>3. BucketInv'
    BY <1>2, <2>1, BucketNext DEF LotTypeOK
  <2> QED BY <1>2, <2>1, <2>2, <2>3, FlaggedNext
<1> QED
  BY <1>1, <1>2, Effects

LEMMA LotInit == Init => LotTypeOK /\ BucketInv /\ NodeInv /\ FlaggedIsWoken
<1> SUFFICES ASSUME Init PROVE LotTypeOK /\ BucketInv /\ NodeInv /\ FlaggedIsWoken
  OBVIOUS
<1>1. (CHOOSE l \in Locks : TRUE) \in Locks
  BY ParkingLotAssumption
<1>2. <<>> \in Seq(Threads) /\ Distinct(<<>>) /\ \A n : ~ In(<<>>, n)
  BY EmptySeq DEF Distinct, In
<1>3. LotTypeOK
  BY <1>1, <1>2 DEF Init, InitLot, LotTypeOK
<1>4. \A t \in Threads : pc[t] = "out" /\ woken[t] = <<>> /\ BucketOf(t) \in Buckets
  BY <1>3, BucketTyped DEF Init, InitLot
<1>5. \A b \in Buckets : bucket_lock[b] = NoThread /\ queue[b] = <<>>
  BY DEF Init, InitLot
<1>6. BucketInv
  BY <1>4, <1>5, ParkingLotAssumption DEF BucketInv, InBucket
<1>7. \A u, n \in Threads : ~ Hand(u, n)
  BY <1>2, <1>4 DEF Hand, In
<1>8. NodeInv
  BY <1>2, <1>4, <1>5, <1>7 DEF NodeInv, Waits, Wakes
<1>9. FlaggedIsWoken
  BY <1>4 DEF FlaggedIsWoken
<1> QED
  BY <1>3, <1>6, <1>8, <1>9

LEMMA LotInvariant == Spec => [](LotTypeOK /\ BucketInv /\ NodeInv /\ FlaggedIsWoken)
<1>1. /\ LotTypeOK /\ BucketInv /\ NodeInv /\ FlaggedIsWoken
      /\ [Next]_vars
      => (LotTypeOK /\ BucketInv /\ NodeInv /\ FlaggedIsWoken)'
  BY LotNext
<1> QED
  BY LotInit, <1>1, PTL DEF Spec

LEMMA BooksImplyAccounts ==
    ASSUME LotTypeOK, BucketInv, NodeInv
    PROVE  NodesAccounted
<1>1. ASSUME NEW t \in Threads
      PROVE  pc[t] \in InBucket <=> \E b \in Buckets : bucket_lock[b] = t
  BY BucketTyped DEF BucketInv
<1>2. \A b \in Buckets : \A i, j \in 1 .. Len(queue[b]) : queue[b][i] = queue[b][j] => i = j
  BY DEF NodeInv, Distinct
<1>3. ASSUME NEW t \in Threads
      PROVE  LET inHand  == \E u \in Threads : \E i \in 1 .. Len(woken[u]) :
                               /\ woken[u][i] = t
                               /\ pc[u] = "unpark_wake" => i > 1
                 waiting == pc[t] \in {"parked", "park_wait", "asleep"}
             IN  /\ Queued(t) \/ inHand => waiting /\ wake_flag[t] = 0
                 /\ waiting /\ wake_flag[t] = 0 => Queued(t) \/ inHand
                 /\ ~ (Queued(t) /\ inHand)
  <2> DEFINE inHand == \E u \in Threads : \E i \in 1 .. Len(woken[u]) :
                          woken[u][i] = t /\ (pc[u] = "unpark_wake" => i > 1)
  <2>1. inHand <=> \E u \in Threads : Hand(u, t)
    BY DEF Hand
  <2>2. Queued(t) <=> In(queue[BucketOf(t)], t)
    BY DEF Queued, In
  <2> HIDE DEF inHand
  <2>3. BucketOf(t) \in Buckets
    BY BucketTyped
  <2>4. /\ Queued(t) \/ inHand => pc[t] \in Waits /\ wake_flag[t] = 0
        /\ pc[t] \in Waits /\ wake_flag[t] = 0 => Queued(t) \/ inHand
        /\ ~ (Queued(t) /\ inHand)
    BY <2>1, <2>2, <2>3 DEF NodeInv
  <2> QED BY <2>4 DEF inHand, Waits
<1> QED
  BY <1>1, <1>2, <1>3 DEF NodesAccounted

\* For any number of threads, locks and buckets, however the locks share
\* them: the list of a bucket is only changed by the thread its spinlock
\* names, and a thread parked by park() is queued, or taken by one unparker,
\* or flagged; it is never forgotten, and never found after it has returned.
THEOREM NodesAlwaysAccounted == Spec => []NodesAccounted
<1>1. LotTypeOK /\ BucketInv /\ NodeInv /\ FlaggedIsWoken => NodesAccounted
  BY BooksImplyAccounts
<1> QED
  BY LotInvariant, <1>1, PTL

\* A thread that sleeps in park() although its flag is set is about to be
\* woken by the unparker that set the flag.
THEOREM FlaggedAlwaysWoken == Spec => []FlaggedIsWoken
  BY LotInvariant, PTL

-----------------------------------------------------------------------------
(* The owners of the locks *)

Still ==
    /\ \A l \in Locks : Taken(l)' <=> Taken(l)
    /\ \A u \in Threads : (Holds(u)' <=> Holds(u)) /\ (Holds(u) => target'[u] = target[u])

\* The lock of t changes hands, and no other.
Gains(t) ==
    /\ ~ Holds(t) /\ Holds(t)' /\ ~ Taken(target'[t]) /\ Taken(target[t])'
    /\ \A l \in Locks \ {target'[t]} : Taken(l)' <=> Taken(l)
    /\ \A u \in Threads \ {t} : (Holds(u)' <=> Holds(u)) /\ target'[u] = target[u]
Loses(t) ==
    /\ Holds(t) /\ ~ Holds(t)' /\ ~ Taken(target[t])' /\ target'[t] = target[t]
    /\ \A l \in Locks \ {target[t]} : Taken(l)' <=> Taken(l)
    /\ \A u \in Threads \ {t} : (Holds(u)' <=> Holds(u)) /\ target'[u] = target[u]

OwnerEffect(t) == Still \/ Gains(t) \/ Loses(t)

\* The pointer in a word changes only while its lock bit is clear.
PtrKept == \A l \in TaggedPtrs : word[l].locked => word'[l].ptr = word[l].ptr

LEMMA OwnersNext ==
    ASSUME LotTypeOK, LotTypeOK', OwnerInv, Still \/ \E t \in Threads : OwnerEffect(t)
    PROVE  OwnerInv'
<1>0. target \in [Threads -> Locks] /\ target' \in [Threads -> Locks]
  BY DEF LotTypeOK
<1>1. CASE Still
  BY <1>0, <1>1 DEF OwnerInv, Still
<1>2. ASSUME NEW t \in Threads, Gains(t) PROVE OwnerInv'
  <2>1. \A u \in Threads \ {t} : Holds(u) => target[u] # target'[t]
    BY <1>2 DEF Gains, OwnerInv
  <2>2. \A u \in Threads : Holds(u)' => Taken(target[u])'
    BY <1>0, <1>2, <2>1 DEF Gains, OwnerInv
  <2>3. \A l \in Locks : Taken(l)' => \E u \in Threads : target'[u] = l /\ Holds(u)'
    BY <1>2 DEF Gains, OwnerInv
  <2>4. \A u, v \in Threads : Holds(u)' /\ Holds(v)' /\ target'[u] = target'[v] => u = v
    BY <1>2, <2>1 DEF Gains, OwnerInv
  <2> QED BY <2>2, <2>3, <2>4 DEF OwnerInv
<1>3. ASSUME NEW t \in Threads, Loses(t) PROVE OwnerInv'
  <2>1. \A u \in Threads \ {t} : Holds(u) => target[u] # target[t]
    BY <1>3 DEF Loses, OwnerInv
  <2> QED BY <1>0, <1>3, <2>1 DEF Loses, OwnerInv
<1> QED
  BY <1>1, <1>2, <1>3 DEF OwnerEffect

\* The steps of the parking lot, and of the callbacks it runs.
LEMMA LotStepOwners ==
    ASSUME LotTypeOK, WordInv, NEW t \in Threads, UNCHANGED <<locked, word, seen>>,
           LotStep(t) \/ SpuriousWake(t) \/ \E l \in Locks : UnparkAll(t, l)
    PROVE  WordInv' /\ Still /\ PtrKept
<1> USE DEF Goto, LotTypeOK
<1>1. /\ \A u \in Threads : (Holds(u)' <=> Holds(u)) /\ (Holds(u) => target'[u] = target[u])
      /\ \A u \in Threads : pc'[u] \in OnlyTagged => pc[u] \in OnlyTagged /\ target'[u] = target[u]
      /\ \A u \in Threads : pc'[u] \in Attempts => pc[u] \in Attempts
  <2> USE DEF Holds, OnlyTagged, Attempts
  <2>1. CASE LockBucket(t) \/ CheckFlag(t) \/ ParkWait(t) \/ SpuriousWake(t)
    BY <2>1 DEF LockBucket, CheckFlag, ParkWait, SpuriousWake
  <2>2. CASE SetFlagAndUnlock(t) \/ CollectAll(t) \/ SetNextFlag(t)
    BY <2>2 DEF SetFlagAndUnlock, CollectAll, SetNextFlag
  <2>3. CASE UnparkWake(t)
    BY <2>3 DEF UnparkWake
  <2>4. CASE \E l \in Locks : UnparkAll(t, l)
    BY <2>4 DEF UnparkAll
  <2> QED BY <2>1, <2>2, <2>3, <2>4 DEF LotStep
<1> QED
  BY <1>1 DEF WordInv, Still, PtrKept, Taken

LEMMA MicroOwnersNext ==
    ASSUME LotTypeOK, WordInv, OwnerInv, NEW t \in Threads, UNCHANGED <<word, seen>>,
           \/ \E l \in MicroLocks : MicroLockCall(t, l) \/ MicroTryLock(t, l)
           \/ MicroUnlock(t) \/ MicroStep(t)
    PROVE  WordInv' /\ OwnerEffect(t) /\ PtrKept
<1> USE DEF Goto, LotTypeOK
<1>0. PtrKept /\ MicroLocks \subseteq Locks /\ \A l \in MicroLocks : l \notin TaggedPtrs
  BY ParkingLocksAssumption DEF PtrKept
<1>1. ASSUME NEW l \in MicroLocks, NEW other \in {"spin", "out", "park_bucket"},
             pc[t] \in {"out", "spin", "retry"}, MicroTryAcquire(t, l, other),
             target' = [target EXCEPT ![t] = l]
      PROVE  WordInv' /\ OwnerEffect(t)
  <2>1. CASE ~ locked[l]
    <3>1. /\ pc' = [pc EXCEPT ![t] = "in"] /\ locked' = [locked EXCEPT ![l] = TRUE]
          /\ target'[t] = l /\ \A u \in Threads \ {t} : pc'[u] = pc[u] /\ target'[u] = target[u]
      BY <1>1, <2>1 DEF MicroTryAcquire
    <3>2. WordInv'
      BY <3>1 DEF WordInv, OnlyTagged, Attempts
    <3>3. Gains(t)
      BY <1>0, <1>1, <2>1, <3>1 DEF Gains, Holds, Taken, WordInv
    <3> QED BY <3>2, <3>3 DEF OwnerEffect
  <2>2. CASE locked[l]
    <3>1. /\ pc' = [pc EXCEPT ![t] = other] /\ locked' = locked
          /\ \A u \in Threads \ {t} : pc'[u] = pc[u] /\ target'[u] = target[u]
      BY <1>1, <2>2 DEF MicroTryAcquire
    <3>2. WordInv'
      BY <3>1 DEF WordInv, OnlyTagged, Attempts
    <3>3. Still
      BY <1>0, <1>1, <2>2, <3>1 DEF Still, Holds, Taken
    <3> QED BY <3>2, <3>3 DEF OwnerEffect
  <2> QED BY <2>1, <2>2
<1>2. CASE \E l \in MicroLocks : MicroLockCall(t, l) \/ MicroTryLock(t, l)
  BY <1>0, <1>1, <1>2 DEF MicroLockCall, MicroTryLock
<1>3. CASE MicroSpin(t) \/ MicroRetry(t)
  <2>1. target' = [target EXCEPT ![t] = target[t]]
    BY <1>3 DEF MicroSpin, MicroRetry
  <2> QED BY <1>0, <1>1, <1>3, <2>1 DEF MicroSpin, MicroRetry
<1>4. CASE MicroUnlock(t)
  <2>1. /\ pc' = [pc EXCEPT ![t] = "unpark_bucket"] /\ locked' = [locked EXCEPT ![target[t]] = FALSE]
        /\ target' = target /\ pc[t] = "in" /\ target[t] \in MicroLocks
    BY <1>4 DEF MicroUnlock
  <2>2. WordInv'
    BY <2>1 DEF WordInv, OnlyTagged, Attempts
  <2>3. Loses(t)
    BY <1>0, <2>1 DEF Loses, Holds, Taken, WordInv
  <2> QED BY <1>0, <2>2, <2>3 DEF OwnerEffect
<1>5. CASE MicroPark(t) \/ MicroUnpark(t)
  <2>1. /\ UNCHANGED <<target, locked>> /\ pc[t] \in {"validate", "unpark"}
        /\ \E label \in {"parked", "retry", "unpark_flag", "out"} : pc' = [pc EXCEPT ![t] = label]
    BY <1>5 DEF MicroPark, MicroUnpark, Enqueue, Reject, Dequeue, DequeueNone
  <2>2. WordInv'
    BY <2>1 DEF WordInv, OnlyTagged, Attempts
  <2>3. Still
    BY <2>1 DEF Still, Holds, Taken
  <2> QED BY <1>0, <2>2, <2>3 DEF OwnerEffect
<1> QED
  BY <1>2, <1>3, <1>4, <1>5 DEF MicroStep

\* One word of the TaggedLockPtrs is written.
LEMMA WordWritten ==
    ASSUME WordInv, NEW l \in TaggedPtrs, NEW w \in Words, word' = [word EXCEPT ![l] = w],
           w.ptr = word[l].ptr \/ ~ word[l].locked, UNCHANGED locked
    PROVE  /\ word' \in [TaggedPtrs -> Words] /\ PtrKept
           /\ \A k \in Locks \ {l} : Taken(k)' <=> Taken(k)
           /\ Taken(l)' <=> w.locked
           /\ Taken(l) <=> word[l].locked
<1>1. l \notin MicroLocks
  BY ParkingLocksAssumption
<1>2. \A k \in Locks \ MicroLocks : k \in TaggedPtrs
  BY ParkingLocksAssumption
<1>3. word'[l] = w /\ \A k \in TaggedPtrs \ {l} : word'[k] = word[k]
  BY DEF WordInv
<1>4. word' \in [TaggedPtrs -> Words]
  BY DEF WordInv
<1> QED
  BY <1>1, <1>2, <1>3, <1>4 DEF Taken, PtrKept

LEMMA TaggedLoads ==
    ASSUME LotTypeOK, WordInv, NEW t \in Threads, NEW l \in TaggedPtrs, UNCHANGED locked,
           NEW free \in Attempts, NEW held \in {"spin", "out", "park_load", "park_bucket"},
           pc[t] \notin {"in", "unlock_load", "unlock_cas"},
           LoadThen(t, l, free, held), target' = [target EXCEPT ![t] = l]
    PROVE  WordInv' /\ Still /\ PtrKept
<1> USE DEF Goto, LotTypeOK
<1>1. /\ word' = word /\ target'[t] = l /\ pc'[t] \notin {"in", "unlock_load", "unlock_cas"}
      /\ \A u \in Threads \ {t} : pc'[u] = pc[u] /\ target'[u] = target[u] /\ seen'[u] = seen[u]
      /\ seen' \in [Threads -> Words]
      /\ pc'[t] \in Attempts => ~ seen'[t].locked
  BY ZenonT(60) DEF LoadThen, WordInv, Attempts
<1>2. WordInv'
  BY <1>1 DEF WordInv
<1>3. Still /\ PtrKept
  BY <1>1 DEF Still, PtrKept, Holds, Taken
<1> QED BY <1>2, <1>3

LEMMA FirstPointer == NoWord \in Words /\ ~ NoWord.locked /\ first_ptr \in Pointers
<1>1. first_ptr \in Pointers
  BY ParkingLocksAssumption DEF first_ptr
<1> QED BY <1>1 DEF NoWord, Untagged, Words

LEMMA TaggedCas ==
    ASSUME LotTypeOK, WordInv, OwnerInv, NEW t \in Threads, UNCHANGED locked,
           pc[t] \in Attempts, NEW failed \in SUBSET {"lock_load", "out", "spin", "park_load"},
           SetLocked(t, failed)
    PROVE  WordInv' /\ OwnerEffect(t) /\ PtrKept
<1> USE DEF Goto, LotTypeOK
<1>1. PICK l \in TaggedPtrs : /\ l = target[t] /\ l \in Locks /\ word[l] \in Words
                             /\ ~ seen[t].locked /\ pc[t] \in OnlyTagged
  BY DEF WordInv, Attempts, OnlyTagged
<1>2. /\ target' = target /\ seen' = [seen EXCEPT ![t] = NoWord]
      /\ seen' \in [Threads -> Words]
      /\ \A u \in Threads \ {t} : pc'[u] = pc[u] /\ seen'[u] = seen[u]
  BY FirstPointer DEF SetLocked, WordInv
<1>3. CASE word[l] = seen[t]
  <2>1. PICK w : w = [word[l] EXCEPT !.locked = TRUE]
    OBVIOUS
  <2>2. word' = [word EXCEPT ![l] = w] /\ pc'[t] = "in"
    BY <1>1, <1>3, <2>1 DEF SetLocked, WordInv
  <2>3. w \in Words /\ w.ptr = word[l].ptr /\ w.locked
    BY <1>1, <2>1 DEF Words
  <2>4. /\ word' \in [TaggedPtrs -> Words] /\ PtrKept
        /\ \A k \in Locks \ {l} : Taken(k)' <=> Taken(k)
        /\ Taken(l)' /\ ~ Taken(l)
    BY <1>1, <1>3, <2>2, <2>3, WordWritten
  <2>5. WordInv'
    BY <1>2, <2>2, <2>4 DEF WordInv, OnlyTagged, Attempts
  <2>6. Gains(t)
    BY <1>1, <1>2, <2>2, <2>4 DEF Gains, Holds, Attempts
  <2> QED BY <2>5, <2>6, <2>4 DEF OwnerEffect
<1>4. CASE word[l] # seen[t]
  <2>1. word' = word /\ pc'[t] \in {"lock_load", "out", "spin", "park_load"}
    BY <1>1, <1>4 DEF SetLocked
  <2>2. WordInv'
    BY <1>1, <1>2, <2>1 DEF WordInv, OnlyTagged, Attempts
  <2>3. Still /\ PtrKept
    BY <1>2, <2>1 DEF Still, PtrKept, Holds, Taken, Attempts
  <2> QED BY <2>2, <2>3 DEF OwnerEffect
<1> QED BY <1>3, <1>4

LEMMA TaggedUnlocks ==
    ASSUME LotTypeOK, WordInv, OwnerInv, NEW t \in Threads, UNCHANGED locked,
           TaggedUnlock(t) \/ TaggedUnlockCas(t)
    PROVE  WordInv' /\ OwnerEffect(t) /\ PtrKept
<1> USE DEF Goto, LotTypeOK
<1>1. PICK l \in TaggedPtrs : l = target[t] /\ l \in Locks /\ word[l] \in Words
  BY DEF WordInv, OnlyTagged, TaggedUnlock, TaggedUnlockCas
<1>2. /\ target' = target /\ seen' \in [Threads -> Words]
      /\ \A u \in Threads \ {t} : pc'[u] = pc[u] /\ seen'[u] = seen[u]
  BY <1>1, FirstPointer DEF TaggedUnlock, TaggedUnlockCas, WordInv
<1>3. CASE TaggedUnlockCas(t) /\ word[l] = seen[t]
  <2>1. PICK w : w = [word[l] EXCEPT !.locked = FALSE]
    OBVIOUS
  <2>2. /\ word' = [word EXCEPT ![l] = w] /\ pc'[t] \in {"unpark_bucket", "out"}
        /\ pc[t] = "unlock_cas"
    BY <1>1, <1>3, <2>1 DEF TaggedUnlockCas, WordInv
  <2>3. w \in Words /\ w.ptr = word[l].ptr /\ ~ w.locked
    BY <1>1, <2>1 DEF Words
  <2>4. /\ word' \in [TaggedPtrs -> Words] /\ PtrKept
        /\ \A k \in Locks \ {l} : Taken(k)' <=> Taken(k)
        /\ ~ Taken(l)'
    BY <1>1, <1>3, <2>2, <2>3, WordWritten
  <2>5. WordInv'
    BY <1>2, <2>2, <2>4 DEF WordInv, OnlyTagged, Attempts
  <2>6. Loses(t)
    BY <1>1, <1>2, <2>2, <2>4 DEF Loses, Holds
  <2> QED BY <2>4, <2>5, <2>6 DEF OwnerEffect
<1>4. CASE ~ (TaggedUnlockCas(t) /\ word[l] = seen[t])
  <2>1. /\ word' = word /\ pc[t] \in {"in", "unlock_load", "unlock_cas"}
        /\ pc'[t] \in {"unlock_load", "unlock_cas"}
    BY <1>1, <1>4 DEF TaggedUnlock, TaggedUnlockCas
  <2>2. WordInv'
    BY <1>1, <1>2, <2>1 DEF WordInv, OnlyTagged, Attempts
  <2>3. Still /\ PtrKept
    BY <1>2, <2>1 DEF Still, PtrKept, Holds, Taken
  <2> QED BY <2>2, <2>3 DEF OwnerEffect
<1> QED BY <1>3, <1>4

\* compare_exchange() and exchange() of a pointer whose lock is free.
LEMMA PointerOwners ==
    ASSUME LotTypeOK, WordInv, NEW t \in Threads, NEW l \in TaggedPtrs, NEW p \in Pointers,
           UNCHANGED <<pc, target, seen, locked>>, word' = [word EXCEPT ![l] = Untagged(p)],
           ~ word[l].locked
    PROVE  WordInv' /\ Still /\ PtrKept
<1>1. Untagged(p) \in Words /\ ~ Untagged(p).locked /\ l \in Locks
  BY ParkingLocksAssumption DEF Untagged, Words
<1>2. PICK w \in Words : w = Untagged(p) /\ ~ w.locked
  BY <1>1
<1>3. /\ word' \in [TaggedPtrs -> Words] /\ PtrKept
      /\ \A k \in Locks : Taken(k)' <=> Taken(k)
  BY <1>1, <1>2, WordWritten
<1> QED
  BY <1>3 DEF WordInv, Still, Holds

\* The callbacks, which touch WAITERS_BIT at most.
LEMMA CallbackOwners ==
    ASSUME LotTypeOK, WordInv, NEW t \in Threads, UNCHANGED locked,
           TaggedValidate(t) \/ TaggedSetWaiters(t) \/ TaggedUnpark(t)
    PROVE  WordInv' /\ Still /\ PtrKept
<1> USE DEF Goto, LotTypeOK
<1>1. PICK l \in TaggedPtrs : l = target[t] /\ l \in Locks /\ word[l] \in Words
  BY DEF WordInv, OnlyTagged, TaggedValidate, TaggedSetWaiters, TaggedUnpark
<1>2. /\ UNCHANGED <<target, seen>> /\ pc[t] \in {"validate", "set_waiters", "unpark"}
      /\ \E label \in {"set_waiters", "parked", "retry", "unpark_flag", "out"} : pc' = [pc EXCEPT ![t] = label]
  BY DEF TaggedValidate, TaggedSetWaiters, TaggedUnpark, Enqueue, Reject, Dequeue, DequeueNone
<1>3. word' = word \/ \E x \in BOOLEAN : word' = [word EXCEPT ![l] = [word[l] EXCEPT !.waiters = x]]
  BY <1>1 DEF TaggedValidate, TaggedSetWaiters, TaggedUnpark, WordInv
<1>4. /\ word' \in [TaggedPtrs -> Words] /\ PtrKept
      /\ \A k \in Locks : Taken(k)' <=> Taken(k)
  <2>1. CASE word' = word
    BY <2>1 DEF WordInv, PtrKept, Taken
  <2>2. CASE word' # word
    <3>1. PICK x \in BOOLEAN : word' = [word EXCEPT ![l] = [word[l] EXCEPT !.waiters = x]]
      BY <1>3, <2>2
    <3>2. PICK w : w = [word[l] EXCEPT !.waiters = x]
      OBVIOUS
    <3>3. w \in Words /\ w.ptr = word[l].ptr /\ w.locked = word[l].locked
      BY <1>1, <3>2 DEF Words
    <3> QED BY <1>1, <3>1, <3>2, <3>3, WordWritten
  <2> QED BY <2>1, <2>2
<1>5. \A u \in Threads \ {t} : pc'[u] = pc[u]
  BY <1>2
<1>6. /\ pc'[t] \in {"set_waiters", "parked", "retry", "unpark_flag", "out"}
      /\ pc[t] \in {"validate", "set_waiters", "unpark"}
  BY <1>2
<1>7. WordInv'
  BY <1>1, <1>2, <1>4, <1>5, <1>6 DEF WordInv, OnlyTagged, Attempts
<1>8. Still
  BY <1>2, <1>4, <1>5, <1>6 DEF Still, Holds
<1> QED BY <1>4, <1>7, <1>8

LEMMA TaggedOwnersNext ==
    ASSUME LotTypeOK, WordInv, OwnerInv, NEW t \in Threads, UNCHANGED locked,
           \/ \E l \in TaggedPtrs : TaggedLock(t, l) \/ TaggedTryLock(t, l)
           \/ TaggedUnlock(t) \/ TaggedStep(t)
    PROVE  WordInv' /\ OwnerEffect(t) /\ PtrKept
<1> USE DEF OwnerEffect
<1>1. CASE \E l \in TaggedPtrs : TaggedLock(t, l) \/ TaggedTryLock(t, l)
  <2>1. \A l \in TaggedPtrs : TaggedLock(t, l) => WordInv' /\ Still /\ PtrKept
    BY TaggedLoads DEF TaggedLock, Attempts
  <2>2. \A l \in TaggedPtrs : TaggedTryLock(t, l) => WordInv' /\ Still /\ PtrKept
    BY TaggedLoads DEF TaggedTryLock, Attempts
  <2> QED BY <1>1, <2>1, <2>2
<1>2. CASE TaggedReload(t) \/ TaggedSpin(t) \/ TaggedParkLoad(t)
  <2>1. target[t] \in TaggedPtrs /\ target' = [target EXCEPT ![t] = target[t]]
    BY <1>2 DEF TaggedReload, TaggedSpin, TaggedParkLoad, WordInv, OnlyTagged, LotTypeOK
  <2>2. PICK l \in TaggedPtrs : l = target[t] /\ target' = [target EXCEPT ![t] = l]
    BY <2>1
  <2>3. /\ pc[t] \notin {"in", "unlock_load", "unlock_cas"}
        /\ \E free \in Attempts, held \in {"spin", "out", "park_load", "park_bucket"} :
              LoadThen(t, l, free, held)
    BY <1>2, <2>2 DEF TaggedReload, TaggedSpin, TaggedParkLoad, Attempts
  <2> QED BY <2>2, <2>3, TaggedLoads
<1>3. CASE TaggedLockCas(t) \/ TaggedTryCas(t) \/ TaggedSpinCas(t) \/ TaggedParkCas(t)
  <2>1. pc[t] \in Attempts /\ \E failed \in SUBSET {"lock_load", "out", "spin", "park_load"} :
           SetLocked(t, failed)
    BY <1>3 DEF TaggedLockCas, TaggedTryCas, TaggedSpinCas, TaggedParkCas, Attempts
  <2> QED BY <2>1, TaggedCas
<1>4. CASE TaggedUnlock(t) \/ TaggedUnlockCas(t)
  BY <1>4, TaggedUnlocks
<1>5. CASE TaggedValidate(t) \/ TaggedSetWaiters(t) \/ TaggedUnpark(t)
  BY <1>5, CallbackOwners
<1> QED
  BY <1>1, <1>2, <1>3, <1>4, <1>5 DEF TaggedStep

\* A lock changes hands only as an exclusive lock may.
LEMMA OwnersStep ==
    ASSUME LotTypeOK, WordInv, OwnerInv, Next
    PROVE  WordInv' /\ PtrKept /\ (Still \/ \E t \in Threads : OwnerEffect(t))
<1>1. ASSUME NEW t \in Threads, Call(t) PROVE WordInv' /\ PtrKept /\ OwnerEffect(t)
  <2>1. CASE \E l \in MicroLocks :
               (MicroLockCall(t, l) \/ MicroTryLock(t, l)) /\ UNCHANGED <<word, seen>>
    BY <2>1, MicroOwnersNext
  <2>2. CASE \E l \in TaggedPtrs : (TaggedLock(t, l) \/ TaggedTryLock(t, l)) /\ UNCHANGED locked
    BY <2>2, TaggedOwnersNext
  <2>3. CASE \E l \in TaggedPtrs, p, q \in Pointers : CompareExchange(t, l, p, q) /\ UNCHANGED locked
    <3>1. PICK l \in TaggedPtrs, p \in Pointers, q \in Pointers :
             CompareExchange(t, l, p, q) /\ UNCHANGED locked
      BY <2>3
    <3>2. ~ word[l].locked
      BY <3>1 DEF CompareExchange, Untagged
    <3>3. UNCHANGED <<pc, target, seen, locked>> /\ word' = [word EXCEPT ![l] = Untagged(q)]
      BY <3>1 DEF CompareExchange
    <3> QED BY <3>2, <3>3, PointerOwners DEF OwnerEffect
  <2>4. CASE \E l \in TaggedPtrs, p \in Pointers :
               /\ \A u \in Threads : target[u] = l => pc[u] = "out"
               /\ Exchange(t, l, p)
               /\ UNCHANGED locked
    <3>1. PICK l \in TaggedPtrs, p \in Pointers :
               /\ \A u \in Threads : target[u] = l => pc[u] = "out"
               /\ Exchange(t, l, p) /\ UNCHANGED locked
      BY <2>4
    <3>2. ~ word[l].locked
      BY <3>1, ParkingLocksAssumption DEF OwnerInv, Taken, Holds
    <3>3. UNCHANGED <<pc, target, seen, locked>> /\ word' = [word EXCEPT ![l] = Untagged(p)]
      BY <3>1 DEF Exchange
    <3> QED BY <3>2, <3>3, PointerOwners DEF OwnerEffect
  <2>5. CASE \E l \in Locks : UnparkAll(t, l) /\ UNCHANGED <<locked, word, seen>>
    BY <2>5, LotStepOwners DEF OwnerEffect
  <2> QED BY <1>1, <2>1, <2>2, <2>3, <2>4, <2>5 DEF Call
<1>2. ASSUME NEW t \in Threads, Unlock(t) PROVE WordInv' /\ PtrKept /\ OwnerEffect(t)
  BY <1>2, MicroOwnersNext, TaggedOwnersNext DEF Unlock
<1>3. ASSUME NEW t \in Threads, Progress(t) \/ Interrupted(t)
      PROVE  WordInv' /\ PtrKept /\ OwnerEffect(t)
  BY <1>3, LotStepOwners, MicroOwnersNext, TaggedOwnersNext DEF Progress, Interrupted, OwnerEffect
<1>4. ASSUME Finished PROVE WordInv' /\ PtrKept /\ Still
  BY <1>4 DEF Finished, vars, WordInv, PtrKept, OwnerEffect, Still, Holds, Taken
<1> QED
  BY <1>1, <1>2, <1>3, <1>4 DEF Next

LEMMA OwnersInit == Init => WordInv /\ OwnerInv
<1> SUFFICES ASSUME Init PROVE WordInv /\ OwnerInv
  OBVIOUS
<1>1. \A t \in Threads : pc[t] = "out"
  BY DEF Init, InitLot
<1>2. locked = [l \in MicroLocks |-> FALSE] /\ word = [l \in TaggedPtrs |-> NoWord]
      /\ seen = [t \in Threads |-> NoWord]
  BY DEF Init, InitMicro, InitTagged, NoWord
<1>3. NoWord \in Words /\ ~ NoWord.locked
  BY FirstPointer
<1>4. \A l \in Locks : ~ Taken(l)
  BY <1>2, <1>3, ParkingLocksAssumption DEF Taken
<1> QED
  BY <1>1, <1>2, <1>3, <1>4 DEF WordInv, OwnerInv, OnlyTagged, Attempts, Holds

\* What the refinement mapping makes of the state.
LEMMA OwnersAre ==
    ASSUME WordInv, NEW l \in Locks
    PROVE  Owners(l) = {t \in Threads : target[t] = l /\ Holds(t)}
  BY ParkingLocksAssumption DEF Owners, MicroOwners, TaggedOwners, Holds, WordInv, OnlyTagged

LEMMA OwnersAreNext ==
    ASSUME WordInv', NEW l \in Locks
    PROVE  Owners(l)' = {t \in Threads : target'[t] = l /\ Holds(t)'}
  BY ParkingLocksAssumption DEF Owners, MicroOwners, TaggedOwners, Holds, WordInv, OnlyTagged

LEMMA OwnersRefine ==
    ASSUME LotTypeOK, LotTypeOK', WordInv, WordInv', OwnerInv,
           Still \/ \E t \in Threads : OwnerEffect(t)
    PROVE  [Abstract!Next]_([l \in Locks |-> Owners(l)])
<1> DEFINE own == [l \in Locks |-> Owners(l)]
<1>1. \A l \in Locks : /\ own[l] = {t \in Threads : target[t] = l /\ Holds(t)}
                       /\ own'[l] = {t \in Threads : target'[t] = l /\ Holds(t)'}
  BY OwnersAre, OwnersAreNext
<1>2. DOMAIN own = Locks /\ DOMAIN own' = Locks /\ own' = [l \in Locks |-> own'[l]]
      /\ own = [l \in Locks |-> own[l]]
  OBVIOUS
<1>3. target \in [Threads -> Locks] /\ target' \in [Threads -> Locks]
  BY DEF LotTypeOK
<1> HIDE DEF own
<1>4. CASE Still
  <2>1. \A l \in Locks : own'[l] = own[l]
    <3>1. \A l \in Locks, u \in Threads : target'[u] = l /\ Holds(u)' <=> target[u] = l /\ Holds(u)
      BY <1>4 DEF Still
    <3>2. \A l \in Locks : {u \in Threads : target'[u] = l /\ Holds(u)'}
                           = {u \in Threads : target[u] = l /\ Holds(u)}
      BY <3>1
    <3> QED BY <1>1, <3>2
  <2> QED BY <1>2, <2>1 DEF own
<1>5. ASSUME NEW t \in Threads, Gains(t) PROVE Abstract!Next
  <2>1. PICK l \in Locks : l = target'[t]
    BY <1>3
  <2>2. \A u \in Threads : ~ (target[u] = l /\ Holds(u))
    BY <1>5, <2>1 DEF Gains, OwnerInv
  <2>3. own[l] = {}
    BY <1>1, <2>2
  <2>4. own'[l] = {t}
    BY <1>1, <1>5, <2>1, <2>2 DEF Gains
  <2>5. \A k \in Locks \ {l} : own'[k] = own[k]
    <3>1. \A k \in Locks \ {l}, u \in Threads : target'[u] = k /\ Holds(u)' <=> target[u] = k /\ Holds(u)
      BY <1>5, <2>1 DEF Gains
    <3>2. \A k \in Locks \ {l} : {u \in Threads : target'[u] = k /\ Holds(u)'}
                                 = {u \in Threads : target[u] = k /\ Holds(u)}
      BY <3>1
    <3> QED BY <1>1, <3>2
  <2>6. own' = [own EXCEPT ![l] = {t}]
    BY <1>2, <2>4, <2>5
  <2>7. Abstract!Acquire(t, l)
    BY <2>3, <2>6 DEF Abstract!Acquire, own
  <2> QED BY <2>7 DEF Abstract!Next
<1>6. ASSUME NEW t \in Threads, Loses(t) PROVE Abstract!Next
  <2>1. PICK l \in Locks : l = target[t]
    BY <1>3
  <2>2. \A u \in Threads : target[u] = l /\ Holds(u) <=> u = t
    BY <1>6, <2>1 DEF Loses, OwnerInv
  <2>3. own[l] = {t}
    BY <1>1, <2>2
  <2>4. own'[l] = {}
    BY <1>1, <1>6, <2>1, <2>2 DEF Loses
  <2>5. \A k \in Locks \ {l} : own'[k] = own[k]
    <3>1. \A k \in Locks \ {l}, u \in Threads : target'[u] = k /\ Holds(u)' <=> target[u] = k /\ Holds(u)
      BY <1>6, <2>1 DEF Loses
    <3>2. \A k \in Locks \ {l} : {u \in Threads : target'[u] = k /\ Holds(u)'}
                                 = {u \in Threads : target[u] = k /\ Holds(u)}
      BY <3>1
    <3> QED BY <1>1, <3>2
  <2>6. own' = [own EXCEPT ![l] = {}]
    BY <1>2, <2>4, <2>5
  <2>7. Abstract!Release(t, l)
    BY <2>3, <2>6 DEF Abstract!Release, own
  <2> QED BY <2>7 DEF Abstract!Next
<1> QED
  BY <1>4, <1>5, <1>6 DEF OwnerEffect, own

LEMMA OwnersInitial == Init => Abstract!Init
<1> SUFFICES ASSUME Init PROVE Abstract!Init
  OBVIOUS
<1>1. \A t \in Threads : ~ Holds(t)
  BY DEF Init, InitLot, Holds
<1>2. \A l \in Locks : Owners(l) = {}
  BY <1>1, OwnersInit, OwnersAre
<1> QED
  BY <1>2 DEF Abstract!Init

LEMMA OwnersInvariant ==
    Spec => [](LotTypeOK /\ BucketInv /\ NodeInv /\ FlaggedIsWoken /\ WordInv /\ OwnerInv)
<1> DEFINE Lot == LotTypeOK /\ BucketInv /\ NodeInv /\ FlaggedIsWoken
<1>1. Lot /\ Lot' /\ WordInv /\ OwnerInv /\ [Next]_vars => WordInv' /\ OwnerInv'
  <2> SUFFICES ASSUME Lot, Lot', WordInv, OwnerInv, [Next]_vars PROVE WordInv' /\ OwnerInv'
    OBVIOUS
  <2>1. CASE Next
    <3>1. WordInv' /\ (Still \/ \E t \in Threads : OwnerEffect(t))
      BY <2>1, OwnersStep
    <3>2. OwnerInv'
      BY <3>1, OwnersNext
    <3> QED BY <3>1, <3>2
  <2>2. CASE UNCHANGED vars
    BY <2>2 DEF vars, WordInv, OwnerInv, Holds, Taken
  <2> QED BY <2>1, <2>2
<1> QED
  BY LotInvariant, OwnersInit, <1>1, PTL DEF Spec

\* MicroLock and TaggedLockPtr are locks: lock() and a successful try_lock()
\* return only while nobody owns the lock, and only its owner gives it up, for
\* any number of threads and of locks of both kinds in the same buckets.
THEOREM ParkingLocksImplement == Spec => ImplementsLocks
<1>1. LotTypeOK /\ LotTypeOK' /\ WordInv /\ OwnerInv /\ WordInv' /\ [Next]_vars
      => [Abstract!Next]_([l \in Locks |-> Owners(l)])
  <2> SUFFICES ASSUME LotTypeOK, LotTypeOK', WordInv, OwnerInv, WordInv', [Next]_vars
               PROVE  [Abstract!Next]_([l \in Locks |-> Owners(l)])
    OBVIOUS
  <2>1. CASE Next
    <3>1. Still \/ \E t \in Threads : OwnerEffect(t)
      BY <2>1, OwnersStep
    <3> QED BY <3>1, OwnersRefine
  <2>2. CASE UNCHANGED vars
    <3>1. Still
      BY <2>2 DEF vars, Still, Holds, Taken
    <3> QED BY <3>1, OwnersRefine
  <2> QED BY <2>1, <2>2
<1> QED
  BY OwnersInitial, OwnersInvariant, <1>1, PTL DEF Spec, ImplementsLocks, Abstract!Spec

\* While a thread owns a TaggedLockPtr the pointer in the word is stable:
\* neither compare_exchange() nor a lock() or unlock() that writes the whole
\* word back changes it.
THEOREM PointersAreStable == Spec => PointerStable
<1> DEFINE A == \A l \in TaggedPtrs : TaggedOwners(l) # {} => word'[l].ptr = word[l].ptr
<1>1. LotTypeOK /\ WordInv /\ OwnerInv /\ [Next]_vars => [A]_vars
  <2> SUFFICES ASSUME LotTypeOK, WordInv, OwnerInv, Next PROVE A
    OBVIOUS
  <2>1. PtrKept
    BY OwnersStep
  <2>2. \A l \in TaggedPtrs : TaggedOwners(l) # {} => word[l].locked
    BY ParkingLocksAssumption DEF OwnerInv, TaggedOwners, Holds, Taken
  <2> QED BY <2>1, <2>2 DEF PtrKept
<1> QED
  BY OwnersInvariant, <1>1, PTL DEF Spec, PointerStable

-----------------------------------------------------------------------------
(* No waiter is forgotten *)

Parked(l) == \E n \in Threads : target[n] = l /\ Queued(n)

LEMMA WaitingIsParked ==
    ASSUME LotTypeOK, NEW l \in Locks
    PROVE  Waiting(l) # {} <=> Parked(l)
<1> DEFINE q == queue[hash_address[l]]
<1>1. q \in Seq(Threads) /\ DOMAIN q = 1 .. Len(q) /\ \A i \in 1 .. Len(q) : q[i] \in Threads
  BY ParkingLotAssumption DEF LotTypeOK
<1>2. \A n \in Threads : target[n] = l => (Queued(n) <=> \E i \in 1 .. Len(q) : q[i] = n)
  BY DEF Queued, BucketOf
<1> HIDE DEF q
<1>3. Waiting(l) = {i \in DOMAIN q : target[q[i]] = l}
  BY DEF Waiting, q
<1> QED
  BY <1>1, <1>2, <1>3 DEF Parked

LEMMA WaitingIsParkedNext ==
    ASSUME LotTypeOK', NEW l \in Locks
    PROVE  Waiting(l)' # {} <=> Parked(l)'
<1> DEFINE q == queue'[hash_address[l]]
<1>1. q \in Seq(Threads) /\ DOMAIN q = 1 .. Len(q) /\ \A i \in 1 .. Len(q) : q[i] \in Threads
  BY ParkingLotAssumption DEF LotTypeOK
<1>2. \A n \in Threads : target'[n] = l => (Queued(n)' <=> \E i \in 1 .. Len(q) : q[i] = n)
  BY DEF Queued, BucketOf
<1> HIDE DEF q
<1>3. Waiting(l)' = {i \in DOMAIN q : target'[q[i]] = l}
  BY DEF Waiting, q
<1> QED
  BY <1>1, <1>2, <1>3 DEF Parked

\* A step puts no node into a list but that of a thread that parks, and
\* moves no other thread, except that futex::wake() may wake one.
LEMMA QueuedNext ==
    ASSUME LotTypeOK, NodeInv, NEW t \in Threads, LotEffect(t)
    PROVE  /\ \A n \in Threads : Queued(n)' =>
                \/ Queued(n) /\ target'[n] = target[n]
                \/ Park(t) /\ n = t
           /\ \A u \in Threads \ {t} : /\ target'[u] = target[u]
                                       /\ pc'[u] = pc[u] \/ (pc[u] = "asleep" /\ pc'[u] = "parked")
           /\ ~ Quiet(t) => target' = target
<1>1. \A n \in Threads : /\ Queued(n) <=> In(queue[BucketOf(n)], n)
                         /\ Queued(n)' <=> In(queue'[BucketOf(n)'], n)
  BY DEF Queued, In
<1>2. CASE Quiet(t)
  <2>1. \A u \in Threads \ {t} : pc'[u] = pc[u] /\ target'[u] = target[u] /\ BucketOf(u)' = BucketOf(u)
    BY <1>2 DEF Quiet, Others, BucketOf
  <2>2. queue' = queue /\ BucketOf(t)' \in Buckets /\ pc[t] \notin Waits
    BY <1>2, ParkingLotAssumption DEF Quiet, lotVars, BucketOf, Away
  <2>3. ~ Queued(t)'
    BY <1>1, <2>2 DEF NodeInv
  <2> QED BY <1>1, <1>2, <2>1, <2>2, <2>3
<1>3. CASE LockBucket(t) \/ Loop(t) \/ Release(t) \/ Tag(t) \/ Flag(t) \/ UnparkWake(t)
  <2>1. queue' = queue /\ target' = target
    BY <1>3 DEF LockBucket, Loop, CheckFlag, ParkWait, SpuriousWake, Release, Tag, Flag, UnparkWake, lotVars
  <2>2. \A u \in Threads \ {t} : pc'[u] = pc[u] \/ (pc[u] = "asleep" /\ pc'[u] = "parked")
    BY <1>3 DEF LockBucket, Loop, CheckFlag, ParkWait, SpuriousWake, Release, Tag, Flag, UnparkWake,
                Goto, LotTypeOK
  <2>3. \A n \in Threads : Queued(n)' <=> Queued(n)
    BY <2>1 DEF Queued, BucketOf
  <2> QED BY <2>1, <2>2, <2>3
<1>4. CASE Park(t)
  <2>1. target' = target /\ \A u \in Threads \ {t} : pc'[u] = pc[u]
    BY <1>4 DEF Park, Enqueue, Goto, LotTypeOK
  <2>2. BucketOf(t) \in Buckets /\ queue[BucketOf(t)] \in Seq(Threads)
        /\ Distinct(queue[BucketOf(t)]) /\ ~ In(queue[BucketOf(t)], t)
    BY <1>4, BucketTyped DEF NodeInv, Park, Waits
  <2>3. \A m : In(Append(queue[BucketOf(t)], t), m) <=> In(queue[BucketOf(t)], m) \/ m = t
    BY <2>2, AppendedTo
  <2>4. /\ queue'[BucketOf(t)] = Append(queue[BucketOf(t)], t)
        /\ \A b \in Buckets \ {BucketOf(t)} : queue'[b] = queue[b]
    BY <1>4, <2>2 DEF Park, Enqueue, LotTypeOK
  <2>5. \A n \in Threads : BucketOf(n)' = BucketOf(n) /\ BucketOf(n) \in Buckets
    BY <2>1, BucketTyped DEF BucketOf
  <2> QED BY <1>1, <1>4, <2>1, <2>3, <2>4, <2>5
<1>5. CASE Take(t)
  <2>1. target' = target /\ \A u \in Threads \ {t} : pc'[u] = pc[u]
    BY <1>5 DEF Take, Others
  <2>2. /\ \A b \in Buckets \ {BucketOf(t)} : queue'[b] = queue[b]
        /\ \A m : In(queue'[BucketOf(t)], m) => In(queue[BucketOf(t)], m)
    BY <1>5, Taking DEF Take
  <2>3. \A n \in Threads : BucketOf(n)' = BucketOf(n) /\ BucketOf(n) \in Buckets
    BY <2>1, BucketTyped DEF BucketOf
  <2> QED BY <1>1, <1>5, <2>1, <2>2, <2>3
<1> QED
  BY <1>2, <1>3, <1>4, <1>5 DEF LotEffect

\* After the last node of a key is unlinked none is parked on it.
LEMMA LastOneTaken ==
    ASSUME LotTypeOK, LotTypeOK', NodeInv, NEW t \in Threads, NEW l \in Locks, l = target[t],
           \/ pc[t] = "unpark" /\ Dequeue(t) /\ ~ MoreWaiters(l)
           \/ DequeueNone(t)
    PROVE  ~ Parked(l)'
<1> SUFFICES ASSUME NEW m \in Threads, target'[m] = l, Queued(m)' PROVE FALSE
  BY DEF Parked
<1>1. target' = target
  BY DEF Dequeue, DequeueNone
<1>2. CASE DequeueNone(t)
  <2>1. Queued(m)
    BY <1>1, <1>2 DEF DequeueNone, Queued, BucketOf
  <2> QED BY <1>1, <1>2, <2>1, WaitingIsParked DEF DequeueNone, Parked
<1>3. CASE pc[t] = "unpark" /\ Dequeue(t) /\ ~ MoreWaiters(l)
  <2>1. PICK n \in Threads :
              /\ target[n] = target[t] /\ In(queue[BucketOf(t)], n)
              /\ \A k : In(queue'[BucketOf(t)], k) <=> In(queue[BucketOf(t)], k) /\ k # n
    BY <1>3, Taking DEF Dequeue
  <2>2. BucketOf(m) = BucketOf(t) /\ BucketOf(m)' = BucketOf(t)
    BY <1>1 DEF BucketOf
  <2>3. In(queue[BucketOf(t)], m) /\ m # n
    BY <2>1, <2>2 DEF Queued, In
  <2>4. PICK i, j \in 1 .. Len(queue[BucketOf(t)]) : queue[BucketOf(t)][i] = m /\ queue[BucketOf(t)][j] = n
    BY <2>1, <2>3 DEF In
  <2>5. queue[BucketOf(t)] \in Seq(Threads)
    BY BucketTyped
  <2>6. DOMAIN queue[BucketOf(t)] = 1 .. Len(queue[BucketOf(t)])
    BY <2>5, LenProperties
  <2>7. i \in Waiting(l) /\ j \in Waiting(l) /\ i # j
    BY <1>1, <2>1, <2>3, <2>4, <2>6 DEF Waiting, BucketOf
  <2> QED BY <1>3, <2>7 DEF MoreWaiters
<1> QED BY <1>2, <1>3

\* WAITERS_BIT is kept, and set for a thread that parks.
LEMMA WaitersKept ==
    ASSUME LotTypeOK, LotTypeOK', NodeInv, WaitersBitSet, NEW t \in Threads, LotEffect(t),
           NEW l \in TaggedPtrs, word[l].waiters => word'[l].waiters,
           Park(t) /\ target[t] = l => word'[l].waiters
    PROVE  Waiting(l)' # {} => word'[l].waiters
<1>1. l \in Locks
  BY ParkingLocksAssumption
<1>2. Parked(l)' => Parked(l) \/ (Park(t) /\ target[t] = l)
  <2>1. Park(t) => target' = target
    BY DEF Park, Enqueue
  <2> QED BY <2>1, QueuedNext DEF Parked
<1> QED
  BY <1>1, <1>2, WaitingIsParked, WaitingIsParkedNext DEF WaitersBitSet

LEMMA WaitersNext ==
    ASSUME LotTypeOK, LotTypeOK', NodeInv, WordInv, WaitersBitSet, Next
    PROVE  WaitersBitSet'
<1> SUFFICES ASSUME NEW l \in TaggedPtrs PROVE Waiting(l)' # {} => word'[l].waiters
  BY DEF WaitersBitSet
<1>0. l \in Locks /\ l \notin MicroLocks
  BY ParkingLocksAssumption
<1>1. ASSUME NEW t \in Threads, Call(t), word' = word PROVE Waiting(l)' # {} => word'[l].waiters
  <2>1. Quiet(t) /\ ~ Park(t)
    BY <1>1, CallEffect DEF Quiet, Away, Park, InBucket
  <2> QED BY <1>1, <2>1, WaitersKept DEF LotEffect
<1>2. ASSUME NEW t \in Threads, Call(t), word' # word PROVE Waiting(l)' # {} => word'[l].waiters
  <2>0. Quiet(t) /\ ~ Park(t)
    BY <1>2, CallEffect DEF Quiet, Away, Park, InBucket
  <2>1. PICK k \in TaggedPtrs, p \in Pointers :
          /\ word' = [word EXCEPT ![k] = Untagged(p)]
          /\ ~ word[k].waiters \/ \A u \in Threads : target[u] = k => pc[u] = "out"
    <3>1. \/ \E k \in TaggedPtrs, p, q \in Pointers : CompareExchange(t, k, p, q)
          \/ \E k \in TaggedPtrs, p \in Pointers :
                (\A u \in Threads : target[u] = k => pc[u] = "out") /\ Exchange(t, k, p)
      BY <1>2 DEF Call, TaggedLock, TaggedTryLock, LoadThen
    <3>2. ASSUME NEW k \in TaggedPtrs, NEW p \in Pointers, NEW q \in Pointers, CompareExchange(t, k, p, q)
          PROVE  word' = [word EXCEPT ![k] = Untagged(q)] /\ ~ word[k].waiters
      BY <3>2 DEF CompareExchange, Untagged
    <3>3. ASSUME NEW k \in TaggedPtrs, NEW p \in Pointers, Exchange(t, k, p)
          PROVE  word' = [word EXCEPT ![k] = Untagged(p)]
      BY <3>3 DEF Exchange
    <3> QED BY <3>1, <3>2, <3>3
  <2>2. CASE k = l
    <3>1. ~ Parked(l)
      <4>1. CASE ~ word[k].waiters
        BY <1>0, <2>2, <4>1, WaitingIsParked DEF WaitersBitSet
      <4>2. CASE \A u \in Threads : target[u] = k => pc[u] = "out"
        <5>1. \A n \in Threads : Queued(n) => pc[n] # "out"
          BY BucketTyped DEF NodeInv, Queued, In, Waits
        <5> QED BY <2>2, <4>2, <5>1 DEF Parked
      <4> QED BY <2>1, <4>1, <4>2
    <3>2. ~ Parked(l)'
      BY <2>0, <3>1, QueuedNext DEF Parked, LotEffect
    <3> QED BY <1>0, <3>2, WaitingIsParkedNext
  <2>3. CASE k # l
    <3>1. word'[l] = word[l]
      BY <2>1, <2>3 DEF WordInv
    <3> QED BY <2>0, <3>1, WaitersKept DEF LotEffect
  <2> QED BY <2>2, <2>3
<1>3. ASSUME NEW t \in Threads, Unlock(t) PROVE Waiting(l)' # {} => word'[l].waiters
  <2>1. Quiet(t) /\ ~ Park(t)
    BY <1>3, CallEffect DEF Quiet, Away, Park, InBucket
  <2>2. word' = word
    BY <1>3 DEF Unlock, TaggedUnlock
  <2> QED BY <2>1, <2>2, WaitersKept DEF LotEffect
<1>4. ASSUME NEW t \in Threads, LotStep(t) \/ SpuriousWake(t), word' = word
      PROVE  Waiting(l)' # {} => word'[l].waiters
  <2>1. LotEffect(t)
    BY <1>4, LotStepEffect
  <2>2. pc[t] \notin {"validate", "set_waiters"}
    BY <1>4 DEF LotStep, LockBucket, CheckFlag, ParkWait, SetFlagAndUnlock, CollectAll, SetNextFlag,
                UnparkWake, SpuriousWake
  <2> QED BY <1>4, <2>1, <2>2, WaitersKept DEF Park
<1>5. ASSUME NEW t \in Threads, MicroStep(t), word' = word
      PROVE  Waiting(l)' # {} => word'[l].waiters
  <2>1. LotEffect(t)
    BY <1>5, MicroEffect
  <2>2. target[t] # l
    BY <1>0, <1>5 DEF MicroStep, MicroSpin, MicroPark, MicroRetry, MicroUnpark
  <2> QED BY <1>5, <2>1, <2>2, WaitersKept
<1>6. ASSUME NEW t \in Threads, TaggedStep(t) PROVE Waiting(l)' # {} => word'[l].waiters
  <2>1. LotEffect(t)
    BY <1>6, TaggedEffect
  <2>2. CASE TaggedReload(t) \/ TaggedSpin(t) \/ TaggedParkLoad(t)
    <3>1. word' = word /\ pc[t] \notin {"validate", "set_waiters"}
      BY <2>2 DEF TaggedReload, TaggedSpin, TaggedParkLoad, LoadThen
    <3> QED BY <2>1, <3>1, WaitersKept DEF Park
  <2>3. CASE TaggedLockCas(t) \/ TaggedTryCas(t) \/ TaggedSpinCas(t) \/ TaggedParkCas(t)
             \/ TaggedUnlockCas(t)
    <3>1. pc[t] \notin {"validate", "set_waiters"}
      BY <2>3 DEF TaggedLockCas, TaggedTryCas, TaggedSpinCas, TaggedParkCas, TaggedUnlockCas
    <3>2. word' = word \/ \E x \in BOOLEAN : word' = [word EXCEPT ![target[t]].locked = x]
      BY <2>3 DEF TaggedLockCas, TaggedTryCas, TaggedSpinCas, TaggedParkCas, TaggedUnlockCas, SetLocked
    <3>3. word'[l].waiters = word[l].waiters
      <4>1. word[l] \in Words
        BY DEF WordInv
      <4>2. ASSUME NEW x \in BOOLEAN, word' = [word EXCEPT ![target[t]].locked = x]
            PROVE  word'[l] = word[l] \/ word'[l] = [word[l] EXCEPT !.locked = x]
        BY <4>2 DEF WordInv
      <4>3. \A x \in BOOLEAN : [word[l] EXCEPT !.locked = x].waiters = word[l].waiters
        BY <4>1 DEF Words
      <4> QED BY <3>2, <4>2, <4>3
    <3> QED BY <2>1, <3>1, <3>3, WaitersKept DEF Park
  <2>4. CASE TaggedValidate(t)
    <3>1. word' = word
      BY <2>4 DEF TaggedValidate
    <3>2. Park(t) /\ target[t] = l => word[l].waiters
      <4>1. Park(t) => pc'[t] = "parked"
        BY DEF Park, Enqueue, Goto, LotTypeOK
      <4>2. ~ word[target[t]].waiters => pc'[t] # "parked"
        BY <2>4 DEF TaggedValidate, Reject, Goto, LotTypeOK
      <4> QED BY <4>1, <4>2
    <3> QED BY <2>1, <3>1, <3>2, WaitersKept
  <2>5. CASE TaggedSetWaiters(t)
    <3>1. target[t] \in TaggedPtrs
      BY <2>5 DEF TaggedSetWaiters, WordInv, OnlyTagged
    <3>2. word'[target[t]].waiters /\ (l # target[t] => word'[l] = word[l])
      BY <2>5, <3>1 DEF TaggedSetWaiters, WordInv, Words
    <3> QED BY <2>1, <3>2, WaitersKept
  <2>6. CASE TaggedUnpark(t)
    <3>1. pc[t] = "unpark" /\ (Dequeue(t) \/ DequeueNone(t)) /\ ~ Park(t)
      BY <2>6 DEF TaggedUnpark, Park
    <3>2. CASE l = target[t] /\ ~ MoreWaiters(l)
      <4>1. ~ Parked(l)'
        BY <1>0, <3>1, <3>2, LastOneTaken
      <4> QED BY <1>0, <4>1, WaitingIsParkedNext
    <3>3. CASE l # target[t] \/ MoreWaiters(l)
      <4>1. word'[l].waiters = word[l].waiters
        BY <2>6, <3>3 DEF TaggedUnpark, WordInv
      <4> QED BY <2>1, <3>1, <4>1, WaitersKept
    <3> QED BY <3>2, <3>3
  <2> QED BY <1>6, <2>2, <2>3, <2>4, <2>5, <2>6 DEF TaggedStep
<1>7. CASE Finished
  BY <1>7 DEF Finished, vars, lotVars, WaitersBitSet, Waiting
<1> QED
  BY <1>1, <1>2, <1>3, <1>4, <1>5, <1>6, <1>7 DEF Next, Progress, Interrupted

ServeLabels == {"unpark_bucket", "unpark", "spin", "park_bucket", "validate",
                "parked", "park_wait", "asleep", "retry"}
Serving(t, l) == target[t] = l /\ pc[t] \in ServeLabels /\ ~ Queued(t)

\* A step that does not clear the lock's byte: a thread that serves the lock
\* goes on, unless it is the one that moves.
LEMMA ServedKept ==
    ASSUME LotTypeOK, LotTypeOK', NodeInv, MicroNoLostWakeup, NEW t \in Threads, LotEffect(t),
           NEW l \in MicroLocks, locked[l] => locked'[l],
           Park(t) /\ target[t] = l => locked'[l],
           Serving(t, l) /\ ~ locked'[l] /\ Parked(l)' => \E s \in Threads : Serving(s, l)'
    PROVE  ~ locked'[l] /\ Waiting(l)' # {} => \E s \in Threads : Serving(s, l)'
<1> SUFFICES ASSUME ~ locked'[l], Waiting(l)' # {} PROVE \E s \in Threads : Serving(s, l)'
  OBVIOUS
<1>1. l \in Locks
  BY ParkingLocksAssumption
<1>2. Parked(l)'
  BY <1>1, WaitingIsParkedNext
<1>3. Park(t) => target' = target
  BY DEF Park, Enqueue
<1>4. Parked(l)
  BY <1>2, <1>3, QueuedNext DEF Parked
<1>5. PICK s \in Threads : Serving(s, l)
  BY <1>1, <1>4, WaitingIsParked DEF MicroNoLostWakeup, Served, Serving, ServeLabels
<1>6. CASE s = t
  BY <1>2, <1>5, <1>6
<1>7. CASE s # t
  <2>1. /\ target'[s] = target[s] /\ (Queued(s)' => Queued(s))
        /\ pc'[s] = pc[s] \/ (pc[s] = "asleep" /\ pc'[s] = "parked")
    BY <1>7, QueuedNext
  <2>2. Serving(s, l)'
    BY <1>5, <2>1 DEF Serving, ServeLabels
  <2> QED BY <2>2
<1> QED BY <1>6, <1>7

LEMMA NotWaitingNotQueued ==
    ASSUME LotTypeOK, NodeInv, NEW t \in Threads, Queued(t)
    PROVE  pc[t] \in Waits
  BY BucketTyped DEF NodeInv, Queued, In

LEMMA ServedNext ==
    ASSUME LotTypeOK, LotTypeOK', NodeInv, NodeInv', WordInv, MicroNoLostWakeup, Next
    PROVE  MicroNoLostWakeup'
<1> SUFFICES ASSUME NEW l \in MicroLocks
             PROVE  ~ locked'[l] /\ Waiting(l)' # {} => \E s \in Threads : Serving(s, l)'
  BY DEF MicroNoLostWakeup, Served, Serving, ServeLabels
<1> USE DEF ServeLabels
<1>0. l \in Locks /\ l \notin TaggedPtrs
  BY ParkingLocksAssumption
<1>1. ASSUME NEW t \in Threads, Call(t)
      PROVE  ~ locked'[l] /\ Waiting(l)' # {} => \E s \in Threads : Serving(s, l)'
  <2>1. LotEffect(t) /\ ~ Park(t)
    BY <1>1, CallEffect DEF Quiet, Away, Park, InBucket, LotEffect
  <2>2. pc[t] = "out"
    BY <1>1 DEF Call, MicroLockCall, MicroTryLock, TaggedLock, TaggedTryLock, CompareExchange,
                Exchange, UnparkAll
  <2>3. locked[l] => locked'[l]
    BY <1>1 DEF Call, MicroLockCall, MicroTryLock, MicroTryAcquire, WordInv
  <2> QED BY <2>1, <2>2, <2>3, ServedKept DEF Serving
<1>2. ASSUME NEW t \in Threads, Unlock(t)
      PROVE  ~ locked'[l] /\ Waiting(l)' # {} => \E s \in Threads : Serving(s, l)'
  <2>1. CASE MicroUnlock(t) /\ target[t] = l
    <3>1. pc'[t] = "unpark_bucket" /\ target'[t] = l
      BY <2>1 DEF MicroUnlock, Goto, LotTypeOK
    <3>2. ~ Queued(t)'
      <4>1. BucketOf(t)' \in Buckets
        BY ParkingLotAssumption DEF LotTypeOK, BucketOf
      <4> QED BY <3>1, <4>1 DEF NodeInv, Queued, In, Waits
    <3>3. Serving(t, l)'
      BY <3>1, <3>2 DEF Serving
    <3> QED BY <3>3
  <2>2. CASE ~ (MicroUnlock(t) /\ target[t] = l)
    <3>1. LotEffect(t) /\ ~ Park(t)
      BY <1>2, CallEffect DEF Quiet, Away, Park, InBucket, LotEffect
    <3>2. pc[t] \notin ServeLabels
      BY <1>2 DEF Unlock, MicroUnlock, TaggedUnlock
    <3>3. locked[l] => locked'[l]
      BY <1>2, <2>2 DEF Unlock, MicroUnlock, WordInv
    <3> QED BY <3>1, <3>2, <3>3, ServedKept DEF Serving
  <2> QED BY <2>1, <2>2
<1>3. ASSUME NEW t \in Threads, LotStep(t) \/ SpuriousWake(t), locked' = locked
      PROVE  ~ locked'[l] /\ Waiting(l)' # {} => \E s \in Threads : Serving(s, l)'
  <2>1. LotEffect(t)
    BY <1>3, LotStepEffect
  <2>2. pc[t] \notin {"validate", "set_waiters"}
    BY <1>3 DEF LotStep, LockBucket, CheckFlag, ParkWait, SetFlagAndUnlock, CollectAll, SetNextFlag,
                UnparkWake, SpuriousWake
  <2>3. pc[t] \in ServeLabels => pc'[t] \in ServeLabels
    BY <1>3 DEF LotStep, LockBucket, CheckFlag, ParkWait, SetFlagAndUnlock, CollectAll, SetNextFlag,
                UnparkWake, SpuriousWake, Goto, LotTypeOK
  <2>4. target' = target
    BY <1>3 DEF LotStep, LockBucket, CheckFlag, ParkWait, SetFlagAndUnlock, CollectAll, SetNextFlag,
                UnparkWake, SpuriousWake
  <2>5. Queued(t)' => Queued(t)
    BY <2>1, <2>2, QueuedNext DEF Park
  <2>6. Serving(t, l) => Serving(t, l)'
    BY <2>3, <2>4, <2>5 DEF Serving
  <2> QED BY <1>3, <2>1, <2>2, <2>6, ServedKept DEF Park
<1>4. ASSUME NEW t \in Threads, TaggedStep(t), locked' = locked
      PROVE  ~ locked'[l] /\ Waiting(l)' # {} => \E s \in Threads : Serving(s, l)'
  <2>1. LotEffect(t)
    BY <1>4, TaggedEffect
  <2>2. target[t] \in TaggedPtrs
    BY <1>4 DEF TaggedStep, TaggedReload, TaggedLockCas, TaggedTryCas, TaggedSpin, TaggedSpinCas,
                TaggedParkLoad, TaggedParkCas, TaggedValidate, TaggedSetWaiters, TaggedUnlockCas,
                TaggedUnpark, WordInv, OnlyTagged
  <2> QED BY <1>0, <1>4, <2>1, <2>2, ServedKept DEF Serving
<1>5. ASSUME NEW t \in Threads, MicroStep(t)
      PROVE  ~ locked'[l] /\ Waiting(l)' # {} => \E s \in Threads : Serving(s, l)'
  <2>1. LotEffect(t)
    BY <1>5, MicroEffect
  <2>2. CASE target[t] # l
    <3>1. locked'[l] = locked[l]
      BY <1>5, <2>2 DEF MicroStep, MicroSpin, MicroPark, MicroRetry, MicroUnpark, MicroTryAcquire, WordInv
    <3> QED BY <2>1, <2>2, <3>1, ServedKept DEF Serving
  <2>3. CASE target[t] = l /\ (MicroSpin(t) \/ MicroRetry(t))
    <3>1. locked'[l] /\ pc[t] \in {"spin", "retry"}
      BY <2>3 DEF MicroSpin, MicroRetry, MicroTryAcquire, WordInv
    <3> QED BY <3>1
  <2>4. CASE target[t] = l /\ MicroPark(t)
    <3>1. CASE locked[l]
      BY <2>4, <3>1 DEF MicroPark
    <3>2. CASE ~ locked[l]
      <4>1. /\ pc[t] = "validate" /\ pc'[t] = "retry" /\ locked' = locked /\ target' = target /\ queue' = queue
        BY <2>4, <3>2 DEF MicroPark, Reject, Goto, LotTypeOK
      <4>2. ~ Park(t)
        BY <4>1 DEF Park, Enqueue, Goto, LotTypeOK
      <4>3. Serving(t, l) => Serving(t, l)'
        BY <4>1 DEF Serving, Queued, BucketOf
      <4> QED BY <2>1, <4>1, <4>2, <4>3, ServedKept
    <3> QED BY <3>1, <3>2
  <2>5. CASE target[t] = l /\ MicroUnpark(t)
    <3>1. pc[t] = "unpark" /\ locked' = locked /\ (Dequeue(t) \/ DequeueNone(t)) /\ ~ Park(t)
      BY <2>5 DEF MicroUnpark, Park
    <3>2. CASE DequeueNone(t)
      <4>1. ~ Parked(l)'
        BY <1>0, <2>5, <3>2, LastOneTaken
      <4> QED BY <1>0, <4>1, WaitingIsParkedNext
    <3>3. CASE Dequeue(t)
      <4>1. PICK n \in Threads :
              /\ target[n] = target[t] /\ In(queue[BucketOf(t)], n)
              /\ \A m : In(queue'[BucketOf(t)], m) <=> In(queue[BucketOf(t)], m) /\ m # n
        BY <3>3, Taking DEF Dequeue
      <4>2. target' = target /\ \A u \in Threads \ {t} : pc'[u] = pc[u]
        BY <3>3 DEF Dequeue, Goto, LotTypeOK
      <4>3. BucketOf(n) = BucketOf(t) /\ BucketOf(n)' = BucketOf(t)
        BY <4>1, <4>2 DEF BucketOf
      <4>4. pc[n] \in Waits
        BY <4>1, <4>3, NotWaitingNotQueued DEF Queued, In
      <4>5. n # t /\ pc'[n] \in ServeLabels
        BY <3>1, <4>2, <4>4 DEF Waits
      <4>6. ~ Queued(n)'
        BY <4>1, <4>3 DEF Queued, In
      <4>7. Serving(n, l)'
        BY <2>5, <4>1, <4>2, <4>5, <4>6 DEF Serving
      <4> QED BY <4>7
    <3> QED BY <3>1, <3>2, <3>3
  <2> QED BY <1>5, <2>2, <2>3, <2>4, <2>5 DEF MicroStep
<1>6. CASE Finished
  BY <1>6 DEF Finished, vars, lotVars, MicroNoLostWakeup, Served, Serving, Waiting, Queued, BucketOf
<1> QED
  BY <1>1, <1>2, <1>3, <1>4, <1>5, <1>6 DEF Next, Progress, Interrupted

LEMMA ParkingInit == Init => ParkingInv
<1> SUFFICES ASSUME Init PROVE ParkingInv
  OBVIOUS
<1>1. LotTypeOK /\ BucketInv /\ NodeInv /\ FlaggedIsWoken /\ WordInv /\ OwnerInv
  BY LotInit, OwnersInit
<1>2. \A l \in Locks : Waiting(l) = {}
  BY ParkingLotAssumption DEF Init, InitLot, Waiting
<1> QED
  BY <1>1, <1>2, ParkingLocksAssumption DEF ParkingInv, WaitersBitSet, MicroNoLostWakeup

LEMMA ParkingNext == ParkingInv /\ [Next]_vars => ParkingInv'
<1> SUFFICES ASSUME ParkingInv, [Next]_vars PROVE ParkingInv'
  OBVIOUS
<1> USE DEF ParkingInv
<1>1. LotTypeOK' /\ BucketInv' /\ NodeInv' /\ FlaggedIsWoken'
  BY LotNext
<1>2. CASE Next
  <2>1. WordInv' /\ OwnerInv'
    BY <1>1, <1>2, OwnersStep, OwnersNext
  <2>2. WaitersBitSet' /\ MicroNoLostWakeup'
    BY <1>1, <1>2, WaitersNext, ServedNext
  <2> QED BY <1>1, <2>1, <2>2
<1>3. CASE UNCHANGED vars
  <2>1. WordInv' /\ OwnerInv'
    BY <1>3 DEF vars, WordInv, OwnerInv, Holds, Taken
  <2>2. WaitersBitSet' /\ MicroNoLostWakeup'
    BY <1>3 DEF vars, lotVars, WaitersBitSet, MicroNoLostWakeup, Waiting, Served, Queued, BucketOf
  <2> QED BY <1>1, <2>1, <2>2
<1> QED BY <1>2, <1>3

\* Whenever a node is parked on a TaggedLockPtr its WAITERS_BIT is set, so
\* that the next unlock() looks for it.  (A bit that is set is not enough:
\* run tagged_lost_wakeup.)
THEOREM WaitersBitCovers == Spec => []WaitersBitSet
<1>1. ParkingInv => WaitersBitSet
  BY DEF ParkingInv
<1> QED
  BY ParkingInit, ParkingNext, <1>1, PTL DEF Spec

\* unlock() of a MicroLock loses no wake-up: while nodes are parked on a free
\* lock somebody is on the way to unpark one, or to take the lock, whoever
\* else uses the bucket and calls unpark_all().
THEOREM MicroLosesNoWakeup == Spec => []MicroNoLostWakeup
<1>1. ParkingInv => MicroNoLostWakeup
  BY DEF ParkingInv
<1> QED
  BY ParkingInit, ParkingNext, <1>1, PTL DEF Spec
=============================================================================
