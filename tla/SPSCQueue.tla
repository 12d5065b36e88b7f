------------------------------ MODULE SPSCQueue ------------------------------
(***************************************************************************)
(* psync::SPSCQueue (psync_spsc_queue.h): a ring for one producer and one  *)
(* consumer.  Each side owns an index and keeps a cached copy of the       *)
(* other's, which it refreshes only when the copy says "full" or "empty".  *)
(*                                                                         *)
(* The producer's client pushes the values 1, 2, ... and retries a push    *)
(* that returns false; the consumer's calls try_pop() again and again.     *)
(* The indices wrap at IndexModulus (2^64 in the code).  The destructor is *)
(* the consumer's loop once the producer is gone, until it finds nothing.  *)
(***************************************************************************)
EXTENDS Integers, Sequences, FiniteSetsExt

CONSTANTS
    requested,      \* the constructor's argument
    IndexModulus,   \* 2^64 in the code
    MaxValues,      \* bound: values the client pushes
    Raw             \* a slot that holds no object

\* round_up_pow2()
RoundUpPow2(v) == Min({p \in {2 ^ k : k \in 0 .. v} : p >= v})

ring_capacity == RoundUpPow2(IF requested < 2 THEN 2 ELSE requested)
mask == ring_capacity - 1

\* The capacity is at least 2 for every request: some power of two is not
\* below it.
ASSUME SPSCAssumption ==
    /\ requested \in Nat /\ MaxValues \in Nat
    /\ ring_capacity \in Nat /\ ring_capacity >= 2
    /\ IndexModulus \in Nat /\ IndexModulus > ring_capacity
    /\ IndexModulus % ring_capacity = 0
    /\ Raw \notin Nat

VARIABLES
    ring_head, ring_tail,       \* head_, tail_
    tail_cached,                \* the producer's copy of tail_
    head_cached,                \* the consumer's copy of head_
    buffer,                     \* buffer_: an object or Raw
    ppc, tpc,                   \* where the producer and the consumer are
    sent,                       \* values pushed
    taken                       \* what the consumer has got

ringVars == <<ring_head, ring_tail, tail_cached, head_cached, buffer, ppc, tpc, sent, taken>>

RingSlot(index) == index % ring_capacity
Minus(a, b) == (a - b) % IndexModulus
Plus(a, b) == (a + b) % IndexModulus

RingInit ==
    /\ ring_head = 0 /\ ring_tail = 0 /\ tail_cached = 0 /\ head_cached = 0
    /\ buffer = [s \in 0 .. mask |-> Raw]
    /\ ppc = "idle" /\ tpc = "idle"
    /\ sent = 0
    /\ taken = <<>>

-----------------------------------------------------------------------------
\* Mutant: the ring looks full one slot too late.
FullLate(copy) == Minus(ring_head, copy) > mask + 1

\* head - tail_cached > mask_
Full(copy) == Minus(ring_head, copy) > mask

\* try_push(): the look at the producer's own copy of the tail.
TryPush ==
    /\ ppc = "idle" /\ sent < MaxValues
    /\ ppc' = IF Full(tail_cached) THEN "reload" ELSE "construct"
    /\ UNCHANGED <<ring_head, ring_tail, tail_cached, head_cached, buffer, tpc, sent, taken>>

\* The copy is refreshed; if the ring is full all the same, return false.
ReloadTail ==
    /\ ppc = "reload"
    /\ tail_cached' = ring_tail
    /\ ppc' = IF Full(ring_tail) THEN "idle" ELSE "construct"
    /\ UNCHANGED <<ring_head, ring_tail, head_cached, buffer, tpc, sent, taken>>

\* The object is constructed in its slot ...
Construct ==
    /\ ppc = "construct"
    /\ buffer' = [buffer EXCEPT ![RingSlot(ring_head)] = sent + 1]
    /\ ppc' = "publish"
    /\ UNCHANGED <<ring_head, ring_tail, tail_cached, head_cached, tpc, sent, taken>>

\* ... and published.
PublishHead ==
    /\ ppc = "publish"
    /\ ring_head' = Plus(ring_head, 1)
    /\ sent' = sent + 1
    /\ ppc' = "idle"
    /\ UNCHANGED <<ring_tail, tail_cached, head_cached, buffer, tpc, taken>>

-----------------------------------------------------------------------------
\* try_pop(): the look at the consumer's own copy of the head.
TryPop ==
    /\ tpc = "idle"
    /\ tpc' = IF ring_tail = head_cached THEN "reload" ELSE "move"
    /\ UNCHANGED <<ring_head, ring_tail, tail_cached, head_cached, buffer, ppc, sent, taken>>

\* Mutant: the copy is compared, but never kept.
ReloadHeadForgotten ==
    /\ tpc = "reload"
    /\ tpc' = IF ring_tail # head_cached THEN "move"
              ELSE IF ppc = "gone" THEN "gone" ELSE "idle"
    /\ UNCHANGED <<ring_head, ring_tail, tail_cached, head_cached, buffer, ppc, sent, taken>>

\* The copy is refreshed; if the ring is empty all the same, return false,
\* which ends the loop of the destructor.
ReloadHead ==
    /\ tpc = "reload"
    /\ head_cached' = ring_head
    /\ tpc' = IF ring_tail # ring_head THEN "move"
              ELSE IF ppc = "gone" THEN "gone" ELSE "idle"
    /\ UNCHANGED <<ring_head, ring_tail, tail_cached, buffer, ppc, sent, taken>>

\* The object is moved out and destroyed ...
MoveOut ==
    /\ tpc = "move"
    /\ taken' = Append(taken, buffer[RingSlot(ring_tail)])
    /\ buffer' = [buffer EXCEPT ![RingSlot(ring_tail)] = Raw]
    /\ tpc' = "release"
    /\ UNCHANGED <<ring_head, ring_tail, tail_cached, head_cached, ppc, sent>>

\* ... and its slot is given back.
ReleaseTail ==
    /\ tpc = "release"
    /\ ring_tail' = Plus(ring_tail, 1)
    /\ tpc' = "idle"
    /\ UNCHANGED <<ring_head, tail_cached, head_cached, buffer, ppc, sent, taken>>

\* ~SPSCQueue() is called, between two calls of either side.
Destroy ==
    /\ ppc = "idle" /\ tpc = "idle"
    /\ ppc' = "gone"
    /\ UNCHANGED <<ring_head, ring_tail, tail_cached, head_cached, buffer, tpc, sent, taken>>

Produce == TryPush \/ ReloadTail \/ Construct \/ PublishHead
Consume == TryPop \/ ReloadHead \/ MoveOut \/ ReleaseTail

\* The queue is gone.
RingOver ==
    /\ ppc = "gone" /\ tpc = "gone"
    /\ UNCHANGED ringVars

RingNext == Produce \/ Consume \/ Destroy \/ RingOver

RingFairness == WF_ringVars(Produce) /\ WF_ringVars(Consume)

RingSpec == RingInit /\ [][RingNext]_ringVars /\ RingFairness

-----------------------------------------------------------------------------
\* The number of slots between the indices.
Used == Minus(ring_head, ring_tail)

\* The values in the ring, oldest first; one that is moved out has left.
RingItems ==
    LET out == IF tpc = "release" THEN 1 ELSE 0
    IN  [i \in 1 .. Used - out |-> buffer[RingSlot(ring_tail + out + i - 1)]]

\* The ring is a queue: values leave it in the order in which their head was
\* published, none is lost, repeated or overwritten, also when indices wrap.
RingAbstract == INSTANCE AbstractQueue
                    WITH Values <- 1 .. MaxValues, items <- RingItems,
                         pending <- {}, received <- taken
RingImplementsQueue == RingAbstract!Spec

\* No cached index, however old, lets an object be constructed over a live
\* one or moved out of raw memory: the live objects are exactly those between
\* the indices, give or take the slot a call is working on, and none is left
\* when the storage is deleted.
LiveSlots ==
    LET window == {RingSlot(ring_tail + i) : i \in 0 .. Used - 1}
        added  == IF ppc = "publish" THEN {RingSlot(ring_head)} ELSE {}
        moved  == IF tpc = "release" THEN {RingSlot(ring_tail)} ELSE {}
    IN  /\ {s \in 0 .. mask : buffer[s] # Raw} = (window \ moved) \cup added
        /\ added \cap window = {} /\ Used <= ring_capacity
        /\ ppc = "construct" => buffer[RingSlot(ring_head)] = Raw
        /\ tpc = "move" => buffer[RingSlot(ring_tail)] # Raw
        /\ tpc = "gone" => \A s \in 0 .. mask : buffer[s] = Raw

\* Neither side is held up by an old copy: what the client pushes, or has
\* pushed when the queue is destroyed, all comes out.
RingDone == (sent = MaxValues \/ ppc = "gone") /\ Len(taken) = sent
=============================================================================
