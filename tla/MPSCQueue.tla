------------------------------ MODULE MPSCQueue ------------------------------
(***************************************************************************)
(* psync::MPSCQueue (psync_mpsc_queue.h): a bounded ring for many          *)
(* producers and one consumer.  Each slot has a sequence number that says  *)
(* whose turn it is: head for the producer of that position, head + 1 for  *)
(* the consumer.                                                           *)
(*                                                                         *)
(* Producers call try_push() and push_blocking(); the consumer calls       *)
(* try_pop() without end (pop_blocking() is that loop, with one more       *)
(* try_pop() once the queue is closed); somebody calls close().            *)
(*                                                                         *)
(* The indices are unbounded here (64 bits in the code).  size_approx_     *)
(* wraps at 2^64 in the code and at SizeModulus here.                      *)
(***************************************************************************)
EXTENDS PushCalls, Sequences

CONSTANTS
    capacity,       \* mask_ + 1
    SizeModulus,    \* 2^64 in the code
    NoValue         \* an empty slot

ASSUME MPSCAssumption ==
    /\ capacity \in Nat /\ capacity >= 2
    /\ SizeModulus \in Nat /\ SizeModulus > capacity + Cardinality(Producers)
    /\ NoValue \notin Producers \X Nat

VARIABLES
    head, tail,     \* head_, tail_
    sequence,       \* sequence[s], data[s]: slot s of buffer_
    data,
    closed,         \* closed_
    size_approx,    \* size_approx_
    pc,             \* pc[p]: where producer p is
    my_head,        \* my_head[p]: local `head' of try_push()
    blocking,       \* blocking[p]: p is inside push_blocking()
    pushed,         \* values whose push has returned true
    cpc,            \* where the consumer is
    received        \* what the consumer has got

prodVars == <<pc, my_head, blocking, pushes, pushed>>
vars == <<head, tail, sequence, data, closed, size_approx, prodVars, cpc,
          received>>

SlotOf(position) == position % capacity
Value(p) == <<p, pushes[p]>>    \* the value of p's current push
Goto(p, label) == pc' = [pc EXCEPT ![p] = label]

Init ==
    /\ head = 0 /\ tail = 0
    /\ sequence = [s \in 0 .. capacity - 1 |-> s]
    /\ data = [s \in 0 .. capacity - 1 |-> NoValue]
    /\ closed = FALSE
    /\ size_approx = 0
    /\ pc = [p \in Producers |-> "idle"]
    /\ my_head = [p \in Producers |-> 0]
    /\ blocking = [p \in Producers |-> FALSE]
    /\ PushesInit
    /\ pushed = {}
    /\ cpc = "pop"
    /\ received = <<>>

-----------------------------------------------------------------------------
\* try_push() is called, or push_blocking(), whose loop first looks at closed_.
Push(p, block) ==
    /\ pc[p] = "idle" /\ BeginPush(p)
    /\ blocking' = [blocking EXCEPT ![p] = block]
    /\ Goto(p, IF block THEN "loop" ELSE "load_head")
    /\ UNCHANGED <<head, tail, sequence, data, closed, size_approx, my_head,
                   pushed, cpc, received>>

\* The call is over: the local variables go out of scope.
Return(p) ==
    /\ my_head' = [my_head EXCEPT ![p] = 0]
    /\ blocking' = [blocking EXCEPT ![p] = FALSE]
    /\ Goto(p, "idle")

\* try_push() returns false; push_blocking() goes round its loop.
Fail(p) ==
    IF blocking[p]
    THEN my_head' = [my_head EXCEPT ![p] = 0] /\ Goto(p, "loop")
         /\ UNCHANGED blocking
    ELSE Return(p)

\* while (!closed_.load()) of push_blocking()
PushLoop(p) ==
    /\ pc[p] = "loop"
    /\ IF closed THEN Return(p)
                 ELSE Goto(p, "load_head") /\ UNCHANGED <<my_head, blocking>>
    /\ UNCHANGED <<head, tail, sequence, data, closed, size_approx, pushes,
                   pushed, cpc, received>>

LoadHead(p) ==
    /\ pc[p] = "load_head"
    /\ my_head' = [my_head EXCEPT ![p] = head]
    /\ Goto(p, "load_seq")
    /\ UNCHANGED <<head, tail, sequence, data, closed, size_approx, blocking,
                   pushes, pushed, cpc, received>>

\* The load of the slot's sequence and the three-way branch on diff.
LoadSeq(p) ==
    LET diff == sequence[SlotOf(my_head[p])] - my_head[p]
    IN  /\ pc[p] = "load_seq"
        /\ \/ diff = 0 /\ Goto(p, "claim") /\ UNCHANGED <<my_head, blocking>>
           \/ diff < 0 /\ Fail(p)
           \/ diff > 0 /\ Goto(p, "load_head") /\ UNCHANGED <<my_head, blocking>>
        /\ UNCHANGED <<head, tail, sequence, data, closed, size_approx, pushes,
                       pushed, cpc, received>>

\* Mutant: advances head_ without comparing.
ClaimByStore(p) ==
    /\ pc[p] = "claim"
    /\ head' = my_head[p] + 1
    /\ Goto(p, "check")
    /\ UNCHANGED <<tail, sequence, data, closed, size_approx, my_head, blocking,
                   pushes, pushed, cpc, received>>

\* head_.compare_exchange_weak(head, head + 1); when it fails, which it may do
\* without reason, head is the value it saw.
Claim(p) ==
    /\ pc[p] = "claim"
    /\ \/ /\ head = my_head[p]
          /\ head' = head + 1
          /\ Goto(p, "check")
          /\ UNCHANGED my_head
       \/ /\ my_head' = [my_head EXCEPT ![p] = head]
          /\ Goto(p, "load_seq")
          /\ UNCHANGED head
    /\ UNCHANGED <<tail, sequence, data, closed, size_approx, blocking, pushes,
                   pushed, cpc, received>>

\* closed_.load(), after the position is claimed.
CheckClosed(p) ==
    /\ pc[p] = "check"
    /\ Goto(p, IF closed THEN "revert" ELSE "write")
    /\ UNCHANGED <<head, tail, sequence, data, closed, size_approx, my_head,
                   blocking, pushes, pushed, cpc, received>>

\* "Revert turn on closure": slot.sequence.store(head); head_ stays.
Revert(p) ==
    /\ pc[p] = "revert"
    /\ sequence' = [sequence EXCEPT ![SlotOf(my_head[p])] = my_head[p]]
    /\ Fail(p)
    /\ UNCHANGED <<head, tail, data, closed, size_approx, pushes, pushed, cpc,
                   received>>

WriteData(p) ==
    /\ pc[p] = "write"
    /\ data' = [data EXCEPT ![SlotOf(my_head[p])] = Value(p)]
    /\ Goto(p, "publish")
    /\ UNCHANGED <<head, tail, sequence, closed, size_approx, my_head, blocking,
                   pushes, pushed, cpc, received>>

\* Mutant: publishes the producer's turn instead of the consumer's.
PublishOffByOne(p) ==
    /\ pc[p] = "publish"
    /\ sequence' = [sequence EXCEPT ![SlotOf(my_head[p])] = my_head[p]]
    /\ Goto(p, "count")
    /\ UNCHANGED <<head, tail, data, closed, size_approx, my_head, blocking,
                   pushes, pushed, cpc, received>>

\* slot.sequence.store(head + 1)
Publish(p) ==
    /\ pc[p] = "publish"
    /\ sequence' = [sequence EXCEPT ![SlotOf(my_head[p])] = my_head[p] + 1]
    /\ Goto(p, "count")
    /\ UNCHANGED <<head, tail, data, closed, size_approx, my_head, blocking,
                   pushes, pushed, cpc, received>>

\* size_approx_.fetch_add(1); return true
CountPush(p) ==
    /\ pc[p] = "count"
    /\ size_approx' = (size_approx + 1) % SizeModulus
    /\ pushed' = pushed \cup {Value(p)}
    /\ Return(p)
    /\ UNCHANGED <<head, tail, sequence, data, closed, pushes, cpc, received>>

-----------------------------------------------------------------------------
\* try_pop(): the load of the slot's sequence.  An empty queue is a
\* stuttering step; in pop_blocking() as well.
PopLoad ==
    /\ cpc = "pop"
    /\ sequence[SlotOf(tail)] = tail + 1
    /\ cpc' = "take"
    /\ UNCHANGED <<head, tail, sequence, data, closed, size_approx, prodVars,
                   received>>

\* tail_ = tail + 1, and the value is moved out of the slot.
PopTake ==
    /\ cpc = "take"
    /\ received' = Append(received, data[SlotOf(tail)])
    /\ data' = [data EXCEPT ![SlotOf(tail)] = NoValue]
    /\ tail' = tail + 1
    /\ cpc' = "release"
    /\ UNCHANGED <<head, sequence, closed, size_approx, prodVars>>

\* slot.sequence.store(tail + mask_ + 1), tail being the value before.
PopRelease ==
    /\ cpc = "release"
    /\ sequence' = [sequence EXCEPT ![SlotOf(tail - 1)] = tail - 1 + capacity]
    /\ cpc' = "count"
    /\ UNCHANGED <<head, tail, data, closed, size_approx, prodVars, received>>

\* Mutant: forgets the count.
PopCountNothing ==
    /\ cpc = "count"
    /\ cpc' = "pop"
    /\ UNCHANGED <<head, tail, sequence, data, closed, size_approx, prodVars,
                   received>>

\* size_approx_.fetch_sub(1)
PopCount ==
    /\ cpc = "count"
    /\ size_approx' = (size_approx - 1) % SizeModulus
    /\ cpc' = "pop"
    /\ UNCHANGED <<head, tail, sequence, data, closed, prodVars, received>>

Close ==
    /\ ~ closed
    /\ closed' = TRUE
    /\ UNCHANGED <<head, tail, sequence, data, size_approx, prodVars, cpc,
                   received>>

-----------------------------------------------------------------------------
PushStep(p) ==
    \/ PushLoop(p) \/ LoadHead(p) \/ LoadSeq(p) \/ Claim(p) \/ CheckClosed(p)
    \/ Revert(p) \/ WriteData(p) \/ Publish(p) \/ CountPush(p)

PopStep == PopLoad \/ PopTake \/ PopRelease \/ PopCount

Idle ==
    /\ \A p \in Producers : pc[p] = "idle"
    /\ cpc = "pop"

\* Nobody has anything left to do.
Finished ==
    /\ Idle /\ closed /\ \A p \in Producers : pushes[p] = MaxPushes
    /\ UNCHANGED vars

Next ==
    \/ \E p \in Producers :
          (\E block \in BOOLEAN : Push(p, block)) \/ PushStep(p)
    \/ PopStep
    \/ Close
    \/ Finished

\* The consumer keeps calling, and every thread that can run is scheduled.
Fairness == WF_vars(PopStep) /\ \A p \in Producers : WF_vars(PushStep(p))

Spec == Init /\ [][Next]_vars /\ Fairness

-----------------------------------------------------------------------------
Claimers(position) ==
    {p \in Producers : my_head[p] = position
                       /\ pc[p] \in {"check", "revert", "write", "publish"}}

\* The positions that hold something: those whose push has not withdrawn.
Live ==
    {i \in tail .. head - 1 : Claimers(i) # {} \/ sequence[SlotOf(i)] = i + 1}

\* What such a position stands for: the value of the push that owns it, or the
\* value in the slot.
Cell(position) ==
    IF Claimers(position) # {} THEN Value(CHOOSE p \in Claimers(position) : TRUE)
    ELSE data[SlotOf(position)]

\* The k-th smallest number of the set L is the one that k of them do not exceed.
Rank(L, i) == Cardinality({j \in L : j <= i})
Nth(L, k) == CHOOSE i \in L : Rank(L, i) = k

\* The values in the queue, in the order of their positions.
Items == [k \in 1 .. Cardinality(Live) |-> Cell(Nth(Live, k))]

\* The values whose push has claimed a position and not published it.
Pending == {Value(p) : p \in {q \in Producers : q \in Claimers(my_head[q])}}

\* The queue implements the abstract one: values leave it in the order in
\* which their positions were claimed, none twice, none overwritten; a push
\* that returns false leaves nothing behind and takes away no value but its
\* own, and no published value is taken back.
Abstract == INSTANCE AbstractQueue
                WITH Values <- Producers \X (1 .. MaxPushes),
                     items <- Items, pending <- Pending
ImplementsQueue == Abstract!Spec

\* When nobody is inside a call size_approx_ is the number of values in the
\* queue, although the consumer may have counted a value out before its
\* producer counted it in.
SizeSettles == Idle => size_approx = Cardinality(pushed) - Len(received)

\* A value whose push returned true is popped, as long as the queue is open.
DeliveredWhileOpen ==
    \A p \in Producers, n \in 1 .. MaxPushes :
        <<p, n>> \in pushed
            ~> closed \/ \E i \in DOMAIN received : received[i] = <<p, n>>

\* try_push() "returns true if successfully enqueued": closing the queue does
\* not lose a value that was accepted.
AcceptedIsDelivered ==
    \A p \in Producers, n \in 1 .. MaxPushes :
        <<p, n>> \in pushed
            ~> \E i \in DOMAIN received : received[i] = <<p, n>>
=============================================================================
