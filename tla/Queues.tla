------------------------------- MODULE Queues -------------------------------
(***************************************************************************)
(* The three queues: the ring of SPSCQueue, the list of                    *)
(* MPSCIntrusiveQueue and the bounded MPSCQueue.  They share no state; a   *)
(* behaviour is one of a program with a single queue.                      *)
(***************************************************************************)
EXTENDS SPSCQueue, MPSCIntrusiveQueue, MPSCQueue

VARIABLE kind       \* which queue the program has

\* The variables of MPSCQueue but for pushes, which the list has too.
slotVars == <<head, tail, sequence, data, closed, size_approx, pc, my_head,
              blocking, pushed, cpc, received>>

queueVars == <<ringVars, linkVars, slotVars, pushes, kind>>

QueuesInit ==
    RingInit /\ ListInit /\ Init /\ kind \in {"ring", "list", "slots"}

RingStep(A) == kind = "ring" /\ A /\ UNCHANGED <<linkVars, slotVars, pushes, kind>>
ListStep(A) == kind = "list" /\ A /\ UNCHANGED <<ringVars, slotVars, kind>>
SlotStep(A) == kind = "slots" /\ A /\ UNCHANGED <<ringVars, linkVars, kind>>

QueuesNext ==
    \/ RingStep(TryPush) \/ RingStep(ReloadTail) \/ RingStep(Construct)
    \/ RingStep(PublishHead)
    \/ RingStep(TryPop) \/ RingStep(ReloadHead) \/ RingStep(MoveOut)
    \/ RingStep(ReleaseTail)
    \/ RingStep(Destroy) \/ RingStep(RingOver)
    \/ \E p \in Producers, e \in Entries : ListStep(ListPush(p, e))
    \/ \E t \in Callers : ListStep(Exchange(t)) \/ ListStep(Link(t))
    \/ ListStep(Pop) \/ ListStep(PopAfterStub) \/ ListStep(PopLoadHead)
    \/ ListStep(PopPushStub) \/ ListStep(PopLast)
    \/ ListStep(ListOver)
    \/ \E p \in Producers, block \in BOOLEAN : SlotStep(Push(p, block))
    \/ \E p \in Producers :
         \/ SlotStep(PushLoop(p)) \/ SlotStep(LoadHead(p)) \/ SlotStep(LoadSeq(p))
         \/ SlotStep(Claim(p)) \/ SlotStep(CheckClosed(p)) \/ SlotStep(Revert(p))
         \/ SlotStep(WriteData(p)) \/ SlotStep(Publish(p)) \/ SlotStep(CountPush(p))
    \/ SlotStep(PopLoad) \/ SlotStep(PopTake) \/ SlotStep(PopRelease)
    \/ SlotStep(PopCount) \/ SlotStep(Close) \/ SlotStep(Finished)

\* The fairness of the three queues: the consumer and every producer.
QueuesFairness ==
    /\ WF_queueVars(RingStep(Consume) \/ ListStep(Consuming) \/ SlotStep(PopStep))
    /\ WF_queueVars(RingStep(Produce))
    /\ \A p \in Producers :
          WF_queueVars(ListStep(Producing(p)) \/ SlotStep(PushStep(p)))

QueuesSpec == QueuesInit /\ [][QueuesNext]_queueVars /\ QueuesFairness

\* With a consumer that keeps calling pop() or try_pop(), everything that is
\* pushed comes out: no stale copy of an index and no missing link holds it
\* up for ever.
Delivered ==
    <>(CASE kind = "ring" -> RingDone [] kind = "list" -> ListDone [] OTHER -> TRUE)
=============================================================================
