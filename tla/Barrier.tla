------------------------------ MODULE Barrier ------------------------------
(***************************************************************************)
(* psync::Barrier (psync_barrier.h): the word is phase_, counted modulo    *)
(* PhaseModulus (2^32 in the code).  Every thread is a participant: it     *)
(* arrives once in a phase, by arrive_and_wait() or by arrive() and, any   *)
(* time later, wait(token).                                                *)
(***************************************************************************)
EXTENDS FutexWord

CONSTANTS
    PhaseModulus,
    MaxPhases       \* bound: phases of the barrier

ASSUME BarrierAssumption ==
    PhaseModulus \in Nat /\ PhaseModulus >= 2 /\ MaxPhases \in Nat

VARIABLE arrived    \* arrived_

expected == Cardinality(Threads)

BarrierInit ==
    /\ WordInit(0, [t \in Threads |-> MaxPhases])
    /\ arrived = expected

\* current_phase = atomic_load(&phase_)
Arrive(t, o) ==
    /\ Begin(t, o, "subtract", word)
    /\ UNCHANGED <<word, arrived>>

\* Where an arrival goes on that need not, or no longer, advance the phase.
AfterArrival(t, last) ==
    IF op[t] = "arrive" THEN "token" ELSE IF last THEN "out" ELSE "loop"

\* Mutant: the last but one advances the phase.
SubtractEarly(t) ==
    /\ pc[t] = "subtract"
    /\ arrived' = arrived - 1
    /\ Move(t, IF arrived <= 2 THEN "reset" ELSE AfterArrival(t, FALSE), local[t])
    /\ UNCHANGED word

\* atomic_fetch_sub(&arrived_, 1)
Subtract(t) ==
    /\ pc[t] = "subtract"
    /\ arrived' = arrived - 1
    /\ Move(t, IF arrived = 1 THEN "reset" ELSE AfterArrival(t, FALSE), local[t])
    /\ UNCHANGED word

\* Mutant: the phase advances and nobody counts again.
ResetArrivedForgotten(t) ==
    /\ pc[t] = "reset"
    /\ Move(t, "advance", local[t])
    /\ UNCHANGED <<word, arrived>>

\* The last thread makes arrived_ ready for the next phase ...
ResetArrived(t) ==
    /\ pc[t] = "reset"
    /\ arrived' = expected
    /\ Move(t, "advance", local[t])
    /\ UNCHANGED word

\* ... before it lets anybody into it.
Advance(t) ==
    /\ pc[t] = "advance"
    /\ word' = (word + 1) % PhaseModulus
    /\ Move(t, "wake", local[t])
    /\ UNCHANGED arrived

BarrierWake(t) ==
    FutexWake(t, Everybody, AfterArrival(t, TRUE)) /\ UNCHANGED arrived

\* wait(arrival_phase), with the token of arrive().
WaitToken(t) ==
    /\ pc[t] = "token"
    /\ Move(t, "loop", local[t])
    /\ UNCHANGED <<word, arrived>>

BarrierLoop(t) ==
    /\ pc[t] = "loop"
    /\ Move(t, IF word = local[t] THEN "wait" ELSE "out", local[t])
    /\ UNCHANGED <<word, arrived>>

BarrierFutexWait(t) == FutexWait(t, local[t], local[t]) /\ UNCHANGED arrived
BarrierInterrupt(t) == Interrupt(t) /\ UNCHANGED arrived
BarrierReturn(t)    == FutexReturn(t) /\ UNCHANGED arrived

BarrierRun(t) ==
    \/ Subtract(t) \/ ResetArrived(t) \/ Advance(t) \/ BarrierWake(t)
    \/ BarrierLoop(t) \/ BarrierFutexWait(t) \/ BarrierReturn(t)

-----------------------------------------------------------------------------
\* How often t has arrived, and how many phases it has left.
Arrivals(t) == MaxPhases - calls[t] - (IF pc[t] = "subtract" THEN 1 ELSE 0)
Departures(t) == MaxPhases - calls[t] - (IF pc[t] = "out" THEN 0 ELSE 1)

BarrierCovered == \A t \in Sleepers : word = local[t] \/ Wakers # {}
=============================================================================
