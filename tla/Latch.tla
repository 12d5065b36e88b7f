------------------------------- MODULE Latch -------------------------------
(***************************************************************************)
(* psync::Latch (psync_latch.h): the word is count_.  The client counts    *)
(* down by no more than the latch was created with; past zero the counter  *)
(* would wrap and wait() would not return.                                 *)
(* try_wait() only reads, and the try_wait() calls of wait_for() only      *)
(* decide its result.                                                      *)
(***************************************************************************)
EXTENDS FutexWord

CONSTANT LatchCount     \* the constructor's argument

ASSUME LatchAssumption == LatchCount \in Nat

LatchInit == WordInit(LatchCount, MaxCalls)

\* Where count_down(n) goes on once it has woken the waiters, or need not.
AfterCountDown(o) == IF o = "arrive_and_wait" THEN "loop" ELSE "out"

\* count_down(n), or the count_down(n) of arrive_and_wait(n).
CountDown(t, o, n) ==
    /\ n <= word
    /\ word' = word - n
    /\ Begin(t, o, IF word <= n THEN "wake" ELSE AfterCountDown(o), 0)

LatchWake(t) == FutexWake(t, Everybody, AfterCountDown(op[t]))

\* wait() or wait_for().
LatchWait(t, o) == Begin(t, o, "loop", 0) /\ UNCHANGED word

LatchLoop(t) ==
    /\ pc[t] = "loop"
    /\ IF word = 0 THEN Move(t, "out", 0) ELSE Move(t, "wait", word)
    /\ UNCHANGED word

\* wait_for() finds its deadline passed.
LatchExpire(t) ==
    /\ pc[t] = "wait" /\ op[t] = "wait_for"
    /\ Move(t, "out", 0)
    /\ UNCHANGED word

LatchFutexWait(t) == FutexWait(t, local[t], 0)

\* What a thread does by itself once it is in a call.
LatchRun(t) ==
    LatchWake(t) \/ LatchLoop(t) \/ LatchFutexWait(t) \/ FutexReturn(t)

LatchCovered == Sleepers # {} => word > 0 \/ Wakers # {}
=============================================================================
