----------------------------- MODULE Semaphore -----------------------------
(***************************************************************************)
(* psync::CountingSemaphore (psync_semaphore.h): the word is count_.  The  *)
(* client never releases past MaxCount (LeastMaxValue in the code, which   *)
(* release() does not check).                                              *)
(*                                                                         *)
(* "loop" is the load of try_acquire(); the attempts of the adaptive spin  *)
(* before the last one change nothing when they fail.                      *)
(***************************************************************************)
EXTENDS FutexWord

CONSTANTS
    Desired,    \* the constructor's argument
    MaxCount    \* LeastMaxValue

ASSUME SemaphoreAssumption ==
    Desired \in Nat /\ MaxCount \in Nat /\ Desired <= MaxCount

SemaphoreInit == WordInit(Desired, MaxCalls)

\* release(update): the local variable is update.
Release(t, update) ==
    /\ word + update <= MaxCount
    /\ word' = word + update
    /\ Begin(t, "release", "wake", update)

\* Mutant: one wake for the whole update.
SemaphoreWakeOne(t) == FutexWake(t, 1, "out")

SemaphoreWake(t) == FutexWake(t, local[t], "out")

\* try_acquire(), acquire() or try_acquire_for().
Acquire(t, o) == Begin(t, o, "loop", 0) /\ UNCHANGED word

\* Where a try_acquire() that found no token goes on.
AfterNoToken(t) == IF op[t] = "try_acquire" THEN "out" ELSE "check"

\* current = atomic_load(&count_), and the test of the loop.
TryAcquire(t) ==
    /\ pc[t] = "loop"
    /\ IF word > 0 THEN Move(t, "cas", word) ELSE Move(t, AfterNoToken(t), 0)
    /\ UNCHANGED word

\* The compare-exchange; when it fails, its result is the next `current'.
TakeToken(t) ==
    /\ pc[t] = "cas"
    /\ IF word = local[t] THEN word' = word - 1 /\ Move(t, "out", 0)
       ELSE /\ UNCHANGED word
            /\ IF word > 0 THEN Move(t, "cas", word)
               ELSE Move(t, AfterNoToken(t), 0)

\* try_acquire_for() finds its deadline passed: one more try_acquire().
SemaphoreExpire(t) ==
    /\ pc[t] = "check" /\ op[t] = "try_acquire_for"
    /\ pc' = [pc EXCEPT ![t] = "loop"]
    /\ op' = [op EXCEPT ![t] = "try_acquire"]
    /\ UNCHANGED <<word, local, calls, waiting>>

\* The load before futex::wait.
CheckCount(t) ==
    /\ pc[t] = "check"
    /\ Move(t, IF word = 0 THEN "wait" ELSE "loop", 0)
    /\ UNCHANGED word

SemaphoreFutexWait(t) == FutexWait(t, 0, 0)

SemaphoreRun(t) ==
    \/ SemaphoreWake(t) \/ TryAcquire(t) \/ TakeToken(t) \/ CheckCount(t)
    \/ SemaphoreFutexWait(t) \/ FutexReturn(t)

-----------------------------------------------------------------------------
\* Threads that try to take a token and are not asleep.
Contenders == {t \in Threads : pc[t] \in {"loop", "cas", "check", "wait", "woken"}}

\* The wakes that are still to be made.
Announced == Cardinality(Units(local, Wakers))

SemaphoreCovered ==
    Sleepers # {} => word <= Announced + Cardinality(Contenders)
=============================================================================
