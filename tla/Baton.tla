------------------------------- MODULE Baton -------------------------------
(***************************************************************************)
(* psync::Baton (psync_baton.h): the word is state_.  Any thread posts and *)
(* waits.  One of them, Resetter, resets the baton, and only after a wait  *)
(* of its own has returned true: a reset() that finds kWaiting would       *)
(* strand the sleepers, since the next post() would not wake them.         *)
(* try_wait() and is_ready() only read; the loads of the adaptive spin     *)
(* before the last one change nothing.                                     *)
(***************************************************************************)
EXTENDS FutexWord

CONSTANT Resetter

ASSUME BatonAssumption == Resetter \in Threads

kEmpty   == 0
kWaiting == 1
kReady   == 2

BatonInit == WordInit(kEmpty, MaxCalls)

\* atomic_exchange(&state_, kReady)
Post(t) ==
    /\ word' = kReady
    /\ Begin(t, "post", IF word = kWaiting THEN "wake" ELSE "out", 0)

BatonWake(t) == FutexWake(t, Everybody, "out")

\* A wait that returned true: Resetter is about to reset.
AfterReady(t) == IF t = Resetter THEN "got" ELSE "out"

\* The fast path of wait() or wait_for().
BatonWait(t, o) ==
    /\ Begin(t, o, IF word = kReady THEN AfterReady(t) ELSE "cas", 0)
    /\ UNCHANGED word

\* The compare-exchange kEmpty -> kWaiting, whose result is not looked at.
AnnounceWait(t) ==
    /\ pc[t] = "cas"
    /\ word' = IF word = kEmpty THEN kWaiting ELSE word
    /\ Move(t, "loop", 0)

BatonLoop(t) ==
    /\ pc[t] = "loop"
    /\ Move(t, IF word = kReady THEN AfterReady(t) ELSE "wait", 0)
    /\ UNCHANGED word

\* wait_for() finds its deadline passed; the last try_wait() decides.
BatonExpire(t) ==
    /\ pc[t] = "wait" /\ op[t] = "wait_for"
    /\ Move(t, IF word = kReady THEN AfterReady(t) ELSE "out", 0)
    /\ UNCHANGED word

BatonFutexWait(t) == FutexWait(t, kWaiting, 0)

Reset(t) ==
    /\ pc[t] = "got"
    /\ word' = kEmpty
    /\ Move(t, "out", 0)

BatonRun(t) ==
    \/ BatonWake(t) \/ AnnounceWait(t) \/ BatonLoop(t) \/ BatonFutexWait(t)
    \/ FutexReturn(t)

BatonCovered == Sleepers # {} => word = kWaiting \/ Wakers # {}
=============================================================================
