------------------------------ MODULE CallOnce ------------------------------
(***************************************************************************)
(* psync::call_once (psync_once.h): the word is OnceFlag::state.  The      *)
(* callable takes a while and then returns or, MaxThrows times, throws.    *)
(***************************************************************************)
EXTENDS FutexWord

CONSTANT MaxThrows      \* bound: how often the callable throws

ASSUME OnceAssumption == MaxThrows \in Nat

VARIABLES
    completed,      \* how often the callable has returned
    throws          \* how often it may still throw

onceVars == <<completed, throws>>

uninitialized == 0
initializing  == 1
initialized   == 2

OnceInit == completed = 0 /\ throws = MaxThrows

\* The fast path.
CallOnce(t) ==
    /\ Begin(t, "call_once", IF word = initialized THEN "called" ELSE "loop", 0)
    /\ UNCHANGED <<word, onceVars>>

\* Mutant: the flag is stored without a comparison.
OnceLoopByStore(t) ==
    /\ pc[t] = "loop"
    /\ word' = initializing
    /\ Move(t, CASE word = initialized -> "called"
                 [] OTHER -> "run", 0)
    /\ UNCHANGED onceVars

\* The compare-exchange 0 -> 1 and what its result says.
OnceLoop(t) ==
    /\ pc[t] = "loop"
    /\ word' = IF word = uninitialized THEN initializing ELSE word
    /\ Move(t, CASE word = uninitialized -> "run"
                 [] word = initialized   -> "called"
                 [] OTHER                -> "wait", 0)
    /\ UNCHANGED onceVars

\* The callable returns, or throws: the local variable is the state to store.
CallableReturns(t) ==
    /\ pc[t] = "run"
    /\ completed' = completed + 1
    /\ Move(t, "store", initialized)
    /\ UNCHANGED <<word, throws>>

CallableThrows(t) ==
    /\ pc[t] = "run" /\ throws > 0
    /\ throws' = throws - 1
    /\ Move(t, "store", uninitialized)
    /\ UNCHANGED <<word, completed>>

StoreState(t) ==
    /\ pc[t] = "store"
    /\ word' = local[t]
    /\ Move(t, "wake", local[t])
    /\ UNCHANGED onceVars

\* wake_all, then return or rethrow.
OnceWake(t) ==
    /\ FutexWake(t, Everybody, IF local[t] = initialized THEN "called" ELSE "out")
    /\ UNCHANGED onceVars

OnceFutexWait(t) == FutexWait(t, initializing, 0) /\ UNCHANGED onceVars
OnceInterrupt(t) == Interrupt(t) /\ UNCHANGED onceVars
OnceReturn(t)    == FutexReturn(t) /\ UNCHANGED onceVars

OnceRun(t) ==
    \/ OnceLoop(t) \/ CallableReturns(t) \/ CallableThrows(t) \/ StoreState(t)
    \/ OnceWake(t) \/ OnceFutexWait(t) \/ OnceReturn(t)

-----------------------------------------------------------------------------
OnceCovered == Sleepers # {} => word = initializing \/ Wakers # {}

\* Threads inside the callable.
Running == {t \in Threads : pc[t] = "run"}
=============================================================================
