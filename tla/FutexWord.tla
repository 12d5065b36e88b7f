----------------------------- MODULE FutexWord -----------------------------
(***************************************************************************)
(* What the small primitives of the library have in common: one 32-bit     *)
(* word that threads change with atomic operations and sleep on, and calls *)
(* made of a few steps with at most one local variable between them.       *)
(* Latch, Barrier, Semaphore, Baton and CallOnce sleep; SpinLocks and      *)
(* SeqLock only use the word and the calls.                                *)
(*                                                                         *)
(* A sleeping primitive has one loop: "loop" is its head, "wait" the call  *)
(* of futex::wait, "asleep" the time in the kernel, "woken" the time       *)
(* between the wake and the return to the loop, "wake" the call of         *)
(* futex::wake.                                                            *)
(*                                                                         *)
(* Backend = "futex" is Linux's futex.  Backend = "fallback" is the        *)
(* condition variable that psync_platform.h uses on a Windows without      *)
(* WaitOnAddress: wait() and wake() run under the lock of the              *)
(* address' slot, the time asleep excepted, so each section is one step.   *)
(***************************************************************************)
EXTENDS Integers, FiniteSets, Futex

\* The units that f assigns to the members of S: as many as f sums up to.
Units(f, S) == UNION {{u} \X (1 .. f[u]) : u \in S}

CONSTANTS
    Threads,    \* the threads that use the object
    MaxCalls,   \* bound: MaxCalls[t] calls of thread t
    Backend     \* "futex" or "fallback"

ASSUME FutexWordAssumption ==
    /\ IsFiniteSet(Threads)
    /\ MaxCalls \in [Threads -> Nat]
    /\ Backend \in {"futex", "fallback"}

VARIABLES
    word,       \* the word
    pc,         \* pc[t]: where thread t is
    op,         \* op[t]: the operation t is in
    local,      \* local[t]: the local variable of that operation
    calls,      \* calls[t]: calls thread t may still make
    waiting     \* fallback_wait_state::waiting of the word's slot

wordVars == <<word, pc, op, local, calls, waiting>>

\* Between two calls.  "called" is after a call_once() that returned.
Idle == {"out", "called"}

\* An object whose word starts at value, and threads that may make n[t] calls.
WordInit(value, n) ==
    /\ word = value
    /\ pc = [t \in Threads |-> "out"]
    /\ op = [t \in Threads |-> "none"]
    /\ local = [t \in Threads |-> 0]
    /\ calls = n
    /\ waiting = FALSE

Sleepers == {t \in Threads : pc[t] = "asleep"}
Wakers == {t \in Threads : pc[t] = "wake"}

\* Thread t goes on at label with value in its local variable, in operation o;
\* between two calls it has neither.
Keep(t, o, label, value) ==
    /\ op' = [op EXCEPT ![t] = IF label \in Idle THEN "none" ELSE o]
    /\ local' = [local EXCEPT ![t] = IF label \in Idle THEN 0 ELSE value]

Move(t, label, value) ==
    /\ pc' = [pc EXCEPT ![t] = label]
    /\ Keep(t, op[t], label, value)
    /\ UNCHANGED <<calls, waiting>>

\* The first step of operation o.
Begin(t, o, label, value) ==
    /\ pc[t] \in Idle
    /\ calls[t] > 0
    /\ calls' = [calls EXCEPT ![t] = @ - 1]
    /\ pc' = [pc EXCEPT ![t] = label]
    /\ Keep(t, o, label, value)
    /\ UNCHANGED waiting

-----------------------------------------------------------------------------
\* futex::wait(&word, val): sleep only if the word is still val.  The
\* fallback sets `waiting', and clears it again when the word has changed.
\* kept is what the caller still needs of its local variable.
FutexWait(t, val, kept) ==
    /\ pc[t] = "wait"
    /\ pc' = [pc EXCEPT ![t] = IF word = val THEN "asleep" ELSE "loop"]
    /\ local' = [local EXCEPT ![t] = kept]
    /\ waiting' = (Backend = "fallback" /\ word = val)
    /\ UNCHANGED <<word, op, calls>>

\* The sets of threads that wake(&word, count) may wake.  The fallback looks
\* at `waiting' first and knows only "one" and "all".
Woken(count) ==
    IF Backend = "futex" THEN WakeSome(Sleepers, count)
    ELSE IF ~ waiting THEN {{}}
    ELSE IF count = 1 THEN WakeOne(Sleepers) ELSE WakeAll(Sleepers)

FutexWake(t, count, label) ==
    /\ pc[t] = "wake"
    /\ \E S \in Woken(count) :
          pc' = [u \in Threads |-> IF u = t THEN label
                                   ELSE IF u \in S THEN "woken" ELSE pc[u]]
    /\ Keep(t, op[t], label, local[t])
    /\ UNCHANGED <<word, calls, waiting>>

\* The count of futex::wake_all, 0x7fffffff: more than there are threads.
Everybody == Cardinality(Threads) + 1

\* A wait ends without a wake: a signal, or the timer of futex::wait_for.
Interrupt(t) ==
    /\ pc[t] = "asleep"
    /\ pc' = [pc EXCEPT ![t] = "woken"]
    /\ UNCHANGED <<word, op, local, calls, waiting>>

\* futex::wait returns and the primitive looks at its word again.  The
\* fallback clears `waiting' on the way out, whoever else sleeps there.
FutexReturn(t) ==
    /\ pc[t] = "woken"
    /\ pc' = [pc EXCEPT ![t] = "loop"]
    /\ waiting' = FALSE
    /\ UNCHANGED <<word, op, local, calls>>
=============================================================================
