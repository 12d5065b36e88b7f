------------------------------- MODULE Mutex -------------------------------
(***************************************************************************)
(* psync::Mutex (psync_mutex.h): a futex-backed mutex in one 32-bit word.  *)
(*                                                                         *)
(* The word is kept as the record of its two fields: bit 0 is `locked',    *)
(* the bits above it are `waiters' (adding WAITER_INCREMENT adds one).     *)
(* Two words are equal exactly when the records are; the counter would     *)
(* only overflow with 2^31 threads, so its width is left out.              *)
(*                                                                         *)
(* One action is one atomic access to the word, or one futex call.  All    *)
(* accesses are to this single location, so relaxed loads are still        *)
(* coherent and interleaving them is faithful.  A failed compare-exchange  *)
(* of the adaptive spin that is not the last one before the thread         *)
(* registers changes nothing but the local spin counters: it is a          *)
(* stuttering step, and the counters are left out.                         *)
(***************************************************************************)
EXTENDS Integers, FiniteSets, Futex

CONSTANTS
    Threads,    \* the threads that use the mutex
    MaxCalls    \* bound: lock()/try_lock() calls each thread makes

ASSUME MutexAssumption == IsFiniteSet(Threads) /\ MaxCalls \in Nat

VARIABLES
    state,      \* the word state_
    pc,         \* pc[t]: where thread t is
    current,    \* current[t]: local of lock_contended, the last loaded word
    calls       \* calls[t]: calls thread t may still make

vars == <<state, pc, current, calls>>

UNLOCKED          == [locked |-> FALSE, waiters |-> 0]
LOCKED_NO_WAITERS == [locked |-> TRUE,  waiters |-> 0]

Words == [locked : BOOLEAN, waiters : Nat]

\* out: outside, in: owns the mutex, the others are inside lock_contended()
\* or unlock().
Labels == {"out", "spin", "register", "load", "cas", "wait", "asleep",
           "in", "unlock_cas", "unlock_contended", "wake"}

Goto(t, label) == pc' = [pc EXCEPT ![t] = label]

\* The local `current' goes out of scope at the end of the loop's body.
Forget(t) == current' = [current EXCEPT ![t] = UNLOCKED]

\* Threads in futex::wait(&state_, current), asleep in the kernel.
Sleepers == {t \in Threads : pc[t] = "asleep"}

\* Threads that incremented waiters and have not taken the lock yet.
Registered == {t \in Threads : pc[t] \in {"load", "cas", "wait", "asleep"}}

\* Threads that own the mutex: unlock() gives it up with its
\* compare-exchange or with the fetch_and of unlock_contended().
Holders == {t \in Threads : pc[t] \in {"in", "unlock_cas", "unlock_contended"}}

-----------------------------------------------------------------------------
Init ==
    /\ state = UNLOCKED
    /\ pc = [t \in Threads |-> "out"]
    /\ current = [t \in Threads |-> UNLOCKED]
    /\ calls = [t \in Threads |-> MaxCalls]

\* The compare-exchange UNLOCKED -> LOCKED_NO_WAITERS of lock(), try_lock()
\* and the spin loop.  It also fails on a free mutex that has waiters.
TryAcquire(t, otherwise) ==
    /\ IF state = UNLOCKED
       THEN state' = LOCKED_NO_WAITERS /\ Goto(t, "in")
       ELSE state' = state /\ Goto(t, otherwise)
    /\ UNCHANGED current

Call(t) ==
    /\ pc[t] = "out"
    /\ calls[t] > 0
    /\ calls' = [calls EXCEPT ![t] = @ - 1]

Lock(t) == Call(t) /\ TryAcquire(t, "spin")

TryLock(t) == Call(t) /\ TryAcquire(t, "out")

\* The last attempt of the adaptive spin loop; earlier ones stutter.
Spin(t) ==
    /\ pc[t] = "spin"
    /\ TryAcquire(t, "register")
    /\ UNCHANGED calls

\* atomic_fetch_add(&state_, WAITER_INCREMENT)
Register(t) ==
    /\ pc[t] = "register"
    /\ state' = [state EXCEPT !.waiters = @ + 1]
    /\ Goto(t, "load")
    /\ UNCHANGED <<current, calls>>

\* current = atomic_load(&state_), and the test of LOCKED_FLAG.
Load(t) ==
    /\ pc[t] = "load"
    /\ current' = [current EXCEPT ![t] = state]
    /\ Goto(t, IF state.locked THEN "wait" ELSE "cas")
    /\ UNCHANGED <<state, calls>>

\* Mutant: the waiter is taken off twice.
TakenByTwice(word) == [locked |-> TRUE, waiters |-> word.waiters - 2]

\* Mutant: the acquiring waiter stays counted.
TakenByUncounted(word) == [locked |-> TRUE, waiters |-> word.waiters]

\* (current - WAITER_INCREMENT) | LOCKED_FLAG
TakenBy(word) == [locked |-> TRUE, waiters |-> word.waiters - 1]

\* Mutant: stores new_state instead of comparing first.
AcquireRegisteredByStore(t) ==
    /\ pc[t] = "cas"
    /\ state' = TakenBy(current[t])
    /\ Goto(t, "in")
    /\ Forget(t)
    /\ UNCHANGED calls

\* The compare-exchange current -> new_state of a registered waiter.
AcquireRegistered(t) ==
    /\ pc[t] = "cas"
    /\ IF state = current[t]
       THEN state' = TakenBy(state) /\ Goto(t, "in")
       ELSE state' = state /\ Goto(t, "load")
    /\ Forget(t)
    /\ UNCHANGED calls

\* Mutant: sleeps without comparing the word with current.
FutexWaitBlindly(t) ==
    /\ pc[t] = "wait"
    /\ Goto(t, "asleep")
    /\ Forget(t)
    /\ UNCHANGED <<state, calls>>

\* futex::wait(&state_, current): sleep only if the word is still current.
FutexWait(t) ==
    /\ pc[t] = "wait"
    /\ Goto(t, IF state = current[t] THEN "asleep" ELSE "load")
    /\ Forget(t)
    /\ UNCHANGED <<state, calls>>

\* A wait that returns without a wake (EINTR): the loop loads again.
SpuriousWake(t) ==
    /\ pc[t] = "asleep"
    /\ Goto(t, "load")
    /\ UNCHANGED <<state, current, calls>>

\* unlock(): the load that chooses between the two paths.
Unlock(t) ==
    /\ pc[t] = "in"
    /\ Goto(t, IF state = LOCKED_NO_WAITERS THEN "unlock_cas"
                                            ELSE "unlock_contended")
    /\ UNCHANGED <<state, current, calls>>

\* Mutant: when the compare-exchange fails, clears the flag without a wake.
UnlockFastNoWake(t) ==
    /\ pc[t] = "unlock_cas"
    /\ state' = [state EXCEPT !.locked = FALSE]
    /\ Goto(t, "out")
    /\ UNCHANGED <<current, calls>>

\* The compare-exchange LOCKED_NO_WAITERS -> UNLOCKED.
UnlockFast(t) ==
    /\ pc[t] = "unlock_cas"
    /\ IF state = LOCKED_NO_WAITERS
       THEN state' = UNLOCKED /\ Goto(t, "out")
       ELSE state' = state /\ Goto(t, "unlock_contended")
    /\ UNCHANGED <<current, calls>>

\* unlock_contended(): atomic_fetch_and(&state_, ~LOCKED_FLAG) ...
UnlockContended(t) ==
    /\ pc[t] = "unlock_contended"
    /\ state' = [state EXCEPT !.locked = FALSE]
    /\ Goto(t, "wake")
    /\ UNCHANGED <<current, calls>>

\* ... and futex::wake(&state_, 1).
Wake(t) ==
    /\ pc[t] = "wake"
    /\ \E W \in WakeOne(Sleepers) :
          pc' = [u \in Threads |-> IF u = t THEN "out"
                                   ELSE IF u \in W THEN "load" ELSE pc[u]]
    /\ UNCHANGED <<state, current, calls>>

-----------------------------------------------------------------------------
\* A step of a lock() or unlock() in progress.
Progress(t) ==
    \/ Spin(t)
    \/ Register(t)
    \/ Load(t)
    \/ AcquireRegistered(t)
    \/ FutexWait(t)
    \/ UnlockFast(t)
    \/ UnlockContended(t)
    \/ Wake(t)

\* Every thread is outside and has used up its calls.
Finished ==
    /\ \A t \in Threads : pc[t] = "out" /\ calls[t] = 0
    /\ UNCHANGED vars

Next ==
    \/ \E t \in Threads :
          Lock(t) \/ TryLock(t) \/ Unlock(t) \/ Progress(t) \/ SpuriousWake(t)
    \/ Finished

\* A runnable thread is eventually scheduled, and an owner eventually calls
\* unlock().  Nothing is assumed of new calls or of interrupted waits.
Fairness == \A t \in Threads : WF_vars(Progress(t) \/ Unlock(t))

Spec == Init /\ [][Next]_vars /\ Fairness

-----------------------------------------------------------------------------
\* Type correctness; in particular the waiter field never goes below zero
\* (in the code it would borrow from the whole word).
TypeOK ==
    /\ state \in Words
    /\ pc \in [Threads -> Labels]
    /\ current \in [Threads -> Words]
    /\ calls \in [Threads -> 0 .. MaxCalls]

\* The waiter field of the word counts exactly the threads between the
\* fetch_add of lock_contended() and their acquiring compare-exchange.  An
\* unlock() that sees LOCKED_NO_WAITERS skips the wake on the strength of it.
WaitersCounted == state.waiters = Cardinality(Registered)

\* No lost wake-up: whenever the mutex is free and some thread sleeps on it,
\* a wake is still to be issued or some registered thread is awake and on
\* its way to take the mutex (and to wake the next one when it leaves).
NoLostWakeup ==
    (~ state.locked /\ Sleepers # {}) =>
        \E t \in Threads : pc[t] \in {"wake", "load", "cas", "wait"}

\* The locked bit of the word is set exactly while the mutex has an owner,
\* and it never has two.
OwnerInv ==
    /\ state.locked <=> Holders # {}
    /\ \A t, u \in Holders : t = u

\* What lock_contended() knows of its local `current' when it uses it.
LocalInv ==
    \A t \in Threads :
        /\ pc[t] = "cas"  => ~ current[t].locked
        /\ pc[t] = "wait" => current[t].locked

\* The inductive invariant behind the safety theorems.
IInv == TypeOK /\ OwnerInv /\ LocalInv /\ WaitersCounted /\ NoLostWakeup

\* The mutex implements the abstract lock: at most one owner, and ownership
\* passes only through a free mutex.
Abstract == INSTANCE AbstractLock WITH owners <- Holders
ImplementsLock == Abstract!Spec

\* Every lock() that is not served by its fast path returns.  (Calls are
\* bounded: nothing queues the registered threads, so the mutex is not fair,
\* and against an endless stream of owners one of them can starve.)
LockReturns == \A t \in Threads : pc[t] = "spin" ~> pc[t] = "in"

=============================================================================
