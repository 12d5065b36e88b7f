------------------------------- MODULE CondVar -------------------------------
(***************************************************************************)
(* psync::ConditionVariable (psync_condvar.h) composed with psync::Mutex.  *)
(*                                                                         *)
(* The condition variable is a sequence counter seq_ that every notifier   *)
(* increments; a waiter reads it under the mutex and sleeps on it only     *)
(* while it has not moved.  The counter is 32 bits wide in the code; here  *)
(* it is unbounded, so the model stands for fewer than 2^32 notifications  *)
(* between a waiter's load and its futex::wait.                            *)
(*                                                                         *)
(* The client is the one condition variables are for: producers put an     *)
(* item under the mutex and notify, before or after releasing it;          *)
(* consumers wait(mutex, pred) for an item, some of them with a deadline   *)
(* (wait_for / wait_until with a predicate).                               *)
(*                                                                         *)
(* The mutex is the module Mutex with all its steps: pc, state, current    *)
(* and calls are its variables, and pc[t] = "out" means that t is outside  *)
(* lock() and unlock().  at[t] says where t is in its own code.            *)
(***************************************************************************)
EXTENDS Integers, FiniteSets, Futex

CONSTANTS
    Producers, Consumers,   \* the threads
    Timed,                  \* consumers that wait with a deadline
    MaxCalls,               \* bound: items each producer puts
    MaxInterrupts           \* bound: waits of a consumer cut short by EINTR

ASSUME CondVarAssumption ==
    /\ IsFiniteSet(Producers) /\ IsFiniteSet(Consumers)
    /\ Producers \cap Consumers = {}
    /\ Timed \subseteq Consumers
    /\ MaxCalls \in Nat /\ MaxInterrupts \in Nat

VARIABLES
    state, pc, current, calls,      \* the mutex
    seq,            \* the counter seq_
    at,             \* at[t]: where t is in its own code
    my_seq,         \* my_seq[t]: local `seq' of wait(), `old_seq' of broadcast();
                    \* 0 when out of scope
    items,          \* the data the predicate is about
    owed,           \* owed[t]: producer t has put an item and not yet notified
    expired,        \* expired[t]: the deadline of t has passed
    interrupts      \* interrupts[t]: interruptions still to come

Threads == Producers \cup Consumers

mutexVars == <<state, pc, current, calls>>
cvVars == <<seq, at, my_seq, items, owed, expired, interrupts>>
vars == <<mutexVars, cvVars>>

M == INSTANCE Mutex

Owns(t) == pc[t] = "in"
Outside(t) == pc[t] = "out"
GoOn(t, place) == at' = [at EXCEPT ![t] = place]

\* Threads asleep in futex::wait(&seq_, seq).
SeqSleepers == {t \in Consumers : at[t] = "asleep"}

Init ==
    /\ M!Init
    /\ seq = 0
    /\ at = [t \in Threads |-> "start"]
    /\ my_seq = [t \in Threads |-> 0]
    /\ items = 0
    /\ owed = [t \in Producers |-> FALSE]
    /\ expired = [t \in Timed |-> FALSE]
    /\ interrupts = [t \in Consumers |-> MaxInterrupts]

-----------------------------------------------------------------------------
\* The mutex.  A client locks it at the start; it unlocks it when its own
\* code has come to that.
Lock(t) == at[t] = "start" /\ M!Lock(t) /\ UNCHANGED cvVars

Unlock(t) ==
    /\ at[t] \in {"hold", "waiting", "got", "timeout"}
    /\ M!Unlock(t)
    /\ UNCHANGED cvVars

MutexStep(t) == (M!Progress(t) \/ M!SpuriousWake(t)) /\ UNCHANGED cvVars

-----------------------------------------------------------------------------
\* A consumer's wait(mutex, pred).  The predicate holds: take an item.
Take(t) ==
    /\ at[t] = "start" /\ Owns(t) /\ items > 0
    /\ items' = items - 1
    /\ GoOn(t, "got")
    /\ UNCHANGED <<mutexVars, seq, my_seq, owed, expired, interrupts>>

\* The deadline of a timed wait is tested after the predicate.
GiveUp(t) ==
    /\ at[t] = "start" /\ Owns(t) /\ items = 0
    /\ t \in Timed /\ expired[t]
    /\ GoOn(t, "timeout")
    /\ UNCHANGED <<mutexVars, seq, my_seq, items, owed, expired, interrupts>>

\* wait(): u32 seq = atomic_load(&seq_), under the mutex.
BeginWait(t) ==
    /\ at[t] = "start" /\ Owns(t) /\ items = 0
    /\ ~ (t \in Timed /\ expired[t])
    /\ my_seq' = [my_seq EXCEPT ![t] = seq]
    /\ GoOn(t, "waiting")
    /\ UNCHANGED <<mutexVars, seq, items, owed, expired, interrupts>>

\* Mutant: sleeps whether or not seq_ has moved.
SleepBlindly(t) ==
    /\ at[t] = "waiting" /\ Outside(t)
    /\ GoOn(t, "asleep")
    /\ my_seq' = [my_seq EXCEPT ![t] = 0]
    /\ UNCHANGED <<mutexVars, seq, items, owed, expired, interrupts>>

\* futex::wait(&seq_, seq), once mutex.unlock() has returned.
SleepOnSeq(t) ==
    /\ at[t] = "waiting" /\ Outside(t)
    /\ GoOn(t, IF seq = my_seq[t] THEN "asleep" ELSE "awake")
    /\ my_seq' = [my_seq EXCEPT ![t] = 0]
    /\ UNCHANGED <<mutexVars, seq, items, owed, expired, interrupts>>

\* Mutant: wait() returns without the mutex when lock() is contended.
RelockOnce(t) ==
    /\ at[t] = "awake" /\ Outside(t)
    /\ pc' = [pc EXCEPT ![t] = "in"]
    /\ GoOn(t, "start")
    /\ UNCHANGED <<state, current, calls, seq, my_seq, items, owed, expired, interrupts>>

\* mutex.lock() of wait(); when it returns the predicate is tested again.
Relock(t) ==
    /\ at[t] = "awake" /\ Outside(t)
    /\ M!TryAcquire(t, "spin")
    /\ GoOn(t, "start")
    /\ UNCHANGED <<calls, seq, my_seq, items, owed, expired, interrupts>>

\* futex::wait_for returns ETIMEDOUT.
TimeOut(t) ==
    /\ at[t] = "asleep" /\ t \in Timed /\ expired[t]
    /\ GoOn(t, "awake")
    /\ UNCHANGED <<mutexVars, seq, my_seq, items, owed, expired, interrupts>>

\* The wait is interrupted by a signal handler (EINTR).
Interrupt(t) ==
    /\ at[t] = "asleep" /\ interrupts[t] > 0
    /\ interrupts' = [interrupts EXCEPT ![t] = @ - 1]
    /\ GoOn(t, "awake")
    /\ UNCHANGED <<mutexVars, seq, my_seq, items, owed, expired>>

\* Time passes the deadline of a consumer inside its call.
Expire(t) ==
    /\ t \in Timed /\ ~ expired[t] /\ at[t] \notin {"got", "timeout"}
    /\ expired' = [expired EXCEPT ![t] = TRUE]
    /\ UNCHANGED <<mutexVars, seq, at, my_seq, items, owed, interrupts>>

-----------------------------------------------------------------------------
\* A producer makes the predicate true under the mutex ...
Put(t) ==
    /\ at[t] = "start" /\ Owns(t)
    /\ items' = items + 1
    /\ owed' = [owed EXCEPT ![t] = TRUE]
    /\ GoOn(t, "hold")
    /\ UNCHANGED <<mutexVars, seq, my_seq, expired, interrupts>>

\* Mutant: notifies without moving seq_.
BumpNothing(t, kind) ==
    /\ at[t] = "hold" /\ owed[t] /\ (Owns(t) \/ Outside(t))
    /\ owed' = [owed EXCEPT ![t] = FALSE]
    /\ GoOn(t, kind)
    /\ UNCHANGED <<mutexVars, seq, my_seq, items, expired, interrupts>>

\* ... and notifies, still holding the mutex or after unlock():
\* atomic_fetch_add(&seq_, 1), the first half of signal() and broadcast().
Bump(t, kind) ==
    /\ at[t] = "hold" /\ owed[t] /\ (Owns(t) \/ Outside(t))
    /\ seq' = seq + 1
    /\ my_seq' = [my_seq EXCEPT ![t] = seq]
    /\ owed' = [owed EXCEPT ![t] = FALSE]
    /\ GoOn(t, kind)
    /\ UNCHANGED <<mutexVars, items, expired, interrupts>>

\* The second half: the threads in W leave futex::wait.
WakeSeq(t, W) ==
    /\ at' = [u \in Threads |-> IF u = t THEN "hold"
                                ELSE IF u \in W THEN "awake" ELSE at[u]]
    /\ my_seq' = [my_seq EXCEPT ![t] = 0]
    /\ UNCHANGED <<mutexVars, seq, items, owed, expired, interrupts>>

\* signal(): futex::wake(&seq_, 1)
Signal(t) == at[t] = "signal" /\ \E W \in WakeOne(SeqSleepers) : WakeSeq(t, W)

\* broadcast(): futex::wake_all(&seq_)
Broadcast(t) == at[t] = "broadcast" /\ \E W \in WakeAll(SeqSleepers) : WakeSeq(t, W)

\* broadcast(mutex) on Linux: futex::requeue(&seq_, mutex_state, INT_MAX,
\* old_seq), an operation that acts only if the word still equals its last
\* argument; old_seq is the value before this thread's own fetch_add, so it
\* never does.  psync_platform.h also numbers the operation 13 and not, as the
\* kernel does, 4.  For either reason the call fails and wakes or moves nobody.
BroadcastRequeue(t) ==
    /\ at[t] = "requeue"
    /\ seq # my_seq[t]
    /\ WakeSeq(t, {})

\* The producer goes for its next item.
Again(t) ==
    /\ at[t] = "hold" /\ ~ owed[t] /\ Outside(t) /\ calls[t] > 0
    /\ GoOn(t, "start")
    /\ UNCHANGED <<mutexVars, seq, my_seq, items, owed, expired, interrupts>>

-----------------------------------------------------------------------------
ConsumerStep(t) ==
    Take(t) \/ GiveUp(t) \/ BeginWait(t) \/ SleepOnSeq(t) \/ Relock(t) \/ TimeOut(t)

ProducerStep(t) ==
    \/ Put(t)
    \/ \E kind \in {"signal", "broadcast"} : Bump(t, kind)
    \/ Signal(t) \/ Broadcast(t)
    \/ Again(t)

\* Every thread has finished.
Finished ==
    /\ \A t \in Threads : Outside(t)
    /\ \A t \in Consumers : at[t] \in {"got", "timeout"}
    /\ \A t \in Producers : at[t] = "hold" /\ ~ owed[t] /\ calls[t] = 0
    /\ UNCHANGED vars

Next ==
    \/ \E t \in Threads : Lock(t) \/ Unlock(t) \/ MutexStep(t)
    \/ \E t \in Consumers : ConsumerStep(t) \/ Interrupt(t) \/ Expire(t)
    \/ \E t \in Producers : ProducerStep(t)
    \/ Finished

\* Every thread that can run is eventually scheduled; producers do put their
\* items.  Nothing makes time pass or signals arrive.
Fairness ==
    /\ \A t \in Threads :
          WF_vars(Unlock(t) \/ (M!Progress(t) /\ UNCHANGED cvVars))
    /\ \A t \in Consumers : WF_vars(ConsumerStep(t))
    /\ \A t \in Producers : WF_vars(Lock(t) \/ ProducerStep(t))

Spec == Init /\ [][Next]_vars /\ Fairness

\* The same system, but producers notify with broadcast(mutex).
RequeueStep(t) == Put(t) \/ Bump(t, "requeue") \/ BroadcastRequeue(t) \/ Again(t)

RequeueNext ==
    \/ \E t \in Threads : Lock(t) \/ Unlock(t) \/ MutexStep(t)
    \/ \E t \in Consumers : ConsumerStep(t) \/ Interrupt(t) \/ Expire(t)
    \/ \E t \in Producers : RequeueStep(t)
    \/ Finished

RequeueFairness ==
    /\ \A t \in Threads :
          WF_vars(Unlock(t) \/ (M!Progress(t) /\ UNCHANGED cvVars))
    /\ \A t \in Consumers : WF_vars(ConsumerStep(t))
    /\ \A t \in Producers : WF_vars(Lock(t) \/ RequeueStep(t))

RequeueSpec == Init /\ [][RequeueNext]_vars /\ RequeueFairness

-----------------------------------------------------------------------------
\* A waiter that has decided to sleep and that nothing will stop: asleep, or
\* about to compare seq_ with the value it still has.
Dozing(t) == at[t] = "asleep" \/ (at[t] = "waiting" /\ my_seq[t] = seq)

\* Consumers that are awake inside their call, and producers that have yet to
\* wake somebody.
AwakeInside ==
    {t \in Consumers : /\ at[t] \in {"start", "waiting", "awake"}
                       /\ ~ Dozing(t) /\ ~ (at[t] = "start" /\ Outside(t))}
Owing == {t \in Producers : owed[t] \/ at[t] \in {"signal", "broadcast"}}

\* One signal per item is enough: as long as some consumer is dozing, every
\* item is matched by a consumer that is awake inside its call or by a
\* producer that has yet to wake somebody.
SignalsSuffice ==
    (\E t \in Consumers : Dozing(t)) =>
        items <= Cardinality(AwakeInside) + Cardinality(Owing)

\* wait() returns with the mutex: a consumer acts on the predicate, and a
\* producer changes it, only as the one owner of the mutex.
ActsAsOwner ==
    [][items' # items => \E t \in Threads : M!Holders = {t} /\ at'[t] # at[t]]_vars

\* Every wait(mutex, pred) returns once as many items are put as there are
\* consumers, whichever way the producers notify.
WaitReturns ==
    \A t \in Consumers : at[t] = "waiting" ~> at[t] \in {"got", "timeout"}
=============================================================================
