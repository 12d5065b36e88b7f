----------------------------- MODULE SharedMutex -----------------------------
(***************************************************************************)
(* psync::SharedMutex (psync_shared.h): a reader-writer lock in one word   *)
(* with writer preference.                                                 *)
(*                                                                         *)
(* The word is the record of its three fields: WRITER_LOCKED (bit 0),      *)
(* WRITER_WAITING (bits 1-15) and READER_COUNT (bits 16-31).  The fields   *)
(* are unbounded here: the code does not check them against their widths,  *)
(* so the model stands for fewer than 2^15 waiting writers and 2^16        *)
(* readers.                                                                *)
(*                                                                         *)
(* One action is one atomic access to the word or one futex call.  An      *)
(* iteration of a contended loop that only pauses (the adaptive spin) and  *)
(* then loads again is a stuttering step: what matters is the load that    *)
(* leads to a compare-exchange or to futex::wait.                          *)
(***************************************************************************)
EXTENDS Integers, FiniteSets, Futex

CONSTANTS
    Threads,        \* the threads that use the lock
    Writers,        \* those that call lock() and try_lock()
    Readers,        \* those that call lock_shared() and try_lock_shared()
    MaxWrites       \* bound: exclusive calls each writer makes

ASSUME SharedMutexAssumption ==
    /\ IsFiniteSet(Threads)
    /\ Writers \subseteq Threads
    /\ Readers \subseteq Threads
    /\ MaxWrites \in Nat

VARIABLES
    state,      \* the word state_
    pc,         \* pc[t]: where thread t is
    current,    \* current[t]: local `current' of the call in progress
    writes      \* writes[t]: exclusive calls t may still make

vars == <<state, pc, current, writes>>

UNLOCKED      == [writer |-> FALSE, waiting |-> 0, readers |-> 0]
WRITER_LOCKED == [writer |-> TRUE,  waiting |-> 0, readers |-> 0]

Words == [writer : BOOLEAN, waiting : Nat, readers : Nat]

WriterLabels == {"w_register", "w_load", "w_cas", "w_wait", "w_asleep", "w_in"}
ReaderLabels == {"r_first", "r_try", "r_load", "r_cas", "r_wait", "r_asleep",
                 "r_in"}
Labels == {"out", "wake_all"} \cup WriterLabels \cup ReaderLabels

Goto(t, label) == pc' = [pc EXCEPT ![t] = label]

\* The local `current' goes out of scope at the end of the loop's body.
Forget(t) == current' = [current EXCEPT ![t] = UNLOCKED]

Sleepers == {t \in Threads : pc[t] \in {"w_asleep", "r_asleep"}}

\* Writers between the fetch_add of lock_contended() and their acquisition.
WaitingWriters ==
    {t \in Threads : pc[t] \in {"w_load", "w_cas", "w_wait", "w_asleep"}}

ActiveWriters == {t \in Threads : pc[t] = "w_in"}
ActiveReaders == {t \in Threads : pc[t] = "r_in"}

\* Mutant: forgets READER_MASK.
FreeOfWriter(word) == ~ word.writer

\* (word & (WRITER_LOCKED | READER_MASK)) == 0
FreeForWriter(word) == ~ word.writer /\ word.readers = 0

\* Mutant: forgets WRITER_WAITING_MASK, no writer preference.
FreeIgnoringWaiting(word) == ~ word.writer

\* (word & (WRITER_LOCKED | WRITER_WAITING_MASK)) == 0
FreeForReader(word) == ~ word.writer /\ word.waiting = 0

-----------------------------------------------------------------------------
Init ==
    /\ state = UNLOCKED
    /\ pc = [t \in Threads |-> "out"]
    /\ current = [t \in Threads |-> UNLOCKED]
    /\ writes = [t \in Threads |-> MaxWrites]

\* The compare-exchange UNLOCKED -> WRITER_LOCKED of lock() and try_lock().
TryAcquireExclusive(t, otherwise) ==
    /\ t \in Writers /\ pc[t] = "out" /\ writes[t] > 0
    /\ writes' = [writes EXCEPT ![t] = @ - 1]
    /\ IF state = UNLOCKED
       THEN state' = WRITER_LOCKED /\ Goto(t, "w_in")
       ELSE state' = state /\ Goto(t, otherwise)
    /\ UNCHANGED current

Lock(t) == TryAcquireExclusive(t, "w_register")

TryLock(t) == TryAcquireExclusive(t, "out")

\* lock_contended(): atomic_fetch_add(&state_, WRITER_WAITING_INC)
RegisterWriter(t) ==
    /\ pc[t] = "w_register"
    /\ state' = [state EXCEPT !.waiting = @ + 1]
    /\ Goto(t, "w_load")
    /\ UNCHANGED <<current, writes>>

LoadWriter(t) ==
    /\ pc[t] = "w_load"
    /\ current' = [current EXCEPT ![t] = state]
    /\ Goto(t, IF FreeForWriter(state) THEN "w_cas" ELSE "w_wait")
    /\ UNCHANGED <<state, writes>>

\* Mutant: takes the waiter off twice.
TakenByWriterTwice(word) == [word EXCEPT !.writer = TRUE, !.waiting = @ - 2]

\* Mutant: the writer stays counted as waiting.
TakenByWriterUncounted(word) == [word EXCEPT !.writer = TRUE]

\* (current - WRITER_WAITING_INC) | WRITER_LOCKED
TakenByWriter(word) == [word EXCEPT !.writer = TRUE, !.waiting = @ - 1]

AcquireWriter(t) ==
    /\ pc[t] = "w_cas"
    /\ IF state = current[t]
       THEN state' = TakenByWriter(state) /\ Goto(t, "w_in")
       ELSE state' = state /\ Goto(t, "w_load")
    /\ Forget(t)
    /\ UNCHANGED writes

\* futex::wait(&state_, current) of the two contended loops.
FutexWait(t) ==
    /\ \/ pc[t] = "w_wait"
          /\ Goto(t, IF state = current[t] THEN "w_asleep" ELSE "w_load")
       \/ pc[t] = "r_wait"
          /\ Goto(t, IF state = current[t] THEN "r_asleep" ELSE "r_load")
    /\ Forget(t)
    /\ UNCHANGED <<state, writes>>

\* A wait that returns without a wake (EINTR).
SpuriousWake(t) ==
    /\ \/ pc[t] = "w_asleep" /\ Goto(t, "w_load")
       \/ pc[t] = "r_asleep" /\ Goto(t, "r_load")
    /\ UNCHANGED <<state, current, writes>>

\* unlock(): fetch_and(~WRITER_LOCKED), then wake_all.
Unlock(t) ==
    /\ pc[t] = "w_in"
    /\ state' = [state EXCEPT !.writer = FALSE]
    /\ Goto(t, "wake_all")
    /\ UNCHANGED <<current, writes>>

\* The first load of lock_shared() ("r_first" on success) and of
\* try_lock_shared() ("r_try"); a blocked word ends the fast path.
LoadShared(t, next, blocked) ==
    /\ IF FreeForReader(state)
       THEN current' = [current EXCEPT ![t] = state] /\ Goto(t, next)
       ELSE Forget(t) /\ Goto(t, blocked)
    /\ UNCHANGED <<state, writes>>

LockShared(t) ==
    t \in Readers /\ pc[t] = "out" /\ LoadShared(t, "r_first", "r_load")

TryLockShared(t) ==
    t \in Readers /\ pc[t] = "out" /\ LoadShared(t, "r_try", "out")

\* current + READER_INCREMENT
TakenByReader(word) == [word EXCEPT !.readers = @ + 1]

AcquireShared(t) ==
    /\ state = current[t]
    /\ state' = TakenByReader(state)
    /\ Goto(t, "r_in")
    /\ Forget(t)
    /\ UNCHANGED writes

\* The compare-exchange of the fast path of lock_shared().  When it fails,
\* `current = expected' is the word it saw, and the loop tests that one.
FastShared(t) ==
    /\ pc[t] = "r_first"
    /\ \/ AcquireShared(t)
       \/ state # current[t] /\ LoadShared(t, "r_first", "r_load")

\* The same in try_lock_shared(), which gives up on a blocked word.
TryShared(t) ==
    /\ pc[t] = "r_try"
    /\ \/ AcquireShared(t)
       \/ state # current[t] /\ LoadShared(t, "r_try", "out")

\* lock_shared_contended()
LoadReader(t) ==
    /\ pc[t] = "r_load"
    /\ current' = [current EXCEPT ![t] = state]
    /\ Goto(t, IF FreeForReader(state) THEN "r_cas" ELSE "r_wait")
    /\ UNCHANGED <<state, writes>>

AcquireReader(t) ==
    /\ pc[t] = "r_cas"
    /\ \/ AcquireShared(t)
       \/ /\ state # current[t] /\ Goto(t, "r_load") /\ Forget(t)
          /\ UNCHANGED <<state, writes>>

\* Mutant: takes the count before the fetch_sub for the count after it.
UnlockSharedOffByOne(t) ==
    /\ pc[t] = "r_in"
    /\ state' = [state EXCEPT !.readers = @ - 1]
    /\ Goto(t, IF state.readers = 0 /\ state.waiting > 0 THEN "wake_all"
                                                         ELSE "out")
    /\ UNCHANGED <<current, writes>>

\* unlock_shared(): fetch_sub, and wake_all only from the last reader when a
\* writer waits.
UnlockShared(t) ==
    /\ pc[t] = "r_in"
    /\ state' = [state EXCEPT !.readers = @ - 1]
    /\ Goto(t, IF state.readers = 1 /\ state.waiting > 0 THEN "wake_all"
                                                         ELSE "out")
    /\ UNCHANGED <<current, writes>>

\* Mutant: wakes a single thread.
WakeJustOne(t) ==
    /\ pc[t] = "wake_all"
    /\ \E W \in WakeOne(Sleepers) :
          pc' = [u \in Threads |->
                    IF u = t THEN "out"
                    ELSE IF u \notin W THEN pc[u]
                    ELSE IF pc[u] = "w_asleep" THEN "w_load" ELSE "r_load"]
    /\ UNCHANGED <<state, current, writes>>

\* futex::wake_all(&state_)
Wake(t) ==
    /\ pc[t] = "wake_all"
    /\ \E W \in WakeAll(Sleepers) :
          pc' = [u \in Threads |->
                    IF u = t THEN "out"
                    ELSE IF u \notin W THEN pc[u]
                    ELSE IF pc[u] = "w_asleep" THEN "w_load" ELSE "r_load"]
    /\ UNCHANGED <<state, current, writes>>

-----------------------------------------------------------------------------
\* A step of a call in progress.
Progress(t) ==
    \/ RegisterWriter(t) \/ LoadWriter(t) \/ AcquireWriter(t)
    \/ FastShared(t) \/ TryShared(t) \/ LoadReader(t) \/ AcquireReader(t)
    \/ FutexWait(t)
    \/ Wake(t)

Release(t) == Unlock(t) \/ UnlockShared(t)

Next ==
    \E t \in Threads :
        \/ Lock(t) \/ TryLock(t) \/ LockShared(t) \/ TryLockShared(t)
        \/ Progress(t) \/ Release(t) \/ SpuriousWake(t)

\* A runnable thread is eventually scheduled and an owner eventually
\* releases; nobody has to call again.
Fairness == \A t \in Threads : WF_vars(Progress(t) \/ Release(t))

Spec == Init /\ [][Next]_vars /\ Fairness

-----------------------------------------------------------------------------
\* Type correctness: neither counter of the word goes below zero, where it
\* would borrow from the fields above it.
TypeOK ==
    /\ state \in Words
    /\ pc \in [Threads -> Labels]
    /\ current \in [Threads -> Words]
    /\ writes \in [Threads -> 0 .. MaxWrites]

\* The fields of the word say who owns it and who waits: unlock_shared()
\* decides from them alone whether a wake is due.
CountsExact ==
    /\ state.writer <=> ActiveWriters # {}
    /\ state.waiting = Cardinality(WaitingWriters)
    /\ state.readers = Cardinality(ActiveReaders)

\* No lost wake-up.  A writer that sleeps while the lock is free for it is
\* about to be woken, or another waiting writer is awake; a reader that
\* sleeps while it could enter is about to be woken.
NoLostWakeup ==
    /\ FreeForWriter(state) /\ (\E t \in Threads : pc[t] = "w_asleep")
          => \E t \in Threads : pc[t] \in {"wake_all", "w_load", "w_cas", "w_wait"}
    /\ FreeForReader(state) /\ (\E t \in Threads : pc[t] = "r_asleep")
          => \E t \in Threads : pc[t] = "wake_all"

\* An exclusive owner is alone.
ExclusionInv ==
    /\ \A t, u \in ActiveWriters : t = u
    /\ ActiveWriters # {} => ActiveReaders = {}

\* What each loop knows of its local `current' when it uses it.
LocalInv ==
    \A t \in Threads :
        /\ pc[t] = "w_cas"  => FreeForWriter(current[t])
        /\ pc[t] = "w_wait" => ~ FreeForWriter(current[t])
        /\ pc[t] \in {"r_first", "r_try", "r_cas"} => FreeForReader(current[t])
        /\ pc[t] = "r_wait" => ~ FreeForReader(current[t])

\* The inductive invariant behind the safety theorems.
IInv == TypeOK /\ CountsExact /\ ExclusionInv /\ LocalInv /\ NoLostWakeup

\* The lock implements the abstract reader-writer lock.
Abstract == INSTANCE AbstractSharedLock
                WITH writers <- ActiveWriters, readers <- ActiveReaders
ImplementsSharedLock == Abstract!Spec

\* Writer preference: once a writer is registered no reader enters.  This is
\* what the tests of lock_shared() and try_lock_shared() are for, according to
\* the comment on them and to README.md.  FINAL_REPORT.md:287 and :324 and
\* ADVERSARIAL_REVIEW.md:165 and :256 say that there is none; the code has it.
WriterPreference ==
    [][WaitingWriters # {} => ActiveReaders' \subseteq ActiveReaders]_vars

\* "Prevent writer starvation" (psync_shared.h:92): a contended lock() returns
\* although readers come back without end (writers are bounded by MaxWrites:
\* nothing orders writers among themselves).  ADVERSARIAL_REVIEW.md:166 says
\* that a continuous stream of readers could starve writers; it cannot.
WriterReturns == \A t \in Writers : pc[t] = "w_register" ~> pc[t] = "w_in"

\* No reader sleeps for ever, whatever other readers and the writers do.
ReaderWakes == \A t \in Readers : pc[t] = "r_asleep" ~> pc[t] # "r_asleep"

=============================================================================
