----------------------------- MODULE Primitives -----------------------------
(***************************************************************************)
(* The small synchronisation primitives of the library.  A behaviour is    *)
(* one of a program with a single object, of one of the kinds: objects     *)
(* share no state (the fallback's slots excepted: the flag of one word is  *)
(* modelled, that of two words that share a slot is not).                  *)
(***************************************************************************)
EXTENDS Latch, Barrier, Semaphore, Baton, CallOnce, SpinLocks, SeqLock, Guards

CONSTANT Kinds      \* the kinds of objects to look at

VARIABLE kind       \* the kind of the program's object

vars == <<wordVars, arrived, onceVars, next_ticket, seqVars, guardVars, kind>>

Init ==
    /\ kind \in Kinds
    /\ CASE kind = "latch"     -> LatchInit
         [] kind = "barrier"   -> BarrierInit
         [] kind = "semaphore" -> SemaphoreInit
         [] kind = "baton"     -> BatonInit
         [] OTHER              -> WordInit(0, MaxCalls)
    /\ kind # "barrier" => arrived = expected
    /\ OnceInit /\ TicketInit /\ SeqInit /\ GuardsInit
    /\ class = "UniqueLock" \/ kind = "guards"

-----------------------------------------------------------------------------
\* A step of the object if it is of that kind; nothing else changes.
WordStep(k, A) ==
    /\ kind = k /\ A
    /\ UNCHANGED <<arrived, onceVars, next_ticket, seqVars, guardVars, kind>>
BarrierStep(A) ==
    /\ kind = "barrier" /\ A
    /\ UNCHANGED <<onceVars, next_ticket, seqVars, guardVars, kind>>
OnceStep(A) ==
    /\ kind = "once" /\ A
    /\ UNCHANGED <<arrived, next_ticket, seqVars, guardVars, kind>>
TicketStep(A) ==
    /\ kind = "ticket" /\ A
    /\ UNCHANGED <<arrived, onceVars, seqVars, guardVars, kind>>
SeqStep(A) ==
    /\ kind = "seqlock" /\ A
    /\ UNCHANGED <<arrived, onceVars, next_ticket, guardVars, kind>>
GuardStep(A) ==
    /\ kind = "guards" /\ A
    /\ UNCHANGED <<wordVars, arrived, onceVars, next_ticket, seqVars, kind>>

\* The calls a client makes: nobody has to make them.
Start(t) ==
    \/ \E n \in 1 .. 2, o \in {"count_down", "arrive_and_wait"} :
         WordStep("latch", CountDown(t, o, n))
    \/ \E o \in {"wait", "wait_for"} : WordStep("latch", LatchWait(t, o))
    \/ \E o \in {"arrive", "arrive_and_wait"} : BarrierStep(Arrive(t, o))
    \/ BarrierStep(WaitToken(t))
    \/ \E n \in 1 .. 2 : WordStep("semaphore", Release(t, n))
    \/ \E o \in {"try_acquire", "acquire", "try_acquire_for"} :
         WordStep("semaphore", Acquire(t, o))
    \/ WordStep("baton", Post(t))
    \/ \E o \in {"wait", "wait_for"} : WordStep("baton", BatonWait(t, o))
    \/ WordStep("baton", Reset(t))
    \/ OnceStep(CallOnce(t))
    \/ WordStep("spin", SpinLock(t))
    \/ WordStep("spin", SpinTryLock(t))
    \/ TicketStep(DrawTicket(t))
    \/ TicketStep(TicketTryLock(t))
    \/ SeqStep(WriteBegin(t))
    \/ SeqStep(ReadTransaction(t))

\* The environment: deadlines pass, signals arrive.
Disturb(t) ==
    \/ WordStep("latch", LatchExpire(t)) \/ WordStep("latch", Interrupt(t))
    \/ BarrierStep(BarrierInterrupt(t))
    \/ WordStep("semaphore", SemaphoreExpire(t)) \/ WordStep("semaphore", Interrupt(t))
    \/ WordStep("baton", BatonExpire(t)) \/ WordStep("baton", Interrupt(t))
    \/ OnceStep(OnceInterrupt(t))

\* The steps a thread takes by itself while it is in a call or owns a lock.
Run(t) ==
    \/ WordStep("latch", LatchRun(t))
    \/ BarrierStep(BarrierRun(t))
    \/ WordStep("semaphore", SemaphoreRun(t))
    \/ WordStep("baton", BatonRun(t))
    \/ OnceStep(OnceRun(t))
    \/ WordStep("spin", SpinRun(t))
    \/ TicketStep(TicketRun(t))
    \/ SeqStep(SeqRun(t))

\* All calls made and returned.
Over == (\A t \in Threads : pc[t] \in Idle /\ calls[t] = 0) /\ UNCHANGED vars

Next ==
    \/ \E t \in Threads : Start(t) \/ Disturb(t) \/ Run(t)
    \/ \E g \in Objects : GuardStep(UniqueLock(g)) \/ GuardStep(SharedLock(g))
    \/ \E m \in Mutexes :
         \/ GuardStep(ByHand(m)) \/ GuardStep(LockGuard(m)) \/ GuardStep(BatchGuard(m))
         \/ GuardStep(ExclusiveBatchGuard(m)) \/ GuardStep(SharedBatchGuard(m))
    \/ Over

\* A thread that can go on is scheduled again, and an owner unlocks.  Nobody
\* has to make a call, and neither deadlines nor signals have to come.
Spec == Init /\ [][Next]_vars /\ \A t \in Threads : WF_vars(Run(t))

-----------------------------------------------------------------------------
\* No thread sleeps in the kernel on a condition that has come true (latch at
\* zero, phase over, baton posted or reset, initialisation ended, tokens
\* left) unless a wake is on its way that reaches it.  For the semaphore: the
\* tokens are no more than the wakes announced and the threads that are awake
\* and about to take one.
SleepersCovered ==
    /\ kind = "latch" => LatchCovered
    /\ kind = "barrier" => BarrierCovered
    /\ kind = "semaphore" => SemaphoreCovered
    /\ kind = "baton" => BatonCovered
    /\ kind = "once" => OnceCovered

\* Nobody leaves a phase of the barrier before everybody has arrived in it,
\* though the fast threads are already arriving for the next one.
BarrierInPhase ==
    kind = "barrier" => \A t, u \in Threads : Departures(t) <= Arrivals(u)

\* call_once(): the callable never runs twice at a time nor again after it has
\* returned, throwing attempts notwithstanding, and nobody returns normally
\* before it has returned.
RunsOnce ==
    kind = "once" =>
        /\ Cardinality(Running) + completed <= 1
        /\ \A t \in Threads : pc[t] = "called" => completed = 1

\* A transaction returns what the two cells held at one moment: at the moment
\* when it began, whatever writers did meanwhile.
SnapshotConsistent ==
    kind = "seqlock" =>
        \A t \in Threads : pc[t] = "accept" => copy[t] = SnapshotOf(local[t])

\* Through any sequence of constructions, moves, swaps, adoptions, release()
\* and destructions, every lock() or lock_shared() of the thread has exactly
\* one party that will undo it: an object that owns the mutex, a LockGuard, or
\* the client.  Several objects may own one mutex shared; an exclusive lock is
\* held once and so has a single owner.
GuardsBalanced ==
    \A m \in Mutexes :
        /\ held[m] = Cardinality(OwnersOf(m)) + byHand[m]
                      + (IF m \in guarded THEN 1 ELSE 0)
        /\ class = "UniqueLock" => held[m] <= 1

AL == INSTANCE AbstractLock WITH
        owners <- IF kind \in {"spin", "ticket"} THEN Owners ELSE {}

\* SpinLock and TicketLock are mutual-exclusion locks.
LocksImplement == AL!Spec

\* TicketLock serves in the order of the tickets: who enters is ahead of all
\* that still wait, and a try_lock() succeeds only when nobody does.
TicketFifo ==
    [][\A t \in Owners' \ Owners :
          kind = "ticket" =>
              \A u \in Threads \ {t} :
                  pc[u] = "loop" => pc[t] = "loop" /\ Ahead(t) < Ahead(u)]_vars

\* Thread t waits for something that has happened.
Overdue(t) ==
    \/ kind = "latch" /\ pc[t] \in {"loop", "wait", "asleep"} /\ word = 0
    \/ kind = "barrier" /\ pc[t] \in {"loop", "wait", "asleep"}
         /\ \A u \in Threads : Arrivals(u) >= Arrivals(t)
    \/ kind = "semaphore" /\ pc[t] \in {"loop", "wait", "asleep"} /\ word > 0
    \/ kind = "baton" /\ pc[t] \in {"loop", "wait", "asleep"} /\ word = kReady
    \/ kind = "once" /\ pc[t] \in {"loop", "wait", "asleep"} /\ word # initializing
    \/ kind \in {"spin", "ticket"} /\ pc[t] \in {"loop", "cas"}

\* Nobody waits for ever for something that has happened: a latch at zero, a
\* phase in which everybody has arrived, a free token, a posted baton, an
\* initialisation that is over or has failed, a lock whose owners all unlock.
EveryoneReturns == \A t \in Threads : []<>~ Overdue(t)
=============================================================================
