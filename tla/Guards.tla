------------------------------- MODULE Guards -------------------------------
(***************************************************************************)
(* The RAII wrappers of psync_locks.h and psync_batch.h.  One thread has   *)
(* the lock objects Objects, all of class UniqueLock or all of class       *)
(* SharedLock: the two classes have the same operations, one over lock()   *)
(* and unlock(), the other over lock_shared() and unlock_shared().  With   *)
(* UniqueLock it also has LockGuards.  Other threads hold the mutexes      *)
(* through scoped guards.                                                  *)
(*                                                                         *)
(* The thread never locks exclusively what it holds already, but may hold  *)
(* a mutex shared several times.  It unlocks by hand, or adopts, only what *)
(* it locked by hand or got back from release().                           *)
(***************************************************************************)
EXTENDS Integers, FiniteSets

CONSTANTS
    Mutexes, Objects, nullptr,
    MaxHeld         \* bound: how often the thread holds one mutex shared

ASSUME GuardsAssumption ==
    IsFiniteSet(Objects) /\ nullptr \notin Mutexes /\ MaxHeld \in Nat

VARIABLES
    class,      \* "UniqueLock" or "SharedLock"
    alive,      \* the objects that exist
    mutex,      \* mutex[g]: g.mutex_
    owns,       \* owns[g]: g.owns_
    held,       \* held[m]: how often the thread has locked m
    byHand,     \* byHand[m]: how often it has done so without an object
    guarded,    \* the mutexes on which it has a LockGuard
    others      \* others[m]: how other threads hold m

objectVars == <<alive, mutex, owns>>
guardVars == <<class, objectVars, held, byHand, guarded, others>>

GuardsInit ==
    /\ class \in {"UniqueLock", "SharedLock"}
    /\ alive = {}
    /\ mutex = [g \in Objects |-> nullptr]
    /\ owns = [g \in Objects |-> FALSE]
    /\ held = [m \in Mutexes |-> 0]
    /\ byHand = [m \in Mutexes |-> 0]
    /\ guarded = {}
    /\ others = [m \in Mutexes |-> "free"]

\* lock(), or lock_shared(), can return.
Grantable(m) ==
    \/ class = "UniqueLock" /\ held[m] = 0 /\ others[m] = "free"
    \/ class = "SharedLock" /\ held[m] < MaxHeld /\ others[m] # "exclusive"

Locked(m)   == held' = [held EXCEPT ![m] = @ + 1]
Unlocked(m) == held' = [held EXCEPT ![m] = @ - 1]

\* Somebody else becomes responsible for a lock that was taken by hand.
Adopted(m) == byHand[m] > 0 /\ byHand' = [byHand EXCEPT ![m] = @ - 1]

Sets(g, m, o) ==
    /\ mutex' = [mutex EXCEPT ![g] = m]
    /\ owns' = [owns EXCEPT ![g] = o]

\* The test of the destructor and of move assignment: owns_ && mutex_.
GiveUp(g) == IF owns[g] /\ mutex[g] # nullptr THEN Unlocked(mutex[g]) ELSE UNCHANGED held

-----------------------------------------------------------------------------
\* The constructors: UniqueLock(m), (m, defer_lock), (m, try_to_lock),
\* (m, adopt_lock) and ().  try_lock() may also fail on a free mutex.
Construct(g, m) == g \notin alive /\ Grantable(m) /\ Locked(m) /\ Sets(g, m, TRUE)
                   /\ UNCHANGED byHand
ConstructDefer(g, m) == g \notin alive /\ Sets(g, m, FALSE) /\ UNCHANGED <<held, byHand>>
ConstructTry(g, m) == Construct(g, m) \/ ConstructDefer(g, m)
ConstructAdopt(g, m) == g \notin alive /\ Adopted(m) /\ Sets(g, m, TRUE)
                        /\ UNCHANGED held
ConstructNone(g) == g \notin alive /\ Sets(g, nullptr, FALSE) /\ UNCHANGED <<held, byHand>>

Born(g, A) == A /\ alive' = alive \cup {g}

Destroy(g) ==
    /\ g \in alive
    /\ GiveUp(g)
    /\ Sets(g, nullptr, FALSE)      \* the members are gone
    /\ alive' = alive \ {g}
    /\ UNCHANGED byHand

\* mutex_ and owns_ go from h to g, and h is left empty.
Moved(g, h) ==
    /\ mutex' = [mutex EXCEPT ![g] = mutex[h], ![h] = nullptr]
    /\ owns' = [owns EXCEPT ![g] = owns[h], ![h] = FALSE]

MoveConstruct(g, h) ==
    /\ g \notin alive /\ h \in alive
    /\ Moved(g, h)
    /\ UNCHANGED <<held, byHand>>

\* Mutant: the mutex that g owned is forgotten.
MoveAssignOver(g, h) ==
    /\ {g, h} \subseteq alive /\ g # h
    /\ Moved(g, h)
    /\ UNCHANGED <<held, alive, byHand>>

\* operator=(UniqueLock&&); assignment to itself returns at once.
MoveAssign(g, h) ==
    /\ {g, h} \subseteq alive /\ g # h
    /\ GiveUp(g)
    /\ Moved(g, h)
    /\ UNCHANGED <<alive, byHand>>

Swap(g, h) ==
    /\ {g, h} \subseteq alive
    /\ mutex' = [mutex EXCEPT ![g] = mutex[h], ![h] = mutex[g]]
    /\ owns' = [owns EXCEPT ![g] = owns[h], ![h] = owns[g]]
    /\ UNCHANGED <<held, alive, byHand>>

\* lock() and a try_lock() that succeeds; otherwise they change nothing.
Lock(g) ==
    /\ g \in alive /\ mutex[g] # nullptr /\ ~ owns[g]
    /\ Grantable(mutex[g]) /\ Locked(mutex[g])
    /\ Sets(g, mutex[g], TRUE)
    /\ UNCHANGED <<alive, byHand>>

Unlock(g) ==
    /\ g \in alive /\ mutex[g] # nullptr /\ owns[g]
    /\ Unlocked(mutex[g])
    /\ Sets(g, mutex[g], FALSE)
    /\ UNCHANGED <<alive, byHand>>

\* release(): a lock that was owned is the caller's from now on.
ReleaseMutex(g) ==
    /\ g \in alive
    /\ byHand' = IF owns[g] THEN [byHand EXCEPT ![mutex[g]] = @ + 1] ELSE byHand
    /\ Sets(g, nullptr, FALSE)
    /\ UNCHANGED <<held, alive>>

\* Every operation of an object.
ObjectStep(g) ==
    /\ \/ Born(g, ConstructNone(g))
       \/ \E m \in Mutexes :
            Born(g, Construct(g, m) \/ ConstructTry(g, m) \/ ConstructAdopt(g, m))
       \/ \E h \in Objects :
            Born(g, MoveConstruct(g, h)) \/ MoveAssign(g, h) \/ Swap(g, h)
       \/ Lock(g) \/ Unlock(g) \/ ReleaseMutex(g) \/ Destroy(g)
    /\ UNCHANGED <<class, guarded, others>>

UniqueLock(g) == class = "UniqueLock" /\ ObjectStep(g)
SharedLock(g) == class = "SharedLock" /\ ObjectStep(g)

\* m.lock() and m.unlock(), or the shared forms, without an object.
ByHand(m) ==
    /\ \/ Grantable(m) /\ Locked(m) /\ byHand' = [byHand EXCEPT ![m] = @ + 1]
       \/ Adopted(m) /\ Unlocked(m)
    /\ UNCHANGED <<class, objectVars, guarded, others>>

\* LockGuard(m), LockGuard(m, adopt_lock), which does not lock, and the
\* destructor, which unlocks in either case.
LockGuard(m) ==
    /\ class = "UniqueLock"
    /\ \/ Grantable(m) /\ Locked(m) /\ guarded' = guarded \cup {m} /\ UNCHANGED byHand
       \/ Adopted(m) /\ guarded' = guarded \cup {m} /\ UNCHANGED held
       \/ m \in guarded /\ Unlocked(m) /\ guarded' = guarded \ {m} /\ UNCHANGED byHand
    /\ UNCHANGED <<class, objectVars, others>>

-----------------------------------------------------------------------------
\* Another thread enters or leaves the scope of a guard that locks m in its
\* constructor and unlocks it in its destructor.
Scoped(m, how) ==
    /\ \/ /\ others[m] = "free"
          /\ held[m] = 0 \/ (how = "shared" /\ class = "SharedLock")
          /\ others' = [others EXCEPT ![m] = how]
       \/ others[m] = how /\ others' = [others EXCEPT ![m] = "free"]
    /\ UNCHANGED <<class, objectVars, held, byHand, guarded>>

BatchGuard(m)          == Scoped(m, "exclusive")
ExclusiveBatchGuard(m) == Scoped(m, "exclusive")
SharedBatchGuard(m)    == Scoped(m, "shared")

\* The objects that will unlock m.
OwnersOf(m) == {g \in alive : owns[g] /\ mutex[g] = m}
=============================================================================
