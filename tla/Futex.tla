------------------------------- MODULE Futex -------------------------------
(***************************************************************************)
(* The wake side of psync::futex (psync_platform.h).  A futex address is   *)
(* represented by the set of threads asleep on it: every module derives    *)
(* that set from its program counters, so that futex::wait(addr, val) is   *)
(* one atomic step "compare the word with val; fall asleep if equal, else  *)
(* return EAGAIN", which is what FUTEX_WAIT_PRIVATE does.                  *)
(*                                                                         *)
(* The kernel chooses whom it wakes.  The library never looks at the       *)
(* result of a wait, so EAGAIN, EINTR and a real wake-up are the same      *)
(* event to the caller; a return without a wake is an action of its own in *)
(* the modules that sleep.                                                 *)
(***************************************************************************)
LOCAL INSTANCE FiniteSets
LOCAL INSTANCE Naturals

\* futex::wake(addr, 1): the possible sets of threads woken out of the
\* sleepers S.  At most one, and one whenever anybody sleeps.
WakeOne(S) == IF S = {} THEN {{}} ELSE {{s} : s \in S}

\* futex::wake(addr, n): n of the sleepers, or all of them if there are fewer.
WakeSome(S, n) ==
    IF Cardinality(S) <= n THEN {S} ELSE {T \in SUBSET S : Cardinality(T) = n}

\* futex::wake_all(addr): everybody asleep on the address.
WakeAll(S) == {S}

=============================================================================
