----------------------------- MODULE SpinLocks -----------------------------
(***************************************************************************)
(* psync::SpinLock and psync::TicketLock (psync_spinlock.h).  The word is  *)
(* state_ of the one and now_serving_ of the other.  Pauses and yields     *)
(* change nothing, and neither does a load that keeps a thread spinning.   *)
(*                                                                         *)
(* The tickets are counted modulo TicketModulus (2^32 in the code).  A     *)
(* try_lock() that is held up while exactly TicketModulus tickets are      *)
(* drawn would take its ticket out of turn; the assumption excludes that.  *)
(***************************************************************************)
EXTENDS FutexWord

CONSTANT TicketModulus

ASSUME TicketAssumption ==
    /\ TicketModulus \in Nat /\ TicketModulus > Cardinality(Threads)
    /\ \A t \in Threads :
          TicketModulus > Cardinality(Units(MaxCalls, Threads \ {t}))

VARIABLE next_ticket    \* next_ticket_

\* The compare-exchange 0 -> 1 of lock() and try_lock().
SpinLock(t) ==
    /\ word' = 1
    /\ Begin(t, "lock", IF word = 0 THEN "in" ELSE "loop", 0)

SpinTryLock(t) ==
    /\ word' = 1
    /\ Begin(t, "try_lock", IF word = 0 THEN "in" ELSE "out", 0)

\* The inner loop ends.
SpinLoad(t) ==
    /\ pc[t] = "loop" /\ word = 0
    /\ Move(t, "cas", 0)
    /\ UNCHANGED word

\* Mutant: the load is trusted and the state stored.
SpinCasByStore(t) ==
    /\ pc[t] = "cas"
    /\ word' = 1
    /\ Move(t, "in", 0)

SpinCas(t) ==
    /\ pc[t] = "cas"
    /\ word' = 1
    /\ Move(t, IF word = 0 THEN "in" ELSE "loop", 0)

SpinUnlock(t) ==
    /\ pc[t] = "in"
    /\ word' = 0
    /\ Move(t, "out", 0)

SpinRun(t) == SpinLoad(t) \/ SpinCas(t) \/ SpinUnlock(t)

-----------------------------------------------------------------------------
After(ticket) == (ticket + 1) % TicketModulus

TicketInit == next_ticket = 0

\* my_ticket = atomic_fetch_add(&next_ticket_, 1)
DrawTicket(t) ==
    /\ next_ticket' = After(next_ticket)
    /\ Begin(t, "lock", "loop", next_ticket)
    /\ UNCHANGED word

\* The loop ends: the ticket is served.
Served(t) ==
    /\ pc[t] = "loop" /\ word = local[t]
    /\ Move(t, "in", 0)
    /\ UNCHANGED <<word, next_ticket>>

\* serving = atomic_load(&now_serving_)
TicketTryLock(t) ==
    /\ Begin(t, "try_lock", "load_next", word)
    /\ UNCHANGED <<word, next_ticket>>

LoadNext(t) ==
    /\ pc[t] = "load_next"
    /\ Move(t, IF next_ticket = local[t] THEN "cas" ELSE "out", local[t])
    /\ UNCHANGED <<word, next_ticket>>

\* Mutant: takes a ticket whatever the counter says.
TicketCasByAdd(t) ==
    /\ pc[t] = "cas"
    /\ next_ticket' = After(next_ticket)
    /\ Move(t, "in", 0)
    /\ UNCHANGED word

\* The compare-exchange serving -> serving + 1 of next_ticket_.
TicketCas(t) ==
    /\ pc[t] = "cas"
    /\ IF next_ticket = local[t]
       THEN next_ticket' = After(next_ticket) /\ Move(t, "in", 0)
       ELSE UNCHANGED next_ticket /\ Move(t, "out", 0)
    /\ UNCHANGED word

TicketUnlock(t) ==
    /\ pc[t] = "in"
    /\ word' = After(word)
    /\ Move(t, "out", 0)
    /\ UNCHANGED next_ticket

TicketRun(t) ==
    Served(t) \/ LoadNext(t) \/ TicketCas(t) \/ TicketUnlock(t)

-----------------------------------------------------------------------------
Owners == {t \in Threads : pc[t] = "in"}

\* How many tickets are served before t's.
Ahead(t) == (local[t] - word) % TicketModulus
=============================================================================
