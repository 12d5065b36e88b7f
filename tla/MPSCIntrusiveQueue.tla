-------------------------- MODULE MPSCIntrusiveQueue --------------------------
(***************************************************************************)
(* psync::MPSCIntrusiveQueue (psync_mpsc_intrusive.h): a linked list of    *)
(* the client's own entries for many producers and one consumer.  A push   *)
(* swings list_head first and links the entry to its predecessor           *)
(* afterwards; the stub keeps the list from ever being without a node.     *)
(*                                                                         *)
(* The client pushes entries of a pool; the consumer calls pop() again and *)
(* again and gives what it gets back to the pool at once, where it may be  *)
(* pushed again or deleted.                                                *)
(***************************************************************************)
EXTENDS PushCalls, Sequences

CONSTANTS
    Consumer,       \* the thread that calls pop()
    Entries,        \* the client's entries
    Stub, Null      \* &stub_, nullptr

ASSUME IntrusiveAssumption ==
    /\ Consumer \notin Producers
    /\ IsFiniteSet(Entries)
    /\ Stub \notin Entries /\ Null \notin Entries \cup {Stub}

VARIABLES
    next,           \* next[n]: n->next
    list_head,      \* head_
    list_tail,      \* tail_
    lpc,            \* lpc[t]: where thread t is
    entry,          \* entry[t]: the argument of push()
    prev,           \* prev[t]: local `prev' of push()
    pool,           \* entries in the client's hands
    popped          \* what pop() has returned

linkVars == <<next, list_head, list_tail, lpc, entry, prev, pool, popped>>
listVars == <<linkVars, pushes>>

Callers == Producers \cup {Consumer}
At(t, label) == lpc' = [lpc EXCEPT ![t] = label]

ListInit ==
    /\ next = [n \in Entries \cup {Stub} |-> Null]
    /\ list_head = Stub /\ list_tail = Stub
    /\ lpc = [t \in Callers |-> "idle"]
    /\ entry = [t \in Callers |-> Null]
    /\ prev = [t \in Callers |-> Null]
    /\ PushesInit
    /\ pool = Entries
    /\ popped = <<>>

-----------------------------------------------------------------------------
\* push(): entry->next is cleared.
Clear(t, e) ==
    /\ next' = [next EXCEPT ![e] = Null]
    /\ entry' = [entry EXCEPT ![t] = e]
    /\ At(t, "exchange")

ListPush(p, e) ==
    /\ lpc[p] = "idle" /\ e \in pool /\ BeginPush(p)
    /\ Clear(p, e)
    /\ pool' = pool \ {e}
    /\ UNCHANGED <<list_head, list_tail, prev, popped>>

\* head_.exchange(entry)
Exchange(t) ==
    /\ lpc[t] = "exchange"
    /\ prev' = [prev EXCEPT ![t] = list_head]
    /\ list_head' = entry[t]
    /\ At(t, "link")
    /\ UNCHANGED <<next, list_tail, entry, pushes, pool, popped>>

\* prev->next.store(entry); the consumer, which pushed the stub, goes on.
Link(t) ==
    /\ lpc[t] = "link"
    /\ next' = [next EXCEPT ![prev[t]] = entry[t]]
    /\ prev' = [prev EXCEPT ![t] = Null]
    /\ entry' = [entry EXCEPT ![t] = Null]
    /\ At(t, IF t = Consumer THEN "last" ELSE "idle")
    /\ UNCHANGED <<list_head, list_tail, pushes, pool, popped>>

-----------------------------------------------------------------------------
\* tail_ = next; return tail
Deliver ==
    /\ list_tail' = next[list_tail]
    /\ popped' = Append(popped, list_tail)
    /\ pool' = pool \cup {list_tail}
    /\ At(Consumer, "idle")
    /\ UNCHANGED <<next, list_head, entry, prev, pushes>>

\* pop() goes to `label' without having changed anything.
PopGoto(label) ==
    /\ At(Consumer, label)
    /\ UNCHANGED <<next, list_head, list_tail, entry, prev, pushes, pool, popped>>

\* pop(): the load of tail->next; a stub at the tail is passed.
Pop ==
    /\ lpc[Consumer] = "idle"
    /\ \/ /\ list_tail = Stub /\ next[Stub] # Null
          /\ list_tail' = next[Stub]
          /\ At(Consumer, "after_stub")
          /\ UNCHANGED <<next, list_head, entry, prev, pushes, pool, popped>>
       \/ list_tail # Stub /\ next[list_tail] # Null /\ Deliver
       \/ list_tail # Stub /\ next[list_tail] = Null /\ PopGoto("load_head")

\* The load of the next pointer of the node behind the stub.
PopAfterStub ==
    /\ lpc[Consumer] = "after_stub"
    /\ \/ next[list_tail] # Null /\ Deliver
       \/ next[list_tail] = Null /\ PopGoto("load_head")

\* Mutant: returns the last entry although the stub is not behind it.
PopLoadHeadEager ==
    /\ lpc[Consumer] = "load_head"
    /\ IF list_tail # list_head THEN PopGoto("idle")
       ELSE /\ popped' = Append(popped, list_tail)
            /\ pool' = pool \cup {list_tail}
            /\ list_tail' = Stub
            /\ At(Consumer, "idle")
            /\ UNCHANGED <<next, list_head, entry, prev, pushes>>

\* Mutant: pushes the stub without a look at the head.
PopLoadHeadBlind == lpc[Consumer] = "load_head" /\ PopGoto("push_stub")

\* if (tail != head) a producer is between its exchange and its store, and
\* pop() returns nullptr; otherwise push(&stub_).
PopLoadHead ==
    /\ lpc[Consumer] = "load_head"
    /\ IF list_tail # list_head THEN PopGoto("idle") ELSE PopGoto("push_stub")

PopPushStub ==
    /\ lpc[Consumer] = "push_stub"
    /\ Clear(Consumer, Stub)
    /\ UNCHANGED <<list_head, list_tail, prev, pushes, pool, popped>>

\* The last load of tail->next.
PopLast ==
    /\ lpc[Consumer] = "last"
    /\ \/ next[list_tail] # Null /\ Deliver
       \/ next[list_tail] = Null /\ PopGoto("idle")

Consuming ==
    \/ Pop \/ PopAfterStub \/ PopLoadHead \/ PopPushStub
    \/ Exchange(Consumer) \/ Link(Consumer) \/ PopLast

Producing(p) == (\E e \in Entries : ListPush(p, e)) \/ Exchange(p) \/ Link(p)

\* Every push has returned and the consumer finds nothing.
ListOver ==
    /\ \A p \in Producers : lpc[p] = "idle" /\ pushes[p] = MaxPushes
    /\ lpc[Consumer] = "idle" /\ list_tail = Stub /\ next[Stub] = Null
    /\ UNCHANGED listVars

ListNext == Consuming \/ (\E p \in Producers : Producing(p)) \/ ListOver

\* Every thread that can run is scheduled, and the consumer keeps calling.
ListFairness == WF_listVars(Consuming) /\ \A p \in Producers : WF_listVars(Producing(p))

ListSpec == ListInit /\ [][ListNext]_listVars /\ ListFairness

-----------------------------------------------------------------------------
Nodes == Entries \cup {Stub}

\* n is linked to m, or about to be.
LeadsTo(n, m) ==
    \/ next[n] = m
    \/ \E t \in Callers : lpc[t] = "link" /\ prev[t] = n /\ entry[t] = m

\* The entries that links lead to from n: a set with n in it that lacks such an entry
\* has a link out of it.
EntriesFrom(n) ==
    {e \in Entries :
        \A S \in SUBSET (Nodes \ {e}) :
            n \in S => \E x \in S, y \in Nodes \ S : LeadsTo(x, y)}

\* The entries from list_tail on, in the order of the list: from the k-th one,
\* links lead to all but k - 1 of them.
ListItems ==
    LET listed == EntriesFrom(list_tail)
    IN  [k \in 1 .. Cardinality(listed) |->
            CHOOSE e \in listed : Cardinality(listed \ EntriesFrom(e)) = k - 1]

\* The list is a queue: entries come out in the order of the exchanges, each
\* as often as it was pushed, whichever links are still missing.
ListAbstract == INSTANCE AbstractQueue
                    WITH Values <- Entries, items <- ListItems,
                         pending <- {}, received <- popped
ListImplementsQueue == ListAbstract!Spec

\* pop() never returns an entry that somebody is still going to touch: no
\* producer is about to link to one in the client's hands, which may be
\* deleted there, and every entry is in one place.
EntriesOwned ==
    LET items   == ListItems
        listed  == {items[i] : i \in DOMAIN items}
        pushing == {entry[p] : p \in {q \in Producers : lpc[q] = "exchange"}}
    IN  /\ \A t \in Callers : lpc[t] = "link" => prev[t] \notin pool
        /\ pool \cup listed \cup pushing = Entries
        /\ Cardinality(pool) + Len(items) + Cardinality(pushing)
              = Cardinality(Entries)

\* Everything the clients push comes out.
ListDone ==
    /\ \A p \in Producers : lpc[p] = "idle" /\ pushes[p] = MaxPushes
    /\ pool = Entries
=============================================================================
