---------------------------- MODULE EpochManager ----------------------------
(***************************************************************************)
(* psync::EpochManager (psync_epoch.h): epoch-based reclamation.           *)
(*                                                                         *)
(* The client is the one the class is for: one shared pointer that readers *)
(* follow inside enter()/exit(), and that updaters replace before they     *)
(* retire() the node it pointed to; nodes are numbered in the order in     *)
(* which the pointer takes them.  Anybody may call try_reclaim().          *)
(*                                                                         *)
(* One action is one access to a shared variable.  The retired list is     *)
(* only touched under reclaim_mu_: a push, and a whole pass of             *)
(* try_reclaim() over the list, are one step each.  The deleters are taken *)
(* not to call back into the manager.                                      *)
(*                                                                         *)
(* Next is for a machine on which the store of enter() is visible before   *)
(* the reader's next load, as a full fence would make it.  The code has a  *)
(* release store and a compiler fence there; BufferedNext adds what a      *)
(* processor with a store buffer does with them.                           *)
(***************************************************************************)
EXTENDS Integers, FiniteSets

CONSTANTS
    Readers, Updaters, Reclaimers,  \* the threads that call the manager
    kMaxThreads,                    \* slots (128 in the code)
    kInactiveEpoch,                 \* the epoch of a slot outside enter()/exit()
    NoNode,                         \* a null pointer
    MaxNodes,                       \* bound: nodes the client ever allocates
    MaxReclaims                     \* bound: try_reclaim() calls of a thread

ASSUME EpochAssumption ==
    /\ kMaxThreads \in Nat \ {0}
    /\ kInactiveEpoch \notin Nat
    /\ NoNode \notin Nat
    /\ MaxNodes \in Nat \ {0} /\ MaxReclaims \in Nat
    /\ Readers \cap (Updaters \cup Reclaimers) = {}

VARIABLES
    global_epoch,   \* global_epoch_
    active_epoch,   \* active_epoch[i], in_use[i]: the ThreadState of slot i
    in_use,
    retired,        \* the RetiredNodes on the list at retired_head_; their
                    \* order does not matter
    shared,         \* the client's pointer
    freed,          \* nodes whose deleter has run
    pc,             \* pc[t]: where thread t is
    slot,           \* slot[t]: the slot t uses, or tries next
    held,           \* held[t]: the node t has a pointer to
    epoch,          \* epoch[t]: local `e' of enter() and retire_internal(),
                    \* `min_epoch' of try_reclaim()
    current,        \* current[t]: local `current' of try_reclaim()
    reclaims        \* reclaims[t]: calls of try_reclaim() still to come

vars == <<global_epoch, active_epoch, in_use, retired, shared, freed,
          pc, slot, held, epoch, current, reclaims>>

Threads == Readers \cup Updaters \cup Reclaimers
Slots == 0 .. kMaxThreads - 1

Goto(t, label) == pc' = [pc EXCEPT ![t] = label]

Init ==
    /\ global_epoch = 1
    /\ active_epoch = [i \in Slots |-> kInactiveEpoch]
    /\ in_use = [i \in Slots |-> FALSE]
    /\ retired = {}
    /\ shared = 1
    /\ freed = {}
    /\ pc = [t \in Threads |-> "idle"]
    /\ slot = [t \in Threads |-> 0]
    /\ held = [t \in Threads |-> NoNode]
    /\ epoch = [t \in Threads |-> 0]
    /\ current = [t \in Threads |-> 0]
    /\ reclaims = [t \in Reclaimers |-> MaxReclaims]

-----------------------------------------------------------------------------
\* register_thread(): one compare-exchange of the loop over the slots; after
\* the last one the thread falls back to slot 0.
RegisterStep(t, last) ==
    LET i == slot[t]
    IN  /\ pc[t] \in {"idle", "register"}
        /\ IF ~ in_use[i]
           THEN in_use' = [in_use EXCEPT ![i] = TRUE] /\ Goto(t, "outside")
                /\ slot' = slot
           ELSE IF i < last
           THEN slot' = [slot EXCEPT ![t] = i + 1] /\ Goto(t, "register")
                /\ in_use' = in_use
           ELSE slot' = [slot EXCEPT ![t] = 0] /\ Goto(t, "outside")
                /\ in_use' = in_use
        /\ UNCHANGED <<global_epoch, active_epoch, retired, shared, freed,
                       held, epoch, current, reclaims>>

\* Mutant: the loop stops one slot early.
RegisterShort(t) == t \in Readers /\ RegisterStep(t, kMaxThreads - 2)

RegisterThread(t) == t \in Readers /\ RegisterStep(t, kMaxThreads - 1)

\* A store to active_epoch of the thread's slot.
StoreActive(t, e) == active_epoch' = [active_epoch EXCEPT ![slot[t]] = e]

\* Mutant: gives the slot away before its last store to it.
UnregisterSwapped(t) ==
    /\ \/ /\ pc[t] = "outside"
          /\ in_use' = [in_use EXCEPT ![slot[t]] = FALSE]
          /\ Goto(t, "unregister")
          /\ UNCHANGED <<active_epoch, slot>>
       \/ /\ pc[t] = "unregister"
          /\ StoreActive(t, kInactiveEpoch)
          /\ slot' = [slot EXCEPT ![t] = 0]
          /\ Goto(t, "idle")
          /\ UNCHANGED in_use
    /\ UNCHANGED <<global_epoch, retired, shared, freed, held, epoch, current,
                   reclaims>>

\* unregister_thread(): two stores.
UnregisterThread(t) ==
    /\ \/ /\ pc[t] = "outside"
          /\ StoreActive(t, kInactiveEpoch)
          /\ Goto(t, "unregister")
          /\ UNCHANGED <<in_use, slot>>
       \/ /\ pc[t] = "unregister"
          /\ in_use' = [in_use EXCEPT ![slot[t]] = FALSE]
          /\ slot' = [slot EXCEPT ![t] = 0]
          /\ Goto(t, "idle")
          /\ UNCHANGED active_epoch
    /\ UNCHANGED <<global_epoch, retired, shared, freed, held, epoch, current,
                   reclaims>>

\* enter(): the load of global_epoch_ ...
EnterLoad(t) ==
    /\ pc[t] = "outside"
    /\ epoch' = [epoch EXCEPT ![t] = global_epoch]
    /\ Goto(t, "publish")
    /\ UNCHANGED <<global_epoch, active_epoch, in_use, retired, shared, freed,
                   slot, held, current, reclaims>>

\* ... and the store that publishes it.
EnterStore(t) ==
    /\ pc[t] \in {"publish", "publish_late"}
    /\ StoreActive(t, epoch[t])
    /\ epoch' = [epoch EXCEPT ![t] = 0]
    /\ Goto(t, "inside")
    /\ UNCHANGED <<global_epoch, in_use, retired, shared, freed, slot, held,
                   current, reclaims>>

\* The client reads the shared pointer inside the critical section.
Follow(t) ==
    /\ pc[t] = "inside" /\ held[t] = NoNode
    /\ held' = [held EXCEPT ![t] = shared]
    /\ UNCHANGED <<global_epoch, active_epoch, in_use, retired, shared, freed,
                   pc, slot, epoch, current, reclaims>>

\* The same load, satisfied while the store of enter() is still in the store
\* buffer: a release store does not order a later load behind it.
FollowEarly(t) ==
    /\ pc[t] = "publish"
    /\ held' = [held EXCEPT ![t] = shared]
    /\ Goto(t, "publish_late")
    /\ UNCHANGED <<global_epoch, active_epoch, in_use, retired, shared, freed,
                   slot, epoch, current, reclaims>>

\* exit(): the reader has dropped its pointer and stores kInactiveEpoch.
Exit(t) ==
    /\ pc[t] = "inside"
    /\ StoreActive(t, kInactiveEpoch)
    /\ held' = [held EXCEPT ![t] = NoNode]
    /\ Goto(t, "outside")
    /\ UNCHANGED <<global_epoch, in_use, retired, shared, freed, slot, epoch,
                   current, reclaims>>

-----------------------------------------------------------------------------
\* The client's updater replaces the node and keeps the old one to retire.
Unlink(t) ==
    /\ t \in Updaters /\ pc[t] = "idle" /\ shared < MaxNodes
    /\ held' = [held EXCEPT ![t] = shared]
    /\ shared' = shared + 1
    /\ Goto(t, "retire")
    /\ UNCHANGED <<global_epoch, active_epoch, in_use, retired, freed, slot,
                   epoch, current, reclaims>>

\* retire(), retire_internal(): the load of global_epoch_ ...
RetireLoad(t) ==
    /\ pc[t] = "retire"
    /\ epoch' = [epoch EXCEPT ![t] = global_epoch]
    /\ Goto(t, "push")
    /\ UNCHANGED <<global_epoch, active_epoch, in_use, retired, shared, freed,
                   slot, held, current, reclaims>>

\* ... and the push onto the list, under reclaim_mu_.
RetirePush(t) ==
    /\ pc[t] = "push"
    /\ retired' = retired \cup {[node |-> held[t], epoch |-> epoch[t]]}
    /\ held' = [held EXCEPT ![t] = NoNode]
    /\ epoch' = [epoch EXCEPT ![t] = 0]
    /\ Goto(t, "idle")
    /\ UNCHANGED <<global_epoch, active_epoch, in_use, shared, freed, slot,
                   current, reclaims>>

-----------------------------------------------------------------------------
\* try_reclaim(): the load of global_epoch_.
ReclaimLoad(t) ==
    /\ t \in Reclaimers /\ pc[t] = "idle" /\ reclaims[t] > 0
    /\ reclaims' = [reclaims EXCEPT ![t] = @ - 1]
    /\ current' = [current EXCEPT ![t] = global_epoch]
    /\ epoch' = [epoch EXCEPT ![t] = global_epoch]
    /\ Goto(t, "scan")
    /\ UNCHANGED <<global_epoch, active_epoch, in_use, retired, shared, freed,
                   slot, held>>

\* The next slot of the scan, or the end of the loop.
NextSlot(t) ==
    IF slot[t] + 1 \in Slots
    THEN slot' = [slot EXCEPT ![t] = @ + 1] /\ Goto(t, "scan")
    ELSE slot' = [slot EXCEPT ![t] = 0] /\ Goto(t, "advance")

\* The load of in_use of a slot.
ScanInUse(t) ==
    /\ pc[t] = "scan"
    /\ IF in_use[slot[t]] THEN Goto(t, "scan_epoch") /\ slot' = slot
                          ELSE NextSlot(t)
    /\ UNCHANGED <<global_epoch, active_epoch, in_use, retired, shared, freed,
                   held, epoch, current, reclaims>>

\* The load of active_epoch, and min_epoch.
ScanEpoch(t) ==
    LET e == active_epoch[slot[t]]
    IN  /\ pc[t] = "scan_epoch"
        /\ epoch' = [epoch EXCEPT ![t] =
                        IF e # kInactiveEpoch /\ e < @ THEN e ELSE @]
        /\ NextSlot(t)
        /\ UNCHANGED <<global_epoch, active_epoch, in_use, retired, shared,
                       freed, held, current, reclaims>>

\* global_epoch_.fetch_add(1) if everybody has caught up.
Advance(t) ==
    /\ pc[t] = "advance"
    /\ global_epoch' = IF epoch[t] = current[t] THEN global_epoch + 1
                                                ELSE global_epoch
    /\ current' = [current EXCEPT ![t] = 0]
    /\ Goto(t, "sweep")
    /\ UNCHANGED <<active_epoch, in_use, retired, shared, freed, slot, held,
                   epoch, reclaims>>

Nodes(list) == {r.node : r \in list}

\* Mutant: also unlinks the nodes of min_epoch itself, without deleting them.
KeptLater(list, min_epoch) == {r \in list : r.epoch > min_epoch}

\* The nodes of the list that a pass with min_epoch leaves in it.
Kept(list, min_epoch) == {r \in list : ~ (r.epoch < min_epoch)}

\* The pass over the list: nodes retired before min_epoch are unlinked and
\* deleted.
Sweep(t) ==
    /\ pc[t] = "sweep"
    /\ retired' = Kept(retired, epoch[t])
    /\ freed' = freed \cup {r.node : r \in {q \in retired : q.epoch < epoch[t]}}
    /\ epoch' = [epoch EXCEPT ![t] = 0]
    /\ Goto(t, "idle")
    /\ UNCHANGED <<global_epoch, active_epoch, in_use, shared, slot, held,
                   current, reclaims>>

\* ~EpochManager(): reclaim_all(), once no thread uses the manager.
Destroy ==
    /\ \A t \in Threads : pc[t] = "idle"
    /\ freed' = freed \cup Nodes(retired)
    /\ retired' = {}
    /\ pc' = [t \in Threads |-> "gone"]
    /\ UNCHANGED <<global_epoch, active_epoch, in_use, shared, slot, held,
                   epoch, current, reclaims>>

Gone == (\A t \in Threads : pc[t] = "gone") /\ UNCHANGED vars

-----------------------------------------------------------------------------
Step(t) ==
    \/ RegisterThread(t) \/ UnregisterThread(t)
    \/ EnterLoad(t) \/ EnterStore(t) \/ Follow(t) \/ Exit(t)
    \/ Unlink(t) \/ RetireLoad(t) \/ RetirePush(t)
    \/ ReclaimLoad(t) \/ ScanInUse(t) \/ ScanEpoch(t) \/ Advance(t) \/ Sweep(t)

Next == (\E t \in Threads : Step(t)) \/ Destroy \/ Gone

Spec == Init /\ [][Next]_vars

\* The same code on a processor with a store buffer.
BufferedNext == Next \/ \E t \in Readers : FollowEarly(t)

BufferedSpec == Init /\ [][BufferedNext]_vars

-----------------------------------------------------------------------------
\* "Solves the reader-use-after-free problem": the deleter of a node has not
\* run while a reader has a pointer to it.
NoUseAfterFree == \A t \in Readers : held[t] \notin freed

Registered(t) == pc[t] \notin {"idle", "register", "gone"}

\* Every registered reader has a slot to itself, marked in use: with as many
\* slots as readers the single pass of register_thread() never ends in the
\* fallback, although it may pass a slot that is given back behind it.
SlotsOwned ==
    \A t \in Readers : Registered(t) =>
        /\ in_use[slot[t]]
        /\ \A u \in Readers : Registered(u) /\ slot[u] = slot[t] => u = t

\* Every node taken out of the client's pointer is in one place: with the
\* updater that is about to push it, on the list once, or freed; nothing is
\* leaked and nothing is deleted twice.
RetiredAccounted ==
    LET pushing == {held[t] : t \in {u \in Updaters : held[u] # NoNode}}
        listed  == Nodes(retired)
    IN  /\ pushing \cup listed \cup freed = 1 .. shared - 1
        /\ pushing \cap listed = {} /\ (pushing \cup listed) \cap freed = {}
        /\ Cardinality(listed) = Cardinality(retired)

-----------------------------------------------------------------------------
(***************************************************************************)
(* The inductive invariant behind NoUseAfterFree.                          *)
(***************************************************************************)
ReaderLabels == {"idle", "register", "outside", "unregister", "publish",
                 "inside", "gone"}
WriterLabels == {"idle", "retire", "push", "scan", "scan_epoch", "advance",
                 "sweep", "gone"}

EpochTypeOK ==
    /\ global_epoch \in Nat
    /\ active_epoch \in [Slots -> Nat \cup {kInactiveEpoch}]
    /\ in_use \in [Slots -> BOOLEAN]
    /\ retired \in SUBSET [node : Nat, epoch : Nat]
    /\ shared \in Nat
    /\ freed \in SUBSET Nat
    /\ pc \in [Threads -> ReaderLabels \cup WriterLabels]
    /\ \A t \in Threads : pc[t] \in (IF t \in Readers THEN ReaderLabels
                                                      ELSE WriterLabels)
    /\ slot \in [Threads -> Slots]
    /\ held \in [Threads -> Nat \cup {NoNode}]
    /\ epoch \in [Threads -> Nat]
    /\ current \in [Threads -> Nat]

\* Readers have a pointer only inside, and inside their slot is published.
ReadersInside ==
    \A t \in Readers :
        /\ held[t] # NoNode => pc[t] = "inside"
        /\ pc[t] = "inside" => active_epoch[slot[t]] \in 0 .. global_epoch
        /\ pc[t] = "publish" => epoch[t] <= global_epoch

\* The client's pointer leads to none of the nodes that are on their way out.
Unlinked ==
    /\ \A t \in Threads : pc[t] \in {"retire", "push"} =>
          held[t] \in Nat /\ held[t] < shared
    /\ \A r \in retired : r.node < shared
    /\ \A n \in freed : n < shared

\* min_epoch never exceeds the global epoch, and a scan begins at slot 0.
MinEpoch ==
    \A u \in Threads :
        /\ pc[u] \in {"scan", "scan_epoch", "advance", "sweep"} =>
              epoch[u] <= global_epoch
        /\ u \notin Readers /\ pc[u] \notin {"scan", "scan_epoch"} => slot[u] = 0

\* Node n has been retired with epoch e: it is on the list, or about to be.
RetiredAt(n, e) ==
    \/ \E r \in retired : r.node = n /\ r.epoch = e
    \/ \E u \in Threads : pc[u] = "push" /\ held[u] = n /\ epoch[u] = e

\* The scan of u has passed slot i.
Scanned(u, i) ==
    \/ pc[u] \in {"advance", "sweep"}
    \/ pc[u] \in {"scan", "scan_epoch"} /\ slot[u] > i

\* The node a reader has a pointer to was retired no earlier than the reader
\* entered, and no min_epoch computed past the reader's slot exceeds the
\* epoch of its retirement.
Protected ==
    \A t \in Readers : \A e \in Nat :
        (held[t] # NoNode /\ RetiredAt(held[t], e)) =>
            /\ active_epoch[slot[t]] <= e
            /\ \A u \in Threads : Scanned(u, slot[t]) => epoch[u] <= e

IInv == /\ EpochTypeOK /\ ReadersInside /\ Unlinked /\ MinEpoch /\ Protected
        /\ NoUseAfterFree

\* The readers whose slot, taken or tried next, is i or a later one.
AtOrPast(i) == {t \in Readers : slot[t] >= i}

\* Why the single pass of register_thread() finds a slot when there are as
\* many as readers: a slot in use has a registered owner, and a reader that
\* passes slot i leaves that owner behind, so at most n - i of the n readers
\* are at slot i or past it.
SlotsAhead ==
    /\ \A i \in Slots : in_use[i] => \E t \in Readers : Registered(t) /\ slot[t] = i
    /\ \A i \in Slots : AtOrPast(i) # {} =>
          Cardinality(AtOrPast(i)) + i <= Cardinality(Readers)
=============================================================================
