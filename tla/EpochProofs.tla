----------------------------- MODULE EpochProofs -----------------------------
(***************************************************************************)
(* psync::EpochManager deletes no node under a reader, for any number of   *)
(* threads, nodes, slots and epochs, as long as there are at least as many *)
(* slots as readers and the store of enter() is not delayed.               *)
(***************************************************************************)
EXTENDS EpochManager, FiniteSetTheorems, TLAPS

\* The initial state satisfies the invariant.
LEMMA InitIInv == Init => IInv
  <1> SUFFICES ASSUME Init PROVE IInv
    OBVIOUS
  <1> USE DEF Init
  <1>1. 0 \in Slots
    BY EpochAssumption DEF Slots
  <1>2. \A t \in Threads : pc[t] = "idle" /\ held[t] = NoNode /\ slot[t] = 0
    OBVIOUS
  <1>3. EpochTypeOK
    BY <1>1 DEF EpochTypeOK, ReaderLabels, WriterLabels
  <1>4. ReadersInside /\ Unlinked /\ MinEpoch
    BY <1>2 DEF ReadersInside, Unlinked, MinEpoch, Threads
  <1>5. Protected /\ NoUseAfterFree
    BY <1>2 DEF Protected, NoUseAfterFree, Threads
  <1> QED BY <1>3, <1>4, <1>5 DEF IInv

\* A step keeps Protected if it gives no reader a pointer, leaves the slots
\* of those that have one alone, retires nothing and completes no scan.
LEMMA ProtectedFrame ==
    ASSUME Protected, EpochTypeOK,
           \A r \in Readers : held'[r] # NoNode =>
              /\ held'[r] = held[r] /\ slot'[r] = slot[r]
              /\ active_epoch'[slot[r]] = active_epoch[slot[r]],
           \A n, e \in Nat : RetiredAt(n, e)' => RetiredAt(n, e),
           \A u \in Threads, i \in Slots :
              Scanned(u, i)' => Scanned(u, i) /\ epoch'[u] <= epoch[u],
           epoch' \in [Threads -> Nat]
    PROVE  Protected'
  <1> SUFFICES ASSUME NEW r \in Readers, NEW e \in Nat, held'[r] # NoNode,
                      RetiredAt(held[r], e)'
               PROVE  /\ (active_epoch[slot[r]] <= e)'
                      /\ \A u \in Threads :
                            Scanned(u, slot[r])' => epoch'[u] <= e
    BY DEF Protected
  <1>1. held'[r] = held[r] /\ slot'[r] = slot[r]
        /\ active_epoch'[slot[r]] = active_epoch[slot[r]]
    OBVIOUS
  <1>2. r \in Threads /\ held[r] \in Nat /\ slot[r] \in Slots
    BY <1>1 DEF Threads, EpochTypeOK
  <1>3. RetiredAt(held[r], e)
    <2>1. \A n \in Nat : n = held'[r] => RetiredAt(n, e)'
      BY DEF RetiredAt
    <2> QED BY <1>1, <1>2, <2>1
  <1>4. /\ active_epoch[slot[r]] <= e
        /\ \A u \in Threads : Scanned(u, slot[r]) => epoch[u] <= e
    BY <1>1, <1>3 DEF Protected
  <1>5. ASSUME NEW u \in Threads, Scanned(u, slot[r])'
        PROVE  epoch'[u] <= e
    <2>1. \A i \in Slots : i = slot'[r] => Scanned(u, i)'
      BY <1>5 DEF Scanned
    <2>2. Scanned(u, slot[r]) /\ epoch'[u] <= epoch[u]
      BY <1>1, <1>2, <2>1
    <2>3. epoch[u] \in Nat /\ epoch'[u] \in Nat
      BY DEF EpochTypeOK
    <2> QED BY <1>4, <2>2, <2>3
  <1> QED BY <1>1, <1>4, <1>5

\* register_thread(): the thread has no pointer yet, and no reader scans.
LEMMA RegisterIInv ==
    ASSUME IInv, NEW t \in Threads, RegisterThread(t)
    PROVE  IInv'
  <1> USE DEF IInv
  <1>1. /\ t \in Readers /\ pc[t] \in {"idle", "register"}
        /\ active_epoch' = active_epoch /\ retired' = retired /\ held' = held
        /\ epoch' = epoch /\ global_epoch' = global_epoch /\ shared' = shared
        /\ freed' = freed /\ current' = current
    BY DEF RegisterThread, RegisterStep
  <1>2. PICK label \in {"outside", "register"} : pc' = [pc EXCEPT ![t] = label]
    BY DEF RegisterThread, RegisterStep, Goto
  <1>3. /\ slot' \in [Threads -> Slots] /\ in_use' \in [Slots -> BOOLEAN]
        /\ \A u \in Threads : u # t => slot'[u] = slot[u]
    <2>1. slot[t] \in Slots /\ 0 \in Slots
      BY EpochAssumption DEF EpochTypeOK, Slots
    <2>2. slot[t] < kMaxThreads - 1 => slot[t] + 1 \in Slots
      BY <2>1, EpochAssumption DEF Slots
    <2> QED BY <2>1, <2>2, ZenonT(60) DEF RegisterThread, RegisterStep, EpochTypeOK
  <1>4. held[t] = NoNode /\ pc \in [Threads -> ReaderLabels \cup WriterLabels]
    BY <1>1 DEF ReadersInside, EpochTypeOK
  <1>5. EpochTypeOK'
    BY <1>1, <1>2, <1>3 DEF EpochTypeOK, ReaderLabels, WriterLabels
  <1>6. ReadersInside'
    BY <1>1, <1>2, <1>3, <1>4 DEF ReadersInside, Threads
  <1>7. Unlinked' /\ MinEpoch' /\ NoUseAfterFree'
    BY <1>1, <1>2, <1>3, <1>4 DEF Unlinked, MinEpoch, NoUseAfterFree
  <1>8. Protected'
    <2>1. \A n, e \in Nat : RetiredAt(n, e)' => RetiredAt(n, e)
      BY <1>1, <1>2, <1>4 DEF RetiredAt
    <2>2. \A u \in Threads, i \in Slots : Scanned(u, i)' => Scanned(u, i)
      BY <1>2, <1>3, <1>4 DEF Scanned
    <2>3. \A r \in Readers : held'[r] # NoNode => held'[r] = held[r] /\ slot'[r] = slot[r]
      BY <1>1, <1>3, <1>4 DEF Threads
    <2>4. epoch' \in [Threads -> Nat] /\ \A u \in Threads : epoch'[u] <= epoch[u]
      BY <1>1 DEF EpochTypeOK
    <2> QED BY <1>1, <2>1, <2>2, <2>3, <2>4, ProtectedFrame
  <1> QED BY <1>5, <1>6, <1>7, <1>8

\* A step of reader t that may store to its own slot, and that ends without a
\* pointer: no other reader's slot is touched.
LEMMA ReaderStoreIInv ==
    ASSUME IInv, SlotsOwned, NEW t \in Readers, Registered(t),
           NEW label \in ReaderLabels, Goto(t, label),
           NEW e \in Nat \cup {kInactiveEpoch},
           StoreActive(t, e) \/ active_epoch' = active_epoch,
           label = "inside" => StoreActive(t, e) /\ e \in 0 .. global_epoch,
           in_use' \in [Slots -> BOOLEAN],
           slot' \in [Threads -> Slots],
           \A u \in Threads : u # t \/ label = "inside" => slot'[u] = slot[u],
           held' \in [Threads -> Nat \cup {NoNode}], held'[t] = NoNode,
           \A u \in Threads : u # t => held'[u] = held[u],
           epoch' \in [Threads -> Nat],
           \A u \in Threads : u # t => epoch'[u] = epoch[u],
           label = "publish" => epoch'[t] <= global_epoch,
           UNCHANGED <<global_epoch, retired, shared, freed, current>>
    PROVE  IInv'
  <1> USE DEF IInv
  <1>1. /\ t \in Threads /\ pc' = [pc EXCEPT ![t] = label]
        /\ pc \in [Threads -> ReaderLabels \cup WriterLabels]
        /\ pc[t] \in ReaderLabels
    BY DEF Goto, Threads, EpochTypeOK
  <1>2. EpochTypeOK'
    <2>1. active_epoch' \in [Slots -> Nat \cup {kInactiveEpoch}]
      BY <1>1 DEF StoreActive, EpochTypeOK
    <2> QED BY <1>1, <2>1 DEF EpochTypeOK
  <1>3. \A r \in Readers : (r # t /\ pc[r] = "inside") =>
           /\ slot'[r] = slot[r]
           /\ active_epoch'[slot[r]] = active_epoch[slot[r]]
    <2> SUFFICES ASSUME NEW r \in Readers, r # t, pc[r] = "inside"
                 PROVE  /\ slot'[r] = slot[r]
                        /\ active_epoch'[slot[r]] = active_epoch[slot[r]]
      OBVIOUS
    <2>1. r \in Threads /\ slot[r] \in Slots /\ slot'[r] = slot[r]
      BY DEF Threads, EpochTypeOK
    <2>2. slot[r] # slot[t]
      BY DEF SlotsOwned, Registered
    <2>3. active_epoch \in [Slots -> Nat \cup {kInactiveEpoch}]
      BY DEF EpochTypeOK
    <2> QED BY <2>1, <2>2, <2>3 DEF StoreActive
  <1>4. label = "inside" => active_epoch'[slot'[t]] \in 0 .. global_epoch
    <2>1. slot[t] \in Slots /\ active_epoch \in [Slots -> Nat \cup {kInactiveEpoch}]
      BY <1>1 DEF EpochTypeOK
    <2> QED BY <1>1, <2>1 DEF StoreActive
  <1>5. ReadersInside'
    <2> SUFFICES ASSUME NEW r \in Readers
                 PROVE  /\ held'[r] # NoNode => pc'[r] = "inside"
                        /\ pc'[r] = "inside" =>
                              active_epoch'[slot'[r]] \in 0 .. global_epoch'
                        /\ pc'[r] = "publish" => epoch'[r] <= global_epoch'
      BY DEF ReadersInside
    <2>1. CASE r = t
      BY <1>1, <1>4, <2>1
    <2>2. CASE r # t
      <3>1. r \in Threads /\ pc'[r] = pc[r] /\ held'[r] = held[r] /\ epoch'[r] = epoch[r]
        BY <1>1, <2>2 DEF Threads
      <3> QED BY <1>3, <2>2, <3>1 DEF ReadersInside
    <2> QED BY <2>1, <2>2
  <1>6. Unlinked'
    BY <1>1 DEF Unlinked, ReaderLabels
  <1>7. MinEpoch'
    BY <1>1 DEF MinEpoch, ReaderLabels
  <1>8. NoUseAfterFree'
    <2>1. NoNode \notin freed
      BY EpochAssumption DEF EpochTypeOK
    <2> QED BY <2>1 DEF NoUseAfterFree, Threads
  <1>9. Protected'
    <2>1. \A n, d \in Nat : RetiredAt(n, d)' => RetiredAt(n, d)
      BY <1>1 DEF RetiredAt, ReaderLabels
    <2>2. \A u \in Threads, i \in Slots :
             Scanned(u, i)' => Scanned(u, i) /\ epoch'[u] <= epoch[u]
      <3> SUFFICES ASSUME NEW u \in Threads, NEW i \in Slots, Scanned(u, i)'
                   PROVE  Scanned(u, i) /\ epoch'[u] <= epoch[u]
        OBVIOUS
      <3>1. u # t
        BY <1>1 DEF Scanned, ReaderLabels
      <3>2. pc'[u] = pc[u] /\ slot'[u] = slot[u] /\ epoch'[u] = epoch[u] /\ epoch[u] \in Nat
        BY <1>1, <3>1 DEF EpochTypeOK
      <3> QED BY <3>2 DEF Scanned
    <2>3. \A r \in Readers : held'[r] # NoNode =>
             /\ held'[r] = held[r] /\ slot'[r] = slot[r]
             /\ active_epoch'[slot[r]] = active_epoch[slot[r]]
      BY <1>3 DEF ReadersInside, Threads
    <2> QED BY <2>1, <2>2, <2>3, ProtectedFrame
  <1> QED BY <1>2, <1>5, <1>6, <1>7, <1>8, <1>9

\* Registration, enter() and exit() of a reader.
LEMMA ReaderIInv ==
    ASSUME IInv, SlotsOwned, NEW t \in Threads,
           UnregisterThread(t) \/ EnterLoad(t) \/ EnterStore(t) \/ Exit(t)
    PROVE  IInv'
  <1> USE DEF IInv
  <1>1. /\ t \in Readers /\ pc[t] \in {"outside", "unregister", "publish", "inside"}
        /\ Registered(t)
    BY DEF UnregisterThread, EnterLoad, EnterStore, Exit, EpochTypeOK,
           ReaderLabels, WriterLabels, Registered
  <1>2. UNCHANGED <<global_epoch, retired, shared, freed, current>>
    BY DEF UnregisterThread, EnterLoad, EnterStore, Exit
  <1>3. /\ in_use \in [Slots -> BOOLEAN] /\ slot \in [Threads -> Slots]
        /\ held \in [Threads -> Nat \cup {NoNode}] /\ epoch \in [Threads -> Nat]
        /\ global_epoch \in Nat /\ 0 \in Slots
        /\ pc[t] # "inside" => held[t] = NoNode
    BY <1>1, EpochAssumption DEF EpochTypeOK, Slots, ReadersInside
  <1>4. {"outside", "unregister", "publish", "inside", "idle"} \subseteq ReaderLabels
    BY DEF ReaderLabels
  <1>5. CASE UnregisterThread(t)
    <2>1. PICK label \in {"unregister", "idle"} :
             Goto(t, label)
             /\ (StoreActive(t, kInactiveEpoch) \/ active_epoch' = active_epoch)
      BY <1>5 DEF UnregisterThread
    <2>2. /\ slot' \in [Threads -> Slots] /\ in_use' \in [Slots -> BOOLEAN]
          /\ \A u \in Threads : u # t => slot'[u] = slot[u]
          /\ held' = held /\ epoch' = epoch /\ pc[t] # "inside"
      BY <1>3, <1>5 DEF UnregisterThread
    <2>3. label \in ReaderLabels /\ label \notin {"inside", "publish"}
      BY <1>4
    <2> QED BY <1>1, <1>2, <1>3, <2>1, <2>2, <2>3, ReaderStoreIInv, ZenonT(60)
  <1>6. CASE EnterLoad(t)
    <2>1. /\ Goto(t, "publish") /\ epoch' = [epoch EXCEPT ![t] = global_epoch]
          /\ active_epoch' = active_epoch /\ in_use' = in_use /\ slot' = slot
          /\ held' = held /\ pc[t] # "inside"
      BY <1>6 DEF EnterLoad
    <2>2. epoch' \in [Threads -> Nat] /\ epoch'[t] <= global_epoch
      BY <1>3, <2>1
    <2>3. "publish" \in ReaderLabels
      BY <1>4
    <2> QED BY <1>1, <1>2, <1>3, <2>1, <2>2, <2>3, ReaderStoreIInv
  <1>7. CASE EnterStore(t)
    <2>1. pc[t] = "publish"
      BY <1>1, <1>7 DEF EnterStore
    <2>2. /\ Goto(t, "inside") /\ epoch' = [epoch EXCEPT ![t] = 0]
          /\ StoreActive(t, epoch[t]) /\ in_use' = in_use /\ slot' = slot
          /\ held' = held
      BY <1>7 DEF EnterStore
    <2>3. epoch[t] \in 0 .. global_epoch /\ epoch[t] \in Nat \cup {kInactiveEpoch}
      BY <1>1, <1>3, <2>1 DEF ReadersInside
    <2>4. epoch' \in [Threads -> Nat]
      BY <1>3, <2>2
    <2>5. "inside" \in ReaderLabels
      BY <1>4
    <2> QED BY <1>1, <1>2, <1>3, <2>1, <2>2, <2>3, <2>4, <2>5, ReaderStoreIInv
  <1>8. CASE Exit(t)
    <2>1. /\ Goto(t, "outside") /\ epoch' = epoch
          /\ StoreActive(t, kInactiveEpoch) /\ in_use' = in_use /\ slot' = slot
          /\ held' = [held EXCEPT ![t] = NoNode]
      BY <1>8 DEF Exit
    <2>2. held' \in [Threads -> Nat \cup {NoNode}] /\ held'[t] = NoNode
      BY <1>3, <2>1
    <2>3. "outside" \in ReaderLabels
      BY <1>4
    <2> QED BY <1>1, <1>2, <1>3, <2>1, <2>2, <2>3, ReaderStoreIInv
  <1> QED BY <1>5, <1>6, <1>7, <1>8

\* A reader follows the client's pointer: what it gets is not retired.
LEMMA FollowIInv ==
    ASSUME IInv, NEW t \in Threads, Follow(t)
    PROVE  IInv'
  <1> USE DEF IInv
  <1>1. /\ pc[t] = "inside" /\ held' = [held EXCEPT ![t] = shared]
        /\ held[t] = NoNode
        /\ UNCHANGED <<global_epoch, active_epoch, in_use, retired, shared, freed,
                       pc, slot, epoch, current>>
    BY DEF Follow
  <1>2. t \in Readers
    BY <1>1 DEF EpochTypeOK, WriterLabels
  <1>3. EpochTypeOK'
    BY <1>1 DEF EpochTypeOK
  <1>4. ReadersInside'
    BY <1>1 DEF ReadersInside, EpochTypeOK, Threads
  <1>5. Unlinked' /\ MinEpoch'
    BY <1>1 DEF Unlinked, MinEpoch, EpochTypeOK
  <1>6. NoUseAfterFree'
    BY <1>1 DEF NoUseAfterFree, Unlinked, EpochTypeOK, Threads
  <1>7. Protected'
    <2> SUFFICES ASSUME NEW r \in Readers, NEW e \in Nat, held'[r] # NoNode,
                        RetiredAt(held[r], e)'
                 PROVE  /\ (active_epoch[slot[r]] <= e)'
                        /\ \A u \in Threads :
                              Scanned(u, slot[r])' => epoch'[u] <= e
      BY DEF Protected
    <2>1. RetiredAt(held'[r], e)
      BY <1>1 DEF RetiredAt, EpochTypeOK
    <2>2. r # t
      <3>1. SUFFICES ASSUME r = t PROVE FALSE
        OBVIOUS
      <3>2. held'[r] = shared
        BY <1>1, <3>1 DEF EpochTypeOK
      <3> QED BY <2>1, <3>2 DEF RetiredAt, Unlinked, EpochTypeOK
    <2>3. held'[r] = held[r] /\ r \in Threads
      BY <1>1, <2>2 DEF EpochTypeOK, Threads
    <2>4. \A u \in Threads : Scanned(u, slot[r])' <=> Scanned(u, slot[r])
      BY <1>1 DEF Scanned
    <2> QED BY <1>1, <2>1, <2>3, <2>4 DEF Protected
  <1> QED BY <1>3, <1>4, <1>5, <1>6, <1>7

\* The updater takes the node out of the client's pointer.
LEMMA UnlinkIInv ==
    ASSUME IInv, NEW t \in Threads, Unlink(t)
    PROVE  IInv'
  <1> USE DEF IInv
  <1>1. /\ pc[t] = "idle" /\ pc' = [pc EXCEPT ![t] = "retire"]
        /\ held' = [held EXCEPT ![t] = shared] /\ shared' = shared + 1
        /\ UNCHANGED <<global_epoch, active_epoch, in_use, retired, freed,
                       slot, epoch, current>>
    BY DEF Unlink, Goto
  <1>2. t \notin Readers
    BY EpochAssumption DEF Unlink
  <1>3. EpochTypeOK'
    BY <1>1, <1>2 DEF EpochTypeOK, WriterLabels
  <1>4. ReadersInside' /\ NoUseAfterFree'
    BY <1>1, <1>2 DEF ReadersInside, NoUseAfterFree, EpochTypeOK, Threads
  <1>5. Unlinked'
    BY <1>1 DEF Unlinked, EpochTypeOK
  <1>6. MinEpoch'
    BY <1>1 DEF MinEpoch, EpochTypeOK
  <1>7. Protected'
    <2>1. \A n, e \in Nat : RetiredAt(n, e)' => RetiredAt(n, e)
      BY <1>1 DEF RetiredAt, EpochTypeOK
    <2>2. \A u \in Threads, i \in Slots :
             Scanned(u, i)' => Scanned(u, i) /\ epoch'[u] <= epoch[u]
      BY <1>1 DEF Scanned, EpochTypeOK
    <2>3. \A r \in Readers : held'[r] = held[r]
      BY <1>1, <1>2 DEF Threads, EpochTypeOK
    <2>4. epoch' \in [Threads -> Nat]
      BY <1>1 DEF EpochTypeOK
    <2> QED BY <1>1, <2>1, <2>2, <2>3, <2>4, ProtectedFrame
  <1> QED BY <1>3, <1>4, <1>5, <1>6, <1>7

\* retire_internal() reads the epoch: it is at least the epoch of every reader
\* inside and every min_epoch, which is what protects the node from now on.
LEMMA RetireLoadIInv ==
    ASSUME IInv, NEW t \in Threads, RetireLoad(t)
    PROVE  IInv'
  <1> USE DEF IInv
  <1>1. /\ pc[t] = "retire" /\ pc' = [pc EXCEPT ![t] = "push"]
        /\ epoch' = [epoch EXCEPT ![t] = global_epoch]
        /\ UNCHANGED <<global_epoch, active_epoch, in_use, retired, shared, freed,
                       slot, held, current>>
    BY DEF RetireLoad, Goto
  <1>2. t \notin Readers
    BY <1>1 DEF EpochTypeOK, ReaderLabels
  <1>3. EpochTypeOK'
    BY <1>1, <1>2 DEF EpochTypeOK, WriterLabels
  <1>4. ReadersInside' /\ NoUseAfterFree'
    BY <1>1, <1>2 DEF ReadersInside, NoUseAfterFree, EpochTypeOK, Threads
  <1>5. Unlinked'
    BY <1>1 DEF Unlinked, EpochTypeOK
  <1>6. MinEpoch'
    BY <1>1 DEF MinEpoch, EpochTypeOK
  <1>7. Protected'
    <2> SUFFICES ASSUME NEW r \in Readers, NEW e \in Nat, held[r] # NoNode,
                        RetiredAt(held[r], e)'
                 PROVE  /\ active_epoch[slot[r]] <= e
                        /\ \A u \in Threads :
                              Scanned(u, slot[r])' => epoch'[u] <= e
      BY <1>1 DEF Protected
    <2>1. \A u \in Threads : Scanned(u, slot[r])' =>
             u # t /\ Scanned(u, slot[r]) /\ epoch'[u] = epoch[u]
      BY <1>1 DEF Scanned, EpochTypeOK
    <2>2. CASE RetiredAt(held[r], e)
      BY <2>1, <2>2 DEF Protected
    <2>3. CASE ~ RetiredAt(held[r], e)
      <3>1. e = global_epoch
        BY <1>1, <2>3 DEF RetiredAt, EpochTypeOK
      <3>2. active_epoch[slot[r]] <= e
        BY <3>1 DEF ReadersInside, EpochTypeOK
      <3>3. \A u \in Threads : Scanned(u, slot[r]) => epoch[u] <= e
        BY <3>1 DEF Scanned, MinEpoch
      <3> QED BY <2>1, <3>2, <3>3
    <2> QED BY <2>2, <2>3
  <1> QED BY <1>3, <1>4, <1>5, <1>6, <1>7

\* The push: the node moves from the updater to the list.
LEMMA RetirePushIInv ==
    ASSUME IInv, NEW t \in Threads, RetirePush(t)
    PROVE  IInv'
  <1> USE DEF IInv
  <1>1. /\ pc[t] = "push" /\ pc' = [pc EXCEPT ![t] = "idle"]
        /\ retired' = retired \cup {[node |-> held[t], epoch |-> epoch[t]]}
        /\ held' = [held EXCEPT ![t] = NoNode]
        /\ epoch' = [epoch EXCEPT ![t] = 0]
        /\ UNCHANGED <<global_epoch, active_epoch, in_use, shared, freed, slot,
                       current>>
    BY DEF RetirePush, Goto
  <1>2. t \notin Readers /\ held[t] \in Nat /\ held[t] < shared /\ epoch[t] \in Nat
    BY <1>1 DEF EpochTypeOK, ReaderLabels, Unlinked
  <1>3. EpochTypeOK'
    <2>1. [node |-> held[t], epoch |-> epoch[t]] \in [node : Nat, epoch : Nat]
      BY <1>2
    <2>2. retired' \in SUBSET [node : Nat, epoch : Nat]
      BY <1>1, <2>1 DEF EpochTypeOK
    <2> QED BY <1>1, <1>2, <2>2 DEF EpochTypeOK, WriterLabels
  <1>4. ReadersInside' /\ NoUseAfterFree'
    BY <1>1, <1>2 DEF ReadersInside, NoUseAfterFree, EpochTypeOK, Threads
  <1>5. Unlinked'
    BY <1>1, <1>2 DEF Unlinked, EpochTypeOK
  <1>6. MinEpoch'
    BY <1>1 DEF MinEpoch, EpochTypeOK
  <1>7. Protected'
    <2>1. \A n, e \in Nat : RetiredAt(n, e)' => RetiredAt(n, e)
      BY <1>1 DEF RetiredAt, EpochTypeOK
    <2>2. \A u \in Threads, i \in Slots :
             Scanned(u, i)' => Scanned(u, i) /\ epoch'[u] <= epoch[u]
      BY <1>1 DEF Scanned, EpochTypeOK
    <2>3. \A r \in Readers : held'[r] = held[r]
      BY <1>1, <1>2 DEF Threads, EpochTypeOK
    <2>4. epoch' \in [Threads -> Nat]
      BY <1>3 DEF EpochTypeOK
    <2> QED BY <1>1, <2>1, <2>2, <2>3, <2>4, ProtectedFrame
  <1> QED BY <1>3, <1>4, <1>5, <1>6, <1>7

\* try_reclaim() begins: nothing is scanned.
LEMMA ReclaimLoadIInv ==
    ASSUME IInv, NEW t \in Threads, ReclaimLoad(t)
    PROVE  IInv'
  <1> USE DEF IInv
  <1>1. /\ pc[t] = "idle" /\ pc' = [pc EXCEPT ![t] = "scan"]
        /\ epoch' = [epoch EXCEPT ![t] = global_epoch]
        /\ current' = [current EXCEPT ![t] = global_epoch]
        /\ UNCHANGED <<global_epoch, active_epoch, in_use, retired, shared, freed,
                       slot, held>>
    BY DEF ReclaimLoad, Goto
  <1>2. t \notin Readers
    BY EpochAssumption DEF ReclaimLoad
  <1>3. EpochTypeOK'
    BY <1>1, <1>2 DEF EpochTypeOK, WriterLabels
  <1>4. ReadersInside' /\ NoUseAfterFree'
    BY <1>1, <1>2 DEF ReadersInside, NoUseAfterFree, EpochTypeOK, Threads
  <1>5. Unlinked'
    BY <1>1 DEF Unlinked, EpochTypeOK
  <1>6. MinEpoch'
    BY <1>1 DEF MinEpoch, EpochTypeOK
  <1>7. Protected'
    <2>1. \A n, e \in Nat : RetiredAt(n, e)' => RetiredAt(n, e)
      BY <1>1 DEF RetiredAt, EpochTypeOK
    <2>2. \A u \in Threads, i \in Slots :
             Scanned(u, i)' => Scanned(u, i) /\ epoch'[u] <= epoch[u]
      <3> SUFFICES ASSUME NEW u \in Threads, NEW i \in Slots, Scanned(u, i)'
                   PROVE  Scanned(u, i) /\ epoch'[u] <= epoch[u]
        OBVIOUS
      <3>1. slot[t] = 0 /\ i \in Nat
        BY <1>1, <1>2, EpochAssumption DEF MinEpoch, Slots
      <3>2. u # t
        BY <1>1, <3>1 DEF Scanned, EpochTypeOK
      <3> QED BY <1>1, <3>2 DEF Scanned, EpochTypeOK
    <2>3. epoch' \in [Threads -> Nat]
      BY <1>3 DEF EpochTypeOK
    <2> QED BY <1>1, <2>1, <2>2, <2>3, ProtectedFrame
  <1> QED BY <1>3, <1>4, <1>5, <1>6, <1>7

\* One slot of the scan.  A reader with a pointer owns a slot in use, so its
\* epoch is read, and it bounds min_epoch from then on.
LEMMA ScanIInv ==
    ASSUME IInv, SlotsOwned, NEW t \in Threads, ScanInUse(t) \/ ScanEpoch(t)
    PROVE  IInv'
  <1> USE DEF IInv
  <1>1. /\ pc[t] \in {"scan", "scan_epoch"}
        /\ UNCHANGED <<global_epoch, active_epoch, in_use, retired, shared, freed,
                       held, current>>
    BY DEF ScanInUse, ScanEpoch
  <1>2. t \notin Readers /\ slot[t] \in Slots /\ epoch[t] \in Nat
    BY <1>1 DEF EpochTypeOK, ReaderLabels
  <1>3. PICK label \in {"scan", "scan_epoch", "advance"} :
           /\ pc' = [pc EXCEPT ![t] = label]
           /\ \/ label = "scan_epoch" /\ slot' = slot
              \/ label = "scan" /\ slot' = [slot EXCEPT ![t] = @ + 1]
                 /\ slot[t] + 1 \in Slots
              \/ label = "advance" /\ slot' = [slot EXCEPT ![t] = 0]
                 /\ slot[t] + 1 \notin Slots
           /\ label = "scan_epoch" => epoch' = epoch
    BY DEF ScanInUse, ScanEpoch, NextSlot, Goto
  <1>4. PICK m \in Nat : epoch' = [epoch EXCEPT ![t] = m] /\ m <= epoch[t]
    <2>1. CASE ScanInUse(t)
      <3>1. epoch' = [epoch EXCEPT ![t] = epoch[t]]
        BY <2>1 DEF ScanInUse, EpochTypeOK
      <3>2. epoch[t] \in Nat /\ epoch[t] <= epoch[t]
        BY <1>2
      <3> USE <3>1, <3>2
      <3> WITNESS epoch[t] \in Nat
      <3> QED OBVIOUS
    <2>2. CASE ScanEpoch(t)
      <3> DEFINE e == active_epoch[slot[t]]
                 low == IF e # kInactiveEpoch /\ e < epoch[t] THEN e ELSE epoch[t]
      <3>1. epoch' = [epoch EXCEPT ![t] = low]
        BY <2>2 DEF ScanEpoch
      <3>2. e \in Nat \cup {kInactiveEpoch}
        BY <1>2 DEF EpochTypeOK
      <3>3. low \in Nat /\ low <= epoch[t]
        BY <1>2, <3>2
      <3> QED BY <3>1, <3>3
    <2> QED BY <2>1, <2>2
  <1>5. EpochTypeOK'
    <2>1. 0 \in Slots
      BY EpochAssumption DEF Slots
    <2> QED BY <1>1, <1>2, <1>3, <1>4, <2>1 DEF EpochTypeOK, WriterLabels
  <1>6. ReadersInside' /\ NoUseAfterFree'
    BY <1>1, <1>2, <1>3, <1>4 DEF ReadersInside, NoUseAfterFree, EpochTypeOK, Threads
  <1>7. Unlinked'
    BY <1>1, <1>3 DEF Unlinked, EpochTypeOK
  <1>8. MinEpoch'
    BY <1>1, <1>2, <1>3, <1>4 DEF MinEpoch, EpochTypeOK
  <1>9. Protected'
    <2> SUFFICES ASSUME NEW r \in Readers, NEW e \in Nat, held'[r] # NoNode,
                        RetiredAt(held[r], e)'
                 PROVE  /\ (active_epoch[slot[r]] <= e)'
                        /\ \A u \in Threads :
                              Scanned(u, slot[r])' => epoch'[u] <= e
      BY DEF Protected
    <2>1. r \in Threads /\ r # t /\ slot'[r] = slot[r] /\ slot[r] \in Slots
      BY <1>2, <1>3 DEF Threads, EpochTypeOK
    <2>2. RetiredAt(held[r], e)
      BY <1>1, <1>3, <1>4 DEF RetiredAt, EpochTypeOK
    <2>3. /\ active_epoch[slot[r]] <= e
          /\ \A u \in Threads : Scanned(u, slot[r]) => epoch[u] <= e
      BY <1>1, <2>2 DEF Protected
    <2>4. ASSUME NEW u \in Threads, Scanned(u, slot[r])', u # t
          PROVE  epoch'[u] <= e
      <3>1. Scanned(u, slot[r])
        BY <1>3, <2>1, <2>4 DEF Scanned, EpochTypeOK
      <3>2. epoch'[u] = epoch[u]
        BY <1>4, <2>4 DEF EpochTypeOK
      <3> QED BY <2>3, <3>1, <3>2
    <2>5. ASSUME Scanned(t, slot[r])' PROVE epoch'[t] <= e
      <3>1. slot[t] >= slot[r]
        <4>1. slot[t] \in Int /\ slot[r] \in Int /\ kMaxThreads \in Int
          BY <1>2, <2>1, EpochAssumption DEF Slots
        <4>2. CASE label = "advance"
          BY <1>2, <1>3, <2>1, <4>1, <4>2 DEF Slots
        <4>3. CASE label # "advance"
          BY <1>3, <2>1, <2>5, <4>1, <4>3 DEF Scanned, EpochTypeOK
        <4> QED BY <4>2, <4>3
      <3>2. epoch'[t] = m
        BY <1>4 DEF EpochTypeOK
      <3>3. CASE slot[t] > slot[r]
        <4>1. Scanned(t, slot[r])
          BY <1>1, <3>3 DEF Scanned
        <4> QED BY <1>2, <1>4, <2>3, <3>2, <4>1
      <3>4. CASE slot[t] = slot[r]
        <4>1. pc[r] = "inside"
          BY <1>1 DEF ReadersInside
        <4>2. in_use[slot[t]] /\ active_epoch[slot[t]] \in Nat
          BY <3>4, <4>1 DEF SlotsOwned, Registered, ReadersInside, EpochTypeOK
        <4>3. label # "scan_epoch"
          BY <1>3, <2>1, <2>5, <3>4, <1>2 DEF Scanned, EpochTypeOK, Slots
        <4>4. ~ ScanInUse(t)
          BY <1>3, <4>2, <4>3 DEF ScanInUse, Goto, EpochTypeOK
        <4>5. epoch'[t] = IF active_epoch[slot[t]] < epoch[t]
                          THEN active_epoch[slot[t]] ELSE epoch[t]
          BY <4>2, <4>4, EpochAssumption DEF ScanEpoch, EpochTypeOK
        <4>6. epoch'[t] <= active_epoch[slot[t]]
          BY <1>2, <4>2, <4>5
        <4> QED BY <1>4, <2>3, <3>2, <3>4, <4>2, <4>6
      <3>5. slot[t] \in Int /\ slot[r] \in Int
        BY <1>2, <2>1 DEF Slots
      <3> QED BY <3>1, <3>3, <3>4, <3>5
    <2> QED BY <1>1, <2>1, <2>3, <2>4, <2>5
  <1> QED BY <1>5, <1>6, <1>7, <1>8, <1>9

\* The end of the scan: the global epoch may advance.
LEMMA AdvanceIInv ==
    ASSUME IInv, NEW t \in Threads, Advance(t)
    PROVE  IInv'
  <1> USE DEF IInv
  <1>1. /\ pc[t] = "advance" /\ pc' = [pc EXCEPT ![t] = "sweep"]
        /\ global_epoch' \in {global_epoch, global_epoch + 1}
        /\ current' = [current EXCEPT ![t] = 0]
        /\ UNCHANGED <<active_epoch, in_use, retired, shared, freed, slot, held,
                       epoch>>
    BY DEF Advance, Goto
  <1>2. t \notin Readers /\ global_epoch \in Nat
    BY <1>1 DEF EpochTypeOK, ReaderLabels
  <1>3. EpochTypeOK'
    BY <1>1, <1>2 DEF EpochTypeOK, WriterLabels
  <1>4. ReadersInside'
    <2> SUFFICES ASSUME NEW r \in Readers
                 PROVE  /\ held'[r] # NoNode => pc'[r] = "inside"
                        /\ pc'[r] = "inside" =>
                              (active_epoch[slot[r]] \in 0 .. global_epoch)'
                        /\ pc'[r] = "publish" => epoch'[r] <= global_epoch'
      BY DEF ReadersInside
    <2>1. pc'[r] = pc[r] /\ epoch[r] \in Nat /\ held'[r] = held[r]
      BY <1>1, <1>2 DEF EpochTypeOK, Threads
    <2> QED BY <1>1, <1>2, <2>1 DEF ReadersInside
  <1>5. Unlinked' /\ NoUseAfterFree'
    BY <1>1 DEF Unlinked, NoUseAfterFree, EpochTypeOK
  <1>6. MinEpoch'
    BY <1>1, <1>2 DEF MinEpoch, EpochTypeOK
  <1>7. Protected'
    <2>1. \A n, e \in Nat : RetiredAt(n, e)' => RetiredAt(n, e)
      BY <1>1 DEF RetiredAt, EpochTypeOK
    <2>2. \A u \in Threads, i \in Slots :
             Scanned(u, i)' => Scanned(u, i) /\ epoch'[u] <= epoch[u]
      BY <1>1 DEF Scanned, EpochTypeOK
    <2>3. epoch' \in [Threads -> Nat]
      BY <1>3 DEF EpochTypeOK
    <2> QED BY <1>1, <2>1, <2>2, <2>3, ProtectedFrame
  <1> QED BY <1>3, <1>4, <1>5, <1>6, <1>7

\* The pass over the list: what it deletes was retired before min_epoch,
\* and Protected says that no reader has a pointer to it.
LEMMA SweepIInv ==
    ASSUME IInv, NEW t \in Threads, Sweep(t)
    PROVE  IInv'
  <1> USE DEF IInv
  <1> DEFINE Out == {r.node : r \in {q \in retired : q.epoch < epoch[t]}}
  <1>1. /\ pc[t] = "sweep" /\ pc' = [pc EXCEPT ![t] = "idle"]
        /\ retired' \subseteq retired
        /\ freed' = freed \cup Out
        /\ epoch' = [epoch EXCEPT ![t] = 0]
        /\ UNCHANGED <<global_epoch, active_epoch, in_use, shared, slot, held,
                       current>>
    BY DEF Sweep, Goto, Kept
  <1>2. t \notin Readers
    BY <1>1 DEF EpochTypeOK, ReaderLabels
  <1>3. \A n \in Out : \E q \in retired : n = q.node /\ q.epoch < epoch[t]
    OBVIOUS
  <1>4. \A q \in retired : q.node \in Nat /\ q.epoch \in Nat
    BY DEF EpochTypeOK
  <1> HIDE DEF Out
  <1>5. \A n \in Out : n \in Nat /\ n < shared
    BY <1>3, <1>4 DEF Unlinked
  <1>6. EpochTypeOK'
    BY <1>1, <1>2, <1>5 DEF EpochTypeOK, WriterLabels
  <1>7. ReadersInside'
    BY <1>1, <1>2 DEF ReadersInside, EpochTypeOK, Threads
  <1>8. Unlinked'
    BY <1>1, <1>5 DEF Unlinked, EpochTypeOK
  <1>9. MinEpoch'
    BY <1>1 DEF MinEpoch, EpochTypeOK
  <1>10. Protected'
    <2>1. \A n, e \in Nat : RetiredAt(n, e)' => RetiredAt(n, e)
      BY <1>1 DEF RetiredAt, EpochTypeOK
    <2>2. \A u \in Threads, i \in Slots :
             Scanned(u, i)' => Scanned(u, i) /\ epoch'[u] <= epoch[u]
      BY <1>1 DEF Scanned, EpochTypeOK
    <2>3. epoch' \in [Threads -> Nat]
      BY <1>6 DEF EpochTypeOK
    <2> QED BY <1>1, <2>1, <2>2, <2>3, ProtectedFrame
  <1>11. NoUseAfterFree'
    <2> SUFFICES ASSUME NEW r \in Readers, held[r] \in Out PROVE FALSE
      BY <1>1 DEF NoUseAfterFree
    <2>1. PICK q \in retired : held[r] = q.node /\ q.epoch < epoch[t]
      BY <1>3
    <2>2. q.epoch \in Nat /\ held[r] \in Nat /\ epoch[t] \in Nat
      BY <1>4, <2>1 DEF EpochTypeOK
    <2>3. held[r] # NoNode
      BY <2>2, EpochAssumption
    <2>4. RetiredAt(held[r], q.epoch)
      BY <2>1 DEF RetiredAt
    <2>5. Scanned(t, slot[r])
      BY <1>1 DEF Scanned
    <2>6. epoch[t] <= q.epoch
      BY <2>2, <2>3, <2>4, <2>5 DEF Protected
    <2> QED BY <2>1, <2>2, <2>6
  <1> QED BY <1>6, <1>7, <1>8, <1>9, <1>10, <1>11

\* The destructor runs when no reader is inside, so none has a pointer.
LEMMA DestroyIInv ==
    ASSUME IInv, Destroy
    PROVE  IInv'
  <1> USE DEF IInv
  <1>1. /\ \A t \in Threads : pc[t] = "idle"
        /\ freed' = freed \cup Nodes(retired) /\ retired' = {}
        /\ pc' = [t \in Threads |-> "gone"]
        /\ UNCHANGED <<global_epoch, active_epoch, in_use, shared, slot, held,
                       epoch, current>>
    BY DEF Destroy
  <1>2. \A r \in Readers : held'[r] = NoNode
    BY <1>1 DEF ReadersInside, Threads
  <1>3. \A n \in Nodes(retired) : n \in Nat /\ n < shared
    BY DEF Nodes, EpochTypeOK, Unlinked
  <1>4. EpochTypeOK'
    BY <1>1, <1>3 DEF EpochTypeOK, ReaderLabels, WriterLabels
  <1>5. ReadersInside' /\ Unlinked' /\ MinEpoch'
    BY <1>1, <1>2, <1>3 DEF ReadersInside, Unlinked, MinEpoch, Threads, EpochTypeOK
  <1>6. Protected'
    BY <1>2 DEF Protected
  <1>7. NoUseAfterFree'
    BY <1>2, <1>4, EpochAssumption DEF NoUseAfterFree, EpochTypeOK
  <1> QED BY <1>4, <1>5, <1>6, <1>7

\* The invariant is inductive while every registered reader has a slot to
\* itself.
LEMMA NextIInv == IInv /\ SlotsOwned /\ [Next]_vars => IInv'
  <1> SUFFICES ASSUME IInv, SlotsOwned, [Next]_vars PROVE IInv'
    OBVIOUS
  <1>1. ASSUME NEW t \in Threads, Step(t) PROVE IInv'
    BY <1>1, RegisterIInv, ReaderStoreIInv, ReaderIInv, FollowIInv, UnlinkIInv,
       RetireLoadIInv, RetirePushIInv, ReclaimLoadIInv, ScanIInv, AdvanceIInv,
       SweepIInv DEF Step
  <1>2. CASE Destroy
    BY <1>2, DestroyIInv
  <1>3. CASE UNCHANGED vars
    BY <1>3 DEF vars, IInv, EpochTypeOK, ReadersInside, Unlinked, MinEpoch,
                Protected, NoUseAfterFree, RetiredAt, Scanned
  <1> QED BY <1>1, <1>2, <1>3 DEF Next, Gone

-----------------------------------------------------------------------------
\* There is a slot for every reader.
EnoughSlots == IsFiniteSet(Readers) /\ Cardinality(Readers) <= kMaxThreads

\* A step that takes no slot, gives none back and moves no reader.
LEMMA SlotsFrame ==
    ASSUME SlotsOwned, SlotsAhead, in_use' = in_use,
           \A r \in Readers : slot'[r] = slot[r] /\ Registered(r)' = Registered(r)
    PROVE  SlotsOwned' /\ SlotsAhead'
  <1>1. SlotsOwned'
    BY DEF SlotsOwned
  <1>2. \A i \in Slots : AtOrPast(i)' = AtOrPast(i)
    BY DEF AtOrPast
  <1>3. SlotsAhead'
    BY <1>2 DEF SlotsAhead
  <1> QED BY <1>1, <1>3

\* The compare-exchange of register_thread().  It takes a slot nobody owns,
\* or it passes one: then its owner o stays behind, and not on the last
\* slot, which the reader and o would otherwise both have reached.
LEMMA RegisterSlots ==
    ASSUME EnoughSlots, EpochTypeOK, SlotsOwned, SlotsAhead,
           NEW t \in Threads, RegisterThread(t)
    PROVE  SlotsOwned' /\ SlotsAhead'
  <1> DEFINE i == slot[t]
  <1>1. /\ t \in Readers /\ pc[t] \in {"idle", "register"} /\ ~ Registered(t)
        /\ i \in Slots /\ i \in Nat /\ kMaxThreads \in Nat
        /\ Readers \subseteq Threads
    BY EpochAssumption DEF RegisterThread, RegisterStep, Registered, EpochTypeOK,
                           Slots, Threads
  <1>2. \A r \in Readers : slot[r] \in Nat
    BY <1>1 DEF EpochTypeOK, Slots
  <1>3. \A j \in Slots : /\ IsFiniteSet(AtOrPast(j))
                         /\ Cardinality(AtOrPast(j)) \in Nat
    BY FS_Subset, FS_CardinalityType DEF AtOrPast, EnoughSlots
  <1>4. Cardinality(Readers) \in Nat
    BY FS_CardinalityType DEF EnoughSlots
  <1>5. CASE ~ in_use[i]
    <2>1. /\ in_use' = [in_use EXCEPT ![i] = TRUE] /\ slot' = slot
          /\ pc' = [pc EXCEPT ![t] = "outside"]
      BY <1>5 DEF RegisterThread, RegisterStep, Goto
    <2>2. \A r \in Readers : Registered(r)' <=> Registered(r) \/ r = t
      BY <1>1, <2>1 DEF Registered, EpochTypeOK
    <2>3. \A r \in Readers : Registered(r) => slot[r] # i
      BY <1>5 DEF SlotsOwned
    <2>4. \A j \in Slots : in_use'[j] <=> in_use[j] \/ j = i
      BY <1>1, <2>1 DEF EpochTypeOK
    <2>5. SlotsOwned'
      <3> SUFFICES ASSUME NEW r \in Readers, Registered(r)'
                   PROVE  /\ in_use'[slot[r]]
                          /\ \A u \in Readers :
                                Registered(u)' /\ slot[u] = slot[r] => u = r
        BY <2>1 DEF SlotsOwned
      <3>1. slot[r] \in Slots
        BY <1>1 DEF EpochTypeOK
      <3>2. in_use'[slot[r]]
        BY <2>2, <2>4, <3>1 DEF SlotsOwned
      <3>3. ASSUME NEW u \in Readers, Registered(u)', slot[u] = slot[r]
            PROVE  u = r
        BY <2>2, <2>3, <3>3 DEF SlotsOwned
      <3> QED BY <3>2, <3>3
    <2>6. SlotsAhead'
      <3>1. \A j \in Slots : AtOrPast(j)' = AtOrPast(j)
        BY <2>1 DEF AtOrPast
      <3>2. ASSUME NEW j \in Slots, in_use'[j]
            PROVE  \E r \in Readers : Registered(r)' /\ slot'[r] = j
        BY <1>1, <2>1, <2>2, <2>4, <3>2 DEF SlotsAhead
      <3> QED BY <3>1, <3>2 DEF SlotsAhead
    <2> QED BY <2>5, <2>6
  <1>6. CASE in_use[i]
    <2>1. PICK o \in Readers : Registered(o) /\ slot[o] = i
      BY <1>1, <1>6 DEF SlotsAhead
    <2>2. o # t /\ t \in AtOrPast(i) /\ o \in AtOrPast(i)
      BY <1>1, <1>2, <2>1 DEF AtOrPast
    <2>3. Cardinality(AtOrPast(i)) + i <= Cardinality(Readers)
      BY <1>1, <2>2 DEF SlotsAhead
    <2>4. /\ IsFiniteSet(AtOrPast(i) \ {o})
          /\ Cardinality(AtOrPast(i) \ {o}) = Cardinality(AtOrPast(i)) - 1
      BY <1>1, <1>3, <2>2, FS_RemoveElement
    <2>5. Cardinality(AtOrPast(i) \ {o}) >= 1
      <3>1. AtOrPast(i) \ {o} # {}
        BY <2>2
      <3>2. Cardinality(AtOrPast(i) \ {o}) \in Nat
            /\ Cardinality(AtOrPast(i) \ {o}) # 0
        BY <2>4, <3>1, FS_CardinalityType, FS_EmptySet
      <3> QED BY <3>2
    <2>6. i + 1 < kMaxThreads
      BY <1>1, <1>3, <1>4, <2>3, <2>4, <2>5 DEF EnoughSlots
    <2>7. /\ slot' = [slot EXCEPT ![t] = i + 1] /\ in_use' = in_use
          /\ pc' = [pc EXCEPT ![t] = "register"]
      BY <1>1, <1>6, <2>6 DEF RegisterThread, RegisterStep, Goto
    <2>8. /\ \A r \in Readers : Registered(r)' <=> Registered(r)
          /\ \A r \in Readers : Registered(r) => slot'[r] = slot[r]
          /\ \A r \in Readers : slot'[r] = IF r = t THEN i + 1 ELSE slot[r]
      BY <1>1, <2>7 DEF Registered, EpochTypeOK
    <2>9. SlotsOwned'
      BY <2>7, <2>8 DEF SlotsOwned
    <2>10. ASSUME NEW j \in Slots, AtOrPast(j)' # {}
           PROVE  Cardinality(AtOrPast(j)') + j <= Cardinality(Readers)
      <3>0. j \in Nat
        BY EpochAssumption DEF Slots
      <3>1. CASE j # i + 1
        <4>1. AtOrPast(j)' = AtOrPast(j)
          BY <1>1, <1>2, <2>8, <3>0, <3>1 DEF AtOrPast
        <4> QED BY <2>10, <4>1 DEF SlotsAhead
      <3>2. CASE j = i + 1
        <4>1. AtOrPast(j)' \subseteq AtOrPast(i) \ {o}
          BY <1>1, <1>2, <2>1, <2>2, <2>8, <3>2 DEF AtOrPast
        <4>2. IsFiniteSet(AtOrPast(j)')
              /\ Cardinality(AtOrPast(j)') <= Cardinality(AtOrPast(i) \ {o})
          BY <2>4, <4>1, FS_Subset
        <4>3. Cardinality(AtOrPast(j)') \in Nat
          BY <4>2, FS_CardinalityType
        <4> QED BY <1>1, <1>3, <1>4, <2>3, <2>4, <3>2, <4>2, <4>3
      <3> QED BY <3>1, <3>2
    <2>11. \A j \in Slots : in_use'[j] =>
               \E r \in Readers : Registered(r)' /\ slot'[r] = j
      BY <2>7, <2>8 DEF SlotsAhead
    <2>12. SlotsAhead'
      BY <2>10, <2>11 DEF SlotsAhead
    <2> QED BY <2>9, <2>12
  <1> QED BY <1>5, <1>6

\* The second store of unregister_thread() gives back the caller's own slot.
LEMMA UnregisterSlots ==
    ASSUME EnoughSlots, EpochTypeOK, SlotsOwned, SlotsAhead, NEW t \in Readers,
           pc[t] = "unregister", pc' = [pc EXCEPT ![t] = "idle"],
           in_use' = [in_use EXCEPT ![slot[t]] = FALSE],
           slot' = [slot EXCEPT ![t] = 0]
    PROVE  SlotsOwned' /\ SlotsAhead'
  <1>1. t \in Threads /\ slot[t] \in Slots /\ Registered(t)
    BY DEF EpochTypeOK, Threads, Registered
  <1>2. \A r \in Readers : /\ Registered(r)' <=> Registered(r) /\ r # t
                           /\ r # t => slot'[r] = slot[r]
                           /\ slot[r] \in Slots /\ slot[r] \in Nat
    BY <1>1, EpochAssumption DEF Registered, EpochTypeOK, Threads, Slots
  <1>3. \A j \in Slots : in_use'[j] <=> in_use[j] /\ j # slot[t]
    BY DEF EpochTypeOK
  <1>4. SlotsOwned'
    BY <1>1, <1>2, <1>3 DEF SlotsOwned
  <1>5. \A j \in Slots : in_use'[j] =>
            \E r \in Readers : Registered(r)' /\ slot'[r] = j
    BY <1>2, <1>3 DEF SlotsAhead
  <1>6. ASSUME NEW j \in Slots, AtOrPast(j)' # {}
        PROVE  Cardinality(AtOrPast(j)') + j <= Cardinality(Readers)
    <2>1. j \in Nat /\ Cardinality(Readers) \in Nat
      BY EpochAssumption, FS_CardinalityType DEF Slots, EnoughSlots
    <2>2. CASE j = 0
      <3>1. AtOrPast(j)' \subseteq Readers
        BY DEF AtOrPast
      <3>2. IsFiniteSet(AtOrPast(j)')
            /\ Cardinality(AtOrPast(j)') <= Cardinality(Readers)
        BY <3>1, FS_Subset DEF EnoughSlots
      <3>3. Cardinality(AtOrPast(j)') \in Nat
        BY <3>2, FS_CardinalityType
      <3> QED BY <2>2, <3>2, <3>3
    <2>3. CASE j # 0
      <3>1. slot'[t] = 0
        BY <1>1 DEF EpochTypeOK
      <3>2. AtOrPast(j)' \subseteq AtOrPast(j)
        BY <1>2, <2>1, <2>3, <3>1 DEF AtOrPast
      <3>3. IsFiniteSet(AtOrPast(j))
        BY FS_Subset DEF AtOrPast, EnoughSlots
      <3>4. /\ IsFiniteSet(AtOrPast(j)')
            /\ Cardinality(AtOrPast(j)') <= Cardinality(AtOrPast(j))
        BY <3>2, <3>3, FS_Subset
      <3>5. Cardinality(AtOrPast(j)') \in Nat /\ Cardinality(AtOrPast(j)) \in Nat
        BY <3>3, <3>4, FS_CardinalityType
      <3>6. Cardinality(AtOrPast(j)) + j <= Cardinality(Readers)
        BY <1>6, <3>2 DEF SlotsAhead
      <3> QED BY <2>1, <3>4, <3>5, <3>6
    <2> QED BY <2>2, <2>3
  <1>7. SlotsAhead'
    BY <1>5, <1>6 DEF SlotsAhead
  <1> QED BY <1>4, <1>7

\* The slots stay owned in every step.
LEMMA NextSlots ==
    ASSUME EnoughSlots, IInv, SlotsOwned, SlotsAhead, [Next]_vars
    PROVE  SlotsOwned' /\ SlotsAhead'
  <1>0. EpochTypeOK /\ Readers \subseteq Threads
    BY DEF IInv, Threads
  <1>1. ASSUME NEW t \in Threads, RegisterThread(t)
        PROVE  SlotsOwned' /\ SlotsAhead'
    BY <1>0, <1>1, RegisterSlots
  <1>2. ASSUME NEW t \in Threads, UnregisterThread(t)
        PROVE  SlotsOwned' /\ SlotsAhead'
    <2>1. t \in Readers
      BY <1>0, <1>2 DEF UnregisterThread, EpochTypeOK, WriterLabels
    <2>2. CASE pc[t] = "unregister"
      BY <1>0, <1>2, <2>1, <2>2, UnregisterSlots DEF UnregisterThread, Goto
    <2>3. CASE pc[t] = "outside"
      <3>1. in_use' = in_use /\ slot' = slot /\ pc' = [pc EXCEPT ![t] = "unregister"]
        BY <1>2, <2>3 DEF UnregisterThread, Goto
      <3>2. \A r \in Readers : Registered(r)' = Registered(r)
        BY <1>0, <2>3, <3>1 DEF Registered, EpochTypeOK
      <3> QED BY <3>1, <3>2, SlotsFrame
    <2> QED BY <1>2, <2>2, <2>3 DEF UnregisterThread
  <1>3. ASSUME NEW t \in Threads,
               EnterLoad(t) \/ EnterStore(t) \/ Follow(t) \/ Exit(t)
        PROVE  SlotsOwned' /\ SlotsAhead'
    <2>1. /\ in_use' = in_use /\ slot' = slot
          /\ Registered(t)
          /\ \E label \in {"publish", "inside", "outside"} :
                pc' = [pc EXCEPT ![t] = label]
      BY <1>0, <1>3 DEF EnterLoad, EnterStore, Follow, Exit, Goto, Registered,
                        EpochTypeOK
    <2>2. \A r \in Readers : Registered(r)' = Registered(r)
      BY <1>0, <2>1 DEF Registered, EpochTypeOK
    <2> QED BY <2>1, <2>2, SlotsFrame
  <1>4. ASSUME NEW t \in Threads,
               \/ Unlink(t) \/ RetireLoad(t) \/ RetirePush(t) \/ ReclaimLoad(t)
               \/ ScanInUse(t) \/ ScanEpoch(t) \/ Advance(t) \/ Sweep(t)
        PROVE  SlotsOwned' /\ SlotsAhead'
    <2>1. t \notin Readers
      BY <1>0, <1>4, EpochAssumption
      DEF Unlink, RetireLoad, RetirePush, ReclaimLoad, ScanInUse, ScanEpoch,
          Advance, Sweep, EpochTypeOK, ReaderLabels
    <2>2. /\ in_use' = in_use
          /\ slot' = slot \/ \E i : slot' = [slot EXCEPT ![t] = i]
          /\ \E label : pc' = [pc EXCEPT ![t] = label]
      BY <1>4 DEF Unlink, RetireLoad, RetirePush, ReclaimLoad, ScanInUse, ScanEpoch,
                  Advance, Sweep, NextSlot, Goto
    <2>3. \A r \in Readers : slot'[r] = slot[r] /\ pc'[r] = pc[r]
      BY <1>0, <2>1, <2>2 DEF EpochTypeOK
    <2> QED BY <2>2, <2>3, SlotsFrame DEF Registered
  <1>5. CASE Destroy
    <2>1. in_use' = in_use /\ slot' = slot
      BY <1>5 DEF Destroy
    <2>2. \A r \in Readers : pc[r] = "idle" /\ pc'[r] = "gone"
      BY <1>0, <1>5 DEF Destroy
    <2> QED BY <2>1, <2>2, SlotsFrame DEF Registered
  <1>6. CASE UNCHANGED vars
    BY <1>6, SlotsFrame DEF vars, Registered
  <1> QED BY <1>1, <1>2, <1>3, <1>4, <1>5, <1>6 DEF Next, Step, Gone

\* Initially no slot is in use, and every reader would begin with slot 0.
LEMMA InitSlots ==
    ASSUME EnoughSlots, Init
    PROVE  SlotsOwned /\ SlotsAhead
  <1>1. \A t \in Readers : ~ Registered(t) /\ slot[t] = 0
    BY DEF Init, Registered, Threads
  <1>2. \A i \in Slots : ~ in_use[i] /\ i \in Nat
    BY EpochAssumption DEF Init, Slots
  <1>3. \A i \in Slots : AtOrPast(i) # {} => i = 0
    BY <1>1, <1>2 DEF AtOrPast
  <1>4. AtOrPast(0) = Readers
    BY <1>1 DEF AtOrPast
  <1>5. Cardinality(Readers) \in Nat
    BY FS_CardinalityType DEF EnoughSlots
  <1>6. SlotsAhead
    BY <1>2, <1>3, <1>4, <1>5 DEF SlotsAhead
  <1> QED BY <1>1, <1>6 DEF SlotsOwned

\* With a slot for every reader, the single pass of register_thread() gives
\* every registered reader a slot to itself, for any number of readers that
\* register, give back and register again.
THEOREM SlotsAreOwned ==
    ASSUME EnoughSlots
    PROVE  Spec => []SlotsOwned
  <1> DEFINE Inv == IInv /\ SlotsOwned /\ SlotsAhead
  <1>1. Init => Inv
    BY InitIInv, InitSlots
  <1>2. Inv /\ [Next]_vars => Inv'
    BY NextIInv, NextSlots
  <1>3. Inv => SlotsOwned
    OBVIOUS
  <1> QED BY <1>1, <1>2, <1>3, PTL DEF Spec

\* With a slot for every reader, a node is never deleted while a reader has a
\* pointer to it, for any number of updaters, reclaimers, nodes and epochs:
\* the promise of enter(), exit(), retire() and try_reclaim().
THEOREM ReadersAreSafe ==
    ASSUME EnoughSlots
    PROVE  Spec => []NoUseAfterFree
  <1>1. IInv => NoUseAfterFree
    BY DEF IInv
  <1> QED BY SlotsAreOwned, InitIInv, NextIInv, <1>1, PTL DEF Spec

-----------------------------------------------------------------------------
(* The books of the nodes *)

\* Only updaters retire, and they have a node exactly while they do.
UpdatersHold ==
    /\ DOMAIN pc = Threads /\ DOMAIN held = Threads
    /\ \A t \in Threads : pc[t] \in {"retire", "push"} => t \in Updaters
    /\ \A t \in Updaters :
          /\ pc[t] \in WriterLabels
          /\ held[t] # NoNode <=> pc[t] \in {"retire", "push"}

Pushing(n) == \E t \in Updaters : held[t] = n /\ held[t] # NoNode
Listed(n) == \E r \in retired : r.node = n

\* The nodes below the client's pointer are pushed by one updater, or listed
\* with one epoch, or freed, and no two of these.
NodeBooks ==
    /\ shared \in Nat \ {0}
    /\ \A n : n \in 1 .. shared - 1 <=> Pushing(n) \/ Listed(n) \/ n \in freed
    /\ \A n : ~ (Pushing(n) /\ Listed(n)) /\ ~ ((Pushing(n) \/ Listed(n)) /\ n \in freed)
    /\ \A t, u \in Updaters : held[t] = held[u] /\ held[t] # NoNode => t = u
    /\ \A r, q \in retired : r.node = q.node => r = q
    /\ IsFiniteSet(retired)

LEMMA InitBooks == Init => UpdatersHold /\ NodeBooks
<1> SUFFICES ASSUME Init PROVE UpdatersHold /\ NodeBooks
  OBVIOUS
<1>1. UpdatersHold /\ \A t \in Updaters : held[t] = NoNode
  BY DEF Init, UpdatersHold, Threads, WriterLabels
<1>2. \A n : ~ Pushing(n) /\ ~ Listed(n) /\ n \notin freed
  BY <1>1 DEF Init, Pushing, Listed
<1>3. IsFiniteSet(retired)
  BY FS_EmptySet DEF Init
<1> QED
  BY <1>1, <1>2, <1>3 DEF Init, NodeBooks

\* A step that touches neither the nodes of updaters nor the list.
LEMMA BooksFrame ==
    ASSUME NodeBooks, UNCHANGED <<shared, retired, freed>>,
           \A t \in Updaters : held'[t] = held[t]
    PROVE  NodeBooks'
<1>1. \A n : (Pushing(n)' <=> Pushing(n)) /\ (Listed(n)' <=> Listed(n))
  BY DEF Pushing, Listed
<1> QED
  BY <1>1 DEF NodeBooks

\* Readers have pointers of their own.
LEMMA ReaderBooks ==
    ASSUME UpdatersHold, NodeBooks, NEW t \in Threads,
           \/ RegisterThread(t) \/ UnregisterThread(t) \/ EnterLoad(t)
           \/ EnterStore(t) \/ Follow(t) \/ Exit(t)
    PROVE  UpdatersHold' /\ NodeBooks'
<1> USE DEF RegisterThread, RegisterStep, UnregisterThread, EnterLoad, EnterStore,
            Follow, Exit, Goto
<1>1. t \notin Updaters
  BY EpochAssumption DEF UpdatersHold, WriterLabels
<1>2. /\ UNCHANGED <<shared, retired, freed>> /\ DOMAIN pc' = Threads /\ DOMAIN held' = Threads
      /\ \A u \in Threads \ {t} : held'[u] = held[u] /\ pc'[u] = pc[u]
      /\ pc'[t] \notin {"retire", "push"}
  BY DEF UpdatersHold
<1>3. \A u \in Updaters : u \in Threads \ {t}
  BY <1>1 DEF Threads
<1> QED
  BY <1>2, <1>3, BooksFrame DEF UpdatersHold

\* A scan moves no node.
LEMMA ScanBooks ==
    ASSUME UpdatersHold, NodeBooks, NEW t \in Threads,
           \/ RetireLoad(t) \/ ReclaimLoad(t) \/ ScanInUse(t) \/ ScanEpoch(t) \/ Advance(t)
    PROVE  UpdatersHold' /\ NodeBooks'
<1> USE DEF RetireLoad, ReclaimLoad, ScanInUse, ScanEpoch, NextSlot, Advance, Goto
<1>1. /\ UNCHANGED <<shared, retired, freed, held>> /\ DOMAIN pc' = Threads
      /\ \A u \in Threads \ {t} : pc'[u] = pc[u]
      /\ pc'[t] \in WriterLabels
      /\ pc'[t] \in {"retire", "push"} <=> pc[t] \in {"retire", "push"}
  BY DEF UpdatersHold, WriterLabels
<1>2. UpdatersHold'
  BY <1>1 DEF UpdatersHold, Threads
<1> QED
  BY <1>1, <1>2, BooksFrame

LEMMA UnlinkBooks ==
    ASSUME UpdatersHold, NodeBooks, NEW t \in Threads, Unlink(t)
    PROVE  UpdatersHold' /\ NodeBooks'
<1> USE DEF Unlink, Goto
<1>1. /\ t \in Updaters /\ held[t] = NoNode /\ held'[t] = shared /\ shared # NoNode
      /\ shared' = shared + 1 /\ retired' = retired /\ freed' = freed
      /\ \A u \in Threads \ {t} : held'[u] = held[u] /\ pc'[u] = pc[u]
      /\ DOMAIN pc' = Threads /\ DOMAIN held' = Threads /\ pc'[t] = "retire"
  BY EpochAssumption DEF UpdatersHold, NodeBooks
<1>2. UpdatersHold'
  BY <1>1 DEF UpdatersHold, WriterLabels, Threads
<1>3. \A n : (Pushing(n)' <=> Pushing(n) \/ n = shared) /\ (Listed(n)' <=> Listed(n))
  BY <1>1 DEF Pushing, Listed, Threads
<1>4. ~ Pushing(shared) /\ ~ Listed(shared) /\ shared \notin freed
  BY DEF NodeBooks
<1>5. \A n : n \in 1 .. shared' - 1 <=> n \in 1 .. shared - 1 \/ n = shared
  BY <1>1 DEF NodeBooks
<1>6. \A u \in Updaters \ {t} : held'[u] = held[u] /\ held[u] # shared
  BY <1>1, <1>4 DEF Pushing, Threads
<1> QED
  BY <1>1, <1>2, <1>3, <1>4, <1>5, <1>6 DEF NodeBooks

LEMMA PushBooks ==
    ASSUME UpdatersHold, NodeBooks, NEW t \in Threads, RetirePush(t)
    PROVE  UpdatersHold' /\ NodeBooks'
<1> DEFINE r == [node |-> held[t], epoch |-> epoch[t]]
<1> USE DEF RetirePush, Goto
<1>1. /\ t \in Updaters /\ held[t] # NoNode /\ held'[t] = NoNode
      /\ shared' = shared /\ retired' = retired \cup {r} /\ freed' = freed
      /\ \A u \in Threads \ {t} : held'[u] = held[u] /\ pc'[u] = pc[u]
      /\ DOMAIN pc' = Threads /\ DOMAIN held' = Threads /\ pc'[t] = "idle"
  BY DEF UpdatersHold
<1>2. UpdatersHold'
  BY <1>1 DEF UpdatersHold, WriterLabels, Threads
<1>3. Pushing(held[t]) /\ ~ Listed(held[t]) /\ held[t] \notin freed
  BY <1>1 DEF NodeBooks, Pushing
<1>4. \A n : (Pushing(n)' <=> Pushing(n) /\ n # held[t]) /\ (Listed(n)' <=> Listed(n) \/ n = held[t])
  <2>1. \A u \in Updaters \ {t} : held'[u] = held[u] /\ (held[u] = held[t] => held[u] = NoNode)
    BY <1>1 DEF Threads, NodeBooks
  <2>2. \A n : Pushing(n)' <=> Pushing(n) /\ n # held[t]
    BY <1>1, <2>1 DEF Pushing
  <2>3. r.node = held[t]
    OBVIOUS
  <2> HIDE DEF r
  <2>4. \A n : Listed(n)' <=> Listed(n) \/ n = held[t]
    BY <1>1, <2>3 DEF Listed
  <2> QED
    BY <2>2, <2>4
<1>5. \A q \in retired : q.node # r.node
  BY <1>3 DEF Listed
<1>6. IsFiniteSet(retired')
  <2> HIDE DEF r
  <2>1. IsFiniteSet(retired \cup {r})
    BY FS_AddElement DEF NodeBooks
  <2> QED
    BY <1>1, <2>1
<1>7. \A q, p \in retired' : q.node = p.node => q = p
  BY <1>1, <1>5 DEF NodeBooks
<1>8. \A u, v \in Updaters : held'[u] = held'[v] /\ held'[u] # NoNode => u = v
  BY <1>1 DEF NodeBooks, Threads
<1>9. \A n : n \in 1 .. shared' - 1 <=> Pushing(n)' \/ Listed(n)' \/ n \in freed'
  BY <1>1, <1>3, <1>4 DEF NodeBooks
<1>10. \A n : ~ (Pushing(n)' /\ Listed(n)') /\ ~ ((Pushing(n)' \/ Listed(n)') /\ n \in freed')
  BY <1>1, <1>3, <1>4 DEF NodeBooks
<1> QED
  BY <1>1, <1>2, <1>6, <1>7, <1>8, <1>9, <1>10 DEF NodeBooks

\* Nodes go from the list to the freed ones: by a pass, or all of them.
LEMMA FreeBooks ==
    ASSUME NodeBooks, NEW gone \in SUBSET retired, shared' = shared,
           retired' = retired \ gone, freed' = freed \cup {q.node : q \in gone},
           \A u \in Updaters : held'[u] = held[u]
    PROVE  NodeBooks'
<1>1. \A n : Pushing(n)' <=> Pushing(n)
  BY DEF Pushing
<1>2. \A n : Listed(n) <=> Listed(n)' \/ \E q \in gone : q.node = n
  BY DEF Listed
<1>3. \A n : ~ (Listed(n)' /\ \E q \in gone : q.node = n)
  BY DEF Listed, NodeBooks
<1>4. \A n : n \in freed' <=> n \in freed \/ \E q \in gone : q.node = n
  OBVIOUS
<1>5. IsFiniteSet(retired')
  BY FS_Subset DEF NodeBooks
<1>6. \A q, p \in retired' : q.node = p.node => q = p
  BY DEF NodeBooks
<1>7. \A n : n \in 1 .. shared' - 1 <=> Pushing(n)' \/ Listed(n)' \/ n \in freed'
  BY <1>1, <1>2, <1>4 DEF NodeBooks
<1>8. \A n : ~ (Pushing(n)' /\ Listed(n)') /\ ~ ((Pushing(n)' \/ Listed(n)') /\ n \in freed')
  BY <1>1, <1>2, <1>3, <1>4 DEF NodeBooks
<1> QED
  BY <1>5, <1>6, <1>7, <1>8 DEF NodeBooks

LEMMA SweepBooks ==
    ASSUME UpdatersHold, NodeBooks, NEW t \in Threads, Sweep(t)
    PROVE  UpdatersHold' /\ NodeBooks'
<1> DEFINE gone == {q \in retired : q.epoch < epoch[t]}
<1>1. gone \in SUBSET retired /\ retired' = retired \ gone
      /\ freed' = freed \cup {q.node : q \in gone} /\ shared' = shared /\ held' = held
  BY DEF Sweep, Kept
<1>2. NodeBooks'
  <2> HIDE DEF gone
  <2> QED
    BY <1>1, FreeBooks
<1>3. UpdatersHold'
  BY DEF Sweep, Goto, UpdatersHold, WriterLabels, Threads
<1> QED
  BY <1>2, <1>3

LEMMA DestroyBooks ==
    ASSUME UpdatersHold, NodeBooks, Destroy
    PROVE  UpdatersHold' /\ NodeBooks'
<1>1. retired' = retired \ retired /\ freed' = freed \cup {q.node : q \in retired}
      /\ shared' = shared /\ held' = held
  BY DEF Destroy, Nodes
<1>2. NodeBooks'
  BY <1>1, FreeBooks
<1>3. UpdatersHold'
  BY DEF Destroy, UpdatersHold, WriterLabels, Threads
<1> QED
  BY <1>2, <1>3

LEMMA NextBooks ==
    ASSUME UpdatersHold, NodeBooks, [Next]_vars
    PROVE  UpdatersHold' /\ NodeBooks'
<1>1. CASE UNCHANGED vars
  BY <1>1, BooksFrame DEF vars, UpdatersHold
<1> QED
  BY <1>1, ReaderBooks, ScanBooks, UnlinkBooks, PushBooks, SweepBooks, DestroyBooks
  DEF Next, Step, Gone

\* Every node taken out of the client's pointer is with the updater that
\* retires it, on the list once, or freed once, whatever the readers do and
\* however many slots there are: nothing is leaked or deleted twice.
THEOREM NodesAccounted == Spec => []RetiredAccounted
<1>1. Init => UpdatersHold /\ NodeBooks
  BY InitBooks
<1>2. (UpdatersHold /\ NodeBooks) /\ [Next]_vars => (UpdatersHold /\ NodeBooks)'
  BY NextBooks
<1>3. NodeBooks => RetiredAccounted
  <2> SUFFICES ASSUME NodeBooks PROVE RetiredAccounted
    OBVIOUS
  <2> DEFINE pushing == {held[t] : t \in {u \in Updaters : held[u] # NoNode}}
  <2>1. \A n : (n \in pushing <=> Pushing(n)) /\ (n \in Nodes(retired) <=> Listed(n))
    BY DEF Pushing, Listed, Nodes
  <2>2. Cardinality(Nodes(retired)) = Cardinality(retired)
    <3>1. [r \in retired |-> r.node] \in Bijection(retired, Nodes(retired))
      BY DEF Bijection, Injection, Surjection, IsInjective, Nodes, NodeBooks
    <3>2. ExistsBijection(retired, Nodes(retired))
      BY <3>1 DEF ExistsBijection
    <3> QED
      BY <3>2, FS_Bijection DEF NodeBooks
  <2>3. pushing \cup Nodes(retired) \cup freed = 1 .. shared - 1
    BY <2>1 DEF NodeBooks
  <2>4. pushing \cap Nodes(retired) = {} /\ (pushing \cup Nodes(retired)) \cap freed = {}
    BY <2>1 DEF NodeBooks
  <2> QED
    BY <2>2, <2>3, <2>4 DEF RetiredAccounted
<1> QED
  BY <1>1, <1>2, <1>3, PTL DEF Spec
=============================================================================
