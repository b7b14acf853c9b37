------------------------------ MODULE SwmrMap ------------------------------
(***************************************************************************)
(* SwmrMap: a bounded hash map of one writer and lock-free readers.  put   *)
(* replaces a node, never changes one; a full map evicts by the clock      *)
(* algorithm; an unlinked node is retired with the epoch it was retired in *)
(* and deleted when no active reader entered in that epoch or before.      *)
(*                                                                         *)
(* Readers and the writer interleave at their loads and stores of shared   *)
(* atomics, in sequentially consistent order (the code puts seq_cst fences *)
(* where it relies on that).  The writer's walk along a chain only reads   *)
(* what it wrote itself and is part of the step that follows.              *)
(*                                                                         *)
(* A reader announces its epoch in a slot that it takes from the           *)
(* ThreadRegistry at its first get and gives back when the thread ends,    *)
(* for another thread to take with what was last announced there.          *)
(***************************************************************************)
EXTENDS Integers, Sequences, FiniteSets

CONSTANTS
  Key, NoKey,
  Bucket,    \* buckets_
  Hash,      \* std::hash<Key>{}(key) % NumBuckets
  Capacity,
  Reader,    \* threads that call get
  MaxReaders,
  Node,      \* addresses `new Node' may return
  Null,      \* nullptr
  MaxPuts    \* bound: calls of put

ASSUME MapAssumption ==
  /\ NoKey \notin Key /\ Null \notin Node
  /\ Hash \in [Key -> Bucket]
  /\ Capacity \in Nat \ {0} /\ MaxReaders \in Nat /\ MaxPuts \in Nat
  /\ IsFiniteSet(Node) /\ Cardinality(Node) >= MaxPuts

VARIABLES
  node,      \* the heap: what is at each address
  bucket,    \* buckets_
  clock,     \* clock_array_, as long as current_size_
  hand,      \* clock_hand_
  retired,   \* retired_list_
  epoch,     \* global_epoch_
  slots,     \* active_thread_slots_: the ids that are taken
  id,        \* each thread's registry.id_, if it has one
  active,    \* reader_states_[id].active_
  announced, \* reader_states_[id].epoch_
  writer,    \* the writer's position and locals in put
  rd,        \* each reader's position and locals in get
  puts,      \* calls of put so far; the value of the n-th put is n
  contents   \* ghost: the value of each key, 0 for none

heapVars == <<node, bucket, contents>>
clockVars == <<clock, hand>>
registryVars == <<slots, id>>
readerVars == <<active, announced, rd, registryVars>>
vars == <<heapVars, clockVars, retired, epoch, writer, puts, readerVars>>

Slot == 1..MaxReaders
NoSlot == 0
None == 0
Value == 1..MaxPuts
Live == [key : Key, value : Value, idx : 1..Capacity, referenced : BOOLEAN,
         next : Node \cup {Null}]
Deleted == [key |-> NoKey]
Pointer == Node \cup {Null}

TypeOK ==
  /\ node \in [Node -> Live \cup {Deleted}]
  /\ bucket \in [Bucket -> Pointer]
  /\ clock \in Seq(Node) /\ Len(clock) <= Capacity
  /\ hand \in 1..Capacity
  /\ retired \subseteq [node : Node, epoch : 1..epoch]
  /\ epoch \in 1..(MaxPuts + 1)
  /\ slots \subseteq Slot
  /\ id \in [Reader -> Slot \cup {NoSlot}]
  /\ active \in [Slot -> BOOLEAN]
  /\ announced \in [Slot -> 0..epoch]
  /\ puts \in 0..MaxPuts
  /\ contents \in [Key -> Value \cup {None}]

Init ==
  /\ node = [n \in Node |-> Deleted]
  /\ bucket = [b \in Bucket |-> Null]
  /\ clock = <<>> /\ hand = 1
  /\ retired = {}
  /\ epoch = 1
  /\ slots = {}
  /\ id = [r \in Reader |-> NoSlot]
  /\ active = [i \in Slot |-> FALSE]
  /\ announced = [i \in Slot |-> 0]
  /\ writer = [pc |-> "idle"]
  /\ rd = [r \in Reader |-> [pc |-> "idle"]]
  /\ puts = 0
  /\ contents = [k \in Key |-> None]

(***************************************************************************)
(* Chains.                                                                 *)
(***************************************************************************)
Allocated == {n \in Node : node[n] # Deleted}
Closed(S) == \A n \in S : node[n].next \in S \cup {Null}

\* The nodes that a walk from p comes to: those that are in every set which p is
\* in and no pointer of which leads out.
Chain(p) ==
  LET closed == {S \in SUBSET Allocated : p \in S \cup {Null} /\ Closed(S)}
  IN  {n \in Node : \A S \in closed : n \in S}
Linked(b) == Chain(bucket[b])
Holders(k) == {n \in Linked(Hash[k]) : node[n].key = k}

\* The pointer to n, in a node or in the bucket, becomes m.
Redirect(heap, b, n, m) ==
  IF bucket[b] = n
  THEN bucket' = [bucket EXCEPT ![b] = m] /\ node' = heap
  ELSE /\ UNCHANGED bucket
       /\ node' = [a \in Node |-> IF a \in Linked(b) /\ node[a].next = n
                                  THEN [heap[a] EXCEPT !.next = m] ELSE heap[a]]

Fresh(k, v, i, next) ==
  [key |-> k, value |-> v, idx |-> i, referenced |-> TRUE, next |-> next]

\* What a get under way may answer.
Observe(map) ==
  rd' = [r \in Reader |-> IF rd[r].pc \in {"idle", "register"} THEN rd[r]
                          ELSE [rd[r] EXCEPT !.seen = @ \cup {map[rd[r].key]}]]

Set(k, v) ==
  /\ contents' = [contents EXCEPT ![k] = v]
  /\ Observe(contents')

(***************************************************************************)
(* put                                                                     *)
(***************************************************************************)
Retire(n) == retired' = retired \cup {[node |-> n, epoch |-> epoch]}

BeginPut(k) ==
  /\ writer.pc = "idle"
  /\ puts < MaxPuts
  /\ puts' = puts + 1

\* Mutant: the old node stays in the clock array.
MutPutReplace(k) ==
  /\ BeginPut(k)
  /\ \E old \in Holders(k), new \in {n \in Node : node[n] = Deleted} :
       /\ Redirect([node EXCEPT ![new] = Fresh(k, puts', node[old].idx, node[old].next)],
                   Hash[k], old, new)
       /\ Retire(old)
  /\ Set(k, puts')
  /\ writer' = [pc |-> "advance"]
  /\ UNCHANGED <<hand, clock, epoch, active, announced, registryVars>>

PutReplace(k) ==
  /\ BeginPut(k)
  /\ \E old \in Holders(k), new \in {n \in Node : node[n] = Deleted} :
       /\ Redirect([node EXCEPT ![new] = Fresh(k, puts', node[old].idx, node[old].next)],
                   Hash[k], old, new)
       /\ clock' = [clock EXCEPT ![node[old].idx] = new]
       /\ Retire(old)
  /\ Set(k, puts')
  /\ writer' = [pc |-> "advance"]
  /\ UNCHANGED <<hand, epoch, active, announced, registryVars>>

\* Mutant: the new node is the only one of its bucket.
MutLinkHead(new, k, v, i) ==
  /\ node' = [node EXCEPT ![new] = Fresh(k, v, i, Null)]
  /\ bucket' = [bucket EXCEPT ![Hash[k]] = new]
  /\ Set(k, v)

\* A new node becomes the head of its bucket.
LinkHead(new, k, v, i) ==
  /\ node' = [node EXCEPT ![new] = Fresh(k, v, i, bucket[Hash[k]])]
  /\ bucket' = [bucket EXCEPT ![Hash[k]] = new]
  /\ Set(k, v)

PutInsert(k) ==
  /\ BeginPut(k)
  /\ Holders(k) = {}
  /\ Len(clock) < Capacity
  /\ \E new \in {n \in Node : node[n] = Deleted} :
       /\ LinkHead(new, k, puts', Len(clock) + 1)
       /\ clock' = Append(clock, new)
  /\ writer' = [pc |-> "advance"]
  /\ UNCHANGED <<hand, retired, epoch, active, announced, registryVars>>

PutFull(k) ==
  /\ BeginPut(k)
  /\ Holders(k) = {}
  /\ Len(clock) = Capacity
  /\ writer' = [pc |-> "sweep", key |-> k, swept |-> 0]
  /\ UNCHANGED <<heapVars, clockVars, retired, epoch, readerVars>>

\* Mutant: the hand runs off the array.
MutNext1(i) == i + 1

Next1(i) == (i % Capacity) + 1

Spare == node[clock[hand]].referenced /\ writer.swept < Capacity

\* The victim has been used since the hand last passed: it is spared once.
Sweep ==
  /\ writer.pc = "sweep"
  /\ Spare
  /\ node' = [node EXCEPT ![clock[hand]].referenced = FALSE]
  /\ hand' = Next1(hand)
  /\ writer' = [writer EXCEPT !.swept = @ + 1]
  /\ UNCHANGED <<bucket, contents, clock, retired, epoch, puts, readerVars>>

\* remove_from_hash_table
Unlink ==
  /\ writer.pc = "sweep"
  /\ ~Spare
  /\ LET victim == clock[hand]
         k == node[victim].key
     IN  /\ Redirect(node, Hash[k], victim, node[victim].next)
         /\ Retire(victim)
         /\ Set(k, None)
  /\ writer' = [writer EXCEPT !.pc = "link"]
  /\ UNCHANGED <<clockVars, epoch, puts, active, announced, registryVars>>

Link ==
  /\ writer.pc = "link"
  /\ \E new \in {n \in Node : node[n] = Deleted} :
       /\ LinkHead(new, writer.key, puts, hand)
       /\ clock' = [clock EXCEPT ![hand] = new]
  /\ hand' = Next1(hand)
  /\ writer' = [pc |-> "advance"]
  /\ UNCHANGED <<retired, epoch, puts, active, announced, registryVars>>

(***************************************************************************)
(* reclaim_memory                                                          *)
(***************************************************************************)
AdvanceEpoch ==
  /\ writer.pc = "advance"
  /\ epoch' = epoch + 1
  /\ writer' = [pc |-> "active", slot |-> 1, min |-> epoch']
  /\ UNCHANGED <<heapVars, clockVars, retired, puts, readerVars>>

LoadActive ==
  /\ writer.pc = "active"
  /\ writer.slot <= MaxReaders
  /\ writer' = IF active[writer.slot] THEN [writer EXCEPT !.pc = "epoch"]
               ELSE [writer EXCEPT !.slot = @ + 1]
  /\ UNCHANGED <<heapVars, clockVars, retired, epoch, puts, readerVars>>

LoadAnnounced ==
  /\ writer.pc = "epoch"
  /\ LET e == announced[writer.slot]
     IN  writer' = [pc |-> "active", slot |-> writer.slot + 1,
                    min |-> IF e < writer.min THEN e ELSE writer.min]
  /\ UNCHANGED <<heapVars, clockVars, retired, epoch, puts, readerVars>>

Old(e) == e < writer.min

Delete ==
  /\ writer.pc = "active"
  /\ writer.slot > MaxReaders
  /\ LET old == {t \in retired : Old(t.epoch)}
     IN  /\ node' = [n \in Node |-> IF \E t \in old : t.node = n THEN Deleted ELSE node[n]]
         /\ retired' = retired \ old
  /\ writer' = [pc |-> "idle"]
  /\ UNCHANGED <<bucket, contents, clockVars, epoch, puts, readerVars>>

put ==
  \/ \E k \in Key : PutReplace(k) \/ PutInsert(k) \/ PutFull(k)
  \/ Sweep \/ Unlink \/ Link
  \/ AdvanceEpoch \/ LoadActive \/ LoadAnnounced \/ Delete

(***************************************************************************)
(* get                                                                     *)
(***************************************************************************)
Move(r, from, to) ==
  /\ rd[r].pc = from
  /\ rd' = [rd EXCEPT ![r] = to]
  /\ UNCHANGED <<bucket, contents, clockVars, retired, epoch, writer, puts>>

Step(r, from, to) == Move(r, from, to) /\ UNCHANGED registryVars

\* ThreadRegistry: the first get of a thread.
LoadSlots(r) ==
  /\ id[r] = NoSlot
  /\ Step(r, "idle", [pc |-> "register", current |-> slots])
  /\ UNCHANGED <<node, active, announced>>

\* Mutant: the bit is set without a comparison.
MutTakeSlot(r, free) ==
  /\ Move(r, "register", [pc |-> "idle"])
  /\ slots' = slots \cup {free} /\ id' = [id EXCEPT ![r] = free]

\* The compare-exchange, which loads the bits again when they have changed.
TakeSlot(r, free) ==
  IF slots = rd[r].current
  THEN /\ Move(r, "register", [pc |-> "idle"])
       /\ slots' = slots \cup {free} /\ id' = [id EXCEPT ![r] = free]
  ELSE Step(r, "register", [rd[r] EXCEPT !.current = slots])

ChooseSlot(r) ==
  /\ rd[r].pc = "register"
  /\ \E free \in Slot \ rd[r].current :
       /\ \A i \in Slot \ rd[r].current : free <= i
       /\ TakeSlot(r, free)
  /\ UNCHANGED <<node, active, announced>>

\* "Exceeded maximum concurrent readers": the next get tries again.
NoSlotLeft(r) ==
  /\ rd[r].pc = "register"
  /\ rd[r].current = Slot
  /\ Step(r, "register", [pc |-> "idle"])
  /\ UNCHANGED <<node, active, announced>>

\* The thread ends.
EndThread(r) ==
  /\ id[r] # NoSlot
  /\ Move(r, "idle", [pc |-> "idle"])
  /\ slots' = slots \ {id[r]} /\ id' = [id EXCEPT ![r] = NoSlot]
  /\ UNCHANGED <<node, active, announced>>

Activate(r, k) ==
  /\ id[r] # NoSlot
  /\ Step(r, "idle", [pc |-> "load", key |-> k, at |-> Null, epoch |-> 0,
                      result |-> None, seen |-> {contents[k]}])
  /\ active' = [active EXCEPT ![id[r]] = TRUE]
  /\ UNCHANGED <<node, announced>>

LoadEpoch(r) ==
  /\ rd[r].pc = "load"
  /\ Step(r, "load", [rd[r] EXCEPT !.pc = "announce", !.epoch = epoch])
  /\ UNCHANGED <<node, active, announced>>

Announce(r) ==
  /\ rd[r].pc = "announce"
  /\ Step(r, "announce", [rd[r] EXCEPT !.pc = "bucket"])
  /\ announced' = [announced EXCEPT ![id[r]] = rd[r].epoch]
  /\ UNCHANGED <<node, active>>

LoadBucket(r) ==
  /\ rd[r].pc = "bucket"
  /\ Step(r, "bucket", [rd[r] EXCEPT !.pc = "visit", !.at = bucket[Hash[rd[r].key]]])
  /\ UNCHANGED <<node, active, announced>>

Found(r) == rd[r].at # Null /\ node[rd[r].at].key = rd[r].key

VisitFound(r) ==
  /\ rd[r].pc = "visit"
  /\ Found(r)
  /\ Step(r, "visit", [rd[r] EXCEPT !.pc = "leave", !.result = node[rd[r].at].value])
  /\ node' = [node EXCEPT ![rd[r].at].referenced = TRUE]
  /\ UNCHANGED <<active, announced>>

VisitOther(r) ==
  /\ rd[r].pc = "visit"
  /\ ~Found(r)
  /\ Step(r, "visit", [rd[r] EXCEPT !.pc = IF rd[r].at = Null THEN "leave" ELSE "next"])
  /\ UNCHANGED <<node, active, announced>>

LoadNext(r) ==
  /\ rd[r].pc = "next"
  /\ Step(r, "next", [rd[r] EXCEPT !.pc = "visit", !.at = node[rd[r].at].next])
  /\ UNCHANGED <<node, active, announced>>

Deactivate(r) ==
  /\ rd[r].pc = "leave"
  /\ Step(r, "leave", [rd[r] EXCEPT !.pc = "return", !.at = Null])
  /\ active' = [active EXCEPT ![id[r]] = FALSE]
  /\ UNCHANGED <<node, announced>>

Return(r) ==
  /\ Step(r, "return", [pc |-> "idle"])
  /\ UNCHANGED <<node, active, announced>>

get(r) ==
  \/ LoadSlots(r) \/ ChooseSlot(r) \/ NoSlotLeft(r)
  \/ \E k \in Key : Activate(r, k)
  \/ LoadEpoch(r) \/ Announce(r) \/ LoadBucket(r) \/ VisitFound(r)
  \/ VisitOther(r) \/ LoadNext(r) \/ Deactivate(r) \/ Return(r)

Next == put \/ \E r \in Reader : get(r) \/ EndThread(r)

Spec == Init /\ [][Next]_vars

-----------------------------------------------------------------------------
(***************************************************************************)
(* Properties.                                                             *)
(***************************************************************************)
\* No reader stands on a node that has been deleted, or on one that has been
\* allocated again for another purpose.
NoUseAfterFree ==
  \A r \in Reader : rd[r].pc \in {"visit", "next", "leave"} /\ rd[r].at # Null =>
    /\ node[rd[r].at] # Deleted
    /\ Hash[node[rd[r].at].key] = Hash[rd[r].key]

\* get answers with a value the key had, or with none if the key was absent,
\* at some moment of the call, whatever is replaced, evicted and inserted
\* while the reader walks along the chain.
GetLinearizable ==
  \A r \in Reader : rd[r].pc = "return" => rd[r].result \in rd[r].seen

\* The chains hold every present key once and nothing else, the clock array
\* holds exactly the nodes of the chains, each at its own index, so that the next
\* eviction unlinks a node that is really there, and a node that is not linked
\* waits in the retired list, once, to be deleted: nothing leaks.
ChainsAreTheMap ==
  LET linked == UNION {Linked(b) : b \in Bucket}
  IN  /\ \A k \in Key : {node[n].value : n \in Holders(k)} = {contents[k]} \ {None}
      /\ \A k \in Key : Cardinality(Holders(k)) <= 1
      /\ writer.pc # "link" =>
           /\ linked = {clock[i] : i \in 1..Len(clock)}
           /\ \A i \in 1..Len(clock) : node[clock[i]].idx = i
      /\ \A n \in Node : node[n] # Deleted =>
           Cardinality({t \in retired : t.node = n}) = IF n \in linked THEN 0 ELSE 1
=============================================================================
