----------------------------- MODULE TradeDeque -----------------------------
(***************************************************************************)
(* Deque: the trade ledger queue.  The engine pushes at the back, dropping *)
(* the oldest trades when the ring is full; any thread pops at the front.  *)
(* Every load, store and compare-exchange is a step, and so is every word  *)
(* of a slot.  The trade at position k of the pushes carries k in each of  *)
(* its words.  Steps are sequentially consistent, and a weak               *)
(* compare-exchange fails only when the value differs, as on x64.          *)
(***************************************************************************)
EXTENDS Integers

CONSTANTS
  Popper,    \* threads that call pop_front
  Word,      \* words of a trade
  Capacity,  \* 1024 in the code
  MaxPush    \* bound: trades pushed

ASSUME DequeAssumption == Capacity \in Nat \ {0} /\ MaxPush \in Nat

VARIABLES
  head, tail,        \* head_, tail_
  seq, data,         \* the slots of buffer_
  wpc, wt, unwritten,\* push_back: position, local t, words to store
  pc,                \* each popper's position in pop_front
  at, s1, item,      \* its locals t, s1 and item
  uncopied,          \* words it has still to copy
  returned           \* ghost: positions handed out

writerVars == <<wpc, wt, unwritten>>
popVars == <<pc, at, s1, item, uncopied, returned>>
vars == <<head, tail, seq, data, writerVars, popVars>>

Position == 0..(MaxPush - 1)
Trade == [Word -> Nat]
Slot(k) == k % Capacity
Slots == 0..(Capacity - 1)
Blank == [w \in Word |-> 0]

TypeOK ==
  /\ head \in 0..MaxPush
  /\ tail \in 0..head
  /\ seq \in [Slots -> Nat]
  /\ data \in [Slots -> Trade]
  /\ wpc \in {"idle", "drop", "mark", "store", "advance"}
  /\ wt \in Nat
  /\ unwritten \in SUBSET Word
  /\ pc \in [Popper -> {"idle", "head", "claim", "check", "copy", "recheck",
                        "done", "none"}]
  /\ at \in [Popper -> 0..MaxPush]
  /\ s1 \in [Popper -> Nat]
  /\ item \in [Popper -> Trade]
  /\ uncopied \in [Popper -> SUBSET Word]
  /\ returned \subseteq Position

Init ==
  /\ head = 0 /\ tail = 0
  /\ seq = [i \in Slots |-> 0] /\ data = [i \in Slots |-> Blank]
  /\ wpc = "idle" /\ wt = 0 /\ unwritten = {}
  /\ pc = [p \in Popper |-> "idle"]
  /\ at = [p \in Popper |-> 0] /\ s1 = [p \in Popper |-> 0]
  /\ item = [p \in Popper |-> Blank]
  /\ uncopied = [p \in Popper |-> {}]
  /\ returned = {}

(***************************************************************************)
(* push_back(item)                                                         *)
(***************************************************************************)
desired_tail == head - Capacity + 1

\* Mutant: room is made one push too late.
MutPushBegin ==
  /\ wpc = "idle" /\ head < MaxPush
  /\ wt' = tail
  /\ wpc' = IF head - tail > Capacity THEN "drop" ELSE "mark"
  /\ UNCHANGED <<head, tail, seq, data, unwritten, popVars>>

PushBegin ==
  /\ wpc = "idle" /\ head < MaxPush
  /\ wt' = tail
  /\ wpc' = IF head - tail >= Capacity THEN "drop" ELSE "mark"
  /\ UNCHANGED <<head, tail, seq, data, unwritten, popVars>>

\* The compare-exchange on tail_, which loads t again when a popper was faster.
PushDrop ==
  /\ wpc = "drop"
  /\ IF tail = wt
     THEN tail' = desired_tail /\ wt' = wt /\ wpc' = "mark"
     ELSE tail' = tail /\ wt' = tail
          /\ wpc' = IF tail < desired_tail THEN "drop" ELSE "mark"
  /\ UNCHANGED <<head, seq, data, unwritten, popVars>>

PushMark ==
  /\ wpc = "mark"
  /\ seq' = [seq EXCEPT ![Slot(head)] = 2 * head + 1]
  /\ wpc' = "store" /\ unwritten' = Word
  /\ UNCHANGED <<head, tail, data, wt, popVars>>

PushStore(w) ==
  /\ wpc = "store" /\ w \in unwritten
  /\ data' = [data EXCEPT ![Slot(head)][w] = head]
  /\ unwritten' = unwritten \ {w}
  /\ UNCHANGED <<head, tail, seq, wpc, wt, popVars>>

PushSeal ==
  /\ wpc = "store" /\ unwritten = {}
  /\ seq' = [seq EXCEPT ![Slot(head)] = 2 * head]
  /\ wpc' = "advance"
  /\ UNCHANGED <<head, tail, data, wt, unwritten, popVars>>

PushEnd ==
  /\ wpc = "advance"
  /\ head' = head + 1
  /\ wpc' = "idle"
  /\ UNCHANGED <<tail, seq, data, wt, unwritten, popVars>>

(***************************************************************************)
(* pop_front().  A trade that was overwritten while it was taken is given  *)
(* up, and the loop goes on with the t of that round.                      *)
(***************************************************************************)
Goto(p, to) == pc' = [pc EXCEPT ![p] = to]

PopCall(p) ==
  /\ pc[p] \in {"idle", "done", "none"}
  /\ at' = [at EXCEPT ![p] = tail]
  /\ Goto(p, "head")
  /\ UNCHANGED <<head, tail, seq, data, writerVars, s1, item, uncopied, returned>>

\* Mutant: the bound is off by one.
MutPopHead(p) ==
  /\ pc[p] = "head"
  /\ Goto(p, IF at[p] > head THEN "none" ELSE "claim")
  /\ UNCHANGED <<head, tail, seq, data, writerVars, at, s1, item, uncopied, returned>>

PopHead(p) ==
  /\ pc[p] = "head"
  /\ Goto(p, IF at[p] >= head THEN "none" ELSE "claim")
  /\ UNCHANGED <<head, tail, seq, data, writerVars, at, s1, item, uncopied, returned>>

PopClaim(p) ==
  /\ pc[p] = "claim"
  /\ IF tail = at[p]
     THEN tail' = at[p] + 1 /\ at' = at /\ Goto(p, "check")
     ELSE tail' = tail /\ at' = [at EXCEPT ![p] = tail] /\ Goto(p, "head")
  /\ UNCHANGED <<head, seq, data, writerVars, s1, item, uncopied, returned>>

\* Mutant: the popper waits for a slot that was overwritten.
MutPopCheck(p) ==
  /\ pc[p] = "check"
  /\ s1' = [s1 EXCEPT ![p] = seq[Slot(at[p])]]
  /\ Goto(p, IF seq[Slot(at[p])] = 2 * at[p] THEN "copy" ELSE "check")
  /\ uncopied' = [uncopied EXCEPT ![p] = Word]
  /\ UNCHANGED <<head, tail, seq, data, writerVars, at, item, returned>>

PopCheck(p) ==
  /\ pc[p] = "check"
  /\ s1' = [s1 EXCEPT ![p] = seq[Slot(at[p])]]
  /\ Goto(p, IF seq[Slot(at[p])] = 2 * at[p] THEN "copy" ELSE "head")
  /\ uncopied' = [uncopied EXCEPT ![p] = Word]
  /\ UNCHANGED <<head, tail, seq, data, writerVars, at, item, returned>>

PopCopy(p, w) ==
  /\ pc[p] = "copy" /\ w \in uncopied[p]
  /\ item' = [item EXCEPT ![p][w] = data[Slot(at[p])][w]]
  /\ uncopied' = [uncopied EXCEPT ![p] = @ \ {w}]
  /\ UNCHANGED <<head, tail, seq, data, writerVars, pc, at, s1, returned>>

\* Mutant: the sequence number is not loaded again.
MutPopRecheck(p) ==
  /\ pc[p] = "copy" /\ uncopied[p] = {}
  /\ Goto(p, "done") /\ returned' = returned \cup {at[p]}
  /\ UNCHANGED <<head, tail, seq, data, writerVars, at, s1, item, uncopied>>

PopRecheck(p) ==
  /\ pc[p] = "copy" /\ uncopied[p] = {}
  /\ IF seq[Slot(at[p])] = s1[p]
     THEN Goto(p, "done") /\ returned' = returned \cup {at[p]}
     ELSE Goto(p, "head") /\ returned' = returned
  /\ UNCHANGED <<head, tail, seq, data, writerVars, at, s1, item, uncopied>>

push_back ==
  \/ PushBegin \/ PushDrop \/ PushMark \/ PushSeal \/ PushEnd
  \/ \E w \in Word : PushStore(w)

\* The steps of a call under way.
Popping(p) ==
  \/ PopHead(p) \/ PopClaim(p) \/ PopCheck(p) \/ PopRecheck(p)
  \/ \E w \in Word : PopCopy(p, w)

pop_front(p) == PopCall(p) \/ Popping(p)

Next == push_back \/ \E p \in Popper : pop_front(p)

Spec == Init /\ [][Next]_vars

\* A thread inside pop_front keeps running; the writer may stop anywhere.
FairSpec == Spec /\ \A p \in Popper : WF_vars(Popping(p))

-----------------------------------------------------------------------------
(***************************************************************************)
(* Properties.                                                             *)
(***************************************************************************)
Holding(p) == pc[p] \in {"check", "copy"}

\* What pop_front returns is the trade of one push, whole, and the one the
\* popper claimed, although the writer may overwrite the slot under the copy.
PoppedWhole ==
  \A p \in Popper : pc[p] = "done" => item[p] = [w \in Word |-> at[p]]

\* Every call of pop_front returns once no more trades are pushed, even if the
\* writer stops in the middle of a push.
PopReturns == \A p \in Popper : pc[p] = "head" ~> pc[p] \in {"done", "none"}

\* The deque implements the queue of TradeQueue: trades come out oldest first
\* and none twice, one is lost only to make room for a newer, and pop_front
\* finds nothing only when there is nothing.
Queue == INSTANCE TradeQueue WITH
  pushed <- head,
  oldest <- tail,
  held <- [p \in Popper |-> IF Holding(p) THEN at[p] ELSE -1],
  empty <- {p \in Popper : pc[p] = "none"}

IsTradeQueue == Queue!Spec
=============================================================================
