---------------------------- MODULE HistoryRing ----------------------------
(***************************************************************************)
(* RingBuffer: the history of past books.  The engine pushes; renderer     *)
(* threads read by index (get) or by time (prev_upper_bound), guarded only *)
(* by a sequence number.  Every load and store of seq_, head_ and tail_,   *)
(* and every word of a slot, is a step; readers share nothing they write.  *)
(*                                                                         *)
(* The n-th item pushed is the number n in each of its words, and n is its *)
(* time stamp; 0 is a value-initialised T.  Steps are sequentially         *)
(* consistent.  spin_count is never incremented by the code and only       *)
(* chooses between two ways to pause, so it is left out.                   *)
(***************************************************************************)
EXTENDS Integers

CONSTANTS
  Reader,
  Capacity,   \* a power of two in the code, 262144 for the books
  MaxPush,    \* bound: items pushed
  SizeMod,    \* size_t wraps around at this value
  Index,      \* arguments of get
  Query       \* arguments of prev_upper_bound

ASSUME RingAssumption ==
  /\ Capacity \in Nat \ {0}
  /\ MaxPush \in Nat
  /\ SizeMod \in Nat /\ SizeMod > MaxPush + Capacity
  /\ Index \subseteq Nat /\ Query \subseteq Nat

VARIABLES
  seq, head, tail,  \* seq_, head_, tail_
  slots,            \* data_
  wpc, unwritten,   \* the writer: position in push, words still to store
  rd                \* each reader's locals in get or prev_upper_bound

writerVars == <<seq, head, tail, slots, wpc, unwritten>>
vars == <<writerVars, rd>>

Word == {"start_timestamp", "dollars"}
Item == [Word -> 0..MaxPush]
NoItem == [w \in Word |-> 0]
Slot(i) == i % Capacity
Minus(a, b) == (a - b) % SizeMod

Idle == [pc |-> "idle", op |-> "get", arg |-> 0, seq0 |-> 0, head |-> 0,
         tail |-> 0, first |-> 0, len |-> 0, item |-> NoItem, found |-> FALSE,
         at |-> 0, uncopied |-> {}, some |-> FALSE, begun |-> 0]

Locals ==
  [pc : {"idle", "load", "head", "tail", "none", "search", "copy", "test", "done"},
   op : {"get", "prev"}, arg : Nat, seq0 : 0..(2 * MaxPush), head : 0..MaxPush,
   tail : 0..MaxPush, first : 0..(SizeMod - 1), len : 0..(SizeMod - 1), item : Item,
   found : BOOLEAN, at : 0..(Capacity - 1), uncopied : SUBSET Word, some : BOOLEAN,
   begun : 0..(2 * MaxPush)]

TypeOK ==
  /\ seq \in 0..(2 * MaxPush)
  /\ head \in 0..MaxPush
  /\ tail \in 0..head /\ head - tail <= Capacity
  /\ slots \in [0..(Capacity - 1) -> Item]
  /\ wpc \in {"idle", "store", "drop", "advance", "publish"}
  /\ unwritten \subseteq Word
  /\ rd \in [Reader -> Locals]

Init ==
  /\ seq = 0 /\ head = 0 /\ tail = 0
  /\ slots = [i \in 0..(Capacity - 1) |-> NoItem]
  /\ wpc = "idle" /\ unwritten = {}
  /\ rd = [r \in Reader |-> Idle]

(***************************************************************************)
(* push(item)                                                              *)
(***************************************************************************)
PushBegin ==
  /\ wpc = "idle" /\ head < MaxPush
  /\ seq' = seq + 1
  /\ wpc' = "store" /\ unwritten' = Word
  /\ UNCHANGED <<head, tail, slots, rd>>

PushStore(w) ==
  /\ wpc = "store" /\ w \in unwritten
  /\ slots' = [slots EXCEPT ![Slot(head)][w] = head + 1]
  /\ unwritten' = unwritten \ {w}
  /\ wpc' = IF unwritten = {w} THEN "drop" ELSE "store"
  /\ UNCHANGED <<seq, head, tail, rd>>

PushDrop ==
  /\ wpc = "drop"
  /\ tail' = IF head - tail = Capacity THEN tail + 1 ELSE tail
  /\ wpc' = "advance"
  /\ UNCHANGED <<seq, head, slots, unwritten, rd>>

PushAdvance ==
  /\ wpc = "advance"
  /\ head' = head + 1
  /\ wpc' = "publish"
  /\ UNCHANGED <<seq, tail, slots, unwritten, rd>>

PushEnd ==
  /\ wpc = "publish"
  /\ seq' = seq + 1
  /\ wpc' = "idle"
  /\ UNCHANGED <<head, tail, slots, unwritten, rd>>

(***************************************************************************)
(* get(index) and prev_upper_bound(value).  A reader replaces its locals   *)
(* and leaves the ring alone; every "continue" of the code goes to "test", *)
(* the condition of the do-while loop.                                     *)
(***************************************************************************)
Step(r, from, locals) ==
  /\ rd[r].pc = from
  /\ rd' = [rd EXCEPT ![r] = locals]
  /\ UNCHANGED writerVars

Go(r, pc) == [rd[r] EXCEPT !.pc = pc]

Call(r) ==
  \E c \in ({"get"} \X Index) \cup ({"prev"} \X Query) :
    Step(r, "idle", [Go(r, "load") EXCEPT !.op = c[1], !.arg = c[2], !.begun = seq])

Odd(n) == n % 2 = 1

LoadSeq(r) ==
  Step(r, "load", [Go(r, IF Odd(seq) THEN "test" ELSE "head") EXCEPT !.seq0 = seq])

LoadHead(r) == Step(r, "head", [Go(r, "tail") EXCEPT !.head = head])

\* The size read off a head and a tail of different pushes may wrap around.
Count(r) == Minus(rd[r].head, tail)

LoadTail(r) ==
  /\ rd[r].op = "get"
  /\ Step(r, "tail",
       IF rd[r].arg >= Count(r)
       THEN [Go(r, "none") EXCEPT !.tail = tail]
       ELSE [Go(r, "copy") EXCEPT !.tail = tail, !.at = Slot(tail + rd[r].arg),
                                  !.uncopied = Word, !.found = TRUE])

SearchBegin(r) ==
  /\ rd[r].op = "prev"
  /\ Step(r, "tail",
       IF Count(r) = 0
       THEN [Go(r, "none") EXCEPT !.tail = tail]
       ELSE [Go(r, "search") EXCEPT !.tail = tail, !.first = 0, !.len = Count(r)])

\* The middle of what is left of the search, and whether to go on before it.
Half(r) == rd[r].len \div 2
Middle(r) == rd[r].first + Half(r)
Before(r) == rd[r].arg < slots[Slot(rd[r].tail + Middle(r))]["start_timestamp"]

\* Mutant: the search goes on from the middle itself, and does not end.
MutSearchProbe(r) ==
  /\ rd[r].len > 0
  /\ Step(r, "search",
       IF Before(r) THEN [rd[r] EXCEPT !.len = Half(r)]
       ELSE [rd[r] EXCEPT !.first = Middle(r), !.len = @ - Half(r)])

SearchProbe(r) ==
  /\ rd[r].len > 0
  /\ Step(r, "search",
       IF Before(r) THEN [rd[r] EXCEPT !.len = Half(r)]
       ELSE [rd[r] EXCEPT !.first = Middle(r) + 1, !.len = @ - Half(r) - 1])

SearchEnd(r) ==
  /\ rd[r].len = 0
  /\ Step(r, "search",
       IF rd[r].first = 0 THEN [Go(r, "test") EXCEPT !.found = FALSE]
       ELSE [Go(r, "copy") EXCEPT !.at = Slot(rd[r].tail + rd[r].first - 1),
                                  !.uncopied = Word, !.found = TRUE])

CopyWord(r, w) ==
  /\ w \in rd[r].uncopied
  /\ Step(r, "copy",
       [Go(r, IF rd[r].uncopied = {w} THEN "test" ELSE "copy") EXCEPT
          !.item = [@ EXCEPT ![w] = slots[rd[r].at][w]], !.uncopied = @ \ {w}])

\* A pass is over: what some is, if nothing was pushed meanwhile.
EndPass(r, again, some) ==
  IF seq = rd[r].seq0 THEN [Go(r, "done") EXCEPT !.some = some] ELSE Go(r, again)

\* The early return of an index out of range, or of an empty ring.
ReturnNone(r) == Step(r, "none", EndPass(r, "test", FALSE))

\* get returns its item whether or not a pass has filled it.
Some(r) == rd[r].op = "get" \/ rd[r].found

\* Mutant: a pass is accepted whatever was pushed meanwhile.
MutTest(r) == Step(r, "test", [Go(r, "done") EXCEPT !.some = Some(r)])

Test(r) == Step(r, "test", EndPass(r, "load", Some(r)))

Return(r) == Step(r, "done", Idle)

Push == \/ PushBegin \/ PushDrop \/ PushAdvance \/ PushEnd
        \/ \E w \in Word : PushStore(w)

Read(r) ==
  \/ Call(r) \/ LoadSeq(r) \/ LoadHead(r) \/ LoadTail(r) \/ ReturnNone(r)
  \/ SearchBegin(r) \/ SearchProbe(r) \/ SearchEnd(r)
  \/ Test(r) \/ Return(r)
  \/ \E w \in Word : CopyWord(r, w)

Next == Push \/ \E r \in Reader : Read(r)

Spec == Init /\ [][Next]_vars
FairSpec == Spec /\ \A r \in Reader : WF_vars(rd[r].pc # "idle" /\ Read(r))

-----------------------------------------------------------------------------
(***************************************************************************)
(* Properties.  What the ring holds after p pushes is the last Capacity of *)
(* the items 1..p.                                                         *)
(***************************************************************************)
Oldest(p) == IF p > Capacity THEN p - Capacity + 1 ELSE 1
History(p) == Oldest(p)..p

\* The two reads of a ring that nobody is writing.
GetOf(p, index) == {n \in History(p) : n = Oldest(p) + index}
PrevOf(p, query) == {n \in History(p) : n <= query /\ ~(\E m \in History(p) :
                                                    n < m /\ m <= query)}

Clean(r) == rd[r].pc = "done" /\ ~Odd(rd[r].seq0)
Result(r, n) == rd[r].some /\ rd[r].item = [w \in Word |-> n]

\* A read whose last pass began at an even sequence number answers as if the
\* ring had stood still at that moment, which lies within the call: bounds
\* loaded from two different pushes (the size may even wrap around), slots
\* overwritten under the binary search and half-copied items never surface.
CleanReadIsAtomic ==
  \A r \in Reader : Clean(r) =>
    LET p == rd[r].seq0 \div 2
        answer == IF rd[r].op = "get" THEN GetOf(p, rd[r].arg)
                                      ELSE PrevOf(p, rd[r].arg)
    IN  /\ rd[r].begun <= rd[r].seq0 + 1
        /\ IF answer = {} THEN ~rd[r].some ELSE \E n \in answer : Result(r, n)

\* Every call of get or prev_upper_bound returns once the engine stops pushing,
\* whatever bounds the last pass had read: the binary search ends even on a
\* size that wrapped around.
ReadReturns == \A r \in Reader : rd[r].pc = "load" ~> rd[r].pc = "done"
============================================================================
