------------------------- MODULE HistoryRing_proof -------------------------
(***************************************************************************)
(* The ring and its readers keep their types, and a read that did not      *)
(* leave through an odd sequence number answers from one state of the      *)
(* ring, for any number of readers, slots and pushes.                      *)
(***************************************************************************)
EXTENDS HistoryRing, TLAPS

USE RingAssumption DEF RingAssumption

\* seq counts two for each push, and a push that has dropped has room.
WriterInv ==
  /\ wpc = "idle" => seq = 2 * head
  /\ wpc \in {"store", "drop", "advance"} => seq = 2 * head + 1 /\ head < MaxPush
  /\ wpc = "publish" => seq = 2 * head - 1
  /\ wpc = "advance" => head - tail < Capacity

\* What is left of a search lies in the range of a size.
SearchInv ==
  \A r \in Reader : rd[r].pc = "search" => rd[r].first + rd[r].len < SizeMod

TypeInv == TypeOK /\ WriterInv /\ SearchInv

-----------------------------------------------------------------------------
LEMMA SlotType == \A i \in Int : Slot(i) \in 0..(Capacity - 1)
BY DEF Slot

LEMMA MinusType == \A a, b \in Int : Minus(a, b) \in 0..(SizeMod - 1)
BY DEF Minus

LEMMA TypeInit == Init => TypeInv
<1> SUFFICES ASSUME Init PROVE TypeInv
  OBVIOUS
<1>1. NoItem \in Item /\ Idle \in Locals
  BY DEF NoItem, Item, Idle, Locals
<1> QED BY <1>1 DEF Init, TypeInv, TypeOK, WriterInv, SearchInv, Idle

\* The writer's steps.
LEMMA TypePush == TypeInv /\ Push => TypeInv'
<1> SUFFICES ASSUME TypeInv, Push PROVE TypeInv'
  OBVIOUS
<1> USE DEF TypeInv, TypeOK, WriterInv, SearchInv
<1>1. CASE PushBegin
  BY <1>1 DEF PushBegin
<1>2. CASE PushDrop
  BY <1>2 DEF PushDrop
<1>3. CASE PushAdvance
  BY <1>3 DEF PushAdvance
<1>4. CASE PushEnd
  BY <1>4 DEF PushEnd
<1>5. ASSUME NEW w \in Word, PushStore(w) PROVE TypeInv'
  <2>1. Slot(head) \in 0..(Capacity - 1) /\ head + 1 \in 0..MaxPush
    BY <1>5, SlotType DEF PushStore
  <2>2. slots' \in [0..(Capacity - 1) -> Item]
    BY <1>5, <2>1 DEF PushStore, Item
  <2> QED BY <1>5, <2>2 DEF PushStore
<1> QED BY <1>1, <1>2, <1>3, <1>4, <1>5 DEF Push

\* A reader whose new locals have their types disturbs nothing else.
LEMMA TypeStep ==
  ASSUME TypeInv, NEW r \in Reader, NEW from, NEW locals \in Locals,
         locals.pc = "search" => locals.first + locals.len < SizeMod,
         Step(r, from, locals)
  PROVE  TypeInv'
BY DEF TypeInv, TypeOK, WriterInv, SearchInv, Step, writerVars

LEMMA TypeRead == \A r \in Reader : TypeInv /\ Read(r) => TypeInv'
<1> SUFFICES ASSUME NEW r \in Reader, TypeInv, Read(r) PROVE TypeInv'
  OBVIOUS
<1>0. rd[r] \in Locals /\ rd[r].pc = "search" => rd[r].first + rd[r].len < SizeMod
  BY DEF TypeInv, TypeOK, SearchInv
<1>a. rd[r] \in Locals
  BY DEF TypeInv, TypeOK
<1>b. /\ seq \in 0..(2 * MaxPush) /\ head \in 0..MaxPush /\ tail \in 0..MaxPush
  BY DEF TypeInv, TypeOK
<1>c. Count(r) \in 0..(SizeMod - 1)
  <2>1. rd[r].head \in Int /\ tail \in Int
    BY <1>a, <1>b DEF Locals
  <2>2. Minus(rd[r].head, tail) \in 0..(SizeMod - 1)
    BY <2>1, MinusType
  <2> QED BY <2>2 DEF Count
<1>1. CASE Call(r)
  <2> PICK c \in ({"get"} \X Index) \cup ({"prev"} \X Query) :
        Step(r, "idle", [Go(r, "load") EXCEPT !.op = c[1], !.arg = c[2], !.begun = seq])
    BY <1>1 DEF Call
  <2> DEFINE new == [Go(r, "load") EXCEPT !.op = c[1], !.arg = c[2], !.begun = seq]
  <2>1. c[1] \in {"get", "prev"} /\ c[2] \in Nat
    OBVIOUS
  <2>2. new \in Locals /\ new.pc = "load"
    BY <1>a, <1>b, <2>1 DEF Go, Locals
  <2> QED BY <2>2, TypeStep
<1>2. CASE LoadSeq(r)
  <2> DEFINE new == [Go(r, IF Odd(seq) THEN "test" ELSE "head") EXCEPT !.seq0 = seq]
  <2>1. new \in Locals /\ new.pc # "search"
    BY <1>a, <1>b DEF Go, Locals
  <2> QED BY <1>2, <2>1, TypeStep DEF LoadSeq
<1>3. CASE LoadHead(r)
  <2> DEFINE new == [Go(r, "tail") EXCEPT !.head = head]
  <2>1. new \in Locals /\ new.pc # "search"
    BY <1>a, <1>b DEF Go, Locals
  <2> QED BY <1>3, <2>1, TypeStep DEF LoadHead
<1>4. CASE LoadTail(r)
  <2> DEFINE none == [Go(r, "none") EXCEPT !.tail = tail]
             copy == [Go(r, "copy") EXCEPT !.tail = tail, !.at = Slot(tail + rd[r].arg),
                                           !.uncopied = Word, !.found = TRUE]
  <2>1. none \in Locals /\ none.pc = "none"
    BY <1>a, <1>b DEF Go, Locals
  <2>2. Slot(tail + rd[r].arg) \in 0..(Capacity - 1)
    BY <1>a, <1>b, SlotType DEF Locals
  <2>3. copy \in Locals /\ copy.pc = "copy"
    BY <1>a, <1>b, <2>2 DEF Go, Locals
  <2> HIDE DEF none, copy
  <2>4. Step(r, "tail", none) \/ Step(r, "tail", copy)
    BY <1>4 DEF LoadTail, none, copy
  <2> QED BY <2>1, <2>3, <2>4, TypeStep
<1>5. CASE SearchBegin(r)
  <2> DEFINE none == [Go(r, "none") EXCEPT !.tail = tail]
             search == [Go(r, "search") EXCEPT !.tail = tail, !.first = 0, !.len = Count(r)]
  <2>1. none \in Locals /\ none.pc = "none"
    BY <1>a, <1>b DEF Go, Locals
  <2>2. search \in Locals
    <3>1. 0 \in 0..(SizeMod - 1)
      OBVIOUS
    <3> DEFINE count == Count(r)
    <3> HIDE DEF count
    <3>2. [Go(r, "search") EXCEPT !.tail = tail, !.first = 0, !.len = count] \in Locals
      BY <1>a, <1>b, <1>c, <3>1 DEF Go, Locals, count
    <3> QED BY <3>2 DEF count
  <2>3. search.first = 0 /\ search.len = Count(r)
    BY <1>a DEF Go, Locals
  <2> HIDE DEF none, search
  <2>4. Step(r, "tail", none) \/ Step(r, "tail", search)
    BY <1>5 DEF SearchBegin, none, search
  <2> QED BY <1>c, <2>1, <2>2, <2>3, <2>4, TypeStep
<1>6. CASE SearchProbe(r)
  <2> DEFINE before == [rd[r] EXCEPT !.len = Half(r)]
             after == [rd[r] EXCEPT !.first = Middle(r) + 1, !.len = @ - Half(r) - 1]
  <2>1. /\ rd[r].pc = "search" /\ rd[r].len > 0
        /\ Step(r, "search", before) \/ Step(r, "search", after)
    BY <1>6 DEF SearchProbe, Step
  <2>2. /\ rd[r].first \in Nat /\ rd[r].len \in Nat /\ rd[r].first + rd[r].len < SizeMod
        /\ Half(r) \in Nat /\ Half(r) < rd[r].len /\ Middle(r) = rd[r].first + Half(r)
    BY <1>0, <1>a, <2>1 DEF Locals, Half, Middle
  <2>3. before \in Locals /\ before.first + before.len < SizeMod
    BY <1>a, <2>2 DEF Locals
  <2>4. after \in Locals /\ after.first + after.len < SizeMod
    <3>1. /\ Middle(r) + 1 \in 0..(SizeMod - 1)
          /\ rd[r].len - Half(r) - 1 \in 0..(SizeMod - 1)
          /\ Middle(r) + 1 + (rd[r].len - Half(r) - 1) < SizeMod
      BY <2>2
    <3>2. after.first = Middle(r) + 1 /\ after.len = rd[r].len - Half(r) - 1
      BY <1>a DEF Locals
    <3>3. after \in Locals
      BY <1>a, <3>1 DEF Locals
    <3> QED BY <3>1, <3>2, <3>3
  <2> HIDE DEF before, after
  <2> QED BY <2>1, <2>3, <2>4, TypeStep
<1>7. CASE SearchEnd(r)
  <2> DEFINE none == [Go(r, "test") EXCEPT !.found = FALSE]
             copy == [Go(r, "copy") EXCEPT !.at = Slot(rd[r].tail + rd[r].first - 1),
                                           !.uncopied = Word, !.found = TRUE]
  <2>1. none \in Locals /\ none.pc = "test"
    BY <1>a DEF Go, Locals
  <2>2. Slot(rd[r].tail + rd[r].first - 1) \in 0..(Capacity - 1)
    BY <1>a, SlotType DEF Locals
  <2>3. copy \in Locals /\ copy.pc = "copy"
    BY <1>a, <2>2 DEF Go, Locals
  <2> HIDE DEF none, copy
  <2>4. Step(r, "search", none) \/ Step(r, "search", copy)
    BY <1>7 DEF SearchEnd, none, copy
  <2> QED BY <2>1, <2>3, <2>4, TypeStep
<1>8. ASSUME NEW w \in Word, CopyWord(r, w) PROVE TypeInv'
  <2> DEFINE item == [rd[r].item EXCEPT ![w] = slots[rd[r].at][w]]
             new == [Go(r, IF rd[r].uncopied = {w} THEN "test" ELSE "copy") EXCEPT
                       !.item = item, !.uncopied = @ \ {w}]
  <2>1. item \in Item
    BY <1>a DEF Locals, Item, TypeInv, TypeOK
  <2> HIDE DEF item
  <2>2. new \in Locals /\ new.pc # "search"
    BY <1>a, <2>1 DEF Go, Locals
  <2>3. Step(r, "copy", new)
    BY <1>8, <1>a DEF CopyWord, item, Go, Locals
  <2> QED BY <2>2, <2>3, TypeStep
<1>9. ASSUME NEW again \in {"test", "load"}, NEW some \in BOOLEAN
      PROVE  EndPass(r, again, some) \in Locals /\ EndPass(r, again, some).pc # "search"
  BY <1>a DEF EndPass, Go, Locals
<1>10. CASE ReturnNone(r)
  BY <1>9, <1>10, TypeStep DEF ReturnNone
<1>11. CASE Test(r)
  <2>1. Some(r) \in BOOLEAN
    BY DEF Some
  <2> QED BY <1>9, <1>11, <2>1, TypeStep DEF Test
<1>12. CASE Return(r)
  <2>1. Idle \in Locals /\ Idle.pc = "idle"
    BY DEF Idle, Locals, Item, NoItem
  <2> QED BY <1>12, <2>1, TypeStep DEF Return
<1> QED BY <1>1, <1>2, <1>3, <1>4, <1>5, <1>6, <1>7, <1>8, <1>10, <1>11, <1>12 DEF Read

\* The ring keeps its types for every number of readers, slots and pushes: it
\* never holds more than Capacity items, and a search stays within the range of
\* the size it was begun with, though the size may have wrapped around.
THEOREM RingType == Spec => []TypeOK
<1>1. TypeInv /\ [Next]_vars => TypeInv'
  <2> SUFFICES ASSUME TypeInv, [Next]_vars PROVE TypeInv'
    OBVIOUS
  <2>1. CASE UNCHANGED vars
    BY <2>1 DEF vars, writerVars, TypeInv, TypeOK, WriterInv, SearchInv
  <2> QED BY <2>1, TypePush, TypeRead DEF Next
<1>2. TypeInv => TypeOK
  BY DEF TypeInv
<1> QED BY TypeInit, <1>1, <1>2, PTL DEF Spec

-----------------------------------------------------------------------------
(***************************************************************************)
(* What a read returns.                                                    *)
(***************************************************************************)
\* The items before the next one dropped.  A push that has begun is about to
\* overwrite the slot of the oldest item of a full ring.
Kept(p) == IF p > Capacity THEN p - Capacity ELSE 0

SlotsInv ==
  /\ wpc \in {"idle", "store", "drop", "publish"} => tail = Kept(head)
  /\ wpc = "advance" => tail = Kept(head + 1)
  /\ \A n \in 1..head, w \in Word :
       n > head - Capacity + (IF wpc \in {"store", "drop", "advance"} THEN 1 ELSE 0) =>
         slots[Slot(n - 1)][w] = n
  /\ wpc \in {"store", "drop", "advance"} =>
       \A w \in Word : w \in unwritten \/ slots[Slot(head)][w] = head + 1
  /\ wpc \in {"drop", "advance"} => unwritten = {}

\* The items a call with locals l may answer with, if its pass stands.
Answer(l) == IF l.op = "get" THEN GetOf(l.seq0 \div 2, l.arg)
                             ELSE PrevOf(l.seq0 \div 2, l.arg)

Answers(l, some) ==
  IF Answer(l) = {} THEN ~some
  ELSE some /\ \E n \in Answer(l) : l.item = [w \in Word |-> n]

\* A reader's locals while nothing has been pushed since its pass began: the
\* search has passed only items that are not too late, and left out only items
\* that are.
PassInv(l) ==
  l.pc \in {"tail", "none", "search", "copy", "test"} /\ l.seq0 = seq /\ ~Odd(seq) =>
    /\ l.pc = "tail" => l.head = head
    /\ l.pc = "none" => Answer(l) = {}
    /\ l.pc = "search" =>
         /\ l.op = "prev" /\ l.tail = tail /\ l.first + l.len <= head - tail
         /\ l.first = 0 \/ tail + l.first <= l.arg
         /\ l.first + l.len = head - tail \/ l.arg <= tail + l.first + l.len
    /\ l.pc = "copy" =>
         l.found /\ \E n \in Answer(l) : /\ l.at = Slot(n - 1)
                                         /\ \A w \in Word \ l.uncopied : l.item[w] = n
    /\ l.pc = "test" => Answers(l, l.op = "get" \/ l.found)

ReaderInv(l) ==
  /\ l.pc # "idle" => l.begun <= seq
  /\ l.pc \notin {"idle", "load"} => l.begun <= l.seq0 /\ l.seq0 <= seq
  /\ PassInv(l)
  /\ l.pc = "done" /\ ~Odd(l.seq0) => Answers(l, l.some)

RingInv == TypeInv /\ SlotsInv /\ \A r \in Reader : ReaderInv(rd[r])

\* Two positions less than a round apart have different slots.
LEMMA SlotsApart ==
  ASSUME NEW a \in Nat, NEW b \in Nat, a < b, b < a + Capacity
  PROVE  Slot(a) # Slot(b)
<1> SUFFICES ASSUME Slot(a) = Slot(b) PROVE FALSE
  OBVIOUS
<1> DEFINE d == a \div Capacity
           e == b \div Capacity
<1>1. /\ d \in Int /\ e \in Int
      /\ a = Capacity * d + (a % Capacity) /\ b = Capacity * e + (b % Capacity)
      /\ a % Capacity \in Int /\ a % Capacity = b % Capacity
  <2>1. \A p \in Nat : /\ p \div Capacity \in Int /\ p % Capacity \in Int
                       /\ p = Capacity * (p \div Capacity) + (p % Capacity)
    OBVIOUS
  <2>2. a % Capacity = b % Capacity
    BY DEF Slot
  <2> QED BY <2>1, <2>2
<1> HIDE DEF d, e
<1>2. Capacity * e - Capacity * d = b - a
  BY <1>1
<1>3. Capacity * (e - d) = b - a
  BY <1>1, <1>2
<1>4. CASE e - d <= 0
  BY <1>1, <1>3, <1>4
<1>5. CASE e - d >= 1
  BY <1>1, <1>3, <1>5
<1> QED BY <1>1, <1>4, <1>5

LEMMA KeptType == \A p \in Nat : Kept(p) \in 0..p /\ p - Kept(p) <= Capacity
BY DEF Kept

\* The contents of the ring, and the two reads of it, by position.
LEMMA HistoryIs == \A p \in Nat : History(p) = (Kept(p) + 1)..p
BY DEF History, Oldest, Kept

LEMMA GetOfIs ==
  ASSUME NEW p \in Nat, NEW i \in Nat
  PROVE  /\ i < p - Kept(p) => GetOf(p, i) = {Kept(p) + i + 1}
         /\ i >= p - Kept(p) => GetOf(p, i) = {}
<1>1. Oldest(p) = Kept(p) + 1 /\ Kept(p) \in Nat
  BY KeptType DEF Oldest, Kept
<1>2. GetOf(p, i) = {n \in (Kept(p) + 1)..p : n = Kept(p) + i + 1}
  <2>1. History(p) = (Kept(p) + 1)..p
    BY HistoryIs
  <2>2. \A n \in (Kept(p) + 1)..p : n = Oldest(p) + i <=> n = Kept(p) + i + 1
    BY <1>1
  <2> DEFINE S == (Kept(p) + 1)..p
  <2> HIDE DEF S
  <2>3. {n \in S : n = Oldest(p) + i} = {n \in S : n = Kept(p) + i + 1}
    BY <2>2 DEF S
  <2> QED BY <2>1, <2>3 DEF GetOf, S
<1> QED BY <1>1, <1>2

LEMMA PrevOfIs ==
  ASSUME NEW p \in Nat, NEW q \in Nat
  PROVE  /\ Kept(p) = p \/ q <= Kept(p) => PrevOf(p, q) = {}
         /\ \A k \in 1..(p - Kept(p)) :
              Kept(p) + k <= q /\ (k = p - Kept(p) \/ q <= Kept(p) + k) =>
                Kept(p) + k \in PrevOf(p, q)
<1>1. Kept(p) \in 0..p /\ History(p) = (Kept(p) + 1)..p
  BY HistoryIs, KeptType
<1>2. CASE Kept(p) = p \/ q <= Kept(p)
  <2>1. \A n \in History(p) : ~(n <= q)
    BY <1>1, <1>2
  <2>2. PrevOf(p, q) = {}
    BY <2>1 DEF PrevOf
  <2> QED BY <1>1, <1>2, <2>2
<1>3. ASSUME NEW k \in 1..(p - Kept(p)), Kept(p) + k <= q, k = p - Kept(p) \/ q <= Kept(p) + k
      PROVE  Kept(p) + k \in PrevOf(p, q)
  <2> DEFINE n == Kept(p) + k
  <2>1. n \in History(p) /\ n <= q
    BY <1>1, <1>3
  <2>2. \A m \in History(p) : ~(n < m /\ m <= q)
    BY <1>1, <1>3
  <2> QED BY <2>1, <2>2 DEF PrevOf
<1> QED BY <1>2, <1>3

\* What the ring is while nobody writes it.
LEMMA Quiet ==
  ASSUME TypeInv, SlotsInv, ~Odd(seq)
  PROVE  /\ seq \div 2 = head /\ tail = Kept(head)
         /\ \A k \in 0..(head - tail - 1), w \in Word : slots[Slot(tail + k)][w] = tail + k + 1
<1>1. head \in Nat /\ tail \in Nat
  BY DEF TypeInv, TypeOK
<1>2. wpc = "idle"
  BY <1>1 DEF Odd, TypeInv, TypeOK, WriterInv
<1>3. seq = 2 * head /\ tail = Kept(head)
  BY <1>2 DEF TypeInv, WriterInv, SlotsInv
<1>4. \A n \in 1..head, w \in Word : n > head - Capacity => slots[Slot(n - 1)][w] = n
  BY <1>1, <1>2 DEF SlotsInv
<1>5. ASSUME NEW k \in 0..(head - tail - 1), NEW w \in Word
      PROVE  slots[Slot(tail + k)][w] = tail + k + 1
  <2>1. tail + k + 1 \in 1..head /\ tail + k + 1 > head - Capacity /\ (tail + k + 1) - 1 = tail + k
    BY <1>1, <1>3 DEF Kept
  <2> QED BY <1>4, <2>1
<1> QED BY <1>1, <1>3, <1>5

-----------------------------------------------------------------------------
LEMMA RingInit == Init => RingInv
<1> SUFFICES ASSUME Init PROVE RingInv
  OBVIOUS
<1>1. SlotsInv
  BY DEF Init, SlotsInv, Kept
<1>2. \A r \in Reader : ReaderInv(rd[r])
  BY DEF Init, ReaderInv, PassInv, Idle
<1> QED BY <1>1, <1>2, TypeInit DEF RingInv

LEMMA PushSlots == TypeInv /\ SlotsInv /\ Push => SlotsInv'
<1> SUFFICES ASSUME TypeInv, SlotsInv, Push PROVE SlotsInv'
  OBVIOUS
<1>0. head \in Nat /\ tail \in Nat
  BY DEF TypeInv, TypeOK
<1>1. CASE PushBegin
  BY <1>0, <1>1 DEF PushBegin, SlotsInv
<1>2. CASE PushDrop
  <2>1. tail = Kept(head) /\ tail' = Kept(head + 1)
    BY <1>0, <1>2 DEF PushDrop, SlotsInv, Kept
  <2> QED BY <1>2, <2>1 DEF PushDrop, SlotsInv
<1>3. CASE PushAdvance
  <2>1. head' = head + 1 /\ wpc = "advance" /\ wpc' = "publish" /\ UNCHANGED <<slots, tail, unwritten>>
    BY <1>3 DEF PushAdvance
  <2>2. tail' = Kept(head')
    BY <2>1 DEF SlotsInv
  <2>3. ASSUME NEW n \in 1..head', NEW w \in Word, n > head' - Capacity
        PROVE  slots'[Slot(n - 1)][w] = n
    <3>1. CASE n = head + 1
      BY <1>0, <2>1, <3>1 DEF SlotsInv
    <3>2. CASE n # head + 1
      BY <1>0, <2>1, <2>3, <3>2 DEF SlotsInv
    <3> QED BY <3>1, <3>2
  <2> QED BY <1>0, <2>1, <2>2, <2>3 DEF SlotsInv
<1>4. CASE PushEnd
  BY <1>4 DEF PushEnd, SlotsInv
<1>5. ASSUME NEW w \in Word, PushStore(w) PROVE SlotsInv'
  <2>1. /\ wpc = "store" /\ wpc' \in {"store", "drop"} /\ w \in unwritten
        /\ unwritten' = unwritten \ {w} /\ (wpc' = "drop" => unwritten' = {})
        /\ slots' = [slots EXCEPT ![Slot(head)][w] = head + 1] /\ UNCHANGED <<head, tail>>
    BY <1>5 DEF PushStore
  <2>2. Slot(head) \in 0..(Capacity - 1) /\ slots \in [0..(Capacity - 1) -> Item]
    BY <1>0, SlotType DEF TypeInv, TypeOK
  <2>3. /\ slots'[Slot(head)][w] = head + 1
        /\ \A v \in Word \ {w} : slots'[Slot(head)][v] = slots[Slot(head)][v]
        /\ \A i \in 0..(Capacity - 1) : i # Slot(head) => slots'[i] = slots[i]
    BY <2>1, <2>2 DEF Item
  <2>4. ASSUME NEW n \in 1..head, NEW v \in Word, n > head - Capacity + 1
        PROVE  slots'[Slot(n - 1)][v] = n
    <3>1. n - 1 \in Nat /\ n - 1 < head /\ head < (n - 1) + Capacity
      BY <1>0, <2>4
    <3>2. Slot(n - 1) # Slot(head) /\ Slot(n - 1) \in 0..(Capacity - 1)
      BY <1>0, <3>1, SlotsApart, SlotType
    <3>3. slots[Slot(n - 1)][v] = n
      BY <2>1, <2>4 DEF SlotsInv
    <3> QED BY <2>3, <3>2, <3>3
  <2>5. tail' = Kept(head')
    BY <2>1 DEF SlotsInv
  <2>6. \A v \in Word : v \in unwritten' \/ slots'[Slot(head)][v] = head + 1
    BY <2>1, <2>3 DEF SlotsInv
  <2> QED BY <2>1, <2>4, <2>5, <2>6 DEF SlotsInv
<1> QED BY <1>1, <1>2, <1>3, <1>4, <1>5 DEF Push

\* No pass survives a step of the writer: before it or after it seq is odd, and
\* it never goes back.
LEMMA PushReaders ==
  ASSUME TypeInv, Push, NEW r \in Reader, ReaderInv(rd[r])
  PROVE  ReaderInv(rd[r])'
<1>1. rd' = rd /\ seq \in Nat /\ head \in Nat
  BY DEF Push, PushBegin, PushStore, PushDrop, PushAdvance, PushEnd, TypeInv, TypeOK
<1>2. rd[r].begun \in Nat /\ rd[r].seq0 \in Nat
  BY DEF TypeInv, TypeOK, Locals
<1>3. seq' = seq + 1 \/ (seq' = seq /\ Odd(seq))
  BY <1>1 DEF Push, PushBegin, PushStore, PushDrop, PushAdvance, PushEnd, TypeInv, WriterInv, Odd
<1>4. ~PassInv(rd[r])' => rd[r].seq0 = seq' /\ ~Odd(seq') /\ rd[r].pc \notin {"idle", "load"}
  BY <1>1 DEF PassInv
<1>5. PassInv(rd[r])'
  BY <1>1, <1>2, <1>3, <1>4 DEF ReaderInv
<1>6. Answer(rd[r])' = Answer(rd[r]) /\ Answers(rd[r], rd[r].some)' = Answers(rd[r], rd[r].some)
  BY <1>1 DEF Answer, Answers, GetOf, PrevOf, History, Oldest
<1> QED BY <1>1, <1>2, <1>3, <1>5, <1>6 DEF ReaderInv, Odd

\* A reader's step is about its own locals only.
LEMMA ReaderStep ==
  ASSUME TypeInv, SlotsInv, \A u \in Reader : ReaderInv(rd[u]),
         NEW r \in Reader, NEW from, NEW locals, Step(r, from, locals), ReaderInv(locals)
  PROVE  SlotsInv' /\ \A u \in Reader : ReaderInv(rd[u])'
<1>1. /\ UNCHANGED writerVars
      /\ \A u \in Reader : rd'[u] = IF u = r THEN locals ELSE rd[u]
  BY DEF Step, TypeInv, TypeOK
<1>2. SlotsInv'
  BY <1>1 DEF SlotsInv, writerVars
<1>3. ASSUME NEW u \in Reader PROVE ReaderInv(rd[u])'
  <2>1. ReaderInv(rd'[u])
    BY <1>1
  <2>2. Answer(rd[u])' = Answer(rd'[u])
    BY DEF Answer, GetOf, PrevOf, History, Oldest
  <2>3. \A some : Answers(rd[u], some)' <=> Answers(rd'[u], some)
    BY <2>2 DEF Answers
  <2> QED BY <1>1, <2>1, <2>2, <2>3 DEF ReaderInv, PassInv, writerVars, Odd
<1> QED BY <1>2, <1>3

LEMMA SameAnswer ==
  \A l, m : l.op = m.op /\ l.arg = m.arg /\ l.seq0 = m.seq0 => Answer(l) = Answer(m)
BY DEF Answer

\* The size a reader computes while nothing is pushed is the ring's.
LEMMA CountIs ==
  ASSUME TypeInv, SlotsInv, ~Odd(seq), NEW r \in Reader, rd[r].head = head
  PROVE  Count(r) = head - tail
<1>1. head \in Nat /\ tail \in Nat /\ head - tail \in 0..(SizeMod - 1)
  BY DEF TypeInv, TypeOK
<1> QED BY <1>1 DEF Count, Minus

LEMMA ReadKeeps ==
  ASSUME RingInv, NEW r \in Reader, Read(r)
  PROVE  SlotsInv' /\ \A u \in Reader : ReaderInv(rd[u])'
<1> DEFINE l == rd[r]
<1>a. l \in Locals
  BY DEF RingInv, TypeInv, TypeOK
<1>b. /\ seq \in Nat /\ head \in Nat /\ tail \in 0..head /\ head - tail <= Capacity
      /\ l.begun \in Nat /\ l.seq0 \in Nat /\ l.arg \in Nat /\ l.op \in {"get", "prev"}
  BY <1>a DEF RingInv, TypeInv, TypeOK, Locals
<1>c. TypeInv /\ SlotsInv /\ (\A u \in Reader : ReaderInv(rd[u])) /\ ReaderInv(l)
  BY DEF RingInv
<1>d. ~Odd(seq) =>
        /\ seq \div 2 = head /\ tail = Kept(head)
        /\ \A k \in 0..(head - tail - 1), w \in Word : slots[Slot(tail + k)][w] = tail + k + 1
  BY <1>c, Quiet
<1>e. ASSUME NEW from, NEW new, Step(r, from, new), ReaderInv(new)
      PROVE  SlotsInv' /\ \A u \in Reader : ReaderInv(rd[u])'
  BY <1>c, <1>e, ReaderStep
<1>1. CASE Call(r)
  <2> PICK c \in ({"get"} \X Index) \cup ({"prev"} \X Query) :
        Step(r, "idle", [Go(r, "load") EXCEPT !.op = c[1], !.arg = c[2], !.begun = seq])
    BY <1>1 DEF Call
  <2> DEFINE new == [Go(r, "load") EXCEPT !.op = c[1], !.arg = c[2], !.begun = seq]
  <2>1. new.pc = "load" /\ new.begun = seq
    BY <1>a DEF Go, Locals
  <2>2. ReaderInv(new)
    BY <1>b, <2>1 DEF ReaderInv, PassInv
  <2> QED BY <1>e, <2>2
<1>2. CASE LoadSeq(r)
  <2> DEFINE new == [Go(r, IF Odd(seq) THEN "test" ELSE "head") EXCEPT !.seq0 = seq]
  <2>1. /\ new.pc = IF Odd(seq) THEN "test" ELSE "head"
        /\ new.begun = l.begun /\ new.seq0 = seq
    BY <1>a DEF Go, Locals
  <2>2. l.begun <= seq
    BY <1>2, <1>c DEF LoadSeq, Step, ReaderInv
  <2>3. ReaderInv(new)
    BY <1>b, <2>1, <2>2 DEF ReaderInv, PassInv
  <2> QED BY <1>2, <1>e, <2>3 DEF LoadSeq
<1>3. CASE LoadHead(r)
  <2> DEFINE new == [Go(r, "tail") EXCEPT !.head = head]
  <2>1. new.pc = "tail" /\ new.begun = l.begun /\ new.seq0 = l.seq0 /\ new.head = head
    BY <1>a DEF Go, Locals
  <2>2. l.begun <= l.seq0 /\ l.seq0 <= seq
    BY <1>3, <1>c DEF LoadHead, Step, ReaderInv
  <2>3. ReaderInv(new)
    BY <1>b, <2>1, <2>2 DEF ReaderInv, PassInv
  <2> QED BY <1>3, <1>e, <2>3 DEF LoadHead
<1>4. CASE LoadTail(r)
  <2> DEFINE none == [Go(r, "none") EXCEPT !.tail = tail]
             copy == [Go(r, "copy") EXCEPT !.tail = tail, !.at = Slot(tail + l.arg),
                                           !.uncopied = Word, !.found = TRUE]
  <2>1. /\ none.pc = "none" /\ none.begun = l.begun /\ none.seq0 = l.seq0
        /\ none.op = l.op /\ none.arg = l.arg
    BY <1>a DEF Go, Locals
  <2>2. /\ copy.pc = "copy" /\ copy.begun = l.begun /\ copy.seq0 = l.seq0
        /\ copy.op = l.op /\ copy.arg = l.arg /\ copy.found
        /\ copy.at = Slot(tail + l.arg) /\ copy.uncopied = Word
    BY <1>a DEF Go, Locals
  <2>3. l.pc = "tail" /\ l.op = "get" /\ l.begun <= l.seq0 /\ l.seq0 <= seq
    BY <1>4, <1>c DEF LoadTail, Step, ReaderInv
  <2>4. \/ Step(r, "tail", none) /\ l.arg >= Count(r)
        \/ Step(r, "tail", copy) /\ ~(l.arg >= Count(r))
    BY <1>4 DEF LoadTail
  <2> HIDE DEF none, copy
  <2>5. ASSUME l.seq0 = seq, ~Odd(seq)
        PROVE  /\ Count(r) = head - tail /\ l.seq0 \div 2 = head /\ tail = Kept(head)
    BY <1>b, <1>c, <1>d, <2>3, <2>5, CountIs DEF ReaderInv, PassInv
  <2>6. CASE Step(r, "tail", none) /\ l.arg >= Count(r)
    <3>1. l.seq0 = seq /\ ~Odd(seq) => Answer(none) = {}
      BY <1>b, <2>1, <2>3, <2>5, <2>6, GetOfIs DEF Answer
    <3>2. ReaderInv(none)
      BY <1>b, <2>1, <2>3, <3>1 DEF ReaderInv, PassInv
    <3> QED BY <1>e, <2>6, <3>2
  <2>7. CASE Step(r, "tail", copy) /\ ~(l.arg >= Count(r))
    <3>1. ASSUME l.seq0 = seq, ~Odd(seq)
          PROVE  \E n \in Answer(copy) :
                   copy.at = Slot(n - 1) /\ \A w \in Word \ copy.uncopied : copy.item[w] = n
      <4>1. Answer(copy) = {tail + l.arg + 1}
        BY <1>b, <2>2, <2>3, <2>5, <2>7, <3>1, GetOfIs DEF Answer
      <4>2. (tail + l.arg + 1) - 1 = tail + l.arg
        BY <1>b
      <4> QED BY <2>2, <4>1, <4>2
    <3>2. ReaderInv(copy)
      BY <1>b, <2>2, <2>3, <3>1 DEF ReaderInv, PassInv
    <3> QED BY <1>e, <2>7, <3>2
  <2> QED BY <2>4, <2>6, <2>7
<1>5. CASE SearchBegin(r)
  <2> DEFINE none == [Go(r, "none") EXCEPT !.tail = tail]
             search == [Go(r, "search") EXCEPT !.tail = tail, !.first = 0, !.len = Count(r)]
  <2>1. /\ none.pc = "none" /\ none.begun = l.begun /\ none.seq0 = l.seq0
        /\ none.op = l.op /\ none.arg = l.arg
    BY <1>a DEF Go, Locals
  <2>2. /\ search.pc = "search" /\ search.begun = l.begun /\ search.seq0 = l.seq0
        /\ search.op = l.op /\ search.arg = l.arg
        /\ search.tail = tail /\ search.first = 0 /\ search.len = Count(r)
    BY <1>a DEF Go, Locals
  <2>3. l.pc = "tail" /\ l.op = "prev" /\ l.begun <= l.seq0 /\ l.seq0 <= seq
    BY <1>5, <1>c DEF SearchBegin, Step, ReaderInv
  <2>4. \/ Step(r, "tail", none) /\ Count(r) = 0
        \/ Step(r, "tail", search)
    BY <1>5 DEF SearchBegin
  <2> HIDE DEF none, search
  <2>5. ASSUME l.seq0 = seq, ~Odd(seq)
        PROVE  /\ Count(r) = head - tail /\ l.seq0 \div 2 = head /\ tail = Kept(head)
    BY <1>b, <1>c, <1>d, <2>3, <2>5, CountIs DEF ReaderInv, PassInv
  <2>6. CASE Step(r, "tail", none) /\ Count(r) = 0
    <3>1. l.seq0 = seq /\ ~Odd(seq) => Answer(none) = {}
      <4> SUFFICES ASSUME l.seq0 = seq, ~Odd(seq) PROVE Answer(none) = {}
        OBVIOUS
      <4>1. Kept(head) = head
        <5>1. 0 = head - tail /\ tail = Kept(head)
          BY <2>5, <2>6
        <5>2. head \in Int /\ tail \in Int
          BY <1>b
        <5> QED BY <5>1, <5>2
      <4>2. PrevOf(head, l.arg) = {}
        BY <1>b, <4>1, PrevOfIs
      <4> QED BY <2>1, <2>3, <2>5, <4>2 DEF Answer
    <3>2. ReaderInv(none)
      BY <1>b, <2>1, <2>3, <3>1 DEF ReaderInv, PassInv
    <3> QED BY <1>e, <2>6, <3>2
  <2>7. CASE Step(r, "tail", search)
    <3>1. l.seq0 = seq /\ ~Odd(seq) =>
            search.first + search.len = head - tail
      BY <1>b, <2>2, <2>5
    <3>2. ReaderInv(search)
      BY <1>b, <2>2, <2>3, <3>1 DEF ReaderInv, PassInv
    <3> QED BY <1>e, <2>7, <3>2
  <2> QED BY <2>4, <2>6, <2>7
<1>6. CASE SearchProbe(r)
  <2> DEFINE before == [l EXCEPT !.len = Half(r)]
             after == [l EXCEPT !.first = Middle(r) + 1, !.len = @ - Half(r) - 1]
  <2>1. /\ before.pc = l.pc /\ before.begun = l.begun /\ before.seq0 = l.seq0
        /\ before.op = l.op /\ before.arg = l.arg /\ before.tail = l.tail
        /\ before.first = l.first /\ before.len = Half(r)
    BY <1>a DEF Locals
  <2>2. /\ after.pc = l.pc /\ after.begun = l.begun /\ after.seq0 = l.seq0
        /\ after.op = l.op /\ after.arg = l.arg /\ after.tail = l.tail
        /\ after.first = Middle(r) + 1 /\ after.len = l.len - Half(r) - 1
    BY <1>a DEF Locals
  <2>3. l.pc = "search" /\ l.len > 0 /\ l.begun <= l.seq0 /\ l.seq0 <= seq
    BY <1>6, <1>c DEF SearchProbe, Step, ReaderInv
  <2>4. \/ Step(r, "search", before) /\ Before(r)
        \/ Step(r, "search", after) /\ ~Before(r)
    BY <1>6 DEF SearchProbe
  <2>5. /\ l.first \in Nat /\ l.len \in Nat /\ Middle(r) = l.first + Half(r)
        /\ Half(r) \in Nat /\ Half(r) < l.len
    BY <1>a, <2>3 DEF Locals, Half, Middle
  <2> HIDE DEF before, after
  \* The item in the middle is the one of its position.
  <2>6. ASSUME l.seq0 = seq, ~Odd(seq)
        PROVE  /\ l.op = "prev" /\ l.tail = tail /\ l.first + l.len <= head - tail
               /\ l.first = 0 \/ tail + l.first <= l.arg
               /\ l.first + l.len = head - tail \/ l.arg <= tail + l.first + l.len
               /\ Before(r) <=> l.arg < tail + Middle(r) + 1
    <3>1. /\ l.op = "prev" /\ l.tail = tail /\ l.first + l.len <= head - tail
          /\ l.first = 0 \/ tail + l.first <= l.arg
          /\ l.first + l.len = head - tail \/ l.arg <= tail + l.first + l.len
      BY <1>c, <2>3, <2>6 DEF ReaderInv, PassInv
    <3>2. Middle(r) \in 0..(head - tail - 1)
      BY <1>b, <2>5, <3>1
    <3>3. slots[Slot(tail + Middle(r))]["start_timestamp"] = tail + Middle(r) + 1
      BY <1>d, <2>6, <3>2 DEF Word
    <3> QED BY <3>1, <3>3 DEF Before
  <2>7. CASE Step(r, "search", before) /\ Before(r)
    <3>1. l.seq0 = seq /\ ~Odd(seq) =>
            before.first + before.len <= head - tail /\ before.arg <= tail + before.first + before.len
      BY <1>b, <2>1, <2>5, <2>6, <2>7
    <3>2. ReaderInv(before)
      BY <1>b, <2>1, <2>3, <2>6, <3>1 DEF ReaderInv, PassInv
    <3> QED BY <1>e, <2>7, <3>2
  <2>8. CASE Step(r, "search", after) /\ ~Before(r)
    <3>1. /\ after.first + after.len = l.first + l.len
          /\ l.seq0 = seq /\ ~Odd(seq) => tail + after.first <= after.arg
      BY <1>b, <2>2, <2>5, <2>6, <2>8
    <3>2. ReaderInv(after)
      BY <1>b, <2>2, <2>3, <2>5, <2>6, <3>1 DEF ReaderInv, PassInv
    <3> QED BY <1>e, <2>8, <3>2
  <2> QED BY <2>4, <2>7, <2>8
<1>7. CASE SearchEnd(r)
  <2> DEFINE none == [Go(r, "test") EXCEPT !.found = FALSE]
             copy == [Go(r, "copy") EXCEPT !.at = Slot(l.tail + l.first - 1),
                                           !.uncopied = Word, !.found = TRUE]
  <2>1. /\ none.pc = "test" /\ none.begun = l.begun /\ none.seq0 = l.seq0
        /\ none.op = l.op /\ none.arg = l.arg /\ none.found = FALSE
    BY <1>a DEF Go, Locals
  <2>2. /\ copy.pc = "copy" /\ copy.begun = l.begun /\ copy.seq0 = l.seq0
        /\ copy.op = l.op /\ copy.arg = l.arg /\ copy.found
        /\ copy.at = Slot(l.tail + l.first - 1) /\ copy.uncopied = Word
    BY <1>a DEF Go, Locals
  <2>3. l.pc = "search" /\ l.len = 0 /\ l.begun <= l.seq0 /\ l.seq0 <= seq /\ l.first \in Nat
    BY <1>7, <1>a, <1>c DEF SearchEnd, Step, ReaderInv, Locals
  <2>4. \/ Step(r, "search", none) /\ l.first = 0
        \/ Step(r, "search", copy) /\ l.first # 0
    BY <1>7 DEF SearchEnd
  <2> HIDE DEF none, copy
  <2>5. ASSUME l.seq0 = seq, ~Odd(seq)
        PROVE  /\ l.op = "prev" /\ l.tail = tail /\ l.first <= head - tail
               /\ l.first = 0 \/ tail + l.first <= l.arg
               /\ l.first = head - tail \/ l.arg <= tail + l.first
               /\ l.seq0 \div 2 = head /\ tail = Kept(head)
    BY <1>b, <1>c, <1>d, <2>3, <2>5 DEF ReaderInv, PassInv
  <2>6. CASE Step(r, "search", none) /\ l.first = 0
    <3>1. l.seq0 = seq /\ ~Odd(seq) => Answer(none) = {} /\ none.op = "prev"
      BY <1>b, <2>1, <2>5, <2>6, PrevOfIs DEF Answer
    <3>2. ReaderInv(none)
      BY <1>b, <2>1, <2>3, <3>1 DEF ReaderInv, PassInv, Answers
    <3> QED BY <1>e, <2>6, <3>2
  <2>7. CASE Step(r, "search", copy) /\ l.first # 0
    <3>1. ASSUME l.seq0 = seq, ~Odd(seq)
          PROVE  \E n \in Answer(copy) :
                   copy.at = Slot(n - 1) /\ \A w \in Word \ copy.uncopied : copy.item[w] = n
      <4>1. l.first \in 1..(head - Kept(head)) /\ Kept(head) + l.first = tail + l.first
        BY <1>b, <2>3, <2>5, <2>7, <3>1
      <4>2. tail + l.first \in PrevOf(head, l.arg)
        BY <1>b, <2>3, <2>5, <2>7, <3>1, <4>1, PrevOfIs
      <4>3. tail + l.first \in Answer(copy)
        BY <2>2, <2>5, <3>1, <4>2 DEF Answer
      <4>4. l.tail = tail
        BY <2>5, <3>1
      <4>5. copy.at = Slot((tail + l.first) - 1)
        <5>1. (tail + l.first) - 1 = l.tail + l.first - 1
          BY <1>b, <2>3, <4>4
        <5> QED BY <2>2, <5>1
      <4>6. Word \ copy.uncopied = {}
        BY <2>2
      <4> QED BY <4>3, <4>5, <4>6
    <3>2. ReaderInv(copy)
      BY <1>b, <2>2, <2>3, <3>1 DEF ReaderInv, PassInv
    <3> QED BY <1>e, <2>7, <3>2
  <2> QED BY <2>4, <2>6, <2>7
<1>8. ASSUME NEW w \in Word, CopyWord(r, w)
      PROVE  SlotsInv' /\ \A u \in Reader : ReaderInv(rd[u])'
  <2> DEFINE item == [l.item EXCEPT ![w] = slots[l.at][w]]
             new == [Go(r, IF l.uncopied = {w} THEN "test" ELSE "copy") EXCEPT
                       !.item = item, !.uncopied = @ \ {w}]
  <2>1. /\ new.pc = (IF l.uncopied = {w} THEN "test" ELSE "copy") /\ new.begun = l.begun
        /\ new.seq0 = l.seq0 /\ new.op = l.op /\ new.arg = l.arg /\ new.found = l.found
        /\ new.at = l.at /\ new.item = item /\ new.uncopied = l.uncopied \ {w}
    BY <1>a DEF Go, Locals
  <2>2. l.pc = "copy" /\ w \in l.uncopied /\ l.begun <= l.seq0 /\ l.seq0 <= seq
    BY <1>8, <1>c DEF CopyWord, Step, ReaderInv
  <2>3. Step(r, "copy", new)
    BY <1>8, <1>a DEF CopyWord, Go, Locals
  <2>4. /\ l.item \in Item /\ item \in [Word -> Int \cup {slots[l.at][w]}]
        /\ item[w] = slots[l.at][w] /\ \A v \in Word \ {w} : item[v] = l.item[v]
    BY <1>a DEF Locals, Item
  <2> HIDE DEF item, new
  <2>5. ASSUME l.seq0 = seq, ~Odd(seq)
        PROVE  /\ new.found
               /\ \E n \in Answer(new) : /\ new.at = Slot(n - 1)
                                         /\ \A v \in Word \ new.uncopied : new.item[v] = n
    <3>1. PICK n \in Answer(l) : l.at = Slot(n - 1) /\ \A v \in Word \ l.uncopied : l.item[v] = n
      BY <1>c, <2>2, <2>5 DEF ReaderInv, PassInv
    <3>2. l.found
      BY <1>c, <2>2, <2>5 DEF ReaderInv, PassInv
    <3>3. n \in (tail + 1)..head
      <4>1. n \in History(head)
        BY <1>d, <2>5, <3>1 DEF Answer, GetOf, PrevOf
      <4> QED BY <1>b, <1>d, <2>5, <4>1, HistoryIs
    <3>4. slots[l.at][w] = n
      <4>1. n - 1 - tail \in 0..(head - tail - 1) /\ tail + (n - 1 - tail) = n - 1
        BY <1>b, <3>3
      <4>2. slots[Slot(n - 1)][w] = n
        <5> DEFINE k == n - 1 - tail
        <5>1. slots[Slot(tail + k)][w] = tail + k + 1
          BY <1>d, <2>5, <4>1
        <5> QED BY <1>b, <3>3, <4>1, <5>1
      <4> QED BY <3>1, <4>2
    <3>5. \A v \in Word \ new.uncopied : new.item[v] = n
      BY <2>1, <2>4, <3>1, <3>4
    <3>6. Answer(new) = Answer(l)
      BY <2>1, SameAnswer
    <3> QED BY <2>1, <3>1, <3>2, <3>5, <3>6
  <2>6. ASSUME l.seq0 = seq, ~Odd(seq), new.uncopied = {}
        PROVE  Answers(new, new.op = "get" \/ new.found)
    <3>1. PICK n \in Answer(new) : \A v \in Word : new.item[v] = n
      BY <2>5, <2>6
    <3>2. new.item = [v \in Word |-> n]
      BY <2>1, <2>4, <3>1
    <3> QED BY <2>5, <2>6, <3>1, <3>2 DEF Answers
  <2>7. ReaderInv(new)
    BY <1>b, <2>1, <2>2, <2>5, <2>6 DEF ReaderInv, PassInv
  <2> QED BY <1>e, <2>3, <2>7
<1>9. CASE ReturnNone(r)
  <2> DEFINE done == [Go(r, "done") EXCEPT !.some = FALSE]
             test == Go(r, "test")
  <2>1. /\ done.pc = "done" /\ done.begun = l.begun /\ done.seq0 = l.seq0
        /\ done.op = l.op /\ done.arg = l.arg /\ done.some = FALSE
        /\ test.pc = "test" /\ test.begun = l.begun /\ test.seq0 = l.seq0
    BY <1>a DEF Go, Locals
  <2>2. l.pc = "none" /\ l.begun <= l.seq0 /\ l.seq0 <= seq
    BY <1>9, <1>c DEF ReturnNone, Step, ReaderInv
  <2>3. \/ Step(r, "none", done) /\ seq = l.seq0
        \/ Step(r, "none", test) /\ seq # l.seq0
    BY <1>9 DEF ReturnNone, EndPass
  <2> HIDE DEF done, test
  <2>4. seq = l.seq0 /\ ~Odd(l.seq0) => Answer(done) = {}
    <3>1. Answer(done) = Answer(l)
      BY <2>1, SameAnswer
    <3> QED BY <1>c, <2>2, <3>1 DEF ReaderInv, PassInv
  <2>5. seq = l.seq0 => ReaderInv(done)
    BY <1>b, <2>1, <2>2, <2>4 DEF ReaderInv, PassInv, Answers
  <2>6. seq # l.seq0 => ReaderInv(test)
    BY <1>b, <2>1, <2>2 DEF ReaderInv, PassInv
  <2> QED BY <1>e, <2>3, <2>5, <2>6
<1>10. CASE Test(r)
  <2> DEFINE done == [Go(r, "done") EXCEPT !.some = Some(r)]
             load == Go(r, "load")
  <2>1. /\ done.pc = "done" /\ done.begun = l.begun /\ done.seq0 = l.seq0
        /\ done.op = l.op /\ done.arg = l.arg /\ done.some = Some(r) /\ done.item = l.item
        /\ load.pc = "load" /\ load.begun = l.begun
    BY <1>a DEF Go, Locals
  <2>2. l.pc = "test" /\ l.begun <= l.seq0 /\ l.seq0 <= seq
    BY <1>10, <1>c DEF Test, Step, ReaderInv
  <2>3. \/ Step(r, "test", done) /\ seq = l.seq0
        \/ Step(r, "test", load)
    BY <1>10 DEF Test, EndPass
  <2> HIDE DEF done, load
  <2>4. seq = l.seq0 /\ ~Odd(l.seq0) => Answers(done, done.some)
    <3>1. Answer(done) = Answer(l)
      BY <2>1, SameAnswer
    <3>2. seq = l.seq0 /\ ~Odd(l.seq0) => Answers(l, l.op = "get" \/ l.found)
      BY <1>c, <2>2 DEF ReaderInv, PassInv
    <3> QED BY <2>1, <3>1, <3>2 DEF Answers, Some
  <2>5. seq = l.seq0 => ReaderInv(done)
    BY <1>b, <2>1, <2>2, <2>4 DEF ReaderInv, PassInv
  <2>6. ReaderInv(load)
    BY <1>b, <2>1, <2>2 DEF ReaderInv, PassInv
  <2> QED BY <1>e, <2>3, <2>5, <2>6
<1>11. CASE Return(r)
  <2>1. ReaderInv(Idle)
    BY DEF ReaderInv, PassInv, Idle
  <2> QED BY <1>11, <1>e, <2>1 DEF Return
<1> QED BY <1>1, <1>2, <1>3, <1>4, <1>5, <1>6, <1>7, <1>8, <1>9, <1>10, <1>11 DEF Read

LEMMA RingNext == RingInv /\ [Next]_vars => RingInv'
<1>1. CASE RingInv /\ Push
  BY <1>1, TypePush, PushSlots, PushReaders DEF RingInv
<1>2. ASSUME RingInv, NEW r \in Reader, Read(r) PROVE RingInv'
  BY <1>2, TypeRead, ReadKeeps DEF RingInv
<1>3. CASE RingInv /\ UNCHANGED vars
  <2>1. TypeInv' /\ SlotsInv'
    BY <1>3 DEF RingInv, vars, writerVars, TypeInv, TypeOK, WriterInv, SearchInv, SlotsInv
  <2>2. \A r \in Reader : ReaderInv(rd[r])'
    <3>1. UNCHANGED <<rd, seq, head, tail>> /\ RingInv
      BY <1>3 DEF vars, writerVars
    <3>2. \A l : Answer(l)' = Answer(l)
      BY <3>1 DEF Answer, GetOf, PrevOf, History, Oldest
    <3> QED BY <3>1, <3>2 DEF RingInv, ReaderInv, PassInv, Answers
  <2> QED BY <2>1, <2>2 DEF RingInv
<1> QED BY <1>1, <1>2, <1>3 DEF Next

\* A read whose last pass began at an even number returns what the ring held at
\* that moment, of which get takes the item of an index and prev_upper_bound the
\* last one that is not too late: for any capacity, and however often the ring is
\* overwritten under the loads, the binary search and the copy.
THEOREM CleanReads == Spec => []CleanReadIsAtomic
<1>1. RingInv => CleanReadIsAtomic
  <2> SUFFICES ASSUME RingInv, NEW r \in Reader, Clean(r)
               PROVE  /\ rd[r].begun <= rd[r].seq0 + 1
                      /\ IF Answer(rd[r]) = {} THEN ~rd[r].some
                         ELSE \E n \in Answer(rd[r]) : Result(r, n)
    BY DEF CleanReadIsAtomic, Answer
  <2>1. ReaderInv(rd[r]) /\ rd[r].begun \in Nat /\ rd[r].seq0 \in Nat
    BY DEF RingInv, TypeInv, TypeOK, Locals
  <2> QED BY <2>1 DEF ReaderInv, Clean, Answers, Result
<1> QED BY <1>1, RingInit, RingNext, PTL DEF Spec
=============================================================================
