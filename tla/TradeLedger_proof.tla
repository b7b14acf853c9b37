------------------------- MODULE TradeLedger_proof -------------------------
(***************************************************************************)
(* The Deque hands out whole trades and implements the queue of TradeQueue,*)
(* for any number of poppers, slots and trades; and the ledger panel on top*)
(* of it shows the newest trades it was given.  The candles that the store *)
(* makes of the trades are sound, hold every trade that was in time, and   *)
(* none is hidden from a reader.                                           *)
(***************************************************************************)
EXTENDS TradeLedger, CandlestickStore, FiniteSetTheorems, TLAPS

USE DequeAssumption DEF DequeAssumption

Whole(k) == [w \in Word |-> k]

\* The writer keeps at most Capacity trades, and has made room before it touches
\* the slot of the next.
WriterInv ==
  /\ head - tail <= Capacity
  /\ wpc # "idle" => head < MaxPush
  /\ wpc = "drop" => wt = head - Capacity /\ wt <= tail
  /\ wpc \in {"mark", "store", "advance"} => head - tail < Capacity
  /\ wpc = "store" =>
       /\ seq[Slot(head)] = 2 * head + 1
       /\ \A w \in Word : w \in unwritten \/ data[Slot(head)][w] = head
  /\ wpc = "advance" => seq[Slot(head)] = 2 * head /\ data[Slot(head)] = Whole(head)

\* The slot of a position that was pushed: its sequence number tells whether the
\* trade is still there, and it is for as long as it is among the newest.
SlotInv ==
  \A k \in 0..(head - 1) :
    /\ k > head - Capacity => seq[Slot(k)] = 2 * k
    /\ seq[Slot(k)] >= 2 * k
    /\ seq[Slot(k)] = 2 * k => data[Slot(k)] = Whole(k)

\* A popper is at a position that was pushed, and what it has copied is that
\* trade unless the sequence number has moved.
PopperInv(p) ==
  /\ pc[p] = "head" => at[p] <= tail
  /\ pc[p] = "claim" => at[p] <= tail /\ at[p] < head
  /\ Holding(p) => at[p] < tail /\ at[p] \notin returned
  /\ pc[p] = "copy" =>
       /\ s1[p] = 2 * at[p]
       /\ seq[Slot(at[p])] = s1[p] => \A w \in Word \ uncopied[p] : item[p][w] = at[p]
  /\ pc[p] = "done" => item[p] = Whole(at[p]) /\ at[p] < tail

Apart ==
  \A p, q \in Popper : Holding(p) /\ Holding(q) /\ p # q => at[p] # at[q]

\* The inductive invariant of the deque.
DequeInv ==
  /\ TypeOK /\ WriterInv /\ SlotInv
  /\ \A p \in Popper : PopperInv(p)
  /\ Apart
  /\ \A k \in returned : k < tail

-----------------------------------------------------------------------------
LEMMA SlotType == \A k \in Int : Slot(k) \in Slots
BY DEF Slot, Slots

(***************************************************************************)
(* Counters that wrap around, and the slots they are masked to.            *)
(***************************************************************************)
LEMMA Division ==
  ASSUME NEW m \in Nat \ {0}, NEW a \in Int
  PROVE  /\ a % m \in 0..(m - 1) /\ a \div m \in Int
         /\ a = m * (a \div m) + (a % m)
OBVIOUS

\* A remainder is known by its range.
LEMMA Remainder ==
  ASSUME NEW m \in Nat \ {0}, NEW q \in Int, NEW r \in 0..(m - 1)
  PROVE  (m * q + r) % m = r
<1> SUFFICES ASSUME NEW a \in Int, a = m * q + r PROVE a % m = r
  <2>1. m * q + r \in Int
    OBVIOUS
  <2> QED BY <2>1
<1> DEFINE e == a \div m
           s == a % m
<1>1. e \in Int /\ s \in 0..(m - 1) /\ a = m * e + s
  BY Division
<1> HIDE DEF e, s
<1>3. m * (e - q) = r - s
  <2>1. m * (e - q) = m * e - m * q
    BY <1>1
  <2>2. m * e \in Int /\ m * q \in Int
    BY <1>1
  <2> QED BY <1>1, <2>1, <2>2
<1>4. CASE e - q >= 1
  <2>1. m * (e - q) >= m
    BY <1>1, <1>4
  <2> QED BY <1>1, <1>3, <2>1
<1>5. CASE e - q <= -1
  <2>1. m * (e - q) <= -m
    BY <1>1, <1>5
  <2> QED BY <1>1, <1>3, <2>1
<1>6. CASE e - q = 0
  BY <1>1, <1>3, <1>6
<1>7. s = r
  BY <1>1, <1>4, <1>5, <1>6
<1> QED BY <1>7 DEF s

\* Two counts less than a round apart have different slots.
LEMMA RoundApart ==
  ASSUME NEW m \in Nat \ {0}, NEW a \in Int, NEW b \in Int, a < b, b < a + m
  PROVE  a % m # b % m
<1> SUFFICES ASSUME a % m = b % m PROVE FALSE
  OBVIOUS
<1> DEFINE d == a \div m
           e == b \div m
           r == a % m
<1>1. d \in Int /\ e \in Int /\ r \in Int /\ a = m * d + r /\ b = m * e + r
  BY Division
<1> HIDE DEF d, e, r
<1>2. m * (e - d) = b - a
  <2>1. m * (e - d) = m * e - m * d
    BY <1>1
  <2>2. m * e \in Int /\ m * d \in Int
    BY <1>1
  <2> QED BY <1>1, <2>1, <2>2
<1>3. CASE e - d <= 0
  <2>1. m * (e - d) <= 0
    BY <1>1, <1>3
  <2> QED BY <1>1, <1>2, <2>1
<1>4. CASE e - d >= 1
  <2>1. m * (e - d) >= m
    BY <1>1, <1>4
  <2> QED BY <1>1, <1>2, <2>1
<1> QED BY <1>1, <1>3, <1>4

\* Counting modulo m and then reducing again is counting and reducing once.
LEMMA WrapAround ==
  ASSUME NEW m \in Nat \ {0}, NEW a \in Int, NEW b \in Int
  PROVE  /\ ((a % m) + b) % m = (a + b) % m
         /\ ((a % m) - b) % m = (a - b) % m
         /\ ((a % m) - (b % m)) % m = (a - b) % m
<1> DEFINE d == a \div m
           r == a % m
           e == b \div m
           s == b % m
<1>1. /\ d \in Int /\ r \in Int /\ a = m * d + r
      /\ e \in Int /\ s \in Int /\ b = m * e + s
  BY Division
<1> HIDE DEF d, r, e, s
<1>2. \A x \in Int, k \in Int : (m * k + x) % m = x % m
  <2> SUFFICES ASSUME NEW x \in Int, NEW k \in Int PROVE (m * k + x) % m = x % m
    OBVIOUS
  <2> DEFINE f == x \div m
             t == x % m
  <2>1. f \in Int /\ t \in 0..(m - 1) /\ x = m * f + t
    BY Division
  <2> HIDE DEF f, t
  <2>2. m * k + x = m * (k + f) + t
    BY <2>1
  <2>3. (m * (k + f) + t) % m = t
    <3> DEFINE kf == k + f
    <3>1. kf \in Int
      BY <2>1
    <3> HIDE DEF kf
    <3>2. (m * kf + t) % m = t
      BY <2>1, <3>1, Remainder
    <3> QED BY <3>2 DEF kf
  <2> QED BY <2>2, <2>3 DEF t
<1>3. a + b = m * d + (r + b) /\ a - b = m * d + (r - b)
  <2>1. m * d \in Int
    BY <1>1
  <2> QED BY <1>1, <2>1
<1>4. a - b = m * (d - e) + (r - s)
  <2>1. m * d \in Int /\ m * e \in Int /\ m * (d - e) = m * d - m * e
    BY <1>1
  <2> QED BY <1>1, <2>1
<1>5. (a + b) % m = (r + b) % m
  <2> DEFINE x == r + b
  <2>1. x \in Int /\ a + b = m * d + x
    BY <1>1, <1>3
  <2> HIDE DEF x
  <2>2. (a + b) % m = x % m
    BY <1>1, <1>2, <2>1, ZenonT(60)
  <2> QED BY <2>2 DEF x
<1>6. (a - b) % m = (r - b) % m
  <2> DEFINE x == r - b
  <2>1. x \in Int /\ a - b = m * d + x
    BY <1>1, <1>3
  <2> HIDE DEF x
  <2>2. (a - b) % m = x % m
    BY <1>1, <1>2, <2>1, ZenonT(60)
  <2> QED BY <2>2 DEF x
<1>7. (a - b) % m = (r - s) % m
  <2> DEFINE x == r - s
             k == d - e
  <2>1. x \in Int /\ k \in Int /\ a - b = m * k + x
    BY <1>1, <1>4
  <2> HIDE DEF x, k
  <2>2. (a - b) % m = x % m
    BY <1>2, <2>1
  <2> QED BY <2>2 DEF x
<1> QED BY <1>5, <1>6, <1>7 DEF r, s

\* The mask of a counter that has wrapped around is the mask of the count, since the
\* number of slots divides the values of the counter.
LEMMA MaskAfterWrap ==
  ASSUME NEW m \in Nat \ {0}, NEW c \in Nat \ {0}, c % m = 0, NEW a \in Int
  PROVE  (a % c) % m = a % m
<1> DEFINE d == a \div c
           r == a % c
           q == c \div m
           e == r \div m
           s == r % m
<1>1. d \in Int /\ r \in Int /\ a = c * d + r
  BY Division
<1>2. q \in Int /\ c = m * q
  <2>1. c = m * q + (c % m) /\ q \in Int
    BY Division
  <2>2. m * q \in Int
    BY <2>1
  <2> QED BY <2>1, <2>2
<1>3. e \in Int /\ s \in 0..(m - 1) /\ r = m * e + s
  <2> HIDE DEF r
  <2> QED BY <1>1, Division
<1> HIDE DEF d, q, e, s, r
<1> DEFINE k == q * d + e
<1>4. k \in Int
  BY <1>1, <1>2, <1>3
<1>5. a = m * k + s
  <2>1. c * d = m * (q * d)
    BY <1>1, <1>2
  <2> DEFINE x == q * d
  <2>2. x \in Int /\ a = m * x + r
    BY <1>1, <1>2, <2>1
  <2> HIDE DEF x
  <2>3. m * (x + e) = m * x + m * e /\ m * x \in Int /\ m * e \in Int
    BY <1>3, <2>2
  <2>4. a = m * (x + e) + s
    BY <1>3, <2>2, <2>3
  <2> QED BY <2>4 DEF x
<1> HIDE DEF k
<1>6. a % m = s
  BY <1>3, <1>4, <1>5, Remainder
<1> QED BY <1>6 DEF r, s

LEMMA SlotsApart ==
  ASSUME NEW a \in Nat, NEW b \in Nat, a < b, b < a + Capacity
  PROVE  Slot(a) # Slot(b)
<1>1. a \in Int /\ b \in Int
  OBVIOUS
<1>2. a % Capacity # b % Capacity
  BY <1>1, RoundApart, Zenon
<1> QED BY <1>2 DEF Slot

-----------------------------------------------------------------------------
LEMMA DequeInit == Init => DequeInv
<1> SUFFICES ASSUME Init PROVE DequeInv
  OBVIOUS
<1>1. TypeOK
  BY DEF Init, TypeOK, Blank, Trade, Position
<1>2. WriterInv /\ SlotInv
  BY DEF Init, WriterInv, SlotInv
<1>3. \A p \in Popper : pc[p] = "idle"
  BY DEF Init
<1>4. (\A p \in Popper : PopperInv(p)) /\ Apart
  BY <1>3 DEF PopperInv, Apart, Holding
<1> QED BY <1>1, <1>2, <1>4 DEF DequeInv, Init

-----------------------------------------------------------------------------
(***************************************************************************)
(* The writer.                                                             *)
(***************************************************************************)
\* What the writer leaves alone, and that the tail only goes up.
LEMMA PushFrame ==
  ASSUME DequeInv, push_back
  PROVE  /\ UNCHANGED popVars
         /\ head' \in {head, head + 1} /\ tail' \in {tail, tail + 1}
         /\ head \in Nat /\ tail \in Nat /\ tail <= head
<1>1. UNCHANGED popVars /\ head' \in {head, head + 1}
  BY DEF push_back, PushBegin, PushDrop, PushMark, PushStore, PushSeal, PushEnd
<1>2. head \in Nat /\ tail \in Nat /\ tail <= head
  BY DEF DequeInv, TypeOK
<1>3. tail' \in {tail, tail + 1}
  <2>1. CASE PushDrop
    BY <1>2, <2>1 DEF PushDrop, DequeInv, WriterInv, desired_tail
  <2>2. CASE ~PushDrop
    BY <2>2 DEF push_back, PushBegin, PushMark, PushStore, PushSeal, PushEnd
  <2> QED BY <2>1, <2>2
<1> QED BY <1>1, <1>2, <1>3

LEMMA PushType == DequeInv /\ push_back => TypeOK' /\ WriterInv'
<1> SUFFICES ASSUME DequeInv, push_back PROVE TypeOK' /\ WriterInv'
  OBVIOUS
<1>0. /\ TypeOK /\ WriterInv /\ head \in Nat /\ tail \in Nat /\ tail <= head
      /\ Slot(head) \in Slots /\ UNCHANGED popVars
  BY PushFrame, SlotType DEF DequeInv, TypeOK
<1>1. CASE PushBegin
  BY <1>0, <1>1 DEF PushBegin, TypeOK, WriterInv, popVars
<1>2. CASE PushDrop
  BY <1>0, <1>2 DEF PushDrop, TypeOK, WriterInv, desired_tail, popVars
<1>3. CASE PushMark
  BY <1>0, <1>3 DEF PushMark, TypeOK, WriterInv, popVars
<1>4. ASSUME NEW w \in Word, PushStore(w) PROVE TypeOK' /\ WriterInv'
  <2>1. data' \in [Slots -> Trade]
    BY <1>0, <1>4 DEF PushStore, TypeOK, Trade
  <2>2. /\ data'[Slot(head)][w] = head
        /\ \A v \in Word \ {w} : data'[Slot(head)][v] = data[Slot(head)][v]
    BY <1>0, <1>4 DEF PushStore, TypeOK, Trade
  <2> QED BY <1>0, <1>4, <2>1, <2>2 DEF PushStore, TypeOK, WriterInv, popVars
<1>5. CASE PushSeal
  <2>1. seq' = [seq EXCEPT ![Slot(head)] = 2 * head] /\ UNCHANGED <<head, data, unwritten, tail, wt>>
    BY <1>5 DEF PushSeal
  <2>2. data[Slot(head)] = Whole(head)
    <3>1. data[Slot(head)] \in Trade /\ \A w \in Word : data[Slot(head)][w] = head
      BY <1>0, <1>5 DEF PushSeal, TypeOK, WriterInv
    <3> QED BY <3>1 DEF Trade, Whole
  <2> QED BY <1>0, <1>5, <2>1, <2>2 DEF PushSeal, TypeOK, WriterInv, popVars
<1>6. CASE PushEnd
  BY <1>0, <1>6 DEF PushEnd, TypeOK, WriterInv, popVars
<1> QED BY <1>1, <1>2, <1>3, <1>4, <1>5, <1>6 DEF push_back

\* The slot the writer stores to is none of the newest trades', and its sequence
\* number is not that of an older one.
LEMMA PushSlots == DequeInv /\ push_back => SlotInv'
<1> SUFFICES ASSUME DequeInv, push_back PROVE SlotInv'
  OBVIOUS
<1>0. /\ head \in Nat /\ Slot(head) \in Slots /\ seq \in [Slots -> Nat] /\ data \in [Slots -> Trade]
      /\ \A k \in 0..(head - 1) : k \in Nat /\ Slot(k) \in Slots
  BY PushFrame, SlotType DEF DequeInv, TypeOK
<1>1. \A k \in 0..(head - 1) : k > head - Capacity => Slot(k) # Slot(head)
  BY <1>0, SlotsApart
<1>2. CASE PushBegin \/ PushDrop
  BY <1>2 DEF PushBegin, PushDrop, DequeInv, SlotInv
<1>3. CASE PushMark \/ PushSeal
  <2>1. /\ UNCHANGED <<head, data>>
        /\ \E n \in {2 * head, 2 * head + 1} : seq' = [seq EXCEPT ![Slot(head)] = n]
    BY <1>3 DEF PushMark, PushSeal
  <2> SUFFICES ASSUME NEW k \in 0..(head - 1)
               PROVE  /\ k > head - Capacity => seq'[Slot(k)] = 2 * k
                      /\ seq'[Slot(k)] >= 2 * k
                      /\ seq'[Slot(k)] = 2 * k => data'[Slot(k)] = Whole(k)
    BY <2>1 DEF SlotInv
  <2>2. CASE Slot(k) = Slot(head)
    BY <1>0, <1>1, <2>1, <2>2
  <2>3. CASE Slot(k) # Slot(head)
    BY <1>0, <2>1, <2>3 DEF DequeInv, SlotInv
  <2> QED BY <2>2, <2>3
<1>4. ASSUME NEW w \in Word, PushStore(w) PROVE SlotInv'
  <2>1. /\ UNCHANGED <<head, seq>> /\ seq[Slot(head)] = 2 * head + 1
        /\ \A i \in Slots : i # Slot(head) => data'[i] = data[i]
    BY <1>0, <1>4 DEF PushStore, DequeInv, WriterInv
  <2> SUFFICES ASSUME NEW k \in 0..(head - 1), seq[Slot(k)] = 2 * k
               PROVE  data'[Slot(k)] = Whole(k)
    BY <2>1 DEF SlotInv, DequeInv
  <2>2. Slot(k) # Slot(head)
    BY <1>0, <2>1
  <2> QED BY <1>0, <2>1, <2>2 DEF DequeInv, SlotInv
<1>5. CASE PushEnd
  <2>1. head' = head + 1 /\ UNCHANGED <<seq, data>>
        /\ seq[Slot(head)] = 2 * head /\ data[Slot(head)] = Whole(head)
    BY <1>5 DEF PushEnd, DequeInv, WriterInv
  <2> SUFFICES ASSUME NEW k \in 0..head
               PROVE  /\ k > head + 1 - Capacity => seq[Slot(k)] = 2 * k
                      /\ seq[Slot(k)] >= 2 * k
                      /\ seq[Slot(k)] = 2 * k => data[Slot(k)] = Whole(k)
    BY <1>0, <2>1 DEF SlotInv
  <2>2. CASE k = head
    BY <1>0, <2>1, <2>2
  <2>3. CASE k # head
    <3>1. k \in 0..(head - 1) /\ (k > head + 1 - Capacity => k > head - Capacity)
      BY <1>0, <2>3
    <3> QED BY <3>1 DEF DequeInv, SlotInv
  <2> QED BY <2>2, <2>3
<1> QED BY <1>2, <1>3, <1>4, <1>5 DEF push_back

LEMMA PushKeeps == DequeInv /\ push_back => DequeInv'
<1> SUFFICES ASSUME DequeInv, push_back PROVE DequeInv'
  OBVIOUS
<1>0. /\ UNCHANGED <<pc, at, s1, item, uncopied, returned>>
      /\ head' \in {head, head + 1} /\ tail' \in {tail, tail + 1}
      /\ head \in Nat /\ tail \in Nat /\ tail <= head
  BY PushFrame DEF popVars
<1>1. ASSUME NEW p \in Popper PROVE PopperInv(p)'
  <2>1. at[p] \in Nat /\ PopperInv(p)
    BY DEF DequeInv, TypeOK
  <2>2. pc[p] = "copy" =>
          seq'[Slot(at[p])] = seq[Slot(at[p])] \/ seq'[Slot(at[p])] # 2 * at[p]
    <3> SUFFICES ASSUME pc[p] = "copy"
                 PROVE  seq'[Slot(at[p])] = seq[Slot(at[p])] \/ seq'[Slot(at[p])] # 2 * at[p]
      OBVIOUS
    <3>1. at[p] < head /\ Slot(at[p]) \in Slots
      BY <1>0, <2>1, SlotType DEF PopperInv, Holding
    <3>2. \/ UNCHANGED seq
          \/ \E n \in {2 * head, 2 * head + 1} : seq' = [seq EXCEPT ![Slot(head)] = n]
      BY DEF push_back, PushBegin, PushDrop, PushMark, PushStore, PushSeal, PushEnd
    <3> QED BY <1>0, <2>1, <3>1, <3>2 DEF DequeInv, TypeOK
  <2> QED BY <1>0, <2>1, <2>2 DEF PopperInv, Holding
<1>2. Apart' /\ \A k \in returned' : k < tail'
  BY <1>0 DEF DequeInv, Apart, Holding, TypeOK, Position
<1> QED BY <1>1, <1>2, PushType, PushSlots DEF DequeInv

-----------------------------------------------------------------------------
(***************************************************************************)
(* The poppers.                                                            *)
(***************************************************************************)
\* A popper's step that moves neither the tail nor what was handed out.
LEMMA PopperStep ==
  ASSUME DequeInv, NEW p \in Popper, TypeOK',
         UNCHANGED <<head, tail, seq, data, writerVars, returned>>,
         \A q \in Popper \ {p} : /\ pc'[q] = pc[q] /\ at'[q] = at[q] /\ s1'[q] = s1[q]
                                 /\ item'[q] = item[q] /\ uncopied'[q] = uncopied[q],
         Holding(p)' => Holding(p) /\ at'[p] = at[p],
         PopperInv(p)'
  PROVE  DequeInv'
<1>1. WriterInv' /\ SlotInv'
  BY DEF DequeInv, WriterInv, SlotInv, writerVars
<1>2. \A q \in Popper \ {p} : PopperInv(q)'
  BY DEF DequeInv, PopperInv, Holding
<1>3. Apart'
  BY DEF DequeInv, Apart, Holding
<1> QED BY <1>1, <1>2, <1>3 DEF DequeInv

LEMMA PopKeeps == \A p \in Popper : DequeInv /\ pop_front(p) => DequeInv'
<1> SUFFICES ASSUME NEW p \in Popper, DequeInv, pop_front(p) PROVE DequeInv'
  OBVIOUS
<1>0. /\ TypeOK /\ PopperInv(p) /\ head \in Nat /\ tail \in Nat /\ tail <= head /\ head <= MaxPush
      /\ at[p] \in Nat /\ Slot(at[p]) \in Slots
  BY SlotType DEF DequeInv, TypeOK
<1>1. CASE PopCall(p)
  <2>1. TypeOK'
    BY <1>0, <1>1 DEF PopCall, Goto, TypeOK, writerVars
  <2>2. pc'[p] = "head" /\ at'[p] = tail /\ tail' = tail
    BY <1>0, <1>1 DEF PopCall, Goto, TypeOK
  <2>3. PopperInv(p)'
    BY <1>0, <2>2 DEF PopperInv, Holding
  <2> QED BY <1>0, <1>1, <2>1, <2>2, <2>3, PopperStep DEF PopCall, Goto, TypeOK, Holding
<1>2. CASE PopHead(p)
  <2>1. TypeOK'
    BY <1>0, <1>2 DEF PopHead, Goto, TypeOK, writerVars
  <2>2. /\ pc[p] = "head" /\ pc'[p] = (IF at[p] >= head THEN "none" ELSE "claim")
        /\ UNCHANGED <<head, tail, at>>
    BY <1>0, <1>2 DEF PopHead, Goto, TypeOK
  <2>3. PopperInv(p)'
    BY <1>0, <2>2 DEF PopperInv, Holding
  <2> QED BY <1>0, <1>2, <2>1, <2>2, <2>3, PopperStep DEF PopHead, Goto, TypeOK, Holding
<1>3. CASE PopClaim(p) /\ tail # at[p]
  <2>1. TypeOK'
    BY <1>0, <1>3 DEF PopClaim, Goto, TypeOK, writerVars
  <2>2. pc'[p] = "head" /\ at'[p] = tail /\ tail' = tail
    BY <1>0, <1>3 DEF PopClaim, Goto, TypeOK
  <2>3. PopperInv(p)'
    BY <1>0, <2>2 DEF PopperInv, Holding
  <2> QED BY <1>0, <1>3, <2>1, <2>2, <2>3, PopperStep DEF PopClaim, Goto, TypeOK, Holding
\* The compare-exchange succeeds: the position is the popper's alone.
<1>4. CASE PopClaim(p) /\ tail = at[p]
  <2>1. /\ pc[p] = "claim" /\ tail' = tail + 1 /\ at' = at /\ pc' = [pc EXCEPT ![p] = "check"]
        /\ UNCHANGED <<head, seq, data, writerVars, s1, item, uncopied, returned>>
    BY <1>4 DEF PopClaim, Goto
  <2>2. tail < head
    BY <1>0, <1>4, <2>1 DEF PopperInv
  <2>3. TypeOK'
    BY <1>0, <2>1, <2>2 DEF TypeOK, writerVars
  <2>4. pc'[p] = "check" /\ \A q \in Popper \ {p} : pc'[q] = pc[q]
    BY <1>0, <2>1 DEF TypeOK
  <2>5. WriterInv'
    BY <1>0, <2>1, <2>2 DEF DequeInv, WriterInv, TypeOK, writerVars
  <2>6. SlotInv'
    BY <2>1 DEF DequeInv, SlotInv
  <2>7. at[p] \notin returned
    BY <1>0, <1>4 DEF DequeInv
  <2>8. PopperInv(p)'
    BY <1>0, <1>4, <2>1, <2>4, <2>7 DEF PopperInv, Holding
  <2>9. \A q \in Popper \ {p} : at[q] \in Nat /\ PopperInv(q)
    BY <1>0 DEF DequeInv, TypeOK
  <2>10. \A q \in Popper \ {p} : PopperInv(q)'
    BY <1>0, <2>1, <2>4, <2>9 DEF PopperInv, Holding
  <2>11. Apart'
    BY <1>0, <1>4, <2>1, <2>4, <2>9 DEF DequeInv, Apart, PopperInv, Holding
  <2>12. \A k \in returned' : k < tail'
    BY <1>0, <2>1 DEF DequeInv, TypeOK, Position
  <2> QED BY <2>3, <2>5, <2>6, <2>8, <2>10, <2>11, <2>12 DEF DequeInv
<1>5. CASE PopCheck(p)
  <2>1. TypeOK'
    BY <1>0, <1>5 DEF PopCheck, Goto, TypeOK, writerVars
  <2>2. /\ pc[p] = "check" /\ pc'[p] = (IF s1'[p] = 2 * at[p] THEN "copy" ELSE "head")
        /\ uncopied'[p] = Word /\ UNCHANGED <<head, tail, at, seq, returned>>
    BY <1>0, <1>5 DEF PopCheck, Goto, TypeOK
  <2>3. PopperInv(p)'
    BY <1>0, <2>2 DEF PopperInv, Holding
  <2> QED BY <1>0, <1>5, <2>1, <2>2, <2>3, PopperStep DEF PopCheck, Goto, TypeOK, Holding
<1>6. ASSUME NEW w \in Word, PopCopy(p, w) PROVE DequeInv'
  <2>1. /\ pc[p] = "copy" /\ pc' = pc /\ uncopied'[p] = uncopied[p] \ {w}
        /\ item'[p][w] = data[Slot(at[p])][w]
        /\ \A v \in Word \ {w} : item'[p][v] = item[p][v]
        /\ UNCHANGED <<head, tail, at, s1, seq, data, returned>>
    BY <1>0, <1>6 DEF PopCopy, TypeOK, Trade
  <2>2. TypeOK'
    <3>1. data[Slot(at[p])][w] \in Nat
      BY <1>0 DEF TypeOK, Trade
    <3>2. item' \in [Popper -> Trade]
      BY <1>0, <1>6, <3>1 DEF PopCopy, TypeOK, Trade
    <3> QED BY <1>0, <1>6, <3>2 DEF PopCopy, TypeOK, writerVars
  <2>3. seq[Slot(at[p])] = 2 * at[p] => data[Slot(at[p])][w] = at[p]
    <3>1. at[p] \in 0..(head - 1)
      BY <1>0, <2>1 DEF PopperInv, Holding
    <3> QED BY <3>1 DEF DequeInv, SlotInv, Whole
  <2>4. PopperInv(p)'
    BY <1>0, <2>1, <2>3 DEF PopperInv, Holding
  <2> QED BY <1>0, <1>6, <2>1, <2>2, <2>4, PopperStep DEF PopCopy, TypeOK, Holding
<1>7. CASE PopRecheck(p) /\ seq[Slot(at[p])] # s1[p]
  <2>1. TypeOK'
    BY <1>0, <1>7 DEF PopRecheck, Goto, TypeOK, writerVars
  <2>2. pc[p] = "copy" /\ pc'[p] = "head" /\ UNCHANGED <<head, tail, at, returned>>
    BY <1>0, <1>7 DEF PopRecheck, Goto, TypeOK
  <2>3. PopperInv(p)'
    BY <1>0, <2>2 DEF PopperInv, Holding
  <2> QED BY <1>0, <1>7, <2>1, <2>2, <2>3, PopperStep DEF PopRecheck, Goto, TypeOK, Holding
<1>8. CASE PopRecheck(p) /\ seq[Slot(at[p])] = s1[p]
  <2>1. /\ pc[p] = "copy" /\ uncopied[p] = {} /\ pc' = [pc EXCEPT ![p] = "done"]
        /\ returned' = returned \cup {at[p]}
        /\ UNCHANGED <<head, tail, seq, data, writerVars, at, s1, item, uncopied>>
    BY <1>8 DEF PopRecheck, Goto
  <2>2. pc'[p] = "done" /\ \A q \in Popper \ {p} : pc'[q] = pc[q]
    BY <1>0, <2>1 DEF TypeOK
  <2>3. at[p] < tail /\ at[p] \in Position
    BY <1>0, <2>1 DEF PopperInv, Holding, Position
  <2>4. TypeOK'
    BY <1>0, <2>1, <2>3 DEF TypeOK, writerVars
  <2>5. item[p] = Whole(at[p])
    <3>1. item[p] \in Trade /\ \A w \in Word : item[p][w] = at[p]
      BY <1>0, <1>8, <2>1 DEF PopperInv, TypeOK
    <3> QED BY <3>1 DEF Trade, Whole
  <2>6. PopperInv(p)'
    BY <1>0, <2>1, <2>2, <2>3, <2>5 DEF PopperInv, Holding
  <2>7. \A q \in Popper \ {p} : Holding(q) => at[q] # at[p]
    BY <2>1 DEF DequeInv, Apart, Holding
  <2>8. \A q \in Popper \ {p} : PopperInv(q)'
    BY <2>1, <2>2, <2>7 DEF DequeInv, PopperInv, Holding
  <2>9. Apart' /\ \A k \in returned' : k < tail'
    BY <2>1, <2>2, <2>3 DEF DequeInv, Apart, Holding
  <2>10. WriterInv' /\ SlotInv'
    BY <2>1 DEF DequeInv, WriterInv, SlotInv, writerVars
  <2> QED BY <2>4, <2>6, <2>8, <2>9, <2>10 DEF DequeInv
<1> QED BY <1>1, <1>2, <1>3, <1>4, <1>5, <1>6, <1>7, <1>8 DEF pop_front, Popping

LEMMA DequeNext == DequeInv /\ [Next]_vars => DequeInv'
<1>1. DequeInv /\ UNCHANGED vars => DequeInv'
  BY DEF vars, writerVars, popVars, DequeInv, TypeOK, WriterInv, SlotInv, PopperInv, Apart, Holding
<1> QED BY <1>1, PushKeeps, PopKeeps DEF Next

LEMMA DequeInductive == Spec => []DequeInv
BY DequeInit, DequeNext, PTL DEF Spec

\* What pop_front returns is the trade of one push, whole, though the writer may
\* overwrite the slot while it is copied: for any number of threads that pop.
THEOREM PopsAreWhole == Spec => []PoppedWhole
<1>1. DequeInv => PoppedWhole
  BY DEF DequeInv, PopperInv, PoppedWhole, Whole
<1> QED BY <1>1, DequeInductive, PTL

-----------------------------------------------------------------------------
(***************************************************************************)
(* The deque implements the queue: each step is one of TradeQueue's, or    *)
(* none.                                                                   *)
(***************************************************************************)
Held == [p \in Popper |-> IF Holding(p) THEN at[p] ELSE -1]
Empty == {p \in Popper : pc[p] = "none"}

LEMMA QueueInit == Init => Queue!Init
BY DEF Init, Queue!Init, Queue!Nothing, Holding

LEMMA QueuePush == DequeInv /\ push_back => [Queue!Next]_(Queue!vars)
<1> SUFFICES ASSUME DequeInv, push_back PROVE [Queue!Next]_(Queue!vars)
  OBVIOUS
<1>0. /\ UNCHANGED <<pc, at, returned>> /\ head \in Nat /\ tail \in Nat /\ tail <= head
      /\ WriterInv
  BY PushFrame DEF popVars, DequeInv
<1>1. UNCHANGED <<Held, Empty, returned>>
  BY <1>0 DEF Held, Empty, Holding
<1>2. CASE PushEnd
  <2>1. head' = head + 1 /\ tail' = tail /\ head - tail < Capacity
    BY <1>0, <1>2 DEF PushEnd, WriterInv
  <2> QED BY <1>1, <2>1 DEF Queue!Next, Queue!Push, Held, Empty
<1>3. CASE PushDrop /\ tail = wt
  <2>1. head' = head /\ tail' = tail + 1 /\ head - tail = Capacity
    BY <1>0, <1>3 DEF PushDrop, WriterInv, desired_tail
  <2> QED BY <1>1, <2>1 DEF Queue!Next, Queue!Drop, Held, Empty
<1>4. CASE ~PushEnd /\ ~(PushDrop /\ tail = wt)
  <2>1. UNCHANGED <<head, tail>>
    BY <1>4 DEF push_back, PushBegin, PushDrop, PushMark, PushStore, PushSeal
  <2> QED BY <1>1, <2>1 DEF Queue!vars, Held, Empty
<1> QED BY <1>2, <1>3, <1>4

\* A trade that is gone was pushed at least Capacity pushes ago.
LEMMA Overwritten ==
  ASSUME DequeInv, NEW p \in Popper, Holding(p), seq[Slot(at[p])] # 2 * at[p]
  PROVE  head >= at[p] + Capacity
<1>1. head \in Nat /\ at[p] \in 0..(head - 1)
  BY DEF DequeInv, TypeOK, PopperInv
<1> QED BY <1>1 DEF DequeInv, SlotInv

LEMMA QueuePop == \A p \in Popper : DequeInv /\ pop_front(p) => [Queue!Next]_(Queue!vars)
<1> SUFFICES ASSUME NEW p \in Popper, DequeInv, pop_front(p) PROVE [Queue!Next]_(Queue!vars)
  OBVIOUS
<1>0. /\ TypeOK /\ PopperInv(p) /\ head \in Nat /\ tail \in Nat /\ tail <= head
      /\ at[p] \in Nat
  BY DEF DequeInv, TypeOK
\* The locals of one popper.
<1>a. ASSUME NEW to, pc' = [pc EXCEPT ![p] = to],
             \A q \in Popper \ {p} : at'[q] = at[q],
             to # "none", pc[p] # "none"
      PROVE  UNCHANGED Empty
  BY <1>0, <1>a DEF Empty, TypeOK
<1>b. ASSUME NEW to, pc' = [pc EXCEPT ![p] = to],
             \A q \in Popper \ {p} : at'[q] = at[q],
             Holding(p)' <=> Holding(p), Holding(p) => at'[p] = at[p]
      PROVE  UNCHANGED Held
  BY <1>0, <1>b DEF Held, Holding, TypeOK
<1>c. ASSUME NEW to \in {"head", "done"}, pc' = [pc EXCEPT ![p] = to],
             \A q \in Popper \ {p} : at'[q] = at[q]
      PROVE  Held' = [Held EXCEPT ![p] = Queue!Nothing]
  BY <1>0, <1>c DEF Held, Holding, TypeOK, Queue!Nothing
<1>1. CASE PopCall(p)
  <2>1. /\ pc' = [pc EXCEPT ![p] = "head"] /\ ~Holding(p) /\ ~Holding(p)'
        /\ \A q \in Popper \ {p} : at'[q] = at[q]
        /\ UNCHANGED <<head, tail, returned>>
    BY <1>0, <1>1 DEF PopCall, Goto, Holding, TypeOK
  <2>2. UNCHANGED Held
    BY <1>b, <2>1
  <2>3. Empty' = Empty \ {p}
    BY <1>0, <2>1 DEF Empty, TypeOK
  <2> QED BY <2>1, <2>2, <2>3 DEF Queue!Next, Queue!Ask, Held, Empty
<1>2. CASE PopHead(p) /\ at[p] >= head
  <2>1. /\ pc' = [pc EXCEPT ![p] = "none"] /\ pc[p] = "head" /\ ~Holding(p) /\ ~Holding(p)'
        /\ at' = at /\ UNCHANGED <<head, tail, returned>>
    BY <1>0, <1>2 DEF PopHead, Goto, Holding, TypeOK
  <2>2. tail = head
    BY <1>0, <1>2, <2>1 DEF PopperInv
  <2>3. UNCHANGED Held /\ Held[p] = Queue!Nothing
    BY <1>b, <2>1 DEF Held, Queue!Nothing
  <2>4. Empty' = Empty \cup {p}
    BY <1>0, <2>1 DEF Empty, TypeOK
  <2> QED BY <2>1, <2>2, <2>3, <2>4 DEF Queue!Next, Queue!FindEmpty, Held, Empty
<1>3. CASE PopClaim(p) /\ tail = at[p]
  <2>1. /\ pc' = [pc EXCEPT ![p] = "check"] /\ pc[p] = "claim" /\ tail' = tail + 1
        /\ at' = at /\ UNCHANGED <<head, returned>>
    BY <1>0, <1>3 DEF PopClaim, Goto
  <2>2. tail < head
    BY <1>0, <1>3, <2>1 DEF PopperInv
  <2>3. Held[p] = Queue!Nothing /\ Held' = [Held EXCEPT ![p] = tail]
    BY <1>0, <1>3, <2>1 DEF Held, Holding, TypeOK, Queue!Nothing
  <2>4. UNCHANGED Empty
    BY <1>a, <2>1
  <2> QED BY <2>1, <2>2, <2>3, <2>4 DEF Queue!Next, Queue!Take, Held, Empty
<1>4. CASE PopRecheck(p) /\ seq[Slot(at[p])] = s1[p]
  <2>1. /\ pc' = [pc EXCEPT ![p] = "done"] /\ pc[p] = "copy" /\ Holding(p)
        /\ returned' = returned \cup {at[p]} /\ at' = at /\ UNCHANGED <<head, tail>>
    BY <1>0, <1>4 DEF PopRecheck, Goto, Holding
  <2>2. Held[p] = at[p] /\ at[p] # Queue!Nothing /\ at[p] \notin returned
    BY <1>0, <2>1 DEF Held, Queue!Nothing, PopperInv
  <2>3. Held' = [Held EXCEPT ![p] = Queue!Nothing]
    BY <1>c, <2>1
  <2>4. UNCHANGED Empty
    BY <1>a, <2>1
  <2> QED BY <2>1, <2>2, <2>3, <2>4 DEF Queue!Next, Queue!Deliver, Held, Empty
\* The writer has come around.
<1>5. CASE \/ PopCheck(p) /\ seq[Slot(at[p])] # 2 * at[p]
           \/ PopRecheck(p) /\ seq[Slot(at[p])] # s1[p]
  <2>1. /\ pc' = [pc EXCEPT ![p] = "head"] /\ pc[p] \in {"check", "copy"} /\ Holding(p)
        /\ at' = at /\ UNCHANGED <<head, tail, returned>>
    BY <1>0, <1>5 DEF PopCheck, PopRecheck, Goto, Holding
  <2>2. seq[Slot(at[p])] # 2 * at[p]
    BY <1>0, <1>5 DEF PopRecheck, PopperInv
  <2>3. Held[p] = at[p] /\ at[p] # Queue!Nothing /\ head >= at[p] + Capacity
    BY <1>0, <2>1, <2>2, Overwritten DEF Held, Queue!Nothing
  <2>4. Held' = [Held EXCEPT ![p] = Queue!Nothing]
    BY <1>c, <2>1
  <2>5. UNCHANGED Empty
    BY <1>a, <2>1
  <2> QED BY <2>1, <2>3, <2>4, <2>5 DEF Queue!Next, Queue!Forfeit, Held, Empty
<1>6. CASE \/ PopHead(p) /\ ~(at[p] >= head)
           \/ PopClaim(p) /\ tail # at[p]
           \/ PopCheck(p) /\ seq[Slot(at[p])] = 2 * at[p]
           \/ \E w \in Word : PopCopy(p, w)
  <2>1. \E to \in {"head", "claim", "copy"} :
          /\ pc' = [pc EXCEPT ![p] = to] /\ pc[p] # "none"
          /\ Holding(p) <=> to = "copy"
          /\ Holding(p) => at'[p] = at[p]
    BY <1>0, <1>6 DEF PopHead, PopClaim, PopCheck, PopCopy, Goto, Holding, TypeOK
  <2>2. (\A q \in Popper \ {p} : at'[q] = at[q]) /\ UNCHANGED <<head, tail, returned>>
    BY <1>0, <1>6 DEF PopHead, PopClaim, PopCheck, PopCopy, TypeOK
  <2>3. PICK to \in {"head", "claim", "copy"} :
          /\ pc' = [pc EXCEPT ![p] = to] /\ pc[p] # "none"
          /\ Holding(p) <=> to = "copy"
          /\ Holding(p) => at'[p] = at[p]
    BY <2>1
  <2>4. Holding(p)' <=> Holding(p)
    BY <1>0, <2>3 DEF Holding, TypeOK
  <2>5. UNCHANGED Held
    BY <1>b, <2>2, <2>3, <2>4
  <2>6. UNCHANGED Empty
    BY <1>a, <2>2, <2>3
  <2> QED BY <2>2, <2>5, <2>6 DEF Queue!vars, Held, Empty
<1> QED BY <1>1, <1>2, <1>3, <1>4, <1>5, <1>6 DEF pop_front, Popping, PopHead, PopClaim,
           PopCheck, PopRecheck

\* Trades come out oldest first and none twice, one is lost only to make room for
\* a newer one, and pop_front finds nothing only when there is nothing.
THEOREM DequeIsAQueue == Spec => IsTradeQueue
<1>1. DequeInv /\ [Next]_vars => [Queue!Next]_(Queue!vars)
  <2> SUFFICES ASSUME DequeInv, [Next]_vars PROVE [Queue!Next]_(Queue!vars)
    OBVIOUS
  <2>1. CASE UNCHANGED vars
    BY <2>1 DEF vars, writerVars, popVars, Queue!vars, Holding
  <2> QED BY <2>1, QueuePush, QueuePop DEF Next
<1> QED BY <1>1, QueueInit, DequeInductive, PTL DEF Spec, IsTradeQueue, Queue!Spec

-----------------------------------------------------------------------------
(***************************************************************************)
(* The ledger panel.                                                       *)
(***************************************************************************)
USE LedgerAssumption DEF LedgerAssumption

Oldest(n) == IF n > Rows THEN n - Rows ELSE 0

Larger(k) == {j \in fetched : j > k}

\* The panel is given each trade after the ones before it.
FetchInv ==
  /\ IsFiniteSet(fetched)
  /\ \A k \in fetched : k < tail
  /\ ~drawing => pc[Renderer] \in {"idle", "done", "none"}
  /\ drawing => pc[Renderer] # "idle"
  /\ drawing /\ pc[Renderer] \in {"check", "copy", "done"} =>
       \A k \in fetched : k < at[Renderer]

RowRing ==
  [data : [0..(Rows - 1) -> Trade], head : 0..(SizeMod - 1), tail : 0..(SizeMod - 1)]

\* The counters of the rows have come as far as the trades that were given, and
\* the i-th row from the end is the trade with i - 1 later ones.
RowInv ==
  LET n == Cardinality(fetched)
  IN  /\ trade_ledger \in RowRing
      /\ trade_ledger.tail = n % SizeMod
      /\ trade_ledger.head = Oldest(n) % SizeMod
      /\ \A i \in 1..Rows : i <= n =>
           \E k \in fetched : /\ Cardinality(Larger(k)) = i - 1
                              /\ trade_ledger.data[(n - i) % Rows] = Whole(k)

\* The inductive invariant of the panel.
LedgerInv ==
  /\ DequeInv /\ FetchInv /\ RowInv
  /\ fetched \subseteq Position /\ is_open \in BOOLEAN /\ drawing \in BOOLEAN

LEMMA LedgerInitInv == LedgerInit => LedgerInv
<1> SUFFICES ASSUME LedgerInit PROVE LedgerInv
  OBVIOUS
<1>1. DequeInv /\ pc[Renderer] = "idle"
  BY DequeInit DEF LedgerInit, Init
<1>2. FetchInv
  BY <1>1, FS_EmptySet DEF LedgerInit, FetchInv
<1>3. 0 % SizeMod = 0
  BY Division
<1>4. RowInv
  <2>1. trade_ledger \in RowRing /\ trade_ledger.tail = 0 /\ trade_ledger.head = 0
    BY DEF LedgerInit, Ledger!New, RowRing, Blank, Trade
  <2>2. Cardinality(fetched) = 0 /\ Oldest(0) = 0
    BY FS_EmptySet DEF LedgerInit, Oldest
  <2> QED BY <1>3, <2>1, <2>2 DEF RowInv
<1> QED BY <1>1, <1>2, <1>4 DEF LedgerInv, LedgerInit

\* What the panel does to the queue is a step of the queue.
LEMMA PanelPops == LedgerNext \/ UNCHANGED ledgerVars => [Next]_vars
BY DEF LedgerNext, Draw, Show, Next, pop_front, ledgerVars

\* The numbers a step works with: n trades were given and the last few are kept.
LEMMA Counts ==
  ASSUME FetchInv
  PROVE  LET n == Cardinality(fetched)
         IN  /\ n \in Nat /\ Oldest(n) \in Nat /\ n - Oldest(n) \in 0..Rows
             /\ (n - Oldest(n) = Rows) <=> n >= Rows
             /\ n - Oldest(n) = IF n < Rows THEN n ELSE Rows
<1> DEFINE n == Cardinality(fetched)
<1>1. n \in Nat
  BY FS_CardinalityType DEF FetchInv
<1> HIDE DEF n
<1> QED BY <1>1 DEF Oldest, n

LEMMA RowCount ==
  ASSUME FetchInv, RowInv
  PROVE  LET n == Cardinality(fetched)
         IN  Ledger!size(trade_ledger) = n - Oldest(n)
<1> DEFINE n == Cardinality(fetched)
           h == Oldest(n)
<1>1. n \in Nat /\ h \in Nat /\ n - h \in 0..Rows
  BY Counts
<1>2. trade_ledger.tail = n % SizeMod /\ trade_ledger.head = h % SizeMod
  BY DEF RowInv
<1> HIDE DEF n, h
<1>3. ((n % SizeMod) - (h % SizeMod)) % SizeMod = (n - h) % SizeMod
  <2>1. n \in Int /\ h \in Int /\ SizeMod \in Nat \ {0}
    BY <1>1
  <2> QED BY <2>1, WrapAround, Zenon
<1>4. (n - h) % SizeMod = n - h
  <2> DEFINE x == n - h
  <2>1. x \in 0..(SizeMod - 1) /\ x = SizeMod * 0 + x
    BY <1>1
  <2> HIDE DEF x
  <2>2. x % SizeMod = x
    BY <2>1, Remainder
  <2> QED BY <2>2 DEF x
<1>5. Ledger!size(trade_ledger) = n - h
  <2> DEFINE t == trade_ledger.tail
             b == trade_ledger.head
  <2>1. Ledger!size(trade_ledger) = (t - b) % SizeMod
    BY DEF Ledger!size
  <2>2. t = n % SizeMod /\ b = h % SizeMod
    BY <1>2
  <2> HIDE DEF t, b
  <2>3. (t - b) % SizeMod = n - h
    BY <1>3, <1>4, <2>2, Zenon
  <2> QED BY <2>1, <2>3, Zenon
<1> QED BY <1>5 DEF n, h

\* Adding a row: the counters go on, the slot of the row is the one that is free, and
\* the rows that stay are untouched.
LEMMA RowAdded ==
  ASSUME FetchInv, RowInv, NEW row \in Trade,
         trade_ledger' = Ledger!push_back(trade_ledger, row)
  PROVE  LET n == Cardinality(fetched)
         IN  /\ trade_ledger' \in RowRing
             /\ trade_ledger'.tail = (n + 1) % SizeMod
             /\ trade_ledger'.head = Oldest(n + 1) % SizeMod
             /\ trade_ledger'.data[n % Rows] = row
             /\ \A s \in 0..(Rows - 1) : s # n % Rows => trade_ledger'.data[s] = trade_ledger.data[s]
<1> DEFINE n == Cardinality(fetched)
           d == IF Ledger!full(trade_ledger) THEN Ledger!pop_front(trade_ledger) ELSE trade_ledger
           S == SizeMod
<1>1. n \in Nat /\ Oldest(n) \in Nat /\ ((n - Oldest(n) = Rows) <=> n >= Rows)
  BY Counts
<1>2. trade_ledger \in RowRing /\ trade_ledger.tail = n % S /\ trade_ledger.head = Oldest(n) % S
  BY DEF RowInv
<1>3. Ledger!full(trade_ledger) <=> n >= Rows
  <2>1. Ledger!size(trade_ledger) = n - Oldest(n)
    BY RowCount
  <2> HIDE DEF n
  <2>2. Ledger!full(trade_ledger) <=> n - Oldest(n) = Rows
    BY <2>1, Zenon DEF Ledger!full
  <2> QED BY <1>1, <2>2
<1> HIDE DEF n
<1>4. \A x \in Int : x % S \in 0..(S - 1) /\ ((x % S) + 1) % S = (x + 1) % S
                     /\ (x % S) % Rows = x % Rows /\ x % Rows \in 0..(Rows - 1)
  <2>1. 1 \in Int /\ S \in Nat \ {0} /\ Rows \in Nat \ {0} /\ S % Rows = 0
    OBVIOUS
  <2> QED BY <2>1, Division, WrapAround, MaskAfterWrap, Zenon
<1>5. d \in RowRing /\ d.tail = n % S /\ d.data = trade_ledger.data /\ d.head = Oldest(n + 1) % S
  <2>1. CASE n >= Rows
    <3>1. Oldest(n + 1) = Oldest(n) + 1
      BY <1>1, <2>1 DEF Oldest
    <3>2. d = [trade_ledger EXCEPT !.head = (@ + 1) % S]
      BY <1>3, <2>1 DEF Ledger!pop_front
    <3>3. (trade_ledger.head + 1) % S = Oldest(n + 1) % S /\ Oldest(n + 1) % S \in 0..(S - 1)
      <4>1. Oldest(n) \in Int /\ Oldest(n + 1) \in Int
        BY <1>1, <3>1
      <4>2. /\ ((Oldest(n) % S) + 1) % S = (Oldest(n) + 1) % S
            /\ Oldest(n + 1) % S \in 0..(S - 1)
        BY <1>4, <4>1, Zenon
      <4> QED BY <1>2, <3>1, <4>2, Zenon
    <3> QED BY <1>2, <3>2, <3>3 DEF RowRing
  <2>2. CASE n < Rows
    <3>1. Oldest(n + 1) = Oldest(n)
      BY <1>1, <2>2 DEF Oldest
    <3>2. d = trade_ledger
      BY <1>1, <1>3, <2>2
    <3> QED BY <1>2, <3>1, <3>2
  <2> QED BY <1>1, <2>1, <2>2
<1>6. trade_ledger' = Ledger!put(d, row)
  BY DEF Ledger!push_back
<1> HIDE DEF d
<1>7. /\ d.tail % Rows = n % Rows /\ n % Rows \in 0..(Rows - 1)
      /\ (d.tail + 1) % S = (n + 1) % S /\ (n + 1) % S \in 0..(S - 1)
  <2>1. n \in Int /\ n + 1 \in Int
    BY <1>1
  <2>2. /\ (n % S) % Rows = n % Rows /\ n % Rows \in 0..(Rows - 1)
        /\ ((n % S) + 1) % S = (n + 1) % S /\ (n + 1) % S \in 0..(S - 1)
    BY <1>4, <2>1, Zenon
  <2> QED BY <1>5, <2>2, Zenon
<1>8. trade_ledger' = [d EXCEPT !.data[n % Rows] = row, !.tail = (n + 1) % S]
  BY <1>6, <1>7 DEF Ledger!put
<1>9. /\ trade_ledger' \in RowRing
      /\ trade_ledger'.tail = (n + 1) % S /\ trade_ledger'.head = d.head
      /\ trade_ledger'.data = [d.data EXCEPT ![n % Rows] = row]
  BY <1>5, <1>7, <1>8, ZenonT(60) DEF RowRing
<1>10. /\ trade_ledger'.data[n % Rows] = row
       /\ \A s \in 0..(Rows - 1) : s # n % Rows => trade_ledger'.data[s] = d.data[s]
  BY <1>5, <1>7, <1>9 DEF RowRing
<1> QED BY <1>5, <1>9, <1>10 DEF n

\* The queue only moves on, and the panel's place in it is the renderer's.
LEMMA FetchKept ==
  ASSUME LedgerInv, DequeInv', push_back \/ Popping(Renderer)
                              \/ (\E p \in Popper \ {Renderer} : pop_front(p)),
         UNCHANGED panelVars
  PROVE  FetchInv'
<1>0. /\ FetchInv /\ UNCHANGED <<fetched, drawing>> /\ tail \in Nat
      /\ pc \in [Popper -> {"idle", "head", "claim", "check", "copy", "recheck", "done", "none"}]
      /\ at \in [Popper -> 0..MaxPush] /\ fetched \subseteq Nat
  BY DEF LedgerInv, DequeInv, TypeOK, panelVars, Position
<1>1. tail' \in {tail, tail + 1}
  <2>1. CASE push_back
    BY <2>1, PushFrame DEF LedgerInv
  <2>2. ASSUME NEW p \in Popper, pop_front(p) PROVE tail' \in {tail, tail + 1}
    BY <1>0, <2>2 DEF pop_front, PopCall, Popping, PopHead, PopClaim, PopCheck, PopRecheck, PopCopy
  <2> QED BY <2>1, <2>2 DEF pop_front
<1>2. \A k \in fetched : k < tail'
  BY <1>0, <1>1 DEF FetchInv
<1>3. CASE pc'[Renderer] = pc[Renderer] /\ at'[Renderer] = at[Renderer]
  BY <1>0, <1>2, <1>3 DEF FetchInv
<1>4. CASE Popping(Renderer)
  <2>1. drawing
    BY <1>0, <1>4 DEF FetchInv, Popping, PopHead, PopClaim, PopCheck, PopRecheck, PopCopy
  <2>2. /\ pc'[Renderer] # "idle"
        /\ pc'[Renderer] \in {"check", "copy", "done"} =>
             \/ pc[Renderer] \in {"check", "copy"} /\ at'[Renderer] = at[Renderer]
             \/ pc[Renderer] = "claim" /\ at'[Renderer] = tail
    BY <1>0, <1>4 DEF Popping, PopHead, PopClaim, PopCheck, PopRecheck, PopCopy, Goto
  <2> QED BY <1>0, <1>2, <2>1, <2>2 DEF FetchInv
<1>5. CASE push_back
  BY <1>3, <1>5, PushFrame DEF popVars, LedgerInv
<1>6. ASSUME NEW p \in Popper \ {Renderer}, pop_front(p) PROVE FetchInv'
  <2>1. pc'[Renderer] = pc[Renderer] /\ at'[Renderer] = at[Renderer]
    BY <1>0, <1>6 DEF pop_front, PopCall, Popping, PopHead, PopClaim, PopCheck, PopRecheck, PopCopy, Goto
  <2> QED BY <1>3, <2>1
<1> QED BY <1>4, <1>5, <1>6

LEMMA DrawKeeps == LedgerInv /\ DequeInv' /\ Draw => LedgerInv'
<1> SUFFICES ASSUME LedgerInv, DequeInv', Draw PROVE LedgerInv'
  OBVIOUS
<1>1. /\ UNCHANGED <<tail, trade_ledger, fetched, is_open>> /\ drawing' = TRUE
      /\ pc'[Renderer] = "head"
  BY DEF Draw, PopCall, Goto, LedgerInv, DequeInv, TypeOK
<1>2. FetchInv'
  BY <1>1 DEF LedgerInv, FetchInv
<1>3. RowInv'
  BY <1>1 DEF LedgerInv, RowInv, Larger
<1> QED BY <1>1, <1>2, <1>3 DEF LedgerInv

\* A trade that is later than all the others moves each of them one row up.
LEMMA ShowKeeps == LedgerInv /\ DequeInv' /\ Show => LedgerInv'
<1> SUFFICES ASSUME LedgerInv, DequeInv', Show PROVE LedgerInv'
  OBVIOUS
<1>0. /\ FetchInv /\ RowInv /\ UNCHANGED <<pc, tail, at, item>> /\ drawing /\ drawing' = FALSE
      /\ is_open' \in BOOLEAN /\ pc[Renderer] \in {"done", "none"} /\ tail \in 0..MaxPush
      /\ fetched \subseteq Position /\ PopperInv(Renderer)
      /\ at[Renderer] \in Nat /\ item[Renderer] \in Trade
  <2>1. /\ FetchInv /\ RowInv /\ TypeOK /\ Renderer \in Popper /\ PopperInv(Renderer)
        /\ fetched \subseteq Position /\ is_open \in BOOLEAN
    BY DEF LedgerInv, DequeInv
  <2>2. /\ UNCHANGED <<pc, tail, at, item>> /\ drawing /\ drawing' = FALSE
        /\ is_open' \in {is_open, FALSE} /\ pc[Renderer] \in {"done", "none"}
    BY DEF Show, vars, popVars
  <2>3. tail \in 0..MaxPush /\ at[Renderer] \in Nat /\ item[Renderer] \in Trade
    BY <2>1 DEF TypeOK
  <2> QED BY <2>1, <2>2, <2>3
<1>1. CASE pc[Renderer] = "none"
  <2>1. UNCHANGED <<trade_ledger, fetched>>
    BY <1>1 DEF Show
  <2>2. FetchInv'
    BY <1>0, <2>1 DEF FetchInv
  <2>3. RowInv'
    BY <1>0, <2>1 DEF RowInv, Larger
  <2> QED BY <1>0, <2>1, <2>2, <2>3 DEF LedgerInv
<1>2. CASE pc[Renderer] = "done"
  <2>0. PICK m \in Nat : m = at[Renderer]
    BY <1>0
  <2> DEFINE n == Cardinality(fetched)
  <2>1. /\ trade_ledger' = Ledger!push_back(trade_ledger, item[Renderer])
        /\ fetched' = fetched \cup {m}
    BY <1>2, <2>0 DEF Show
  <2>2. /\ m \in Position /\ m < tail /\ item[Renderer] = Whole(m)
        /\ \A k \in fetched : k \in Nat /\ k < m
    BY <1>0, <1>2, <2>0 DEF PopperInv, FetchInv, Position
  <2>3. IsFiniteSet(fetched) /\ n \in Nat
    BY <1>0, FS_CardinalityType DEF FetchInv
  <2>4. IsFiniteSet(fetched') /\ Cardinality(fetched') = n + 1
    <3>1. m \notin fetched
      BY <2>2
    <3> QED BY <2>1, <2>3, <3>1, FS_AddElement
  <2>5. FetchInv'
    BY <1>0, <2>0, <2>1, <2>2, <2>4 DEF FetchInv
  <2>6. /\ trade_ledger' \in RowRing
        /\ trade_ledger'.tail = (n + 1) % SizeMod
        /\ trade_ledger'.head = Oldest(n + 1) % SizeMod
        /\ trade_ledger'.data[n % Rows] = Whole(m)
        /\ \A s \in 0..(Rows - 1) : s # n % Rows => trade_ledger'.data[s] = trade_ledger.data[s]
    BY <1>0, <2>1, <2>2, RowAdded
  <2>7. Cardinality(Larger(m)') = 0
    <3>0. \A k \in fetched \cup {m} : ~(k > m)
      BY <2>2
    <3>1. Larger(m)' = {}
      BY <2>1, <3>0 DEF Larger
    <3> QED BY <3>1, FS_EmptySet
  <2>8. ASSUME NEW k \in fetched
        PROVE  Cardinality(Larger(k)) \in Nat /\ Cardinality(Larger(k)') = Cardinality(Larger(k)) + 1
    <3>0. k \in Nat /\ m > k /\ m \notin fetched
      BY <2>2
    <3>1. Larger(k) \subseteq fetched /\ m \notin Larger(k) /\ Larger(k)' = Larger(k) \cup {m}
      BY <2>1, <3>0 DEF Larger
    <3>2. IsFiniteSet(Larger(k))
      BY <2>3, <3>1, FS_Subset
    <3> QED BY <3>1, <3>2, FS_AddElement, FS_CardinalityType, ZenonT(60)
  <2> HIDE DEF n
  <2>9. ASSUME NEW i \in 1..Rows, i <= n + 1
        PROVE  \E k \in fetched' : /\ Cardinality(Larger(k)') = i - 1
                                   /\ trade_ledger'.data[((n + 1) - i) % Rows] = Whole(k)
    <3>1. CASE i = 1
      <4>1. (n + 1) - i = n
        BY <2>3, <3>1
      <4>2. m \in fetched' /\ Cardinality(Larger(m)') = i - 1
        BY <2>1, <2>7, <3>1
      <4>3. trade_ledger'.data[((n + 1) - i) % Rows] = Whole(m)
        BY <2>6, <4>1, Zenon
      <4> QED BY <4>2, <4>3
    <3>2. CASE i # 1
      <4> DEFINE j == i - 1
                 s == (n - j) % Rows
      <4>1. j \in 1..Rows /\ j <= n /\ (n + 1) - i = n - j /\ n - j < n /\ n < (n - j) + Rows
        BY <2>3, <2>9, <3>2
      <4>2. PICK k \in fetched : /\ Cardinality(Larger(k)) = j - 1
                                 /\ trade_ledger.data[s] = Whole(k)
        BY <1>0, <4>1 DEF RowInv, n
      <4>3. s \in 0..(Rows - 1) /\ s # n % Rows
        <5> DEFINE a == n - j
        <5>1. a \in Int /\ n \in Int /\ a < n /\ n < a + Rows /\ Rows \in Nat \ {0}
          BY <2>3, <4>1
        <5> HIDE DEF a
        <5>2. a % Rows \in 0..(Rows - 1) /\ a % Rows # n % Rows
          BY <5>1, Division, RoundApart, Zenon
        <5> QED BY <5>2 DEF a
      <4>4. trade_ledger'.data[s] = Whole(k)
        BY <2>6, <4>2, <4>3
      <4>5. Cardinality(Larger(k)') = i - 1
        BY <2>8, <4>2
      <4>6. k \in fetched'
        BY <2>1
      <4> QED BY <4>1, <4>4, <4>5, <4>6
    <3> QED BY <3>1, <3>2
  <2>10. RowInv'
    <3>1. Cardinality(fetched') = n + 1
      BY <2>4 DEF n
    <3> QED BY <2>6, <2>9, <3>1 DEF RowInv
  <2>11. fetched' \subseteq Position
    BY <1>0, <2>1, <2>2
  <2> QED BY <1>0, <2>5, <2>10, <2>11 DEF LedgerInv
<1> QED BY <1>0, <1>1, <1>2

LEMMA LedgerStep == LedgerInv /\ [LedgerNext]_ledgerVars => LedgerInv'
<1> SUFFICES ASSUME LedgerInv, [LedgerNext]_ledgerVars PROVE LedgerInv'
  OBVIOUS
<1>1. DequeInv'
  BY PanelPops, DequeNext DEF LedgerInv
<1>2. CASE UNCHANGED ledgerVars
  BY <1>1, <1>2 DEF ledgerVars, panelVars, vars, popVars, LedgerInv, FetchInv, RowInv, Larger
<1>3. CASE /\ \/ push_back
              \/ Popping(Renderer)
              \/ \E p \in Popper \ {Renderer} : pop_front(p)
           /\ UNCHANGED panelVars
  <2>1. FetchInv'
    BY <1>1, <1>3, FetchKept
  <2> QED BY <1>1, <1>3, <2>1 DEF panelVars, LedgerInv, RowInv, Larger
<1> QED BY <1>1, <1>2, <1>3, DrawKeeps, ShowKeeps DEF LedgerNext

LEMMA LedgerInductive == LedgerSpec => []LedgerInv
BY LedgerInitInv, LedgerStep, PTL DEF LedgerSpec

\* The panel only uses the queue as any popper may, so what is proved of the queue
\* holds with the panel on top.
THEOREM PanelIsAPopper == LedgerSpec => Spec
<1>1. LedgerInit => Init
  BY DEF LedgerInit
<1>2. [LedgerNext]_ledgerVars => [Next]_vars
  BY PanelPops
<1> QED BY <1>1, <1>2, PTL DEF LedgerSpec, Spec

\* The rows are never more than there is room for, and the counters stay values of
\* std::size_t, whatever wraps around.
THEOREM LedgerTypes == LedgerSpec => []LedgerTypeOK
<1>1. LedgerInv => LedgerTypeOK
  <2> SUFFICES ASSUME LedgerInv PROVE LedgerTypeOK
    OBVIOUS
  <2>1. Ledger!size(trade_ledger) <= Rows
    <3>1. Cardinality(fetched) - Oldest(Cardinality(fetched)) \in 0..Rows
      BY Counts DEF LedgerInv
    <3> QED BY <3>1, RowCount DEF LedgerInv
  <2> QED BY <2>1 DEF LedgerInv, DequeInv, RowInv, RowRing, LedgerTypeOK
<1> QED BY <1>1, LedgerInductive, PTL

\* No two trades have as many later ones.
LEMMA OneNewest ==
  ASSUME LedgerInv, NEW k \in fetched, NEW l \in fetched,
         Cardinality(Larger(k)) = Cardinality(Larger(l))
  PROVE  k = l
<1>1. fetched \subseteq Nat /\ IsFiniteSet(fetched)
  BY DEF LedgerInv, FetchInv, Position
<1>2. ASSUME NEW a \in fetched, NEW b \in fetched, a < b,
             Cardinality(Larger(a)) = Cardinality(Larger(b))
      PROVE  FALSE
  <2>1. /\ Larger(b) \subseteq Larger(a) /\ Larger(a) \subseteq fetched
        /\ b \in Larger(a) /\ b \notin Larger(b)
    <3>1. a \in Nat /\ b \in Nat /\ a < b /\ ~(b > b) /\ \A j \in Nat : j > b => j > a
      BY <1>1, <1>2
    <3> QED BY <1>1, <3>1 DEF Larger
  <2>2. IsFiniteSet(Larger(a))
    BY <1>1, <2>1, FS_Subset
  <2>3. Larger(a) = Larger(b)
    BY <1>2, <2>1, <2>2, FS_Subset
  <2> QED BY <2>1, <2>3
<1>3. k < l \/ l < k \/ k = l
  BY <1>1
<1> QED BY <1>2, <1>3

\* The rows on screen are the newest trades the panel was given, whole, newest
\* first and each once, for a ring of rows of any size and counters of any width
\* that it divides.
THEOREM RowsFollowTheTrades == LedgerSpec => []RowsAreTheNewest
<1>1. LedgerInv => RowsAreTheNewest
  <2> SUFFICES ASSUME LedgerInv PROVE RowsAreTheNewest
    OBVIOUS
  <2> DEFINE n == Cardinality(fetched)
             d == trade_ledger
             last == IF n < Rows THEN n ELSE Rows
  <2>1. FetchInv /\ RowInv
    BY DEF LedgerInv
  <2>2. n \in Nat /\ last \in 0..Rows /\ last <= n
    <3>1. n \in Nat
      BY <2>1, FS_CardinalityType DEF FetchInv
    <3> HIDE DEF n
    <3> QED BY <3>1
  <2>3. Ledger!size(d) = last
    <3>1. Ledger!size(d) = n - Oldest(n) /\ n - Oldest(n) = last
      BY <2>1, RowCount, Counts
    <3> QED BY <3>1
  <2>4. ASSUME NEW i \in 1..last
        PROVE  d.data[((d.tail - i) % SizeMod) % Rows] = [w \in Word |-> Newest(i)]
    <3>1. i \in 1..Rows /\ i <= n
      BY <2>2
    <3>2. PICK k \in fetched : /\ Cardinality(Larger(k)) = i - 1
                               /\ d.data[(n - i) % Rows] = Whole(k)
      BY <2>1, <3>1 DEF RowInv
    <3>3. Newest(i) = k
      <4>1. \A l \in fetched : Cardinality({j \in fetched : j > l}) = i - 1 <=> l = k
        BY <3>2, OneNewest DEF Larger
      <4> QED BY <4>1 DEF Newest
    <3>4. ((d.tail - i) % SizeMod) % Rows = (n - i) % Rows
      <4> DEFINE t == d.tail
                 a == n - i
      <4>1. t = n % SizeMod
        BY <2>1 DEF RowInv
      <4>2. a \in Int /\ a = n - i
        BY <2>2, <3>1
      <4>3. /\ n \in Int /\ i \in Int /\ SizeMod \in Nat \ {0} /\ Rows \in Nat \ {0}
            /\ SizeMod % Rows = 0
        BY <2>2, <3>1
      <4> HIDE DEF t, n, a
      <4>4. (t - i) % SizeMod = a % SizeMod
        BY <4>1, <4>2, <4>3, WrapAround, Zenon
      <4>5. (a % SizeMod) % Rows = a % Rows
        BY <4>2, <4>3, MaskAfterWrap, Zenon
      <4>6. ((t - i) % SizeMod) % Rows = (n - i) % Rows
        BY <4>2, <4>4, <4>5, Zenon
      <4> QED BY <4>6 DEF t
    <3> QED BY <3>2, <3>3, <3>4 DEF Whole
  <2> QED BY <2>3, <2>4 DEF RowsAreTheNewest, Ledger!Reversed
<1> QED BY <1>1, LedgerInductive, PTL

-----------------------------------------------------------------------------
(***************************************************************************)
(* The candle store, which owns the Deque and makes its candles of the     *)
(* trades it pushes.  A lemma that needs CandleAssumption names it, and    *)
(* the type invariant carries it along, so that a step that cites the      *)
(* invariant has it.                                                       *)
(***************************************************************************)
HIDE DequeAssumption DEF DequeAssumption

\* The minute of a time.
LEMMA BucketOf ==
  ASSUME CandleAssumption, NEW t \in Nat
  PROVE  /\ computeTimeBucket(t) \in 0..t /\ t < computeTimeBucket(t) + Minute
         /\ \E k \in Nat : computeTimeBucket(t) = Minute * k
<1> USE DEF CandleAssumption
<1> DEFINE d == t \div Minute
<1>1. d \in Nat /\ t = Minute * d + (t % Minute) /\ t % Minute \in 0..(Minute - 1)
  OBVIOUS
<1>2. computeTimeBucket(t) = Minute * d
  BY <1>1 DEF computeTimeBucket
<1> HIDE DEF d
<1>3. Minute * d \in Nat
  BY <1>1
<1> QED BY <1>1, <1>2, <1>3

LEMMA MinuteMultiples ==
  ASSUME NEW n \in Nat, NEW i \in Nat, NEW j \in Nat
  PROVE  /\ n * i \in Nat /\ n * (i + 1) = n * i + n
         /\ i <= j => n * i <= n * j
  OBVIOUS

\* A multiple of the minute is its own minute.
LEMMA MinuteStart ==
  ASSUME CandleAssumption, NEW k \in Nat
  PROVE  computeTimeBucket(Minute * k) = Minute * k
<1>1. Minute \in Nat /\ Minute * k \in Nat
  BY MinuteMultiples DEF CandleAssumption
<1>2. PICK j \in Nat : computeTimeBucket(Minute * k) = Minute * j
  BY <1>1, BucketOf
<1>3. Minute * j <= Minute * k /\ Minute * k < Minute * j + Minute
  <2>1. computeTimeBucket(Minute * k) \in 0..(Minute * k)
        /\ Minute * k < computeTimeBucket(Minute * k) + Minute
    BY <1>1, BucketOf
  <2> QED BY <1>2, <2>1
<1>4. Minute * j \in Nat /\ Minute * (j + 1) = Minute * j + Minute
      /\ Minute * (k + 1) = Minute * k + Minute
  BY <1>1, <1>2, MinuteMultiples
<1>5. j + 1 <= k => Minute * (j + 1) <= Minute * k
  BY <1>1, <1>2, MinuteMultiples
<1>6. k + 1 <= j => Minute * (k + 1) <= Minute * j
  BY <1>1, <1>2, MinuteMultiples
<1> DEFINE a == Minute * j
           b == Minute * k
<1>7. ~(j + 1 <= k) /\ ~(k + 1 <= j)
  <2>1. Minute \in Nat \ {0}
    BY DEF CandleAssumption
  <2>2. a \in Nat /\ b \in Nat /\ a <= b /\ b < a + Minute
    BY <1>1, <1>3, <1>4
  <2>3. (j + 1 <= k => a + Minute <= b) /\ (k + 1 <= j => b + Minute <= a)
    BY <1>4, <1>5, <1>6
  <2> HIDE DEF a, b
  <2> QED BY <2>1, <2>2, <2>3
<1> QED BY <1>2, <1>7

LEMMA Buckets ==
  ASSUME CandleAssumption
  PROVE  /\ \A t \in Time : computeTimeBucket(t) \in Bucket /\ computeTimeBucket(t) <= t
                            /\ t < computeTimeBucket(t) + Minute
         /\ \A m \in Bucket : m \in Time /\ computeTimeBucket(m) = m
         /\ Bucket \subseteq Nat
<1> USE DEF CandleAssumption
<1>1. ASSUME NEW t \in Time
      PROVE  computeTimeBucket(t) \in Bucket /\ computeTimeBucket(t) <= t
             /\ t < computeTimeBucket(t) + Minute
  <2>1. t \in Nat
    BY DEF Time
  <2> QED BY <2>1, BucketOf DEF Bucket
<1>2. ASSUME NEW m \in Bucket PROVE m \in Time /\ computeTimeBucket(m) = m
  <2>1. PICK t \in Time : m = computeTimeBucket(t)
    BY DEF Bucket
  <2>2. t \in Nat
    BY DEF Time
  <2>3. m \in 0..t
    BY <2>1, <2>2, BucketOf
  <2>4. PICK k \in Nat : m = Minute * k
    BY <2>1, <2>2, BucketOf
  <2>5. computeTimeBucket(m) = m
    BY <2>4, MinuteStart
  <2> QED BY <2>2, <2>3, <2>5 DEF Time
<1> QED BY <1>1, <1>2 DEF Time

\* Minutes that are different are a minute apart.
LEMMA NextMinute ==
  ASSUME CandleAssumption, NEW m \in Bucket, NEW n \in Bucket, m < n
  PROVE  m + Minute <= n /\ m + Minute \in Bucket /\ computeTimeBucket(m + Minute) = m + Minute
<1> USE DEF CandleAssumption
<1>1. m \in Nat /\ n \in Nat /\ n <= MaxTime /\ computeTimeBucket(m) = m /\ computeTimeBucket(n) = n
  BY Buckets DEF Time
<1>2. PICK j \in Nat : m = Minute * j
  BY <1>1, BucketOf
<1>3. PICK k \in Nat : n = Minute * k
  BY <1>1, BucketOf
<1>4. j < k
  <2>1. k <= j => Minute * k <= Minute * j
    BY <1>2, <1>3
  <2> QED BY <1>1, <1>2, <1>3, <2>1
<1>5. Minute * (j + 1) <= Minute * k /\ Minute * (j + 1) = Minute * j + Minute
  BY <1>2, <1>3, <1>4
<1>6. computeTimeBucket(m + Minute) = m + Minute
  <2>1. j + 1 \in Nat
    OBVIOUS
  <2>2. computeTimeBucket(Minute * (j + 1)) = Minute * (j + 1)
    BY <2>1, MinuteStart
  <2> QED BY <1>2, <1>5, <2>2
<1>7. m + Minute \in Time
  BY <1>1, <1>2, <1>3, <1>5 DEF Time
<1> QED BY <1>1, <1>2, <1>3, <1>5, <1>6, <1>7, Buckets

\* The minute of a time is the last to start before it.
LEMMA LastStart ==
  ASSUME CandleAssumption, NEW t \in Time, NEW m \in Bucket
  PROVE  m <= t <=> m <= computeTimeBucket(t)
<1> DEFINE b == computeTimeBucket(t)
<1>1. /\ b \in Bucket /\ b \in Nat /\ m \in Nat /\ t \in Nat /\ Minute \in Nat
      /\ b <= t /\ t < b + Minute
  BY Buckets DEF Time, CandleAssumption
<1>2. b < m => b + Minute <= m
  BY <1>1, NextMinute
<1> HIDE DEF b
<1> QED BY <1>1, <1>2 DEF b

-----------------------------------------------------------------------------
(***************************************************************************)
(* The inductive invariant.                                                *)
(***************************************************************************)
Asking == {"live", "map", "fetch", "put", "done"}
Getting == [pc : Asking, query : Query, side : Side, found : BOOLEAN,
            at : Time \cup {Never}, known : BOOLEAN]
RecordedTrade == [side : Side, time : Time, price : 0..Dollar]

\* No statement of the code sets invalid_state_.
CandleTypeInv ==
  /\ CandleAssumption
  /\ CandleTypeOK
  /\ ~invalid_state
  /\ rd \in [Reader -> {Idle} \cup Getting]
  /\ accepted \in {NoTrade} \cup RecordedTrade
  /\ fromRest \subseteq Bucket
  /\ \A r \in Reader : rd[r].pc = "put" => rd[r].at \in Time

\* Both sides are rolled over together, yes first, so that until the end the no side
\* still has the minute in which the rollover began; every minute the candle at work
\* has left is stored.
RollInv ==
  LET began == live["No"].start
      c == roll.store
  IN  /\ roll = Still => live["Yes"].start = began
      /\ roll # Still =>
           /\ began <= c.start
           /\ c.start <= roll.target \/ c.start = began
           /\ roll.side = "Yes" => live["Yes"].start = began
           /\ roll.side = "No" =>
                /\ began <= live["Yes"].start /\ roll.target <= live["Yes"].start
                /\ live["Yes"].start \in {began, roll.target}
           /\ HasData(live[roll.side]) => HasData(c)
           /\ \A m \in Bucket : began <= m /\ m < c.start => history[roll.side][m] # NoCandle

SoundInv ==
  /\ YesCandleSound
  /\ roll # Still /\ roll.side = "Yes" => Sound(roll.store)

\* The candle of a side that the next put or publication takes.
AtWork(s) == IF roll.side = s THEN roll.store ELSE live[s]

InCandle(c, a) == HasData(c) /\ c.low <= a.price /\ a.price <= c.high

\* A trade is in the candle at work as long as the rollover has not left its minute:
\* as the last price, if it is of a minute still to come.  Then it is in the candle
\* stored for its minute, unless that is REST's, and REST has told none of the minutes
\* that this rollover has left.
TradeIn(a) ==
  LET m == computeTimeBucket(a.time)
      c == AtWork(a.side)
  IN  /\ c.start <= m => InCandle(c, a)
      /\ c.start < m => /\ roll # Still /\ m <= roll.target /\ c.close = a.price
                        /\ roll.side = "Yes" \/ a.side = "No"
      /\ m < c.start => \/ m \in fromRest /\ m < live["No"].start
                        \/ InCandle(history[a.side][m], a)

TradeInv == accepted # NoTrade => TradeIn(accepted)

\* What the store knew when r called is live or stored until r has looked there.
KnownInv(r) ==
  LET s == rd[r].side
      q == rd[r].query
      stored == history[s][computeTimeBucket(q)] # NoCandle
  IN  /\ rd[r].pc = "live" /\ rd[r].known => stored \/ (q >= live[s].start /\ HasData(live[s]))
      /\ rd[r].pc = "map" /\ rd[r].known => stored
      /\ rd[r].pc \in {"fetch", "put"} => ~rd[r].known
      /\ rd[r].pc = "done" /\ ~rd[r].found => ~rd[r].known

CandleInv ==
  /\ CandleTypeInv /\ RollInv /\ SoundInv /\ TradeInv
  /\ \A r \in Reader : KnownInv(r)

-----------------------------------------------------------------------------
(***************************************************************************)
(* Candles.                                                                *)
(***************************************************************************)
LEMMA CandleParts ==
  ASSUME CandleAssumption, NEW c \in Candle
  PROVE  /\ c.open \in Cents /\ c.high \in Cents /\ c.low \in Cents /\ c.close \in Cents
         /\ c.start \in Bucket /\ c.start \in Nat
         /\ HasData(c) => c.open \in 0..Dollar /\ c.high \in 0..Dollar /\ c.low \in 0..Dollar
                          /\ c.close \in 0..Dollar
         /\ Dollar \in Nat /\ Dollar < NoData
<1>1. c.open \in Cents /\ c.high \in Cents /\ c.low \in Cents /\ c.close \in Cents
      /\ c.start \in Bucket
  BY DEF Candle
<1>2. Dollar \in Nat /\ Dollar < NoData
  BY DEF CandleAssumption, NoData
<1> QED BY <1>1, <1>2, Buckets DEF HasData, Cents

\* A candle takes a price.
LEMMA Updated ==
  ASSUME CandleAssumption, NEW c \in Candle, NEW t \in Time, NEW p \in 0..Dollar
  PROVE  LET d == update_candlestick(c, t, p)
         IN  /\ d \in Candle /\ d.start = c.start
             /\ HasData(c) => HasData(d)
             /\ Sound(c) => Sound(d)
             /\ \A a \in RecordedTrade : InCandle(c, a) => InCandle(d, a)
             /\ ~(t < c.start) => HasData(d) /\ d.close = p /\ d.low <= p /\ p <= d.high
<1> DEFINE d == update_candlestick(c, t, p)
<1>1. CASE t < c.start
  <2>1. d = c
    BY <1>1 DEF update_candlestick
  <2> QED BY <1>1, <2>1
<1>2. CASE ~(t < c.start)
  <2>1. d = [c EXCEPT !.open = IF @ = NoData THEN p ELSE @,
                      !.high = IF @ = NoData \/ @ < p THEN p ELSE @,
                      !.low = IF @ = NoData \/ p < @ THEN p ELSE @,
                      !.close = p]
    BY <1>2 DEF update_candlestick
  <2>2. p \in Cents /\ p # NoData /\ p \in Nat
    BY CandleParts DEF Cents
  <2>3. c = [open |-> c.open, high |-> c.high, low |-> c.low, close |-> c.close, start |-> c.start]
    BY DEF Candle
  <2>4. /\ d \in Candle /\ d.start = c.start /\ d.close = p
        /\ d.open = (IF c.open = NoData THEN p ELSE c.open)
        /\ d.high = (IF c.high = NoData \/ c.high < p THEN p ELSE c.high)
        /\ d.low = (IF c.low = NoData \/ p < c.low THEN p ELSE c.low)
    BY <2>1, <2>2, <2>3 DEF Candle
  <2> HIDE DEF d
  <2>5. HasData(d)
    BY <2>2, <2>4 DEF HasData
  <2>6. c = EmptyCandle(c.start) => c.open = NoData /\ c.high = NoData /\ c.low = NoData
    BY DEF EmptyCandle
  <2>7. Sound(c) => Sound(d)
    BY <2>2, <2>4, <2>5, <2>6, CandleParts DEF Sound
  <2>8. d.low <= p /\ p <= d.high
    BY <2>2, <2>4, CandleParts DEF Cents, NoData
  <2>9. ASSUME NEW a \in RecordedTrade, InCandle(c, a) PROVE InCandle(d, a)
    <3>1. a.price \in Nat /\ c.low \in Nat /\ c.high \in Nat
      BY <2>9, CandleParts DEF RecordedTrade, InCandle
    <3> QED BY <2>2, <2>4, <2>5, <2>9, <3>1 DEF InCandle, HasData
  <2> QED BY <1>2, <2>4, <2>5, <2>7, <2>8, <2>9 DEF d
<1> QED BY <1>1, <1>2

\* The candle of the next minute.
LEMMA AfterMinute ==
  ASSUME CandleAssumption, NEW c \in Candle, NEW n \in Bucket, c.start < n
  PROVE  LET d == NextCandle(c)
         IN  /\ d \in Candle /\ d.start = c.start + Minute /\ d.start <= n
             /\ \A m \in Bucket : m < d.start <=> m <= c.start
             /\ HasData(c) => HasData(d)
             /\ Sound(c) => Sound(d)
             /\ HasData(c) => d.close = c.close /\ d.low = c.close /\ d.high = c.close
<1> DEFINE d == NextCandle(c)
           start == computeTimeBucket(c.start + Minute)
<1>1. c.start \in Bucket /\ c.start \in Nat /\ n \in Nat /\ Minute \in Nat \ {0}
  BY CandleParts, Buckets DEF CandleAssumption
<1>2. start = c.start + Minute /\ start \in Bucket /\ start <= n
  BY <1>1, NextMinute
<1>3. ASSUME NEW m \in Bucket PROVE m < start <=> m <= c.start
  <2>1. m \in Nat /\ (c.start < m => c.start + Minute <= m)
    BY <1>1, NextMinute, Buckets
  <2> QED BY <1>1, <1>2, <2>1
<1> HIDE DEF start
<1>4. CASE c.close = NoData
  <2>1. d = [c EXCEPT !.start = start]
    BY <1>4 DEF NextCandle, start
  <2>2. c = [open |-> c.open, high |-> c.high, low |-> c.low, close |-> c.close, start |-> c.start]
    BY DEF Candle
  <2>3. d \in Candle /\ d.start = start
    BY <1>2, <2>1, <2>2 DEF Candle
  <2>4. ~HasData(c)
    BY <1>4 DEF HasData
  <2>5. c = EmptyCandle(c.start) => d = EmptyCandle(d.start)
    BY <2>1, <2>3 DEF EmptyCandle
  <2> QED BY <1>2, <1>3, <2>3, <2>4, <2>5 DEF Sound
<1>5. CASE c.close # NoData
  <2>1. d = [open |-> c.close, high |-> c.close, low |-> c.close, close |-> c.close,
             start |-> start]
    BY <1>5 DEF NextCandle, start
  <2>2. d \in Candle /\ d.start = start /\ HasData(d)
    BY <1>2, <1>5, <2>1, CandleParts DEF Candle, HasData
  <2>3. c.close \in Nat
    BY <1>5, CandleParts DEF Cents
  <2>4. Sound(d)
    BY <2>1, <2>2, <2>3 DEF Sound
  <2> QED BY <1>2, <1>3, <2>1, <2>2, <2>4
<1> QED BY <1>4, <1>5

-----------------------------------------------------------------------------
(***************************************************************************)
(* Types.                                                                  *)
(***************************************************************************)
LEMMA TypesAre ==
  ASSUME CandleTypeInv
  PROVE  /\ CandleAssumption /\ now \in Time /\ live \in [Side -> Candle]
         /\ live["Yes"] \in Candle /\ live["No"] \in Candle
         /\ history \in [Side -> [Bucket -> Candle \cup {NoCandle}]]
         /\ roll = Still \/ roll \in Rolling
         /\ \A s \in Side : s = "Yes" \/ s = "No"
BY DEF CandleTypeInv, CandleTypeOK, Side

LEMMA RollIs ==
  ASSUME CandleTypeInv, roll # Still
  PROVE  /\ roll.side \in Side /\ roll.target \in Bucket /\ roll.target \in Nat
         /\ roll.store \in Candle
         /\ roll = [side |-> roll.side, target |-> roll.target, store |-> roll.store]
<1>1. roll \in Rolling
  BY TypesAre
<1> QED BY <1>1, TypesAre, Buckets DEF Rolling

LEMMA StillIs == Still.side \notin Side
BY DEF Still, Side

LEMMA RollTypes ==
  ASSUME NEW lives \in [Side -> Candle], NEW t \in Time, CandleAssumption, BeginRoll(lives, t)
  PROVE  /\ roll' \in Rolling /\ roll' # Still /\ roll'.side = "Yes"
         /\ roll'.store = lives["Yes"] /\ roll'.target = computeTimeBucket(t)
<1>1. roll' = [side |-> "Yes", target |-> computeTimeBucket(t), store |-> lives["Yes"]]
  BY DEF BeginRoll
<1>2. "Yes" \in Side /\ computeTimeBucket(t) \in Bucket
  BY Buckets DEF Side
<1>3. roll' \in Rolling
  BY <1>1, <1>2 DEF Rolling
<1> QED BY <1>1, <1>2, <1>3, StillIs

LEMMA RestTypes ==
  ASSUME CandleAssumption, NEW s \in Side, NEW c \in RestCandle, NEW m \in Bucket
  PROVE  /\ CandleOf(s, c, m) \in Candle /\ CandleOf(s, c, m).start = m
         /\ CandleOf(s, c, m) # NoCandle
         /\ s = "Yes" => Sound(CandleOf(s, c, m))
<1>1. /\ c.open \in 0..Dollar /\ c.high \in 0..Dollar /\ c.low \in 0..Dollar
      /\ c.close \in 0..Dollar /\ c.low <= c.open /\ c.open <= c.high
      /\ c.low <= c.close /\ c.close <= c.high
  BY DEF RestCandle
<1>2. Dollar \in Nat /\ NoData \notin 0..Dollar /\ m \in Nat
  BY Buckets DEF CandleAssumption, NoData
<1>3. YesCandle(c, m) \in Candle /\ YesCandle(c, m).start = m
  BY <1>1 DEF YesCandle, Candle, Cents
<1>4. NoSideCandle(c, m) \in Candle /\ NoSideCandle(c, m).start = m
  <2>1. \A x \in 0..Dollar : Dollar - x \in 0..Dollar
    BY <1>2
  <2> QED BY <1>1, <2>1 DEF NoSideCandle, Candle, Cents
<1>5. HasData(YesCandle(c, m))
  BY <1>1, <1>2 DEF YesCandle, HasData
<1>6. Sound(YesCandle(c, m))
  BY <1>1, <1>5 DEF Sound, YesCandle
<1>7. NoCandle.start = -1
  BY DEF NoCandle
<1> QED BY <1>2, <1>3, <1>4, <1>6, <1>7 DEF CandleOf

\* EnginePatch does nothing: nothing sets invalid_state_.
LEMMA PatchIs ==
  ASSUME CandleTypeInv, EnginePatch
  PROVE  /\ UNCHANGED <<now, live, history, invalid_state, last_message_seq, roll, accepted>>
         /\ UNCHANGED <<fromRest, last_request, fetch_history, asked, rd>>
         /\ patches' \in Nat
BY DEF CandleTypeInv, CandleTypeOK, EnginePatch, tryPatch, fetchVars

LEMMA EngineTypes == CandleTypeInv /\ Engine => CandleTypeInv'
<1> SUFFICES ASSUME CandleTypeInv, Engine PROVE CandleTypeInv'
  OBVIOUS
<1> USE DEF CandleTypeInv
<1>0. CandleAssumption'
  BY DEF CandleAssumption
<1>1. ASSUME NEW s \in Side, NEW t \in Time, NEW p \in 0..Dollar, RecordTrade(s, t, p)
      PROVE  CandleTypeInv'
  <2> DEFINE lives == [live EXCEPT ![s] = update_candlestick(@, t, p)]
  <2>1. lives \in [Side -> Candle]
    BY Updated, TypesAre
  <2>2. live' = lives /\ BeginRoll(lives, t)
    BY <1>1 DEF RecordTrade
  <2>3. roll' \in Rolling
    BY <2>1, <2>2, RollTypes
  <2>4. accepted' \in {NoTrade} \cup RecordedTrade
    BY <1>1 DEF RecordTrade, RecordedTrade
  <2>5. last_message_seq' \in 0..MaxSeq
    BY <1>1 DEF RecordTrade, CandleTypeOK, CandleAssumption
  <2>6. UNCHANGED <<now, invalid_state, history, fromRest, last_request, patches,
                    fetch_history, asked, rd>>
    BY <1>1 DEF RecordTrade, restVars, fetchVars
  <2> HIDE DEF lives
  <2> QED BY <1>0, <2>1, <2>2, <2>3, <2>4, <2>5, <2>6 DEF CandleTypeOK
<1>2. ASSUME NEW id \in 1..MaxSeq, MissTrade(id) PROVE CandleTypeInv'
  <2>1. last_message_seq' \in 0..MaxSeq /\ last_request' \in Time \cup {Never}
        /\ patches' \in Nat
    BY <1>2 DEF MissTrade, CandleTypeOK, restVars, CandleAssumption
  <2>2. UNCHANGED <<now, live, invalid_state, roll, accepted, history, fromRest,
                    fetch_history, asked, rd>>
    BY <1>2 DEF MissTrade, fetchVars
  <2> QED BY <1>0, <2>1, <2>2 DEF CandleTypeOK
<1>3. CASE Heartbeat
  <2>1. roll' \in Rolling
    BY <1>3, RollTypes, TypesAre DEF Heartbeat
  <2>2. UNCHANGED <<now, live, last_message_seq, invalid_state, accepted, history, fromRest,
                    last_request, patches, fetch_history, asked, rd>>
    BY <1>3 DEF Heartbeat, restVars, fetchVars
  <2> QED BY <1>0, <2>1, <2>2 DEF CandleTypeOK
<1>4. CASE RollPut
  <2>1. roll # Still /\ roll.store.start < roll.target
    BY <1>4 DEF RollPut
  <2>2. NextCandle(roll.store) \in Candle
    BY <2>1, RollIs, AfterMinute, TypesAre
  <2>3. roll' \in Rolling
    BY <1>4, <2>1, <2>2, RollIs DEF RollPut, Rolling
  <2>4. history' \in [Side -> [Bucket -> Candle \cup {NoCandle}]] /\ fromRest' \subseteq Bucket
    BY <1>4, <2>1, RollIs, TypesAre DEF RollPut
  <2>5. UNCHANGED <<now, live, last_message_seq, invalid_state, accepted, last_request,
                    patches, fetch_history, asked, rd>>
    BY <1>4 DEF RollPut, restVars, fetchVars
  <2> QED BY <1>0, <2>3, <2>4, <2>5 DEF CandleTypeOK
<1>5. CASE RollPublish
  <2>1. roll # Still
    BY <1>5 DEF RollPublish
  <2>2. live' \in [Side -> Candle]
    BY <1>5, <2>1, RollIs, TypesAre DEF RollPublish
  <2>3. roll' \in Rolling \cup {Still}
    <3>1. "No" \in Side
      BY DEF Side
    <3> QED BY <1>5, <2>1, <3>1, RollIs, TypesAre DEF RollPublish, Rolling
  <2>4. UNCHANGED <<now, last_message_seq, invalid_state, accepted, history, fromRest,
                    last_request, patches, fetch_history, asked, rd>>
    BY <1>5 DEF RollPublish, restVars, fetchVars
  <2> QED BY <1>0, <2>2, <2>3, <2>4 DEF CandleTypeOK
<1>6. CASE EnginePatch
  BY <1>0, <1>6, PatchIs DEF CandleTypeOK
<1>7. ASSUME NEW m \in Bucket, EngineStore(m) PROVE CandleTypeInv'
  <2>1. PICK c \in RestCandle, told \in SUBSET ({m - Minute, m} \cap Bucket) :
          /\ history' = [s \in Side |-> [b \in Bucket |->
                           IF b \in told THEN CandleOf(s, c, b) ELSE history[s][b]]]
          /\ fromRest' = fromRest \cup told
    BY <1>7 DEF EngineStore
  <2>2. history' \in [Side -> [Bucket -> Candle \cup {NoCandle}]] /\ fromRest' \subseteq Bucket
    <3>1. \A s \in Side, b \in Bucket : CandleOf(s, c, b) \in Candle
      BY RestTypes, TypesAre
    <3>2. history \in [Side -> [Bucket -> Candle \cup {NoCandle}]]
      BY TypesAre
    <3>3. history' \in [Side -> [Bucket -> Candle \cup {NoCandle}]]
      BY <2>1, <3>1, <3>2
    <3> QED BY <2>1, <3>3
  <2>3. asked' \subseteq Bucket
        /\ UNCHANGED <<now, live, last_message_seq, invalid_state, roll, accepted,
                       last_request, patches, fetch_history, rd>>
    BY <1>7 DEF EngineStore, engineVars, restVars, CandleTypeOK
  <2> QED BY <1>0, <2>2, <2>3 DEF CandleTypeOK
<1> QED BY <1>1, <1>2, <1>3, <1>4, <1>5, <1>6, <1>7 DEF Engine

LEMMA GetLeaves ==
  ASSUME NEW r \in Reader, get(r)
  PROVE  /\ UNCHANGED <<now, live, last_message_seq, invalid_state, roll, accepted, history,
                        fromRest, last_request, patches>>
         /\ \E to : rd' = [rd EXCEPT ![r] = to]
BY DEF get, Call, ReadLive, ReadHistory, FetchLook, FetchSend, Return, Step, engineVars,
       restVars

\* What a step of get does to its locals, and that it keeps the claim about them.
LEMMA GetStep ==
  ASSUME CandleTypeInv, NEW r \in Reader, get(r), KnownInv(r)
  PROVE  /\ rd' \in [Reader -> {Idle} \cup Getting]
         /\ \A q \in Reader : q # r => rd'[q] = rd[q]
         /\ rd'[r].pc = "put" => rd'[r].at \in Time
         /\ KnownInv(r)'
         /\ fetch_history' \in [Bucket -> Time \cup {Never}] /\ asked' \subseteq Bucket
<1> USE DEF CandleTypeInv
<1>0. rd[r] \in {Idle} \cup Getting /\ rd \in [Reader -> {Idle} \cup Getting]
  OBVIOUS
<1>1. UNCHANGED <<live, history, roll, now>>
  BY GetLeaves
<1>2. rd[r].pc \in Asking => rd[r] \in Getting
  BY <1>0 DEF Idle, Asking
<1>3. rd[r] \in Getting =>
        /\ rd[r].query \in Query /\ rd[r].side \in Side /\ rd[r].found \in BOOLEAN
        /\ rd[r].at \in Time \cup {Never} /\ rd[r].known \in BOOLEAN
        /\ computeTimeBucket(rd[r].query) \in Bucket
  BY Buckets DEF Getting, CandleAssumption, Time
<1>4. fetch_history \in [Bucket -> Time \cup {Never}] /\ asked \subseteq Bucket /\ now \in Time
  BY DEF CandleTypeOK
<1>5. ASSUME NEW to \in {Idle} \cup Getting, rd' = [rd EXCEPT ![r] = to]
      PROVE  /\ rd' \in [Reader -> {Idle} \cup Getting] /\ rd'[r] = to
             /\ \A q \in Reader : q # r => rd'[q] = rd[q]
  BY <1>0, <1>5
<1>6. rd[r] \in Getting => Done(r, TRUE) \in Getting /\ Done(r, FALSE) \in Getting
  BY DEF Done, Getting, Asking
<1>7. CASE Call(r)
  <2>1. PICK q \in Query, s \in Side :
          rd' = [rd EXCEPT ![r] = [pc |-> "live", query |-> q, side |-> s, found |-> FALSE,
                   at |-> Never,
                   known |-> \/ history[s][computeTimeBucket(q)] # NoCandle
                             \/ q >= live[s].start /\ HasData(live[s])]]
    BY <1>7 DEF Call, Step
  <2> DEFINE to == [pc |-> "live", query |-> q, side |-> s, found |-> FALSE,
                   at |-> Never,
                   known |-> \/ history[s][computeTimeBucket(q)] # NoCandle
                             \/ q >= live[s].start /\ HasData(live[s])]
  <2>2. to.known \in BOOLEAN
    BY Zenon DEF HasData
  <2>3. to \in Getting
    BY <2>2 DEF Getting, Asking
  <2>4. rd' \in [Reader -> {Idle} \cup Getting] /\ rd'[r] = to
        /\ \A o \in Reader : o # r => rd'[o] = rd[o]
    BY <2>1, <2>3, <1>5
  <2>5. KnownInv(r)'
    BY <2>4, <1>1 DEF KnownInv
  <2>6. UNCHANGED fetchVars
    BY <1>7 DEF Call
  <2> QED BY <2>4, <2>5, <2>6, <1>4 DEF fetchVars
<1>8. CASE ReadLive(r)
  <2>1. rd[r].pc = "live" /\ rd[r] \in Getting /\ UNCHANGED fetchVars
    BY <1>2, <1>8 DEF ReadLive, Asking
  <2>2. CASE rd[r].query >= live[rd[r].side].start /\ HasData(live[rd[r].side])
    <3>1. rd' = [rd EXCEPT ![r] = Done(r, TRUE)]
      BY <1>8, <2>2 DEF ReadLive, Step
    <3>2. rd' \in [Reader -> {Idle} \cup Getting] /\ rd'[r] = Done(r, TRUE)
          /\ \A o \in Reader : o # r => rd'[o] = rd[o]
      BY <2>1, <3>1, <1>5, <1>6
    <3>3. rd'[r].pc = "done" /\ rd'[r].found
      BY <2>1, <3>2 DEF Done, Getting
    <3> QED BY <2>1, <3>2, <3>3, <1>4 DEF KnownInv, fetchVars
  <2>3. CASE ~(rd[r].query >= live[rd[r].side].start /\ HasData(live[rd[r].side]))
    <3> DEFINE to == [rd[r] EXCEPT !.pc = "map"]
    <3>1. rd' = [rd EXCEPT ![r] = to]
      BY <1>8, <2>3 DEF ReadLive, Step
    <3>2. to \in Getting /\ to.pc = "map" /\ to.known = rd[r].known /\ to.query = rd[r].query
          /\ to.side = rd[r].side
      BY <2>1 DEF Getting, Asking
    <3>3. rd' \in [Reader -> {Idle} \cup Getting] /\ rd'[r] = to
          /\ \A o \in Reader : o # r => rd'[o] = rd[o]
      BY <3>1, <3>2, <1>5
    <3> HIDE DEF to
    <3>4. KnownInv(r)'
      BY <1>1, <2>1, <2>3, <3>2, <3>3 DEF KnownInv
    <3>5. rd'[r].pc # "put"
      BY <3>2, <3>3
    <3> QED BY <2>1, <3>3, <3>4, <3>5, <1>4 DEF fetchVars
  <2> QED BY <2>2, <2>3
<1>9. CASE ReadHistory(r)
  <2> DEFINE c == history[rd[r].side][computeTimeBucket(rd[r].query)]
  <2>1. rd[r].pc = "map" /\ rd[r] \in Getting /\ UNCHANGED fetchVars
    BY <1>2, <1>9 DEF ReadHistory, Asking
  <2>2. CASE c # NoCandle
    <3>1. rd' = [rd EXCEPT ![r] = Done(r, TRUE)]
      BY <1>9, <2>2 DEF ReadHistory, Step
    <3>2. rd' \in [Reader -> {Idle} \cup Getting] /\ rd'[r] = Done(r, TRUE)
          /\ \A o \in Reader : o # r => rd'[o] = rd[o]
      BY <2>1, <3>1, <1>5, <1>6
    <3>3. rd'[r].pc = "done" /\ rd'[r].found
      BY <2>1, <3>2 DEF Done, Getting
    <3> QED BY <2>1, <3>2, <3>3, <1>4 DEF KnownInv, fetchVars
  <2>3. CASE c = NoCandle
    <3> DEFINE to == [rd[r] EXCEPT !.pc = "fetch"]
    <3>1. rd' = [rd EXCEPT ![r] = to]
      BY <1>9, <2>3 DEF ReadHistory, Step
    <3>2. to \in Getting /\ to.pc = "fetch" /\ to.known = rd[r].known
      BY <2>1 DEF Getting, Asking
    <3>3. rd' \in [Reader -> {Idle} \cup Getting] /\ rd'[r] = to
          /\ \A o \in Reader : o # r => rd'[o] = rd[o]
      BY <3>1, <3>2, <1>5
    <3> HIDE DEF to
    <3>4. ~rd[r].known
      BY <2>1, <2>3 DEF KnownInv
    <3>5. KnownInv(r)'
      BY <3>2, <3>3, <3>4 DEF KnownInv
    <3>6. rd'[r].pc # "put"
      BY <3>2, <3>3
    <3> QED BY <2>1, <3>3, <3>5, <3>6, <1>4 DEF fetchVars
  <2> QED BY <2>2, <2>3
<1>10. CASE FetchLook(r)
  <2>1. rd[r].pc = "fetch" /\ rd[r] \in Getting /\ UNCHANGED fetchVars
    BY <1>2, <1>10 DEF FetchLook, Asking
  <2>2. ~rd[r].known
    BY <2>1 DEF KnownInv
  <2>3. CASE rd' = [rd EXCEPT ![r] = Done(r, FALSE)]
    <3>1. rd' \in [Reader -> {Idle} \cup Getting] /\ rd'[r] = Done(r, FALSE)
          /\ \A o \in Reader : o # r => rd'[o] = rd[o]
      BY <2>1, <2>3, <1>5, <1>6
    <3>2. rd'[r].pc = "done" /\ rd'[r].known = rd[r].known
      BY <2>1, <3>1 DEF Done, Getting
    <3> QED BY <2>1, <2>2, <3>1, <3>2, <1>4 DEF KnownInv, fetchVars
  <2>4. CASE rd' = [rd EXCEPT ![r] = [rd[r] EXCEPT !.pc = "put", !.at = now]]
    <3> DEFINE to == [rd[r] EXCEPT !.pc = "put", !.at = now]
    <3>1. to \in Getting /\ to.pc = "put" /\ to.known = rd[r].known /\ to.at = now
      BY <2>1, <1>4 DEF Getting, Asking
    <3>2. rd' \in [Reader -> {Idle} \cup Getting] /\ rd'[r] = to
          /\ \A o \in Reader : o # r => rd'[o] = rd[o]
      BY <2>4, <3>1, <1>5
    <3> HIDE DEF to
    <3> QED BY <2>1, <2>2, <3>1, <3>2, <1>4 DEF KnownInv, fetchVars
  <2> QED BY <1>10, <2>3, <2>4 DEF FetchLook, Step
<1>11. CASE FetchSend(r)
  <2>1. rd[r].pc = "put" /\ rd[r] \in Getting
    BY <1>2, <1>11 DEF FetchSend, Step, Asking
  <2>2. ~rd[r].known /\ rd[r].at \in Time
    BY <2>1 DEF KnownInv
  <2>3. rd' = [rd EXCEPT ![r] = Done(r, FALSE)]
    BY <1>11 DEF FetchSend, Step
  <2>4. rd' \in [Reader -> {Idle} \cup Getting] /\ rd'[r] = Done(r, FALSE)
        /\ \A o \in Reader : o # r => rd'[o] = rd[o]
    BY <2>1, <2>3, <1>5, <1>6
  <2>5. rd'[r].pc = "done" /\ rd'[r].known = rd[r].known
    BY <2>1, <2>4 DEF Done, Getting
  <2>6. fetch_history' \in [Bucket -> Time \cup {Never}] /\ asked' \subseteq Bucket
    BY <1>3, <1>4, <1>11, <2>1, <2>2 DEF FetchSend
  <2> QED BY <2>2, <2>4, <2>5, <2>6 DEF KnownInv
<1>12. CASE Return(r)
  <2>1. rd' = [rd EXCEPT ![r] = Idle] /\ UNCHANGED fetchVars
    BY <1>12 DEF Return, Step
  <2>2. rd' \in [Reader -> {Idle} \cup Getting] /\ rd'[r] = Idle
        /\ \A o \in Reader : o # r => rd'[o] = rd[o]
    BY <2>1, <1>5
  <2>3. rd'[r].pc = "idle"
    BY <2>2 DEF Idle
  <2> QED BY <2>1, <2>2, <2>3, <1>4 DEF KnownInv, fetchVars
<1> QED BY <1>7, <1>8, <1>9, <1>10, <1>11, <1>12 DEF get

LEMMA GetTypes ==
  ASSUME CandleTypeInv, NEW r \in Reader, get(r), KnownInv(r)
  PROVE  CandleTypeInv'
<1>1. UNCHANGED <<now, live, last_message_seq, invalid_state, roll, accepted, history,
                  fromRest, last_request, patches>>
  BY GetLeaves
<1>2. CandleAssumption'
  BY DEF CandleTypeInv, CandleAssumption
<1> QED BY <1>1, <1>2, GetStep DEF CandleTypeInv, CandleTypeOK

-----------------------------------------------------------------------------
(***************************************************************************)
(* The rollover, and the candles of the yes side.                          *)
(***************************************************************************)
LEMMA RecordIs ==
  ASSUME CandleTypeInv, NEW s \in Side, NEW t \in Time, NEW p \in 0..Dollar, RecordTrade(s, t, p)
  PROVE  /\ roll = Still /\ t <= now
         /\ live' = [live EXCEPT ![s] = update_candlestick(live[s], t, p)]
         /\ roll' \in Rolling /\ roll' # Still /\ roll'.side = "Yes"
         /\ roll'.store = live'["Yes"] /\ roll'.target = computeTimeBucket(t)
         /\ UNCHANGED <<history, fromRest, rd>>
         /\ accepted' = accepted \/ (~(t < live[s].start)
                                      /\ accepted' = [side |-> s, time |-> t, price |-> p])
<1> DEFINE lives == [live EXCEPT ![s] = update_candlestick(live[s], t, p)]
<1>1. /\ roll = Still /\ t <= now /\ live' = lives /\ BeginRoll(lives, t)
      /\ UNCHANGED <<history, fromRest, rd>>
  BY DEF RecordTrade, EngineFree
<1>2. lives \in [Side -> Candle]
  BY Updated, TypesAre
<1>3. accepted' = accepted \/ (~(t < live[s].start)
                               /\ accepted' = [side |-> s, time |-> t, price |-> p])
  BY DEF RecordTrade
<1> HIDE DEF lives
<1>4. /\ roll' \in Rolling /\ roll' # Still /\ roll'.side = "Yes"
      /\ roll'.store = lives["Yes"] /\ roll'.target = computeTimeBucket(t)
  BY <1>1, <1>2, RollTypes, TypesAre
<1> QED BY <1>1, <1>3, <1>4 DEF lives

LEMMA PutIs ==
  ASSUME CandleTypeInv, RollPut
  PROVE  LET c == roll.store
         IN  /\ roll # Still /\ roll.side \in Side /\ c \in Candle /\ c.start < roll.target
             /\ roll'.side = roll.side /\ roll'.target = roll.target /\ roll' # Still
             /\ roll'.store = NextCandle(c)
             /\ history' = [history EXCEPT ![roll.side] = [@ EXCEPT ![c.start] = c]]
             /\ fromRest' = fromRest \ {c.start}
             /\ UNCHANGED <<live, accepted, rd>>
<1>1. roll # Still /\ roll.store.start < roll.target
  BY DEF RollPut
<1>2. computeTimeBucket(roll.store.start) = roll.store.start
  BY <1>1, RollIs, CandleParts, Buckets, TypesAre
<1>3. roll' = [roll EXCEPT !.store = NextCandle(roll.store)]
  BY DEF RollPut
<1>4. /\ roll'.side = roll.side /\ roll'.target = roll.target
      /\ roll'.store = NextCandle(roll.store)
  BY <1>1, <1>3, RollIs
<1>5. roll' # Still
  BY <1>1, <1>4, RollIs, StillIs
<1> QED BY <1>1, <1>2, <1>4, <1>5, RollIs DEF RollPut

LEMMA PublishIs ==
  ASSUME CandleTypeInv, RollPublish
  PROVE  /\ roll # Still /\ roll.side \in Side /\ roll.store \in Candle
         /\ roll.target <= roll.store.start /\ roll.target \in Nat
         /\ live' = [live EXCEPT ![roll.side] = roll.store]
         /\ roll.side = "Yes" => /\ roll' # Still /\ roll'.side = "No"
                                 /\ roll'.target = roll.target /\ roll'.store = live["No"]
         /\ roll.side = "No" => roll' = Still
         /\ UNCHANGED <<history, fromRest, accepted, rd>>
<1>1. roll # Still /\ roll.store.start >= roll.target
  BY DEF RollPublish
<1>2. roll.target \in Nat /\ roll.store.start \in Nat
  BY <1>1, RollIs, CandleParts, TypesAre
<1>3. ASSUME roll.side = "Yes"
      PROVE  /\ roll' # Still /\ roll'.side = "No"
             /\ roll'.target = roll.target /\ roll'.store = live["No"]
  <2>1. roll' = [roll EXCEPT !.side = "No", !.store = live["No"]]
    BY <1>3 DEF RollPublish
  <2>2. roll'.side = "No" /\ roll'.target = roll.target /\ roll'.store = live["No"]
    BY <1>1, <2>1, RollIs
  <2> QED BY <2>2, StillIs DEF Side
<1>4. /\ live' = [live EXCEPT ![roll.side] = roll.store]
      /\ roll.side = "No" => roll' = Still
      /\ UNCHANGED <<history, fromRest, accepted, rd>>
  BY DEF RollPublish
<1> QED BY <1>1, <1>2, <1>3, <1>4, RollIs

LEMMA StoreIs ==
  ASSUME CandleTypeInv, NEW n \in Bucket, EngineStore(n)
  PROVE  /\ roll = Still /\ UNCHANGED <<live, roll, accepted, rd>>
         /\ \E c \in RestCandle, told \in SUBSET Bucket :
              /\ history' = [s \in Side |-> [b \in Bucket |->
                               IF b \in told THEN CandleOf(s, c, b) ELSE history[s][b]]]
              /\ fromRest' = fromRest \cup told
<1>1. roll = Still /\ UNCHANGED <<live, roll, accepted, rd>>
  BY DEF EngineStore, EngineFree, engineVars
<1>2. PICK c \in RestCandle, told \in SUBSET ({n - Minute, n} \cap Bucket) :
        /\ history' = [s \in Side |-> [b \in Bucket |->
                         IF b \in told THEN CandleOf(s, c, b) ELSE history[s][b]]]
        /\ fromRest' = fromRest \cup told
  BY DEF EngineStore
<1>3. told \in SUBSET Bucket
  OBVIOUS
<1> QED BY <1>1, <1>2, <1>3

LEMMA BeatIs ==
  ASSUME CandleTypeInv, Heartbeat
  PROVE  /\ roll = Still /\ roll' \in Rolling /\ roll' # Still /\ roll'.side = "Yes"
         /\ roll'.store = live["Yes"] /\ roll'.target = computeTimeBucket(now)
         /\ UNCHANGED <<live, history, fromRest, accepted, rd>>
BY RollTypes, TypesAre DEF Heartbeat, EngineFree

LEMMA MissIs ==
  ASSUME NEW id \in 1..MaxSeq, MissTrade(id)
  PROVE  UNCHANGED <<live, roll, history, fromRest, accepted, rd>>
BY DEF MissTrade

LEMMA HistoryGrows ==
  ASSUME CandleTypeInv, Engine, NEW s \in Side, NEW m \in Bucket, history[s][m] # NoCandle
  PROVE  history'[s][m] # NoCandle
<1>1. CASE UNCHANGED history
  BY <1>1
<1>2. CASE RollPut
  <2> DEFINE c == roll.store
  <2>1. /\ c \in Candle /\ roll.side \in Side
        /\ history' = [history EXCEPT ![roll.side] = [@ EXCEPT ![c.start] = c]]
    BY <1>2, PutIs
  <2>2. c.start \in Nat /\ NoCandle.start = -1
    BY <2>1, CandleParts, TypesAre DEF NoCandle
  <2>3. c # NoCandle
    BY <2>2
  <2> HIDE DEF c
  <2> QED BY <2>1, <2>3, TypesAre
<1>3. ASSUME NEW n \in Bucket, EngineStore(n) PROVE history'[s][m] # NoCandle
  <2>1. PICK c \in RestCandle, told \in SUBSET Bucket :
           history' = [x \in Side |-> [b \in Bucket |->
                        IF b \in told THEN CandleOf(x, c, b) ELSE history[x][b]]]
    BY <1>3, StoreIs
  <2>2. CandleOf(s, c, m) # NoCandle
    BY RestTypes, TypesAre
  <2>3. history'[s][m] = IF m \in told THEN CandleOf(s, c, m) ELSE history[s][m]
    BY <2>1
  <2> QED BY <2>2, <2>3
<1> QED BY <1>1, <1>2, <1>3, RecordIs, MissIs, BeatIs, PublishIs, PatchIs DEF Engine

LEMMA NoneBefore ==
  ASSUME Bucket \subseteq Nat, NEW b \in Nat
  PROVE  \A m \in Bucket : ~(b <= m /\ m < b)
OBVIOUS

LEMMA RollKept == CandleTypeInv /\ RollInv /\ Engine => RollInv'
<1> SUFFICES ASSUME CandleTypeInv, RollInv, Engine PROVE RollInv'
  OBVIOUS
<1>0. /\ live["No"] \in Candle /\ live["Yes"] \in Candle
      /\ live["No"].start \in Nat /\ live["Yes"].start \in Nat
      /\ CandleAssumption /\ Bucket \subseteq Nat
  BY TypesAre, CandleParts, Buckets
<1>1. ASSUME roll = Still, roll' # Still, roll'.side = "Yes", roll'.store = live'["Yes"],
             live'["Yes"].start = live["Yes"].start, live'["No"].start = live["No"].start
      PROVE  RollInv'
  <2>1. live["Yes"].start = live["No"].start
    BY <1>1 DEF RollInv
  <2>2. \A m \in Bucket : ~(live["No"].start <= m /\ m < live["No"].start)
    BY <1>0, NoneBefore
  <2> QED BY <1>0, <1>1, <2>1, <2>2 DEF RollInv
<1>2. ASSUME NEW s \in Side, NEW t \in Time, NEW p \in 0..Dollar, RecordTrade(s, t, p)
      PROVE  RollInv'
  <2>1. update_candlestick(live[s], t, p).start = live[s].start
    BY Updated, TypesAre
  <2>2. live' = [live EXCEPT ![s] = update_candlestick(live[s], t, p)]
    BY <1>2, RecordIs
  <2>3. \A x \in Side : live'[x].start = live[x].start
    BY <2>1, <2>2, TypesAre
  <2>4. live'["Yes"].start = live["Yes"].start /\ live'["No"].start = live["No"].start
    BY <2>3 DEF Side
  <2> QED BY <1>1, <1>2, <2>4, RecordIs
<1>3. CASE Heartbeat
  BY <1>1, <1>3, BeatIs
<1>4. CASE RollPut
  <2> DEFINE c == roll.store
             d == NextCandle(c)
             s == roll.side
             began == live["No"].start
  <2>1. /\ roll # Still /\ s \in Side /\ c \in Candle /\ c.start < roll.target
        /\ roll'.side = s /\ roll'.target = roll.target /\ roll' # Still /\ roll'.store = d
        /\ history' = [history EXCEPT ![s] = [@ EXCEPT ![c.start] = c]]
        /\ live' = live /\ roll.target \in Bucket
    BY <1>4, PutIs, RollIs
  <2>2. /\ d.start = c.start + Minute /\ d.start <= roll.target
        /\ \A m \in Bucket : m < d.start <=> m <= c.start
        /\ HasData(c) => HasData(d)
    BY <1>0, <2>1, AfterMinute
  <2>3. c.start \in Nat /\ c.start \in Bucket /\ Minute \in Nat
    BY <1>0, <2>1, CandleParts DEF CandleAssumption
  <2>4. /\ began <= c.start
        /\ s = "Yes" => live["Yes"].start = began
        /\ s = "No" => /\ began <= live["Yes"].start /\ roll.target <= live["Yes"].start
                       /\ live["Yes"].start \in {began, roll.target}
        /\ HasData(live[s]) => HasData(c)
        /\ \A m \in Bucket : began <= m /\ m < c.start => history[s][m] # NoCandle
    BY <2>1 DEF RollInv
  <2>5. c # NoCandle
    BY <2>3 DEF NoCandle
  <2>6. \A m \in Bucket : history'[s][m] = IF m = c.start THEN c ELSE history[s][m]
    BY <2>1, TypesAre
  <2>7. \A m \in Bucket : began <= m /\ m < d.start => history'[s][m] # NoCandle
    BY <1>0, <2>2, <2>3, <2>4, <2>5, <2>6
  <2>8. began <= d.start
    BY <1>0, <2>2, <2>3, <2>4
  <2> HIDE DEF c, d, s
  <2> QED BY <2>1, <2>2, <2>4, <2>7, <2>8 DEF RollInv
<1>5. CASE RollPublish
  <2> DEFINE c == roll.store
             began == live["No"].start
  <2>1. /\ roll # Still /\ roll.side \in Side /\ c \in Candle
        /\ roll.target <= c.start /\ roll.target \in Nat /\ c.start \in Nat
        /\ live' = [live EXCEPT ![roll.side] = c] /\ history' = history
    BY <1>0, <1>5, PublishIs, CandleParts
  <2>2. /\ began <= c.start
        /\ c.start <= roll.target \/ c.start = began
    BY <2>1 DEF RollInv
  <2>3. CASE roll.side = "Yes"
    <3>1. /\ roll' # Still /\ roll'.side = "No"
          /\ roll'.target = roll.target /\ roll'.store = live["No"]
      BY <1>5, <2>3, PublishIs
    <3>2. live'["Yes"] = c /\ live'["No"] = live["No"]
      BY <2>1, <2>3, TypesAre DEF Side
    <3>3. \A m \in Bucket : ~(began <= m /\ m < began)
      BY <1>0, NoneBefore
    <3>4. c.start \in {began, roll.target}
      BY <1>0, <2>1, <2>2
    <3> HIDE DEF c
    <3> QED BY <1>0, <2>1, <2>2, <3>1, <3>2, <3>3, <3>4 DEF RollInv
  <2>4. CASE roll.side = "No"
    <3>1. roll' = Still
      BY <1>5, <2>4, PublishIs
    <3>2. live'["No"] = c /\ live'["Yes"] = live["Yes"]
      BY <2>1, <2>4, TypesAre DEF Side
    <3>3. /\ began <= live["Yes"].start /\ roll.target <= live["Yes"].start
          /\ live["Yes"].start \in {began, roll.target}
      BY <2>1, <2>4 DEF RollInv
    <3>4. live["Yes"].start = c.start
      BY <1>0, <2>1, <2>2, <3>3
    <3> QED BY <3>1, <3>2, <3>4 DEF RollInv
  <2> QED BY <2>1, <2>3, <2>4, TypesAre
<1>6. CASE UNCHANGED <<live, roll>> /\ roll = Still
  BY <1>6 DEF RollInv
<1>7. CASE UNCHANGED <<live, roll, history>>
  BY <1>7 DEF RollInv
<1> QED BY <1>2, <1>3, <1>4, <1>5, <1>6, <1>7, MissIs, PatchIs, StoreIs DEF Engine

LEMMA SoundKept == CandleTypeInv /\ SoundInv /\ Engine => SoundInv'
<1> SUFFICES ASSUME CandleTypeInv, SoundInv, Engine PROVE SoundInv'
  OBVIOUS
<1>0. /\ Sound(live["Yes"])
      /\ \A m \in Bucket : history["Yes"][m] # NoCandle => Sound(history["Yes"][m])
      /\ CandleAssumption /\ "Yes" \in Side
  BY TypesAre DEF SoundInv, YesCandleSound, Candles, Side
<1>1. ASSUME Sound(live'["Yes"]),
             \A m \in Bucket : history'["Yes"][m] # NoCandle => Sound(history'["Yes"][m]),
             roll' # Still /\ roll'.side = "Yes" => Sound(roll'.store)
      PROVE  SoundInv'
  BY <1>1 DEF SoundInv, YesCandleSound, Candles
<1>2. ASSUME NEW s \in Side, NEW t \in Time, NEW p \in 0..Dollar, RecordTrade(s, t, p)
      PROVE  SoundInv'
  <2>1. Sound(live[s]) => Sound(update_candlestick(live[s], t, p))
    BY Updated, TypesAre
  <2>2. live' = [live EXCEPT ![s] = update_candlestick(live[s], t, p)]
        /\ roll'.store = live'["Yes"] /\ history' = history
    BY <1>2, RecordIs
  <2>3. Sound(live'["Yes"])
    BY <1>0, <2>1, <2>2, TypesAre
  <2> QED BY <1>0, <1>1, <2>2, <2>3
<1>3. CASE Heartbeat
  BY <1>0, <1>1, <1>3, BeatIs
<1>4. CASE RollPut
  <2> DEFINE c == roll.store
             d == NextCandle(c)
             s == roll.side
  <2>1. /\ roll # Still /\ s \in Side /\ c \in Candle /\ c.start < roll.target
        /\ roll'.side = s /\ roll'.store = d
        /\ history' = [history EXCEPT ![s] = [@ EXCEPT ![c.start] = c]]
        /\ live' = live /\ roll.target \in Bucket
    BY <1>4, PutIs, RollIs
  <2>2. s = "Yes" => Sound(c) /\ Sound(d)
    BY <1>0, <2>1, AfterMinute DEF SoundInv
  <2>3. \A m \in Bucket :
          history'["Yes"][m] = IF s = "Yes" /\ m = c.start THEN c ELSE history["Yes"][m]
    BY <1>0, <2>1, TypesAre
  <2> HIDE DEF c, d, s
  <2> QED BY <1>0, <1>1, <2>1, <2>2, <2>3
<1>5. CASE RollPublish
  <2>1. /\ roll # Still /\ live' = [live EXCEPT ![roll.side] = roll.store]
        /\ roll.side \in Side /\ history' = history
        /\ roll.side = "Yes" => roll'.side = "No"
        /\ roll.side = "No" => roll' = Still
    BY <1>5, PublishIs
  <2>2. Sound(live'["Yes"])
    BY <1>0, <2>1, TypesAre DEF SoundInv
  <2>3. ~(roll' # Still /\ roll'.side = "Yes")
    BY <2>1, TypesAre
  <2> QED BY <1>0, <1>1, <2>1, <2>2, <2>3
<1>6. ASSUME NEW n \in Bucket, EngineStore(n) PROVE SoundInv'
  <2>1. PICK c \in RestCandle, told \in SUBSET Bucket :
           history' = [x \in Side |-> [b \in Bucket |->
                        IF b \in told THEN CandleOf(x, c, b) ELSE history[x][b]]]
    BY <1>6, StoreIs
  <2>2. ASSUME NEW m \in Bucket, history'["Yes"][m] # NoCandle PROVE Sound(history'["Yes"][m])
    <3>1. m \in told => Sound(CandleOf("Yes", c, m))
      BY <1>0, RestTypes
    <3> QED BY <1>0, <2>1, <2>2, <3>1
  <2> QED BY <1>0, <1>1, <1>6, <2>2, StoreIs DEF SoundInv
<1>7. CASE UNCHANGED <<live, roll, history>>
  BY <1>7 DEF SoundInv, YesCandleSound, Candles
<1> QED BY <1>2, <1>3, <1>4, <1>5, <1>6, <1>7, MissIs, PatchIs DEF Engine

-----------------------------------------------------------------------------
(***************************************************************************)
(* A trade stays in its minute's candle.                                   *)
(***************************************************************************)
LEMMA AtWorkIs ==
  /\ \A s \in Side : roll = Still => AtWork(s) = live[s]
  /\ \A s \in Side : roll.side # s => AtWork(s) = live[s]
  /\ \A s \in Side : roll.side = s => AtWork(s) = roll.store
BY StillIs DEF AtWork

\* A rollover begins: each side has the candle it had, with what it took.
LEMMA TradeBegins ==
  ASSUME CandleTypeInv, RollInv, NEW a \in RecordedTrade, TradeIn(a),
         roll = Still, roll' # Still, roll'.side = "Yes", roll'.store = live'["Yes"],
         \A s \in Side : live'[s].start = live[s].start,
         \A s \in Side : InCandle(live[s], a) => InCandle(live'[s], a),
         UNCHANGED <<history, fromRest>>
  PROVE  TradeIn(a)'
<1> DEFINE s == a.side
           m == computeTimeBucket(a.time)
<1>1. s \in Side /\ "No" \in Side
  BY DEF RecordedTrade, Side
<1>2. AtWork(s) = live[s] /\ AtWork(s)' = live'[s]
  BY <1>1, AtWorkIs DEF AtWork
<1>3. /\ live[s].start <= m => InCandle(live[s], a)
      /\ ~(live[s].start < m)
      /\ m < live[s].start => \/ m \in fromRest /\ m < live["No"].start
                              \/ InCandle(history[s][m], a)
  BY <1>2 DEF TradeIn
<1>4. live'[s].start = live[s].start /\ live'["No"].start = live["No"].start
      /\ (InCandle(live[s], a) => InCandle(live'[s], a))
  BY <1>1
<1>5. /\ live'[s].start <= m => InCandle(live'[s], a)
      /\ ~(live'[s].start < m)
      /\ m < live'[s].start => \/ m \in fromRest' /\ m < live'["No"].start
                               \/ InCandle(history'[s][m], a)
  BY <1>3, <1>4
<1> QED BY <1>2, <1>5 DEF TradeIn, InCandle, HasData

LEMMA TradePut ==
  ASSUME CandleTypeInv, RollInv, NEW a \in RecordedTrade, TradeIn(a), RollPut
  PROVE  TradeIn(a)'
<1> DEFINE s == a.side
           m == computeTimeBucket(a.time)
           c == roll.store
           d == NextCandle(c)
<1>1. s \in Side /\ m \in Bucket /\ m \in Nat /\ CandleAssumption /\ a.price \in Nat
  BY Buckets, TypesAre, CandleParts DEF RecordedTrade, Side, CandleAssumption
<1>2. /\ roll # Still /\ roll.side \in Side /\ c \in Candle /\ c.start < roll.target
      /\ roll'.side = roll.side /\ roll'.target = roll.target /\ roll' # Still
      /\ roll'.store = d
      /\ history' = [history EXCEPT ![roll.side] = [@ EXCEPT ![c.start] = c]]
      /\ fromRest' = fromRest \ {c.start} /\ live' = live
  BY PutIs
<1>3. /\ c.start \in Bucket /\ c.start \in Nat /\ live["No"].start \in Nat
      /\ live["No"].start <= c.start
  BY <1>1, <1>2, CandleParts, TypesAre DEF RollInv
<1>4. CASE roll.side # s
  <2>1. AtWork(s) = live[s] /\ AtWork(s)' = live[s]
    BY <1>1, <1>2, <1>4, AtWorkIs DEF AtWork
  <2>2. history'[s] = history[s]
    BY <1>1, <1>2, <1>4, TypesAre
  <2>3. m \in fromRest /\ m < live["No"].start => m \in fromRest'
    BY <1>1, <1>2, <1>3
  <2> HIDE DEF c, d, m, s
  <2> QED BY <1>2, <2>1, <2>2, <2>3 DEF TradeIn, InCandle, HasData, s, m
<1>5. CASE roll.side = s
  <2>1. AtWork(s) = c /\ AtWork(s)' = d
    BY <1>1, <1>2, <1>5, AtWorkIs DEF AtWork
  <2>2. /\ c.start <= m => InCandle(c, a)
        /\ c.start < m => /\ m <= roll.target /\ c.close = a.price
                          /\ roll.side = "Yes" \/ a.side = "No"
        /\ m < c.start => \/ m \in fromRest /\ m < live["No"].start
                          \/ InCandle(history[s][m], a)
    BY <2>1 DEF TradeIn
  <2>3. /\ d.start = c.start + Minute
        /\ m < d.start <=> m <= c.start
        /\ HasData(c) => HasData(d)
        /\ HasData(c) => d.close = c.close /\ d.low = c.close /\ d.high = c.close
        /\ d.start \in Nat /\ c.start < d.start
    <3>1. roll.target \in Bucket /\ Minute \in Nat \ {0}
      BY <1>2, RollIs DEF CandleTypeInv, CandleAssumption
    <3>2. d.start = c.start + Minute
      BY <1>1, <1>2, <3>1, AfterMinute
    <3> QED BY <1>1, <1>2, <1>3, <3>1, <3>2, AfterMinute
  <2>4. history'[s][m] = IF m = c.start THEN c ELSE history[s][m]
    BY <1>1, <1>2, <1>5, TypesAre
  <2> HIDE DEF c, d, m, s
  <2>5. ASSUME d.start <= m PROVE InCandle(d, a) /\ d.close = a.price
    <3>1. c.start < m
      BY <1>1, <1>3, <2>3, <2>5
    <3>2. InCandle(c, a) /\ c.close = a.price
      BY <1>1, <1>3, <2>2, <3>1
    <3> QED BY <1>1, <2>3, <3>2 DEF InCandle
  <2>6. ASSUME d.start < m
        PROVE  m <= roll.target /\ (roll.side = "Yes" \/ a.side = "No")
    BY <1>1, <1>3, <2>2, <2>3, <2>6
  <2>7. ASSUME m < d.start
        PROVE  \/ m \in fromRest' /\ m < live["No"].start
               \/ InCandle(history'[s][m], a)
    <3>1. CASE m = c.start
      BY <1>3, <2>2, <2>4, <3>1
    <3>2. CASE m < c.start
      BY <1>2, <1>3, <2>2, <2>4, <3>2
    <3> QED BY <1>1, <1>3, <2>3, <2>7, <3>1, <3>2
  <2>8. d.start < m => d.start <= m
    BY <1>1, <2>3
  <2> QED BY <1>2, <2>1, <2>5, <2>6, <2>7, <2>8 DEF TradeIn, InCandle, HasData, s, m
<1> QED BY <1>4, <1>5

LEMMA TradePublish ==
  ASSUME CandleTypeInv, RollInv, NEW a \in RecordedTrade, TradeIn(a), RollPublish
  PROVE  TradeIn(a)'
<1> DEFINE s == a.side
           m == computeTimeBucket(a.time)
           c == AtWork(s)
<1>1. s \in Side /\ m \in Nat /\ "Yes" \in Side /\ "No" \in Side /\ (s = "Yes" \/ s = "No")
  BY Buckets, TypesAre DEF RecordedTrade, Side
<1>2. /\ roll # Still /\ roll.side \in Side /\ roll.store \in Candle
      /\ roll.target <= roll.store.start /\ roll.target \in Nat
      /\ live' = [live EXCEPT ![roll.side] = roll.store]
      /\ roll.side = "Yes" => /\ roll' # Still /\ roll'.side = "No"
                              /\ roll'.target = roll.target /\ roll'.store = live["No"]
      /\ roll.side = "No" => roll' = Still
      /\ UNCHANGED <<history, fromRest>>
  BY PublishIs
<1>3. roll.store.start \in Nat /\ live["No"].start \in Nat /\ live["No"].start <= roll.store.start
  BY <1>2, CandleParts, TypesAre DEF RollInv
<1>4. live["No"].start <= live'["No"].start /\ live'["No"].start \in Nat
  BY <1>1, <1>2, <1>3, TypesAre
<1>5. AtWork(s)' = c
  <2>1. CASE roll.side = s
    <3>1. c = roll.store /\ live'[s] = roll.store
      BY <1>1, <1>2, <2>1, AtWorkIs, TypesAre
    <3>2. roll'.side # s
      BY <1>1, <1>2, <2>1, StillIs
    <3> QED BY <3>1, <3>2 DEF AtWork
  <2>2. CASE roll.side # s
    <3>1. c = live[s] /\ live'[s] = live[s]
      BY <1>1, <1>2, <2>2, AtWorkIs, TypesAre
    <3>2. roll'.side = s => roll'.store = live[s]
      <4>1. CASE roll.side = "Yes"
        BY <1>1, <1>2, <2>2, <4>1
      <4>2. CASE roll.side = "No"
        BY <1>1, <1>2, <4>2, StillIs
      <4> QED BY <1>2, <4>1, <4>2, TypesAre
    <3> QED BY <3>1, <3>2 DEF AtWork
  <2> QED BY <2>1, <2>2
<1>6. /\ c.start <= m => InCandle(c, a)
      /\ c.start < m => /\ m <= roll.target /\ c.close = a.price
                        /\ roll.side = "Yes" \/ s = "No"
      /\ m < c.start => \/ m \in fromRest /\ m < live["No"].start
                        \/ InCandle(history[s][m], a)
  BY DEF TradeIn
<1>7. roll.side = s => c = roll.store
  BY <1>1, AtWorkIs
<1> HIDE DEF c, m, s
<1>8. ASSUME c.start < m
      PROVE  roll' # Still /\ m <= roll'.target /\ (roll'.side = "Yes" \/ s = "No")
  <2>1. roll.side # s
    BY <1>1, <1>2, <1>3, <1>6, <1>7, <1>8
  <2>2. roll.side = "Yes" /\ s = "No"
    BY <1>1, <1>2, <1>6, <1>8, <2>1, TypesAre
  <2> QED BY <1>2, <1>6, <1>8, <2>2
<1>9. m < c.start => \/ m \in fromRest' /\ m < live'["No"].start
                     \/ InCandle(history'[s][m], a)
  BY <1>1, <1>2, <1>3, <1>4, <1>6
<1> QED BY <1>5, <1>6, <1>8, <1>9 DEF TradeIn, InCandle, HasData, s, m

LEMMA TradeStore ==
  ASSUME CandleTypeInv, RollInv, NEW a \in RecordedTrade, TradeIn(a), NEW n \in Bucket, EngineStore(n)
  PROVE  TradeIn(a)'
<1> DEFINE s == a.side
           m == computeTimeBucket(a.time)
<1>1. s \in Side /\ m \in Bucket /\ "Yes" \in Side /\ "No" \in Side /\ (s = "Yes" \/ s = "No")
  BY Buckets, TypesAre DEF RecordedTrade, Side
<1>2. roll = Still /\ UNCHANGED <<live, roll>>
  BY StoreIs
<1>3. PICK rest \in RestCandle, told \in SUBSET Bucket :
        /\ history' = [x \in Side |-> [b \in Bucket |->
                         IF b \in told THEN CandleOf(x, rest, b) ELSE history[x][b]]]
        /\ fromRest' = fromRest \cup told
  BY StoreIs
<1>4. AtWork(s) = live[s] /\ AtWork(s)' = live[s]
  BY <1>1, <1>2, AtWorkIs DEF AtWork
<1>5. live[s].start = live["No"].start
  BY <1>1, <1>2 DEF RollInv
<1>6. m \notin told => history'[s][m] = history[s][m]
  BY <1>1, <1>3
<1> HIDE DEF m, s
<1> QED BY <1>2, <1>3, <1>4, <1>5, <1>6 DEF TradeIn, InCandle, HasData, s, m

\* A trade that comes in.
LEMMA TradeNew ==
  ASSUME CandleTypeInv, RollInv, NEW s \in Side, NEW t \in Time, NEW p \in 0..Dollar,
         RecordTrade(s, t, p), ~(t < live[s].start)
  PROVE  TradeIn([side |-> s, time |-> t, price |-> p])'
<1> DEFINE a == [side |-> s, time |-> t, price |-> p]
           m == computeTimeBucket(t)
           d == update_candlestick(live[s], t, p)
<1>1. /\ roll' # Still /\ roll'.side = "Yes" /\ roll'.store = live'["Yes"]
      /\ roll'.target = m /\ live' = [live EXCEPT ![s] = d]
  BY RecordIs
<1>2. live'[s] = d
  BY <1>1, TypesAre
<1>3. AtWork(s)' = d
  BY <1>1, <1>2 DEF AtWork
<1>4. d.start = live[s].start /\ HasData(d) /\ d.close = p /\ d.low <= p /\ p <= d.high
  BY Updated, TypesAre
<1>5. live[s].start <= t /\ live[s].start \in Bucket /\ m \in Nat /\ live[s].start \in Nat
  <2>1. live[s] \in Candle /\ t \in Nat
    BY TypesAre DEF Time
  <2> QED BY <2>1, CandleParts, Buckets, TypesAre
<1>6. d.start <= m
  BY <1>4, <1>5, LastStart, TypesAre
<1> HIDE DEF d, m
<1>7. ~(m < d.start) /\ m <= m
  BY <1>4, <1>5, <1>6
<1> QED BY <1>1, <1>3, <1>4, <1>6, <1>7 DEF TradeIn, InCandle, HasData, m

LEMMA TradeKept == CandleTypeInv /\ RollInv /\ TradeInv /\ Engine => TradeInv'
<1> SUFFICES ASSUME CandleTypeInv, RollInv, TradeInv, Engine, accepted' # NoTrade
             PROVE  TradeIn(accepted)'
  BY DEF TradeInv
<1>1. ASSUME NEW a \in RecordedTrade, accepted = a, accepted' = a, TradeIn(a)' PROVE TradeIn(accepted)'
  BY <1>1 DEF TradeIn, InCandle, HasData
<1>2. accepted = NoTrade \/ (accepted \in RecordedTrade /\ TradeIn(accepted))
  BY DEF CandleTypeInv, TradeInv
<1>3. ASSUME NEW s \in Side, NEW t \in Time, NEW p \in 0..Dollar, RecordTrade(s, t, p)
      PROVE  TradeIn(accepted)'
  <2>1. CASE accepted' = accepted
    <3>1. PICK a \in RecordedTrade : a = accepted
      BY <1>2, <2>1
    <3>2. TradeIn(a)
      BY <1>2, <2>1, <3>1
    <3>3. /\ roll = Still /\ live' = [live EXCEPT ![s] = update_candlestick(live[s], t, p)]
          /\ roll' # Still /\ roll'.side = "Yes" /\ roll'.store = live'["Yes"]
          /\ UNCHANGED <<history, fromRest>>
      BY <1>3, RecordIs
    <3>4. /\ update_candlestick(live[s], t, p).start = live[s].start
          /\ InCandle(live[s], a) => InCandle(update_candlestick(live[s], t, p), a)
      BY Updated, TypesAre
    <3>5. \A x \in Side : /\ live'[x].start = live[x].start
                          /\ InCandle(live[x], a) => InCandle(live'[x], a)
      BY <3>3, <3>4, TypesAre
    <3>6. TradeIn(a)'
      BY <3>2, <3>3, <3>5, TradeBegins
    <3> QED BY <1>1, <2>1, <3>1, <3>6
  <2>2. CASE ~(t < live[s].start) /\ accepted' = [side |-> s, time |-> t, price |-> p]
    <3>1. TradeIn([side |-> s, time |-> t, price |-> p])'
      BY <1>3, <2>2, TradeNew
    <3> QED BY <2>2, <3>1 DEF TradeIn, InCandle, HasData
  <2> QED BY <1>3, <2>1, <2>2, RecordIs
<1>4. CASE /\ accepted' = accepted
           /\ ~\E s \in Side, t \in Time, p \in 0..Dollar : RecordTrade(s, t, p)
  <2>1. PICK a \in RecordedTrade : a = accepted
    BY <1>2, <1>4
  <2>2. TradeIn(a)
    BY <1>2, <1>4, <2>1
  <2>3. CASE Heartbeat
    <3>1. TradeIn(a)'
      BY <2>2, <2>3, BeatIs, TradeBegins
    <3> QED BY <1>1, <1>4, <2>1, <3>1
  <2>4. CASE RollPut
    BY <1>1, <1>4, <2>1, <2>2, <2>4, TradePut
  <2>5. CASE RollPublish
    BY <1>1, <1>4, <2>1, <2>2, <2>5, TradePublish
  <2>6. ASSUME NEW n \in Bucket, EngineStore(n) PROVE TradeIn(accepted)'
    BY <1>1, <1>4, <2>1, <2>2, <2>6, TradeStore
  <2>7. CASE UNCHANGED <<live, roll, history, fromRest>>
    <3>1. TradeIn(a)'
      BY <2>2, <2>7 DEF TradeIn, AtWork, InCandle, HasData
    <3> QED BY <1>1, <1>4, <2>1, <3>1
  <2> QED BY <1>4, <2>3, <2>4, <2>5, <2>6, <2>7, MissIs, PatchIs DEF Engine
<1>5. (\E s \in Side, t \in Time, p \in 0..Dollar : RecordTrade(s, t, p)) \/ accepted' = accepted
  BY MissIs, PatchIs, BeatIs, PutIs, PublishIs, StoreIs DEF Engine
<1> QED BY <1>3, <1>4, <1>5

-----------------------------------------------------------------------------
(***************************************************************************)
(* What the store knew it still knows; the theorems.                       *)
(***************************************************************************)
LEMMA KnownKept ==
  ASSUME CandleTypeInv, RollInv, Engine, NEW r \in Reader, KnownInv(r)
  PROVE  KnownInv(r)'
<1> DEFINE s == rd[r].side
           q == rd[r].query
           b == computeTimeBucket(q)
<1>0. rd' = rd
  BY RecordIs, MissIs, BeatIs, PutIs, PublishIs, PatchIs, StoreIs DEF Engine
<1>1. CASE rd[r].pc \notin Asking
  BY <1>0, <1>1 DEF KnownInv, Asking
<1>2. CASE rd[r].pc \in Asking
  <2>1. rd[r] \in Getting
    BY <1>2 DEF CandleTypeInv, Idle, Asking
  <2>2. s \in Side /\ q \in Time /\ q \in Nat
    BY <2>1, TypesAre DEF Getting, CandleAssumption, Time
  <2>3. b \in Bucket /\ b <= q /\ b \in Nat
    BY <2>2, Buckets, TypesAre
  <2>4. history[s][b] # NoCandle => history'[s][b] # NoCandle
    BY <2>2, <2>3, HistoryGrows
  <2>5. ASSUME q >= live[s].start, HasData(live[s])
        PROVE  history'[s][b] # NoCandle \/ (q >= live'[s].start /\ HasData(live'[s]))
    <3>1. CASE live' = live
      BY <2>5, <3>1
    <3>2. ASSUME NEW x \in Side, NEW t \in Time, NEW p \in 0..Dollar, RecordTrade(x, t, p)
          PROVE  q >= live'[s].start /\ HasData(live'[s])
      <4> DEFINE d == update_candlestick(live[x], t, p)
      <4>1. live' = [live EXCEPT ![x] = d]
        BY <3>2, RecordIs
      <4>2. d.start = live[x].start /\ (HasData(live[x]) => HasData(d))
        BY Updated, TypesAre
      <4> HIDE DEF d
      <4>3. CASE x = s
        <5>1. live'[s] = d
          BY <2>2, <4>1, <4>3, TypesAre
        <5> QED BY <2>5, <4>2, <4>3, <5>1
      <4>4. CASE x # s
        <5>1. live'[s] = live[s]
          BY <2>2, <4>1, <4>4, TypesAre
        <5> QED BY <2>5, <5>1
      <4> QED BY <4>3, <4>4
    <3>3. CASE RollPublish
      <4> DEFINE c == roll.store
      <4>1. /\ roll # Still /\ roll.side \in Side /\ c \in Candle
            /\ live' = [live EXCEPT ![roll.side] = c] /\ history' = history
        BY <3>3, PublishIs
      <4>2. CASE roll.side # s
        <5>1. live'[s] = live[s]
          BY <2>2, <4>1, <4>2, TypesAre
        <5> QED BY <2>5, <5>1
      <4>3. CASE roll.side = s
        <5>1. live'[s] = c
          BY <2>2, <4>1, <4>3, TypesAre
        <5>2. HasData(c)
          BY <2>5, <4>1, <4>3 DEF RollInv
        <5>3. live[s].start = live["No"].start
          BY <2>2, <4>1, <4>3, TypesAre DEF RollInv
        <5>4. live[s].start \in Bucket /\ live[s].start \in Nat /\ c.start \in Nat
          BY <2>2, <4>1, CandleParts, TypesAre
        <5>5. live[s].start <= b
          BY <2>2, <2>5, <5>4, LastStart, TypesAre
        <5>6. q < c.start => history[s][b] # NoCandle
          <6>1. \A m \in Bucket : live["No"].start <= m /\ m < c.start => history[s][m] # NoCandle
            BY <4>1, <4>3 DEF RollInv
          <6> HIDE DEF b, c
          <6> QED BY <2>2, <2>3, <5>3, <5>4, <5>5, <6>1
        <5> HIDE DEF c
        <5> QED BY <2>2, <4>1, <5>1, <5>2, <5>4, <5>6
      <4> QED BY <4>2, <4>3
    <3> QED BY <3>1, <3>2, <3>3, MissIs, BeatIs, PutIs, PatchIs, StoreIs DEF Engine
  <2>6. /\ rd'[r].pc = "live" /\ rd'[r].known =>
             history'[s][b] # NoCandle \/ (q >= live'[s].start /\ HasData(live'[s]))
        /\ rd'[r].pc = "map" /\ rd'[r].known => history'[s][b] # NoCandle
        /\ rd'[r].pc \in {"fetch", "put"} => ~rd'[r].known
        /\ rd'[r].pc = "done" /\ ~rd'[r].found => ~rd'[r].known
    BY <1>0, <2>4, <2>5 DEF KnownInv
  <2> QED BY <1>0, <2>6 DEF KnownInv, HasData
<1> QED BY <1>1, <1>2

LEMMA CandleInitInv == CandleAssumption /\ CandleInit => CandleInv
<1> SUFFICES ASSUME CandleAssumption, CandleInit PROVE CandleInv
  OBVIOUS
<1> DEFINE c == EmptyCandle(computeTimeBucket(0))
<1>1. 0 \in Time /\ computeTimeBucket(0) \in Bucket /\ computeTimeBucket(0) \in Nat
  BY Buckets DEF Time, CandleAssumption
<1>2. c \in Candle /\ c.start = computeTimeBucket(0) /\ Sound(c)
  BY <1>1 DEF EmptyCandle, Candle, Cents, Sound
<1>3. live = [s \in Side |-> c] /\ roll = Still /\ accepted = NoTrade
      /\ history = [s \in Side |-> [m \in Bucket |-> NoCandle]]
      /\ rd = [r \in Reader |-> Idle] /\ fromRest = {}
  BY DEF CandleInit
<1>4. CandleTypeInv
  <2>1. live \in [Side -> Candle] /\ now = 0 /\ last_message_seq = 0 /\ invalid_state = FALSE
        /\ last_request = Never /\ patches = 0 /\ asked = {}
        /\ fetch_history = [m \in Bucket |-> Never]
    BY <1>2, <1>3 DEF CandleInit
  <2>2. /\ now \in Time /\ last_message_seq \in 0..MaxSeq /\ patches \in Nat
        /\ last_request \in Time \cup {Never} /\ asked \subseteq Bucket
    <3>1. MaxSeq \in Nat
      BY DEF CandleAssumption
    <3> QED BY <1>1, <2>1, <3>1
  <2>3. fetch_history \in [Bucket -> Time \cup {Never}]
    BY <2>1
  <2>4. history \in [Side -> [Bucket -> Candle \cup {NoCandle}]]
    BY <1>3
  <2>5. roll \in Rolling \cup {Still} /\ invalid_state \in BOOLEAN
    BY <1>3, <2>1
  <2>6. CandleTypeOK
    BY <2>1, <2>2, <2>3, <2>4, <2>5 DEF CandleTypeOK
  <2> QED BY <1>3, <2>1, <2>6 DEF CandleTypeInv, Idle
<1>5. live["Yes"] = c /\ live["No"] = c
  BY <1>3 DEF Side
<1>6. RollInv
  BY <1>3, <1>5 DEF RollInv
<1>7. SoundInv
  <2>1. Candles("Yes") = {c}
    BY <1>3, <1>5 DEF Candles, Side
  <2> QED BY <1>2, <1>3, <2>1 DEF SoundInv, YesCandleSound
<1>8. TradeInv
  BY <1>3 DEF TradeInv
<1>9. \A r \in Reader : KnownInv(r)
  BY <1>3 DEF KnownInv, Idle
<1> QED BY <1>4, <1>6, <1>7, <1>8, <1>9 DEF CandleInv

LEMMA CandleUnchanged ==
  ASSUME UNCHANGED <<live, roll, history, fromRest, accepted, rd>>, RollInv, SoundInv, TradeInv,
         \A r \in Reader : KnownInv(r)
  PROVE  RollInv' /\ SoundInv' /\ TradeInv' /\ \A r \in Reader : KnownInv(r)'
<1>1. RollInv'
  BY DEF RollInv, HasData
<1>2. SoundInv'
  BY DEF SoundInv, YesCandleSound, Candles
<1>3. TradeInv'
  BY DEF TradeInv, TradeIn, AtWork, InCandle, HasData
<1>4. \A r \in Reader : KnownInv(r)'
  BY DEF KnownInv, HasData
<1> QED BY <1>1, <1>2, <1>3, <1>4

LEMMA CandleInductive == CandleInv /\ [CandleNext]_candleVars => CandleInv'
<1> SUFFICES ASSUME CandleInv, [CandleNext]_candleVars PROVE CandleInv'
  OBVIOUS
<1>0. CandleTypeInv /\ RollInv /\ SoundInv /\ TradeInv /\ \A r \in Reader : KnownInv(r)
  BY DEF CandleInv
<1>1. CASE Engine
  BY <1>0, <1>1, EngineTypes, RollKept, SoundKept, TradeKept, KnownKept DEF CandleInv
<1>2. ASSUME NEW r \in Reader, get(r) PROVE CandleInv'
  <2>1. UNCHANGED <<live, roll, history, fromRest, accepted>>
    BY <1>2, GetLeaves
  <2>2. CandleTypeInv'
    BY <1>0, <1>2, GetTypes
  <2>3. RollInv' /\ SoundInv' /\ TradeInv'
    <3>1. RollInv'
      BY <1>0, <2>1 DEF RollInv, HasData
    <3>2. SoundInv'
      BY <1>0, <2>1 DEF SoundInv, YesCandleSound, Candles
    <3>3. TradeInv'
      BY <1>0, <2>1 DEF TradeInv, TradeIn, AtWork, InCandle, HasData
    <3> QED BY <3>1, <3>2, <3>3
  <2>4. ASSUME NEW q \in Reader PROVE KnownInv(q)'
    <3>1. CASE q = r
      BY <1>0, <1>2, <3>1, GetStep
    <3>2. CASE q # r
      <4>1. rd'[q] = rd[q]
        BY <1>0, <1>2, <3>2, GetStep
      <4> QED BY <1>0, <2>1, <4>1 DEF KnownInv, HasData
    <3> QED BY <3>1, <3>2
  <2> QED BY <2>2, <2>3, <2>4 DEF CandleInv
<1>3. CASE Tick
  <2>1. UNCHANGED <<live, roll, history, fromRest, accepted, rd>>
    BY <1>3 DEF Tick, engineVars
  <2>2. CandleTypeInv'
    <3>1. now' \in Time
      BY <1>0, <1>3 DEF Tick, CandleTypeInv, CandleTypeOK, Time, CandleAssumption
    <3>2. UNCHANGED <<last_message_seq, invalid_state, last_request, patches, fetch_history, asked>>
      BY <1>3 DEF Tick, engineVars, restVars, fetchVars
    <3> QED BY <1>0, <2>1, <3>1, <3>2 DEF CandleTypeInv, CandleTypeOK, CandleAssumption
  <2> QED BY <1>0, <2>1, <2>2, CandleUnchanged DEF CandleInv
<1>4. CASE UNCHANGED candleVars
  <2>1. UNCHANGED <<live, roll, history, fromRest, accepted, rd>>
    BY <1>4 DEF candleVars, engineVars
  <2>2. CandleTypeInv'
    BY <1>0, <1>4 DEF candleVars, engineVars, restVars, fetchVars, CandleTypeInv, CandleTypeOK, CandleAssumption
  <2> QED BY <1>0, <2>1, <2>2, CandleUnchanged DEF CandleInv
<1> QED BY <1>1, <1>2, <1>3, <1>4 DEF CandleNext

LEMMA CandleInvariant == CandleSpec => []CandleInv
<1>1. CandleInit => CandleInv
  BY CandleInitInv, CandleAssumption
<1> QED BY <1>1, CandleInductive, PTL DEF CandleSpec

\* Every variable of the store keeps its type: a candle's prices are cents or the
\* sentinel, on the no side too, where they are what is left of a dollar.
THEOREM CandleTypes == CandleSpec => []CandleTypeOK
<1>1. CandleInv => CandleTypeOK
  BY DEF CandleInv, CandleTypeInv
<1> QED BY <1>1, CandleInvariant, PTL

\* Every candle of the yes side has no data at all or is a candle, whatever trades,
\* rollovers and answers of REST made it.
THEOREM YesCandlesAreSound == CandleSpec => []YesCandleSound
<1>1. CandleInv => YesCandleSound
  BY DEF CandleInv, SoundInv
<1> QED BY <1>1, CandleInvariant, PTL

\* A rollover between the two looks of get hides no candle from it.
THEOREM NoneIsUnknown == CandleSpec => []NoneMeansUnknown
<1>1. CandleInv => NoneMeansUnknown
  BY DEF CandleInv, KnownInv, NoneMeansUnknown
<1> QED BY <1>1, CandleInvariant, PTL

\* A trade that was not late is in the candle of its own minute when the rollover it
\* caused is over, though it was added to the minute before.
THEOREM TradesAreInTheirCandles == CandleSpec => []TradeInCandle
<1>1. CandleInv => TradeInCandle
  <2> SUFFICES ASSUME CandleInv, EngineFree, accepted # NoTrade
               PROVE  LET a == accepted
                          m == computeTimeBucket(a.time)
                          c == IF m = live[a.side].start THEN live[a.side]
                               ELSE history[a.side][m]
                      IN  m \in fromRest \/ (HasData(c) /\ c.low <= a.price /\ a.price <= c.high)
    BY DEF TradeInCandle
  <2> DEFINE s == accepted.side
             m == computeTimeBucket(accepted.time)
  <2>1. CandleTypeInv /\ TradeIn(accepted) /\ accepted \in RecordedTrade /\ roll = Still
    BY DEF CandleInv, CandleTypeInv, TradeInv, EngineFree
  <2>2. s \in Side /\ m \in Nat /\ live[s] \in Candle /\ CandleAssumption
    BY <2>1, Buckets, TypesAre DEF RecordedTrade
  <2>3. live[s].start \in Nat /\ AtWork(s) = live[s]
    BY <2>1, <2>2, CandleParts, AtWorkIs
  <2>4. /\ live[s].start <= m => InCandle(live[s], accepted)
        /\ ~(live[s].start < m)
        /\ m < live[s].start => m \in fromRest \/ InCandle(history[s][m], accepted)
    BY <2>1, <2>3 DEF TradeIn
  <2>5. CASE m = live[s].start
    BY <2>2, <2>3, <2>4, <2>5 DEF InCandle
  <2>6. CASE m < live[s].start
    BY <2>2, <2>3, <2>4, <2>6 DEF InCandle
  <2> HIDE DEF m, s
  <2> QED BY <2>2, <2>3, <2>4, <2>5, <2>6 DEF m, s
<1> QED BY <1>1, CandleInvariant, PTL
=============================================================================
