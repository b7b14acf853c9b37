-------------------------- MODULE MarketPanel_proof --------------------------
(***************************************************************************)
(* The history of the order book and the panels that show it, for a ring   *)
(* of any length, any granularity and any interleaving with the engine.    *)
(*                                                                         *)
(* The invariant is that the store covers what a call under way owes its   *)
(* caller: a book that was there for the timestamp asked for is still the  *)
(* live one, or in the ring, or has been dropped, at every step of a write *)
(* and of a get.  With the rings in order, which holds until the first     *)
(* patch, the binary search then finds it or something newer.              *)
(*                                                                         *)
(* The last part is about the sequence lock under the live books.          *)
(***************************************************************************)
EXTENDS MarketPanel, SeqLock, WellFoundedInduction, TLAPS

Reading ==
  [pc : ReaderPc, query : Time, side : Side, result : Entry \cup {Missing},
   refused : BOOLEAN, known : -1..MaxBook]

\* TypeOK with what the other parts need of the rings and of the reader, and that
\* a call answers from the past, which holds whatever a patch does.
HistoryType ==
  /\ TypeOK
  /\ ring \in [Side -> Seq(Entry)]
  /\ rd \in {Idle} \cup Reading
  /\ Minute <= now /\ Minute <= exchange
  /\ NotFromTheFuture

\* The books of a side grow and so do their starts: those that were dropped, then
\* the ring, then the live one, which is also the last of the ring while it is
\* being replaced.
RingInv(s) ==
  LET r == ring[s]
  IN  /\ \A i, j \in 1..Len(r) : i < j => r[i].start < r[j].start /\ r[i].book < r[j].book
      /\ \A i \in 1..Len(r) : evicted[s] < r[i].book
      /\ evicted[s] < live[s].book
      /\ \A i \in 1..Len(r) :
           \/ r[i].start < live[s].start /\ r[i].book < live[s].book
           \/ /\ r[i] = live[s] /\ i = Len(r)
              /\ BeingWritten(s) /\ live[s].start < Start(engine)

\* What the engine writes is later than what it replaces, which is in the ring if
\* its time is over, and the first snapshot finds both sides as the store was made.
EngineInv ==
  /\ engine.pc # "free" => engine.kind # "patch"
  /\ engine.pc = "publish" =>
       /\ live[engine.side].start <= Start(engine)
       /\ live[engine.side].book < engine.book
       /\ \/ Start(engine) = live[engine.side].start
          \/ \E i \in 1..Len(ring[engine.side]) : ring[engine.side][i] = live[engine.side]
  /\ engine.pc = "enter" => engine.kind = "snapshot"
  /\ engine.pc \in {"enter", "publish"} /\ engine.kind = "snapshot" => Minute <= engine.ts
  /\ engine.pc = "enter" \/ (engine.pc = "publish" /\ engine.kind = "snapshot" /\ engine.side = "Yes")
       => live["No"] = [book |-> 0, start |-> 0]
  /\ \A s \in Side : live[s].book = 0 => live[s].start = 0

\* The store has a book for q that is at least b, or has dropped b.
Covered(s, q, b) ==
  \/ b <= evicted[s]
  \/ live[s].start <= q /\ b <= live[s].book
  \/ \E i \in 1..Len(ring[s]) : ring[s][i].start <= q /\ b <= ring[s][i].book

\* A call under way will answer with b or with something newer, if at all.
Owes(b) ==
  /\ rd.pc \in ReaderPc \ {"done"} => Covered(rd.side, rd.query, b)
  /\ Answered => b <= rd.result.book

ReaderInv ==
  /\ rd.pc # "idle" => Owes(rd.known)
  /\ rd.pc = "search" => rd.query < live[rd.side].start
  /\ Answered => Covered(rd.side, rd.query, rd.result.book)
  /\ rd.pc = "done" /\ rd.result = Missing => rd.refused \/ rd.known <= evicted[rd.side]

StoreInv == EngineInv /\ \A s \in Side : RingInv(s)

\* The inductive invariant of the store and its reader.
HistoryInv == HistoryType /\ (patches = 0 => StoreInv /\ ReaderInv)

\* What a side shows is covered at the time the frames have reached, and so is the
\* yes side of a frame that waits for the no side.
PanelInv ==
  /\ reader \in {"past", "panel"} /\ shown \in [Side -> 0..MaxBook]
  /\ panel \in {NoFetch} \cup [stage : {"yes"}] \cup [stage : {"no"}, yes : -1..MaxBook]
  /\ reader = "past" => panel = NoFetch
  /\ reader = "panel" =>
       /\ panel = NoFetch <=> rd = Idle
       /\ panel.stage = "yes" => rd.side = "Yes"
       /\ panel.stage = "no" => rd.side = "No"
       /\ rd # Idle => rd.query <= now
  /\ reader = "panel" /\ patches = 0 =>
       /\ panel = NoFetch => \A s \in Side : Covered(s, now, shown[s])
       /\ panel # NoFetch =>
            /\ Owes(shown[rd.side])
            /\ \A s \in Side : Covered(s, rd.query, shown[s])
       /\ panel.stage = "no" =>
            panel.yes = -1 \/ (shown["Yes"] <= panel.yes /\ Covered("Yes", rd.query, panel.yes))

-----------------------------------------------------------------------------
(***************************************************************************)
(* The binary search.                                                      *)
(***************************************************************************)
\* Induction over the numbers, for a set of them.
LEMMA SetInduction ==
  ASSUME NEW S \in SUBSET Nat, 0 \in S, \A n \in S : n + 1 \in S
  PROVE  S = Nat
<1> SUFFICES ASSUME Nat \ S # {} PROVE FALSE
  OBVIOUS
<1> DEFINE R == {ss \in Nat \X Nat : ss[1] < ss[2]}
<1>1. IsWellFoundedOn(R, Nat)
  BY NatLessThanWellFounded DEF OpToRel
<1>2. PICK x \in Nat \ S : \A y \in Nat \ S : ~(<<y, x>> \in R)
  BY <1>1, WFMin
<1>3. x # 0 /\ x - 1 \in Nat
  BY <1>2
<1>4. <<x - 1, x>> \in R
  BY <1>3
<1>5. x - 1 \in S
  BY <1>2, <1>3, <1>4
<1>6. (x - 1) + 1 \in S
  BY <1>5
<1> QED BY <1>2, <1>3, <1>6

\* A step of the search, given what it finds in smaller windows.
Halve(f, entries, q, w) ==
  LET first == w[1]
      half == w[2] \div 2
      middle == first + half
  IN  IF w[2] = 0 THEN first
      ELSE IF q < entries[middle + 1].start THEN f[<<first, half>>]
      ELSE f[<<middle + 1, w[2] - half - 1>>]

Upto(n, k) == {w \in Window(n) : w[2] <= k}

LEMMA Halves ==
  ASSUME NEW n \in Nat, NEW w \in Window(n), w[2] # 0
  PROVE  /\ <<w[1], w[2] \div 2>> \in Window(n)
         /\ <<w[1] + (w[2] \div 2) + 1, w[2] - (w[2] \div 2) - 1>> \in Window(n)
         /\ w[1] + (w[2] \div 2) + 1 \in 1..n
         /\ w[2] \div 2 < w[2] /\ w[2] - (w[2] \div 2) - 1 < w[2]
<1> DEFINE a == w[1]
           l == w[2]
           h == l \div 2
<1>1. a \in Nat /\ l \in Nat /\ l # 0 /\ a + l <= n
  BY DEF Window
<1> HIDE DEF a, l
<1>2. h \in Nat /\ h < l
  BY <1>1
<1> HIDE DEF h
<1>3. <<a, h>> \in Window(n) /\ <<a + h + 1, l - h - 1>> \in Window(n)
  BY <1>1, <1>2 DEF Window
<1>4. a + h + 1 \in 1..n /\ l - h - 1 < l
  BY <1>1, <1>2
<1> QED BY <1>2, <1>3, <1>4 DEF a, l, h

\* There is a function that searches: on the windows of no entry, and then on
\* ever larger ones.
LEMMA SearchExists ==
  ASSUME NEW entries, NEW q, NEW n \in Nat
  PROVE  \E f : f = [w \in Window(n) |-> Halve(f, entries, q, w)]
<1> DEFINE Searches(f, k) == /\ f = [w \in Upto(n, k) |-> f[w]]
                             /\ \A w \in Upto(n, k) : f[w] = Halve(f, entries, q, w)
           G == {k \in Nat : \E f : Searches(f, k)}
<1>1. 0 \in G
  <2> DEFINE f == [w \in Upto(n, 0) |-> w[1]]
  <2>1. \A w \in Upto(n, 0) : w[2] = 0
    BY DEF Upto, Window
  <2>2. Searches(f, 0)
    BY <2>1 DEF Halve
  <2> QED BY <2>2
<1>2. ASSUME NEW k \in G PROVE k + 1 \in G
  <2>1. PICK f : Searches(f, k)
    OBVIOUS
  <2> DEFINE g == [w \in Upto(n, k + 1) |-> IF w[2] <= k THEN f[w] ELSE Halve(f, entries, q, w)]
  <2>2. \A w \in Upto(n, k) : w \in Upto(n, k + 1) /\ g[w] = f[w]
    BY DEF Upto, Window
  <2>3. ASSUME NEW w \in Upto(n, k + 1) PROVE g[w] = Halve(f, entries, q, w)
    BY <2>1 DEF Upto, Window
  <2>4. ASSUME NEW w \in Upto(n, k + 1) PROVE Halve(g, entries, q, w) = Halve(f, entries, q, w)
    <3> HIDE DEF g
    <3>1. CASE w[2] = 0
      BY <3>1 DEF Halve
    <3>2. CASE w[2] # 0
      <4>1. w \in Window(n) /\ w[2] \in Nat /\ w[2] <= k + 1
        BY DEF Upto, Window
      <4>2. /\ <<w[1], w[2] \div 2>> \in Upto(n, k)
            /\ <<w[1] + (w[2] \div 2) + 1, w[2] - (w[2] \div 2) - 1>> \in Upto(n, k)
        BY <3>2, <4>1, Halves DEF Upto, Window
      <4> QED BY <2>2, <4>2 DEF Halve
    <3> QED BY <3>1, <3>2
  <2>5. Searches(g, k + 1)
    BY <2>3, <2>4
  <2>6. \E h : Searches(h, k + 1)
    <3> HIDE DEF g, Searches
    <3> QED BY <2>5
  <2> QED BY <2>6
<1>3. n \in G
  <2> HIDE DEF G
  <2>1. G \in SUBSET Nat
    BY DEF G
  <2> QED BY <1>1, <1>2, <2>1, SetInduction
<1>4. PICK f : Searches(f, n)
  BY <1>3
<1>5. Upto(n, n) = Window(n)
  BY DEF Upto, Window
<1>6. f = [w \in Window(n) |-> Halve(f, entries, q, w)]
  BY <1>4, <1>5
<1> QED BY <1>6

\* What the binary search finds, in whatever order the entries are: the entry
\* before its end is not late, and the one at its end is.
LEMMA UpperBoundSpec ==
  ASSUME NEW entries, NEW q \in Int, Len(entries) \in Nat,
         \A i \in 1..Len(entries) : entries[i].start \in Int
  PROVE  LET n == Len(entries)
             r == UpperBound(entries, q)
         IN  /\ r \in 0..n
             /\ r > 0 => entries[r].start <= q
             /\ r < n => q < entries[r + 1].start
<1> DEFINE n == Len(entries)
           search == CHOOSE f : f = [w \in Window(n) |-> Halve(f, entries, q, w)]
           Early(r) == r > 0 => entries[r].start <= q
           Late(r) == r < n => q < entries[r + 1].start
           G == {k \in Nat : \A w \in Upto(n, k) :
                   Early(w[1]) /\ Late(w[1] + w[2]) =>
                     search[w] \in 0..n /\ Early(search[w]) /\ Late(search[w])}
<1>1. UpperBound(entries, q) = search[<<0, n>>]
  BY DEF UpperBound, Halve
<1>2. n \in Nat /\ \A i \in 1..n : entries[i].start \in Int
  OBVIOUS
<1> HIDE DEF n
<1>3. search = [w \in Window(n) |-> Halve(search, entries, q, w)]
  BY <1>2, SearchExists
<1> HIDE DEF search
<1>4. \A w \in Window(n) : search[w] = Halve(search, entries, q, w)
  BY <1>3
<1>5. 0 \in G
  <2>1. ASSUME NEW w \in Upto(n, 0)
        PROVE  w[1] \in 0..n /\ w[1] + w[2] = w[1] /\ search[w] = w[1]
    <3>1. w \in Window(n) /\ w[1] \in 0..n /\ w[2] = 0
      BY <1>2 DEF Upto, Window
    <3>2. search[w] = Halve(search, entries, q, w)
      BY <1>4, <3>1
    <3>3. search[w] = w[1]
      BY <3>1, <3>2, Zenon DEF Halve
    <3> QED BY <3>1, <3>3
  <2> HIDE DEF Early, Late
  <2> QED BY <2>1
<1>6. ASSUME NEW k \in G PROVE k + 1 \in G
  <2> SUFFICES ASSUME NEW w \in Upto(n, k + 1), Early(w[1]), Late(w[1] + w[2])
               PROVE  search[w] \in 0..n /\ Early(search[w]) /\ Late(search[w])
    OBVIOUS
  <2> DEFINE a == w[1]
             l == w[2]
             h == l \div 2
             m == a + h + 1
  <2>1. w \in Window(n) /\ a \in 0..n /\ l \in 0..n /\ a + l <= n /\ l <= k + 1
    BY <1>2 DEF Upto, Window
  <2>2. CASE l = 0
    <3>0. search[w] = Halve(search, entries, q, w)
      BY <1>4, <2>1
    <3>1. search[w] = a /\ a + l = a
      <4>1. search[w] = a
        BY <2>2, <3>0, Zenon DEF Halve
      <4> QED BY <2>1, <2>2, <4>1
    <3> HIDE DEF Early, Late
    <3> QED BY <2>1, <3>1
  <2>3. CASE l # 0
    <3>1. /\ <<a, h>> \in Upto(n, k) /\ <<m, l - h - 1>> \in Upto(n, k) /\ m \in 1..n
          /\ h \in Nat
      <4>1. /\ <<a, h>> \in Window(n) /\ <<m, l - h - 1>> \in Window(n)
            /\ m \in 1..n /\ h < l /\ l - h - 1 < l
        BY <1>2, <2>1, <2>3, Halves
      <4>2. h \in Nat /\ l \in Nat /\ k \in Nat
        BY <1>2, <2>1
      <4> HIDE DEF h, m
      <4> QED BY <2>1, <4>1, <4>2 DEF Upto
    <3>2. search[w] = IF q < entries[m].start THEN search[<<a, h>>] ELSE search[<<m, l - h - 1>>]
      BY <1>4, <2>1, <2>3 DEF Halve
    <3>0. ASSUME NEW b \in Int, NEW c \in Int, <<b, c>> \in Upto(n, k), Early(b), Late(b + c)
          PROVE  LET s == search[<<b, c>>] IN s \in 0..n /\ Early(s) /\ Late(s)
      <4>1. <<b, c>>[1] = b /\ <<b, c>>[2] = c
        OBVIOUS
      <4>2. Early(<<b, c>>[1]) /\ Late(<<b, c>>[1] + <<b, c>>[2])
        <5>1. Early(b) /\ Late(b + c)
          BY <3>0
        <5> HIDE DEF Early, Late
        <5> QED BY <4>1, <5>1
      <4> QED BY <3>0, <4>2
    <3> HIDE DEF h
    <3>3. CASE q < entries[m].start
      <4>1. Early(a) /\ Late(a + h)
        <5>1. a + h < n /\ (a + h) + 1 = m
          BY <2>1, <3>1, <1>2
        <5> QED BY <3>3, <5>1
      <4>2. a \in Int /\ h \in Int /\ <<a, h>> \in Upto(n, k) /\ search[w] = search[<<a, h>>]
        BY <2>1, <3>1, <3>2, <3>3
      <4> HIDE DEF Early, Late, a
      <4> QED BY <3>0, <4>1, <4>2
    <3>4. CASE ~(q < entries[m].start)
      <4>1. entries[m].start <= q
        BY <1>2, <3>1, <3>4
      <4>2. m + (l - h - 1) = a + l /\ m \in Int /\ l - h - 1 \in Int
        <5>1. n \in Nat /\ a \in Int /\ l \in Int /\ h \in Int
          BY <1>2, <2>1, <3>1
        <5> HIDE DEF a, l
        <5> QED BY <5>1
      <4>3. Early(m) /\ Late(m + (l - h - 1))
        BY <4>1, <4>2
      <4>4. <<m, l - h - 1>> \in Upto(n, k) /\ search[w] = search[<<m, l - h - 1>>]
        BY <3>1, <3>2, <3>4
      <4> DEFINE c == l - h - 1
      <4> HIDE DEF Early, Late, m, c
      <4> QED BY <3>0, <4>2, <4>3, <4>4 DEF c
    <3> QED BY <3>3, <3>4
  <2> QED BY <2>2, <2>3
<1>7. n \in G
  <2> HIDE DEF G
  <2>1. G \in SUBSET Nat
    BY DEF G
  <2> QED BY <1>2, <1>5, <1>6, <2>1, SetInduction
<1>8. <<0, n>> \in Upto(n, n) /\ Early(0) /\ Late(n)
  BY <1>2 DEF Upto, Window
<1>9. search[<<0, n>>] \in 0..n /\ Early(search[<<0, n>>]) /\ Late(search[<<0, n>>])
  BY <1>2, <1>7, <1>8
<1> QED BY <1>1, <1>9 DEF n

-----------------------------------------------------------------------------
(***************************************************************************)
(* Seconds and minutes.                                                    *)
(***************************************************************************)
LEMMA BucketOf ==
  ASSUME NEW t \in Nat, NEW size \in Nat \ {0}
  PROVE  LET b == computeTimeBucket(t, size) IN b \in 0..t /\ t < b + size
<1> DEFINE d == t \div size
<1>1. d \in Nat /\ t = size * d + (t % size) /\ t % size \in 0..(size - 1)
  OBVIOUS
<1>2. computeTimeBucket(t, size) = size * d
  BY <1>1 DEF computeTimeBucket
<1> HIDE DEF d
<1>3. size * d \in Nat
  BY <1>1
<1> QED BY <1>1, <1>2, <1>3

\* The bucket after the one that is over starts after everything in it.
LEMMA NextBucket ==
  ASSUME NEW t \in Nat, NEW u \in Nat, NEW size \in Nat \ {0},
         t > computeTimeBucket(u, size) + size
  PROVE  u < computeTimeBucket(t, size)
<1> DEFINE d == t \div size
           e == u \div size
<1>1. d \in Nat /\ e \in Nat
  OBVIOUS
<1>2. computeTimeBucket(t, size) = size * d /\ computeTimeBucket(u, size) = size * e
  BY <1>1 DEF computeTimeBucket
<1> HIDE DEF d, e
<1>3. size * e \in Nat /\ size * d \in Nat /\ u < size * e + size /\ t < size * d + size
  BY <1>1, <1>2, BucketOf
<1>4. CASE d <= e
  <2>1. size * d <= size * e
    BY <1>1, <1>4
  <2> QED BY <1>2, <1>3, <2>1
<1>5. CASE d >= e + 1
  <2>1. size * d >= size * (e + 1)
    BY <1>1, <1>5
  <2>2. size * (e + 1) = size * e + size
    BY <1>1
  <2> QED BY <1>2, <1>3, <2>1, <2>2
<1> QED BY <1>1, <1>4, <1>5

LEMMA FirstBucket ==
  ASSUME NEW t \in Nat, NEW size \in Nat \ {0}, size <= t
  PROVE  0 < computeTimeBucket(t, size)
<1>1. computeTimeBucket(t, size) \in Nat /\ t < computeTimeBucket(t, size) + size
  BY BucketOf
<1> QED BY <1>1

-----------------------------------------------------------------------------
(***************************************************************************)
(* What a look at the store answers.                                       *)
(***************************************************************************)
LEMMA MissingIsNoEntry == \A e \in Entry : e # Missing /\ e.book \in Nat /\ e.start \in Nat
<1> SUFFICES ASSUME NEW e \in Entry PROVE e # Missing /\ e.book \in Nat /\ e.start \in Nat
  OBVIOUS
<1>1. e.book \in Nat /\ e.start \in Nat
  BY DEF Entry, Time
<1>2. Missing.book = -1
  BY DEF Missing
<1> QED BY <1>1, <1>2

\* The types of a side, as the proofs below use them.
LEMMA SideTypes ==
  ASSUME HistoryType, NEW s \in Side
  PROVE  /\ ring[s] \in Seq(Entry) /\ Len(ring[s]) \in 0..Steps
         /\ \A i \in 1..Len(ring[s]) : ring[s][i] \in Entry /\ ring[s][i].start \in Nat
                                       /\ ring[s][i].book \in Nat
         /\ live[s] \in Entry /\ live[s].start \in Nat /\ live[s].book \in Nat
         /\ evicted[s] \in Int /\ evicted[s] >= -1
<1>1. ring[s] \in Seq(Entry) /\ Len(ring[s]) <= Steps /\ live[s] \in Entry /\ evicted[s] \in -1..MaxBook
  BY DEF HistoryType, TypeOK
<1>2. Len(ring[s]) \in Nat /\ \A i \in 1..Len(ring[s]) : ring[s][i] \in Entry
  BY <1>1
<1> QED BY <1>1, <1>2, MissingIsNoEntry

LEMMA PrevSpec ==
  ASSUME NEW entries \in Seq(Entry), NEW q \in Int
  PROVE  LET a == prev_upper_bound(entries, q)
             r == UpperBound(entries, q)
         IN  /\ r \in 0..Len(entries)
             /\ r = 0 => a = Missing
             /\ r # 0 => a = entries[r] /\ a \in Entry /\ a # Missing /\ a.start <= q
             /\ r < Len(entries) => q < entries[r + 1].start
<1> DEFINE r == UpperBound(entries, q)
<1>1. Len(entries) \in Nat /\ \A i \in 1..Len(entries) : entries[i] \in Entry
  OBVIOUS
<1>2. \A i \in 1..Len(entries) : entries[i].start \in Int /\ entries[i] # Missing
  BY <1>1, MissingIsNoEntry
<1>3. /\ r \in 0..Len(entries)
      /\ r > 0 => entries[r].start <= q
      /\ r < Len(entries) => q < entries[r + 1].start
  BY <1>1, <1>2, UpperBoundSpec
<1> HIDE DEF r
<1>4. prev_upper_bound(entries, q) = IF r = 0 THEN Missing ELSE entries[r]
  BY DEF prev_upper_bound, r
<1>5. r # 0 => r \in 1..Len(entries) /\ r > 0
  BY <1>1, <1>3
<1> QED BY <1>1, <1>2, <1>3, <1>4, <1>5 DEF r

\* The search answers with what covers the timestamp, and finds nothing only if
\* that was dropped.
LEMMA SearchAnswers ==
  ASSUME HistoryType, NEW s \in Side, RingInv(s), NEW q \in Int, q < live[s].start,
         NEW b \in Int, Covered(s, q, b)
  PROVE  LET a == prev_upper_bound(ring[s], q)
         IN  /\ a = Missing => b <= evicted[s]
             /\ a # Missing => b <= a.book
<1> DEFINE n == Len(ring[s])
           a == prev_upper_bound(ring[s], q)
           r == UpperBound(ring[s], q)
<1>1. /\ ring[s] \in Seq(Entry) /\ n \in Nat /\ evicted[s] \in Int /\ live[s].start \in Nat
      /\ \A i \in 1..n : ring[s][i].start \in Nat /\ ring[s][i].book \in Nat
  BY SideTypes
<1>2. /\ r \in 0..n
      /\ r = 0 => a = Missing
      /\ r # 0 => a = ring[s][r] /\ a # Missing
      /\ r < n => q < ring[s][r + 1].start
  BY <1>1, PrevSpec
<1>3. \A i, j \in 1..n : i < j =>
        ring[s][i].start < ring[s][j].start /\ ring[s][i].book < ring[s][j].book
  BY DEF RingInv
<1>4. \A i \in 1..n : evicted[s] < ring[s][i].book
  BY DEF RingInv
<1> HIDE DEF n, a, r
<1>5. CASE b <= evicted[s]
  <2>1. r # 0 => r \in 1..n
    BY <1>1, <1>2
  <2> QED BY <1>1, <1>2, <1>4, <1>5, <2>1 DEF a
<1>6. ASSUME NEW i \in 1..n, ring[s][i].start <= q, b <= ring[s][i].book
      PROVE  r # 0 /\ b <= a.book
  <2>1. i <= r
    <3> SUFFICES ASSUME r < i PROVE FALSE
      BY <1>1, <1>2
    <3>1. r + 1 \in 1..n /\ (r + 1 = i \/ r + 1 < i) /\ q < ring[s][r + 1].start
      BY <1>1, <1>2
    <3>2. ring[s][r + 1].start <= ring[s][i].start
      <4> DEFINE k == r + 1
      <4>1. k \in 1..n /\ (k = i \/ k < i)
        BY <3>1
      <4> HIDE DEF k
      <4>2. ring[s][k].start <= ring[s][i].start
        BY <1>1, <1>3, <4>1, SMTT(30)
      <4> QED BY <4>2 DEF k
    <3> QED BY <1>1, <1>6, <3>1, <3>2, SMTT(30)
  <2>2. r \in 1..n /\ (i = r \/ i < r)
    BY <1>1, <1>2, <2>1
  <2>3. ring[s][i].book <= ring[s][r].book
    BY <1>1, <1>3, <2>2
  <2> QED BY <1>1, <1>2, <1>6, <2>2, <2>3
<1>7. CASE live[s].start <= q
  BY <1>1, <1>7
<1> QED BY <1>2, <1>5, <1>6, <1>7 DEF Covered, n, a

LEMMA LiveAnswers ==
  ASSUME HistoryType, NEW s \in Side, RingInv(s), NEW q \in Int,
         NEW b \in Int, Covered(s, q, b)
  PROVE  b <= live[s].book
<1>1. /\ evicted[s] \in Int /\ live[s].book \in Nat
      /\ \A i \in 1..Len(ring[s]) : ring[s][i].book \in Nat
  BY SideTypes
<1>2. evicted[s] < live[s].book
  BY DEF RingInv
<1>3. \A i \in 1..Len(ring[s]) : ring[s][i].book <= live[s].book
  BY <1>1 DEF RingInv
<1> QED BY <1>1, <1>2, <1>3 DEF Covered

LEMMA EarliestAnswers ==
  ASSUME HistoryType, NEW s \in Side, RingInv(s), NEW q \in Int, BeforeEarliest(q, s),
         NEW b \in Int, Covered(s, q, b)
  PROVE  b <= evicted[s]
<1>1. /\ ring[s] \in Seq(Entry) /\ live[s].start \in Nat /\ Len(ring[s]) \in Nat
      /\ \A i \in 1..Len(ring[s]) : ring[s][i].start \in Nat
  BY SideTypes
<1>2. 1 \in 1..Len(ring[s]) /\ q < ring[s][1].start
  BY <1>1 DEF BeforeEarliest
<1>3. \A i \in 1..Len(ring[s]) : ring[s][1].start <= ring[s][i].start
  <2> TAKE i \in 1..Len(ring[s])
  <2>1. i = 1 \/ 1 < i
    BY <1>1
  <2>2. 1 < i => ring[s][1].start < ring[s][i].start
    BY <1>2 DEF RingInv
  <2> QED BY <1>1, <1>2, <2>1, <2>2
<1>4. ring[s][1].start <= live[s].start
  BY <1>1, <1>2 DEF RingInv
<1> QED BY <1>1, <1>2, <1>3, <1>4 DEF Covered

\* Whatever the search finds covers the timestamp, even where the ring is out of
\* order.
LEMMA FoundIsCovered ==
  ASSUME HistoryType, NEW s \in Side, NEW q \in Int
  PROVE  LET a == prev_upper_bound(ring[s], q)
         IN  /\ a \in Entry \cup {Missing}
             /\ a # Missing => a.start <= q /\ Covered(s, q, a.book)
<1> DEFINE a == prev_upper_bound(ring[s], q)
           r == UpperBound(ring[s], q)
<1>1. /\ ring[s] \in Seq(Entry) /\ Len(ring[s]) \in Nat
      /\ \A i \in 1..Len(ring[s]) : ring[s][i].book \in Nat
  BY SideTypes
<1>2. CASE a = Missing
  BY <1>2
<1>3. CASE a # Missing
  <2>1. /\ r \in 0..Len(ring[s]) /\ r # 0
        /\ a = ring[s][r] /\ a \in Entry /\ a.start <= q
    BY <1>1, <1>3, PrevSpec
  <2> HIDE DEF a, r
  <2>2. r \in 1..Len(ring[s])
    BY <1>1, <2>1
  <2>3. a.book <= ring[s][r].book
    BY <1>1, <2>1, <2>2
  <2>4. Covered(s, q, a.book)
    BY <2>1, <2>2, <2>3 DEF Covered
  <2> QED BY <2>1, <2>4 DEF a
<1> QED BY <1>2, <1>3

\* What get would answer now is covered now.
LEMMA AnswerCovered ==
  ASSUME HistoryType, NEW s \in Side, NEW q \in Int
  PROVE  /\ Answer(q, s).book \in -1..MaxBook
         /\ Covered(s, q, Answer(q, s).book)
<1> DEFINE a == prev_upper_bound(ring[s], q)
<1>1. /\ live[s] \in Entry /\ live[s].start \in Nat /\ live[s].book \in Nat
      /\ evicted[s] \in Int /\ evicted[s] >= -1
  BY SideTypes
<1>2. Missing.book = -1 /\ Missing.book <= evicted[s] /\ Missing.book \in -1..MaxBook
  BY <1>1, HistoryAssumption DEF Missing, HistoryAssumption
<1>3. \A e \in Entry : e.book \in -1..MaxBook
  BY DEF Entry
<1>4. CASE Answer(q, s) = Missing
  BY <1>2, <1>4 DEF Covered
<1>5. CASE Answer(q, s) = live[s] /\ q >= live[s].start
  BY <1>1, <1>3, <1>5 DEF Covered
<1>6. CASE Answer(q, s) = a /\ a # Missing
  <2>1. a \in Entry /\ Covered(s, q, a.book)
    BY <1>6, FoundIsCovered
  <2> HIDE DEF a
  <2> QED BY <1>3, <1>6, <2>1
<1> QED BY <1>4, <1>5, <1>6 DEF Answer

-----------------------------------------------------------------------------
(***************************************************************************)
(* Steps of the engine.                                                    *)
(***************************************************************************)
\* A push, seen from the side it is made on.
LEMMA PushRing ==
  ASSUME HistoryType, NEW s \in Side, push(s)
  PROVE  LET n == Len(ring[s])
         IN  /\ ring' \in [Side -> Seq(Entry)] /\ Len(ring'[s]) \in 1..Steps
             /\ evicted' \in [Side -> -1..MaxBook]
             /\ \A t \in Side \ {s} : ring'[t] = ring[t] /\ evicted'[t] = evicted[t]
             /\ \/ /\ evicted'[s] = evicted[s] /\ Len(ring'[s]) = n + 1
                   /\ ring'[s][n + 1] = live[s]
                   /\ \A i \in 1..n : ring'[s][i] = ring[s][i]
                \/ /\ n >= 1 /\ evicted'[s] = ring[s][1].book /\ Len(ring'[s]) = n
                   /\ ring'[s][n] = live[s]
                   /\ \A i \in 1..(n - 1) : ring'[s][i] = ring[s][i + 1]
<1> DEFINE n == Len(ring[s])
<1>1. /\ ring \in [Side -> Seq(Entry)] /\ ring[s] \in Seq(Entry) /\ n \in 0..Steps
      /\ live[s] \in Entry /\ evicted \in [Side -> -1..MaxBook] /\ Steps \in Nat \ {0}
  BY SideTypes, HistoryAssumption DEF HistoryType, TypeOK, HistoryAssumption
<1>2. CASE n # Steps
  <2>1. ring' = [ring EXCEPT ![s] = Append(ring[s], live[s])] /\ evicted' = evicted
    BY <1>2 DEF push
  <2>2. /\ Append(ring[s], live[s]) \in Seq(Entry) /\ Len(Append(ring[s], live[s])) = n + 1
        /\ Append(ring[s], live[s])[n + 1] = live[s]
        /\ \A i \in 1..n : Append(ring[s], live[s])[i] = ring[s][i]
    BY <1>1
  <2>3. /\ ring'[s] = Append(ring[s], live[s]) /\ ring' \in [Side -> Seq(Entry)]
        /\ \A t \in Side \ {s} : ring'[t] = ring[t]
    BY <1>1, <2>1, <2>2
  <2>4. n + 1 \in 1..Steps
    BY <1>1, <1>2
  <2> HIDE DEF n
  <2> QED BY <1>1, <2>1, <2>2, <2>3, <2>4 DEF n
<1>3. CASE n = Steps
  <2> DEFINE r == Append(Tail(ring[s]), live[s])
  <2>1. ring' = [ring EXCEPT ![s] = r] /\ evicted' = [evicted EXCEPT ![s] = ring[s][1].book]
    BY <1>3 DEF push
  <2>2. /\ n >= 1 /\ ring[s] # <<>> /\ ring[s][1] \in Entry
        /\ Tail(ring[s]) \in Seq(Entry) /\ Len(Tail(ring[s])) = n - 1
        /\ \A i \in 1..(n - 1) : Tail(ring[s])[i] = ring[s][i + 1]
    BY <1>1, <1>3
  <2>3. /\ r \in Seq(Entry) /\ Len(r) = n /\ r[n] = live[s]
        /\ \A i \in 1..(n - 1) : r[i] = ring[s][i + 1]
    BY <1>1, <2>2
  <2> HIDE DEF r
  <2>4. /\ ring'[s] = r /\ ring' \in [Side -> Seq(Entry)]
        /\ \A t \in Side \ {s} : ring'[t] = ring[t]
    BY <1>1, <2>1, <2>3
  <2>5. ring[s][1].book \in -1..MaxBook
    BY <2>2 DEF Entry
  <2>6. /\ evicted' \in [Side -> -1..MaxBook] /\ evicted'[s] = ring[s][1].book
        /\ \A t \in Side \ {s} : evicted'[t] = evicted[t]
    BY <1>1, <2>1, <2>5
  <2>7. n \in 1..Steps
    BY <1>1, <2>2
  <2> HIDE DEF n
  <2> QED BY <2>2, <2>3, <2>4, <2>6, <2>7 DEF n
<1> QED BY <1>2, <1>3

\* A push keeps the order of a ring whose books precede the live one, and what was
\* covered stays so.
LEMMA PushKeeps ==
  ASSUME HistoryType, NEW s \in Side, push(s), live' = live, RingInv(s),
         \A i \in 1..Len(ring[s]) :
           ring[s][i].start < live[s].start /\ ring[s][i].book < live[s].book,
         BeingWritten(s)', live[s].start < Start(engine)'
  PROVE  /\ RingInv(s)' /\ evicted[s] <= evicted'[s]
         /\ \A q \in Int, b \in Int : Covered(s, q, b) => Covered(s, q, b)'
<1> DEFINE n == Len(ring[s])
           m == Len(ring'[s])
<1>1. /\ n \in Nat /\ live[s].start \in Nat /\ live[s].book \in Nat /\ evicted[s] \in Int
      /\ \A i \in 1..n : ring[s][i].start \in Nat /\ ring[s][i].book \in Nat
  BY SideTypes
<1>2. /\ \A i, j \in 1..n : i < j =>
           ring[s][i].start < ring[s][j].start /\ ring[s][i].book < ring[s][j].book
      /\ \A i \in 1..n : evicted[s] < ring[s][i].book
      /\ evicted[s] < live[s].book
  BY DEF RingInv
<1>3. \A i \in 1..n : ring[s][i].start < live[s].start /\ ring[s][i].book < live[s].book
  OBVIOUS
<1>4. live'[s] = live[s]
  OBVIOUS
<1>5. CASE /\ evicted'[s] = evicted[s] /\ m = n + 1
           /\ ring'[s][n + 1] = live[s]
           /\ \A i \in 1..n : ring'[s][i] = ring[s][i]
  <2> HIDE DEF n, m
  <2>1. \A i \in 1..m : (i \in 1..n /\ ring'[s][i] = ring[s][i]) \/ (i = m /\ ring'[s][i] = live[s])
    BY <1>1, <1>5
  <2>2. \A i, j \in 1..m : i < j =>
          ring'[s][i].start < ring'[s][j].start /\ ring'[s][i].book < ring'[s][j].book
    <3> SUFFICES ASSUME NEW i \in 1..m, NEW j \in 1..m, i < j
                 PROVE  ring'[s][i].start < ring'[s][j].start /\ ring'[s][i].book < ring'[s][j].book
      OBVIOUS
    <3>1. i \in 1..n
      BY <1>1, <1>5
    <3> QED BY <1>2, <1>3, <2>1, <3>1
  <2>3. \A i \in 1..m : evicted'[s] < ring'[s][i].book
    BY <1>2, <1>5, <2>1
  <2>4. \A i \in 1..m : \/ ring'[s][i].start < live'[s].start /\ ring'[s][i].book < live'[s].book
                        \/ ring'[s][i] = live'[s] /\ i = m
    BY <1>3, <1>4, <2>1
  <2>5. RingInv(s)'
    BY <1>2, <1>4, <1>5, <2>2, <2>3, <2>4 DEF RingInv, m
  <2>6. ASSUME NEW q \in Int, NEW b \in Int, Covered(s, q, b) PROVE Covered(s, q, b)'
    <3>1. \A i \in 1..n : i \in 1..m
      BY <1>1, <1>5
    <3> QED BY <1>4, <1>5, <2>6, <3>1 DEF Covered, n, m
  <2> QED BY <1>1, <1>5, <2>5, <2>6
<1>6. CASE /\ n >= 1 /\ evicted'[s] = ring[s][1].book /\ m = n
           /\ ring'[s][n] = live[s]
           /\ \A i \in 1..(n - 1) : ring'[s][i] = ring[s][i + 1]
  <2> HIDE DEF n, m
  <2>1. \A i \in 1..m : \/ i + 1 \in 1..n /\ ring'[s][i] = ring[s][i + 1]
                        \/ i = m /\ ring'[s][i] = live[s]
    BY <1>1, <1>6
  <2>2. \A i, j \in 1..m : i < j =>
          ring'[s][i].start < ring'[s][j].start /\ ring'[s][i].book < ring'[s][j].book
    <3> SUFFICES ASSUME NEW i \in 1..m, NEW j \in 1..m, i < j
                 PROVE  ring'[s][i].start < ring'[s][j].start /\ ring'[s][i].book < ring'[s][j].book
      OBVIOUS
    <3>1. i + 1 \in 1..n /\ ring'[s][i] = ring[s][i + 1]
      BY <1>1, <1>6
    <3>2. CASE j = m
      BY <1>3, <1>6, <3>1, <3>2
    <3>3. CASE j # m
      <4> DEFINE k == i + 1
                 l == j + 1
      <4>1. k \in 1..n /\ l \in 1..n /\ k < l /\ ring'[s][j] = ring[s][l]
        BY <1>1, <1>6, <3>1, <3>3
      <4> HIDE DEF l
      <4>2. ring[s][k].start < ring[s][l].start /\ ring[s][k].book < ring[s][l].book
        <5> HIDE DEF k
        <5> QED BY <1>2, <4>1
      <4> QED BY <3>1, <4>1, <4>2
    <3> QED BY <3>2, <3>3
  <2>3. \A i \in 1..m : evicted'[s] < ring'[s][i].book
    <3> TAKE i \in 1..m
    <3>1. 1 \in 1..n
      BY <1>1, <1>6
    <3>2. CASE i = m /\ ring'[s][i] = live[s]
      BY <1>3, <1>6, <3>1, <3>2
    <3>3. CASE i + 1 \in 1..n /\ ring'[s][i] = ring[s][i + 1]
      <4> DEFINE k == i + 1
      <4>1. k \in 1..n /\ 1 < k /\ ring'[s][i] = ring[s][k]
        BY <1>1, <1>6, <3>3
      <4> HIDE DEF k
      <4> QED BY <1>2, <1>6, <3>1, <4>1
    <3> QED BY <2>1, <3>2, <3>3
  <2>4. \A i \in 1..m : \/ ring'[s][i].start < live'[s].start /\ ring'[s][i].book < live'[s].book
                        \/ ring'[s][i] = live'[s] /\ i = m
    BY <1>3, <1>4, <2>1
  <2>5. evicted[s] < evicted'[s] /\ evicted'[s] < live'[s].book
    <3>1. 1 \in 1..n
      BY <1>1, <1>6
    <3> QED BY <1>2, <1>3, <1>4, <1>6, <3>1
  <2>6. RingInv(s)'
    BY <1>4, <2>2, <2>3, <2>4, <2>5 DEF RingInv, m
  <2>7. ASSUME NEW q \in Int, NEW b \in Int, Covered(s, q, b) PROVE Covered(s, q, b)'
    <3>0. evicted'[s] \in Int
      BY <1>1, <1>6
    <3>1. CASE b <= evicted[s]
      BY <1>1, <2>5, <3>0, <3>1 DEF Covered
    <3>2. CASE live[s].start <= q /\ b <= live[s].book
      BY <1>4, <3>2 DEF Covered
    <3>3. ASSUME NEW i \in 1..n, ring[s][i].start <= q, b <= ring[s][i].book
          PROVE  Covered(s, q, b)'
      <4>1. CASE i = 1
        BY <1>6, <3>3, <4>1 DEF Covered
      <4>2. CASE i # 1
        <5> DEFINE j == i - 1
        <5>1. j \in 1..(n - 1) /\ j + 1 = i /\ j \in 1..m
          BY <1>1, <1>6, <4>2
        <5>2. ring'[s][j] = ring[s][i]
          BY <1>6, <5>1
        <5> HIDE DEF j
        <5> QED BY <3>3, <5>1, <5>2 DEF Covered, m
      <4> QED BY <4>1, <4>2
    <3> QED BY <2>7, <3>1, <3>2, <3>3 DEF Covered, n
  <2> QED BY <1>1, <1>6, <2>5, <2>6, <2>7
<1> QED BY <1>5, <1>6, PushRing

LEMMA EngineIs ==
  ASSUME HistoryType
  PROVE  /\ engine = Free \/ engine \in Applying
         /\ engine.pc = "free" <=> engine = Free
         /\ engine \in Applying => /\ engine.side \in Side /\ engine.book \in 1..MaxBook
                                   /\ engine.ts \in Time /\ engine.kind \in {"delta", "snapshot", "patch"}
BY DEF HistoryType, TypeOK, Applying, Free

LEMMA BooksOf ==
  ASSUME HistoryType
  PROVE  /\ Applied \in 0..MaxBook
         /\ \A s \in Side : live[s].book <= Applied
         /\ MaxTime \in Nat /\ Second \in Nat \ {0} /\ Minute \in Nat \ {0}
<1>1. \A s \in Side : live[s].book \in 0..MaxBook
  BY DEF HistoryType, TypeOK, Entry
<1>2. "Yes" \in Side /\ "No" \in Side
  BY DEF Side
<1>3. Applied \in 0..MaxBook /\ live["Yes"].book <= Applied /\ live["No"].book <= Applied
  BY <1>1, <1>2 DEF Applied
<1> QED BY <1>3, HistoryAssumption DEF HistoryAssumption, Side

LEMMA MessageType ==
  ASSUME HistoryType, Applied < MaxBook, NEW kind \in {"delta", "snapshot", "patch"},
         NEW s \in Side, NEW ts \in Time
  PROVE  /\ Message(kind, s, ts) \in Applying
         /\ Message(kind, s, ts).kind = kind /\ Message(kind, s, ts).side = s
         /\ Message(kind, s, ts).ts = ts /\ Message(kind, s, ts).book = Applied + 1
<1>1. Applied + 1 \in 1..MaxBook
  BY BooksOf, HistoryAssumption DEF HistoryAssumption
<1> QED BY <1>1 DEF Message, Applying

LEMMA StartType ==
  ASSUME HistoryType, NEW m \in Applying
  PROVE  Start(m) \in Time
<1>1. m.ts \in Time /\ m.ts \in Nat /\ m.side \in Side
  BY DEF Applying, Time
<1>2. computeTimeBucket(m.ts, Minute) \in 0..m.ts /\ computeTimeBucket(m.ts, Second) \in 0..m.ts
  BY <1>1, BooksOf, BucketOf
<1>3. live[m.side].start \in Time
  BY <1>1 DEF HistoryType, TypeOK, Entry
<1> QED BY <1>1, <1>2, <1>3, BooksOf DEF Start, Time

LEMMA BeginWriteTypes ==
  ASSUME HistoryType, NEW m \in Applying, NEW over, BeginWrite(m, over)
  PROVE  /\ ring' \in [Side -> Seq(Entry)] /\ \A s \in Side : Len(ring'[s]) <= Steps
         /\ evicted' \in [Side -> -1..MaxBook]
         /\ engine' = [m EXCEPT !.pc = "publish"] /\ engine' \in Applying
         /\ UNCHANGED <<now, live, invalid_state, last_valid_timestamp, rd>>
<1>1. /\ engine' = [m EXCEPT !.pc = "publish"] /\ engine' \in Applying
      /\ UNCHANGED <<now, live, invalid_state, last_valid_timestamp, rd>>
  BY DEF BeginWrite, Applying
<1>2. m.side \in Side
  BY DEF Applying
<1>3. CASE over
  <2>1. push(m.side)
    BY <1>3 DEF BeginWrite
  <2>2. /\ ring' \in [Side -> Seq(Entry)] /\ Len(ring'[m.side]) <= Steps
        /\ evicted' \in [Side -> -1..MaxBook]
        /\ \A t \in Side \ {m.side} : ring'[t] = ring[t]
    BY <1>2, <2>1, PushRing, HistoryAssumption DEF HistoryAssumption
  <2>3. \A t \in Side : Len(ring[t]) <= Steps
    BY DEF HistoryType, TypeOK
  <2> QED BY <1>1, <2>2, <2>3
<1>4. CASE ~over
  BY <1>1, <1>4 DEF BeginWrite, HistoryType, TypeOK
<1> QED BY <1>1, <1>3, <1>4

\* Messages that begin: what the three kinds have in common.
LEMMA EngineTypes == HistoryType /\ Engine => HistoryType'
<1> SUFFICES ASSUME HistoryType, Engine PROVE HistoryType'
  OBVIOUS
<1>0. /\ TypeOK /\ MaxTime \in Nat /\ Applied \in 0..MaxBook
      /\ now \in Time /\ exchange \in Time /\ Minute <= now /\ Minute <= exchange
      /\ now \in Nat /\ exchange \in Nat /\ Minute \in Nat /\ MaxPatch \in Nat
      /\ "Yes" \in Side /\ "No" \in Side
  BY BooksOf, HistoryAssumption DEF HistoryType, TypeOK, Side, Time, HistoryAssumption
\* The write of a live book begins.
<1>1. ASSUME NEW m \in Applying, NEW over, BeginWrite(m, over),
             exchange' \in Time, Minute <= exchange', patches' \in 0..MaxPatch
      PROVE  HistoryType'
  <2>1. /\ ring' \in [Side -> Seq(Entry)] /\ \A s \in Side : Len(ring'[s]) <= Steps
        /\ evicted' \in [Side -> -1..MaxBook] /\ engine' \in Applying
        /\ UNCHANGED <<now, live, invalid_state, last_valid_timestamp, rd>>
    BY <1>1, BeginWriteTypes
  <2>2. \A s \in Side : ring'[s] \in Seq(Entry)
    BY <2>1
  <2> QED BY <1>0, <1>1, <2>1, <2>2 DEF HistoryType, TypeOK, NotFromTheFuture, Answered
\* Only flags and the engine's position change.
<1>2. ASSUME invalid_state' \in BOOLEAN, last_valid_timestamp' \in Time,
             engine' \in {Free} \cup Applying, live' \in [Side -> Entry],
             UNCHANGED <<now, exchange, patches, ring, evicted, rd>>
      PROVE  HistoryType'
  BY <1>0, <1>2 DEF HistoryType, TypeOK, NotFromTheFuture, Answered
<1>3. CASE \E ts \in Time : tryPatch(ts)
  <2>1. PICK ts \in Time : tryPatch(ts)
    BY <1>3
  <2>2. Message("patch", "Yes", ts) \in Applying
    BY <1>0, <2>1, MessageType DEF tryPatch, Take
  <2>3. patches' \in 0..MaxPatch /\ exchange' = exchange
    BY <1>0, <2>1 DEF tryPatch, TypeOK
  <2> QED BY <1>0, <1>1, <2>1, <2>2, <2>3 DEF tryPatch
<1>4. CASE \E ts \in Time, s \in Side : recordOrderbookDelta(s, ts)
  <2>1. PICK ts \in Time, s \in Side : recordOrderbookDelta(s, ts)
    BY <1>4
  <2>2. Message("delta", s, ts) \in Applying
    BY <1>0, <2>1, MessageType DEF recordOrderbookDelta, Take
  <2>3. patches' \in 0..MaxPatch /\ exchange' \in Time /\ Minute <= exchange'
    BY <1>0, <2>1 DEF recordOrderbookDelta, TypeOK, Time
  <2> QED BY <1>1, <2>1, <2>2, <2>3 DEF recordOrderbookDelta
<1>5. CASE recordOrderbookSnapshot
  <2>1. Message("snapshot", "Yes", now) \in Applying
    BY <1>0, <1>5, MessageType DEF recordOrderbookSnapshot, Take
  <2>2. patches' \in 0..MaxPatch /\ exchange' = exchange
    BY <1>0, <1>5 DEF recordOrderbookSnapshot, TypeOK
  <2> QED BY <1>0, <1>1, <1>5, <2>1, <2>2 DEF recordOrderbookSnapshot
<1>6. CASE Mismatch
  <2>1. /\ invalid_state' \in BOOLEAN
        /\ UNCHANGED <<now, exchange, patches, live, ring, last_valid_timestamp, engine, evicted, rd>>
    BY <1>6 DEF Mismatch
  <2> QED BY <1>0, <1>2, <2>1 DEF TypeOK
<1>7. CASE WriteNo
  <2>1. engine \in Applying
    BY <1>7, EngineIs DEF WriteNo, Free
  <2>2. [engine EXCEPT !.side = "No"] \in Applying
    BY <1>0, <2>1 DEF Applying
  <2>3. patches' \in 0..MaxPatch /\ exchange' = exchange
    BY <1>0, <1>7 DEF WriteNo, TypeOK
  <2> QED BY <1>0, <1>1, <1>7, <2>2, <2>3 DEF WriteNo
<1>8. CASE Publish
  <2>1. engine \in Applying
    BY <1>8, EngineIs DEF Publish, Free
  <2>2. Start(engine) \in Time /\ engine.book \in 0..MaxBook /\ engine.side \in Side
    BY <2>1, StartType DEF Applying
  <2>3. live' \in [Side -> Entry]
    BY <1>0, <1>8, <2>2 DEF Publish, TypeOK, Entry
  <2>4. engine' \in {Free} \cup Applying
    <3>1. \A pc \in {"flag", "enter", "stamp"} : [engine EXCEPT !.pc = pc] \in Applying
      BY <2>1 DEF Applying
    <3>2. engine' \in {[engine EXCEPT !.pc = "flag"], [engine EXCEPT !.pc = "enter"],
                       [engine EXCEPT !.pc = "stamp"], Free}
      BY <1>8 DEF Publish
    <3> QED BY <3>1, <3>2
  <2> QED BY <1>0, <1>2, <1>8, <2>3, <2>4 DEF Publish, TypeOK
<1>9. CASE Flag \/ Stamp \/ Clear
  <2>1. engine \in Applying
    BY <1>9, EngineIs DEF Flag, Stamp, Clear, Free
  <2>2. engine' \in {Free} \cup Applying /\ engine.ts \in Time
    BY <1>9, <2>1 DEF Flag, Stamp, Clear, Applying
  <2>3. /\ invalid_state' \in BOOLEAN /\ last_valid_timestamp' \in Time
        /\ UNCHANGED <<now, exchange, patches, live, ring, evicted, rd>>
    BY <1>0, <1>9, <2>2 DEF Flag, Stamp, Clear, TypeOK
  <2> QED BY <1>0, <1>2, <2>2, <2>3 DEF TypeOK
<1> QED BY <1>3, <1>4, <1>5, <1>6, <1>7, <1>8, <1>9 DEF Engine

\* The books of a side that is not being written are all before the live one.
LEMMA BeforeLive ==
  ASSUME NEW s \in Side, RingInv(s), ~BeingWritten(s)
  PROVE  \A i \in 1..Len(ring[s]) :
           ring[s][i].start < live[s].start /\ ring[s][i].book < live[s].book
BY DEF RingInv

\* When the write of a later book begins, the rings stay in order, and nothing
\* that was covered is lost.
LEMMA BeginWriteKeeps ==
  ASSUME HistoryType, \A s \in Side : RingInv(s), engine.pc # "publish",
         NEW m \in Applying, NEW over, BeginWrite(m, over),
         over => live[m.side].start < Start(m)
  PROVE  /\ Start(engine') = Start(m) /\ live' = live /\ Start(engine)' = Start(m)
         /\ over => \E i \in 1..Len(ring'[m.side]) : ring'[m.side][i] = live[m.side]
         /\ \A s \in Side :
              /\ RingInv(s)' /\ evicted[s] <= evicted'[s]
              /\ \A q \in Int, b \in Int : Covered(s, q, b) => Covered(s, q, b)'
<1>1. /\ engine' = [m EXCEPT !.pc = "publish"] /\ live' = live /\ m.side \in Side
      /\ engine'.kind = m.kind /\ engine'.side = m.side /\ engine'.ts = m.ts /\ engine'.pc = "publish"
  BY BeginWriteTypes DEF Applying
<1>2. Start(engine') = Start(m)
  BY <1>1 DEF Start
<1>3. Start(engine)' = Start(m)
  BY <1>1 DEF Start, SecondOver
<1>4. ASSUME NEW s \in Side, ring'[s] = ring[s], evicted'[s] = evicted[s]
      PROVE  /\ RingInv(s)' /\ evicted[s] <= evicted'[s]
             /\ \A q \in Int, b \in Int : Covered(s, q, b) => Covered(s, q, b)'
  <2>1. RingInv(s) /\ ~BeingWritten(s) /\ evicted[s] \in Int
    BY SideTypes DEF BeingWritten
  <2>2. RingInv(s)'
    BY <1>1, <1>4, <2>1, BeforeLive DEF RingInv
  <2> QED BY <1>1, <1>4, <2>1, <2>2 DEF Covered
<1>5. CASE over
  <2>1. push(m.side)
    BY <1>5 DEF BeginWrite
  <2>2. \A s \in Side \ {m.side} : ring'[s] = ring[s] /\ evicted'[s] = evicted[s]
    BY <1>1, <2>1, PushRing
  <2>3. ~BeingWritten(m.side) /\ RingInv(m.side) /\ BeingWritten(m.side)'
    BY <1>1 DEF BeingWritten
  <2>4. /\ RingInv(m.side)' /\ evicted[m.side] <= evicted'[m.side]
        /\ \A q \in Int, b \in Int : Covered(m.side, q, b) => Covered(m.side, q, b)'
    BY <1>1, <1>3, <1>5, <2>1, <2>3, BeforeLive, PushKeeps
  <2>5. ASSUME NEW s \in Side
        PROVE  /\ RingInv(s)' /\ evicted[s] <= evicted'[s]
               /\ \A q \in Int, b \in Int : Covered(s, q, b) => Covered(s, q, b)'
    <3>1. CASE s = m.side
      BY <2>4, <3>1, Zenon
    <3>2. CASE s # m.side
      BY <1>4, <2>2, <3>2
    <3> QED BY <3>1, <3>2
  <2>6. Len(ring[m.side]) \in Nat
    BY <1>1, SideTypes
  <2>7. \E i \in 1..Len(ring'[m.side]) : ring'[m.side][i] = live[m.side]
    <3> DEFINE k == Len(ring'[m.side])
    <3>1. k \in Nat \ {0} /\ ring'[m.side][k] = live[m.side]
      BY <1>1, <2>1, <2>6, PushRing, HistoryAssumption, SMTT(30) DEF HistoryAssumption
    <3> HIDE DEF k
    <3>2. k \in 1..k
      BY <3>1
    <3> QED BY <3>1, <3>2 DEF k
  <2> QED BY <1>1, <1>2, <1>3, <2>5, <2>7
<1>6. CASE ~over
  <2>1. UNCHANGED <<ring, evicted>>
    BY <1>6 DEF BeginWrite
  <2> QED BY <1>1, <1>2, <1>3, <1>4, <1>6, <2>1
<1> QED BY <1>5, <1>6

\* The empty book is over when the first snapshot arrives.
LEMMA EmptyIsOver ==
  ASSUME NEW s \in Side, live[s].start = 0, NEW ts \in Nat, Minute <= ts,
         NEW size \in {Second, Minute}
  PROVE  SecondOver(s, ts, size)
<1>1. size \in Nat \ {0} /\ Second < ts
  BY HistoryAssumption DEF HistoryAssumption
<1>2. computeTimeBucket(0, size) = 0
  BY <1>1, BucketOf
<1> QED BY <1>1, <1>2, HistoryAssumption DEF SecondOver, HistoryAssumption

\* What the engine does before the first patch.
LEMMA EngineKeeps ==
  ASSUME HistoryType, StoreInv, patches = 0, patches' = 0, Engine
  PROVE  /\ StoreInv'
         /\ \A s \in Side :
              /\ evicted[s] <= evicted'[s] /\ live[s].start <= live'[s].start
              /\ \A q \in Int, b \in Int : Covered(s, q, b) => Covered(s, q, b)'
<1>0. /\ \A s \in Side : /\ RingInv(s) /\ live[s].start \in Nat /\ live[s].book \in Nat
                         /\ live[s] \in Entry /\ evicted[s] \in Int
      /\ EngineInv /\ Applied \in Nat /\ \A s \in Side : live[s].book <= Applied
      /\ now \in Time /\ now \in Nat /\ Minute \in Nat \ {0} /\ Second \in Nat \ {0}
      /\ Minute <= now /\ Minute <= exchange /\ Time \subseteq Nat
      /\ "Yes" \in Side /\ "No" \in Side /\ \A s \in Side : s = "Yes" \/ s = "No"
      /\ exchange \in Nat
  BY SideTypes, BooksOf DEF StoreInv, HistoryType, TypeOK, Side, Time
\* A write begins.
<1>1. ASSUME NEW m \in Applying, NEW over, BeginWrite(m, over), engine.pc # "publish",
             over => live[m.side].start < Start(m), ~over => live[m.side].start = Start(m),
             live[m.side].start <= Start(m), live[m.side].book < m.book,
             m.kind # "patch", m.kind = "snapshot" => Minute <= m.ts,
             m.kind = "snapshot" /\ m.side = "Yes" => live["No"] = [book |-> 0, start |-> 0]
      PROVE  /\ StoreInv'
             /\ \A s \in Side :
                  /\ evicted[s] <= evicted'[s] /\ live[s].start <= live'[s].start
                  /\ \A q \in Int, b \in Int : Covered(s, q, b) => Covered(s, q, b)'
  <2>1. /\ engine' = [m EXCEPT !.pc = "publish"] /\ live' = live
        /\ engine'.kind = m.kind /\ engine'.side = m.side /\ engine'.ts = m.ts
        /\ engine'.book = m.book /\ engine'.pc = "publish"
    BY <1>1, BeginWriteTypes DEF Applying
  <2>2. /\ Start(engine)' = Start(m)
        /\ over => \E i \in 1..Len(ring'[m.side]) : ring'[m.side][i] = live[m.side]
        /\ \A s \in Side :
             /\ RingInv(s)' /\ evicted[s] <= evicted'[s]
             /\ \A q \in Int, b \in Int : Covered(s, q, b) => Covered(s, q, b)'
    BY <1>0, <1>1, BeginWriteKeeps
  <2>3. EngineInv'
    BY <1>0, <1>1, <2>1, <2>2 DEF EngineInv
  <2> QED BY <1>0, <2>1, <2>2, <2>3 DEF StoreInv
\* Nothing is written.
<1>2. ASSUME UNCHANGED <<live, ring, evicted>>, engine.pc # "publish",
             engine'.pc \notin {"publish", "enter"},
             engine'.pc = "free" \/ (engine'.kind = engine.kind /\ engine.pc # "free")
      PROVE  /\ StoreInv'
             /\ \A s \in Side :
                  /\ evicted[s] <= evicted'[s] /\ live[s].start <= live'[s].start
                  /\ \A q \in Int, b \in Int : Covered(s, q, b) => Covered(s, q, b)'
  <2>1. EngineInv'
    BY <1>0, <1>2 DEF EngineInv
  <2>2. ASSUME NEW s \in Side PROVE RingInv(s)'
    <3>1. ~BeingWritten(s)
      BY <1>2 DEF BeingWritten
    <3> QED BY <1>0, <1>2, <3>1, BeforeLive DEF RingInv
  <2>3. \A s \in Side, q \in Int, b \in Int : Covered(s, q, b) => Covered(s, q, b)'
    BY <1>2 DEF Covered
  <2> QED BY <1>0, <1>2, <2>1, <2>2, <2>3 DEF StoreInv
<1>3. CASE \E ts \in Time : tryPatch(ts)
  BY <1>3 DEF tryPatch
<1>4. CASE \E ts \in Time, s \in Side : recordOrderbookDelta(s, ts)
  <2>1. PICK ts \in Time, s \in Side : recordOrderbookDelta(s, ts)
    BY <1>4
  <2> DEFINE m == Message("delta", s, ts)
             over == SecondOver(s, ts, Second)
  <2>2. /\ engine = Free /\ Applied < MaxBook /\ BeginWrite(m, over)
    BY <2>1 DEF recordOrderbookDelta, Take
  <2>3. m \in Applying /\ m.kind = "delta" /\ m.side = s /\ m.ts = ts /\ m.book = Applied + 1
    BY <2>2, MessageType
  <2> HIDE DEF m
  <2>4. engine.pc # "publish"
    BY <2>2 DEF Free
  <2>5. Start(m) = IF over THEN computeTimeBucket(ts, Second) ELSE live[s].start
    BY <2>3 DEF Start
  <2>6. over => live[s].start < computeTimeBucket(ts, Second)
    <3>1. ts \in Nat /\ live[s].start \in Nat
      BY <1>0
    <3> QED BY <1>0, <3>1, NextBucket DEF SecondOver
  <2> HIDE DEF over
  <2>7. /\ over => live[s].start < Start(m)
        /\ live[s].start <= Start(m)
        /\ ~over => live[s].start = Start(m)
    <3>1. CASE over
      <4>1. computeTimeBucket(ts, Second) \in Nat
        BY <1>0, BucketOf
      <4> QED BY <1>0, <2>5, <2>6, <3>1, <4>1
    <3>2. CASE ~over
      BY <1>0, <2>5, <3>2
    <3> QED BY <3>1, <3>2
  <2>8. live[s].book < m.book
    BY <1>0, <2>3
  <2> QED BY <1>1, <2>2, <2>3, <2>4, <2>7, <2>8
<1>5. CASE recordOrderbookSnapshot
  <2> DEFINE m == Message("snapshot", "Yes", now)
             over == SecondOver("Yes", now, Second)
  <2>1. over
    BY <1>0, <1>5, EmptyIsOver DEF recordOrderbookSnapshot, Take, EngineInv
  <2>2. /\ engine = Free /\ Applied < MaxBook /\ Applied = 0 /\ BeginWrite(m, over)
    BY <1>5 DEF recordOrderbookSnapshot, Take
  <2>3. m \in Applying /\ m.kind = "snapshot" /\ m.side = "Yes" /\ m.ts = now /\ m.book = Applied + 1
    BY <1>0, <2>2, MessageType
  <2> HIDE DEF m, over
  <2>4. engine.pc # "publish"
    BY <2>2 DEF Free
  <2>5. \A s \in Side : live[s].book = 0 /\ live[s].start = 0
    BY <1>0, <2>2 DEF EngineInv
  <2>6. live["No"] = [book |-> 0, start |-> 0]
    BY <1>0, <2>5 DEF Entry
  <2>7. 0 < Start(m)
    BY <1>0, <2>3, FirstBucket DEF Start
  <2>8. /\ live[m.side].start < Start(m) /\ live[m.side].start <= Start(m)
        /\ live[m.side].book < m.book /\ Minute <= m.ts /\ m.kind # "patch"
    <3>1. Start(m) \in Nat
      BY <1>0, <2>3, StartType
    <3> QED BY <1>0, <2>2, <2>3, <2>5, <2>7, <3>1
  <2> QED BY <1>1, <2>1, <2>2, <2>3, <2>4, <2>6, <2>8
<1>6. CASE Mismatch
  <2>1. /\ UNCHANGED <<live, ring, evicted>>
        /\ engine' = engine /\ engine.pc = "free"
    BY <1>6 DEF Mismatch, Free
  <2>2. engine'.pc = "free" /\ engine.pc # "publish"
    BY <2>1
  <2> QED BY <1>2, <2>1, <2>2
<1>7. CASE WriteNo
  <2> DEFINE m == [engine EXCEPT !.side = "No"]
             over == engine.kind = "snapshot" /\ SecondOver("No", engine.ts, Minute)
  <2>1. engine.pc = "enter" /\ BeginWrite(m, over)
    BY <1>7 DEF WriteNo
  <2>2. engine \in Applying /\ engine.ts \in Nat /\ engine.book \in 1..MaxBook
    BY <1>0, <2>1, EngineIs DEF Free
  <2>3. m \in Applying /\ m.kind = "snapshot" /\ m.side = "No" /\ m.ts = engine.ts /\ m.book = engine.book
    BY <1>0, <2>1, <2>2 DEF EngineInv, Applying
  <2> HIDE DEF m, over
  <2>4. Minute <= m.ts /\ live["No"].book = 0 /\ live["No"].start = 0
    BY <1>0, <2>1, <2>3 DEF EngineInv
  <2>5. 0 < Start(m)
    BY <1>0, <2>2, <2>3, <2>4, FirstBucket DEF Start
  <2>6. over
    BY <1>0, <2>1, <2>2, <2>3, <2>4, EmptyIsOver DEF over, m
  <2>7. /\ live[m.side].start < Start(m) /\ live[m.side].start <= Start(m)
        /\ live[m.side].book < m.book /\ m.kind # "patch" /\ m.side # "Yes"
    <3>1. Start(m) \in Nat
      BY <1>0, <2>3, StartType
    <3> QED BY <1>0, <2>2, <2>3, <2>4, <2>5, <3>1
  <2>8. engine.pc # "publish"
    BY <2>1
  <2> QED BY <1>1, <2>1, <2>3, <2>4, <2>6, <2>7, <2>8
<1>8. CASE Publish
  <2> DEFINE s == engine.side
             entry == [book |-> engine.book, start |-> Start(engine)]
  <2>1. /\ engine.pc = "publish" /\ engine \in Applying /\ s \in Side
        /\ engine.book \in 1..MaxBook /\ engine.kind \in {"delta", "snapshot"}
    BY <1>0, <1>8, EngineIs DEF Publish, Free, EngineInv
  <2>2. /\ live' = [live EXCEPT ![s] = entry] /\ UNCHANGED <<ring, evicted>>
        /\ engine' = IF engine.kind = "delta" THEN [engine EXCEPT !.pc = "flag"]
                     ELSE IF s = "Yes" THEN [engine EXCEPT !.pc = "enter"] ELSE Free
    BY <1>0, <1>8, <2>1 DEF Publish
  <2>3. /\ live[s].start <= Start(engine) /\ live[s].book < engine.book /\ Start(engine) \in Nat
    BY <1>0, <2>1, StartType DEF EngineInv
  <2>4. /\ live'[s].book = engine.book /\ live'[s].start = Start(engine)
        /\ \A t \in Side \ {s} : live'[t] = live[t]
    BY <2>1, <2>2 DEF HistoryType, TypeOK
  <2> HIDE DEF s
  <2>5. EngineInv'
    <3>1. \A t \in Side : live'[t].book = 0 => live'[t].start = 0
      BY <1>0, <2>1, <2>4 DEF EngineInv
    <3>2. CASE engine.kind = "delta"
      <4>1. engine'.pc = "flag" /\ engine'.kind = "delta"
        BY <2>1, <2>2, <3>2 DEF Applying
      <4> QED BY <3>1, <4>1 DEF EngineInv
    <3>3. CASE engine.kind = "snapshot" /\ s = "Yes"
      <4>1. engine'.pc = "enter" /\ engine'.kind = "snapshot" /\ engine'.ts = engine.ts
        BY <2>1, <2>2, <3>3 DEF Applying
      <4>2. Minute <= engine.ts /\ live["No"] = [book |-> 0, start |-> 0]
        BY <1>0, <2>1, <3>3 DEF EngineInv, s
      <4>3. live'["No"] = live["No"]
        BY <1>0, <2>4, <3>3
      <4> QED BY <3>1, <4>1, <4>2, <4>3 DEF EngineInv
    <3>4. CASE engine.kind = "snapshot" /\ s # "Yes"
      <4>1. engine'.pc = "free"
        BY <2>2, <3>4 DEF Free
      <4> QED BY <3>1, <4>1 DEF EngineInv
    <3> QED BY <2>1, <3>2, <3>3, <3>4
  <2>6. ASSUME NEW t \in Side PROVE RingInv(t)'
    <3>1. ring'[t] = ring[t] /\ evicted'[t] = evicted[t]
      BY <2>2
    <3>2. CASE t = s
      <4>1. \A i \in 1..Len(ring[t]) :
              ring[t][i].start < Start(engine) /\ ring[t][i].book < engine.book
        <5> TAKE i \in 1..Len(ring[t])
        <5>1. ring[t][i].start \in Nat /\ ring[t][i].book \in Nat
          BY SideTypes
        <5>2. \/ ring[t][i].start < live[t].start /\ ring[t][i].book < live[t].book
              \/ ring[t][i] = live[t] /\ live[t].start < Start(engine)
          BY <1>0 DEF RingInv
        <5>3. /\ live[t].start <= Start(engine) /\ live[t].book < engine.book
              /\ live[t].start \in Nat /\ live[t].book \in Nat
          BY <1>0, <2>3, <3>2
        <5> QED BY <2>1, <2>3, <5>1, <5>2, <5>3
      <4>2. evicted[t] < engine.book
        BY <1>0, <2>1, <2>3, <3>2 DEF RingInv
      <4> QED BY <1>0, <2>4, <3>1, <3>2, <4>1, <4>2 DEF RingInv
    <3>3. CASE t # s
      <4>1. ~BeingWritten(t) /\ live'[t] = live[t]
        BY <2>1, <2>4, <3>3 DEF BeingWritten, s
      <4> QED BY <1>0, <3>1, <4>1, BeforeLive DEF RingInv
    <3> QED BY <3>2, <3>3
  <2>7. ASSUME NEW t \in Side
        PROVE  /\ evicted[t] <= evicted'[t] /\ live[t].start <= live'[t].start
               /\ live[t].book <= live'[t].book
    BY <1>0, <2>1, <2>2, <2>3, <2>4
  <2>8. ASSUME NEW t \in Side, NEW q \in Int, NEW b \in Int, Covered(t, q, b)
        PROVE  Covered(t, q, b)'
    <3>1. ring'[t] = ring[t] /\ evicted'[t] = evicted[t]
      BY <2>2
    <3>2. CASE t # s
      BY <2>4, <2>8, <3>1, <3>2 DEF Covered
    <3>3. CASE t = s
      <4>1. CASE Start(engine) = live[s].start
        BY <1>0, <2>1, <2>3, <2>4, <2>8, <3>1, <3>3, <4>1 DEF Covered
      <4>2. CASE Start(engine) # live[s].start
        <5>1. PICK i \in 1..Len(ring[s]) : ring[s][i] = live[s]
          BY <1>0, <2>1, <4>2 DEF EngineInv, s
        <5> QED BY <2>8, <3>1, <3>3, <5>1 DEF Covered
      <4> QED BY <4>1, <4>2
    <3> QED BY <3>2, <3>3
  <2> QED BY <2>5, <2>6, <2>7, <2>8 DEF StoreInv
<1>9. CASE Flag \/ Stamp \/ Clear
  <2>1. engine \in Applying /\ engine.pc # "publish" /\ engine.pc # "free"
    BY <1>9, EngineIs DEF Flag, Stamp, Clear, Free
  <2>2. UNCHANGED <<live, ring, evicted>>
    BY <1>9 DEF Flag, Stamp, Clear
  <2>3. engine' \in {Free, [engine EXCEPT !.pc = "stamp"], [engine EXCEPT !.pc = "clear"]}
    BY <1>9 DEF Flag, Stamp, Clear
  <2>4. \A pc \in {"stamp", "clear"} :
          [engine EXCEPT !.pc = pc].pc = pc /\ [engine EXCEPT !.pc = pc].kind = engine.kind
    BY <2>1 DEF Applying
  <2>5. /\ engine'.pc \notin {"publish", "enter"}
        /\ engine'.pc = "free" \/ engine'.kind = engine.kind
    <3>1. CASE engine' = Free
      BY <3>1 DEF Free
    <3>2. ASSUME NEW pc \in {"stamp", "clear"}, engine' = [engine EXCEPT !.pc = pc]
          PROVE  /\ engine'.pc \notin {"publish", "enter"}
                 /\ engine'.kind = engine.kind
      <4>1. engine'.pc = pc /\ engine'.kind = engine.kind
        BY <2>4, <3>2
      <4> QED BY <4>1
    <3> QED BY <2>3, <3>1, <3>2
  <2> QED BY <1>2, <2>1, <2>2, <2>5
<1> QED BY <1>3, <1>4, <1>5, <1>6, <1>7, <1>8, <1>9 DEF Engine

-----------------------------------------------------------------------------
(***************************************************************************)
(* Steps of the reader.                                                    *)
(***************************************************************************)
LEMMA ReadingIs ==
  ASSUME HistoryType
  PROVE  /\ rd.pc = "idle" <=> rd = Idle
         /\ rd.pc # "idle" =>
              /\ rd \in Reading /\ rd.pc \in ReaderPc /\ rd.side \in Side
              /\ rd.query \in Time /\ rd.query \in Int
              /\ rd.result \in Entry \cup {Missing}
              /\ rd.known \in -1..MaxBook /\ rd.known \in Int
<1>1. rd = Idle \/ rd \in Reading
  BY DEF HistoryType
<1>2. Time \subseteq Int
  BY BooksOf DEF Time
<1>3. CASE rd = Idle
  BY <1>3 DEF Idle
<1>4. CASE rd \in Reading
  <2>1. rd.pc \in ReaderPc /\ rd.pc # "idle" /\ Idle.pc = "idle"
    BY <1>4 DEF Reading, ReaderPc, Idle
  <2>2. /\ rd.side \in Side /\ rd.query \in Time /\ rd.result \in Entry \cup {Missing}
        /\ rd.known \in -1..MaxBook
    BY <1>4 DEF Reading
  <2>3. rd # Idle
    BY <2>1
  <2>4. rd.query \in Int
    BY <1>2, <2>2
  <2>5. rd.known \in Int
    BY <2>2, HistoryAssumption DEF HistoryAssumption
  <2> QED BY <1>4, <2>1, <2>2, <2>3, <2>4, <2>5
<1> QED BY <1>1, <1>3, <1>4

\* A reader's step leaves the store alone.
LEMMA StepKeeps ==
  ASSUME HistoryType, UNCHANGED <<now, exchange, patches, storeVars>>,
         rd' \in {Idle} \cup Reading, NotFromTheFuture'
  PROVE  /\ HistoryType' /\ (StoreInv => StoreInv')
         /\ \A s \in Side, q \in Int, b \in Int : Covered(s, q, b)' <=> Covered(s, q, b)
<1>1. /\ now' = now /\ exchange' = exchange /\ patches' = patches /\ live' = live
      /\ ring' = ring /\ invalid_state' = invalid_state /\ engine' = engine
      /\ last_valid_timestamp' = last_valid_timestamp /\ evicted' = evicted
  BY DEF storeVars
<1>2. rd'.pc \in {"idle"} \cup ReaderPc
  BY DEF Reading, Idle
<1>3. HistoryType'
  BY <1>1, <1>2 DEF HistoryType, TypeOK
<1>4. StoreInv => StoreInv'
  <2>1. EngineInv => EngineInv'
    BY <1>1 DEF EngineInv, Start, SecondOver
  <2>2. \A s \in Side : RingInv(s) => RingInv(s)'
    BY <1>1 DEF RingInv, BeingWritten, Start, SecondOver
  <2> QED BY <2>1, <2>2 DEF StoreInv
<1>5. \A s \in Side, q \in Int, b \in Int : Covered(s, q, b)' <=> Covered(s, q, b)
  BY <1>1 DEF Covered
<1> QED BY <1>3, <1>4, <1>5

LEMMA CallKeeps ==
  ASSUME HistoryType, UNCHANGED <<now, exchange, patches, storeVars>>,
         NEW q \in Time, NEW s \in Side, NEW known \in -1..MaxBook, Covered(s, q, known),
         rd' = Asked(q, s, known)
  PROVE  /\ HistoryType' /\ ReaderInv' /\ (StoreInv => StoreInv')
         /\ \A b \in Int : Covered(s, q, b) => Owes(b)'
<1>1. q \in Int /\ known \in Int
  BY BooksOf DEF Time
<1>2. /\ rd' \in Reading /\ rd'.pc = "invalid" /\ rd'.query = q /\ rd'.side = s
      /\ rd'.known = known
  BY DEF Asked, Reading, ReaderPc
<1>3. NotFromTheFuture'
  BY <1>2 DEF NotFromTheFuture, Answered
<1>4. /\ HistoryType' /\ (StoreInv => StoreInv')
      /\ \A b \in Int : Covered(s, q, b)' <=> Covered(s, q, b)
  BY <1>1, <1>2, <1>3, StepKeeps
<1>5. ASSUME NEW b \in Int, Covered(s, q, b) PROVE Owes(b)'
  <2>1. Covered(s, q, b)'
    BY <1>4, <1>5
  <2>2. Covered(rd.side, rd.query, b)'
    BY <1>2, <2>1 DEF Covered
  <2> QED BY <1>2, <2>2 DEF Owes, Answered
<1>6. Owes(rd.known)'
  <2>1. Owes(known)'
    BY <1>1, <1>5
  <2> QED BY <1>2, <2>1 DEF Owes, Covered
<1>7. ReaderInv'
  BY <1>2, <1>6 DEF ReaderInv, Answered
<1> QED BY <1>4, <1>5, <1>7

LEMMA IdleKeeps ==
  ASSUME HistoryType, UNCHANGED <<now, exchange, patches, storeVars>>, rd' = Idle
  PROVE  HistoryType' /\ ReaderInv' /\ (StoreInv => StoreInv')
<1>1. rd'.pc = "idle"
  BY DEF Idle
<1>2. NotFromTheFuture' /\ ReaderInv'
  BY <1>1 DEF NotFromTheFuture, ReaderInv, Answered
<1> QED BY <1>2, StepKeeps

\* What the steps inside a call do to the call.
LEMMA GettingKeeps ==
  ASSUME HistoryType, Getting
  PROVE  /\ HistoryType' /\ (StoreInv => StoreInv')
         /\ UNCHANGED <<now, exchange, patches, storeVars>> /\ rd.pc # "idle"
         /\ rd' \in Reading /\ rd'.side = rd.side /\ rd'.query = rd.query
         /\ StoreInv /\ ReaderInv =>
              ReaderInv' /\ \A b \in Int : Owes(b) => Owes(b)'
<1> DEFINE Goal ==
      /\ HistoryType' /\ (StoreInv => StoreInv')
      /\ UNCHANGED <<now, exchange, patches, storeVars>> /\ rd.pc # "idle"
      /\ rd' \in Reading /\ rd'.side = rd.side /\ rd'.query = rd.query
      /\ StoreInv /\ ReaderInv => ReaderInv' /\ \A b \in Int : Owes(b) => Owes(b)'
      s == rd.side
      q == rd.query
<1> SUFFICES Goal
  OBVIOUS
<1>1. /\ UNCHANGED <<now, exchange, patches, storeVars>>
      /\ rd.pc \in ReaderPc \ {"done"} /\ rd.pc # "idle"
  BY DEF Getting, LoadInvalid, LoadStamp, GetEarliest, ReadLive, Search, Step, ReaderPc
<1>2. /\ rd \in Reading /\ s \in Side /\ q \in Time /\ q \in Int
      /\ rd.known \in -1..MaxBook /\ rd.known \in Int
  BY <1>1, ReadingIs
<1>3. live' = live /\ evicted' = evicted
  BY <1>1 DEF storeVars
<1>4. StoreInv => RingInv(s)
  BY <1>2 DEF StoreInv
<1>5. ReaderInv => Owes(rd.known)
  BY <1>1 DEF ReaderInv
<1>6. \A b \in Int : Owes(b) => Covered(s, q, b)
  BY <1>1 DEF Owes
\* The call goes on.
<1>7. ASSUME NEW pc \in {"stamp", "earliest", "live", "search"}, rd' = [rd EXCEPT !.pc = pc],
             pc = "search" => q < live[s].start
      PROVE  Goal
  <2>1. /\ rd' \in Reading /\ rd'.pc = pc /\ rd'.side = s /\ rd'.query = q
        /\ rd'.known = rd.known /\ pc \in ReaderPc \ {"done"}
    BY <1>2, <1>7 DEF Reading, ReaderPc
  <2>2. NotFromTheFuture'
    BY <2>1 DEF NotFromTheFuture, Answered
  <2>3. /\ HistoryType' /\ (StoreInv => StoreInv')
        /\ \A b \in Int : Covered(s, q, b)' <=> Covered(s, q, b)
    BY <1>1, <1>2, <2>1, <2>2, StepKeeps
  <2>4. ASSUME NEW b \in Int, Owes(b) PROVE Owes(b)'
    <3>1. Covered(s, q, b)'
      BY <1>6, <2>3, <2>4
    <3>2. Covered(rd.side, rd.query, b)'
      BY <2>1, <3>1 DEF Covered
    <3> QED BY <2>1, <3>2 DEF Owes, Answered
  <2>5. ReaderInv => Owes(rd.known)'
    <3> SUFFICES ASSUME ReaderInv PROVE Owes(rd.known)'
      OBVIOUS
    <3> DEFINE known == rd.known
    <3>1. Owes(known) /\ known \in Int
      BY <1>2, <1>5
    <3>2. PICK b \in Int : b = known /\ Owes(b)
      BY <3>1, Zenon
    <3>3. Owes(b)'
      BY <2>4, <3>2
    <3> QED BY <2>1, <3>2, <3>3 DEF Owes, Covered
  <2>6. ReaderInv => ReaderInv'
    BY <1>2, <1>3, <1>7, <2>1, <2>5 DEF ReaderInv, Answered
  <2> QED BY <1>1, <2>1, <2>3, <2>4, <2>6
\* The call ends.
<1>8. ASSUME NEW entry \in Entry \cup {Missing}, rd' \in Reading,
             rd'.pc = "done", rd'.side = s, rd'.query = q, rd'.known = rd.known,
             rd'.result = entry,
             entry # Missing => entry.start <= q /\ Covered(s, q, entry.book),
             StoreInv /\ ReaderInv => \A b \in Int : Covered(s, q, b) =>
                 /\ entry = Missing => rd'.refused \/ b <= evicted[s]
                 /\ entry # Missing => b <= entry.book
      PROVE  Goal
  <2>1. NotFromTheFuture'
    BY <1>8 DEF NotFromTheFuture, Answered
  <2>2. /\ HistoryType' /\ (StoreInv => StoreInv')
        /\ \A b \in Int : Covered(s, q, b)' <=> Covered(s, q, b)
    BY <1>1, <1>2, <1>8, <2>1, StepKeeps
  <2>3. SUFFICES ASSUME StoreInv, ReaderInv
                 PROVE  ReaderInv' /\ \A b \in Int : Owes(b) => Owes(b)'
    BY <1>1, <1>8, <2>2
  <2>4. ASSUME NEW b \in Int, Owes(b) PROVE Owes(b)'
    BY <1>6, <1>8, <2>3, <2>4 DEF Owes, Answered
  <2>5. Owes(rd.known)' /\ (entry = Missing => rd'.refused \/ rd.known <= evicted[s])
    <3> DEFINE known == rd.known
    <3>1. Covered(s, q, known) /\ known \in Int
      BY <1>2, <1>5, <1>6, <2>3
    <3> HIDE DEF known
    <3>2. /\ entry = Missing => rd'.refused \/ known <= evicted[s]
          /\ entry # Missing => known <= entry.book
      BY <1>8, <2>3, <3>1
    <3> QED BY <1>8, <3>2 DEF Owes, Answered, known
  <2>6. entry # Missing => Covered(rd.side, rd.query, rd.result.book)'
    <3> SUFFICES ASSUME entry # Missing PROVE Covered(rd.side, rd.query, rd.result.book)'
      OBVIOUS
    <3>1. entry.book \in Int
      BY MissingIsNoEntry
    <3>2. Covered(s, q, entry.book)
      BY <1>8
    <3>3. ring' = ring
      BY <1>1 DEF storeVars
    <3> QED BY <1>3, <1>8, <3>2, <3>3 DEF Covered
  <2>7. ReaderInv'
    BY <1>3, <1>8, <2>5, <2>6 DEF ReaderInv, Answered
  <2> QED BY <2>4, <2>7
<1> HIDE DEF Goal, s, q
<1>9. ASSUME NEW entry \in Entry \cup {Missing}, rd' = Result(entry)
      PROVE  /\ rd' \in Reading /\ rd'.pc = "done" /\ rd'.side = s /\ rd'.query = q
             /\ rd'.known = rd.known /\ rd'.result = entry
  BY <1>2, <1>9 DEF Result, Reading, ReaderPc, s, q
<1>10. CASE LoadInvalid
  <2>1. PICK pc \in {"stamp", "earliest"} : rd' = [rd EXCEPT !.pc = pc]
    BY <1>10 DEF LoadInvalid, Step
  <2> QED BY <1>7, <2>1
<1>11. CASE LoadStamp
  <2>1. CASE rd' = [rd EXCEPT !.pc = "earliest"]
    BY <1>7, <2>1
  <2>2. CASE rd' = [Result(Missing) EXCEPT !.refused = TRUE]
    <3>1. /\ rd' \in Reading /\ rd'.pc = "done" /\ rd'.side = s /\ rd'.query = q
          /\ rd'.known = rd.known /\ rd'.result = Missing /\ rd'.refused
      BY <1>2, <2>2 DEF Result, Reading, ReaderPc, s, q
    <3> QED BY <1>8, <3>1
  <2> QED BY <1>11, <2>1, <2>2 DEF LoadStamp, Step
<1>12. CASE GetEarliest
  <2>1. CASE rd' = [rd EXCEPT !.pc = "live"]
    BY <1>7, <2>1
  <2>2. CASE BeforeEarliest(q, s) /\ rd' = Result(Missing)
    <3>1. StoreInv => \A b \in Int : Covered(s, q, b) => b <= evicted[s]
      BY <1>2, <1>4, <2>2, EarliestAnswers
    <3> QED BY <1>8, <1>9, <2>2, <3>1
  <2> QED BY <1>12, <2>1, <2>2 DEF GetEarliest, Step, s, q
<1>13. CASE ReadLive
  <2>1. CASE q < live[s].start /\ rd' = [rd EXCEPT !.pc = "search"]
    BY <1>7, <2>1
  <2>2. CASE q >= live[s].start /\ rd' = Result(live[s])
    <3>1. live[s] \in Entry /\ live[s] # Missing /\ live[s].start \in Nat /\ live[s].book \in Nat
      BY <1>2, SideTypes, MissingIsNoEntry
    <3>2. Covered(s, q, live[s].book) /\ live[s].start <= q
      BY <1>2, <2>2, <3>1 DEF Covered
    <3>3. StoreInv => \A b \in Int : Covered(s, q, b) => b <= live[s].book
      BY <1>2, <1>4, LiveAnswers
    <3> QED BY <1>8, <1>9, <2>2, <3>1, <3>2, <3>3
  <2>3. live[s].start \in Nat
    BY <1>2, SideTypes
  <2> QED BY <1>2, <1>13, <2>1, <2>2, <2>3 DEF ReadLive, Step, s, q
<1>14. CASE Search
  <2> DEFINE a == prev_upper_bound(ring[s], q)
  <2>1. rd' = Result(a) /\ rd.pc = "search"
    BY <1>14 DEF Search, Step, s, q
  <2>2. /\ a \in Entry \cup {Missing}
        /\ a # Missing => a.start <= q /\ Covered(s, q, a.book)
    BY <1>2, FoundIsCovered
  <2>3. StoreInv /\ ReaderInv => \A b \in Int : Covered(s, q, b) =>
                 /\ a = Missing => b <= evicted[s]
                 /\ a # Missing => b <= a.book
    <3> SUFFICES ASSUME StoreInv, ReaderInv, NEW b \in Int, Covered(s, q, b)
                 PROVE  /\ a = Missing => b <= evicted[s]
                        /\ a # Missing => b <= a.book
      OBVIOUS
    <3>1. RingInv(s) /\ q < live[s].start
      BY <1>4, <2>1 DEF ReaderInv, s, q
    <3> QED BY <1>2, <3>1, SearchAnswers
  <2> HIDE DEF a
  <2> QED BY <1>8, <1>9, <2>1, <2>2, <2>3
<1> QED BY <1>10, <1>11, <1>12, <1>13, <1>14 DEF Getting, Goal

-----------------------------------------------------------------------------
(***************************************************************************)
(* The store and its reader.                                               *)
(***************************************************************************)
\* A patch once applied stays counted.
LEMMA PatchesGrow ==
  ASSUME HistoryType, Engine, patches' = 0
  PROVE  patches = 0
<1>1. patches \in Nat
  BY HistoryAssumption DEF HistoryType, TypeOK, HistoryAssumption
<1>2. patches' \in {patches, patches + 1}
  BY DEF Engine, tryPatch, recordOrderbookDelta, recordOrderbookSnapshot, Mismatch, WriteNo,
         Publish, Flag, Stamp, Clear
<1> QED BY <1>1, <1>2

\* The engine leaves the reader and the clock alone.
LEMMA EngineAlone == Engine => UNCHANGED <<now, rd>>
BY DEF Engine, tryPatch, recordOrderbookDelta, recordOrderbookSnapshot, Mismatch, WriteNo,
       Publish, Flag, Stamp, Clear, BeginWrite

LEMMA OwesKept ==
  ASSUME HistoryType, rd' = rd, rd.pc # "idle", NEW b \in Int, Owes(b),
         \A q \in Int, c \in Int : Covered(rd.side, q, c) => Covered(rd.side, q, c)'
  PROVE  Owes(b)'
<1>1. rd.query \in Int
  BY ReadingIs
<1>2. rd'.pc = rd.pc /\ rd'.side = rd.side /\ rd'.query = rd.query /\ rd'.result = rd.result
  OBVIOUS
<1>3. CASE rd.pc \in ReaderPc \ {"done"}
  <2>1. Covered(rd.side, rd.query, b)'
    BY <1>1, <1>2, <1>3 DEF Owes, Covered
  <2> QED BY <1>2, <1>3, <2>1 DEF Owes, Answered
<1>4. CASE rd.pc \notin ReaderPc \ {"done"}
  BY <1>2, <1>4 DEF Owes, Answered
<1> QED BY <1>3, <1>4

LEMMA EngineHistory ==
  ASSUME HistoryInv, Engine
  PROVE  HistoryInv'
<1>1. HistoryType /\ HistoryType' /\ rd' = rd
  BY EngineTypes, EngineAlone DEF HistoryInv
<1> SUFFICES ASSUME patches' = 0 PROVE StoreInv' /\ ReaderInv'
  BY <1>1 DEF HistoryInv
<1>2. StoreInv /\ ReaderInv
  BY <1>1, PatchesGrow DEF HistoryInv
<1>3. /\ StoreInv'
      /\ \A s \in Side :
           /\ evicted[s] <= evicted'[s] /\ live[s].start <= live'[s].start
           /\ \A q \in Int, b \in Int : Covered(s, q, b) => Covered(s, q, b)'
  BY <1>1, <1>2, PatchesGrow, EngineKeeps
<1>4. CASE rd.pc = "idle"
  <2>1. rd'.pc = "idle"
    BY <1>1, <1>4
  <2> QED BY <1>3, <2>1 DEF ReaderInv, Answered
<1>5. CASE rd.pc # "idle"
  <2>1. /\ rd.side \in Side /\ rd.query \in Int /\ rd.known \in Int
        /\ rd.result \in Entry \cup {Missing}
    BY <1>1, <1>5, ReadingIs
  <2>2. rd'.pc = rd.pc /\ rd'.side = rd.side /\ rd'.query = rd.query /\ rd'.result = rd.result
        /\ rd'.known = rd.known /\ rd'.refused = rd.refused
    BY <1>1
  <2>3. Owes(rd.known)'
    <3>1. Owes(rd.known)
      BY <1>2, <1>5 DEF ReaderInv
    <3>2. PICK b \in Int : b = rd.known /\ Owes(b)
      BY <2>1, <3>1, Zenon
    <3>3. Owes(b)'
      BY <1>1, <1>3, <1>5, <2>1, <3>2, OwesKept
    <3> QED BY <2>2, <3>2, <3>3 DEF Owes, Covered
  <2>4. rd.pc = "search" => rd.query < live'[rd.side].start
    <3>1. live[rd.side].start \in Int /\ live'[rd.side].start \in Int
      <4>1. live[rd.side] \in Entry /\ live'[rd.side] \in Entry
        BY <1>1, <2>1 DEF HistoryType, TypeOK
      <4> QED BY <4>1, BooksOf DEF Entry, Time
    <3>2. rd.pc = "search" => rd.query < live[rd.side].start
      BY <1>2 DEF ReaderInv
    <3> QED BY <1>3, <2>1, <3>1, <3>2
  <2>5. Answered => Covered(rd.side, rd.query, rd.result.book)'
    <3> SUFFICES ASSUME Answered PROVE Covered(rd.side, rd.query, rd.result.book)'
      OBVIOUS
    <3>1. Covered(rd.side, rd.query, rd.result.book) /\ rd.result.book \in Int
      BY <1>2, <2>1, MissingIsNoEntry DEF ReaderInv, Answered
    <3> QED BY <1>3, <2>1, <2>2, <3>1, ZenonT(60) DEF Covered
  <2>6. rd.pc = "done" /\ rd.result = Missing => rd.refused \/ rd.known <= evicted'[rd.side]
    <3>1. evicted[rd.side] \in Int /\ evicted'[rd.side] \in Int
      <4>1. evicted[rd.side] \in -1..MaxBook /\ evicted'[rd.side] \in -1..MaxBook
        BY <1>1, <2>1 DEF HistoryType, TypeOK
      <4> QED BY <4>1, HistoryAssumption DEF HistoryAssumption
    <3>2. rd.pc = "done" /\ rd.result = Missing => rd.refused \/ rd.known <= evicted[rd.side]
      BY <1>2 DEF ReaderInv
    <3>3. evicted[rd.side] <= evicted'[rd.side]
      BY <1>3, <2>1
    <3> QED BY <2>1, <3>1, <3>2, <3>3
  <2> QED BY <1>3, <1>5, <2>2, <2>3, <2>4, <2>5, <2>6 DEF ReaderInv, Answered
<1> QED BY <1>4, <1>5

\* What the clock does not touch.
LEMMA TickHistory ==
  ASSUME HistoryInv, Tick
  PROVE  /\ HistoryInv' /\ now \in Nat /\ now' = now + 1
         /\ UNCHANGED <<exchange, patches, storeVars, rd>>
<1>1. /\ now \in Nat /\ now' = now + 1 /\ now' \in Time /\ Minute <= now /\ Minute \in Nat
      /\ UNCHANGED <<exchange, patches, storeVars, rd>>
  BY BooksOf DEF HistoryInv, HistoryType, TypeOK, Time, Tick
<1>2. HistoryType'
  BY <1>1 DEF HistoryInv, HistoryType, TypeOK, storeVars, NotFromTheFuture, Answered
<1>3. StoreInv => StoreInv'
  BY <1>1 DEF StoreInv, EngineInv, RingInv, BeingWritten, Start, SecondOver, storeVars
<1>4. ReaderInv => ReaderInv'
  BY <1>1 DEF ReaderInv, Owes, Covered, Answered, storeVars
<1> QED BY <1>1, <1>2, <1>3, <1>4 DEF HistoryInv

LEMMA HistoryInitially == Init => HistoryInv
<1> SUFFICES ASSUME Init PROVE HistoryInv
  OBVIOUS
<1>1. /\ Minute \in Time /\ 0 \in Time /\ MaxBook \in Nat /\ MaxPatch \in Nat /\ Steps \in Nat
      /\ Minute \in Nat
  BY HistoryAssumption DEF HistoryAssumption, Time
<1>2. /\ now = Minute /\ exchange = Minute /\ invalid_state = FALSE /\ last_valid_timestamp = 0
      /\ live = [s \in Side |-> [book |-> 0, start |-> 0]] /\ ring = [s \in Side |-> <<>>]
      /\ engine = Free /\ patches = 0 /\ rd = Idle /\ evicted = [s \in Side |-> -1]
  BY DEF Init
<1>3. live \in [Side -> Entry] /\ ring \in [Side -> Seq(Entry)] /\ evicted \in [Side -> -1..MaxBook]
  BY <1>1, <1>2 DEF Entry
<1>4. \A s \in Side : ring[s] \in Seq(Entry) /\ Len(ring[s]) <= Steps
  BY <1>1, <1>2
<1>5. rd.pc = "idle" /\ engine.pc = "free" /\ "No" \in Side
  BY <1>2 DEF Idle, Free, Side
<1>6. HistoryType
  <2>1. /\ now \in Time /\ exchange \in Time /\ Minute <= now /\ Minute <= exchange
        /\ last_valid_timestamp \in Time /\ patches \in 0..MaxPatch
    BY <1>1, <1>2
  <2>2. invalid_state \in BOOLEAN /\ engine \in {Free} \cup Applying /\ rd \in {Idle} \cup Reading
    BY <1>2
  <2> QED BY <1>3, <1>4, <1>5, <2>1, <2>2 DEF HistoryType, TypeOK, NotFromTheFuture, Answered
<1>7. EngineInv
  BY <1>2, <1>5 DEF EngineInv
<1>8. \A s \in Side : RingInv(s)
  BY <1>2 DEF RingInv
<1>9. ReaderInv
  BY <1>5 DEF ReaderInv, Answered
<1> QED BY <1>6, <1>7, <1>8, <1>9 DEF HistoryInv, StoreInv

\* The store and its reader, whichever reader there is.
LEMMA HistoryStep ==
  ASSUME HistoryInv, [PanelNext]_allVars
  PROVE  HistoryInv'
<1>0. HistoryType /\ Query \subseteq Time /\ "Yes" \in Side /\ "No" \in Side
  BY HistoryAssumption DEF HistoryInv, HistoryAssumption, Time, Side
\* A call begins.
<1>1. ASSUME NEW from, NEW q \in Time, NEW s \in Side, NEW known \in -1..MaxBook,
             Covered(s, q, known), Step(from, Asked(q, s, known))
      PROVE  HistoryInv'
  BY <1>0, <1>1, CallKeeps DEF HistoryInv, Step
\* A call is over.
<1>2. ASSUME NEW from, Step(from, Idle) PROVE HistoryInv'
  BY <1>0, <1>2, IdleKeeps DEF HistoryInv, Step
<1>3. ASSUME Getting PROVE HistoryInv'
  BY <1>0, <1>3, GettingKeeps DEF HistoryInv
<1>4. CASE UNCHANGED allVars
  <2>1. UNCHANGED <<now, exchange, live, ring, invalid_state, last_valid_timestamp, engine,
                    patches, rd, evicted>>
    BY <1>4 DEF allVars, vars, storeVars
  <2> QED BY <2>1
    DEF HistoryInv, HistoryType, TypeOK, NotFromTheFuture, Answered, StoreInv, EngineInv, RingInv,
        BeingWritten, Start, SecondOver, ReaderInv, Owes, Covered
<1>5. CASE PanelTick
  BY <1>5, TickHistory DEF PanelTick
<1>6. CASE PanelEngine
  BY <1>6, EngineHistory DEF PanelEngine
<1>7. CASE Past
  <2>1. CASE get
    <3>1. PICK q \in Query, s \in Side : Call(q, s, Answer(q, s).book)
      BY <2>1 DEF get
    <3>2. q \in Time /\ q \in Int
      BY <1>0, BooksOf DEF Time
    <3>3. Answer(q, s).book \in -1..MaxBook /\ Covered(s, q, Answer(q, s).book)
      BY <1>0, <3>2, AnswerCovered
    <3> QED BY <1>1, <3>1, <3>2, <3>3 DEF Call
  <2>2. CASE Return
    BY <1>2, <2>2 DEF Return
  <2> QED BY <1>3, <1>7, <2>1, <2>2 DEF Past
<1>8. CASE fetchData
  <2>1. \A q \in Time, s \in Side : -1 \in -1..MaxBook /\ Covered(s, q, -1)
    BY <1>0, SideTypes, HistoryAssumption DEF Covered, HistoryAssumption
  <2>2. CASE FetchYes
    <3>1. now \in Time /\ Step("idle", Asked(now, "Yes", -1))
      BY <1>0, <2>2 DEF FetchYes, Call, HistoryType, TypeOK
    <3> QED BY <1>0, <1>1, <2>1, <3>1
  <2>3. CASE FetchNo
    <3>1. rd.pc = "done" /\ Step("done", Asked(rd.query, "No", -1))
      BY <2>3 DEF FetchNo, Step
    <3>2. rd.query \in Time
      BY <1>0, <3>1, ReadingIs
    <3> QED BY <1>0, <1>1, <2>1, <3>1, <3>2
  <2>4. CASE Show
    BY <1>2, <2>4 DEF Show
  <2> QED BY <1>3, <1>8, <2>2, <2>3, <2>4 DEF fetchData
<1> QED BY <1>4, <1>5, <1>6, <1>7, <1>8 DEF PanelNext

-----------------------------------------------------------------------------
(***************************************************************************)
(* The panels.                                                             *)
(***************************************************************************)
LEMMA CoveredLater ==
  ASSUME HistoryType, NEW s \in Side, NEW q \in Int, NEW r \in Int, q <= r, NEW b \in Int,
         Covered(s, q, b)
  PROVE  Covered(s, r, b)
<1>1. /\ live[s].start \in Nat
      /\ \A i \in 1..Len(ring[s]) : ring[s][i].start \in Nat
  BY SideTypes
<1> QED BY <1>1, SMTT(30) DEF Covered

LEMMA PanelInitially == PanelInit => PanelInv
<1> SUFFICES ASSUME PanelInit PROVE PanelInv
  OBVIOUS
<1>1. /\ reader \in {"past", "panel"} /\ panel = NoFetch /\ shown = [s \in Side |-> 0]
      /\ rd = Idle /\ live = [s \in Side |-> [book |-> 0, start |-> 0]] /\ now = Minute
  BY DEF PanelInit, Init
<1>2. /\ MaxBook \in Nat /\ Minute \in Nat
  BY HistoryAssumption DEF HistoryAssumption
<1>3. \A s \in Side : Covered(s, now, shown[s])
  BY <1>1, <1>2 DEF Covered
<1>4. shown \in [Side -> 0..MaxBook] /\ panel.stage = "none"
  BY <1>1, <1>2 DEF NoFetch
<1> QED BY <1>1, <1>3, <1>4 DEF PanelInv

\* The types of the panel, as the proof below uses them.
LEMMA PanelTypes ==
  ASSUME HistoryType, PanelInv
  PROVE  /\ panel.stage \in {"none", "yes", "no"}
         /\ panel.stage = "none" <=> panel = NoFetch
         /\ \A s \in Side : shown[s] \in 0..MaxBook /\ shown[s] \in Int
         /\ panel.stage = "no" => panel.yes \in -1..MaxBook /\ panel.yes \in Int
         /\ now \in Int
<1>1. MaxBook \in Nat
  BY HistoryAssumption DEF HistoryAssumption
<1>2. \A s \in Side : shown[s] \in 0..MaxBook /\ shown[s] \in Int
  BY <1>1 DEF PanelInv
<1>3. panel \in {NoFetch} \cup [stage : {"yes"}] \cup [stage : {"no"}, yes : -1..MaxBook]
  BY DEF PanelInv
<1>4. /\ panel.stage \in {"none", "yes", "no"}
      /\ panel.stage = "none" <=> panel = NoFetch
      /\ panel.stage = "no" => panel.yes \in -1..MaxBook
  BY <1>3 DEF NoFetch
<1>5. panel.stage = "no" => panel.yes \in Int
  BY <1>1, <1>4
<1>6. now \in Int
  BY BooksOf DEF HistoryType, TypeOK, Time
<1> QED BY <1>2, <1>4, <1>5, <1>6

\* A step that leaves the panel where it is and loses nothing that was covered.
LEMMA PanelKept ==
  ASSUME HistoryInv, PanelInv, UNCHANGED <<reader, panel, shown>>, now' \in Int, now <= now',
         HistoryType', patches' = 0 => patches = 0,
         rd' = Idle <=> rd = Idle,
         rd # Idle => rd'.side = rd.side /\ rd'.query = rd.query,
         patches' = 0 =>
           /\ \A s \in Side, q \in Int, b \in Int : Covered(s, q, b) => Covered(s, q, b)'
           /\ rd # Idle => \A b \in Int : Owes(b) => Owes(b)'
  PROVE  reader = "panel" => PanelInv'
<1> SUFFICES ASSUME reader = "panel" PROVE PanelInv'
  OBVIOUS
<1>1. HistoryType /\ now \in Int /\ \A s \in Side : shown[s] \in Int
  BY PanelTypes DEF HistoryInv
<1>2. /\ panel = NoFetch <=> rd = Idle
      /\ panel.stage = "yes" => rd.side = "Yes"
      /\ panel.stage = "no" => rd.side = "No"
      /\ rd # Idle => rd.query <= now
  BY DEF PanelInv
<1>3. rd # Idle => rd.query \in Int /\ rd.side \in Side
  BY <1>1, ReadingIs
<1>4. rd # Idle => rd'.query <= now'
  BY <1>1, <1>2, <1>3
<1>5. NoFetch.stage = "none"
  BY DEF NoFetch
<1>6. ASSUME patches' = 0
      PROVE  /\ panel = NoFetch => \A s \in Side : Covered(s, now, shown[s])'
             /\ panel # NoFetch =>
                  /\ Owes(shown[rd.side])'
                  /\ \A s \in Side : Covered(s, rd.query, shown[s])'
             /\ panel.stage = "no" =>
                  \/ panel.yes = -1
                  \/ shown["Yes"] <= panel.yes /\ Covered("Yes", rd.query, panel.yes)'
  <2>0. patches = 0
    BY <1>6
  <2>1. ASSUME panel = NoFetch, NEW s \in Side PROVE Covered(s, now, shown[s])'
    <3>1. Covered(s, now, shown[s])
      BY <2>0, <2>1 DEF PanelInv
    <3>2. PICK q \in Int : q = now'
      OBVIOUS
    <3>3. PICK b \in Int : b = shown[s]
      BY <1>1
    <3>4. Covered(s, q, b)
      BY <1>1, <3>1, <3>2, <3>3, CoveredLater
    <3>5. Covered(s, q, b)'
      BY <1>6, <3>4
    <3> QED BY <3>2, <3>3, <3>5 DEF Covered
  <2>2. ASSUME panel # NoFetch
        PROVE  Owes(shown[rd.side])' /\ \A s \in Side : Covered(s, rd.query, shown[s])'
    <3>1. /\ Owes(shown[rd.side]) /\ \A s \in Side : Covered(s, rd.query, shown[s])
          /\ rd # Idle /\ rd'.side = rd.side /\ rd'.query = rd.query
          /\ rd.query \in Int /\ rd.side \in Side
      BY <1>2, <1>3, <2>0, <2>2 DEF PanelInv
    <3>2. Owes(shown[rd.side])'
      <4>1. PICK b \in Int : b = shown[rd.side] /\ Owes(b)
        BY <1>1, <3>1, Zenon
      <4>2. Owes(b)'
        BY <1>6, <3>1, <4>1
      <4> QED BY <3>1, <4>1, <4>2 DEF Owes, Covered
    <3>3. ASSUME NEW s \in Side PROVE Covered(s, rd.query, shown[s])'
      <4>1. PICK b \in Int : b = shown[s]
        BY <1>1
      <4>2. PICK q \in Int : q = rd.query
        BY <3>1
      <4>3. Covered(s, q, b)'
        BY <1>6, <3>1, <4>1, <4>2
      <4> QED BY <3>1, <4>1, <4>2, <4>3 DEF Covered
    <3> QED BY <3>2, <3>3
  <2>3. ASSUME panel.stage = "no", panel.yes # -1
        PROVE  shown["Yes"] <= panel.yes /\ Covered("Yes", rd.query, panel.yes)'
    <3>1. shown["Yes"] <= panel.yes /\ Covered("Yes", rd.query, panel.yes)
      BY <2>0, <2>3 DEF PanelInv
    <3>2. rd # Idle /\ rd'.query = rd.query /\ rd.query \in Int /\ panel.yes \in Int
      BY <1>1, <1>2, <1>3, <1>5, <2>3, PanelTypes
    <3>3. PICK b \in Int : b = panel.yes
      BY <3>2
    <3>4. PICK q \in Int : q = rd.query
      BY <3>2
    <3>5. "Yes" \in Side
      BY DEF Side
    <3>6. Covered("Yes", q, b)'
      BY <1>6, <3>1, <3>3, <3>4, <3>5
    <3> QED BY <3>1, <3>2, <3>3, <3>4, <3>6 DEF Covered
  <2> QED BY <2>1, <2>2, <2>3
<1>7. /\ shown' = shown /\ panel' = panel /\ reader' = reader
      /\ shown \in [Side -> 0..MaxBook] /\ reader \in {"past", "panel"}
      /\ panel \in {NoFetch} \cup [stage : {"yes"}] \cup [stage : {"no"}, yes : -1..MaxBook]
  BY DEF PanelInv
<1>8. /\ panel' = NoFetch <=> rd' = Idle
      /\ panel'.stage = "yes" => rd'.side = "Yes"
      /\ panel'.stage = "no" => rd'.side = "No"
      /\ rd' # Idle => rd'.query <= now'
  BY <1>2, <1>4, <1>5, <1>7
<1> HIDE DEF PanelInv
<1>9. patches' = 0 =>
        /\ panel' = NoFetch => \A s \in Side : Covered(s, now, shown[s])'
        /\ panel' # NoFetch =>
             /\ Owes(shown[rd.side])'
             /\ \A s \in Side : Covered(s, rd.query, shown[s])'
        /\ panel'.stage = "no" =>
             \/ panel'.yes = -1
             \/ shown'["Yes"] <= panel'.yes /\ Covered("Yes", rd.query, panel.yes)'
  BY <1>6, <1>7
<1> QED BY <1>7, <1>8, <1>9, Zenon DEF PanelInv

\* A fetch and what the screen shows after it.
LEMMA FetchStep ==
  ASSUME HistoryInv, HistoryInv', PanelInv, reader = "panel", fetchData
  PROVE  /\ PanelInv'
         /\ patches' = 0 => \A s \in Side : shown'[s] >= shown[s]
<1>1. /\ HistoryType /\ HistoryType' /\ now \in Int /\ \A s \in Side : shown[s] \in Int
      /\ "Yes" \in Side /\ "No" \in Side /\ \A s \in Side : s = "Yes" \/ s = "No"
      /\ NoFetch.stage = "none"
  BY PanelTypes DEF HistoryInv, Side, NoFetch
<1>2. /\ shown \in [Side -> 0..MaxBook] /\ reader' = "panel"
      /\ panel \in {NoFetch} \cup [stage : {"yes"}] \cup [stage : {"no"}, yes : -1..MaxBook]
      /\ panel = NoFetch <=> rd = Idle
      /\ panel.stage = "yes" => rd.side = "Yes"
      /\ panel.stage = "no" => rd.side = "No"
      /\ rd # Idle => rd.query <= now
  BY DEF PanelInv, fetchData
<1>3. patches = 0 =>
        /\ panel = NoFetch => \A s \in Side : Covered(s, now, shown[s])
        /\ panel # NoFetch =>
             /\ Owes(shown[rd.side])
             /\ \A s \in Side : Covered(s, rd.query, shown[s])
        /\ panel.stage = "no" =>
             panel.yes = -1 \/ (shown["Yes"] <= panel.yes /\ Covered("Yes", rd.query, panel.yes))
        /\ StoreInv /\ ReaderInv
  BY DEF PanelInv, HistoryInv
\* Asking leaves the screen as it is.
<1>4. ASSUME NEW from, NEW q \in Time, NEW s \in Side, q <= now,
             Step(from, Asked(q, s, -1)), UNCHANGED shown,
             patches = 0 => \A t \in Side : Covered(t, q, shown[t]),
             panel' \in [stage : {"yes"}] \cup [stage : {"no"}, yes : -1..MaxBook],
             panel'.stage = IF s = "Yes" THEN "yes" ELSE "no",
             patches = 0 /\ s = "No" =>
               panel'.yes = -1 \/ (shown["Yes"] <= panel'.yes /\ Covered("Yes", q, panel'.yes))
      PROVE  /\ PanelInv'
             /\ patches' = 0 => \A t \in Side : shown'[t] >= shown[t]
  <2>1. /\ UNCHANGED <<now, exchange, patches, storeVars>> /\ rd' = Asked(q, s, -1)
        /\ now' = now /\ patches' = patches /\ live' = live /\ ring' = ring /\ evicted' = evicted
    BY <1>4 DEF Step, storeVars
  <2>2. rd'.side = s /\ rd'.query = q /\ rd'.pc = "invalid" /\ rd' # Idle
    BY <2>1 DEF Asked, Idle
  <2>3. Covered(s, q, -1) /\ -1 \in -1..MaxBook
    BY <1>1, SideTypes, HistoryAssumption DEF Covered, HistoryAssumption
  <2>4. patches = 0 => Owes(shown[rd.side])'
    <3> SUFFICES ASSUME patches = 0 PROVE Owes(shown[rd.side])'
      OBVIOUS
    <3>1. PICK b \in Int : b = shown[s] /\ Covered(s, q, b)
      BY <1>1, <1>4, Zenon
    <3>2. Owes(b)'
      BY <1>1, <2>1, <2>3, <3>1, CallKeeps
    <3> QED BY <1>4, <2>2, <3>1, <3>2 DEF Owes, Covered
  <2>5. patches = 0 => \A t \in Side : Covered(t, rd.query, shown[t])'
    BY <1>4, <2>1, <2>2 DEF Covered
  <2>6. patches = 0 /\ s = "No" =>
          panel'.yes = -1 \/ (shown'["Yes"] <= panel'.yes /\ Covered("Yes", rd.query, panel.yes)')
    BY <1>4, <2>1, <2>2 DEF Covered
  <2>7. panel' # NoFetch /\ (panel'.stage = "yes" <=> s = "Yes") /\ (panel'.stage = "no" <=> s = "No")
    BY <1>1, <1>4
  <2>8. PanelInv'
    BY <1>2, <1>4, <2>1, <2>2, <2>4, <2>5, <2>6, <2>7, Zenon DEF PanelInv
  <2> QED BY <1>1, <1>4, <2>8
<1>5. CASE FetchYes
  <2>1. /\ panel.stage = "none" /\ Step("idle", Asked(now, "Yes", -1)) /\ UNCHANGED shown
        /\ panel' = [stage |-> "yes"]
    BY <1>5 DEF FetchYes, Call
  <2>2. panel = NoFetch /\ now \in Time
    BY <1>1, <2>1, PanelTypes DEF HistoryType, TypeOK
  <2>3. now <= now
    BY <1>1
  <2>4. panel' \in [stage : {"yes"}] /\ panel'.stage = "yes"
    BY <2>1
  <2>5. patches = 0 => \A t \in Side : Covered(t, now, shown[t])
    BY <1>3, <2>2
  <2> QED BY <1>1, <1>4, <2>1, <2>2, <2>3, <2>4, <2>5
<1>6. CASE FetchNo
  <2>1. /\ panel.stage = "yes" /\ rd.pc = "done" /\ Step("done", Asked(rd.query, "No", -1))
        /\ UNCHANGED shown /\ panel' = [stage |-> "no", yes |-> rd.result.book]
    BY <1>6 DEF FetchNo, Step
  <2>2. /\ panel # NoFetch /\ rd.side = "Yes" /\ rd.query \in Time /\ rd # Idle
        /\ rd.result \in Entry \cup {Missing} /\ rd.query <= now
    BY <1>1, <1>2, <2>1, ReadingIs DEF Idle
  <2>3. rd.result.book \in -1..MaxBook /\ (rd.result = Missing => rd.result.book = -1)
    BY <2>2, HistoryAssumption DEF Entry, Missing, HistoryAssumption
  <2>4. panel' \in [stage : {"no"}, yes : -1..MaxBook] /\ panel'.stage = "no"
        /\ panel'.yes = rd.result.book
    BY <2>1, <2>3
  <2>5. patches = 0 => \A t \in Side : Covered(t, rd.query, shown[t])
    BY <1>3, <2>2
  <2>6. patches = 0 => panel'.yes = -1
                       \/ (shown["Yes"] <= panel'.yes /\ Covered("Yes", rd.query, panel'.yes))
    <3>1. CASE rd.result = Missing
      BY <2>3, <2>4, <3>1
    <3>2. CASE rd.result # Missing
      <4>1. Answered
        BY <2>1, <3>2 DEF Answered
      <4>2. patches = 0 => /\ shown["Yes"] <= rd.result.book
                           /\ Covered("Yes", rd.query, rd.result.book)
        BY <1>3, <2>2, <4>1 DEF Owes, ReaderInv
      <4> QED BY <2>4, <4>2
    <3> QED BY <3>1, <3>2
  <2> HIDE DEF PanelInv
  <2> QED BY <1>1, <1>4, <2>1, <2>2, <2>4, <2>5, <2>6
<1>7. CASE Show
  <2>1. /\ panel.stage = "no" /\ rd.pc = "done" /\ Step("done", Idle)
        /\ shown' = Replaced(panel.yes, rd.result.book) /\ panel' = NoFetch
    BY <1>7 DEF Show, Step
  <2>2. /\ panel # NoFetch /\ rd.side = "No" /\ rd.query \in Int /\ rd # Idle
        /\ rd.result \in Entry \cup {Missing} /\ rd.query <= now
        /\ panel.yes \in -1..MaxBook /\ panel.yes \in Int
    BY <1>1, <1>2, <2>1, ReadingIs, PanelTypes DEF Idle
  <2>3. /\ UNCHANGED <<now, exchange, patches, storeVars>> /\ rd' = Idle
        /\ now' = now /\ patches' = patches /\ live' = live /\ ring' = ring /\ evicted' = evicted
    BY <2>1 DEF Step, storeVars
  <2>4. /\ rd.result.book \in -1..MaxBook /\ Missing.book = -1
        /\ rd.result = Missing <=> rd.result.book = -1
    BY <2>2, MissingIsNoEntry, HistoryAssumption DEF Entry, Missing, HistoryAssumption
  <2>5. /\ shown'["Yes"] = IF panel.yes # -1 THEN panel.yes ELSE shown["Yes"]
        /\ shown'["No"] = IF rd.result.book # -1 THEN rd.result.book ELSE shown["No"]
        /\ shown' \in [Side -> 0..MaxBook]
    <3>1. MaxBook \in Nat
      BY HistoryAssumption DEF HistoryAssumption
    <3>2. /\ panel.yes # -1 => panel.yes \in 0..MaxBook
          /\ rd.result.book # -1 => rd.result.book \in 0..MaxBook
      BY <2>2, <2>4, <3>1
    <3> QED BY <1>1, <1>2, <2>1, <2>4, <3>2 DEF Replaced
  <2>6. ASSUME patches = 0, NEW s \in Side
        PROVE  shown'[s] >= shown[s] /\ Covered(s, rd.query, shown'[s])
    <3>1. /\ Owes(shown["No"]) /\ Covered(s, rd.query, shown[s]) /\ ReaderInv
          /\ panel.yes = -1 \/ (shown["Yes"] <= panel.yes /\ Covered("Yes", rd.query, panel.yes))
      BY <1>3, <2>1, <2>2, <2>6
    <3>2. CASE shown'[s] = shown[s]
      BY <1>1, <3>1, <3>2
    <3>3. CASE shown'[s] # shown[s] /\ s = "Yes"
      BY <1>1, <2>2, <2>5, <3>1, <3>3
    <3>4. CASE shown'[s] # shown[s] /\ s = "No"
      <4>1. rd.result.book # -1 /\ shown'[s] = rd.result.book
        BY <2>5, <3>4
      <4>2. Answered
        BY <2>1, <2>4, <4>1 DEF Answered
      <4>3. shown["No"] <= rd.result.book /\ Covered("No", rd.query, rd.result.book)
        BY <2>2, <3>1, <4>2 DEF Owes, ReaderInv
      <4>4. rd.result.book \in Int
        BY <2>4, HistoryAssumption DEF HistoryAssumption
      <4> QED BY <1>1, <3>4, <4>1, <4>3, <4>4
    <3> QED BY <1>1, <3>2, <3>3, <3>4
  <2>7. ASSUME patches = 0, NEW s \in Side PROVE Covered(s, now, shown[s])'
    <3>1. Covered(s, rd.query, shown'[s])
      BY <2>6, <2>7
    <3>2. PICK b \in Int : b = shown'[s]
      <4>1. shown'[s] \in 0..MaxBook
        BY <2>5
      <4> QED BY <4>1, HistoryAssumption DEF HistoryAssumption
    <3>3. Covered(s, now, b)
      BY <1>1, <2>2, <3>1, <3>2, CoveredLater
    <3> QED BY <2>3, <3>2, <3>3 DEF Covered
  <2>8. PanelInv'
    <3>1. panel'.stage = "none"
      BY <1>1, <2>1
    <3> QED BY <1>2, <2>1, <2>3, <2>5, <2>7, <3>1 DEF PanelInv
  <2> HIDE DEF PanelInv
  <2> QED BY <2>3, <2>6, <2>8
<1>8. CASE Getting /\ UNCHANGED panelVars
  <2>1. /\ HistoryType' /\ UNCHANGED <<now, exchange, patches, storeVars>> /\ rd.pc # "idle"
        /\ rd' \in Reading /\ rd'.side = rd.side /\ rd'.query = rd.query
        /\ StoreInv /\ ReaderInv => \A b \in Int : Owes(b) => Owes(b)'
    BY <1>1, <1>8, GettingKeeps
  <2>2. rd # Idle /\ rd' # Idle
    BY <2>1 DEF Idle, Reading, ReaderPc
  <2>3. now' = now /\ patches' = patches /\ live' = live /\ ring' = ring /\ evicted' = evicted
        /\ UNCHANGED <<reader, panel, shown>>
    BY <1>2, <1>8, <2>1 DEF storeVars, panelVars
  <2>4. \A s \in Side, q \in Int, b \in Int : Covered(s, q, b) => Covered(s, q, b)'
    BY <2>3 DEF Covered
  <2>5. now <= now' /\ now' \in Int
    BY <1>1, <2>3
  <2>6. patches' = 0 => (rd # Idle => \A b \in Int : Owes(b) => Owes(b)')
    BY <1>3, <2>1, <2>3
  <2>7. PanelInv'
    BY <1>1, <2>1, <2>2, <2>3, <2>4, <2>5, <2>6, PanelKept
  <2>8. \A s \in Side : shown'[s] >= shown[s]
    BY <1>1, <2>3
  <2> QED BY <2>7, <2>8
<1> QED BY <1>5, <1>6, <1>7, <1>8 DEF fetchData

\* The screen, whatever the step.
LEMMA PanelStep ==
  ASSUME HistoryInv, PanelInv, [PanelNext]_allVars
  PROVE  /\ PanelInv'
         /\ patches' = 0 => \A s \in Side : shown'[s] >= shown[s]
<1>1. HistoryInv' /\ HistoryType /\ \A s \in Side : shown[s] \in Int
  BY HistoryStep, PanelTypes DEF HistoryInv
<1>2. CASE reader = "panel" /\ fetchData
  BY <1>1, <1>2, FetchStep
\* Nobody else touches the screen.
<1>3. ASSUME UNCHANGED shown
      PROVE  patches' = 0 => \A s \in Side : shown'[s] >= shown[s]
  BY <1>1, <1>3
\* There is no panel.
<1>4. ASSUME reader = "past", UNCHANGED <<reader, panel, shown>>
      PROVE  PanelInv'
  BY <1>4 DEF PanelInv, NoFetch
<1>5. reader \in {"past", "panel"}
  BY DEF PanelInv
<1>6. CASE UNCHANGED allVars
  <2>1. UNCHANGED <<now, exchange, live, ring, engine, patches, rd, evicted, reader, panel, shown>>
    BY <1>6 DEF allVars, vars, storeVars, panelVars
  <2>2. PanelInv'
    BY <2>1 DEF PanelInv, Owes, Covered, Answered
  <2> QED BY <1>3, <2>1, <2>2
<1>7. CASE PanelTick
  <2>1. /\ now \in Nat /\ now' = now + 1 /\ UNCHANGED <<exchange, patches, storeVars, rd>>
        /\ UNCHANGED <<reader, panel, shown>>
    BY <1>7, TickHistory DEF PanelTick, panelVars
  <2>2. /\ live' = live /\ ring' = ring /\ evicted' = evicted /\ rd' = rd /\ patches' = patches
        /\ now' \in Int /\ now <= now'
    BY <2>1 DEF storeVars
  <2>3. \A s \in Side, q \in Int, b \in Int : Covered(s, q, b) => Covered(s, q, b)'
    BY <2>2 DEF Covered
  <2>4. \A b \in Int : Owes(b) => Owes(b)'
    BY <2>2 DEF Owes, Covered, Answered
  <2>5. PanelInv'
    BY <1>1, <1>4, <1>5, <2>1, <2>2, <2>3, <2>4, PanelKept DEF HistoryInv
  <2> QED BY <1>3, <2>1, <2>5
<1>8. CASE PanelEngine
  <2>1. Engine /\ UNCHANGED <<reader, panel, shown>> /\ now' = now /\ rd' = rd
    BY <1>8, EngineAlone DEF PanelEngine, panelVars
  <2>2. now \in Int /\ now <= now' /\ now' \in Int
    BY <1>1, <2>1, PanelTypes
  <2>3. patches' = 0 =>
          \A s \in Side, q \in Int, b \in Int : Covered(s, q, b) => Covered(s, q, b)'
    BY <1>1, <2>1, PatchesGrow, EngineKeeps DEF HistoryInv
  <2>4. patches' = 0 /\ rd # Idle => \A b \in Int : Owes(b) => Owes(b)'
    BY <1>1, <2>1, <2>3, ReadingIs, OwesKept
  <2>5. PanelInv'
    BY <1>1, <1>4, <1>5, <2>1, <2>2, <2>3, <2>4, PatchesGrow, PanelKept DEF HistoryInv
  <2> QED BY <1>3, <2>1, <2>5
<1>9. CASE reader = "past" /\ Past
  BY <1>3, <1>4, <1>9 DEF Past, panelVars
<1> QED BY <1>2, <1>6, <1>7, <1>8, <1>9 DEF PanelNext

-----------------------------------------------------------------------------
(***************************************************************************)
(* The past.                                                               *)
(***************************************************************************)
\* In a ring in order there is one entry the search can find.
LEMMA OneAnswer ==
  ASSUME HistoryType, NEW s \in Side, RingInv(s), NEW q \in Int, q < live[s].start,
         NEW k \in 1..Len(ring[s]), ring[s][k].start <= q,
         k < Len(ring[s]) => q < ring[s][k + 1].start
  PROVE  Answer(q, s) = ring[s][k]
<1> DEFINE n == Len(ring[s])
           a == prev_upper_bound(ring[s], q)
           r == UpperBound(ring[s], q)
<1>1. /\ ring[s] \in Seq(Entry) /\ n \in Nat /\ live[s].start \in Nat
      /\ \A i \in 1..n : ring[s][i].start \in Nat
  BY SideTypes
<1>2. /\ r \in 0..n
      /\ r # 0 => a = ring[s][r] /\ a.start <= q
      /\ r < n => q < ring[s][r + 1].start
  BY <1>1, PrevSpec
<1>3. \A i, j \in 1..n : i < j => ring[s][i].start < ring[s][j].start
  BY DEF RingInv
<1> HIDE DEF n, a, r
<1>4. k \in 1..n /\ (k < n => q < ring[s][k + 1].start)
  BY DEF n
<1>5. ~(r < k)
  <2> SUFFICES ASSUME r < k PROVE FALSE
    OBVIOUS
  <2> DEFINE i == r + 1
  <2>1. i \in 1..n /\ (i = k \/ i < k) /\ q < ring[s][i].start
    BY <1>1, <1>2, <1>4
  <2> HIDE DEF i
  <2> QED BY <1>1, <1>3, <1>4, <2>1
<1>6. ~(k < r)
  <2> SUFFICES ASSUME k < r PROVE FALSE
    OBVIOUS
  <2> DEFINE i == k + 1
  <2>1. i \in 1..n /\ r \in 1..n /\ (i = r \/ i < r) /\ q < ring[s][i].start
        /\ ring[s][r].start <= q
    BY <1>1, <1>2, <1>4
  <2> HIDE DEF i
  <2> QED BY <1>1, <1>3, <2>1, SMTT(30)
<1>7. r = k /\ a = ring[s][k]
  BY <1>1, <1>2, <1>4, <1>5, <1>6
<1>8. ~BeforeEarliest(q, s)
  <2>1. 1 \in 1..n /\ (k = 1 \/ 1 < k)
    BY <1>1, <1>4
  <2>2. ring[s][1].start <= q
    BY <1>1, <1>3, <1>4, <2>1
  <2> QED BY <1>1, <2>1, <2>2 DEF BeforeEarliest
<1>9. ~(q >= live[s].start)
  BY <1>1
<1> QED BY <1>7, <1>8, <1>9 DEF Answer, a

\* A push does not change the past.
LEMMA PushStable ==
  ASSUME HistoryType, HistoryType', NEW s \in Side, push(s), live' = live, RingInv(s),
         NEW q \in Int, q < live[s].start
  PROVE  Answer(q, s)' \in {Answer(q, s), Missing}
<1> DEFINE n == Len(ring[s])
           m == Len(ring'[s])
           a == prev_upper_bound(ring'[s], q)
           r == UpperBound(ring'[s], q)
<1>1. /\ ring[s] \in Seq(Entry) /\ ring'[s] \in Seq(Entry) /\ n \in Nat /\ m \in Nat
      /\ live'[s] = live[s] /\ live[s].start \in Nat
  BY SideTypes DEF HistoryType, TypeOK
<1> SUFFICES ASSUME Answer(q, s)' # Missing PROVE Answer(q, s)' = Answer(q, s)
  OBVIOUS
<1>2. ~(q >= live'[s].start)
  BY <1>1
<1>3. Answer(q, s)' = a /\ a # Missing
  BY <1>2 DEF Answer, BeforeEarliest
<1>4. /\ r \in 0..m /\ r # 0 /\ a = ring'[s][r] /\ a.start <= q
      /\ r < m => q < ring'[s][r + 1].start
  BY <1>1, <1>3, PrevSpec
<1> HIDE DEF a, r
<1>5. CASE /\ m = n + 1
           /\ ring'[s][n + 1] = live[s]
           /\ \A i \in 1..n : ring'[s][i] = ring[s][i]
  <2> HIDE DEF n, m
  <2>1. r \in 1..n
    BY <1>1, <1>4, <1>5
  <2>2. ring'[s][r] = ring[s][r]
    BY <1>5, <2>1
  <2>3. r < n => q < ring[s][r + 1].start
    <3> SUFFICES ASSUME r < n PROVE q < ring[s][r + 1].start
      OBVIOUS
    <3> DEFINE i == r + 1
    <3>1. i \in 1..n /\ r < m
      BY <1>1, <1>5, <2>1
    <3>2. ring'[s][i] = ring[s][i]
      <4> HIDE DEF i
      <4> QED BY <1>5, <3>1
    <3> QED BY <1>4, <3>1, <3>2
  <2>4. Answer(q, s) = ring[s][r]
    BY <1>4, <2>1, <2>2, <2>3, OneAnswer DEF n
  <2> QED BY <1>3, <1>4, <2>2, <2>4
<1>6. CASE /\ n >= 1 /\ m = n
           /\ ring'[s][n] = live[s]
           /\ \A i \in 1..(n - 1) : ring'[s][i] = ring[s][i + 1]
  <2> HIDE DEF n, m
  <2> DEFINE k == r + 1
  <2>1. r \in 1..(n - 1) /\ k \in 1..n
    BY <1>1, <1>4, <1>6
  <2>2. ring'[s][r] = ring[s][k]
    BY <1>6, <2>1
  <2>3. k < n => q < ring[s][k + 1].start
    <3> SUFFICES ASSUME k < n PROVE q < ring[s][k + 1].start
      OBVIOUS
    <3>1. k \in 1..(n - 1) /\ r < m
      BY <1>1, <1>6, <2>1
    <3>2. ring'[s][k] = ring[s][k + 1]
      <4> HIDE DEF k
      <4> QED BY <1>6, <3>1
    <3> QED BY <1>4, <3>1, <3>2
  <2> HIDE DEF k
  <2>4. Answer(q, s) = ring[s][k]
    BY <1>4, <2>1, <2>2, <2>3, OneAnswer DEF n
  <2> QED BY <1>3, <1>4, <2>2, <2>4
<1> QED BY <1>5, <1>6, PushRing

\* What the engine does to the ring of a side.
LEMMA EnginePushes ==
  ASSUME HistoryType, Engine, NEW s \in Side
  PROVE  \/ ring'[s] = ring[s]
         \/ push(s) /\ live' = live
<1>1. ASSUME NEW m, m.side \in Side, NEW over, BeginWrite(m, over)
      PROVE  \/ ring'[s] = ring[s]
             \/ push(s) /\ live' = live
  <2>1. CASE m.side # s /\ push(m.side)
    <3>1. ring'[s] = ring[s]
      BY <1>1, <2>1, PushRing
    <3> QED BY <3>1
  <2> QED BY <1>1, <2>1 DEF BeginWrite
<1>2. \A kind, t, ts : Message(kind, t, ts).side = t
  BY DEF Message
<1>3. "Yes" \in Side /\ "No" \in Side
  BY DEF Side
<1>4. CASE \E ts \in Time : tryPatch(ts)
  BY <1>4 DEF tryPatch, BeginWrite
<1>5. CASE \E ts \in Time, t \in Side : recordOrderbookDelta(t, ts)
  BY <1>1, <1>2, <1>5 DEF recordOrderbookDelta
<1>6. CASE recordOrderbookSnapshot
  BY <1>1, <1>2, <1>3, <1>6 DEF recordOrderbookSnapshot
<1>7. CASE WriteNo
  <2>1. engine \in Applying
    BY <1>7, EngineIs DEF WriteNo, Free
  <2>2. [engine EXCEPT !.side = "No"].side = "No"
    BY <2>1 DEF Applying
  <2> QED BY <1>1, <1>3, <1>7, <2>2 DEF WriteNo
<1>8. CASE Mismatch \/ Publish \/ Flag \/ Stamp \/ Clear
  BY <1>8 DEF Mismatch, Publish, Flag, Stamp, Clear
<1> QED BY <1>4, <1>5, <1>6, <1>7, <1>8 DEF Engine

LEMMA EngineStable ==
  ASSUME HistoryInv, HistoryInv', Engine, patches' = 0, NEW s \in Side, NEW q \in Int,
         q < live[s].start
  PROVE  Answer(q, s)' \in {Answer(q, s), Missing}
<1>1. HistoryType /\ HistoryType' /\ patches = 0 /\ StoreInv /\ RingInv(s)
  BY PatchesGrow DEF HistoryInv, StoreInv
<1>2. live[s].start <= live'[s].start
  BY <1>1, EngineKeeps
<1>3. live[s].start \in Int /\ live'[s].start \in Int
  <2>1. live[s] \in Entry /\ live'[s] \in Entry
    BY <1>1 DEF HistoryType, TypeOK
  <2> QED BY <2>1, BooksOf, <1>1 DEF Entry, Time
<1>4. ~(q >= live[s].start) /\ ~(q >= live'[s].start)
  BY <1>2, <1>3
<1>5. CASE ring'[s] = ring[s]
  BY <1>4, <1>5 DEF Answer, BeforeEarliest
<1>6. CASE push(s) /\ live' = live
  BY <1>1, <1>6, PushStable
<1> QED BY <1>1, <1>5, <1>6, EnginePushes

\* The steps that are not the engine's leave the store as it is.
LEMMA NotEngine ==
  ASSUME [PanelNext]_allVars, ~Engine
  PROVE  live' = live /\ ring' = ring
BY DEF PanelNext, PanelTick, Tick, PanelEngine, Past, get, Call, Return, Getting, LoadInvalid,
       LoadStamp, GetEarliest, ReadLive, Search, Step, fetchData, FetchYes, FetchNo, Show,
       allVars, vars, storeVars

LEMMA AlwaysInvariant == PanelSpec => [](HistoryInv /\ PanelInv)
<1>1. PanelInit => HistoryInv /\ PanelInv
  BY HistoryInitially, PanelInitially DEF PanelInit
<1>2. HistoryInv /\ PanelInv /\ [PanelNext]_allVars => HistoryInv' /\ PanelInv'
  BY HistoryStep, PanelStep
<1> QED BY <1>1, <1>2, PTL DEF PanelSpec

\* The types of the store, the reader and the panel.
THEOREM PanelTypeCorrect == PanelSpec => []PanelTypeOK
<1>1. HistoryInv /\ PanelInv => PanelTypeOK
  <2> SUFFICES ASSUME HistoryInv, PanelInv PROVE PanelTypeOK
    OBVIOUS
  <2>1. HistoryType /\ TypeOK
    BY DEF HistoryInv, HistoryType
  <2> QED BY <2>1, PanelTypes DEF PanelTypeOK, PanelInv
<1> QED BY <1>1, AlwaysInvariant, PTL

\* get never answers from the future, for any length of the ring and whatever a
\* patch has done to the order of its entries.
THEOREM NeverFromTheFuture == PanelSpec => []NotFromTheFuture
<1>1. HistoryInv => NotFromTheFuture
  BY DEF HistoryInv, HistoryType
<1> QED BY <1>1, AlwaysInvariant, PTL

\* Until the first patch a get is as fresh as its call, however many writes of the
\* engine come between its checks.
THEOREM GetIsFresh == PanelSpec => []FreshAnswer
<1>1. HistoryInv => FreshAnswer
  <2> SUFFICES ASSUME HistoryInv, patches = 0, Answered PROVE rd.result.book >= rd.known
    BY DEF FreshAnswer
  <2>1. HistoryType /\ ReaderInv
    BY DEF HistoryInv
  <2>2. rd.pc # "idle" /\ rd.result \in Entry /\ rd.known \in Int
    BY <2>1, ReadingIs DEF Answered
  <2>3. rd.known <= rd.result.book
    BY <2>1, <2>2 DEF ReaderInv, Owes
  <2>4. rd.result.book \in Int
    BY <2>2, MissingIsNoEntry
  <2> QED BY <2>2, <2>3, <2>4
<1> QED BY <1>1, AlwaysInvariant, PTL

\* Until the first patch a get that returns none was refused, or the ring has
\* dropped the book it would have returned when it was called.
THEOREM NoneOnlyIfGone == PanelSpec => []NoneMeansGone
<1>1. HistoryInv => NoneMeansGone
  BY DEF HistoryInv, ReaderInv, NoneMeansGone
<1> QED BY <1>1, AlwaysInvariant, PTL

\* Until the first patch the answer for a time before the live book stays what it
\* is until the ring drops it: rollovers, pushes and writes change only what comes
\* after.
THEOREM ThePastIsStable == PanelSpec => PastIsStable
<1> DEFINE Stable ==
      patches' = 0 =>
        \A q \in Query, s \in Side :
          q < live[s].start => Answer(q, s)' \in {Answer(q, s), Missing}
<1>1. HistoryInv /\ PanelInv /\ HistoryInv' /\ [PanelNext]_allVars => Stable
  <2> SUFFICES ASSUME HistoryInv, HistoryInv', [PanelNext]_allVars, patches' = 0,
                      NEW q \in Query, NEW s \in Side, q < live[s].start
               PROVE  Answer(q, s)' \in {Answer(q, s), Missing}
    OBVIOUS
  <2>1. q \in Int
    BY HistoryAssumption DEF HistoryAssumption
  <2>2. CASE Engine
    BY <2>1, <2>2, EngineStable
  <2>3. CASE ~Engine
    <3>1. live' = live /\ ring' = ring
      BY <2>3, NotEngine
    <3> QED BY <3>1 DEF Answer, BeforeEarliest
  <2> QED BY <2>2, <2>3
<1> HIDE DEF Stable
<1>2. HistoryInv /\ PanelInv /\ HistoryInv' /\ [PanelNext]_allVars => [Stable]_vars
  BY <1>1
<1>3. PanelSpec => [][Stable]_vars
  BY <1>2, AlwaysInvariant, PTL DEF PanelSpec
<1> QED BY <1>3 DEF PastIsStable, Stable

\* Until the first patch no side goes back on screen to an older book, although a
\* frame asks for its time and not for the last book, and may be refused one side
\* and not the other.
THEOREM ScreenNeverGoesBack == PanelSpec => ShownNeverGoesBack
<1> DEFINE Grows == patches' = 0 => \A s \in Side : shown'[s] >= shown[s]
<1>1. HistoryInv /\ PanelInv /\ [PanelNext]_allVars => Grows
  BY PanelStep
<1> HIDE DEF Grows
<1>2. HistoryInv /\ PanelInv /\ [PanelNext]_allVars => [Grows]_allVars
  BY <1>1
<1>3. PanelSpec => [][Grows]_allVars
  BY <1>2, AlwaysInvariant, PTL DEF PanelSpec
<1> QED BY <1>3 DEF ShownNeverGoesBack, Grows

-----------------------------------------------------------------------------
(***************************************************************************)
(* The lock that the live book is written and read under: what             *)
(* SeqLockWrapper::read returns, for any number of readers and words.      *)
(***************************************************************************)
USE SeqLockAssumption DEF SeqLockAssumption

\* The sequence number is odd exactly while the modifier runs; the words it
\* has set carry the number it will publish, the others the number before.
LockWriter ==
  /\ wpc = "idle" <=> Even(seq)
  /\ \A w \in Word :
       data[w] = IF Even(seq) THEN seq
                 ELSE IF w \in unwritten THEN seq - 1 ELSE seq + 1

\* Word w of r's snapshot was copied during the current call.
Fresh(r, w) == begun[r] <= snapshot[r][w] + 1 /\ snapshot[r][w] <= seq + 1

LockReader(r) ==
  /\ begun[r] <= seq /\ seq0[r] <= seq /\ seq1[r] <= seq
  /\ rpc[r] = "load" =>
       seq1[r] = 0 \/ \A w \in Word : Fresh(r, w)
  /\ rpc[r] = "copy" =>
       /\ Even(seq0[r])
       /\ begun[r] <= seq0[r]
       /\ \A w \in Word : w \notin uncopied[r] =>
            Fresh(r, w) /\ (seq = seq0[r] => snapshot[r][w] = seq0[r])
  /\ rpc[r] = "test" =>
       /\ begun[r] <= seq0[r]
       /\ Even(seq0[r]) =>
            /\ \A w \in Word : Fresh(r, w)
            /\ seq0[r] = seq1[r] => \A w \in Word : snapshot[r][w] = seq0[r]
       /\ ~Even(seq0[r]) => seq1[r] = 0 \/ \A w \in Word : Fresh(r, w)
  /\ rpc[r] = "done" =>
       /\ begun[r] <= seq0[r]
       /\ \A w \in Word : Fresh(r, w)
       /\ Even(seq0[r]) => \A w \in Word : snapshot[r][w] = seq0[r]

\* The inductive invariant.
LockInv == LockTypeOK /\ LockWriter /\ \A r \in Reader : LockReader(r)

\* Adding one changes the parity.
LEMMA LockParity == \A n \in Int : Even(n + 1) <=> ~Even(n)
  BY DEF Even

LEMMA LockInitially == LockInit => LockInv
<1> SUFFICES ASSUME LockInit PROVE LockInv
  OBVIOUS
<1> USE DEF LockInit
<1>1. LockTypeOK
  BY DEF LockTypeOK, Content, SeqNumber, Initially
<1>2. LockWriter
  BY DEF LockWriter, Even, Initially
<1>3. ASSUME NEW r \in Reader PROVE LockReader(r)
  <2>1. /\ rpc[r] = "idle"
        /\ begun[r] = 0 /\ seq0[r] = 0 /\ seq1[r] = 0 /\ seq = 0
    OBVIOUS
  <2> QED BY <2>1 DEF LockReader
<1> QED BY <1>1, <1>2, <1>3 DEF LockInv

\* Every step keeps the types.
LEMMA LockTypes == LockInv /\ [LockNext]_lockVars => LockTypeOK'
<1> SUFFICES ASSUME LockInv, [LockNext]_lockVars PROVE LockTypeOK'
  OBVIOUS
<1> USE DEF LockInv, LockTypeOK, Content
<1>1. CASE WriteBegin
  BY <1>1 DEF WriteBegin, SeqNumber, readerVars
<1>2. ASSUME NEW w \in Word, WriteWord(w) PROVE LockTypeOK'
  <2>1. ~Even(seq) /\ seq # 2 * MaxWrites
    BY <1>2 DEF WriteWord, LockWriter, Even
  <2>2. seq + 1 \in SeqNumber
    BY <2>1 DEF SeqNumber
  <2> QED BY <1>2, <2>2 DEF WriteWord, readerVars
<1>3. CASE WriteEnd
  <2>1. ~Even(seq) /\ seq # 2 * MaxWrites
    BY <1>3 DEF WriteEnd, LockWriter, Even
  <2>2. seq + 1 \in SeqNumber
    BY <2>1 DEF SeqNumber
  <2> QED BY <1>3, <2>2 DEF WriteEnd, readerVars
<1>4. ASSUME NEW r \in Reader, Read(r) PROVE LockTypeOK'
  <2> USE DEF Goto, writerVars
  <2>1. CASE ReadCall(r)
    <3>1. Initially \in [Word -> SeqNumber] /\ 0 \in SeqNumber
      BY DEF Initially, SeqNumber
    <3> QED BY <2>1, <3>1 DEF ReadCall
  <2>2. CASE LoadOdd(r)
    BY <2>2 DEF LoadOdd
  <2>3. CASE LoadEven(r)
    BY <2>3 DEF LoadEven
  <2>4. CASE Reload(r)
    BY <2>4 DEF Reload
  <2>5. CASE Test(r)
    BY <2>5 DEF Test
  <2>6. CASE ReadReturn(r)
    BY <2>6 DEF ReadReturn
  <2>7. ASSUME NEW w \in Word, CopyWord(r, w) PROVE LockTypeOK'
    BY <2>7 DEF CopyWord
  <2> QED BY <1>4, <2>1, <2>2, <2>3, <2>4, <2>5, <2>6, <2>7 DEF Read
<1>5. CASE UNCHANGED lockVars
  BY <1>5 DEF lockVars, writerVars, readerVars
<1> QED BY <1>1, <1>2, <1>3, <1>4, <1>5 DEF LockNext, Write

\* The writer keeps its part of the invariant.
LEMMA LockNextWriter == LockInv /\ [LockNext]_lockVars => LockWriter'
<1> SUFFICES ASSUME LockInv, [LockNext]_lockVars PROVE LockWriter'
  OBVIOUS
<1> USE DEF LockInv, LockTypeOK, Content, LockWriter, SeqNumber
<1>1. CASE WriteBegin
  <2>1. Even(seq) /\ seq' = seq + 1 /\ wpc' = "modify"
        /\ unwritten' = Word /\ data' = data
    BY <1>1 DEF WriteBegin
  <2>2. ~Even(seq')
    BY <2>1, LockParity
  <2>3. \A w \in Word : data'[w] = seq
    BY <2>1
  <2> QED BY <2>1, <2>2, <2>3
<1>2. ASSUME NEW w \in Word, WriteWord(w) PROVE LockWriter'
  <2>1. /\ wpc = "modify" /\ seq' = seq /\ wpc' = wpc
        /\ data' = [data EXCEPT ![w] = seq + 1]
        /\ unwritten' = unwritten \ {w}
    BY <1>2 DEF WriteWord
  <2>2. ~Even(seq)
    BY <2>1
  <2>3. ASSUME NEW v \in Word
        PROVE  data'[v] = IF v \in unwritten' THEN seq - 1 ELSE seq + 1
    BY <2>1, <2>2
  <2> QED BY <2>1, <2>2, <2>3
<1>3. CASE WriteEnd
  <2>1. /\ wpc = "modify" /\ unwritten = {} /\ seq' = seq + 1
        /\ wpc' = "idle" /\ data' = data
    BY <1>3 DEF WriteEnd
  <2>2. ~Even(seq) /\ Even(seq')
    BY <2>1, LockParity
  <2>3. \A w \in Word : data'[w] = seq'
    BY <2>1, <2>2
  <2> QED BY <2>1, <2>2, <2>3
<1>4. CASE UNCHANGED writerVars
  BY <1>4 DEF writerVars
<1> QED
  BY <1>1, <1>2, <1>3, <1>4
     DEF LockNext, Write, Read, ReadCall, LoadOdd, LoadEven, CopyWord, Reload, Test,
         ReadReturn, lockVars

\* A step of the writer, or of another reader, does not disturb a reader: what
\* it copied is still fresh, and once the sequence number moves past seq0 it
\* never comes back.
LEMMA LockNextOther ==
  ASSUME LockInv, LockTypeOK', [LockNext]_lockVars, NEW r \in Reader, LockReader(r),
         seq' = seq \/ seq' = seq + 1,
         rpc'[r] = rpc[r], seq0'[r] = seq0[r], seq1'[r] = seq1[r],
         snapshot'[r] = snapshot[r], uncopied'[r] = uncopied[r],
         begun'[r] = begun[r]
  PROVE  LockReader(r)'
<1>1. /\ seq \in Nat /\ seq0[r] \in Nat /\ seq1[r] \in Nat /\ begun[r] \in Nat
      /\ \A w \in Word : snapshot[r][w] \in Nat
  BY DEF LockInv, LockTypeOK, Content, SeqNumber
<1>2. seq <= seq' /\ seq' \in Nat
  BY <1>1
<1>3. ASSUME NEW w \in Word, Fresh(r, w) PROVE Fresh(r, w)'
  BY <1>1, <1>2, <1>3 DEF Fresh
<1>4. seq0[r] <= seq /\ (seq' = seq0[r] => seq = seq0[r])
  BY <1>1, <1>2 DEF LockReader
<1>5. begun'[r] <= seq' /\ seq0'[r] <= seq' /\ seq1'[r] <= seq'
  BY <1>1, <1>2 DEF LockReader
<1> QED BY <1>3, <1>4, <1>5 DEF LockReader

\* A step of the reader itself.
LEMMA LockNextSelf ==
  ASSUME LockInv, LockTypeOK', NEW r \in Reader, LockReader(r), Read(r)
  PROVE  LockReader(r)'
<1> USE DEF Goto, writerVars
<1>1. /\ seq \in Nat /\ seq0[r] \in Nat /\ seq1[r] \in Nat /\ begun[r] \in Nat
      /\ \A w \in Word : snapshot[r][w] \in Nat /\ data[w] \in Nat
      /\ begun[r] <= seq /\ seq0[r] <= seq /\ seq1[r] <= seq
  BY DEF LockInv, LockTypeOK, Content, SeqNumber, LockReader
<1>2. CASE ReadCall(r)
  <2>1. /\ rpc'[r] = "load" /\ begun'[r] = seq /\ seq0'[r] = 0 /\ seq1'[r] = 0
        /\ seq' = seq
    BY <1>2 DEF ReadCall, LockInv, LockTypeOK
  <2> QED BY <1>1, <2>1 DEF LockReader
<1>3. CASE LoadOdd(r)
  <2>1. /\ rpc[r] = "load" /\ rpc'[r] = "test" /\ ~Even(seq) /\ seq' = seq
        /\ seq0'[r] = seq /\ UNCHANGED <<seq1, snapshot, begun>>
    BY <1>3 DEF LoadOdd, LockInv, LockTypeOK
  <2>2. \A w \in Word : Fresh(r, w) => Fresh(r, w)'
    BY <2>1 DEF Fresh
  <2>3. begun[r] <= seq
    BY <1>1
  <2>4. seq1[r] = 0 \/ \A w \in Word : Fresh(r, w)
    BY <2>1 DEF LockReader
  <2> QED BY <1>1, <2>1, <2>2, <2>4 DEF LockReader
<1>4. CASE LoadEven(r)
  <2>1. /\ rpc'[r] = "copy" /\ Even(seq) /\ seq' = seq /\ seq0'[r] = seq
        /\ uncopied'[r] = Word /\ UNCHANGED <<seq1, snapshot, begun>>
    BY <1>4 DEF LoadEven, LockInv, LockTypeOK
  <2> QED BY <1>1, <2>1 DEF LockReader
<1>5. ASSUME NEW v \in Word, CopyWord(r, v) PROVE LockReader(r)'
  <2>1. /\ rpc[r] = "copy" /\ rpc'[r] = "copy" /\ seq' = seq
        /\ uncopied'[r] = uncopied[r] \ {v}
        /\ UNCHANGED <<seq0, seq1, begun>>
        /\ \A w \in Word : snapshot'[r][w] = IF w = v THEN data[v]
                                                     ELSE snapshot[r][w]
    BY <1>5 DEF CopyWord, LockInv, LockTypeOK, Content
  <2>2. /\ Even(seq0[r]) /\ begun[r] <= seq0[r]
        /\ \A w \in Word : w \notin uncopied[r] =>
             Fresh(r, w) /\ (seq = seq0[r] => snapshot[r][w] = seq0[r])
    BY <2>1 DEF LockReader
  <2>3. /\ data[v] <= seq + 1 /\ seq <= data[v] + 1
        /\ seq = seq0[r] => data[v] = seq0[r]
    BY <1>1, <2>2 DEF LockInv, LockWriter
  <2>4. ASSUME NEW w \in Word, w \notin uncopied'[r]
        PROVE  Fresh(r, w)' /\ (seq' = seq0'[r] => snapshot'[r][w] = seq0'[r])
    <3>1. CASE w = v
      BY <1>1, <2>1, <2>2, <2>3, <3>1 DEF Fresh
    <3>2. CASE w # v
      BY <2>1, <2>2, <2>4, <3>2 DEF Fresh
    <3> QED BY <3>1, <3>2
  <2> QED BY <1>1, <2>1, <2>2, <2>4 DEF LockReader
<1>6. CASE Reload(r)
  <2>1. /\ rpc[r] = "copy" /\ rpc'[r] = "test" /\ seq' = seq
        /\ uncopied[r] = {} /\ seq1'[r] = seq
        /\ UNCHANGED <<seq0, snapshot, begun>>
    BY <1>6 DEF Reload, LockInv, LockTypeOK
  <2>2. /\ Even(seq0[r]) /\ begun[r] <= seq0[r]
        /\ \A w \in Word :
             Fresh(r, w) /\ (seq = seq0[r] => snapshot[r][w] = seq0[r])
    BY <2>1 DEF LockReader
  <2>3. \A w \in Word : Fresh(r, w)'
    BY <2>1, <2>2 DEF Fresh
  <2> QED BY <1>1, <2>1, <2>2, <2>3 DEF LockReader
<1>7. CASE Test(r)
  <2>1. /\ rpc[r] = "test" /\ seq' = seq
        /\ rpc'[r] = IF seq0[r] = seq1[r] THEN "done" ELSE "load"
        /\ UNCHANGED <<seq0, seq1, snapshot, begun>>
    BY <1>7 DEF Test, LockInv, LockTypeOK
  <2>2. \A w \in Word : Fresh(r, w) => Fresh(r, w)'
    BY <2>1 DEF Fresh
  <2>3. Even(0)
    BY DEF Even
  <2> QED BY <1>1, <2>1, <2>2, <2>3 DEF LockReader
<1>8. CASE ReadReturn(r)
  <2>1. /\ rpc'[r] = "idle" /\ seq' = seq
        /\ UNCHANGED <<seq0, seq1, snapshot, begun>>
    BY <1>8 DEF ReadReturn, LockInv, LockTypeOK
  <2> QED BY <1>1, <2>1 DEF LockReader
<1> QED BY <1>2, <1>3, <1>4, <1>5, <1>6, <1>7, <1>8 DEF Read

LEMMA LockNextReader == LockInv /\ LockTypeOK' /\ [LockNext]_lockVars => \A r \in Reader : LockReader(r)'
<1> SUFFICES ASSUME LockInv, LockTypeOK', [LockNext]_lockVars, NEW r \in Reader
             PROVE  LockReader(r)'
  OBVIOUS
<1>0. LockReader(r)
  BY DEF LockInv
<1>1. CASE Write \/ UNCHANGED lockVars
  <2>1. seq' = seq \/ seq' = seq + 1
    BY <1>1 DEF Write, WriteBegin, WriteWord, WriteEnd, lockVars, writerVars
  <2>2. UNCHANGED readerVars
    BY <1>1 DEF Write, WriteBegin, WriteWord, WriteEnd, lockVars
  <2> QED BY <1>0, <2>1, <2>2, LockNextOther DEF readerVars
<1>2. CASE Read(r)
  BY <1>0, <1>2, LockNextSelf
<1>3. ASSUME NEW q \in Reader, q # r, Read(q) PROVE LockReader(r)'
  <2>1. seq' = seq
    BY <1>3 DEF Read, ReadCall, LoadOdd, LoadEven, CopyWord, Reload, Test,
                ReadReturn, writerVars
  <2>2. /\ rpc'[r] = rpc[r] /\ seq0'[r] = seq0[r] /\ seq1'[r] = seq1[r]
        /\ snapshot'[r] = snapshot[r] /\ uncopied'[r] = uncopied[r]
        /\ begun'[r] = begun[r]
    BY <1>3 DEF Read, ReadCall, LoadOdd, LoadEven, CopyWord, Reload, Test,
                ReadReturn, Goto, LockInv, LockTypeOK
  <2> QED BY <1>0, <2>1, <2>2, LockNextOther
<1> QED BY <1>1, <1>2, <1>3 DEF LockNext

LEMMA LockInvariance == LockSpec => []LockInv
<1>1. LockInit => LockInv
  BY LockInitially
<1>2. LockInv /\ [LockNext]_lockVars => LockInv'
  BY LockTypes, LockNextWriter, LockNextReader DEF LockInv
<1> QED BY <1>1, <1>2, PTL DEF LockSpec

\* The state keeps its types.
THEOREM SeqLockType == LockSpec => []LockTypeOK
  BY LockInvariance, PTL DEF LockInv

\* A read that ends on an even sequence number is atomic and no older than
\* the call, for every number of readers, words and writes.
THEOREM EvenReadAtomic == LockSpec => []EvenReadIsAtomic
<1>1. LockInv => EvenReadIsAtomic
  <2> SUFFICES ASSUME LockInv, NEW r \in Reader, rpc[r] = "done", Even(seq0[r])
               PROVE  /\ \A w \in Word : snapshot[r][w] = seq0[r]
                      /\ begun[r] <= seq0[r] + 1
    BY DEF EvenReadIsAtomic
  <2>1. LockReader(r) /\ begun[r] \in Nat /\ seq0[r] \in Nat
    BY DEF LockInv, LockTypeOK, SeqNumber
  <2> QED BY <2>1 DEF LockReader
<1> QED BY <1>1, LockInvariance, PTL

\* Whatever read returns was copied during the call.
THEOREM ReadFresh == LockSpec => []ReadIsFresh
<1>1. LockInv => ReadIsFresh
  BY DEF LockInv, ReadIsFresh, LockReader, Fresh
<1> QED BY <1>1, LockInvariance, PTL

=============================================================================
