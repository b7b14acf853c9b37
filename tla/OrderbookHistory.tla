-------------------------- MODULE OrderbookHistory --------------------------
(***************************************************************************)
(* OrderbookStore::get: the live books of the two sides, the rings of      *)
(* their books of past seconds, and a reader that asks for one side at a   *)
(* timestamp while the engine applies deltas, the first snapshot and REST  *)
(* patches.                                                                *)
(*                                                                         *)
(* The engine's write of a live book is one critical section of its        *)
(* SeqLockWrapper: a reader of that book waits for its end, but sees the   *)
(* push into the ring, made inside it.  A read of a ring is atomic         *)
(* (SeqLock and HistoryRing have the exceptions).  Sequence numbers and    *)
(* quantities are OrderbookSync's; here the book of a side is the message  *)
(* that last changed it, counted over both sides, 0 the empty book the     *)
(* store is made with, and a message may be a mismatch or lead to a        *)
(* negative level whenever it likes.  A delta names one of the two sides.  *)
(***************************************************************************)
EXTENDS Integers, Sequences

CONSTANTS
  Second,    \* ORDERBOOK_HISTORY_GRANULARITY_MS, in ticks
  Minute,    \* CANDLESTICK_HISTORY_GRANULARITY_MS, in ticks
  Steps,     \* ORDERBOOK_HISTORY_STEPS
  Ahead,     \* bound: ticks by which the exchange's clock is ahead of ours
  MaxTime,   \* bound: the last tick
  MaxBook,   \* bound: messages that change the books
  MaxPatch,  \* bound: REST snapshots
  Query      \* arguments of get

ASSUME HistoryAssumption ==
  /\ Second \in Nat \ {0} /\ Minute \in Nat /\ Second < Minute /\ Minute % Second = 0
  /\ Steps \in Nat \ {0} /\ Ahead \in Nat
  /\ MaxTime \in Nat /\ MaxTime >= Minute /\ MaxBook \in Nat /\ MaxPatch \in Nat
  /\ Query \subseteq 0..MaxTime

VARIABLES
  now,            \* the system clock
  exchange,       \* the timestamp of the last delta
  live,           \* yes_ and no_live_snapshot_: a book and its start_timestamp_ms_
  ring,           \* yes_buffer_ and no_buffer_, oldest first
  invalid_state,
  last_valid_timestamp,
  engine,         \* the message being applied and what has still to be stored
  patches,        \* REST snapshots so far
  rd,             \* the reader's position and locals in get
  evicted         \* ghost: the newest book each ring has dropped

storeVars == <<live, ring, invalid_state, last_valid_timestamp, engine, evicted>>
vars == <<now, exchange, patches, storeVars, rd>>

Side == {"Yes", "No"}
Time == 0..MaxTime
computeTimeBucket(t, size) == (t \div size) * size

Entry == [book : 0..MaxBook, start : Time]
Missing == [book |-> -1]  \* std::nullopt

Free == [pc |-> "free"]
Applying == [pc : {"publish", "enter", "flag", "stamp", "clear"},
             kind : {"delta", "snapshot", "patch"}, side : Side, book : 1..MaxBook,
             ts : Time]

Idle == [pc |-> "idle"]
ReaderPc == {"invalid", "stamp", "earliest", "live", "search", "done"}

TypeOK ==
  /\ now \in Time /\ exchange \in Time
  /\ live \in [Side -> Entry]
  /\ \A s \in Side : ring[s] \in Seq(Entry) /\ Len(ring[s]) <= Steps
  /\ invalid_state \in BOOLEAN
  /\ last_valid_timestamp \in Time
  /\ engine \in {Free} \cup Applying
  /\ patches \in 0..MaxPatch
  /\ rd.pc \in {"idle"} \cup ReaderPc
  /\ evicted \in [Side -> -1..MaxBook]

Init ==
  /\ now = Minute /\ exchange = Minute
  /\ live = [s \in Side |-> [book |-> 0, start |-> 0]]
  /\ ring = [s \in Side |-> <<>>]
  /\ invalid_state = FALSE
  /\ last_valid_timestamp = 0
  /\ engine = Free
  /\ patches = 0
  /\ rd = Idle
  /\ evicted = [s \in Side |-> -1]

Tick ==
  /\ now < MaxTime
  /\ now' = now + 1
  /\ UNCHANGED <<exchange, patches, storeVars, rd>>

(***************************************************************************)
(* The engine.  A write of a live book begins with the push of the book it *)
(* replaces, if that book's time is over.                                  *)
(***************************************************************************)
Applied == IF live["Yes"].book > live["No"].book THEN live["Yes"].book ELSE live["No"].book

\* Mutant: the tail does not follow a full ring.
MutPush(s) == ring' = [ring EXCEPT ![s] = Append(@, live[s])] /\ UNCHANGED evicted

push(s) ==
  IF Len(ring[s]) = Steps
  THEN /\ ring' = [ring EXCEPT ![s] = Append(Tail(@), live[s])]
       /\ evicted' = [evicted EXCEPT ![s] = ring[s][1].book]
  ELSE ring' = [ring EXCEPT ![s] = Append(@, live[s])] /\ UNCHANGED evicted

\* Mutant: any other second than the live one begins a new book.
MutSecondOver(s, t, size) ==
  computeTimeBucket(t, Second) # computeTimeBucket(live[s].start, size)

SecondOver(s, t, size) == t > computeTimeBucket(live[s].start, size) + Second

BeginWrite(m, over) ==
  /\ IF over THEN push(m.side) ELSE UNCHANGED <<ring, evicted>>
  /\ engine' = [m EXCEPT !.pc = "publish"]
  /\ UNCHANGED <<now, live, invalid_state, last_valid_timestamp, rd>>

Message(kind, s, ts) ==
  [pc |-> "enter", kind |-> kind, side |-> s, book |-> Applied + 1, ts |-> ts]

\* The engine takes a message from its queues.
Take == engine = Free /\ Applied < MaxBook

\* recordOrderbookDelta.  The exchange's timestamps do not go backwards.
recordOrderbookDelta(s, ts) ==
  /\ Take
  /\ ~invalid_state
  /\ Applied > 0
  /\ ts >= exchange /\ ts <= now + Ahead
  /\ exchange' = ts
  /\ BeginWrite(Message("delta", s, ts), SecondOver(s, ts, Second))
  /\ UNCHANGED patches

\* recordOrderbookSnapshot, the first message of the feed: the yes side.
recordOrderbookSnapshot ==
  /\ Take
  /\ ~invalid_state
  /\ Applied = 0
  /\ BeginWrite(Message("snapshot", "Yes", now), SecondOver("Yes", now, Second))
  /\ UNCHANGED <<exchange, patches>>

\* recordOrderbookMessage when a sequence number is missing.
Mismatch ==
  /\ engine = Free
  /\ invalid_state' = TRUE
  /\ UNCHANGED <<now, exchange, patches, live, ring, last_valid_timestamp, engine,
                 evicted, rd>>

\* tryPatch: nothing is saved.  The answer has the time it was parsed at, which
\* may precede deltas that were applied since.
tryPatch(ts) ==
  /\ Take
  /\ invalid_state
  /\ patches < MaxPatch
  /\ patches' = patches + 1
  /\ ts \in Minute..now
  /\ BeginWrite(Message("patch", "Yes", ts), FALSE)
  /\ UNCHANGED exchange

\* Both messages that carry a whole book write the no side next.
WriteNo ==
  /\ engine.pc = "enter"
  /\ BeginWrite([engine EXCEPT !.side = "No"],
                engine.kind = "snapshot" /\ SecondOver("No", engine.ts, Minute))
  /\ UNCHANGED <<exchange, patches>>

\* A whole book counts from the start of the minute, a delta's from its second
\* if that is a new one.
Start(m) ==
  IF m.kind # "delta" THEN computeTimeBucket(m.ts, Minute)
  ELSE IF SecondOver(m.side, m.ts, Second) THEN computeTimeBucket(m.ts, Second)
  ELSE live[m.side].start

\* The end of the critical section.
Publish ==
  /\ engine.pc = "publish"
  /\ live' = [live EXCEPT ![engine.side] = [book |-> engine.book, start |-> Start(engine)]]
  /\ engine' = CASE engine.kind = "delta" -> [engine EXCEPT !.pc = "flag"]
                 [] engine.kind # "delta" /\ engine.side = "Yes" -> [engine EXCEPT !.pc = "enter"]
                 [] engine.kind = "patch" /\ engine.side = "No" -> [engine EXCEPT !.pc = "stamp"]
                 [] OTHER -> Free
  /\ UNCHANGED <<now, exchange, patches, ring, invalid_state, last_valid_timestamp,
                 evicted, rd>>

\* A level below zero makes the book invalid once it is there to be read.
Flag ==
  /\ engine.pc = "flag"
  /\ invalid_state' \in {invalid_state, TRUE}
  /\ engine' = [engine EXCEPT !.pc = "stamp"]
  /\ UNCHANGED <<now, exchange, patches, live, ring, last_valid_timestamp, evicted, rd>>

Stamp ==
  /\ engine.pc = "stamp"
  /\ last_valid_timestamp' = engine.ts
  /\ engine' = IF engine.kind = "patch" THEN [engine EXCEPT !.pc = "clear"] ELSE Free
  /\ UNCHANGED <<now, exchange, patches, live, ring, invalid_state, evicted, rd>>

Clear ==
  /\ engine.pc = "clear"
  /\ invalid_state' = FALSE
  /\ engine' = Free
  /\ UNCHANGED <<now, exchange, patches, live, ring, last_valid_timestamp, evicted, rd>>

Engine ==
  \/ \E ts \in Time : tryPatch(ts) \/ \E s \in Side : recordOrderbookDelta(s, ts)
  \/ recordOrderbookSnapshot \/ Mismatch
  \/ WriteNo \/ Publish \/ Flag \/ Stamp \/ Clear

(***************************************************************************)
(* RingBuffer::prev_upper_bound: a binary search for the first entry that  *)
(* starts after the query, and then the entry before it.                   *)
(***************************************************************************)
\* What is left to search: the entries before it and how many there are.
Window(n) == {w \in (0..n) \X (0..n) : w[1] + w[2] <= n}

\* Mutant: an entry that starts at the query is too late.
MutUpperBound(entries, q) ==
  LET n == Len(entries)
      search[w \in Window(n)] ==
        LET first == w[1]
            half == w[2] \div 2
            middle == first + half
        IN  IF w[2] = 0 THEN first
            ELSE IF q <= entries[middle + 1].start THEN search[<<first, half>>]
            ELSE search[<<middle + 1, w[2] - half - 1>>]
  IN  search[<<0, n>>]

UpperBound(entries, q) ==
  LET n == Len(entries)
      search[w \in Window(n)] ==
        LET first == w[1]
            half == w[2] \div 2
            middle == first + half
        IN  IF w[2] = 0 THEN first
            ELSE IF q < entries[middle + 1].start THEN search[<<first, half>>]
            ELSE search[<<middle + 1, w[2] - half - 1>>]
  IN  search[<<0, n>>]

\* Mutant: the entry found is returned, not the one before it.
MutPrevUpperBound(entries, q) ==
  LET first == UpperBound(entries, q)
  IN  IF first = Len(entries) THEN Missing ELSE entries[first + 1]

prev_upper_bound(entries, q) ==
  LET first == UpperBound(entries, q)
  IN  IF first = 0 THEN Missing ELSE entries[first]

BeforeEarliest(q, s) == ring[s] # <<>> /\ q < ring[s][1].start

\* What get answers when nothing happens meanwhile and the book is valid.
Answer(q, s) ==
  IF BeforeEarliest(q, s) THEN Missing
  ELSE IF q >= live[s].start THEN live[s]
  ELSE prev_upper_bound(ring[s], q)

(***************************************************************************)
(* get(query, side)                                                        *)
(***************************************************************************)
Step(from, to) ==
  /\ rd.pc = from
  /\ rd' = to
  /\ UNCHANGED <<now, exchange, patches, storeVars>>

Asked(q, s, known) ==
  [pc |-> "invalid", query |-> q, side |-> s, result |-> Missing, refused |-> FALSE,
   known |-> known]

Result(entry) == [rd EXCEPT !.pc = "done", !.result = entry]

Call(q, s, known) == Step("idle", Asked(q, s, known))

LoadInvalid ==
  Step("invalid", [rd EXCEPT !.pc = IF invalid_state THEN "stamp" ELSE "earliest"])

LoadStamp ==
  Step("stamp", IF rd.query > last_valid_timestamp
                THEN [Result(Missing) EXCEPT !.refused = TRUE]
                ELSE [rd EXCEPT !.pc = "earliest"])

GetEarliest ==
  Step("earliest", IF BeforeEarliest(rd.query, rd.side) THEN Result(Missing)
                   ELSE [rd EXCEPT !.pc = "live"])

BeingWritten(s) == engine.pc = "publish" /\ engine.side = s

ReadLive ==
  /\ rd.pc = "live"
  /\ ~BeingWritten(rd.side)
  /\ Step("live", IF rd.query >= live[rd.side].start THEN Result(live[rd.side])
                  ELSE [rd EXCEPT !.pc = "search"])

Search == Step("search", Result(prev_upper_bound(ring[rd.side], rd.query)))

Return == Step("done", Idle)

\* The steps inside a call.
Getting == LoadInvalid \/ LoadStamp \/ GetEarliest \/ ReadLive \/ Search

get == \E q \in Query, s \in Side : Call(q, s, Answer(q, s).book)

Next == Tick \/ Engine \/ get \/ Getting \/ Return

Spec == Init /\ [][Next]_vars

-----------------------------------------------------------------------------
(***************************************************************************)
(* Properties.                                                             *)
(***************************************************************************)
Answered == rd.pc = "done" /\ rd.result # Missing

\* get never returns a book that started after the timestamp asked for, even
\* where a patch has left the ring out of order and the binary search goes
\* astray.
NotFromTheFuture == Answered => rd.result.start <= rd.query

\* Until the first patch a get is as fresh as its call: rollovers and pushes
\* between its checks never make it fall back to an older book.
FreshAnswer == patches = 0 /\ Answered => rd.result.book >= rd.known

\* Until the first patch get returns none for a timestamp it had a book for only
\* if the store is invalid or the ring has dropped that book meanwhile.
NoneMeansGone ==
  patches = 0 /\ rd.pc = "done" /\ rd.result = Missing =>
    rd.refused \/ rd.known <= evicted[rd.side]

\* The past does not change: until the first patch, once the live book starts
\* after a timestamp, the answer for that timestamp stays what it is until the
\* ring drops it.  orderbook_store.hpp: "fetch the data at a specific timestamp".
PastIsStable ==
  [][patches' = 0 =>
       \A q \in Query, s \in Side :
         q < live[s].start => Answer(q, s)' \in {Answer(q, s), Missing}]_vars
=============================================================================
