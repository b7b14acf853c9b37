-------------------------- MODULE CandlestickStore --------------------------
(***************************************************************************)
(* CandlestickStore: the candle of the running minute on each side, the    *)
(* candles of past minutes, and the REST requests that fill them.          *)
(*                                                                         *)
(* The engine records trades, rolls the live candle over and stores what   *)
(* REST answers; readers (get) look at the live candle, then at the        *)
(* history, then ask for the minute.  A write of the live candle is one    *)
(* critical section of its SeqLockWrapper: a reader waits for its end      *)
(* (SeqLock has the exception), but sees the puts into the history, which  *)
(* are made inside it.                                                     *)
(*                                                                         *)
(* Time is ticks of which Minute makes a minute.  The history is a SwmrMap *)
(* that is not yet full, so that nothing is evicted, and its put is one    *)
(* step.  The trade ledger is TradeDeque.                                  *)
(***************************************************************************)
EXTENDS Integers

CONSTANTS
  Reader,    \* threads that call get
  Minute,    \* CANDLESTICK_HISTORY_GRANULARITY_MS, in ticks
  Dollar,    \* 100 cents
  Cooldown,  \* REST_MESSAGE_COOLDOWN_MS, in ticks
  MaxTime,   \* bound: the last tick
  MaxSeq,    \* bound: sequence ids of trades
  Query      \* arguments of get

ASSUME CandleAssumption ==
  /\ Minute \in Nat \ {0} /\ Dollar \in 1..100 /\ Cooldown \in Nat
  /\ MaxTime \in Nat /\ MaxTime >= Minute /\ MaxSeq \in Nat
  /\ Query \subseteq 0..MaxTime

VARIABLES
  now,           \* the system clock
  live,          \* yes_live_candlestick_ and no_live_candlestick_
  history,       \* yes_map_ and no_map_
  last_message_seq,
  invalid_state,
  roll,          \* the rollover under way, if any
  last_request,  \* last_candlestick_mismatch_request_
  patches,       \* patch requests not yet answered
  fetch_history, \* candlestick_fetch_history_
  asked,         \* minutes asked for and not yet answered
  rd,            \* each reader's position and locals in get
  accepted,      \* ghost: any one of the trades that reached a candle
  fromRest       \* ghost: minutes whose history entry came from REST

engineVars == <<live, last_message_seq, invalid_state, roll, accepted>>
restVars == <<last_request, patches>>
fetchVars == <<fetch_history, asked>>
candleVars == <<now, engineVars, history, fromRest, restVars, fetchVars, rd>>

Side == {"Yes", "No"}
Time == 0..MaxTime
computeTimeBucket(t) == (t \div Minute) * Minute
Bucket == {computeTimeBucket(t) : t \in Time}

NoData == 255
Cents == 0..Dollar \cup {NoData}
Candle == [open : Cents, high : Cents, low : Cents, close : Cents, start : Bucket]
NoCandle == [start |-> -1]
EmptyCandle(start) ==
  [open |-> NoData, high |-> NoData, low |-> NoData, close |-> NoData, start |-> start]

HasData(c) == NoData \notin {c.open, c.high, c.low, c.close}

Never == -Cooldown - 1  \* no time of a request: the cooldown is over
Rolling == [side : Side, target : Bucket, store : Candle]
Still == [side |-> "none"]
Idle == [pc |-> "idle"]
NoTrade == [side |-> "none"]

CandleTypeOK ==
  /\ now \in Time
  /\ live \in [Side -> Candle]
  /\ history \in [Side -> [Bucket -> Candle \cup {NoCandle}]]
  /\ last_message_seq \in 0..MaxSeq
  /\ invalid_state \in BOOLEAN
  /\ roll \in Rolling \cup {Still}
  /\ last_request \in Time \cup {Never}
  /\ patches \in Nat
  /\ fetch_history \in [Bucket -> Time \cup {Never}]
  /\ asked \subseteq Bucket

CandleInit ==
  /\ now = 0
  /\ live = [s \in Side |-> EmptyCandle(computeTimeBucket(now))]
  /\ history = [s \in Side |-> [m \in Bucket |-> NoCandle]]
  /\ last_message_seq = 0 /\ invalid_state = FALSE
  /\ roll = Still
  /\ last_request = Never /\ patches = 0
  /\ fetch_history = [m \in Bucket |-> Never] /\ asked = {}
  /\ rd = [r \in Reader |-> Idle]
  /\ accepted = NoTrade /\ fromRest = {}

Tick ==
  /\ now < MaxTime
  /\ now' = now + 1
  /\ UNCHANGED <<engineVars, history, fromRest, restVars, fetchVars, rd>>

(***************************************************************************)
(* recordTradeMessageWs                                                    *)
(***************************************************************************)
EngineFree == roll = Still

\* Mutant: the first trade of a candle does not set its high.
MutUpdate(c, t, p) ==
  IF t < c.start THEN c
  ELSE [c EXCEPT !.open = IF @ = NoData THEN p ELSE @,
                 !.high = IF @ < p THEN p ELSE @,
                 !.low = IF @ = NoData \/ p < @ THEN p ELSE @,
                 !.close = p]

update_candlestick(c, t, p) ==
  IF t < c.start THEN c
  ELSE [c EXCEPT !.open = IF @ = NoData THEN p ELSE @,
                 !.high = IF @ = NoData \/ @ < p THEN p ELSE @,
                 !.low = IF @ = NoData \/ p < @ THEN p ELSE @,
                 !.close = p]

BeginRoll(lives, t) ==
  roll' = [side |-> "Yes", target |-> computeTimeBucket(t), store |-> lives["Yes"]]

\* A trade with the expected sequence id, not stamped after our clock: the candle
\* of the taker's side takes the price, and then both sides are rolled over to the
\* trade's minute.
RecordTrade(s, t, p) ==
  LET lives == [live EXCEPT ![s] = update_candlestick(@, t, p)]
  IN  /\ EngineFree
      /\ last_message_seq < MaxSeq
      /\ t <= now
      /\ last_message_seq' = last_message_seq + 1
      /\ live' = lives
      /\ accepted' \in {accepted} \cup
           (IF t < live[s].start THEN {} ELSE {[side |-> s, time |-> t, price |-> p]})
      /\ BeginRoll(lives, t)
      /\ UNCHANGED <<now, invalid_state, history, fromRest, restVars,
                     fetchVars, rd>>

\* A trade after a gap: it is dropped, and a patch is requested.  (The feed is a
\* TCP stream: an id is never smaller than expected.)
MissTrade(seq) ==
  /\ EngineFree
  /\ seq \in last_message_seq + 2..MaxSeq
  /\ last_message_seq' = seq
  /\ IF now - last_request <= Cooldown
     THEN UNCHANGED restVars
     ELSE last_request' = now /\ patches' = patches + 1
  /\ UNCHANGED <<now, live, invalid_state, roll, accepted, history, fromRest,
                 fetchVars, rd>>

(***************************************************************************)
(* tryRolloverCandlesticks, also called when the feed is silent.           *)
(***************************************************************************)
Heartbeat ==
  /\ EngineFree
  /\ BeginRoll(live, now)
  /\ UNCHANGED <<now, live, last_message_seq, invalid_state, accepted,
                 history, fromRest, restVars, fetchVars, rd>>

\* Mutant: the candle after a rollover starts empty.
MutNextCandle(c) == EmptyCandle(computeTimeBucket(c.start + Minute))

NextCandle(c) ==
  LET start == computeTimeBucket(c.start + Minute)
  IN  IF c.close = NoData THEN [c EXCEPT !.start = start]
      ELSE [open |-> c.close, high |-> c.close, low |-> c.close,
            close |-> c.close, start |-> start]

\* Mutant: a candle is stored under the minute that follows it.
MutRollPut ==
  /\ roll # Still
  /\ roll.store.start < roll.target
  /\ LET m == computeTimeBucket(roll.store.start + Minute)
     IN  /\ history' = [history EXCEPT ![roll.side][m] = roll.store]
         /\ fromRest' = fromRest \ {m}
  /\ roll' = [roll EXCEPT !.store = NextCandle(roll.store)]
  /\ UNCHANGED <<now, live, last_message_seq, invalid_state, accepted,
                 restVars, fetchVars, rd>>

RollPut ==
  /\ roll # Still
  /\ roll.store.start < roll.target
  /\ LET m == computeTimeBucket(roll.store.start)
     IN  /\ history' = [history EXCEPT ![roll.side][m] = roll.store]
         /\ fromRest' = fromRest \ {m}
  /\ roll' = [roll EXCEPT !.store = NextCandle(roll.store)]
  /\ UNCHANGED <<now, live, last_message_seq, invalid_state, accepted,
                 restVars, fetchVars, rd>>

RollPublish ==
  /\ roll # Still
  /\ roll.store.start >= roll.target
  /\ live' = [live EXCEPT ![roll.side] = roll.store]
  /\ roll' = IF roll.side = "Yes"
             THEN [roll EXCEPT !.side = "No", !.store = live["No"]] ELSE Still
  /\ UNCHANGED <<now, last_message_seq, invalid_state, accepted, history,
                 fromRest, restVars, fetchVars, rd>>

(***************************************************************************)
(* What REST answers (the exchange is external): candles of its yes side.  *)
(***************************************************************************)
RestCandle ==
  {c \in [open : 0..Dollar, high : 0..Dollar, low : 0..Dollar, close : 0..Dollar] :
     /\ c.low <= c.open /\ c.open <= c.high
     /\ c.low <= c.close /\ c.close <= c.high}

YesCandle(c, m) ==
  [open |-> c.open, high |-> c.high, low |-> c.low, close |-> c.close, start |-> m]

\* Mutant: the subtraction is the wrong way round.
MutNoSideCandle(c, m) ==
  [open |-> c.open - Dollar, high |-> c.high - Dollar, low |-> c.low - Dollar,
   close |-> c.close - Dollar, start |-> m]

NoSideCandle(c, m) ==
  [open |-> Dollar - c.open, high |-> Dollar - c.high, low |-> Dollar - c.low,
   close |-> Dollar - c.close, start |-> m]

CandleOf(s, c, m) == IF s = "Yes" THEN YesCandle(c, m) ELSE NoSideCandle(c, m)

\* tryPatch.  No statement of the code sets invalid_state_.
tryPatch(c, m) ==
  IF invalid_state
  THEN /\ live' = [s \in Side |-> IF m >= live[s].start THEN CandleOf(s, c, m)
                                                         ELSE live[s]]
       /\ history' = [s \in Side |-> IF m >= live[s].start THEN history[s]
                        ELSE [history[s] EXCEPT ![m] = CandleOf(s, c, m)]]
       /\ invalid_state' = FALSE
  ELSE UNCHANGED <<live, history, invalid_state>>

EnginePatch ==
  /\ EngineFree
  /\ patches > 0
  /\ patches' = patches - 1
  /\ \E c \in RestCandle, m \in Bucket : tryPatch(c, m)
  /\ UNCHANGED <<now, last_message_seq, roll, accepted, fromRest, last_request,
                 fetchVars, rd>>

\* tryStoreHistorical: the answer to a request for minute m holds the candles
\* that end between its start and its end, or some of them.
EngineStore(m) ==
  /\ EngineFree
  /\ m \in asked
  /\ asked' = asked \ {m}
  /\ \E c \in RestCandle, told \in SUBSET ({m - Minute, m} \cap Bucket) :
       /\ history' = [s \in Side |-> [b \in Bucket |->
                        IF b \in told THEN CandleOf(s, c, b) ELSE history[s][b]]]
       /\ fromRest' = fromRest \cup told
  /\ UNCHANGED <<now, engineVars, restVars, fetch_history, rd>>

(***************************************************************************)
(* get(query, side) and tryFetchHistoricalCandlestick.                     *)
(***************************************************************************)
Step(r, from, to) ==
  /\ rd[r].pc = from
  /\ rd' = [rd EXCEPT ![r] = to]
  /\ UNCHANGED <<now, engineVars, history, fromRest, restVars>>

Done(r, found) == [rd[r] EXCEPT !.pc = "done", !.found = found, !.at = Never]

Call(r) ==
  /\ \E q \in Query, s \in Side :
       Step(r, "idle",
         [pc |-> "live", query |-> q, side |-> s, found |-> FALSE, at |-> Never,
          known |-> \/ history[s][computeTimeBucket(q)] # NoCandle
                    \/ q >= live[s].start /\ HasData(live[s])])
  /\ UNCHANGED fetchVars

\* The seqlock lets nobody read a live candle once its rollover has begun.
ReadLive(r) ==
  LET c == live[rd[r].side]
  IN  /\ rd[r].pc = "live"
      /\ roll.side = rd[r].side => roll.store = c
      /\ IF rd[r].query >= c.start /\ HasData(c)
         THEN Step(r, "live", Done(r, TRUE))
         ELSE Step(r, "live", [rd[r] EXCEPT !.pc = "map"])
      /\ UNCHANGED fetchVars

ReadHistory(r) ==
  /\ rd[r].pc = "map"
  /\ LET c == history[rd[r].side][computeTimeBucket(rd[r].query)]
     IN  IF c # NoCandle THEN Step(r, "map", Done(r, TRUE))
                         ELSE Step(r, "map", [rd[r] EXCEPT !.pc = "fetch"])
  /\ UNCHANGED fetchVars

FetchLook(r) ==
  /\ rd[r].pc = "fetch"
  /\ IF now - fetch_history[computeTimeBucket(rd[r].query)] <= Cooldown
     THEN Step(r, "fetch", Done(r, FALSE))
     ELSE Step(r, "fetch", [rd[r] EXCEPT !.pc = "put", !.at = now])
  /\ UNCHANGED fetchVars

\* The put of the time of the request (SwmrMap), then the request.
FetchSend(r) ==
  /\ Step(r, "put", Done(r, FALSE))
  /\ LET m == computeTimeBucket(rd[r].query)
     IN  /\ fetch_history' = [fetch_history EXCEPT ![m] = rd[r].at]
         /\ asked' = asked \cup {m}

Return(r) == Step(r, "done", Idle) /\ UNCHANGED fetchVars

Engine ==
  \/ \E s \in Side, t \in Time, p \in 0..Dollar : RecordTrade(s, t, p)
  \/ \E seq \in 1..MaxSeq : MissTrade(seq)
  \/ Heartbeat \/ RollPut \/ RollPublish \/ EnginePatch
  \/ \E m \in Bucket : EngineStore(m)

get(r) ==
  \/ Call(r) \/ ReadLive(r) \/ ReadHistory(r) \/ FetchLook(r) \/ FetchSend(r)
  \/ Return(r)

CandleNext == Tick \/ Engine \/ \E r \in Reader : get(r)

CandleSpec == CandleInit /\ [][CandleNext]_candleVars

-----------------------------------------------------------------------------
(***************************************************************************)
(* Properties.                                                             *)
(***************************************************************************)
Candles(s) == {live[s]} \cup {history[s][m] : m \in {b \in Bucket : history[s][b] # NoCandle}}

Sound(c) ==
  \/ c = EmptyCandle(c.start)
  \/ HasData(c) /\ c.low <= c.open /\ c.open <= c.high
     /\ c.low <= c.close /\ c.close <= c.high

\* Every candle of the yes side either has no data at all or is a candle: its
\* open and its close lie between its low and its high, whatever mixture of
\* trades, rollovers and REST answers made it.
YesCandleSound == \A c \in Candles("Yes") : Sound(c)

\* A trade that was not late when it came in is inside the candle of its own
\* minute once the rollover it caused is over, although the code adds it to
\* the minute that was live before.
TradeInCandle ==
  EngineFree /\ accepted # NoTrade =>
    LET a == accepted
        m == computeTimeBucket(a.time)
        c == IF m = live[a.side].start THEN live[a.side] ELSE history[a.side][m]
    IN  m \in fromRest \/ (HasData(c) /\ c.low <= a.price /\ a.price <= c.high)

\* get answers none only if the store had no candle for the minute when it was
\* called: a rollover between its look at the live candle and its look at the
\* history hides nothing.
NoneMeansUnknown ==
  \A r \in Reader : rd[r].pc = "done" /\ ~rd[r].found => ~rd[r].known
=============================================================================
