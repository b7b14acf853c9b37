# 2fish: verification project

2fish is a low-latency trading terminal for one Kalshi market.  A websocket
thread feeds an engine thread, the engine keeps an order book, candlesticks and
a trade ledger, and the renderer (main thread) reads them without locks.  Paths
below are relative to the repository (`src/` here is its root, so the C++ code
is under `src/src/`).

## 1. Inventory

### Threads

| thread | code | owns | blocks on |
|---|---|---|---|
| websocket | `network/websocket/websocket_client.cpp` | parser, producer end of `websocket_queue_` | `ws.read` |
| engine | `engine/engine.cpp` `Engine::run` | all writes to the stores | nothing (spins) |
| REST, 16 threads x 2 clients | `network/rest/*` | HTTPS sessions, producer ends of `rest_patch_queue_` (engine) and `rest_query_queue_` (candlestick store) | asio |
| main / renderer | `renderer/application.cpp` | window, components; reads the stores through `Engine::get...` | Vulkan, SDL |

### Components

| component | state | operations | what must hold |
|---|---|---|---|
| order book synchronisation (`engine.cpp`, `orderbook_store.cpp`) | live yes and no book, `last_message_seq_`, `invalid_state_`, request cooldown | record delta / snapshot, reject on a gap, request and apply a REST patch | a book that counts as valid is the exchange's; a lost message is noticed; a bad book is repaired |
| order book history (`orderbook_store.cpp`) | ring of past books per side, bucket start of the live one | roll over per second, `get(timestamp)` | history sorted by time; `get` returns the book of that time or none |
| `SeqLockWrapper` | sequence number, data, writer flag | `write`, `read` | a read returns the data as one `write` left it; readers never block the writer |
| `RingBuffer` | sequence number, head, tail, slots | `push`, `get(index)`, `prev_upper_bound` | same, over the last `Capacity` items |
| `Deque` (trade ledger queue) | head, tail, slots with sequence numbers | `push_back` dropping the oldest, `pop_front` by any thread | no torn item, none popped twice, order kept |
| `SwmrMap` (candlestick history, fetch marks) | hash chains, clock ring, reader registry, retired list | `put` with clock eviction, `get` under epochs | linearizable; no node freed while read; never over capacity |
| `ObjectPool` (HTTPS sessions) | slots with sequence numbers, two cursors | `get`, `replace` | an object has one owner; nothing is lost unless the pool is full |
| candlestick store (`candlestick_store.cpp`) | live candles, history map, ledger queue, last sequence number | record trade, roll over, patch, query, fetch | a candle holds the trades of its minute; a gap is noticed and repaired |
| REST client (`rest_client.cpp`, `https_session.cpp`) | session pool, one callback per session | `get`, connect / write / read callbacks, `fail`, reuse | each request is answered or reported failed once; a session is used by one request at a time |
| parsers (`websocket_parser.cpp`, `rest_parser.cpp`) | none between messages | `parseAndPush` | a message is queued once or dropped; what is left out of a malformed one is bounded |
| life cycle (`driver.cpp`, `main.cpp`, `websocket_client.cpp`, `engine.cpp`, `application.cpp`) | `running_`, thread handles | start, quit, thread errors, join | quitting or an error ends every thread |
| book panels (`market_depth`, `orderbook_levels`) | the two sides last fetched, highlights | fetch, draw | what is shown never goes back, and becomes the store's book |
| ledger panel (`trade_ledger`, `SimpleDeque`) | the newest rows | take a trade, draw | the rows are the newest trades taken, whole and in order; what is queued is shown |
| request signing, Vulkan set-up, theme, widgets, formatting | | | not modelled (no state the other parts depend on) |

### Interaction

```
Kalshi ws --> WebsocketParser --websocket_queue_--> Engine::run --> OrderbookStore --> renderer
                                                      |   ^    --> CandlestickStore -->
Kalshi REST <-- RestClient::get <--- mismatch --------+   |
            --> RestParser --rest_patch_queue_------------+
            --> RestParser --rest_query_queue_------------+  (historical candles)
```

The queues are moodycamel's (vendored): one producer and one consumer for the
websocket, many producers for REST, so REST answers have no order among each
other.  All are filled with `try_enqueue`, which drops when there is no room.


Behaviour that is hard to test, and where it is treated: lock-free readers
against the engine (SeqLock, HistoryRing, TradeDeque, SwmrMap), many threads on
one structure (ObjectPool, TradeDeque), lost messages and answers without order
(OrderbookSync), completion handlers against the next use of a session
(RestClient), a store read in several steps while it changes (OrderbookHistory,
MarketPanel, CandlestickStore), frames in flight (FrameLoop) and shutdown (Lifecycle,
Program).  `PROJECT.json` lists the hazards line by line.

## 2. Modules

```
OrderbookSync ------ OrderbookSync_proof         FrameLoop
HistoryRing -------- HistoryRing_proof              |
RestClient --------- MCRestClient, RestClient_proof Program ---- Program_proof
SwmrMap ------------ MCSwmrMap, SwmrMap_proof       |
ObjectPool --------- MCObjectPool, ObjectPool_proof Lifecycle
    `-- implements --> SessionPool
SeqLock -----------------------.
OrderbookHistory --- MarketPanel --- MarketPanel_proof
CandlestickStore --------------.
TradeDeque --------- TradeLedger --- TradeLedger_proof
    |                    `---------- SimpleDeque
    `-- implements --> TradeQueue
```

Two proof modules are about two components each: MarketPanel_proof about the lock
and the panels whose books it guards, TradeLedger_proof about the Deque with its
panel and the candle store that fills it.

The containers are modelled access by access.  The stores use what the container
modules establish: a write under the sequence lock is one critical section, a
read of the ring or of the map is one step.  Where a container falls short of
that (section 6) the store's module says so in its head.

**OrderbookSync**: exchange, websocket thread, engine and REST for the book.
`feed` is the exchange's history (external); a message is its index in it, so
`queue` is a sequence of ids and `lost` the ghost set of dropped ones.
`parseAndPush`/`DropMessage` are the two outcomes of
`WebsocketParser::parseAndPush`; `EngineApply`/`EngineReject` the two branches of
`recordOrderbookMessage` with the engine's reaction; `EnginePatch` is `tryPatch`.
`book` is both sides in one function.  `elapsed` is the age of
`last_orderbook_mismatch_request_`, counted only up to the cooldown.  A request
is `Sent`, then `InFlight` with the book of the moment the exchange answered
(`RestSnapshot`, external), then `Queued` by `RestParser`; each may last while the
engine goes on rejecting, or after another patch applying, messages, and only
a queued patch is taken before them.  A captured book is named by the number of
messages it contains.  The ghost `patch` keeps that number, the levels read and
`last_message_seq_` at the moment the last patch was applied.  Quantities are integers, so the removal of values near
zero is the identity; `state_patched_` is never set and its branch is left out.
`RestPartly` is `RestParser::parseAndPush` when the document breaks off: the
levels read so far are queued as the book.

**SeqLock**: `seq_`, the words of the object, and the locals of `write` and of
each `read`.  Loads, stores and word copies are steps.

**HistoryRing**: `RingBuffer`; `push` is five steps, `get(index)` and
`prev_upper_bound` share the loads, the check and the retry.  `size_t` wraps at
`SizeMod`: a reader may combine a head and a tail of different pushes.

**TradeDeque**: `Deque`; **TradeQueue** is its abstract specification, a queue
from which the writer may drop the oldest and a pop takes the oldest.  The
mapping: what the slots between tail and head hold, and which position each
popper has claimed (`IsTradeQueue`).

**TradeLedger** puts the panel on top: `Draw` begins a frame's `fetchData`, a
`pop_front` of the Deque; `Show` appends its answer to the rows, draws them and
lets the user close the window, after which nothing draws the panel again.
**SimpleDeque** is the ring of rows as operators on a record, its counters modulo
`SizeMod`.

**SwmrMap**: a heap of nodes at addresses that are used again, buckets, clock
array, retired list, epochs.  `put` is split at its stores to shared atomics,
`get` at its loads.  `contents` is the abstract map, and `rd[r].seen` the values
the key had during a `get`.  A thread takes a reader slot at its first `get`
(`LoadSlots`, then the compare-exchange of `TakeSlot`), fails when all are taken
(`NoSlotLeft`), and gives its slot up, with the old epoch still in it, when it
ends (`EndThread`).

**ObjectPool**: the cells with their sequence numbers and the two cursors, each
load, store and compare-exchange a step; `Make` and `Destroy` are what
`RestClient` does with an empty and with a full pool.  **SessionPool** is its
abstract specification: a queue of at most `Capacity` sessions, each of which has one
holder, and a refusal only while the queue is empty or full or somebody is in the
middle of an operation.  The mapping (`IsSessionPool`): the sessions at the positions
between the cursors, in a cell or still on their way into it, and of each thread the
session it has or has claimed.  RestClient's `pool` is such a queue: `GetNew` allows
the refusal while a handler gives back, and as one thread calls `get`, a `replace`
refused in the middle of a `get` is a `replace` before it.

**RestClient**: `get`, `HttpsSession::run`, the five completion handlers and
`fail`, on two strands per session (the resolver's and the stream's).  The
handler that ends a request is three steps: outcome, `replace` from inside the
callback, and the reset of `callback_`.  A session that nobody holds is
destroyed.

**OrderbookHistory**: both sides; the book of a side is the number of the message
that last changed it.  A message that carries a whole book writes one side and
then the other.  The steps of `get` are its five looks at the store (`invalid_state_`, the last
valid timestamp, the earliest entry, the live book, the ring); the engine's
writes are split where a reader can look between them.  `UpperBound` is the
binary search of the code, a recursive function, because after a patch the ring
need not be sorted and the search is then no longer its specification.

**MarketPanel**: the two panels that show the book.  A frame calls `get` for the
yes side and for the no side at the time it began (`FetchYes`, `FetchNo`), and a
side that is not answered stays as it was (`Replaced`).  Readers do not disturb
each other, so a behaviour has either a panel or a reader of past times
(`reader`).

**CandlestickStore**: both sides; trades, rollovers (one put a step), gaps, the
patch request, REST candles and a reader's `get` with
`tryFetchHistoricalCandlestick`.

**FrameLoop**: `Application::run` and `recreateSwapchain`.  **Lifecycle**: the
threads and the destructor of `Driver`, member by member.  **Program** composes
them: `main = "render"` in Lifecycle is FrameLoop running, `running_` is shared,
and the destruction of the application begins with the device wait.

## 3. Runs

`tlc -config <cfg> <module>` in this directory.  Bounds are the constants named
"bound" in each module.

| run | configuration | what it shows | why the bounds are enough |
|---|---|---|---|
| `sync` | MCOrderbookSync.cfg | a valid book is off by exactly the age of its last patch; no loss is absorbed; a negative level is flagged; an invalid book is repaired | four messages on a queue of two: fill it, lose one, reject, patch, and continue; a patch may be two rejected messages late or hold two that are still to come, and a message may be applied after it; two requests, so answers can overtake and a late one meet the next invalid state; one failure, retried after the cooldown |
| `seqlock` | MCSeqLock.cfg | a read that began at an even number is one write's data and fresh; reads return | three words: set, being set, not yet set; three writes: a reader overtaken twice |
| `ring` | MCHistoryRing.cfg | both reads answer from one state of the ring; they end | two slots overwritten twice, queries below, in and above the contents |
| `deque` | MCTradeLedger.cfg | no torn trade; the deque implements the queue; pops end; the rows are the newest trades taken; an open panel works off the queue | two poppers, one of them the panel, lapped by the writer twice; two rows, so the third and fourth trade each drop one, with counters that wrap after four |
| `rest` | MCRestClient.cfg | a session has one user; an answer goes to its own request; requests are reported | three requests on two pooled sessions and a third: reuse, and a pool that is too full |
| `candles` | MCCandlestickStore.cfg | yes candles are candles; a trade is in its minute's candle; none means not known | two rollovers, two trades or a gap, a query that ages from live to history |
| `history` | MCMarketPanel.cfg | no book from the future; answers are fresh; none means dropped; the past is stable; a panel never goes back to an older book and settles on the store's | rings of two fill and drop; times cross two minutes and several seconds, the exchange's clock up to a tick ahead; four messages over the two sides, one patch. With a panel three messages and seven ticks: a frame is two calls, and a rollover, a refusal and a patch still fit between them |
| `map` | MCSwmrMap.cfg | no use after free; `get` linearizable; chains, clock array and retired list agree | three keys collide in one bucket of a map of two, so there are replacement, eviction of head and tail, and reuse of a node; two threads race for one reader slot, are refused it and inherit it |
| `pool` | MCObjectPool.cfg | every session is in one place; a pool passes for empty or full only while it is, or while the cell at the cursor is worked on; it implements the queue of sessions | three threads, twice around the buffer, full and empty |
| `program` | MCProgram.cfg | fences, framebuffers, order of destruction; quit ends the program | the code's two frames in flight; three window events, so a resize, a second one during the rebuild, and a quit |
| `sync_patch` | MCOrderbookSyncPatch.cfg | violation: see section 6 | |
| `seqlock_torn` | MCSeqLockTorn.cfg | violation: see section 6 | |

The type invariants of `sync`, `seqlock`, `ring`, `rest`, `pool` and of `program`'s
render loop are theorems (section 4) and not part of the runs.  Deadlock is not checked where the system may stop: when the bound on messages,
puts or time is reached, or the program has exited.  It is checked in `seqlock`,
`ring` and `deque`, whose readers can always call again.  Symmetry
is used only in `map` and `pool`, which check no liveness.  Requests are
interchangeable in `rest` too, but it checks `Answered`.

### Fairness

* `sync`: the engine spins, the websocket thread reads what has arrived, time
  passes, and a request that does not fail is answered and its answer parsed.  Nothing makes the
  exchange publish, so `RepairCompletes` asks for a request under way or a
  message in the queue: the code sends a request only when a mismatching message
  arrives, and in a silent market it sends none.
* `deque`: besides, the render loop draws frame after frame (`Draw`, `Show`); the
  queue is worked off only once the engine has stopped pushing.
* `history`: the render loop fetches frame after frame, and the clock goes on.
  The engine has no fairness: `PanelSettles` speaks of a store that is valid and
  left alone from some moment on.
* `seqlock`, `ring`, `deque`: a thread inside a call keeps running.  A writer
  must finish a write it has begun only in `seqlock`, where a reader waits
  for it; nobody has to begin a call.  The bound on writes stands for a writer
  that pauses: under an endless stream of writes the readers of the code can
  indeed starve.
* `rest`: the calling thread finishes its call, and each operation completes: the
  exchange answers or the connection fails.  No operation of `HttpsSession` has a
  time-out, so a peer that stays silent on a healthy connection would hold a
  session, and its request, for good.
* `program`: main, engine and websocket threads run and the GPU finishes what it
  is given.  Weak fairness of the websocket thread includes its blocking `read`:
  the exchange sends something or the connection fails.  A
  silent exchange on a healthy connection would hold up the join, and so the end
  of the program, for as long as `ws.read` (websocket_client.cpp:114) waits.

### Assumptions of the models

* Steps are sequentially consistent.  The build is x64 (CMakePresets.json); the
  weaker orders the C++ memory model allows, and what a compiler may do with
  them, are not explored.  The plain copies in `SeqLockWrapper` and `RingBuffer`
  race with the writer by design; a word is copied whole.
* Sequence ids are per channel and the feed is a TCP stream: an id is never
  smaller than expected.
* The exchange's timestamps do not go backwards, and are at most `Ahead` before our
  clock.  A delta names a side: one with an unknown side would only move
  `last_valid_timestamp_ms_`.
* A second is shorter than a minute (1000 and 60000 in the code), and the minute is
  a multiple of it: `HistoryAssumption`.
* Candles: a trade is not stamped later than our clock (`RecordTrade`).
* REST: the test of `callback_` and its call (https_session.cpp:124, :138) are one step,
  so an earlier use's clear does not fall between them.
* Both parties' clocks in `history`: with its bounds a frame never begins before the
  start of the live book (the strict comparison of seconds needs an exchange two ticks
  ahead for that).  ScreenNeverGoesBack is proved for every `Ahead`.
* The moodycamel queues are a bounded FIFO and a bag.

## 4. Proofs

`tlapm <module>` checks them; each holds for every value of the constants
under the named ASSUME of the module.

| theorem | module | states |
|---|---|---|
| TypeCorrect, DriftBounded, LossNeverSilent, NegativeFlagged | OrderbookSync_proof | the invariants of `sync` |
| InOrder, FrozenUntilPatched | OrderbookSync_proof | ids are consumed in order and once; only a patch changes a flagged book |
| SeqLockType, EvenReadAtomic, ReadFresh | MarketPanel_proof | the types of the lock and its readers; the invariants of `seqlock` |
| RingType, CleanReads | HistoryRing_proof | the types of the ring and of its readers; the invariant of `ring` |
| PoolType, SessionsInOnePlace, RefusalsHaveAReason | ObjectPool_proof | the types of the pool; the invariant and the action property of `pool` |
| PoolIsAQueue | ObjectPool_proof | the pool implements SessionPool |
| PopsAreWhole, DequeIsAQueue | TradeLedger_proof | no torn trade; the deque implements TradeQueue |
| PanelIsAPopper, LedgerTypes, RowsFollowTheTrades | TradeLedger_proof | the ledger panel is a popper of the deque; the other invariants of `deque` |
| CandleTypes, YesCandlesAreSound, NoneIsUnknown, TradesAreInTheirCandles | TradeLedger_proof | the invariants of `candles` |
| PanelTypeCorrect, NeverFromTheFuture, GetIsFresh, NoneOnlyIfGone | MarketPanel_proof | the invariants of `history` |
| ThePastIsStable, ScreenNeverGoesBack | MarketPanel_proof | the action properties of `history` |
| MapTypes, NothingDeletedUnderAReader, GetIsLinearizable, ChainsHoldTheMap | SwmrMap_proof | the invariants of `map` |
| RestType, SessionsHaveOneUser, AnswersAreRight | RestClient_proof | the safety invariants of `rest` |
| FrameLoopType, FenceSignals, NothingTouched | Program_proof | the invariants of the render loop |
| RunsTheFrameLoop, RunsTheLifecycle | Program_proof | the whole program implements each of the two modules it composes |
| RenderingIsSafe, DestructionInOrder | Program_proof | the invariants of `program` |

* **OrderbookSync.** The invariant adds to the properties that the feed is
  consistent with itself (a delta is the difference of two books), that the queue
  is sorted and ahead of `last_message_seq_`, and that nothing queued is lost.
  Without the order of the queue a rejected message could move
  `last_message_seq_` back and a loss would be passed over; without the consistency of
  the feed a delta would change the drift.  What the drift is measured against, the
  exchange's books at the capture of the patch and at the point it was applied, stays
  because the feed is only appended to (`PatchErrorUnchanged`).  FrozenUntilPatched needs no
  invariant: it is a case split over the steps.
* **SeqLock.** The invariant says what each word holds in terms of parity: even,
  every word carries `seq`; odd, the words already set carry the next even
  number and the others the last.  A reader in the middle of a copy knows for
  each word copied that it is fresh, and, if the number has not moved, that it is
  the number's.
* **HistoryRing.** `seq` is twice the number of pushes, one more during a push;
  the ring never holds more than its capacity because a push that has dropped has
  room; and the range of a search never leaves the size it was begun with, though
  that size may have been read off two different pushes and have wrapped around.
  For CleanReads the invariant says which push each slot holds, and of a reader
  whose number has not moved that its head and tail are the ring's, that its
  search has passed only items that are not too late and left out only items that
  are, and that the words it has copied are the answer's.
* **SwmrMap.** The chains are not followed by recursion: what a walk comes to is
  the least closed set it starts in (`Chain`), and a fact about a whole chain is
  proved by naming a closed set.  `HeapInv` says that pointers stay in their bucket and lead down a rank, so
  that no walk comes back to where it was; replacing, adding or removing one node
  changes what the other walks come to by that node only (`Replaced`, `Headed`,
  `Removed`).  Linked nodes have distinct keys and the map's values
  (`MapInv`), and the clock array holds them but for a victim's place
  (`ClockInv`).  A retired node points to a linked one or to one retired in its
  epoch or later (`RetiredInv`): this is what lets a reader walk on from a node
  that is no longer in the map.  No reader whose slot the writer has looked at
  has announced less than the minimum found so far (`EpochInv`); a reader
  between loading the epoch and announcing it counts with what it has loaded, and
  what an earlier owner left in the slot is no more than that.  Of a get under way
  (`ReaderInv`): all it may come to is linked, or retired no earlier than announced
  and, if it has the key, with a value the map had during the call; and either none
  was the answer at some moment, or the key is still ahead on its walk.
* **ObjectPool.** A cell waits to be filled or to be emptied; which one, its
  sequence number says modulo the capacity, and never both (the lemmas on
  `Cell`: positions of one cell are a multiple of the capacity apart).  The
  number of a claimed cell stays until the claimant stores the next, and while a
  cursor has not moved, the cell under it is as a thread saw it before its
  compare-exchange; so the winner finds a cell that nobody has claimed.
  Positions to be filled are less than a round ahead of the cursor of `get`,
  which is what keeps two claimants out of one cell after a wrap.
  RefusalsHaveAReason needs the number of every position between the two cursors,
  not only of the claimed ones: each is filled or its filler is at work, each one
  before them is emptied or its emptier is.  PoolIsAQueue maps the two successful
  compare-exchanges to Take and GiveBack, the reports to FindNone and FindNoRoom,
  the last stores to End, and every other access to a stutter: moving a session out of
  its cell, or into it, changes neither the queue (`Items`, `ClaimedCell`: no other
  position between the cursors is that cell's) nor what the thread has.
* **RestClient.** A session is in at most one situation: not yet made, pooled,
  being handed out by `get`, running an operation, or about to be given back (on
  one strand only).  A running session works for one
  request that has not been reported, and two running sessions for different
  ones.  The erasure of `callback_` by a handler of an earlier use (section 6)
  makes a request unreported, never reported twice or with another's answer.
* **Deque.** The slot of a position that was pushed has twice that position as its
  number for as long as the trade is among the newest `Capacity`, and holds it
  whole for as long as the number stands.  A popper that finds its number
  unmoved after the copy therefore has one trade; a claimed position is below the
  tail and not returned before, so none is popped twice.  Under the mapping of
  `IsTradeQueue` every step is a step of TradeQueue or a stutter.
* **Ledger panel.** PanelIsAPopper gives the panel all of this.  Its rows are
  counted: with `n` trades taken, the counters are `n` and the oldest row's number
  modulo `SizeMod`, and the i-th slot from the end holds the trade with `i - 1`
  later ones.  That masking a counter which has wrapped around finds the same slot
  (`MaskAfterWrap`) is where `SizeMod` has to be a multiple of the number of rows.
* **Candles.** Both sides are rolled over together, yes first, so that until the end
  the no side still has the minute the rollover began in; the candle at work is
  that of the rollover under way, and every minute it has left is stored (`RollInv`).
  A trade is in the candle at work until its minute is stored: in a later minute
  than the candle's it is the last price, which is what the next candle opens
  with.  Then it is in the candle stored for its minute, unless REST has told of
  that minute, and REST may have told only of minutes before the one the rollover began
  in, which no put of this rollover overwrites (`TradeIn`).  What the store
  knew when `get` was called is live or stored until `get` has looked there:
  a put makes it stored before the publication takes it from the live candle
  (`KnownInv`).
* **MarketPanel.** What makes the answers inductive is `Covered`: a book that was
  there for a timestamp is still the live book, in the ring, or dropped from it.
  The hard step is a rollover: the push puts the live book into the ring before the
  critical section ends, so between the two it is there twice, and when the
  section ends it is in the ring already (`EngineInv`).  A call under way owes its caller
  the book it would have answered at its beginning, or a newer one (`Owes`);
  each look of `get` keeps that debt or pays it.  The rings are sorted by start and by
  book until the first patch (`RingInv`), and there the binary search finds the
  last entry that fits; `UpperBoundSpec` proves what the recursive search returns, on any
  sequence, by induction over the windows still to be searched, stated for a set of
  numbers.  A panel is one more debt: what a side shows is covered at the time of
  every later frame (`PanelInv`).
* **FrameLoop.** A frame the GPU has is unsignalled, so a frame whose fence was
  waited for is idle; the fence that was waited for stays signalled until it is
  reset; work in flight is on the current framebuffers.
* **Program.** The two refinements come first: a step of the program is a step or a stutter of
  each part.  The loop's effect on the threads is only that `running_` may become
  false, which is a quit.  FrameLoop's theorems then hold of the program.
  `DestructionInOrder` is by an invariant on the number of
  members destroyed: past the application the GPU is idle, past the websocket
  client its thread is down, past the engine's thread it is down, past the REST
  clients' owners theirs are.

Every invariant and action property of the passing runs is a theorem, and so is the
refinement of TradeQueue.  Only model-checked is liveness: `RepairCompletes`,
`ReadReturns` of the lock and of the ring, `PopReturns`, `PanelCatchesUp`,
`Answered`, `PanelSettles`, `QuitEndsTheProgram`.  Liveness under fairness and ENABLED are outside the prover's reach.  Induction is
available for a set of numbers only (`SetInduction`), which is enough for a recursive
function like the binary search.

## 5. Not modelled

`PROJECT.json` gives the reason for each component.  In short: the parsers are
there as "queued, lost, or partly read", without their fields and numbers; of the
panels what they fetch and keep is modelled, not what they draw, nor the
highlights and scroll position of `OrderbookLevels`; request signing is a pure function; Vulkan and SDL
set-up is straight-line code whose failure is Lifecycle's exception; the vendored
queues are external.

## 6. What the code does that its documentation does not say

Two have a run that TLC refutes:

* `sync_patch`: `tryPatch` is to "repair internal data state"
  (orderbook_store.hpp:32).  A REST book has no sequence number.  It may be older
  than messages rejected while it was under way, whose changes are then lost for good,
  or newer than messages still to be consumed, whose changes are applied twice; the
  store counts the wrong book as valid (orderbook_store.cpp:253).  The shortest traces of
  the two kinds are equally long, and TLC reports one or the other.
  `DriftIsPatchSkew` says exactly how wrong the book is, for patches of any age: it is off by
  the messages between the capture and the point of the patch, and stays so.
* `seqlock_torn`: `continue` in a do-while goes to its condition, and
  `seq0 != seq1` (seqlock_wrapper.hpp:47) then compares with the `seq1` of the
  round before.  If a read sees the same odd number as that round's end, it
  returns the torn copy.  `EvenReadIsAtomic` is what remains.

Others were met while modelling and have no run of their own.  The models
include the behaviour (or exclude it where noted), and the properties are stated
around it:

* `HttpsSession::onRead` and `fail` clear `callback_` after the callback has
  returned the session to the pool (https_session.cpp:127, rest_client.cpp:85).  A
  request that takes the session in between loses its callback; it is never
  reported and the session is lost.  `Answered` excuses it.
* When `SSL_set_tlsext_host_name` fails, `run` returns without a callback
  (https_session.cpp:70).  `Answered` excuses it.
* `RingBuffer::get` and `prev_upper_bound` have the same `continue`
  (ring_buffer.hpp:52, :92): a read that finds the number odd, and still the same at the
  condition, returns an unfilled item or none.  `CleanReadIsAtomic` is about the
  other reads.
* `ObjectPool::get` finds the pool empty while the cell at its cursor is being
  filled, even if later cells are full (object_pool.hpp:46).  `RestClient` then
  makes one more session.  `RefusedForAReason` says when that may happen.
* A candle of a minute without any trade since the start is stored with the
  sentinel 255 in its prices, and `get` returns it (candlestick_store.cpp:115).
  `YesCandleSound` allows such a candle only if it is entirely without data.
* The no side of a REST candle takes `1 - high` as its high
  (candlestick_store.cpp:318), which is its low: `YesCandleSound` is about the
  yes side only.
* The first trade of a new minute is added to the candle of the previous one
  before the rollover (candlestick_store.cpp:89).  The price is then carried
  over as the open of the next, so the trade is also in its own minute:
  `TradeInCandle`.
* The trade that shows a gap is not recorded either (candlestick_store.cpp:63):
  one lost trade leaves two out of the candles and the ledger.
* A rollover overwrites the candle REST delivered for a minute that was live, and
  `tryPatch` never does anything, since nothing sets `invalid_state_`
  (candlestick_store.cpp:193).
* `tryFetchHistoricalCandlestick` writes a single-writer map from `get`
  (candlestick_store.cpp:278); `SwmrMap::put` throws when two threads meet there.
  No component of the renderer calls `getCandlestick` yet; `candles` has one
  reader.
* A patch resets the start of the live book to the minute
  (orderbook_store.cpp:255).  Timestamps of that minute which the ring holds are
  then answered with the live book, and later pushes leave the ring unsorted.
  `FreshAnswer`, `NoneMeansGone` and `PastIsStable` hold until the first patch;
  `NotFromTheFuture` holds always.
* `RestParser` catches an error in the middle of a document and queues the part of
  the book it has read (rest_parser.cpp:114); its test expects malformed messages
  to be dropped (tests/test_rest_parser.cpp:95).  The patch then leaves a valid book
  without the rest: `RestPartly`, within `DriftIsPatchSkew`.
* `parseJsonDouble` turns text that is not a number into zero, so a message with
  such a field is applied, not dropped.  `RestParser` uses a price as an index
  without looking at its range (rest_parser.cpp:60); the models' exchange sends
  neither.
* A panel may show a book with a negative level, fetched after it was published
  and before it was flagged, and keeps it until the repair: while the store is
  invalid the newer times are refused.  After a patch a side may also go back:
  `ShownNeverGoesBack` holds until the first one.
* The comment in `trade_ledger.cpp:25` says the arrays are null terminated, the
  loops stop at a newline: they copy the whole array, and `c_str()` hides it.
* `OrderbookLevels` draws the ask at price p from `no_dollars_[100 - p]` and calls
  `applyUpdateHighlights(p, false)`, which looks at `no_dollars_[p]`
  (orderbook_levels.cpp:204, :361): the stacked view highlights an ask when another
  level has changed.  Its -1 for "nothing shown yet" is overwritten by the first
  frame drawn, so a book that arrives later is highlighted whole; and in the
  compressed view an empty book never has the row that would take the scroll.
* Before the first snapshot `get` answers with the empty book
  (orderbook_store.cpp:209).
* `main` prints "aborting" when the render loop throws (main.cpp:17), but
  `running_` stays true and the destructor of `Driver` waits for threads that do
  not end.  `QuitEndsTheProgram` excludes it.
* `recreateSwapchain` discards the event it waited for (application.cpp:295); if
  it is the quit of a window without size, it is gone.  `QuitEndsTheProgram` excludes it, so
  no property covers this loss.
* The websocket thread ends at a read error and nothing reconnects
  (websocket_client.cpp:121).  The book stays flagged valid and is served for as
  long as the program runs; no property speaks of its age.
* Both parsers' queues drop a message when they are full (`try_enqueue`), and a
  REST answer that is dropped is only asked for again at the next mismatch.

## 7. Plan

Order: the synchronisation of the book and the lock under it; the other
containers; the stores on top of them; REST; the render loop, the life cycle and
their composition; the panels on top of the stores.  All of these are modelled.
Left, most useful first:

1. The highlights of OrderbookLevels over a few frames of both views.
2. The fields of the websocket parser, with an error at each.
3. RestClient on top of SessionPool in the place of its own sequence.
