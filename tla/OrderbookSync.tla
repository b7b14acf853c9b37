--------------------------- MODULE OrderbookSync ---------------------------
(***************************************************************************)
(* How the local order book follows the exchange: the websocket feed, the  *)
(* engine loop that applies it (Engine::run, OrderbookStore::record...),   *)
(* the detection of a lost message and the repair of the book from a REST  *)
(* snapshot (Engine::handleOrderbookMismatch, OrderbookStore::tryPatch).   *)
(*                                                                         *)
(* The exchange and the network are external.  A message is its sequence   *)
(* number: feed[n] is the n-th message the exchange published, with the    *)
(* book it leads to.  Quantities are integers, so the clean-up of floating *)
(* point drift around zero is the identity.  Time is only what the request *)
(* cooldown observes: the milliseconds since the last request, up to the   *)
(* first value that is over the cooldown.                                  *)
(***************************************************************************)
EXTENDS Integers, Sequences

CONSTANTS
  Cell,       \* a price level of one side (2 x 101 in the code)
  Session,    \* concurrent HTTPS requests; a bound of the model
  QueueSize,  \* slots of websocket_queue_, whose try_enqueue never allocates
  Cooldown,   \* REST_MESSAGE_COOLDOWN_MS, in ticks
  MaxSeq,     \* bound: messages the exchange publishes
  MaxQty,     \* bound: quantity at one price level on the exchange
  MaxFail     \* bound: REST requests that come back without a whole snapshot

ASSUME SyncAssumption ==
  /\ QueueSize \in Nat \ {0}
  /\ Cooldown \in Nat
  /\ MaxSeq \in Nat
  /\ MaxQty \in Nat
  /\ MaxFail \in Nat

VARIABLES
  feed,              \* every message the exchange has published
  received,          \* how many of them the websocket thread has read
  queue,             \* websocket_queue_: sequence ids, oldest first
  book,              \* yes_live_snapshot_ and no_live_snapshot_
  last_message_seq,
  invalid_state,
  elapsed,           \* ms since last_orderbook_mismatch_request_, capped
  rest,              \* what each HTTPS session is doing
  failures,          \* requests that failed, wholly or partly, so far
  lost,              \* ghost: messages that never reached the queue
  patch              \* ghost: the last patch applied (see PatchRecord)

feedVars  == <<feed, received, queue, lost>>
storeVars == <<book, last_message_seq, invalid_state, patch>>
restVars  == <<elapsed, rest, failures>>
vars == <<feedVars, storeVars, restVars>>

(***************************************************************************)
(* Messages and books.                                                     *)
(***************************************************************************)
Book      == [Cell -> Int]
TrueBook  == [Cell -> 0..MaxQty]
EmptyBook == [c \in Cell |-> 0]

Snapshot == [type : {"snapshot"}, book : TrueBook]
Delta    == [type : {"delta"}, cell : Cell, delta : Int, book : TrueBook]

\* The exchange's book after its first n messages.
Truth(n) == IF n = 0 THEN EmptyBook ELSE feed[n].book

\* A REST request: not yet at the exchange, its answer under way with the
\* exchange's book after n messages, or in rest_patch_queue_ with the levels
\* in read and zero elsewhere.
Idle == [state |-> "idle"]
Sent == [state |-> "sent"]
InFlight(n) == [state |-> "in flight", at |-> n]
Queued(n, read) == [state |-> "queued", at |-> n, read |-> read]
RestState ==
  [state : {"idle", "sent"}]
    \cup [state : {"in flight"}, at : 0..Len(feed)]
    \cup [state : {"queued"}, at : 0..Len(feed), read : SUBSET Cell]

\* A patch holds the exchange's book after its first "at" messages, read as
\* far as "read", and was applied at last_message_seq = "on".
PatchRecord == [at : 0..Len(feed), read : SUBSET Cell, on : 0..received]

TypeOK ==
  /\ feed \in Seq(Snapshot \cup Delta)
  /\ received \in 0..Len(feed)
  /\ queue \in Seq(1..received)
  /\ Len(queue) <= QueueSize
  /\ book \in Book
  /\ last_message_seq \in 0..received
  /\ invalid_state \in BOOLEAN
  /\ elapsed \in 0..(Cooldown + 1)
  /\ rest \in [Session -> RestState]
  /\ failures \in Nat
  /\ lost \subseteq 1..received
  /\ patch \in PatchRecord

Init ==
  /\ feed = <<>>
  /\ received = 0
  /\ queue = <<>>
  /\ book = EmptyBook
  /\ last_message_seq = 0
  /\ invalid_state = FALSE
  /\ elapsed = Cooldown + 1
  /\ rest = [s \in Session |-> Idle]
  /\ failures = 0
  /\ lost = {}
  /\ patch = [at |-> 0, read |-> Cell, on |-> 0]

(***************************************************************************)
(* The exchange (external).  The first message of a subscription is a      *)
(* snapshot; afterwards every change of a level is a delta.                *)
(***************************************************************************)
PublishSnapshot ==
  /\ feed = <<>>
  /\ MaxSeq > 0
  /\ \E b \in TrueBook : feed' = <<[type |-> "snapshot", book |-> b]>>
  /\ UNCHANGED <<received, queue, lost, storeVars, restVars>>

PublishDelta ==
  /\ feed # <<>>
  /\ Len(feed) < MaxSeq
  /\ \E c \in Cell, q \in 0..MaxQty :
       LET now == Truth(Len(feed))
       IN  /\ q # now[c]
           /\ feed' = Append(feed, [type |-> "delta", cell |-> c,
                                    delta |-> q - now[c],
                                    book |-> [now EXCEPT ![c] = q]])
  /\ UNCHANGED <<received, queue, lost, storeVars, restVars>>

(***************************************************************************)
(* The websocket thread reads the next message.  WebsocketParser drops one *)
(* it cannot parse, and try_enqueue drops one when the queue is full.      *)
(***************************************************************************)
ReadNext ==
  /\ received < Len(feed)
  /\ received' = received + 1

parseAndPush ==
  /\ ReadNext
  /\ Len(queue) < QueueSize
  /\ queue' = Append(queue, received + 1)
  /\ UNCHANGED <<feed, lost, storeVars, restVars>>

DropMessage ==
  /\ ReadNext
  /\ lost' = lost \cup {received + 1}
  /\ UNCHANGED <<feed, queue, storeVars, restVars>>

(***************************************************************************)
(* OrderbookStore.  state_patched_ is never set by the code, so the branch *)
(* of recordOrderbookMessage it guards is unreachable and not modelled.    *)
(***************************************************************************)
\* Mutants: the sequence id is not compared, or only compared for staleness.
MutMismatchNoSeq(seq) == invalid_state
MutMismatchStaleOnly(seq) == seq < last_message_seq + 1 \/ invalid_state

Mismatch(seq) == seq # last_message_seq + 1 \/ invalid_state

\* Mutant: the critical error is not raised.
MutDeltaUnchecked(m) ==
  /\ book' = [book EXCEPT ![m.cell] = @ + m.delta]
  /\ UNCHANGED <<invalid_state, patch>>

recordOrderbookDelta(m) ==
  /\ book' = [book EXCEPT ![m.cell] = @ + m.delta]
  /\ invalid_state' = (invalid_state \/ book[m.cell] + m.delta < 0)
  /\ UNCHANGED patch

recordOrderbookSnapshot(m) ==
  /\ book' = m.book
  /\ patch' = [patch EXCEPT !.at = patch.on, !.read = Cell]
  /\ UNCHANGED invalid_state

\* The branch that applies a message and returns true.
recordOrderbookMessage(seq) ==
  /\ IF feed[seq].type = "delta" THEN recordOrderbookDelta(feed[seq])
                                 ELSE recordOrderbookSnapshot(feed[seq])
  /\ last_message_seq' = last_message_seq + 1

\* The branch that drops the message and returns false.
rejectOrderbookMessage(seq) ==
  /\ last_message_seq' = seq
  /\ invalid_state' = TRUE
  /\ UNCHANGED <<book, patch>>

\* The book of a REST answer when the levels in read come before the error
\* that ends the parsing, if there is one.
Parsed(n, read) == [c \in Cell |-> IF c \in read THEN Truth(n)[c] ELSE 0]

\* Mutant: the patched book stays flagged.
MutPatchKeepsFlag(n, read) ==
  IF invalid_state
  THEN /\ book' = Parsed(n, read)
       /\ patch' = [at |-> n, read |-> read, on |-> last_message_seq]
       /\ UNCHANGED <<last_message_seq, invalid_state>>
  ELSE UNCHANGED storeVars

tryPatch(n, read) ==
  IF invalid_state
  THEN /\ book' = Parsed(n, read)
       /\ invalid_state' = FALSE
       /\ patch' = [at |-> n, read |-> read, on |-> last_message_seq]
       /\ UNCHANGED last_message_seq
  ELSE UNCHANGED storeVars

(***************************************************************************)
(* Engine::run.  A pending patch is taken before a feed message; patches   *)
(* come from many REST threads, so the patch queue has no order.  An       *)
(* answer still under way holds nothing up: messages are applied and       *)
(* rejected meanwhile.                                                     *)
(***************************************************************************)
PatchPending == \E s \in Session : rest[s].state = "queued"

handleOrderbookMismatch ==
  IF elapsed <= Cooldown
  THEN UNCHANGED restVars
  ELSE /\ elapsed' = 0
       /\ \E s \in Session : /\ rest[s] = Idle
                             /\ rest' = [rest EXCEPT ![s] = Sent]
       /\ UNCHANGED failures

EnginePatch(s) ==
  /\ rest[s].state = "queued"
  /\ tryPatch(rest[s].at, rest[s].read)
  /\ rest' = [rest EXCEPT ![s] = Idle]
  /\ UNCHANGED <<feedVars, elapsed, failures>>

EngineApply ==
  /\ ~PatchPending
  /\ queue # <<>>
  /\ ~Mismatch(Head(queue))
  /\ recordOrderbookMessage(Head(queue))
  /\ queue' = Tail(queue)
  /\ UNCHANGED <<feed, received, lost, restVars>>

EngineReject ==
  /\ ~PatchPending
  /\ queue # <<>>
  /\ Mismatch(Head(queue))
  /\ rejectOrderbookMessage(Head(queue))
  /\ handleOrderbookMismatch
  /\ queue' = Tail(queue)
  /\ UNCHANGED <<feed, received, lost>>

Tick ==
  /\ elapsed <= Cooldown
  /\ elapsed' = elapsed + 1
  /\ UNCHANGED <<feedVars, storeVars, rest, failures>>

(***************************************************************************)
(* REST.  The exchange (external) answers with its book of that moment,    *)
(* which carries no sequence number.  The answer is under way for any time *)
(* before RestParser reads it level by level and the REST thread queues    *)
(* it.  An error in the middle of the document ends the parsing, not the   *)
(* queueing.  A request may also fail: an error, a status other than 200,  *)
(* a document without a book, a full patch queue.                          *)
(***************************************************************************)
RestSnapshot(s) ==
  /\ rest[s] = Sent
  /\ rest' = [rest EXCEPT ![s] = InFlight(Len(feed))]
  /\ UNCHANGED <<feedVars, storeVars, elapsed, failures>>

RestAnswer(s) ==
  /\ rest[s].state = "in flight"
  /\ rest' = [rest EXCEPT ![s] = Queued(@.at, Cell)]
  /\ UNCHANGED <<feedVars, storeVars, elapsed, failures>>

RestPartly(s) ==
  /\ rest[s].state = "in flight"
  /\ failures < MaxFail
  /\ \E read \in SUBSET Cell : rest' = [rest EXCEPT ![s] = Queued(@.at, read)]
  /\ failures' = failures + 1
  /\ UNCHANGED <<feedVars, storeVars, elapsed>>

RestFail(s) ==
  /\ rest[s].state \in {"sent", "in flight"}
  /\ failures < MaxFail
  /\ rest' = [rest EXCEPT ![s] = Idle]
  /\ failures' = failures + 1
  /\ UNCHANGED <<feedVars, storeVars, elapsed>>

Next ==
  \/ PublishSnapshot
  \/ PublishDelta
  \/ parseAndPush
  \/ DropMessage
  \/ EngineApply
  \/ EngineReject
  \/ Tick
  \/ \E s \in Session : \/ EnginePatch(s)
                        \/ RestSnapshot(s)
                        \/ RestAnswer(s)
                        \/ RestPartly(s)
                        \/ RestFail(s)

Spec == Init /\ [][Next]_vars

\* The threads run (the engine spins, the websocket thread reads whatever
\* arrives) and a REST request that does not fail is answered.  Nothing
\* obliges the exchange to publish.
Fairness ==
  /\ WF_vars(parseAndPush \/ DropMessage)
  /\ WF_vars(EngineApply \/ EngineReject)
  /\ WF_vars(Tick)
  /\ \A s \in Session : /\ WF_vars(EnginePatch(s))
                        /\ WF_vars(RestSnapshot(s))
                        /\ WF_vars(RestAnswer(s) \/ RestPartly(s) \/ RestFail(s))

FairSpec == Spec /\ Fairness

-----------------------------------------------------------------------------
(***************************************************************************)
(* Properties.                                                             *)
(***************************************************************************)

\* What the last patch is off by: older than the point it was applied at
\* (at < on), it lacks changes of messages the engine had already consumed;
\* newer, it holds changes of messages that will be applied again; partly
\* read, it lacks the other levels.
PatchError(c) == Parsed(patch.at, patch.read)[c] - Truth(patch.on)[c]

\* A book that is not flagged invalid is the exchange's book at
\* last_message_seq_, off by the age of its last patch and the levels that
\* patch was not read to, and by nothing else: whatever was lost, rejected or
\* under way before the patch, no message applied since adds an error.
DriftIsPatchSkew ==
  ~invalid_state =>
    \A c \in Cell : book[c] = Truth(last_message_seq)[c] + PatchError(c)

\* A lost message is never absorbed in silence: while the book counts as
\* valid, every message that was lost is either still ahead of
\* last_message_seq_ or precedes the point at which a patch was applied.
NoSilentLoss ==
  ~invalid_state => \A n \in lost : n > last_message_seq \/ n <= patch.on

\* A price level with a negative quantity is never part of a book that
\* counts as valid (the critical error of recordOrderbookDelta).
NegativeIsInvalid == (\E c \in Cell : book[c] < 0) => invalid_state

\* While the book is invalid nothing but a patch changes it, and the step
\* that changes it makes it valid again.
FrozenWhileInvalid == [][invalid_state /\ book' # book => ~invalid_state']_vars

\* Sequence ids are consumed in order and each at most once: the engine
\* never moves back, whatever mixture of losses, rejections and patches.
QueueInOrder ==
  /\ \A i \in 1..Len(queue) : last_message_seq < queue[i]
  /\ \A i, j \in 1..Len(queue) : i < j => queue[i] < queue[j]

\* Once requests stop failing, an invalid book is repaired if a request is
\* under way, or if a further message arrives after the cooldown (it is a
\* mismatching message that sends the request; a silent market sends none).
RepairCompletes ==
  (/\ invalid_state
   /\ failures = MaxFail
   /\ \/ \E s \in Session : rest[s] # Idle
      \/ queue # <<>> /\ elapsed > Cooldown)
  ~> ~invalid_state

\* orderbook_store.hpp says of tryPatch "Repair internal data state in the
\* event of a sequence ID mismatch": a book that counts as valid and has
\* consumed the whole feed is the exchange's book.
PatchRepairs ==
  ~invalid_state /\ last_message_seq = Len(feed) => book = Truth(Len(feed))
============================================================================
