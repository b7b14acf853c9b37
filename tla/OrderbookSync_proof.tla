------------------------ MODULE OrderbookSync_proof ------------------------
(***************************************************************************)
(* The safety properties of OrderbookSync, for every set of cells and      *)
(* sessions, every queue size and every bound.                             *)
(***************************************************************************)
EXTENDS OrderbookSync, TLAPS

USE SyncAssumption DEF SyncAssumption

\* What a delta message says is what it did to the exchange's book.
FeedConsistent ==
  \A n \in 1..Len(feed) :
    feed[n].type = "delta" =>
      feed[n].book = [Truth(n - 1) EXCEPT ![feed[n].cell] = @ + feed[n].delta]

\* A message in the queue is not a lost one.
QueuedNotLost == \A i \in 1..Len(queue) : queue[i] \notin lost

\* The inductive invariant.
IInv ==
  /\ TypeOK
  /\ FeedConsistent
  /\ QueuedNotLost
  /\ QueueInOrder
  /\ DriftIsPatchSkew
  /\ NoSilentLoss
  /\ NegativeIsInvalid

\* The exchange's book after any number of published messages is one of its
\* books.
LEMMA TruthType ==
  ASSUME TypeOK, NEW n \in 0..Len(feed)
  PROVE  Truth(n) \in TrueBook
<1>1. CASE n = 0
  BY <1>1 DEF Truth, EmptyBook, TrueBook
<1>2. CASE n # 0
  <2>1. feed[n] \in Snapshot \cup Delta
    BY <1>2 DEF TypeOK
  <2> QED BY <1>2, <2>1 DEF Truth, Snapshot, Delta
<1> QED BY <1>1, <1>2

\* A patch under way or applied stays one as the feed grows and more of it is
\* read.
LEMMA TypesGrow ==
  ASSUME TypeOK, Len(feed') \in Nat, Len(feed) <= Len(feed'),
         received' \in Nat, received <= received'
  PROVE  RestState \subseteq RestState' /\ PatchRecord \subseteq PatchRecord'
<1>1. 0..Len(feed) \subseteq 0..Len(feed')
  BY DEF TypeOK
<1>2. 0..received \subseteq 0..received'
  BY DEF TypeOK
<1>3. RestState \subseteq RestState'
  BY <1>1 DEF RestState
<1>4. PatchRecord \subseteq PatchRecord'
  BY <1>1, <1>2 DEF PatchRecord
<1> QED BY <1>3, <1>4

\* What a patch holds of the exchange's book is a book of the exchange.
LEMMA ParsedType ==
  ASSUME TypeOK, NEW n \in 0..Len(feed), NEW read \in SUBSET Cell
  PROVE  Parsed(n, read) \in TrueBook
<1>1. Truth(n) \in TrueBook
  BY TruthType
<1> QED BY <1>1 DEF Parsed, TrueBook

\* A pending patch names the messages it contains and the levels it was read
\* to.
LEMMA QueuedType ==
  ASSUME TypeOK, NEW s \in Session, rest[s].state = "queued"
  PROVE  rest[s].at \in 0..Len(feed) /\ rest[s].read \in SUBSET Cell
<1>1. rest[s] \in RestState
  BY DEF TypeOK
<1> QED BY <1>1 DEF RestState

\* The initial states satisfy the invariant.
LEMMA InitInv == Init => IInv
<1> SUFFICES ASSUME Init PROVE IInv
  OBVIOUS
<1> USE DEF Init
<1>1. TypeOK
  <2>1. /\ feed \in Seq(Snapshot \cup Delta) /\ Len(feed) = 0
        /\ queue \in Seq(1..received) /\ Len(queue) = 0
    OBVIOUS
  <2>2. book \in Book
    BY DEF Book, EmptyBook
  <2>3. rest \in [Session -> RestState]
    BY DEF RestState, Idle
  <2>4. /\ received \in 0..Len(feed)
        /\ Len(queue) <= QueueSize
        /\ last_message_seq \in 0..received
        /\ elapsed \in 0..(Cooldown + 1)
        /\ failures \in Nat
        /\ lost \subseteq 1..received
        /\ patch \in PatchRecord
    BY <2>1 DEF PatchRecord
  <2>5. invalid_state \in BOOLEAN
    OBVIOUS
  <2> QED BY <2>1, <2>2, <2>3, <2>4, <2>5 DEF TypeOK
<1>2. FeedConsistent /\ QueuedNotLost /\ QueueInOrder
  BY DEF FeedConsistent, QueuedNotLost, QueueInOrder
<1>3. DriftIsPatchSkew /\ NoSilentLoss /\ NegativeIsInvalid
  BY DEF DriftIsPatchSkew, NoSilentLoss, NegativeIsInvalid, PatchError, Parsed, Truth,
         EmptyBook
<1> QED BY <1>1, <1>2, <1>3 DEF IInv

\* Every step keeps the types.
LEMMA NextType == TypeOK /\ [Next]_vars => TypeOK'
<1> SUFFICES ASSUME TypeOK, [Next]_vars PROVE TypeOK'
  OBVIOUS
<1>1. CASE PublishSnapshot
  <2>1. PICK b \in TrueBook : feed' = <<[type |-> "snapshot", book |-> b]>>
    BY <1>1 DEF PublishSnapshot
  <2>2. feed' \in Seq(Snapshot \cup Delta) /\ Len(feed') = 1
    BY <2>1 DEF Snapshot
  <2>3. received = 0
    BY <1>1 DEF PublishSnapshot, TypeOK
  <2>4. RestState \subseteq RestState' /\ PatchRecord \subseteq PatchRecord'
    BY <1>1, <2>2, <2>3, TypesGrow DEF PublishSnapshot
  <2> QED BY <1>1, <2>2, <2>3, <2>4
          DEF PublishSnapshot, TypeOK, storeVars, restVars
<1>2. CASE PublishDelta
  <2>1. PICK c \in Cell, q \in 0..MaxQty :
          LET now == Truth(Len(feed))
          IN  /\ q # now[c]
              /\ feed' = Append(feed, [type |-> "delta", cell |-> c,
                                       delta |-> q - now[c],
                                       book |-> [now EXCEPT ![c] = q]])
    BY <1>2 DEF PublishDelta
  <2>2. Len(feed) \in Nat /\ Truth(Len(feed)) \in TrueBook
    BY TruthType DEF TypeOK
  <2>3. [type |-> "delta", cell |-> c, delta |-> q - Truth(Len(feed))[c],
         book |-> [Truth(Len(feed)) EXCEPT ![c] = q]] \in Delta
    BY <2>2 DEF Delta, TrueBook
  <2>4. feed' \in Seq(Snapshot \cup Delta) /\ Len(feed') = Len(feed) + 1
    BY <2>1, <2>3 DEF TypeOK
  <2>5. RestState \subseteq RestState' /\ PatchRecord \subseteq PatchRecord'
    <3>1. received' \in Nat /\ received' = received
      BY <1>2 DEF PublishDelta, TypeOK
    <3> QED BY <2>2, <2>4, <3>1, TypesGrow
  <2> QED BY <1>2, <2>2, <2>4, <2>5 DEF PublishDelta, TypeOK, storeVars, restVars
<1>3. CASE parseAndPush
  <2>1. /\ received' \in 0..Len(feed')
        /\ received' = received + 1
    BY <1>3 DEF parseAndPush, ReadNext, TypeOK
  <2>2. queue \in Seq(1..received') /\ received' \in 1..received'
    BY <2>1 DEF TypeOK
  <2>3. queue' \in Seq(1..received') /\ Len(queue') = Len(queue) + 1
    BY <1>3, <2>1, <2>2 DEF parseAndPush
  <2>4. Len(queue') <= QueueSize
    BY <1>3, <2>3 DEF parseAndPush, TypeOK
  <2>5. RestState \subseteq RestState' /\ PatchRecord \subseteq PatchRecord'
    BY <1>3, <2>1, TypesGrow DEF parseAndPush, TypeOK
  <2> QED BY <1>3, <2>1, <2>3, <2>4, <2>5
          DEF parseAndPush, TypeOK, storeVars, restVars
<1>4. CASE DropMessage
  <2>1. /\ received' \in 0..Len(feed')
        /\ received' = received + 1
    BY <1>4 DEF DropMessage, ReadNext, TypeOK
  <2>2. queue' \in Seq(1..received')
    BY <1>4, <2>1 DEF DropMessage, TypeOK
  <2>3. RestState \subseteq RestState' /\ PatchRecord \subseteq PatchRecord'
    BY <1>4, <2>1, TypesGrow DEF DropMessage, TypeOK
  <2> QED BY <1>4, <2>1, <2>2, <2>3 DEF DropMessage, TypeOK, storeVars, restVars
<1>5. CASE EngineApply
  <2> DEFINE m == feed[Head(queue)]
  <2>1. /\ queue # <<>>
        /\ Head(queue) = last_message_seq + 1
        /\ ~invalid_state
        /\ recordOrderbookMessage(Head(queue))
        /\ queue' = Tail(queue)
        /\ UNCHANGED <<feed, received, lost, restVars>>
    BY <1>5 DEF EngineApply, Mismatch
  <2>2. Head(queue) \in 1..received /\ queue' \in Seq(1..received)
        /\ Len(queue') <= QueueSize
    BY <2>1 DEF TypeOK
  <2>3. m \in Snapshot \cup Delta
    BY <2>2 DEF TypeOK
  <2>4. last_message_seq' = last_message_seq + 1
    BY <2>1 DEF recordOrderbookMessage
  <2>5. book' \in Book /\ invalid_state' \in BOOLEAN /\ patch' \in PatchRecord
    <3>1. CASE m.type = "delta"
      <4>1. recordOrderbookDelta(m)
        BY <2>1, <3>1 DEF recordOrderbookMessage
      <4>2. m.delta \in Int /\ m.cell \in Cell
        BY <2>3, <3>1 DEF Snapshot, Delta
      <4>3. book' \in Book /\ patch' \in PatchRecord
        BY <4>1, <4>2, SMTT(30) DEF recordOrderbookDelta, TypeOK, Book
      <4>4. invalid_state' \in BOOLEAN
        BY <4>1, Zenon DEF recordOrderbookDelta
      <4> QED BY <4>3, <4>4
    <3>2. CASE m.type # "delta"
      <4>1. recordOrderbookSnapshot(m)
        BY <2>1, <3>2 DEF recordOrderbookMessage
      <4>2. m.book \in Book
        BY <2>3 DEF Snapshot, Delta, TrueBook, Book
      <4>3. book' \in Book
        BY <4>1, <4>2 DEF recordOrderbookSnapshot
      <4>4. patch' \in PatchRecord
        <5>1. patch \in PatchRecord /\ patch.on \in 0..Len(feed)
          BY DEF TypeOK, PatchRecord
        <5>2. patch' = [patch EXCEPT !.at = patch.on, !.read = Cell]
          BY <4>1 DEF recordOrderbookSnapshot
        <5> QED BY <5>1, <5>2 DEF PatchRecord
      <4>5. invalid_state' \in BOOLEAN
        BY <4>1 DEF recordOrderbookSnapshot, TypeOK
      <4> QED BY <4>3, <4>4, <4>5
    <3> QED BY <3>1, <3>2
  <2>6. last_message_seq' \in 0..received'
    BY <2>1, <2>2, <2>4 DEF TypeOK
  <2>7. RestState' = RestState /\ PatchRecord' = PatchRecord
    BY <2>1 DEF RestState, PatchRecord
  <2> QED BY <2>1, <2>2, <2>5, <2>6, <2>7 DEF TypeOK, restVars
<1>6. CASE EngineReject
  <2>1. /\ queue # <<>>
        /\ rejectOrderbookMessage(Head(queue))
        /\ handleOrderbookMismatch
        /\ queue' = Tail(queue)
        /\ UNCHANGED <<feed, received, lost>>
    BY <1>6 DEF EngineReject
  <2>2. Head(queue) \in 1..received /\ queue' \in Seq(1..received)
        /\ Len(queue') <= QueueSize
    BY <2>1 DEF TypeOK
  <2>3. /\ last_message_seq' = Head(queue) /\ UNCHANGED <<book, patch>>
    BY <2>1 DEF rejectOrderbookMessage
  <2>4. invalid_state' \in BOOLEAN
    BY <2>1 DEF rejectOrderbookMessage
  <2>5. /\ elapsed' \in 0..(Cooldown + 1) /\ failures' \in Nat
        /\ rest' \in [Session -> RestState]
    <3>1. Sent \in RestState
      BY DEF RestState, Sent
    <3>2. CASE elapsed <= Cooldown
      BY <2>1, <3>2 DEF handleOrderbookMismatch, restVars, TypeOK
    <3>3. CASE ~(elapsed <= Cooldown)
      <4>1. PICK s \in Session : /\ elapsed' = 0 /\ failures' = failures
                                 /\ rest' = [rest EXCEPT ![s] = Sent]
        BY <2>1, <3>3 DEF handleOrderbookMismatch
      <4> QED BY <3>1, <4>1 DEF TypeOK
    <3> QED BY <3>2, <3>3
  <2>6. RestState' = RestState /\ PatchRecord' = PatchRecord
    BY <2>1 DEF RestState, PatchRecord
  <2> QED BY <2>1, <2>2, <2>3, <2>4, <2>5, <2>6 DEF TypeOK
<1>7. CASE Tick
  <2>1. elapsed' \in 0..(Cooldown + 1)
    BY <1>7 DEF Tick, TypeOK
  <2>2. RestState' = RestState /\ PatchRecord' = PatchRecord
    BY <1>7 DEF Tick, feedVars, RestState, PatchRecord
  <2> QED BY <1>7, <2>1, <2>2 DEF Tick, TypeOK, feedVars, storeVars
<1>8. ASSUME NEW s \in Session, EnginePatch(s) PROVE TypeOK'
  <2>1. PICK n \in 0..Len(feed), read \in SUBSET Cell : tryPatch(n, read)
    BY <1>8, QueuedType DEF EnginePatch
  <2>2. /\ rest' = [rest EXCEPT ![s] = Idle]
        /\ UNCHANGED <<feedVars, elapsed, failures>>
    BY <1>8 DEF EnginePatch
  <2>3. RestState' = RestState /\ PatchRecord' = PatchRecord
    BY <2>2 DEF feedVars, RestState, PatchRecord
  <2>4. rest' \in [Session -> RestState]
    <3>1. Idle \in RestState
      BY DEF RestState, Idle
    <3> QED BY <2>2, <3>1 DEF TypeOK
  <2>5. CASE invalid_state
    <3>1. /\ book' = Parsed(n, read) /\ invalid_state' = FALSE
          /\ patch' = [at |-> n, read |-> read, on |-> last_message_seq]
          /\ UNCHANGED last_message_seq
      BY <2>1, <2>5 DEF tryPatch
    <3>2. book' \in Book
      BY <3>1, ParsedType DEF Book, TrueBook
    <3>3. invalid_state' \in BOOLEAN
      BY <3>1
    <3>4. patch' \in PatchRecord
      BY <3>1 DEF TypeOK, PatchRecord
    <3> QED BY <2>2, <2>3, <2>4, <3>1, <3>2, <3>3, <3>4 DEF TypeOK, feedVars
  <2>6. CASE ~invalid_state
    <3>1. UNCHANGED <<feedVars, storeVars, elapsed, failures>>
      BY <2>1, <2>2, <2>6 DEF tryPatch
    <3>2. UNCHANGED <<feed, received, queue, lost, book, last_message_seq,
                      invalid_state, patch, elapsed, failures>>
      BY <3>1 DEF feedVars, storeVars
    <3> QED BY <2>3, <2>4, <3>2 DEF TypeOK
  <2> QED BY <2>5, <2>6
<1>9. ASSUME NEW s \in Session,
             RestSnapshot(s) \/ RestAnswer(s) \/ RestPartly(s) \/ RestFail(s)
      PROVE TypeOK'
  <2>1. rest[s] \in RestState
    BY DEF TypeOK
  <2>2. rest[s].state = "in flight" => rest[s].at \in 0..Len(feed)
    BY <2>1 DEF RestState
  <2>3. rest' \in [Session -> RestState]
    <3>1. CASE RestSnapshot(s)
      <4>1. Len(feed) \in 0..Len(feed)
        BY DEF TypeOK
      <4>2. InFlight(Len(feed)) \in RestState
        BY <4>1 DEF RestState, InFlight
      <4> QED BY <3>1, <4>2 DEF RestSnapshot, TypeOK
    <3>2. CASE RestAnswer(s)
      <4>1. rest' = [rest EXCEPT ![s] = Queued(rest[s].at, Cell)]
        BY <3>2 DEF RestAnswer
      <4>2. Queued(rest[s].at, Cell) \in RestState
        BY <2>2, <3>2 DEF RestAnswer, RestState, Queued
      <4> QED BY <4>1, <4>2 DEF TypeOK
    <3>3. CASE RestPartly(s)
      <4>1. PICK read \in SUBSET Cell :
              rest' = [rest EXCEPT ![s] = Queued(rest[s].at, read)]
        BY <3>3 DEF RestPartly
      <4>2. Queued(rest[s].at, read) \in RestState
        BY <2>2, <3>3 DEF RestPartly, RestState, Queued
      <4> QED BY <4>1, <4>2 DEF TypeOK
    <3>4. CASE RestFail(s)
      <4>1. Idle \in RestState
        BY DEF RestState, Idle
      <4> QED BY <3>4, <4>1 DEF RestFail, TypeOK
    <3> QED BY <1>9, <3>1, <3>2, <3>3, <3>4
  <2>4. failures' \in Nat
    <3>1. failures' = failures \/ failures' = failures + 1
      BY <1>9, Zenon DEF RestSnapshot, RestAnswer, RestPartly, RestFail
    <3> QED BY <3>1 DEF TypeOK
  <2>5. UNCHANGED <<feedVars, storeVars, elapsed>>
    BY <1>9 DEF RestSnapshot, RestAnswer, RestPartly, RestFail
  <2>6. RestState' = RestState /\ PatchRecord' = PatchRecord
    BY <2>5 DEF feedVars, RestState, PatchRecord
  <2> QED BY <2>3, <2>4, <2>5, <2>6 DEF TypeOK, feedVars, storeVars
<1>10. CASE UNCHANGED vars
  BY <1>10 DEF vars, feedVars, storeVars, restVars, TypeOK, RestState, PatchRecord
<1> QED BY <1>1, <1>2, <1>3, <1>4, <1>5, <1>6, <1>7, <1>8, <1>9, <1>10 DEF Next

\* Only the exchange changes the feed, and it only appends to it.
LEMMA FeedGrows ==
  ASSUME TypeOK, [Next]_vars
  PROVE  /\ Len(feed) <= Len(feed')
         /\ \A n \in 1..Len(feed) : feed'[n] = feed[n]
         /\ \A n \in 0..Len(feed) : Truth(n)' = Truth(n)
<1> SUFFICES /\ Len(feed) <= Len(feed')
             /\ \A n \in 1..Len(feed) : feed'[n] = feed[n]
  BY DEF Truth, TypeOK
<1>1. CASE PublishSnapshot
  BY <1>1 DEF PublishSnapshot, TypeOK
<1>2. CASE PublishDelta
  <2>1. PICK e : feed' = Append(feed, e)
    BY <1>2 DEF PublishDelta
  <2> QED BY <2>1 DEF TypeOK
<1>3. CASE UNCHANGED feed
  BY <1>3 DEF TypeOK
<1> QED
  BY <1>1, <1>2, <1>3
     DEF Next, parseAndPush, DropMessage, EngineApply, EngineReject, Tick,
         EnginePatch, RestSnapshot, RestAnswer, RestPartly, RestFail, vars,
         feedVars

\* Every message the exchange adds describes the change it makes.
LEMMA NextFeed ==
  ASSUME TypeOK, FeedConsistent, [Next]_vars
  PROVE  FeedConsistent'
<1>1. CASE PublishSnapshot
  <2>1. PICK b \in TrueBook : feed' = <<[type |-> "snapshot", book |-> b]>>
    BY <1>1 DEF PublishSnapshot
  <2>2. Len(feed') = 1 /\ feed'[1].type = "snapshot"
    BY <2>1
  <2> QED BY <2>2 DEF FeedConsistent
<1>2. CASE PublishDelta
  <2>0. PICK L \in Nat : L = Len(feed)
    BY DEF TypeOK
  <2>01. PICK now \in TrueBook : now = Truth(L)
    BY <2>0, TruthType
  <2>1. PICK c \in Cell, q \in 0..MaxQty :
          feed' = Append(feed, [type |-> "delta", cell |-> c,
                                delta |-> q - now[c],
                                book |-> [now EXCEPT ![c] = q]])
    BY <1>2, <2>0, <2>01 DEF PublishDelta
  <2>3. /\ Len(feed') = L + 1
        /\ feed'[L + 1] = [type |-> "delta", cell |-> c, delta |-> q - now[c],
                           book |-> [now EXCEPT ![c] = q]]
        /\ \A n \in 1..L : feed'[n] = feed[n]
    BY <2>0, <2>1 DEF TypeOK
  <2>4. \A n \in 0..L : Truth(n)' = Truth(n)
    BY <2>0, FeedGrows
  <2>5. [now EXCEPT ![c] = q] = [now EXCEPT ![c] = @ + (q - now[c])]
    <3>1. now[c] \in Int /\ q \in Int
      BY DEF TrueBook
    <3>2. now[c] + (q - now[c]) = q
      BY <3>1
    <3> QED BY <3>2
  <2>6. feed'[L + 1].book
          = [Truth(L)' EXCEPT ![feed'[L + 1].cell] = @ + feed'[L + 1].delta]
    BY <2>01, <2>3, <2>4, <2>5
  <2>7. ASSUME NEW n \in 1..Len(feed'), feed'[n].type = "delta"
        PROVE  feed'[n].book = [Truth(n - 1)' EXCEPT ![feed'[n].cell]
                                                  = @ + feed'[n].delta]
    <3>1. CASE n = L + 1
      BY <2>6, <3>1
    <3>2. CASE n \in 1..L
      <4>1. n - 1 \in 0..L
        BY <3>2
      <4> QED BY <2>0, <2>3, <2>4, <2>7, <3>2, <4>1 DEF FeedConsistent
    <3> QED BY <2>3, <3>1, <3>2
  <2> QED BY <2>7 DEF FeedConsistent, Truth
<1>3. CASE UNCHANGED feed
  BY <1>3 DEF FeedConsistent, Truth
<1> QED
  BY <1>1, <1>2, <1>3
     DEF Next, parseAndPush, DropMessage, EngineApply, EngineReject, Tick,
         EnginePatch, RestSnapshot, RestAnswer, RestPartly, RestFail, vars,
         feedVars

\* The queue stays in order, ahead of last_message_seq_, and free of lost
\* messages.
LEMMA NextQueue ==
  ASSUME TypeOK, QueuedNotLost, QueueInOrder, [Next]_vars
  PROVE  QueuedNotLost' /\ QueueInOrder'
<1> USE DEF QueuedNotLost, QueueInOrder
<1>1. CASE parseAndPush
  <2>1. /\ \A i \in 1..Len(queue) : queue'[i] = queue[i] /\ queue[i] <= received
        /\ Len(queue') = Len(queue) + 1
        /\ queue'[Len(queue) + 1] = received + 1
        /\ UNCHANGED <<lost, last_message_seq>>
    BY <1>1 DEF parseAndPush, TypeOK, storeVars
  <2>2. Len(queue) \in Nat /\ received \in Nat
        /\ last_message_seq \in Nat /\ last_message_seq <= received
        /\ received + 1 \notin lost
    BY DEF TypeOK
  <2>3. QueuedNotLost'
    BY <2>1, <2>2
  <2>4. \A i \in 1..Len(queue) : queue[i] \in Int
    BY DEF TypeOK
  <2>5. QueueInOrder'
    <3>1. \A i \in 1..Len(queue') : last_message_seq' < queue'[i]
      BY <2>1, <2>2, <2>4
    <3>2. ASSUME NEW i \in 1..Len(queue'), NEW j \in 1..Len(queue'), i < j
          PROVE  queue'[i] < queue'[j]
      BY <2>1, <2>2, <2>4, <3>2
    <3> QED BY <3>1, <3>2
  <2> QED BY <2>3, <2>5
<1>2. CASE DropMessage
  <2>1. \A i \in 1..Len(queue) : queue[i] # received + 1
    BY DEF TypeOK
  <2> QED BY <1>2, <2>1 DEF DropMessage, storeVars
<1>3. CASE EngineApply \/ EngineReject
  <2>1. /\ queue # <<>> /\ queue' = Tail(queue) /\ lost' = lost
        /\ last_message_seq' = queue[1]
    BY <1>3 DEF EngineApply, EngineReject, Mismatch, recordOrderbookMessage,
                rejectOrderbookMessage
  <2>2. /\ Len(queue') = Len(queue) - 1 /\ Len(queue) \in Nat
        /\ \A i \in 1..Len(queue') : queue'[i] = queue[i + 1]
    BY <2>1 DEF TypeOK
  <2> QED BY <2>1, <2>2
<1>4. CASE UNCHANGED <<queue, lost, last_message_seq>>
  BY <1>4
<1>5. CASE \E s \in Session : EnginePatch(s)
  <2>1. UNCHANGED <<queue, lost, last_message_seq>>
    BY <1>5 DEF EnginePatch, tryPatch, feedVars, storeVars
  <2> QED BY <2>1
<1> QED
  BY <1>1, <1>2, <1>3, <1>4, <1>5
     DEF Next, PublishSnapshot, PublishDelta, Tick, RestSnapshot, RestAnswer,
         RestPartly, RestFail, vars, feedVars, storeVars

\* A step that leaves the store alone leaves alone what the store's book is
\* compared with.
LEMMA TruthUnchanged ==
  ASSUME TypeOK, [Next]_vars, UNCHANGED last_message_seq
  PROVE  Truth(last_message_seq)' = Truth(last_message_seq)
<1>1. PICK k \in 0..Len(feed) : k = last_message_seq
  BY DEF TypeOK
<1>2. Truth(k)' = Truth(k)
  BY FeedGrows
<1> QED BY <1>1, <1>2 DEF Truth

\* The error of a patch is fixed when it is applied: the feed does not
\* rewrite its past.
LEMMA PatchErrorUnchanged ==
  ASSUME TypeOK, [Next]_vars, UNCHANGED patch, NEW c \in Cell
  PROVE  PatchError(c) \in Int /\ PatchError(c)' = PatchError(c)
<1>1. PICK n \in 0..Len(feed), k \in 0..Len(feed), read \in SUBSET Cell :
        patch.at = n /\ patch.on = k /\ patch.read = read
  BY DEF TypeOK, PatchRecord
<1>2. Truth(n)' = Truth(n) /\ Truth(k)' = Truth(k)
  BY FeedGrows
<1>3. Truth(k) \in TrueBook /\ Parsed(n, read) \in TrueBook
  BY TruthType, ParsedType
<1>4. PatchError(c) = Parsed(n, read)[c] - Truth(k)[c]
  BY <1>1 DEF PatchError
<1>5. Truth(patch.on)' = Truth(k)' /\ Truth(patch.at)' = Truth(n)'
  BY <1>1 DEF Truth
<1>6. Parsed(patch.at, patch.read)' = Parsed(n, read)
  BY <1>1, <1>2, <1>5 DEF Parsed
<1>7. PatchError(c)' = Parsed(n, read)[c] - Truth(k)[c]
  BY <1>2, <1>5, <1>6 DEF PatchError
<1>8. PatchError(c) \in Int
  BY <1>3, <1>4 DEF TrueBook
<1> QED BY <1>4, <1>7, <1>8

\* What applying the next message does to the exchange's book at
\* last_message_seq_.
LEMMA TruthAdvances ==
  ASSUME TypeOK, FeedConsistent, [Next]_vars,
         last_message_seq' = last_message_seq + 1,
         last_message_seq + 1 \in 1..Len(feed)
  PROVE  LET m == feed[last_message_seq + 1]
         IN  /\ Truth(last_message_seq)' = m.book
             /\ m.type = "delta" =>
                  m.book = [Truth(last_message_seq) EXCEPT ![m.cell] = @ + m.delta]
<1> DEFINE m == feed[last_message_seq + 1]
<1>1. PICK k \in 0..Len(feed) : k = last_message_seq + 1
  OBVIOUS
<1>2. Truth(k)' = Truth(k) /\ Truth(k) = m.book
  BY <1>1, FeedGrows DEF Truth
<1>3. Truth(last_message_seq)' = Truth(k)'
  BY <1>1 DEF Truth
<1>4. (last_message_seq + 1) - 1 = last_message_seq
  BY DEF TypeOK
<1>5. m.type = "delta" =>
        m.book = [Truth(last_message_seq) EXCEPT ![m.cell] = @ + m.delta]
  BY <1>4 DEF FeedConsistent
<1> QED BY <1>2, <1>3, <1>5

\* Applying the next message keeps the book in step with the exchange.
LEMMA ApplyBook ==
  ASSUME IInv, TypeOK', [Next]_vars, EngineApply
  PROVE  DriftIsPatchSkew' /\ NoSilentLoss' /\ NegativeIsInvalid'
<1> USE DEF IInv
<1> DEFINE L == last_message_seq
           m == feed[L + 1]
<1>1. /\ queue # <<>>
      /\ Head(queue) = L + 1
      /\ ~invalid_state
      /\ recordOrderbookMessage(L + 1)
      /\ UNCHANGED lost
  BY DEF EngineApply, Mismatch
<1>2. L \in Nat /\ L + 1 \in 1..received /\ L + 1 \in 1..Len(feed)
  BY <1>1, SMTT(30) DEF TypeOK
<1>3. m \in Snapshot \cup Delta
  BY <1>2, SMTT(30) DEF TypeOK
<1>4. L' = L + 1 /\ patch'.on = patch.on
  BY <1>1 DEF recordOrderbookMessage, recordOrderbookDelta,
              recordOrderbookSnapshot, TypeOK, PatchRecord
<1>5. /\ Truth(L)' = m.book
      /\ m.type = "delta" => m.book = [Truth(L) EXCEPT ![m.cell] = @ + m.delta]
  BY <1>2, <1>4, TruthAdvances
<1>6. \A c \in Cell : book[c] = Truth(L)[c] + PatchError(c)
  BY <1>1 DEF DriftIsPatchSkew
<1>7. Truth(L) \in TrueBook
  BY <1>2, TruthType
<1>8. \A c \in Cell : ~(book[c] < 0)
  BY <1>1 DEF NegativeIsInvalid
<1>9. NoSilentLoss'
  <2>1. L + 1 \notin lost
    BY <1>1, <1>2, SMTT(30) DEF QueuedNotLost, TypeOK
  <2>2. \A n \in lost : n \in Int /\ (n > L \/ n <= patch.on)
    BY <1>1 DEF NoSilentLoss, TypeOK
  <2> QED BY <1>1, <1>2, <1>4, <2>1, <2>2 DEF NoSilentLoss
<1>10. CASE m.type = "delta"
  <2>1. /\ book' = [book EXCEPT ![m.cell] = @ + m.delta]
        /\ invalid_state' = (invalid_state \/ book[m.cell] + m.delta < 0)
        /\ patch' = patch
    BY <1>1, <1>10 DEF recordOrderbookMessage, recordOrderbookDelta
  <2>2. m.cell \in Cell /\ m.delta \in Int
    BY <1>3, <1>10 DEF Snapshot, Delta
  <2>3. ASSUME NEW c \in Cell PROVE book'[c] = Truth(L)'[c] + PatchError(c)'
    <3>0. PatchError(c) \in Int /\ PatchError(c)' = PatchError(c)
      BY <2>1, PatchErrorUnchanged
    <3>1. book[c] \in Int /\ Truth(L)[c] \in Int
      BY <1>7 DEF TypeOK, Book, TrueBook
    <3>2. book'[c] = IF c = m.cell THEN book[c] + m.delta ELSE book[c]
      BY <2>1, <2>2 DEF TypeOK, Book
    <3>3. Truth(L)'[c] = IF c = m.cell THEN Truth(L)[c] + m.delta ELSE Truth(L)[c]
      BY <1>5, <1>7, <1>10, <2>2 DEF TrueBook
    <3> QED BY <1>6, <2>1, <2>2, <3>0, <3>1, <3>2, <3>3
  <2>4. (\E c \in Cell : book'[c] < 0) => invalid_state'
    <3>1. ASSUME NEW c \in Cell, book'[c] < 0 PROVE invalid_state'
      <4>1. c = m.cell
        BY <1>8, <2>1, <2>2, <3>1 DEF TypeOK, Book
      <4>2. book'[c] = book[c] + m.delta
        BY <2>1, <4>1 DEF TypeOK, Book
      <4> QED BY <2>1, <3>1, <4>1, <4>2
    <3> QED BY <3>1
  <2>5. DriftIsPatchSkew'
    BY <2>3, Zenon DEF DriftIsPatchSkew
  <2>6. NegativeIsInvalid'
    BY <2>4, Zenon DEF NegativeIsInvalid
  <2> QED BY <1>9, <2>5, <2>6
<1>11. CASE m.type # "delta"
  <2>1. book' = m.book /\ patch' = [patch EXCEPT !.at = patch.on, !.read = Cell]
    BY <1>1, <1>11 DEF recordOrderbookMessage, recordOrderbookSnapshot
  <2>2. m.book \in TrueBook
    BY <1>3 DEF Snapshot, Delta
  <2>3. \A c \in Cell : m.book[c] \in 0..MaxQty
    BY <2>2 DEF TrueBook
  <2>4. ASSUME NEW c \in Cell PROVE book'[c] = Truth(L)'[c] + PatchError(c)'
    <3>0. patch \in PatchRecord
      BY DEF TypeOK
    <3>1. PICK k \in 0..Len(feed) : k = patch.on
      BY <3>0 DEF PatchRecord, TypeOK
    <3>2. patch'.at = k /\ patch'.read = Cell /\ patch'.on = k
      BY <2>1, <3>0, <3>1 DEF PatchRecord
    <3>3. Truth(k)' \in TrueBook
      BY <3>1, TruthType, FeedGrows
    <3>4. Truth(patch.on)' = Truth(k)' /\ Parsed(patch.at, patch.read)'[c] = Truth(k)'[c]
      BY <3>2 DEF Truth, Parsed
    <3>5. PatchError(c)' = 0
      BY <3>3, <3>4 DEF PatchError, TrueBook
    <3> QED BY <1>5, <2>1, <2>3, <3>5
  <2>5. ~(\E c \in Cell : book'[c] < 0)
    BY <2>1, <2>3
  <2>6. DriftIsPatchSkew'
    BY <2>4, Zenon DEF DriftIsPatchSkew
  <2>7. NegativeIsInvalid'
    BY <2>5, Zenon DEF NegativeIsInvalid
  <2> QED BY <1>9, <2>6, <2>7
<1> QED BY <1>10, <1>11

\* Every other step keeps it so: a rejected message leaves a book that is
\* flagged, a patch leaves one that is accounted for by PatchError.
LEMMA NextBook ==
  ASSUME IInv, TypeOK', [Next]_vars
  PROVE  DriftIsPatchSkew' /\ NoSilentLoss' /\ NegativeIsInvalid'
<1> USE DEF IInv
<1>1. CASE EngineApply
  BY <1>1, ApplyBook
<1>2. CASE EngineReject
  <2>1. invalid_state' = TRUE
    BY <1>2 DEF EngineReject, rejectOrderbookMessage
  <2> QED BY <2>1 DEF DriftIsPatchSkew, NoSilentLoss, NegativeIsInvalid
<1>3. ASSUME UNCHANGED storeVars,
             \A n \in lost' : n \in lost \/ n > last_message_seq
      PROVE  DriftIsPatchSkew' /\ NoSilentLoss' /\ NegativeIsInvalid'
  <2> USE <1>3 DEF storeVars
  <2>1. Truth(last_message_seq)' = Truth(last_message_seq)
    BY TruthUnchanged
  <2>2. DriftIsPatchSkew'
    <3>1. \A c \in Cell : PatchError(c)' = PatchError(c)
      BY PatchErrorUnchanged
    <3> QED BY <2>1, <3>1 DEF DriftIsPatchSkew
  <2>3. NoSilentLoss'
    BY DEF NoSilentLoss
  <2>4. NegativeIsInvalid'
    BY DEF NegativeIsInvalid
  <2> QED BY <2>2, <2>3, <2>4
<1>4. ASSUME NEW s \in Session, EnginePatch(s)
      PROVE  DriftIsPatchSkew' /\ NoSilentLoss' /\ NegativeIsInvalid'
  <2>1. PICK n \in 0..Len(feed), read \in SUBSET Cell : tryPatch(n, read)
    BY <1>4, QueuedType DEF EnginePatch
  <2>2. lost' = lost /\ feed' = feed
    BY <1>4 DEF EnginePatch, feedVars
  <2>3. CASE ~invalid_state
    <3>1. UNCHANGED storeVars
      BY <2>1, <2>3 DEF tryPatch
    <3> QED BY <1>3, <2>2, <3>1
  <2>4. CASE invalid_state
    <3>1. /\ book' = Parsed(n, read)
          /\ patch' = [at |-> n, read |-> read, on |-> last_message_seq]
          /\ UNCHANGED last_message_seq
      BY <2>1, <2>4 DEF tryPatch
    <3>2. Truth(last_message_seq)' = Truth(last_message_seq)
      BY <3>1, TruthUnchanged
    <3>3. Truth(last_message_seq) \in TrueBook /\ Parsed(n, read) \in TrueBook
      <4>1. last_message_seq \in 0..Len(feed)
        BY DEF TypeOK
      <4> QED BY <4>1, TruthType, ParsedType
    <3>4. ASSUME NEW c \in Cell
          PROVE  book'[c] = Truth(last_message_seq)'[c] + PatchError(c)'
      <4>1. Parsed(patch.at, patch.read)' = Parsed(n, read)
        BY <2>2, <3>1 DEF Parsed, Truth
      <4>2. Truth(patch.on)' = Truth(last_message_seq)
        BY <2>2, <3>1 DEF Truth
      <4>3. PatchError(c)' = Parsed(n, read)[c] - Truth(last_message_seq)[c]
        BY <4>1, <4>2 DEF PatchError
      <4> QED BY <3>1, <3>2, <3>3, <4>3 DEF TrueBook
    <3>5. DriftIsPatchSkew'
      BY <3>4, Zenon DEF DriftIsPatchSkew
    <3>6. NoSilentLoss'
      BY <2>2, <3>1 DEF NoSilentLoss, TypeOK
    <3>7. ~(\E c \in Cell : book'[c] < 0)
      BY <3>1, <3>3 DEF TrueBook
    <3>8. NegativeIsInvalid'
      BY <3>7, Zenon DEF NegativeIsInvalid
    <3> QED BY <3>5, <3>6, <3>8
  <2> QED BY <2>3, <2>4
<1>5. CASE DropMessage
  <2>1. UNCHANGED storeVars /\ lost' = lost \cup {received + 1}
    BY <1>5 DEF DropMessage
  <2>2. received + 1 > last_message_seq
    BY DEF TypeOK
  <2> QED BY <1>3, <2>1, <2>2
<1>6. CASE \/ PublishSnapshot \/ PublishDelta \/ parseAndPush \/ Tick
           \/ \E s \in Session : \/ RestSnapshot(s) \/ RestAnswer(s)
                                \/ RestPartly(s) \/ RestFail(s)
           \/ UNCHANGED vars
  <2>1. UNCHANGED storeVars /\ lost' = lost
    BY <1>6 DEF PublishSnapshot, PublishDelta, parseAndPush, Tick, RestSnapshot,
                RestAnswer, RestPartly, RestFail, vars, feedVars
  <2> QED BY <1>3, <2>1
<1> QED BY <1>1, <1>2, <1>4, <1>5, <1>6 DEF Next

LEMMA NextInv == IInv /\ [Next]_vars => IInv'
  BY NextType, NextFeed, NextQueue, NextBook DEF IInv

LEMMA Invariance == Spec => []IInv
<1>1. Init => IInv
  BY InitInv
<1>2. IInv /\ [Next]_vars => IInv'
  BY NextInv
<1> QED BY <1>1, <1>2, PTL DEF Spec

-----------------------------------------------------------------------------
\* The state keeps its types: the queue its capacity, sequence ids the range
\* of what was received, the cooldown clock its cap.
THEOREM TypeCorrect == Spec => []TypeOK
  BY Invariance, PTL DEF IInv

\* A valid book is off from the exchange's book by the age of the last patch
\* and the levels it was not read to, and by nothing else, whatever is lost,
\* applied or rejected before a patch, while it is under way and after it.
THEOREM DriftBounded == Spec => []DriftIsPatchSkew
  BY Invariance, PTL DEF IInv

\* No lost message is absorbed without a patch.
THEOREM LossNeverSilent == Spec => []NoSilentLoss
  BY Invariance, PTL DEF IInv

\* A negative level is always flagged.
THEOREM NegativeFlagged == Spec => []NegativeIsInvalid
  BY Invariance, PTL DEF IInv

\* Messages are taken in the order of their ids, each at most once.
THEOREM InOrder == Spec => []QueueInOrder
  BY Invariance, PTL DEF IInv

\* Only a patch changes a book that is flagged, and it clears the flag.
THEOREM FrozenUntilPatched == Spec => FrozenWhileInvalid
<1>1. TypeOK /\ [Next]_vars => [invalid_state /\ book' # book => ~invalid_state']_vars
  <2> SUFFICES ASSUME TypeOK, Next, invalid_state, book' # book
               PROVE  ~invalid_state'
    OBVIOUS
  <2>1. ~EngineApply
    BY DEF EngineApply, Mismatch
  <2>2. PICK s \in Session : EnginePatch(s)
    BY <2>1 DEF Next, PublishSnapshot, PublishDelta, parseAndPush, DropMessage,
                EngineReject, rejectOrderbookMessage, Tick, RestSnapshot,
                RestAnswer, RestPartly, RestFail, storeVars
  <2> QED BY <2>2 DEF EnginePatch, tryPatch
<1> QED BY <1>1, TypeCorrect, PTL DEF Spec, FrozenWhileInvalid
============================================================================
