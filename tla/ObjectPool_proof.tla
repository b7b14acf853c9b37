-------------------------- MODULE ObjectPool_proof --------------------------
(***************************************************************************)
(* No session is ever in two places, the pool refuses only for a reason,   *)
(* and its steps are those of a queue of sessions, for any number of       *)
(* threads, sessions and cells.                                            *)
(***************************************************************************)
EXTENDS ObjectPool, SequenceTheorems, TLAPS

USE PoolAssumption DEF PoolAssumption

ClaimedToGet(t) == th[t].pc \in {"move", "release"}
ClaimedToPut(t) == th[t].pc \in {"put", "publish"}
Claimed(t) == ClaimedToGet(t) \/ ClaimedToPut(t)

\* An object is in the hands of the threads that have one to give back.
Hands(t) ==
  /\ th[t].pc \in {"get", "getSeq", "getCas", "move", "none", "publish"} =>
       th[t].obj = NoObject
  /\ th[t].pc \in {"release", "replace", "replaceSeq", "replaceCas", "put", "full"} =>
       th[t].obj # NoObject

\* A position that the cursor has not left is as the thread saw it.
Cursor(t) ==
  /\ th[t].pc \in {"getSeq", "getCas"} => th[t].pos <= dequeue_pos
  /\ th[t].pc = "getCas" /\ th[t].pos = dequeue_pos =>
       sequence[Cell(th[t].pos)] = th[t].pos + 1
  /\ th[t].pc \in {"replaceSeq", "replaceCas"} => th[t].pos <= enqueue_pos
  /\ th[t].pc = "replaceCas" /\ th[t].pos = enqueue_pos =>
       sequence[Cell(th[t].pos)] = th[t].pos

\* The sequence of a claimed cell stays until its claimant stores the next.
Claim(t) ==
  /\ ClaimedToGet(t) => th[t].pos < dequeue_pos /\ sequence[Cell(th[t].pos)] = th[t].pos + 1
  /\ ClaimedToPut(t) => th[t].pos < enqueue_pos /\ sequence[Cell(th[t].pos)] = th[t].pos

\* The data of a claimed cell.
Contents(t) ==
  /\ th[t].pc \in {"move", "publish"} => data[Cell(th[t].pos)] # NoObject
  /\ th[t].pc \in {"release", "put"} => data[Cell(th[t].pos)] = NoObject

ThreadInv(t) == Hands(t) /\ Cursor(t) /\ Claim(t) /\ Contents(t)

Apart ==
  \A t, u \in Thread : Claimed(t) /\ Claimed(u) /\ t # u => Cell(th[t].pos) # Cell(th[u].pos)

\* A cell waits to be filled or to be emptied, and is full or empty accordingly
\* unless its claimant is at work.
Fillable(i) == Cell(sequence[i]) = i
Emptiable(i) == sequence[i] > 0 /\ Cell(sequence[i] - 1) = i

Phase(i) ==
  /\ Fillable(i) \/ Emptiable(i)
  /\ Fillable(i) =>
       data[i] = NoObject \/ \E t \in Thread : th[t].pc = "publish" /\ Cell(th[t].pos) = i
  /\ Emptiable(i) =>
       data[i] # NoObject \/ \E t \in Thread : th[t].pc = "release" /\ Cell(th[t].pos) = i

\* Positions to be filled are less than a round ahead of those emptied.
Ahead(i) ==
  /\ Fillable(i) => sequence[i] < dequeue_pos + Capacity
  /\ sequence[i] <= dequeue_pos + Capacity

\* Where an object is.
InCell(o) == \E i \in Index : data[i] = o
InHand(o) == \E t \in Thread : th[t].obj = o

PlaceInv ==
  /\ \A i, j \in Index : data[i] = data[j] /\ data[i] # NoObject => i = j
  /\ \A t, u \in Thread : th[t].obj = th[u].obj /\ th[t].obj # NoObject => t = u
  /\ \A t \in Thread, i \in Index : th[t].obj = data[i] => data[i] = NoObject
  /\ \A o \in Object : o \in unmade <=> ~InCell(o) /\ ~InHand(o)

\* The inductive invariant.
IInv ==
  /\ TypeOK
  /\ \A t \in Thread : ThreadInv(t)
  /\ Apart
  /\ \A i \in Index : Phase(i) /\ Ahead(i)
  /\ PlaceInv

-----------------------------------------------------------------------------
(***************************************************************************)
(* The cells of positions.                                                 *)
(***************************************************************************)
LEMMA CellType == \A p \in Nat : Cell(p) \in Index
BY DEF Cell, Index

LEMMA CellSame == \A i \in Index : Cell(i) = i
BY DEF Cell, Index

LEMMA Division ==
  \A p \in Nat : /\ p \div Capacity \in Int /\ p % Capacity \in 0..(Capacity - 1)
                 /\ p = Capacity * (p \div Capacity) + (p % Capacity)
OBVIOUS

\* Only zero is a multiple of Capacity between -Capacity and Capacity.
LEMMA Small == \A d \in Int : Capacity * d > -Capacity /\ Capacity * d < Capacity => d = 0
<1> SUFFICES ASSUME NEW d \in Int, Capacity * d > -Capacity, Capacity * d < Capacity
             PROVE  d = 0
  OBVIOUS
<1>1. CASE d <= -1
  BY <1>1
<1>2. CASE d >= 1
  BY <1>2
<1> QED BY <1>1, <1>2

\* Two positions of one cell are a multiple of Capacity apart.
LEMMA SameCell ==
  ASSUME NEW p \in Nat, NEW q \in Nat, Cell(p) = Cell(q), p - q < Capacity, q - p < Capacity
  PROVE  p = q
<1> DEFINE d == p \div Capacity
           e == q \div Capacity
<1>1. /\ d \in Int /\ e \in Int
      /\ p = Capacity * d + (p % Capacity) /\ q = Capacity * e + (q % Capacity)
      /\ p % Capacity \in Int /\ p % Capacity = q % Capacity
  <2>1. d \in Int /\ p % Capacity \in Int /\ p = Capacity * d + (p % Capacity)
    BY Division
  <2>2. e \in Int /\ q = Capacity * e + (q % Capacity)
    BY Division
  <2>3. p % Capacity = q % Capacity
    BY DEF Cell
  <2> QED BY <2>1, <2>2, <2>3
<1> HIDE DEF d, e
<1>2. Capacity * d - Capacity * e = p - q
  BY <1>1
<1>3. Capacity * (d - e) = p - q
  BY <1>1, <1>2
<1>4. d - e = 0
  <2>1. d - e \in Int /\ Capacity * (d - e) > -Capacity /\ Capacity * (d - e) < Capacity
    BY <1>1, <1>3
  <2> QED BY <2>1, Small
<1>5. Capacity * (d - e) = 0
  BY <1>4
<1> QED BY <1>3, <1>5

\* The next position is another cell.
LEMMA CellNext == \A p \in Nat : Cell(p + 1) # Cell(p)
<1> SUFFICES ASSUME NEW p \in Nat, Cell(p + 1) = Cell(p) PROVE FALSE
  OBVIOUS
<1> QED BY SameCell

\* A round later it is the same cell.
LEMMA CellRound == \A p \in Nat : Cell(p + Capacity) = Cell(p)
<1> SUFFICES ASSUME NEW p \in Nat PROVE Cell(p + Capacity) = Cell(p)
  OBVIOUS
<1> DEFINE d == (p + Capacity) \div Capacity
           e == p \div Capacity
           x == (p + Capacity) % Capacity
           y == p % Capacity
<1>1. /\ p + Capacity = Capacity * d + x /\ p = Capacity * e + y
      /\ d \in Int /\ e \in Int /\ x \in 0..(Capacity - 1) /\ y \in 0..(Capacity - 1)
  <2>1. p + Capacity = Capacity * d + x /\ d \in Int /\ x \in 0..(Capacity - 1)
    <3>1. p + Capacity \in Nat
      OBVIOUS
    <3> QED BY <3>1, Division
  <2>2. p = Capacity * e + y /\ e \in Int /\ y \in 0..(Capacity - 1)
    BY Division
  <2> QED BY <2>1, <2>2
<1> HIDE DEF d, e, x, y
<1>2. Capacity * (d - e - 1) = y - x
  <2>1. Capacity * d - Capacity * e - Capacity = y - x
    BY <1>1
  <2> QED BY <1>1, <2>1
<1>3. d - e - 1 = 0
  BY <1>1, <1>2, Small
<1>4. Capacity * (d - e - 1) = 0
  BY <1>3
<1>5. x = y
  BY <1>1, <1>2, <1>4
<1> QED BY <1>5 DEF x, y, Cell

-----------------------------------------------------------------------------
(***************************************************************************)
(* Initial states.                                                         *)
(***************************************************************************)
LEMMA InitInv == Init => IInv
<1> SUFFICES ASSUME Init PROVE IInv
  OBVIOUS
<1>1. \A t \in Thread : th[t].pc = "idle" /\ th[t].obj = NoObject
  BY DEF Init
<1>2. TypeOK
  <2>1. th \in [Thread -> [pc : Pc, pos : Position, obj : Object \cup {NoObject}]]
    BY DEF Init, Pc, Position
  <2> QED BY <2>1 DEF Init, TypeOK, Index, Position
<1>3. (\A t \in Thread : ThreadInv(t)) /\ Apart
  BY <1>1 DEF ThreadInv, Hands, Cursor, Claim, Contents, Apart, Claimed, ClaimedToGet,
              ClaimedToPut
<1>4. ASSUME NEW i \in Index PROVE Phase(i) /\ Ahead(i)
  <2>1. i \in Nat /\ i < Capacity /\ sequence[i] = i + 1 /\ dequeue_pos = 0
    BY DEF Init, Index
  <2>2. Emptiable(i) /\ ~Fillable(i)
    BY <2>1, CellSame, CellNext DEF Emptiable, Fillable
  <2>3. data[i] \in Object
    BY DEF Init, Index
  <2> QED BY <2>1, <2>2, <2>3 DEF Phase, Ahead
<1>5. PlaceInv
  BY <1>1 DEF Init, PlaceInv, InCell, InHand, Index
<1> QED BY <1>2, <1>3, <1>4, <1>5 DEF IInv

-----------------------------------------------------------------------------
(***************************************************************************)
(* Steps.                                                                  *)
(***************************************************************************)
\* What TypeOK says of a thread.
LEMMA ThreadType ==
  ASSUME TypeOK, NEW t \in Thread
  PROVE  /\ th[t].pc \in Pc /\ th[t].pos \in Nat /\ th[t].pos <= Capacity + MaxPos
         /\ th[t].obj \in Object \cup {NoObject}
         /\ Cell(th[t].pos) \in Index
         /\ sequence[Cell(th[t].pos)] \in Nat
BY CellType DEF TypeOK, Position

\* A step of t moves t to a state and no other thread.
LEMMA Moves ==
  ASSUME TypeOK, NEW t \in Thread, NEW from, NEW to, Step(t, from, to)
  PROVE  th[t].pc = from /\ th'[t] = to /\ \A u \in Thread \ {t} : th'[u] = th[u]
BY DEF Step, TypeOK

\* The states a thread goes to.
LEMMA GoIs ==
  ASSUME TypeOK, NEW t \in Thread, NEW pc
  PROVE  /\ Go(t, pc) = [pc |-> pc, pos |-> th[t].pos, obj |-> th[t].obj]
         /\ \A x : [Go(t, pc) EXCEPT !.obj = x] = [pc |-> pc, pos |-> th[t].pos, obj |-> x]
         /\ \A x : [Go(t, pc) EXCEPT !.pos = x] = [pc |-> pc, pos |-> x, obj |-> th[t].obj]
<1>1. th[t] \in [pc : Pc, pos : Position, obj : Object \cup {NoObject}]
  BY DEF TypeOK
<1>2. Go(t, pc) = [pc |-> pc, pos |-> th[t].pos, obj |-> th[t].obj]
  BY <1>1 DEF Go
<1> QED BY <1>2

\* A cell is in one phase only.
LEMMA OnePhase ==
  ASSUME NEW i \in Index, sequence[i] \in Nat
  PROVE  ~(Fillable(i) /\ Emptiable(i))
<1> SUFFICES ASSUME Fillable(i), Emptiable(i) PROVE FALSE
  OBVIOUS
<1>1. sequence[i] - 1 \in Nat /\ Cell(sequence[i] - 1) = Cell((sequence[i] - 1) + 1)
  BY DEF Fillable, Emptiable
<1> QED BY <1>1, CellNext

\* A thread that only looks, or makes or destroys an object: neither cells nor
\* cursors change, and it claims nothing before or after.
LEMMA Look ==
  ASSUME IInv, NEW t \in Thread, NEW pc \in Pc, NEW pos \in Position,
         NEW obj \in Object \cup {NoObject},
         UNCHANGED <<sequence, data, enqueue_pos, dequeue_pos>>, unmade' \subseteq Object,
         th' = [th EXCEPT ![t] = [pc |-> pc, pos |-> pos, obj |-> obj]],
         ~Claimed(t), pc \notin {"move", "release", "put", "publish"},
         pc \in {"get", "getSeq", "getCas", "none"} => obj = NoObject,
         pc \in {"replace", "replaceSeq", "replaceCas", "full"} => obj # NoObject,
         pc = "getSeq" => pos <= dequeue_pos,
         pc = "getCas" => pos <= dequeue_pos /\ sequence[Cell(pos)] = pos + 1,
         pc = "replaceSeq" => pos <= enqueue_pos,
         pc = "replaceCas" => pos <= enqueue_pos /\ sequence[Cell(pos)] = pos,
         PlaceInv'
  PROVE  IInv'
<1>1. TypeOK'
  BY DEF IInv, TypeOK
<1>2. th'[t] = [pc |-> pc, pos |-> pos, obj |-> obj] /\ \A u \in Thread \ {t} : th'[u] = th[u]
  BY DEF IInv, TypeOK
<1>3. ThreadInv(t)'
  BY <1>2 DEF ThreadInv, Hands, Cursor, Claim, Contents, ClaimedToGet, ClaimedToPut
<1>4. ASSUME NEW u \in Thread \ {t} PROVE ThreadInv(u)'
  <2>1. th'[u] = th[u] /\ ThreadInv(u)
    BY <1>2 DEF IInv
  <2> QED BY <2>1 DEF ThreadInv, Hands, Cursor, Claim, Contents, ClaimedToGet, ClaimedToPut
<1>5. Apart'
  BY <1>2 DEF IInv, Apart, Claimed, ClaimedToGet, ClaimedToPut
<1>6. \A u \in Thread : th[u].pc \in {"release", "publish"} => th'[u] = th[u]
  BY <1>2 DEF Claimed, ClaimedToGet, ClaimedToPut
<1>7. \A i \in Index : Phase(i)' /\ Ahead(i)'
  BY <1>6 DEF IInv, Phase, Ahead, Fillable, Emptiable
<1> QED BY <1>1, <1>3, <1>4, <1>5, <1>7 DEF IInv

\* A thread at work on cell c, which is nobody else's: the other threads and the
\* other cells are left alone.
LEMMA Work ==
  ASSUME IInv, NEW t \in Thread, NEW c \in Index, TypeOK',
         \A u \in Thread \ {t} : th'[u] = th[u],
         \A i \in Index \ {c} : sequence'[i] = sequence[i] /\ data'[i] = data[i],
         \A u \in Thread \ {t} : Claimed(u) => Cell(th[u].pos) # c,
         Claimed(t) => Cell(th[t].pos) = c,
         Claimed(t)' => Cell(th'[t].pos) = c,
         \/ /\ UNCHANGED sequence
            /\ dequeue_pos' \in {dequeue_pos, dequeue_pos + 1}
            /\ enqueue_pos' \in {enqueue_pos, enqueue_pos + 1}
         \/ Claimed(t) /\ UNCHANGED <<dequeue_pos, enqueue_pos>>,
         ThreadInv(t)', Phase(c)', Ahead(c)', PlaceInv'
  PROVE  IInv'
<1>1. ASSUME NEW u \in Thread \ {t} PROVE ThreadInv(u)'
  <2>1. th'[u] = th[u] /\ ThreadInv(u) /\ th[u].pos \in Nat /\ Cell(th[u].pos) \in Index
    BY ThreadType DEF IInv
  <2>2. dequeue_pos \in Nat /\ enqueue_pos \in Nat
    BY DEF IInv, TypeOK, Position
  <2>3. Hands(u)'
    BY <2>1 DEF ThreadInv, Hands
  <2>4. Claim(u)' /\ Contents(u)'
    BY <2>1, <2>2 DEF ThreadInv, Claim, Contents, Claimed, ClaimedToGet, ClaimedToPut
  <2>5. CASE UNCHANGED sequence
    BY <2>1, <2>2, <2>3, <2>4, <2>5 DEF ThreadInv, Cursor
  <2>6. CASE Claimed(t) /\ UNCHANGED <<dequeue_pos, enqueue_pos>>
    <3>1. /\ th[t].pos \in Nat /\ Cell(th[t].pos) = c /\ Claim(t)
      BY <2>6, ThreadType DEF IInv, ThreadInv
    <3>2. th[u].pc = "getCas" /\ th[u].pos = dequeue_pos => Cell(th[u].pos) # c
      <4> SUFFICES ASSUME th[u].pc = "getCas", th[u].pos = dequeue_pos, Cell(th[u].pos) = c
                   PROVE  FALSE
        OBVIOUS
      <4>1. sequence[c] = th[u].pos + 1
        BY <2>1 DEF ThreadInv, Cursor
      <4>2. CASE ClaimedToGet(t)
        BY <2>1, <3>1, <4>1, <4>2 DEF Claim
      <4>3. CASE ClaimedToPut(t)
        <5>1. th[t].pos = th[u].pos + 1
          BY <3>1, <4>1, <4>3 DEF Claim
        <5> QED BY <2>1, <3>1, <5>1, CellNext
      <4> QED BY <2>6, <4>2, <4>3 DEF Claimed
    <3>3. th[u].pc = "replaceCas" /\ th[u].pos = enqueue_pos => Cell(th[u].pos) # c
      <4> SUFFICES ASSUME th[u].pc = "replaceCas", th[u].pos = enqueue_pos, Cell(th[u].pos) = c
                   PROVE  FALSE
        OBVIOUS
      <4>1. sequence[c] = th[u].pos
        BY <2>1 DEF ThreadInv, Cursor
      <4>2. CASE ClaimedToPut(t)
        BY <2>1, <3>1, <4>1, <4>2 DEF Claim
      <4>3. CASE ClaimedToGet(t)
        <5>1. th[u].pos = th[t].pos + 1
          BY <3>1, <4>1, <4>3 DEF Claim
        <5> QED BY <2>1, <3>1, <5>1, CellNext
      <4> QED BY <2>6, <4>2, <4>3 DEF Claimed
    <3>4. Cursor(u)'
      BY <2>1, <2>6, <3>2, <3>3 DEF ThreadInv, Cursor
    <3> QED BY <2>3, <2>4, <3>4 DEF ThreadInv
  <2> QED BY <2>5, <2>6
<1>2. Apart'
  BY DEF IInv, Apart, Claimed, ClaimedToGet, ClaimedToPut
<1>3. ASSUME NEW i \in Index \ {c} PROVE Phase(i)' /\ Ahead(i)'
  <2>1. sequence'[i] = sequence[i] /\ data'[i] = data[i] /\ Phase(i) /\ Ahead(i)
    BY DEF IInv
  <2>2. \A u \in Thread : th[u].pc \in {"release", "publish"} /\ Cell(th[u].pos) = i =>
          th'[u] = th[u]
    BY DEF Claimed, ClaimedToGet, ClaimedToPut
  <2>3. Phase(i)'
    BY <2>1, <2>2 DEF Phase, Fillable, Emptiable
  <2>4. dequeue_pos \in Nat /\ dequeue_pos' \in Nat /\ dequeue_pos <= dequeue_pos'
    BY DEF IInv, TypeOK, Position
  <2>5. sequence[i] \in Nat
    BY DEF IInv, TypeOK, Position
  <2>6. Ahead(i)'
    BY <2>1, <2>4, <2>5 DEF Ahead, Fillable
  <2> QED BY <2>3, <2>6
<1> QED BY <1>1, <1>2, <1>3 DEF IInv

\* Nobody has claimed a cell whose sequence is the turn of a position that the
\* cursor has not left.
LEMMA CellIsFree ==
  ASSUME IInv, NEW p \in Nat,
         \/ p = dequeue_pos /\ sequence[Cell(p)] = p + 1
         \/ p = enqueue_pos /\ sequence[Cell(p)] = p
  PROVE  \A u \in Thread : Claimed(u) => Cell(th[u].pos) # Cell(p)
<1> SUFFICES ASSUME NEW u \in Thread, Claimed(u), Cell(th[u].pos) = Cell(p) PROVE FALSE
  OBVIOUS
<1>1. th[u].pos \in Nat /\ Claim(u)
  BY ThreadType DEF IInv, ThreadInv
<1>2. CASE ClaimedToGet(u) /\ p = dequeue_pos /\ sequence[Cell(p)] = p + 1
  BY <1>1, <1>2 DEF Claim
<1>3. CASE ClaimedToPut(u) /\ p = enqueue_pos /\ sequence[Cell(p)] = p
  BY <1>1, <1>3 DEF Claim
<1>4. CASE ClaimedToPut(u) /\ p = dequeue_pos /\ sequence[Cell(p)] = p + 1
  <2>1. th[u].pos = p + 1
    BY <1>1, <1>4 DEF Claim
  <2> QED BY <2>1, CellNext
<1>5. CASE ClaimedToGet(u) /\ p = enqueue_pos /\ sequence[Cell(p)] = p
  <2>1. p = th[u].pos + 1
    BY <1>1, <1>5 DEF Claim
  <2> QED BY <1>1, <2>1, CellNext
<1> QED BY <1>2, <1>3, <1>4, <1>5 DEF Claimed

\* The cell a thread has claimed is nobody else's.
LEMMA CellIsMine ==
  ASSUME IInv, NEW t \in Thread, Claimed(t)
  PROVE  \A u \in Thread \ {t} : Claimed(u) => Cell(th[u].pos) # Cell(th[t].pos)
BY DEF IInv, Apart

LEMMA GetClaimStep == ASSUME IInv, NEW t \in Thread, GetClaim(t) PROVE IInv'
<1>0. PICK p \in Nat, c \in Index : p = th[t].pos /\ c = Cell(p)
  BY ThreadType DEF IInv
<1>1. /\ th[t].pc = "getCas" /\ th'[t] = Go(t, "move")
      /\ \A u \in Thread \ {t} : th'[u] = th[u]
  BY Moves DEF GetClaim, IInv
<1>2. /\ dequeue_pos = p /\ dequeue_pos < MaxPos /\ dequeue_pos' = p + 1
      /\ UNCHANGED <<sequence, data, enqueue_pos, unmade>>
  BY <1>0 DEF GetClaim
<1>3. th'[t].pc = "move" /\ th'[t].pos = p /\ th'[t].obj = th[t].obj
  BY <1>0, <1>1 DEF Go, IInv, TypeOK
<1>4. sequence[c] = p + 1 /\ th[t].obj = NoObject
  BY <1>0, <1>1, <1>2, ThreadType DEF IInv, ThreadInv, Cursor, Hands
<1>5. Emptiable(c) /\ ~Fillable(c)
  <2>1. Cell(sequence[c]) # c
    BY <1>0, <1>4, CellNext
  <2> QED BY <1>4, <2>1 DEF IInv, Phase, Fillable
<1>6. \A u \in Thread : Claimed(u) => Cell(th[u].pos) # c
  BY <1>0, <1>2, <1>4, CellIsFree
<1>7. data[c] # NoObject
  BY <1>4, <1>5, <1>6 DEF IInv, Phase, Claimed, ClaimedToGet
<1>8. TypeOK'
  <2>1. dequeue_pos' \in 0..MaxPos
    BY <1>2
  <2>2. Go(t, "move") \in [pc : Pc, pos : Position, obj : Object \cup {NoObject}]
    BY DEF Go, IInv, TypeOK, Pc
  <2>3. th' = [th EXCEPT ![t] = Go(t, "move")]
    BY <1>0 DEF GetClaim, Step
  <2> QED BY <1>2, <2>1, <2>2, <2>3 DEF IInv, TypeOK
<1>9. ThreadInv(t)'
  BY <1>0, <1>2, <1>3, <1>4, <1>7 DEF ThreadInv, Hands, Cursor, Claim, Contents,
     ClaimedToGet, ClaimedToPut
<1>10. Phase(c)'
  BY <1>2, <1>5, <1>7 DEF Phase, Fillable, Emptiable
<1>11. Ahead(c)'
  BY <1>2, <1>4, <1>5 DEF Ahead, Fillable
<1>12. PlaceInv'
  BY <1>1, <1>2, <1>3 DEF IInv, PlaceInv, InCell, InHand
<1>13. ~Claimed(t) /\ Cell(th'[t].pos) = c
  BY <1>0, <1>1, <1>3 DEF Claimed, ClaimedToGet, ClaimedToPut
<1> QED
  BY <1>1, <1>2, <1>4, <1>6, <1>8, <1>9, <1>10, <1>11, <1>12, <1>13, Work

LEMMA MoveStep == ASSUME IInv, NEW t \in Thread, Move(t) PROVE IInv'
<1>0. PICK p \in Nat, c \in Index : p = th[t].pos /\ c = Cell(p)
  BY ThreadType DEF IInv
<1>1. /\ th[t].pc = "move" /\ th'[t] = [Go(t, "release") EXCEPT !.obj = data[c]]
      /\ \A u \in Thread \ {t} : th'[u] = th[u]
  BY <1>0, Moves DEF Move, IInv
<1>2. /\ data' = [data EXCEPT ![c] = NoObject]
      /\ UNCHANGED <<sequence, enqueue_pos, dequeue_pos, unmade>>
  BY <1>0 DEF Move
<1>3. th'[t].pc = "release" /\ th'[t].pos = p /\ th'[t].obj = data[c]
  BY <1>0, <1>1 DEF Go, IInv, TypeOK
<1>4. /\ sequence[c] = p + 1 /\ p < dequeue_pos
      /\ data[c] # NoObject /\ th[t].obj = NoObject /\ Claimed(t)
  BY <1>0, <1>1, ThreadType DEF IInv, ThreadInv, Claim, Contents, Hands, Claimed, ClaimedToGet
<1>5. \A u \in Thread \ {t} : Claimed(u) => Cell(th[u].pos) # c
  BY <1>0, <1>4, CellIsMine
<1>6. Cell(sequence[c]) # c
  BY <1>0, <1>4, CellNext
<1>7. Cell(th'[t].pos) = c
  BY <1>0, <1>3
<1>8. data'[c] = NoObject /\ \A i \in Index \ {c} : data'[i] = data[i]
  BY <1>2, <1>4 DEF IInv, TypeOK
<1>9. TypeOK'
  <2>1. th' = [th EXCEPT ![t] = [Go(t, "release") EXCEPT !.obj = data[c]]]
    BY <1>0 DEF Move, Step
  <2>2. [Go(t, "release") EXCEPT !.obj = data[c]]
          \in [pc : Pc, pos : Position, obj : Object \cup {NoObject}]
    <3>1. data[c] \in Object \cup {NoObject} /\ th[t].pos \in Position
      BY DEF IInv, TypeOK
    <3>2. [Go(t, "release") EXCEPT !.obj = data[c]]
            = [pc |-> "release", pos |-> th[t].pos, obj |-> data[c]]
      BY GoIs DEF IInv
    <3> QED BY <3>1, <3>2 DEF Pc
  <2>3. data' \in [Index -> Object \cup {NoObject}]
    BY <1>2 DEF IInv, TypeOK
  <2> QED BY <1>2, <2>1, <2>2, <2>3 DEF IInv, TypeOK
<1>10. ThreadInv(t)'
  BY <1>2, <1>3, <1>4, <1>7, <1>8 DEF ThreadInv, Hands, Cursor, Claim, Contents,
     ClaimedToGet, ClaimedToPut
<1>11. Phase(c)' /\ Ahead(c)'
  BY <1>2, <1>3, <1>4, <1>6, <1>7, <1>8 DEF IInv, Phase, Ahead, Fillable, Emptiable
<1>12. PlaceInv'
  <2>1. \A u \in Thread : th'[u].obj = IF u = t THEN data[c] ELSE th[u].obj
    BY <1>1, <1>3
  <2>2. \A i \in Index : data'[i] = IF i = c THEN NoObject ELSE data[i]
    BY <1>8
  <2>3. /\ \A i, j \in Index : data'[i] = data'[j] /\ data'[i] # NoObject => i = j
        /\ \A u, v \in Thread : th'[u].obj = th'[v].obj /\ th'[u].obj # NoObject => u = v
        /\ \A u \in Thread, i \in Index : th'[u].obj = data'[i] => data'[i] = NoObject
    BY <1>4, <2>1, <2>2 DEF IInv, PlaceInv
  <2>4. \A o \in Object : InCell(o)' \/ InHand(o)' <=> InCell(o) \/ InHand(o)
    BY <1>4, <2>1, <2>2 DEF InCell, InHand
  <2> QED BY <1>2, <2>3, <2>4 DEF IInv, PlaceInv
<1> QED
  BY <1>0, <1>1, <1>2, <1>4, <1>5, <1>7, <1>8, <1>9, <1>10, <1>11, <1>12, Work

LEMMA ReleaseStep == ASSUME IInv, NEW t \in Thread, Release(t) PROVE IInv'
<1>0. PICK p \in Nat, c \in Index : p = th[t].pos /\ c = Cell(p)
  BY ThreadType DEF IInv
<1>1. /\ th[t].pc = "release" /\ th'[t] = Go(t, "idle")
      /\ \A u \in Thread \ {t} : th'[u] = th[u]
  BY Moves DEF Release, IInv
<1>2. /\ sequence' = [sequence EXCEPT ![c] = p + Capacity]
      /\ UNCHANGED <<data, enqueue_pos, dequeue_pos, unmade>>
  BY <1>0 DEF Release
<1>3. th'[t].pc = "idle" /\ th'[t].pos = p /\ th'[t].obj = th[t].obj
  BY <1>0, <1>1 DEF Go, IInv, TypeOK
<1>4. /\ p < dequeue_pos /\ data[c] = NoObject /\ Claimed(t)
  BY <1>0, <1>1, ThreadType DEF IInv, ThreadInv, Claim, Contents, Claimed, ClaimedToGet
<1>5. \A u \in Thread \ {t} : Claimed(u) => Cell(th[u].pos) # c
  BY <1>0, <1>4, CellIsMine
<1>6. /\ sequence'[c] = p + Capacity /\ sequence'[c] \in Nat
      /\ \A i \in Index \ {c} : sequence'[i] = sequence[i]
  BY <1>2, <1>4 DEF IInv, TypeOK
<1>7. Cell(sequence'[c]) = c /\ Cell(sequence'[c] - 1) # c
  <2>1. Cell(p + Capacity) = c
    BY <1>0, <1>4, CellRound
  <2>2. p + Capacity - 1 \in Nat /\ (p + Capacity - 1) + 1 = p + Capacity
    BY <1>4
  <2>3. Cell(p + Capacity - 1) # Cell(p + Capacity)
    BY <2>2, CellNext
  <2> QED BY <1>6, <2>1, <2>3
<1>8. TypeOK'
  <2>1. th' = [th EXCEPT ![t] = Go(t, "idle")]
    BY <1>0 DEF Release, Step
  <2>2. Go(t, "idle") \in [pc : Pc, pos : Position, obj : Object \cup {NoObject}]
    BY DEF Go, IInv, TypeOK, Pc
  <2>3. p + Capacity \in Position
    BY <1>4 DEF IInv, TypeOK, Position
  <2> QED BY <1>2, <2>1, <2>2, <2>3 DEF IInv, TypeOK
<1>9. ThreadInv(t)'
  BY <1>3 DEF ThreadInv, Hands, Cursor, Claim, Contents, ClaimedToGet, ClaimedToPut
<1>10. Phase(c)' /\ Ahead(c)'
  <2>1. dequeue_pos \in Nat
    BY DEF IInv, TypeOK, Position
  <2> QED BY <1>2, <1>4, <1>6, <1>7, <2>1 DEF Phase, Ahead, Fillable, Emptiable
<1>11. PlaceInv'
  BY <1>1, <1>2, <1>3 DEF IInv, PlaceInv, InCell, InHand
<1>12. ~Claimed(t)'
  BY <1>3 DEF Claimed, ClaimedToGet, ClaimedToPut
<1> QED
  BY <1>0, <1>1, <1>2, <1>4, <1>5, <1>6, <1>8, <1>9, <1>10, <1>11, <1>12, Work

LEMMA ReplaceClaimStep == ASSUME IInv, NEW t \in Thread, ReplaceClaim(t) PROVE IInv'
<1>0. PICK p \in Nat, c \in Index : p = th[t].pos /\ c = Cell(p)
  BY ThreadType DEF IInv
<1>1. /\ th[t].pc = "replaceCas" /\ th'[t] = Go(t, "put")
      /\ \A u \in Thread \ {t} : th'[u] = th[u]
  BY Moves DEF ReplaceClaim, IInv
<1>2. /\ enqueue_pos = p /\ enqueue_pos' = p + 1
      /\ UNCHANGED <<sequence, data, dequeue_pos, unmade>>
  BY <1>0 DEF ReplaceClaim
<1>3. th'[t] = [pc |-> "put", pos |-> p, obj |-> th[t].obj]
  BY <1>0, <1>1, GoIs DEF IInv
<1>4. sequence[c] = p /\ th[t].obj # NoObject
  BY <1>0, <1>1, <1>2 DEF IInv, ThreadInv, Cursor, Hands
<1>5. Fillable(c) /\ ~Emptiable(c)
  <2>1. Fillable(c)
    BY <1>0, <1>4 DEF Fillable
  <2> QED BY <1>4, <2>1, OnePhase
<1>6. \A u \in Thread : Claimed(u) => Cell(th[u].pos) # c
  BY <1>0, <1>2, <1>4, CellIsFree
<1>7. data[c] = NoObject
  BY <1>5, <1>6 DEF IInv, Phase, Claimed, ClaimedToPut
<1>8. dequeue_pos \in 0..MaxPos /\ p < dequeue_pos + Capacity
  BY <1>4, <1>5 DEF IInv, Ahead, TypeOK
<1>9. TypeOK'
  <2>1. th' = [th EXCEPT ![t] = th'[t]]
    BY <1>1 DEF ReplaceClaim, Step
  <2>2. th'[t] \in [pc : Pc, pos : Position, obj : Object \cup {NoObject}]
    BY <1>0, <1>3 DEF IInv, TypeOK, Pc
  <2>3. enqueue_pos' \in Position
    BY <1>2, <1>8 DEF Position
  <2> QED BY <1>2, <2>1, <2>2, <2>3 DEF IInv, TypeOK
<1>10. ThreadInv(t)'
  BY <1>0, <1>2, <1>3, <1>4, <1>7 DEF ThreadInv, Hands, Cursor, Claim, Contents,
     ClaimedToGet, ClaimedToPut
<1>11. Phase(c)' /\ Ahead(c)'
  BY <1>2, <1>5, <1>7 DEF IInv, Phase, Ahead, Fillable, Emptiable
<1>12. PlaceInv'
  BY <1>1, <1>2, <1>3 DEF IInv, PlaceInv, InCell, InHand
<1>13. ~Claimed(t) /\ Cell(th'[t].pos) = c
  BY <1>0, <1>1, <1>3 DEF Claimed, ClaimedToGet, ClaimedToPut
<1> QED
  BY <1>1, <1>2, <1>6, <1>9, <1>10, <1>11, <1>12, <1>13, Work

LEMMA PutStep == ASSUME IInv, NEW t \in Thread, Put(t) PROVE IInv'
<1>0. PICK p \in Nat, c \in Index : p = th[t].pos /\ c = Cell(p)
  BY ThreadType DEF IInv
<1>1. /\ th[t].pc = "put" /\ th'[t] = [Go(t, "publish") EXCEPT !.obj = NoObject]
      /\ \A u \in Thread \ {t} : th'[u] = th[u]
  BY Moves DEF Put, IInv
<1>2. /\ data' = [data EXCEPT ![c] = th[t].obj]
      /\ UNCHANGED <<sequence, enqueue_pos, dequeue_pos, unmade>>
  BY <1>0 DEF Put
<1>3. th'[t] = [pc |-> "publish", pos |-> p, obj |-> NoObject]
  BY <1>0, <1>1, GoIs DEF IInv
<1>4. /\ sequence[c] = p /\ p < enqueue_pos
      /\ th[t].obj \in Object /\ data[c] = NoObject /\ Claimed(t)
  BY <1>0, <1>1, ThreadType DEF IInv, ThreadInv, Claim, Contents, Hands, Claimed, ClaimedToPut
<1>5. \A u \in Thread \ {t} : Claimed(u) => Cell(th[u].pos) # c
  BY <1>0, <1>4, CellIsMine
<1>6. ~Emptiable(c)
  <2>1. Fillable(c)
    BY <1>0, <1>4 DEF Fillable
  <2> QED BY <1>4, <2>1, OnePhase
<1>7. Cell(th'[t].pos) = c /\ Cell(th[t].pos) = c
  BY <1>0, <1>3
<1>8. data'[c] = th[t].obj /\ \A i \in Index \ {c} : data'[i] = data[i]
  BY <1>2 DEF IInv, TypeOK
<1>9. TypeOK'
  <2>1. th' = [th EXCEPT ![t] = th'[t]]
    BY <1>1 DEF Put, Step
  <2>2. th'[t] \in [pc : Pc, pos : Position, obj : Object \cup {NoObject}]
    BY <1>0, <1>3 DEF IInv, TypeOK, Pc
  <2>3. data' \in [Index -> Object \cup {NoObject}]
    BY <1>2, <1>4 DEF IInv, TypeOK
  <2> QED BY <1>2, <2>1, <2>2, <2>3 DEF IInv, TypeOK
<1>10. ThreadInv(t)'
  BY <1>2, <1>3, <1>4, <1>7, <1>8 DEF ThreadInv, Hands, Cursor, Claim, Contents,
     ClaimedToGet, ClaimedToPut
<1>11. Phase(c)' /\ Ahead(c)'
  BY <1>2, <1>3, <1>6, <1>7 DEF IInv, Phase, Ahead, Fillable, Emptiable
<1>12. PlaceInv'
  <2>1. \A u \in Thread : th'[u].obj = IF u = t THEN NoObject ELSE th[u].obj
    BY <1>1, <1>3
  <2>2. \A i \in Index : data'[i] = IF i = c THEN th[t].obj ELSE data[i]
    BY <1>8
  <2>3. /\ \A i, j \in Index : data'[i] = data'[j] /\ data'[i] # NoObject => i = j
        /\ \A u, v \in Thread : th'[u].obj = th'[v].obj /\ th'[u].obj # NoObject => u = v
        /\ \A u \in Thread, i \in Index : th'[u].obj = data'[i] => data'[i] = NoObject
    BY <1>4, <2>1, <2>2 DEF IInv, PlaceInv
  <2>4. \A o \in Object : InCell(o)' \/ InHand(o)' <=> InCell(o) \/ InHand(o)
    BY <1>4, <2>1, <2>2 DEF InCell, InHand
  <2> QED BY <1>2, <2>3, <2>4 DEF IInv, PlaceInv
<1> QED
  BY <1>1, <1>2, <1>4, <1>5, <1>7, <1>8, <1>9, <1>10, <1>11, <1>12, Work

LEMMA PublishStep == ASSUME IInv, NEW t \in Thread, Publish(t) PROVE IInv'
<1>0. PICK p \in Nat, c \in Index : p = th[t].pos /\ c = Cell(p)
  BY ThreadType DEF IInv
<1>1. /\ th[t].pc = "publish" /\ th'[t] = Go(t, "idle")
      /\ \A u \in Thread \ {t} : th'[u] = th[u]
  BY Moves DEF Publish, IInv
<1>2. /\ sequence' = [sequence EXCEPT ![c] = p + 1]
      /\ UNCHANGED <<data, enqueue_pos, dequeue_pos, unmade>>
  BY <1>0 DEF Publish
<1>3. th'[t] = [pc |-> "idle", pos |-> p, obj |-> th[t].obj]
  BY <1>0, <1>1, GoIs DEF IInv
<1>4. sequence[c] = p /\ data[c] # NoObject /\ Claimed(t) /\ Cell(th[t].pos) = c
  BY <1>0, <1>1 DEF IInv, ThreadInv, Claim, Contents, Claimed, ClaimedToPut
<1>5. \A u \in Thread \ {t} : Claimed(u) => Cell(th[u].pos) # c
  BY <1>4, CellIsMine
<1>6. sequence'[c] = p + 1 /\ \A i \in Index \ {c} : sequence'[i] = sequence[i]
  BY <1>2 DEF IInv, TypeOK
<1>7. dequeue_pos \in 0..MaxPos /\ p < dequeue_pos + Capacity
  <2>1. Fillable(c)
    BY <1>0, <1>4 DEF Fillable
  <2> QED BY <1>4, <2>1 DEF IInv, Ahead, TypeOK
<1>8. TypeOK'
  <2>1. th' = [th EXCEPT ![t] = th'[t]]
    BY <1>1 DEF Publish, Step
  <2>2. th'[t] \in [pc : Pc, pos : Position, obj : Object \cup {NoObject}]
    BY <1>0, <1>3 DEF IInv, TypeOK, Pc
  <2>3. p + 1 \in Position
    BY <1>7 DEF Position
  <2> QED BY <1>2, <2>1, <2>2, <2>3 DEF IInv, TypeOK
<1>9. ThreadInv(t)' /\ ~Claimed(t)'
  BY <1>3 DEF ThreadInv, Hands, Cursor, Claim, Contents, Claimed, ClaimedToGet, ClaimedToPut
<1>10. Phase(c)' /\ Ahead(c)'
  <2>1. Cell(sequence'[c]) # c /\ sequence'[c] > 0 /\ Cell(sequence'[c] - 1) = c
    <3>1. (p + 1) - 1 = p /\ p + 1 > 0
      OBVIOUS
    <3>2. Cell(p + 1) # Cell(p)
      BY CellNext
    <3> QED BY <1>0, <1>6, <3>1, <3>2
  <2> QED BY <1>2, <1>4, <1>6, <1>7, <2>1 DEF Phase, Ahead, Fillable, Emptiable
<1>11. PlaceInv'
  BY <1>1, <1>2, <1>3 DEF IInv, PlaceInv, InCell, InHand
<1> QED
  BY <1>1, <1>2, <1>4, <1>5, <1>6, <1>8, <1>9, <1>10, <1>11, Work

\* The steps that keep every object where it is.
LEMMA LookOnly ==
  ASSUME IInv, NEW t \in Thread, NEW pc \in Pc, NEW pos \in Position,
         UNCHANGED <<sequence, data, enqueue_pos, dequeue_pos, unmade>>,
         th' = [th EXCEPT ![t] = [pc |-> pc, pos |-> pos, obj |-> th[t].obj]],
         ~Claimed(t), pc \notin {"move", "release", "put", "publish"},
         pc \in {"get", "getSeq", "getCas", "none"} => th[t].obj = NoObject,
         pc \in {"replace", "replaceSeq", "replaceCas", "full"} => th[t].obj # NoObject,
         pc = "getSeq" => pos <= dequeue_pos,
         pc = "getCas" => pos <= dequeue_pos /\ sequence[Cell(pos)] = pos + 1,
         pc = "replaceSeq" => pos <= enqueue_pos,
         pc = "replaceCas" => pos <= enqueue_pos /\ sequence[Cell(pos)] = pos
  PROVE  IInv'
<1>1. \A u \in Thread : th'[u].obj = th[u].obj
  BY DEF IInv, TypeOK
<1>2. PlaceInv'
  BY <1>1 DEF IInv, PlaceInv, InCell, InHand
<1>3. th[t].obj \in Object \cup {NoObject} /\ unmade' \subseteq Object
  BY DEF IInv, TypeOK
<1> QED BY <1>2, <1>3, Look

LEMMA GetLookStep ==
  ASSUME IInv, NEW t \in Thread, CallGet(t) \/ GetSeq(t) \/ GetReload(t) \/ GetFail(t)
  PROVE  IInv'
<1>1. /\ th[t].pc \in {"idle", "get", "getSeq", "getCas"} /\ th[t].obj = NoObject
      /\ UNCHANGED <<sequence, data, enqueue_pos, dequeue_pos, unmade>>
  BY DEF CallGet, GetSeq, GetReload, GetFail, Step, IInv, ThreadInv, Hands
<1>2. ~Claimed(t) /\ th[t].pos \in Position
  BY <1>1 DEF Claimed, ClaimedToGet, ClaimedToPut, IInv, TypeOK
<1>3. dequeue_pos \in Position /\ dequeue_pos <= dequeue_pos
  BY DEF IInv, TypeOK, Position
<1>4. CASE CallGet(t) \/ GetReload(t) \/ GetFail(t)
  <2>1. th' = [th EXCEPT ![t] = [Go(t, "getSeq") EXCEPT !.pos = dequeue_pos]]
    BY <1>4 DEF CallGet, GetReload, GetFail, Step
  <2>2. th' = [th EXCEPT ![t] = [pc |-> "getSeq", pos |-> dequeue_pos, obj |-> th[t].obj]]
    BY <2>1, GoIs DEF IInv
  <2> QED BY <1>1, <1>2, <1>3, <2>2, LookOnly DEF Pc
<1>5. CASE GetSeq(t)
  <2>1. th[t].pos <= dequeue_pos /\ th[t].pos \in Nat /\ sequence[Cell(th[t].pos)] \in Nat
    BY <1>5, ThreadType DEF GetSeq, Step, IInv, ThreadInv, Cursor
  <2>2. \E pc \in {"getCas", "none", "get"} :
          /\ th' = [th EXCEPT ![t] = Go(t, pc)]
          /\ pc = "getCas" => sequence[Cell(th[t].pos)] = th[t].pos + 1
    <3> DEFINE dif == sequence[Cell(th[t].pos)] - (th[t].pos + 1)
    <3>1. th' = [th EXCEPT ![t] = IF dif = 0 THEN Go(t, "getCas")
                                  ELSE IF dif < 0 THEN Go(t, "none") ELSE Go(t, "get")]
      BY <1>5 DEF GetSeq, Step
    <3>2. dif = 0 => sequence[Cell(th[t].pos)] = th[t].pos + 1
      BY <2>1
    <3> HIDE DEF dif
    <3>3. CASE dif = 0
      <4>1. th' = [th EXCEPT ![t] = Go(t, "getCas")]
        BY <3>1, <3>3
      <4> QED BY <3>2, <3>3, <4>1
    <3>4. CASE dif # 0 /\ dif < 0
      <4>1. th' = [th EXCEPT ![t] = Go(t, "none")]
        BY <3>1, <3>4
      <4> QED BY <4>1
    <3>5. CASE dif # 0 /\ ~(dif < 0)
      <4>1. th' = [th EXCEPT ![t] = Go(t, "get")]
        BY <3>1, <3>5
      <4> QED BY <4>1
    <3> QED BY <3>3, <3>4, <3>5
  <2>3. PICK pc \in {"getCas", "none", "get"} :
          /\ th' = [th EXCEPT ![t] = [pc |-> pc, pos |-> th[t].pos, obj |-> th[t].obj]]
          /\ pc = "getCas" => sequence[Cell(th[t].pos)] = th[t].pos + 1
    BY <2>2, GoIs, ZenonT(60) DEF IInv
  <2> QED BY <1>1, <1>2, <2>1, <2>3, LookOnly DEF Pc
<1> QED BY <1>4, <1>5

LEMMA ReplaceLookStep ==
  ASSUME IInv, NEW t \in Thread,
         CallReplace(t) \/ ReplaceSeq(t) \/ ReplaceReload(t) \/ ReplaceFail(t)
  PROVE  IInv'
<1>1. /\ th[t].pc \in {"idle", "replace", "replaceSeq", "replaceCas"} /\ th[t].obj # NoObject
      /\ UNCHANGED <<sequence, data, enqueue_pos, dequeue_pos, unmade>>
  BY DEF CallReplace, ReplaceSeq, ReplaceReload, ReplaceFail, Step, IInv, ThreadInv, Hands
<1>2. ~Claimed(t) /\ th[t].pos \in Position
  BY <1>1 DEF Claimed, ClaimedToGet, ClaimedToPut, IInv, TypeOK
<1>3. enqueue_pos \in Position /\ enqueue_pos <= enqueue_pos
  BY DEF IInv, TypeOK, Position
<1>4. CASE CallReplace(t) \/ ReplaceReload(t) \/ ReplaceFail(t)
  <2>1. th' = [th EXCEPT ![t] = [Go(t, "replaceSeq") EXCEPT !.pos = enqueue_pos]]
    BY <1>4 DEF CallReplace, ReplaceReload, ReplaceFail, Step
  <2>2. th' = [th EXCEPT ![t] = [pc |-> "replaceSeq", pos |-> enqueue_pos, obj |-> th[t].obj]]
    BY <2>1, GoIs DEF IInv
  <2> QED BY <1>1, <1>2, <1>3, <2>2, LookOnly DEF Pc
<1>5. CASE ReplaceSeq(t)
  <2>1. th[t].pos <= enqueue_pos /\ th[t].pos \in Nat /\ sequence[Cell(th[t].pos)] \in Nat
    BY <1>5, ThreadType DEF ReplaceSeq, Step, IInv, ThreadInv, Cursor
  <2>2. \E pc \in {"replaceCas", "full", "replace"} :
          /\ th' = [th EXCEPT ![t] = Go(t, pc)]
          /\ pc = "replaceCas" => sequence[Cell(th[t].pos)] = th[t].pos
    <3> DEFINE dif == sequence[Cell(th[t].pos)] - th[t].pos
    <3>1. th' = [th EXCEPT ![t] = IF dif = 0 THEN Go(t, "replaceCas")
                                  ELSE IF dif < 0 THEN Go(t, "full") ELSE Go(t, "replace")]
      BY <1>5 DEF ReplaceSeq, Step
    <3>2. dif = 0 => sequence[Cell(th[t].pos)] = th[t].pos
      BY <2>1
    <3> HIDE DEF dif
    <3>3. CASE dif = 0
      <4>1. th' = [th EXCEPT ![t] = Go(t, "replaceCas")]
        BY <3>1, <3>3
      <4> QED BY <3>2, <3>3, <4>1
    <3>4. CASE dif # 0 /\ dif < 0
      <4>1. th' = [th EXCEPT ![t] = Go(t, "full")]
        BY <3>1, <3>4
      <4> QED BY <4>1
    <3>5. CASE dif # 0 /\ ~(dif < 0)
      <4>1. th' = [th EXCEPT ![t] = Go(t, "replace")]
        BY <3>1, <3>5
      <4> QED BY <4>1
    <3> QED BY <3>3, <3>4, <3>5
  <2>3. PICK pc \in {"replaceCas", "full", "replace"} :
          /\ th' = [th EXCEPT ![t] = [pc |-> pc, pos |-> th[t].pos, obj |-> th[t].obj]]
          /\ pc = "replaceCas" => sequence[Cell(th[t].pos)] = th[t].pos
    BY <2>2, GoIs, ZenonT(60) DEF IInv
  <2> QED BY <1>1, <1>2, <2>1, <2>3, LookOnly DEF Pc
<1> QED BY <1>4, <1>5

\* An object that was nowhere is in t's hands.
LEMMA MakeStep == ASSUME IInv, NEW t \in Thread, NEW o \in Object, Make(t, o) PROVE IInv'
<1>1. /\ th[t].pc = "none" /\ th[t].obj = NoObject /\ o \in unmade /\ unmade' = unmade \ {o}
      /\ UNCHANGED <<sequence, data, enqueue_pos, dequeue_pos>>
  BY DEF Make, Step, IInv, ThreadInv, Hands
<1>2. th' = [th EXCEPT ![t] = [pc |-> "idle", pos |-> th[t].pos, obj |-> o]]
  <2>1. th' = [th EXCEPT ![t] = [Go(t, "idle") EXCEPT !.obj = o]]
    BY DEF Make, Step
  <2>2. TypeOK
    BY DEF IInv
  <2>3. [Go(t, "idle") EXCEPT !.obj = o] = [pc |-> "idle", pos |-> th[t].pos, obj |-> o]
    BY <2>2, GoIs
  <2> QED BY <2>1, <2>3
<1>3. ~Claimed(t) /\ th[t].pos \in Position /\ unmade' \subseteq Object
  BY <1>1 DEF Claimed, ClaimedToGet, ClaimedToPut, IInv, TypeOK
<1>4. \A u \in Thread : th'[u].obj = IF u = t THEN o ELSE th[u].obj
  BY <1>2 DEF IInv, TypeOK
<1>5. ~InCell(o) /\ ~InHand(o) /\ o # NoObject
  BY <1>1 DEF IInv, PlaceInv
<1>6. PlaceInv'
  <2>1. /\ \A u, v \in Thread : th'[u].obj = th'[v].obj /\ th'[u].obj # NoObject => u = v
        /\ \A u \in Thread, i \in Index : th'[u].obj = data'[i] => data'[i] = NoObject
    BY <1>1, <1>4, <1>5 DEF IInv, PlaceInv, InCell, InHand
  <2>2. \A x \in Object : InHand(x)' <=> InHand(x) \/ x = o
    BY <1>1, <1>4 DEF InHand
  <2>3. \A x : InCell(x)' <=> InCell(x)
    BY <1>1 DEF InCell
  <2> QED BY <1>1, <1>5, <2>1, <2>2, <2>3 DEF IInv, PlaceInv
<1> QED BY <1>1, <1>2, <1>3, <1>6, Look, ZenonT(30) DEF Pc

\* The object in t's hands is nowhere any more.
LEMMA DestroyStep == ASSUME IInv, NEW t \in Thread, Destroy(t) PROVE IInv'
<1> DEFINE o == th[t].obj
<1>1. /\ th[t].pc = "full" /\ o \in Object /\ unmade' = unmade \cup {o}
      /\ UNCHANGED <<sequence, data, enqueue_pos, dequeue_pos>>
  BY ThreadType DEF Destroy, Step, IInv, ThreadInv, Hands
<1>2. th' = [th EXCEPT ![t] = [pc |-> "idle", pos |-> th[t].pos, obj |-> NoObject]]
  <2>1. th' = [th EXCEPT ![t] = [Go(t, "idle") EXCEPT !.obj = NoObject]]
    BY DEF Destroy, Step
  <2>2. TypeOK
    BY DEF IInv
  <2>3. [Go(t, "idle") EXCEPT !.obj = NoObject] = [pc |-> "idle", pos |-> th[t].pos, obj |-> NoObject]
    BY <2>2, GoIs
  <2> QED BY <2>1, <2>3
<1>3. ~Claimed(t) /\ th[t].pos \in Position /\ unmade' \subseteq Object
  BY <1>1 DEF Claimed, ClaimedToGet, ClaimedToPut, IInv, TypeOK
<1>4. \A u \in Thread : th'[u].obj = IF u = t THEN NoObject ELSE th[u].obj
  BY <1>2 DEF IInv, TypeOK
<1>5. ~InCell(o) /\ \A u \in Thread \ {t} : th[u].obj # o
  BY <1>1 DEF IInv, PlaceInv, InCell
<1>6. PlaceInv'
  <2>1. /\ \A u, v \in Thread : th'[u].obj = th'[v].obj /\ th'[u].obj # NoObject => u = v
        /\ \A u \in Thread, i \in Index : th'[u].obj = data'[i] => data'[i] = NoObject
    BY <1>1, <1>4 DEF IInv, PlaceInv
  <2>2. \A x \in Object : InHand(x)' <=> InHand(x) /\ x # o
    BY <1>1, <1>4, <1>5 DEF InHand
  <2>3. \A x : InCell(x)' <=> InCell(x)
    BY <1>1 DEF InCell
  <2> QED BY <1>1, <1>5, <2>1, <2>2, <2>3 DEF IInv, PlaceInv
<1> QED BY <1>1, <1>2, <1>3, <1>6, Look DEF Pc

LEMMA NextInv == IInv /\ [Next]_vars => IInv'
<1>1. ASSUME IInv, NEW t \in Thread, get(t) PROVE IInv'
  BY <1>1, GetLookStep, GetClaimStep, MoveStep, ReleaseStep, MakeStep DEF get
<1>2. ASSUME IInv, NEW t \in Thread, replace(t) PROVE IInv'
  BY <1>2, ReplaceLookStep, ReplaceClaimStep, PutStep, PublishStep, DestroyStep DEF replace
<1>3. ASSUME IInv, UNCHANGED vars PROVE IInv'
  BY <1>3 DEF vars, IInv, TypeOK, ThreadInv, Hands, Cursor, Claim, Contents, Claimed,
     ClaimedToGet, ClaimedToPut, Apart, Phase, Ahead, Fillable, Emptiable, PlaceInv,
     InCell, InHand
<1> QED BY <1>1, <1>2, <1>3 DEF Next

LEMMA Inductive == Spec => []IInv
BY InitInv, NextInv, PTL DEF Spec

-----------------------------------------------------------------------------
(***************************************************************************)
(* The order of the positions.  Between the cursors a cell is full unless  *)
(* it is still being filled; from the cursor of replace to a round past    *)
(* that of get it is empty unless it is still being emptied; and a cell of *)
(* a position that a cursor has left never goes back to that turn.         *)
(***************************************************************************)
Bounds == dequeue_pos <= enqueue_pos /\ enqueue_pos <= dequeue_pos + Capacity

Filled ==
  \A p \in dequeue_pos..(enqueue_pos - 1) :
    sequence[Cell(p)] = p + 1 \/ AtWork({"put", "publish"}, p)

Room ==
  \A p \in enqueue_pos..(dequeue_pos + Capacity - 1) :
    sequence[Cell(p)] = p \/ AtWork({"move", "release"}, p - Capacity)

Past ==
  /\ \A p \in Nat : p < dequeue_pos => sequence[Cell(p)] >= p + 1
  /\ \A p \in Nat : p < enqueue_pos => sequence[Cell(p)] >= p

OrderInv == Bounds /\ Filled /\ Room /\ Past

LEMMA CursorType ==
  ASSUME TypeOK
  PROVE  /\ dequeue_pos \in Nat /\ enqueue_pos \in Nat
         /\ \A p \in Nat : Cell(p) \in Index /\ sequence[Cell(p)] \in Nat
BY CellType DEF TypeOK, Position

LEMMA OrderInit == Init => OrderInv
<1> SUFFICES ASSUME Init PROVE OrderInv
  OBVIOUS
<1>1. dequeue_pos = 0 /\ enqueue_pos = Capacity
  BY DEF Init
<1>2. \A p \in 0..(Capacity - 1) : Cell(p) = p /\ sequence[p] = p + 1
  BY CellSame DEF Init, Index
<1>3. Bounds /\ Filled /\ Room
  BY <1>1, <1>2 DEF Bounds, Filled, Room
<1>4. Past
  <2> SUFFICES ASSUME NEW p \in Nat, p < Capacity PROVE sequence[Cell(p)] = p + 1
    BY <1>1 DEF Past
  <2> QED BY <1>2
<1> QED BY <1>3, <1>4 DEF OrderInv

\* A thread at work that stays at it, whatever else it does.
LEMMA OrderKept ==
  ASSUME OrderInv, UNCHANGED <<sequence, dequeue_pos, enqueue_pos>>,
         \A u \in Thread : \A steps \in {{"put", "publish"}, {"move", "release"}} :
           th[u].pc \in steps => th'[u].pc \in steps /\ th'[u].pos = th[u].pos
  PROVE  OrderInv'
<1>1. \A p : /\ AtWork({"put", "publish"}, p) => AtWork({"put", "publish"}, p)'
             /\ AtWork({"move", "release"}, p) => AtWork({"move", "release"}, p)'
  BY DEF AtWork
<1> QED BY <1>1 DEF OrderInv, Bounds, Filled, Room, Past

\* The steps that leave the sequence numbers and the cursors alone.
LEMMA OrderLook ==
  ASSUME IInv, OrderInv, NEW t \in Thread,
         \/ CallGet(t) \/ GetSeq(t) \/ GetReload(t) \/ GetFail(t) \/ Move(t)
         \/ CallReplace(t) \/ ReplaceSeq(t) \/ ReplaceReload(t) \/ ReplaceFail(t)
         \/ Put(t) \/ Destroy(t) \/ \E o \in Object : Make(t, o)
  PROVE  OrderInv'
<1>1. UNCHANGED <<sequence, dequeue_pos, enqueue_pos>>
  BY DEF CallGet, GetSeq, GetReload, GetFail, Move, CallReplace, ReplaceSeq, ReplaceReload,
     ReplaceFail, Put, Destroy, Make
<1>2. TypeOK
  BY DEF IInv
<1>3. CASE Move(t)
  <2>1. /\ th[t].pc = "move" /\ th'[t].pc = "release" /\ th'[t].pos = th[t].pos
        /\ \A u \in Thread \ {t} : th'[u] = th[u]
    <3>1. /\ th[t].pc = "move"
          /\ th'[t] = [Go(t, "release") EXCEPT !.obj = data[Cell(th[t].pos)]]
          /\ \A u \in Thread \ {t} : th'[u] = th[u]
      BY <1>2, <1>3, Moves DEF Move
    <3> QED BY <1>2, <3>1, GoIs
  <2> QED BY <1>1, <2>1, OrderKept
<1>4. CASE Put(t)
  <2>1. /\ th[t].pc = "put" /\ th'[t].pc = "publish" /\ th'[t].pos = th[t].pos
        /\ \A u \in Thread \ {t} : th'[u] = th[u]
    <3>1. /\ th[t].pc = "put" /\ th'[t] = [Go(t, "publish") EXCEPT !.obj = NoObject]
          /\ \A u \in Thread \ {t} : th'[u] = th[u]
      BY <1>2, <1>4, Moves DEF Put
    <3> QED BY <1>2, <3>1, GoIs
  <2> QED BY <1>1, <2>1, OrderKept
<1>5. CASE ~Move(t) /\ ~Put(t)
  <2>1. PICK from \in Pc \ {"move", "release", "put", "publish"} : \E to : Step(t, from, to)
    BY <1>5 DEF CallGet, GetSeq, GetReload, GetFail, CallReplace, ReplaceSeq, ReplaceReload,
       ReplaceFail, Destroy, Make, Pc
  <2>2. PICK to : Step(t, from, to)
    BY <2>1
  <2>3. th[t].pc = from /\ \A u \in Thread \ {t} : th'[u] = th[u]
    BY <1>2, <2>2, Moves
  <2> QED BY <1>1, <2>1, <2>3, OrderKept
<1> QED BY <1>3, <1>4, <1>5

LEMMA OrderGetClaim == ASSUME IInv, OrderInv, NEW t \in Thread, GetClaim(t) PROVE OrderInv'
<1> DEFINE p == dequeue_pos
<1>1. /\ th[t].pc = "getCas" /\ th[t].pos = p /\ dequeue_pos' = p + 1
      /\ UNCHANGED <<sequence, enqueue_pos>>
      /\ th'[t].pc = "move" /\ th'[t].pos = p /\ \A u \in Thread \ {t} : th'[u] = th[u]
  <2>1. TypeOK
    BY DEF IInv
  <2>2. th[t].pc = "getCas" /\ th'[t] = Go(t, "move") /\ \A u \in Thread \ {t} : th'[u] = th[u]
    BY <2>1, Moves DEF GetClaim
  <2> QED BY <2>1, <2>2, GoIs DEF GetClaim
<1>2. p \in Nat /\ enqueue_pos \in Nat /\ sequence[Cell(p)] = p + 1
  BY <1>1, CursorType DEF IInv, ThreadInv, Cursor
\* Past the cursor of replace no cell is full.
<1>3. p < enqueue_pos
  <2>1. CASE p = enqueue_pos
    <3>1. p \in enqueue_pos..(dequeue_pos + Capacity - 1)
      BY <1>2, <2>1
    <3>2. AtWork({"move", "release"}, p - Capacity)
      BY <1>2, <3>1 DEF OrderInv, Room
    <3>3. PICK u \in Thread : ClaimedToGet(u) /\ th[u].pos = p - Capacity
      BY <3>2 DEF AtWork, ClaimedToGet
    <3>4. th[u].pos \in Nat /\ sequence[Cell(th[u].pos)] = th[u].pos + 1
      BY <3>3, ThreadType DEF IInv, ThreadInv, Claim
    <3>5. Cell(th[u].pos) = Cell(p)
      <4>1. th[u].pos + Capacity = p
        BY <1>2, <3>3, <3>4
      <4> QED BY <3>4, <4>1, CellRound
    <3> QED BY <1>2, <3>3, <3>4, <3>5
  <2> QED BY <1>2, <2>1 DEF OrderInv, Bounds
<1>4. \A q : /\ AtWork({"put", "publish"}, q) => AtWork({"put", "publish"}, q)'
             /\ AtWork({"move", "release"}, q) => AtWork({"move", "release"}, q)'
  BY <1>1 DEF AtWork
<1>5. Bounds' /\ Past'
  BY <1>1, <1>2, <1>3, CursorType DEF IInv, OrderInv, Bounds, Past
<1>6. Filled'
  BY <1>1, <1>2, <1>4 DEF OrderInv, Filled
<1>7. Room'
  <2> SUFFICES ASSUME NEW q \in enqueue_pos..(p + Capacity)
               PROVE  sequence[Cell(q)] = q \/ AtWork({"move", "release"}, q - Capacity)'
    BY <1>1, <1>2 DEF Room
  <2>1. CASE q = p + Capacity
    <3>1. q - Capacity = p
      BY <1>2, <2>1
    <3> QED BY <1>1, <3>1 DEF AtWork
  <2>2. CASE q # p + Capacity
    <3>1. q \in enqueue_pos..(dequeue_pos + Capacity - 1)
      BY <1>2, <2>2
    <3> QED BY <1>4, <3>1 DEF OrderInv, Room
  <2> QED BY <2>1, <2>2
<1> QED BY <1>5, <1>6, <1>7 DEF OrderInv

LEMMA OrderReplaceClaim ==
  ASSUME IInv, OrderInv, NEW t \in Thread, ReplaceClaim(t) PROVE OrderInv'
<1> DEFINE p == enqueue_pos
<1>1. /\ th[t].pc = "replaceCas" /\ th[t].pos = p /\ enqueue_pos' = p + 1
      /\ UNCHANGED <<sequence, dequeue_pos>>
      /\ th'[t].pc = "put" /\ th'[t].pos = p /\ \A u \in Thread \ {t} : th'[u] = th[u]
  <2>1. TypeOK
    BY DEF IInv
  <2>2. /\ th[t].pc = "replaceCas" /\ th'[t] = Go(t, "put")
        /\ \A u \in Thread \ {t} : th'[u] = th[u]
    BY <2>1, Moves DEF ReplaceClaim
  <2> QED BY <2>1, <2>2, GoIs DEF ReplaceClaim
<1>2. p \in Nat /\ dequeue_pos \in Nat /\ sequence[Cell(p)] = p /\ Cell(p) \in Index
  BY <1>1, CursorType DEF IInv, ThreadInv, Cursor
<1>3. p < dequeue_pos + Capacity
  BY <1>2 DEF IInv, Ahead, Fillable
<1>4. \A q : /\ AtWork({"put", "publish"}, q) => AtWork({"put", "publish"}, q)'
             /\ AtWork({"move", "release"}, q) => AtWork({"move", "release"}, q)'
  BY <1>1 DEF AtWork
<1>5. Bounds' /\ Past'
  <2>1. Bounds'
    BY <1>1, <1>2, <1>3 DEF OrderInv, Bounds
  <2>2. \A q \in Nat : q < p + 1 => sequence[Cell(q)] >= q
    <3> SUFFICES ASSUME NEW q \in Nat, q < p + 1 PROVE sequence[Cell(q)] >= q
      OBVIOUS
    <3>1. CASE q < p
      BY <3>1 DEF OrderInv, Past
    <3>2. CASE q = p
      BY <1>2, <3>2
    <3> QED BY <1>2, <3>1, <3>2
  <2>3. Past'
    BY <1>1, <2>2 DEF OrderInv, Past
  <2> QED BY <2>1, <2>3
<1>6. Room'
  BY <1>1, <1>2, <1>4 DEF OrderInv, Room
<1>7. Filled'
  <2> SUFFICES ASSUME NEW q \in dequeue_pos..p
               PROVE  sequence[Cell(q)] = q + 1 \/ AtWork({"put", "publish"}, q)'
    BY <1>1, <1>2 DEF Filled
  <2>1. CASE q = p
    BY <1>1, <2>1 DEF AtWork
  <2>2. CASE q # p
    <3>1. q \in dequeue_pos..(enqueue_pos - 1)
      BY <1>2, <2>2
    <3> QED BY <1>4, <3>1 DEF OrderInv, Filled
  <2> QED BY <2>1, <2>2
<1> QED BY <1>5, <1>6, <1>7 DEF OrderInv

\* Emptied: the cell is free for the position a round later, and was not between
\* the cursors.
LEMMA OrderRelease == ASSUME IInv, OrderInv, NEW t \in Thread, Release(t) PROVE OrderInv'
<1>0. PICK p \in Nat, c \in Index : p = th[t].pos /\ c = Cell(p)
  BY ThreadType DEF IInv
<1>1. /\ th[t].pc = "release" /\ \A u \in Thread \ {t} : th'[u] = th[u]
      /\ UNCHANGED <<enqueue_pos, dequeue_pos>>
  BY Moves DEF Release, IInv
<1>2. sequence'[c] = p + Capacity /\ \A i \in Index \ {c} : sequence'[i] = sequence[i]
  BY <1>0 DEF Release, IInv, TypeOK
<1>3. p < dequeue_pos /\ sequence[c] = p + 1 /\ Claimed(t)
  BY <1>0, <1>1 DEF IInv, ThreadInv, Claim, Claimed, ClaimedToGet
<1>4. \A u \in Thread \ {t} : Claimed(u) => Cell(th[u].pos) # c
  BY <1>0, <1>3, CellIsMine
<1>5. /\ dequeue_pos \in Nat /\ enqueue_pos \in Nat
      /\ \A q \in Nat : Cell(q) \in Index /\ sequence[Cell(q)] \in Nat
  BY CursorType DEF IInv
<1>6. Bounds'
  BY <1>1 DEF OrderInv, Bounds
<1>7. Past'
  <2>1. \A q \in Nat : sequence'[Cell(q)] >= sequence[Cell(q)]
    BY <1>2, <1>3, <1>5
  <2>2. \A q \in Nat : sequence'[Cell(q)] \in Nat
    BY <1>2, <1>5
  <2> QED BY <1>1, <1>5, <2>1, <2>2 DEF OrderInv, Past
<1>8. Filled'
  <2> SUFFICES ASSUME NEW q \in dequeue_pos..(enqueue_pos - 1)
               PROVE  sequence'[Cell(q)] = q + 1 \/ AtWork({"put", "publish"}, q)'
    BY <1>1 DEF Filled
  <2>1. q \in Nat /\ p < q
    BY <1>3, <1>5
  <2>2. CASE AtWork({"put", "publish"}, q)
    BY <1>1, <2>2 DEF AtWork
  <2>3. CASE sequence[Cell(q)] = q + 1
    <3>1. Cell(q) # c
      BY <1>3, <2>1, <2>3
    <3> QED BY <1>2, <1>5, <2>1, <2>3, <3>1
  <2> QED BY <2>2, <2>3 DEF OrderInv, Filled
<1>9. Room'
  <2> SUFFICES ASSUME NEW q \in enqueue_pos..(dequeue_pos + Capacity - 1)
               PROVE  sequence'[Cell(q)] = q \/ AtWork({"move", "release"}, q - Capacity)'
    BY <1>1 DEF Room
  <2>1. q \in Nat
    BY <1>5
  <2>2. CASE sequence[Cell(q)] = q
    <3>1. Cell(q) # c
      <4> SUFFICES ASSUME Cell(q) = c PROVE FALSE
        OBVIOUS
      <4>1. q = p + 1
        BY <1>3, <2>2
      <4> QED BY <1>0, <4>1, CellNext
    <3> QED BY <1>2, <1>5, <2>1, <2>2, <3>1
  <2>3. ASSUME NEW u \in Thread, th[u].pc \in {"move", "release"}, th[u].pos = q - Capacity
        PROVE  sequence'[Cell(q)] = q \/ AtWork({"move", "release"}, q - Capacity)'
    <3>1. CASE u = t
      <4>1. q = p + Capacity
        BY <1>0, <2>1, <2>3, <3>1
      <4> QED BY <1>0, <1>2, <4>1, CellRound
    <3>2. CASE u # t
      BY <1>1, <2>3, <3>2 DEF AtWork
    <3> QED BY <3>1, <3>2
  <2> QED BY <2>2, <2>3 DEF OrderInv, Room, AtWork
<1> QED BY <1>6, <1>7, <1>8, <1>9 DEF OrderInv

\* Filled: the cell of a position between the cursors.
LEMMA OrderPublish == ASSUME IInv, OrderInv, NEW t \in Thread, Publish(t) PROVE OrderInv'
<1>0. PICK p \in Nat, c \in Index : p = th[t].pos /\ c = Cell(p)
  BY ThreadType DEF IInv
<1>1. /\ th[t].pc = "publish" /\ \A u \in Thread \ {t} : th'[u] = th[u]
      /\ UNCHANGED <<enqueue_pos, dequeue_pos>>
  BY Moves DEF Publish, IInv
<1>2. sequence'[c] = p + 1 /\ \A i \in Index \ {c} : sequence'[i] = sequence[i]
  BY <1>0 DEF Publish, IInv, TypeOK
<1>3. p < enqueue_pos /\ sequence[c] = p
  BY <1>0, <1>1 DEF IInv, ThreadInv, Claim, ClaimedToPut
<1>5. /\ dequeue_pos \in Nat /\ enqueue_pos \in Nat
      /\ \A q \in Nat : Cell(q) \in Index /\ sequence[Cell(q)] \in Nat
  BY CursorType DEF IInv
<1>6. Bounds'
  BY <1>1 DEF OrderInv, Bounds
<1>7. Past'
  <2>1. \A q \in Nat : sequence'[Cell(q)] >= sequence[Cell(q)] /\ sequence'[Cell(q)] \in Nat
    BY <1>2, <1>3, <1>5
  <2> QED BY <1>1, <1>5, <2>1, SMTT(30) DEF OrderInv, Past
<1>8. Filled'
  <2> SUFFICES ASSUME NEW q \in dequeue_pos..(enqueue_pos - 1)
               PROVE  sequence'[Cell(q)] = q + 1 \/ AtWork({"put", "publish"}, q)'
    BY <1>1 DEF Filled
  <2>1. q \in Nat
    BY <1>5
  <2>2. CASE sequence[Cell(q)] = q + 1
    <3>1. Cell(q) # c
      <4> SUFFICES ASSUME Cell(q) = c PROVE FALSE
        OBVIOUS
      <4>1. p = q + 1
        BY <1>3, <2>2
      <4> QED BY <1>0, <2>1, <4>1, CellNext
    <3> QED BY <1>2, <1>5, <2>1, <2>2, <3>1
  <2>3. ASSUME NEW u \in Thread, th[u].pc \in {"put", "publish"}, th[u].pos = q
        PROVE  sequence'[Cell(q)] = q + 1 \/ AtWork({"put", "publish"}, q)'
    <3>1. CASE u = t
      BY <1>0, <1>2, <2>3, <3>1
    <3>2. CASE u # t
      BY <1>1, <2>3, <3>2 DEF AtWork
    <3> QED BY <3>1, <3>2
  <2> QED BY <2>2, <2>3 DEF OrderInv, Filled, AtWork
<1>9. Room'
  <2> SUFFICES ASSUME NEW q \in enqueue_pos..(dequeue_pos + Capacity - 1)
               PROVE  sequence'[Cell(q)] = q \/ AtWork({"move", "release"}, q - Capacity)'
    BY <1>1 DEF Room
  <2>1. q \in Nat /\ p < q
    BY <1>3, <1>5
  <2>2. CASE sequence[Cell(q)] = q
    <3>1. Cell(q) # c
      BY <1>3, <2>1, <2>2
    <3> QED BY <1>2, <1>5, <2>1, <2>2, <3>1
  <2>3. CASE AtWork({"move", "release"}, q - Capacity)
    BY <1>1, <2>3 DEF AtWork
  <2> QED BY <2>2, <2>3 DEF OrderInv, Room
<1> QED BY <1>6, <1>7, <1>8, <1>9 DEF OrderInv

LEMMA OrderNext == IInv /\ OrderInv /\ [Next]_vars => OrderInv'
<1>1. ASSUME IInv, OrderInv, NEW t \in Thread, get(t) PROVE OrderInv'
  BY <1>1, OrderLook, OrderGetClaim, OrderRelease DEF get
<1>2. ASSUME IInv, OrderInv, NEW t \in Thread, replace(t) PROVE OrderInv'
  BY <1>2, OrderLook, OrderReplaceClaim, OrderPublish DEF replace
<1>3. ASSUME OrderInv, UNCHANGED vars PROVE OrderInv'
  BY <1>3 DEF vars, OrderInv, Bounds, Filled, Room, Past, AtWork
<1> QED BY <1>1, <1>2, <1>3 DEF Next

\* The only steps that report an empty or a full pool.
LEMMA Reports ==
  ASSUME TypeOK, Next, NEW t \in Thread
  PROVE  /\ th[t].pc # "none" /\ th'[t].pc = "none" =>
              GetSeq(t) /\ sequence[Cell(th[t].pos)] < th[t].pos + 1
         /\ th[t].pc # "full" /\ th'[t].pc = "full" =>
              ReplaceSeq(t) /\ sequence[Cell(th[t].pos)] < th[t].pos
<1>0. PICK u \in Thread : get(u) \/ replace(u)
  BY DEF Next
<1>1. CASE u # t
  <2>1. \E from, to : Step(u, from, to)
    BY <1>0 DEF get, replace, CallGet, GetSeq, GetReload, GetClaim, GetFail, Move, Release, Make,
       CallReplace, ReplaceSeq, ReplaceReload, ReplaceClaim, ReplaceFail, Put, Publish, Destroy
  <2>2. th'[t] = th[t]
    BY <1>1, <2>1, Moves
  <2> QED BY <2>2
<1>2. CASE GetSeq(t)
  <2> DEFINE dif == sequence[Cell(th[t].pos)] - (th[t].pos + 1)
  <2>1. th'[t] = IF dif = 0 THEN Go(t, "getCas") ELSE IF dif < 0 THEN Go(t, "none")
                 ELSE Go(t, "get")
    BY <1>2 DEF GetSeq, Step, TypeOK
  <2>2. dif \in Int /\ (dif < 0 => sequence[Cell(th[t].pos)] < th[t].pos + 1)
    BY ThreadType
  <2> HIDE DEF dif
  <2>3. \A pc : Go(t, pc).pc = pc
    BY GoIs
  <2> QED BY <1>2, <2>1, <2>2, <2>3
<1>3. CASE ReplaceSeq(t)
  <2> DEFINE dif == sequence[Cell(th[t].pos)] - th[t].pos
  <2>1. th'[t] = IF dif = 0 THEN Go(t, "replaceCas") ELSE IF dif < 0 THEN Go(t, "full")
                 ELSE Go(t, "replace")
    BY <1>3 DEF ReplaceSeq, Step, TypeOK
  <2>2. dif \in Int /\ (dif < 0 => sequence[Cell(th[t].pos)] < th[t].pos)
    BY ThreadType
  <2> HIDE DEF dif
  <2>3. \A pc : Go(t, pc).pc = pc
    BY GoIs
  <2> QED BY <1>3, <2>1, <2>2, <2>3
<1>4. CASE u = t /\ ~GetSeq(t) /\ ~ReplaceSeq(t)
  <2>1. \E from, x : \E pc \in Pc \ {"none", "full"} :
          Step(t, from, Go(t, pc)) \/ Step(t, from, [Go(t, pc) EXCEPT !.pos = x])
                                   \/ Step(t, from, [Go(t, pc) EXCEPT !.obj = x])
    BY <1>0, <1>4 DEF get, replace, CallGet, GetReload, GetClaim, GetFail, Move, Release, Make,
       CallReplace, ReplaceReload, ReplaceClaim, ReplaceFail, Put, Publish, Destroy, Pc
  <2>2. th'[t].pc \in Pc \ {"none", "full"}
    BY <2>1, Moves, GoIs
  <2> QED BY <2>2
<1> QED BY <1>0, <1>1, <1>2, <1>3, <1>4

\* What a thread that is refused knows of the cursors.
LEMMA Refused ==
  ASSUME IInv, OrderInv, Next, NEW t \in Thread
  PROVE  /\ th[t].pc # "none" /\ th'[t].pc = "none" =>
              \/ enqueue_pos = dequeue_pos
              \/ AtWork({"put", "publish"}, dequeue_pos)
         /\ th[t].pc # "full" /\ th'[t].pc = "full" =>
              \/ enqueue_pos = dequeue_pos + Capacity
              \/ AtWork({"move", "release"}, enqueue_pos - Capacity)
<1>1. /\ dequeue_pos \in Nat /\ enqueue_pos \in Nat
      /\ \A q \in Nat : Cell(q) \in Index /\ sequence[Cell(q)] \in Nat
  BY CursorType DEF IInv
<1>2. ASSUME th[t].pc # "none", th'[t].pc = "none"
      PROVE  enqueue_pos = dequeue_pos \/ AtWork({"put", "publish"}, dequeue_pos)
  <2>1. GetSeq(t) /\ sequence[Cell(th[t].pos)] < th[t].pos + 1
    BY <1>2, Reports DEF IInv
  <2>2. th[t].pos \in Nat /\ th[t].pos <= dequeue_pos
    BY <2>1, ThreadType DEF GetSeq, Step, IInv, ThreadInv, Cursor
  <2>3. th[t].pos = dequeue_pos
    BY <1>1, <2>1, <2>2 DEF OrderInv, Past
  <2>4. CASE dequeue_pos < enqueue_pos
    <3>1. dequeue_pos \in dequeue_pos..(enqueue_pos - 1)
      BY <1>1, <2>4
    <3> QED BY <1>1, <2>1, <2>3, <3>1 DEF OrderInv, Filled
  <2> QED BY <1>1, <2>4 DEF OrderInv, Bounds
<1>3. ASSUME th[t].pc # "full", th'[t].pc = "full"
      PROVE  \/ enqueue_pos = dequeue_pos + Capacity
             \/ AtWork({"move", "release"}, enqueue_pos - Capacity)
  <2>1. ReplaceSeq(t) /\ sequence[Cell(th[t].pos)] < th[t].pos
    BY <1>3, Reports DEF IInv
  <2>2. th[t].pos \in Nat /\ th[t].pos <= enqueue_pos
    BY <2>1, ThreadType DEF ReplaceSeq, Step, IInv, ThreadInv, Cursor
  <2>3. th[t].pos = enqueue_pos
    BY <1>1, <2>1, <2>2 DEF OrderInv, Past
  <2>4. CASE enqueue_pos < dequeue_pos + Capacity
    <3>1. enqueue_pos \in enqueue_pos..(dequeue_pos + Capacity - 1)
      BY <1>1, <2>4
    <3> QED BY <1>1, <2>1, <2>3, <3>1 DEF OrderInv, Room
  <2> QED BY <1>1, <2>4 DEF OrderInv, Bounds
<1> QED BY <1>2, <1>3

-----------------------------------------------------------------------------
(***************************************************************************)
(* The pool is a queue of sessions.                                        *)
(***************************************************************************)
IsPutting(t, p) == th[t].pc = "put" /\ th[t].pos = p

\* The session of a position is with the thread that puts it into the cell, who is
\* alone there, or in the cell.
Items ==
  \A p \in Nat :
    /\ \A t \in Thread : IsPutting(t, p) => Item(p) = th[t].obj
    /\ (\A t \in Thread : ~IsPutting(t, p)) => Item(p) = data[Cell(p)]
    /\ Item(p) \in Object \cup {NoObject}

LEMMA ItemIs == IInv => Items
<1> SUFFICES ASSUME IInv, NEW p \in Nat
             PROVE  /\ \A t \in Thread : IsPutting(t, p) => Item(p) = th[t].obj
                    /\ (\A t \in Thread : ~IsPutting(t, p)) => Item(p) = data[Cell(p)]
                    /\ Item(p) \in Object \cup {NoObject}
  BY DEF Items
<1>1. ASSUME NEW t \in Thread, IsPutting(t, p)
      PROVE  Item(p) = th[t].obj
  <2>1. Putting(p) = {t}
    BY <1>1 DEF IInv, Apart, Claimed, ClaimedToPut, Putting, IsPutting
  <2> QED BY <2>1 DEF Item
<1>2. ASSUME \A t \in Thread : ~IsPutting(t, p)
      PROVE  Item(p) = data[Cell(p)]
  BY <1>2 DEF Item, Putting, IsPutting
<1>3. Item(p) \in Object \cup {NoObject}
  BY <1>1, <1>2, ThreadType, CellType DEF IInv, TypeOK
<1> QED BY <1>1, <1>2, <1>3

LEMMA ItemIsNext == IInv' => Items'
BY ItemIs, PTL

\* A step of t that puts nothing leaves the sessions of the other cells.
LEMMA ItemStays ==
  ASSUME IInv, IInv', NEW t \in Thread, NEW p \in Nat,
         \A u \in Thread \ {t} : th'[u] = th[u],
         data'[Cell(p)] = data[Cell(p)],
         ~IsPutting(t, p), ~IsPutting(t, p)'
  PROVE  Item(p)' = Item(p)
<1>1. CASE \E u \in Thread : IsPutting(u, p)
  <2>1. PICK u \in Thread \ {t} : IsPutting(u, p)
    BY <1>1
  <2>2. IsPutting(u, p)' /\ th'[u].obj = th[u].obj
    BY <2>1 DEF IsPutting
  <2> QED BY <2>1, <2>2, ItemIs, ItemIsNext DEF Items
<1>2. CASE \A u \in Thread : ~IsPutting(u, p)
  <2>1. \A u \in Thread : ~IsPutting(u, p)'
    BY <1>2 DEF IsPutting
  <2> QED BY <1>2, <2>1, ItemIs, ItemIsNext DEF Items
<1> QED BY <1>1, <1>2

\* What t's step leaves to the others.
LEMMA OthersKeep ==
  ASSUME NEW t \in Thread, \A u \in Thread \ {t} : th'[u] = th[u],
         \A u \in Thread \ {t} : th[u].pc = "move" => data'[Cell(th[u].pos)] = data[Cell(th[u].pos)]
  PROVE  /\ Held' = [Held EXCEPT ![t] = Held'[t]]
         /\ State' = [State EXCEPT ![t] = State'[t]]
         /\ Held'[t] = Held[t] => Held' = Held
         /\ State'[t] = State[t] => State' = State
<1>1. \A u \in Thread \ {t} : Held'[u] = Held[u] /\ State'[u] = State[u]
  BY DEF Held, State
<1>2. /\ DOMAIN Held = Thread /\ DOMAIN Held' = Thread
      /\ DOMAIN State = Thread /\ DOMAIN State' = Thread
  BY DEF Held, State
<1>3. Held = [u \in Thread |-> Held[u]] /\ Held' = [u \in Thread |-> Held'[u]]
  BY DEF Held
<1>4. State = [u \in Thread |-> State[u]] /\ State' = [u \in Thread |-> State'[u]]
  BY DEF State
<1> QED BY <1>1, <1>2, <1>3, <1>4

LEMMA WaitingStays ==
  ASSUME UNCHANGED <<enqueue_pos, dequeue_pos>>, dequeue_pos \in Nat, enqueue_pos \in Nat,
         \A q \in dequeue_pos..(enqueue_pos - 1) : Item(q)' = Item(q)
  PROVE  Waiting' = Waiting
<1> DEFINE n == enqueue_pos - dequeue_pos
<1>1. \A i \in 1..n : Item(dequeue_pos + i - 1)' = Item(dequeue_pos + i - 1)
  <2> SUFFICES ASSUME NEW i \in 1..n PROVE Item(dequeue_pos + i - 1)' = Item(dequeue_pos + i - 1)
    OBVIOUS
  <2>1. PICK q \in dequeue_pos..(enqueue_pos - 1) : q = dequeue_pos + i - 1
    OBVIOUS
  <2>2. q' = q
    OBVIOUS
  <2> QED BY <2>1
<1> QED BY <1>1 DEF Waiting

\* Between the cursors, a claimed cell is that of a position being filled.
LEMMA ClaimedCell ==
  ASSUME IInv, OrderInv, NEW t \in Thread, Claimed(t),
         NEW q \in dequeue_pos..(enqueue_pos - 1), Cell(q) = Cell(th[t].pos)
  PROVE  ClaimedToPut(t) /\ q = th[t].pos
<1>1. q \in Nat /\ th[t].pos \in Nat /\ Claim(t)
  BY CursorType, ThreadType DEF IInv, ThreadInv
<1>2. CASE sequence[Cell(q)] = q + 1
  <2>1. CASE ClaimedToGet(t)
    BY <1>1, <1>2, <2>1, CursorType DEF Claim, IInv
  <2>2. CASE ClaimedToPut(t)
    <3>1. th[t].pos = q + 1
      BY <1>1, <1>2, <2>2 DEF Claim
    <3> QED BY <1>1, <3>1, CellNext
  <2> QED BY <2>1, <2>2 DEF Claimed
<1>3. ASSUME NEW u \in Thread, th[u].pc \in {"put", "publish"}, th[u].pos = q
      PROVE  ClaimedToPut(t) /\ q = th[t].pos
  BY <1>3, CellIsMine DEF Claimed, ClaimedToPut
<1> QED BY <1>2, <1>3 DEF OrderInv, Filled, AtWork

\* The queue has the sessions of the positions between the cursors.
Queues ==
  /\ dequeue_pos \in Nat /\ enqueue_pos \in Nat
  /\ Waiting \in Seq(Object \cup {NoObject})
  /\ Len(Waiting) = enqueue_pos - dequeue_pos
  /\ \A q \in dequeue_pos..(enqueue_pos - 1) : Waiting[q - dequeue_pos + 1] = Item(q)

LEMMA WaitingIs == IInv /\ OrderInv => Queues
<1> SUFFICES ASSUME IInv, OrderInv PROVE Queues
  OBVIOUS
<1> DEFINE n == enqueue_pos - dequeue_pos
<1>1. dequeue_pos \in Nat /\ enqueue_pos \in Nat /\ n \in Nat
  BY CursorType DEF IInv, OrderInv, Bounds
<1>2. ASSUME NEW i \in 1..n PROVE Item(dequeue_pos + i - 1) \in Object \cup {NoObject}
  <2>1. dequeue_pos + i - 1 \in Nat
    BY <1>1
  <2> QED BY <2>1, ItemIs DEF Items
<1>3. Waiting \in [1..n -> Object \cup {NoObject}]
  BY <1>2 DEF Waiting
<1>4. ASSUME NEW q \in dequeue_pos..(enqueue_pos - 1)
      PROVE  Waiting[q - dequeue_pos + 1] = Item(q)
  <2>1. /\ q - dequeue_pos + 1 \in 1..n
        /\ dequeue_pos + (q - dequeue_pos + 1) - 1 = q
    BY <1>1
  <2> QED BY <2>1 DEF Waiting
<1> HIDE DEF n
<1>5. Waiting \in Seq(Object \cup {NoObject}) /\ Len(Waiting) = n
  BY <1>1, <1>3, SeqDef, LenProperties
<1> QED BY <1>1, <1>4, <1>5 DEF Queues, n

LEMMA WaitingIsNext == IInv' /\ OrderInv' => Queues'
BY WaitingIs, PTL

\* A step that neither takes nor gives back nor touches a cell or an object.
Quiet == {"idle", "get", "getSeq", "getCas", "replace", "replaceSeq", "replaceCas"}

LEMMA QuietStep ==
  ASSUME IInv, IInv', NEW t \in Thread, \A u \in Thread \ {t} : th'[u] = th[u],
         UNCHANGED <<data, enqueue_pos, dequeue_pos>>,
         th[t].pc # "put", th'[t].pc # "put"
  PROVE  /\ Waiting' = Waiting
         /\ Held' = [Held EXCEPT ![t] = Held'[t]]
         /\ State' = [State EXCEPT ![t] = State'[t]]
         /\ Held'[t] = Held[t] => Held' = Held
         /\ State'[t] = State[t] => State' = State
<1>1. dequeue_pos \in Nat /\ enqueue_pos \in Nat
  BY CursorType DEF IInv
<1>2. \A q \in dequeue_pos..(enqueue_pos - 1) : Item(q)' = Item(q)
  <2> SUFFICES ASSUME NEW q \in dequeue_pos..(enqueue_pos - 1) PROVE Item(q)' = Item(q)
    OBVIOUS
  <2>1. q \in Nat /\ ~IsPutting(t, q) /\ ~IsPutting(t, q)'
    BY <1>1 DEF IsPutting
  <2>2. data'[Cell(q)] = data[Cell(q)]
    OBVIOUS
  <2> QED BY <2>1, <2>2, ItemStays
<1>3. Waiting' = Waiting
  BY <1>1, <1>2, WaitingStays
<1> QED BY <1>3, OthersKeep

LEMMA Looking ==
  ASSUME IInv, NEW t \in Thread,
         \/ CallGet(t) \/ GetSeq(t) \/ GetReload(t) \/ GetFail(t)
         \/ CallReplace(t) \/ ReplaceSeq(t) \/ ReplaceReload(t) \/ ReplaceFail(t)
  PROVE  /\ th[t].pc \in Quiet /\ th'[t].pc \in Quiet \cup {"none", "full"}
         /\ th'[t].obj = th[t].obj /\ \A u \in Thread \ {t} : th'[u] = th[u]
         /\ UNCHANGED <<data, enqueue_pos, dequeue_pos, unmade>>
<1>1. TypeOK
  BY DEF IInv
<1>2. \E from \in Quiet : \E pc \in Quiet \cup {"none", "full"} :
        \E x : Step(t, from, Go(t, pc)) \/ Step(t, from, [Go(t, pc) EXCEPT !.pos = x])
  BY DEF CallGet, GetReload, GetFail, CallReplace, ReplaceReload, ReplaceFail, GetSeq,
     ReplaceSeq, Quiet
<1>3. UNCHANGED <<data, enqueue_pos, dequeue_pos, unmade>>
  BY DEF CallGet, GetReload, GetFail, CallReplace, ReplaceReload, ReplaceFail, GetSeq,
     ReplaceSeq
<1> QED BY <1>1, <1>2, <1>3, Moves, GoIs

LEMMA PoolLooks ==
  ASSUME IInv, IInv', OrderInv, Next, NEW t \in Thread,
         \/ CallGet(t) \/ GetSeq(t) \/ GetReload(t) \/ GetFail(t)
         \/ CallReplace(t) \/ ReplaceSeq(t) \/ ReplaceReload(t) \/ ReplaceFail(t)
  PROVE  [Sessions!Next]_(Sessions!vars)
<1>1. /\ th[t].pc \in Quiet /\ th'[t].pc \in Quiet \cup {"none", "full"}
      /\ th'[t].obj = th[t].obj /\ \A u \in Thread \ {t} : th'[u] = th[u]
      /\ UNCHANGED <<data, enqueue_pos, dequeue_pos, unmade>>
  BY Looking
<1>2. /\ Waiting' = Waiting
      /\ State' = [State EXCEPT ![t] = State'[t]]
      /\ Held'[t] = Held[t] => Held' = Held
      /\ State'[t] = State[t] => State' = State
  BY <1>1, QuietStep DEF Quiet
<1>3. /\ Held[t] = th[t].obj /\ Held'[t] = th[t].obj /\ State[t] = "idle"
      /\ State'[t] = IF th'[t].pc \in Quiet THEN "idle" ELSE "refused"
  BY <1>1 DEF Held, State, Quiet
<1>4. Held' = Held
  BY <1>2, <1>3
<1>5. CASE th'[t].pc \in Quiet
  <2>1. State' = State
    BY <1>2, <1>3, <1>5
  <2> QED BY <1>1, <1>2, <1>4, <2>1 DEF Sessions!vars
<1>6. CASE th'[t].pc = "none"
  <2>1. th[t].obj = NoObject
    BY <1>1, <1>6, Reports DEF IInv, GetSeq, Step, ThreadInv, Hands, Quiet
  <2>2. Waiting = <<>> \/ \E u \in Thread : State[u] = "giving"
    <3>1. CASE enqueue_pos = dequeue_pos
      BY <3>1, WaitingIs, EmptySeq DEF Queues
    <3>2. CASE AtWork({"put", "publish"}, dequeue_pos)
      BY <3>2 DEF AtWork, State
    <3> QED BY <1>1, <1>6, <3>1, <3>2, Refused DEF Quiet
  <2>3. State[t] = "idle" /\ State' = [State EXCEPT ![t] = "refused"]
    BY <1>2, <1>3, <1>6 DEF Quiet
  <2>4. Sessions!FindNone(t)
    BY <1>1, <1>2, <1>3, <1>4, <2>1, <2>2, <2>3 DEF Sessions!FindNone, Sessions!Becomes
  <2> QED BY <2>4 DEF Sessions!Next
<1>7. CASE th'[t].pc = "full"
  <2>1. th[t].obj # NoObject
    BY <1>1, <1>7, Reports DEF IInv, ReplaceSeq, Step, ThreadInv, Hands, Quiet
  <2>2. Len(Waiting) = Capacity \/ \E u \in Thread : State[u] = "taking"
    <3>1. CASE enqueue_pos = dequeue_pos + Capacity
      BY <3>1, WaitingIs DEF Queues
    <3>2. CASE AtWork({"move", "release"}, enqueue_pos - Capacity)
      BY <3>2 DEF AtWork, State
    <3> QED BY <1>1, <1>7, <3>1, <3>2, Refused DEF Quiet
  <2>3. State[t] = "idle" /\ State' = [State EXCEPT ![t] = "refused"]
    BY <1>2, <1>3, <1>7 DEF Quiet
  <2>4. Sessions!FindNoRoom(t)
    BY <1>1, <1>2, <1>3, <1>4, <2>1, <2>2, <2>3 DEF Sessions!FindNoRoom, Sessions!Becomes
  <2> QED BY <2>4 DEF Sessions!Next
<1> QED BY <1>1, <1>5, <1>6, <1>7

\* The end of a get or a replace, and the making and destruction of a session.
LEMMA PoolEnds ==
  ASSUME IInv, IInv', NEW t \in Thread, Release(t) \/ Publish(t)
  PROVE  Sessions!Next
<1>1. /\ th[t].pc \in {"release", "publish"} /\ th'[t].pc = "idle" /\ th'[t].obj = th[t].obj
      /\ \A u \in Thread \ {t} : th'[u] = th[u]
      /\ UNCHANGED <<data, enqueue_pos, dequeue_pos, unmade>>
  <2>1. TypeOK
    BY DEF IInv
  <2>2. \E from \in {"release", "publish"} : Step(t, from, Go(t, "idle"))
    BY DEF Release, Publish
  <2> QED BY <2>1, <2>2, Moves, GoIs DEF Release, Publish
<1>2. /\ Waiting' = Waiting
      /\ Held'[t] = Held[t] => Held' = Held
      /\ State' = [State EXCEPT ![t] = State'[t]]
  BY <1>1, QuietStep
<1>3. /\ Held[t] = th[t].obj /\ Held'[t] = th[t].obj
      /\ State[t] \in {"taking", "giving"} /\ State'[t] = "idle"
  BY <1>1 DEF Held, State
<1>4. Held' = Held
  BY <1>2, <1>3
<1>5. Sessions!End(t)
  BY <1>1, <1>2, <1>3, <1>4 DEF Sessions!End, Sessions!Becomes
<1> QED BY <1>5 DEF Sessions!Next

LEMMA PoolMakes ==
  ASSUME IInv, IInv', NEW t \in Thread, NEW o \in Object, Make(t, o)
  PROVE  Sessions!Next
<1>1. /\ th[t].pc = "none" /\ th'[t].pc = "idle" /\ th'[t].obj = o
      /\ \A u \in Thread \ {t} : th'[u] = th[u]
      /\ UNCHANGED <<data, enqueue_pos, dequeue_pos>>
      /\ o \in unmade /\ unmade' = unmade \ {o}
  <2>1. TypeOK
    BY DEF IInv
  <2>2. Step(t, "none", [Go(t, "idle") EXCEPT !.obj = o])
    BY DEF Make
  <2> QED BY <2>1, <2>2, Moves, GoIs DEF Make
<1>2. /\ Waiting' = Waiting
      /\ Held' = [Held EXCEPT ![t] = Held'[t]]
      /\ State' = [State EXCEPT ![t] = State'[t]]
  BY <1>1, QuietStep
<1>3. /\ Held[t] = NoObject /\ Held'[t] = o /\ State[t] = "refused" /\ State'[t] = "idle"
  BY <1>1 DEF Held, State, IInv, ThreadInv, Hands
<1>4. Sessions!Make(t)
  BY <1>1, <1>2, <1>3 DEF Sessions!Make, Sessions!Becomes
<1> QED BY <1>4 DEF Sessions!Next

LEMMA PoolDestroys ==
  ASSUME IInv, IInv', NEW t \in Thread, Destroy(t)
  PROVE  Sessions!Next
<1>1. /\ th[t].pc = "full" /\ th'[t].pc = "idle" /\ th'[t].obj = NoObject
      /\ \A u \in Thread \ {t} : th'[u] = th[u]
      /\ UNCHANGED <<data, enqueue_pos, dequeue_pos>>
      /\ unmade' = unmade \cup {th[t].obj}
  <2>1. TypeOK
    BY DEF IInv
  <2>2. Step(t, "full", [Go(t, "idle") EXCEPT !.obj = NoObject])
    BY DEF Destroy
  <2> QED BY <2>1, <2>2, Moves, GoIs DEF Destroy
<1>2. /\ Waiting' = Waiting
      /\ Held' = [Held EXCEPT ![t] = Held'[t]]
      /\ State' = [State EXCEPT ![t] = State'[t]]
  BY <1>1, QuietStep
<1>3. /\ Held[t] = th[t].obj /\ th[t].obj # NoObject /\ Held'[t] = NoObject
      /\ State[t] = "refused" /\ State'[t] = "idle"
  BY <1>1 DEF Held, State, IInv, ThreadInv, Hands
<1>4. Sessions!Destroy(t)
  BY <1>1, <1>2, <1>3 DEF Sessions!Destroy, Sessions!Becomes
<1> QED BY <1>4 DEF Sessions!Next

\* Moving the session out of the cell: it was the thread's already.
LEMMA PoolMoves ==
  ASSUME IInv, IInv', OrderInv, NEW t \in Thread, Move(t)
  PROVE  UNCHANGED Sessions!vars
<1> DEFINE c == Cell(th[t].pos)
<1>1. /\ th[t].pc = "move" /\ th'[t].pc = "release" /\ th'[t].obj = data[c]
      /\ \A u \in Thread \ {t} : th'[u] = th[u]
      /\ UNCHANGED <<enqueue_pos, dequeue_pos, unmade>>
      /\ data' = [data EXCEPT ![c] = NoObject]
  <2>1. TypeOK
    BY DEF IInv
  <2>2. Step(t, "move", [Go(t, "release") EXCEPT !.obj = data[c]])
    BY DEF Move
  <2> QED BY <2>1, <2>2, Moves, GoIs DEF Move
<1>2. Claimed(t) /\ ~ClaimedToPut(t)
  BY <1>1 DEF Claimed, ClaimedToGet, ClaimedToPut
<1>3. dequeue_pos \in Nat /\ enqueue_pos \in Nat
  BY CursorType DEF IInv
<1>4. \A i \in Index \ {c} : data'[i] = data[i]
  BY <1>1 DEF IInv, TypeOK
<1>5. ASSUME NEW q \in dequeue_pos..(enqueue_pos - 1) PROVE Item(q)' = Item(q)
  <2>1. q \in Nat /\ Cell(q) \in Index
    BY <1>3, CellType
  <2>2. Cell(q) # c
    BY <1>2, ClaimedCell
  <2>3. ~IsPutting(t, q) /\ ~IsPutting(t, q)'
    BY <1>1 DEF IsPutting
  <2>4. data'[Cell(q)] = data[Cell(q)]
    BY <1>4, <2>1, <2>2
  <2> QED BY <1>1, <2>1, <2>3, <2>4, ItemStays
<1>6. Waiting' = Waiting
  BY <1>1, <1>3, <1>5, WaitingStays
<1>7. \A u \in Thread \ {t} : th[u].pc = "move" => data'[Cell(th[u].pos)] = data[Cell(th[u].pos)]
  BY <1>2, <1>4, CellIsMine, ThreadType DEF IInv, Claimed, ClaimedToGet
<1>8. /\ Held'[t] = Held[t] => Held' = Held
      /\ State'[t] = State[t] => State' = State
  BY <1>1, <1>7, OthersKeep
<1>9. Held'[t] = Held[t] /\ State'[t] = State[t]
  BY <1>1 DEF Held, State
<1> QED BY <1>1, <1>6, <1>8, <1>9 DEF Sessions!vars

\* Putting the session into the cell: it was the pool's already.
LEMMA PoolPuts ==
  ASSUME IInv, IInv', OrderInv, NEW t \in Thread, Put(t)
  PROVE  UNCHANGED Sessions!vars
<1> DEFINE c == Cell(th[t].pos)
<1>1. /\ th[t].pc = "put" /\ th'[t].pc = "publish" /\ th'[t].obj = NoObject
      /\ \A u \in Thread \ {t} : th'[u] = th[u]
      /\ UNCHANGED <<enqueue_pos, dequeue_pos, unmade>>
      /\ data' = [data EXCEPT ![c] = th[t].obj]
  <2>1. TypeOK
    BY DEF IInv
  <2>2. Step(t, "put", [Go(t, "publish") EXCEPT !.obj = NoObject])
    BY DEF Put
  <2> QED BY <2>1, <2>2, Moves, GoIs DEF Put
<1>2. Claimed(t)
  BY <1>1 DEF Claimed, ClaimedToPut
<1>3. dequeue_pos \in Nat /\ enqueue_pos \in Nat
  BY CursorType DEF IInv
<1>4. data'[c] = th[t].obj /\ \A i \in Index \ {c} : data'[i] = data[i]
  BY <1>1, ThreadType DEF IInv, TypeOK
<1>5. ASSUME NEW q \in dequeue_pos..(enqueue_pos - 1) PROVE Item(q)' = Item(q)
  <2>1. q \in Nat /\ Cell(q) \in Index
    BY <1>3, CellType
  <2>2. CASE q = th[t].pos
    <3>1. Item(q) = th[t].obj
      BY <1>1, <2>1, <2>2, ItemIs DEF Items, IsPutting
    <3>2. \A u \in Thread : ~IsPutting(u, q)'
      BY <1>1, <1>2, <2>2, CellIsMine DEF IsPutting, Claimed, ClaimedToPut
    <3>3. Item(q)' = data'[Cell(q)]
      BY <2>1, <3>2, ItemIsNext DEF Items
    <3> QED BY <1>4, <2>2, <3>1, <3>3
  <2>3. CASE q # th[t].pos
    <3>1. Cell(q) # c
      BY <1>2, <2>3, ClaimedCell
    <3>2. ~IsPutting(t, q) /\ ~IsPutting(t, q)'
      BY <1>1, <2>3 DEF IsPutting
    <3>3. data'[Cell(q)] = data[Cell(q)]
      BY <1>4, <2>1, <3>1
    <3> QED BY <1>1, <2>1, <3>2, <3>3, ItemStays
  <2> QED BY <2>2, <2>3
<1>6. Waiting' = Waiting
  BY <1>1, <1>3, <1>5, WaitingStays
<1>7. \A u \in Thread \ {t} : th[u].pc = "move" => data'[Cell(th[u].pos)] = data[Cell(th[u].pos)]
  BY <1>2, <1>4, CellIsMine, ThreadType DEF IInv, Claimed, ClaimedToGet
<1>8. /\ Held'[t] = Held[t] => Held' = Held
      /\ State'[t] = State[t] => State' = State
  BY <1>1, <1>7, OthersKeep
<1>9. Held'[t] = Held[t] /\ State'[t] = State[t]
  BY <1>1 DEF Held, State
<1> QED BY <1>1, <1>6, <1>8, <1>9 DEF Sessions!vars

\* The successful exchange of get takes the first session of the queue.
LEMMA PoolTakes ==
  ASSUME IInv, IInv', OrderInv, OrderInv', NEW t \in Thread, GetClaim(t)
  PROVE  Sessions!Next
<1> DEFINE p == dequeue_pos
           S == Object \cup {NoObject}
<1>1. /\ th[t].pc = "getCas" /\ th[t].pos = p
      /\ th'[t].pc = "move" /\ th'[t].pos = p /\ th'[t].obj = th[t].obj
      /\ \A u \in Thread \ {t} : th'[u] = th[u]
      /\ dequeue_pos' = p + 1 /\ UNCHANGED <<data, enqueue_pos, unmade>>
  <2>1. TypeOK
    BY DEF IInv
  <2>2. Step(t, "getCas", Go(t, "move"))
    BY DEF GetClaim
  <2> QED BY <2>1, <2>2, Moves, GoIs DEF GetClaim
<1>2. th[t].obj = NoObject /\ sequence[Cell(p)] = p + 1
  BY <1>1 DEF IInv, ThreadInv, Hands, Cursor
<1>3. /\ p \in Nat /\ enqueue_pos \in Nat /\ p < enqueue_pos
      /\ Waiting \in Seq(S) /\ Len(Waiting) = enqueue_pos - p
      /\ \A q \in p..(enqueue_pos - 1) : Waiting[q - p + 1] = Item(q)
  <2>1. p < enqueue_pos
    BY <1>1, CursorType DEF IInv, OrderInv, Bounds
  <2> QED BY <2>1, WaitingIs DEF Queues
<1>4. /\ Waiting' \in Seq(S) /\ Len(Waiting') = enqueue_pos - p - 1
      /\ \A q \in (p + 1)..(enqueue_pos - 1) : Waiting'[q - (p + 1) + 1] = Item(q)'
  BY <1>1, <1>3, WaitingIsNext DEF Queues
<1>5. \A u \in Thread : ~IsPutting(u, p)
  BY <1>2, <1>3, CellIsFree DEF IsPutting, Claimed, ClaimedToPut
<1>6. Item(p) = data[Cell(p)]
  BY <1>3, <1>5, ItemIs DEF Items
<1>7. \A q \in Nat : Item(q)' = Item(q)
  BY <1>1, ItemStays DEF IsPutting
<1>8. Waiting # <<>> /\ Head(Waiting) = data[Cell(p)]
  <2>1. Waiting # <<>>
    BY <1>3, EmptySeq
  <2>2. Head(Waiting) = Waiting[1]
    BY <1>3, <2>1
  <2>3. p \in p..(enqueue_pos - 1) /\ p - p + 1 = 1
    BY <1>3
  <2>4. Waiting[1] = Item(p)
    BY <1>3, <2>3
  <2> QED BY <1>6, <2>1, <2>2, <2>4
<1>9. Waiting' = Tail(Waiting)
  <2>1. /\ Tail(Waiting) \in Seq(S) /\ Len(Tail(Waiting)) = Len(Waiting) - 1
        /\ \A i \in 1..Len(Tail(Waiting)) : Tail(Waiting)[i] = Waiting[i + 1]
    BY <1>3, <1>8, HeadTailProperties
  <2>2. Len(Waiting') = Len(Tail(Waiting))
    BY <1>3, <1>4, <2>1
  <2>3. ASSUME NEW i \in 1..Len(Waiting') PROVE Waiting'[i] = Tail(Waiting)[i]
    <3>1. PICK q \in Nat : q = p + i
      BY <1>3, <1>4
    <3>2. /\ q \in p..(enqueue_pos - 1) /\ q \in (p + 1)..(enqueue_pos - 1)
          /\ q - p + 1 = i + 1 /\ q - (p + 1) + 1 = i
      BY <1>3, <1>4, <3>1
    <3>3. Waiting'[i] = Item(q)' /\ Waiting[i + 1] = Item(q)
      BY <1>3, <1>4, <3>2
    <3>4. Tail(Waiting)[i] = Waiting[i + 1]
      BY <2>1, <2>2
    <3> QED BY <1>7, <3>3, <3>4
  <2> QED BY <1>4, <2>1, <2>2, <2>3, SeqEqual
<1>10. /\ Held' = [Held EXCEPT ![t] = Held'[t]]
       /\ State' = [State EXCEPT ![t] = State'[t]]
  BY <1>1, OthersKeep
<1>11. /\ Held[t] = NoObject /\ Held'[t] = data[Cell(p)]
       /\ State[t] = "idle" /\ State'[t] = "taking"
  BY <1>1, <1>2 DEF Held, State
<1>12. Sessions!Take(t)
  BY <1>1, <1>8, <1>9, <1>10, <1>11 DEF Sessions!Take, Sessions!Becomes
<1> QED BY <1>12 DEF Sessions!Next

\* The successful exchange of replace appends the session to the queue.
LEMMA PoolGivesBack ==
  ASSUME IInv, IInv', OrderInv, OrderInv', NEW t \in Thread, ReplaceClaim(t)
  PROVE  Sessions!Next
<1> DEFINE S == Object \cup {NoObject}
<1>0. PICK p \in Nat : p = enqueue_pos
  BY CursorType DEF IInv
<1>1. /\ th[t].pc = "replaceCas" /\ th[t].pos = p
      /\ th'[t].pc = "put" /\ th'[t].pos = p /\ th'[t].obj = th[t].obj
      /\ \A u \in Thread \ {t} : th'[u] = th[u]
      /\ enqueue_pos' = p + 1 /\ UNCHANGED <<data, dequeue_pos, unmade>>
  <2>1. TypeOK
    BY DEF IInv
  <2>2. Step(t, "replaceCas", Go(t, "put"))
    BY DEF ReplaceClaim
  <2> QED BY <1>0, <2>1, <2>2, Moves, GoIs DEF ReplaceClaim
<1>2. th[t].obj # NoObject /\ th[t].obj \in S /\ sequence[Cell(p)] = p
  BY <1>0, <1>1, ThreadType DEF IInv, ThreadInv, Hands, Cursor
<1>3. /\ dequeue_pos \in Nat
      /\ Waiting \in Seq(S) /\ Len(Waiting) = p - dequeue_pos
      /\ \A q \in dequeue_pos..(p - 1) : Waiting[q - dequeue_pos + 1] = Item(q)
      /\ dequeue_pos <= p
  BY <1>0, WaitingIs DEF Queues, OrderInv, Bounds
<1>4. /\ Waiting' \in Seq(S) /\ Len(Waiting') = p + 1 - dequeue_pos
      /\ \A q \in dequeue_pos..p : Waiting'[q - dequeue_pos + 1] = Item(q)'
  BY <1>0, <1>1, WaitingIsNext DEF Queues
<1>5. Len(Waiting) < Capacity
  BY <1>0, <1>2, <1>3, CellType DEF IInv, Ahead, Fillable
<1>6. ASSUME NEW q \in Nat, q # p PROVE Item(q)' = Item(q)
  <2>1. ~IsPutting(t, q) /\ ~IsPutting(t, q)'
    BY <1>1, <1>6 DEF IsPutting
  <2> QED BY <1>1, <2>1, ItemStays
<1>7. Item(p)' = th[t].obj
  <2>1. IsPutting(t, p)'
    BY <1>1 DEF IsPutting
  <2> QED BY <1>1, <2>1, ItemIsNext DEF Items
<1>8. Waiting' = Append(Waiting, th[t].obj)
  <2>1. /\ Append(Waiting, th[t].obj) \in Seq(S)
        /\ Len(Append(Waiting, th[t].obj)) = Len(Waiting) + 1
        /\ \A i \in 1..Len(Waiting) : Append(Waiting, th[t].obj)[i] = Waiting[i]
        /\ Append(Waiting, th[t].obj)[Len(Waiting) + 1] = th[t].obj
    <3> HIDE DEF S
    <3> QED BY <1>2, <1>3, AppendProperties
  <2>2. Len(Waiting') = Len(Waiting) + 1 /\ Len(Waiting) \in Nat
    BY <1>3, <1>4, LenProperties
  <2>3. ASSUME NEW i \in 1..Len(Waiting') PROVE Waiting'[i] = Append(Waiting, th[t].obj)[i]
    <3>1. PICK q \in Nat : q = dequeue_pos + i - 1
      BY <1>3, <1>4
    <3>2. Waiting'[i] = Item(q)'
      <4>1. q \in dequeue_pos..p /\ q - dequeue_pos + 1 = i
        BY <1>3, <1>4, <3>1
      <4> QED BY <1>4, <4>1
    <3>3. CASE q = p
      <4>1. i = Len(Waiting) + 1
        BY <1>3, <3>1, <3>3
      <4> QED BY <1>7, <2>1, <3>2, <3>3, <4>1
    <3>4. CASE q # p
      <4>1. /\ i \in 1..Len(Waiting) /\ q \in dequeue_pos..(p - 1)
            /\ q - dequeue_pos + 1 = i
        BY <1>3, <1>4, <3>1, <3>4
      <4>2. Waiting[i] = Item(q)
        BY <1>3, <4>1
      <4> QED BY <1>6, <2>1, <3>2, <3>4, <4>1, <4>2
    <3> QED BY <3>3, <3>4
  <2> QED BY <1>4, <2>1, <2>2, <2>3, SeqEqual
<1>9. /\ Held' = [Held EXCEPT ![t] = Held'[t]]
       /\ State' = [State EXCEPT ![t] = State'[t]]
  BY <1>1, OthersKeep
<1>10. /\ Held[t] = th[t].obj /\ Held'[t] = NoObject
       /\ State[t] = "idle" /\ State'[t] = "giving"
  BY <1>1 DEF Held, State
<1>11. Sessions!GiveBack(t)
  BY <1>1, <1>2, <1>5, <1>8, <1>9, <1>10 DEF Sessions!GiveBack, Sessions!Becomes
<1> QED BY <1>11 DEF Sessions!Next

LEMMA PoolInit == Init => Sessions!Init
<1> SUFFICES ASSUME Init PROVE Sessions!Init
  OBVIOUS
<1>1. \A t \in Thread : th[t].pc = "idle" /\ th[t].obj = NoObject
  BY DEF Init
<1>2. Held = [t \in Thread |-> NoObject] /\ State = [t \in Thread |-> "idle"]
  BY <1>1 DEF Held, State
<1>3. Waiting = [i \in 1..Capacity |-> InPool[i - 1]]
  <2>1. \A i \in 1..Capacity : Item(i - 1) = InPool[i - 1]
    BY <1>1, CellSame DEF Init, Item, Putting, Index
  <2>2. enqueue_pos - dequeue_pos = Capacity /\ \A i \in 1..Capacity : dequeue_pos + i - 1 = i - 1
    BY DEF Init
  <2> QED BY <2>1, <2>2 DEF Waiting
<1> QED BY <1>2, <1>3 DEF Sessions!Init, Init, Index

LEMMA PoolNext ==
  IInv /\ IInv' /\ OrderInv /\ OrderInv' /\ [Next]_vars => [Sessions!Next]_(Sessions!vars)
<1> SUFFICES ASSUME IInv, IInv', OrderInv, OrderInv', [Next]_vars
             PROVE  [Sessions!Next]_(Sessions!vars)
  OBVIOUS
<1>1. ASSUME NEW t \in Thread, get(t), Next PROVE [Sessions!Next]_(Sessions!vars)
  BY <1>1, PoolLooks, PoolTakes, PoolMoves, PoolEnds, PoolMakes DEF get
<1>2. ASSUME NEW t \in Thread, replace(t), Next PROVE [Sessions!Next]_(Sessions!vars)
  BY <1>2, PoolLooks, PoolGivesBack, PoolPuts, PoolEnds, PoolDestroys DEF replace
<1>3. CASE UNCHANGED vars
  BY <1>3 DEF vars, Sessions!vars, Waiting, Held, State, Item, Putting
<1> QED BY <1>1, <1>2, <1>3 DEF Next

-----------------------------------------------------------------------------
(***************************************************************************)
(* Theorems.                                                               *)
(***************************************************************************)
\* The pool keeps its types: however many objects threads give back, replace
\* never takes a position more than a round beyond the last one get may take.
THEOREM PoolType == Spec => []TypeOK
<1>1. IInv => TypeOK
  BY DEF IInv
<1> QED BY <1>1, Inductive, PTL

\* A session is in one cell or in one thread's hands, and only there, whatever
\* the threads do to each other's cells.
THEOREM SessionsInOnePlace == Spec => []OnePlace
<1>1. IInv => OnePlace
  <2> SUFFICES ASSUME IInv, NEW o \in Object
               PROVE  /\ o \in unmade => Holders(o) = {} /\ Cells(o) = {}
                      /\ o \notin unmade =>
                           \/ Holders(o) = {} /\ \E i \in Index : Cells(o) = {i}
                           \/ Cells(o) = {} /\ \E t \in Thread : Holders(o) = {t}
    BY DEF OnePlace
  <2>0. o # NoObject
    OBVIOUS
  <2>1. CASE o \in unmade
    BY <2>1 DEF IInv, PlaceInv, InCell, InHand, Holders, Cells
  <2>2. ASSUME NEW i \in Index, data[i] = o
        PROVE  Holders(o) = {} /\ Cells(o) = {i}
    BY <2>0, <2>2 DEF IInv, PlaceInv, Holders, Cells
  <2>3. ASSUME NEW t \in Thread, th[t].obj = o
        PROVE  Cells(o) = {} /\ Holders(o) = {t}
    BY <2>0, <2>3 DEF IInv, PlaceInv, Holders, Cells
  <2>4. CASE o \notin unmade
    <3>1. InCell(o) \/ InHand(o)
      BY <2>4 DEF IInv, PlaceInv
    <3> QED BY <2>2, <2>3, <2>4, <3>1 DEF InCell, InHand
  <2> QED BY <2>1, <2>4
<1> QED BY <1>1, Inductive, PTL

\* get reports an empty pool, and replace a full one, only if it is, or if the
\* cell at the cursor is still being worked on: a cell behind the cursor, or a
\* cursor loaded long ago, never passes for either.
THEOREM RefusalsHaveAReason == Spec => RefusedForAReason
<1> DEFINE Reason ==
      \A t \in Thread :
        /\ th[t].pc # "none" /\ th'[t].pc = "none" =>
             \/ enqueue_pos = dequeue_pos
             \/ AtWork({"put", "publish"}, dequeue_pos)
        /\ th[t].pc # "full" /\ th'[t].pc = "full" =>
             \/ enqueue_pos = dequeue_pos + Capacity
             \/ AtWork({"move", "release"}, enqueue_pos - Capacity)
<1>1. IInv /\ OrderInv /\ [Next]_vars => [Reason]_vars
  BY Refused
<1> QED BY <1>1, Inductive, InitInv, OrderInit, OrderNext, PTL DEF Spec, RefusedForAReason

\* The atomic steps of get and replace together are a queue of sessions, however
\* the threads interleave: first in, first out, no session lost or handed out
\* twice, and no refusal without a reason.
THEOREM PoolIsAQueue == Spec => IsSessionPool
<1>1. IInv /\ OrderInv /\ [Next]_vars => IInv' /\ OrderInv'
  BY NextInv, OrderNext
<1> QED
  BY <1>1, InitInv, OrderInit, PoolInit, PoolNext, PTL DEF Spec, IsSessionPool, Sessions!Spec
=============================================================================
