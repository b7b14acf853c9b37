----------------------------- MODULE ObjectPool -----------------------------
(***************************************************************************)
(* ObjectPool: the bounded lock-free FIFO of HTTPS sessions that RestClient*)
(* takes sessions from (get) and gives them back to (replace).  Each cell  *)
(* has a sequence number that says whose turn it is: a cell is ready to be *)
(* emptied at position pos when its sequence is pos + 1, and to be filled  *)
(* when it is pos.                                                         *)
(*                                                                         *)
(* Threads interleave at their loads, stores and compare-exchanges of      *)
(* shared atomics and at their accesses to the data of a cell.  As in      *)
(* RestClient::get, a thread that finds the pool empty makes an object of  *)
(* its own, and an object that finds it full is destroyed.                 *)
(***************************************************************************)
EXTENDS Integers

CONSTANTS
  Thread,
  Object, NoObject,  \* sessions; none
  Capacity,          \* HTTPS_SESSION_POOL_SIZE
  InPool,            \* the objects the factory fills the pool with
  MaxPos             \* bound: objects taken from the pool

ASSUME PoolAssumption ==
  /\ NoObject \notin Object
  /\ Capacity \in Nat /\ Capacity >= 2
  /\ InPool \in [0..(Capacity - 1) -> Object]
  /\ \A i, j \in 0..(Capacity - 1) : InPool[i] = InPool[j] => i = j
  /\ MaxPos \in Nat

VARIABLES
  sequence,  \* buffer_[i].sequence
  data,      \* buffer_[i].data
  enqueue_pos, dequeue_pos,
  th,        \* each thread's position, locals and object
  unmade     \* objects that do not exist

vars == <<sequence, data, enqueue_pos, dequeue_pos, th, unmade>>

Index == 0..(Capacity - 1)
Position == 0..(Capacity + MaxPos)
Cell(pos) == pos % Capacity  \* pos & (Capacity - 1)

Pc == {"idle", "get", "getSeq", "getCas", "move", "release",
       "replace", "replaceSeq", "replaceCas", "put", "publish", "none", "full"}

TypeOK ==
  /\ sequence \in [Index -> Position]
  /\ data \in [Index -> Object \cup {NoObject}]
  /\ enqueue_pos \in Position /\ dequeue_pos \in 0..MaxPos
  /\ th \in [Thread -> [pc : Pc, pos : Position, obj : Object \cup {NoObject}]]
  /\ unmade \subseteq Object

Init ==
  /\ sequence = [i \in Index |-> i + 1]
  /\ data = InPool
  /\ enqueue_pos = Capacity /\ dequeue_pos = 0
  /\ th = [t \in Thread |-> [pc |-> "idle", pos |-> 0, obj |-> NoObject]]
  /\ unmade = Object \ {InPool[i] : i \in Index}

Step(t, from, to) ==
  /\ th[t].pc = from
  /\ th' = [th EXCEPT ![t] = to]

Go(t, pc) == [th[t] EXCEPT !.pc = pc]

(***************************************************************************)
(* get                                                                     *)
(***************************************************************************)
CallGet(t) ==
  /\ th[t].obj = NoObject
  /\ Step(t, "idle", [Go(t, "getSeq") EXCEPT !.pos = dequeue_pos])
  /\ UNCHANGED <<sequence, data, enqueue_pos, dequeue_pos, unmade>>

\* The cell's sequence is the thread's turn, behind it (empty) or ahead of it.
GetSeq(t) ==
  /\ LET dif == sequence[Cell(th[t].pos)] - (th[t].pos + 1)
     IN  Step(t, "getSeq", IF dif = 0 THEN Go(t, "getCas")
                           ELSE IF dif < 0 THEN Go(t, "none")
                           ELSE Go(t, "get"))
  /\ UNCHANGED <<sequence, data, enqueue_pos, dequeue_pos, unmade>>

GetReload(t) ==
  /\ Step(t, "get", [Go(t, "getSeq") EXCEPT !.pos = dequeue_pos])
  /\ UNCHANGED <<sequence, data, enqueue_pos, dequeue_pos, unmade>>

\* Mutant: the position is taken without a look at what it is by now.
MutGetClaim(t) ==
  /\ th[t].pos < MaxPos
  /\ Step(t, "getCas", Go(t, "move"))
  /\ dequeue_pos' = th[t].pos + 1
  /\ UNCHANGED <<sequence, data, enqueue_pos, unmade>>

GetClaim(t) ==
  /\ dequeue_pos = th[t].pos
  /\ dequeue_pos < MaxPos
  /\ Step(t, "getCas", Go(t, "move"))
  /\ dequeue_pos' = th[t].pos + 1
  /\ UNCHANGED <<sequence, data, enqueue_pos, unmade>>

\* The exchange fails, perhaps spuriously, and loads the position.
GetFail(t) ==
  /\ Step(t, "getCas", [Go(t, "getSeq") EXCEPT !.pos = dequeue_pos])
  /\ UNCHANGED <<sequence, data, enqueue_pos, dequeue_pos, unmade>>

Move(t) ==
  /\ Step(t, "move", [Go(t, "release") EXCEPT !.obj = data[Cell(th[t].pos)]])
  /\ data' = [data EXCEPT ![Cell(th[t].pos)] = NoObject]
  /\ UNCHANGED <<sequence, enqueue_pos, dequeue_pos, unmade>>

\* Mutant: the cell is marked for the position after, not for the next round.
MutRelease(t) ==
  /\ Step(t, "release", Go(t, "idle"))
  /\ sequence' = [sequence EXCEPT ![Cell(th[t].pos)] = th[t].pos + 1]
  /\ UNCHANGED <<data, enqueue_pos, dequeue_pos, unmade>>

Release(t) ==
  /\ Step(t, "release", Go(t, "idle"))
  /\ sequence' = [sequence EXCEPT ![Cell(th[t].pos)] = th[t].pos + Capacity]
  /\ UNCHANGED <<data, enqueue_pos, dequeue_pos, unmade>>

\* get returned none: RestClient makes a session.
Make(t, o) ==
  /\ o \in unmade
  /\ Step(t, "none", [Go(t, "idle") EXCEPT !.obj = o])
  /\ unmade' = unmade \ {o}
  /\ UNCHANGED <<sequence, data, enqueue_pos, dequeue_pos>>

(***************************************************************************)
(* replace                                                                 *)
(***************************************************************************)
CallReplace(t) ==
  /\ th[t].obj # NoObject
  /\ Step(t, "idle", [Go(t, "replaceSeq") EXCEPT !.pos = enqueue_pos])
  /\ UNCHANGED <<sequence, data, enqueue_pos, dequeue_pos, unmade>>

ReplaceSeq(t) ==
  /\ LET dif == sequence[Cell(th[t].pos)] - th[t].pos
     IN  Step(t, "replaceSeq", IF dif = 0 THEN Go(t, "replaceCas")
                               ELSE IF dif < 0 THEN Go(t, "full")
                               ELSE Go(t, "replace"))
  /\ UNCHANGED <<sequence, data, enqueue_pos, dequeue_pos, unmade>>

ReplaceReload(t) ==
  /\ Step(t, "replace", [Go(t, "replaceSeq") EXCEPT !.pos = enqueue_pos])
  /\ UNCHANGED <<sequence, data, enqueue_pos, dequeue_pos, unmade>>

\* Mutant: the position is taken without a look at what it is by now.
MutReplaceClaim(t) ==
  /\ Step(t, "replaceCas", Go(t, "put"))
  /\ enqueue_pos' = th[t].pos + 1
  /\ UNCHANGED <<sequence, data, dequeue_pos, unmade>>

ReplaceClaim(t) ==
  /\ enqueue_pos = th[t].pos
  /\ Step(t, "replaceCas", Go(t, "put"))
  /\ enqueue_pos' = th[t].pos + 1
  /\ UNCHANGED <<sequence, data, dequeue_pos, unmade>>

ReplaceFail(t) ==
  /\ Step(t, "replaceCas", [Go(t, "replaceSeq") EXCEPT !.pos = enqueue_pos])
  /\ UNCHANGED <<sequence, data, enqueue_pos, dequeue_pos, unmade>>

Put(t) ==
  /\ Step(t, "put", [Go(t, "publish") EXCEPT !.obj = NoObject])
  /\ data' = [data EXCEPT ![Cell(th[t].pos)] = th[t].obj]
  /\ UNCHANGED <<sequence, enqueue_pos, dequeue_pos, unmade>>

Publish(t) ==
  /\ Step(t, "publish", Go(t, "idle"))
  /\ sequence' = [sequence EXCEPT ![Cell(th[t].pos)] = th[t].pos + 1]
  /\ UNCHANGED <<data, enqueue_pos, dequeue_pos, unmade>>

\* replace returned false: the last reference to the object goes.
Destroy(t) ==
  /\ Step(t, "full", [Go(t, "idle") EXCEPT !.obj = NoObject])
  /\ unmade' = unmade \cup {th[t].obj}
  /\ UNCHANGED <<sequence, data, enqueue_pos, dequeue_pos>>

get(t) ==
  \/ CallGet(t) \/ GetSeq(t) \/ GetReload(t) \/ GetClaim(t) \/ GetFail(t)
  \/ Move(t) \/ Release(t) \/ \E o \in Object : Make(t, o)

replace(t) ==
  \/ CallReplace(t) \/ ReplaceSeq(t) \/ ReplaceReload(t) \/ ReplaceClaim(t)
  \/ ReplaceFail(t) \/ Put(t) \/ Publish(t) \/ Destroy(t)

Next == \E t \in Thread : get(t) \/ replace(t)

Spec == Init /\ [][Next]_vars

-----------------------------------------------------------------------------
(***************************************************************************)
(* Properties.                                                             *)
(***************************************************************************)
Holders(o) == {t \in Thread : th[t].obj = o}
Cells(o) == {i \in Index : data[i] = o}

\* Every session that exists is in one place, a cell or a thread's hands, and
\* only there: none is handed out twice, none is overwritten and lost.
OnePlace ==
  \A o \in Object :
    /\ o \in unmade => Holders(o) = {} /\ Cells(o) = {}
    /\ o \notin unmade =>
         \/ Holders(o) = {} /\ \E i \in Index : Cells(o) = {i}
         \/ Cells(o) = {} /\ \E t \in Thread : Holders(o) = {t}

\* A thread is at work on the cell of position pos.
AtWork(steps, pos) == \E t \in Thread : th[t].pc \in steps /\ th[t].pos = pos

\* get finds no session, and a session is made, only if none is left or the one
\* at the cursor is still being given back; replace finds no room, and a session
\* is lost, only if every cell is taken or the one at the cursor is still being
\* emptied.  A cell behind the cursor, or a cursor that has moved on since it
\* was loaded, never passes for an empty or a full pool.
RefusedForAReason ==
  [][\A t \in Thread :
       /\ th[t].pc # "none" /\ th'[t].pc = "none" =>
            \/ enqueue_pos = dequeue_pos
            \/ AtWork({"put", "publish"}, dequeue_pos)
       /\ th[t].pc # "full" /\ th'[t].pc = "full" =>
            \/ enqueue_pos = dequeue_pos + Capacity
            \/ AtWork({"move", "release"}, enqueue_pos - Capacity)]_vars

\* The session at a position between the cursors: it is the pool's from the moment
\* its position is claimed, though its thread has yet to put it into the cell.
Putting(pos) == {t \in Thread : th[t].pc = "put" /\ th[t].pos = pos}
Item(pos) ==
  IF Putting(pos) = {} THEN data[Cell(pos)] ELSE th[CHOOSE t \in Putting(pos) : TRUE].obj

Waiting == [i \in 1..(enqueue_pos - dequeue_pos) |-> Item(dequeue_pos + i - 1)]

\* The session a thread has: get's from the moment its position is claimed.
Held ==
  [t \in Thread |-> IF th[t].pc = "move" THEN data[Cell(th[t].pos)]
                    ELSE IF th[t].pc = "put" THEN NoObject ELSE th[t].obj]

State ==
  [t \in Thread |-> IF th[t].pc \in {"move", "release"} THEN "taking"
                    ELSE IF th[t].pc \in {"put", "publish"} THEN "giving"
                    ELSE IF th[t].pc \in {"none", "full"} THEN "refused" ELSE "idle"]

\* Loads, stores and compare-exchanges together are a queue of sessions: first in,
\* first out, none lost or handed out twice, never more than Capacity, and a
\* refusal only when the pool is empty or full or somebody is in the middle of an
\* operation on it.
Sessions == INSTANCE SessionPool WITH queue <- Waiting, held <- Held, state <- State

IsSessionPool == Sessions!Spec
=============================================================================
