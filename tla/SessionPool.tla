---------------------------- MODULE SessionPool -----------------------------
(***************************************************************************)
(* What RestClient relies on when it takes a session from the pool and     *)
(* gives it back: a queue of at most Capacity sessions, each of which is   *)
(* handed out once.  A session that is being given back has its place in   *)
(* the queue already.  While somebody is giving back, others may be told   *)
(* that the pool is empty although it is not; while somebody is taking,    *)
(* that it is full.                                                        *)
(***************************************************************************)
EXTENDS Integers, Sequences

CONSTANTS Thread, Object, NoObject, Capacity, InPool

VARIABLES
  queue,  \* the sessions in the pool, oldest first
  held,   \* the session each thread has
  state,  \* what each thread is doing
  unmade  \* sessions that do not exist

vars == <<queue, held, state, unmade>>

Init ==
  /\ queue = [i \in 1..Capacity |-> InPool[i - 1]]
  /\ held = [t \in Thread |-> NoObject]
  /\ state = [t \in Thread |-> "idle"]
  /\ unmade = Object \ {InPool[i] : i \in 0..(Capacity - 1)}

Becomes(t, from, to) ==
  /\ state[t] = from
  /\ state' = [state EXCEPT ![t] = to]

Take(t) ==
  /\ held[t] = NoObject
  /\ queue # <<>>
  /\ Becomes(t, "idle", "taking")
  /\ held' = [held EXCEPT ![t] = Head(queue)]
  /\ queue' = Tail(queue)
  /\ UNCHANGED unmade

GiveBack(t) ==
  /\ held[t] # NoObject
  /\ Len(queue) < Capacity
  /\ Becomes(t, "idle", "giving")
  /\ held' = [held EXCEPT ![t] = NoObject]
  /\ queue' = Append(queue, held[t])
  /\ UNCHANGED unmade

End(t) ==
  /\ \/ Becomes(t, "taking", "idle")
     \/ Becomes(t, "giving", "idle")
  /\ UNCHANGED <<queue, held, unmade>>

FindNone(t) ==
  /\ held[t] = NoObject
  /\ queue = <<>> \/ \E u \in Thread : state[u] = "giving"
  /\ Becomes(t, "idle", "refused")
  /\ UNCHANGED <<queue, held, unmade>>

FindNoRoom(t) ==
  /\ held[t] # NoObject
  /\ Len(queue) = Capacity \/ \E u \in Thread : state[u] = "taking"
  /\ Becomes(t, "idle", "refused")
  /\ UNCHANGED <<queue, held, unmade>>

Make(t) ==
  /\ held[t] = NoObject
  /\ Becomes(t, "refused", "idle")
  /\ \E o \in unmade : /\ held' = [held EXCEPT ![t] = o]
                       /\ unmade' = unmade \ {o}
  /\ UNCHANGED queue

Destroy(t) ==
  /\ held[t] # NoObject
  /\ Becomes(t, "refused", "idle")
  /\ held' = [held EXCEPT ![t] = NoObject]
  /\ unmade' = unmade \cup {held[t]}
  /\ UNCHANGED queue

Next ==
  \E t \in Thread :
    \/ Take(t) \/ GiveBack(t) \/ End(t) \/ FindNone(t) \/ FindNoRoom(t)
    \/ Make(t) \/ Destroy(t)

Spec == Init /\ [][Next]_vars
=============================================================================
