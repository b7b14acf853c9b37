----------------------------- MODULE TradeQueue -----------------------------
(***************************************************************************)
(* What the trade ledger promises: a queue of at most Capacity trades that *)
(* makes room by dropping the oldest, and hands each trade to at most one  *)
(* reader.  A trade is its position in the order of the pushes.  A reader  *)
(* that has taken a trade may still lose it to the writer, but only after  *)
(* Capacity newer ones were pushed.                                        *)
(***************************************************************************)
EXTENDS Integers

CONSTANTS Popper, Capacity

VARIABLES
  pushed,   \* trades pushed so far
  oldest,   \* position of the oldest trade that nobody has taken
  held,     \* the trade each reader has taken, or Nothing
  returned, \* trades that were handed out
  empty     \* readers whose last call found nothing

vars == <<pushed, oldest, held, returned, empty>>

Nothing == -1

Init ==
  /\ pushed = 0 /\ oldest = 0
  /\ held = [p \in Popper |-> Nothing]
  /\ returned = {} /\ empty = {}

Push ==
  /\ pushed - oldest < Capacity
  /\ pushed' = pushed + 1
  /\ UNCHANGED <<oldest, held, returned, empty>>

Drop ==
  /\ pushed - oldest = Capacity
  /\ oldest' = oldest + 1
  /\ UNCHANGED <<pushed, held, returned, empty>>

Ask(p) ==
  /\ empty' = empty \ {p}
  /\ UNCHANGED <<pushed, oldest, held, returned>>

FindEmpty(p) ==
  /\ held[p] = Nothing
  /\ oldest = pushed
  /\ empty' = empty \cup {p}
  /\ UNCHANGED <<pushed, oldest, held, returned>>

Take(p) ==
  /\ held[p] = Nothing
  /\ oldest < pushed
  /\ held' = [held EXCEPT ![p] = oldest]
  /\ oldest' = oldest + 1
  /\ UNCHANGED <<pushed, returned, empty>>

Deliver(p) ==
  /\ held[p] # Nothing
  /\ held[p] \notin returned
  /\ returned' = returned \cup {held[p]}
  /\ held' = [held EXCEPT ![p] = Nothing]
  /\ UNCHANGED <<pushed, oldest, empty>>

Forfeit(p) ==
  /\ held[p] # Nothing
  /\ pushed >= held[p] + Capacity
  /\ held' = [held EXCEPT ![p] = Nothing]
  /\ UNCHANGED <<pushed, oldest, returned, empty>>

Next ==
  \/ Push \/ Drop
  \/ \E p \in Popper : Ask(p) \/ FindEmpty(p) \/ Take(p) \/ Deliver(p) \/ Forfeit(p)

Spec == Init /\ [][Next]_vars
=============================================================================
