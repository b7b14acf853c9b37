---------------------------- MODULE MarketPanel -----------------------------
(***************************************************************************)
(* The panels that show the book, MarketDepth and OrderbookLevels: each    *)
(* frame asks the store for the yes side and then for the no side at the   *)
(* time the frame began, and a side that is not answered stays on screen   *)
(* as it was.  The panels keep their data apart, so there is one here.     *)
(*                                                                         *)
(* Readers do not disturb each other: a behaviour has either a panel or a  *)
(* reader that asks for the timestamps of Query.                           *)
(***************************************************************************)
EXTENDS OrderbookHistory

CONSTANTS
  PanelTime,  \* bound: the last tick where there is a panel
  PanelBook   \* bound: messages that change the books where there is one

ASSUME PanelAssumption == PanelTime \in Nat /\ PanelBook \in Nat

VARIABLES
  reader,  \* which of the two there is
  panel,   \* the fetch under way: its stage and what the first get returned
  shown    \* yes_dollars_ and no_dollars_

panelVars == <<panel, shown>>
allVars == <<vars, reader, panelVars>>

NoFetch == [stage |-> "none"]

PanelTypeOK ==
  /\ TypeOK
  /\ reader \in {"past", "panel"}
  /\ panel.stage \in {"none", "yes", "no"}
  /\ shown \in [Side -> 0..MaxBook]

PanelInit ==
  /\ Init
  /\ reader \in {"past", "panel"}
  /\ panel = NoFetch
  /\ shown = [s \in Side |-> 0]

(***************************************************************************)
(* fetchData                                                               *)
(***************************************************************************)
FetchYes ==
  /\ panel.stage = "none"
  /\ Call(now, "Yes", -1)
  /\ panel' = [stage |-> "yes"]
  /\ UNCHANGED shown

FetchNo ==
  /\ panel.stage = "yes"
  /\ Step("done", Asked(rd.query, "No", -1))
  /\ panel' = [stage |-> "no", yes |-> rd.result.book]
  /\ UNCHANGED shown

\* Mutant: a side that is not answered is cleared.
MutCleared(yes, no) ==
  [shown EXCEPT !["Yes"] = IF yes # Missing.book THEN yes ELSE 0,
                !["No"] = IF no # Missing.book THEN no ELSE 0]

\* Mutant: the no side is only taken when the yes side is missing.
MutReplaced(yes, no) ==
  [shown EXCEPT !["Yes"] = IF yes # Missing.book THEN yes ELSE @,
                !["No"] = IF yes = Missing.book /\ no # Missing.book THEN no ELSE @]

Replaced(yes, no) ==
  [shown EXCEPT !["Yes"] = IF yes # Missing.book THEN yes ELSE @,
                !["No"] = IF no # Missing.book THEN no ELSE @]

Show ==
  /\ panel.stage = "no"
  /\ Step("done", Idle)
  /\ shown' = Replaced(panel.yes, rd.result.book)
  /\ panel' = NoFetch

fetchData ==
  /\ FetchYes \/ FetchNo \/ Show \/ (Getting /\ UNCHANGED panelVars)
  /\ UNCHANGED reader

Past == (get \/ Getting \/ Return) /\ UNCHANGED <<reader, panelVars>>

\* The bounds are smaller where there is a panel: frames go on for ever.
PanelTick ==
  /\ Tick
  /\ reader = "panel" => now < PanelTime
  /\ UNCHANGED <<reader, panelVars>>

PanelEngine ==
  /\ Engine
  /\ reader = "panel" =>
       exchange' <= PanelTime /\ (engine = Free /\ engine' # Free => Applied < PanelBook)
  /\ UNCHANGED <<reader, panelVars>>

PanelNext ==
  \/ PanelTick \/ PanelEngine
  \/ reader = "past" /\ Past
  \/ reader = "panel" /\ fetchData

PanelSpec == PanelInit /\ [][PanelNext]_allVars

\* The render loop draws frame after frame, and the clock goes on.
FairPanelSpec ==
  /\ PanelSpec
  /\ WF_allVars(reader = "panel" /\ fetchData)
  /\ WF_allVars(PanelTick)

-----------------------------------------------------------------------------
\* Until the first patch no side goes back on screen to an older book, although
\* the live book may begin after the time a frame asks for, the frame then
\* falls back to the ring, and sides that are refused keep what they show.
ShownNeverGoesBack ==
  [][patches' = 0 => \A s \in Side : shown'[s] >= shown[s]]_allVars

\* An open panel over a store that is valid and left alone ends up showing both
\* sides of its book, whatever was refused, fetched half or answered from the
\* ring before.
PanelSettles ==
  <>[](reader = "panel" /\ ~invalid_state /\ engine = Free)
    => <>[](\A s \in Side : shown[s] = live[s].book)
=============================================================================
