---------------------------- MODULE TradeLedger -----------------------------
(***************************************************************************)
(* The trade ledger panel on top of the Deque: each frame draws the panel, *)
(* which takes at most one trade from the engine's queue and appends it to *)
(* the rows it keeps.  The panel is one of the threads that pop; closing   *)
(* it destroys it.  The text of a row is the trade it was made from: the   *)
(* loops over market_ticker_ and trade_id_ look for a newline and copy the *)
(* whole array, whose padding c_str() then leaves out.                     *)
(***************************************************************************)
EXTENDS TradeDeque, FiniteSets

CONSTANTS
  Renderer,  \* the popper that draws the panel
  Rows,      \* rows the panel keeps
  SizeMod    \* values of std::size_t

\* "Capacity must be a power of 2": the mask commutes with the wrap-around.
ASSUME LedgerAssumption ==
  /\ Renderer \in Popper
  /\ Rows \in Nat \ {0} /\ SizeMod \in Nat /\ SizeMod > Rows /\ SizeMod % Rows = 0

Ledger == INSTANCE SimpleDeque

VARIABLES
  trade_ledger,  \* trade_ledger_
  is_open,       \* is_open_
  drawing,       \* draw is inside fetchData
  fetched        \* ghost: positions of the trades that fetchData was given

panelVars == <<trade_ledger, is_open, drawing, fetched>>
ledgerVars == <<vars, panelVars>>

LedgerTypeOK ==
  /\ TypeOK
  /\ is_open \in BOOLEAN /\ drawing \in BOOLEAN
  /\ fetched \subseteq Position
  /\ trade_ledger.head \in 0..(SizeMod - 1) /\ trade_ledger.tail \in 0..(SizeMod - 1)
  /\ Ledger!size(trade_ledger) <= Rows

LedgerInit ==
  /\ Init
  /\ trade_ledger = Ledger!New(Blank)
  /\ is_open = TRUE /\ drawing = FALSE
  /\ fetched = {}

\* A frame begins to draw the panel: fetchData asks for the oldest trade.
Draw ==
  /\ is_open /\ ~drawing
  /\ PopCall(Renderer)
  /\ drawing' = TRUE
  /\ UNCHANGED <<trade_ledger, is_open, fetched>>

\* fetchData has its answer, and the rows are drawn.  The user may close the
\* window in any frame.
Show ==
  /\ drawing
  /\ pc[Renderer] \in {"done", "none"}
  /\ IF pc[Renderer] = "done"
     THEN /\ trade_ledger' = Ledger!push_back(trade_ledger, item[Renderer])
          /\ fetched' = fetched \cup {at[Renderer]}
     ELSE UNCHANGED <<trade_ledger, fetched>>
  /\ drawing' = FALSE
  /\ is_open' \in {is_open, FALSE}
  /\ UNCHANGED vars

LedgerNext ==
  \/ Draw \/ Show
  \/ /\ \/ push_back
        \/ Popping(Renderer)
        \/ \E p \in Popper \ {Renderer} : pop_front(p)
     /\ UNCHANGED panelVars

LedgerSpec == LedgerInit /\ [][LedgerNext]_ledgerVars

\* FairSpec's fairness, and the render loop draws frame after frame.
FairLedgerSpec ==
  /\ LedgerSpec
  /\ \A p \in Popper : WF_vars(Popping(p))
  /\ WF_ledgerVars(Draw) /\ WF_ledgerVars(Show)

-----------------------------------------------------------------------------
\* The position of the i-th newest trade that fetchData was given.
Newest(i) ==
  CHOOSE k \in fetched : Cardinality({j \in fetched : j > k}) = i - 1

\* The rows on screen are the newest trades the panel was given, whole, newest
\* first and each once, however often the ring of rows has gone around, and
\* there are as many as it has room for.
RowsAreTheNewest ==
  LET n == Cardinality(fetched)
  IN  Ledger!Reversed(trade_ledger) =
        [i \in 1..(IF n < Rows THEN n ELSE Rows) |-> [w \in Word |-> Newest(i)]]

\* When the market pauses, an open panel works off what is queued, although it
\* takes a single trade each frame.
PanelCatchesUp == head = MaxPush ~> tail = head \/ ~is_open
=============================================================================
