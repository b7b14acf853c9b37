---------------------------- MODULE SimpleDeque -----------------------------
(***************************************************************************)
(* SimpleDeque as the trade ledger uses it: a ring of one thread whose     *)
(* head_ and tail_ are only ever counted up, wrap around as std::size_t    *)
(* does, and are masked to find a slot.  front, back, push_front and       *)
(* pop_back have no caller.                                                *)
(***************************************************************************)
EXTENDS Integers

CONSTANTS
  Rows,     \* Capacity: 128 in the ledger
  SizeMod   \* 2^64: values of std::size_t

New(blank) == [data |-> [i \in 0..(Rows - 1) |-> blank], head |-> 0, tail |-> 0]

size(d) == (d.tail - d.head) % SizeMod
full(d) == size(d) = Rows

\* ++head_ of a deque that is not empty.
pop_front(d) == [d EXCEPT !.head = (@ + 1) % SizeMod]

put(d, value) ==
  [d EXCEPT !.data[d.tail % Rows] = value, !.tail = (@ + 1) % SizeMod]

\* Mutant: the oldest row is not given up.
MutPushBack(d, value) == put(d, value)

push_back(d, value) == put(IF full(d) THEN pop_front(d) ELSE d, value)

\* What an iteration from rbegin to rend visits.
Reversed(d) == [i \in 1..size(d) |-> d.data[((d.tail - i) % SizeMod) % Rows]]
=============================================================================
