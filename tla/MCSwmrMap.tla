----------------------------- MODULE MCSwmrMap -----------------------------
(***************************************************************************)
(* SwmrMap for TLC: all keys collide in one bucket; addresses and keys     *)
(* are interchangeable, and so are the threads.                            *)
(***************************************************************************)
EXTENDS SwmrMap, TLC

MCHash == [k \in Key |-> CHOOSE b \in Bucket : TRUE]

Symmetry == Permutations(Node) \cup Permutations(Key) \cup Permutations(Reader)
=============================================================================
