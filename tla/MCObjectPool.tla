---------------------------- MODULE MCObjectPool ----------------------------
(***************************************************************************)
(* ObjectPool for TLC: threads are interchangeable.                        *)
(***************************************************************************)
EXTENDS ObjectPool, TLC

CONSTANTS o1, o2

MCInPool == 0 :> o1 @@ 1 :> o2

Symmetry == Permutations(Thread)
=============================================================================
