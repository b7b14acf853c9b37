---------------------------- MODULE MCRestClient ----------------------------
(***************************************************************************)
(* RestClient for TLC: what the pool is filled with.  Requests are         *)
(* interchangeable, but symmetry would not be sound for Answered.          *)
(***************************************************************************)
EXTENDS RestClient

CONSTANTS s1, s2

MCPooled == <<s1, s2>>
=============================================================================
