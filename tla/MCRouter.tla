------------------------------- MODULE MCRouter -------------------------------
(***************************************************************************)
(* Models of Router: one prompt; each cfg has its replicas and requests.   *)
(***************************************************************************)
EXTENDS Router, TLC

CONSTANTS q1, q2

MCBlocks == {"a1"}

MCOnePrompt == {<<"a1">>}

RequestSymmetry == Permutations(Requests)
=============================================================================
