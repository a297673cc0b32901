--------------------------- MODULE MCRouterTimeouts ---------------------------
(***************************************************************************)
(* A model of RouterTimeouts: one request, one prompt.                     *)
(***************************************************************************)
EXTENDS RouterTimeouts

CONSTANT q1

MCBlocks == {"a1"}

MCOnePrompt == {<<"a1">>}
=============================================================================
