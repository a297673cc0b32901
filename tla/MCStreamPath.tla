----------------------------- MODULE MCStreamPath -----------------------------
(***************************************************************************)
(* A model of StreamPath: one stream, with its replica's tasks.            *)
(***************************************************************************)
EXTENDS StreamPath

MCBlocks == {"a1"}

MCOnePrompt == {<<"a1">>}
=============================================================================
