------------------------------- MODULE MCBench -------------------------------
(***************************************************************************)
(* A model of Bench.  The file has conversations with a common beginning,  *)
(* one that the model starts, one without a human message, and more of     *)
(* them than asked for; the shortest prompt does not fill a block.         *)
(***************************************************************************)
EXTENDS Bench

Says(from, value) == [from |-> from, value |-> value]

MCTwoPrompts == <<Says("human", 1), Says("gpt", 2), Says("human", 3)>>
MCModelStarts == <<Says("gpt", 4), Says("human", 5)>>
MCNoPrompt == <<Says("gpt", 7)>>
MCOnePrompt == <<Says("human", 1), Says("gpt", 9)>>

MCTraces ==
    {<<>>, <<MCTwoPrompts, MCNoPrompt, MCModelStarts>>,
     <<MCOnePrompt, MCModelStarts, MCOnePrompt, MCTwoPrompts>>}

MCBlocks == {"a1", "a2"}

MCChains == {<<>>, <<"a1">>, <<"a1", "a2">>}

MCHashesOf(prompt) ==
    CASE Head(prompt).from = "gpt" -> <<>>
      [] Len(prompt) = 1 -> <<"a1">>
      [] OTHER -> <<"a1", "a2">>
=============================================================================
