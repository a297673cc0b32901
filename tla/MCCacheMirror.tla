---------------------------- MODULE MCCacheMirror ----------------------------
(***************************************************************************)
(* A model of CacheMirror.  Its prompts are hashed from tokens, two tokens *)
(* to a block and the last odd token dropped: two prompts that part after  *)
(* their first block, and an unrelated one.                                *)
(***************************************************************************)
EXTENDS CacheMirror, BlockHashes

MCPrompts == {<<1, 2, 3, 4, 5>>, <<1, 2, 5, 6>>, <<3, 4, 9>>}

MCChains == {<<42, 2141>>, <<42, 289>>, <<2530>>}

ASSUME PromptsHashed == MCChains = {BlockHashesOf(tokens) : tokens \in MCPrompts}

MCBlocks == {42, 289, 2141, 2530}
=============================================================================
