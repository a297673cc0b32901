---------------------------- MODULE MCPrefixCache ----------------------------
(***************************************************************************)
(* Model of PrefixCacheApi: two prompts that share a prefix of two blocks, *)
(* one unrelated prompt, and the empty prompt (cold traffic hashes to      *)
(* nothing).  A small CompactFloor makes compaction fire.                  *)
(***************************************************************************)
EXTENDS PrefixCacheLoops

MCBlocks == {"a1", "a2", "a3", "b3", "c1"}

MCChains == {<<"a1", "a2", "a3">>, <<"a1", "a2", "b3">>, <<"c1">>, <<>>}
=============================================================================
