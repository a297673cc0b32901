----------------------------- MODULE MCScheduler -----------------------------
(***************************************************************************)
(* Models of SchedulerApi: two prompts that share a block, one longer than *)
(* the budget allows to keep beside the other, and an empty prompt.        *)
(***************************************************************************)
EXTENDS SchedulerApi

MCBlocks == {"a1", "a2", "b2", "c1"}

MCChains == {<<"a1", "a2">>, <<"a1", "b2">>, <<"c1">>}

MCNoChains == {<<>>}
=============================================================================
