--------------------------- MODULE MCTokenCache ---------------------------
(***************************************************************************)
(* Instances of TokenCache for TLC.                                        *)
(***************************************************************************)
EXTENDS TokenCache, TLC

MCGrants ==
  {[audience |-> "sst-api", scope |-> "agent-handoff:submit"],
   [audience |-> "sst-api", scope |-> "user-memory:propose"]}

MCOneGrant == {[audience |-> "sst-api", scope |-> "agent-handoff:submit"]}

ThreadSymmetry == Permutations(Threads)
=============================================================================
