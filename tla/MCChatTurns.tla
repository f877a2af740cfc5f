----------------------------- MODULE MCChatTurns -----------------------------
(***************************************************************************)
(* Instances of ChatTurns for TLC.  All messages have one idempotency key, *)
(* as two of them may.                                                     *)
(***************************************************************************)
EXTENDS ChatTurns, TLC

OneKey == [m \in Messages |-> "key"]

Symmetry ==
  Permutations(Attempts) \cup Permutations(Memories) \cup Permutations(Candidates)
=============================================================================
