------------------------------ MODULE Grounding ------------------------------
(***************************************************************************)
(* What the chatbot's two retrieval pipelines, GovernedRagRuntime and      *)
(* GroundedStakeholderRagRuntime, promise: a provider is consulted once at *)
(* most, with some of the material its reader is entitled to and never     *)
(* with none, and an answer leaves only with citations of what the         *)
(* provider was given.  Everything else ends in a refusal.                 *)
(***************************************************************************)
CONSTANT Material

VARIABLES
  phase,     \* "asked", "consulting", "answered" or "refused"
  entitled,  \* the material the reader may see
  context,   \* the material the provider was given
  cited      \* the material the answer cites

vars == <<phase, entitled, context, cited>>

Init ==
  /\ phase = "asked"
  /\ entitled \in SUBSET Material
  /\ context = {}
  /\ cited = {}

Consult ==
  /\ phase = "asked"
  /\ phase' = "consulting"
  /\ context' \in (SUBSET entitled) \ {{}}
  /\ UNCHANGED <<entitled, cited>>

Complete ==
  /\ phase = "consulting"
  /\ phase' = "answered"
  /\ cited' \in (SUBSET context) \ {{}}
  /\ UNCHANGED <<entitled, context>>

Refuse ==
  /\ phase \in {"asked", "consulting"}
  /\ phase' = "refused"
  /\ UNCHANGED <<entitled, context, cited>>

Next == Consult \/ Complete \/ Refuse

Spec == Init /\ [][Next]_vars
=============================================================================
