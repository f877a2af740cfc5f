--------------------------- MODULE HandoffContract ---------------------------
(***************************************************************************)
(* What a handoff promises, without messages, receipts or lifecycles: the  *)
(* orchestrator registers at most one (payload, evidence) pair under an    *)
(* idempotency key, for ever; an attempt that ends as requested is the     *)
(* registered pair; an attempt that ends as rejected was refused by policy *)
(* or found its key taken by another pair; and an attempt that ends as     *)
(* failed says nothing: its pair may be registered already, later, or not  *)
(* at all.                                                                 *)
(***************************************************************************)
CONSTANTS
  Attempts,   \* calls of the coordinator
  Keys,       \* idempotency keys
  Pairs,      \* (payload, evidence) pairs an attempt can submit, None is not one
  Refused,    \* the pairs that policy refuses
  None        \* not registered

VARIABLES
  submitted,  \* the key and the pair each attempt was called with
  registry,   \* what is registered under each key
  outcome     \* how far each attempt has come, for its caller

vars == <<submitted, registry, outcome>>

Registered(a) == registry[submitted[a].key] = submitted[a].pair

KeyTaken(a) == registry[submitted[a].key] \notin {None, submitted[a].pair}

Init ==
  /\ submitted \in [Attempts -> [key: Keys, pair: Pairs]]
  /\ registry = [k \in Keys |-> None]
  /\ outcome = [a \in Attempts |-> "none"]

Open(a) ==
  /\ outcome[a] = "none"
  /\ outcome' = [outcome EXCEPT ![a] = "pending"]
  /\ UNCHANGED <<submitted, registry>>

Register(a) ==
  /\ outcome[a] \in {"pending", "failed"}
  /\ submitted[a].pair \notin Refused
  /\ registry[submitted[a].key] = None
  /\ registry' = [registry EXCEPT ![submitted[a].key] = submitted[a].pair]
  /\ UNCHANGED <<submitted, outcome>>

Confirm(a) ==
  /\ outcome[a] = "pending"
  /\ Registered(a)
  /\ outcome' = [outcome EXCEPT ![a] = "requested"]
  /\ UNCHANGED <<submitted, registry>>

Reject(a) ==
  /\ outcome[a] \in {"none", "pending"}
  /\ submitted[a].pair \in Refused \/ KeyTaken(a)
  /\ outcome' = [outcome EXCEPT ![a] = "rejected"]
  /\ UNCHANGED <<submitted, registry>>

Fail(a) ==
  /\ outcome[a] = "pending"
  /\ outcome' = [outcome EXCEPT ![a] = "failed"]
  /\ UNCHANGED <<submitted, registry>>

Next ==
  \E a \in Attempts : Open(a) \/ Register(a) \/ Confirm(a) \/ Reject(a) \/ Fail(a)

Spec == Init /\ [][Next]_vars
=============================================================================
