-------------------------------- MODULE Ranking --------------------------------
(***************************************************************************)
(* The order both retrievers rank by, LexicalRetriever of governed_rag and *)
(* FakeMethodologyRetriever of audience_access: descending score, then     *)
(* ascending id, cut to a limit.  They sort a tuple, which may repeat a    *)
(* record, and the sort is stable; so what is ranked here is places of a   *)
(* list, and a place of the list gives way to an earlier one.              *)
(***************************************************************************)
EXTENDS Integers, Sequences, FiniteSets, Functions

Outranks(r, other) ==
  r.score > other.score \/ (r.score = other.score /\ r.id < other.id)

Ahead(list, i, k) ==
  Outranks(list[i], list[k]) \/ (~Outranks(list[k], list[i]) /\ i < k)

AtMost(limit, n) == IF n < limit THEN n ELSE limit

(* What the sort and the cut leave of some places of a list: one sequence. *)
Rankings(list, places, limit) ==
  {s \in [1 .. AtMost(limit, Cardinality(places)) -> places] :
     /\ \A i, k \in DOMAIN s : i < k => Ahead(list, s[i], s[k])
     /\ \A p \in places \ Range(s), k \in DOMAIN s : Ahead(list, s[k], p)}
=============================================================================
