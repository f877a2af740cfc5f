---- MODULE MCGovernedRag ----
EXTENDS GovernedRag

Good == [id |-> 1, owner |-> "me", source |-> "notes", classification |-> "private",
         entitlements |-> {"e1"}, active |-> TRUE, indexable |-> TRUE,
         credential |-> FALSE, size |-> 2, score |-> 2]

(* Records the policy lets through: of different sizes and scores, with a  *)
(* tie, an irrelevant one, and two with one id.                            *)
Fit == {Good,
        [Good EXCEPT !.id = 2, !.size = 4, !.score = 3],
        [Good EXCEPT !.id = 3, !.size = 1, !.entitlements = {}],
        [Good EXCEPT !.id = 3, !.size = 3, !.classification = "public", !.score = 1],
        [Good EXCEPT !.id = 2, !.score = 0]}

(* Records that differ from a good one in one way it must not. *)
Unfit == {[Good EXCEPT !.owner = "other"], [Good EXCEPT !.source = "files"],
          [Good EXCEPT !.classification = "internal"], [Good EXCEPT !.classification = "secret"],
          [Good EXCEPT !.entitlements = {"e2"}], [Good EXCEPT !.active = FALSE],
          [Good EXCEPT !.indexable = FALSE], [Good EXCEPT !.credential = TRUE]}

MyScope == [owner |-> "me", sources |-> {"notes"}, classifications |-> {"private", "public"},
            entitlements |-> {"e1"}, current |-> TRUE]

MCRecords == Fit \cup Unfit

(* Lists of any two records, and of up to four that fit: copies of one of  *)
(* them can fill the limit and the budget.                                 *)
MCLists ==
  UNION {[1 .. n -> MCRecords] : n \in 0 .. 2} \cup UNION {[1 .. n -> Fit] : n \in 3 .. 4}

MCScopes == {MyScope, [MyScope EXCEPT !.current = FALSE], [MyScope EXCEPT !.entitlements = {}]}
MCIds == 1 .. 3
====
