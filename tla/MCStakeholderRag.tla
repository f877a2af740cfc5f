---- MODULE MCStakeholderRag ----
EXTENDS StakeholderRag

Mine == [application |-> "sst", tenant |-> "t1", user |-> "u1"]

User == [asserted |-> TRUE, audience |-> "sst_user", scope |-> Mine,
         entitlements |-> {"e1"}, current |-> TRUE]

Reader == [User EXCEPT !.audience = "sst_stakeholder", !.scope = GlobalScope("sst"),
                       !.entitlements = {StakeholderEntitlement}]

(* Each principal as it should be, and wrong in one way. *)
Flawed(p) == {[p EXCEPT !.asserted = FALSE], [p EXCEPT !.audience = "unknown"],
              [p EXCEPT !.entitlements = {}], [p EXCEPT !.current = FALSE]}

MCPrincipals ==
  {User, Reader, [Reader EXCEPT !.scope = Mine], [Reader EXCEPT !.scope.tenant = "t1"]}
    \cup Flawed(User) \cup Flawed(Reader)

Private == [source |-> "sst_backend", classification |-> "private", scope |-> Mine,
            fields |-> {"f", "g"}, allowed |-> {"f"}, sensitive |-> Missing,
            personal |-> FALSE, entitlements |-> {"e1"}]

Metric == [Private EXCEPT !.source = "approved_analytics", !.classification = "derived_safe",
                          !.scope = GlobalScope("sst"), !.entitlements = {StakeholderEntitlement}]

Variants(e) ==
  {e, [e EXCEPT !.source = "unknown"], [e EXCEPT !.sensitive = "g"], [e EXCEPT !.personal = TRUE],
   [e EXCEPT !.entitlements = {"e2"}], [e EXCEPT !.allowed = {"f", "g"}]}
  \cup {[e EXCEPT !.classification = c] : c \in {"public", "internal", "secret", "unknown"}}
  \cup {[e EXCEPT !.scope = s] : s \in {[e.scope EXCEPT !.application = "other"],
                                        [e.scope EXCEPT !.tenant = "t2"],
                                        [e.scope EXCEPT !.user = "u2"]}}

MCEnvelopes == Variants(Private) \cup Variants(Metric)

Adoption == [metric |-> "module_adoption", period |-> "2026-06", module |-> "m1"]

MCQueries == {Adoption, [Adoption EXCEPT !.module = "m2"]}

Shown == [key |-> Adoption, value |-> 1, cohort |-> 10, suppressed |-> FALSE,
          provenance |-> TRUE, sensitive |-> Missing, personal |-> FALSE]

MCSnapshots ==
  {Shown, [Shown EXCEPT !.cohort = 9], [Shown EXCEPT !.suppressed = TRUE],
   [Shown EXCEPT !.value = Null], [Shown EXCEPT !.provenance = FALSE],
   [Shown EXCEPT !.sensitive = "provenance"], [Shown EXCEPT !.personal = TRUE]}

Safe == [id |-> 1, metric |-> "module_adoption", classification |-> "public",
         entitlements |-> {}, active |-> TRUE, indexable |-> TRUE,
         sensitive |-> Missing, personal |-> FALSE, score |-> 1]

MCMethodology ==
  {Safe, [Safe EXCEPT !.id = 2, !.score = 2], [Safe EXCEPT !.classification = "derived_safe"],
   [Safe EXCEPT !.metric = "active_users"], [Safe EXCEPT !.classification = "internal"],
   [Safe EXCEPT !.entitlements = {"e2"}], [Safe EXCEPT !.active = FALSE],
   [Safe EXCEPT !.indexable = FALSE], [Safe EXCEPT !.sensitive = "content"],
   [Safe EXCEPT !.personal = TRUE]}

(* Lists of up to two of them, and of three of those a reader may see. *)
MCLists ==
  UNION {[1 .. n -> MCMethodology] : n \in 0 .. 2}
    \cup [1 .. 3 -> {Safe, [Safe EXCEPT !.id = 2, !.score = 2],
                     [Safe EXCEPT !.classification = "derived_safe"]}]
====
