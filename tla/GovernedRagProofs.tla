--------------------------- MODULE GovernedRagProofs ---------------------------
(***************************************************************************)
(* Theorems about GovernedRag, for any records, scopes and limits.         *)
(***************************************************************************)
EXTENDS GovernedRag, FiniteSetTheorems, TLAPS

(* The contract of a record, and what a source returns, written out. *)
LEMMA RecordFacts ==
  /\ Ids \subseteq Int
  /\ \A r \in Records :
       /\ r.id \in Ids /\ r.size \in Nat /\ r.score \in Nat
       /\ r.classification \in Classifications
       /\ {r.active, r.indexable, r.credential} \subseteq BOOLEAN
  /\ Lists \subseteq Seq(Records)
BY RecordsAssumption DEF ValidRecord

(* A set of positions that is not empty has a last one. *)
LEMMA LargestExists ==
  ASSUME NEW n \in Nat, NEW S \in SUBSET (1 .. n), S # {}
  PROVE  \E m \in S : \A j \in S : j <= m
<1> DEFINE From(k) == {j \in S : j >= k}
           C == {From(k) : k \in S}
<1>1. IsFiniteSet(S)
  <2>1. IsFiniteSet(1 .. n)
    BY FS_Interval
  <2> QED BY <2>1, FS_Subset
<1>2. C \subseteq FiniteSubsetsOf(S)
  <2>1. \A k \in S : IsFiniteSet(From(k)) /\ From(k) \in SUBSET S
    BY <1>1, FS_Subset
  <2> QED BY <2>1 DEF FiniteSubsetsOf
<1>3. C # {}
  OBVIOUS
<1>4. PICK X \in C : \A Y \in C : ~(<<Y, X>> \in StrictSubsetOrdering(S))
  BY <1>2, <1>3, WFMin, FS_StrictSubsetOrderingWellFounded
<1>5. PICK m \in S : X = From(m)
  OBVIOUS
<1>6. ASSUME NEW j \in S, j > m PROVE FALSE
  <2>1. From(j) \subseteq From(m)
    <3>1. \A k \in S : k >= j => k >= m
      BY <1>6
    <3> QED BY <3>1
  <2>2. m \in From(m) /\ m \notin From(j)
    BY <1>6
  <2>3. <<From(j), From(m)>> \in StrictSubsetOrdering(S)
    BY <2>1, <2>2 DEF StrictSubsetOrdering
  <2> QED BY <1>4, <1>5, <2>3
<1> QED BY <1>6

LEMMA SmallestExists ==
  ASSUME NEW n \in Nat, NEW S \in SUBSET (1 .. n), S # {}
  PROVE  \E m \in S : \A j \in S : m <= j
<1> DEFINE T == {n + 1 - k : k \in S}
<1>1. T \in SUBSET (1 .. n)
  OBVIOUS
<1>2. T # {}
  OBVIOUS
<1>3. PICK x \in T : \A y \in T : y <= x
  BY <1>1, <1>2, LargestExists
<1>4. PICK m \in S : x = n + 1 - m
  OBVIOUS
<1>5. \A j \in S : n + 1 - j <= n + 1 - m
  BY <1>3, <1>4
<1>6. ASSUME NEW j \in S PROVE m <= j
  <2>1. n + 1 - j <= n + 1 - m
    BY <1>5
  <2> HIDE DEF T
  <2>2. j \in 1 .. n /\ m \in 1 .. n
    OBVIOUS
  <2> QED BY <2>1, <2>2
<1> QED BY <1>6

(* A sequence without repetitions is no longer than the set it is of.      *)
LEMMA InjectiveLength ==
  ASSUME NEW S, IsFiniteSet(S), NEW s \in Seq(S),
         \A i, k \in DOMAIN s : s[i] = s[k] => i = k
  PROVE  /\ Len(s) <= Cardinality(S)
         /\ Len(s) = Cardinality(S) => Range(s) = S
<1>1. DOMAIN s = 1 .. Len(s) /\ Len(s) \in Nat /\ s \in [1 .. Len(s) -> S]
  OBVIOUS
<1>2. s \in Injection(1 .. Len(s), S)
  BY <1>1 DEF Injection, IsInjective
<1>3. Cardinality(1 .. Len(s)) = Len(s)
  BY <1>1, FS_Interval
<1>4. /\ Cardinality(1 .. Len(s)) <= Cardinality(S)
      /\ Cardinality(1 .. Len(s)) = Cardinality(S) <=> s \in Surjection(1 .. Len(s), S)
  BY <1>2, FS_Injection
<1>5. s \in Surjection(1 .. Len(s), S) => Range(s) = S
  BY <1>1 DEF Surjection, Range
<1> QED BY <1>3, <1>4, <1>5

(* What a ranking of finitely many places is.  All of it is ahead of a     *)
(* place it leaves out, and that is at least "limit" places.               *)
LEMMA RankingFacts ==
  ASSUME NEW list, NEW R \in SUBSET Int, IsFiniteSet(R), NEW limit \in Nat,
         \A p \in R : list[p].id \in Int /\ list[p].score \in Int,
         NEW s \in Rankings(list, R, limit)
  PROVE  /\ s \in Seq(R)
         /\ Len(s) = AtMost(limit, Cardinality(R))
         /\ \A i, k \in DOMAIN s : s[i] = s[k] => i = k
         /\ \A r \in R \ Range(s) :
              Cardinality({o \in R \ {r} : Ahead(list, o, r)}) >= limit
<1> DEFINE n == AtMost(limit, Cardinality(R))
<1>1. Cardinality(R) \in Nat
  BY FS_CardinalityType
<1>2. n \in Nat /\ s \in [1 .. n -> R]
  BY <1>1 DEF Rankings, AtMost
<1>3. s \in Seq(R) /\ Len(s) = n /\ DOMAIN s = 1 .. n
  BY <1>2
<1>4. \A i, k \in DOMAIN s : i < k => s[i] # s[k]
  <2>1. \A i, k \in DOMAIN s : i < k => Ahead(list, s[i], s[k])
    BY DEF Rankings
  <2>2. \A p \in R : ~Ahead(list, p, p)
    BY DEF Ahead, Outranks
  <2> QED BY <1>2, <1>3, <2>1, <2>2
<1>5. \A i, k \in DOMAIN s : s[i] = s[k] => i = k
  BY <1>2, <1>3, <1>4
<1>6. ASSUME NEW r \in R \ Range(s)
      PROVE  Cardinality({o \in R \ {r} : Ahead(list, o, r)}) >= limit
  <2> DEFINE above == {o \in R \ {r} : Ahead(list, o, r)}
  <2>1. Len(s) # Cardinality(R)
    BY <1>3, <1>5, <1>6, InjectiveLength
  <2>2. n = limit
    BY <1>1, <1>3, <2>1 DEF AtMost
  <2>3. IsFiniteSet(above)
    BY FS_Subset
  <2>4. \A k \in DOMAIN s : s[k] \in above
    BY <1>2, <1>3, <1>6 DEF Rankings, Range
  <2>5. s \in Seq(above)
    BY <1>3, <2>4
  <2> HIDE DEF above, n
  <2>6. Len(s) <= Cardinality(above)
    BY <1>5, <2>3, <2>5, InjectiveLength
  <2>7. Cardinality(above) \in Nat
    BY <2>3, FS_CardinalityType
  <2>8. Cardinality(above) >= limit
    BY <1>3, <2>2, <2>6, <2>7
  <2> QED BY <2>8 DEF above
<1> QED BY <1>3, <1>5, <1>6

----------------------------------------------------------------------------
(* The inductive invariant: what is empty or fixed at each stage, what the *)
(* loop has done with the places before its position, and what a result    *)
(* says.                                                                   *)

Stages ==
  /\ pc \in {"asked", "loading"} => candidates = <<>>
  /\ pc \in {"asked", "loading", "authorizing"} => authorized = {}
  /\ pc \in {"asked", "loading", "authorizing", "retrieving"} =>
       ranked = <<>> /\ bounded = <<>> /\ position = 1 /\ consumed = 0
  /\ pc \notin {"asked", "done", "raised"} => question = "clean" /\ scope.current
  /\ pc # "done" => claims = <<>> /\ result = NoResult
  /\ pc = "consulting" => position > Len(ranked) /\ bounded # <<>>
  /\ \A i \in authorized : question = "clean" /\ scope.current /\ Authorize(candidates[i])

Selection ==
  /\ pc \in {"bounding", "consulting"} =>
       ranked \in Rankings(candidates, Relevant(authorized), RetrievalLimit)
  /\ \A i, k \in DOMAIN ranked : ranked[i] = ranked[k] => i = k
  /\ \A k \in DOMAIN bounded : \E i \in 1 .. position - 1 : bounded[k] = ranked[i]
  /\ \A i, k \in DOMAIN bounded : bounded[i] = bounded[k] => i = k
  /\ \A i \in 1 .. position - 1 :
       ranked[i] \in Range(bounded) \/ consumed + candidates[ranked[i]].size > MaxContext

Honest ==
  pc = "done" =>
    /\ OutcomesAreHonest
    /\ result.status = "completed" => result.retrieved > 0
    /\ result.retrieved > 0 => bounded # <<>>

IInv == TypeOK /\ Stages /\ Selection /\ Honest

(* The places are finitely many positions of the list. *)
LEMMA PlaceFacts ==
  ASSUME TypeOK
  PROVE  /\ Len(candidates) \in Nat /\ DOMAIN candidates = 1 .. Len(candidates)
         /\ authorized \in SUBSET (1 .. Len(candidates))
         /\ \A i \in authorized : i \in Int /\ candidates[i] \in Records
         /\ IsFiniteSet(authorized) /\ IsFiniteSet(Relevant(authorized))
         /\ Relevant(authorized) \in SUBSET authorized /\ Relevant(authorized) \in SUBSET Int
         /\ \A i \in Relevant(authorized) :
              candidates[i].id \in Int /\ candidates[i].score \in Int
         /\ Cardinality(authorized) \in Nat /\ Cardinality(authorized) <= Len(candidates)
<1>1. /\ Len(candidates) \in Nat /\ DOMAIN candidates = 1 .. Len(candidates)
      /\ \A i \in DOMAIN candidates : candidates[i] \in Records
  BY DEF TypeOK
<1>2. authorized \in SUBSET (1 .. Len(candidates))
  BY <1>1 DEF TypeOK
<1>3. IsFiniteSet(1 .. Len(candidates)) /\ Cardinality(1 .. Len(candidates)) = Len(candidates)
  BY <1>1, FS_Interval
<1>4. /\ IsFiniteSet(authorized) /\ Cardinality(authorized) \in Nat
      /\ Cardinality(authorized) <= Len(candidates)
  BY <1>2, <1>3, FS_Subset, FS_CardinalityType
<1>5. Relevant(authorized) \in SUBSET authorized
  BY DEF Relevant
<1>6. IsFiniteSet(Relevant(authorized))
  BY <1>4, <1>5, FS_Subset
<1>7. \A i \in authorized : i \in Int /\ candidates[i] \in Records
  BY <1>1, <1>2
<1>8. \A i \in authorized : candidates[i].id \in Int /\ candidates[i].score \in Int
  <2>1. ASSUME NEW r \in Records PROVE r.id \in Int /\ r.score \in Int
    <3>1. r.id \in Ids /\ Ids \subseteq Int
      BY RecordFacts
    <3>2. r.id \in Int
      BY <3>1, Zenon
    <3>3. r.score \in Nat
      BY RecordFacts
    <3> QED BY <3>2, <3>3
  <2> QED BY <1>7, <2>1
<1> QED BY <1>1, <1>2, <1>4, <1>5, <1>6, <1>7, <1>8

LEMMA InitIInv == Init => IInv
<1> SUFFICES ASSUME Init PROVE IInv
  OBVIOUS
<1>1. TypeOK
  BY ParametersAssumption DEF Init, TypeOK
<1>2. Stages /\ Honest
  BY DEF Init, Stages, Honest
<1>3. Selection
  BY DEF Init, Selection
<1> QED BY <1>1, <1>2, <1>3 DEF IInv

LEMMA TypeStep == TypeOK /\ Stages /\ Selection /\ [Next]_vars => TypeOK'
<1> SUFFICES ASSUME TypeOK, Stages, Selection, [Next]_vars PROVE TypeOK'
  OBVIOUS
<1> USE ParametersAssumption
<1>1. CASE Ask
  BY <1>1 DEF TypeOK, Ask, Stop, Result, inputs, budget
<1>2. CASE Load
  <2>1. candidates' \in Seq(Records)
    <3>1. candidates' \in Lists
      BY <1>2 DEF Load
    <3> QED BY <3>1, RecordFacts
  <2>2. authorized' = {} /\ ranked' = <<>> /\ bounded' = <<>>
    BY <1>2 DEF Stages, Load, budget
  <2> QED BY <1>2, <2>1, <2>2 DEF TypeOK, Stages, Load, inputs, budget
<1>3. CASE SourceFails
  BY <1>3 DEF TypeOK, SourceFails, Stop, Result, inputs, budget
<1>4. CASE AuthorizeAll
  BY <1>4 DEF TypeOK, Stages, AuthorizeAll, Stop, Result, inputs, budget
<1>5. CASE PolicyFails
  BY <1>5 DEF TypeOK, PolicyFails, Stop, Result, inputs, budget
<1>6. CASE Retrieve
  <2>1. /\ IsFiniteSet(Relevant(authorized)) /\ Relevant(authorized) \in SUBSET Int
        /\ \A i \in Relevant(authorized) :
             candidates[i].id \in Int /\ candidates[i].score \in Int
    BY PlaceFacts
  <2>2. ranked' \in Seq(Relevant(authorized))
    BY <1>6, <2>1, RankingFacts DEF Retrieve
  <2>3. ranked' \in Seq(authorized)
    BY <2>2 DEF Relevant
  <2> QED BY <1>6, <2>3 DEF TypeOK, Stages, Retrieve, inputs, budget
<1>7. CASE RetrieverFails
  BY <1>7 DEF TypeOK, RetrieverFails, Stop, Result, inputs, budget
<1>8. CASE Select
  <2>1. ranked[position] \in authorized
    BY <1>8 DEF TypeOK, Select
  <2>2. candidates[ranked[position]].size \in Nat
    BY <2>1, PlaceFacts, RecordFacts
  <2>3. bounded \in Seq(authorized) /\ position \in Nat /\ consumed \in Nat /\ Len(ranked) \in Nat
    BY DEF TypeOK
  <2>4. /\ bounded' = Append(bounded, ranked[position]) /\ position' = position + 1
        /\ position <= Len(ranked) /\ consumed' <= MaxContext
        /\ consumed' = consumed + candidates[ranked[position]].size
        /\ UNCHANGED <<question, scope, pc, candidates, authorized, ranked, claims>>
    BY <1>8 DEF Select, inputs
  <2>5. bounded' \in Seq(authorized)
    BY <2>1, <2>3, <2>4
  <2>6. consumed' \in 0 .. MaxContext
    <3> DEFINE size == candidates[ranked[position]].size
    <3>1. size \in Nat /\ consumed' = consumed + size
      BY <2>2, <2>4
    <3> HIDE DEF size
    <3> QED BY <2>3, <2>4, <3>1
  <2>7. position' \in 1 .. Len(ranked) + 1
    BY <2>3, <2>4
  <2> QED BY <2>4, <2>5, <2>6, <2>7 DEF TypeOK
<1>9. CASE Skip
  BY <1>9 DEF TypeOK, Skip, inputs
<1>10. CASE Consult
  BY <1>10 DEF TypeOK, Consult, Stop, Result, inputs, budget
<1>11. CASE Answer
  <2>1. claims' \in Seq(Claims)
    BY <1>11 DEF Answer, Answers
  <2>2. pc' = "done"
    BY <1>11 DEF Answer, Validate, Stop, Result
  <2> QED BY <1>11, <2>1, <2>2 DEF TypeOK, Answer, inputs, budget
<1>12. CASE ProviderFails
  BY <1>12 DEF TypeOK, ProviderFails, Stop, Result, inputs, budget
<1>13. CASE UNCHANGED vars
  BY <1>13 DEF TypeOK, vars
<1> QED BY <1>1, <1>2, <1>3, <1>4, <1>5, <1>6, <1>7, <1>8, <1>9, <1>10, <1>11, <1>12, <1>13 DEF Next

(* The scope and the question never change. *)
LEMMA StagesStep == TypeOK /\ Stages /\ [Next]_vars => Stages'
<1> SUFFICES ASSUME TypeOK, Stages, [Next]_vars PROVE Stages'
  OBVIOUS
<1> USE DEF Stages, Authorize, inputs, budget
<1>1. CASE Ask
  BY <1>1 DEF TypeOK, Ask, Stop, Result
<1>2. CASE Load
  BY <1>2 DEF Load
<1>3. CASE SourceFails \/ PolicyFails \/ RetrieverFails \/ ProviderFails
  BY <1>3 DEF SourceFails, PolicyFails, RetrieverFails, ProviderFails, Stop, Result
<1>4. CASE AuthorizeAll
  BY <1>4 DEF AuthorizeAll, Stop, Result
<1>5. CASE Retrieve
  BY <1>5 DEF Retrieve
<1>6. CASE Select \/ Skip
  BY <1>6 DEF Select, Skip
<1>7. CASE Consult
  BY <1>7 DEF Consult, Stop, Result
<1>8. CASE Answer
  BY <1>8 DEF Answer, Validate, Stop, Result
<1>9. CASE UNCHANGED vars
  BY <1>9 DEF vars
<1> QED BY <1>1, <1>2, <1>3, <1>4, <1>5, <1>6, <1>7, <1>8, <1>9 DEF Next

LEMMA SelectionStep == TypeOK /\ Stages /\ Selection /\ [Next]_vars => Selection'
<1> SUFFICES ASSUME TypeOK, Stages, Selection, [Next]_vars PROVE Selection'
  OBVIOUS
<1>1. CASE Ask
  BY <1>1 DEF Selection, Relevant, Ask, Stop, Result, inputs, budget
<1>2. CASE Load
  BY <1>2 DEF Selection, Relevant, Stages, Load, inputs, budget
<1>3. CASE SourceFails \/ PolicyFails \/ RetrieverFails \/ ProviderFails
  BY <1>3 DEF Selection, Relevant, SourceFails, PolicyFails, RetrieverFails, ProviderFails,
     Stop, Result, inputs, budget
<1>4. CASE AuthorizeAll
  BY <1>4 DEF Selection, Stages, AuthorizeAll, Stop, Result, inputs, budget
<1>5. CASE Retrieve
  <2>1. /\ IsFiniteSet(Relevant(authorized)) /\ Relevant(authorized) \in SUBSET Int
        /\ \A i \in Relevant(authorized) :
             candidates[i].id \in Int /\ candidates[i].score \in Int
    BY PlaceFacts
  <2>2. \A i, k \in DOMAIN ranked' : ranked'[i] = ranked'[k] => i = k
    BY <1>5, <2>1, ParametersAssumption, RankingFacts DEF Retrieve
  <2> QED BY <1>5, <2>2 DEF Selection, Stages, Retrieve, Relevant, inputs, budget
<1>6. CASE Select
  <2>0. /\ position \in DOMAIN ranked /\ position \in Nat /\ consumed \in Nat
        /\ \A i \in DOMAIN ranked : ranked[i] \in authorized
    BY <1>6 DEF TypeOK, Select
  <2>1. /\ position \in DOMAIN ranked /\ position \in Nat
        /\ candidates[ranked[position]].size \in Nat /\ consumed \in Nat
    BY <2>0, PlaceFacts, RecordFacts
  <2>a. /\ bounded \in Seq(authorized) /\ bounded' = Append(bounded, ranked[position])
        /\ Len(ranked) \in Nat /\ DOMAIN ranked = 1 .. Len(ranked) /\ position <= Len(ranked)
        /\ position' = position + 1
        /\ UNCHANGED <<candidates, authorized, ranked>>
    BY <1>6 DEF TypeOK, Select
  <2>2. /\ Len(bounded') = Len(bounded) + 1 /\ bounded'[Len(bounded) + 1] = ranked[position]
        /\ \A k \in DOMAIN bounded : bounded'[k] = bounded[k]
        /\ DOMAIN bounded = 1 .. Len(bounded) /\ Len(bounded) \in Nat
        /\ DOMAIN bounded' = 1 .. Len(bounded) + 1
    BY <2>0, <2>a
  <2>3. \A k \in DOMAIN bounded : bounded[k] # ranked[position]
    <3> SUFFICES ASSUME NEW k \in DOMAIN bounded, bounded[k] = ranked[position] PROVE FALSE
      OBVIOUS
    <3>1. PICK i \in 1 .. position - 1 : bounded[k] = ranked[i]
      BY DEF Selection
    <3>2. i \in DOMAIN ranked /\ i # position
      BY <2>0, <2>a
    <3> QED BY <2>1, <3>1, <3>2 DEF Selection
  <2>4. \A i, k \in DOMAIN bounded' : bounded'[i] = bounded'[k] => i = k
    BY <2>2, <2>3 DEF Selection
  <2>5. \A k \in DOMAIN bounded' : \E i \in 1 .. position' - 1 : bounded'[k] = ranked'[i]
    <3>1. \A k \in DOMAIN bounded : \E i \in 1 .. position - 1 : bounded[k] = ranked[i]
      BY DEF Selection
    <3>2. \A k \in DOMAIN bounded' : k \in DOMAIN bounded \/ bounded'[k] = ranked[position]
      BY <2>2
    <3>3. 1 .. position' - 1 = 1 .. position
      BY <2>0, <2>a
    <3> QED BY <2>0, <2>2, <2>a, <3>1, <3>2, <3>3
  <2>6. Range(bounded') = Range(bounded) \cup {ranked[position]}
    BY <2>2 DEF Range
  <2>7. \A i \in 1 .. position' - 1 :
          \/ ranked'[i] \in Range(bounded')
          \/ consumed' + candidates'[ranked'[i]].size > MaxContext
    <3> SUFFICES ASSUME NEW i \in 1 .. position' - 1, ranked[i] \notin Range(bounded')
                 PROVE  consumed' + candidates[ranked[i]].size > MaxContext
      BY <1>6 DEF Select
    <3>1. i \in 1 .. position - 1
      BY <1>6, <2>1, <2>6 DEF Select
    <3>2. consumed + candidates[ranked[i]].size > MaxContext
      BY <2>6, <3>1 DEF Selection
    <3>3. candidates[ranked[i]].size \in Nat
      <4>1. i \in DOMAIN ranked
        BY <2>1, <3>1 DEF TypeOK
      <4> QED BY <2>0, <4>1, PlaceFacts, RecordFacts
    <3>4. consumed' = consumed + candidates[ranked[position]].size /\ MaxContext \in Nat
      BY <1>6, ParametersAssumption DEF Select
    <3>5. \A c, d, e, max \in Nat : c + e > max => c + d + e > max
      OBVIOUS
    <3> QED BY <2>1, <3>2, <3>3, <3>4, <3>5
  <2> QED BY <1>6, <2>4, <2>5, <2>7 DEF Selection, Relevant, Select, inputs
<1>7. CASE Skip
  <2>1. position \in Nat
    BY DEF TypeOK
  <2> QED BY <1>7, <2>1 DEF Selection, Relevant, Skip, inputs
<1>8. CASE Consult
  BY <1>8 DEF Selection, Relevant, Consult, Stop, Result, inputs, budget
<1>9. CASE Answer
  BY <1>9 DEF Selection, Answer, Validate, Stop, Result, inputs, budget
<1>10. CASE UNCHANGED vars
  BY <1>10 DEF Selection, Relevant, vars
<1> QED BY <1>1, <1>2, <1>3, <1>4, <1>5, <1>6, <1>7, <1>8, <1>9, <1>10 DEF Next

(* The record of an id of the context is one of the context.               *)
LEMMA ByIdFacts ==
  ASSUME TypeOK, NEW id \in AllowedIds
  PROVE  ById(id) \in Context /\ ById(id).id = id
<1> DEFINE cited(k) == candidates[bounded[k]].id = id
           S == {k \in DOMAIN bounded : cited(k)}
           Last(k) == cited(k) /\ \A j \in DOMAIN bounded : cited(j) => j <= k
           last == CHOOSE k \in DOMAIN bounded : Last(k)
<1>1. Len(bounded) \in Nat /\ DOMAIN bounded = 1 .. Len(bounded)
  BY DEF TypeOK
<1>2. S \in SUBSET (1 .. Len(bounded))
  BY <1>1
<1>3. S # {}
  BY DEF AllowedIds, Context, Range
<1>4. \E k \in DOMAIN bounded : Last(k)
  BY <1>1, <1>2, <1>3, LargestExists
<1>5. last \in DOMAIN bounded /\ cited(last)
  BY <1>4
<1>6. ById(id) = candidates[bounded[last]]
  BY DEF ById
<1> HIDE DEF last
<1> QED BY <1>5, <1>6 DEF Context, Range

(* An answer without an error has no claim with one. *)
LEMMA NoErrorNowhere ==
  ASSUME NEW answer \in Answers, Errors(answer) = {}
  PROVE  \A k \in DOMAIN answer : ClaimError(answer[k]) = "none"
<1> SUFFICES ASSUME NEW k \in DOMAIN answer, ClaimError(answer[k]) # "none" PROVE FALSE
  OBVIOUS
<1> DEFINE S == {j \in DOMAIN answer : ClaimError(answer[j]) # "none"}
<1>1. PICK n \in 1 .. MaxClaims : answer \in [1 .. n -> Claims]
  BY DEF Answers
<1>2. n \in Nat /\ DOMAIN answer = 1 .. n
  BY <1>1, ParametersAssumption
<1>3. PICK m \in S : \A j \in S : m <= j
  BY <1>2, SmallestExists
<1>4. \A i \in 1 .. m - 1 : i \in DOMAIN answer /\ i \notin S
  BY <1>2, <1>3
<1>5. ClaimError(answer[m]) \in Errors(answer)
  BY <1>4 DEF Errors
<1> QED BY <1>5

LEMMA CountFacts ==
  ASSUME TypeOK, Selection
  PROVE  /\ Len(bounded) \in Nat /\ Cardinality(authorized) \in Nat
         /\ Len(candidates) \in Nat
         /\ Len(bounded) <= Cardinality(authorized)
         /\ Cardinality(authorized) <= Len(candidates)
<1>1. Len(bounded) <= Cardinality(authorized)
  BY PlaceFacts, InjectiveLength DEF TypeOK, Selection
<1> QED BY <1>1, PlaceFacts DEF TypeOK

(* A refusal is honest, whatever its code. *)
LEMMA RefusalIsHonest ==
  ASSUME TypeOK, Stages, Selection, NEW status, status # "completed", NEW code,
         NEW a \in Nat, NEW b \in Nat, NEW c \in Nat, b <= a, c <= b,
         Stop(status, code, a, b, c),
         claims' # <<>> => c > 0,
         c > 0 => bounded # <<>>, UNCHANGED <<bounded, candidates>>
  PROVE  Honest'
BY DEF Stop, Result, Honest, OutcomesAreHonest

LEMMA AnswerIsHonest ==
  ASSUME TypeOK, Stages, Selection, Answer
  PROVE  Honest'
<1>1. /\ claims' \in Answers /\ Validate(claims') /\ pc = "consulting"
      /\ UNCHANGED <<bounded, authorized, candidates>>
  BY DEF Answer, budget
<1>2. Len(bounded) > 0
  BY <1>1 DEF Stages, TypeOK
<1>3. CASE \E error \in Errors(claims') :
             Stop("denied", error, Len(candidates), Cardinality(authorized), Len(bounded))
  BY <1>1, <1>2, <1>3, CountFacts, RefusalIsHonest DEF Stages
<1>4. CASE /\ Errors(claims') = {}
           /\ Result("completed", "grounded_answer", {ById(id) : id \in CitedIds(claims')},
                     Len(candidates), Cardinality(authorized), Len(bounded))
  <2>1. \A k \in DOMAIN claims' : ClaimError(claims'[k]) = "none"
    BY <1>1, <1>4, NoErrorNowhere
  <2>2. \A k \in DOMAIN claims' : ~claims'[k].credential /\ claims'[k].cites \subseteq AllowedIds
    BY <2>1 DEF ClaimError
  <2>3. 1 \in DOMAIN claims' /\ claims'[1].cites # {}
    <3>1. PICK n \in 1 .. MaxClaims : claims' \in [1 .. n -> Claims]
      BY <1>1 DEF Answers
    <3>2. 1 \in DOMAIN claims'
      BY <3>1, ParametersAssumption
    <3>3. claims'[1] \in Claims
      BY <3>1, <3>2
    <3>4. claims'[1].cites \in (SUBSET Ids) \ {{}}
      BY <3>3 DEF Claims
    <3> QED BY <3>2, <3>4
  <2>4. CitedIds(claims') # {} /\ CitedIds(claims') \subseteq AllowedIds
    BY <2>2, <2>3 DEF CitedIds
  <2>5. \A id \in CitedIds(claims') : ById(id) \in Context /\ ById(id).id = id
    BY <2>4, ByIdFacts
  <2>6. /\ result'.status = "completed"
        /\ result'.citations = {ById(id) : id \in CitedIds(claims')}
        /\ result'.candidates = Len(candidates)
        /\ result'.authorized = Cardinality(authorized)
        /\ result'.retrieved = Len(bounded)
    BY <1>4 DEF Result
  <2>7. result'.citations # {} /\ result'.citations \subseteq Context
    BY <2>4, <2>5, <2>6
  <2>8. CitedIds(claims') \subseteq {r.id : r \in result'.citations}
    BY <2>5, <2>6
  <2>9. \A k \in DOMAIN claims' : claims'[k].cites \subseteq {r.id : r \in result'.citations}
    BY <2>8 DEF CitedIds
  <2>10. OutcomesAreHonest'
    BY <1>1, <1>2, <2>2, <2>6, <2>7, <2>9, CountFacts DEF OutcomesAreHonest, Context
  <2> QED BY <1>1, <1>2, <2>6, <2>10 DEF Honest, Stages
<1> QED BY <1>1, <1>3, <1>4 DEF Validate

LEMMA HonestStep == IInv /\ [Next]_vars => Honest'
<1> SUFFICES ASSUME TypeOK, Stages, Selection, Honest, [Next]_vars PROVE Honest'
  BY DEF IInv
<1> USE DEF inputs, budget
<1>1. CASE Ask
  BY <1>1, RefusalIsHonest DEF Ask, Honest, Stages
<1>2. CASE SourceFails
  BY <1>2, RefusalIsHonest DEF SourceFails, Stages
<1>3. CASE AuthorizeAll \/ PolicyFails
  BY <1>3, CountFacts, RefusalIsHonest DEF AuthorizeAll, PolicyFails, Honest, Stages
<1>4. CASE RetrieverFails
  BY <1>4, CountFacts, RefusalIsHonest DEF RetrieverFails, Stages
<1>5. CASE Load \/ Retrieve \/ Select \/ Skip
  BY <1>5 DEF Load, Retrieve, Select, Skip, Honest
<1>6. CASE Consult
  BY <1>6, CountFacts, RefusalIsHonest DEF Consult, Honest, Stages
<1>7. CASE Answer
  BY <1>7, AnswerIsHonest
<1>8. CASE ProviderFails
  <2>1. Len(bounded) > 0
    BY <1>8 DEF ProviderFails, Stages, TypeOK
  <2> QED BY <1>8, <2>1, CountFacts, RefusalIsHonest DEF ProviderFails, Stages
<1>9. CASE UNCHANGED vars
  BY <1>9 DEF vars, Honest, OutcomesAreHonest, Context
<1> QED BY <1>1, <1>2, <1>3, <1>4, <1>5, <1>6, <1>7, <1>8, <1>9 DEF Next

LEMMA Invariance == Spec => []IInv
<1>1. IInv /\ [Next]_vars => IInv'
  BY TypeStep, StagesStep, SelectionStep, HonestStep DEF IInv
<1> QED BY InitIInv, <1>1, PTL DEF Spec

(* Every variable keeps its shape. *)
THEOREM TypeCorrect == Spec => []TypeOK
<1>1. IInv => TypeOK
  BY DEF IInv
<1> QED BY Invariance, <1>1, PTL

(* A relevant record the policy let through is left out only because the   *)
(* list has enough others that rank no lower, be they copies of one        *)
(* record, or because it does not fit beside what was selected.            *)
THEOREM BudgetIsUsed == Spec => []LeftOutForAReason
<1>1. ASSUME TypeOK, Stages, Selection, pc = "consulting",
             NEW i \in Relevant(authorized), i \notin Range(bounded)
      PROVE  \/ Cardinality({k \in Relevant(authorized) \ {i} : Ahead(candidates, k, i)})
                   >= RetrievalLimit
             \/ consumed + candidates[i].size > MaxContext
  <2>1. /\ IsFiniteSet(Relevant(authorized)) /\ Relevant(authorized) \in SUBSET Int
        /\ \A k \in Relevant(authorized) :
             candidates[k].id \in Int /\ candidates[k].score \in Int
    BY <1>1, PlaceFacts
  <2>2. CASE i \notin Range(ranked)
    <3>1. ranked \in Rankings(candidates, Relevant(authorized), RetrievalLimit)
      BY <1>1 DEF Selection
    <3>2. RetrievalLimit \in Nat
      BY ParametersAssumption
    <3> QED BY <1>1, <2>1, <2>2, <3>1, <3>2, RankingFacts
  <2>3. CASE i \in Range(ranked)
    <3>1. PICK n \in DOMAIN ranked : i = ranked[n]
      BY <2>3 DEF Range
    <3>2. n \in 1 .. position - 1
      <4>1. position > Len(ranked) /\ position \in Nat /\ DOMAIN ranked = 1 .. Len(ranked)
            /\ Len(ranked) \in Nat
        BY <1>1 DEF Stages, TypeOK
      <4> QED BY <4>1
    <3> QED BY <1>1, <3>1, <3>2 DEF Selection
  <2> QED BY <2>2, <2>3
<1>2. IInv => LeftOutForAReason
  <2>1. TypeOK => consumed <= MaxContext
    BY DEF TypeOK
  <2> QED BY <1>1, <2>1 DEF IInv, LeftOutForAReason
<1> QED BY Invariance, <1>2, PTL

(* Results say what happened. *)
THEOREM ResultsAreHonest == Spec => []OutcomesAreHonest
<1>1. IInv => OutcomesAreHonest
  BY DEF IInv, Honest, OutcomesAreHonest
<1> QED BY Invariance, <1>1, PTL

----------------------------------------------------------------------------
(* The refinement.  Everything the policy lets through is entitled. *)
LEMMA AuthorizedAreEntitled ==
  ASSUME TypeOK, Stages
  PROVE  Context \subseteq Entitled
<1>1. \A i \in authorized : candidates[i] \in Entitled
  <2>1. \A i \in authorized : candidates[i] \in Records
    BY PlaceFacts
  <2> QED BY <2>1 DEF Stages, Authorize, Entitled
<1>2. Range(bounded) \subseteq authorized
  BY DEF TypeOK, Range
<1> QED BY <1>1, <1>2 DEF Context

Cited == IF pc = "done" THEN result.citations ELSE {}

LEMMA RefusalRefines ==
  ASSUME IInv, NEW status, status # "completed", NEW code, NEW a, NEW b, NEW c \in Nat,
         Stop(status, code, a, b, c), pc \notin {"done", "raised"}, UNCHANGED <<inputs, candidates, bounded>>,
         (c > 0) <=> (pc = "consulting")
  PROVE  Abstract!Refuse
<1>1. /\ pc' = "done" /\ result'.status = status /\ result'.citations = {}
      /\ result'.retrieved = c
  BY DEF Stop, Result
<1>2. Phase' = "refused" /\ Phase \in {"asked", "consulting"}
  BY <1>1 DEF Phase
<1>3. Entitled' = Entitled
  BY DEF Entitled, inputs, Prohibited
<1>4. Given' = Given
  BY <1>1 DEF Given, Context
<1>5. Cited' = Cited
  BY <1>1 DEF Cited
<1> QED BY <1>2, <1>3, <1>4, <1>5 DEF Abstract!Refuse, Cited

(* A step that leaves the abstract state alone. *)
LEMMA QuietStep ==
  ASSUME pc \in {"asked", "loading", "authorizing", "retrieving", "bounding"},
         pc' \in {"loading", "authorizing", "retrieving", "bounding"},
         UNCHANGED inputs
  PROVE  UNCHANGED Abstract!vars
<1>1. Phase' = Phase /\ Cited' = Cited /\ Given' = Given
  BY DEF Phase, Cited, Given
<1>2. Entitled' = Entitled
  BY DEF Entitled, inputs, Prohibited
<1> QED BY <1>1, <1>2 DEF Abstract!vars, Cited

LEMMA StepRefines == IInv /\ IInv' /\ [Next]_vars => [Abstract!Next]_(Abstract!vars)
<1> SUFFICES ASSUME IInv, IInv', [Next]_vars PROVE Abstract!Next \/ UNCHANGED Abstract!vars
  OBVIOUS
<1> USE DEF Abstract!Next, budget
<1>1. CASE Ask
  <2>1. CASE pc' = "raised"
    <3>1. pc = "asked" /\ UNCHANGED <<inputs, candidates, bounded, result>>
      BY <1>1, <2>1 DEF Ask, Stop, Result
    <3>2. Phase = "asked" /\ Phase' = "refused" /\ Cited = {} /\ Cited' = {}
      BY <2>1, <3>1 DEF Phase, Cited
    <3>3. Given = {} /\ Given' = {} /\ Entitled' = Entitled
      BY <2>1, <3>1 DEF Given, Entitled, inputs, Prohibited
    <3> QED BY <3>2, <3>3 DEF Abstract!Refuse, Cited
  <2>2. CASE pc' # "raised"
    BY <1>1, <2>2, RefusalRefines, QuietStep DEF Ask
  <2> QED BY <2>1, <2>2
<1>2. CASE SourceFails
  BY <1>2, RefusalRefines DEF SourceFails
<1>3. CASE AuthorizeAll \/ PolicyFails
  BY <1>3, RefusalRefines, QuietStep DEF AuthorizeAll, PolicyFails
<1>4. CASE RetrieverFails
  BY <1>4, RefusalRefines DEF RetrieverFails
<1>5. CASE Load \/ Retrieve
  BY <1>5, QuietStep DEF Load, Retrieve
<1>6. CASE Select \/ Skip
  BY <1>6, QuietStep DEF Select, Skip, inputs
<1>7. CASE Consult
  <2>1. CASE bounded = <<>>
    BY <1>7, <2>1, RefusalRefines DEF Consult
  <2>2. CASE bounded # <<>>
    <3>1. pc = "bounding" /\ pc' = "consulting" /\ UNCHANGED <<inputs, candidates, bounded, result>>
      BY <1>7, <2>2 DEF Consult
    <3>2. Phase = "asked" /\ Phase' = "consulting" /\ Cited = {} /\ Cited' = {}
      BY <3>1 DEF Phase, Cited
    <3>3. Given' = Context
      BY <3>1 DEF Given, Context
    <3>4. Context # {}
      <4>1. 1 \in DOMAIN bounded
        BY <2>2 DEF IInv, TypeOK
      <4> QED BY <4>1 DEF Context, Range
    <3>5. Entitled' = Entitled /\ Context \subseteq Entitled
      BY <3>1, AuthorizedAreEntitled DEF Entitled, inputs, Prohibited, IInv
    <3>6. Given' \in (SUBSET Entitled) \ {{}}
      BY <3>3, <3>4, <3>5
    <3>7. Abstract!Consult
      BY <3>2, <3>5, <3>6 DEF Abstract!Consult, Cited
    <3> QED BY <3>7
  <2> QED BY <2>1, <2>2
<1>8. CASE Answer
  <2>1. /\ pc = "consulting" /\ UNCHANGED <<inputs, candidates, bounded>>
        /\ Len(bounded) \in Nat /\ Len(bounded) > 0
    BY <1>8 DEF Answer, IInv, Stages, TypeOK
  <2>2. CASE \E error \in Errors(claims') :
               Stop("denied", error, Len(candidates), Cardinality(authorized), Len(bounded))
    BY <2>1, <2>2, RefusalRefines
  <2>3. CASE Result("completed", "grounded_answer", {ById(id) : id \in CitedIds(claims')},
                    Len(candidates), Cardinality(authorized), Len(bounded))
    <3>1. pc' = "done" /\ result'.status = "completed" /\ result'.retrieved = Len(bounded)
      BY <2>3 DEF Result
    <3>2. Phase = "consulting" /\ Phase' = "answered"
      BY <2>1, <3>1 DEF Phase
    <3>3. Given = Context /\ Given' = Context
      BY <2>1, <3>1 DEF Given, Context
    <3>4. Cited' # {} /\ Cited' \subseteq Context
      BY <2>1, <3>1 DEF IInv, Honest, OutcomesAreHonest, Cited, Context
    <3>5. Entitled' = Entitled
      BY <2>1 DEF Entitled, inputs, Prohibited
    <3>6. Cited' \in (SUBSET Given) \ {{}}
      BY <3>3, <3>4
    <3>7. Cited' = result'.citations
      BY <3>1 DEF Cited
    <3>8. Abstract!Complete
      BY <3>1, <3>2, <3>3, <3>5, <3>6, <3>7 DEF Abstract!Complete
    <3> QED BY <3>8
  <2> QED BY <1>8, <2>2, <2>3 DEF Answer, Validate
<1>9. CASE ProviderFails
  <2>1. Len(bounded) \in Nat /\ Len(bounded) > 0
    BY <1>9 DEF ProviderFails, IInv, Stages, TypeOK
  <2> QED BY <1>9, <2>1, RefusalRefines DEF ProviderFails
<1>10. CASE UNCHANGED vars
  BY <1>10 DEF vars, Abstract!vars, Phase, Entitled, Given, Context, Prohibited
<1> QED BY <1>1, <1>2, <1>3, <1>4, <1>5, <1>6, <1>7, <1>8, <1>9, <1>10 DEF Next

(* The pipeline implements Grounding: the provider sees only records its   *)
(* reader is entitled to and an answer cites only what the provider saw.   *)
THEOREM Refinement == Spec => ImplementsGrounding
<1>1. Init => Abstract!Init
  <2> SUFFICES ASSUME Init PROVE Abstract!Init
    OBVIOUS
  <2>1. Phase = "asked" /\ Given = {} /\ pc # "done"
    BY DEF Init, Phase, Given
  <2>2. Entitled \in SUBSET Records
    BY DEF Entitled
  <2> QED BY <2>1, <2>2 DEF Abstract!Init
<1> QED BY <1>1, StepRefines, Invariance, PTL DEF Spec, ImplementsGrounding, Abstract!Spec
=============================================================================
