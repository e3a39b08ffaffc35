---------------------------- MODULE RequestsProofs ----------------------------
(***************************************************************************)
(* Theorems about Requests, for any nodes, bounds, scores and limits.      *)
(***************************************************************************)
EXTENDS Requests, FiniteSetTheorems, SequenceTheorems, TLAPS

-----------------------------------------------------------------------------
(* Scores *)

LEMMA RankScores ==
  ASSUME NEW rank \in 1 .. 30
  PROVE  ArmScore(rank) \in 338 .. 500
  BY DEF ArmScore, RrfK

\* The order of the natural numbers is well founded, so every set of numbers up
\* to a bound has a largest one.
LEMMA Largest ==
  ASSUME NEW bound \in Nat, NEW S \in SUBSET (0 .. bound), S # {}
  PROVE  Max(S) \in S
  <1> DEFINE T == {bound - x : x \in S}
  <1>1. T \subseteq Nat /\ T # {}
    OBVIOUS
  <1>2. \E x \in T : \A y \in T : ~ (<<y, x>> \in OpToRel(<, Nat))
    <2> HIDE DEF T
    <2> QED BY <1>1, WFMin, NatLessThanWellFounded
  <1>3. PICK x \in T : \A y \in T : ~ (y < x)
    <2>1. \E x \in T : \A y \in T : ~ (y < x)
      BY <1>1, <1>2 DEF OpToRel
    <2> QED BY <2>1
  <1>4. PICK z \in S : x = bound - z
    BY <1>3
  <1>5. \A y \in S : z >= y
    BY <1>3, <1>4
  <1>6. \E m \in S : \A y \in S : m >= y
    BY <1>5
  <1> QED BY <1>6 DEF Max

-----------------------------------------------------------------------------
(* Lists of tiers *)

LEMMA TheOrder ==
  /\ CascadeOrder \in Seq(Tiers) /\ Len(CascadeOrder) = 5
  /\ Tiers = {"exact", "router", "hybrid", "agentic", "stub"}
  /\ Position = [exact |-> 1, router |-> 2, hybrid |-> 3, agentic |-> 4, stub |-> 5]
  /\ InCascadeOrder(CascadeOrder)
  <1>1. Len(CascadeOrder) = 5 /\ DOMAIN CascadeOrder = {1, 2, 3, 4, 5}
    BY DEF CascadeOrder
  <1>2. Tiers = {"exact", "router", "hybrid", "agentic", "stub"}
    BY <1>1 DEF Tiers, ToSet, CascadeOrder
  <1>3. CascadeOrder \in Seq(Tiers)
    BY <1>2 DEF CascadeOrder
  <1>4. Position = [exact |-> 1, router |-> 2, hybrid |-> 3, agentic |-> 4, stub |-> 5]
    BY <1>1, <1>2 DEF Position, CascadeOrder
  <1>5. InCascadeOrder(CascadeOrder)
    BY <1>1, <1>4 DEF InCascadeOrder, CascadeOrder
  <1> QED BY <1>1, <1>2, <1>3, <1>4, <1>5

LEMMA SetOf ==
  ASSUME NEW S, NEW s \in Seq(S)
  PROVE  /\ ToSet(s) = {s[i] : i \in 1 .. Len(s)} /\ ToSet(s) \subseteq S
         /\ s # <<>> => /\ ToSet(s) = {Head(s)} \cup ToSet(Tail(s))
                        /\ Tail(s) \in Seq(S) /\ Head(s) \in S
                        /\ Len(Tail(s)) = Len(s) - 1
                        /\ \A i \in 1 .. Len(Tail(s)) : Tail(s)[i] = s[i + 1]
  <1>1. ToSet(s) = {s[i] : i \in 1 .. Len(s)} /\ ToSet(s) \subseteq S
    BY DEF ToSet
  <1>2. ASSUME s # <<>>
        PROVE  /\ ToSet(s) = {Head(s)} \cup ToSet(Tail(s))
               /\ Tail(s) \in Seq(S) /\ Head(s) \in S
               /\ Len(Tail(s)) = Len(s) - 1
               /\ \A i \in 1 .. Len(Tail(s)) : Tail(s)[i] = s[i + 1]
    <2>1. /\ Tail(s) \in Seq(S) /\ Head(s) \in S
          /\ Len(Tail(s)) = Len(s) - 1 /\ Len(s) \in Nat \ {0}
          /\ \A i \in 1 .. Len(Tail(s)) : Tail(s)[i] = s[i + 1]
      BY <1>2, HeadTailProperties, EmptySeq
    <2>2. Head(s) = s[1]
      BY <1>2
    <2>3. ToSet(Tail(s)) = {Tail(s)[i] : i \in 1 .. Len(Tail(s))}
      <3>1. DOMAIN Tail(s) = 1 .. Len(Tail(s))
        BY <2>1, LenProperties
      <3> QED BY <3>1 DEF ToSet
    <2>4. ASSUME NEW i \in 1 .. Len(s)
          PROVE  s[i] = Head(s) \/ s[i] \in ToSet(Tail(s))
      <3>1. CASE i # 1
        <4>1. i - 1 \in 1 .. Len(Tail(s)) /\ (i - 1) + 1 = i
          BY <2>1, <3>1
        <4>2. Tail(s)[i - 1] = s[i]
          BY <2>1, <4>1
        <4> QED BY <2>3, <4>1, <4>2
      <3> QED BY <2>2, <3>1
    <2>5. ASSUME NEW i \in 1 .. Len(Tail(s))
          PROVE  Tail(s)[i] \in ToSet(s)
      <3>1. i + 1 \in 1 .. Len(s) /\ Tail(s)[i] = s[i + 1]
        BY <2>1
      <3> QED BY <1>1, <3>1
    <2>6. Head(s) \in ToSet(s)
      BY <1>1, <2>1, <2>2
    <2> QED BY <1>1, <2>1, <2>3, <2>4, <2>5, <2>6
  <1> QED BY <1>1, <1>2

LEMMA NoElements == ToSet(<<>>) = {}
  <1>1. <<>> \in Seq(Nodes) /\ Len(<<>>) = 0
    BY EmptySeq
  <1>2. ToSet(<<>>) = {<<>>[i] : i \in 1 .. Len(<<>>)}
    BY <1>1, SetOf
  <1> QED BY <1>1, <1>2

\* Put before a list.
LEMMA Put ==
  ASSUME NEW S, NEW s \in Seq(S), NEW e \in S
  PROVE  /\ <<e>> \o s \in Seq(S) /\ <<e>> \o s # <<>>
         /\ Head(<<e>> \o s) = e /\ Tail(<<e>> \o s) = s
         /\ ToSet(<<e>> \o s) = {e} \cup ToSet(s)
  <1>1. <<e>> \in Seq(S) /\ Len(<<e>>) = 1 /\ <<e>>[1] = e
    OBVIOUS
  <1>2. /\ <<e>> \o s \in Seq(S) /\ Len(<<e>> \o s) = 1 + Len(s)
        /\ \A i \in 1 .. 1 + Len(s) : (<<e>> \o s)[i] = IF i <= 1 THEN e ELSE s[i - 1]
    BY <1>1, ConcatProperties
  <1>3. <<e>> \o s # <<>> /\ Head(<<e>> \o s) = e
    BY <1>2
  <1>4. Tail(<<e>> \o s) = s
    BY <1>2, <1>3, HeadTailProperties, SeqEqual
  <1>5. ToSet(<<e>> \o s) = {e} \cup ToSet(s)
    <2> HIDE DEF ToSet
    <2>1. ToSet(<<e>> \o s) = {Head(<<e>> \o s)} \cup ToSet(Tail(<<e>> \o s))
      BY <1>2, <1>3, SetOf
    <2> QED BY <1>3, <1>4, <2>1
  <1> QED BY <1>2, <1>3, <1>4, <1>5

\* Removed from a list in cascade order.
LEMMA Removed ==
  ASSUME NEW s \in Seq(Tiers), InCascadeOrder(s), NEW e
  PROVE  /\ RemoveFirst(s, e) \in Seq(Tiers) /\ InCascadeOrder(RemoveFirst(s, e))
         /\ ToSet(RemoveFirst(s, e)) = ToSet(s) \ {e}
  <1>1. CASE ~ \E i \in 1 .. Len(s) : s[i] = e
    BY <1>1, SetOf DEF RemoveFirst
  <1>2. CASE \E i \in 1 .. Len(s) : s[i] = e
    <2>1. PICK k \in 1 .. Len(s) : s[k] = e
      BY <1>2
    <2> DEFINE n == Len(s)
    <2>2. n \in Nat /\ DOMAIN s = 1 .. n /\ \A i \in 1 .. n : s[i] \in Tiers
      BY LenProperties
    <2>3. \A i, j \in 1 .. n : i < j => Position[s[i]] < Position[s[j]]
      BY <2>2 DEF InCascadeOrder
    <2>4. \A i, j \in 1 .. n : s[i] = s[j] => i = j
      BY <2>2, <2>3, TheOrder
    <2>5. {i \in 1 .. n : s[i] = e} = {k}
      BY <2>1, <2>4
    <2>6. Min({k}) = k
      BY <2>1 DEF Min
    <2>7. RemoveFirst(s, e) = SubSeq(s, 1, k - 1) \o SubSeq(s, k + 1, n)
      BY <1>2, <2>5, <2>6 DEF RemoveFirst, SelectInSeq, RemoveAt
    <2> DEFINE a == SubSeq(s, 1, k - 1)
               b == SubSeq(s, k + 1, n)
               r == a \o b
    <2>8. /\ a \in Seq(Tiers) /\ Len(a) = k - 1
          /\ \A i \in 1 .. k - 1 : a[i] = s[i]
      BY <2>2, SubSeqProperties
    <2>9. /\ b \in Seq(Tiers) /\ Len(b) = n - k
          /\ \A i \in 1 .. n - k : b[i] = s[i + k]
      BY <2>2, SubSeqProperties
    <2> HIDE DEF a, b
    <2>10. /\ r \in Seq(Tiers) /\ Len(r) = n - 1
           /\ \A i \in 1 .. n - 1 : r[i] = IF i < k THEN s[i] ELSE s[i + 1]
      <3>1. /\ r \in Seq(Tiers) /\ Len(r) = Len(a) + Len(b)
            /\ \A i \in 1 .. Len(a) + Len(b) :
                 r[i] = IF i <= Len(a) THEN a[i] ELSE b[i - Len(a)]
        BY <2>8, <2>9, ConcatProperties
      <3>2. Len(a) + Len(b) = n - 1
        BY <2>2, <2>8, <2>9
      <3>3. ASSUME NEW i \in 1 .. n - 1
            PROVE  r[i] = IF i < k THEN s[i] ELSE s[i + 1]
        <4>1. r[i] = IF i <= k - 1 THEN a[i] ELSE b[i - (k - 1)]
          BY <2>8, <3>1, <3>2
        <4>2. CASE i < k
          BY <2>8, <4>1, <4>2
        <4>3. CASE ~ (i < k)
          <5>1. i - (k - 1) \in 1 .. n - k /\ (i - (k - 1)) + k = i + 1
            BY <2>2, <4>3
          <5>2. b[i - (k - 1)] = s[i + 1]
            BY <2>9, <5>1
          <5> QED BY <4>1, <4>3, <5>2
        <4> QED BY <4>2, <4>3
      <3> QED BY <3>1, <3>2, <3>3
    <2> HIDE DEF r
    <2>11. InCascadeOrder(r)
      <3>1. DOMAIN r = 1 .. n - 1
        BY <2>10
      <3>2. ASSUME NEW i \in 1 .. n - 1, NEW j \in 1 .. n - 1, i < j
            PROVE  Position[r[i]] < Position[r[j]]
        BY <2>2, <2>3, <2>10, <3>2
      <3> QED BY <3>1, <3>2 DEF InCascadeOrder
    <2>12. ToSet(r) = ToSet(s) \ {e}
      <3>1. ToSet(r) = {r[i] : i \in 1 .. n - 1}
        BY <2>10, SetOf
      <3>2. ASSUME NEW i \in 1 .. n, i # k
            PROVE  \E j \in 1 .. n - 1 : r[j] = s[i]
        <4>1. CASE i < k
          <5>1. i \in 1 .. n - 1
            BY <2>2, <4>1
          <5> QED BY <2>10, <4>1, <5>1
        <4>2. CASE i > k
          <5>1. i - 1 \in 1 .. n - 1 /\ ~ (i - 1 < k)
            BY <2>2, <4>2
          <5>2. (i - 1) + 1 = i
            OBVIOUS
          <5>3. r[i - 1] = s[i]
            BY <2>10, <5>1, <5>2
          <5> QED BY <5>1, <5>3
        <4> QED BY <3>2, <4>1, <4>2
      <3>3. ASSUME NEW j \in 1 .. n - 1
            PROVE  \E i \in 1 .. n : i # k /\ r[j] = s[i]
        BY <2>2, <2>10
      <3>4. ToSet(s) = {s[i] : i \in 1 .. n}
        BY SetOf
      <3>5. ASSUME NEW x \in ToSet(r) PROVE x \in ToSet(s) \ {e}
        BY <2>1, <2>4, <3>1, <3>3, <3>4
      <3>6. ASSUME NEW x \in ToSet(s) \ {e} PROVE x \in ToSet(r)
        BY <2>1, <3>1, <3>2, <3>4
      <3> QED BY <3>5, <3>6
    <2> QED BY <2>7, <2>10, <2>11, <2>12 DEF a, b, r
  <1> QED BY <1>1, <1>2

-----------------------------------------------------------------------------
(* Searches *)

LEMMA LimitIsANumber == CandidateLimit \in Nat /\ 0 <= CandidateLimit
  BY TiersAssumption

LEMMA ArmLimits ==
  ASSUME NEW rank \in 1 .. CandidateLimit
  PROVE  ArmScore(rank) \in ArmScores /\ ArmScore(rank) \in 338 .. 500
  <1>1. rank \in 1 .. 30
    BY TiersAssumption
  <1> QED BY <1>1, RankScores DEF ArmScores

LEMMA ScoresBounded == ScoresGiven \subseteq 0 .. CertainScore
  <1>1. ASSUME NEW score \in ArmScores PROVE score \in 0 .. 500
    BY ArmLimits DEF ArmScores
  <1>2. FusedScores \subseteq 0 .. 1000
    <2>1. ASSUME NEW one \in ArmScores, NEW other \in ArmScores PROVE one + other \in 0 .. 1000
      <3>1. one \in 0 .. 500 /\ other \in 0 .. 500
        BY <1>1
      <3> QED BY <3>1
    <2> QED BY <2>1 DEF FusedScores
  <1>3. TextScores \subseteq 0 .. 1000
    BY TiersAssumption
  <1>4. CertainScore = 1000
    BY DEF CertainScore
  <1>5. ASSUME NEW score \in ScoresGiven PROVE score \in 0 .. 1000
    <2>1. \/ score = Failed \/ score = Ungrounded \/ score = Grounded \/ score = CertainScore
          \/ score \in TextScores \/ score \in FusedScores
      BY DEF ScoresGiven
    <2>2. CASE score \in TextScores
      BY <1>3, <2>2
    <2>3. CASE score \in FusedScores
      BY <1>2, <2>3
    <2>4. CASE score = Failed \/ score = Ungrounded \/ score = Grounded \/ score = CertainScore
      BY <2>4 DEF Failed, Ungrounded, Grounded, CertainScore
    <2> QED BY <2>1, <2>2, <2>3, <2>4
  <1> QED BY <1>4, <1>5

LEMMA RankingsAreLists ==
  ASSUME present \subseteq Nodes, NEW ranking \in Rankings
  PROVE  ranking \in Seq(Nodes) /\ Len(ranking) <= CandidateLimit
  <1>1. ranking \in SetToAllKPermutations(present) /\ Len(ranking) <= CandidateLimit
    BY DEF Rankings
  <1>2. PICK S \in SUBSET present : ranking \in SetToSeqs(S)
    BY <1>1 DEF SetToAllKPermutations
  <1>3. ranking \in [1 .. Cardinality(S) -> S]
    BY <1>2 DEF SetToSeqs
  <1>4. Cardinality(S) \in Nat
    <2>1. IsFiniteSet(S)
      BY EvidenceAssumption, FS_Subset
    <2> QED BY <2>1, FS_CardinalityType
  <1>5. ranking \in [1 .. Cardinality(S) -> Nodes]
    BY <1>3
  <1> QED BY <1>1, <1>4, <1>5, SeqDef

\* What one arm gives a node.
LEMMA OneArm ==
  ASSUME NEW ranking \in Seq(Nodes), Len(ranking) <= CandidateLimit, NEW n
  PROVE  /\ Contains(ranking, n) <=> n \in ToSet(ranking)
         /\ ScoreIn(ranking, n) \in ArmScores
         /\ Contains(ranking, n) => ScoreIn(ranking, n) \in 338 .. 500
         /\ ~ Contains(ranking, n) => ScoreIn(ranking, n) = 0
  <1>1. Len(ranking) \in Nat /\ DOMAIN ranking = 1 .. Len(ranking)
    BY LenProperties
  <1>2. Contains(ranking, n) <=> n \in ToSet(ranking)
    BY <1>1 DEF Contains, ToSet
  <1>3. ASSUME Contains(ranking, n)
        PROVE  ScoreIn(ranking, n) \in ArmScores /\ ScoreIn(ranking, n) \in 338 .. 500
    <2> DEFINE i == CHOOSE k \in DOMAIN ranking : ranking[k] = n
    <2>1. i \in DOMAIN ranking
      BY <1>1, <1>3 DEF Contains
    <2>2. i \in 1 .. CandidateLimit
      BY <1>1, <2>1, TiersAssumption
    <2>3. ScoreIn(ranking, n) = ArmScore(i)
      BY <1>3 DEF ScoreIn
    <2> HIDE DEF i
    <2> QED BY <2>2, <2>3, ArmLimits
  <1>4. ASSUME ~ Contains(ranking, n)
        PROVE  ScoreIn(ranking, n) = 0 /\ ScoreIn(ranking, n) \in ArmScores
    BY <1>4 DEF ScoreIn, ArmScores
  <1> QED BY <1>2, <1>3, <1>4

\* What both give it: a score of the hybrid tier, and one that it trusts exactly
\* if both ranked the node.
LEMMA BothArms ==
  ASSUME SearchInv, NEW ranking \in Seq(Nodes), Len(ranking) <= CandidateLimit
  PROVE  /\ DOMAIN Fused(ranking) \subseteq Nodes
         /\ \A n \in DOMAIN Fused(ranking) :
              /\ Fused(ranking)[n] \in ScoresGiven
              /\ (Fused(ranking)[n] >= Threshold["hybrid"])
                   = (Contains(vector, n) /\ Contains(ranking, n))
  <1>1. DOMAIN Fused(ranking) = ToSet(vector) \cup ToSet(ranking)
    BY DEF Fused
  <1>2. DOMAIN Fused(ranking) \subseteq Nodes
    BY <1>1, SetOf DEF SearchInv
  <1>3. ASSUME NEW n \in DOMAIN Fused(ranking)
        PROVE  /\ Fused(ranking)[n] \in ScoresGiven
               /\ (Fused(ranking)[n] >= Threshold["hybrid"])
                    = (Contains(vector, n) /\ Contains(ranking, n))
    <2> DEFINE one == ScoreIn(vector, n)
               other == ScoreIn(ranking, n)
    <2>1. Fused(ranking)[n] = one + other
      BY <1>1 DEF Fused
    <2>2. /\ one \in ArmScores /\ other \in ArmScores
          /\ Contains(vector, n) => one \in 338 .. 500
          /\ ~ Contains(vector, n) => one = 0
          /\ Contains(ranking, n) => other \in 338 .. 500
          /\ ~ Contains(ranking, n) => other = 0
          /\ one \in 0 .. 500 /\ other \in 0 .. 500
      BY OneArm DEF SearchInv
    <2> HIDE DEF one, other
    <2>3. Fused(ranking)[n] \in ScoresGiven
      BY <2>1, <2>2 DEF ScoresGiven, FusedScores
    <2>4. Threshold["hybrid"] = 600
      BY DEF Threshold
    <2>5. CASE Contains(vector, n) /\ Contains(ranking, n)
      <3>1. one + other >= 600
        BY <2>2, <2>5
      <3> QED BY <2>1, <2>3, <2>4, <2>5, <3>1
    <2>6. CASE ~ (Contains(vector, n) /\ Contains(ranking, n))
      <3>1. ~ (one + other >= 600)
        BY <2>2, <2>6
      <3>2. (Fused(ranking)[n] >= Threshold["hybrid"]) = FALSE
        BY <2>1, <2>4, <3>1
      <3>3. (Contains(vector, n) /\ Contains(ranking, n)) = FALSE
        BY <2>6
      <3> QED BY <2>3, <3>2, <3>3
    <2> QED BY <2>5, <2>6
  <1> QED BY <1>2, <1>3

LEMMA BestIsAScore ==
  ASSUME NEW found, \A n \in DOMAIN found : found[n] \in ScoresGiven
  PROVE  Best(found) \in ScoresGiven
  <1>1. CASE DOMAIN found = {}
    BY <1>1 DEF Best, ScoresGiven, Failed
  <1>2. CASE DOMAIN found # {}
    <2> DEFINE S == {found[n] : n \in DOMAIN found}
    <2>1. S \subseteq ScoresGiven /\ S # {}
      BY <1>2
    <2>2. S \in SUBSET (0 .. CertainScore) /\ CertainScore \in Nat
      <3> HIDE DEF S
      <3> QED BY <2>1, ScoresBounded DEF CertainScore
    <2>3. Max(S) \in S
      <3> HIDE DEF S
      <3> QED BY <2>1, <2>2, Largest
    <2>4. Best(found) = Max(S)
      BY <1>2 DEF Best
    <2> QED BY <2>1, <2>3, <2>4
  <1> QED BY <1>1, <1>2

-----------------------------------------------------------------------------
(* The agreement of the two arms, and what the tiers leave *)

LEMMA AgreedInv == TypeOK /\ SearchInv => ConfidentIffAgreed
  <1> SUFFICES ASSUME TypeOK, SearchInv, NEW ranking \in Rankings,
                      NEW n \in DOMAIN Fused(ranking)
               PROVE  (Fused(ranking)[n] >= Threshold["hybrid"])
                        = (Contains(vector, n) /\ Contains(ranking, n))
    BY DEF ConfidentIffAgreed
  <1>1. ranking \in Seq(Nodes) /\ Len(ranking) <= CandidateLimit
    BY RankingsAreLists DEF TypeOK, EvidenceTypeOK
  <1> QED BY <1>1, BothArms

\* What no step that leaves the cascade alone can disturb.
CascadeSide == FreshInv /\ ListInv /\ FrontInv /\ ResultsInv /\ AnswersTrusted

\* And the rest.
RequestSide == TypeOK /\ SearchInv /\ QueryInv /\ WorkflowInv /\ TurnInv /\ EmailInv

LEMMA CascadeAlone ==
  ASSUME RequestsInv, UNCHANGED cascade, status = "running",
         status' \in {"running", "answered", "raised"},
         status' = "answered" => kind # "query"
  PROVE  CascadeSide'
  <1> USE DEF RequestsInv, cascade
  <1>1. FreshInv'
    BY DEF FreshInv
  <1>2. ListInv'
    BY DEF ListInv, InCascadeOrder
  <1>3. FrontInv'
    BY DEF FrontInv
  <1>4. ResultsInv'
    BY DEF ResultsInv
  <1>5. AnswersTrusted'
    BY DEF AnswersTrusted
  <1> QED BY <1>1, <1>2, <1>3, <1>4, <1>5 DEF CascadeSide

LEMMA StepsAre ==
  /\ StepsOf["exact"] = {"exact", "exact text", "found"}
  /\ StepsOf["router"] = {"router", "exact", "exact text", "found"}
  /\ StepsOf["hybrid"] = {"hybrid", "fulltext", "found"}
  /\ StepsOf["agentic"] = {"agentic", "overrun", "turn", "tools", "walk", "follow up", "answer"}
  /\ StepsOf["stub"] = {"stub"}
  BY DEF StepsOf, AgentSteps

\* Where a query is.
LEMMA Place ==
  ASSUME RequestsInv, status = "running", kind = "query"
  PROVE  /\ ordered # <<>> /\ ordered \in Seq(Tiers) /\ Head(ordered) \in Tiers
         /\ step \in StepsOf[Head(ordered)]
         /\ step \in {"agentic", "overrun"} \cup AgentSteps => Head(ordered) = "agentic"
         /\ step \in {"exact", "exact text"} => Head(ordered) \in {"exact", "router"}
         /\ step = "found" => Head(ordered) \in {"exact", "router", "hybrid"}
         /\ step \in {"hybrid", "fulltext"} => Head(ordered) = "hybrid"
         /\ step \in {"router", "stub"} => Head(ordered) = step
  <1>1. ordered # <<>> /\ ordered \in Seq(Tiers) /\ step \in StepsOf[Head(ordered)]
    BY DEF RequestsInv, QueryInv, ListInv
  <1>2. Head(ordered) \in {"exact", "router", "hybrid", "agentic", "stub"}
    BY <1>1, SetOf, TheOrder
  <1>3. CASE Head(ordered) = "agentic"
    BY <1>1, <1>2, <1>3, StepsAre, TheOrder
  <1>4. CASE Head(ordered) # "agentic"
    BY <1>1, <1>2, <1>4, StepsAre, TheOrder DEF AgentSteps
  <1> QED BY <1>3, <1>4

\* A search that ends.
LEMMA FoundStep ==
  ASSUME RequestsInv, status = "running", step \in {"exact", "exact text", "fulltext"},
         NEW found, DOMAIN found \subseteq Nodes,
         \A n \in DOMAIN found : found[n] \in ScoresGiven,
         Found(found), UNCHANGED <<calling, cascade, turns, workflow>>
  PROVE  RequestSide'
  <1> USE DEF RequestsInv, Found, Cite, CitationsOf, graph, search, calling, cascade, workflow
  <1>1. TypeOK'
    <2>1. EvidenceTypeOK'
      BY DEF TypeOK, EvidenceTypeOK
    <2>2. \A n \in DOMAIN hits' : hits'[n] \in 0 .. CertainScore
      BY ScoresBounded
    <2>3. (status' = "running") = (step' # "none")
      BY DEF TypeOK
    <2>4. ToSet(vector') \subseteq Nodes
      BY EmptySeq, SetOf
    <2> QED BY <2>1, <2>2, <2>3, <2>4 DEF TypeOK
  <1>2. SearchInv'
    <2>1. vector' \in Seq(Nodes) /\ Len(vector') <= CandidateLimit
      <3>1. <<>> \in Seq(Nodes) /\ Len(<<>>) = 0
        BY EmptySeq
      <3>2. vector' = <<>>
        OBVIOUS
      <3> QED BY <3>1, <3>2, LimitIsANumber
    <2>2. \A n \in DOMAIN hits' : hits'[n] \in ScoresGiven
      OBVIOUS
    <2> QED BY <2>1, <2>2 DEF SearchInv
  <1>3. QueryInv'
    BY Place, StepsAre DEF QueryInv
  <1>4. WorkflowInv' /\ TurnInv'
    BY DEF WorkflowInv, TurnInv, AgentSteps
  <1>5. EmailInv'
    BY DEF EmailInv
  <1> QED BY <1>1, <1>2, <1>3, <1>4, <1>5 DEF RequestSide

\* A search that goes on.
LEMMA SearchGoesOn ==
  ASSUME RequestsInv, status = "running", hits' = hits,
         \/ step = "exact" /\ step' = "exact text" /\ vector' = vector
         \/ step = "hybrid" /\ step' = "fulltext" /\ vector' \in Rankings,
         UNCHANGED <<graph, cites, status, calling, cascade, turns, workflow>>
  PROVE  RequestsInv'
  <1> USE DEF RequestsInv, graph, search, calling, cascade, workflow
  <1>1. SearchInv'
    <2>1. vector' \in Seq(Nodes) /\ Len(vector') <= CandidateLimit
      <3>1. CASE vector' = vector
        BY <3>1 DEF SearchInv
      <3>2. CASE vector' \in Rankings
        BY <3>2, RankingsAreLists DEF TypeOK, EvidenceTypeOK
      <3> QED BY <3>1, <3>2
    <2> QED BY <2>1 DEF SearchInv
  <1>2. TypeOK'
    <2>1. ToSet(vector') \subseteq Nodes
      BY <1>1, SetOf DEF SearchInv
    <2> QED BY <2>1 DEF TypeOK, EvidenceTypeOK
  <1>3. EmailInv'
    BY DEF EmailInv
  <1>4. QueryInv'
    BY Place, StepsAre DEF QueryInv
  <1>5. WorkflowInv' /\ TurnInv'
    BY DEF WorkflowInv, TurnInv, AgentSteps
  <1>6. CascadeSide'
    BY CascadeAlone
  <1> QED BY <1>1, <1>2, <1>3, <1>4, <1>5, <1>6 DEF CascadeSide

LEMMA TiersKeep ==
  ASSUME RequestsInv, TierSteps, UNCHANGED <<calling, cascade, turns, workflow>>
  PROVE  RequestsInv'
  <1>1. present \subseteq Nodes /\ TypeOK /\ SearchInv
    BY DEF RequestsInv, TypeOK, EvidenceTypeOK
  <1>2. ASSUME status = "running", step \in {"exact", "exact text", "fulltext"},
               NEW found, DOMAIN found \subseteq Nodes,
               \A n \in DOMAIN found : found[n] \in ScoresGiven, Found(found)
        PROVE  RequestsInv'
    <2>1. RequestSide'
      BY <1>2, FoundStep
    <2>2. status' = status /\ UNCHANGED cascade
      BY <1>2 DEF Found
    <2>3. CascadeSide'
      BY <1>2, <2>2, CascadeAlone
    <2> QED BY <2>1, <2>3 DEF RequestsInv, RequestSide, CascadeSide
  <1>3. CASE ExactIds
    <2>1. status = "running" /\ step = "exact"
      BY <1>3 DEF ExactIds, At
    <2>2. ASSUME NEW named \in SUBSET present \ {{}}, Found([n \in named |-> CertainScore])
          PROVE  RequestsInv'
      <3>1. CertainScore \in ScoresGiven
        BY DEF ScoresGiven
      <3> QED BY <1>1, <1>2, <2>1, <2>2, <3>1
    <2>3. CASE step' = "exact text" /\ UNCHANGED <<graph, cites, status, search>>
      BY <2>1, <2>3, SearchGoesOn DEF search
    <2> QED BY <1>3, <2>2, <2>3 DEF ExactIds
  <1>4. CASE ExactText
    <2>1. status = "running" /\ step = "exact text"
      BY <1>4 DEF ExactText, At
    <2>2. PICK matches \in SUBSET present : \E scores \in [matches -> TextScores] : Found(scores)
      BY <1>4 DEF ExactText
    <2>3. PICK scores \in [matches -> TextScores] : Found(scores)
      BY <2>2
    <2>4. TextScores \subseteq ScoresGiven
      BY DEF ScoresGiven
    <2>5. DOMAIN scores \subseteq Nodes /\ \A n \in DOMAIN scores : scores[n] \in ScoresGiven
      BY <1>1, <2>4
    <2> QED BY <1>2, <2>1, <2>3, <2>5
  <1>5. CASE VectorArm
    BY <1>5, SearchGoesOn DEF VectorArm, At
  <1>6. CASE FulltextArm
    <2>1. status = "running" /\ step = "fulltext"
      BY <1>6 DEF FulltextArm, At
    <2>2. PICK ranking \in Rankings : \E best \in Tops(Fused(ranking), ResultLimit) :
            Found([n \in best |-> Fused(ranking)[n]])
      BY <1>6 DEF FulltextArm
    <2>3. PICK best \in Tops(Fused(ranking), ResultLimit) :
            Found([n \in best |-> Fused(ranking)[n]])
      BY <2>2
    <2>4. best \subseteq DOMAIN Fused(ranking)
      BY <2>3 DEF Tops
    <2>5. /\ DOMAIN Fused(ranking) \subseteq Nodes
          /\ \A n \in DOMAIN Fused(ranking) : Fused(ranking)[n] \in ScoresGiven
      BY <1>1, RankingsAreLists, BothArms
    <2> DEFINE found == [n \in best |-> Fused(ranking)[n]]
    <2>6. DOMAIN found \subseteq Nodes /\ \A n \in DOMAIN found : found[n] \in ScoresGiven
      BY <2>4, <2>5
    <2> HIDE DEF found
    <2> QED BY <1>2, <2>1, <2>3, <2>6 DEF found
  <1> QED BY <1>3, <1>4, <1>5, <1>6 DEF TierSteps

LEMMA OthersKeep ==
  ASSUME RequestsInv, OtherProcess, UNCHANGED workflow
  PROVE  RequestsInv'
  <1>1. /\ present' \subseteq Nodes /\ traced' \subseteq Nodes
        /\ changes' = changes + 1 /\ changes < MaxChanges /\ cites' = cites
        /\ UNCHANGED <<status, step, search, calling, cascade, turns>> /\ status = "running"
    BY DEF OtherProcess, Meanwhile, Merged, Committed, Compensated, Changed,
           RequestsInv, TypeOK, EvidenceTypeOK
  <1> USE DEF RequestsInv, search, calling, cascade, workflow
  <1>2. TypeOK' /\ changes' # 0
    BY <1>1, EvidenceAssumption DEF TypeOK, EvidenceTypeOK
  <1>3. SearchInv' /\ EmailInv'
    BY <1>1, <1>2 DEF SearchInv, EmailInv
  <1>4. QueryInv' /\ WorkflowInv' /\ TurnInv'
    BY <1>1 DEF QueryInv, WorkflowInv, TurnInv
  <1>5. CascadeSide'
    BY <1>1, CascadeAlone
  <1> QED BY <1>2, <1>3, <1>4, <1>5 DEF CascadeSide

-----------------------------------------------------------------------------
(* The calls of a language model *)

\* A call is answered, with whatever citations.
LEMMA CallAnswered ==
  ASSUME RequestsInv, status = "running", kind # "email", step \in {"tools", "walk"},
         Answered, cites' \subseteq Nodes \cup {Whole}, used' \in 0 .. MaxToolCalls + 1,
         UNCHANGED <<cascade, turns, queries, sender, reply, failed>>
  PROVE  RequestsInv'
  <1>1. left # 0 /\ left \in 0 .. MaxCalls /\ MaxCalls \in Nat
    BY RetrievalAssumption DEF RequestsInv, TurnInv, TypeOK
  <1>2. left' \in 0 .. MaxCalls /\ step' \in {"tools", "follow up"} /\ (step' = "tools" => left' # 0)
    <2>1. left' = left - 1 /\ step' = IF left = 1 THEN "follow up" ELSE "tools"
      BY DEF Answered
    <2>2. left - 1 \in 0 .. MaxCalls
      BY <1>1
    <2>3. left # 1 => left - 1 # 0
      BY <1>1
    <2> QED BY <2>1, <2>2, <2>3
  <1> USE DEF RequestsInv, Answered, graph, search, cascade
  <1>3. TypeOK'
    BY <1>2 DEF TypeOK, EvidenceTypeOK
  <1>4. SearchInv' /\ EmailInv'
    BY DEF SearchInv, EmailInv
  <1>5. QueryInv'
    BY <1>2, Place, StepsAre DEF QueryInv, AgentSteps
  <1>6. WorkflowInv' /\ TurnInv'
    BY <1>2 DEF WorkflowInv, TurnInv, AgentSteps
  <1>7. CascadeSide'
    BY CascadeAlone
  <1> QED BY <1>3, <1>4, <1>5, <1>6, <1>7 DEF CascadeSide

\* The steps of a call that walks the neighbors of a node.
LEMMA CallWalks ==
  ASSUME RequestsInv, status = "running", kind # "email", step \in {"tools", "walk"},
         step' = "walk", walk' \subseteq Nodes, cites' \subseteq Nodes \cup {Whole},
         used' \in 0 .. MaxToolCalls + 1,
         UNCHANGED <<graph, status, search, left, cascade, turns, queries, sender, reply, failed>>
  PROVE  RequestsInv'
  <1> USE DEF RequestsInv, graph, search, cascade
  <1>1. TypeOK'
    BY DEF TypeOK, EvidenceTypeOK
  <1>2. SearchInv' /\ EmailInv'
    BY DEF SearchInv, EmailInv
  <1>3. QueryInv'
    BY Place, StepsAre DEF QueryInv, AgentSteps
  <1>4. WorkflowInv' /\ TurnInv'
    BY DEF WorkflowInv, TurnInv, AgentSteps
  <1>5. CascadeSide'
    BY CascadeAlone
  <1> QED BY <1>1, <1>2, <1>3, <1>4, <1>5 DEF CascadeSide

\* What a tool cites.
LEMMA ToolsCite ==
  ASSUME RequestsInv, AllTools
  PROVE  /\ status = "running" /\ step = "tools"
         /\ \/ Answered /\ cites' \subseteq Nodes \cup {Whole}
            \/ \E n \in Nodes : Neighbors(n)
  <1>1. /\ cites \subseteq Nodes \cup {Whole} /\ present \subseteq Nodes
        /\ \A nodes \in SUBSET Nodes :
             Cite(nodes) => cites' \subseteq Nodes \cup {Whole}
    BY DEF RequestsInv, TypeOK, EvidenceTypeOK, Cite, CitationsOf
  <1>2. ASSUME NEW limit, Listed(limit)
        PROVE  status = "running" /\ step = "tools" /\ Answered /\ cites' \subseteq Nodes \cup {Whole}
    BY <1>1, <1>2 DEF Listed, AtMost, At
  <1>3. ASSUME NEW n \in Nodes, GetNode(n) \/ VfsStat(n)
        PROVE  status = "running" /\ step = "tools" /\ Answered /\ cites' \subseteq Nodes \cup {Whole}
    BY <1>1, <1>3 DEF GetNode, VfsStat, At
  <1>4. ASSUME NEW n \in Nodes, VfsCat(n)
        PROVE  status = "running" /\ step = "tools" /\ Answered /\ cites' \subseteq Nodes \cup {Whole}
    BY <1>1, <1>4 DEF VfsCat, At, RawEvidence, CitationsOf
  <1>5. ASSUME GetSourceRecord \/ CallRefused \/ VfsTree
        PROVE  status = "running" /\ step = "tools" /\ Answered /\ cites' \subseteq Nodes \cup {Whole}
    BY <1>1, <1>5 DEF GetSourceRecord, CallRefused, VfsTree, At
  <1>6. ASSUME PatternQuery
        PROVE  status = "running" /\ step = "tools" /\ Answered /\ cites' \subseteq Nodes \cup {Whole}
    BY <1>1, <1>6 DEF PatternQuery, AtMost, At
  <1>7. ASSUME NEW n \in Nodes, Neighbors(n)
        PROVE  status = "running" /\ step = "tools" /\ \E m \in Nodes : Neighbors(m)
    BY <1>7 DEF Neighbors, At
  <1> QED BY <1>2, <1>3, <1>4, <1>5, <1>6, <1>7
          DEF AllTools, TheThreeTools, FulltextSearch, VectorSearch, VfsLs, VfsGrep, VfsFind

\* A call of one of the tools, of a query or of a thread that counts it.
LEMMA ToolKeeps ==
  ASSUME RequestsInv, kind # "email", AllTools, used' \in 0 .. MaxToolCalls + 1,
         UNCHANGED <<cascade, turns, queries, sender, reply, failed>>
  PROVE  RequestsInv'
  <1>1. status = "running" /\ step = "tools"
    BY ToolsCite
  <1>2. CASE Answered /\ cites' \subseteq Nodes \cup {Whole}
    BY <1>1, <1>2, CallAnswered
  <1>3. ASSUME NEW n \in Nodes, Neighbors(n)
        PROVE  RequestsInv'
    <2>1. cites' = cites /\ cites \subseteq Nodes \cup {Whole} /\ walk' \subseteq Nodes
      BY <1>3 DEF Neighbors, AtMost, RequestsInv, TypeOK, EvidenceTypeOK
    <2>2. step' = "walk" /\ UNCHANGED <<graph, status, search, left>>
      BY <1>3 DEF Neighbors
    <2> QED BY <1>1, <2>1, <2>2, CallWalks
  <1> QED BY <1>2, <1>3, ToolsCite

\* A step of the walk of get_neighbors.
LEMMA WalkKeeps ==
  ASSUME RequestsInv, kind # "email", (\E n \in Nodes : Visit(n)) \/ EndWalk,
         UNCHANGED <<cascade, turns, workflow>>
  PROVE  RequestsInv'
  <1>1. /\ cites \subseteq Nodes \cup {Whole} /\ walk \subseteq Nodes
        /\ used' \in 0 .. MaxToolCalls + 1
    BY DEF RequestsInv, TypeOK, EvidenceTypeOK, workflow
  <1>2. CASE EndWalk
    BY <1>1, <1>2, CallAnswered DEF EndWalk, At, workflow
  <1>3. ASSUME NEW n \in Nodes, Visit(n)
        PROVE  RequestsInv'
    <2>1. /\ status = "running" /\ step = "walk" /\ step' = "walk"
          /\ walk' \subseteq Nodes /\ cites' \subseteq Nodes \cup {Whole}
          /\ UNCHANGED <<graph, status, search, left>>
      BY <1>1, <1>3 DEF Visit, At, Cite, CitationsOf
    <2> QED BY <1>1, <2>1, CallWalks DEF workflow
  <1> QED BY <1>2, <1>3

\* A turn of the model, of a query or of a thread.
LEMMA RepliesKeep ==
  ASSUME RequestsInv, status = "running", NEW n \in 0 .. MaxCalls, Replies(n),
         \/ kind = "query" /\ step \in {"agentic", "follow up"}
         \/ kind = "thread" /\ step \in {"brief", "follow up"},
         UNCHANGED <<cascade, turns, workflow>>
  PROVE  RequestsInv'
  <1> USE DEF RequestsInv, Replies, graph, search, cascade, workflow
  <1>1. TypeOK'
    BY DEF TypeOK, EvidenceTypeOK
  <1>2. SearchInv' /\ EmailInv'
    BY DEF SearchInv, EmailInv
  <1>3. QueryInv'
    BY Place, StepsAre DEF QueryInv, AgentSteps
  <1>4. WorkflowInv' /\ TurnInv'
    BY DEF WorkflowInv, TurnInv, AgentSteps
  <1>5. CascadeSide'
    BY CascadeAlone
  <1> QED BY <1>1, <1>2, <1>3, <1>4, <1>5 DEF CascadeSide

-----------------------------------------------------------------------------
(* A result in the cascade *)

LEMMA Sorted ==
  ASSUME NEW s \in Seq(Tiers), s # <<>>, InCascadeOrder(s)
  PROVE  InCascadeOrder(Tail(s)) /\ Head(s) \notin ToSet(Tail(s))
  <1> DEFINE n == Len(s)
  <1>1. /\ n \in Nat /\ DOMAIN s = 1 .. n /\ \A i \in 1 .. n : s[i] \in Tiers
        /\ Tail(s) \in Seq(Tiers) /\ Len(Tail(s)) = n - 1 /\ DOMAIN Tail(s) = 1 .. n - 1
        /\ \A i \in 1 .. n - 1 : Tail(s)[i] = s[i + 1]
    BY SetOf, LenProperties
  <1>2. \A i, j \in 1 .. n : i < j => Position[s[i]] < Position[s[j]]
    BY <1>1 DEF InCascadeOrder
  <1>3. InCascadeOrder(Tail(s))
    <2>1. ASSUME NEW i \in 1 .. n - 1, NEW j \in 1 .. n - 1, i < j
          PROVE  Position[Tail(s)[i]] < Position[Tail(s)[j]]
      <3>1. i + 1 \in 1 .. n /\ j + 1 \in 1 .. n /\ i + 1 < j + 1
        BY <1>1, <2>1
      <3> QED BY <1>1, <1>2, <3>1
    <2> QED BY <1>1, <2>1 DEF InCascadeOrder
  <1>4. Head(s) \notin ToSet(Tail(s))
    <2>1. Head(s) = s[1] /\ 1 \in 1 .. n
      BY <1>1, EmptySeq
    <2>2. ASSUME NEW i \in 1 .. n - 1 PROVE Tail(s)[i] # s[1]
      <3>1. i + 1 \in 1 .. n /\ 1 < i + 1
        BY <1>1
      <3>2. Position[s[1]] < Position[s[i + 1]]
        BY <1>2, <2>1, <3>1
      <3>3. s[1] \in Tiers /\ s[i + 1] \in Tiers
        BY <1>1, <2>1, <3>1
      <3> QED BY <1>1, <3>2, <3>3, TheOrder
    <2>3. ToSet(Tail(s)) = {Tail(s)[i] : i \in 1 .. n - 1}
      BY <1>1 DEF ToSet
    <2> QED BY <2>1, <2>2, <2>3
  <1> QED BY <1>3, <1>4

\* The list goes on without its head, and a tier it may be rerouted to is next.
LEMMA ListGoesOn ==
  ASSUME ListInv, ordered # <<>>, NEW route, NEW list,
         list \in {Onward(route), Tail(ordered)}
  PROVE  /\ list \in Seq(Tiers) /\ ToSet(list) = ToSet(ordered) \ {Head(ordered)}
         /\ list # <<>> => /\ InCascadeOrder(Tail(list)) /\ Head(list) \notin ToSet(Tail(list))
                           /\ Head(list) # route => InCascadeOrder(list)
         /\ list = Onward(route) /\ Honored(route) =>
              list # <<>> /\ Head(list) = route /\ route \in Tiers
         /\ ~ Honored(route) => list = Tail(ordered)
         /\ list = Tail(ordered) => InCascadeOrder(list)
  <1> DEFINE rest == Tail(ordered)
  <1>1. /\ rest \in Seq(Tiers) /\ InCascadeOrder(rest)
        /\ ToSet(rest) = ToSet(ordered) \ {Head(ordered)} /\ ToSet(rest) \subseteq Tiers
    BY SetOf DEF ListInv
  <1>2. rest # <<>> => InCascadeOrder(Tail(rest)) /\ Head(rest) \notin ToSet(Tail(rest))
    BY <1>1, Sorted
  <1>3. CASE ~ Honored(route) \/ list = rest
    <2>1. list = rest
      BY <1>3 DEF Onward
    <2> HIDE DEF rest
    <2>2. Honored(route) /\ list = Onward(route) => rest # <<>> /\ Head(rest) = route
      <3>1. ASSUME Honored(route), list = Onward(route) PROVE Head(rest) = route /\ rest # <<>>
        <4>1. list = <<route>> \o RemoveFirst(rest, route) /\ route \in ToSet(rest)
          BY <3>1 DEF Onward, Honored, rest
        <4>2. RemoveFirst(rest, route) \in Seq(Tiers) /\ route \in Tiers
          BY <1>1, <4>1, Removed
        <4> QED BY <2>1, <4>1, <4>2, Put
      <3> QED BY <3>1
    <2>3. Honored(route) => route \in Tiers
      BY <1>1 DEF Honored, rest
    <2> QED BY <1>1, <1>2, <2>1, <2>2, <2>3 DEF rest
  <1>4. CASE Honored(route) /\ list = Onward(route)
    <2> DEFINE others == RemoveFirst(rest, route)
    <2>1. list = <<route>> \o others /\ route \in ToSet(rest) /\ route \in Tiers
      BY <1>1, <1>4 DEF Onward, Honored
    <2>2. /\ others \in Seq(Tiers) /\ InCascadeOrder(others)
          /\ ToSet(others) = ToSet(rest) \ {route}
      BY <1>1, Removed
    <2> HIDE DEF others, rest
    <2>3. /\ list \in Seq(Tiers) /\ list # <<>> /\ Head(list) = route /\ Tail(list) = others
          /\ ToSet(list) = {route} \cup ToSet(others)
      BY <2>1, <2>2, Put
    <2>4. ToSet(list) = ToSet(rest)
      BY <2>1, <2>2, <2>3
    <2>5. list = rest => InCascadeOrder(list)
      BY <1>1
    <2> QED BY <1>1, <1>4, <2>1, <2>2, <2>3, <2>4, <2>5 DEF rest
  <1> QED BY <1>3, <1>4

LEMMA Limits ==
  /\ Threshold["exact"] = 500 /\ Threshold["router"] = 500 /\ Threshold["hybrid"] = 600
  /\ Threshold["agentic"] = 500 /\ Threshold["stub"] = 0
  /\ \A score \in ScoresGiven : score \in Nat
  <1>1. CertainScore = 1000
    BY DEF CertainScore
  <1>2. \A score \in ScoresGiven : score \in Nat
    BY <1>1, ScoresBounded
  <1> QED BY <1>2 DEF Threshold

\* A result of the current tier.  The agent's is good enough only with citations,
\* and the stub has none.
LEMMA DeliverKeeps ==
  ASSUME RequestsInv, kind = "query", status = "running",
         NEW relevance \in ScoresGiven, NEW route \in {NoTier, "hybrid", "agentic"},
         Deliver(relevance, route), UNCHANGED workflow,
         Head(ordered) = "agentic" => relevance < 500 \/ cites # {},
         Head(ordered) = "stub" => cites = {}
  PROVE  RequestsInv'
  <1> DEFINE tier == Head(ordered)
             escalates == relevance < Threshold[tier]
             result == [tier_used |-> tier, relevance |-> relevance,
                        route_to |-> route, cites |-> cites]
  <1>1. /\ results' = Append(results, result)
        /\ ordered' = IF escalates THEN Onward(route) ELSE Tail(ordered)
        /\ routed' = IF escalates /\ Honored(route) THEN route ELSE routed
        /\ \/ escalates /\ ordered' # <<>> /\ step' = Head(ordered') /\ status' = "running"
           \/ ~ (escalates /\ ordered' # <<>>) /\ status' = "answered" /\ step' = "none"
        /\ cites' = {} /\ hits' = NoHits /\ turns' = 0
        /\ UNCHANGED <<graph, vector, calling, kind, prefer>>
    BY DEF Deliver
  <1>2. /\ ordered # <<>> /\ ordered \in Seq(Tiers) /\ tier \in Tiers
        /\ "stub" \in ToSet(ordered) /\ ListInv /\ FrontInv
        /\ results \in Seq(Results) /\ cites \in SUBSET (Nodes \cup {Whole})
    BY Place DEF RequestsInv, QueryInv, ResultsInv, TypeOK, EvidenceTypeOK
  <1> HIDE DEF tier, escalates
  <1>3. /\ ordered' \in Seq(Tiers) /\ ToSet(ordered') = ToSet(ordered) \ {tier}
        /\ ordered' # <<>> => /\ InCascadeOrder(Tail(ordered')) /\ Head(ordered') \notin ToSet(Tail(ordered'))
                              /\ Head(ordered') # route => InCascadeOrder(ordered')
        /\ escalates /\ Honored(route) => ordered' # <<>> /\ Head(ordered') = route
        /\ ~ (escalates /\ Honored(route)) => InCascadeOrder(ordered')
    BY <1>1, <1>2, ListGoesOn DEF tier
  <1>4. results' \in Seq(Results) /\ results' # <<>> /\ Last(results') = result
    <2>1. route \in Tiers \cup {NoTier}
      BY TheOrder
    <2>2. result \in Results
      BY <1>2, <2>1 DEF Results
    <2> HIDE DEF result
    <2> QED BY <1>1, <1>2, <2>2, AppendProperties DEF Last
  <1>5. FreshInv'
    BY <1>1 DEF RequestsInv, FreshInv
  <1>6. ListInv'
    BY <1>1, <1>3 DEF ListInv
  <1>7. FrontInv'
    <2>1. routed' \in Tiers \cup {NoTier} /\ prefer' = prefer
      <3>1. Honored(route) => route \in Tiers
        BY <1>2, ListGoesOn DEF Honored
      <3> QED BY <1>1, <1>2, <3>1 DEF FrontInv
    <2>2. ASSUME prefer \in Tiers PROVE prefer \notin ToSet(ordered')
      BY <1>2, <1>3, <2>2 DEF FrontInv, tier
    <2>3. ASSUME routed' \in ToSet(ordered') PROVE Head(ordered') = routed'
      <3>1. CASE escalates /\ Honored(route)
        BY <1>1, <1>3, <3>1
      <3>2. CASE ~ (escalates /\ Honored(route))
        <4>1. routed' = routed /\ routed \in ToSet(ordered) /\ routed # tier
          BY <1>1, <1>3, <2>3, <3>2
        <4> QED BY <1>2, <4>1 DEF FrontInv, tier
      <3> QED BY <3>1, <3>2
    <2> QED BY <1>2, <1>4, <2>1, <2>2, <2>3 DEF FrontInv
  <1>8. ResultsInv'
    BY <1>4 DEF ResultsInv
  <1>9. tier = "stub" => ~ escalates
    BY Limits DEF escalates
  <1>10. status' = "running" => "stub" \in ToSet(ordered') /\ ordered' # <<>>
    BY <1>1, <1>2, <1>3, <1>9
  <1>11. status' = "answered" /\ escalates => ordered' = <<>>
    BY <1>1
  <1>12. AnswersTrusted'
    <2>1. ASSUME status' = "answered", tier = "agentic" PROVE cites # {}
      <3>1. CASE escalates
        <4>1. ToSet(ordered') = {}
          BY <1>11, <2>1, <3>1, NoElements
        <4> QED BY <1>2, <1>3, <2>1, <4>1
      <3>2. CASE ~ escalates
        <4>1. ~ (relevance < 500)
          BY <2>1, <3>2, Limits DEF escalates
        <4> QED BY <2>1, <4>1 DEF tier
      <3> QED BY <3>1, <3>2
    <2>2. tier = "stub" => cites = {}
      BY DEF tier
    <2>3. result.tier_used = tier /\ result.cites = cites
      OBVIOUS
    <2> HIDE DEF result
    <2> QED BY <1>4, <2>1, <2>2, <2>3 DEF AnswersTrusted
  <1>13. status' = "running" => step' \in Tiers /\ step' = Head(ordered')
    BY <1>1, <1>3, SetOf
  <1>14. TypeOK'
    <2>1. EvidenceTypeOK'
      BY <1>1 DEF RequestsInv, TypeOK, EvidenceTypeOK, graph
    <2>2. DOMAIN hits' = {}
      BY <1>1 DEF NoHits
    <2>3. (status' = "running") = (step' # "none")
      BY <1>1, <1>13, TheOrder
    <2>4. status' \in {"running", "answered"}
      BY <1>1
    <2>5. turns' \in 0 .. MaxIterations + 1
      BY <1>1, RetrievalAssumption
    <2> QED BY <1>1, <2>1, <2>2, <2>3, <2>4, <2>5 DEF RequestsInv, TypeOK, calling, workflow
  <1>15. SearchInv'
    BY <1>1 DEF RequestsInv, SearchInv, NoHits
  <1>16. QueryInv'
    <2>1. ASSUME status' = "running" PROVE step' \in StepsOf[Head(ordered')]
      BY <1>13, <2>1, TheOrder, StepsAre
    <2> QED BY <1>1, <1>10, <2>1 DEF QueryInv
  <1>17. WorkflowInv' /\ EmailInv'
    BY <1>1 DEF WorkflowInv, EmailInv
  <1>18. TurnInv'
    <2>1. 0 <= MaxIterations
      BY RetrievalAssumption
    <2> QED BY <1>1, <1>13, <2>1, TheOrder DEF TurnInv
  <1> QED BY <1>5, <1>6, <1>7, <1>8, <1>12, <1>14, <1>15, <1>16, <1>17, <1>18 DEF RequestsInv

\* The list of a new query.
LEMMA ListOfQuery ==
  ASSUME NEW list, NEW tier,
         list = IF tier \in Tiers THEN Preferred(tier) ELSE CascadeOrder
  PROVE  /\ list \in Seq(Tiers) /\ list # <<>> /\ ToSet(list) = Tiers /\ Head(list) \in Tiers
         /\ InCascadeOrder(Tail(list)) /\ Head(list) \notin ToSet(Tail(list))
         /\ tier \in Tiers => Head(list) = tier
         /\ tier \notin Tiers => InCascadeOrder(list)
  <1>1. CascadeOrder \in Seq(Tiers) /\ CascadeOrder # <<>> /\ ToSet(CascadeOrder) = Tiers
    <2>1. Len(CascadeOrder) # 0
      BY TheOrder
    <2> QED BY <2>1, TheOrder, EmptySeq DEF Tiers
  <1>2. CASE tier \in Tiers
    <2> DEFINE others == RemoveFirst(CascadeOrder, tier)
    <2>1. /\ others \in Seq(Tiers) /\ InCascadeOrder(others)
          /\ ToSet(others) = Tiers \ {tier}
      BY <1>1, Removed, TheOrder
    <2>2. list = <<tier>> \o others
      BY <1>2 DEF Preferred
    <2> HIDE DEF others
    <2>3. /\ list \in Seq(Tiers) /\ list # <<>> /\ Head(list) = tier /\ Tail(list) = others
          /\ ToSet(list) = {tier} \cup ToSet(others)
      <3> DEFINE put == <<tier>> \o others
      <3>1. /\ put \in Seq(Tiers) /\ put # <<>> /\ Head(put) = tier /\ Tail(put) = others
            /\ ToSet(put) = {tier} \cup ToSet(others)
        BY <1>2, <2>1, Put
      <3> HIDE DEF put
      <3>2. list = put
        BY <2>2 DEF put
      <3> QED BY <3>1, <3>2
    <2> QED BY <1>2, <2>1, <2>3
  <1>3. CASE tier \notin Tiers
    BY <1>1, <1>3, Sorted, TheOrder, SetOf
  <1> QED BY <1>2, <1>3

LEMMA AskKeeps ==
  ASSUME RequestsInv, NEW tier \in Tiers \cup {Foreign, NoTier}, Ask(tier), UNCHANGED workflow
  PROVE  RequestsInv'
  <1>1. /\ kind = "none" /\ ordered = CascadeOrder /\ prefer = NoTier /\ routed = NoTier
        /\ results = <<>> /\ cites = {} /\ walk = {} /\ turns = 0
    BY DEF Ask, RequestsInv, FreshInv
  <1>2. /\ kind' = "query" /\ prefer' = tier
        /\ UNCHANGED <<graph, cites, search, calling, routed, results, turns>>
        /\ \/ tier = Foreign /\ status' = "raised" /\ step' = "none" /\ ordered' = ordered
           \/ /\ tier # Foreign /\ status' = "running" /\ step' = Head(ordered')
              /\ ordered' = IF tier \in Tiers THEN Preferred(tier) ELSE CascadeOrder
    BY DEF Ask, Raise
  <1>3. Foreign \notin Tiers /\ NoTier \notin Tiers
    BY TheOrder, RetrievalAssumption
  <1>4. ordered' = IF tier \in Tiers THEN Preferred(tier) ELSE CascadeOrder
    BY <1>1, <1>2, <1>3
  <1>5. /\ ordered' \in Seq(Tiers) /\ ordered' # <<>> /\ ToSet(ordered') = Tiers
        /\ Head(ordered') \in Tiers
        /\ InCascadeOrder(Tail(ordered')) /\ Head(ordered') \notin ToSet(Tail(ordered'))
        /\ tier \in Tiers => Head(ordered') = tier
        /\ tier \notin Tiers => InCascadeOrder(ordered')
    BY <1>4, ListOfQuery
  <1>6. /\ status' \in {"running", "raised"}
        /\ status' = "running" => step' = Head(ordered') /\ step' \in Tiers
        /\ status' = "raised" => step' = "none"
    BY <1>2, <1>5
  <1>7. TypeOK'
    <2>1. EvidenceTypeOK'
      BY <1>2 DEF RequestsInv, TypeOK, EvidenceTypeOK, graph
    <2>2. (status' = "running") = (step' # "none")
      BY <1>6, TheOrder
    <2> QED BY <1>2, <1>6, <2>1, <2>2 DEF RequestsInv, TypeOK, search, calling, workflow
  <1>8. FreshInv' /\ WorkflowInv' /\ EmailInv'
    BY <1>2, <1>6 DEF FreshInv, WorkflowInv, EmailInv
  <1>9. SearchInv'
    BY <1>2 DEF RequestsInv, SearchInv, search
  <1>10. ListInv'
    BY <1>2, <1>5 DEF ListInv
  <1>11. FrontInv'
    <2>1. routed' = NoTier /\ results' = <<>> /\ prefer' = tier
      BY <1>1, <1>2
    <2> QED BY <1>3, <1>5, <2>1 DEF FrontInv
  <1>12. ResultsInv' /\ AnswersTrusted'
    BY <1>2, <1>6 DEF RequestsInv, ResultsInv, AnswersTrusted
  <1>13. QueryInv'
    <2>1. status' = "running" => step' \in StepsOf[Head(ordered')] /\ "stub" \in ToSet(ordered')
      BY <1>5, <1>6, TheOrder, StepsAre
    <2> QED BY <1>1, <1>2, <1>5, <2>1 DEF QueryInv
  <1>14. TurnInv'
    <2>1. 0 <= MaxIterations
      BY RetrievalAssumption
    <2> QED BY <1>1, <1>2, <1>6, <2>1, TheOrder DEF TurnInv
  <1> QED BY <1>7, <1>8, <1>9, <1>10, <1>11, <1>12, <1>13, <1>14 DEF RequestsInv

-----------------------------------------------------------------------------
(* The steps of a query *)

\* A request that ends without a result in the cascade.
LEMMA EndKeeps ==
  ASSUME RequestsInv, status = "running", status' \in {"raised", "answered"}, step' = "none",
         status' = "answered" => kind # "query",
         kind = "email" => status' = "answered" \/ failed' \/ changes # 0,
         failed => failed', used' \in 0 .. MaxToolCalls + 1,
         UNCHANGED <<graph, cites, search, calling, cascade, turns, queries, sender>>
  PROVE  RequestsInv'
  <1> USE DEF RequestsInv, graph, search, calling, cascade
  <1>1. TypeOK'
    BY DEF TypeOK, EvidenceTypeOK
  <1>2. SearchInv' /\ EmailInv'
    BY DEF SearchInv, EmailInv
  <1>3. QueryInv' /\ WorkflowInv' /\ TurnInv'
    BY DEF QueryInv, WorkflowInv, TurnInv
  <1>4. CascadeSide'
    BY CascadeAlone
  <1> QED BY <1>1, <1>2, <1>3, <1>4 DEF CascadeSide

LEMMA LookupKeeps ==
  ASSUME RequestsInv, kind = "query", status = "running", step = "router", step' = "exact",
         UNCHANGED <<graph, cites, status, search, calling, cascade, turns, workflow>>
  PROVE  RequestsInv'
  <1> USE DEF RequestsInv, graph, search, calling, cascade, workflow
  <1>1. TypeOK'
    BY DEF TypeOK, EvidenceTypeOK
  <1>2. SearchInv' /\ EmailInv'
    BY DEF SearchInv, EmailInv
  <1>3. QueryInv'
    BY Place, StepsAre DEF QueryInv
  <1>4. WorkflowInv' /\ TurnInv'
    BY DEF WorkflowInv, TurnInv
  <1>5. CascadeSide'
    BY CascadeAlone
  <1> QED BY <1>1, <1>2, <1>3, <1>4, <1>5 DEF CascadeSide

LEMMA TurnKeeps ==
  ASSUME RequestsInv, Turn, UNCHANGED workflow
  PROVE  RequestsInv'
  <1>1. kind = "query" /\ status = "running" /\ step = "turn"
    BY DEF Turn, At
  <1>2. turns' \in 0 .. MaxIterations + 1
    <2>1. turns \in 0 .. MaxIterations + 1 /\ turns <= MaxIterations /\ MaxIterations \in Nat
      BY <1>1, RetrievalAssumption DEF RequestsInv, TypeOK, TurnInv
    <2> QED BY <2>1 DEF Turn, Counted
  <1>3. /\ step' \in {"tools", "overrun"} /\ (step' # "overrun" => turns' <= MaxIterations)
        /\ UNCHANGED <<graph, cites, status, search, calling, cascade>>
    BY DEF Turn
  <1> USE <1>1, <1>3 DEF RequestsInv, graph, search, calling, cascade, workflow
  <1>4. TypeOK'
    BY <1>2 DEF TypeOK, EvidenceTypeOK
  <1>5. SearchInv' /\ EmailInv'
    BY DEF SearchInv, EmailInv
  <1>6. QueryInv'
    BY Place, StepsAre DEF QueryInv, AgentSteps
  <1>7. WorkflowInv' /\ TurnInv'
    BY DEF WorkflowInv, TurnInv
  <1>8. CascadeSide'
    BY CascadeAlone
  <1> QED BY <1>4, <1>5, <1>6, <1>7, <1>8 DEF CascadeSide

\* Every result of a tier: its relevance is a score, the agent's is good enough only
\* with citations, and the stub comes with none.
Delivers(relevance, route) ==
  /\ kind = "query" /\ status = "running" /\ Deliver(relevance, route)
  /\ Head(ordered) = "agentic" => relevance < 500 \/ cites # {}
  /\ Head(ordered) = "stub" => cites = {}

Routes == {NoTier, "hybrid", "agentic"}

LEMMA ResultsOfTiers ==
  ASSUME RequestsInv, DeliverFound \/ DeliverNothing \/ Overrun \/ Answer
  PROVE  \E relevance \in ScoresGiven, route \in Routes : Delivers(relevance, route)
  <1> USE DEF Delivers, Routes
  <1>1. CASE DeliverFound
    <2>1. kind = "query" /\ status = "running" /\ step = "found" /\ Deliver(Best(hits), NoTier)
      BY <1>1 DEF DeliverFound, At
    <2>2. Best(hits) \in ScoresGiven
      BY BestIsAScore DEF RequestsInv, SearchInv
    <2>3. Head(ordered) \notin {"agentic", "stub"}
      BY <2>1, Place
    <2> QED BY <2>1, <2>2, <2>3
  <1>2. CASE DeliverNothing
    <2>1. kind = "query" /\ status = "running" /\ step = "stub" /\ Deliver(0, NoTier)
      BY <1>2 DEF DeliverNothing, At
    <2>2. Head(ordered) = "stub" /\ cites = {}
      BY <2>1, Place DEF RequestsInv, QueryInv
    <2>3. 0 \in ScoresGiven
      BY DEF ScoresGiven, Failed
    <2> QED BY <2>1, <2>2, <2>3
  <1>3. CASE Overrun
    <2>1. kind = "query" /\ status = "running" /\ step = "overrun" /\ Deliver(Failed, NoTier)
      BY <1>3 DEF Overrun, At
    <2>2. Head(ordered) = "agentic"
      BY <2>1, Place
    <2>3. Failed \in ScoresGiven /\ Failed < 500
      BY DEF ScoresGiven, Failed
    <2> QED BY <2>1, <2>2, <2>3
  <1>4. CASE Answer
    <2>1. /\ kind = "query" /\ status = "running" /\ step = "answer"
          /\ Deliver(AnswerRelevance(cites # {}), NoTier)
      BY <1>4 DEF Answer, At
    <2>2. Head(ordered) = "agentic"
      BY <2>1, Place DEF AgentSteps
    <2>3. /\ AnswerRelevance(cites # {}) \in ScoresGiven
          /\ AnswerRelevance(cites # {}) < 500 \/ cites # {}
      BY DEF AnswerRelevance, ScoresGiven, Grounded, Ungrounded
    <2> QED BY <2>1, <2>2, <2>3
  <1> QED BY <1>1, <1>2, <1>3, <1>4

LEMMA ResultOfRouter ==
  ASSUME RequestsInv, NEW decision \in Decisions, Classify(decision)
  PROVE  \/ /\ kind = "query" /\ status = "running" /\ step = "router" /\ step' = "exact"
            /\ UNCHANGED <<graph, cites, status, search, calling, cascade, turns>>
         \/ \E relevance \in ScoresGiven, route \in Routes : Delivers(relevance, route)
  <1>1. kind = "query" /\ status = "running" /\ step = "router" /\ Head(ordered) = "router"
    BY Place DEF Classify, At
  <1>2. CASE Intent(decision) # "lookup" /\ Deliver(0, NextTierFor[Intent(decision)])
    <2>1. Intent(decision) \in {"search", "analytical", "ambiguous"}
      BY <1>2 DEF Intent, Decisions, Intents
    <2>2. NextTierFor[Intent(decision)] \in Routes
      BY <2>1 DEF NextTierFor, Routes
    <2>3. 0 \in ScoresGiven
      BY DEF ScoresGiven, Failed
    <2> QED BY <1>1, <1>2, <2>2, <2>3 DEF Delivers
  <1> QED BY <1>1, <1>2 DEF Classify

LEMMA QueryKeeps ==
  ASSUME RequestsInv, QueryStep, UNCHANGED workflow
  PROVE  RequestsInv'
  <1>1. ASSUME NEW relevance \in ScoresGiven, NEW route \in Routes, Delivers(relevance, route)
        PROVE  RequestsInv'
    BY <1>1, DeliverKeeps DEF Delivers, Routes
  <1>2. CASE DeliverFound \/ DeliverNothing \/ Overrun \/ Answer
    BY <1>1, <1>2, ResultsOfTiers
  <1>3. ASSUME NEW decision \in Decisions, Classify(decision)
        PROVE  RequestsInv'
    BY <1>1, <1>3, ResultOfRouter, LookupKeeps
  <1>4. CASE Tools
    <2>1. kind = "query" /\ UNCHANGED <<cascade, turns>>
      BY <1>4 DEF Tools
    <2>2. CASE AllTools
      <3>1. used' \in 0 .. MaxToolCalls + 1
        BY DEF RequestsInv, TypeOK, workflow
      <3> QED BY <2>1, <2>2, <3>1, ToolKeeps DEF workflow
    <2>3. CASE (\E n \in Nodes : Visit(n)) \/ EndWalk
      BY <2>1, <2>3, WalkKeeps
    <2> QED BY <1>4, <2>2, <2>3 DEF Tools
  <1>5. CASE Failing
    <2>1. used' \in 0 .. MaxToolCalls + 1
      BY DEF RequestsInv, TypeOK, workflow
    <2> QED BY <1>5, <2>1, EndKeeps DEF Failing, Raise, workflow
  <1>6. ASSUME NEW n \in 0 .. MaxCalls, Start(n) \/ (kind = "query" /\ FollowUp(n))
        PROVE  RequestsInv'
    BY <1>6, RepliesKeep DEF Start, FollowUp, At
  <1> QED BY <1>2, <1>3, <1>4, <1>5, <1>6, AskKeeps, TurnKeeps
          DEF QueryStep

-----------------------------------------------------------------------------
(* The thread summary *)

\* A workflow that goes on at another of its steps, with the searches as they were.
LEMMA WorkflowGoesOn ==
  ASSUME RequestsInv, kind \in {"thread", "email"}, status = "running", status' = "running",
         step' # "none",
         WorkflowInv', left' = left, cites' \subseteq Nodes \cup {Whole},
         walk' \subseteq Nodes, sender' \in Nodes \cup {NoNode}, queries' \in 0 .. MaxQueries,
         kind = "thread" /\ step' \in {"turn", "tools", "walk"} => left # 0,
         step # "overrun",
         kind = "email" /\ changes = 0 /\ ~ failed => walk' \subseteq present,
         UNCHANGED <<graph, search, cascade, turns, used, failed>>
  PROVE  RequestsInv'
  <1> USE DEF RequestsInv, graph, search, cascade
  <1>1. TypeOK'
    BY DEF TypeOK, EvidenceTypeOK
  <1>2. SearchInv'
    BY DEF SearchInv
  <1>3. EmailInv' /\ QueryInv'
    BY DEF EmailInv, QueryInv
  <1>4. TurnInv'
    BY DEF TurnInv
  <1>5. CascadeSide'
    BY CascadeAlone
  <1> QED BY <1>1, <1>2, <1>3, <1>4, <1>5 DEF CascadeSide

\* A step of a workflow: no query is there, and it ends or goes on.
LEMMA WorkflowFresh ==
  ASSUME RequestsInv, status = "asked"
  PROVE  /\ kind = "none" /\ prefer = NoTier /\ routed = NoTier /\ results = <<>>
         /\ ordered = CascadeOrder /\ walk = {} /\ turns = 0
  BY DEF RequestsInv, FreshInv

LEMMA WorkflowAsked ==
  ASSUME RequestsInv, status = "asked", kind' \in {"thread", "email"},
         \/ status' = "answered" /\ step' = "none"
         \/ /\ status' = "running"
            /\ kind' = "thread" => step' \in {"brief", "hybrid"}
            /\ step' = "hybrid" => queries' # 0
            /\ kind' = "email" => step' = "exact",
         queries' \in 0 .. MaxQueries,
         UNCHANGED <<graph, cites, search, calling, prefer, ordered, routed, results, turns,
                     used, sender, failed>>
  PROVE  RequestsInv'
  <1> USE DEF RequestsInv, graph, search, calling
  <1>1. TypeOK'
    BY DEF TypeOK, EvidenceTypeOK
  <1>2. SearchInv'
    BY DEF SearchInv
  <1>3. EmailInv' /\ QueryInv' /\ WorkflowInv'
    BY WorkflowFresh DEF EmailInv, QueryInv, WorkflowInv
  <1>4. TurnInv'
    <2>1. 0 <= MaxIterations
      BY RetrievalAssumption
    <2> QED BY <2>1, WorkflowFresh DEF TurnInv
  <1>5. FreshInv'
    BY WorkflowFresh DEF FreshInv
  <1>6. ListInv'
    BY DEF ListInv, InCascadeOrder
  <1>7. FrontInv' /\ ResultsInv' /\ AnswersTrusted'
    BY DEF FrontInv, ResultsInv, AnswersTrusted
  <1> QED BY <1>1, <1>2, <1>3, <1>4, <1>5, <1>6, <1>7

\* Answers and failures.
LEMMA WorkflowEnds ==
  ASSUME RequestsInv, status = "running", kind \in {"thread", "email"},
         \/ \E relevance, answer : Reply(relevance, answer) /\ failed' = failed
         \/ Raise /\ failed'
         \/ Raise /\ failed' = failed /\ (kind = "email" => changes # 0 \/ failed),
         used' \in 0 .. MaxToolCalls + 1,
         UNCHANGED <<graph, cites, search, calling, cascade, turns, queries, sender>>
  PROVE  RequestsInv'
  <1>1. /\ status' \in {"raised", "answered"} /\ step' = "none" /\ (failed => failed')
        /\ kind = "email" => status' = "answered" \/ failed' \/ changes # 0
    BY DEF Reply, Raise
  <1> QED BY <1>1, EndKeeps

LEMMA ThreadKeeps ==
  ASSUME RequestsInv,
         \/ Harvest \/ ModelFails \/ ThreadTurn \/ ThreadCall \/ ThreadWalk \/ ThreadAnswer
         \/ ThreadFails \/ (\E n \in 0 .. MaxCalls : Brief(n) \/ ThreadFollowUp(n))
  PROVE  RequestsInv'
  <1>1. /\ cites \subseteq Nodes \cup {Whole} /\ walk \subseteq Nodes /\ present \subseteq Nodes
        /\ used \in 0 .. MaxToolCalls + 1 /\ DOMAIN hits \subseteq Nodes
        /\ queries \in 0 .. MaxQueries /\ sender \in Nodes \cup {NoNode}
    BY DEF RequestsInv, TypeOK, EvidenceTypeOK
  <1>2. CASE Harvest
    <2>1. kind = "thread" /\ status = "running" /\ step = "found" /\ queries # 0
      BY <1>2 DEF Harvest, InThread, At, RequestsInv, WorkflowInv
    <2>2. /\ queries' = queries - 1 /\ step' = IF queries = 1 THEN "brief" ELSE "hybrid"
          /\ UNCHANGED <<graph, status, search, calling, cascade, turns, used, sender, reply, failed>>
      BY <1>2 DEF Harvest
    <2>3. queries' \in 0 .. MaxQueries /\ (step' = "hybrid" => queries' # 0)
      <3>1. MaxQueries \in Nat
        BY RequestsAssumption
      <3> QED BY <1>1, <2>1, <2>2, <3>1
    <2>4. cites' \subseteq Nodes \cup {Whole}
      BY <1>1, <1>2 DEF Harvest, Tops, Cite, CitationsOf
    <2>5. WorkflowInv'
      BY <2>1, <2>2, <2>3 DEF WorkflowInv, cascade
    <2> QED BY <1>1, <2>1, <2>2, <2>3, <2>4, <2>5, WorkflowGoesOn DEF calling
  <1>3. CASE ModelFails
    <2>1. kind = "thread" /\ status = "running"
      BY <1>3 DEF ModelFails, InThread, At
    <2> QED BY <1>1, <1>3, <2>1, WorkflowEnds DEF ModelFails, Partial
  <1>4. CASE ThreadTurn
    <2>1. kind = "thread" /\ status = "running" /\ step = "turn" /\ step' = "tools" /\ left # 0
      BY <1>4 DEF ThreadTurn, InThread, At, RequestsInv, TurnInv
    <2>2. UNCHANGED <<graph, cites, status, search, calling, cascade, turns, workflow>>
      BY <1>4 DEF ThreadTurn
    <2>3. WorkflowInv'
      BY <2>1, <2>2 DEF WorkflowInv, cascade, AgentSteps
    <2> QED BY <1>1, <2>1, <2>2, <2>3, WorkflowGoesOn DEF calling, workflow
  <1>5. CASE ThreadCall
    <2>1. kind = "thread" /\ status = "running" /\ step = "tools" /\ used' = used + 1
      BY <1>5 DEF ThreadCall, InThread, At
    <2>2. CASE used < MaxToolCalls /\ TheThreeTools
      <3>1. used' \in 0 .. MaxToolCalls + 1
        BY <1>1, <2>1, <2>2, RequestsAssumption
      <3>2. AllTools
        BY <2>2 DEF AllTools
      <3>3. UNCHANGED <<cascade, turns, queries, sender, reply, failed>>
        <4>1. ~ (used = MaxToolCalls)
          BY <1>1, <2>2, RequestsAssumption
        <4> QED BY <1>5, <4>1 DEF ThreadCall
      <3> QED BY <2>1, <3>1, <3>2, <3>3, ToolKeeps
    <2>3. CASE used = MaxToolCalls /\ Partial
      <3>1. used' \in 0 .. MaxToolCalls + 1
        BY <1>1, <2>1, <2>3, RequestsAssumption
      <3> QED BY <2>1, <2>3, <3>1, WorkflowEnds DEF Partial
    <2> QED BY <1>5, <2>2, <2>3 DEF ThreadCall
  <1>6. CASE ThreadWalk
    <2>1. kind = "thread" /\ ((\E n \in Nodes : Visit(n)) \/ EndWalk)
      BY <1>1, <1>6 DEF ThreadWalk
    <2> QED BY <1>6, <2>1, WalkKeeps DEF ThreadWalk
  <1>7. CASE ThreadAnswer
    <2>1. kind = "thread" /\ status = "running"
      BY <1>7 DEF ThreadAnswer, InThread, At
    <2> QED BY <1>1, <1>7, <2>1, WorkflowEnds DEF ThreadAnswer
  <1>8. CASE ThreadFails
    <2>1. kind = "thread" /\ status = "running"
      BY <1>8 DEF ThreadFails, InThread, At
    <2> QED BY <1>1, <1>8, <2>1, WorkflowEnds DEF ThreadFails, Fails
  <1>9. ASSUME NEW n \in 0 .. MaxCalls, Brief(n) \/ ThreadFollowUp(n)
        PROVE  RequestsInv'
    <2>1. /\ kind = "thread" /\ status = "running" /\ step \in {"brief", "follow up"}
          /\ Replies(n) /\ UNCHANGED <<cascade, turns, workflow>>
      BY <1>9 DEF Brief, ThreadFollowUp, FollowUp, InThread, At
    <2> QED BY <2>1, RepliesKeep
  <1> QED BY <1>2, <1>3, <1>4, <1>5, <1>6, <1>7, <1>8, <1>9

-----------------------------------------------------------------------------
(* The answer to an email *)

LEMMA EmailKeeps ==
  ASSUME RequestsInv,
         \/ Sender \/ Relations \/ (\E n \in Nodes : Relation(n)) \/ SearchBody
         \/ Products \/ Compose \/ EmailFails
  PROVE  RequestsInv'
  <1>1. /\ cites \subseteq Nodes \cup {Whole} /\ walk \subseteq Nodes /\ present \subseteq Nodes
        /\ used \in 0 .. MaxToolCalls + 1 /\ DOMAIN hits \subseteq Nodes
        /\ queries \in 0 .. MaxQueries /\ sender \in Nodes \cup {NoNode}
    BY DEF RequestsInv, TypeOK, EvidenceTypeOK
  <1>2. kind = "email" /\ status = "running"
    BY DEF Sender, Relations, Relation, SearchBody, Products, Compose, EmailFails, InEmail, At
  <1>3. changes = 0 /\ ~ failed => walk \subseteq present
    BY <1>2 DEF RequestsInv, EmailInv
  <1>4. CASE Sender
    <2>1. CASE DOMAIN hits = {} /\ Reply(0, FALSE) /\ UNCHANGED sender
      BY <1>1, <1>2, <1>4, <2>1, WorkflowEnds DEF Sender
    <2>2. CASE /\ sender' \in DOMAIN hits /\ step' = "related" /\ status' = status
      <3>1. /\ UNCHANGED <<graph, cites, search, calling, cascade, turns, queries, used, failed>>
            /\ step = "found"
        BY <1>4 DEF Sender, InEmail, At
      <3>2. sender' # NoNode
        BY <1>1, <2>2, RequestsAssumption
      <3>3. WorkflowInv'
        BY <1>2, <2>2, <3>1, <3>2 DEF RequestsInv, WorkflowInv, cascade, workflow
      <3> QED BY <1>1, <1>2, <1>3, <2>2, <3>1, <3>3, WorkflowGoesOn DEF calling
    <2> QED BY <1>4, <2>1, <2>2 DEF Sender
  <1>5. CASE Relations
    <2>1. /\ walk' \subseteq present /\ step' = "walk" /\ step = "related"
          /\ UNCHANGED <<graph, cites, status, search, left, cascade, turns, workflow>>
      BY <1>5 DEF Relations, Related, AtMost, InEmail, At
    <2>2. WorkflowInv'
      BY <1>2, <2>1 DEF RequestsInv, WorkflowInv, cascade, workflow
    <2> QED BY <1>1, <1>2, <2>1, <2>2, WorkflowGoesOn DEF workflow
  <1>6. ASSUME NEW n \in Nodes, Relation(n)
        PROVE  RequestsInv'
    <2>1. /\ step = "walk" /\ n \in walk
          /\ UNCHANGED <<graph, search, left, cascade, turns, workflow>>
      BY <1>6 DEF Relation, InEmail, At
    <2>2. CASE n \in present /\ Cite({n}) /\ walk' = walk \ {n} /\ UNCHANGED <<status, step>>
      <3>1. WorkflowInv' /\ cites' \subseteq Nodes \cup {Whole}
        BY <1>1, <1>2, <2>1, <2>2 DEF RequestsInv, WorkflowInv, cascade, workflow, Cite, CitationsOf
      <3> QED BY <1>1, <1>2, <1>3, <2>1, <2>2, <3>1, WorkflowGoesOn DEF workflow
    <2>3. CASE n \notin present /\ Raise /\ UNCHANGED <<cites, walk>>
      <3>1. changes # 0 \/ failed
        BY <1>3, <2>1, <2>3
      <3> QED BY <1>1, <1>2, <2>1, <2>3, <3>1, WorkflowEnds DEF calling, workflow
    <2> QED BY <1>6, <2>2, <2>3 DEF Relation
  <1>7. CASE SearchBody \/ Products
    <2>1. /\ step' \in {"hybrid", "compose"} /\ step \in {"walk", "found"}
          /\ UNCHANGED <<graph, cites, status, search, calling, cascade, turns, workflow>>
      BY <1>7 DEF SearchBody, Products, InEmail, At
    <2>2. sender # NoNode
      BY <1>2, <1>7, <2>1 DEF RequestsInv, WorkflowInv, SearchBody, Products, InEmail, At
    <2>3. WorkflowInv'
      BY <1>2, <2>1, <2>2 DEF WorkflowInv, cascade, workflow
    <2> QED BY <1>1, <1>2, <1>3, <2>1, <2>3, WorkflowGoesOn DEF calling, workflow
  <1>8. CASE Compose
    BY <1>1, <1>2, <1>8, WorkflowEnds DEF Compose
  <1>9. CASE EmailFails
    BY <1>1, <1>2, <1>9, WorkflowEnds DEF EmailFails, Fails
  <1> QED BY <1>4, <1>5, <1>6, <1>7, <1>8, <1>9

-----------------------------------------------------------------------------
(* The invariant *)

LEMMA RequestsInit == Init => RequestsInv
  <1> SUFFICES ASSUME Init PROVE RequestsInv
    OBVIOUS
  <1>1. /\ present \in SUBSET Nodes /\ traced \in SUBSET Nodes /\ changes = 0 /\ cites = {}
        /\ status = "asked" /\ step = "none" /\ hits = NoHits /\ vector = <<>>
        /\ left = 0 /\ walk = {} /\ kind = "none" /\ prefer = NoTier
        /\ ordered = CascadeOrder /\ routed = NoTier /\ results = <<>> /\ turns = 0
        /\ queries = 0 /\ used = 0 /\ sender = NoNode /\ failed = FALSE
    BY DEF Init, RetrievalInit, ToolBoxInit, TiersInit, EvidenceInit
  <1>2. TypeOK
    <2>1. /\ 0 \in 0 .. MaxChanges /\ 0 \in 0 .. MaxCalls /\ 0 \in 0 .. MaxIterations + 1
          /\ 0 \in 0 .. MaxToolCalls + 1 /\ 0 \in 0 .. MaxQueries
      BY EvidenceAssumption, RetrievalAssumption, RequestsAssumption
    <2>2. DOMAIN hits = {} /\ ToSet(vector) = {}
      BY <1>1, NoElements DEF NoHits
    <2> QED BY <1>1, <2>1, <2>2 DEF TypeOK, EvidenceTypeOK
  <1>3. SearchInv
    BY <1>1, EmptySeq, LimitIsANumber DEF SearchInv, NoHits
  <1>4. FreshInv /\ QueryInv /\ WorkflowInv /\ TurnInv /\ EmailInv /\ AnswersTrusted
    BY <1>1 DEF FreshInv, QueryInv, WorkflowInv, TurnInv, EmailInv, AnswersTrusted
  <1>5. ListInv
    <2>1. CascadeOrder # <<>> => InCascadeOrder(Tail(CascadeOrder))
                                 /\ Head(CascadeOrder) \notin ToSet(Tail(CascadeOrder))
      BY TheOrder, Sorted
    <2> QED BY <1>1, <2>1, TheOrder DEF ListInv
  <1>6. FrontInv /\ ResultsInv
    BY <1>1, EmptySeq DEF FrontInv, ResultsInv
  <1> QED BY <1>2, <1>3, <1>4, <1>5, <1>6 DEF RequestsInv

LEMMA RequestsStep == RequestsInv /\ [Next]_allVars => RequestsInv'
  <1> SUFFICES ASSUME RequestsInv, [Next]_allVars PROVE RequestsInv'
    OBVIOUS
  <1>1. CASE UNCHANGED allVars
    <2> USE <1>1 DEF allVars, vars, graph, search, calling, cascade, workflow, RequestsInv
    <2>1. TypeOK' /\ FreshInv' /\ SearchInv'
      BY DEF TypeOK, EvidenceTypeOK, FreshInv, SearchInv
    <2>2. ListInv' /\ FrontInv' /\ ResultsInv' /\ AnswersTrusted'
      BY DEF ListInv, InCascadeOrder, FrontInv, ResultsInv, AnswersTrusted
    <2>3. QueryInv' /\ WorkflowInv' /\ TurnInv' /\ EmailInv'
      BY DEF QueryInv, WorkflowInv, TurnInv, EmailInv
    <2> QED BY <2>1, <2>2, <2>3
  <1>2. CASE (QueryStep \/ SearchStep) /\ UNCHANGED workflow
    BY <1>2, QueryKeeps, TiersKeep DEF SearchStep
  <1>3. CASE OtherProcess /\ UNCHANGED workflow
    BY <1>3, OthersKeep
  <1>4. ASSUME NEW empty \in BOOLEAN, NEW n \in 0 .. MaxQueries, AskThread(empty, n)
        PROVE  RequestsInv'
    <2>1. queries' \in 0 .. MaxQueries
      BY <1>4 DEF AskThread, RequestsInv, TypeOK
    <2> QED BY <1>4, <2>1, WorkflowAsked DEF AskThread, Reply
  <1>5. CASE AskEmail
    <2>1. queries' \in 0 .. MaxQueries
      BY <1>5 DEF AskEmail, RequestsInv, TypeOK, workflow
    <2> QED BY <1>5, <2>1, WorkflowAsked DEF AskEmail, workflow
  <1> QED BY <1>1, <1>2, <1>3, <1>4, <1>5, ThreadKeeps, EmailKeeps DEF Next, Process

-----------------------------------------------------------------------------
(* The cascade *)

\* A step that leaves the list, the results and the status of a query alone.
LEMMA CascadeStutters ==
  ASSUME UNCHANGED <<prefer, ordered, routed, results>>,
         QueryStatus' = QueryStatus, MovedAhead' = MovedAhead
  PROVE  UNCHANGED C!vars
  <1>1. Calls' = Calls /\ ToSet(ordered)' = ToSet(ordered)
    BY DEF Calls
  <1> QED BY <1>1 DEF C!vars

LEMMA WorkflowStutters ==
  ASSUME RequestsInv, RequestsInv', kind # "query", kind' # "query",
         QueryStatus' = QueryStatus
  PROVE  UNCHANGED C!vars
  <1>1. /\ UNCHANGED <<prefer, ordered, routed, results>>
        /\ prefer = NoTier /\ routed = NoTier /\ ordered = CascadeOrder
    BY DEF RequestsInv, FreshInv
  <1>2. NoTier \notin Tiers /\ ToSet(ordered) = Tiers
    BY <1>1, TheOrder, RetrievalAssumption DEF Tiers
  <1>3. MovedAhead' = MovedAhead
    BY <1>1, <1>2 DEF MovedAhead
  <1> QED BY <1>1, <1>3, CascadeStutters

LEMMA AskImplements ==
  ASSUME RequestsInv, NEW tier \in Tiers \cup {Foreign, NoTier}, Ask(tier)
  PROVE  C!Ask(tier)
  <1>1. /\ kind = "none" /\ ordered = CascadeOrder /\ prefer = NoTier /\ routed = NoTier
        /\ results = <<>> /\ status = "asked"
    BY DEF Ask, RequestsInv, FreshInv
  <1>2. /\ kind' = "query" /\ prefer' = tier /\ UNCHANGED <<routed, results>>
        /\ status' = IF tier = Foreign THEN "raised" ELSE "running"
        /\ tier # Foreign => ordered' = IF tier \in Tiers THEN Preferred(tier) ELSE CascadeOrder
        /\ tier = Foreign => ordered' = ordered
    BY DEF Ask, Raise
  <1>3. Foreign \notin Tiers /\ NoTier \notin Tiers
    BY TheOrder, RetrievalAssumption
  <1>4. ToSet(ordered') = Tiers /\ ToSet(ordered) = Tiers
    BY <1>1, <1>2, <1>3, ListOfQuery
  <1>5. QueryStatus = "asked" /\ QueryStatus' = status'
    BY <1>1, <1>2 DEF QueryStatus
  <1>6. MovedAhead' = IF tier \in Tiers THEN tier ELSE NoTier
    BY <1>1, <1>2, <1>3, <1>4 DEF MovedAhead
  <1>7. Calls' = Calls
    BY <1>2 DEF Calls
  <1> QED BY <1>1, <1>2, <1>4, <1>5, <1>6, <1>7 DEF C!Ask

\* A running query walks the list that Cascade describes.
LEMMA HeadIsCurrent ==
  ASSUME RequestsInv, kind = "query", status = "running"
  PROVE  C!Current(Head(ordered))
  <1> DEFINE head == Head(ordered)
  <1>1. ordered # <<>> /\ ordered \in Seq(Tiers) /\ head \in Tiers /\ ListInv /\ FrontInv
    BY Place DEF RequestsInv
  <1>2. /\ head \in ToSet(ordered) /\ ToSet(ordered) \subseteq Tiers
        /\ ToSet(ordered) \ (Tiers \ ToSet(ordered)) = ToSet(ordered)
    BY <1>1, SetOf
  <1>3. ASSUME MovedAhead \in ToSet(ordered) PROVE head = MovedAhead
    <2>1. NoTier \notin ToSet(ordered)
      BY <1>2, TheOrder, RetrievalAssumption
    <2>2. CASE results = <<>> /\ prefer \in Tiers
      <3>1. MovedAhead = prefer /\ head = prefer
        BY <1>1, <2>2 DEF MovedAhead, FrontInv
      <3> QED BY <3>1
    <2>3. CASE ~ (results = <<>> /\ prefer \in Tiers)
      <3>1. MovedAhead = routed /\ routed \in ToSet(ordered)
        BY <1>3, <2>1, <2>3 DEF MovedAhead
      <3> QED BY <1>1, <3>1 DEF FrontInv
    <2> QED BY <2>2, <2>3
  <1>4. ASSUME MovedAhead \notin ToSet(ordered), NEW other \in ToSet(ordered)
        PROVE  Position[head] <= Position[other]
    <2>1. head # prefer
      <3>1. CASE results = <<>> /\ prefer \in Tiers
        BY <1>1, <1>2, <1>4, <3>1 DEF MovedAhead, FrontInv
      <3>2. CASE ~ (results = <<>> /\ prefer \in Tiers)
        BY <1>1, <1>2, <3>2 DEF FrontInv
      <3> QED BY <3>1, <3>2
    <2>2. head # routed
      <3>1. CASE results = <<>> /\ prefer \in Tiers
        BY <1>1, <3>1, TheOrder, RetrievalAssumption DEF FrontInv
      <3>2. CASE ~ (results = <<>> /\ prefer \in Tiers)
        BY <1>2, <1>4, <3>2 DEF MovedAhead
      <3> QED BY <3>1, <3>2
    <2>3. InCascadeOrder(ordered)
      BY <1>1, <2>1, <2>2 DEF ListInv
    <2>4. PICK i \in 1 .. Len(ordered) : other = ordered[i]
      BY <1>1, SetOf
    <2>5. head = ordered[1] /\ Len(ordered) \in Nat /\ DOMAIN ordered = 1 .. Len(ordered)
      BY <1>1, LenProperties
    <2>6. i = 1 \/ Position[head] < Position[other]
      BY <2>3, <2>4, <2>5 DEF InCascadeOrder
    <2>7. Position[head] \in Nat /\ Position[other] \in Nat
      BY <1>1, <1>2, TheOrder
    <2> QED BY <2>4, <2>5, <2>6, <2>7
  <1> QED BY <1>2, <1>3, <1>4 DEF C!Current

LEMMA DeliverImplements ==
  ASSUME RequestsInv, RequestsInv', NEW relevance \in ScoresGiven, NEW route \in Routes,
         Delivers(relevance, route)
  PROVE  C!Search(Head(ordered), relevance, route)
  <1> DEFINE tier == Head(ordered)
             escalates == relevance < Threshold[tier]
             result == [tier_used |-> tier, relevance |-> relevance,
                        route_to |-> route, cites |-> cites]
             call == [tier_used |-> tier, relevance |-> relevance, route_to |-> route]
  <1>1. /\ results' = Append(results, result)
        /\ ordered' = IF escalates THEN Onward(route) ELSE Tail(ordered)
        /\ routed' = IF escalates /\ Honored(route) THEN route ELSE routed
        /\ status' = IF escalates /\ ordered' # <<>> THEN "running" ELSE "answered"
        /\ UNCHANGED <<kind, prefer>>
    BY DEF Deliver, Delivers
  <1>2. /\ kind = "query" /\ status = "running" /\ tier \in Tiers /\ ListInv /\ FrontInv
        /\ ordered # <<>> /\ ordered \in Seq(Tiers) /\ results \in Seq(Results)
        /\ C!Current(tier)
    BY Place, HeadIsCurrent DEF Delivers, RequestsInv, ResultsInv
  <1> HIDE DEF tier, escalates
  <1>3. /\ ordered' \in Seq(Tiers) /\ ToSet(ordered') = ToSet(ordered) \ {tier}
        /\ escalates /\ Honored(route) => ordered' # <<>> /\ Head(ordered') = route /\ route \in Tiers
        /\ tier \in ToSet(ordered) /\ ToSet(ordered) \subseteq Tiers
        /\ ToSet(Tail(ordered)) = ToSet(ordered) \ {tier}
    <2>1. /\ ordered' \in Seq(Tiers) /\ ToSet(ordered') = ToSet(ordered) \ {tier}
          /\ escalates /\ Honored(route) => ordered' # <<>> /\ Head(ordered') = route /\ route \in Tiers
      BY <1>1, <1>2, ListGoesOn DEF tier
    <2>2. tier \in ToSet(ordered) /\ ToSet(ordered) \subseteq Tiers
      BY <1>2, SetOf DEF tier
    <2>3. ToSet(Tail(ordered)) = ToSet(ordered) \ {tier}
      BY <1>2, ListGoesOn DEF tier
    <2> QED BY <2>1, <2>2, <2>3
  <1>4. Calls' = Append(Calls, call)
    <2> DEFINE n == Len(results)
    <2>1. /\ n \in Nat /\ DOMAIN results = 1 .. n /\ results' \in Seq(Results)
          /\ Len(results') = n + 1 /\ DOMAIN results' = 1 .. n + 1
          /\ \A i \in 1 .. n : results'[i] = results[i] /\ results[i] \in Results
          /\ results'[n + 1] = result
      <3>1. result \in Results
        BY <1>2, TheOrder DEF Results, Delivers, Routes, RequestsInv, TypeOK, EvidenceTypeOK, tier
      <3> HIDE DEF result
      <3> QED BY <1>1, <1>2, <3>1, AppendProperties, LenProperties, ElementOfSeq
    <2> DEFINE R == [tier_used: Tiers, relevance: ScoresGiven, route_to: Tiers \cup {NoTier}]
    <2>2. /\ Calls \in [1 .. n -> R]
          /\ \A i \in 1 .. n : Calls[i] = [tier_used |-> results[i].tier_used,
                                           relevance |-> results[i].relevance,
                                           route_to |-> results[i].route_to]
      BY <2>1 DEF Calls, Results
    <2>3. \A i \in 1 .. n + 1 : results'[i] \in Results
      BY <2>1, ElementOfSeq
    <2>4. /\ Calls' \in [1 .. n + 1 -> R]
          /\ \A i \in 1 .. n + 1 : Calls'[i] = [tier_used |-> results'[i].tier_used,
                                                relevance |-> results'[i].relevance,
                                                route_to |-> results'[i].route_to]
      BY <2>1, <2>3 DEF Calls, Results
    <2>5. call \in R
      BY <1>2, TheOrder DEF Routes
    <2>6. Calls'[n + 1] = call /\ \A i \in 1 .. n : Calls'[i] = Calls[i]
      BY <2>1, <2>2, <2>4
    <2> HIDE DEF R, call, result, n
    <2>7. Calls \in Seq(R) /\ Len(Calls) = n /\ Calls' \in Seq(R) /\ Len(Calls') = n + 1
      BY <2>1, <2>2, <2>4, SeqDef
    <2>8. /\ Append(Calls, call) \in Seq(R) /\ Len(Append(Calls, call)) = n + 1
          /\ \A i \in 1 .. n : Append(Calls, call)[i] = Calls[i]
          /\ Append(Calls, call)[n + 1] = call
      BY <2>5, <2>7, AppendProperties
    <2>9. \A i \in 1 .. n + 1 : Calls'[i] = Append(Calls, call)[i]
      BY <2>1, <2>6, <2>8
    <2> QED BY <2>7, <2>8, <2>9, SeqEqual
  <1>5. results' # <<>> /\ QueryStatus = status /\ QueryStatus' = status'
    <2>1. results' # <<>>
      <3>1. result \in Results
        BY <1>2, TheOrder DEF Results, Delivers, Routes, RequestsInv, TypeOK, EvidenceTypeOK, tier
      <3> HIDE DEF result
      <3> QED BY <1>1, <1>2, <3>1, AppendProperties
    <2> QED BY <1>1, <1>2, <2>1 DEF QueryStatus
  <1>6. Honored(route) <=> routed = NoTier /\ route \in ToSet(ordered) \ {tier}
    BY <1>3 DEF Honored
  <1>7. ordered' = <<>> <=> ToSet(ordered') = {}
    <2>1. ordered' # <<>> => Head(ordered') \in ToSet(ordered')
      BY <1>3, SetOf
    <2> QED BY <2>1, NoElements
  <1>8. C!Honored(call) <=> Honored(route)
    <2>1. call.route_to = route /\ call.tier_used = tier
      OBVIOUS
    <2>2. (Tiers \ ToSet(ordered)) \cup {tier} = Tiers \ (ToSet(ordered) \ {tier})
      BY <1>3
    <2> HIDE DEF call
    <2> QED BY <1>3, <1>6, <2>1, <2>2 DEF C!Honored, C!Marked
  <1>9. C!Escalates(call) <=> escalates
    BY DEF C!Escalates, escalates
  <1>10. /\ QueryStatus = "running" /\ prefer' = prefer
         /\ Tiers \ ToSet(ordered') = C!Marked(tier)
         /\ QueryStatus' = IF C!Escalates(call) /\ ~ (ToSet(ordered') \subseteq Tiers \ ToSet(ordered'))
                           THEN "running" ELSE "answered"
    <2>1. Tiers \ ToSet(ordered') = (Tiers \ ToSet(ordered)) \cup {tier}
      BY <1>2, <1>3
    <2>2. ToSet(ordered') \subseteq Tiers \ ToSet(ordered') <=> ordered' = <<>>
      BY <1>3, <1>7
    <2> HIDE DEF call
    <2> QED BY <1>1, <1>2, <1>5, <1>9, <2>1, <2>2 DEF C!Marked
  <1>11. CASE escalates /\ Honored(route)
    <2>1. routed' = route /\ status' = "running" /\ route \in ToSet(ordered')
      BY <1>1, <1>3, <1>6, <1>11
    <2>2. MovedAhead' = route
      BY <1>5, <2>1 DEF MovedAhead
    <2>3. ToSet(ordered') = C!Rerouted(call)
      BY <1>3, <1>6, <1>11 DEF C!Rerouted
    <2> HIDE DEF call
    <2> QED BY <1>2, <1>4, <1>8, <1>9, <1>10, <1>11, <2>1, <2>2, <2>3 DEF C!Search, call, tier
  <1>12. CASE ~ (escalates /\ Honored(route))
    <2>1. routed' = routed
      BY <1>1, <1>12
    <2>2. routed \notin ToSet(ordered')
      BY <1>2, <1>3 DEF FrontInv, tier
    <2>3. MovedAhead' = NoTier
      BY <1>5, <2>1, <2>2 DEF MovedAhead
    <2> HIDE DEF call
    <2> QED BY <1>2, <1>3, <1>4, <1>8, <1>9, <1>10, <1>12, <2>1, <2>3 DEF C!Search, call, tier
  <1> QED BY <1>11, <1>12 DEF tier

\* A query that fails, and every step inside a tier.
LEMMA FailureImplements ==
  ASSUME kind = "query", status = "running", status' = "raised", UNCHANGED cascade
  PROVE  C!SearchRaises
  <1>1. QueryStatus = "running" /\ QueryStatus' = "raised" /\ Calls' = Calls
    BY DEF QueryStatus, Calls, cascade
  <1>2. MovedAhead' = MovedAhead /\ UNCHANGED <<prefer, ordered, routed>>
    BY DEF MovedAhead, cascade
  <1> QED BY <1>1, <1>2 DEF C!SearchRaises

LEMMA InsideStutters ==
  ASSUME UNCHANGED <<cascade, status>>
  PROVE  UNCHANGED C!vars
  <1>1. QueryStatus' = QueryStatus /\ MovedAhead' = MovedAhead
    BY DEF QueryStatus, MovedAhead, cascade
  <1> QED BY <1>1, CascadeStutters DEF cascade

LEMMA QueryImplements ==
  ASSUME RequestsInv, RequestsInv', QueryStep
  PROVE  [C!Next]_C!vars
  <1>1. ASSUME NEW relevance \in ScoresGiven, NEW route \in Routes, Delivers(relevance, route)
        PROVE  C!Next
    <2>1. C!Search(Head(ordered), relevance, route)
      BY <1>1, DeliverImplements
    <2>2. Head(ordered) \in Tiers /\ route \in C!Named
      BY <1>1, Place, TheOrder DEF Delivers, Routes, C!Named
    <2> QED BY <2>1, <2>2 DEF C!Next
  <1>2. CASE DeliverFound \/ DeliverNothing \/ Overrun \/ Answer
    BY <1>1, <1>2, ResultsOfTiers
  <1>3. ASSUME NEW decision \in Decisions, Classify(decision)
        PROVE  [C!Next]_C!vars
    BY <1>1, <1>3, ResultOfRouter, InsideStutters
  <1>4. ASSUME NEW tier \in Tiers \cup {Foreign, NoTier}, Ask(tier)
        PROVE  C!Next
    BY <1>4, AskImplements DEF C!Next, C!Named
  <1>5. CASE Failing
    BY <1>5, FailureImplements DEF Failing, Raise, C!Next
  <1>6. CASE Tools
    <2>1. UNCHANGED cascade
      BY <1>6 DEF Tools
    <2>2. status' = status
      BY <1>6, ToolsCite DEF Tools, Answered, Neighbors, Visit, EndWalk
    <2> QED BY <2>1, <2>2, InsideStutters
  <1>7. CASE Turn
    BY <1>7, InsideStutters DEF Turn
  <1>8. ASSUME NEW n \in 0 .. MaxCalls, Start(n) \/ (kind = "query" /\ FollowUp(n))
        PROVE  UNCHANGED C!vars
    BY <1>8, InsideStutters DEF Start, FollowUp, Replies
  <1> QED BY <1>2, <1>3, <1>4, <1>5, <1>6, <1>7, <1>8 DEF QueryStep

LEMMA ThreadStutters ==
  ASSUME RequestsInv, RequestsInv',
         \/ Harvest \/ ModelFails \/ ThreadTurn \/ ThreadCall \/ ThreadWalk \/ ThreadAnswer
         \/ ThreadFails \/ (\E n \in 0 .. MaxCalls : Brief(n) \/ ThreadFollowUp(n))
  PROVE  UNCHANGED C!vars
  <1>1. kind = "thread" /\ kind' = kind
    BY DEF Harvest, ModelFails, ThreadTurn, ThreadCall, ThreadWalk, ThreadAnswer, ThreadFails,
           Brief, ThreadFollowUp, FollowUp, InThread, Partial, Fails, cascade
  <1> QED BY <1>1, WorkflowStutters DEF QueryStatus

LEMMA EmailStutters ==
  ASSUME RequestsInv, RequestsInv',
         \/ Sender \/ Relations \/ (\E n \in Nodes : Relation(n)) \/ SearchBody
         \/ Products \/ Compose \/ EmailFails
  PROVE  UNCHANGED C!vars
  <1>1. kind = "email" /\ kind' = kind
    BY DEF Sender, Relations, Relation, SearchBody, Products, Compose, EmailFails, InEmail,
           Fails, cascade
  <1> QED BY <1>1, WorkflowStutters DEF QueryStatus

\* What Cascade assumes of its tiers, ranks, thresholds and relevances.
LEMMA CascadeFits ==
  /\ Tiers # {} /\ IsFiniteSet(Tiers)
  /\ Position \in [Tiers -> Nat]
  /\ \A m, n \in Tiers : Position[m] = Position[n] => m = n
  /\ Threshold \in [Tiers -> Nat]
  /\ ScoresGiven \subseteq Nat
  /\ Foreign \notin Tiers /\ NoTier \notin Tiers
  <1>1. Tiers # {} /\ Foreign \notin Tiers /\ NoTier \notin Tiers
    BY TheOrder, RetrievalAssumption
  <1>2. IsFiniteSet(Tiers)
    <2>1. /\ IsFiniteSet({"exact"}) /\ IsFiniteSet({"router"}) /\ IsFiniteSet({"hybrid"})
          /\ IsFiniteSet({"agentic"}) /\ IsFiniteSet({"stub"})
      BY FS_Singleton
    <2>2. Tiers = {"exact"} \cup {"router"} \cup {"hybrid"} \cup {"agentic"} \cup {"stub"}
      BY TheOrder
    <2> QED BY <2>1, <2>2, FS_Union
  <1>3. Position \in [Tiers -> Nat] /\ \A m, n \in Tiers : Position[m] = Position[n] => m = n
    BY TheOrder
  <1>4. Threshold \in [Tiers -> Nat]
    BY TheOrder DEF Threshold
  <1> QED BY <1>1, <1>2, <1>3, <1>4, Limits

LEMMA StepImplements == RequestsInv /\ RequestsInv' /\ [Next]_allVars => [C!Next]_C!vars
  <1> SUFFICES ASSUME RequestsInv, RequestsInv', [Next]_allVars PROVE [C!Next]_C!vars
    OBVIOUS
  <1>1. CASE UNCHANGED allVars
    BY <1>1, InsideStutters DEF allVars, vars
  <1>2. CASE QueryStep
    BY <1>2, QueryImplements
  <1>3. CASE SearchStep
    <2>1. UNCHANGED <<cascade, status>>
      BY <1>3 DEF SearchStep, TierSteps, ExactIds, ExactText, VectorArm, FulltextArm, Found
    <2> QED BY <2>1, InsideStutters
  <1>4. CASE OtherProcess
    BY <1>4, InsideStutters DEF OtherProcess
  <1>5. ASSUME NEW empty \in BOOLEAN, NEW n \in 0 .. MaxQueries, AskThread(empty, n)
        PROVE  UNCHANGED C!vars
    <2>1. status = "asked" /\ kind' = "thread"
      BY <1>5 DEF AskThread
    <2> QED BY <2>1, WorkflowFresh, WorkflowStutters DEF QueryStatus
  <1>6. CASE AskEmail
    <2>1. status = "asked" /\ kind' = "email"
      BY <1>6 DEF AskEmail
    <2> QED BY <2>1, WorkflowFresh, WorkflowStutters DEF QueryStatus
  <1> QED BY <1>1, <1>2, <1>3, <1>4, <1>5, <1>6, ThreadStutters, EmailStutters DEF Next, Process

-----------------------------------------------------------------------------
(* What makes a request end *)

LEMMA StagesInOrder ==
  /\ Precedes("router", "exact") /\ Precedes("exact", "exact text")
  /\ Precedes("exact", "found") /\ Precedes("exact text", "found")
  /\ Precedes("hybrid", "fulltext") /\ Precedes("fulltext", "found")
  /\ \A here \in {"agentic", "brief", "follow up"}, there \in {"turn", "answer"} :
       Precedes(here, there)
  /\ Precedes("turn", "tools") /\ Precedes("tools", "walk")
  /\ Precedes("found", "related") /\ Precedes("related", "walk") /\ Precedes("found", "compose")
  <1>1. /\ DOMAIN Stages = 1 .. 10
        /\ "agentic" \in Stages[1] /\ "router" \in Stages[1]
        /\ "exact" \in Stages[2] /\ "hybrid" \in Stages[2]
        /\ "exact text" \in Stages[3] /\ "fulltext" \in Stages[3]
        /\ "found" \in Stages[4] /\ "brief" \in Stages[5] /\ "follow up" \in Stages[6]
        /\ "turn" \in Stages[7] /\ "related" \in Stages[7]
        /\ "tools" \in Stages[8] /\ "walk" \in Stages[9]
        /\ "answer" \in Stages[10] /\ "compose" \in Stages[10]
    BY DEF Stages
  <1>2. ASSUME NEW i \in 1 .. 10, NEW j \in 1 .. 10, i < j,
               NEW here \in Stages[i], NEW there \in Stages[j]
        PROVE  Precedes(here, there)
    BY <1>1, <1>2 DEF Precedes
  <1>3. /\ \A here \in Stages[1] : /\ \A there \in Stages[2] : Precedes(here, there)
                                   /\ \A there \in Stages[7] : Precedes(here, there)
                                   /\ \A there \in Stages[10] : Precedes(here, there)
        /\ \A here \in Stages[2] : /\ \A there \in Stages[3] : Precedes(here, there)
                                   /\ \A there \in Stages[4] : Precedes(here, there)
        /\ \A here \in Stages[3] : \A there \in Stages[4] : Precedes(here, there)
        /\ \A here \in Stages[4] : /\ \A there \in Stages[7] : Precedes(here, there)
                                   /\ \A there \in Stages[10] : Precedes(here, there)
    BY <1>2
  <1>4. /\ \A here \in Stages[5] : /\ \A there \in Stages[7] : Precedes(here, there)
                                   /\ \A there \in Stages[10] : Precedes(here, there)
        /\ \A here \in Stages[6] : /\ \A there \in Stages[7] : Precedes(here, there)
                                   /\ \A there \in Stages[10] : Precedes(here, there)
        /\ \A here \in Stages[7] : /\ \A there \in Stages[8] : Precedes(here, there)
                                   /\ \A there \in Stages[9] : Precedes(here, there)
        /\ \A here \in Stages[8] : \A there \in Stages[9] : Precedes(here, there)
    BY <1>2
  <1> QED BY <1>1, <1>3, <1>4

\* The three numbers stay while a request is outside of the agent's calls and of an
\* email's neighbors.
LEMMA NumbersStay ==
  ASSUME UNCHANGED <<kind, ordered, queries, sender, turns, used>>,
         {step, step'} \cap {"tools", "walk", "related"} = {}
  PROVE  UNCHANGED <<Ahead, Budget, Unanswered>>
  BY DEF Ahead, Budget, Unanswered

\* What the numbers are made of.
LEMMA Numbers ==
  ASSUME RequestsInv
  PROVE  /\ queries \in Nat /\ used \in Nat /\ turns \in Nat /\ left \in Nat
         /\ MaxToolCalls \in Nat /\ MaxIterations \in Nat
         /\ used <= MaxToolCalls + 1 /\ turns <= MaxIterations + 1
         /\ IsFiniteSet(ToSet(ordered)) /\ Cardinality(ToSet(ordered)) \in Nat
         /\ Measured
  <1>1. /\ queries \in Nat /\ used \in Nat /\ turns \in Nat /\ left \in Nat
        /\ MaxToolCalls \in Nat /\ MaxIterations \in Nat
        /\ used <= MaxToolCalls + 1 /\ turns <= MaxIterations + 1
    BY RetrievalAssumption, RequestsAssumption DEF RequestsInv, TypeOK
  <1>2. IsFiniteSet(ToSet(ordered)) /\ Cardinality(ToSet(ordered)) \in Nat
    <2>1. ToSet(ordered) \subseteq Tiers
      BY SetOf DEF RequestsInv, ListInv
    <2> QED BY <2>1, CascadeFits, FS_Subset, FS_CardinalityType
  <1>3. Ahead \in Nat /\ Budget \in Nat /\ Unanswered \in Nat
    BY <1>1, <1>2 DEF Ahead, Budget, Unanswered
  <1> QED BY <1>1, <1>2, <1>3 DEF Measured

LEMMA DeliverCounts ==
  ASSUME RequestsInv, kind = "query", status = "running", status' = "running",
         NEW relevance, NEW route, Deliver(relevance, route)
  PROVE  Ahead' < Ahead
  <1>1. ordered' \in {Onward(route), Tail(ordered)} /\ kind' = kind
    BY DEF Deliver
  <1>2. ordered # <<>> /\ ListInv /\ ordered \in Seq(Tiers)
    BY Place DEF RequestsInv
  <1>3. ToSet(ordered') = ToSet(ordered) \ {Head(ordered)}
    BY <1>1, <1>2, ListGoesOn
  <1>4. Head(ordered) \in ToSet(ordered)
    BY <1>2, SetOf
  <1>5. Cardinality(ToSet(ordered')) = Cardinality(ToSet(ordered)) - 1
    BY <1>3, <1>4, Numbers, FS_RemoveElement
  <1> QED BY <1>1, <1>5, Numbers DEF Ahead

\* A search goes from stage to stage.
LEMMA SearchCounts ==
  ASSUME TierSteps, UNCHANGED <<cascade, turns, workflow>>
  PROVE  Advances
  <1>1. Precedes(step, step') /\ {step, step'} \cap {"tools", "walk", "related"} = {}
    BY StagesInOrder
       DEF TierSteps, ExactIds, ExactText, VectorArm, FulltextArm, Found, At
  <1>2. UNCHANGED <<Ahead, Budget, Unanswered>>
    BY <1>1, NumbersStay DEF cascade, workflow
  <1> QED BY <1>1, <1>2 DEF Advances

\* A turn of the model does too, until its calls are dispatched.
LEMMA RepliesCount ==
  ASSUME NEW n, Replies(n), step \in {"agentic", "brief", "follow up"},
         UNCHANGED <<cascade, turns, workflow>>
  PROVE  Advances
  <1>1. Precedes(step, step') /\ {step, step'} \cap {"tools", "walk", "related"} = {}
    BY StagesInOrder DEF Replies
  <1>2. UNCHANGED <<Ahead, Budget, Unanswered>>
    BY <1>1, NumbersStay DEF cascade, workflow
  <1> QED BY <1>1, <1>2 DEF Advances

\* A visit leaves a neighbor less to visit.
LEMMA VisitCounts ==
  ASSUME step = "walk", step' = "walk", NEW n \in walk, walk' = walk \ {n},
         UNCHANGED <<kind, ordered, queries, sender, turns, used, left>>
  PROVE  Advances
  <1>1. UNCHANGED <<Ahead, Budget, Unanswered>>
    BY DEF Ahead, Budget, Unanswered
  <1>2. step' = step /\ walk' \subseteq walk /\ walk' # walk
    OBVIOUS
  <1> QED BY <1>1, <1>2 DEF Advances

\* The calls of the agent: each is answered, or walks and is answered then.
LEMMA ToolsCount ==
  ASSUME RequestsInv, Tools, UNCHANGED workflow
  PROVE  Advances
  <1>1. kind = "query" /\ UNCHANGED <<cascade, turns>>
    BY DEF Tools
  <1>2. ASSUME status = "running", step \in {"tools", "walk"}, Answered
        PROVE  Advances
    <2>1. left \in Nat /\ left # 0
      BY <1>1, <1>2, Numbers DEF RequestsInv, TurnInv
    <2>2. left' = left - 1 /\ step' = IF left = 1 THEN "follow up" ELSE "tools"
      BY <1>2 DEF Answered
    <2>3. UNCHANGED <<Ahead, Budget>>
      BY <1>1 DEF Ahead, Budget, cascade
    <2>4. Unanswered' < Unanswered
      <3>1. kind = "query" /\ kind' = "query" /\ Unanswered = left
        BY <1>1, <1>2 DEF Unanswered, cascade
      <3>2. Unanswered' \in {0, left - 1}
        BY <2>2, <3>1 DEF Unanswered
      <3>3. 0 < left /\ left - 1 < left
        BY <2>1
      <3> QED BY <3>1, <3>2, <3>3
    <2> QED BY <2>3, <2>4 DEF Advances
  <1>3. ASSUME NEW n \in Nodes, Neighbors(n)
        PROVE  Advances
    <2>1. step = "tools" /\ step' = "walk" /\ left' = left
      BY <1>3 DEF Neighbors, At
    <2>2. UNCHANGED <<Ahead, Budget, Unanswered>>
      BY <1>1, <2>1 DEF Ahead, Budget, Unanswered, cascade
    <2> QED BY <2>1, <2>2, StagesInOrder DEF Advances
  <1>4. CASE AllTools
    BY <1>2, <1>3, <1>4, ToolsCite
  <1>5. ASSUME NEW n \in Nodes, Visit(n)
        PROVE  Advances
    BY <1>1, <1>5, VisitCounts DEF Visit, At, cascade, workflow
  <1>6. CASE EndWalk
    BY <1>2, <1>6 DEF EndWalk, At
  <1> QED BY <1>4, <1>5, <1>6 DEF Tools

LEMMA QueryCounts ==
  ASSUME RequestsInv, QueryStep, UNCHANGED workflow, status = "running", status' = "running"
  PROVE  Advances
  <1>1. ASSUME NEW relevance \in ScoresGiven, NEW route \in Routes, Delivers(relevance, route)
        PROVE  Advances
    BY <1>1, DeliverCounts DEF Delivers, Advances
  <1>2. CASE DeliverFound \/ DeliverNothing \/ Overrun \/ Answer
    BY <1>1, <1>2, ResultsOfTiers
  <1>3. ASSUME NEW decision \in Decisions, Classify(decision)
        PROVE  Advances
    <2>1. CASE step = "router" /\ step' = "exact" /\ UNCHANGED <<cascade, turns>>
      <3>1. UNCHANGED <<Ahead, Budget, Unanswered>>
        BY <2>1, NumbersStay DEF cascade, workflow
      <3> QED BY <2>1, <3>1, StagesInOrder DEF Advances
    <2> QED BY <1>1, <1>3, <2>1, ResultOfRouter
  <1>4. CASE Turn
    <2>1. /\ kind = "query" /\ kind' = kind /\ ordered' = ordered /\ turns' = turns + 1
      BY <1>4 DEF Turn, Counted, cascade
    <2>2. Ahead' = Ahead /\ Budget' < Budget
      BY <2>1, Numbers DEF Ahead, Budget
    <2> QED BY <2>2 DEF Advances
  <1>5. ASSUME NEW n \in 0 .. MaxCalls, Start(n) \/ (kind = "query" /\ FollowUp(n))
        PROVE  Advances
    BY <1>5, RepliesCount DEF Start, FollowUp, At
  <1>6. ASSUME NEW tier \in Tiers \cup {Foreign, NoTier}, Ask(tier)
        PROVE  FALSE
    BY <1>6 DEF Ask
  <1>7. CASE Failing
    BY <1>7 DEF Failing, Raise
  <1> QED BY <1>2, <1>3, <1>4, <1>5, <1>6, <1>7, ToolsCount DEF QueryStep

\* Every call of a thread is counted, whether it walks or not.
LEMMA ThreadCounts ==
  ASSUME RequestsInv, status = "running", status' = "running",
         \/ Harvest \/ ModelFails \/ ThreadTurn \/ ThreadCall \/ ThreadWalk \/ ThreadAnswer
         \/ ThreadFails \/ (\E n \in 0 .. MaxCalls : Brief(n) \/ ThreadFollowUp(n))
  PROVE  Advances
  <1>1. CASE Harvest
    <2>1. kind = "thread" /\ kind' = kind /\ queries # 0 /\ queries' = queries - 1
      BY <1>1 DEF Harvest, InThread, At, cascade, RequestsInv, WorkflowInv
    <2>2. Ahead' < Ahead
      BY <2>1, Numbers DEF Ahead
    <2> QED BY <2>2 DEF Advances
  <1>2. CASE ModelFails \/ ThreadAnswer \/ ThreadFails
    BY <1>2 DEF ModelFails, Partial, ThreadAnswer, Reply, ThreadFails, Fails, Raise
  <1>3. CASE ThreadTurn
    <2>1. kind = "thread" /\ kind' = kind /\ step = "turn" /\ step' = "tools"
      BY <1>3 DEF ThreadTurn, InThread, At, cascade
    <2>2. UNCHANGED <<Ahead, Budget, Unanswered>>
      BY <1>3, <2>1 DEF ThreadTurn, Ahead, Budget, Unanswered, cascade, workflow
    <2> QED BY <2>1, <2>2, StagesInOrder DEF Advances
  <1>4. CASE ThreadCall
    <2>1. kind = "thread" /\ step = "tools" /\ used' = used + 1
      BY <1>4 DEF ThreadCall, InThread, At
    <2>2. TheThreeTools /\ UNCHANGED <<cascade, turns, queries>>
      BY <1>4 DEF ThreadCall, Partial, Reply
    <2>3. Ahead' = Ahead /\ kind' = "thread"
      BY <2>1, <2>2 DEF Ahead, cascade
    <2>4. CASE Answered
      <3>1. step' # "walk"
        BY <2>4 DEF Answered
      <3>2. Budget' < Budget
        BY <2>1, <2>3, <3>1, Numbers DEF Budget
      <3> QED BY <2>3, <3>2 DEF Advances
    <2>5. ASSUME NEW n \in Nodes, Neighbors(n)
          PROVE  Advances
      <3>1. step' = "walk"
        BY <2>5 DEF Neighbors
      <3>2. Budget' = Budget
        BY <2>1, <2>3, <3>1, Numbers DEF Budget
      <3>3. Unanswered' = Unanswered
        BY <2>1, <2>3 DEF Unanswered
      <3> QED BY <2>1, <2>3, <3>1, <3>2, <3>3, StagesInOrder DEF Advances
    <2>6. AllTools
      BY <2>2 DEF AllTools
    <2> QED BY <2>4, <2>5, <2>6, ToolsCite
  <1>5. CASE ThreadWalk
    <2>1. kind = "thread" /\ UNCHANGED <<cascade, turns, workflow>>
      BY <1>5 DEF ThreadWalk
    <2>2. CASE EndWalk
      <3>1. step = "walk" /\ step' # "walk"
        BY <2>2 DEF EndWalk, At, Answered
      <3>2. Ahead' = Ahead /\ Budget' < Budget
        BY <2>1, <3>1, Numbers DEF Ahead, Budget, cascade, workflow
      <3> QED BY <3>2 DEF Advances
    <2>3. ASSUME NEW n \in present, Visit(n)
          PROVE  Advances
      BY <2>1, <2>3, VisitCounts DEF Visit, At, cascade, workflow
    <2> QED BY <1>5, <2>2, <2>3 DEF ThreadWalk
  <1>6. ASSUME NEW n \in 0 .. MaxCalls, Brief(n) \/ ThreadFollowUp(n)
        PROVE  Advances
    BY <1>6, RepliesCount DEF Brief, ThreadFollowUp, FollowUp, InThread, At
  <1> QED BY <1>1, <1>2, <1>3, <1>4, <1>5, <1>6

LEMMA EmailCounts ==
  ASSUME RequestsInv, status = "running", status' = "running",
         \/ Sender \/ Relations \/ (\E n \in Nodes : Relation(n)) \/ SearchBody
         \/ Products \/ Compose \/ EmailFails
  PROVE  Advances
  <1>1. kind = "email" /\ kind' = kind
    BY DEF Sender, Relations, Relation, SearchBody, Products, Compose, EmailFails, InEmail, At,
           Fails, cascade
  <1>2. CASE Sender
    <2>1. sender = NoNode /\ step = "found" /\ step' = "related" /\ sender' \in DOMAIN hits
      BY <1>2 DEF Sender, InEmail, At, Reply
    <2>2. sender' # NoNode
      BY <2>1, RequestsAssumption DEF RequestsInv, TypeOK
    <2>3. Ahead' < Ahead
      BY <1>1, <2>1, <2>2 DEF Ahead
    <2> QED BY <2>3 DEF Advances
  <1>3. CASE Relations
    <2>1. step = "related" /\ step' = "walk" /\ UNCHANGED workflow
      BY <1>3 DEF Relations, InEmail, At
    <2>2. UNCHANGED <<Ahead, Budget, Unanswered>>
      BY <1>1, <2>1 DEF Ahead, Budget, Unanswered, workflow
    <2> QED BY <2>1, <2>2, StagesInOrder DEF Advances
  <1>4. ASSUME NEW n \in Nodes, Relation(n)
        PROVE  Advances
    BY <1>4, VisitCounts DEF Relation, Raise, InEmail, At, cascade, workflow
  <1>5. CASE SearchBody
    <2>1. /\ step = "walk" /\ step' = "hybrid" /\ sender' = sender
      BY <1>5 DEF SearchBody, InEmail, At, workflow
    <2>2. sender # NoNode
      BY <1>1, <2>1 DEF RequestsInv, WorkflowInv
    <2>3. Ahead' < Ahead
      BY <1>1, <2>1, <2>2 DEF Ahead
    <2> QED BY <2>3 DEF Advances
  <1>6. CASE Products
    <2>1. /\ step = "found" /\ step' = "compose"
          /\ UNCHANGED <<cascade, turns, workflow>>
      BY <1>6 DEF Products, InEmail, At
    <2>2. UNCHANGED <<Ahead, Budget, Unanswered>>
      BY <2>1, NumbersStay DEF cascade, workflow
    <2> QED BY <2>1, <2>2, StagesInOrder DEF Advances
  <1>7. CASE Compose \/ EmailFails
    BY <1>7 DEF Compose, Reply, EmailFails, Fails, Raise
  <1> QED BY <1>2, <1>3, <1>4, <1>5, <1>6, <1>7

LEMMA ProcessCounts ==
  ASSUME RequestsInv, Process, status = "running", status' = "running"
  PROVE  Advances
  <1>1. CASE (QueryStep \/ SearchStep) /\ UNCHANGED workflow
    BY <1>1, QueryCounts, SearchCounts DEF SearchStep
  <1>2. ~ AskEmail /\ \A empty \in BOOLEAN, n \in 0 .. MaxQueries : ~ AskThread(empty, n)
    BY DEF AskEmail, AskThread
  <1> QED BY <1>1, <1>2, ThreadCounts, EmailCounts DEF Process

\* Another process takes nothing back.
LEMMA OthersCountNothing ==
  ASSUME OtherProcess, UNCHANGED workflow
  PROVE  UNCHANGED <<kind, Ahead, Budget, Unanswered, step, walk>>
  BY DEF OtherProcess, Ahead, Budget, Unanswered, calling, cascade, workflow

-----------------------------------------------------------------------------
(* Theorems *)

\* Whatever the model asks for and other processes do, the variables of a request
\* stay in their types: the bounds on turns and calls hold, the hits are nodes with
\* scores, and a request that runs is at a step.
THEOREM RequestTypeCorrect == Spec => []TypeOK
  <1>1. RequestsInv => TypeOK
    BY DEF RequestsInv
  <1> QED BY RequestsInit, RequestsStep, <1>1, PTL DEF Spec

\* For any limit up to 30 hits of an arm, the hybrid tier's best hit reaches the
\* threshold at which the cascade stops exactly if both arms ranked it, whatever
\* the ranks.
THEOREM TrustMeansAgreement == Spec => []ConfidentIffAgreed
  <1>1. RequestsInv => ConfidentIffAgreed
    BY AgreedInv DEF RequestsInv
  <1> QED BY RequestsInit, RequestsStep, <1>1, PTL DEF Spec

\* A query is never answered with prose of the agent that cites nothing, and the
\* stub's empty answer never carries citations.
THEOREM ProseNeedsCitations == Spec => []AnswersTrusted
  <1>1. RequestsInv => AnswersTrusted
    BY DEF RequestsInv
  <1> QED BY RequestsInit, RequestsStep, <1>1, PTL DEF Spec

\* The answer to an email is refused only if a store or the model failed, or if
\* another process changed the graph under it.
THEOREM EmailFailsForAReason == Spec => []OnlyAChangeRaises
  <1>1. RequestsInv => OnlyAChangeRaises
    <2> SUFFICES ASSUME RequestsInv, kind = "email", status = "raised"
                 PROVE  failed \/ changes > 0
      BY DEF OnlyAChangeRaises
    <2>1. changes \in Nat /\ (changes # 0 \/ failed)
      BY EvidenceAssumption DEF RequestsInv, EmailInv, TypeOK, EvidenceTypeOK
    <2> QED BY <2>1
  <1> QED BY RequestsInit, RequestsStep, <1>1, PTL DEF Spec

\* The list the code walks, with the searches, the router and the agent in their
\* tiers and other processes between any two steps, does what Cascade says: what is
\* proved of Cascade (no tier runs twice, no result below its threshold is answered
\* while a tier is left) holds of every query.
THEOREM RequestsImplementCascade == Spec => ImplementsCascade
  <1>1. ASSUME Init PROVE C!Init
    <2>1. /\ status = "asked" /\ kind = "none" /\ prefer = NoTier /\ ordered = CascadeOrder
          /\ routed = NoTier /\ results = <<>>
      BY <1>1 DEF Init, RetrievalInit, ToolBoxInit, TiersInit
    <2>2. ToSet(ordered) = Tiers /\ NoTier \notin Tiers
      BY <2>1, TheOrder, RetrievalAssumption DEF Tiers
    <2>3. Calls = <<>>
      BY <2>1 DEF Calls
    <2>4. MovedAhead = NoTier /\ QueryStatus = "asked" /\ Tiers \ ToSet(ordered) = {}
      BY <2>1, <2>2 DEF MovedAhead, QueryStatus
    <2> QED BY <2>1, <2>2, <2>3, <2>4 DEF C!Init
  <1> QED BY <1>1, RequestsInit, RequestsStep, StepImplements, PTL
          DEF Spec, ImplementsCascade, C!Spec

\* Whatever the model asks for, whatever fails and whatever other processes do, every
\* step of a request that goes on uses up a tier, a search or a part of it that is
\* ahead, or else a turn or a call of its budget, or else a call of the turn, or else
\* goes to a later stage or to a neighbor less; and a step of another process gives
\* none of it back.  None of it is ever below zero: with the steps it is given, a
\* request ends.
THEOREM EveryStepIsForSomething == Spec => []Measured /\ EveryStepCounts
  <1>1. RequestsInv => Measured
    BY Numbers
  <1>2. RequestsInv /\ [Next]_allVars =>
          [status = "running" /\ status' = "running" =>
             \/ Process /\ Advances
             \/ ~ Process /\ UNCHANGED <<kind, Ahead, Budget, Unanswered, step, walk>>]_allVars
    BY ProcessCounts, OthersCountNothing DEF Next
  <1> QED BY RequestsInit, RequestsStep, <1>1, <1>2, PTL DEF Spec, EveryStepCounts
=============================================================================
