----------------------------- MODULE CascadeProofs -----------------------------
(***************************************************************************)
(* Theorems about Cascade, for any tiers, order, thresholds and results.   *)
(***************************************************************************)
EXTENDS Cascade, TLAPS

\* A preferred tier, and one that was routed to, is in front until it runs.
FrontInv ==
  /\ status = "asked" => calls = <<>> /\ front = NoTier
  /\ calls = <<>> => routed = NoTier
  /\ status = "running" /\ calls = <<>> /\ preferred \in Tiers => front = preferred
  /\ calls # <<>> /\ preferred \in Tiers => calls[1].tier_used = preferred
  /\ front \in {NoTier, preferred, routed}

\* The tiers that have run are those with a result, and none is left behind
\* one that is still to run, but for those moved ahead.
OrderInv ==
  /\ executed = Ran
  /\ \A i \in DOMAIN calls, t \in todo :
       Rank[calls[i].tier_used] < Rank[t] \/ calls[i].tier_used \in {preferred, routed}

EscalatedInv == status = "running" => \A i \in DOMAIN calls : Escalates(calls[i])

CascadeInv ==
  TypeOK /\ NoCycle /\ BestEffort /\ InOrder /\ FrontInv /\ OrderInv /\ EscalatedInv

LEMMA InitCascade == Init => CascadeInv
  BY CascadeAssumption
  DEF Init, CascadeInv, TypeOK, NoCycle, BestEffort, InOrder, FrontInv, OrderInv,
      EscalatedInv, Ran, Named, Result

LEMMA AskStep ==
  ASSUME CascadeInv, NEW tier \in Named, Ask(tier)
  PROVE  CascadeInv'
  <1>1. /\ calls = <<>> /\ calls' = calls /\ routed' = routed /\ routed = NoTier
        /\ executed' = executed /\ todo' = todo /\ executed = {}
        /\ preferred' = tier /\ status' \in {"raised", "running"}
        /\ front' = IF tier \in Tiers THEN tier ELSE NoTier
    BY DEF CascadeInv, FrontInv, OrderInv, Ran, Ask
  <1>2. TypeOK'
    BY <1>1, CascadeAssumption DEF CascadeInv, TypeOK, Named
  <1>3. NoCycle' /\ InOrder' /\ BestEffort' /\ EscalatedInv'
    BY <1>1 DEF NoCycle, InOrder, BestEffort, EscalatedInv
  <1>4. FrontInv' /\ OrderInv'
    BY <1>1 DEF CascadeInv, FrontInv, OrderInv, Ran
  <1> QED BY <1>2, <1>3, <1>4 DEF CascadeInv

LEMMA RaiseStep ==
  ASSUME CascadeInv, SearchRaises
  PROVE  CascadeInv'
  BY DEF SearchRaises, CascadeInv, TypeOK, NoCycle, BestEffort, InOrder, FrontInv,
         OrderInv, EscalatedInv, Ran, Escalates

LEMMA SearchStep ==
  ASSUME CascadeInv, NEW tier \in Tiers, NEW relevance \in Relevances, NEW route_to \in Named,
         Search(tier, relevance, route_to)
  PROVE  CascadeInv'
  <1> DEFINE result == [tier_used |-> tier, relevance |-> relevance, route_to |-> route_to]
             n == Len(calls)
  <1>1. /\ result \in Result /\ result.tier_used = tier /\ result.route_to = route_to
    BY DEF Result
  <1> HIDE DEF result
  <1>2. /\ status = "running" /\ Current(tier)
        /\ calls' = Append(calls, result)
        /\ executed' = executed \cup {tier}
        /\ preferred' = preferred
        /\ status' = IF Escalates(result) /\ ~(todo' \subseteq executed') THEN "running"
                     ELSE "answered"
    BY DEF Search, Marked, result
  <1>3. /\ tier \notin executed /\ tier \in todo /\ todo = Tiers \ executed
        /\ calls \in Seq(Result) /\ n \in Nat /\ front \in todo \cup {NoTier}
    BY <1>2 DEF Current, CascadeInv, TypeOK
  <1>4. \/ /\ Escalates(result) /\ routed = NoTier
           /\ route_to \in todo \ {tier}
           /\ front' = route_to /\ routed' = route_to
           /\ todo' = todo \ {tier}
        \/ front' = NoTier /\ routed' = routed /\ todo' = todo \ {tier}
    <2>1. CASE Escalates(result) /\ Honored(result)
      <3>1. routed = NoTier /\ route_to \in todo \ {tier}
        BY <1>1, <1>3, <2>1 DEF Honored, Marked
      <3>2. front' = route_to /\ routed' = route_to /\ todo' = (todo \ {tier}) \cup {route_to}
        BY <1>1, <2>1 DEF Search, Rerouted, result
      <3> QED BY <2>1, <3>1, <3>2
    <2>2. CASE ~(Escalates(result) /\ Honored(result))
      BY <2>2 DEF Search, result
    <2> QED BY <2>1, <2>2
  <1>5. /\ todo' = Tiers \ executed' /\ todo' = todo \ {tier}
        /\ front' \in todo' \cup {NoTier}
        /\ routed' \in Tiers \cup {NoTier}
    BY <1>2, <1>3, <1>4 DEF CascadeInv, TypeOK
  <1>6. /\ calls' \in Seq(Result) /\ Len(calls') = n + 1 /\ calls' # <<>>
        /\ DOMAIN calls = 1..n /\ DOMAIN calls' = 1..(n + 1)
        /\ calls'[n + 1] = result
        /\ \A i \in 1..n : calls'[i] = calls[i] /\ calls[i] \in Result
    BY <1>1, <1>2, <1>3
  <1>7. status' \in {"running", "answered"} /\ (status' = "running" => todo' # {})
    BY <1>2, <1>5
  <1>8. TypeOK'
    BY <1>2, <1>3, <1>5, <1>6, <1>7 DEF CascadeInv, TypeOK
  <1>9. \A i \in 1..n : calls[i].tier_used \in executed /\ calls[i].tier_used # tier
    BY <1>3, <1>6 DEF CascadeInv, OrderInv, Ran
  <1>10. NoCycle'
    BY <1>1, <1>3, <1>6, <1>9 DEF CascadeInv, NoCycle
  <1>11. executed' = Ran'
    <2>1. Ran = {calls[i].tier_used : i \in 1..n}
      BY <1>6 DEF Ran
    <2>2. Ran' = {calls'[i].tier_used : i \in 1..(n + 1)}
      BY <1>6 DEF Ran
    <2>3. 1..(n + 1) = 1..n \cup {n + 1}
      BY <1>3
    <2>4. Ran' = Ran \cup {tier}
      BY <1>1, <1>6, <2>1, <2>2, <2>3
    <2> QED BY <1>2, <2>4 DEF CascadeInv, OrderInv
  <1>12. EscalatedInv'
    BY <1>2, <1>3, <1>6 DEF CascadeInv, EscalatedInv, Escalates
  <1>13. BestEffort'
    <2>1. \A i \in DOMAIN calls' : i < Len(calls') => Escalates(calls'[i])
      BY <1>2, <1>3, <1>6 DEF CascadeInv, EscalatedInv
    <2>2. ASSUME status' = "answered", Escalates(result) PROVE executed' = Tiers
      <3>1. todo' \subseteq executed'
        BY <1>2, <2>2
      <3> QED BY <1>2, <1>3, <1>5, <1>8, <3>1 DEF TypeOK
    <2> QED BY <1>6, <1>11, <2>1, <2>2 DEF BestEffort, Escalates
  <1>14. tier \in {preferred, routed} \/ \A t \in todo' : Rank[tier] < Rank[t]
    <2>1. CASE front \in todo \ executed
      BY <1>2, <1>3, <2>1, CascadeAssumption DEF Current, CascadeInv, FrontInv
    <2>2. CASE front \notin todo \ executed
      <3>1. \A t \in todo : Rank[tier] <= Rank[t]
        BY <1>2, <1>3, <2>2 DEF Current
      <3>2. todo' \subseteq Tiers /\ tier \notin todo' /\ todo' \subseteq todo
        BY <1>5
      <3> QED BY <3>1, <3>2, CascadeAssumption
    <2> QED BY <2>1, <2>2
  <1>15. \A i \in 1..n : calls[i].tier_used \in {preferred, routed}
                         => calls[i].tier_used \in {preferred', routed'}
    <2>1. \A i \in 1..n : calls[i].tier_used \in Tiers
      BY <1>6 DEF Result
    <2>2. preferred' = preferred /\ (routed \in Tiers => routed' = routed)
      BY <1>2, <1>4, CascadeAssumption
    <2> QED BY <2>1, <2>2
  <1>16. OrderInv'
    <2>1. tier \in {preferred, routed} => tier \in {preferred', routed'}
      BY <1>2, <1>4, CascadeAssumption
    <2>2. ASSUME NEW i \in 1..(n + 1), NEW t \in todo'
          PROVE  Rank[calls'[i].tier_used] < Rank[t] \/ calls'[i].tier_used \in {preferred', routed'}
      <3>1. CASE i = n + 1
        BY <1>1, <1>6, <1>14, <2>1, <3>1
      <3>2. CASE i \in 1..n
        BY <1>5, <1>6, <1>15, <3>2 DEF CascadeInv, OrderInv
      <3> QED BY <1>3, <3>1, <3>2
    <2> QED BY <1>6, <1>11, <2>2 DEF OrderInv
  <1>17. InOrder'
    <2>1. ASSUME NEW i \in 1..(n + 1), calls'[i].tier_used = preferred' PROVE i = 1
      <3>1. CASE n = 0
        BY <2>1, <3>1
      <3>2. CASE n # 0
        <4>1. preferred \in Tiers
          BY <1>1, <1>2, <1>6, <2>1 DEF Result
        <4>2. calls # <<>> /\ calls[1].tier_used = preferred
          BY <1>3, <3>2, <4>1 DEF CascadeInv, FrontInv
        <4>3. calls'[1].tier_used = preferred'
          BY <1>2, <1>3, <1>6, <3>2, <4>2
        <4> QED BY <1>3, <1>6, <1>10, <2>1, <4>3 DEF NoCycle
      <3> QED BY <3>1, <3>2
    <2>2. ASSUME NEW i \in 1..(n + 1), NEW j \in 1..(n + 1), i < j
          PROVE  \/ Rank[calls'[i].tier_used] < Rank[calls'[j].tier_used]
                 \/ calls'[i].tier_used \in {preferred', routed'}
      <3>1. i \in 1..n
        BY <1>3, <2>2
      <3>2. CASE j = n + 1
        BY <1>1, <1>3, <1>6, <1>15, <3>1, <3>2 DEF CascadeInv, OrderInv
      <3>3. CASE j \in 1..n
        BY <1>6, <1>15, <2>2, <3>1, <3>3 DEF CascadeInv, InOrder
      <3> QED BY <1>3, <3>2, <3>3
    <2> QED BY <1>6, <2>1, <2>2 DEF InOrder
  <1>18. FrontInv'
    <2>1. calls'[1].tier_used = preferred' \/ preferred' \notin Tiers
      <3>1. CASE n = 0
        <4>1. calls = <<>>
          BY <1>3, <3>1
        <4>2. preferred \in Tiers => front = preferred
          BY <1>2, <4>1 DEF CascadeInv, FrontInv
        <4>3. preferred \in Tiers => tier = preferred
          BY <1>2, <1>3, <4>2, CascadeAssumption DEF Current
        <4> QED BY <1>1, <1>2, <1>6, <3>1, <4>3
      <3>2. CASE n # 0
        BY <1>2, <1>3, <1>6, <3>2 DEF CascadeInv, FrontInv
      <3> QED BY <3>1, <3>2
    <2> QED BY <1>4, <1>6, <1>7, <2>1 DEF FrontInv
  <1> QED BY <1>8, <1>10, <1>12, <1>13, <1>16, <1>17, <1>18 DEF CascadeInv

LEMMA CascadeStep == CascadeInv /\ [Next]_vars => CascadeInv'
  <1> SUFFICES ASSUME CascadeInv, [Next]_vars PROVE CascadeInv'
    OBVIOUS
  <1>1. CASE UNCHANGED vars
    BY <1>1 DEF vars, CascadeInv, TypeOK, NoCycle, BestEffort, InOrder, FrontInv, OrderInv,
                EscalatedInv, Ran, Escalates
  <1> QED BY <1>1, AskStep, SearchStep, RaiseStep DEF Next

\* The list of the orchestrator is always the tiers that have not run, with at
\* most one at its front, and a running query has a tier to go on with.
THEOREM ListIsWhatHasNotRun == Spec => []TypeOK
  <1>1. CascadeInv => TypeOK
    BY DEF CascadeInv
  <1> QED BY InitCascade, CascadeStep, <1>1, PTL DEF Spec

\* Whatever the tiers return and wherever they route, none runs twice for one
\* query, so a query makes at most as many searches as there are tiers.
THEOREM NoTierRunsTwice == Spec => []NoCycle
  <1>1. CascadeInv => NoCycle
    BY DEF CascadeInv
  <1> QED BY InitCascade, CascadeStep, <1>1, PTL DEF Spec

\* A result below its tier's threshold is returned only once every tier has
\* run, and no tier runs after a result that is good enough.
THEOREM AnswersAreBestEffort == Spec => []BestEffort
  <1>1. CascadeInv => BestEffort
    BY DEF CascadeInv
  <1> QED BY InitCascade, CascadeStep, <1>1, PTL DEF Spec

\* The order of the searches is the cascade's, but for the preferred tier and
\* one that was routed to.
THEOREM TiersRunInOrder == Spec => []InOrder
  <1>1. CascadeInv => InOrder
    BY DEF CascadeInv
  <1> QED BY InitCascade, CascadeStep, <1>1, PTL DEF Spec
=============================================================================
