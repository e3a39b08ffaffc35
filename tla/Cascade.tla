-------------------------------- MODULE Cascade --------------------------------
(***************************************************************************)
(* One query in the cascade of retrieval tiers                             *)
(* (backend/retrieval/orchestrator.py).                                    *)
(*                                                                         *)
(* The list the code walks is always the tiers that have not run, in       *)
(* cascade order, but for at most one that was moved to the front: the     *)
(* tier the caller prefers, or the one a result routed to.                 *)
(***************************************************************************)
EXTENDS Naturals, Sequences, FiniteSets

CONSTANTS
  Tiers,
  Rank,         \* the position of a tier in cascade order
  Threshold,    \* escalate_below, in the unit of Relevances
  Relevances,   \* the relevances a result may have
  Foreign,      \* the name of a tier that is not registered
  NoTier

ASSUME CascadeAssumption ==
  /\ Tiers # {} /\ IsFiniteSet(Tiers)
  /\ Rank \in [Tiers -> Nat]
  /\ \A m, n \in Tiers : Rank[m] = Rank[n] => m = n
  /\ Threshold \in [Tiers -> Nat]
  /\ Relevances \subseteq Nat
  /\ Foreign \notin Tiers /\ NoTier \notin Tiers

VARIABLES
  status,     \* "running", "answered", or "raised"
  preferred,  \* prefer_tier of the query
  todo,       \* the tiers left in the list
  front,      \* the one moved to the front of it
  executed,
  routed,     \* the tier a directive was honored for, once it was
  calls       \* the results of the searches so far

vars == <<status, preferred, todo, front, executed, routed, calls>>

Named == Tiers \cup {Foreign, NoTier}

Result == [tier_used: Tiers, relevance: Relevances, route_to: Named]

Escalates(result) == result.relevance < Threshold[result.tier_used]

\* The first tier of the list that has not run.
Current(tier) ==
  /\ tier \in todo \ executed
  /\ IF front \in todo \ executed THEN tier = front
     ELSE \A other \in todo \ executed : Rank[tier] <= Rank[other]

\* Mutant of Marked: the tier is not added to those that have run.
NotMarked(tier) == executed

Marked(tier) == executed \cup {tier}

\* Mutant of Honored: tiers may route in a chain.
HonoredAgain(result) ==
  /\ result.route_to \in Tiers
  /\ result.route_to \notin Marked(result.tier_used)

\* A directive is honored once, for a registered tier that has not run.
Honored(result) ==
  /\ routed = NoTier
  /\ result.route_to \in Tiers
  /\ result.route_to \notin Marked(result.tier_used)

\* Mutant of Rerouted: the tiers a directive jumps over are dropped.
ReroutedPast(result) == {t \in todo : Rank[t] >= Rank[result.route_to]}

\* The list after a directive.
Rerouted(result) == (todo \ {result.tier_used}) \cup {result.route_to}

-----------------------------------------------------------------------------
\* run() with a caller's preference; an unknown one raises.
Ask(tier) ==
  /\ status = "asked"
  /\ preferred' = tier
  /\ status' = IF tier = Foreign THEN "raised" ELSE "running"
  /\ front' = IF tier \in Tiers THEN tier ELSE NoTier
  /\ UNCHANGED <<todo, executed, routed, calls>>

\* The current tier returns a result, and the result settles what comes next.
Search(tier, relevance, route_to) ==
  LET result == [tier_used |-> tier, relevance |-> relevance, route_to |-> route_to]
  IN /\ status = "running" /\ Current(tier)
     /\ calls' = Append(calls, result)
     /\ executed' = Marked(tier)
     /\ IF Escalates(result) /\ Honored(result)
          THEN front' = route_to /\ routed' = route_to /\ todo' = Rerouted(result)
          ELSE front' = NoTier /\ routed' = routed /\ todo' = todo \ {tier}
     /\ status' = IF Escalates(result) /\ ~(todo' \subseteq executed') THEN "running"
                  ELSE "answered"
     /\ UNCHANGED preferred

\* It raises, or returns a result under another tier's name.
SearchRaises ==
  /\ status = "running"
  /\ status' = "raised"
  /\ UNCHANGED <<preferred, todo, front, executed, routed, calls>>

Init ==
  /\ status = "asked" /\ preferred = NoTier
  /\ todo = Tiers /\ front = NoTier
  /\ executed = {} /\ routed = NoTier
  /\ calls = <<>>

Next ==
  \/ \E tier \in Named : Ask(tier)
  \/ \E tier \in Tiers, relevance \in Relevances, route_to \in Named :
       Search(tier, relevance, route_to)
  \/ SearchRaises

Spec == Init /\ [][Next]_vars

-----------------------------------------------------------------------------
(* Properties *)

Ran == {calls[i].tier_used : i \in DOMAIN calls}

\* The variables stay in their types; the list holds what has not run.
TypeOK ==
  /\ status \in {"asked", "running", "answered", "raised"}
  /\ preferred \in Named /\ routed \in Tiers \cup {NoTier}
  /\ executed \subseteq Tiers /\ todo = Tiers \ executed
  /\ front \in todo \cup {NoTier}
  /\ calls \in Seq(Result)
  /\ status = "running" => todo # {}

\* However the tiers route, none of them runs twice for one query: "a
\* misclassification cannot send the cascade into a cycle".
NoCycle ==
  \A i, j \in DOMAIN calls : calls[i].tier_used = calls[j].tier_used => i = j

\* The caller gets the last result, and a result below its tier's threshold
\* only when every tier has run: a directive skips no tier for good.
BestEffort ==
  /\ \A i \in DOMAIN calls : i < Len(calls) => Escalates(calls[i])
  /\ status = "answered" =>
       calls # <<>> /\ (Escalates(calls[Len(calls)]) => Ran = Tiers)

\* The tiers run in cascade order, apart from the preferred one, which runs
\* first, and one that a directive moved ahead.
InOrder ==
  /\ \A i \in DOMAIN calls : calls[i].tier_used = preferred => i = 1
  /\ \A i, j \in DOMAIN calls :
       i < j => \/ Rank[calls[i].tier_used] < Rank[calls[j].tier_used]
                \/ calls[i].tier_used \in {preferred, routed}
=============================================================================
