------------------------------- MODULE Retrieval -------------------------------
(***************************************************************************)
(* A query of the API in the cascade that production builds                *)
(* (build_orchestrator_with_store in backend/retrieval/orchestrator.py):   *)
(* what Cascade says of any tiers, with the list the orchestrator keeps    *)
(* and with the tiers themselves (exact, hybrid, router.py, agentic.py).   *)
(*                                                                         *)
(* What a model answers is left open: the intent and the entities of the   *)
(* router, the calls of each turn of the agent, a failure of either.  So   *)
(* is the time: the agent's budget may be over whenever it is checked.     *)
(***************************************************************************)
EXTENDS ToolBox

CONSTANTS
  MaxIterations,   \* turns with calls that the agent is given
  MaxCalls,        \* bound on the calls of one turn
  Foreign, NoTier

ASSUME RetrievalAssumption ==
  /\ MaxIterations \in Nat \ {0} /\ MaxCalls \in Nat \ {0}
  /\ Foreign # NoTier
  /\ {Foreign, NoTier} \cap {"exact", "router", "hybrid", "agentic", "stub"} = {}

VARIABLES
  kind,      \* the request: "none", "query", or a workflow
  prefer,    \* prefer_tier of the query
  ordered,   \* the tiers still in the list, the current one first
  routed,    \* the tier a directive was honored for
  results,   \* of the tiers that ran
  turns      \* turns with calls of the agent

cascade == <<kind, prefer, ordered, routed, results>>
vars == <<graph, cites, status, step, search, calling, cascade, turns>>

CascadeOrder == <<"exact", "router", "hybrid", "agentic", "stub">>
Tiers == ToSet(CascadeOrder)

\* Mutant of Threshold: any prose of the agent will do.
ThresholdOfProse ==
  [exact |-> 500, router |-> 500, hybrid |-> 600, agentic |-> 200, stub |-> 0]

Threshold ==
  [exact |-> 500, router |-> 500, hybrid |-> 600, agentic |-> 500, stub |-> 0]

Intents == {"lookup", "search", "analytical", "ambiguous"}

\* What a classifier decides; the confidence matters as far as it reaches the floor.
Decisions == [intent: Intents, confident: BOOLEAN]

NextTierFor ==
  [lookup |-> NoTier, search |-> "hybrid", analytical |-> "agentic", ambiguous |-> NoTier]

Grounded == 700
Ungrounded == 300
Failed == 0

-----------------------------------------------------------------------------
(* The cascade *)

Raise == status' = "raised" /\ step' = "none"

\* A list names a tier at most once.
Preferred(tier) == <<tier>> \o RemoveFirst(CascadeOrder, tier)

\* run(): an unknown preference raises.
Ask(tier) ==
  /\ status = "asked" /\ kind' = "query" /\ prefer' = tier
  /\ \/ tier = Foreign /\ Raise /\ UNCHANGED ordered
     \/ /\ tier # Foreign /\ status' = "running"
        /\ ordered' = IF tier \in Tiers THEN Preferred(tier) ELSE CascadeOrder
        /\ step' = Head(ordered')
  /\ UNCHANGED <<graph, cites, search, calling, routed, results, turns>>

Honored(route) ==
  routed = NoTier /\ route \in ToSet(Tail(ordered))

\* Mutant of Onward: the tier a directive names runs again in its place.
OnwardTwice(route) == IF Honored(route) THEN <<route>> \o Tail(ordered) ELSE Tail(ordered)

Onward(route) ==
  IF Honored(route) THEN <<route>> \o RemoveFirst(Tail(ordered), route)
  ELSE Tail(ordered)

\* The orchestrator is given the current tier's result; the next tier
\* starts with nothing of it.
Deliver(relevance, route) ==
  LET tier == Head(ordered)
      escalates == relevance < Threshold[tier]
  IN /\ results' = Append(results, [tier_used |-> tier, relevance |-> relevance,
                                    route_to |-> route, cites |-> cites])
     /\ ordered' = IF escalates THEN Onward(route) ELSE Tail(ordered)
     /\ routed' = IF escalates /\ Honored(route) THEN route ELSE routed
     /\ \/ escalates /\ ordered' # <<>> /\ step' = Head(ordered') /\ UNCHANGED status
        \/ /\ ~(escalates /\ ordered' # <<>>)
           /\ status' = "answered" /\ step' = "none"
     /\ cites' = {} /\ hits' = NoHits /\ turns' = 0
     /\ UNCHANGED <<graph, vector, calling, kind, prefer>>

\* The exact and the hybrid tier, and the router's lookup, return what they found.
DeliverFound == kind = "query" /\ At("found") /\ Deliver(Best(hits), NoTier)

DeliverNothing == kind = "query" /\ At("stub") /\ Deliver(0, NoTier)

Intent(decision) == IF decision.confident THEN decision.intent ELSE "ambiguous"

\* The router: a lookup asks the exact tier for the ids among the entities, or for
\* the query as it was; any other intent abstains, and may name a tier.
Classify(decision) ==
  LET intent == Intent(decision)
  IN /\ kind = "query" /\ At("router")
     /\ \/ /\ intent = "lookup"
           /\ step' = "exact"
           /\ UNCHANGED <<graph, cites, status, search, calling, cascade, turns>>
        \/ intent # "lookup" /\ Deliver(0, NextTierFor[intent])

-----------------------------------------------------------------------------
(* The agent *)

\* A turn of the model: its answer, or calls.
Replies(n) ==
  /\ left' = n
  /\ step' = IF n = 0 THEN "answer" ELSE "turn"
  /\ UNCHANGED <<graph, cites, status, search, walk>>

Start(n) == kind = "query" /\ At("agentic") /\ Replies(n) /\ UNCHANGED <<cascade, turns>>
FollowUp(n) == At("follow up") /\ Replies(n) /\ UNCHANGED <<cascade, turns>>

\* Mutant of Counted: the turns are not counted.
NotCounted == 0

Counted == turns + 1

\* The bounds are checked before a turn's calls are dispatched.
Turn ==
  /\ kind = "query" /\ At("turn")
  /\ turns' = Counted
  /\ \/ turns' > MaxIterations /\ step' = "overrun"
     \/ turns' <= MaxIterations /\ step' \in {"tools", "overrun"}
  /\ UNCHANGED <<graph, cites, status, search, calling, cascade>>

Overrun == kind = "query" /\ At("overrun") /\ Deliver(Failed, NoTier)

\* The relevance of an answer, with citations and without.
AnswerRelevance(evidenced) == IF evidenced THEN Grounded ELSE Ungrounded

Answer ==
  kind = "query" /\ At("answer") /\ Deliver(AnswerRelevance(cites # {}), NoTier)

Tools ==
  /\ kind = "query" /\ (AllTools \/ (\E n \in Nodes : Visit(n)) \/ EndWalk)
  /\ UNCHANGED <<cascade, turns>>

\* A statement, an embedding, a classification or the model fails; in a tool's
\* call it would be caught.
Failing ==
  /\ kind = "query" /\ status = "running" /\ step \notin {"tools", "walk"}
  /\ Raise
  /\ UNCHANGED <<graph, cites, search, calling, cascade, turns>>

-----------------------------------------------------------------------------
RetrievalInit ==
  /\ ToolBoxInit
  /\ kind = "none" /\ prefer = NoTier
  /\ ordered = CascadeOrder /\ routed = NoTier /\ results = <<>> /\ turns = 0

QueryStep ==
  \/ \E tier \in Tiers \cup {Foreign, NoTier} : Ask(tier)
  \/ DeliverFound \/ DeliverNothing
  \/ \E decision \in Decisions : Classify(decision)
  \/ \E n \in 0 .. MaxCalls : Start(n) \/ (kind = "query" /\ FollowUp(n))
  \/ Turn \/ Overrun \/ Answer \/ Tools \/ Failing

\* The searches, and what other processes do while a request runs: before it the
\* graph is any.
SearchStep == TierSteps /\ UNCHANGED <<calling, cascade, turns>>
OtherProcess ==
  status = "running" /\ Meanwhile /\ UNCHANGED <<status, step, search, calling, cascade, turns>>
=============================================================================
