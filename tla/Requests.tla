-------------------------------- MODULE Requests --------------------------------
(***************************************************************************)
(* One request of the retrieval API (backend/api/app.py): a query in the   *)
(* cascade, or one of the two workflows, which have their own fixed order  *)
(* of searches and calls of the language model                             *)
(* (backend/retrieval/workflows/thread_summary.py, customer_email.py).     *)
(* Nothing is kept from one request to the next.                           *)
(***************************************************************************)
EXTENDS Retrieval

CONSTANTS
  MaxToolCalls,   \* of a thread summary
  ClusterLimit,   \* hits a thread keeps of one search
  MaxQueries,     \* bound on the searches of a thread
  NoNode

ASSUME RequestsAssumption ==
  /\ MaxToolCalls \in Nat \ {0} /\ ClusterLimit \in Nat \ {0}
  /\ MaxQueries \in Nat /\ NoNode \notin Nodes

VARIABLES
  queries,   \* searches a thread still has to make
  used,      \* tool calls a thread has counted
  sender,    \* the node an email is from
  reply,     \* of a workflow: its relevance, and if there is an answer
  failed     \* a statement, an embedding or the model failed

workflow == <<queries, used, sender, reply, failed>>
allVars == <<vars, workflow>>

NoReply == [relevance |-> 0, answer |-> FALSE]

Reply(relevance, answer) ==
  /\ status' = "answered" /\ step' = "none"
  /\ reply' = [relevance |-> relevance, answer |-> answer]

Fails == Raise /\ failed' = TRUE /\ UNCHANGED <<graph, cites, search, calling, cascade, turns,
                                                 queries, used, sender, reply>>

-----------------------------------------------------------------------------
(* The thread summary *)

InThread(here) == kind = "thread" /\ At(here)

\* An empty thread is answered without a search; without participants and ids
\* there is nothing to search for.
AskThread(empty, n) ==
  /\ status = "asked" /\ kind' = "thread"
  /\ \/ empty /\ Reply(Failed, FALSE) /\ UNCHANGED queries
     \/ /\ ~empty /\ status' = "running" /\ queries' = n
        /\ step' = IF n = 0 THEN "brief" ELSE "hybrid"
        /\ UNCHANGED reply
  /\ UNCHANGED <<graph, cites, search, calling, prefer, ordered, routed, results,
                 turns, used, sender, failed>>

\* The best hits of a search join the cluster; their traces are read once more.
Harvest ==
  /\ InThread("found")
  /\ \E best \in Tops(hits, ClusterLimit) : Cite(best)
  /\ queries' = queries - 1
  /\ step' = IF queries = 1 THEN "brief" ELSE "hybrid"
  /\ UNCHANGED <<graph, status, search, calling, cascade, turns, used, sender, reply, failed>>

\* What a thread summary answers when the model fails or the budget is spent.
Partial ==
  /\ Reply(Failed, FALSE)
  /\ UNCHANGED <<graph, cites, search, calling, cascade, turns, queries, sender, failed>>

Brief(n) ==
  InThread("brief") /\ Replies(n) /\ UNCHANGED <<cascade, turns, workflow>>

ThreadFollowUp(n) == kind = "thread" /\ FollowUp(n) /\ UNCHANGED workflow

\* Mutant of ModelFails: only a failure of the model's first call is caught.
ModelFailsAtStart ==
  (InThread("brief") /\ Partial /\ UNCHANGED used) \/ (InThread("follow up") /\ Fails)

ModelFails ==
  (InThread("brief") \/ InThread("follow up")) /\ Partial /\ UNCHANGED used

\* Every turn with calls is dispatched.
ThreadTurn ==
  /\ InThread("turn") /\ step' = "tools"
  /\ UNCHANGED <<graph, cites, status, search, calling, cascade, turns, workflow>>

\* A call is counted, and one too many ends the loop before it is dispatched.
ThreadCall ==
  /\ InThread("tools")
  /\ \/ /\ used < MaxToolCalls /\ TheThreeTools
        /\ UNCHANGED <<cascade, turns, queries, sender, reply, failed>>
     \/ used = MaxToolCalls /\ Partial
  /\ used' = used + 1

\* A neighbor that is gone is an error, which fails the call.
ThreadWalk ==
  /\ kind = "thread"
  /\ (\E n \in present : Visit(n)) \/ EndWalk
  /\ UNCHANGED <<cascade, turns, workflow>>

ThreadAnswer ==
  /\ InThread("answer")
  /\ Reply(AnswerRelevance(cites # {}), TRUE)
  /\ UNCHANGED <<graph, cites, search, calling, cascade, turns, queries, used, sender, failed>>

ThreadFails == (InThread("hybrid") \/ InThread("fulltext") \/ InThread("found")) /\ Fails

-----------------------------------------------------------------------------
(* The answer to a customer's email *)

InEmail(here) == kind = "email" /\ At(here)

AskEmail ==
  /\ status = "asked" /\ kind' = "email"
  /\ status' = "running" /\ step' = "exact"
  /\ UNCHANGED <<graph, cites, search, calling, prefer, ordered, routed, results,
                 turns, workflow>>

\* The sender is the first hit: the statements name no order.  Without one there
\* is no answer, and the model is not asked.
Sender ==
  /\ InEmail("found") /\ sender = NoNode
  /\ \/ DOMAIN hits = {} /\ Reply(0, FALSE) /\ UNCHANGED sender
     \/ /\ sender' \in DOMAIN hits
        /\ step' = "related" /\ reply' = [relevance |-> hits[sender'], answer |-> FALSE]
        /\ UNCHANGED status
  /\ UNCHANGED <<graph, cites, search, calling, cascade, turns, queries, used, failed>>

\* Mutant of Related: the neighbors are those of an earlier listing.
RelatedBefore == AtMost(MaxNeighbors) \cup {{n} : n \in Nodes}

Related == AtMost(MaxNeighbors)

\* The neighbors of the sender, and each of them; one that is gone raises.
Relations ==
  /\ InEmail("related")
  /\ \E around \in Related :
       sender \notin around /\ walk' = around
  /\ step' = "walk"
  /\ UNCHANGED <<graph, cites, status, search, left, cascade, turns, workflow>>

Relation(n) ==
  /\ InEmail("walk") /\ n \in walk
  /\ \/ n \in present /\ Cite({n}) /\ walk' = walk \ {n} /\ UNCHANGED <<status, step>>
     \/ n \notin present /\ Raise /\ UNCHANGED <<cites, walk>>
  /\ UNCHANGED <<graph, search, left, cascade, turns, workflow>>

\* The second search is for the body of the email.
SearchBody ==
  /\ InEmail("walk") /\ walk = {} /\ step' = "hybrid"
  /\ UNCHANGED <<graph, cites, status, search, calling, cascade, turns, workflow>>

\* Its hits are cut to the best ones; all its citations are kept.
Products ==
  /\ InEmail("found") /\ sender # NoNode
  /\ step' = "compose"
  /\ UNCHANGED <<graph, cites, status, search, calling, cascade, turns, workflow>>

\* The model composes the answer in one turn; the relevance is the sender's.
Compose ==
  /\ InEmail("compose")
  /\ Reply(reply.relevance, TRUE)
  /\ UNCHANGED <<graph, cites, search, calling, cascade, turns, queries, used, sender, failed>>

EmailFails == kind = "email" /\ status = "running" /\ Fails

-----------------------------------------------------------------------------
Init ==
  /\ RetrievalInit
  /\ queries = 0 /\ used = 0 /\ sender = NoNode /\ reply = NoReply /\ failed = FALSE

Process ==
  \/ (QueryStep \/ SearchStep) /\ UNCHANGED workflow
  \/ \E empty \in BOOLEAN, n \in 0 .. MaxQueries : AskThread(empty, n)
  \/ Harvest \/ ModelFails \/ ThreadTurn \/ ThreadCall \/ ThreadWalk \/ ThreadAnswer \/ ThreadFails
  \/ \E n \in 0 .. MaxCalls : Brief(n) \/ ThreadFollowUp(n)
  \/ AskEmail \/ Sender \/ Relations \/ (\E n \in Nodes : Relation(n)) \/ SearchBody
  \/ Products \/ Compose \/ EmailFails

Next == Process \/ (OtherProcess /\ UNCHANGED workflow)

Spec == Init /\ [][Next]_allVars /\ WF_allVars(Process)

-----------------------------------------------------------------------------
(* Properties *)

\* The cascade as Cascade has it: the tiers moved to the front of the list are
\* the preferred one before it has run, and the one a directive was honored for.
MovedAhead ==
  IF status # "answered" /\ results = <<>> /\ prefer \in Tiers THEN prefer
  ELSE IF status # "answered" /\ routed \in ToSet(ordered) THEN routed
  ELSE NoTier

ArmScores == {0} \cup {ArmScore(rank) : rank \in 1 .. CandidateLimit}
FusedScores == {one + other : one, other \in ArmScores}
ScoresGiven == {Failed, Ungrounded, Grounded, CertainScore} \cup TextScores \cup FusedScores

Position == [tier \in Tiers |-> CHOOSE i \in DOMAIN CascadeOrder : CascadeOrder[i] = tier]

\* A workflow is no query.
QueryStatus == IF kind \in {"none", "query"} THEN status ELSE "asked"

Calls ==
  [i \in DOMAIN results |-> [tier_used |-> results[i].tier_used,
                             relevance |-> results[i].relevance,
                             route_to |-> results[i].route_to]]

C == INSTANCE Cascade WITH
  Rank <- Position, Relevances <- ScoresGiven,
  status <- QueryStatus, preferred <- prefer,
  todo <- ToSet(ordered), executed <- Tiers \ ToSet(ordered),
  front <- MovedAhead, calls <- Calls

\* The list of the code, with the searches, the router and the agent in their
\* tiers, does what Cascade says: no tier runs twice, a directive is honored
\* once, and nothing is answered that should escalate.
ImplementsCascade == C!Spec

\* The variables stay in their types; what is running is somewhere.
TypeOK ==
  /\ EvidenceTypeOK
  /\ status \in {"asked", "running", "answered", "raised"}
  /\ kind \in {"none", "query", "thread", "email"}
  /\ (status = "running") = (step # "none")
  /\ DOMAIN hits \subseteq Nodes /\ \A n \in DOMAIN hits : hits[n] \in 0 .. CertainScore
  /\ ToSet(vector) \subseteq Nodes
  /\ left \in 0 .. MaxCalls /\ walk \subseteq Nodes
  /\ turns \in 0 .. MaxIterations + 1 /\ used \in 0 .. MaxToolCalls + 1
  /\ sender \in Nodes \cup {NoNode} /\ queries \in 0 .. MaxQueries

\* The hybrid tier trusts its best hit, and the cascade stops at it, exactly when
\* both arms ranked it, whatever the ranks: two independent indexes agree.
ConfidentIffAgreed ==
  At("fulltext") =>
    \A ranking \in Rankings : LET found == Fused(ranking) IN
      \A n \in DOMAIN found :
        (found[n] >= Threshold["hybrid"]) = (Contains(vector, n) /\ Contains(ranking, n))

\* What the caller of a query gets without evidence is the empty answer of the
\* stub: prose of the agent is passed on only with citations.
AnswersTrusted ==
  status = "answered" /\ kind = "query" =>
    LET result == Last(results)
    IN /\ result.tier_used = "stub" => result.cites = {}
       /\ result.tier_used = "agentic" => result.cites # {}

\* An answer to an email fails only if a store or the model does, or if another
\* process took a node away meanwhile.
OnlyAChangeRaises == kind = "email" /\ status = "raised" => failed \/ changes > 0

\* Every request ends, whatever the model asks for, in an answer or an error.
RequestEnds == status = "running" ~> status \in {"answered", "raised"}

\* A thread whose summary was begun gets an answer, with whatever tools and model
\* fail: "never crashes".
SummaryAlwaysComes == kind = "thread" /\ step = "brief" ~> status = "answered"

\* "Any partial citations gathered before the failure are still surfaced so the UI
\* can show what evidence the agent did manage to find."
PartialCitationsSurface ==
  status = "answered" /\ kind = "query" /\ Last(results).tier_used = "stub" =>
    \A i \in DOMAIN results :
      results[i].tier_used = "agentic" => results[i].cites \subseteq Last(results).cites

-----------------------------------------------------------------------------
(* What keeps the properties *)

\* Before a request there is nothing of it, and a workflow leaves the cascade alone.
FreshInv ==
  /\ (status = "asked") = (kind = "none")
  /\ kind # "query" => /\ ordered = CascadeOrder /\ prefer = NoTier
                       /\ routed = NoTier /\ results = <<>>
  /\ kind = "none" => cites = {} /\ walk = {} /\ turns = 0

\* The scores of the hits and the ranking of the vector arm, which may name nodes
\* that are gone.
SearchInv ==
  /\ \A n \in DOMAIN hits : hits[n] \in ScoresGiven
  /\ vector \in Seq(Nodes) /\ Len(vector) <= CandidateLimit

InCascadeOrder(list) ==
  \A i, j \in DOMAIN list : i < j => Position[list[i]] < Position[list[j]]

\* The list: the tiers behind its head are in cascade order, and so is the head
\* unless it was moved there.
ListInv ==
  /\ ordered \in Seq(Tiers)
  /\ ordered # <<>> =>
       /\ InCascadeOrder(Tail(ordered)) /\ Head(ordered) \notin ToSet(Tail(ordered))
       /\ Head(ordered) \notin {prefer, routed} => InCascadeOrder(ordered)

\* A tier moved ahead is the head until it has run.
FrontInv ==
  /\ prefer \in Tiers \cup {Foreign, NoTier} /\ routed \in Tiers \cup {NoTier}
  /\ results = <<>> => routed = NoTier
  /\ status = "running" /\ kind = "query" =>
       /\ prefer \in Tiers => IF results = <<>> THEN Head(ordered) = prefer
                               ELSE prefer \notin ToSet(ordered)
       /\ routed \in ToSet(ordered) => Head(ordered) = routed

Results ==
  [tier_used: Tiers, relevance: ScoresGiven, route_to: Tiers \cup {NoTier},
   cites: SUBSET (Nodes \cup {Whole})]

ResultsInv == results \in Seq(Results) /\ (status = "answered" /\ kind = "query" => results # <<>>)

AgentSteps == {"turn", "tools", "walk", "follow up", "answer"}

StepsOf ==
  [exact |-> {"exact", "exact text", "found"},
   router |-> {"router", "exact", "exact text", "found"},
   hybrid |-> {"hybrid", "fulltext", "found"},
   agentic |-> {"agentic", "overrun"} \cup AgentSteps,
   stub |-> {"stub"}]

\* A query that runs is at a step of the first tier of its list; the stub, which
\* ends every query that nothing else answers, has not run and starts with no
\* citation.
QueryInv ==
  status = "running" /\ kind = "query" =>
    /\ ordered # <<>> /\ step \in StepsOf[Head(ordered)]
    /\ "stub" \in ToSet(ordered) /\ (step = "stub" => cites = {})

\* A workflow is at one of its own steps.
WorkflowInv ==
  status = "running" =>
    /\ kind = "thread" => step \in {"brief", "hybrid", "fulltext", "found"} \cup AgentSteps
    /\ kind = "thread" /\ step \in {"hybrid", "fulltext", "found"} => queries # 0
    /\ kind = "email" => step \in {"exact", "exact text", "found", "related", "walk",
                                    "hybrid", "fulltext", "compose"}
    /\ kind = "email" /\ sender = NoNode => step \in {"exact", "exact text", "found"}

\* A turn has a call left to answer, and the turns are counted up to the bound.
TurnInv ==
  status = "running" =>
    /\ kind # "email" /\ step \in {"turn", "tools", "walk"} => left # 0
    /\ step # "overrun" => turns <= MaxIterations

\* While no other process changed the graph, the neighbors an email has still to
\* visit are there.
EmailInv ==
  kind = "email" /\ changes = 0 /\ ~failed => walk \subseteq present /\ status # "raised"

RequestsInv ==
  /\ TypeOK /\ FreshInv /\ SearchInv /\ ListInv /\ FrontInv /\ ResultsInv /\ QueryInv
  /\ WorkflowInv /\ TurnInv /\ EmailInv /\ AnswersTrusted

-----------------------------------------------------------------------------
(* What makes a request end *)

\* What is ahead of a request: the tiers of a query, the searches of a thread, the
\* parts of an email.
Ahead ==
  IF kind = "query" THEN Cardinality(ToSet(ordered))
  ELSE IF kind = "thread" THEN queries
  ELSE IF sender = NoNode THEN 2 ELSE IF step \in {"related", "walk"} THEN 1 ELSE 0

\* The turns of an agent or the calls of a thread that are left; a call that is still
\* walking is one of them.
Budget ==
  IF kind = "query" THEN MaxIterations + 1 - turns
  ELSE IF kind = "thread" THEN MaxToolCalls + 1 - used + (IF step = "walk" THEN 1 ELSE 0)
  ELSE 0

\* The calls of the agent's turn that are not answered.
Unanswered == IF kind = "query" /\ step \in {"tools", "walk"} THEN left ELSE 0

\* The order of the steps in between.
Stages ==
  << {"agentic", "router"}, {"exact", "hybrid"}, {"exact text", "fulltext"}, {"found"}, {"brief"},
     {"follow up"}, {"turn", "related"}, {"tools"}, {"walk"}, {"answer", "compose"} >>

Precedes(here, there) ==
  \E i, j \in DOMAIN Stages : i < j /\ here \in Stages[i] /\ there \in Stages[j]

\* A step uses up some of what is ahead, or else of the budget, or else a call, a
\* stage or a neighbor to visit.
Advances ==
  \/ Ahead' < Ahead
  \/ Ahead' = Ahead /\ Budget' < Budget
  \/ Ahead' = Ahead /\ Budget' = Budget /\ Unanswered' < Unanswered
  \/ /\ Ahead' = Ahead /\ Budget' = Budget /\ Unanswered' = Unanswered
     /\ \/ Precedes(step, step')
        \/ step' = step /\ walk' \subseteq walk /\ walk' # walk

\* None of the three is overspent.
Measured == {Ahead, Budget, Unanswered} \subseteq Nat

\* No step of a request that goes on is for nothing, and another process takes nothing
\* of that back: what RequestEnds rests on, for any bounds.
EveryStepCounts ==
  [][status = "running" /\ status' = "running" =>
       \/ Process /\ Advances
       \/ ~ Process /\ UNCHANGED <<kind, Ahead, Budget, Unanswered, step, walk>>]_allVars
=============================================================================
