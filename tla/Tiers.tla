--------------------------------- MODULE Tiers ---------------------------------
(***************************************************************************)
(* The searches of the exact and the hybrid tier                           *)
(* (backend/retrieval/exact.py, hybrid.py), which the cascade, the router  *)
(* and the workflows call.  A search ends at step "found", with its hits;  *)
(* whoever asked for it goes on from there.                                *)
(*                                                                         *)
(* Scores are in thousandths.  What a text names and matches is left open: *)
(* the ids in it are any, and an index returns any nodes in any order.     *)
(***************************************************************************)
EXTENDS Evidence, FiniteSetsExt, SequencesExt

CONSTANTS
  TextScores,     \* the normalized BM25 scores of a fulltext hit, below 1000
  CandidateLimit, \* the hits of one arm of the hybrid tier
  ResultLimit     \* and those it returns

ASSUME TiersAssumption ==
  /\ TextScores \subseteq 0 .. 999 /\ TextScores # {}
  /\ CandidateLimit \in 1 .. 30 /\ ResultLimit \in 1 .. CandidateLimit

VARIABLES
  status,   \* "asked", "running", "answered" or "raised"
  step,     \* where a running request is
  hits,     \* the hits of the last search, each with its score
  vector    \* the ranking of the vector arm

search == <<hits, vector>>

NoHits == [n \in {} |-> 0]
CertainScore == 1000

At(here) == status = "running" /\ step = here

Best(found) == IF DOMAIN found = {} THEN 0 ELSE Max({found[n] : n \in DOMAIN found})

Found(found) ==
  /\ hits' = found /\ Cite(DOMAIN found)
  /\ step' = "found"
  /\ UNCHANGED <<graph, status>> /\ vector' = <<>>

\* The nodes whose ids are in the text: if there is one the search ends.
ExactIds ==
  /\ At("exact")
  /\ \/ \E named \in SUBSET present \ {{}} : Found([n \in named |-> CertainScore])
     \/ /\ step' = "exact text"
        /\ UNCHANGED <<graph, cites, status, search>>

\* A short phrase is looked up in the fulltext index, a longer one finds nothing.
ExactText ==
  /\ At("exact text")
  /\ \E matches \in SUBSET present : \E scores \in [matches -> TextScores] : Found(scores)

-----------------------------------------------------------------------------
RrfK == 60
\* Mutant of ArmScore: ranks are not damped.
ArmScoreUndamped(rank) == 500 \div rank

\* Mutant of ArmScore: ranks are counted from 0.
ArmScoreFromZero(rank) == (500 * (RrfK + 1)) \div (RrfK + rank - 1)

\* Reciprocal rank fusion: of the most a node can get, first in both arms, the
\* thousandths it gets for its rank in one arm, rounded down.
ArmScore(rank) == (500 * (RrfK + 1)) \div (RrfK + rank)

ScoreIn(ranking, n) ==
  IF Contains(ranking, n) THEN ArmScore(CHOOSE i \in DOMAIN ranking : ranking[i] = n) ELSE 0

Fused(other) ==
  [n \in ToSet(vector) \cup ToSet(other) |-> ScoreIn(vector, n) + ScoreIn(other, n)]

\* The best `limit` of the hits; which of equal ones is left open.
Tops(found, limit) ==
  {best \in SUBSET DOMAIN found :
     /\ Cardinality(best) = Min({limit, Cardinality(DOMAIN found)})
     /\ \A n \in best, m \in DOMAIN found \ best : found[n] >= found[m]}

Rankings == {ranking \in SetToAllKPermutations(present) : Len(ranking) <= CandidateLimit}

\* The vector arm, one statement.
VectorArm ==
  /\ At("hybrid")
  /\ vector' \in Rankings
  /\ step' = "fulltext"
  /\ UNCHANGED <<graph, cites, status, hits>>

\* The fulltext arm, a second one, and the fusion of both.
FulltextArm ==
  /\ At("fulltext")
  /\ \E ranking \in Rankings : \E best \in Tops(Fused(ranking), ResultLimit) :
       Found([n \in best |-> Fused(ranking)[n]])

TierSteps == ExactIds \/ ExactText \/ VectorArm \/ FulltextArm

TiersInit ==
  /\ EvidenceInit
  /\ status = "asked" /\ step = "none"
  /\ hits = NoHits /\ vector = <<>>
=============================================================================
