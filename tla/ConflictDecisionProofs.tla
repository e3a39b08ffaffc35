------------------------- MODULE ConflictDecisionProofs -------------------------
(***************************************************************************)
(* Facts about the decision table and reconcile(), for any set of values,  *)
(* sources and attributes.                                                 *)
(***************************************************************************)
EXTENDS ConflictDecision, FiniteSetTheorems, WellFoundedInduction,
        SequenceTheorems, TLAPS

LEMMA LadderType == Ladder \in [Confidences -> 0..3]
  BY DEF Ladder, Confidences

\* The rungs are told apart: facts on one rung have one confidence.
LEMMA LadderInjective ==
  ASSUME NEW c \in Confidences, NEW d \in Confidences, Ladder[c] = Ladder[d]
  PROVE  c = d
  BY DEF Ladder, Confidences

\* decide() is total, and it leaves a conflict to the queue exactly when it
\* names no winner.
THEOREM DecideTotal ==
  ASSUME NEW e \in Candidate, NEW i \in Candidate
  PROVE  /\ Decide(e, i) \in Decision
         /\ (Decide(e, i).winner = "none") <=> (Decide(e, i).verdict \in {"llm_triage", "escalate"})
  BY DEF Decide, Decision, Verdicts, Pick, Queue

\* A human fact yields to nothing but an equal value, another human fact or a
\* correction by its own source.
THEOREM HumanOverrides ==
  ASSUME NEW e \in Candidate, NEW i \in Candidate,
         e.conf = "human", i.conf # "human", ~ SameSource(e, i)
  PROVE  Decide(e, i).winner = "existing"
  BY DEF Decide, Pick

\* Between two sources it does not matter which fact came first: the same
\* value is kept, or both orders leave the choice to the queue.
THEOREM DecideMirrored ==
  ASSUME NEW e \in Candidate, NEW i \in Candidate,
         ~ SameSource(e, i), Norm[e.value] # Norm[i.value]
  PROVE  /\ Decide(e, i).winner = "existing" <=> Decide(i, e).winner = "incoming"
         /\ Decide(e, i).winner = "none" <=> Decide(i, e).winner = "none"
  <1> e.conf \in Confidences /\ i.conf \in Confidences
    BY DEF Candidate
  <1> Ladder[e.conf] \in 0..3 /\ Ladder[i.conf] \in 0..3
    BY LadderType
  <1> ~ SameSource(i, e)
    BY DEF SameSource
  <1>1. CASE e.conf = "human" /\ i.conf = "human"
    BY <1>1 DEF Decide, Pick, Queue
  <1>2. CASE e.conf = "human" /\ i.conf # "human"
    BY <1>2 DEF Decide, Pick, Queue
  <1>3. CASE e.conf # "human" /\ i.conf = "human"
    BY <1>3 DEF Decide, Pick, Queue
  <1>4. CASE e.conf # "human" /\ i.conf # "human"
    <2>1. CASE Ladder[e.conf] # Ladder[i.conf]
      BY <1>4, <2>1 DEF Decide, Pick, Queue
    <2>2. CASE Ladder[e.conf] = Ladder[i.conf]
      BY <1>4, <2>2 DEF Decide, Pick, Queue
    <2> QED BY <2>1, <2>2
  <1> QED BY <1>1, <1>2, <1>3, <1>4

-----------------------------------------------------------------------------
\* What lies above k in T; the set shrinks as k grows.
Above(T, k) == {j \in T : k < j}

\* A non-empty set of positions has a last one.
LEMMA MaxExists ==
  ASSUME NEW n \in Nat, NEW T, T \subseteq 1..n, T # {}
  PROVE  \E k \in T : \A j \in T : j <= k
  <1> DEFINE S == 1..n
             F == {Above(T, k) : k \in T}
  <1>1. F \subseteq SUBSET S /\ F # {}
    BY DEF Above
  <1>2. IsWellFoundedOn(StrictSubsetOrdering(S), SUBSET S)
    <2>1. IsFiniteSet(S)
      BY FS_Interval
    <2> HIDE DEF S
    <2>2. FiniteSubsetsOf(S) = SUBSET S
      BY <2>1, FS_Subset DEF FiniteSubsetsOf
    <2> QED BY <2>1, <2>2, FS_StrictSubsetOrderingWellFounded
  <1>3. PICK A \in F : \A B \in F : <<B, A>> \notin StrictSubsetOrdering(S)
    <2> HIDE DEF S, F
    <2> QED BY <1>1, <1>2, WFMin
  <1>4. PICK k \in T : A = Above(T, k)
    BY <1>3
  <1>5. SUFFICES ASSUME NEW j \in T, k < j PROVE FALSE
    OBVIOUS
  <1>6. k \in Int /\ j \in Int /\ \A i \in T : i \in Int
    OBVIOUS
  <1>7. Above(T, j) \subseteq Above(T, k)
    <2> \A i \in T : j < i => k < i
      BY <1>5, <1>6
    <2> QED BY DEF Above
  <1>8. j \in Above(T, k) /\ j \notin Above(T, j)
    BY <1>5, <1>6 DEF Above
  <1>9. <<Above(T, j), A>> \in StrictSubsetOrdering(S)
    BY <1>1, <1>4, <1>7, <1>8 DEF StrictSubsetOrdering
  <1> QED BY <1>3, <1>9

\* The row a candidate is built from is one of the rows about the attribute.
LEMMA LatestIsAMatch ==
  ASSUME NEW traces \in Seq(Trace), NEW n, NEW a, Matches(traces, n, a) # {}
  PROVE  \E k \in Matches(traces, n, a) : Latest(traces, n, a) = traces[k]
  <1> DEFINE M == Matches(traces, n, a)
  <1>1. Len(traces) \in Nat /\ M \subseteq 1..Len(traces)
    BY DEF Matches
  <1>2. \E k \in M : \A j \in M : j <= k
    <2> HIDE DEF M
    <2> QED BY <1>1, MaxExists DEF M
  <1> QED BY <1>2 DEF Latest

LEMMA CandidateForType ==
  ASSUME NEW traces \in Seq(Trace), NEW n, NEW a, NEW value \in Values
  PROVE  CandidateFor(traces, n, a, value) \in Candidate
  <1>1. CASE Matches(traces, n, a) = {}
    BY <1>1 DEF CandidateFor, Candidate, Confidences, CandidateSources
  <1>2. CASE Matches(traces, n, a) # {}
    <2>1. Latest(traces, n, a) \in Trace
      BY <1>2, LatestIsAMatch, ElementOfSeq DEF Matches
    <2> QED BY <1>2, <2>1 DEF CandidateFor, Candidate, Trace, CandidateSources
  <1> QED BY <1>1, <1>2

LEMMA RulingType ==
  ASSUME NEW traces \in Seq(Trace), NEW stored \in Attributes, NEW t \in Trace,
         NEW a \in Contested(stored, t.facts)
  PROVE  /\ Ruling(traces, stored, t, a) \in Decision
         /\ Ruling(traces, stored, t, a).winner = "none"
              => Ruling(traces, stored, t, a).verdict \in {"llm_triage", "escalate"}
  <1>1. a \in Attrs /\ stored[a] \in Values /\ t.facts[a] \in Values
    BY DEF Contested, Attributes, Trace
  <1>2. CandidateFor(traces, t.node, a, stored[a]) \in Candidate
    BY <1>1, CandidateForType
  <1>3. [value |-> t.facts[a], conf |-> t.conf, source |-> t.source] \in Candidate
    BY <1>1 DEF Candidate, Trace, CandidateSources
  <1> QED BY <1>2, <1>3, DecideTotal DEF Ruling

\* A conflict reconcile() records is a row the table accepts.
LEMMA ConflictOfType ==
  ASSUME NEW traces \in Seq(Trace), NEW stored \in Attributes, NEW t \in Trace,
         NEW a \in Queued(traces, stored, t)
  PROVE  ConflictOf(traces, stored, t, a) \in ConflictRow
  <1>1. a \in Contested(stored, t.facts) /\ Ruling(traces, stored, t, a).winner = "none"
    BY DEF Queued
  <1>2. a \in Attrs /\ stored[a] \in Values /\ t.facts[a] \in Values
    BY <1>1 DEF Contested, Attributes, Trace
  <1>3. CandidateFor(traces, t.node, a, stored[a]) \in Candidate
    BY <1>2, CandidateForType
  <1>4. Ruling(traces, stored, t, a).verdict \in {"llm_triage", "escalate"}
    BY <1>1, RulingType
  <1>5. [value |-> t.facts[a], conf |-> t.conf, source |-> t.source] \in Candidate
    BY <1>2 DEF Candidate, Trace, CandidateSources
  <1> QED BY <1>2, <1>3, <1>4, <1>5 DEF ConflictOf, ConflictRow, Trace

LEMMA RefreshedType ==
  ASSUME NEW row \in ConflictRow, NEW new \in ConflictRow
  PROVE  Refreshed(row, new) \in ConflictRow
  BY DEF Refreshed, ConflictRow

LEMMA ClosedType ==
  ASSUME NEW row \in ConflictRow, NEW value \in Values \cup {NoValue}
  PROVE  Closed(row, value) \in ConflictRow
  BY DEF Closed, ConflictRow

LEMMA ReconcileType ==
  ASSUME NEW traces, NEW stored \in Attributes, NEW t \in Trace
  PROVE  Reconcile(traces, stored, t) \in Attributes
  BY DEF Reconcile, Attributes, Trace
=============================================================================
