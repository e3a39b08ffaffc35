---------------------------- MODULE ConflictDecision ----------------------------
(***************************************************************************)
(* The pure part of backend/conflict.py: the confidence ladder, the        *)
(* decision table over two competing facts, the construction of a          *)
(* candidate from the trace (provenance) rows of a node, and reconcile(),  *)
(* which merges an incoming set of attributes over the stored one.         *)
(*                                                                         *)
(* A value is a member of Values; two values are the same fact after       *)
(* strip + casefold when Norm maps them to one representative.  A source   *)
(* stands for a (source_file, source_record_id) pair.                      *)
(***************************************************************************)
EXTENDS Integers, Sequences

CONSTANTS
  Nodes,         \* node ids
  Attrs,         \* attribute names
  Values,        \* attribute values
  Norm,          \* [Values -> Values], the representative after strip + casefold
  NoValue,       \* "the attribute is not there" / "no value chosen"
  Records,       \* source records the ingest reads
  HumanEdits,    \* the source records edit_node makes up, one per edit
  Unattributed   \* the <unattributed> sentinel of a candidate without a trace

ASSUME NormAssumption ==
  /\ Norm \in [Values -> Values]
  /\ NoValue \notin Values
  /\ HumanEdits \notin Records
  /\ Unattributed \notin Records \cup {HumanEdits}

-----------------------------------------------------------------------------
Confidences == {"human", "exact", "grounded", "inferred"}

\* Every source a trace row can name, and every source a candidate can name.
Sources == Records \cup {HumanEdits}
CandidateSources == Sources \cup {Unattributed}

Candidate == [value: Values, conf: Confidences, source: CandidateSources]

\* The attributes of a node, or the part of them a write mentions; NoValue
\* marks an attribute that is absent.
Attributes == [Attrs -> Values \cup {NoValue}]

\* The provenance rows one write leaves: one row per attribute in facts, all
\* of one source at one confidence.
Trace == [node: Nodes, facts: Attributes, conf: Confidences, source: Sources]

\* A row of the conflicts table.
ConflictRow == [node: Nodes, attr: Attrs, existing: Candidate,
                incoming: Candidate, verdict: {"llm_triage", "escalate"},
                open: BOOLEAN, chosen: Values \cup {NoValue}]

Ladder == [c \in Confidences |->
             CASE c = "human" -> 3 [] c = "exact" -> 2
               [] c = "grounded" -> 1 [] c = "inferred" -> 0]

Verdicts == {"auto_merge", "auto_pick", "llm_triage", "escalate"}

Decision == [verdict: Verdicts, winner: {"existing", "incoming", "none"}]

Pick(side) == [verdict |-> "auto_pick", winner |-> side]
Queue(lane) == [verdict |-> lane, winner |-> "none"]

\* Both sides come from one record of one source, and the source is known.
SameSource(existing, incoming) ==
  /\ existing.source = incoming.source
  /\ existing.source # Unattributed

\* The decision table; the first line that matches decides.
Decide(existing, incoming) ==
  LET e == Ladder[existing.conf]
      i == Ladder[incoming.conf]
  IN IF Norm[existing.value] = Norm[incoming.value]
       THEN [verdict |-> "auto_merge", winner |-> "existing"]
     ELSE IF SameSource(existing, incoming) THEN Pick("incoming")
     ELSE IF existing.conf = "human" /\ incoming.conf # "human" THEN Pick("existing")
     ELSE IF incoming.conf = "human" /\ existing.conf # "human" THEN Pick("incoming")
     ELSE IF e > i THEN Pick("existing")
     ELSE IF i > e THEN Pick("incoming")
     ELSE IF existing.conf = "inferred" THEN Queue("llm_triage")
     ELSE Queue("escalate")

-----------------------------------------------------------------------------
\* The positions of the traces with a row for attribute a of node n.
Matches(traces, n, a) ==
  {k \in DOMAIN traces : traces[k].node = n /\ traces[k].facts[a] # NoValue}

\* The one the code takes to be behind the stored value: the last of them.
Latest(traces, n, a) ==
  traces[CHOOSE k \in Matches(traces, n, a) :
           \A j \in Matches(traces, n, a) : j <= k]

\* The stored side of a conflict: the stored value with the confidence and
\* the source of the latest row, EXACT and the sentinel when no row covers it.
CandidateFor(traces, n, a, value) ==
  IF Matches(traces, n, a) = {}
    THEN [value |-> value, conf |-> "exact", source |-> Unattributed]
    ELSE [value |-> value, conf |-> Latest(traces, n, a).conf,
          source |-> Latest(traces, n, a).source]

\* The attributes on which stored and incoming node really compete.
Contested(stored, incoming) ==
  {a \in Attrs : /\ stored[a] # NoValue
                 /\ incoming[a] # NoValue
                 /\ stored[a] # incoming[a]}

\* decide() for attribute a of the node that trace t is written for, with the
\* stored attributes and the traces read before.
Ruling(traces, stored, t, a) ==
  Decide(CandidateFor(traces, t.node, a, stored[a]),
         [value |-> t.facts[a], conf |-> t.conf, source |-> t.source])

\* The attributes for which reconcile() records a conflict.
Queued(traces, stored, t) ==
  {a \in Contested(stored, t.facts) :
     Ruling(traces, stored, t, a).winner = "none"}

\* The conflicts row record() writes for attribute a of the node of t.
ConflictOf(traces, stored, t, a) ==
  [node |-> t.node, attr |-> a,
   existing |-> CandidateFor(traces, t.node, a, stored[a]),
   incoming |-> [value |-> t.facts[a], conf |-> t.conf, source |-> t.source],
   verdict |-> Ruling(traces, stored, t, a).verdict,
   open |-> TRUE, chosen |-> NoValue]

\* A row record() finds open: it gets the new incoming side, its existing
\* side stays what it was.
Refreshed(row, new) ==
  [row EXCEPT !.incoming = new.incoming, !.verdict = new.verdict]

\* Mutant of Closed: the incoming side is taken for the chosen value.
ClosedAsIncoming(row, value) == [row EXCEPT !.open = FALSE, !.chosen = row.incoming.value]

\* A row ConflictStore.resolve() closes.
Closed(row, value) == [row EXCEPT !.open = FALSE, !.chosen = value]

\* What reconcile() returns: new attributes are added, contested ones go to
\* the winner and stay as they are when nobody wins, the others stay.
Reconcile(traces, stored, t) ==
  [a \in Attrs |->
     IF \/ t.facts[a] = NoValue
        \/ /\ a \in Contested(stored, t.facts)
           /\ Ruling(traces, stored, t, a).winner # "incoming"
       THEN stored[a] ELSE t.facts[a]]
=============================================================================
