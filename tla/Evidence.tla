------------------------------- MODULE Evidence -------------------------------
(***************************************************************************)
(* The graph as a request of the API reads it, and the citations the       *)
(* request collects (backend/retrieval/tools.py, _util.py).                *)
(*                                                                         *)
(* The handlers of the API block its event loop, so a request runs alone   *)
(* in the process; an ingest on the command line writes the same two       *)
(* stores between any two statements.  add_node() shows a node in Neo4j    *)
(* before its traces are committed in SQLite, and a commit that fails      *)
(* deletes the node, whatever traces it had.                               *)
(*                                                                         *)
(* The traces of a node are one citation, named by the node.  A provenance *)
(* read sees only commits, and a commit adds rows for a node that is there *)
(* already: reading the traces of a node in the step that found it loses   *)
(* no outcome.                                                             *)
(***************************************************************************)
EXTENDS Naturals, Sequences, FiniteSets

CONSTANTS
  Nodes,
  Whole,       \* the citation of a whole source record
  MaxChanges   \* bound on the changes another process makes

ASSUME EvidenceAssumption ==
  /\ IsFiniteSet(Nodes) /\ Whole \notin Nodes
  /\ MaxChanges \in Nat

VARIABLES
  present,   \* the nodes in Neo4j
  traced,    \* the nodes with traces committed in SQLite
  changes,
  cites      \* the citations collected

graph == <<present, traced, changes>>

Changed == changes < MaxChanges /\ changes' = changes + 1 /\ UNCHANGED cites

\* add_node() of an ingest: the merge, the commit, and the compensation.
Merged(n) == Changed /\ n \notin present /\ present' = present \cup {n} /\ UNCHANGED traced
Committed(n) ==
  Changed /\ n \in present \ traced /\ traced' = traced \cup {n} /\ UNCHANGED present
Compensated(n) == Changed /\ n \in present /\ present' = present \ {n} /\ UNCHANGED traced

Meanwhile == \E n \in Nodes : Merged(n) \/ Committed(n) \/ Compensated(n)

\* The citations made of the traces of these nodes.
CitationsOf(nodes) == nodes \cap traced

Cite(nodes) == cites' = cites \cup CitationsOf(nodes)

EvidenceInit ==
  /\ present \in SUBSET Nodes /\ traced \in SUBSET Nodes
  /\ changes = 0 /\ cites = {}

EvidenceTypeOK ==
  /\ present \subseteq Nodes /\ traced \subseteq Nodes /\ changes \in 0 .. MaxChanges
  /\ cites \subseteq Nodes \cup {Whole}
=============================================================================
