------------------------------- MODULE GraphTypes -------------------------------
(***************************************************************************)
(* The data of backend/models/graph.py that the store's specifications     *)
(* share: nodes and the requests that change them.                         *)
(***************************************************************************)
EXTENDS ConflictDecision

CONSTANTS
  Types,       \* canonical node types
  NoType,      \* the type of a node that does not exist
  Batches,     \* the incoming nodes an ingest can assert
  Edits        \* the attribute changes a human can submit

Nothing == [a \in Attrs |-> NoValue]

\* A node as the ingest hands it to add_node(), with its provenance.
Batch == [type: Types,
          trace: {t \in Trace : /\ t.facts # Nothing
                                /\ t.conf # "human" /\ t.source # HumanEdits}]

ASSUME RequestAssumption ==
  /\ Nodes # {} /\ Attrs # {}
  /\ NoType \notin Types
  /\ Batches \subseteq Batch
  /\ Edits \subseteq Attributes \ {Nothing}

Node == [type: Types \cup {NoType}, attrs: Attributes, version: Nat]
NoNode == [type |-> NoType, attrs |-> Nothing, version |-> 0]

\* The changes applied over the attributes: dict.update().
Overlay(attrs, changes) ==
  [a \in Attrs |-> IF changes[a] = NoValue THEN attrs[a] ELSE changes[a]]

\* The provenance of a human edit, a row per changed attribute.
HumanTrace(n, changes) ==
  [node |-> n, facts |-> changes, conf |-> "human", source |-> HumanEdits]
=============================================================================
