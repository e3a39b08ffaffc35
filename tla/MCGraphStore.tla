------------------------------ MODULE MCGraphStore ------------------------------
(* The constants of the TLC runs of GraphStore. *)
EXTENDS GraphStore

CONSTANTS n1, n2, a1, a2, r1, r2, t1, t2, v1, v1x, v2, v3

\* v1 and v1x differ in case or surrounding blanks only.
MCNorm == [v \in Values |-> IF v = v1x THEN v1 ELSE v]

Only(a, v) == [b \in Attrs |-> IF b = a THEN v ELSE NoValue]

IncomingAt(n, t, facts, conf, record) ==
  [type |-> t, trace |-> [node |-> n, facts |-> facts, conf |-> conf, source |-> record]]

Incoming(t, facts, conf, record) == IncomingAt(n1, t, facts, conf, record)

\* Two records: a structured one that is corrected later, and one that is
\* read by a model, grounded or not, agrees in one case, and has a structured
\* field as well that disagrees about one attribute and adds another.
LadderBatches ==
  {Incoming(t1, Only(a1, v), "exact", r1) : v \in {v1, v2}} \cup
  {Incoming(t1, Only(a1, v1x), "grounded", r2), Incoming(t1, Only(a1, v2), "inferred", r2),
   Incoming(t1, Only(a1, v1), "inferred", r1), Incoming(t1, [a \in Attrs |-> v2], "exact", r2)}

\* Two structured records that disagree, so that conflicts are queued.
TieBatches ==
  {Incoming(t1, Only(a1, v1), "exact", r1), Incoming(t1, Only(a1, v2), "exact", r2)}

\* A disagreement about one node, and another node.
SpreadBatches == TieBatches \cup {IncomingAt(n2, t1, Only(a1, v1), "exact", r1)}

\* One id claimed by two canonical types, the second time with more confidence.
CollidingBatches ==
  {Incoming(t1, Only(a1, v1), "grounded", r1), Incoming(t2, Only(a1, v2), "exact", r2)}

OneEdit == {Only(a1, v3)}
=============================================================================
