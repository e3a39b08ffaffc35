-------------------------------- MODULE MCIngest --------------------------------
(* The constants of the TLC runs of Ingest. *)
EXTENDS Ingest

CONSTANTS n1, n2, a1, r1, r2, t1, v1, v2

MCNorm == [v \in Values |-> v]
NoEdits == {}

Fact(n, v, conf, record) ==
  [does |-> "node",
   batch |-> [type |-> t1, trace |-> [node |-> n, facts |-> [a \in Attrs |-> v],
                                      conf |-> conf, source |-> record]]]

Edge == [does |-> "edge", from |-> n1, to |-> n2]

\* A record that creates two nodes and an edge and mentions the second one in
\* a text; the same record as corrected; one that fails after its first node;
\* one without an id.
Mail == [record |-> r1, identified |-> TRUE,
         mapped |-> <<Fact(n1, v1, "exact", r1), Fact(n2, v1, "exact", r1), Edge>>,
         blocks |-> <<<<Fact(n2, v2, "grounded", r1)>>>>]
Corrected == [Mail EXCEPT !.mapped = <<Fact(n1, v2, "exact", r1)>>, !.blocks = <<>>]
Partial == [record |-> r2, identified |-> TRUE,
            mapped |-> <<Fact(n1, v2, "exact", r2), Malformed>>, blocks |-> <<>>]
Nameless == [Partial EXCEPT !.identified = FALSE, !.mapped = <<>>]

MCContents == {Mail, Corrected, Partial, Nameless}
MCFiles == {<<Mail, Partial>>, <<Corrected, Nameless>>}
MCBatches == {wr.batch : wr \in {w \in UNION {ToSet(c.mapped) \cup UNION {ToSet(b) : b \in ToSet(c.blocks)} : c \in MCContents} : w.does = "node"}}
=============================================================================
