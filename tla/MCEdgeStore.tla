------------------------------ MODULE MCEdgeStore ------------------------------
(* The constants of the TLC run of EdgeStore. *)
EXTENDS EdgeStore, TLC

CONSTANTS ann, bea, cem, sales, berlin, mail, alias

MCOrder == ann :> 0 @@ bea :> 1 @@ cem :> 2
MCCategory == ann :> sales @@ bea :> NoOrg @@ cem :> NoOrg
MCLocation == [p \in Persons |-> berlin]

Firm(e) == [value |-> e, firm |-> TRUE]
Loose(e) == [value |-> e, firm |-> FALSE]

\* All three can get one email; one of them read at a low confidence, and
\* corrected.
MCIncoming == {[node |-> ann, email |-> Firm(mail)], [node |-> cem, email |-> Firm(mail)],
               [node |-> bea, email |-> Loose(mail)], [node |-> bea, email |-> Firm(alias)]}

MCSpecEdges ==
  {[rel |-> "REPORTS_TO", src |-> ann, tgt |-> bea, by |-> "bare rule"],
   [rel |-> "MEMBER_OF", src |-> ann, tgt |-> sales, by |-> "rule"]}
=============================================================================
