------------------------------- MODULE MCMapping -------------------------------
EXTENDS Mapping

CONSTANTS p, q, a, b, w1, w2

MCRecords == {p, q}
MCFields == {a, b}
MCTag ==
  [r \in MCRecords |->
     IF r = p THEN [f \in MCFields |-> IF f = a THEN "str" ELSE Absent]
     ELSE [f \in MCFields |-> "int"]]
MCQuoted == {b}
MCFiles == {<<>>, <<p>>, <<q>>, <<p, q>>, <<p, p, q>>}
MCDraft(valid, required, grounding) ==
  [valid |-> valid, required |-> required, grounding |-> grounding]
MCDrafts ==
  {MCDraft(FALSE, {}, TRUE), MCDraft(TRUE, {a}, TRUE), MCDraft(TRUE, {}, FALSE)}
MCItems == {w1, w2}
MCTextOf == [r \in MCRecords |-> IF r = p THEN {w1} ELSE {w2}]
MCBlockKey == [r \in MCRecords |-> "k"]
MCCacheKeys ==
  {DraftKey(paths) : paths \in SUBSET MCFields} \cup {RepairKey(HeadOf(f, OnboardSample)) : f \in MCFiles}
    \cup {[call |-> "block", of |-> "k"]}
MCAnswers == MCDrafts \cup {Malformed} \cup {Formed(items) : items \in SUBSET MCItems}
=============================================================================
