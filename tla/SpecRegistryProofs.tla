--------------------------- MODULE SpecRegistryProofs ---------------------------
(***************************************************************************)
(* Theorems about SpecRegistry, for any tenants, patterns, versions and    *)
(* texts, and any drafts of the model.                                     *)
(***************************************************************************)
EXTENDS SpecRegistry, TLAPS

\* Saving adds a row with a new id and takes the one with its key away.
LEMMA SaveRows ==
  ASSUME TypeOK, NEW d \in Draft, Save(d)
  PROVE  /\ rows' \subseteq Row /\ lastId' = lastId + 1 /\ lastId' \in 0..MaxDrafts
         /\ \A r \in rows' : \/ r \in rows /\ Key(r.spec) # Key(d)
                             \/ r = [id |-> lastId + 1, spec |-> d, status |-> "draft"]
         /\ \A r \in rows' : r.id \in 1..lastId'
         /\ \A r, s \in rows' : r.id = s.id \/ Key(r.spec) = Key(s.spec) => r = s
  <1> DEFINE new == [id |-> lastId + 1, spec |-> d, status |-> "draft"]
  <1>1. lastId \in Nat /\ lastId' = lastId + 1 /\ lastId' \in 0..MaxDrafts
        /\ \A r \in rows : r.id \in 1..lastId
    BY RegistryAssumption DEF TypeOK, Save
  <1>2. new \in Row /\ new.id = lastId + 1 /\ new.spec = d
    BY <1>1 DEF Row
  <1>3. rows' = (rows \ RowOf(d)) \cup {new}
    BY DEF Save
  <1> HIDE DEF new
  <1>4. \A r \in rows' : (r \in rows /\ Key(r.spec) # Key(d)) \/ r = new
    BY <1>3 DEF RowOf
  <1>5. \A r \in rows' : r.id \in 1..lastId'
    BY <1>1, <1>2, <1>4
  <1>6. \A r \in rows' : r.id = lastId + 1 => r = new
    BY <1>1, <1>2, <1>4
  <1>7. \A r \in rows' : Key(r.spec) = Key(d) => r = new
    BY <1>2, <1>4
  <1>8. ASSUME NEW r \in rows', NEW s \in rows', r.id = s.id \/ Key(r.spec) = Key(s.spec)
        PROVE  r = s
    <2>1. CASE r = new \/ s = new
      BY <1>2, <1>6, <1>7, <1>8, <2>1
    <2>2. CASE r # new /\ s # new
      BY <1>4, <1>8, <2>2 DEF TypeOK
    <2> QED BY <2>1, <2>2
  <1>9. rows' \subseteq Row
    BY <1>2, <1>3 DEF TypeOK
  <1> QED BY <1>1, <1>4, <1>5, <1>8, <1>9 DEF new

\* Activating changes a status and nothing else.
LEMMA ActivateRows ==
  ASSUME TypeOK, NEW promoted \in SUBSET rows, Activate(promoted)
  PROVE  /\ rows' \subseteq Row
         /\ \A r \in rows' : \E q \in rows : /\ r.id = q.id /\ r.spec = q.spec
                                             /\ r = IF q \in promoted
                                                      THEN [q EXCEPT !.status = "active"] ELSE q
         /\ \A r \in rows' : r.id \in 1..lastId
         /\ \A r, s \in rows' : r.id = s.id \/ Key(r.spec) = Key(s.spec) => r = s
  <1> DEFINE after(q) == IF q \in promoted THEN [q EXCEPT !.status = "active"] ELSE q
  <1>1. \A q \in rows : after(q) \in Row /\ after(q).id = q.id /\ after(q).spec = q.spec
    BY DEF TypeOK, Row
  <1>2. \A r \in rows' : \E q \in rows : r = after(q)
    BY DEF Activate
  <1>3. \A r \in rows' : \E q \in rows : r = after(q) /\ r \in Row /\ r.id = q.id /\ r.spec = q.spec
    BY <1>1, <1>2
  <1>4. \A r \in rows' : r.id \in 1..lastId
    BY <1>3 DEF TypeOK
  <1>5. ASSUME NEW r \in rows', NEW s \in rows', r.id = s.id \/ Key(r.spec) = Key(s.spec)
        PROVE  r = s
    <2>1. PICK q \in rows : r = after(q) /\ r.id = q.id /\ r.spec = q.spec
      BY <1>3
    <2>2. PICK o \in rows : s = after(o) /\ s.id = o.id /\ s.spec = o.spec
      BY <1>3
    <2>3. q = o
      BY <1>5, <2>1, <2>2 DEF TypeOK
    <2> QED BY <2>1, <2>2, <2>3
  <1> QED BY <1>3, <1>4, <1>5

-----------------------------------------------------------------------------
(* Types *)

LEMMA InitTypes == Init => TypeOK
  BY RegistryAssumption DEF Init, TypeOK

LEMMA TypeStep ==
  ASSUME TypeOK, [Next]_vars
  PROVE  TypeOK'
  <1>1. ASSUME NEW d \in ApiDrafts, ApiOnboard(d) PROVE TypeOK'
    <2>1. d \in Draft /\ Save(d)
      BY <1>1, RegistryAssumption DEF ApiOnboard
    <2>2. /\ rows' \subseteq Row /\ lastId' \in 0..MaxDrafts
          /\ \A r \in rows' : r.id \in 1..lastId'
          /\ \A r, s \in rows' : r.id = s.id \/ Key(r.spec) = Key(s.spec) => r = s
      BY <2>1, SaveRows
    <2> QED BY <1>1, <2>2 DEF ApiOnboard, TypeOK
  <1>2. ASSUME ApiAnswer PROVE TypeOK'
    <2>1. pending \in Draft /\ \A r \in RowOf(pending) : r.id \in Nat
      BY <1>2, RegistryAssumption DEF ApiAnswer, RowOf, TypeOK, Row
    <2>2. {[id |-> r.id, spec |-> pending] : r \in RowOf(pending)} \subseteq Answer
      BY <2>1 DEF Answer
    <2> QED BY <1>2, <2>2 DEF ApiAnswer, TypeOK
  <1>3. ASSUME NEW promoted \in SUBSET rows, Activate(promoted),
               UNCHANGED <<lastId, pending, answers, files>>
        PROVE  TypeOK'
    <2>1. /\ rows' \subseteq Row
          /\ \A r \in rows' : r.id \in 1..lastId
          /\ \A r, s \in rows' : r.id = s.id \/ Key(r.spec) = Key(s.spec) => r = s
      BY <1>3, ActivateRows
    <2> QED BY <1>3, <2>1 DEF TypeOK
  <1>4. ASSUME NEW a \in answers, ApiPromote(a) PROVE TypeOK'
    <2>1. {r \in rows : r.id = a.id} \in SUBSET rows
      OBVIOUS
    <2> QED BY <1>3, <1>4, <2>1 DEF ApiPromote
  <1>5. ASSUME NEW path \in Paths, NEW d \in CliDrafts, CliOnboard(path, d) PROVE TypeOK'
    <2>1. d \in Draft /\ Save(d)
      BY <1>5, RegistryAssumption DEF CliOnboard
    <2>2. /\ rows' \subseteq Row /\ lastId' \in 0..MaxDrafts
          /\ \A r \in rows' : r.id \in 1..lastId'
          /\ \A r, s \in rows' : r.id = s.id \/ Key(r.spec) = Key(s.spec) => r = s
      BY <2>1, SaveRows
    <2>3. files' \in [Paths -> File \cup {NoFile}]
      BY <1>5, <2>1 DEF CliOnboard, TypeOK, File
    <2> QED BY <1>5, <2>2, <2>3 DEF CliOnboard, TypeOK
  <1>6. ASSUME NEW path \in Paths, NEW d \in CliDrafts, EditFile(path, d) PROVE TypeOK'
    <2>1. files[path] \in File /\ d \in Draft
      BY <1>6, RegistryAssumption DEF EditFile, TypeOK
    <2>2. [files[path] EXCEPT !.now = d] \in File
      BY <2>1 DEF File
    <2>3. files' \in [Paths -> File \cup {NoFile}]
      BY <1>6, <2>2 DEF EditFile, TypeOK
    <2> QED BY <1>6, <2>3 DEF EditFile, TypeOK
  <1>7. ASSUME NEW path \in Paths, NEW d, CliPromote(path, d) PROVE TypeOK'
    <2>1. RowOf(d) \in SUBSET rows
      BY DEF RowOf
    <2> QED BY <1>3, <1>7, <2>1 DEF CliPromote
  <1>8. CASE UNCHANGED vars
    BY <1>8 DEF vars, TypeOK
  <1> QED BY <1>1, <1>2, <1>4, <1>5, <1>6, <1>7, <1>8 DEF Next

\* Whatever the two sides draft, edit and promote, no two rows have one id or
\* one key: a promotion, by either, finds at most one row.
THEOREM RegistryTypeCorrect == Spec => []TypeOK
  <1>1. TypeOK /\ [Next]_vars => TypeOK'
    BY TypeStep
  <1> QED BY InitTypes, <1>1, PTL DEF Spec

-----------------------------------------------------------------------------
(* What a push is mapped by *)

\* A draft is saved and another text is not active for it.
LEMMA SaveActivatesNothing ==
  ASSUME NEW d, Save(d)
  PROVE  \A r \in rows' : r.status = "active" => r \in rows
  BY DEF Save

LEMMA ActiveRows ==
  ASSUME TypeOK, [Next]_vars
  PROVE  (\A r \in rows' : r.status = "active" => r \in rows) \/ lastId' = lastId
  <1>1. ASSUME NEW d, Save(d) PROVE \A r \in rows' : r.status = "active" => r \in rows
    BY <1>1, SaveActivatesNothing
  <1> QED BY <1>1
        DEF Next, vars, ApiOnboard, ApiAnswer, ApiPromote, CliOnboard, EditFile, CliPromote

\* Drafting puts no text into service: what a push finds after a draft is saved
\* was active before, although perhaps behind another row.
THEOREM DraftsDoNotServe == Spec => DraftsWait
  <1> DEFINE Step == \A p \in Patterns : \A d \in Lookup(p)' :
                       \/ \E r \in rows : r.spec = d /\ r.status = "active"
                       \/ lastId' = lastId
  <1>1. ASSUME TypeOK, [Next]_vars PROVE Step
    <2> SUFFICES ASSUME NEW p \in Patterns, NEW d \in Lookup(p)', lastId' # lastId
                 PROVE  \E r \in rows : r.spec = d /\ r.status = "active"
      OBVIOUS
    <2>1. \A r \in rows' : r.status = "active" => r \in rows
      BY <1>1, ActiveRows
    <2>2. \E r \in rows' : r.spec = d /\ r.status = "active"
      BY DEF Lookup
    <2> QED BY <2>1, <2>2
  <1>2. TypeOK /\ [Next]_vars => [Step]_vars
    BY <1>1
  <1>3. Spec => []TypeOK
    BY RegistryTypeCorrect
  <1> QED BY <1>2, <1>3, PTL DEF Spec, DraftsWait

-----------------------------------------------------------------------------
(* The ids of the API *)

RegistryInv == TypeOK /\ AnswersNameTheirDraft /\ PendingInv

LEMMA InitRegistry == Init => RegistryInv
  BY RegistryAssumption
  DEF Init, RegistryInv, TypeOK, AnswersNameTheirDraft, PendingInv

LEMMA OnboardStep ==
  ASSUME Apart, RegistryInv, NEW d \in ApiDrafts, ApiOnboard(d)
  PROVE  RegistryInv'
  <1>1. d \in Draft /\ Save(d)
    BY RegistryAssumption DEF ApiOnboard
  <1>2. /\ rows' \subseteq Row /\ lastId' = lastId + 1 /\ lastId' \in 0..MaxDrafts
        /\ \A r \in rows' : \/ r \in rows /\ Key(r.spec) # Key(d)
                            \/ r = [id |-> lastId + 1, spec |-> d, status |-> "draft"]
        /\ \A r \in rows' : r.id \in 1..lastId'
        /\ \A r, s \in rows' : r.id = s.id \/ Key(r.spec) = Key(s.spec) => r = s
    BY <1>1, SaveRows DEF RegistryInv
  <1>3. TypeOK'
    BY <1>2 DEF ApiOnboard, RegistryInv, TypeOK
  <1>4. lastId \in Nat /\ \A a \in answers : a.id \in 1..lastId
    BY RegistryAssumption DEF RegistryInv, TypeOK, PendingInv
  <1>5. AnswersNameTheirDraft'
    BY <1>2, <1>4 DEF ApiOnboard, RegistryInv, AnswersNameTheirDraft
  <1>6. PendingInv'
    BY <1>2, <1>4 DEF ApiOnboard, PendingInv
  <1> QED BY <1>3, <1>5, <1>6 DEF RegistryInv

LEMMA AnswerStep ==
  ASSUME RegistryInv, ApiAnswer
  PROVE  RegistryInv'
  <1>1. \A a \in answers' : \/ a \in answers
                            \/ \E r \in RowOf(pending) : a = [id |-> r.id, spec |-> pending]
    BY DEF ApiAnswer
  <1>2. pending \in Draft /\ pending' = NoDraft /\ UNCHANGED <<rows, lastId, files>>
    BY RegistryAssumption DEF ApiAnswer, RegistryInv, TypeOK
  <1>3. \A r \in RowOf(pending) : r \in rows /\ r.spec = pending /\ r.id \in 1..lastId /\ r.id \in Nat
    BY <1>2, RegistryAssumption DEF RowOf, RegistryInv, TypeOK, PendingInv, ApiAnswer, Row
  <1>4. answers' \subseteq Answer
    BY <1>1, <1>2, <1>3 DEF RegistryInv, TypeOK, Answer
  <1>5. AnswersNameTheirDraft'
    <2> SUFFICES ASSUME NEW a \in answers', NEW r \in rows', r.id = a.id PROVE r.spec = a.spec
      BY DEF AnswersNameTheirDraft
    <2>1. CASE a \in answers
      BY <1>2, <2>1 DEF RegistryInv, AnswersNameTheirDraft
    <2>2. ASSUME NEW q \in RowOf(pending), a = [id |-> q.id, spec |-> pending] PROVE r.spec = a.spec
      BY <1>2, <1>3, <2>2 DEF RegistryInv, TypeOK
    <2> QED BY <1>1, <2>1, <2>2
  <1>6. PendingInv'
    BY <1>1, <1>2, <1>3 DEF RegistryInv, PendingInv
  <1> QED BY <1>2, <1>4, <1>5, <1>6 DEF RegistryInv, TypeOK

LEMMA PromoteStep ==
  ASSUME RegistryInv, NEW promoted \in SUBSET rows, Activate(promoted),
         UNCHANGED <<lastId, pending, answers, files>>
  PROVE  RegistryInv'
  <1>1. /\ rows' \subseteq Row
        /\ \A r \in rows' : \E q \in rows : r.id = q.id /\ r.spec = q.spec
        /\ \A r \in rows' : r.id \in 1..lastId
        /\ \A r, s \in rows' : r.id = s.id \/ Key(r.spec) = Key(s.spec) => r = s
    BY ActivateRows DEF RegistryInv
  <1>2. TypeOK'
    BY <1>1 DEF RegistryInv, TypeOK
  <1>3. AnswersNameTheirDraft'
    BY <1>1 DEF RegistryInv, AnswersNameTheirDraft
  <1>4. PendingInv'
    BY <1>1 DEF RegistryInv, PendingInv
  <1> QED BY <1>2, <1>3, <1>4 DEF RegistryInv

LEMMA CliOnboardStep ==
  ASSUME Apart, RegistryInv, NEW path \in Paths, NEW d \in CliDrafts, CliOnboard(path, d)
  PROVE  RegistryInv'
  <1>1. d \in Draft /\ Save(d)
    BY RegistryAssumption DEF CliOnboard
  <1>2. /\ rows' \subseteq Row /\ lastId' = lastId + 1 /\ lastId' \in 0..MaxDrafts
        /\ \A r \in rows' : \/ r \in rows /\ Key(r.spec) # Key(d)
                            \/ r = [id |-> lastId + 1, spec |-> d, status |-> "draft"]
        /\ \A r \in rows' : r.id \in 1..lastId'
        /\ \A r, s \in rows' : r.id = s.id \/ Key(r.spec) = Key(s.spec) => r = s
    BY <1>1, SaveRows DEF RegistryInv
  <1>3. TypeOK'
    <2>1. files' \in [Paths -> File \cup {NoFile}]
      BY <1>1 DEF CliOnboard, RegistryInv, TypeOK, File
    <2> QED BY <1>2, <2>1 DEF CliOnboard, RegistryInv, TypeOK
  <1>4. lastId \in Nat /\ \A a \in answers : a.id \in 1..lastId
    BY RegistryAssumption DEF RegistryInv, TypeOK, PendingInv
  <1>5. AnswersNameTheirDraft'
    BY <1>2, <1>4 DEF CliOnboard, RegistryInv, AnswersNameTheirDraft
  <1>6. pending # NoDraft => pending \in ApiDrafts /\ Key(pending) # Key(d)
    BY DEF Apart, RegistryInv, TypeOK
  <1>7. PendingInv'
    BY <1>2, <1>4, <1>6 DEF CliOnboard, RegistryInv, PendingInv
  <1> QED BY <1>3, <1>5, <1>7 DEF RegistryInv

LEMMA EditStep ==
  ASSUME RegistryInv, NEW path \in Paths, NEW d \in CliDrafts, EditFile(path, d)
  PROVE  RegistryInv'
  <1>1. files[path] \in File /\ d \in Draft
    BY RegistryAssumption DEF EditFile, RegistryInv, TypeOK
  <1>2. [files[path] EXCEPT !.now = d] \in File
    BY <1>1 DEF File
  <1>3. files' \in [Paths -> File \cup {NoFile}]
    BY <1>2 DEF EditFile, RegistryInv, TypeOK
  <1>4. TypeOK'
    BY <1>3 DEF EditFile, RegistryInv, TypeOK
  <1> QED BY <1>4 DEF EditFile, RegistryInv, AnswersNameTheirDraft, PendingInv

LEMMA RegistryStep ==
  ASSUME Apart, RegistryInv, [Next]_vars
  PROVE  RegistryInv'
  <1>1. ASSUME NEW a \in answers, ApiPromote(a) PROVE RegistryInv'
    <2>1. {r \in rows : r.id = a.id} \in SUBSET rows
      OBVIOUS
    <2> QED BY <1>1, <2>1, PromoteStep DEF ApiPromote
  <1>2. ASSUME NEW path \in Paths, NEW d, CliPromote(path, d) PROVE RegistryInv'
    <2>1. RowOf(d) \in SUBSET rows
      BY DEF RowOf
    <2> QED BY <1>2, <2>1, PromoteStep DEF CliPromote
  <1>3. CASE UNCHANGED vars
    BY <1>3 DEF vars, RegistryInv, TypeOK, AnswersNameTheirDraft, PendingInv
  <1> QED BY <1>1, <1>2, <1>3, OnboardStep, AnswerStep, CliOnboardStep, EditStep DEF Next

\* As long as the command line replaces none of its drafts, an id the API
\* handed out names the draft it showed or no row at all.
THEOREM AnswersStayTrue ==
  ASSUME Apart
  PROVE  Spec => []AnswersNameTheirDraft
  <1>1. RegistryInv /\ [Next]_vars => RegistryInv'
    BY RegistryStep
  <1>2. RegistryInv => AnswersNameTheirDraft
    BY DEF RegistryInv
  <1> QED BY InitRegistry, <1>1, <1>2, PTL DEF Spec
=============================================================================
