------------------------------ MODULE SpecRegistry ------------------------------
(***************************************************************************)
(* The mapping specs of the control plane (backend/ingest/store.py): they  *)
(* are drafted by the onboarder for the API or for the command line, shown *)
(* to a human, promoted, and looked up by a push.                          *)
(*                                                                         *)
(* save_spec() replaces the row of the same tenant, pattern and version,   *)
(* and SQLite gives the new row the next rowid.  The API refers to a row   *)
(* by its rowid, which it reads in a statement of its own; the command     *)
(* line writes the draft to a YAML file, which may be edited, and refers   *)
(* to the row by its key.                                                  *)
(***************************************************************************)
EXTENDS Naturals, FiniteSets

CONSTANTS
  Tenants, Patterns, Versions,
  Texts,       \* what a spec says beyond the key
  ApiDrafts,   \* what the model may draft for the API
  CliDrafts,   \* and for the command line
  Paths,       \* the YAML files
  NoDraft,
  MaxDrafts    \* bound on the drafts

Draft == [tenant: Tenants, pattern: Patterns, version: Versions, text: Texts]

ASSUME RegistryAssumption ==
  /\ Versions \subseteq Nat
  /\ ApiDrafts \subseteq Draft /\ CliDrafts \subseteq Draft
  /\ NoDraft \notin Draft
  /\ MaxDrafts \in Nat

VARIABLES
  rows,      \* mapping_specs
  lastId,    \* the largest rowid
  pending,   \* the draft an API request has saved and not yet answered
  answers,   \* what the API answered: a draft and the id it gave for it
  files      \* the YAML files: the draft written there and what is there now

vars == <<rows, lastId, pending, answers, files>>

Row == [id: Nat, spec: Draft, status: {"draft", "active"}]
Answer == [id: Nat, spec: Draft]
File == [drafted: Draft, now: Draft]
NoFile == [drafted |-> NoDraft, now |-> NoDraft]

Key(d) == <<d.tenant, d.pattern, d.version>>

RowOf(d) == {r \in rows : Key(r.spec) = Key(d)}

\* Mutant of Save: the row is updated in place and keeps its rowid.
SaveInPlace(d) ==
  /\ lastId < MaxDrafts
  /\ lastId' = lastId + 1
  /\ rows' = (rows \ RowOf(d)) \cup
       {[id |-> i, spec |-> d, status |-> "draft"] :
          i \in IF RowOf(d) = {} THEN {lastId + 1} ELSE {r.id : r \in RowOf(d)}}

\* Mutant of Save: the row of the same key stays.
SaveBeside(d) ==
  /\ lastId < MaxDrafts
  /\ lastId' = lastId + 1
  /\ rows' = rows \cup {[id |-> lastId + 1, spec |-> d, status |-> "draft"]}

\* Mutant of Save: the row keeps the status of the one it replaces.
SaveKeepingStatus(d) ==
  /\ lastId < MaxDrafts
  /\ lastId' = lastId + 1
  /\ rows' = (rows \ RowOf(d)) \cup
       {[id |-> lastId + 1, spec |-> d, status |-> status] :
          status \in IF RowOf(d) = {} THEN {"draft"} ELSE {r.status : r \in RowOf(d)}}

\* INSERT OR REPLACE; the row is a draft again.
Save(d) ==
  /\ lastId < MaxDrafts
  /\ lastId' = lastId + 1
  /\ rows' = (rows \ RowOf(d)) \cup {[id |-> lastId + 1, spec |-> d, status |-> "draft"]}

Activate(promoted) ==
  rows' = (rows \ promoted) \cup {[r EXCEPT !.status = "active"] : r \in promoted}

-----------------------------------------------------------------------------
\* POST /api/onboard up to the saved draft.
ApiOnboard(d) ==
  /\ pending = NoDraft
  /\ Save(d)
  /\ pending' = d
  /\ UNCHANGED <<answers, files>>

\* The rest of it: the id is that of the row the key has now.
ApiAnswer ==
  /\ pending # NoDraft
  /\ answers' = answers \cup {[id |-> r.id, spec |-> pending] : r \in RowOf(pending)}
  /\ pending' = NoDraft
  /\ UNCHANGED <<rows, lastId, files>>

\* POST /api/onboard/{id}/promote; 404 when there is no such row.
ApiPromote(a) ==
  LET promoted == {r \in rows : r.id = a.id}
  IN /\ promoted # {}
     /\ Activate(promoted)
     /\ UNCHANGED <<lastId, pending, answers, files>>

\* "python -m backend.ingest onboard": the draft is saved, then written out.
CliOnboard(path, d) ==
  /\ Save(d)
  /\ files' = [files EXCEPT ![path] = [drafted |-> d, now |-> d]]
  /\ UNCHANGED <<pending, answers>>

\* A human edits the file, or scripts/ingest_all.sh normalizes it.
EditFile(path, d) ==
  /\ files[path] # NoFile
  /\ files' = [files EXCEPT ![path].now = d]
  /\ UNCHANGED <<rows, lastId, pending, answers>>

\* "python -m backend.ingest promote" with the key onboard printed or the one
\* in the file.  It succeeds when no row has the key.
CliPromote(path, d) ==
  /\ files[path] # NoFile
  /\ Activate(RowOf(d))
  /\ UNCHANGED <<lastId, pending, answers, files>>

Init ==
  /\ rows = {} /\ lastId = 0
  /\ pending = NoDraft /\ answers = {}
  /\ files = [path \in Paths |-> NoFile]

Next ==
  \/ \E d \in ApiDrafts : ApiOnboard(d)
  \/ ApiAnswer
  \/ \E a \in answers : ApiPromote(a)
  \/ \E path \in Paths, d \in CliDrafts : CliOnboard(path, d) \/ EditFile(path, d)
  \/ \E path \in Paths : \E d \in {files[path].drafted, files[path].now} : CliPromote(path, d)

Spec == Init /\ [][Next]_vars

-----------------------------------------------------------------------------
\* find_active_spec_by_pattern(): the highest active version, unless several
\* tenants have one.
Lookup(pattern) ==
  LET active == {r \in rows : r.status = "active" /\ r.spec.pattern = pattern}
  IN IF \E r, s \in active : r.spec.tenant # s.spec.tenant THEN {}
     ELSE {r.spec : r \in {s \in active : \A o \in active : o.spec.version <= s.spec.version}}

(* Properties *)

Apart == \A d \in ApiDrafts, e \in CliDrafts : Key(d) # Key(e)

\* What makes AnswersNameTheirDraft inductive: ids given are not given again,
\* and the row of a pending draft is still its own.
PendingInv ==
  /\ \A a \in answers : a.id \in 1..lastId
  /\ \A r \in rows : pending # NoDraft /\ Key(r.spec) = Key(pending) => r.spec = pending

\* The variables stay in their types, and no two rows have one id or one key.
TypeOK ==
  /\ rows \subseteq Row
  /\ lastId \in 0..MaxDrafts
  /\ \A r \in rows : r.id \in 1..lastId
  /\ \A r, s \in rows : r.id = s.id \/ Key(r.spec) = Key(s.spec) => r = s
  /\ pending \in ApiDrafts \cup {NoDraft}
  /\ answers \subseteq Answer
  /\ files \in [Paths -> File \cup {NoFile}]

\* The id the API hands out stands for the draft it showed: by the time a
\* human promotes it, it names that draft or no row at all, however often the
\* source was drafted again.  This takes drafts of the command line that
\* replace none of the API's (Apart).
AnswersNameTheirDraft ==
  \A a \in answers, r \in rows : r.id = a.id => r.spec = a.spec

\* Drafting again, by either side and of whatever key, puts no text into
\* service: what a push is mapped by was promoted as it is, though a redraft may
\* take a newer version or another tenant's spec out of its way.
DraftsWait ==
  [][\A p \in Patterns : \A d \in Lookup(p)' :
       \/ \E r \in rows : r.spec = d /\ r.status = "active"
       \/ lastId' = lastId]_vars
=============================================================================
