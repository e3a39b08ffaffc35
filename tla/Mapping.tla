-------------------------------- MODULE Mapping --------------------------------
(***************************************************************************)
(* Mapping specs at work: what the onboarder saved, the drift check of a   *)
(* run, and the blocks of the spec that have the model extract facts from  *)
(* the text of a record (Ingestor.run, _run_llm_blocks and what it calls   *)
(* in backend/ingest/ingestor.py).  The onboarder and the runs share the   *)
(* cache of the model, and the file may be replaced between the check and  *)
(* the run that reads it again.                                            *)
(*                                                                         *)
(* An item is the word its surface form stands for; the items of an answer *)
(* are a set, or the answer has not the form the block asks for.           *)
(***************************************************************************)
EXTENDS Onboarding

CONSTANTS
  Items,
  TextOf,       \* of a record, the items that occur in its text
  BlockKey,     \* of a record, the values the block names as its cache key
  MaxItems,     \* max_extractions_per_record
  MaxRuns       \* bound

ASSUME MappingAssumption ==
  /\ TextOf \in [Records -> SUBSET Items]
  /\ MaxItems \in Nat /\ MaxRuns \in Nat

Formed(items) == [formed |-> TRUE, items |-> items]
Malformed == [formed |-> FALSE, items |-> {}]

BlockKeyOf(record) == [call |-> "block", of |-> BlockKey[record]]

\* The cache has room for each call and for each answer to it.
ASSUME CacheAssumption ==
  /\ \A paths \in SUBSET Fields : DraftKey(paths) \in CacheKeys
  /\ \A f \in Files : RepairKey(HeadOf(f, OnboardSample)) \in CacheKeys
  /\ \A r \in Records : BlockKeyOf(r) \in CacheKeys
  /\ Drafts \subseteq Answers /\ Malformed \in Answers
  /\ \A items \in SUBSET Items : Formed(items) \in Answers

VARIABLES
  run,       \* of the run: "none", "checked", "reading" or "adding"
  spec,      \* its spec
  checked,   \* the file that was checked
  read,      \* the file it reads
  todo,      \* the records it still has to process, the current one first
  adding,    \* the items of the record that are not added yet
  seen,      \* the ledger: the records, by their content
  facts,     \* in the graph
  kept,      \* history: the facts kept when a record was processed last
  runs

onboarding == <<cache, file, changes, onboarder, onboarded, yaml>>
running == <<run, spec, checked, read, todo, adding>>
vars == <<onboarding, running, seen, facts, kept, runs>>

Fact == [record: Records, item: Items, grounded: BOOLEAN]

NoRun ==
  /\ run' = "none" /\ spec' = NoSpec /\ checked' = <<>> /\ read' = <<>>
  /\ todo' = <<>> /\ adding' = {}

\* "python -m backend.ingest run": a spec that drifted raises.
StartRun ==
  /\ run = "none" /\ yaml # NoSpec /\ runs < MaxRuns
  /\ runs' = runs + 1
  /\ IF Drifts(yaml, file) THEN UNCHANGED running
     ELSE run' = "checked" /\ spec' = yaml /\ checked' = file /\ UNCHANGED <<read, todo, adding>>
  /\ UNCHANGED <<onboarding, seen, facts, kept>>

\* The file is opened again.
OpenFile ==
  /\ run = "checked"
  /\ run' = "reading" /\ read' = file /\ todo' = file
  /\ UNCHANGED <<onboarding, spec, checked, adding, seen, facts, kept, runs>>

Reading == run = "reading" /\ todo # <<>>

SkipSeen ==
  /\ Reading /\ Head(todo) \in seen
  /\ todo' = Tail(todo)
  /\ UNCHANGED <<onboarding, run, spec, checked, read, adding, seen, facts, kept, runs>>

\* Mutant of Grounded: an item was grounded when its answer was cached.
GroundedWhenCached(item, record) ==
  \E other \in Records : BlockKey[other] = BlockKey[record] /\ item \in TextOf[other]

\* The surface form occurs in the text.
Grounded(item, record) == item \in TextOf[record]

FactsOf(items, record, only) ==
  {fact \in {[record |-> record, item |-> i, grounded |-> Grounded(i, record)] : i \in items} :
     only => fact.grounded}

\* Mutant of MarkOnce: the record is marked before its items are added.
MarkAtOnce(record) == seen \cup {record}

MarkOnce(record) == seen

\* The block asks the model, or the cache, and keeps items of the answer; a failed
\* call or a malformed answer skips the block and not the record.
RunBlock ==
  /\ Reading /\ Head(todo) \notin seen
  /\ LET record == Head(todo)
         key == BlockKeyOf(record)
     IN /\ \/ adding' = {} /\ (CallFails(key) \/ Extract(key, Malformed))
           \/ \E items \in SUBSET Items :
                /\ Extract(key, Formed(items))
                /\ \E first \in SUBSET items :
                     /\ Cardinality(first) =
                          IF Cardinality(items) < MaxItems THEN Cardinality(items) ELSE MaxItems
                     /\ adding' = FactsOf(first, record, spec.draft.grounding)
        /\ kept' = {fact \in kept : fact.record # record} \cup adding'
        /\ seen' = MarkOnce(record)
  /\ run' = "adding"
  /\ UNCHANGED <<file, changes, onboarder, onboarded, yaml,
                 spec, checked, read, todo, facts, runs>>

\* Each item is a transaction of its own.
AddItem(fact) ==
  /\ run = "adding" /\ fact \in adding
  /\ facts' = facts \cup {fact} /\ adding' = adding \ {fact}
  /\ UNCHANGED <<onboarding, run, spec, checked, read, todo, seen, kept, runs>>

MarkSeen ==
  /\ run = "adding" /\ adding = {}
  /\ seen' = seen \cup {Head(todo)}
  /\ run' = "reading" /\ todo' = Tail(todo)
  /\ UNCHANGED <<onboarding, spec, checked, read, adding, facts, kept, runs>>

\* A record or an item without an id: the record goes to dead_letter and is not marked.
DeadLetter ==
  /\ Reading \/ (run = "adding" /\ adding # {})
  /\ run' = "reading" /\ todo' = Tail(todo) /\ adding' = {}
  /\ UNCHANGED <<onboarding, spec, checked, read, seen, facts, kept, runs>>

\* The run ends, or anything else raises, or the process dies.
EndRun ==
  /\ run # "none" /\ NoRun
  /\ UNCHANGED <<onboarding, seen, facts, kept, runs>>

-----------------------------------------------------------------------------
MappingInit ==
  /\ OnboardingInit
  /\ run = "none" /\ spec = NoSpec /\ checked = <<>> /\ read = <<>> /\ todo = <<>> /\ adding = {}
  /\ seen = {} /\ facts = {} /\ kept = {} /\ runs = 0

Next ==
  \/ (Onboard \/ EditSpec \/ ReplaceFile) /\ UNCHANGED <<running, seen, facts, kept, runs>>
  \/ StartRun \/ OpenFile \/ SkipSeen \/ RunBlock
  \/ \E fact \in adding : AddItem(fact)
  \/ MarkSeen \/ DeadLetter \/ EndRun

\* The onboarder goes on while it has something to do.
Spec ==
  /\ MappingInit /\ [][Next]_vars
  /\ WF_vars(Onboard /\ step # "idle" /\ UNCHANGED <<running, seen, facts, kept, runs>>)

-----------------------------------------------------------------------------
(* Properties *)

\* The variables stay in their types.
TypeOK ==
  /\ OnboardingTypeOK
  /\ run \in {"none", "checked", "reading", "adding"} /\ (run = "none") = (spec = NoSpec)
  /\ {checked, read} \subseteq Files /\ ToSet(todo) \subseteq Records
  /\ adding \subseteq Fact /\ facts \subseteq Fact /\ kept \subseteq Fact
  /\ run = "adding" => todo # <<>> /\ {fact.record : fact \in adding} \subseteq {Head(todo)}
  /\ seen \subseteq Records /\ runs \in 0 .. MaxRuns

\* A file the onboarder saw whole is not refused while neither it nor its spec is
\* changed, if the spec requires what the file has, under names that need no quotes.
UnchangedFileRuns ==
  \/ yaml = NoSpec \/ file = <<>>
  \/ yaml.drawn # file \/ Len(file) > OnboardSample
  \/ yaml.required # yaml.draft.required \/ Missing(yaml.required, file) # {}
  \/ ~Drifts(yaml, file)

\* "The silent killer where the path is unchanged but values flip": what a run reads
\* has the types the onboarder saw, unless the spec's fingerprint was taken out, the
\* file was replaced behind the check, or is longer than what it looks at.
FlipsCaught ==
  run \in {"reading", "adding"} /\ read = checked /\ spec.stamped /\ Len(read) <= IngestSample =>
    \A field \in Fields :
      LET before == Tags(HeadOf(spec.drawn, OnboardSample), field)
      IN Cardinality(before) = 1 => Tags(read, field) = before

\* A fact the graph has as grounded occurs in the text of the record it is traced
\* to, though the answer may have been cached for the text of another.
GroundedInText == \A fact \in facts : fact.grounded => fact.item \in TextOf[fact.record]

\* What the block kept of a record that is marked as seen is in the graph, wherever
\* a run was cut off: no later run would add it.
SeenMeansAdded ==
  \A fact \in kept : fact.record \in seen => fact \in facts

\* An onboarding ends: the model is asked for a bounded number of repairs.
OnboardingEnds == step # "idle" ~> step = "idle"

-----------------------------------------------------------------------------
(* What keeps the properties *)

\* A run goes on with a spec that the file it checked has not drifted from.
RunInv ==
  run # "none" => SavedSpec(spec) /\ ~Drifts(spec, checked)

\* What the block kept of the record at hand is in the graph or still to be added, and
\* the record is not marked before.
AddingInv ==
  run = "adding" =>
    /\ Head(todo) \notin seen
    /\ \A fact \in kept : fact.record = Head(todo) => fact \in facts \cup adding

MappingInv ==
  /\ TypeOK /\ todo \in Seq(Records)
  /\ OnboardInv /\ RunInv /\ AddingInv /\ SeenMeansAdded
  /\ \A fact \in facts \cup adding : fact.grounded => fact.item \in TextOf[fact.record]
=============================================================================
