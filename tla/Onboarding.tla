------------------------------- MODULE Onboarding -------------------------------
(***************************************************************************)
(* The onboarder of backend/ingest/onboard.py: it samples the file of a    *)
(* source, has the model draft a mapping spec, validates the draft and     *)
(* sends it back with the error, and saves the spec with the fingerprint   *)
(* of the sample.  The file may be replaced and the spec be edited at any  *)
(* time.                                                                   *)
(*                                                                         *)
(* A draft is what the spec's validators and the drift check tell apart:   *)
(* if it is valid, the paths it requires after normalization, and whether  *)
(* its block keeps grounded items only.                                    *)
(***************************************************************************)
EXTENDS Drift

CONSTANTS
  Files,
  Drafts,         \* what the model may draft
  MaxRepairs,     \* max_repair_rounds
  MaxChanges, MaxOnboardings,   \* bounds
  NoSpec, NoDraft

ASSUME OnboardingAssumption ==
  /\ Files \subseteq Seq(Records) /\ <<>> \in Files
  /\ \A d \in Drafts : d.valid \in BOOLEAN /\ d.required \subseteq Fields /\ d.grounding \in BOOLEAN
  /\ {MaxRepairs, MaxChanges, MaxOnboardings} \subseteq Nat
  /\ NoDraft \notin Drafts

VARIABLES
  file,      \* the source file
  changes,
  step,      \* of the onboarder: "idle", "draft", "validate" or "repair"
  drawn,     \* the file as it was sampled
  current,   \* the draft
  rounds,    \* repairs that were asked for
  onboarded,
  yaml       \* the spec file

onboarder == <<step, drawn, current, rounds>>

Sample == HeadOf(drawn, OnboardSample)

\* The cache keys: the paths of the sample for a draft, the prompt for a repair.
DraftKey(paths) == [call |-> "draft", of |-> paths]
RepairKey(sample) == [call |-> "repair", of |-> sample]

\* A sample without records raises.
DrawSample ==
  /\ step = "idle" /\ onboarded < MaxOnboardings
  /\ onboarded' = onboarded + 1
  /\ IF file = <<>> THEN UNCHANGED onboarder
     ELSE step' = "draft" /\ drawn' = file /\ current' = NoDraft /\ rounds' = 0
  /\ UNCHANGED <<cache, file, changes, yaml>>

Idle == step' = "idle" /\ drawn' = <<>> /\ current' = NoDraft /\ rounds' = 0

DraftSpec ==
  /\ step = "draft"
  /\ \E draft \in Drafts : Extract(DraftKey(PathsIn(Sample)), draft) /\ current' = draft
  /\ step' = "validate"
  /\ UNCHANGED <<file, changes, drawn, rounds, onboarded, yaml>>

Valid(draft) == draft.valid

\* Mutant of Stamp: the fingerprint is that of the records the model is shown.
StampOfPrompt(sample) == Fingerprint(HeadOf(sample, PromptSample))

Stamp(sample) == Fingerprint(sample)

SaveSpec ==
  /\ step = "validate" /\ Valid(current)
  /\ yaml' = [draft |-> current, required |-> current.required, stamped |-> TRUE,
              fingerprint |-> Stamp(Sample), drawn |-> drawn]
  /\ Idle
  /\ UNCHANGED <<cache, file, changes, onboarded>>

OutOfRounds == rounds = MaxRepairs

\* The error is sent back, or the rounds are over.
Reject ==
  /\ step = "validate" /\ ~Valid(current)
  /\ IF OutOfRounds THEN Idle
     ELSE step' = "repair" /\ UNCHANGED <<drawn, current, rounds>>
  /\ UNCHANGED <<cache, file, changes, onboarded, yaml>>

\* Mutant of NextRound: the rounds are not counted.
SameRound == rounds

NextRound == rounds + 1

Repair ==
  /\ step = "repair"
  /\ \E draft \in Drafts : AskAnew(RepairKey(Sample), draft) /\ current' = draft
  /\ step' = "validate" /\ rounds' = NextRound
  /\ UNCHANGED <<file, changes, drawn, onboarded, yaml>>

OnboardFails ==
  /\ \/ step = "draft" /\ CallFails(DraftKey(PathsIn(Sample)))
     \/ step = "repair" /\ CallAnewFails
  /\ Idle
  /\ UNCHANGED <<file, changes, onboarded, yaml>>

\* A human edits the spec file, and may leave out the fingerprints.
EditSpec ==
  /\ yaml # NoSpec /\ changes < MaxChanges /\ changes' = changes + 1
  /\ \E required \in SUBSET Fields, stamped \in BOOLEAN :
       yaml' = [yaml EXCEPT !.required = required, !.stamped = stamped]
  /\ UNCHANGED <<cache, file, onboarder, onboarded>>

ReplaceFile ==
  /\ changes < MaxChanges /\ changes' = changes + 1
  /\ file' \in Files
  /\ UNCHANGED <<cache, onboarder, onboarded, yaml>>

Onboard == DrawSample \/ DraftSpec \/ SaveSpec \/ Reject \/ Repair \/ OnboardFails

OnboardingInit ==
  /\ LlmInit
  /\ file \in Files /\ changes = 0
  /\ step = "idle" /\ drawn = <<>> /\ current = NoDraft /\ rounds = 0 /\ onboarded = 0
  /\ yaml = NoSpec

OnboardingTypeOK ==
  /\ LlmTypeOK
  /\ file \in Files /\ changes \in 0 .. MaxChanges
  /\ step \in {"idle", "draft", "validate", "repair"}
  /\ drawn \in Files /\ (step # "idle" => drawn # <<>>)
  /\ current \in Drafts \cup {NoDraft} /\ (current = NoDraft) = (step \in {"idle", "draft"})
  /\ rounds \in 0 .. MaxRepairs /\ onboarded \in 0 .. MaxOnboardings
  /\ yaml # NoSpec => yaml.drawn \in Files /\ DOMAIN yaml.fingerprint \subseteq Fields

-----------------------------------------------------------------------------
(* What keeps the properties *)

\* The fingerprint of a spec is that of the sample it was drawn from, whatever a human
\* edited since.
SavedSpec(s) ==
  /\ s \in [draft: Drafts, required: SUBSET Fields, stamped: BOOLEAN,
            fingerprint: {Fingerprint(HeadOf(f, OnboardSample)) : f \in Files},
            drawn: Files]
  /\ s.fingerprint = Fingerprint(HeadOf(s.drawn, OnboardSample))

\* A repair is under way only while there is a round left for it.
OnboardInv ==
  /\ OnboardingTypeOK
  /\ step = "repair" => rounds < MaxRepairs
  /\ yaml # NoSpec => SavedSpec(yaml)
=============================================================================
