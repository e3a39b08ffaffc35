----------------------------- MODULE MappingProofs -----------------------------
(***************************************************************************)
(* Theorems about Mapping, for any records, fields, tags, files, drafts    *)
(* and sample sizes.                                                       *)
(***************************************************************************)
EXTENDS Mapping, FiniteSetTheorems, SequenceTheorems, TLAPS

-----------------------------------------------------------------------------
(* Samples and fingerprints *)

\* The head of a file is a file of records; that of a file that is short enough is the
\* whole file.
LEMMA HeadIsFile ==
  ASSUME NEW f \in Files, NEW n \in Nat \ {0}
  PROVE  /\ f \in Seq(Records)
         /\ HeadOf(f, n) \in Seq(Records)
         /\ Len(f) <= n => HeadOf(f, n) = f
  <1>1. f \in Seq(Records)
    BY OnboardingAssumption
  <1>2. Len(f) \in Nat
    BY <1>1, LenProperties
  <1>3. CASE Len(f) <= n
    <2>1. (IF n < Len(f) THEN n ELSE Len(f)) = Len(f)
      BY <1>2, <1>3
    <2>2. HeadOf(f, n) = SubSeq(f, 1, Len(f))
      BY <2>1 DEF HeadOf
    <2>3. SubSeq(f, 1, Len(f)) = f
      BY <1>1
    <2> QED BY <1>1, <2>2, <2>3
  <1>4. CASE ~ (Len(f) <= n)
    <2>1. HeadOf(f, n) = SubSeq(f, 1, n)
      BY <1>2, <1>4 DEF HeadOf
    <2>2. \A i \in 1 .. n : f[i] \in Records
      BY <1>1, <1>2, <1>4
    <2> QED BY <1>1, <1>2, <1>4, <2>1, <2>2
  <1> QED BY <1>3, <1>4

\* The tags of a field are finitely many, and none is Mixed.
LEMMA TagsAreTags ==
  ASSUME NEW sample \in Seq(Records), NEW field \in Fields
  PROVE  IsFiniteSet(Tags(sample, field)) /\ Mixed \notin Tags(sample, field)
  <1> DEFINE All == {Tag[sample[i]][field] : i \in 1 .. Len(sample)}
  <1>1. DOMAIN sample = 1 .. Len(sample) /\ \A i \in 1 .. Len(sample) : sample[i] \in Records
    BY LenProperties, ElementOfSeq
  <1>2. Tags(sample, field) = All \ {Absent}
    BY <1>1 DEF Tags
  <1>3. IsFiniteSet(1 .. Len(sample))
    BY LenProperties, FS_Interval
  <1>4. IsFiniteSet(All)
    <2> DEFINE TagAt == [i \in 1 .. Len(sample) |-> Tag[sample[i]][field]]
    <2>1. All = {TagAt[i] : i \in 1 .. Len(sample)}
      OBVIOUS
    <2>2. TagAt \in Surjection(1 .. Len(sample), All)
      BY DEF Surjection
    <2> QED BY <1>3, <2>2, FS_Surjection
  <1>5. Mixed \notin All
    BY <1>1, DriftAssumption
  <1> HIDE DEF All
  <1>6. IsFiniteSet(All \ {Absent})
    BY <1>4, FS_Subset
  <1> QED BY <1>2, <1>5, <1>6

\* A field whose values have one tag is fingerprinted as that tag, and no other is.
LEMMA OneTag ==
  ASSUME NEW sample \in Seq(Records), NEW field \in Fields, NEW tag
  PROVE  /\ Tags(sample, field) = {tag} =>
              field \in DOMAIN Fingerprint(sample) /\ Fingerprint(sample)[field] = tag
         /\ field \in DOMAIN Fingerprint(sample) /\ Fingerprint(sample)[field] = tag /\ tag # Mixed
              => Tags(sample, field) = {tag}
  <1>1. DOMAIN Fingerprint(sample) = PathsIn(sample)
    BY DEF Fingerprint
  <1>2. ASSUME Tags(sample, field) = {tag}
        PROVE  field \in DOMAIN Fingerprint(sample) /\ Fingerprint(sample)[field] = tag
    <2>1. Cardinality(Tags(sample, field)) = 1
      BY <1>2, FS_Singleton
    <2>2. field \in PathsIn(sample)
      BY <1>2 DEF PathsIn
    <2>3. (CHOOSE t \in Tags(sample, field) : TRUE) = tag
      BY <1>2
    <2> QED BY <1>1, <2>1, <2>2, <2>3 DEF Fingerprint
  <1>3. ASSUME field \in DOMAIN Fingerprint(sample), Fingerprint(sample)[field] = tag, tag # Mixed
        PROVE  Tags(sample, field) = {tag}
    <2>1. field \in PathsIn(sample)
      BY <1>1, <1>3
    <2>2. /\ Cardinality(Tags(sample, field)) = 1
          /\ (CHOOSE t \in Tags(sample, field) : TRUE) = tag
      BY <1>3, <2>1 DEF Fingerprint
    <2>3. \E t : Tags(sample, field) = {t}
      BY <2>2, TagsAreTags, FS_Singleton
    <2> QED BY <2>2, <2>3
  <1> QED BY <1>2, <1>3

LEMMA FingerprintFields ==
  ASSUME NEW sample
  PROVE  DOMAIN Fingerprint(sample) \subseteq Fields
  BY DEF Fingerprint, PathsIn

-----------------------------------------------------------------------------
(* What the drift check lets through *)

\* A spec does not drift from the file it was drawn from, if the onboarder saw it whole.
LEMMA NoDriftFromDrawn ==
  ASSUME NEW s, SavedSpec(s), s.drawn # <<>>, Len(s.drawn) <= OnboardSample,
         Missing(s.required, s.drawn) = {}
  PROVE  ~ Drifts(s, s.drawn)
  <1> DEFINE f == s.drawn
  <1>1. f \in Files /\ f \in Seq(Records)
    BY OnboardingAssumption DEF SavedSpec
  <1>2. OnboardSample \in Nat \ {0} /\ IngestSample \in Nat \ {0} /\ OnboardSample <= IngestSample
    BY DriftAssumption
  <1>3. Len(f) <= IngestSample
    BY <1>1, <1>2, LenProperties
  <1>4. HeadOf(f, OnboardSample) = f /\ HeadOf(f, IngestSample) = f
    BY <1>1, <1>2, <1>3, HeadIsFile
  <1>5. s.fingerprint = Fingerprint(f)
    BY <1>4 DEF SavedSpec
  <1>6. ~ Differs(s.fingerprint, Fingerprint(f))
    BY <1>5 DEF Differs
  <1> QED BY <1>4, <1>6 DEF Drifts

\* A file that a stamped spec has not drifted from has, in the part that is checked,
\* one tag in every field that had one tag in the sample of the spec.
LEMMA NoDriftKeepsTags ==
  ASSUME NEW s, SavedSpec(s), s.stamped, NEW f \in Files, ~ Drifts(s, f),
         NEW field \in Fields,
         Cardinality(Tags(HeadOf(s.drawn, OnboardSample), field)) = 1
  PROVE  Tags(HeadOf(f, IngestSample), field) = Tags(HeadOf(s.drawn, OnboardSample), field)
  <1> DEFINE drawnHead == HeadOf(s.drawn, OnboardSample)
             head == HeadOf(f, IngestSample)
  <1>1. OnboardSample \in Nat \ {0} /\ IngestSample \in Nat \ {0}
    BY DriftAssumption
  <1>2. drawnHead \in Seq(Records) /\ head \in Seq(Records)
    BY <1>1, HeadIsFile DEF SavedSpec
  <1>3. \E tag : Tags(drawnHead, field) = {tag}
    BY <1>2, TagsAreTags, FS_Singleton
  <1>4. PICK tag : Tags(drawnHead, field) = {tag}
    BY <1>3
  <1>5. tag # Mixed
    BY <1>2, <1>4, TagsAreTags
  <1>6. s.fingerprint = Fingerprint(drawnHead)
    BY DEF SavedSpec
  <1>7. ~ Differs(s.fingerprint, Fingerprint(head))
    BY DEF Drifts
  <1> HIDE DEF drawnHead, head
  <1>8. field \in DOMAIN s.fingerprint /\ s.fingerprint[field] = tag
    BY <1>2, <1>4, <1>6, OneTag
  <1>9. field \in DOMAIN Fingerprint(head) /\ Fingerprint(head)[field] = tag
    BY <1>7, <1>8 DEF Differs
  <1>10. Tags(head, field) = {tag}
    BY <1>2, <1>5, <1>9, OneTag
  <1> QED BY <1>4, <1>10 DEF drawnHead, head

-----------------------------------------------------------------------------
(* The cache *)

LEMMA StoredTypes ==
  ASSUME LlmTypeOK, NEW key \in CacheKeys, NEW answer \in Answers
  PROVE  /\ AskAnew(key, answer) => LlmTypeOK'
         /\ Extract(key, answer) => LlmTypeOK'
  <1>1. ASSUME AskAnew(key, answer) PROVE LlmTypeOK'
    BY <1>1 DEF AskAnew, Stored, LlmTypeOK
  <1>2. ASSUME UNCHANGED cache PROVE LlmTypeOK'
    BY <1>2 DEF LlmTypeOK
  <1> QED BY <1>1, <1>2 DEF Extract

-----------------------------------------------------------------------------
(* The onboarder *)

LEMMA SavedTypes ==
  ASSUME NEW s, SavedSpec(s)
  PROVE  /\ s.drawn \in Files /\ DOMAIN s.fingerprint \subseteq Fields
         /\ \A required \in SUBSET Fields, stamped \in BOOLEAN :
              SavedSpec([s EXCEPT !.required = required, !.stamped = stamped])
  <1>1. s.drawn \in Files /\ DOMAIN s.fingerprint \subseteq Fields
    BY FingerprintFields DEF SavedSpec
  <1>2. ASSUME NEW required \in SUBSET Fields, NEW stamped \in BOOLEAN
        PROVE  SavedSpec([s EXCEPT !.required = required, !.stamped = stamped])
    BY DEF SavedSpec
  <1> QED BY <1>1, <1>2

LEMMA OnboardingStarts == OnboardingInit => OnboardInv
  <1> SUFFICES ASSUME OnboardingInit PROVE OnboardInv
    OBVIOUS
  <1>1. LlmTypeOK
    BY DEF OnboardingInit, LlmInit, LlmTypeOK
  <1>2. OnboardingTypeOK
    BY <1>1, OnboardingAssumption DEF OnboardingInit, OnboardingTypeOK
  <1> QED BY <1>2 DEF OnboardingInit, OnboardInv

LEMMA OnboardingKeeps ==
  ASSUME OnboardInv, Onboard \/ EditSpec \/ ReplaceFile
  PROVE  OnboardInv'
  <1>1. OnboardingTypeOK
    BY DEF OnboardInv
  <1>2. MaxRepairs \in Nat /\ MaxChanges \in Nat /\ MaxOnboardings \in Nat
    BY OnboardingAssumption
  <1>3. ASSUME Idle, UNCHANGED <<file, changes, onboarded>>, LlmTypeOK',
               yaml' # NoSpec => SavedSpec(yaml')
        PROVE  OnboardInv'
    <2>1. yaml' # NoSpec => yaml'.drawn \in Files /\ DOMAIN yaml'.fingerprint \subseteq Fields
      BY <1>3, SavedTypes
    <2>2. OnboardingTypeOK'
      BY <1>1, <1>2, <1>3, <2>1, OnboardingAssumption DEF Idle, OnboardingTypeOK
    <2> QED BY <1>3, <2>2 DEF Idle, OnboardInv
  <1>4. UNCHANGED yaml => (yaml' # NoSpec => SavedSpec(yaml'))
    BY DEF OnboardInv
  <1>5. UNCHANGED cache => LlmTypeOK'
    BY <1>1 DEF OnboardingTypeOK, LlmTypeOK
  <1>6. CASE DrawSample
    <2>1. OnboardingTypeOK'
      BY <1>1, <1>2, <1>5, <1>6, OnboardingAssumption
      DEF DrawSample, OnboardingTypeOK, onboarder
    <2> QED BY <1>4, <1>6, <2>1 DEF OnboardInv, DrawSample, onboarder
  <1>7. CASE DraftSpec
    <2>1. PICK draft \in Drafts :
            Extract(DraftKey(PathsIn(Sample)), draft) /\ current' = draft
      BY <1>7 DEF DraftSpec
    <2>2. DraftKey(PathsIn(Sample)) \in CacheKeys /\ draft \in Answers
      BY CacheAssumption DEF PathsIn
    <2>3. LlmTypeOK'
      BY <1>1, <2>1, <2>2, StoredTypes DEF OnboardingTypeOK
    <2>4. OnboardingTypeOK'
      BY <1>1, <1>7, <2>1, <2>3, OnboardingAssumption DEF DraftSpec, OnboardingTypeOK
    <2> QED BY <1>4, <1>7, <2>4 DEF OnboardInv, DraftSpec
  <1>8. CASE SaveSpec
    <2>1. current \in Drafts /\ drawn \in Files
      BY <1>1, <1>8 DEF SaveSpec, OnboardingTypeOK
    <2>2. current.required \subseteq Fields
      BY <2>1, OnboardingAssumption
    <2>3. SavedSpec(yaml')
      BY <1>8, <2>1, <2>2 DEF SaveSpec, SavedSpec, Stamp, Sample
    <2> QED BY <1>3, <1>5, <1>8, <2>3 DEF SaveSpec
  <1>9. CASE Reject
    <2>1. CASE OutOfRounds
      BY <1>3, <1>4, <1>5, <1>9, <2>1 DEF Reject
    <2>2. CASE ~ OutOfRounds
      <3>1. OnboardingTypeOK'
        BY <1>1, <1>5, <1>9, <2>2 DEF Reject, OnboardingTypeOK
      <3>2. rounds' < MaxRepairs
        BY <1>1, <1>2, <1>9, <2>2 DEF Reject, OutOfRounds, OnboardingTypeOK
      <3> QED BY <1>4, <1>9, <3>1, <3>2 DEF OnboardInv, Reject
    <2> QED BY <2>1, <2>2
  <1>10. CASE Repair
    <2>1. PICK draft \in Drafts : AskAnew(RepairKey(Sample), draft) /\ current' = draft
      BY <1>10 DEF Repair
    <2>2. RepairKey(Sample) \in CacheKeys /\ draft \in Answers
      BY <1>1, CacheAssumption DEF Sample, OnboardingTypeOK
    <2>3. LlmTypeOK'
      BY <1>1, <2>1, <2>2, StoredTypes DEF OnboardingTypeOK
    <2>4. rounds' \in 0 .. MaxRepairs
      BY <1>1, <1>2, <1>10 DEF Repair, NextRound, OnboardInv, OnboardingTypeOK
    <2>5. OnboardingTypeOK'
      BY <1>1, <1>10, <2>1, <2>3, <2>4, OnboardingAssumption DEF Repair, OnboardingTypeOK
    <2> QED BY <1>4, <1>10, <2>5 DEF OnboardInv, Repair
  <1>11. CASE OnboardFails
    <2>1. UNCHANGED cache
      BY <1>11 DEF OnboardFails, CallFails, CallAnewFails
    <2> QED BY <1>3, <1>4, <1>5, <1>11, <2>1 DEF OnboardFails
  <1>12. CASE EditSpec
    <2>1. SavedSpec(yaml)
      BY <1>12 DEF EditSpec, OnboardInv
    <2>2. PICK required \in SUBSET Fields, stamped \in BOOLEAN :
            yaml' = [yaml EXCEPT !.required = required, !.stamped = stamped]
      BY <1>12 DEF EditSpec
    <2>3. SavedSpec(yaml')
      BY <2>1, <2>2, SavedTypes
    <2>4. yaml'.drawn \in Files /\ DOMAIN yaml'.fingerprint \subseteq Fields
      BY <2>3, SavedTypes
    <2>5. changes < MaxChanges /\ changes' = changes + 1 /\ UNCHANGED <<cache, file, onboarder, onboarded>>
      BY <1>12 DEF EditSpec
    <2>6. OnboardingTypeOK'
      BY <1>1, <1>2, <1>5, <2>4, <2>5 DEF OnboardingTypeOK, onboarder
    <2> QED BY <2>3, <2>5, <2>6 DEF OnboardInv, onboarder
  <1>13. CASE ReplaceFile
    <2>1. OnboardingTypeOK'
      BY <1>1, <1>2, <1>5, <1>13 DEF ReplaceFile, OnboardingTypeOK, onboarder
    <2> QED BY <1>4, <1>13, <2>1 DEF OnboardInv, ReplaceFile, onboarder
  <1> QED BY <1>6, <1>7, <1>8, <1>9, <1>10, <1>11, <1>12, <1>13 DEF Onboard

-----------------------------------------------------------------------------
(* The runs *)

\* What is in the graph and what a block keeps is true to the text.
TrueToText == \A fact \in facts \cup adding : fact.grounded => fact.item \in TextOf[fact.record]

LEMMA FactsFit ==
  ASSUME NEW items \in SUBSET Items, NEW record \in Records, NEW only
  PROVE  /\ FactsOf(items, record, only) \subseteq Fact
         /\ \A fact \in FactsOf(items, record, only) :
              fact.record = record /\ (fact.grounded => fact.item \in TextOf[fact.record])
  <1>1. ASSUME NEW fact \in FactsOf(items, record, only)
        PROVE  /\ fact \in Fact /\ fact.record = record
               /\ fact.grounded => fact.item \in TextOf[fact.record]
    <2>1. PICK i \in items :
            fact = [record |-> record, item |-> i, grounded |-> i \in TextOf[record]]
      BY <1>1 DEF FactsOf, Grounded
    <2>2. fact \in Fact
      BY <2>1 DEF Fact
    <2> QED BY <2>1, <2>2
  <1> QED BY <1>1

LEMMA TailTypes ==
  ASSUME NEW S, NEW s \in Seq(S), s # <<>>
  PROVE  Head(s) \in S /\ Tail(s) \in Seq(S)
  BY HeadTailProperties

LEMMA SetOfSeq ==
  ASSUME NEW S, NEW s \in Seq(S)
  PROVE  ToSet(s) \subseteq S
  BY ElementOfSeq, LenProperties DEF ToSet

LEMMA MappingStarts == MappingInit => MappingInv
  <1> SUFFICES ASSUME MappingInit PROVE MappingInv
    OBVIOUS
  <1>1. OnboardInv
    BY OnboardingStarts DEF MappingInit
  <1>2. ToSet(todo) \subseteq Records /\ todo \in Seq(Records)
    BY EmptySeq, SetOfSeq DEF MappingInit
  <1>3. TypeOK
    BY <1>1, <1>2, OnboardingAssumption, MappingAssumption DEF MappingInit, OnboardInv, TypeOK
  <1> QED BY <1>1, <1>2, <1>3 DEF MappingInit, MappingInv, RunInv, AddingInv, SeenMeansAdded

\* What a run does leaves the onboarder alone, but for the cache.
LEMMA RunsLeaveOnboarding ==
  ASSUME OnboardInv, LlmTypeOK', UNCHANGED <<file, changes, onboarder, onboarded, yaml>>
  PROVE  OnboardInv'
  BY DEF OnboardInv, OnboardingTypeOK, onboarder

LEMMA MappingSteps ==
  ASSUME MappingInv, [Next]_vars
  PROVE  MappingInv'
  <1>1. /\ TypeOK /\ todo \in Seq(Records) /\ OnboardInv /\ RunInv /\ AddingInv /\ SeenMeansAdded
        /\ TrueToText
    BY DEF MappingInv, TrueToText
  <1>2. LlmTypeOK
    BY <1>1 DEF TypeOK, OnboardingTypeOK
  <1>3. ASSUME UNCHANGED onboarding PROVE OnboardInv'
    <2>1. LlmTypeOK'
      BY <1>2, <1>3 DEF onboarding, LlmTypeOK
    <2> QED BY <1>1, <1>3, <2>1, RunsLeaveOnboarding DEF onboarding
  <1>4. OnboardInv' => OnboardingTypeOK'
    BY DEF OnboardInv
  <1>5. Reading => Head(todo) \in Records /\ Tail(todo) \in Seq(Records)
    BY <1>1, TailTypes DEF Reading
  <1>6. run = "adding" => todo # <<>> /\ Head(todo) \in Records /\ Tail(todo) \in Seq(Records)
    BY <1>1, TailTypes DEF TypeOK
  <1>7. todo' \in Seq(Records) => ToSet(todo') \subseteq Records
    BY SetOfSeq
  <1>8. CASE (Onboard \/ EditSpec \/ ReplaceFile) /\ UNCHANGED <<running, seen, facts, kept, runs>>
    <2>1. OnboardInv'
      BY <1>1, <1>8, OnboardingKeeps
    <2>2. TypeOK'
      BY <1>1, <1>4, <1>8, <2>1 DEF TypeOK, running
    <2> QED BY <1>1, <1>8, <2>1, <2>2
      DEF MappingInv, running, RunInv, AddingInv, SeenMeansAdded, TrueToText
  <1>9. CASE StartRun
    <2>1. OnboardInv'
      BY <1>3, <1>9 DEF StartRun
    <2>2. /\ run = "none" /\ yaml # NoSpec /\ runs \in Nat /\ runs < MaxRuns /\ runs' = runs + 1
          /\ UNCHANGED <<read, todo, adding, seen, facts, kept>>
          /\ \/ UNCHANGED <<run, spec, checked>>
             \/ run' = "checked" /\ spec' = yaml /\ checked' = file /\ ~ Drifts(yaml, file)
      BY <1>1, <1>9, MappingAssumption DEF StartRun, running, TypeOK
    <2>3. runs' \in 0 .. MaxRuns
      BY <2>2, MappingAssumption
    <2>4. file \in Files /\ SavedSpec(yaml)
      BY <1>1, <2>2 DEF OnboardInv, OnboardingTypeOK
    <2>5. TypeOK'
      BY <1>1, <1>4, <2>1, <2>2, <2>3, <2>4 DEF TypeOK
    <2>6. RunInv'
      BY <1>1, <2>2, <2>4 DEF RunInv
    <2> QED BY <1>1, <2>1, <2>2, <2>5, <2>6 DEF MappingInv, AddingInv, SeenMeansAdded, TrueToText
  <1>10. CASE OpenFile
    <2>1. OnboardInv'
      BY <1>3, <1>10 DEF OpenFile
    <2>2. file \in Files /\ file \in Seq(Records)
      BY <1>1, OnboardingAssumption DEF OnboardInv, OnboardingTypeOK
    <2>3. TypeOK'
      BY <1>1, <1>4, <1>7, <1>10, <2>1, <2>2 DEF OpenFile, TypeOK
    <2> QED BY <1>1, <1>10, <2>1, <2>2, <2>3
      DEF OpenFile, MappingInv, RunInv, AddingInv, SeenMeansAdded, TrueToText
  <1>11. CASE SkipSeen
    <2>1. OnboardInv'
      BY <1>3, <1>11 DEF SkipSeen
    <2>2. TypeOK'
      BY <1>1, <1>4, <1>5, <1>7, <1>11, <2>1 DEF SkipSeen, Reading, TypeOK
    <2> QED BY <1>1, <1>5, <1>11, <2>1, <2>2
      DEF SkipSeen, Reading, MappingInv, RunInv, AddingInv, SeenMeansAdded, TrueToText
  <1>12. CASE RunBlock
    <2> DEFINE record == Head(todo)
               key == BlockKeyOf(record)
    <2>1. Reading /\ record \in Records /\ record \notin seen
      BY <1>5, <1>12 DEF RunBlock
    <2>2. /\ run' = "adding" /\ seen' = seen /\ kept' = {fact \in kept : fact.record # record} \cup adding'
          /\ UNCHANGED <<file, changes, onboarder, onboarded, yaml,
                         spec, checked, read, todo, facts, runs>>
      BY <1>12 DEF RunBlock, MarkOnce
    <2>3. key \in CacheKeys
      BY <2>1, CacheAssumption
    <2>4. /\ LlmTypeOK'
          /\ adding' \subseteq Fact
          /\ \A fact \in adding' :
               fact.record = record /\ (fact.grounded => fact.item \in TextOf[fact.record])
      <3>1. CASE adding' = {} /\ (CallFails(key) \/ Extract(key, Malformed))
        <4>1. Malformed \in Answers
          BY CacheAssumption
        <4>2. CallFails(key) => LlmTypeOK'
          BY <1>2 DEF CallFails, LlmTypeOK
        <4>3. LlmTypeOK'
          BY <1>2, <2>3, <3>1, <4>1, <4>2, StoredTypes
        <4> QED BY <3>1, <4>3
      <3>2. ASSUME NEW items \in SUBSET Items, Extract(key, Formed(items)),
                   NEW first \in SUBSET items,
                   adding' = FactsOf(first, record, spec.draft.grounding)
            PROVE  /\ LlmTypeOK'
                   /\ adding' \subseteq Fact
                   /\ \A fact \in adding' :
                        fact.record = record /\ (fact.grounded => fact.item \in TextOf[fact.record])
        <4>1. Formed(items) \in Answers
          BY CacheAssumption
        <4>2. LlmTypeOK'
          BY <1>2, <2>3, <3>2, <4>1, StoredTypes
        <4>3. first \in SUBSET Items
          OBVIOUS
        <4> QED BY <2>1, <3>2, <4>2, <4>3, FactsFit
      <3> QED BY <1>12, <3>1, <3>2 DEF RunBlock
    <2>5. OnboardInv'
      BY <1>1, <2>2, <2>4, RunsLeaveOnboarding
    <2>6. TypeOK'
      BY <1>1, <1>4, <2>1, <2>2, <2>4, <2>5 DEF TypeOK, Reading
    <2>7. AddingInv'
      BY <2>1, <2>2 DEF AddingInv
    <2>8. SeenMeansAdded'
      BY <1>1, <2>1, <2>2, <2>4 DEF SeenMeansAdded
    <2>9. RunInv'
      BY <1>1, <2>1, <2>2 DEF RunInv, Reading
    <2>10. TrueToText'
      BY <1>1, <2>2, <2>4 DEF TrueToText
    <2> QED BY <1>1, <2>2, <2>5, <2>6, <2>7, <2>8, <2>9, <2>10 DEF MappingInv, TrueToText
  <1>13. CASE \E fact \in adding : AddItem(fact)
    <2>1. PICK fact \in adding : AddItem(fact)
      BY <1>13
    <2>2. OnboardInv'
      BY <1>3, <2>1 DEF AddItem
    <2>3. TypeOK'
      BY <1>1, <1>4, <2>1, <2>2 DEF AddItem, TypeOK
    <2> QED BY <1>1, <2>1, <2>2, <2>3
      DEF AddItem, MappingInv, RunInv, AddingInv, SeenMeansAdded, TrueToText
  <1>14. CASE MarkSeen
    <2>1. OnboardInv'
      BY <1>3, <1>14 DEF MarkSeen
    <2>2. TypeOK'
      BY <1>1, <1>4, <1>6, <1>7, <1>14, <2>1 DEF MarkSeen, TypeOK
    <2>3. SeenMeansAdded'
      BY <1>1, <1>14 DEF MarkSeen, SeenMeansAdded, AddingInv
    <2> QED BY <1>1, <1>6, <1>14, <2>1, <2>2, <2>3 DEF MarkSeen, MappingInv, RunInv, AddingInv, TrueToText
  <1>15. CASE DeadLetter
    <2>1. OnboardInv'
      BY <1>3, <1>15 DEF DeadLetter
    <2>2. Tail(todo) \in Seq(Records)
      BY <1>5, <1>6, <1>15 DEF DeadLetter
    <2>3. TypeOK'
      BY <1>1, <1>4, <1>7, <1>15, <2>1, <2>2 DEF DeadLetter, Reading, TypeOK
    <2> QED BY <1>1, <1>15, <2>1, <2>2, <2>3
      DEF DeadLetter, Reading, MappingInv, RunInv, AddingInv, SeenMeansAdded, TrueToText
  <1>16. CASE EndRun
    <2>1. OnboardInv'
      BY <1>3, <1>16 DEF EndRun
    <2>2. todo' \in Seq(Records)
      BY <1>16, EmptySeq DEF EndRun, NoRun
    <2>3. TypeOK'
      BY <1>1, <1>4, <1>7, <1>16, <2>1, <2>2, OnboardingAssumption DEF EndRun, NoRun, TypeOK
    <2> QED BY <1>1, <1>16, <2>1, <2>2, <2>3
      DEF EndRun, NoRun, MappingInv, RunInv, AddingInv, SeenMeansAdded, TrueToText
  <1>17. CASE UNCHANGED vars
    <2>1. OnboardInv'
      BY <1>3, <1>17 DEF vars
    <2>2. TypeOK'
      BY <1>1, <1>4, <1>17, <2>1 DEF vars, running, TypeOK
    <2> QED BY <1>1, <1>17, <2>1, <2>2
      DEF vars, running, MappingInv, RunInv, AddingInv, SeenMeansAdded, TrueToText
  <1> QED BY <1>8, <1>9, <1>10, <1>11, <1>12, <1>13, <1>14, <1>15, <1>16, <1>17 DEF Next

LEMMA Inductive == Spec => []MappingInv
  BY MappingStarts, MappingSteps, PTL DEF Spec

-----------------------------------------------------------------------------
(* Theorems *)

\* The variables stay in their types, and a draft, a repair and a run never leave the
\* steps the code takes them through.
THEOREM MappingTypeCorrect == Spec => []TypeOK
  BY Inductive, PTL DEF MappingInv

\* A run of a source is refused only for a reason: its file or its spec changed, the
\* spec requires what is missing, or the onboarder did not see the whole file.
THEOREM UnchangedIsNotRefused == Spec => []UnchangedFileRuns
  <1>1. ASSUME MappingInv PROVE UnchangedFileRuns
    <2>1. SUFFICES ASSUME yaml # NoSpec, file # <<>>, yaml.drawn = file, Len(file) <= OnboardSample,
                          Missing(yaml.required, file) = {}
                   PROVE  ~ Drifts(yaml, file)
      <3>1. file \in Seq(Records) /\ OnboardSample \in Nat
        BY <1>1, DriftAssumption, OnboardingAssumption DEF MappingInv, OnboardInv, OnboardingTypeOK
      <3>2. Len(file) > OnboardSample \/ Len(file) <= OnboardSample
        BY <3>1, LenProperties
      <3> QED BY <3>2 DEF UnchangedFileRuns
    <2>2. SavedSpec(yaml)
      BY <1>1, <2>1 DEF MappingInv, OnboardInv
    <2> QED BY <2>1, <2>2, NoDriftFromDrawn
  <1> QED BY <1>1, Inductive, PTL

\* A value whose type flipped on an unchanged path is not read by a run whose check
\* looked at the whole file.
THEOREM FlipsAreCaught == Spec => []FlipsCaught
  <1>1. ASSUME MappingInv PROVE FlipsCaught
    <2>1. SUFFICES ASSUME run \in {"reading", "adding"}, read = checked, spec.stamped,
                          Len(read) <= IngestSample, NEW field \in Fields,
                          Cardinality(Tags(HeadOf(spec.drawn, OnboardSample), field)) = 1
                   PROVE  Tags(read, field) = Tags(HeadOf(spec.drawn, OnboardSample), field)
      BY DEF FlipsCaught
    <2>2. SavedSpec(spec) /\ ~ Drifts(spec, read)
      BY <1>1, <2>1 DEF MappingInv, RunInv
    <2>3. read \in Files
      BY <1>1 DEF MappingInv, TypeOK
    <2>4. HeadOf(read, IngestSample) = read
      BY <2>1, <2>3, HeadIsFile, DriftAssumption
    <2> QED BY <2>1, <2>2, <2>3, <2>4, NoDriftKeepsTags
  <1> QED BY <1>1, Inductive, PTL

\* What the graph has as grounded is in the text of its record, whoever the answer was
\* cached for.
THEOREM GroundedIsInText == Spec => []GroundedInText
  <1>1. MappingInv => GroundedInText
    BY DEF MappingInv, GroundedInText
  <1> QED BY <1>1, Inductive, PTL

\* A record that no later run looks at has all its facts in the graph.
THEOREM SeenIsAdded == Spec => []SeenMeansAdded
  BY Inductive, PTL DEF MappingInv
=============================================================================
