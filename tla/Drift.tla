--------------------------------- MODULE Drift ---------------------------------
(***************************************************************************)
(* The drift check that an ingest run starts with: the spec of a source    *)
(* against the head of the file (backend/ingest/runtime.py and             *)
(* Ingestor._check_drift).                                                 *)
(*                                                                         *)
(* A record is known by the tags of its fields; a file is the sequence of  *)
(* its records.                                                            *)
(***************************************************************************)
EXTENDS LlmClient

CONSTANTS
  Records, Fields,
  Tag,            \* of a record, the tag of the value of each field
  Absent, Mixed,
  Quoted,         \* fields whose names a JSONPath has to quote
  PromptSample,   \* the records of the sample that the model is shown
  OnboardSample,  \* records the onboarder samples
  IngestSample    \* and the drift check

ASSUME DriftAssumption ==
  /\ Tag \in [Records -> [Fields -> UNION {{Tag[r][f] : f \in Fields} : r \in Records}]]
  /\ \A r \in Records, f \in Fields : Tag[r][f] # Mixed
  /\ Quoted \subseteq Fields
  /\ {PromptSample, OnboardSample, IngestSample} \subseteq Nat \ {0}
  /\ PromptSample <= OnboardSample /\ OnboardSample <= IngestSample

HeadOf(file, n) == SubSeq(file, 1, IF n < Len(file) THEN n ELSE Len(file))

Tags(sample, field) == {Tag[sample[i]][field] : i \in DOMAIN sample} \ {Absent}

\* list_field_paths() over a sample.
PathsIn(sample) == {field \in Fields : Tags(sample, field) # {}}

\* Mutant of Fingerprint: the tag seen first stays.
FingerprintOfFirst(sample) ==
  [field \in PathsIn(sample) |->
     LET first == CHOOSE i \in DOMAIN sample :
           /\ Tag[sample[i]][field] # Absent
           /\ \A j \in 1 .. i - 1 : Tag[sample[j]][field] = Absent
     IN Tag[sample[first]][field]]

\* type_fingerprint(): the tag of each path; a path with several is mixed.
Fingerprint(sample) ==
  [field \in PathsIn(sample) |->
     IF Cardinality(Tags(sample, field)) = 1 THEN CHOOSE tag \in Tags(sample, field) : TRUE
     ELSE Mixed]

\* fingerprint_diff(): a path that is new is none.
Differs(expected, observed) ==
  \E field \in DOMAIN expected :
    field \notin DOMAIN observed \/ observed[field] # expected[field]

\* A quoted path is not spelled as the paths of the sample are, and never found.
Missing(required, sample) == required \ (PathsIn(sample) \ Quoted)

\* The paths the spec requires are checked when it has their hash; that the hash is
\* of other paths than these is not reported.
Drifts(spec, file) ==
  LET sample == HeadOf(file, IngestSample)
  IN /\ spec.stamped
     /\ \/ sample = <<>>
        \/ Missing(spec.required, sample) # {}
        \/ Differs(spec.fingerprint, Fingerprint(sample))
=============================================================================
