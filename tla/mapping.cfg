SPECIFICATION Spec
CONSTANTS
  p = p
  q = q
  a = a
  b = b
  w1 = w1
  w2 = w2
  Records <- MCRecords
  Fields <- MCFields
  Tag <- MCTag
  Absent = Absent
  Mixed = Mixed
  Quoted <- MCQuoted
  PromptSample = 1
  OnboardSample = 2
  IngestSample = 3
  Files <- MCFiles
  Drafts <- MCDrafts
  MaxRepairs = 1
  MaxChanges = 1
  MaxOnboardings = 2
  NoSpec = NoSpec
  NoDraft = NoDraft
  Items <- MCItems
  TextOf <- MCTextOf
  BlockKey <- MCBlockKey
  MaxItems = 1
  MaxRuns = 2
  CacheKeys <- MCCacheKeys
  Answers <- MCAnswers
INVARIANTS   GroundedInText SeenMeansAdded
PROPERTIES OnboardingEnds
CHECK_DEADLOCK FALSE
