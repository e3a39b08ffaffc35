SPECIFICATION Spec
CONSTANTS
  Nodes = {n1, n2}
  Attrs = {a1}
  Values = {v1, v2}
  Records = {r1, r2}
  Types = {t1}
  n1 = n1 n2 = n2 a1 = a1 r1 = r1 r2 = r2 t1 = t1 v1 = v1 v2 = v2
  Norm <- MCNorm
  NoValue = NoValue
  HumanEdits = HumanEdits
  Unattributed = Unattributed
  NoType = NoType
  Batches <- MCBatches
  Edits <- NoEdits
  Api = api
  Importers = {cli}
  Versions = {1}
  Contents <- MCContents
  Files <- MCFiles
  MaxOps = 3
INVARIANTS TypeOK LedgerMeansApplied CompletedRunCovers RunsAddUp
CHECK_DEADLOCK FALSE
