SPECIFICATION Spec
CONSTANTS
  Nodes = {n1}
  Attrs = {a1}
  Values = {v1, v1x, v2, v3}
  Records = {r1, r2}
  Types = {t1, t2}
  n1 = n1 n2 = n2 a1 = a1 a2 = a2 r1 = r1 r2 = r2 t1 = t1 t2 = t2
  v1 = v1 v1x = v1x v2 = v2 v3 = v3
  Norm <- MCNorm
  NoValue = NoValue
  HumanEdits = HumanEdits
  Unattributed = Unattributed
  NoType = NoType
  NoWriter = NoWriter
  Api = api
  Importers = {}
  Batches <- LadderBatches
  Edits <- OneEdit
  Faults = {}
  MaxOps = 4
PROPERTIES HumanIsSacred
CHECK_DEADLOCK FALSE
