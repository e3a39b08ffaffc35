SPECIFICATION Spec
CONSTANTS
  ann = ann bea = bea cem = cem sales = sales berlin = berlin mail = mail alias = alias
  Persons = {ann, bea, cem}
  Orgs = {sales, berlin}
  NoOrg = NoOrg
  Emails = {mail, alias}
  NoEmail = NoEmail
  Category <- MCCategory
  LocationFor <- MCLocation
  Order <- MCOrder
  Incoming <- MCIncoming
  SpecEdges <- MCSpecEdges
  Server = Server
  Scripts = {Script}
  Maintainers = {Server}
  NoWriter = NoWriter
  Faults = {"neo4j", "reply", "commit", "crash"}
  MaxOps = 5
INVARIANTS TypeOK  TracesFollowMerges EdgesTraced OneSameAsPerPair
PROPERTIES ResolverLinksAll
CHECK_DEADLOCK FALSE
