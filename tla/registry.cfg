SPECIFICATION Spec
CONSTANTS
  Tenants = {t1, t2}
  Patterns = {f1}
  Versions = {1, 2}
  Texts = {x, y}
  ApiDrafts <- MCApiDrafts
  CliDrafts <- MCCliDrafts
  Paths = {yaml}
  t1 = t1 t2 = t2 f1 = f1 x = x y = y
  NoDraft = NoDraft
  MaxDrafts = 3
INVARIANTS TypeOK AnswersNameTheirDraft
PROPERTIES DraftsWait
CHECK_DEADLOCK FALSE
