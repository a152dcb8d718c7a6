SPECIFICATION Spec
CONSTANTS
  Admins = {a1, a2}
  Handlers = {h1, h2}
  ChangeIds = {c1}
  DestIds = {d1, d2}
  LegacyDests = {d1}
  Names = {n1}
  Slugs = {s1}
  Images = {i1}
  Null = Null
  Blank = Blank
  n1 = n1
  s1 = s1
  ApprovalRequired = TRUE
  HardDeleteAllowed = TRUE
  EnabledActions = {"create", "update", "delete"}
  Inputs <- FewInputs
  MayFail = FALSE
  MaxDraftVersion = 2
  MaxVersion = 3
SYMMETRY Symmetry

PROPERTIES LockedWhilePending
CHECK_DEADLOCK FALSE
