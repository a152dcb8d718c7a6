SPECIFICATION Spec
CONSTANTS
  Admins = {a1, a2}
  Handlers = {h1}
  ChangeIds = {c1, c2}
  DestIds = {d1, d2}
  LegacyDests = {d1}
  Names = {n1}
  Slugs = {s1}
  Images = {i1}
  Null = Null
  Blank = Blank
  n1 = n1
  s1 = s1
  ApprovalRequired = TRUE
  HardDeleteAllowed = TRUE
  EnabledActions = {"create", "update", "delete"}
  Inputs <- AllInputs
  MayFail = TRUE
  MaxDraftVersion = 2
  MaxVersion = 3
SYMMETRY Symmetry
INVARIANTS ApprovalAtomic

CHECK_DEADLOCK FALSE
