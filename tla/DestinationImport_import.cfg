SPECIFICATION ImportSpec
CONSTANTS
  Admins = {a1, a2}
  Handlers = {h1, h2}
  ChangeIds = {c1, c2}
  DestIds = {d1}
  LegacyDests = {}
  Names = {n1}
  Slugs = {s1}
  Images = {i1}
  Null = Null
  Blank = Blank
  n1 = n1
  s1 = s1
  i1 = i1
  ApprovalRequired = TRUE
  HardDeleteAllowed = FALSE
  EnabledActions = {"create"}
  Inputs <- SomeInputs
  MayFail = TRUE
  MaxDraftVersion = 2
  MaxVersion = 1
  JobIds = {j1}
  Importers = {h1}
  Sheets <- SomeSheets
  MaxRows = 2
  MaxPendingIDs = 1
SYMMETRY Symmetry
INVARIANTS ImportTypeOK CompletedAccounts FailedCountersClose PendingRowsAreSubmitted SlugOncePerFile AnswerMatchesJob
PROPERTIES DryRunChangesNothing ImplementsWorkflow
CHECK_DEADLOCK FALSE
