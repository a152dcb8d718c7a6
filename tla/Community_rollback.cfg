SPECIFICATION Spec
CONSTANTS
  Users = {u1, u2}
  Moderators = {u2}
  Dests = {d1}
  ReviewIds = {r1, r2}
  Handlers = {h1, h2}
  Workloads <- AllWorkloads
  MayFail = TRUE
  MaxImages = 2
  Null = Null
SYMMETRY Symmetry
INVARIANTS CreationIsAllOrNothing
CHECK_DEADLOCK FALSE
