CONSTANTS
  Users = {u1, u2}
  ClientIDs = {c1, c2}
  Registered <- MCAllRegistered
  Fold <- MCNoFold
  Tokens = {t1, t2, t3}
  Handlers = {h1, h2}
  Endpoints = {"auth", "oauth"}
  Faults = TRUE
  NoRow = NoRow
SYMMETRY Symmetry
SPECIFICATION Spec
INVARIANT TypeOK
INVARIANT NoOrphanRows
INVARIANT DisabledStaysClean
INVARIANT FamilyKeepsOwner
CHECK_DEADLOCK FALSE
