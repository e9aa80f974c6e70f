CONSTANTS
  Users = {u1}
  ClientIDs <- MCClientIDs
  Registered <- MCRegistered
  Fold <- MCFold
  Tokens = {t1, t2, t3, t4}
  Handlers = {h1}
  Endpoints = {"auth", "oauth"}
  Faults = FALSE
  NoRow = NoRow
SPECIFICATION Spec
PROPERTY RotationIsAtomic
PROPERTY MintOnlyForActive
CHECK_DEADLOCK FALSE
