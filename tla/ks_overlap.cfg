CONSTANTS
  Tenants = {t1}
  Global = global
  Keyed = {global, t1}
  Kids = {k1, k2, k3}
  Handlers = {h1, h2}
  Instances = {"shared", "private"}
  Graces = {"timed", "zero"}
  Operations = {"rotate", "revoke"}
  Readers = {}
  Faults = TRUE
  LockedFiles = TRUE
  Patient = FALSE
  LongGrace = FALSE
  NoKey = NoKey
  None = None
SYMMETRY Symmetry
SPECIFICATION Spec
INVARIANT TypeOK
INVARIANT RevokedStaysInactive
CHECK_DEADLOCK FALSE
