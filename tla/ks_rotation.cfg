CONSTANTS
  Tenants = {t1}
  Global = global
  Keyed = {global, t1}
  Kids = {k1, k2, k3, k4}
  Handlers = {h1}
  Instances = {"shared", "private"}
  Graces = {"timed"}
  Operations = {"rotate", "revoke"}
  Readers = {global}
  Faults = TRUE
  LockedFiles = FALSE
  Patient = TRUE
  LongGrace = TRUE
  NoKey = NoKey
  None = None
SYMMETRY Symmetry
SPECIFICATION Spec
INVARIANT KeptForGrace
INVARIANT SignerPublished
PROPERTY OnlyRevokedDisappear
PROPERTY RotationIsAtomic
CHECK_DEADLOCK FALSE
