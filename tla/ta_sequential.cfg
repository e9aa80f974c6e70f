CONSTANTS
  Slugs = {s1, s2}
  IDs = {i1, i2}
  DSNs = {d1, d2}
  Fields = {nofields, f1}
  NoFields = nofields
  Rest = {r1, r2}
  Conns = {c1, c2, c3}
  Handlers = {h1}
  Operations = {"settings", "import"}
  ByID = TRUE
  NoTenant = NoTenant
  NoDB = NoDB
  NoConn = NoConn
  NoTDA = NoTDA
  None = None
SYMMETRY Symmetry
SPECIFICATION Spec
INVARIANT SlugEntryCurrent
INVARIANT SlugEntryUsable
