CONSTANTS
  Slugs = {s1}
  Clients = {c1, c2}
  Scopes = {n1, n2}
  Claims = {}
  n1 = n1
  Items <- MCItems
  Handlers = {h1}
  Updates = {"clients", "scopes"}
  Faults = FALSE
  NoItem = NoItem
  None = None
SYMMETRY Symmetry
SPECIFICATION Spec
INVARIANT NoSelfWait
