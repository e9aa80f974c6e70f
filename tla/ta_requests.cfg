CONSTANTS
  Slugs = {s1}
  IDs = {i1, i2}
  DSNs = {d1}
  Fields = {nofields}
  NoFields = nofields
  Rest = {r1}
  Conns = {c1, c2}
  Handlers = {h1, h2}
  Operations = {"settings", "put", "delete"}
  ByID = FALSE
  NoTenant = NoTenant
  NoDB = NoDB
  NoConn = NoConn
  NoTDA = NoTDA
  None = None

SPECIFICATION FairSpec
INVARIANT TypeOK
INVARIANT NoConnLeaks
PROPERTY Answered
