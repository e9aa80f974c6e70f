CONSTANTS
  Tabs = {a}
  Pages = {"settings", "mailing", "database", "fields", "providers"}
  Editable = {"name", "branding", "security", "social", "issuer", "smtp", "templates", "db", "cache", "fields", "google"}
  Elsewhere = {"branding"}
  Values = {0, 1}
  Empty = 0
  On = 1
  MaxOpens = 2
  MaxEdits = 1
  MaxSaves = 2
  MaxServing = 1
  NoPage = NoPage
  NoData = NoData

SPECIFICATION Spec
INVARIANT TypeOK
INVARIANT ReadYourSave
PROPERTY NoForeignOverwrite
CHECK_DEADLOCK FALSE
