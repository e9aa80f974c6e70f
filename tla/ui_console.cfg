CONSTANTS
  Items = {i1, i2}
  Areas = {"tokens", "users", "sessions", "consents", "roles", "assignments", "scopes", "claims", "clients", "tenants", "keys", "cluster"}
  MaxEvents <- MCMaxEvents
  Uris = {u1}
  NoItem = NoItem
  NoData = NoData
  Asked = Asked
  Nowhere = Nowhere

SPECIFICATION Spec
INVARIANT TypeOK
INVARIANT ReadYourWrites
INVARIANT WizardFits
INVARIANT SetupComplete
PROPERTY SuccessMeansDone
CHECK_DEADLOCK FALSE
