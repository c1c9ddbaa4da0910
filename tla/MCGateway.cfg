SPECIFICATION Spec
CONSTANTS
  sc = sc
  ta = ta
  tb = tb
  d = d
  tag = tag
  u = u
  ro = ro
  f = f
  F = F
  q = q
  old = old
  Resource = {sc, ta, tb}
  Datasource = {d}
  Tag = {tag}
  User = {u}
  Role = {ro}
  DatasourceOf <- MCDatasourceOf
  Parent <- MCParent
  Kind <- MCKind
  NoParent = NoParent
  Everyone = Everyone
  Global = Global
  RowId = {1}
  Field = {f}
  Spelling = {f, F}
  ColumnOf <- MCColumnOf
  Admin = {}
  Idle = Idle
  PolicyRows <- MCPolicyRows
  FieldPolicyRows <- MCFieldPolicyRows
  MaskRows <- MCMaskRows
  Seeds <- MCSeeds
  MaxEdits = 1
  Request = {q}
  ContextId = {q, old}
  Calls <- MCCalls
  SeedContexts <- MCSeedContexts
  StrictValidation = FALSE
  MayCrash = TRUE
  ContextTtl = 1
  MaxClock = 1
INVARIANTS ServedOnlyWithGrant StandingDenyHolds StandingDisableHolds
  StandingFieldRuleHolds StandingMaskHolds RepliesAreOnRecord QuietQueriesAreExact
PROPERTY DecryptedInTime
CHECK_DEADLOCK FALSE
