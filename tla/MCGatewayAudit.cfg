SPECIFICATION Spec
CONSTANTS
  sc = sc
  ta = ta
  tb = tb
  d = d
  tag = tag
  u = u
  ro = ro
  f = f
  F = F
  q = q
  old = old
  Resource = {sc, ta, tb}
  Datasource = {d}
  Tag = {tag}
  User = {u}
  Role = {ro}
  DatasourceOf <- MCDatasourceOf
  Parent <- MCParent
  Kind <- MCKind
  NoParent = NoParent
  Everyone = Everyone
  Global = Global
  RowId = {1}
  Field = {f}
  Spelling = {f, F}
  ColumnOf <- MCColumnOf
  Admin = {a}
  Idle = Idle
  PolicyRows = {}
  FieldPolicyRows = {}
  MaskRows <- MCMaskRows
  Seeds <- QuerySeeds
  MaxEdits = 1
  Request = {q}
  ContextId = {q, old}
  Calls <- QueryCalls
  SeedContexts <- MCSeedContexts
  StrictValidation = FALSE
  MayCrash = FALSE
  ContextTtl = 1
  MaxClock = 0
INVARIANT EveryExecutionAudited
CHECK_DEADLOCK FALSE
