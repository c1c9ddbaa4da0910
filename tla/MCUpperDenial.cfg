SPECIFICATION GovernanceSpec
CONSTANTS
  db = db
  sc = sc
  d = d
  tb = tb
  tag = tag
  u = u
  ro = ro
  f = f
  Resource = {db, sc, tb}
  Datasource = {d}
  Tag = {tag}
  User = {u}
  Role = {ro}
  DatasourceOf <- MCDatasourceOf
  Parent <- MCParent
  Kind <- MCKind
  NoParent = NoParent
  Everyone = Everyone
  Global = Global
  RowId = {1, 2}
  Field = {}
  Admin = {a1, a2}
  Idle = Idle
  PolicyRows <- MCPolicyRows
  FieldPolicyRows = {}
  MaskRows = {}
  Seeds <- BareSeeds
  MaxEdits = 2
INVARIANT UpperDenialHolds
CHECK_DEADLOCK FALSE
