SPECIFICATION GovernanceSpec
CONSTANTS
  db = db
  sc = sc
  d = d
  tb = tb
  tag = tag
  u = u
  ro = ro
  f = f
  Resource = {db, sc, tb}
  Datasource = {d}
  Tag = {tag}
  User = {u}
  Role = {ro}
  DatasourceOf <- MCDatasourceOf
  Parent <- MCParent
  Kind <- MCKind
  NoParent = NoParent
  Everyone = Everyone
  Global = Global
  RowId = {1, 2}
  Field = {f}
  Admin = {a1, a2}
  Idle = Idle
  PolicyRows <- MCPolicyRows
  FieldPolicyRows <- MCColumnRows
  MaskRows <- MCMaskRows
  Seeds <- MCSeeds
  MaxEdits = 2
SYMMETRY AdminSymmetry
INVARIANTS BatchMatchesSingle DecryptImpliesRead
PROPERTIES DenyNeverGrants RevokingAllowNeverGrants SpecificRuleShields ColumnsOpenForCause
CHECK_DEADLOCK FALSE
