\* Stops and restarts around createDefaultResources; the process may end
\* for good when NewProvider returns an error, and once up it has no
\* further step here, so deadlock is not checked.
CONSTANTS
  ResTypes = {"User", "Group"}
  Attrs <- MCAttrs
  Vals <- MCVals
  Rids = {r1, r2, r3, r4, r5}
  Lower <- MCLower
  CountKeyClash = {}
  Schema <- MCSchema
  MultiValued <- MCMultiValued
  CaseExact <- MCCaseExact
  DateTimeAts = {}
  UniqueAts <- MCUniqueAts
  IndexFields <- MCIndexFields
  NoRef = NoRef
  NoRes = NoRes
  NoRid = NoRid
  MaxMembers = 0
  CommitMayFail = FALSE
  Configs <- MCConfigs
  AdminName = "admin"
  AdminEmail = "admin@d"
  AdminGroupName = "Administrators"
  MaxRestarts = 3
SPECIFICATION ProviderSpec
CHECK_DEADLOCK FALSE
PROPERTY
  StartLeadsToUp
