CONSTANTS
  ResTypes = {"User", "Group"}
  Attrs <- MCAttrs
  Vals <- MCVals
  Rids = {r1, r2, r3}
  Lower <- MCLower
  CountKeyClash <- MCCountKeyClash
  Schema <- MCSchema
  MultiValued <- MCMultiValued
  CaseExact <- MCCaseExact
  DateTimeAts = {}
  UniqueAts <- MCUniqueAts
  IndexFields <- MCIndexFieldsGroupName
  NoRef = NoRef
  NoRes = NoRes
  NoRid = NoRid
  MaxMembers = 1
  CommitMayFail = TRUE
  Configs <- MCConfigsGroupName
SYMMETRY MCSymmetry
SPECIFICATION Spec
INVARIANTS
  SearchComplete
