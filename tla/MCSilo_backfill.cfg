CONSTANTS
  ResTypes = {"User", "Group"}
  Attrs <- MCAttrs
  Vals <- MCVals
  Rids = {r1, r2, r3}
  Lower <- MCLower
  CountKeyClash <- MCCountKeyClash
  Schema <- MCSchema
  MultiValued <- MCMultiValued
  CaseExact <- MCCaseExact
  DateTimeAts = {}
  UniqueAts <- MCUniqueAts
  IndexFields <- MCIndexFields
  NoRef = NoRef
  NoRes = NoRes
  NoRid = NoRid
  MaxMembers = 1
  CommitMayFail = TRUE
  Configs <- MCConfigsChanged
SYMMETRY MCSymmetry
SPECIFICATION Spec
INVARIANT
  SearchComplete
