CONSTANTS
  ResTypes = {"User", "Group"}
  Attrs <- MCAttrs
  Vals <- MCVals
  Rids = {r1, r2, r3}
  Lower <- MCLower
  CountKeyClash <- MCCountKeyClash
  Schema <- MCSchema
  MultiValued <- MCMultiValued
  CaseExact <- MCCaseExact
  DateTimeAts = {}
  UniqueAts <- MCUniqueAts
  IndexFields <- MCIndexFields
  NoRef = NoRef
  NoRes = NoRes
  NoRid = NoRid
  MaxMembers = 0
  CommitMayFail = TRUE
  Configs <- MCConfigsSame
SYMMETRY MCSymmetry
SPECIFICATION Spec
INVARIANTS
  TypeOK
  UniqueValues
  IndexConsistent
  SearchComplete
