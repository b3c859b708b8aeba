CONSTANTS
  ResTypes = {"User", "Group"}
  Attrs <- MCAttrsDt
  Vals <- MCValsCase
  Rids = {r1, r2, r3}
  Lower <- MCLower
  CountKeyClash <- MCCountKeyClash
  Schema <- MCSchemaDt
  MultiValued <- MCMultiValued
  CaseExact <- MCCaseExact
  DateTimeAts <- MCDateTimeAts
  UniqueAts <- MCUniqueAts
  IndexFields <- MCIndexFields
  NoRef = NoRef
  NoRes = NoRes
  NoRid = NoRid
  MaxMembers = 1
  CommitMayFail = FALSE
  Configs <- MCConfigsDt
SYMMETRY MCSymmetry
SPECIFICATION Spec
INVARIANTS
  AckedIsDurable
