CONSTANTS
  ResTypes = {"User", "Group"}
  Attrs <- MCAttrsDt
  Vals <- MCValsCase
  Rids = {r1, r2, r3}
  Lower <- MCLower
  CountKeyClash <- MCCountKeyClash
  Schema <- MCSchemaDt
  MultiValued <- MCMultiValued
  CaseExact <- MCCaseExact
  DateTimeAts <- MCDateTimeAts
  UniqueAts <- MCUniqueAts
  IndexFields <- MCIndexFieldsDt
  NoRef = NoRef
  NoRes = NoRes
  NoRid = NoRid
  MaxMembers = 0
  CommitMayFail = FALSE
  Configs <- MCConfigsChangedDt
SYMMETRY MCSymmetry
SPECIFICATION Spec
INVARIANT
  UniqueValues
