CONSTANTS
  ResTypes = {"User", "Group"}
  Attrs <- MCAttrs
  Vals <- MCValsCase
  Rids = {r1, r2, r3}
  Lower <- MCLower
  CountKeyClash <- MCCountKeyClash
  Schema <- MCSchema
  MultiValued <- MCMultiValued
  CaseExact <- MCCaseExact
  DateTimeAts = {}
  UniqueAts <- MCUniqueAts
  IndexFields <- MCIndexFields
  NoRef = NoRef
  NoRes = NoRes
  NoRid = NoRid
  MaxMembers = 1
  CommitMayFail = TRUE
  Configs <- MCConfigsSame
SPECIFICATION Spec
PROPERTY
  AbstractSpec
