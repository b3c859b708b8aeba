CONSTANTS
  AttrNames = {"role"}
  Chars = {"x", ","}
  Delim = ","
  MaxLen = 2
  NoVal = NoVal
SPECIFICATION Spec
INVARIANT
  StaticValueSent
