CONSTANTS
  ByteBits = 2
  NBytes = 3
SPECIFICATION Spec
INVARIANTS
  CodecRoundTrip
  CodecOrder
