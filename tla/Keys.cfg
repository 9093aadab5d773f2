SPECIFICATION FairSpec
CONSTANTS
  Pins = {p1, p2}
  ShortPin = ShortPin
  Salts = {s1, s2, s3, s4, s5}
  Ids = {i1, i2, i3, i4}
  None = None
  Zeros = Zeros
  Torn = Torn
  MaxFaults = 2
  MaxCleans = 2
INVARIANTS AccountKept KeysGone
PROPERTIES ComesUp
