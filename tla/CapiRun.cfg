\* Sign, register and validate: paths of up to three tokens, keys missing.
SPECIFICATION CapiSpec
CONSTANTS
  s1 = s1  s2 = s2  s3 = s3  s4 = s4  p1 = p1  p2 = p2
  Lines <- SomeLines
  FakeSki = fake
  FakeLen = 72
  SignBit = 8
  PCountMod = 4
  Confs <- SomeConfs
  Updates <- SomeUpdates
  MaxKeys = 4
INVARIANTS
  PathSpelled
  ValidIffGenuine
  LengthsMatch
  KeysInOrder
