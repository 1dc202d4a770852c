SPECIFICATION Spec
CONSTANTS
  s1 = s1  s2 = s2  s3 = s3
  h1 = h1  h2 = h2
  Sectors <- TwoSectors
  Headers <- OneHeader
  Torn = Torn
  NoMagic = NoMagic
  MaxNum = 2
  CacheSize = 2
  Faults = TRUE
SYMMETRY SymmetricTwo
INVARIANT JournalFits
PROPERTIES LogBeforeIndex
