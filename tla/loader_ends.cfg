SPECIFICATION ResolutionSpec
CONSTANTS
  Null = Null
  A = A
  B = B
  C = C
  d1 = d1
  d2 = d2
  m = m
  g = g
  Member = {m, g}
  Name = {A, B, C}
  Klass = {k1, k2, k3}
  Addr = {l1}
  Dir = {d1}
  Files <- GoodFiles
  Disks <- GoodDisks
  Classpaths <- OnePath
  MaxDepth = 3
  Bodies <- EndBodies
INVARIANTS DefinedIsRegistered RegisteredIsCached
PROPERTIES LoadEnds ResolutionEnds
