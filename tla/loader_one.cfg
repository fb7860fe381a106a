SPECIFICATION ResolutionSpec
CONSTANTS
  Null = Null
  A = A
  B = B
  C = C
  d1 = d1
  d2 = d2
  m = m
  g = g
  Member = {m, g}
  Name = {A, B, C}
  Klass = {k1, k2, k3, k4}
  Addr = {l1}
  Dir = {d1}
  Files <- FixtureFiles
  Disks <- FixtureDisks
  Classpaths <- OnePath
  MaxDepth = 3
  Bodies <- PoolBodies
SYMMETRY KlassSymmetry
INVARIANTS
  TypeOK CacheSound LinksSound NoLeak NoStackOverflow
  PoolTypeOK MembersAsDeclared ReferenceHolds
PROPERTIES
  CacheStable ReturnsCached EntriesChangeOnce EndsAsCached
\* A load that meets undefined behaviour is the end of the run.
CHECK_DEADLOCK FALSE
