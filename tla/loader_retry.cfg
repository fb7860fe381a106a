SPECIFICATION FixtureSpec
CONSTANTS
  Null = Null
  A = A
  B = B
  C = C
  d1 = d1
  d2 = d2
  Name = {A, B}
  Klass = {k1, k2, k3}
  Addr = {l1}
  Dir = {d1}
  Files <- AllFiles
  Disks <- AllDisks
  Classpaths <- OnePath
  MaxDepth = 2
INVARIANT DefinedIsRegistered
\* A load that meets undefined behaviour is the end of the run.
CHECK_DEADLOCK FALSE
