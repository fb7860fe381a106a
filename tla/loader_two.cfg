SPECIFICATION ResolutionSpec
CONSTANTS
  Null = Null
  A = A
  B = B
  C = C
  d1 = d1
  d2 = d2
  m = m
  g = g
  Member = {m, g}
  Name = {A, B}
  Klass = {k1, k2, k3, k4}
  Addr = {l1, l2}
  Dir = {d1, d2}
  Files <- DirFiles
  Disks <- DirDisks
  Classpaths <- TwoPaths
  MaxDepth = 2
  Bodies <- FewBodies
SYMMETRY AddrSymmetry
INVARIANTS ClassesAsNamed
PROPERTIES ImplementsClassTable
\* A load that meets undefined behaviour is the end of the run.
CHECK_DEADLOCK FALSE
