SPECIFICATION Spec
CONSTANTS
  Null = Null
  A = A
  B = B
  C = C
  d1 = d1
  d2 = d2
  Name = {A, B}
  Klass = {k1, k2, k3}
  Addr = {l1, l2}
  Dir = {d1}
  Files <- FreeFiles
  Disks <- FreeDisks
  Classpaths <- OnePath
  MaxDepth = 2
SYMMETRY AddrSymmetry
PROPERTIES CacheBrokenByResetOrReuse
CHECK_DEADLOCK FALSE
