SPECIFICATION ClassSpec
CONSTANTS
  Classes <- FieldClasses
  Truncated <- None
  Inputs <- None
  U2Range = 65536
  ConstantValueName <- NameCV
  ExceptionsName <- NameEx
  CodeName <- NameCo
  BootstrapMethodsName <- NameBM
INVARIANT StaticsHaveRoom
\* A file that is prepared or rejected ends.
CHECK_DEADLOCK FALSE
