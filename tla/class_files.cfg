SPECIFICATION ClassSpec
CONSTANTS
  Classes <- ValidClasses
  Truncated <- PlainClasses
  Inputs <- BadFiles
  U2Range <- U2Bound
  ConstantValueName <- NameCV
  ExceptionsName <- NameEx
  CodeName <- NameCo
  BootstrapMethodsName <- NameBM
INVARIANTS
  TypeOK NestingIsPaid RoundTrip AcceptsWholeFilesOnly
  ValidClassPrepares PoolAsWritten MethodsAsWritten
  NoNullConstant FieldLayout
PROPERTY DefinitionEnds
\* A file that is prepared or rejected ends.
CHECK_DEADLOCK FALSE
