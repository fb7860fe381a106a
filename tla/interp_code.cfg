CONSTANTS
  ByteBits = 8
  ShortBits = 16
  IntBits = 18
  LongBits = 20
  FMax = 8
  Strings = {1}
  Garbage <- MCGarbage
  Method <- MCMethod
  Prog <- MCProg
  Calls <- MCCalls
  MaxFrames = 12
  Compiled <- MCCompiled
  StackMap <- MCStackMap
  Parameters <- MCParameters
  ReturnKind <- MCReturnKind
  Expected <- MCExpected
SPECIFICATION VFairSpec
INVARIANTS
  TypeOK
  CallChain
  FollowsStackMap
  ReturnsWhatSourceComputes
  ReadsAsWritten
  ReturnsAsDeclared
PROPERTIES
  ComesBack
CHECK_DEADLOCK FALSE
