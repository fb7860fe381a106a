CONSTANTS
  ByteBits = 8
  ShortBits = 16
  IntBits = 18
  LongBits = 20
  FMax = 8
  Strings = {1}
  Garbage <- MCGarbage
  Method <- MCMethod
  Prog <- MCProg
  Calls <- PushingCalls
  MaxFrames = 4
  Compiled <- MCMethod
  StackMap <- MCStackMap
  Parameters <- MCParameters
  ReturnKind <- MCReturnKind
  Expected <- MCExpected
SPECIFICATION VSpec
INVARIANT ReturnsWhatSourceComputes
CHECK_DEADLOCK FALSE
