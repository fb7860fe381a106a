CONSTANTS
  ByteBits = 2
  ShortBits = 3
  IntBits = 4
  LongBits = 8
  FMax = 4
  Strings = {1}
  Garbage <- MCGarbage
  Method <- MCMethod
  Prog <- MCProg
  Calls <- MCCalls
  MaxFrames = 2
SPECIFICATION AluSpec
PROPERTIES
  IntegerArithmetic
  Shifts
  Comparisons
  NumericConversions
CHECK_DEADLOCK FALSE
