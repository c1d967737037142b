CONSTANTS
  ByteBits = 2
  GPRegs = {0, 1, 2, 3, 31}
  JumpSpan = 64
  MemorySize = 8
  Programs <- MCPrograms
  Values <- MCValues
  Initially <- MCInitially
SPECIFICATION Spec
INVARIANT SimulatorsAgree
PROPERTY MultipliesExactly
CHECK_DEADLOCK FALSE
