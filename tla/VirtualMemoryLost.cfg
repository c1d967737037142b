CONSTANTS
  CodePages = 1
  InitPages = 1
  UninitPages = 1
  StackPages = 2
  EveryUserFrame = 3
  NumSlots = 3
  Value = {0, 1}
  Zero = 0
  Image <- MCImage
  Writable <- SwapPages
SPECIFICATION Spec
INVARIANT ReadsLastWrite
