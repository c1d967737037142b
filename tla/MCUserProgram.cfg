CONSTANTS
  CodePages = 1
  InitPages = 1
  UninitPages = 1
  StackPages = 2
  EveryUserFrame = 3
  NumSlots = 2
  Value = {0, 1}
  Zero = 0
  Image <- MCImage
  Writable <- SwapPages
  NULL = NULL
  Images <- MCImages
  HeaderSize = 3
  StackSize = 4
  PageSize = 4
  CodeSizes <- MCCodeSizes
  InitSizes <- MCDataSizes
  UninitSizes <- MCDataSizes
  NumWords = 6
  WordsPerPage = 2
  DataPage = {3, 4}
  NoPage = 99
SPECIFICATION UserProgramSpec
INVARIANTS
  PagingInv
  ExecutableIntact
  LoadersAgree
  FaultReadsRightPage
  RestartInv
CHECK_DEADLOCK FALSE
