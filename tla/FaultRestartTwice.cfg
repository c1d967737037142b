CONSTANTS
  NumWords = 6
  WordsPerPage = 2
  DataPage = {3, 4}
  NoPage = 99
  EveryUserFrame = 3
SPECIFICATION Spec
INVARIANT ExecutedOnce
CHECK_DEADLOCK FALSE
