SPECIFICATION Spec
CONSTANTS
  Characters = {"A", "a", "w", "ee", " ", ","}
  MaxTail = 3
  LineWindow = 3
  Margin = 1
  Cap = 2
  MaxValue = 2
  LongTail = 2
  NameTail = 1
CHECK_DEADLOCK FALSE
INVARIANT StopWordsAreWords
