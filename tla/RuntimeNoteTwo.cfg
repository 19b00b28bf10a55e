\* Two sleepers on one note.
CONSTANTS
  Sleepers = {s1, s2}
  Wakers = {w1}
  Half = 4
  MaxTokens = 2
  MaxSurplus = 2
SPECIFICATION NoteFairSpec
PROPERTIES
  AllSleepersReturn
CHECK_DEADLOCK FALSE
