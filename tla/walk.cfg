CONSTANTS
  s = s
  a = a
  b = b
  c = c
  plain = plain
  other = other
  one = one
  two = two
  Objects <- MCObjects
  Subject = s
  Plain = plain
  Stated <- MCStated
  Spellings <- OneSpelling
  Rule <- MCRule
  Selector <- Apart
  Labelled <- MCLabelled
  Children <- MCChildren
  Bounds <- MCBounds
  Silent = FALSE
SPECIFICATION Spec
CHECK_DEADLOCK FALSE
INVARIANTS
  NothingIsMissedUntold
  ReportsAreFindings
