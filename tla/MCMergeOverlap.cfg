CONSTANTS
  b1 = b1
  b2 = b2
  b3 = b3
  x = x
  y = y
  Line <- MCLine
  Base <- MCBase
  Text <- MCText
  Script <- MCScript
SPECIFICATION MergeSpec
INVARIANT OverlapsMarked
