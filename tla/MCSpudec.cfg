SPECIFICATION Spec
CONSTANTS
  Scripts <- MCScripts
  Borders <- MCBorders
  Froms = {0, 5}
  Wants = {0, 2}
  Gap = 10
  Garbage = {5, 12, 21, 30}
  MaxLost = 1
INVARIANTS PictureRight Resynchronised EveryTitle
CHECK_DEADLOCK FALSE
