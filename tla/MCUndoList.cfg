SPECIFICATION FairSpec
CONSTANTS
  Nodes = {n1, n2, n3, n4}
  Cmds = {a, b}
  Limits = {0, 3}
  DefaultSteps = 3
  PointsMayFail = TRUE
  MaxItems = 4
  Null = Null
  Junk = Junk
  Malformed = Malformed
INVARIANTS ListInv WalkedIsVisible LoadsNewest
PROPERTIES ImplementsUndoLog CallsShrink CallsReturn
