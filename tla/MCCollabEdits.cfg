CONSTANTS
  Clients = {c1, c2}
  Rooms = {r1}
  Limit = 2
  Features = {"undo", "clear", "quit"}
  MaxDraws = 2
  MaxChannel = 2
SYMMETRY Symmetry
SPECIFICATION Spec
INVARIANT InStep
INVARIANT ScreenShowsHistory
