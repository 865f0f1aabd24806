CONSTANTS
  Clients = {c1, c2}
  Rooms = {r1, r2}
  Limit = 1
  Features = {"save", "file", "outage", "again"}
  MaxDraws = 2
  MaxChannel = 2
SYMMETRY Symmetry
SPECIFICATION Spec
INVARIANT RoomInv
INVARIANT InStep
INVARIANT ScreenShowsHistory
