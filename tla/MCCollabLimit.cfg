CONSTANTS
  Clients = {c1}
  Rooms = {r1}
  Limit = 1
  Features = {"save"}
  MaxDraws = 2
  MaxChannel = 2
SPECIFICATION Spec
PROPERTY SavesWhatIsShown
