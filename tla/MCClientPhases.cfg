SPECIFICATION FairSpec
CONSTANTS
  Users = {ann, bob}
  Known = {ann}
  Canvases = {}
  MaxProjects = 2
  DbFaults = {"outage"}
  ListMax = 1
  MaxLines = 1
  MaxTries = 3
  MaxUnderWay = 2
INVARIANTS PhasesAgree NamesAgree StrokesAtStart TextsAtStart
PROPERTIES ChatKept AnswerShown ChatShown CreatedRoomListed
CHECK_DEADLOCK FALSE
