SPECIFICATION Spec
CONSTANTS
  u1 = u1
  Users = {u1}
  Canvases = {"c"}
  MaxProjects = 1
  DbFaults = {"boot"}
  MaxClients = 1
  Fds = {f1}
  Listen = Listen
  NoFd = NoFd
  Strokes = {"s"}
  Requests <- SessionRequests
  MaxPending = 1
  MaxIn = 1
  SendCap = 1
INVARIANT SurvivesWithoutDb
