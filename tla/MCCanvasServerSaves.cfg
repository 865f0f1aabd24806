SPECIFICATION FairSpec
CONSTANTS
  u1 = u1
  Users = {u1}
  Canvases = {"c"}
  MaxProjects = 1
  DbFaults = {"outage"}
  MaxClients = 1
  Fds = {f1, f2}
  Listen = Listen
  NoFd = NoFd
  Strokes = {"s"}
  Requests <- SaveRequests
  MaxPending = 1
  MaxIn = 1
  SendCap = 1
INVARIANT ConfirmedIsStored
PROPERTIES OnlyMembersSave EveryoneServed KeepsTheService
