SPECIFICATION Spec
CONSTANTS
  u1 = u1
  Users = {u1}
  Canvases = {"c"}
  MaxProjects = 1
  DbFaults = {}
  MaxClients = 2
  Fds = {f1, f2}
  Listen = Listen
  NoFd = NoFd
  Strokes = {"s"}
  Requests <- SessionRequests
  MaxPending = 1
  MaxIn = 1
  SendCap = 1
SYMMETRY FdSymmetry
INVARIANT ServerInv
PROPERTIES HearsOnlyItsRoom KeepsTheService
