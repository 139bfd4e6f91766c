SPECIFICATION MCSpec
CONSTANTS
  Machines = {"nurbs"}
  Hosts = {t1, t2}
  Payloads = {p1}
  Garbage = Garbage
  Ops = {"create", "offset"}
  MaxPatches = 2
  MaxHandles = 3
  Threads = {t1, t2}
  Workers = {w1}
  Addrs = {a1, a2, a3}
  Null = Null
  MaxIds = 3
  Callers = {t1, t2}
  Metal = TRUE
  MaxEngines = 3
INVARIANT PointersLive
