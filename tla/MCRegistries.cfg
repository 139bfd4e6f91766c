SPECIFICATION MCSpec
CONSTANTS
  Machines = {"nurbs", "facade", "toggles"}
  Hosts = {t1, t2}
  Payloads = {p1, p2}
  Garbage = Garbage
  Ops = {"create", "nsided_fill", "vertex_blend", "step_read"}
  MaxPatches = 2
  MaxHandles = 3
  Threads = {t1, t2}
  Workers = {w1}
  Addrs = {a1, a2, a3}
  Null = Null
  MaxIds = 3
  Callers = {t1, t2}
  Metal = TRUE
  MaxEngines = 3
SYMMETRY RegistrySymmetry
INVARIANTS
  TypeOK
  GivenHandlesStayValid
  LiveHandlesHaveOneOwner
  ReadBackIsOnePayload
  ReadsItsOwnKind
  ProvenanceExact
  OwnedOrFree
  TogglesInv
PROPERTY QuietSwitchKeepsToggles
