SPECIFICATION MCSpec
CONSTANTS
  Hosts = {h1}
  cpu = cpu
  metal = metal
  metal2 = metal2
  Cpu = cpu
  None = None
  Backends = {cpu, metal, metal2}
  NameOf <- MCNameOf
  Exact = {cpu}
  Threads = 3
  MaxCount = 5
  HostThreads = {t1, t2}
  PoolWorkers = {w1}
  Blocks = {a1, a2}
  Null = Null
  MaxIds = 2
INVARIANTS TypeOK ExactWorkStaysExact EachIndexOnce
PROPERTIES JobsEnd ReleasedBodiesAreReclaimed
  EveryOperationSettles EveryWaitReturns ShutdownReturns KeepsTheContract
