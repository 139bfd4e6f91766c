\* Safety of the pool: two workers, two hosts, two operations, shutdown at any time.
SPECIFICATION SafeSpec
CONSTANTS
  Workers = {w1, w2}
  Hosts = {h1, h2}
  Ops = {o1, o2}
  Nobody = Nobody
  Fractions <- MCFractions
  Full = 2
  MaxReports = 1
SYMMETRY PoolSymmetry
INVARIANTS TypeOK CancelInTimeDiscards HeldExactlyOnce JoinedMeansDrained
