\* The documented cancellation rule, against a request between the stop check and the publication.
SPECIFICATION SafeSpec
CONSTANTS
  Workers = {w1}
  Hosts = {h1}
  Ops = {o1}
  Nobody = Nobody
  Fractions <- MCOneFraction
  Full = 1
  MaxReports = 0
INVARIANT CallerNeverSeesCancelledResult
