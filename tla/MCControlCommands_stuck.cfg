SPECIFICATION FairSpec
CONSTANTS
  r1 = r1
  r2 = r2
  r3 = r3
  r4 = r4
  k = k
  NoKey = NoKey
  None = None
  Requests = {r3, r4}
  Workers = {w1}
  Kind <- MCKind
  Idem <- MCIdem
  BatchSize = 2
PROPERTIES ClaimedTerminates
