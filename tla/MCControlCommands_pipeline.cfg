SPECIFICATION FairSpec
CONSTANTS
  r1 = r1
  r2 = r2
  r3 = r3
  r4 = r4
  k = k
  NoKey = NoKey
  None = None
  Requests = {r1, r2, r3}
  Workers = {w1, w2}
  Kind <- MCKind
  Idem <- MCIdem
  BatchSize = 2
INVARIANTS TypeOK OneRowPerKey AcceptedHasCommand StatusTruthful
PROPERTIES ImplementsLifecycle QueuedIsClaimed
