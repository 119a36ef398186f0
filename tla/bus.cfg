SPECIFICATION FairSpec
CONSTANTS
  D1 = D1
  P1 = P1
  H1 = H1
  S1 = S1
  Adapter = Adapter
  Null = Null
  Devices = {D1}
  PoolOps = {P1}
  HeapOps = {H1}
  StaticOps = {S1}
  Owner <- MCOwner
  MaxQDepth = 1
  LastAddr = 2
INVARIANT TypeOK
INVARIANT Placed
INVARIANT StateFits
INVARIANT FaultsAreOwn
PROPERTY JobContract
PROPERTY CalledBack
PROPERTY CensusEnds
