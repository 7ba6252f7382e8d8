CONSTANTS
  c1 = c1  c2 = c2
  Calls = {c1, c2}
  Asks <- Two
SPECIFICATION Spec
INVARIANT TypeOK
INVARIANT HandledAtMostOnce
INVARIANT RenewedUnlessRevoked
PROPERTY EveryCallEnds
