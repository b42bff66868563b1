SPECIFICATION FairSpec
CONSTANTS
  Names = {c1, c2, u}
  Convergence = {c1, c2}
  Unwanted = {u}
  Prefixes = {"torn", "cut"}
  PartialWrites = FALSE
  MaxRedrain = 2
  MaxDeliveries = 2
INVARIANTS TypeOK ReceivedOnce NothingOverlooked
PROPERTIES NothingDestroyed EverythingIsAsked EveryMailArrives
