SPECIFICATION Spec
CONSTANTS
  Names = {f}
  Convergence = {}
  Unwanted = {}
  Prefixes = {"torn", "cut"}
  PartialWrites = TRUE
  MaxRedrain = 3
  MaxDeliveries = 2
PROPERTIES NothingDestroyed
