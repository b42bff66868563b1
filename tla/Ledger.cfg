SPECIFICATION Spec
CONSTANTS
  Runners = {r1, r2}
  Server = server
  Callers = 1
  MaxEvents = 3
INVARIANTS UniqueSeqNr CauseIsEarlier AckedChainIsLinear RecoveryIsExact
SYMMETRY Symmetry
