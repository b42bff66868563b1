SPECIFICATION Spec
CONSTANTS
  Omitted = Omitted
  Plans <- MCPlans
  Rescans <- MCRescans
  FollowUps <- MCFollowUps
  Modifications <- MCModifications
  Clusters = {"A", "B"}
  Ids = {1, 2, 3, 4, 5}
  Issues = {"i1", "i2", "i3"}
  MaxWavesPerCluster = 3
  MaxFaults = 2
  MaxChanges = 1
INVARIANTS AvailableIsJustified ResumeRestores
PROPERTIES WorkIsKept ResumeUnsticks SpecOnce
