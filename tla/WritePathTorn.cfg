SPECIFICATION Spec
CONSTANTS
  p1 = p1
  p2 = p2
  a = a
  b = b
  Procs = {p1, p2}
  Clusters = {a, b}
  Slugs = {"a", "b"}
  SlugOf <- DistinctSlugs
  Versions = {1}
  ScanInputs <- MCScanInputs
  DesignInputs = {a}
  Days = {1, 2}
  DayOf <- MCDayOf
  MaxEvents = 2
  ShortWrites = TRUE
SYMMETRY Symmetry
INVARIANT AckedIsLoaded
