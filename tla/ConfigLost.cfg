SPECIFICATION Spec
CONSTANTS
  Procs = {p1, p2}
  Keys = {"strictness.default", "lang"}
  Strictness = "strictness.default"
  Values = {1, 2}
  Default = 1
INVARIANT PersistedIsKept
