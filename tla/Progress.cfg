SPECIFICATION PartSpec
CONSTANTS
  Waves = {w1, w2, w3}
  Others = {}
  Callers = {c1, c2}
  BackoffBase = 1
  BackoffMax = 4
  MinWait = 1
  Resets <- MCResets
  Unknown = Unknown
  Publishers = {b1, b2}
  Subs = {s1, s2}
  Closers = {x1}
  BufSize = 1
  Kinds = {"feedback", "report", "convergence"}
  MaxMails = 3
  Procs = {p1, p2}
  Names = {n1}
  Payloads = {d1}
  NoProc = NoProc
  NoName = NoName
  MaxRetry = 2
  None = None
INVARIANTS NobodyOversleeps NobodySendsOnClosed SearchIsRight
PROPERTY EveryCallReturns
CHECK_DEADLOCK FALSE
