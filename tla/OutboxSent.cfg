SPECIFICATION Spec
CONSTANTS
  Procs = {p1, p2}
  Names = {n1, n2}
  Payloads = {d1}
  None = None
  NoProc = NoProc
  NoName = NoName
  MaxRetry = 3
PROPERTY SentMeansDelivered
