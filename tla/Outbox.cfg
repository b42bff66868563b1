SPECIFICATION Spec
CONSTANTS
  Procs = {p1, p2}
  Names = {n1, n2}
  Payloads = {d1, d2}
  None = None
  NoProc = NoProc
  NoName = NoName
  MaxRetry = 3
SYMMETRY Symmetry
INVARIANT FlushedIsDelivered
PROPERTIES ArchiveFirst NeverStale NoSilentLoss ImplementsPromise
