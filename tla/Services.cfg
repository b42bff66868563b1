SPECIFICATION PartSpec
CONSTANTS
  p1 = p1
  p2 = p2
  Procs = {p1, p2}
  Keys = {k1}
  GuardID <- MCGuardID
  TTL = 3
  MaxClock = 7
  None = None
  Waves = {w1, w2}
  Errors = {e1, e2}
  Threshold = 2
  Window = 1
  MaxFailures = 3
  MaxUnsent = 1
  Specifications <- MCSpecifications
  Contents <- MCContents
  Pruners = {q1, q2}
  Mails = {m1, m2}
  Days = {}
  Writers = {i1, i2}
  Titles = {t1, t2, t3}
  ToolIDs = {tool1}
  AgentIDs = {agent1}
  HookIDs = {hook1}
  MaxStream = 4
  ScanFiles = {f1, f2}
  MaxLines = 2
  Options = {lang, team}
  Defaulted = {lang}
  Flagged = {lang}
  Values = {"default", "other"}
  Default = "default"
  Dirs = {".siren"}
  Skills = {skill}
  Customs = {"phonewave"}
  Invalid = Invalid
  Logs = {"flat", "dir"}
  Flat = {"flat"}
  MaxRuns = 2
  MaxChanges = 1
  Inputs <- MCInputs
  EditLines <- MCEditLines
  MaxEdits = 2
  Diagnoses <- MCDiagnoses
  Plans <- MCPlans
  Words = {"amadeus", "sightjack", "paintress", "retry", "fast", ">", ","}
  Peers = {"paintress"}
  MaxMails = 3
  Garbled = Garbled
  Records = {r1, r2}
  Providers = {"claude-code"}
  ProviderIDs = {"s1"}
  MaxTime = 4
INVARIANTS LeaseIsRespected PrunedIsIndexed SpansAreEnded AnswersAreComplete UserValuesAreKept
           CanvasKeepsContract CorrectionsSurvive SessionsAreKept
PROPERTIES StallIsEscalatedOnce ContractsAreStable InsightsAreKept DoctorIsRight
CHECK_DEADLOCK FALSE
