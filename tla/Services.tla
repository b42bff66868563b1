------------------------------ MODULE Services ------------------------------
(***************************************************************************)
(* The services beside the ledger, the mails and the waves, each with its  *)
(* own files or tables: the run lock, the stall detector, rival contracts, *)
(* retention, insights, provider streams, the MCP server's loop with its   *)
(* read tools, setting a project up and checking it, the text of a rival   *)
(* contract, corrections and coding sessions.  They share no state in the  *)
(* code; `part` says which of them a behaviour is about.                   *)
(***************************************************************************)
EXTENDS RunLock

CONSTANTS
  Waves, Errors, Threshold, Window, MaxFailures, MaxUnsent,       \* Stalls
  Specifications, Contents,                                       \* Contracts
  Pruners, Mails, Days,                                           \* Archive
  Writers, Titles,                                                \* Insights
  ToolIDs, AgentIDs, HookIDs, MaxStream,                          \* Streams
  ScanFiles, MaxLines,                                            \* Server
  Options, Defaulted, Flagged, Values, Default, Dirs, Skills, Customs, Invalid,
  Logs, Flat, MaxRuns, MaxChanges,                                \* Doctor
  Inputs, EditLines, MaxEdits,                                    \* Canvas
  Diagnoses, Plans, Words, Peers, MaxMails, Garbled,              \* Corrections
  Records, Providers, ProviderIDs, MaxTime                        \* Sessions

VARIABLES
  part,
  fingerprints, cooling, staged, failed,
  archive,
  store, index, torn, indexLock, pruner, listed, entries, pruned, excused,
  file, tmp, insightLock, writer, entry, read, noted,
  streamed, readErr, outcome, openSpans, syntheticSeq, live, subagents, event, balance,
  input, handled, serving, cancelled, broken, answers, unread, parsed, disk, owed,
  config, dirs, skills, mcp, legacy, root, settings, setup, force, flags, out, servers,
  chosen, added, shared, late,
  env, checking, repair, verdicts, runs, changes, mended, touched, faulty, clean,
  source, body, edits,
  mails, sent, remarks,
  now, held, coded, begun

St == INSTANCE Stalls
Co == INSTANCE Contracts WITH Files <- Specifications
Ar == INSTANCE Archive WITH Procs <- Pruners, lock <- indexLock, pc <- pruner, lines <- entries
In == INSTANCE Insights WITH lock <- insightLock, pc <- writer
Sm == INSTANCE Streams WITH MaxLines <- MaxStream, lines <- streamed
Se == INSTANCE Server WITH Files <- ScanFiles
PI == INSTANCE ProjectInit WITH Keys <- Options, pc <- setup
Do == INSTANCE Doctor
Ca == INSTANCE Canvas
Cr == INSTANCE Corrections
Ss == INSTANCE Sessions

ASSUME ServicesAssumption ==
  /\ St!StallsAssumption /\ Co!ContractsAssumption /\ Ar!ArchiveAssumption
  /\ In!InsightsAssumption /\ Sm!StreamsAssumption /\ PI!ProjectInitAssumption
  /\ Do!DoctorAssumption /\ Ss!SessionsAssumption
  /\ Cr!CorrectionsAssumption /\ Ca!CanvasAssumption

stallVars == <<fingerprints, cooling, staged, failed>>
archiveVars == <<store, index, torn, indexLock, pruner, listed, entries, pruned, excused>>
insightVars == <<file, tmp, insightLock, writer, entry, read, noted>>
streamVars == <<streamed, readErr, outcome, openSpans, syntheticSeq, live, subagents, event, balance>>
serverVars == <<input, handled, serving, cancelled, broken, answers, unread, parsed, disk, owed>>
setupVars == <<config, dirs, skills, mcp, legacy, root, settings, setup, force, flags, out, servers,
               chosen, added, shared, late>>
doctorVars == <<env, checking, repair, verdicts, runs, changes, mended, touched, faulty, clean>>
canvasVars == <<source, body, edits>>
correctionVars == <<mails, sent, remarks>>
sessionVars == <<now, held, coded, begun>>
partVars == <<part, vars, stallVars, archive, archiveVars, insightVars, streamVars, serverVars,
              setupVars, doctorVars, canvasVars, correctionVars, sessionVars>>

(* The parts a behaviour is not about stay as they are at the start.       *)
PartInit ==
  /\ part \in {"lock", "stalls", "contracts", "archive", "insights", "streams", "server", "setup",
              "doctor", "canvas", "corrections", "sessions"}
  /\ Init /\ (part # "lock" => \A p \in Procs : call[p].key = CHOOSE k \in Keys : TRUE)
  /\ St!Init /\ Co!Init
  /\ Ar!Init /\ (part # "archive" => \A e \in Mails \cup Days : store[e] = None)
  /\ In!Init /\ Sm!Init /\ Se!Init
  /\ PI!Init /\ (part # "setup" => legacy = None /\ \A s \in Skills : skills[s] = None)
  /\ Do!Init /\ (part # "doctor" => env = Do!Base)
  /\ Ca!Init /\ (part # "canvas" => source = CHOOSE i \in Inputs : TRUE)
  /\ Cr!Init /\ Ss!Init

LockStep ==
  /\ part = "lock"
  /\ Next
  /\ UNCHANGED <<part, stallVars, archive, archiveVars, insightVars, streamVars,
                 serverVars, setupVars, doctorVars, canvasVars, correctionVars, sessionVars>>

StallStep ==
  /\ part = "stalls"
  /\ St!Next
  /\ UNCHANGED <<part, vars, archive, archiveVars, insightVars, streamVars, serverVars,
                 setupVars, doctorVars, canvasVars, correctionVars, sessionVars>>

ContractStep ==
  /\ part = "contracts"
  /\ Co!Next
  /\ UNCHANGED <<part, vars, stallVars, archiveVars, insightVars, streamVars, serverVars,
                 setupVars, doctorVars, canvasVars, correctionVars, sessionVars>>

ArchiveStep ==
  /\ part = "archive"
  /\ Ar!Next
  /\ UNCHANGED <<part, vars, stallVars, archive, insightVars, streamVars, serverVars,
                 setupVars, doctorVars, canvasVars, correctionVars, sessionVars>>

InsightStep ==
  /\ part = "insights"
  /\ In!Next
  /\ UNCHANGED <<part, vars, stallVars, archive, archiveVars, streamVars, serverVars,
                 setupVars, doctorVars, canvasVars, correctionVars, sessionVars>>

StreamStep ==
  /\ part = "streams"
  /\ Sm!Next
  /\ UNCHANGED <<part, vars, stallVars, archive, archiveVars, insightVars, serverVars,
                 setupVars, doctorVars, canvasVars, correctionVars, sessionVars>>

ServerStep ==
  /\ part = "server"
  /\ Se!Next
  /\ UNCHANGED <<part, vars, stallVars, archive, archiveVars, insightVars, streamVars,
                 setupVars, doctorVars, canvasVars, correctionVars, sessionVars>>

SetupStep ==
  /\ part = "setup"
  /\ PI!Next
  /\ UNCHANGED <<part, vars, stallVars, archive, archiveVars, insightVars, streamVars,
                 serverVars, doctorVars, canvasVars, correctionVars, sessionVars>>

DoctorStep ==
  /\ part = "doctor"
  /\ Do!Next
  /\ UNCHANGED <<part, vars, stallVars, archive, archiveVars, insightVars, streamVars, serverVars,
                 setupVars, canvasVars, correctionVars, sessionVars>>

CanvasStep ==
  /\ part = "canvas"
  /\ Ca!Next
  /\ UNCHANGED <<part, vars, stallVars, archive, archiveVars, insightVars, streamVars, serverVars,
                 setupVars, doctorVars, correctionVars, sessionVars>>

CorrectionStep ==
  /\ part = "corrections"
  /\ Cr!Next
  /\ UNCHANGED <<part, vars, stallVars, archive, archiveVars, insightVars, streamVars, serverVars,
                 setupVars, doctorVars, canvasVars, sessionVars>>

SessionStep ==
  /\ part = "sessions"
  /\ Ss!Next
  /\ UNCHANGED <<part, vars, stallVars, archive, archiveVars, insightVars, streamVars, serverVars,
                 setupVars, doctorVars, canvasVars, correctionVars>>

PartNext ==
  \/ LockStep \/ StallStep \/ ContractStep \/ ArchiveStep
  \/ InsightStep \/ StreamStep \/ ServerStep \/ SetupStep
  \/ DoctorStep \/ CanvasStep \/ CorrectionStep \/ SessionStep

PartSpec == PartInit /\ [][PartNext]_partVars
-----------------------------------------------------------------------------
(* A stall is escalated, once in a cooldown (Stalls).                      *)
StallIsEscalatedOnce ==
  /\ [](part = "stalls" => St!NoSpam)
  /\ [][part = "stalls" => St!RepeatsAreMailed]_stallVars

(* The current revision of a contract does not depend on the order of the  *)
(* archive, and does not fall (Contracts).                                 *)
ContractsAreStable ==
  /\ [](part = "contracts" => Co!OrderDoesNotMatter /\ Co!ModesAgree)
  /\ [][part = "contracts" => Co!RevisionsRise]_archive

(* What was pruned can be found in the index (Archive).                    *)
PrunedIsIndexed == Ar!PrunedIsIndexed

(* An insight whose Append returned stays, once (Insights).                *)
InsightsAreKept == In!InsightsAreKept

(* No span is left open, none is ended twice (Streams).                    *)
SpansAreEnded == Sm!SpansAreEnded

(* Requests are answered once, in order; scans read whole files (Server).  *)
AnswersAreComplete == Se!AnswersAreComplete

(* Setting up again leaves what the user chose (ProjectInit).              *)
UserValuesAreKept == PI!UserValuesAreKept

(* A repair mends what it says it has, and the doctor's verdicts agree     *)
(* with what the other commands will find (Doctor).                        *)
DoctorIsRight ==
  /\ [][part = "doctor" => Do!RepairsAreCareful]_doctorVars
  /\ [](part = "doctor" => Do!VerdictsHold)

(* What a rendered contract says can be read back, and both exports say    *)
(* it, also of an edited one (Canvas).                                     *)
CanvasKeepsContract == part = "canvas" => Ca!CanvasKeepsContract

(* The latest correction goes with the mail of its wave, and is not worn   *)
(* down on its way around the tools (Corrections).                         *)
CorrectionsSurvive == part = "corrections" => Cr!CorrectionsSurvive

(* A coding session is resumed where it was begun, whoever wrote its row;  *)
(* the one entered by provider id or shown is the latest one (Sessions).   *)
SessionsAreKept == part = "sessions" => Ss!StartIsKept /\ Ss!LatestIsRecent
=============================================================================
