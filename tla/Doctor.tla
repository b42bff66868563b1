------------------------------- MODULE Doctor -------------------------------
(***************************************************************************)
(* `sightjack doctor` (cmd/doctor.go, session/doctor.go, doctor_claude.go, *)
(* eventsource/validate.go): its checks in the code's order, with --repair *)
(* what it changes, in an environment that changes under it; the mode is   *)
(* the default one, of waves.                                              *)
(*                                                                         *)
(* The items of the environment have one value each; "ok" is a healthy     *)
(* one, as are a "live" PID and a "custom" SKILL.md: one that passes the    *)
(* check and is not the template.  The checks that always skip             *)
(* (linear-mcp, claude-inference, context-budget) and the texts are left   *)
(* out.  watch.pid has no writer in this repository.                       *)
(***************************************************************************)
EXTENDS Naturals

CONSTANTS
  Logs,        \* event files: the sessions of events/
  Flat,        \* those of the old layout, files beside the directories
  MaxRuns,
  MaxChanges,
  None

Tools == {"git", "gh", "claude", "uv", "skills-ref", "gh-auth", "claude-auth", "config"}
SkillFiles == {"dmail-readable", "dmail-sendable"}
Others == {"state", "outbox", "pid", "installer"} \cup SkillFiles
Statuses == {"OK", "FAIL", "SKIP", "WARN", "FIX"}

(* The names of sessions are not those of the other items.                 *)
DoctorAssumption ==
  Flat \subseteq Logs /\ Logs \cap (Tools \cup Others) = {} /\ None \notin Statuses

VARIABLES
  env,
  checking,  \* the check that is next, "idle" between runs
  repair,    \* the flag of the run
  verdicts,  \* of the run: for each check None or its status
  runs, changes,
  mended,    \* history: checks that reported FIX, nothing of theirs changed since
  touched,   \* history: items that changed since the run began
  faulty,    \* history: what the repair under way was begun for
  clean      \* history: the last run exited 0, nothing changed since it began

history == <<mended, touched, faulty, clean>>
vars == <<env, checking, repair, verdicts, runs, changes, history>>

Items == Tools \cup Others \cup Logs

States ==
  [i \in Items |->
     CASE i \in Tools     -> {"ok", "absent"}
       [] i = "state"     -> {"ok", "absent", "file", "readonly"}
       [] i \in SkillFiles -> {"ok", "custom", "broken", "absent"}
       [] i = "outbox"    -> {"ok", "absent", "dead", "broken"}
       [] i = "pid"       -> {"absent", "live", "dead"}
       [] i = "installer" -> {"ok", "broken", "off-path"}
       [] i \in Logs      -> {"ok", "absent", "mixed", "corrupt", "empty", "long", "unreadable"}]

Healthy == {"ok", "custom", "live"}

(* What is in the state directory is there with it.                        *)
Inside == {"config", "outbox", "pid"} \cup SkillFiles \cup Logs

With(e, i, v) ==
  [j \in Items |-> IF j = i THEN v
                   ELSE IF i = "state" /\ v \in {"absent", "file"} /\ j \in Inside THEN "absent"
                   ELSE e[j]]

Possible(e, i, v) == i \in Inside /\ v # "absent" => e["state"] \in {"ok", "readonly"}

Checks == {"git", "gh", "gh-auth", "Config", "claude", "state-dir", "Skills", "event-store",
           "dead-letters", "claude-auth", "success-rate", "skills-ref", "stale-pid"}

Concerns(c) ==
  CASE c = "state-dir"  -> {"state"}
    [] c = "Skills"     -> SkillFiles \cup {"state"}
    [] c = "skills-ref" -> {"skills-ref"}
    [] c = "stale-pid"  -> {"pid", "state"}
    [] OTHER            -> {}

Base == [i \in Items |-> IF i = "pid" THEN "absent" ELSE "ok"]

(* One item is not as it should be.                                        *)
Init ==
  /\ \E i \in Items : \E v \in States[i] : Possible(Base, i, v) /\ env = With(Base, i, v)
  /\ checking = "idle"
  /\ repair = FALSE
  /\ verdicts = [c \in Checks |-> None]
  /\ runs = 0 /\ changes = 0
  /\ mended = {} /\ touched = {} /\ faulty = {} /\ clean = FALSE

(* Users, installers and the tool's other processes.                       *)
Change(i, v) ==
  /\ changes < MaxChanges
  /\ v # env[i] /\ Possible(env, i, v)
  /\ env' = With(env, i, v)
  /\ changes' = changes + 1
  /\ LET new == {j \in Items : env'[j] # env[j]}
     IN  /\ mended' = {c \in mended : Concerns(c) \cap new = {}}
         /\ touched' = touched \cup new
  /\ clean' = FALSE
  /\ UNCHANGED <<checking, repair, verdicts, runs, faulty>>

Start(flag) ==
  /\ checking = "idle"
  /\ runs < MaxRuns
  /\ checking' = "git"
  /\ repair' = flag
  /\ verdicts' = [c \in Checks |-> None]
  /\ runs' = runs + 1
  /\ touched' = {}
  /\ UNCHANGED <<env, changes, mended, faulty, clean>>
---------------------------------------------------------------------------
OKOr(good, status) == IF good THEN "OK" ELSE status

CheckTool(t) == OKOr(env[t] = "ok", "FAIL")
CheckConfig == OKOr(env["config"] = "ok", "FAIL")
Broken == {f \in SkillFiles : env[f] \notin {"ok", "custom"}}
CheckSkills == OKOr(Broken = {}, "FAIL")
CheckGHAuth == IF verdicts["gh"] # "OK" THEN "SKIP" ELSE OKOr(env["gh-auth"] = "ok", "WARN")

CheckClaudeAuth ==
  IF verdicts["Config"] # "OK" \/ verdicts["claude"] # "OK" THEN "SKIP"
  ELSE OKOr(env["claude-auth"] = "ok", "WARN")

(* ValidateStore goes on after what it cannot read, and accepts a file     *)
(* without events.                                                         *)
ValidateStore ==
  [corrupt |-> {l \in Logs : env[l] \in {"mixed", "corrupt"}},
   failed  |-> {l \in Logs : env[l] = "unreadable"}]

(* events/ is there with the first of its files.                           *)
CheckEventStore ==
  IF \A l \in Logs : env[l] = "absent" THEN "SKIP"
  ELSE OKOr(ValidateStore = [corrupt |-> {}, failed |-> {}], "WARN")

CheckDeadLetters ==
  IF env["outbox"] \in {"absent", "broken"} THEN "SKIP" ELSE OKOr(env["outbox"] = "ok", "WARN")

(* The sessions that LoadAllEvents gets events of: a session without any   *)
(* has failed for it, and a long line ends the reading of a flat file.     *)
LoadAllEvents == {l \in Logs : env[l] \in {"ok", "mixed"} \/ (env[l] = "long" /\ l \notin Flat)}

Following(c) ==
  CASE c = "git" -> "gh"                  [] c = "gh" -> "gh-auth"
    [] c = "gh-auth" -> "Config"          [] c = "Config" -> "claude"
    [] c = "claude" -> "state-dir"        [] c = "state-dir" -> "Skills"
    [] c = "Skills" -> "event-store"      [] c = "event-store" -> "dead-letters"
    [] c = "dead-letters" -> "claude-auth" [] c = "claude-auth" -> "success-rate"
    [] c = "success-rate" -> "skills-ref" [] c = "skills-ref" -> "stale-pid"
    [] c = "stale-pid" -> "print"

Report(c, status) ==
  /\ verdicts' = [verdicts EXCEPT ![c] = status]
  /\ checking' = Following(c)
  /\ mended' = IF status = "FIX" THEN mended \cup {c} ELSE mended
  /\ faulty' = {}
  /\ UNCHANGED <<repair, runs, changes, touched, clean>>

Goto(step) ==
  /\ checking' = step
  /\ UNCHANGED <<repair, verdicts, runs, changes, history>>

(* A repair is begun for what the check has found.                         *)
Begin(step, found) ==
  /\ checking' = step
  /\ faulty' = found
  /\ UNCHANGED <<repair, verdicts, runs, changes, mended, touched, clean>>

(* The checks that only look.                                              *)
Look(c, status) ==
  /\ checking = c
  /\ Report(c, status)
  /\ UNCHANGED env

(* MkdirAll, when there is nothing; it may fail.                           *)
CheckStateDir ==
  /\ checking = "state-dir"
  /\ \/ /\ env["state"] = "absent" /\ repair
        /\ env' = [env EXCEPT !["state"] = "ok"]
        /\ Report("state-dir", "FIX")
     \/ Report("state-dir", OKOr(env["state"] = "ok", "FAIL")) /\ UNCHANGED env

SkillsStep ==
  /\ checking = "Skills"
  /\ IF CheckSkills = "FAIL" /\ repair THEN Begin("dmail-readable", Broken)
     ELSE Report("Skills", CheckSkills)
  /\ UNCHANGED env

(* With the directories that are missing.                                  *)
Made == [env EXCEPT !["state"] = IF @ = "absent" THEN "ok" ELSE @]

(* InstallSkills walks the templates by name and writes each file that is  *)
(* not its template, a custom one too.  An error ends it, before or after  *)
(* the directories are made, or with the file cut; what is left of it may  *)
(* still pass the check.                                                   *)
Install(f, next) ==
  /\ checking = f
  /\ \/ /\ env["state"] # "file"
        /\ env' = [Made EXCEPT ![f] = "ok"]
        /\ Goto(next)
     \/ /\ env' \in {env, Made} \/ \E cut \in {"broken", "custom"} :
             env["state"] # "file" /\ env[f] # "ok" /\ env' = [Made EXCEPT ![f] = cut]
        /\ Report("Skills", "FAIL")

(* Mutant: what was regenerated is not checked.                            *)
RecheckNothing ==
  /\ checking = "recheck"
  /\ Report("Skills", "FIX")
  /\ UNCHANGED env

Recheck ==
  /\ checking = "recheck"
  /\ Report("Skills", IF CheckSkills = "OK" THEN "FIX" ELSE "FAIL")
  /\ UNCHANGED env

CheckSkillsRefToolchain ==
  /\ checking = "skills-ref"
  /\ IF env["skills-ref"] = "ok" THEN Report("skills-ref", "OK")
     ELSE IF env["uv"] = "ok" /\ repair THEN Goto("install") ELSE Report("skills-ref", "WARN")
  /\ UNCHANGED env

InstallSkillsRef ==
  /\ checking = "install"
  /\ IF env["installer"] = "broken" THEN Report("skills-ref", "WARN") ELSE Goto("verify")
  /\ env' = IF env["installer"] = "ok" THEN [env EXCEPT !["skills-ref"] = "ok"] ELSE env

VerifySkillsRef ==
  /\ checking = "verify"
  /\ Report("skills-ref", IF env["skills-ref"] = "ok" THEN "FIX" ELSE "WARN")
  /\ UNCHANGED env

ReadPID ==
  /\ checking = "stale-pid"
  /\ IF repair /\ env["pid"] = "dead" THEN Begin("remove", {"pid"}) ELSE Goto("print")
  /\ UNCHANGED env

(* The result of os.Remove is ignored: a directory that cannot be written  *)
(* keeps the file, and FIX is reported.                                    *)
RemovePID ==
  /\ checking = "remove"
  /\ Report("stale-pid", "FIX")
  /\ env' = IF env["state"] = "readonly" THEN env ELSE [env EXCEPT !["pid"] = "absent"]

(* printDoctorText and printDoctorJSON.                                    *)
Exit == IF \E c \in Checks : verdicts[c] = "FAIL" THEN 1 ELSE 0

PrintDoctor ==
  /\ checking = "print"
  /\ checking' = "idle"
  /\ clean' = (Exit = 0 /\ touched = {})
  /\ UNCHANGED <<env, repair, verdicts, runs, changes, mended, touched, faulty>>

Step ==
  \/ Look("git", CheckTool("git"))          \/ Look("gh", CheckTool("gh"))
  \/ Look("gh-auth", CheckGHAuth)           \/ Look("Config", CheckConfig)
  \/ Look("claude", CheckTool("claude"))    \/ CheckStateDir
  \/ SkillsStep \/ Recheck
  \/ Install("dmail-readable", "dmail-sendable") \/ Install("dmail-sendable", "recheck")
  \/ Look("event-store", CheckEventStore)   \/ Look("dead-letters", CheckDeadLetters)
  \/ Look("claude-auth", CheckClaudeAuth)   \/ Look("success-rate", "OK")
  \/ CheckSkillsRefToolchain \/ InstallSkillsRef \/ VerifySkillsRef
  \/ ReadPID \/ RemovePID \/ PrintDoctor

Next ==
  \/ \E flag \in BOOLEAN : Start(flag)
  \/ \E i \in Items : \E v \in States[i] : Change(i, v)
  \/ Step

Spec == Init /\ [][Next]_vars
---------------------------------------------------------------------------
TypeOK ==
  /\ \A i \in Items : env[i] \in States[i]
  /\ verdicts \in [Checks -> Statuses \cup {None}]

InOrder(c) ==
  CASE c = "state-dir"  -> env["state"] = "ok"
    [] c = "Skills"     -> CheckSkills = "OK"
    [] c = "skills-ref" -> env["skills-ref"] = "ok"
    [] c = "stale-pid"  -> env["pid"] = "absent" \/ env["state"] = "readonly"

(* What a repair reported as fixed is in order, as long as nobody changed  *)
(* it, but for a PID file that could not be removed; a run after one       *)
(* without failures has none; and an event store that is called OK is one  *)
(* that replay gets all sessions of, but for those without any event and   *)
(* flat files with a long line, on which a rebuild fails all the same.     *)
VerdictsHold ==
  /\ \A c \in mended : InOrder(c)
  /\ checking = "print" /\ clean => Exit = 0
  /\ verdicts["event-store"] = "OK" /\ checking # "idle" =>
       \A l \in Logs \ (LoadAllEvents \cup touched) :
         env[l] \in {"absent", "empty"} \/ (env[l] = "long" /\ l \in Flat)

(* The doctor changes nothing that is in order, but for two things: what   *)
(* was out of order when the check looked, and has been put in order since *)
(* then; and a custom SKILL.md, when one of the two was out of order.      *)
RepairsAreCareful ==
  \A i \in Items :
    env'[i] # env[i] /\ changes' = changes =>
      \/ env[i] \notin Healthy \/ i \in faulty
      \/ env[i] = "custom" /\ faulty \cap SkillFiles # {}

DoctorIsRight == [][RepairsAreCareful]_vars /\ []VerdictsHold
=============================================================================
