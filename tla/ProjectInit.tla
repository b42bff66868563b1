---------------------------- MODULE ProjectInit ----------------------------
(***************************************************************************)
(* Setting a project up, again and again: `sightjack init [--force]`       *)
(* (cmd/init.go, session/init_adapter.go, init_dirs.go, skills.go) and     *)
(* `sightjack mcp-config generate [--force]` (cmd/mcp_config.go,           *)
(* session/mcp_config.go, mcp_root_config.go), while the user edits the    *)
(* files and sibling tools put themselves into the root's .mcp.json.       *)
(*                                                                         *)
(* A configuration has for each key its value, or None where the key is    *)
(* missing; an .mcp.json is the set of its servers.  Either may be absent  *)
(* (None) or not parse (Invalid).  All files are written by os.WriteFile,  *)
(* which leaves a part of the new text when it is interrupted.             *)
(***************************************************************************)
EXTENDS Naturals

CONSTANTS
  Keys,       \* keys of config.yaml
  Defaulted,  \* those whose flag of `init` has a default: lang, strictness.default
  Flagged,    \* those that a flag may set, the Defaulted ones too
  Values, Default,
  Dirs,       \* .siren and the directories in it
  Skills,     \* files of the installed skills
  Customs,    \* servers that the user or a sibling tool adds
  None, Invalid

Servers == Customs \cup {"sightjack", "linear"}
Flags == {f \in [Keys -> Values \cup {None}] :
            /\ \A k \in Defaulted : f[k] # None
            /\ \A k \in Keys \ Flagged : f[k] = None}
NoFlags == [k \in Keys |-> None]

ProjectInitAssumption == None # Invalid /\ \A s \in SUBSET Servers : s \notin {None, Invalid}

VARIABLES
  config, dirs, skills,
  mcp,      \* .siren/.mcp.json
  legacy,   \* .siren/.run/mcp-config.json of an old version
  root,     \* .mcp.json of the project
  settings, \* .siren/.claude/settings.json is there
  pc, force, flags,
  out,      \* the configuration the command is about to write
  servers,  \* the servers it is about to write
  chosen,   \* history: for each key the value last chosen for it
  added,    \* history: servers of .siren/.mcp.json that have to stay
  shared,   \* history: servers of the root's .mcp.json that have to stay
  late      \* history: those that were added since the command read the file

files == <<config, dirs, skills, mcp, legacy, root, settings>>
command == <<pc, force, flags, out, servers>>
history == <<chosen, added, shared, late>>
vars == <<files, command, history>>

Configs == {None, Invalid} \cup [Keys -> Values \cup {None}]
McpFiles == {None, Invalid} \cup SUBSET Servers

TypeOK ==
  /\ config \in Configs
  /\ dirs \subseteq Dirs
  /\ skills \in [Skills -> {None, "old", "current", "torn"}]
  /\ mcp \in McpFiles /\ legacy \in McpFiles /\ root \in McpFiles
  /\ settings \in BOOLEAN
  /\ pc \in {"idle", "dirs", "merge", "write", "skills",
             "generate", "write mcp", "upsert", "write root", "settings"}
  /\ force \in BOOLEAN
  /\ flags \in Flags \cup {NoFlags}
  /\ out \in Configs /\ servers \subseteq Servers
  /\ chosen \in [Keys -> Values]
  /\ added \subseteq Servers /\ shared \subseteq Servers /\ late \subseteq Servers

Init ==
  /\ config = None /\ dirs = {} /\ settings = FALSE
  /\ skills \in [Skills -> {None, "old"}]
  /\ mcp = None /\ root = None
  /\ legacy \in {None, Invalid} \cup {c \cup {"linear"} : c \in SUBSET Customs}
  /\ pc = "idle" /\ force = FALSE /\ flags = NoFlags /\ out = None /\ servers = {}
  /\ chosen = [k \in Keys |-> Default]
  /\ added = {} /\ shared = {} /\ late = {}

Parses(f) == f \notin {None, Invalid}

(* The command is over, or fails here.                                     *)
Return ==
  /\ pc' = "idle" /\ force' = FALSE /\ flags' = NoFlags
  /\ out' = None /\ servers' = {}

Goto(l) == pc' = l /\ UNCHANGED <<force, flags, out, servers>>
---------------------------------------------------------------------------
(* init: an existing file is refused without --force, an unreadable too.   *)
StartInit(f, fl) ==
  /\ pc = "idle"
  /\ config = None \/ f
  /\ pc' = "dirs" /\ force' = f /\ flags' = fl
  /\ UNCHANGED <<files, out, servers, history>>

EnsureStateDir ==
  /\ pc = "dirs"
  /\ dirs' = Dirs
  /\ Goto("merge")
  /\ UNCHANGED <<config, skills, mcp, legacy, root, settings, history>>

(* Mutant: the defaults override what is there.                            *)
DefaultsFirst(k) == IF flags[k] # None THEN flags[k] ELSE Default

(* A flag overrides what is there, what is there the default.              *)
Merged(k) ==
  IF flags[k] # None THEN flags[k]
  ELSE IF Parses(config) /\ config[k] # None THEN config[k] ELSE Default

(* Keys that Config does not have are dropped; a value of another type     *)
(* than the field's is an error.                                           *)
MergeConfig ==
  /\ pc = "merge"
  /\ \/ /\ out' = [k \in Keys |-> Merged(k)]
        /\ pc' = "write" /\ UNCHANGED <<force, flags, servers>>
     \/ Parses(config) /\ Return
  /\ UNCHANGED <<files, history>>

(* What the user had chosen for a key is given up for a flag, and when the *)
(* file does not have it any more.                                         *)
WriteConfig ==
  /\ pc = "write"
  /\ config' = out
  /\ chosen' = [k \in Keys |-> IF flags[k] # None THEN flags[k]
                               ELSE IF Parses(config) /\ config[k] # None THEN chosen[k]
                               ELSE out[k]]
  /\ Goto("skills")
  /\ UNCHANGED <<dirs, skills, mcp, legacy, root, settings, added, shared, late>>

(* The files that differ are written anew; errors are warnings.            *)
InstallSkills ==
  /\ pc = "skills"
  /\ \E ok \in SUBSET Skills :
       skills' = [s \in Skills |-> IF s \in ok THEN "current" ELSE skills[s]]
  /\ Return
  /\ UNCHANGED <<config, dirs, mcp, legacy, root, settings, history>>
---------------------------------------------------------------------------
StartGenerate(f) ==
  /\ pc = "idle"
  /\ pc' = "generate" /\ force' = f
  /\ UNCHANGED <<files, flags, out, servers, history>>

(* A file that is there is left alone without --force, also an invalid one.*)
McpExists ==
  /\ pc = "generate"
  /\ mcp # None /\ ~force
  /\ Goto("upsert")
  /\ UNCHANGED <<files, history>>

GenerateMCPConfig ==
  /\ pc = "generate"
  /\ mcp = None \/ force
  /\ servers' = {"sightjack"} \cup (IF Parses(legacy) /\ ~force THEN legacy \ {"linear"} ELSE {})
  /\ pc' = "write mcp"
  /\ UNCHANGED <<files, force, flags, out, history>>

WriteMcp ==
  /\ pc = "write mcp"
  /\ mcp' = servers
  /\ dirs' = dirs \cup {".siren"}
  /\ added' = IF ~force /\ Parses(legacy) THEN legacy \ {"linear"} ELSE {}
  /\ Goto("upsert")
  /\ UNCHANGED <<config, skills, legacy, root, settings, chosen, shared, late>>

(* An invalid root file ends the command.                                  *)
UpsertRootMCPConfig ==
  /\ pc = "upsert"
  /\ IF root = Invalid
     THEN Return
     ELSE /\ servers' = {"sightjack"} \cup (IF root = None THEN {} ELSE root)
          /\ pc' = "write root" /\ UNCHANGED <<force, flags, out>>
  /\ late' = {}
  /\ UNCHANGED <<files, chosen, added, shared>>

WriteRoot ==
  /\ pc = "write root"
  /\ root' = servers
  /\ shared' = shared \ late
  /\ late' = {}
  /\ Goto("settings")
  /\ UNCHANGED <<config, dirs, skills, mcp, legacy, settings, chosen, added>>

GenerateClaudeSettings ==
  /\ pc = "settings"
  /\ settings' = TRUE
  /\ dirs' = dirs \cup {".siren"}
  /\ Return
  /\ UNCHANGED <<config, skills, mcp, legacy, root, history>>
---------------------------------------------------------------------------
(* A write fails or the process dies, anywhere.  Of a configuration some   *)
(* keys are left, or a text that does not parse; of an .mcp.json a text    *)
(* that does not.                                                          *)
Interrupted ==
  /\ pc # "idle"
  /\ Return
  /\ CASE pc = "dirs" ->
            /\ dirs' \in {d \in SUBSET Dirs : dirs \subseteq d}
            /\ UNCHANGED <<config, skills, mcp, root, settings>>
       [] pc = "write" ->
            /\ config' \in {Invalid} \cup
                 {[k \in Keys |-> IF k \in left THEN out[k] ELSE None] : left \in SUBSET Keys}
            /\ UNCHANGED <<dirs, skills, mcp, root, settings>>
       [] pc = "skills" ->
            /\ \E s \in Skills : skills' = [skills EXCEPT ![s] = "torn"]
            /\ UNCHANGED <<config, dirs, mcp, root, settings>>
       [] pc = "write mcp" ->
            mcp' = Invalid /\ UNCHANGED <<config, dirs, skills, root, settings>>
       [] pc = "write root" ->
            root' = Invalid /\ UNCHANGED <<config, dirs, skills, mcp, settings>>
       [] pc = "settings" ->
            settings' = TRUE /\ UNCHANGED <<config, dirs, skills, mcp, root>>
       [] OTHER -> UNCHANGED <<config, dirs, skills, mcp, root, settings>>
  /\ chosen' = [k \in Keys |-> IF pc = "write" /\ Parses(config') /\ config'[k] # None
                               THEN config'[k] ELSE chosen[k]]
  /\ UNCHANGED <<legacy, added, shared, late>>

(* Between two commands the user chooses a value, or adds a server.        *)
EditConfig(k, v) ==
  /\ pc = "idle" /\ Parses(config)
  /\ config' = [config EXCEPT ![k] = v]
  /\ chosen' = [chosen EXCEPT ![k] = v]
  /\ UNCHANGED <<dirs, skills, mcp, legacy, root, settings, command, added, shared, late>>

EditMcp(s) ==
  /\ pc = "idle" /\ Parses(mcp)
  /\ mcp' = mcp \cup {s}
  /\ added' = added \cup {s}
  /\ UNCHANGED <<config, dirs, skills, legacy, root, settings, command, chosen, shared, late>>

(* A sibling tool's own `mcp-config generate`, at any time.                *)
SiblingUpserts(s) ==
  /\ root # Invalid
  /\ root' = {s} \cup (IF root = None THEN {} ELSE root)
  /\ shared' = shared \cup {s}
  /\ late' = IF root # None /\ s \in root THEN late ELSE late \cup {s}
  /\ UNCHANGED <<config, dirs, skills, mcp, legacy, settings, command, chosen, added>>

(* The user removes a file that does not parse.                            *)
RemoveInvalid ==
  /\ pc = "idle"
  /\ \/ mcp = Invalid /\ mcp' = None /\ added' = {} /\ UNCHANGED <<root, shared>>
     \/ root = Invalid /\ root' = None /\ shared' = {} /\ UNCHANGED <<mcp, added>>
  /\ UNCHANGED <<config, dirs, skills, legacy, settings, command, chosen, late>>

Next ==
  \/ \E f \in BOOLEAN : (\E fl \in Flags : StartInit(f, fl)) \/ StartGenerate(f)
  \/ EnsureStateDir \/ MergeConfig \/ WriteConfig \/ InstallSkills
  \/ McpExists \/ GenerateMCPConfig \/ WriteMcp
  \/ UpsertRootMCPConfig \/ WriteRoot \/ GenerateClaudeSettings
  \/ Interrupted
  \/ \E k \in Keys, v \in Values : EditConfig(k, v)
  \/ \E s \in Customs : EditMcp(s) \/ SiblingUpserts(s)
  \/ RemoveInvalid

Spec == Init /\ [][Next]_vars
---------------------------------------------------------------------------
(* What the user chose survives: setting the project up again, with or     *)
(* without --force, after an interruption or not, leaves the values of all *)
(* keys that no flag sets (the defaults of `init`'s own flags count) and   *)
(* that the file still has; customs of the legacy file and of a file that  *)
(* is not regenerated by --force stay in .siren/.mcp.json; and servers of  *)
(* sibling tools stay in the root's .mcp.json unless they came between the *)
(* reading and the writing of it.                                          *)
UserValuesAreKept ==
  /\ Parses(config) => \A k \in Keys : config[k] \in {chosen[k], None}
  /\ Parses(mcp) => added \cup {"sightjack"} \subseteq mcp
  /\ Parses(root) => shared \subseteq root
===========================================================================
