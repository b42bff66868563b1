----------------------------- MODULE ConfigFile -----------------------------
(***************************************************************************)
(* Updates of .siren/config.yaml: UpdateConfig (internal/session/config.go) *)
(* as called by `sightjack config set` and by the update_strictness tool   *)
(* of `sightjack mcp` (realUpdateStrictness, mcp_server.go).  An update    *)
(* reads the file, replaces one key and writes the whole file back with    *)
(* os.WriteFile, which truncates it and then writes; nothing excludes      *)
(* another process in between.  An empty file parses as the defaults.      *)
(***************************************************************************)
CONSTANTS
  Procs,        \* processes that update the file
  Keys,         \* configuration keys
  Strictness,   \* the key strictness.default
  Values,       \* valid values of a key
  Default       \* the value DefaultConfig gives every key

VARIABLES
  file,       \* the text of config.yaml
  pc,         \* where each process is in its update
  update,     \* the key and the value each process was asked to set
  out,        \* the configuration each process is about to write
  persisted   \* history: the value last reported as persisted for each key

vars == <<file, pc, update, out, persisted>>

Config == [Keys -> Values]

DefaultConfig == [k \in Keys |-> Default]

(* The text of the file: a configuration, nothing, or one configuration    *)
(* followed by what a longer one left behind.  Parsed to defaults, if any. *)
Text(c) == [form |-> "whole", config |-> c]
Empty == [form |-> "empty", config |-> DefaultConfig]
Mixed == [form |-> "mixed", config |-> DefaultConfig]

Readable == file # Mixed

(* yaml.Unmarshal over DefaultConfig.                                      *)
Parsed == file.config

Init ==
  /\ file \in {Text(c) : c \in Config}
  /\ pc = [p \in Procs |-> "idle"]
  /\ update = [p \in Procs |-> [key |-> Strictness, value |-> Default]]
  /\ out = [p \in Procs |-> DefaultConfig]
  /\ persisted = file.config

Ask(p, k, v, first) ==
  /\ pc[p] = "idle"
  /\ update' = [update EXCEPT ![p] = [key |-> k, value |-> v]]
  /\ pc' = [pc EXCEPT ![p] = first]
  /\ UNCHANGED <<file, out, persisted>>

(* sightjack config set <key> <value>                                      *)
ConfigSet(p, k, v) == Ask(p, k, v, "read")

(* the update_strictness tool                                              *)
UpdateStrictness(p, v) == Ask(p, Strictness, v, "check")

Stop(p) == pc' = [pc EXCEPT ![p] = "idle"]

Report(p) == persisted' = [persisted EXCEPT ![update[p].key] = update[p].value]

(* realUpdateStrictness: the level is already the requested one.           *)
NoOp(p) ==
  /\ pc[p] = "check"
  /\ Readable
  /\ Parsed[Strictness] = update[p].value
  /\ Report(p)
  /\ Stop(p)
  /\ UNCHANGED <<file, update, out>>

Differs(p) ==
  /\ pc[p] = "check"
  /\ Readable
  /\ Parsed[Strictness] # update[p].value
  /\ pc' = [pc EXCEPT ![p] = "read"]
  /\ UNCHANGED <<file, update, out, persisted>>

(* UpdateConfig: os.ReadFile, yaml.Unmarshal, setConfigField.              *)
Read(p) ==
  /\ pc[p] = "read"
  /\ Readable
  /\ out' = [out EXCEPT ![p] = [Parsed EXCEPT ![update[p].key] = update[p].value]]
  /\ pc' = [pc EXCEPT ![p] = "open"]
  /\ UNCHANGED <<file, update, persisted>>

(* The file cannot be read, parsed or opened: nothing is reported.         *)
Fails(p) ==
  /\ pc[p] \in {"check", "read", "open"}
  /\ Stop(p)
  /\ UNCHANGED <<file, update, out, persisted>>

(* os.WriteFile opens with O_TRUNC ...                                     *)
Truncate(p) ==
  /\ pc[p] = "open"
  /\ file' = Empty
  /\ pc' = [pc EXCEPT ![p] = "write"]
  /\ UNCHANGED <<update, out, persisted>>

(* ... and writes from offset 0: over an emptied file, or over what        *)
(* another process wrote meanwhile, whose end may stay behind.             *)
Write(p) ==
  /\ pc[p] = "write"
  /\ \/ file' = Text(out[p])
     \/ file # Empty /\ file # Text(out[p]) /\ file' = Mixed
  /\ Report(p)
  /\ Stop(p)
  /\ UNCHANGED <<update, out>>

(* The write failed, or the process died before it.                        *)
WriteFails(p) ==
  /\ pc[p] = "write"
  /\ Stop(p)
  /\ UNCHANGED <<file, update, out, persisted>>

Next ==
  \E p \in Procs :
    \/ \E k \in Keys, v \in Values : ConfigSet(p, k, v)
    \/ \E v \in Values : UpdateStrictness(p, v)
    \/ NoOp(p)
    \/ Differs(p)
    \/ Read(p)
    \/ Fails(p)
    \/ Truncate(p)
    \/ Write(p)
    \/ WriteFails(p)

Spec == Init /\ [][Next]_vars

-----------------------------------------------------------------------------
(* Properties.                                                             *)

(* When no update is under way, the file holds every value that was last   *)
(* reported as persisted for its key: updates of different keys by         *)
(* different processes do not undo each other and an interrupted update    *)
(* leaves the rest alone ("atomically persist").                           *)
PersistedIsKept ==
  (\A p \in Procs : pc[p] = "idle") =>
    /\ Readable
    /\ \A k \in Keys : Parsed[k] = persisted[k]

=============================================================================
