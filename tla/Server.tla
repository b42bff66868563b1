------------------------------- MODULE Server -------------------------------
(***************************************************************************)
(* `sightjack mcp` as its client sees it (session/mcp_server.go): Serve    *)
(* handles one line of stdin after the other and writes an answer to each  *)
(* request; next_wave and get_scan_result read the files of the scan       *)
(* directory, which other servers' register_waves and save_scan_result may *)
(* be writing (mcp_write_tools.go, atomicWrite).                           *)
(*                                                                         *)
(* A line is what Serve makes of it.  The two read tools differ in the     *)
(* prefix of the files they look for; the tools that write are modelled in *)
(* WritePath, ConfigFile and Outbox and only answer here.                  *)
(***************************************************************************)
EXTENDS Integers, Sequences

CONSTANTS
  Files,    \* names of the files of a prefix, e.g. wave_<cluster>.json
  MaxLines  \* bound of the check: lines the client sends

Lines ==
  {"request",       \* initialize, tools/list, ping and the tools that write
   "read",          \* next_wave, get_scan_result
   "refused",       \* unknown method or tool, parameters that do not decode
   "notification",  \* initialized, or unknown without an id
   "undecodable", "empty", "too long"}

VARIABLES
  input,    \* history: the lines the client has sent
  handled,  \* how many of them are done with
  serving,  \* "scan", "listed" (in a read tool), "ended" or "failed"
  cancelled,
  broken,   \* stdout can no longer be written
  answers,  \* [line, error, files] for each answer on stdout
  unread,   \* the files a read tool has listed and not read
  parsed,   \* those it has read
  disk,     \* for each file "none", "whole" or "torn"
  owed      \* history: the files that were there when the read began

client == <<input, cancelled, broken>>
reading == <<unread, parsed, owed>>
vars == <<client, handled, serving, answers, reading, disk>>

TypeOK ==
  /\ input \in Seq(Lines) /\ handled \in 0 .. Len(input)
  /\ serving \in {"scan", "listed", "ended", "failed"}
  /\ cancelled \in BOOLEAN /\ broken \in BOOLEAN
  /\ answers \in Seq([line : 1 .. MaxLines, error : BOOLEAN, files : SUBSET Files])
  /\ unread \subseteq Files /\ parsed \subseteq Files /\ owed \subseteq Files
  /\ disk \in [Files -> {"none", "whole", "torn"}]

Init ==
  /\ input = <<>> /\ handled = 0
  /\ serving = "scan"
  /\ cancelled = FALSE /\ broken = FALSE
  /\ answers = <<>>
  /\ unread = {} /\ parsed = {} /\ owed = {}
  /\ disk = [f \in Files |-> "none"]

Send(l) ==
  /\ Len(input) < MaxLines
  /\ input' = Append(input, l)
  /\ UNCHANGED <<cancelled, broken, handled, serving, answers, reading, disk>>

(* The context is cancelled, or the client no longer reads.                *)
Cancel ==
  /\ ~cancelled
  /\ cancelled' = TRUE
  /\ UNCHANGED <<input, broken, handled, serving, answers, reading, disk>>

Hangup ==
  /\ ~broken
  /\ broken' = TRUE
  /\ UNCHANGED <<input, cancelled, handled, serving, answers, reading, disk>>
---------------------------------------------------------------------------
Line == input[handled + 1]

Scanned == serving = "scan" /\ handled < Len(input)

(* writeMessage; a failure is only logged.                                 *)
Respond(error, files) ==
  answers' = IF broken THEN answers
             ELSE Append(answers, [line |-> handled + 1, error |-> error, files |-> files])

(* Lines that are passed over; a line that is not JSON is only logged.     *)
Silent == {"notification", "undecodable", "empty"}

Handle ==
  /\ Scanned /\ ~cancelled
  /\ Line \notin {"read", "too long"}
  /\ IF Line \in Silent THEN UNCHANGED answers ELSE Respond(Line = "refused", {})
  /\ handled' = handled + 1
  /\ UNCHANGED <<client, serving, reading, disk>>

StdinCloses ==
  /\ serving = "scan" /\ handled = Len(input)
  /\ serving' = "ended"
  /\ UNCHANGED <<client, handled, answers, reading, disk>>

(* A line of more than 4 MiB ends the server with an error.                *)
ScanFails ==
  /\ Scanned
  /\ Line = "too long"
  /\ serving' = "failed"
  /\ UNCHANGED <<client, handled, answers, reading, disk>>

(* The line that was scanned when the context ended is dropped.            *)
Ends ==
  /\ Scanned /\ cancelled /\ Line # "too long"
  /\ serving' = "ended"
  /\ UNCHANGED <<client, handled, answers, reading, disk>>

(* The arguments are refused, or the directory cannot be read: a reason.   *)
ReadRefused ==
  /\ Scanned /\ ~cancelled
  /\ Line = "read"
  /\ \A f \in Files : disk[f] = "none"
  /\ Respond(TRUE, {})
  /\ handled' = handled + 1
  /\ UNCHANGED <<client, serving, reading, disk>>

ReadDir ==
  /\ Scanned /\ ~cancelled
  /\ Line = "read"
  /\ unread' = {f \in Files : disk[f] # "none"}
  /\ owed' = unread'
  /\ parsed' = {}
  /\ serving' = "listed"
  /\ UNCHANGED <<client, handled, answers, disk>>

(* A file that does not parse is left out.                                 *)
Parse(f) ==
  /\ serving = "listed"
  /\ f \in unread
  /\ unread' = unread \ {f}
  /\ parsed' = IF disk[f] = "whole" THEN parsed \cup {f} ELSE parsed
  /\ UNCHANGED <<client, handled, serving, answers, owed, disk>>

ReadAnswered ==
  /\ serving = "listed"
  /\ unread = {}
  /\ Respond(FALSE, parsed)
  /\ handled' = handled + 1
  /\ serving' = "scan"
  /\ UNCHANGED <<client, reading, disk>>
---------------------------------------------------------------------------
(* Mutant: another server writes the file in place.                        *)
WriteInPlace(f) ==
  /\ disk' = [disk EXCEPT ![f] = IF @ = "torn" THEN "whole" ELSE "torn"]
  /\ UNCHANGED <<client, handled, serving, answers, reading>>

(* Another server renames a file into its place; a temporary file, and one *)
(* left by a crash, has another prefix.                                    *)
AtomicWrite(f) ==
  /\ disk' = [disk EXCEPT ![f] = "whole"]
  /\ UNCHANGED <<client, handled, serving, answers, reading>>

Next ==
  \/ \E l \in Lines : Send(l)
  \/ Cancel \/ Hangup
  \/ Handle \/ StdinCloses \/ ScanFails \/ Ends
  \/ ReadRefused \/ ReadDir \/ (\E f \in Files : Parse(f)) \/ ReadAnswered
  \/ \E f \in Files : AtomicWrite(f)

Spec == Init /\ [][Next]_vars
---------------------------------------------------------------------------
(* Every request that was handled has been answered, once and in the order *)
(* of the requests, as long as the client reads, and nothing else has; and *)
(* a read tool misses no file that was there when it was called, while     *)
(* other servers write.  Lines that are not JSON get no answer, although   *)
(* Serve's comment says they do.                                           *)
AnswersAreComplete ==
  /\ \A i, j \in DOMAIN answers : i < j => answers[i].line < answers[j].line
  /\ ~broken => {answers[i].line : i \in DOMAIN answers} =
                {n \in 1 .. handled : input[n] \notin Silent}
  /\ serving = "listed" => owed \subseteq unread \cup parsed
===========================================================================
