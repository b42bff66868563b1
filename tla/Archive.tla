------------------------------ MODULE Archive ------------------------------
(***************************************************************************)
(* Retention: `archive-prune` (cmd/archive_prune.go) lists what is expired *)
(* in archive/ and events/, writes index entries for the mails and deletes *)
(* what it listed; `archive-prune --rebuild-index` writes the index anew   *)
(* (session/archive.go, session/archive_index.go, eventsource/lifecycle.go)*)
(*                                                                         *)
(* Mails and event days are entries with an age.  An index line is a mail  *)
(* and whether its metadata could be read from the file (ExtractMeta).     *)
(* The JSON form of the command differs in that it does not ask and leaves *)
(* out the outbox (PruneFlushed, see Outbox).                              *)
(***************************************************************************)
EXTENDS Integers, FiniteSets

CONSTANTS
  Procs,  \* processes of archive-prune
  Mails,  \* files of archive/
  Days,   \* entries of events/
  None

ArchiveAssumption == None \notin Procs \cup {"fresh", "expired"}

Entries == Mails \cup Days
Lines == [mail : Mails, meta : {"full", "bare"}]

VARIABLES
  store,    \* for each entry None, "fresh" or "expired"
  index,    \* the lines of archive/index.jsonl
  torn,     \* its last line has no newline
  lock,     \* who has the flock on index.jsonl.lock
  pc,
  listed,   \* what each process has still to delete
  lines,    \* the lines it is going to write
  pruned,   \* history: mails that were deleted
  excused   \* history: mails whose line an error or a rebuild has cost

files == <<store, index, torn>>
history == <<pruned, excused>>
vars == <<files, lock, pc, listed, lines, history>>

TypeOK ==
  /\ store \in [Entries -> {None, "fresh", "expired"}]
  /\ index \subseteq Lines
  /\ torn \in BOOLEAN
  /\ lock \in Procs \cup {None}
  /\ pc \in [Procs -> {"idle", "confirm", "extract", "append", "delete",
                       "walk", "read", "rename"}]
  /\ listed \in [Procs -> SUBSET Entries]
  /\ lines \in [Procs -> SUBSET Lines]
  /\ pruned \subseteq Mails /\ excused \subseteq Mails

Init ==
  /\ store \in [Entries -> {None, "expired"}]
  /\ index = {}
  /\ torn = FALSE
  /\ lock = None
  /\ pc = [p \in Procs |-> "idle"]
  /\ listed = [p \in Procs |-> {}]
  /\ lines = [p \in Procs |-> {}]
  /\ pruned = {} /\ excused = {}

Goto(p, l) == pc' = [pc EXCEPT ![p] = l]

Full(ls) == {l.mail : l \in {k \in ls : k.meta = "full"}}

ExtractMeta(ms) ==
  {[mail |-> m, meta |-> IF store[m] # None THEN "full" ELSE "bare"] : m \in ms}

(* A mail is archived, once (its name is unique), or a day gets an event:  *)
(* not expired for `days`.                                                 *)
Written(e) ==
  /\ IF e \in Mails THEN store[e] = None /\ e \notin pruned ELSE store[e] # "fresh"
  /\ store' = [store EXCEPT ![e] = "fresh"]
  /\ UNCHANGED <<index, torn, lock, pc, listed, lines, history>>

Expires(e) ==
  /\ store[e] = "fresh"
  /\ store' = [store EXCEPT ![e] = "expired"]
  /\ UNCHANGED <<index, torn, lock, pc, listed, lines, history>>
---------------------------------------------------------------------------
(* With --execute; a listing of events/ that fails is only warned of.      *)
List(p) ==
  /\ pc[p] = "idle"
  /\ LET expired == {e \in Entries : store[e] = "expired"}
     IN  /\ expired # {}
         /\ listed' = [listed EXCEPT ![p] = expired]
  /\ Goto(p, "confirm")
  /\ UNCHANGED <<files, lock, lines, history>>

(* The prompt may take any time; the JSON form goes on at once.            *)
Confirm(p) ==
  /\ pc[p] = "confirm"
  /\ Goto(p, IF listed[p] \cap Mails = {} THEN "delete" ELSE "extract")
  /\ UNCHANGED <<files, lock, listed, lines, history>>

Decline(p) ==
  /\ pc[p] = "confirm"
  /\ listed' = [listed EXCEPT ![p] = {}]
  /\ Goto(p, "idle")
  /\ UNCHANGED <<files, lock, lines, history>>

Extract(p) ==
  /\ pc[p] = "extract"
  /\ lines' = [lines EXCEPT ![p] = ExtractMeta(listed[p] \cap Mails)]
  /\ Goto(p, "append")
  /\ UNCHANGED <<files, lock, listed, history>>

(* Lines that reach the file; the first one continues a torn line.         *)
Land(landed) ==
  \E glued \in (IF torn /\ landed # {} THEN {{l} : l \in landed} ELSE {{}}) :
    /\ index' = index \cup (landed \ glued)
    /\ excused' = excused \cup Full(glued)

(* Mutant: Append does not take the lock.                                  *)
AppendUnlocked(p) ==
  /\ pc[p] = "append"
  /\ Land(lines[p])
  /\ torn' = FALSE
  /\ lines' = [lines EXCEPT ![p] = {}]
  /\ Goto(p, "delete")
  /\ UNCHANGED <<store, lock, listed, pruned>>

(* Append opens, locks, writes and unlocks.                                *)
AppendIndex(p) ==
  /\ pc[p] = "append"
  /\ lock = None
  /\ Land(lines[p])
  /\ torn' = FALSE
  /\ lines' = [lines EXCEPT ![p] = {}]
  /\ Goto(p, "delete")
  /\ UNCHANGED <<store, lock, listed, pruned>>

(* An error before or during the write is only warned of.                  *)
AppendFails(p) ==
  /\ pc[p] = "append"
  /\ \/ UNCHANGED <<index, torn>>
     \/ /\ lock = None
        /\ \E landed \in SUBSET lines[p] : index' = index \cup landed
        /\ torn' = TRUE
  /\ excused' = excused \cup Full(lines[p])
  /\ lines' = [lines EXCEPT ![p] = {}]
  /\ Goto(p, "delete")
  /\ UNCHANGED <<store, lock, listed, pruned>>

(* Mails before events; what is gone already counts as deleted.            *)
Delete(p, e) ==
  /\ pc[p] = "delete"
  /\ e \in listed[p]
  /\ e \in Days => listed[p] \cap Mails = {}
  /\ store' = [store EXCEPT ![e] = None]
  /\ pruned' = IF store[e] # None THEN pruned \cup ({e} \cap Mails) ELSE pruned
  /\ listed' = [listed EXCEPT ![p] = @ \ {e}]
  /\ UNCHANGED <<index, torn, lock, pc, lines, excused>>

(* Everything is deleted, or a deletion fails and the rest stays.          *)
Done(p) ==
  /\ pc[p] = "delete"
  /\ listed' = [listed EXCEPT ![p] = {}]
  /\ Goto(p, "idle")
  /\ UNCHANGED <<files, lock, lines, history>>
---------------------------------------------------------------------------
(* Rebuild: lists the files of archive/ under the lock, reads them one by  *)
(* one and puts a new index in the place of the old one.                   *)
Walk(p) ==
  /\ pc[p] = "idle"
  /\ lock = None
  /\ lock' = p
  /\ listed' = [listed EXCEPT ![p] = {m \in Mails : store[m] # None}]
  /\ Goto(p, "read")
  /\ UNCHANGED <<files, lines, history>>

Read(p, m) ==
  /\ pc[p] = "read"
  /\ m \in listed[p]
  /\ lines' = [lines EXCEPT ![p] = @ \cup ExtractMeta({m})]
  /\ listed' = [listed EXCEPT ![p] = @ \ {m}]
  /\ UNCHANGED <<files, lock, pc, history>>

Unlock(p) == lock' = IF lock = p THEN None ELSE lock

Rename(p) ==
  /\ pc[p] = "read"
  /\ listed[p] = {}
  /\ index' = lines[p]
  /\ torn' = FALSE
  /\ excused' = excused \cup (pruned \ Full(lines[p]))
  /\ lines' = [lines EXCEPT ![p] = {}]
  /\ Unlock(p)
  /\ Goto(p, "idle")
  /\ UNCHANGED <<store, listed, pruned>>

(* The temporary file cannot be written, or the process dies anywhere.     *)
Crash(p) ==
  /\ pc[p] # "idle"
  /\ Unlock(p)
  /\ listed' = [listed EXCEPT ![p] = {}]
  /\ lines' = [lines EXCEPT ![p] = {}]
  /\ Goto(p, "idle")
  /\ UNCHANGED <<files, history>>

Next ==
  \/ \E e \in Entries : Written(e) \/ Expires(e)
  \/ \E p \in Procs :
       \/ List(p) \/ Confirm(p) \/ Decline(p)
       \/ Extract(p) \/ AppendIndex(p) \/ AppendFails(p)
       \/ \E e \in Entries : Delete(p, e)
       \/ Done(p)
       \/ Walk(p) \/ (\E m \in Mails : Read(p, m)) \/ Rename(p)
       \/ Crash(p)

Spec == Init /\ [][Next]_vars
---------------------------------------------------------------------------
(* A mail that was pruned is in the index with its metadata, whatever      *)
(* prunes and rebuilds ran at the same time or died, unless its line could *)
(* not be written or the index was rebuilt after the mail was gone.        *)
PrunedIsIndexed == pruned \subseteq Full(index) \cup excused
===========================================================================
