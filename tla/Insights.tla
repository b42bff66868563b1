------------------------------ MODULE Insights ------------------------------
(***************************************************************************)
(* An insight ledger: InsightWriter.Append (session/insight_writer.go)     *)
(* reads a Markdown file, adds an entry and puts the new file in the place *)
(* of the old one, under a flock (session/insight_lock_unix.go).           *)
(*                                                                         *)
(* What is read is what UnmarshalInsightFile (domain/insight.go) finds: a  *)
(* field of several lines loses all but its first when the file is written *)
(* again.  Titles are one line, and no text has a line that starts an      *)
(* insight.  `Writers` are the callers' goroutines and processes.          *)
(***************************************************************************)
EXTENDS Integers, Sequences, SequencesExt

CONSTANTS Writers, Titles, None

InsightsAssumption == None \notin Writers /\ Titles # {}

Entries == [title : Titles, text : {"line", "lines"}]

VARIABLES
  file,    \* the entries of insights/<name>.md, none if it is missing
  tmp,     \* those of .<name>.md.tmp
  lock,    \* who has the flock on insights.lock
  pc,
  entry,   \* what each writer appends
  read,    \* the entries each one has read
  noted    \* history: titles whose Append returned without an error

vars == <<file, tmp, lock, pc, entry, read, noted>>

TypeOK ==
  /\ file \in Seq(Entries) /\ tmp \in Seq(Entries)
  /\ lock \in Writers \cup {None}
  /\ pc \in [Writers -> {"idle", "lock", "read", "write", "rename"}]
  /\ entry \in [Writers -> Entries]
  /\ read \in [Writers -> Seq(Entries)]
  /\ noted \subseteq Titles

Init ==
  /\ file = <<>> /\ tmp = <<>>
  /\ lock = None
  /\ pc = [w \in Writers |-> "idle"]
  /\ entry = [w \in Writers |-> CHOOSE e \in Entries : TRUE]
  /\ read = [w \in Writers |-> <<>>]
  /\ noted = {}

Goto(w, l) == pc' = [pc EXCEPT ![w] = l]

TitlesOf(entries) == {entries[i].title : i \in DOMAIN entries}

(* Marshal and UnmarshalInsightFile.                                       *)
Parsed(entries) == [i \in DOMAIN entries |-> [entries[i] EXCEPT !.text = "line"]]

(* The writer's locals are of no use any more.                             *)
Forget(w) ==
  /\ entry' = [entry EXCEPT ![w] = CHOOSE e \in Entries : TRUE]
  /\ read' = [read EXCEPT ![w] = <<>>]
  /\ Goto(w, "idle")

Call(w, e) ==
  /\ pc[w] = "idle"
  /\ entry' = [entry EXCEPT ![w] = e]
  /\ Goto(w, "lock")
  /\ UNCHANGED <<file, tmp, lock, read, noted>>

(* Mutant: no lock.                                                        *)
LockNothing(w) ==
  /\ pc[w] = "lock"
  /\ Goto(w, "read")
  /\ UNCHANGED <<file, tmp, lock, entry, read, noted>>

Lock(w) ==
  /\ pc[w] = "lock"
  /\ lock = None
  /\ lock' = w
  /\ Goto(w, "read")
  /\ UNCHANGED <<file, tmp, entry, read, noted>>

Unlock(w) == lock' = IF lock = w THEN None ELSE lock

(* An entry that has the title already is left alone.                      *)
ReadFile(w) ==
  LET entries == Parsed(file)
  IN  /\ pc[w] = "read"
      /\ IF entry[w].title \in TitlesOf(entries)
         THEN /\ noted' = noted \cup {entry[w].title}
              /\ Unlock(w) /\ Forget(w)
         ELSE /\ read' = [read EXCEPT ![w] = entries]
              /\ Goto(w, "write")
              /\ UNCHANGED <<lock, entry, noted>>
      /\ UNCHANGED <<file, tmp>>

WriteTemp(w) ==
  /\ pc[w] = "write"
  /\ tmp' = Append(read[w], entry[w])
  /\ Goto(w, "rename")
  /\ UNCHANGED <<file, lock, entry, read, noted>>

Rename(w) ==
  /\ pc[w] = "rename"
  /\ IF tmp = <<>>
     THEN UNCHANGED <<file, noted>>
     ELSE file' = tmp /\ noted' = noted \cup {entry[w].title}
  /\ tmp' = <<>>
  /\ Unlock(w) /\ Forget(w)

(* A call fails before the rename, perhaps with part of the file written,  *)
(* or the process dies; the callers only log it.                           *)
Fail(w) ==
  /\ pc[w] # "idle"
  /\ IF pc[w] = "write"
     THEN \E part \in 0 .. Len(read[w]) : tmp' = SubSeq(read[w], 1, part)
     ELSE tmp' \in {tmp, <<>>} /\ (pc[w] # "rename" => tmp' = tmp)
  /\ Unlock(w) /\ Forget(w)
  /\ UNCHANGED <<file, noted>>

Next ==
  \E w \in Writers :
    \/ \E e \in Entries : Call(w, e)
    \/ Lock(w) \/ ReadFile(w) \/ WriteTemp(w) \/ Rename(w) \/ Fail(w)

Spec == Init /\ [][Next]_vars
---------------------------------------------------------------------------
(* An insight whose Append returned is in the ledger for good, and no      *)
(* title twice, whatever appends came at the same time, failed or died in  *)
(* the middle; old entries keep their places.                              *)
InsightsAreKept ==
  /\ [](/\ noted \subseteq TitlesOf(file)
        /\ \A i, j \in DOMAIN file : file[i].title = file[j].title => i = j)
  /\ [][IsPrefix(Parsed(file), Parsed(file'))]_vars
===========================================================================
