----------------------------- MODULE EventFile ------------------------------
(***************************************************************************)
(* One daily JSONL file of the event store, as FileEventStore.Append       *)
(* leaves it and as loadEvents and loadLegacyJSONLFile read it             *)
(* (internal/eventsource/store_file.go, loader.go).  Append writes one     *)
(* event and its newline with one O_APPEND write; a write that fails may   *)
(* have put down nothing, a part of the event, or all of it but the        *)
(* newline.  Nothing removes that tail: the next append continues the same *)
(* line, and a reader skips the line they make together.                   *)
(***************************************************************************)
EXTENDS Sequences, SequencesExt

(* A file: the events on its readable lines, and how its last line ends.   *)
(*   "clean"  with a newline, or the file is empty                         *)
(*   "torn"   with a part of an event                                      *)
(*   "bare"   with a whole event, the last of lines, and no newline        *)
Tails == {"clean", "torn", "bare"}

Files(Events) ==
  [exists : BOOLEAN, lines : Seq(Events), tail : Tails]

NoFile == [exists |-> FALSE, lines |-> <<>>, tail |-> "clean"]

(* What is readable once more bytes follow the last line.                  *)
Continued(f) == IF f.tail = "bare" THEN Front(f.lines) ELSE f.lines

(* f.Write(line + "\n") wrote everything.                                  *)
Appended(f, e) ==
  [exists |-> TRUE,
   lines  |-> IF f.tail = "clean" THEN Append(f.lines, e) ELSE Continued(f),
   tail   |-> "clean"]

(* The file was opened (O_CREATE) and nothing was written.                 *)
Opened(f) == [f EXCEPT !.exists = TRUE]

(* A write that stopped within the event, or just before its newline.      *)
Cut(f) == [exists |-> TRUE, lines |-> Continued(f), tail |-> "torn"]

CutAtNewline(f, e) ==
  IF f.tail = "clean"
  THEN [exists |-> TRUE, lines |-> Append(f.lines, e), tail |-> "bare"]
  ELSE Cut(f)

(* What an Append of e that did not return success can leave behind:       *)
(* open failed, write failed, fsync or close failed after the whole write. *)
(* A short write needs a full disk (or a quota), hence the parameter.      *)
Unacknowledged(f, e, shortWrites) ==
  {f, Opened(f), Appended(f, e)}
    \cup (IF shortWrites THEN {Cut(f), CutAtNewline(f, e)} ELSE {})

(* loadEvents: the readable lines, in file order.                          *)
LinesOf(f) == ToSet(f.lines)

=============================================================================
