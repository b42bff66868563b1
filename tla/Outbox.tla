------------------------------- MODULE Outbox -------------------------------
(***************************************************************************)
(* The transactional outbox (internal/session/outbox_store.go) and its     *)
(* only client path, ComposeDMail (internal/session/dmail.go), called by   *)
(* the `dmail` tool of any number of `sightjack mcp` processes.            *)
(*                                                                         *)
(* A process stages its mail (an autocommitted upsert) and then flushes    *)
(* the whole table: BEGIN IMMEDIATE, one archive write and one outbox      *)
(* write per row, COMMIT.  The two directories are outside the             *)
(* transaction, so a rollback or a crash undoes the bookkeeping but not    *)
(* the files.  archive is what was last written there: archive-prune,      *)
(* which removes archive files past their retention, only appears here as  *)
(* the pruning of the table.  The courier (phonewave, another program)     *)
(* takes files from outbox/.  SQLite is modelled by what the code relies   *)
(* on: one write transaction at a time, committed or dropped as a whole.   *)
(***************************************************************************)
EXTENDS Naturals, FiniteSets

CONSTANTS
  Procs,      \* processes that run the dmail tool
  Names,      \* D-Mail filenames
  Payloads,   \* marshalled D-Mails
  None,       \* absence of a payload
  NoProc,     \* absence of a process
  NoName,     \* absence of a name
  MaxRetry    \* maxRetryCount, 3 in the code

ASSUME NoneAssumption == None \notin Payloads
ASSUME NoProcAssumption == NoProc \notin Procs
ASSUME NoNameAssumption == NoName \notin Names
ASSUME MaxRetryAssumption == MaxRetry \in Nat \ {0}

VARIABLES
  rows,       \* the committed staged table
  tx,         \* the table as the open write transaction sees it
  writer,     \* the process that holds the database's write lock
  archive,    \* archive/: the payload last written under each name
  outbox,     \* outbox/: the payload under each name
  delivered,  \* history: every <<name, payload>> ever renamed into outbox/
  pc,         \* where each process is in ComposeDMail
  mail,       \* the mail each process is composing
  batch,      \* the rows each flush selected and has not dealt with yet
  cur,        \* the row each flush is writing
  some,       \* whether the flush counted a delivered row (flushed > 0)
  reply       \* the outcome of the last ComposeDMail of each process

db    == <<rows, tx, writer>>
files == <<archive, outbox, delivered>>
local == <<pc, mail, batch, cur, some, reply>>
vars  == <<db, files, local>>

MaybePayload == Payloads \cup {None}

(* A row of the staged table; a row whose data is None is absent.          *)
Row == [data : MaybePayload, flushed : BOOLEAN, retry : 0..MaxRetry]

NoRow == [data |-> None, flushed |-> FALSE, retry |-> 0]

Present(r) == r.data # None

(* WHERE flushed = 0 AND retry_count < maxRetryCount                       *)
Eligible(r) == Present(r) /\ ~r.flushed /\ r.retry < MaxRetry

(* Mutant: the purge counts one failure too few.                           *)
DeadLetterEarly(r) == Present(r) /\ ~r.flushed /\ r.retry + 1 >= MaxRetry

(* WHERE flushed = 0 AND retry_count >= maxRetryCount                      *)
DeadLetter(r) == Present(r) /\ ~r.flushed /\ r.retry >= MaxRetry

NoBatch == [n \in Names |-> None]

Todo(p) == {n \in Names : batch[p][n] # None}

InFlush == {"archive", "outbox", "mark"}

TypeOK ==
  /\ rows \in [Names -> Row]
  /\ tx \in [Names -> Row]
  /\ writer \in Procs \cup {NoProc}
  /\ archive \in [Names -> MaybePayload]
  /\ outbox \in [Names -> MaybePayload]
  /\ delivered \subseteq Names \X Payloads
  /\ pc \in [Procs -> {"idle", "begin"} \cup InFlush]
  /\ mail \in [Procs -> (Names \cup {NoName}) \X MaybePayload]
  /\ batch \in [Procs -> [Names -> MaybePayload]]
  /\ cur \in [Procs -> Names \cup {NoName}]
  /\ some \in [Procs -> BOOLEAN]
  /\ reply \in [Procs -> {"none", "sent", "undelivered", "error"}]

Init ==
  /\ rows = [n \in Names |-> NoRow]
  /\ tx = rows
  /\ writer = NoProc
  /\ archive = [n \in Names |-> None]
  /\ outbox = [n \in Names |-> None]
  /\ delivered = {}
  /\ pc = [p \in Procs |-> "idle"]
  /\ mail = [p \in Procs |-> <<NoName, None>>]
  /\ batch = [p \in Procs |-> NoBatch]
  /\ cur = [p \in Procs |-> NoName]
  /\ some = [p \in Procs |-> FALSE]
  /\ reply = [p \in Procs |-> "none"]

-----------------------------------------------------------------------------
(* ComposeDMail: the call ends and its process is idle again.              *)

Return(p, r) ==
  /\ pc' = [pc EXCEPT ![p] = "idle"]
  /\ mail' = [mail EXCEPT ![p] = <<NoName, None>>]
  /\ batch' = [batch EXCEPT ![p] = NoBatch]
  /\ cur' = [cur EXCEPT ![p] = NoName]
  /\ some' = [some EXCEPT ![p] = FALSE]
  /\ reply' = [reply EXCEPT ![p] = r]

(* The transaction of p is over without a commit: the deferred ROLLBACK,   *)
(* or SQLite's recovery after a crash of p.                                *)
Rollback ==
  /\ writer' = NoProc
  /\ tx' = rows
  /\ UNCHANGED rows

(* Mutant: the upsert replaces the data but keeps the retry count.         *)
StageKeepsRetries(p, n, d) ==
  /\ pc[p] = "idle"
  /\ writer = NoProc
  /\ rows' = [rows EXCEPT ![n].data = d, ![n].flushed = FALSE]
  /\ tx' = rows'
  /\ pc' = [pc EXCEPT ![p] = "begin"]
  /\ mail' = [mail EXCEPT ![p] = <<n, d>>]
  /\ reply' = [reply EXCEPT ![p] = "none"]
  /\ UNCHANGED <<writer, files, batch, cur, some>>

(* Stage is one autocommitted statement, so it needs the write lock.       *)
Stage(p, n, d) ==
  /\ pc[p] = "idle"
  /\ writer = NoProc
  /\ rows' = [rows EXCEPT ![n] =
                [data |-> d, flushed |-> FALSE, retry |-> 0]]
  /\ tx' = rows'
  /\ pc' = [pc EXCEPT ![p] = "begin"]
  /\ mail' = [mail EXCEPT ![p] = <<n, d>>]
  /\ reply' = [reply EXCEPT ![p] = "none"]
  /\ UNCHANGED <<writer, files, batch, cur, some>>

(* busy_timeout ran out while another process held the write lock, or the  *)
(* database erred; nothing was staged.                                     *)
StageFails(p) ==
  /\ pc[p] = "idle"
  /\ Return(p, "error")
  /\ UNCHANGED <<db, files>>

-----------------------------------------------------------------------------
(* Flush.                                                                  *)

(* Mutant: a deferred BEGIN, which takes no lock before the first write.   *)
BeginDeferred(p) ==
  /\ pc[p] = "begin"
  /\ \E n \in Names : Eligible(rows[n])
  /\ batch' = [batch EXCEPT ![p] =
                 [n \in Names |-> IF Eligible(rows[n]) THEN rows[n].data
                                                       ELSE None]]
  /\ pc' = [pc EXCEPT ![p] = "archive"]
  /\ UNCHANGED <<db, files, mail, cur, some, reply>>

(* BEGIN IMMEDIATE and the SELECT that collects the rows to write.         *)
BeginImmediate(p) ==
  /\ pc[p] = "begin"
  /\ writer = NoProc
  /\ \E n \in Names : Eligible(rows[n])
  /\ writer' = p
  /\ batch' = [batch EXCEPT ![p] =
                 [n \in Names |-> IF Eligible(rows[n]) THEN rows[n].data
                                                       ELSE None]]
  /\ pc' = [pc EXCEPT ![p] = "archive"]
  /\ UNCHANGED <<rows, tx, files, mail, cur, some, reply>>

(* Nothing to flush: the empty transaction is rolled back and Flush        *)
(* returns 0, which ComposeDMail reports as an undelivered item.           *)
NothingToFlush(p) ==
  /\ pc[p] = "begin"
  /\ writer = NoProc
  /\ \A n \in Names : ~Eligible(rows[n])
  /\ Return(p, "undelivered")
  /\ UNCHANGED <<db, files>>

(* BEGIN IMMEDIATE or the SELECT failed: the lock stayed taken, or the     *)
(* database erred.                                                         *)
BeginFails(p) ==
  /\ pc[p] = "begin"
  /\ Return(p, "error")
  /\ UNCHANGED <<db, files>>

(* Mutant: the archive copy is left for later.                             *)
WriteOutboxFirst(p, n) ==
  /\ pc[p] = "archive"
  /\ n \in Todo(p)
  /\ cur' = [cur EXCEPT ![p] = n]
  /\ pc' = [pc EXCEPT ![p] = "outbox"]
  /\ UNCHANGED <<db, files, mail, batch, some, reply>>

(* archive/ first, in any row order.                                       *)
WriteArchive(p, n) ==
  /\ pc[p] = "archive"
  /\ n \in Todo(p)
  /\ archive' = [archive EXCEPT ![n] = batch[p][n]]
  /\ cur' = [cur EXCEPT ![p] = n]
  /\ pc' = [pc EXCEPT ![p] = "outbox"]
  /\ UNCHANGED <<db, outbox, delivered, mail, batch, some, reply>>

WriteOutbox(p) ==
  LET n == cur[p] IN
  /\ pc[p] = "outbox"
  /\ outbox' = [outbox EXCEPT ![n] = batch[p][n]]
  /\ delivered' = delivered \cup {<<n, batch[p][n]>>}
  /\ pc' = [pc EXCEPT ![p] = "mark"]
  /\ UNCHANGED <<db, archive, mail, batch, cur, some, reply>>

(* Mutant: no `continue` after a failed outbox write, so the row is marked. *)
WriteFailsFallsThrough(p, n) ==
  /\ pc[p] = "outbox"
  /\ n = cur[p]
  /\ tx' = [tx EXCEPT ![n].retry = @ + 1]
  /\ pc' = [pc EXCEPT ![p] = "mark"]
  /\ UNCHANGED <<rows, writer, files, mail, batch, cur, some, reply>>

(* One of the two atomic writes of row n failed.  The retry count goes up  *)
(* in the transaction; the error of that UPDATE is ignored, so it may also *)
(* stay as it was.                                                         *)
WriteFails(p, n) ==
  /\ \/ pc[p] = "archive" /\ n \in Todo(p)
     \/ pc[p] = "outbox" /\ n = cur[p]
  /\ \E counted \in {0, 1} :
       tx' = [tx EXCEPT ![n].retry = @ + counted]
  /\ batch' = [batch EXCEPT ![p][n] = None]
  /\ cur' = [cur EXCEPT ![p] = NoName]
  /\ pc' = [pc EXCEPT ![p] = "archive"]
  /\ UNCHANGED <<rows, writer, files, mail, some, reply>>

MarkFlushed(p) ==
  LET n == cur[p] IN
  /\ pc[p] = "mark"
  /\ tx' = [tx EXCEPT ![n].flushed = TRUE]
  /\ batch' = [batch EXCEPT ![p][n] = None]
  /\ cur' = [cur EXCEPT ![p] = NoName]
  /\ some' = [some EXCEPT ![p] = TRUE]
  /\ pc' = [pc EXCEPT ![p] = "archive"]
  /\ UNCHANGED <<rows, writer, files, mail, reply>>

Commit(p) ==
  /\ pc[p] = "archive"
  /\ Todo(p) = {}
  /\ rows' = tx
  /\ writer' = NoProc
  /\ Return(p, IF some[p] THEN "sent" ELSE "undelivered")
  /\ UNCHANGED <<tx, files>>

(* The UPDATE of flushed or the COMMIT failed: Flush returns the error and *)
(* the deferred ROLLBACK drops the whole transaction.                      *)
FlushFails(p) ==
  /\ \/ pc[p] = "mark"
     \/ pc[p] = "archive" /\ Todo(p) = {}
  /\ Rollback
  /\ Return(p, "error")
  /\ UNCHANGED files

-----------------------------------------------------------------------------
(* The process dies at any point of the call; a new one starts idle.       *)
Crash(p) ==
  /\ pc[p] # "idle"
  /\ IF writer = p THEN Rollback ELSE UNCHANGED db
  /\ Return(p, "none")
  /\ UNCHANGED files

(* archive-prune: DELETE FROM staged WHERE flushed = 1.                    *)
PruneFlushed ==
  /\ writer = NoProc
  /\ rows' = [n \in Names |-> IF rows[n].flushed THEN NoRow ELSE rows[n]]
  /\ tx' = rows'
  /\ UNCHANGED <<writer, files, local>>

(* dead-letters purge: delete the rows that used up their retries.         *)
PurgeDeadLetters ==
  /\ writer = NoProc
  /\ rows' = [n \in Names |-> IF DeadLetter(rows[n]) THEN NoRow ELSE rows[n]]
  /\ tx' = rows'
  /\ UNCHANGED <<writer, files, local>>

(* The courier picks a file up and removes it from outbox/.                *)
Courier(n) ==
  /\ outbox[n] # None
  /\ outbox' = [outbox EXCEPT ![n] = None]
  /\ UNCHANGED <<db, archive, delivered, local>>

FlushStep(p) ==
  \/ BeginImmediate(p)
  \/ NothingToFlush(p)
  \/ BeginFails(p)
  \/ \E n \in Names : WriteArchive(p, n)
  \/ WriteOutbox(p)
  \/ \E n \in Names : WriteFails(p, n)
  \/ MarkFlushed(p)
  \/ Commit(p)
  \/ FlushFails(p)

Next ==
  \/ \E p \in Procs : \E n \in Names, d \in Payloads : Stage(p, n, d)
  \/ \E p \in Procs : StageFails(p) \/ FlushStep(p) \/ Crash(p)
  \/ PruneFlushed
  \/ PurgeDeadLetters
  \/ \E n \in Names : Courier(n)

Spec == Init /\ [][Next]_vars

(* A running call goes on: the file and database operations return, and    *)
(* busy_timeout bounds the wait for the write lock.  Nothing makes a       *)
(* process start a new call.                                               *)
Fairness == \A p \in Procs : WF_vars(FlushStep(p))

-----------------------------------------------------------------------------
(* Properties.                                                             *)

(* A row marked flushed has reached both archive/ and outbox/ with the     *)
(* payload it holds: the flag is never ahead of the files, although files  *)
(* and database are not written together (Flush, PruneFlushed deletes by   *)
(* this flag).                                                             *)
FlushedIsDelivered ==
  \A n \in Names : rows[n].flushed =>
    /\ <<n, rows[n].data>> \in delivered
    /\ archive[n] = rows[n].data

(* Row n was published by the open transaction or an earlier one.          *)
Published(n) ==
  /\ <<n, rows[n].data>> \in delivered
  /\ archive[n] = rows[n].data

(* Only the flushing process holds the write lock, and it does hold it.    *)
WriterFlushes == \A p \in Procs : pc[p] \in InFlush <=> writer = p

(* The open transaction has touched eligible rows only, each once: it      *)
(* marked the row, which is published, or it counted one failure.          *)
TxTracksRows ==
  /\ writer = NoProc => tx = rows
  /\ \A n \in Names :
       \/ tx[n] = rows[n]
       \/ /\ Eligible(rows[n])
          /\ Published(n)
          /\ tx[n] = [rows[n] EXCEPT !.flushed = TRUE]
       \/ /\ Eligible(rows[n])
          /\ tx[n] = [rows[n] EXCEPT !.retry = @ + 1]

(* What a flush has still to write is what the table holds.                *)
BatchIsCurrent ==
  \A p \in Procs, n \in Names : batch[p][n] # None =>
    /\ writer = p
    /\ Eligible(rows[n])
    /\ batch[p][n] = rows[n].data
    /\ tx[n] = rows[n]

(* The row being written is one of the batch, archived before it goes to   *)
(* outbox/ and published before it is marked.                              *)
CurIsArchived ==
  \A p \in Procs :
    /\ pc[p] \in {"outbox", "mark"} =>
         cur[p] \in Todo(p) /\ archive[cur[p]] = rows[cur[p]].data
    /\ pc[p] = "mark" => Published(cur[p])

FlushedIsPublished ==
  \A n \in Names : rows[n].flushed => Present(rows[n]) /\ Published(n)

(* The database and the files stay in step through every interleaving of   *)
(* the flushes: one flush at a time, each row of its transaction untouched, *)
(* published and marked, or failed once, and what it has still to write is *)
(* the committed version.  This is the inductive invariant of the proofs.  *)
OutboxInv ==
  /\ WriterFlushes
  /\ TxTracksRows
  /\ BatchIsCurrent
  /\ CurIsArchived
  /\ FlushedIsPublished

(* A payload appears in outbox/ only when archive/ already holds that      *)
(* payload under the same name ("archive/ first, then outbox/").           *)
ArchiveFirst ==
  [][\A n \in Names : outbox'[n] \notin {outbox[n], None} =>
       archive[n] = outbox'[n]]_vars

(* What is put in outbox/ is the row's current version, never one that a   *)
(* later Stage replaced, and never a mail given up as a dead letter.       *)
NeverStale ==
  [][\A n \in Names : outbox'[n] \notin {outbox[n], None} =>
       /\ rows[n].data = outbox'[n]
       /\ rows[n].retry < MaxRetry]_vars

(* An accepted mail leaves the table only after it was delivered or after  *)
(* MaxRetry counted failures; otherwise it stays until it is restaged.     *)
NoSilentLoss ==
  [][\A n \in Names :
       Present(rows[n]) /\ ~Present(rows'[n]) =>
         \/ <<n, rows[n].data>> \in delivered
         \/ rows[n].retry >= MaxRetry]_vars

(* Every call returns: no failing write keeps a flush going for ever and   *)
(* no process waits for ever on the write lock.                            *)
CallsReturn == \A p \in Procs : pc[p] # "idle" ~> pc[p] = "idle"

(* The outbox implements the abstract promise: a mail is pending while its *)
(* committed row is present and not flushed.                               *)
PendingMail ==
  [n \in Names |->
     IF Present(rows[n]) /\ ~rows[n].flushed
     THEN [data |-> rows[n].data, tries |-> rows[n].retry]
     ELSE [data |-> None, tries |-> 0]]

Promise == INSTANCE MailDelivery WITH pending <- PendingMail

ImplementsPromise == Promise!Spec

(* ComposeDMail's success means that this call's own mail reached outbox/  *)
(* (or that another call has replaced it under the same name).             *)
SentMeansDelivered ==
  [][\A p \in Procs : reply'[p] = "sent" /\ reply[p] # "sent" =>
       \/ mail[p] \in delivered
       \/ rows[mail[p][1]].data # mail[p][2]]_vars
=============================================================================
