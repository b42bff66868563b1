---------------------------- MODULE OutboxProofs ----------------------------
(***************************************************************************)
(* Proofs about the outbox for any number of processes, names, payloads    *)
(* and retries.                                                            *)
(***************************************************************************)
EXTENDS Outbox, TLAPS

Assumptions ==
  /\ None \notin Payloads
  /\ NoProc \notin Procs
  /\ NoName \notin Names
  /\ MaxRetry \in Nat \ {0}

LEMMA AssumptionsHold == Assumptions
BY NoneAssumption, NoProcAssumption, NoNameAssumption, MaxRetryAssumption
   DEF Assumptions

(* A call that ends leaves well-typed locals behind.                       *)
LEMMA ReturnTypes ==
  ASSUME TypeOK, NEW p \in Procs,
         NEW r \in {"none", "sent", "undelivered", "error"}, Return(p, r)
  PROVE  /\ pc' \in [Procs -> {"idle", "begin"} \cup InFlush]
         /\ mail' \in [Procs -> (Names \cup {NoName}) \X MaybePayload]
         /\ batch' \in [Procs -> [Names -> MaybePayload]]
         /\ cur' \in [Procs -> Names \cup {NoName}]
         /\ some' \in [Procs -> BOOLEAN]
         /\ reply' \in [Procs -> {"none", "sent", "undelivered", "error"}]
BY DEF TypeOK, Return, NoBatch, MaybePayload, InFlush

LEMMA InitTypes == Init => TypeOK
BY AssumptionsHold
   DEF Assumptions, Init, TypeOK, NoRow, Row, NoBatch, MaybePayload

LEMMA NextTypes ==
  ASSUME TypeOK, OutboxInv, [Next]_vars
  PROVE  TypeOK'
<1> USE AssumptionsHold DEF Assumptions
<1>1. ASSUME NEW p \in Procs, NEW n \in Names, NEW d \in Payloads,
             Stage(p, n, d)
      PROVE  TypeOK'
  BY <1>1 DEF TypeOK, Stage, files, Row, MaybePayload, InFlush
<1>2. ASSUME NEW p \in Procs, StageFails(p)
      PROVE  TypeOK'
  BY <1>2, ReturnTypes DEF TypeOK, StageFails, db, files
<1>3. ASSUME NEW p \in Procs, BeginImmediate(p)
      PROVE  TypeOK'
  BY <1>3 DEF TypeOK, BeginImmediate, files, Row, MaybePayload, InFlush
<1>4. ASSUME NEW p \in Procs, NothingToFlush(p)
      PROVE  TypeOK'
  BY <1>4, ReturnTypes DEF TypeOK, NothingToFlush, db, files
<1>5. ASSUME NEW p \in Procs, BeginFails(p)
      PROVE  TypeOK'
  BY <1>5, ReturnTypes DEF TypeOK, BeginFails, db, files
<1>6. ASSUME NEW p \in Procs, NEW n \in Names, WriteArchive(p, n)
      PROVE  TypeOK'
  BY <1>6 DEF TypeOK, WriteArchive, db, MaybePayload, InFlush
<1>7. ASSUME NEW p \in Procs, WriteOutbox(p)
      PROVE  TypeOK'
  <2>1. cur[p] \in Names /\ batch[p][cur[p]] \in Payloads
    BY <1>7 DEF WriteOutbox, OutboxInv, CurIsArchived, Todo, TypeOK,
                MaybePayload
  <2> QED
    BY <1>7, <2>1 DEF TypeOK, WriteOutbox, db, MaybePayload, InFlush
<1>8. ASSUME NEW p \in Procs, NEW n \in Names, WriteFails(p, n)
      PROVE  TypeOK'
  <2>1. tx[n] = rows[n] /\ rows[n].retry < MaxRetry
    BY <1>8 DEF WriteFails, OutboxInv, CurIsArchived, BatchIsCurrent, Todo,
                Eligible
  <2>2. PICK counted \in {0, 1} : tx' = [tx EXCEPT ![n].retry = @ + counted]
    BY <1>8 DEF WriteFails
  <2>3. rows[n].retry + counted \in 0..MaxRetry
    BY <2>1 DEF TypeOK, Row
  <2>4. tx' \in [Names -> Row]
    BY <2>1, <2>2, <2>3 DEF TypeOK, Row
  <2> QED
    BY <1>8, <2>4 DEF TypeOK, WriteFails, files, MaybePayload, InFlush
<1>9. ASSUME NEW p \in Procs, MarkFlushed(p)
      PROVE  TypeOK'
  <2>1. cur[p] \in Names
    BY <1>9 DEF MarkFlushed, OutboxInv, CurIsArchived, Todo
  <2> QED
    BY <1>9, <2>1 DEF TypeOK, MarkFlushed, files, Row, MaybePayload, InFlush
<1>10. ASSUME NEW p \in Procs, Commit(p)
       PROVE  TypeOK'
  <2>1. (IF some[p] THEN "sent" ELSE "undelivered")
           \in {"none", "sent", "undelivered", "error"}
    OBVIOUS
  <2> QED
    BY <1>10, <2>1, ReturnTypes DEF TypeOK, Commit, files
<1>11. ASSUME NEW p \in Procs, FlushFails(p)
       PROVE  TypeOK'
  BY <1>11, ReturnTypes DEF TypeOK, FlushFails, Rollback, files
<1>12. ASSUME NEW p \in Procs, Crash(p)
       PROVE  TypeOK'
  BY <1>12, ReturnTypes DEF TypeOK, Crash, Rollback, db, files
<1>13. ASSUME PruneFlushed
       PROVE  TypeOK'
  BY <1>13 DEF TypeOK, PruneFlushed, NoRow, Row, MaybePayload, files, local
<1>14. ASSUME PurgeDeadLetters
       PROVE  TypeOK'
  BY <1>14 DEF TypeOK, PurgeDeadLetters, NoRow, Row, MaybePayload, files,
               local
<1>15. ASSUME NEW n \in Names, Courier(n)
       PROVE  TypeOK'
  BY <1>15 DEF TypeOK, Courier, MaybePayload, db, local
<1>16. CASE UNCHANGED vars
  BY <1>16 DEF TypeOK, vars, db, files, local
<1> QED
  BY <1>1, <1>2, <1>3, <1>4, <1>5, <1>6, <1>7, <1>8, <1>9, <1>10, <1>11,
     <1>12, <1>13, <1>14, <1>15, <1>16 DEF Next, FlushStep

-----------------------------------------------------------------------------
(* The inductive invariant.                                                *)

LEMMA InitInv == Init => OutboxInv
BY AssumptionsHold
   DEF Assumptions, Init, OutboxInv, WriterFlushes, TxTracksRows,
       BatchIsCurrent, CurIsArchived, FlushedIsPublished, NoRow, NoBatch,
       InFlush

(* While the write lock is free no process is inside a flush, so the       *)
(* locals of all flushes are empty.                                        *)
LEMMA QuietWhenFree ==
  ASSUME TypeOK, OutboxInv, writer = NoProc
  PROVE  /\ tx = rows
         /\ \A p \in Procs : pc[p] \notin InFlush
         /\ \A p \in Procs, n \in Names : batch[p][n] = None
BY AssumptionsHold
   DEF Assumptions, OutboxInv, WriterFlushes, TxTracksRows, BatchIsCurrent

(* A step outside a flush of p, which holds no lock: p only returns.       *)
LEMMA QuietReturn ==
  ASSUME TypeOK, OutboxInv, NEW p \in Procs, NEW r, Return(p, r),
         pc[p] \notin InFlush, UNCHANGED <<db, files>>
  PROVE  OutboxInv'
<1> USE AssumptionsHold DEF Assumptions, TypeOK, OutboxInv, Return, db, files
<1>1. writer # p
  BY DEF WriterFlushes
<1>2. WriterFlushes'
  BY <1>1 DEF WriterFlushes, InFlush
<1>3. TxTracksRows'
  BY DEF TxTracksRows, Published
<1>4. BatchIsCurrent'
  BY DEF BatchIsCurrent, NoBatch
<1>5. CurIsArchived'
  BY DEF CurIsArchived, Published, Todo, InFlush
<1>6. FlushedIsPublished'
  BY DEF FlushedIsPublished, Published
<1> QED
  BY <1>2, <1>3, <1>4, <1>5, <1>6

(* The holder of the lock gives its transaction up.                        *)
LEMMA RollbackReturn ==
  ASSUME TypeOK, OutboxInv, NEW p \in Procs, NEW r, Return(p, r),
         writer = p, Rollback, UNCHANGED files
  PROVE  OutboxInv'
<1> USE AssumptionsHold
    DEF Assumptions, TypeOK, OutboxInv, Return, Rollback, files
<1>1. \A q \in Procs : q # p => pc[q] \notin InFlush
  BY DEF WriterFlushes
<1>2. WriterFlushes'
  BY <1>1 DEF WriterFlushes, InFlush
<1>3. TxTracksRows'
  BY DEF TxTracksRows
<1>4. BatchIsCurrent'
  BY DEF BatchIsCurrent, NoBatch
<1>5. CurIsArchived'
  BY <1>1 DEF CurIsArchived, InFlush
<1>6. FlushedIsPublished'
  BY DEF FlushedIsPublished, Published
<1> QED
  BY <1>2, <1>3, <1>4, <1>5, <1>6

(* The table changes while the lock is free, and no row becomes flushed.   *)
LEMMA TableChange ==
  ASSUME TypeOK, OutboxInv, writer = NoProc,
         UNCHANGED <<writer, files, batch, cur>>,
         tx' = rows', rows' \in [Names -> Row],
         \A p \in Procs : pc'[p] \notin InFlush,
         \A n \in Names : rows'[n].flushed => rows'[n] = rows[n]
  PROVE  OutboxInv'
<1> USE QuietWhenFree, AssumptionsHold DEF Assumptions, OutboxInv, files
<1>2. WriterFlushes'
  BY DEF WriterFlushes
<1>3. TxTracksRows'
  BY DEF TxTracksRows
<1>4. BatchIsCurrent'
  BY DEF BatchIsCurrent
<1>5. CurIsArchived'
  BY DEF CurIsArchived, InFlush
<1>6. FlushedIsPublished'
  BY DEF FlushedIsPublished, Published
<1> QED
  BY <1>2, <1>3, <1>4, <1>5, <1>6

LEMMA BeginInv ==
  ASSUME TypeOK, OutboxInv, NEW p \in Procs, BeginImmediate(p)
  PROVE  OutboxInv'
<1> USE QuietWhenFree, AssumptionsHold
    DEF Assumptions, TypeOK, OutboxInv, BeginImmediate, files
<1>1. WriterFlushes'
  BY DEF WriterFlushes, InFlush
<1>2. TxTracksRows'
  BY DEF TxTracksRows
<1>3. BatchIsCurrent'
  BY DEF BatchIsCurrent
<1>4. CurIsArchived'
  BY DEF CurIsArchived, InFlush
<1>5. FlushedIsPublished'
  BY DEF FlushedIsPublished, Published
<1> QED
  BY <1>1, <1>2, <1>3, <1>4, <1>5

LEMMA WriteArchiveInv ==
  ASSUME TypeOK, OutboxInv, NEW p \in Procs, NEW n \in Names,
         WriteArchive(p, n)
  PROVE  OutboxInv'
<1> USE AssumptionsHold DEF Assumptions, TypeOK, OutboxInv, WriteArchive, db
<1>1. /\ batch[p][n] = rows[n].data
      /\ writer = p
      /\ Eligible(rows[n])
      /\ tx[n] = rows[n]
  BY DEF Todo, BatchIsCurrent
<1>2. WriterFlushes'
  BY DEF WriterFlushes, InFlush
<1>3. TxTracksRows'
  BY <1>1 DEF TxTracksRows, Published
<1>4. BatchIsCurrent'
  BY DEF BatchIsCurrent
<1>5. CurIsArchived'
  <2>1. \A q \in Procs : q # p => pc'[q] \notin {"outbox", "mark"}
    BY <1>1 DEF WriterFlushes, InFlush
  <2>2. pc'[p] = "outbox" /\ cur'[p] = n
    OBVIOUS
  <2>3. n \in Todo(p)' /\ archive'[n] = rows'[n].data
    BY <1>1 DEF Todo
  <2> QED
    BY <2>1, <2>2, <2>3 DEF CurIsArchived
<1>6. FlushedIsPublished'
  BY <1>1 DEF FlushedIsPublished, Published, Eligible
<1> QED
  BY <1>2, <1>3, <1>4, <1>5, <1>6

LEMMA WriteOutboxInv ==
  ASSUME TypeOK, OutboxInv, NEW p \in Procs, WriteOutbox(p)
  PROVE  OutboxInv'
<1> USE AssumptionsHold DEF Assumptions, TypeOK, OutboxInv, WriteOutbox, db
<1>1. /\ cur[p] \in Names
      /\ batch[p][cur[p]] = rows[cur[p]].data
      /\ writer = p
  BY DEF CurIsArchived, Todo, BatchIsCurrent
<1>2. WriterFlushes'
  BY DEF WriterFlushes, InFlush
<1>3. TxTracksRows'
  BY DEF TxTracksRows, Published
<1>4. BatchIsCurrent'
  BY DEF BatchIsCurrent
<1>5. CurIsArchived'
  BY <1>1 DEF CurIsArchived, Published, Todo
<1>6. FlushedIsPublished'
  BY DEF FlushedIsPublished, Published
<1> QED
  BY <1>2, <1>3, <1>4, <1>5, <1>6

(* The row whose write failed was untouched, so the transaction counts at  *)
(* most one failure for it.                                                *)
LEMMA WriteFailsInv ==
  ASSUME TypeOK, OutboxInv, NEW p \in Procs, NEW n \in Names,
         WriteFails(p, n)
  PROVE  OutboxInv'
<1> USE AssumptionsHold DEF Assumptions, TypeOK, OutboxInv, WriteFails, files
<1>1. /\ tx[n] = rows[n]
      /\ Eligible(rows[n])
      /\ writer = p
  BY DEF CurIsArchived, BatchIsCurrent, Todo
<1>2. WriterFlushes'
  BY DEF WriterFlushes, InFlush
<1>3. TxTracksRows'
  <2>1. PICK counted \in {0, 1} :
          tx' = [tx EXCEPT ![n].retry = @ + counted]
    OBVIOUS
  <2>2. tx'[n] = [rows[n] EXCEPT !.retry = @ + counted]
    BY <1>1, <2>1
  <2>3. CASE counted = 0
    <3>1. tx'[n] = rows[n]
      BY <2>2, <2>3 DEF Row
    <3> QED
      BY <2>1, <3>1, <1>1 DEF TxTracksRows, Published
  <2>4. CASE counted = 1
    BY <2>1, <2>2, <2>4, <1>1 DEF TxTracksRows, Published
  <2> QED
    BY <2>3, <2>4
<1>4. BatchIsCurrent'
  <2> SUFFICES ASSUME NEW q \in Procs, NEW m \in Names, batch'[q][m] # None
               PROVE  /\ writer = q
                      /\ Eligible(rows[m])
                      /\ batch'[q][m] = rows[m].data
                      /\ tx'[m] = rows[m]
    BY DEF BatchIsCurrent
  <2>1. batch[q][m] = batch'[q][m]
    BY <1>1
  <2>2. q = p
    BY <1>1, <2>1 DEF BatchIsCurrent
  <2>3. m # n
    BY <1>1, <2>2
  <2>4. tx'[m] = tx[m]
    BY <1>1, <2>3
  <2> QED
    BY <2>1, <2>4 DEF BatchIsCurrent
<1>5. CurIsArchived'
  <2>1. \A q \in Procs : pc'[q] \notin {"outbox", "mark"}
    BY <1>1 DEF WriterFlushes, InFlush
  <2> QED
    BY <2>1 DEF CurIsArchived
<1>6. FlushedIsPublished'
  BY DEF FlushedIsPublished, Published
<1> QED
  BY <1>2, <1>3, <1>4, <1>5, <1>6

LEMMA MarkFlushedInv ==
  ASSUME TypeOK, OutboxInv, NEW p \in Procs, MarkFlushed(p)
  PROVE  OutboxInv'
<1> USE AssumptionsHold DEF Assumptions, TypeOK, OutboxInv, MarkFlushed, files
<1>1. /\ cur[p] \in Names
      /\ tx[cur[p]] = rows[cur[p]]
      /\ Eligible(rows[cur[p]])
      /\ Published(cur[p])
      /\ writer = p
  BY DEF CurIsArchived, BatchIsCurrent, Todo
<1>2. WriterFlushes'
  BY DEF WriterFlushes, InFlush
<1>3. TxTracksRows'
  BY <1>1 DEF TxTracksRows, Published
<1>4. BatchIsCurrent'
  <2> SUFFICES ASSUME NEW q \in Procs, NEW m \in Names, batch'[q][m] # None
               PROVE  /\ writer = q
                      /\ Eligible(rows[m])
                      /\ batch'[q][m] = rows[m].data
                      /\ tx'[m] = rows[m]
    BY DEF BatchIsCurrent
  <2>1. batch[q][m] = batch'[q][m]
    BY <1>1
  <2>2. q = p
    BY <1>1, <2>1 DEF BatchIsCurrent
  <2>3. m # cur[p]
    BY <1>1, <2>2
  <2>4. tx'[m] = tx[m]
    BY <1>1, <2>3
  <2> QED
    BY <2>1, <2>4 DEF BatchIsCurrent
<1>5. CurIsArchived'
  <2>1. \A q \in Procs : pc'[q] \notin {"outbox", "mark"}
    BY <1>1 DEF WriterFlushes, InFlush
  <2> QED
    BY <2>1 DEF CurIsArchived
<1>6. FlushedIsPublished'
  BY DEF FlushedIsPublished, Published
<1> QED
  BY <1>2, <1>3, <1>4, <1>5, <1>6

(* Every row the transaction marked is published, so committing it keeps   *)
(* the flag behind the files.                                              *)
LEMMA CommitInv ==
  ASSUME TypeOK, OutboxInv, NEW p \in Procs, Commit(p)
  PROVE  OutboxInv'
<1> USE AssumptionsHold DEF Assumptions, TypeOK, OutboxInv, Commit, files,
        Return
<1>1. writer = p
  BY DEF WriterFlushes, InFlush
<1>2. WriterFlushes'
  BY <1>1 DEF WriterFlushes, InFlush
<1>3. TxTracksRows'
  BY DEF TxTracksRows
<1>4. \A q \in Procs, n \in Names : batch[q][n] = None
  BY <1>1 DEF BatchIsCurrent, Todo
<1>5. BatchIsCurrent'
  BY <1>4 DEF BatchIsCurrent, NoBatch
<1>6. CurIsArchived'
  <2>1. \A q \in Procs : pc'[q] \notin {"outbox", "mark"}
    BY <1>1 DEF WriterFlushes, InFlush
  <2> QED
    BY <2>1 DEF CurIsArchived
<1>7. FlushedIsPublished'
  <2> SUFFICES ASSUME NEW n \in Names, tx[n].flushed
               PROVE  Present(tx[n]) /\ <<n, tx[n].data>> \in delivered
                        /\ archive[n] = tx[n].data
    BY DEF FlushedIsPublished, Published
  <2>1. CASE tx[n] = rows[n]
    BY <2>1 DEF FlushedIsPublished, Published
  <2>2. CASE tx[n] # rows[n]
    BY <2>2 DEF TxTracksRows, Eligible, Published, Present, Row
  <2> QED
    BY <2>1, <2>2
<1> QED
  BY <1>2, <1>3, <1>5, <1>6, <1>7

LEMMA NextInv ==
  ASSUME TypeOK, OutboxInv, [Next]_vars
  PROVE  OutboxInv'
<1> USE AssumptionsHold DEF Assumptions
<1>1. ASSUME NEW p \in Procs, NEW n \in Names, NEW d \in Payloads,
             Stage(p, n, d)
      PROVE  OutboxInv'
  <2>1. rows' \in [Names -> Row]
    BY <1>1, NextTypes DEF TypeOK, Next
  <2>2. \A q \in Procs : pc'[q] \notin InFlush
    BY <1>1, QuietWhenFree DEF Stage, TypeOK, InFlush
  <2> QED
    BY <1>1, <2>1, <2>2, TableChange DEF Stage, TypeOK
<1>2. ASSUME NEW p \in Procs,
             StageFails(p) \/ NothingToFlush(p) \/ BeginFails(p)
      PROVE  OutboxInv'
  BY <1>2, QuietReturn DEF StageFails, NothingToFlush, BeginFails, InFlush
<1>3. ASSUME NEW p \in Procs, FlushFails(p)
      PROVE  OutboxInv'
  <2>1. writer = p
    BY <1>3 DEF FlushFails, OutboxInv, WriterFlushes, InFlush
  <2> QED
    BY <1>3, <2>1, RollbackReturn DEF FlushFails
<1>4. ASSUME NEW p \in Procs, Crash(p)
      PROVE  OutboxInv'
  <2>1. CASE writer = p
    BY <1>4, <2>1, RollbackReturn DEF Crash
  <2>2. CASE writer # p
    <3>1. pc[p] \notin InFlush
      BY <2>2 DEF OutboxInv, WriterFlushes
    <3> QED
      BY <1>4, <2>2, <3>1, QuietReturn DEF Crash
  <2> QED
    BY <2>1, <2>2
<1>5. ASSUME PruneFlushed \/ PurgeDeadLetters
      PROVE  OutboxInv'
  <2>1. rows' \in [Names -> Row]
    BY <1>5, NextTypes DEF TypeOK, Next
  <2>2. \A q \in Procs : pc'[q] \notin InFlush
    BY <1>5, QuietWhenFree DEF PruneFlushed, PurgeDeadLetters, local
  <2> QED
    BY <1>5, <2>1, <2>2, TableChange
       DEF PruneFlushed, PurgeDeadLetters, local, NoRow, TypeOK
<1>6. ASSUME NEW n \in Names, Courier(n)
      PROVE  OutboxInv'
  BY <1>6 DEF Courier, db, local, OutboxInv, WriterFlushes, TxTracksRows,
     BatchIsCurrent, CurIsArchived, FlushedIsPublished, Published, Todo
<1>7. CASE UNCHANGED vars
  BY <1>7 DEF vars, db, files, local, OutboxInv, WriterFlushes,
     TxTracksRows, BatchIsCurrent, CurIsArchived, FlushedIsPublished,
     Published, Todo
<1> QED
  BY <1>1, <1>2, <1>3, <1>4, <1>5, <1>6, <1>7, BeginInv, WriteArchiveInv,
     WriteOutboxInv, WriteFailsInv, MarkFlushedInv, CommitInv
     DEF Next, FlushStep

-----------------------------------------------------------------------------
(* The theorems.                                                           *)

(* Every reachable state is well typed and satisfies the invariant.        *)
THEOREM InvariantHolds == Spec => [](TypeOK /\ OutboxInv)
<1>1. Init => TypeOK /\ OutboxInv
  BY InitTypes, InitInv
<1>2. TypeOK /\ OutboxInv /\ [Next]_vars => TypeOK' /\ OutboxInv'
  BY NextTypes, NextInv
<1> QED
  BY <1>1, <1>2, PTL DEF Spec

(* The table keeps its columns' types and a retry count of at most         *)
(* maxRetryCount.                                                          *)
THEOREM TypeCorrect == Spec => []TypeOK
BY InvariantHolds, PTL

(* Flush never commits flushed = 1 ahead of the two files, whatever fails, *)
(* crashes or runs at the same time.                                       *)
THEOREM FlushedIsDeliveredHolds == Spec => []FlushedIsDelivered
<1>1. OutboxInv => FlushedIsDelivered
  BY DEF OutboxInv, FlushedIsPublished, Published, FlushedIsDelivered
<1> QED
  BY <1>1, InvariantHolds, PTL

(* Only WriteOutbox puts a payload into outbox/, and it is the current and *)
(* archived payload of an eligible row.                                    *)
LEMMA OutboxWrites ==
  ASSUME TypeOK, OutboxInv, [Next]_vars, NEW n \in Names,
         outbox'[n] \notin {outbox[n], None}
  PROVE  /\ archive[n] = outbox'[n]
         /\ rows[n].data = outbox'[n]
         /\ rows[n].retry < MaxRetry
<1>1. ASSUME NEW p \in Procs, WriteOutbox(p)
      PROVE  /\ archive[n] = outbox'[n]
             /\ rows[n].data = outbox'[n]
             /\ rows[n].retry < MaxRetry
  <2>1. n = cur[p] /\ outbox'[n] = batch[p][n]
    BY <1>1 DEF WriteOutbox, TypeOK
  <2>2. batch[p][n] # None /\ archive[n] = rows[n].data
    BY <1>1, <2>1 DEF WriteOutbox, OutboxInv, CurIsArchived, Todo
  <2> QED
    BY <2>1, <2>2 DEF OutboxInv, BatchIsCurrent, Eligible
<1>2. ASSUME NEW m \in Names, Courier(m)
      PROVE  FALSE
  BY <1>2 DEF Courier, TypeOK
<1>3. CASE outbox' = outbox
  BY <1>3
<1> QED
  BY <1>1, <1>2, <1>3
     DEF Next, vars, FlushStep, Stage, StageFails, BeginImmediate,
         NothingToFlush, BeginFails, WriteArchive, WriteFails, MarkFlushed,
         Commit, FlushFails, Crash, PruneFlushed, PurgeDeadLetters, files

(* outbox/ is only ever written from what archive/ already holds.          *)
THEOREM ArchiveFirstHolds == Spec => ArchiveFirst
<1>1. TypeOK /\ OutboxInv /\ [Next]_vars =>
        [\A n \in Names : outbox'[n] \notin {outbox[n], None} =>
           archive[n] = outbox'[n]]_vars
  BY OutboxWrites
<1> QED
  BY <1>1, InvariantHolds, PTL DEF Spec, ArchiveFirst

(* No flush publishes a payload that was replaced or given up.             *)
THEOREM NeverStaleHolds == Spec => NeverStale
<1>1. TypeOK /\ OutboxInv /\ [Next]_vars =>
        [\A n \in Names : outbox'[n] \notin {outbox[n], None} =>
           /\ rows[n].data = outbox'[n]
           /\ rows[n].retry < MaxRetry]_vars
  BY OutboxWrites
<1> QED
  BY <1>1, InvariantHolds, PTL DEF Spec, NeverStale

(* A transaction never changes the payload of a row.                       *)
LEMMA TxKeepsData ==
  ASSUME TypeOK, OutboxInv, NEW n \in Names
  PROVE  tx[n].data = rows[n].data
<1>1. rows[n] \in Row
  BY DEF TypeOK
<1>2. CASE tx[n] = rows[n]
  BY <1>2
<1>3. CASE tx[n] = [rows[n] EXCEPT !.flushed = TRUE]
  BY <1>1, <1>3 DEF Row
<1>4. CASE tx[n] = [rows[n] EXCEPT !.retry = @ + 1]
  BY <1>1, <1>4 DEF Row
<1> QED
  BY <1>2, <1>3, <1>4 DEF OutboxInv, TxTracksRows

(* A row leaves the table by PruneFlushed, hence after delivery, or by     *)
(* PurgeDeadLetters, hence after MaxRetry failures.                        *)
LEMMA RowLeaves ==
  ASSUME TypeOK, OutboxInv, [Next]_vars, NEW n \in Names,
         Present(rows[n]), ~Present(rows'[n])
  PROVE  \/ <<n, rows[n].data>> \in delivered
         \/ rows[n].retry >= MaxRetry
<1> USE AssumptionsHold DEF Assumptions
<1>1. ASSUME PruneFlushed
      PROVE  <<n, rows[n].data>> \in delivered
  BY <1>1 DEF PruneFlushed, OutboxInv, FlushedIsPublished, Published
<1>2. ASSUME PurgeDeadLetters
      PROVE  rows[n].retry >= MaxRetry
  BY <1>2 DEF PurgeDeadLetters, DeadLetter
<1>3. ASSUME NEW p \in Procs, NEW m \in Names, NEW d \in Payloads,
             Stage(p, m, d)
      PROVE  FALSE
  <2>1. CASE m = n
    BY <1>3, <2>1 DEF Stage, Present, TypeOK
  <2>2. CASE m # n
    BY <1>3, <2>2 DEF Stage, Present, TypeOK
  <2> QED
    BY <2>1, <2>2
<1>4. ASSUME NEW p \in Procs, Commit(p)
      PROVE  FALSE
  <2>1. tx[n].data = rows[n].data
    BY TxKeepsData
  <2> QED
    BY <1>4, <2>1 DEF Commit, Present
<1>5. CASE rows' = rows
  BY <1>5
<1> QED
  BY <1>1, <1>2, <1>3, <1>4, <1>5
     DEF Next, vars, db, FlushStep, StageFails, BeginImmediate,
         NothingToFlush, BeginFails, WriteArchive, WriteOutbox, WriteFails,
         MarkFlushed, FlushFails, Crash, Rollback, Courier

(* No accepted mail disappears undelivered, except as a dead letter.       *)
THEOREM NoSilentLossHolds == Spec => NoSilentLoss
<1>1. TypeOK /\ OutboxInv /\ [Next]_vars =>
        [\A n \in Names :
           Present(rows[n]) /\ ~Present(rows'[n]) =>
             \/ <<n, rows[n].data>> \in delivered
             \/ rows[n].retry >= MaxRetry]_vars
  BY RowLeaves
<1> QED
  BY <1>1, InvariantHolds, PTL DEF Spec, NoSilentLoss

-----------------------------------------------------------------------------
(* Refinement: every step of the outbox is a step of MailDelivery or a     *)
(* stutter.                                                                *)

LEMMA InitRefines == Init => Promise!Init
BY DEF Init, Promise!Init, Promise!Nothing, PendingMail, Present, NoRow

LEMMA StageRefines ==
  ASSUME TypeOK, NEW p \in Procs, NEW n \in Names, NEW d \in Payloads,
         Stage(p, n, d)
  PROVE  Promise!Accept(n, d)
<1> USE AssumptionsHold DEF Assumptions, Stage, TypeOK, files
<1>1. PendingMail' = [PendingMail EXCEPT ![n] = [data |-> d, tries |-> 0]]
  BY DEF PendingMail, Present
<1> QED
  BY <1>1 DEF Promise!Accept

LEMMA WriteOutboxRefines ==
  ASSUME TypeOK, OutboxInv, NEW p \in Procs, WriteOutbox(p)
  PROVE  Promise!Deliver(cur[p]) /\ cur[p] \in Names
<1> USE DEF WriteOutbox, db
<1>1. /\ cur[p] \in Names
      /\ Eligible(rows[cur[p]])
      /\ batch[p][cur[p]] = rows[cur[p]].data
  BY DEF OutboxInv, CurIsArchived, BatchIsCurrent, Todo
<1>2. PendingMail[cur[p]] =
        [data |-> rows[cur[p]].data, tries |-> rows[cur[p]].retry]
  BY <1>1 DEF PendingMail, Eligible
<1>3. PendingMail' = PendingMail
  BY DEF PendingMail
<1> QED
  BY <1>1, <1>2, <1>3
     DEF Promise!Deliver, Promise!Waiting, Eligible, Present

LEMMA CommitRefines ==
  ASSUME TypeOK, OutboxInv, NEW p \in Procs, Commit(p)
  PROVE  \E Settled, Failed \in SUBSET Names :
           Promise!EndRound(Settled, Failed)
<1> USE AssumptionsHold DEF Assumptions
<1> DEFINE Settled == {n \in Names : tx[n].flushed /\ ~rows[n].flushed}
           Failed  == {n \in Names : tx[n].retry # rows[n].retry}
<1>1. ASSUME NEW n \in Settled
      PROVE  /\ Eligible(rows[n])
             /\ Published(n)
             /\ tx[n].retry = rows[n].retry
  <2>1. tx[n] # rows[n]
    OBVIOUS
  <2> QED
    BY <2>1 DEF OutboxInv, TxTracksRows, TypeOK, Row
<1>2. ASSUME NEW n \in Failed
      PROVE  /\ Eligible(rows[n])
             /\ tx[n] = [rows[n] EXCEPT !.retry = @ + 1]
  BY DEF OutboxInv, TxTracksRows, TypeOK, Row
<1>3. ASSUME NEW n \in Names, n \notin Settled, n \notin Failed
      PROVE  tx[n] = rows[n]
  BY <1>3 DEF OutboxInv, TxTracksRows, TypeOK, Row, Eligible
<1>4. Settled \cap Failed = {}
  BY <1>1
<1>5. ASSUME NEW n \in Settled \cup Failed
      PROVE  /\ PendingMail[n].data = rows[n].data
             /\ PendingMail[n].tries = rows[n].retry
             /\ rows[n].data # None
             /\ rows[n].retry < MaxRetry
  BY <1>1, <1>2 DEF PendingMail, Eligible, Present
<1>6. \A n \in Settled : <<n, PendingMail[n].data>> \in delivered
  <2> SUFFICES ASSUME NEW n \in Settled
               PROVE  <<n, PendingMail[n].data>> \in delivered
    OBVIOUS
  <2>1. <<n, rows[n].data>> \in delivered
    BY <1>1 DEF Published
  <2>2. PendingMail[n].data = rows[n].data
    BY <1>5
  <2> QED
    BY <2>1, <2>2
<1>7. PendingMail' =
        [n \in Names |->
           IF n \in Settled THEN [data |-> None, tries |-> 0]
           ELSE IF n \in Failed
                THEN [data |-> PendingMail[n].data,
                      tries |-> PendingMail[n].tries + 1]
                ELSE PendingMail[n]]
  <2>1. ASSUME NEW n \in Names, n \in Settled
        PROVE  ~(Present(tx[n]) /\ ~tx[n].flushed)
    BY <2>1
  <2>2. ASSUME NEW n \in Names, n \in Failed
        PROVE  /\ n \notin Settled
               /\ Present(tx[n]) /\ ~tx[n].flushed
               /\ tx[n].data = rows[n].data
               /\ tx[n].retry = rows[n].retry + 1
    BY <2>2, <1>2, <1>4 DEF Eligible, Present, TypeOK, Row
  <2> QED
    BY <2>1, <2>2, <1>3, <1>5 DEF Commit, PendingMail
<1> HIDE DEF Settled, Failed
<1>8. \A n \in Settled \cup Failed :
        Promise!Waiting(n) /\ PendingMail[n].tries < MaxRetry
  <2> SUFFICES ASSUME NEW n \in Settled \cup Failed
               PROVE  Promise!Waiting(n) /\ PendingMail[n].tries < MaxRetry
    OBVIOUS
  <2> QED
    BY <1>5 DEF Promise!Waiting
<1>9. Settled \in SUBSET Names /\ Failed \in SUBSET Names
  BY DEF Settled, Failed
<1>10. Promise!EndRound(Settled, Failed)
  BY <1>4, <1>6, <1>7, <1>8
     DEF Promise!EndRound, Promise!Nothing, Commit, files
<1> QED
  BY <1>9, <1>10

LEMMA PurgeRefines ==
  ASSUME TypeOK, OutboxInv, PurgeDeadLetters
  PROVE  Promise!GiveUp
<1> USE AssumptionsHold DEF Assumptions, PurgeDeadLetters, TypeOK, files
<1>1. PendingMail' = [n \in Names |->
                        IF PendingMail[n].tries >= MaxRetry
                        THEN [data |-> None, tries |-> 0]
                        ELSE PendingMail[n]]
  BY DEF PendingMail, DeadLetter, Present, NoRow, Row
<1> QED
  BY <1>1 DEF Promise!GiveUp, Promise!Nothing

LEMMA NextRefines ==
  ASSUME TypeOK, OutboxInv, [Next]_vars
  PROVE  [Promise!Next]_(Promise!vars)
<1>1. ASSUME PruneFlushed
      PROVE  UNCHANGED <<PendingMail, delivered>>
  BY <1>1 DEF PruneFlushed, PendingMail, Present, NoRow, files
<1>2. CASE UNCHANGED <<rows, delivered>>
  BY <1>2 DEF PendingMail, Promise!vars
<1> QED
  BY <1>1, <1>2, StageRefines, WriteOutboxRefines, CommitRefines,
     PurgeRefines
     DEF Next, vars, db, files, FlushStep, StageFails, BeginImmediate,
         NothingToFlush, BeginFails, WriteArchive, WriteFails, MarkFlushed,
         FlushFails, Crash, Rollback, Courier, Promise!Next, Promise!vars

(* The outbox implements at-least-once delivery with bounded retries.      *)
THEOREM OutboxImplementsPromise == Spec => ImplementsPromise
<1>1. TypeOK /\ OutboxInv /\ [Next]_vars => [Promise!Next]_(Promise!vars)
  BY NextRefines
<1> QED
  BY <1>1, InitRefines, InvariantHolds, PTL
     DEF Spec, ImplementsPromise, Promise!Spec

=============================================================================
