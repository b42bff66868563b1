---------------------------- MODULE LedgerProofs ----------------------------
(***************************************************************************)
(* Theorems about Ledger, for every number of runners, goroutines and      *)
(* events.  What is numbered is the union of two places, the ledger and    *)
(* the events in flight, so every part of the invariant speaks of both.    *)
(***************************************************************************)
EXTENDS Ledger, FiniteSetTheorems, TLAPS

Numbered == Global(ledger) \cup InFlight

(* Every number in use has been allocated.                                 *)
NumbersAreAllocated == \A e \in Numbered : 0 < e.seq /\ e.seq < counter

(* An event in hand is its runner's, and a recorder's continues its chain. *)
HandsAreOwn ==
  \A p \in Runners :
    /\ event[p] # NoEvent => event[p].by = p
    /\ pc[p] = "record" => event[p].cause = prevID[p] /\ event[p].type = "session"
    /\ pc[p] \in {"alloc", "cutover"} => event[p].cause = 0 /\ event[p].type = "system.cutover"

InLedger(id, p, n) == \E c \in ledger : c.id = id /\ c.by = p /\ c.seq < n

(* The ends of the chains are in the ledger, and so are all causes.        *)
ChainsAreStored ==
  /\ \A p \in Runners : prevID[p] # 0 => InLedger(prevID[p], p, counter)
  /\ \A e \in Numbered : e.cause # 0 => InLedger(e.cause, e.by, e.seq)

(* A number n covers what was loaded before it was read.                   *)
Covers(n, events, overlap) ==
  /\ \A e \in Numbered : e \in events \cup overlap \/ e.seq > n
  /\ n > 0 => \A e \in Global(events) : e.seq <= n

ReplayIsCovered ==
  /\ snapshot.seq < counter
  /\ Covers(snapshot.seq, snapshot.events, snapshot.overlap)
  /\ rebuild.at = "loaded" => rebuild.events \subseteq ledger
  /\ rebuild.at = "numbered" =>
       /\ rebuild.seq < counter
       /\ Covers(rebuild.seq, rebuild.events, rebuild.overlap)

LedgerInv ==
  /\ TypeOK
  /\ NumbersAreAllocated
  /\ UniqueSeqNr
  /\ HandsAreOwn
  /\ ChainsAreStored
  /\ ReplayIsCovered

(* The state before the first step.                                        *)
LEMMA InitInv == Init => LedgerInv
<1> SUFFICES ASSUME Init PROVE LedgerInv
    OBVIOUS
<1> USE MaxEventsAssumption DEF Init
<1>1. InFlight = {} /\ Global(ledger) = {}
  BY DEF InFlight, Global
<1>2. TypeOK
  BY DEF TypeOK, Rebuilds, Snapshots, NoRebuild, NoSnapshot, NoEvent, Instants
<1>3. NumbersAreAllocated /\ UniqueSeqNr /\ HandsAreOwn /\ ChainsAreStored
  BY <1>1 DEF NumbersAreAllocated, Numbered, UniqueSeqNr, HandsAreOwn,
              ChainsAreStored
<1>4. ReplayIsCovered
  BY <1>1 DEF ReplayIsCovered, Covers, Numbered, NoSnapshot, NoRebuild, Global
<1> QED
  BY <1>2, <1>3, <1>4 DEF LedgerInv

(***************************************************************************)
(* Types.                                                                  *)
(***************************************************************************)

LEMMA RunnerStepTypes ==
  ASSUME TypeOK, NEW p \in Runners,
         \/ CheckCounter(p) \/ LoadLegacy(p) \/ SaveSentinel(p)
         \/ AllocCutover(p) \/ AppendCutover(p) \/ OpenRecorder(p)
         \/ BuildEvent(p)
         \/ \E id \in Instants : Number(p, id) \/ NumberFails(p, id)
         \/ AppendRecord(p) \/ AppendRecordFails(p) \/ Stop(p)
  PROVE  TypeOK'
<1> USE MaxEventsAssumption DEF TypeOK, Goto, store, replay
<1>1. CASE CheckCounter(p) \/ LoadLegacy(p)
  BY <1>1 DEF CheckCounter, LoadLegacy
<1>2. CASE SaveSentinel(p)
  BY <1>2 DEF SaveSentinel, Events, NoEvent, Instants, NoSnapshot, Snapshots
<1>3. CASE AllocCutover(p)
  BY <1>3 DEF AllocCutover, Events, NoEvent
<1>4. CASE AppendCutover(p)
  BY <1>4 DEF AppendCutover
<1>5. CASE OpenRecorder(p)
  BY <1>5 DEF OpenRecorder
<1>6. CASE BuildEvent(p)
  BY <1>6 DEF BuildEvent, Instants
<1>7. CASE \E id \in Instants : Number(p, id)
  BY <1>7 DEF Number, Events, NoEvent, Instants
<1>8. CASE \E id \in Instants : NumberFails(p, id)
  BY <1>8 DEF NumberFails
<1>9. CASE AppendRecord(p)
  BY <1>9 DEF AppendRecord, Recorded, Events, NoEvent, Instants
<1>10. CASE AppendRecordFails(p)
  BY <1>10 DEF AppendRecordFails, Recorded
<1>11. CASE Stop(p)
  BY <1>11 DEF Stop
<1> QED
  BY <1>1, <1>2, <1>3, <1>4, <1>5, <1>6, <1>7, <1>8, <1>9, <1>10, <1>11

LEMMA TypePreserved == TypeOK /\ [Next]_vars => TypeOK'
<1> SUFFICES ASSUME TypeOK, [Next]_vars PROVE TypeOK'
    OBVIOUS
<1> USE MaxEventsAssumption DEF store, replay
<1>1. CASE ServerAppends
  BY <1>1 DEF ServerAppends, TypeOK, Events, Instants, runner, replay
<1>2. CASE ServerRestarts
  BY <1>2 DEF ServerRestarts, TypeOK, runner, replay, store
<1>3. CASE RebuildLoads
  BY <1>3 DEF RebuildLoads, TypeOK, Rebuilds, runner, store
<1>4. CASE RebuildNumbers
  <2>1. PICK n \in {0, LatestSeqNr} :
          rebuild' = [at |-> "numbered", seq |-> n, events |-> rebuild.events,
                      overlap |-> (ledger \ rebuild.events) \cup InFlight]
    BY <1>4 DEF RebuildNumbers
  <2>2. n \in Nat
    BY DEF LatestSeqNr, TypeOK
  <2>3. rebuild.events \subseteq Events
    BY <1>4 DEF RebuildNumbers, TypeOK, Rebuilds
  <2>4. InFlight \subseteq Events
    BY DEF InFlight, TypeOK
  <2>5. rebuild' \in Rebuilds
    BY <2>1, <2>2, <2>3, <2>4 DEF Rebuilds, TypeOK
  <2> QED
    BY <1>4, <2>5 DEF RebuildNumbers, TypeOK, runner, store
<1>5. CASE RebuildSaves
  BY <1>5 DEF RebuildSaves, TypeOK, Rebuilds, Snapshots, NoRebuild, runner, store
<1>6. CASE UNCHANGED vars
  BY <1>6 DEF vars, TypeOK, runner, store, replay
<1> QED
  BY <1>1, <1>2, <1>3, <1>4, <1>5, <1>6, RunnerStepTypes DEF Next

(***************************************************************************)
(* How the numbered events change.                                         *)
(***************************************************************************)

(* One event is numbered, with the counter's number.                       *)
Fresh(e) ==
  /\ Numbered' \subseteq Numbered \cup {e}
  /\ counter' = counter + 1
  /\ e.seq = counter
  /\ e.by \in Runners
  /\ e.cause \in {0, prevID[e.by]}

LEMMA NumberedMoves ==
  ASSUME TypeOK, HandsAreOwn, [Next]_vars
  PROVE  /\ ledger \subseteq ledger'
         /\ \/ Numbered' \subseteq Numbered /\ counter' = counter
            \/ \E e \in Events : Fresh(e)
<1> USE DEF Numbered, Global, InFlight, TypeOK, HandsAreOwn, Goto, store, replay
<1>1. CASE ServerAppends
  BY <1>1, ServerAssumption DEF ServerAppends, runner
<1>2. CASE ServerRestarts \/ RebuildLoads \/ RebuildNumbers \/ RebuildSaves
           \/ UNCHANGED vars
  BY <1>2 DEF ServerRestarts, RebuildLoads, RebuildNumbers, RebuildSaves, vars,
              runner, store
<1>3. ASSUME NEW p \in Runners,
             CheckCounter(p) \/ LoadLegacy(p) \/ SaveSentinel(p)
               \/ OpenRecorder(p) \/ BuildEvent(p)
      PROVE  Numbered' \subseteq Numbered /\ counter' = counter /\ ledger' = ledger
  BY <1>3 DEF CheckCounter, LoadLegacy, SaveSentinel, OpenRecorder, BuildEvent,
              store
<1>4. ASSUME NEW p \in Runners, \E id \in Instants : NumberFails(p, id)
      PROVE  Numbered' \subseteq Numbered /\ counter' = counter /\ ledger' = ledger
  BY <1>4 DEF NumberFails, store
<1>5. ASSUME NEW p \in Runners,
             AppendCutover(p) \/ AppendRecord(p) \/ AppendRecordFails(p)
               \/ Stop(p)
      PROVE  Numbered' \subseteq Numbered /\ counter' = counter
             /\ ledger \subseteq ledger'
  BY <1>5 DEF AppendCutover, AppendRecord, AppendRecordFails, Recorded, Stop
<1>6. ASSUME NEW p \in Runners,
             AllocCutover(p) \/ \E id \in Instants : Number(p, id)
      PROVE  Fresh(event'[p]) /\ event'[p] \in Events /\ ledger' = ledger
  <2>1. ledger' = ledger /\ counter' = counter + 1
    BY <1>6 DEF AllocCutover, Number, store
  <2>2. /\ event'[p] \in Events
        /\ event'[p].seq = counter /\ event'[p].by = p
        /\ event'[p].cause \in {0, prevID[p]}
    BY <1>6 DEF AllocCutover, Number, Events, NoEvent, Instants
  <2>3. Numbered' \subseteq Numbered \cup {event'[p]}
    BY <1>6, <2>1 DEF AllocCutover, Number
  <2> QED
    BY <2>1, <2>2, <2>3 DEF Fresh
<1> HIDE DEF Numbered, Global, InFlight, TypeOK, HandsAreOwn, Goto, store, replay
<1> QED
  BY <1>1, <1>2, <1>3, <1>4, <1>5, <1>6 DEF Next

(***************************************************************************)
(* Each part is preserved.                                                 *)
(***************************************************************************)

LEMMA HandsPreserved ==
  TypeOK /\ HandsAreOwn /\ [Next]_vars => HandsAreOwn'
<1> SUFFICES ASSUME TypeOK, HandsAreOwn, [Next]_vars PROVE HandsAreOwn'
    OBVIOUS
<1> USE DEF TypeOK, HandsAreOwn, Goto, store, replay
<1>1. CASE UNCHANGED runner
  BY <1>1 DEF runner
<1>2. ASSUME NEW p \in Runners,
             \/ CheckCounter(p) \/ LoadLegacy(p) \/ SaveSentinel(p)
             \/ AllocCutover(p) \/ AppendCutover(p) \/ OpenRecorder(p)
      PROVE  HandsAreOwn'
  BY <1>2 DEF CheckCounter, LoadLegacy, SaveSentinel, AllocCutover,
              AppendCutover, OpenRecorder, NoEvent, Events
<1>3. ASSUME NEW p \in Runners,
             \/ BuildEvent(p) \/ AppendRecord(p) \/ AppendRecordFails(p) \/ Stop(p)
      PROVE  HandsAreOwn'
  BY <1>3 DEF BuildEvent, AppendRecord, AppendRecordFails, Recorded, Stop, NoEvent
<1>4. ASSUME NEW p \in Runners, NEW id \in Instants, Number(p, id) \/ NumberFails(p, id)
      PROVE  HandsAreOwn'
  BY <1>4 DEF Number, NumberFails, NoEvent
<1>5. CASE \/ ServerAppends \/ ServerRestarts \/ RebuildLoads \/ RebuildNumbers
           \/ RebuildSaves \/ UNCHANGED vars
  BY <1>1, <1>5 DEF ServerAppends, ServerRestarts, RebuildLoads, RebuildNumbers,
                    RebuildSaves, vars
<1> HIDE DEF TypeOK, HandsAreOwn
<1> QED
  BY <1>2, <1>3, <1>4, <1>5 DEF Next

LEMMA NumbersPreserved ==
  ASSUME TypeOK, HandsAreOwn, NumbersAreAllocated, UniqueSeqNr, [Next]_vars
  PROVE  NumbersAreAllocated' /\ UniqueSeqNr'
<1> USE DEF NumbersAreAllocated, UniqueSeqNr
<1>1. counter \in Nat /\ counter > 0
  BY DEF TypeOK
<1>2. \A e \in Numbered : e.seq \in Nat
  BY DEF TypeOK, Numbered, InFlight, Global, Events, NoEvent
<1>3. UniqueSeqNr <=> \A e, f \in Numbered : e.seq = f.seq => e = f
  BY DEF Numbered
<1>4. UniqueSeqNr' <=> \A e, f \in Numbered' : e.seq = f.seq => e = f
  BY DEF Numbered
<1>5. CASE Numbered' \subseteq Numbered /\ counter' = counter
  BY <1>3, <1>4, <1>5
<1>6. CASE \E e \in Events : Fresh(e)
  BY <1>1, <1>2, <1>3, <1>4, <1>6 DEF Fresh
<1> QED
  BY <1>5, <1>6, NumberedMoves

LEMMA ChainsPreserved ==
  ASSUME TypeOK, HandsAreOwn, NumbersAreAllocated, ChainsAreStored, [Next]_vars
  PROVE  ChainsAreStored'
<1> USE DEF InLedger
<1>1. counter \in Nat /\ counter' \in Nat /\ counter <= counter' /\ ledger \subseteq ledger'
  BY NumberedMoves DEF TypeOK, Fresh
<1>2. \A c \in ledger : c.seq \in Nat
  BY DEF TypeOK, Events
<1>3. ASSUME NEW e \in Numbered', e.cause # 0 PROVE InLedger(e.cause, e.by, e.seq)'
  <2>1. CASE e \in Numbered
    BY <1>1, <1>3, <2>1 DEF ChainsAreStored
  <2>2. CASE Fresh(e)
    BY <1>1, <1>3, <2>2 DEF Fresh, ChainsAreStored
  <2> QED
    BY <1>3, <2>1, <2>2, NumberedMoves DEF Fresh
<1>4. ASSUME NEW p \in Runners, prevID'[p] # 0, prevID'[p] = prevID[p]
      PROVE  InLedger(prevID[p], p, counter)'
  BY <1>1, <1>2, <1>4 DEF ChainsAreStored
<1>5. ASSUME NEW p \in Runners, prevID'[p] # 0, prevID'[p] # prevID[p]
      PROVE  InLedger(prevID[p], p, counter)'
  <2>1. CASE OpenRecorder(p)
    <3>1. PICK c \in ledger : c.by = p /\ c.id = prevID'[p]
      BY <1>5, <2>1 DEF OpenRecorder, IsLast, IdsOf, TypeOK
    <3>2. c \in Numbered
      BY <3>1, ServerAssumption DEF Numbered, Global
    <3> QED
      BY <1>1, <1>2, <3>1, <3>2 DEF NumbersAreAllocated
  <2>2. CASE AppendRecord(p)
    <3>1. /\ pc[p] = "record" /\ event[p] \in ledger'
          /\ prevID'[p] = event[p].id
      BY <2>2 DEF AppendRecord, Recorded, Goto, TypeOK
    <3>2. event[p] \in InFlight /\ event[p].by = p
      BY <3>1 DEF InFlight, HandsAreOwn, TypeOK
    <3> QED
      BY <1>1, <3>1, <3>2 DEF NumbersAreAllocated, Numbered, TypeOK, Events, NoEvent
  <2> QED
    <3>1. prevID' # prevID
      BY <1>5
    <3>2. \E q \in Runners : OpenRecorder(q) \/ AppendRecord(q) \/ Stop(q)
      BY <3>1 DEF Next, vars, runner, store, ServerAppends, ServerRestarts,
         CheckCounter, LoadLegacy, SaveSentinel, AllocCutover, AppendCutover,
         BuildEvent, Number, NumberFails, AppendRecordFails, RebuildLoads,
         RebuildNumbers, RebuildSaves
    <3>3. ASSUME NEW q \in Runners, OpenRecorder(q) \/ AppendRecord(q) \/ Stop(q)
          PROVE  q = p /\ ~Stop(q)
      BY <1>5, <3>3 DEF OpenRecorder, AppendRecord, Stop, TypeOK
    <3> QED
      BY <2>1, <2>2, <3>2, <3>3
<1> QED
  BY <1>3, <1>4, <1>5 DEF ChainsAreStored

LEMMA CoversPreserved ==
  ASSUME TypeOK, HandsAreOwn, [Next]_vars,
         NEW n \in Nat, n < counter, NEW events, NEW overlap,
         Covers(n, events, overlap)
  PROVE  Covers(n, events, overlap)'
<1>1. \A e \in Numbered' : e \in events \cup overlap \/ e.seq > n
  BY NumberedMoves DEF Covers, Fresh, TypeOK
<1> QED
  BY <1>1 DEF Covers, Global

LEMMA SavedStaysCovered ==
  ASSUME TypeOK, HandsAreOwn, [Next]_vars, ReplayIsCovered,
         snapshot' = snapshot
  PROVE  snapshot'.seq < counter'
         /\ Covers(snapshot.seq, snapshot.events, snapshot.overlap)'
<1>1. PICK n, events, overlap :
        n = snapshot.seq /\ events = snapshot.events /\ overlap = snapshot.overlap
  OBVIOUS
<1>2. n \in Nat /\ n < counter /\ Covers(n, events, overlap)
  BY <1>1 DEF TypeOK, Snapshots, ReplayIsCovered
<1>3. Covers(n, events, overlap)'
  BY <1>2, CoversPreserved
<1>4. counter <= counter'
  BY NumberedMoves DEF TypeOK, Fresh
<1>5. counter' \in Nat
  BY TypePreserved DEF TypeOK
<1> QED
  BY <1>1, <1>2, <1>3, <1>4, <1>5 DEF TypeOK

LEMMA RunningStaysCovered ==
  ASSUME TypeOK, HandsAreOwn, [Next]_vars, ReplayIsCovered,
         rebuild' = rebuild
  PROVE  /\ rebuild'.at = "loaded" => rebuild'.events \subseteq ledger'
         /\ rebuild'.at = "numbered" =>
              /\ rebuild'.seq < counter'
              /\ Covers(rebuild.seq, rebuild.events, rebuild.overlap)'
<1>1. CASE rebuild.at = "loaded"
  BY <1>1, NumberedMoves DEF ReplayIsCovered
<1>2. CASE rebuild.at = "numbered"
  <2>1. PICK n, events, overlap :
          n = rebuild.seq /\ events = rebuild.events /\ overlap = rebuild.overlap
    OBVIOUS
  <2>2. n \in Nat /\ n < counter /\ Covers(n, events, overlap)
    BY <1>2, <2>1 DEF TypeOK, Rebuilds, ReplayIsCovered
  <2>3. Covers(n, events, overlap)'
    BY <2>2, CoversPreserved
  <2>4. counter <= counter' /\ counter' \in Nat
    BY NumberedMoves, TypePreserved DEF TypeOK, Fresh
  <2> QED
    BY <1>2, <2>1, <2>2, <2>3, <2>4 DEF TypeOK
<1> QED
  BY <1>1, <1>2

LEMMA ReplayPreserved ==
  ASSUME TypeOK, HandsAreOwn, NumbersAreAllocated, UniqueSeqNr, ReplayIsCovered,
         [Next]_vars
  PROVE  ReplayIsCovered'
<1>1. TypeOK' /\ NumbersAreAllocated'
  BY TypePreserved, NumbersPreserved
<1>2. CASE RebuildLoads
  <2>1. snapshot' = snapshot /\ rebuild' = [at |-> "loaded", events |-> ledger]
        /\ ledger' = ledger
    BY <1>2 DEF RebuildLoads, store
  <2> QED
    BY <2>1, SavedStaysCovered DEF ReplayIsCovered
<1>3. CASE RebuildNumbers
  <2>1. PICK n \in {0, LatestSeqNr} :
          rebuild' = [at |-> "numbered", seq |-> n, events |-> rebuild.events,
                      overlap |-> (ledger \ rebuild.events) \cup InFlight]
    BY <1>3 DEF RebuildNumbers
  <2>2. snapshot' = snapshot /\ counter' = counter /\ Numbered' = Numbered
        /\ rebuild.at = "loaded"
    BY <1>3 DEF RebuildNumbers, Numbered, Global, InFlight, store, runner
  <2>3. n \in Nat /\ n < counter
    BY DEF LatestSeqNr, TypeOK
  <2>4. \A e \in Numbered : e \in rebuild.events \cup rebuild'.overlap
    BY <2>1 DEF Numbered, Global
  <2>5. ASSUME n > 0 PROVE \A e \in Global(rebuild.events) : e.seq <= n
    <3>1. Global(rebuild.events) \subseteq Numbered
      BY <2>2 DEF ReplayIsCovered, Global, Numbered
    <3>2. n = counter - 1
      BY <2>5 DEF LatestSeqNr
    <3>3. \A e \in Numbered : e.seq \in Int
      BY DEF TypeOK, Numbered, InFlight, Global, Events, NoEvent
    <3> QED
      BY <3>1, <3>2, <3>3 DEF NumbersAreAllocated, TypeOK
  <2>6. Covers(rebuild.seq, rebuild.events, rebuild.overlap)'
    BY <2>1, <2>2, <2>4, <2>5 DEF Covers, Global
  <2> QED
    BY <2>1, <2>2, <2>3, <2>6, SavedStaysCovered DEF ReplayIsCovered
<1>4. CASE RebuildSaves
  <2>1. /\ snapshot'.seq = rebuild.seq /\ snapshot'.events = rebuild.events
        /\ snapshot'.overlap = rebuild.overlap /\ rebuild'.at = "idle"
        /\ rebuild.at = "numbered" /\ counter' = counter /\ Numbered' = Numbered
    BY <1>4 DEF RebuildSaves, NoRebuild, Numbered, Global, InFlight, store, runner
  <2> QED
    BY <2>1 DEF ReplayIsCovered, Covers
<1>5. ASSUME NEW p \in Runners, SaveSentinel(p) PROVE ReplayIsCovered'
  <2>1. rebuild' = rebuild /\ snapshot' = NoSnapshot
    BY <1>5 DEF SaveSentinel
  <2>2. Covers(0, {}, {})'
    BY <1>1 DEF Covers, NumbersAreAllocated, Global
  <2> QED
    BY <1>1, <2>1, <2>2, RunningStaysCovered
       DEF ReplayIsCovered, NoSnapshot, TypeOK, Covers
<1>6. CASE rebuild' = rebuild /\ snapshot' = snapshot
  BY <1>6, SavedStaysCovered, RunningStaysCovered DEF ReplayIsCovered
<1> QED
  BY <1>2, <1>3, <1>4, <1>5, <1>6
     DEF Next, vars, replay, ServerAppends, ServerRestarts, CheckCounter,
         LoadLegacy, AllocCutover, AppendCutover, OpenRecorder, BuildEvent,
         Number, NumberFails, AppendRecord, AppendRecordFails, Stop

(***************************************************************************)
(* The theorems.                                                           *)
(***************************************************************************)

LEMMA StepInv == LedgerInv /\ [Next]_vars => LedgerInv'
BY TypePreserved, HandsPreserved, NumbersPreserved, ChainsPreserved,
   ReplayPreserved DEF LedgerInv

(* LedgerInv is an inductive invariant.                                    *)
THEOREM LedgerInvHolds == Spec => []LedgerInv
BY InitInv, StepInv, PTL DEF Spec

(* Numbers from the counter are never given twice (AllocSeqNr), by any     *)
(* number of runners, through crashes and concurrent cutovers.             *)
THEOREM UniqueSeqNrHolds == Spec => []UniqueSeqNr
<1>1. LedgerInv => UniqueSeqNr
  BY DEF LedgerInv
<1> QED
  BY <1>1, LedgerInvHolds, PTL

(* Record's causation: a cause is stored, and numbered before its effect.  *)
THEOREM CauseIsEarlierHolds == Spec => []CauseIsEarlier
<1>1. LedgerInv => CauseIsEarlier
  BY DEF LedgerInv, ChainsAreStored, CauseIsEarlier, Numbered, InLedger
<1> QED
  BY <1>1, LedgerInvHolds, PTL

(* What rebuild saves and LoadAfterSeqNr completes misses only the events  *)
(* recorded while the rebuild was reading.                                 *)
THEOREM RecoveryIsExactHolds == Spec => []RecoveryIsExact
<1>1. LedgerInv => RecoveryIsExact
  <2> SUFFICES ASSUME LedgerInv PROVE RecoveryIsExact
      OBVIOUS
  <2>1. Covers(snapshot.seq, snapshot.events, snapshot.overlap)
    BY DEF LedgerInv, ReplayIsCovered
  <2>2. Global(ledger) \subseteq
          snapshot.events \cup snapshot.overlap \cup LoadAfterSeqNr(snapshot.seq)
    BY <2>1 DEF Covers, Numbered, LoadAfterSeqNr, Global
  <2>3. snapshot.seq > 0 =>
          Global(snapshot.events) \cap LoadAfterSeqNr(snapshot.seq) = {}
    <3>1. snapshot.seq \in Nat /\ \A e \in snapshot.events : e.seq \in Nat
      BY DEF LedgerInv, TypeOK, Snapshots, Events
    <3> QED
      BY <2>1, <3>1 DEF Covers, LoadAfterSeqNr, Global
  <2> QED
    BY <2>2, <2>3 DEF RecoveryIsExact
<1> QED
  BY <1>1, LedgerInvHolds, PTL

(***************************************************************************)
(* One goroutine per runner: the chains of the sessions are linear.        *)
(***************************************************************************)

IsOf(e, p) == e.by = p /\ e.type = "session"

(* Events are recorded in the order in which they were stamped.            *)
RecordedInOrder ==
  /\ \A e \in ledger : e.id <= clock
  /\ \A p \in Runners : \A id \in built[p] :
       /\ id <= clock
       /\ \A e \in ledger : IsOf(e, p) => e.id < id
  /\ \A p \in Runners : \A x, y \in built[p] : x = y
  /\ \A p \in Runners : pc[p] = "record" => event[p].id \in built[p]
  /\ \A p \in Runners : event[p] # NoEvent => event[p].id <= clock

(* The end of a chain is behind everything the session recorded.           *)
EndsAreLast ==
  /\ acked \subseteq ledger
  /\ \A e \in acked : IsOf(e, e.by) /\ e.by \in Runners /\ e.cause < e.id
  /\ \A p \in Runners : prevID[p] # 0 =>
       \E c \in ledger : c.id = prevID[p] /\ IsOf(c, p)
  /\ \A p \in Runners : pc[p] \in {"ready", "record"} =>
       \A e \in acked : e.by = p => e.id <= prevID[p]

LEMMA OrderPreserved ==
  ASSUME Callers = 1, TypeOK, HandsAreOwn, RecordedInOrder, [Next]_vars
  PROVE  RecordedInOrder'
<1> USE MaxEventsAssumption DEF TypeOK, RecordedInOrder, IsOf, Goto, store, replay
<1>1. CASE ServerAppends
  <2>1. /\ \A e \in ledger' : e \in ledger \/ (e.id = clock + 1 /\ e.by = Server)
        /\ clock' = clock + 1 /\ UNCHANGED <<pc, built, event>>
    BY <1>1 DEF ServerAppends, runner
  <2>2. \A p \in Runners : event[p] # NoEvent => event[p].id \in Instants
    BY DEF Events
  <2> QED
    BY <2>1, <2>2, ServerAssumption DEF Events, Instants
<1>2. CASE ServerRestarts \/ RebuildLoads \/ RebuildNumbers \/ RebuildSaves
           \/ UNCHANGED vars
  BY <1>2 DEF ServerRestarts, RebuildLoads, RebuildNumbers, RebuildSaves, vars,
              runner
<1>3. ASSUME NEW p \in Runners, CheckCounter(p) \/ LoadLegacy(p) \/ OpenRecorder(p)
      PROVE  RecordedInOrder'
  BY <1>3 DEF CheckCounter, LoadLegacy, OpenRecorder
<1>3a. ASSUME NEW p \in Runners, SaveSentinel(p) \/ AllocCutover(p)
      PROVE  RecordedInOrder'
  <2>1. /\ ledger' = ledger /\ built' = built /\ clock' \in {clock, clock + 1}
        /\ pc'[p] # "record" /\ \A q \in Runners \ {p} : pc'[q] = pc[q]
    BY <1>3a DEF SaveSentinel, AllocCutover
  <2>2. event'[p].id <= clock' /\ \A q \in Runners \ {p} : event'[q] = event[q]
    BY <1>3a DEF SaveSentinel, AllocCutover, Events, NoEvent
  <2>3. \A q \in Runners : event[q] # NoEvent => event[q].id \in Instants
    BY DEF Events
  <2> QED
    BY <2>1, <2>2, <2>3 DEF Events, Instants
<1>4. ASSUME NEW p \in Runners, AppendCutover(p)
      PROVE  RecordedInOrder'
  BY <1>4 DEF AppendCutover, HandsAreOwn, NoEvent
<1>5. ASSUME NEW p \in Runners, BuildEvent(p)
      PROVE  RecordedInOrder'
  <2>1. built[p] = {}
    <3>1. built[p] \subseteq 1..MaxEvents
      BY DEF Instants
    <3>2. IsFiniteSet(built[p])
      <4>1. IsFiniteSet(1..MaxEvents)
        BY FS_Interval, MaxEventsAssumption
      <4> QED
        BY <3>1, <4>1, FS_Subset
    <3>3. Cardinality(built[p]) = 0
      BY <1>5, <3>2, FS_CardinalityType DEF BuildEvent
    <3> QED
      BY <3>2, <3>3, FS_EmptySet
  <2> QED
    BY <1>5, <2>1 DEF BuildEvent, Events, NoEvent, Instants
<1>6. ASSUME NEW p \in Runners, NEW id \in Instants, Number(p, id)
      PROVE  RecordedInOrder'
  BY <1>6 DEF Number, NoEvent
<1>7. ASSUME NEW p \in Runners, NEW id \in Instants, NumberFails(p, id)
      PROVE  RecordedInOrder'
  BY <1>7 DEF NumberFails
<1>8. ASSUME NEW p \in Runners, AppendRecord(p) \/ AppendRecordFails(p) \/ Stop(p)
      PROVE  RecordedInOrder'
  <2>1. \A e \in ledger' : e \in ledger \/ (e = event[p] /\ event[p] # NoEvent)
    BY <1>8 DEF AppendRecord, AppendRecordFails, Recorded, Stop
  <2>2. built'[p] = {} /\ \A q \in Runners \ {p} : built'[q] = built[q]
    BY <1>8 DEF AppendRecord, AppendRecordFails, Recorded, Stop
  <2>3. event'[p] = NoEvent /\ pc'[p] # "record" /\ clock' = clock
        /\ \A q \in Runners \ {p} : event'[q] = event[q] /\ pc'[q] = pc[q]
    BY <1>8 DEF AppendRecord, AppendRecordFails, Recorded, Stop
  <2>4. event[p] # NoEvent => event[p].by = p
    BY DEF HandsAreOwn
  <2> QED
    BY <2>1, <2>2, <2>3, <2>4
<1> HIDE DEF TypeOK, RecordedInOrder
<1> QED
  BY <1>1, <1>2, <1>3, <1>4, <1>5, <1>6, <1>7, <1>8, <1>3a DEF Next

LEMMA EndsPreserved ==
  ASSUME TypeOK, HandsAreOwn, RecordedInOrder, EndsAreLast, AckedChainIsLinear,
         [Next]_vars
  PROVE  EndsAreLast' /\ AckedChainIsLinear'
<1> USE DEF EndsAreLast, AckedChainIsLinear, IsOf, Goto, store, replay
<1>1. CASE \/ ServerAppends \/ ServerRestarts \/ RebuildLoads \/ RebuildNumbers
           \/ RebuildSaves \/ UNCHANGED vars
  BY <1>1 DEF ServerAppends, ServerRestarts, RebuildLoads, RebuildNumbers,
              RebuildSaves, vars, runner
<1>2. ASSUME NEW p \in Runners,
             \/ CheckCounter(p) \/ LoadLegacy(p) \/ SaveSentinel(p)
             \/ AllocCutover(p) \/ AppendCutover(p) \/ BuildEvent(p)
      PROVE  EndsAreLast' /\ AckedChainIsLinear'
  BY <1>2 DEF CheckCounter, LoadLegacy, SaveSentinel, AllocCutover,
              AppendCutover, BuildEvent, TypeOK
<1>3. ASSUME NEW p \in Runners, NEW id \in Instants, Number(p, id) \/ NumberFails(p, id)
      PROVE  EndsAreLast' /\ AckedChainIsLinear'
  BY <1>3 DEF Number, NumberFails, TypeOK
<1>4. ASSUME NEW p \in Runners, AppendRecordFails(p) \/ Stop(p)
      PROVE  EndsAreLast' /\ AckedChainIsLinear'
  BY <1>4 DEF AppendRecordFails, Recorded, Stop, TypeOK
<1>5. ASSUME NEW p \in Runners, OpenRecorder(p)
      PROVE  EndsAreLast' /\ AckedChainIsLinear'
  <2>1. /\ ledger' = ledger /\ acked' = acked
        /\ IsLast(prevID'[p], IdsOf(ledger, p))
        /\ \A q \in Runners \ {p} : prevID'[q] = prevID[q] /\ pc'[q] = pc[q]
    BY <1>5 DEF OpenRecorder, TypeOK
  <2>2. \A e \in acked : e.by = p => e.id \in IdsOf(ledger, p)
    BY DEF IdsOf
  <2> QED
    BY <2>1, <2>2 DEF IsLast, IdsOf
<1>6. ASSUME NEW p \in Runners, AppendRecord(p)
      PROVE  EndsAreLast' /\ AckedChainIsLinear'
  <2> DEFINE f == event[p]
  <2>1. /\ ledger' = ledger \cup {f} /\ acked' = acked \cup {f}
        /\ prevID'[p] = f.id /\ pc[p] = "record"
        /\ \A q \in Runners \ {p} : prevID'[q] = prevID[q] /\ pc'[q] = pc[q]
    BY <1>6 DEF AppendRecord, Recorded, TypeOK
  <2>2. IsOf(f, p) /\ f.cause = prevID[p] /\ f \in Events
    BY <2>1 DEF HandsAreOwn, TypeOK
  <2>3. prevID[p] < f.id
    BY <2>1, <2>2 DEF RecordedInOrder, Events, Instants
  <2>4. /\ \A e \in acked : e \in Events
        /\ prevID[p] \in Int
    BY DEF TypeOK
  <2>5. \A e \in acked : e.by = p => e.id < f.id /\ e.cause < f.cause
    BY <2>1, <2>2, <2>3, <2>4 DEF Events, Instants
  <2>6. AckedChainIsLinear'
    BY <2>1, <2>2, <2>4, <2>5 DEF Events
  <2>7. EndsAreLast'
    BY <2>1, <2>2, <2>3, <2>4, <2>5 DEF Events, Instants
  <2> QED
    BY <2>6, <2>7
<1> HIDE DEF EndsAreLast, AckedChainIsLinear
<1> QED
  BY <1>1, <1>2, <1>3, <1>4, <1>5, <1>6 DEF Next

(* Across restarts and failed appends, the recorded events of a session    *)
(* form one chain, if its runner records with one goroutine.               *)
THEOREM AckedChainIsLinearHolds ==
  ASSUME Callers = 1
  PROVE  Spec => []AckedChainIsLinear
<1> DEFINE Inv == RecordedInOrder /\ EndsAreLast /\ AckedChainIsLinear
<1>1. Init => Inv
  BY DEF Init, RecordedInOrder, EndsAreLast, AckedChainIsLinear
<1>2. LedgerInv /\ Inv /\ [Next]_vars => Inv'
  BY OrderPreserved, EndsPreserved DEF LedgerInv
<1> QED
  BY <1>1, <1>2, LedgerInvHolds, PTL DEF Spec
=============================================================================
