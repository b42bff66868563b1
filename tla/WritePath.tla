------------------------------ MODULE WritePath -----------------------------
(***************************************************************************)
(* The write path of the scan and wave tools of `sightjack mcp`            *)
(* (internal/session/mcp_write_tools.go): save_scan_result and             *)
(* register_waves write their read-model files first, then append one      *)
(* event to the ledger through the session emitter                         *)
(* (internal/usecase/emitter.go) and the file event store; and `sightjack  *)
(* rebuild` (cmd/rebuild.go), which replays the ledger into a snapshot.    *)
(*                                                                         *)
(* Any number of server processes share one project: they have no lock in  *)
(* common, only atomic renames and O_APPEND writes.  A design is one wave  *)
(* per cluster, so the projection's key cluster:wave is the cluster.       *)
(* Arguments the handlers refuse before any effect are left out, and so is *)
(* SeqNr, which these processes number from 1 each and nothing here reads. *)
(***************************************************************************)
EXTENDS Integers, FiniteSets, EventFile

CONSTANTS
  Procs,        \* `sightjack mcp` processes
  Clusters,     \* cluster names
  Slugs,        \* file name fragments
  SlugOf,       \* scanFileSlug, a function from Clusters to Slugs
  Versions,     \* contents of a scan or of a design
  ScanInputs,   \* the sequences of clusters save_scan_result is called with
  DesignInputs, \* the clusters register_waves is called for
  Days,         \* dates, one ledger file each
  DayOf,        \* the date of each instant
  MaxEvents,    \* bound: number of events stamped
  ShortWrites   \* whether an append may stop in the middle of an event

Instants == 1..MaxEvents

ASSUME SlugAssumption == SlugOf \in [Clusters -> Slugs]
ASSUME ScanInputsAssumption == ScanInputs \subseteq Seq(Clusters) \ {<<>>}
ASSUME DesignInputsAssumption == DesignInputs \subseteq Clusters
ASSUME MaxEventsAssumption == MaxEvents \in Nat
ASSUME DayAssumption == DayOf \in [Instants -> Days]
ASSUME ShortWritesAssumption == ShortWrites \in BOOLEAN

VARIABLES
  readModel,  \* per tool, the scan-dir file of each slug: cluster and version
  written,    \* history: every <<tool, cluster, version>> renamed into place
  ledger,     \* events/: the JSONL file of each day
  acked,      \* history: the events whose append was reported as persisted
  clock,      \* the last instant an event was stamped with
  pc,         \* where each process is in its tool call
  call,       \* the arguments of that call
  todo,       \* the clusters whose files the call has still to write
  event,      \* the event the call is appending
  prevID,     \* per process, the emitter's last persisted event
  rebuild,    \* the running `sightjack rebuild`, if any
  snapshot    \* snapshots/sightjack.state.json

server  == <<pc, call, todo, event, prevID>>
effects == <<readModel, written>>
store   == <<ledger, acked, clock>>
replay  == <<rebuild, snapshot>>
vars    == <<server, effects, store, replay>>

Tools == {"save_scan_result", "register_waves"}

NoCall == [tool |-> "none"]
NoEvent == [id |-> 0]
NoContent == [cluster |-> "none"]

Calls ==
  [tool : {"register_waves"}, clusters : {<<c>> : c \in DesignInputs},
   version : Versions]
    \cup [tool : {"save_scan_result"}, clusters : ScanInputs,
          version : Versions]

Contents == [cluster : Clusters, version : Versions]

(* An event; cause is the CausationID, 0 when there is none.               *)
Events == [id : Instants, cause : 0..MaxEvents, body : Calls]

Loaded == UNION {LinesOf(ledger[d]) : d \in Days}

NoRebuild == [running |-> FALSE, unread |-> {}, seen |-> <<>>, owed |-> {}]

(* The snapshot: the instant of the scan it shows, and the first design of *)
(* each cluster it has seen.                                               *)
EmptyState == [scan |-> 0, designs |-> [c \in Clusters |-> 0]]

Init ==
  /\ readModel = [t \in Tools |-> [s \in Slugs |-> NoContent]]
  /\ written = {}
  /\ ledger = [d \in Days |-> NoFile]
  /\ acked = {}
  /\ clock = 0
  /\ pc = [p \in Procs |-> "idle"]
  /\ call = [p \in Procs |-> NoCall]
  /\ todo = [p \in Procs |-> <<>>]
  /\ event = [p \in Procs |-> NoEvent]
  /\ prevID = [p \in Procs |-> 0]
  /\ rebuild = NoRebuild
  /\ snapshot = EmptyState

StoreTypes ==
  /\ ledger \in [Days -> Files(Events)]
  /\ clock \in 0..MaxEvents
  /\ pc \in [Procs -> {"idle", "files", "append"}]
  /\ call \in [Procs -> Calls \cup {NoCall}]
  /\ todo \in [Procs -> Seq(Clusters)]
  /\ event \in [Procs -> Events \cup {NoEvent}]
  /\ prevID \in [Procs -> 0..MaxEvents]
  /\ \A p \in Procs :
       /\ pc[p] = "idle" <=> call[p] = NoCall
       /\ pc[p] = "append" <=> event[p] # NoEvent

TypeOK ==
  /\ StoreTypes
  /\ readModel \in [Tools -> [Slugs -> Contents \cup {NoContent}]]
  /\ written \subseteq Tools \X Clusters \X Versions
  /\ acked \subseteq Events
  /\ rebuild \in [running : BOOLEAN, unread : SUBSET Days,
                  seen : Seq(Events), owed : SUBSET Events]
  /\ snapshot \in [scan : 0..MaxEvents, designs : [Clusters -> 0..MaxEvents]]

-----------------------------------------------------------------------------
(* A tool call.                                                            *)

(* The handler answers and waits for the next request.  That it answered   *)
(* "files+event-store" is kept in acked.                                   *)
Answer(p) ==
  /\ pc' = [pc EXCEPT ![p] = "idle"]
  /\ call' = [call EXCEPT ![p] = NoCall]
  /\ todo' = [todo EXCEPT ![p] = <<>>]
  /\ event' = [event EXCEPT ![p] = NoEvent]

StartCall(p, c) ==
  /\ pc[p] = "idle"
  /\ pc' = [pc EXCEPT ![p] = "files"]
  /\ call' = [call EXCEPT ![p] = c]
  /\ todo' = [todo EXCEPT ![p] = c.clusters]
  /\ UNCHANGED <<event, prevID, effects, store, replay>>

(* atomicWrite of wave_<slug>.json or of the next cluster_<slug>.json.     *)
WriteFile(p) ==
  LET c == Head(todo[p])
      t == call[p].tool
      v == call[p].version
  IN
  /\ pc[p] = "files"
  /\ todo[p] # <<>>
  /\ readModel' = [readModel EXCEPT ![t][SlugOf[c]] =
                     [cluster |-> c, version |-> v]]
  /\ written' = written \cup {<<t, c, v>>}
  /\ todo' = [todo EXCEPT ![p] = Tail(@)]
  /\ UNCHANGED <<pc, call, event, prevID, store, replay>>

(* Mutant: a file that cannot be written is skipped.                       *)
WriteFileSkips(p) ==
  /\ pc[p] = "files"
  /\ todo[p] # <<>>
  /\ todo' = [todo EXCEPT ![p] = Tail(@)]
  /\ UNCHANGED <<pc, call, event, prevID, effects, store, replay>>

(* The directory or a file cannot be written: the call is refused, and the *)
(* files it wrote before stay.                                             *)
WriteFileFails(p) ==
  /\ pc[p] = "files"
  /\ todo[p] # <<>>
  /\ Answer(p)
  /\ UNCHANGED <<prevID, effects, store, replay>>

(* Mutant: the causation chain moves on before the event is stored.        *)
StampAdvancesChain(p) ==
  /\ pc[p] = "files"
  /\ todo[p] = <<>>
  /\ clock < MaxEvents
  /\ clock' = clock + 1
  /\ event' = [event EXCEPT ![p] =
                 [id |-> clock + 1, cause |-> prevID[p], body |-> call[p]]]
  /\ prevID' = [prevID EXCEPT ![p] = clock + 1]
  /\ pc' = [pc EXCEPT ![p] = "append"]
  /\ UNCHANGED <<call, todo, effects, ledger, acked, replay>>

(* The aggregate makes the event, at time.Now, and the emitter fills in    *)
(* its CausationID.                                                        *)
Stamp(p) ==
  /\ pc[p] = "files"
  /\ todo[p] = <<>>
  /\ clock < MaxEvents
  /\ clock' = clock + 1
  /\ event' = [event EXCEPT ![p] =
                 [id |-> clock + 1, cause |-> prevID[p], body |-> call[p]]]
  /\ pc' = [pc EXCEPT ![p] = "append"]
  /\ UNCHANGED <<call, todo, prevID, effects, ledger, acked, replay>>

(* The file of the event's day.                                            *)
Day(p) == DayOf[event[p].id]

AppendEvent(p) ==
  /\ pc[p] = "append"
  /\ ledger' = [ledger EXCEPT ![Day(p)] = Appended(@, event[p])]
  /\ acked' = acked \cup {event[p]}
  /\ prevID' = [prevID EXCEPT ![p] = event[p].id]
  /\ Answer(p)
  /\ UNCHANGED <<clock, effects, replay>>

(* Mutant: the emitter logs the append error and reports success.          *)
AppendErrorLogged(p) ==
  /\ pc[p] = "append"
  /\ \E f \in Unacknowledged(ledger[Day(p)], event[p], ShortWrites) :
       ledger' = [ledger EXCEPT ![Day(p)] = f]
  /\ acked' = acked \cup {event[p]}
  /\ Answer(p)
  /\ UNCHANGED <<prevID, clock, effects, replay>>

(* The append returned an error; the answer says to run the tool again.    *)
AppendFails(p) ==
  /\ pc[p] = "append"
  /\ \E f \in Unacknowledged(ledger[Day(p)], event[p], ShortWrites) :
       ledger' = [ledger EXCEPT ![Day(p)] = f]
  /\ Answer(p)
  /\ UNCHANGED <<prevID, acked, clock, effects, replay>>

(* The server dies, possibly within the append, and is started again with  *)
(* a new emitter.                                                          *)
Crash(p) ==
  /\ Answer(p)
  /\ prevID' = [prevID EXCEPT ![p] = 0]
  /\ \/ UNCHANGED ledger
     \/ /\ pc[p] = "append"
        /\ \E f \in Unacknowledged(ledger[Day(p)], event[p], ShortWrites) :
             ledger' = [ledger EXCEPT ![Day(p)] = f]
  /\ UNCHANGED <<acked, clock, effects, replay>>

-----------------------------------------------------------------------------
(* sightjack rebuild.                                                      *)

(* applyEvent: the last scan wins, the first design of a cluster stays.    *)
Apply(state, e) ==
  IF e.body.tool = "save_scan_result"
  THEN [state EXCEPT !.scan = e.id]
  ELSE [state EXCEPT !.designs[e.body.clusters[1]] = IF @ = 0 THEN e.id ELSE @]

(* sort.SliceStable by timestamp: the n-th is the event that n events, it  *)
(* among them, come not after.                                             *)
Sorted(events) ==
  LET UpTo(i) == {j \in DOMAIN events :
                    \/ events[j].id < events[i].id
                    \/ events[j].id = events[i].id /\ j <= i}
  IN  [n \in DOMAIN events |->
         events[CHOOSE i \in DOMAIN events : Cardinality(UpTo(i)) = n]]

(* Projector.Rebuild: the state after each of the events.                  *)
Replayed(events) ==
  LET state[n \in 0 .. Len(events)] ==
        IF n = 0 THEN EmptyState ELSE Apply(state[n - 1], events[n])
  IN  state

Projected(events) == Replayed(Sorted(events))[Len(events)]

(* The directory is listed once; files created later are not read.         *)
RebuildStarts ==
  /\ ~rebuild.running
  /\ rebuild' = [running |-> TRUE,
                 unread  |-> {d \in Days : ledger[d].exists},
                 seen    |-> <<>>,
                 owed    |-> acked]
  /\ UNCHANGED <<server, effects, store, snapshot>>

(* Mutant: a file that cannot be read is passed over.                      *)
RebuildReadsLenient(d) ==
  /\ d \in rebuild.unread
  /\ \E lines \in {<<>>, ledger[d].lines} :
       rebuild' = [rebuild EXCEPT !.unread = @ \ {d}, !.seen = @ \o lines]
  /\ UNCHANGED <<server, effects, store, snapshot>>

(* One file is read; the order of the files is that of their mtimes.       *)
RebuildReads(d) ==
  /\ d \in rebuild.unread
  /\ LinesOf(ledger[d]) # {}
  /\ rebuild' = [rebuild EXCEPT !.unread = @ \ {d},
                                !.seen = @ \o ledger[d].lines]
  /\ UNCHANGED <<server, effects, store, snapshot>>

(* A file could not be read or has no event: failedCount > 0, aborted.     *)
RebuildAborts ==
  /\ rebuild.running
  /\ rebuild' = NoRebuild
  /\ UNCHANGED <<server, effects, store, snapshot>>

RebuildSaves ==
  /\ rebuild.running
  /\ rebuild.unread = {}
  /\ snapshot' = Projected(rebuild.seen)
  /\ rebuild' = NoRebuild
  /\ UNCHANGED <<server, effects, store>>

Next ==
  \/ \E p \in Procs : \E c \in Calls : StartCall(p, c)
  \/ \E p \in Procs :
       \/ WriteFile(p)
       \/ WriteFileFails(p)
       \/ Stamp(p)
       \/ AppendEvent(p)
       \/ AppendFails(p)
       \/ Crash(p)
  \/ RebuildStarts
  \/ \E d \in Days : RebuildReads(d)
  \/ RebuildAborts
  \/ RebuildSaves

Spec == Init /\ [][Next]_vars

-----------------------------------------------------------------------------
(* Properties.                                                             *)

(* An event of the ledger never speaks of a file that was not written: all *)
(* the files of its call had landed before, whatever failed or crashed in  *)
(* between ("Write order is pinned").                                      *)
FilesBeforeLedger ==
  \A e \in Loaded : \A c \in ToSet(e.body.clusters) :
    <<e.body.tool, c, e.body.version>> \in written

(* What a call has still to write, or has written, is all it will speak of. *)
FilesLanded ==
  \A p \in Procs :
    /\ pc[p] = "files" => \A c \in ToSet(call[p].clusters) :
         \/ c \in ToSet(todo[p])
         \/ <<call[p].tool, c, call[p].version>> \in written
    /\ pc[p] = "append" => \A c \in ToSet(event[p].body.clusters) :
         <<event[p].body.tool, c, event[p].body.version>> \in written

IsLoaded(id) == \E a \in Loaded : a.id = id

(* The emitters' chain ends are in the ledger, and so are the causes of    *)
(* the events on their way there.                                          *)
ChainsAreLoaded ==
  \A p \in Procs :
    /\ prevID[p] # 0 => IsLoaded(prevID[p]) /\ prevID[p] <= clock
    /\ pc[p] = "append" =>
         /\ event[p].cause < event[p].id /\ event[p].id <= clock
         /\ event[p].cause # 0 => IsLoaded(event[p].cause)

TailsAreClean == \A d \in Days : ledger[d].tail = "clean"

(* What a tool reported as "files+event-store" is found by every later     *)
(* load of the ledger: neither failed appends nor other processes take it  *)
(* away again ("at-least-once ledger").                                    *)
AckedIsLoaded == acked \subseteq Loaded

(* The causation chain has no dangling link: the cause an event names is   *)
(* itself in the ledger and earlier, across failed appends and restarts.   *)
CauseIsLoaded ==
  \A e \in Loaded : e.cause # 0 =>
    IsLoaded(e.cause) /\ e.cause < e.id

(* Calls, emitters and ledger stay in step through every failure, crash    *)
(* and interleaving, as long as no append stops in the middle of an event: *)
(* files land before the event that names them, chain ends are in the      *)
(* ledger, and no file ends in a torn line.  The inductive invariant of    *)
(* the proofs.                                                             *)
WriteInv ==
  /\ StoreTypes
  /\ FilesLanded
  /\ FilesBeforeLedger
  /\ ~ShortWrites => TailsAreClean /\ AckedIsLoaded /\ ChainsAreLoaded /\ CauseIsLoaded

(* A snapshot is never built from a part of the ledger or in the wrong     *)
(* order: it shows a scan no older than any acknowledged before the        *)
(* rebuild began, every acknowledged design, and the oldest one of each.   *)
SnapshotComplete ==
  [][snapshot' # snapshot =>
       \A e \in rebuild.owed :
         IF e.body.tool = "save_scan_result"
         THEN snapshot'.scan >= e.id
         ELSE snapshot'.designs[e.body.clusters[1]] \in 1..e.id]_vars

=============================================================================
