------------------------------- MODULE Ledger -------------------------------
(***************************************************************************)
(* The global order of the event ledger: the sequence counter in seq.db    *)
(* (internal/eventsource/seq_counter.go), the session recorder             *)
(* (recorder.go), the cutover from events that have no global number       *)
(* (cutover.go, store_factory.go), and the number a rebuild puts on its    *)
(* snapshot (cmd/rebuild.go) for LoadAfterSeqNr to continue from.          *)
(*                                                                         *)
(* A runner opens the counter, cuts over if that was not done, opens the   *)
(* recorder of its session and records events; its goroutines share the    *)
(* recorder.  The MCP servers append to the same ledger without the        *)
(* counter.  An instant is an event's timestamp and its ID.  The ledger is *)
(* a set, for every reader sorts it; what a torn line does to it is in     *)
(* EventFile and WritePath.                                                *)
(***************************************************************************)
EXTENDS Integers, FiniteSets

CONSTANTS
  Runners,    \* session runners; each owns the session of its name
  Server,     \* the MCP servers
  Callers,    \* bound: goroutines of a runner with an event to record
  MaxEvents   \* bound: number of events stamped

ASSUME ServerAssumption == Server \notin Runners
ASSUME CallersAssumption == Callers \in Nat
ASSUME MaxEventsAssumption == MaxEvents \in Nat

VARIABLES
  counter,   \* seq_counter.next_seq
  clock,     \* the last instant an event was stamped with
  ledger,    \* the readable events of events/*.jsonl
  acked,     \* history: the events whose Record returned no error
  served,    \* events the running MCP server has made
  pc,        \* where each runner is
  built,     \* instants of the events its goroutines want to record
  event,     \* the event it has numbered and not appended yet
  prevID,    \* the recorder's last event
  rebuild,   \* the running `sightjack rebuild`, if any
  snapshot   \* snapshots/sightjack.state.json

runner == <<pc, built, event, prevID>>
store  == <<ledger, acked>>
replay == <<rebuild, snapshot>>
vars   == <<counter, clock, store, served, runner, replay>>

Instants == 1..MaxEvents

(* by is the CorrelationID, seq the SeqNr, cause the CausationID (0: none).*)
Events ==
  [id : Instants, by : Runners \cup {Server}, seq : Nat,
   cause : 0..MaxEvents, type : {"session", "system.cutover"}]

NoEvent == [id |-> 0]

(* The events the counter has numbered.                                    *)
Global(events) == {e \in events : e.by # Server}

LatestSeqNr == counter - 1

LoadAfterSeqNr(n) == {e \in ledger : e.seq > n}

NoRebuild == [at |-> "idle"]

Snapshots == [seq : Nat, events : SUBSET Events, overlap : SUBSET Events]

Rebuilds ==
  [at : {"idle"}]
    \cup [at : {"loaded"}, events : SUBSET Events]
    \cup [at : {"numbered"}, seq : Nat, events : SUBSET Events,
          overlap : SUBSET Events]

(* overlap is history: the events that were on their way to the ledger, or *)
(* arrived there, while the rebuild was between its two reads.             *)
NoSnapshot == [seq |-> 0, events |-> {}, overlap |-> {}]

Init ==
  /\ counter = 1
  /\ clock = 0
  /\ ledger = {}
  /\ acked = {}
  /\ served = 0
  /\ pc = [p \in Runners |-> "down"]
  /\ built = [p \in Runners |-> {}]
  /\ event = [p \in Runners |-> NoEvent]
  /\ prevID = [p \in Runners |-> 0]
  /\ rebuild = NoRebuild
  /\ snapshot = NoSnapshot

Goto(p, from, to) == pc[p] = from /\ pc' = [pc EXCEPT ![p] = to]

-----------------------------------------------------------------------------
(* A server's aggregate counts its own events from 1.                      *)
ServerAppends ==
  /\ clock < MaxEvents
  /\ clock' = clock + 1
  /\ served' = served + 1
  /\ ledger' = ledger \cup
       {[id |-> clock + 1, by |-> Server, seq |-> served + 1, cause |-> 0,
         type |-> "session"]}
  /\ UNCHANGED <<counter, acked, runner, replay>>

ServerRestarts ==
  /\ served # 0
  /\ served' = 0
  /\ UNCHANGED <<counter, clock, store, runner, replay>>

-----------------------------------------------------------------------------
(* EnsureCutover.                                                          *)

(* Step 1: a counter that has moved means the cutover was done.            *)
CheckCounter(p) ==
  /\ IF LatestSeqNr > 0 THEN Goto(p, "down", "open") ELSE Goto(p, "down", "load")
  /\ UNCHANGED <<counter, clock, store, served, built, event, prevID, replay>>

(* Step 2: without events there is nothing to cut over.                    *)
LoadLegacy(p) ==
  /\ IF ledger = {} THEN Goto(p, "load", "open") ELSE Goto(p, "load", "save")
  /\ UNCHANGED <<counter, clock, store, served, built, event, prevID, replay>>

(* Step 3, the sentinel snapshot, and the making of the cutover event.     *)
SaveSentinel(p) ==
  /\ Goto(p, "save", "alloc")
  /\ clock < MaxEvents
  /\ clock' = clock + 1
  /\ snapshot' = NoSnapshot
  /\ event' = [event EXCEPT ![p] =
                 [id |-> clock + 1, by |-> p, seq |-> 0, cause |-> 0,
                  type |-> "system.cutover"]]
  /\ UNCHANGED <<counter, store, served, built, prevID, rebuild>>

(* Step 5.                                                                 *)
AllocCutover(p) ==
  /\ Goto(p, "alloc", "cutover")
  /\ event' = [event EXCEPT ![p].seq = counter]
  /\ counter' = counter + 1
  /\ UNCHANGED <<clock, store, served, built, prevID, replay>>

AppendCutover(p) ==
  /\ Goto(p, "cutover", "open")
  /\ ledger' = ledger \cup {event[p]}
  /\ event' = [event EXCEPT ![p] = NoEvent]
  /\ UNCHANGED <<counter, clock, acked, served, built, prevID, replay>>

-----------------------------------------------------------------------------
(* The recorder.                                                           *)

IdsOf(events, p) == {e.id : e \in {f \in events : f.by = p /\ f.type = "session"}}

(* last is the greatest of ids, or 0 when there is none.                   *)
IsLast(last, ids) == last \in ids \cup {0} /\ \A id \in ids : id <= last

(* Mutant: a recorder starts a chain of its own.                           *)
OpenRecorderAnew(p) ==
  /\ Goto(p, "open", "ready")
  /\ prevID' = [prevID EXCEPT ![p] = 0]
  /\ UNCHANGED <<counter, clock, store, served, built, event, replay>>

(* NewSessionRecorder: the chain goes on from the session's event with the *)
(* latest timestamp.  The cutover event has no CorrelationID.              *)
OpenRecorder(p) ==
  /\ Goto(p, "open", "ready")
  /\ \E last \in 0..MaxEvents :
       /\ IsLast(last, IdsOf(ledger, p))
       /\ prevID' = [prevID EXCEPT ![p] = last]
  /\ UNCHANGED <<counter, clock, store, served, built, event, replay>>

(* A goroutine makes an event and calls Record.                            *)
BuildEvent(p) ==
  /\ pc[p] \in {"ready", "record"}
  /\ Cardinality(built[p]) < Callers
  /\ clock < MaxEvents
  /\ clock' = clock + 1
  /\ built' = [built EXCEPT ![p] = @ \cup {clock + 1}]
  /\ UNCHANGED <<counter, store, served, pc, event, prevID, replay>>

(* Mutant: the number follows the last one in the ledger (S0040 section 5).*)
NumberFromLedger(p, id) ==
  /\ Goto(p, "ready", "record")
  /\ id \in built[p]
  /\ \E last \in 0..counter :
       /\ IsLast(last, {e.seq : e \in ledger})
       /\ event' = [event EXCEPT ![p] =
                      [id |-> id, by |-> p, seq |-> last + 1,
                       cause |-> prevID[p], type |-> "session"]]
       /\ counter' = last + 2
  /\ UNCHANGED <<clock, store, served, built, prevID, replay>>

(* Record takes the mutex; the event gets its session, cause and number.   *)
Number(p, id) ==
  /\ Goto(p, "ready", "record")
  /\ id \in built[p]
  /\ event' = [event EXCEPT ![p] =
                 [id |-> id, by |-> p, seq |-> counter, cause |-> prevID[p],
                  type |-> "session"]]
  /\ counter' = counter + 1
  /\ UNCHANGED <<clock, store, served, built, prevID, replay>>

(* AllocSeqNr returns an error, and so does Record.                        *)
NumberFails(p, id) ==
  /\ pc[p] = "ready"
  /\ id \in built[p]
  /\ built' = [built EXCEPT ![p] = @ \ {id}]
  /\ UNCHANGED <<counter, clock, store, served, pc, event, prevID, replay>>

(* The end of a Record: the mutex is free.                                 *)
Recorded(p) ==
  /\ Goto(p, "record", "ready")
  /\ built' = [built EXCEPT ![p] = @ \ {event[p].id}]
  /\ event' = [event EXCEPT ![p] = NoEvent]

AppendRecord(p) ==
  /\ Recorded(p)
  /\ ledger' = ledger \cup {event[p]}
  /\ acked' = acked \cup {event[p]}
  /\ prevID' = [prevID EXCEPT ![p] = event[p].id]
  /\ UNCHANGED <<counter, clock, served, replay>>

(* Mutant: prevID moves on whatever the append returned.                   *)
AppendRecordFailsMovesOn(p) ==
  /\ Recorded(p)
  /\ ledger' \in {ledger, ledger \cup {event[p]}}
  /\ prevID' = [prevID EXCEPT ![p] = event[p].id]
  /\ UNCHANGED <<counter, clock, acked, served, replay>>

(* The append failed, before or after the line was written.                *)
AppendRecordFails(p) ==
  /\ Recorded(p)
  /\ ledger' \in {ledger, ledger \cup {event[p]}}
  /\ UNCHANGED <<counter, clock, acked, prevID, served, replay>>

(* The runner dies, or a failed cutover ends it, with or without the event *)
(* it was appending.  It can be started again.                             *)
Stop(p) ==
  /\ pc[p] # "down"
  /\ pc' = [pc EXCEPT ![p] = "down"]
  /\ built' = [built EXCEPT ![p] = {}]
  /\ event' = [event EXCEPT ![p] = NoEvent]
  /\ prevID' = [prevID EXCEPT ![p] = 0]
  /\ \/ UNCHANGED ledger
     \/ /\ pc[p] \in {"cutover", "record"}
        /\ ledger' = ledger \cup {event[p]}
  /\ UNCHANGED <<counter, clock, acked, served, replay>>

-----------------------------------------------------------------------------
(* sightjack rebuild.                                                      *)

RebuildLoads ==
  /\ rebuild.at = "idle"
  /\ rebuild' = [at |-> "loaded", events |-> ledger]
  /\ UNCHANGED <<counter, clock, store, served, runner, snapshot>>

(* The events that have a number and have not been appended.               *)
InFlight == {event[p] : p \in {q \in Runners : pc[q] \in {"cutover", "record"}}}

(* Mutant: the number of the next event.                                   *)
RebuildNumbersNext ==
  /\ rebuild.at = "loaded"
  /\ rebuild' = [at |-> "numbered", seq |-> counter, events |-> rebuild.events,
                 overlap |-> (ledger \ rebuild.events) \cup InFlight]
  /\ UNCHANGED <<counter, clock, store, served, runner, snapshot>>

(* The number comes from the counter, after the events were loaded; when   *)
(* the counter cannot be read it is 0.                                     *)
RebuildNumbers ==
  /\ rebuild.at = "loaded"
  /\ \E n \in {0, LatestSeqNr} :
       rebuild' = [at |-> "numbered", seq |-> n, events |-> rebuild.events,
                   overlap |-> (ledger \ rebuild.events) \cup InFlight]
  /\ UNCHANGED <<counter, clock, store, served, runner, snapshot>>

RebuildSaves ==
  /\ rebuild.at = "numbered"
  /\ snapshot' = [seq |-> rebuild.seq, events |-> rebuild.events,
                  overlap |-> rebuild.overlap]
  /\ rebuild' = NoRebuild
  /\ UNCHANGED <<counter, clock, store, served, runner>>

Next ==
  \/ ServerAppends
  \/ ServerRestarts
  \/ \E p \in Runners :
       \/ CheckCounter(p)
       \/ LoadLegacy(p)
       \/ SaveSentinel(p)
       \/ AllocCutover(p)
       \/ AppendCutover(p)
       \/ OpenRecorder(p)
       \/ BuildEvent(p)
       \/ \E id \in Instants : Number(p, id) \/ NumberFails(p, id)
       \/ AppendRecord(p)
       \/ AppendRecordFails(p)
       \/ Stop(p)
  \/ RebuildLoads
  \/ RebuildNumbers
  \/ RebuildSaves

Spec == Init /\ [][Next]_vars

-----------------------------------------------------------------------------
(* Properties.                                                             *)

TypeOK ==
  /\ counter \in Nat \ {0}
  /\ clock \in 0..MaxEvents
  /\ ledger \subseteq Events
  /\ acked \subseteq Events
  /\ served \in 0..clock
  /\ pc \in [Runners -> {"down", "load", "save", "alloc", "cutover", "open",
                         "ready", "record"}]
  /\ built \in [Runners -> SUBSET Instants]
  /\ event \in [Runners -> Events \cup {NoEvent}]
  /\ \A p \in Runners : event[p] # NoEvent <=> pc[p] \in {"alloc", "cutover", "record"}
  /\ prevID \in [Runners -> 0..MaxEvents]
  /\ rebuild \in Rebuilds
  /\ snapshot \in Snapshots

(* No number is given twice, whatever crashes between its allocation and   *)
(* its append, and whoever cuts over at the same time: two events that the *)
(* counter numbered have different numbers, in the ledger or on their way. *)
UniqueSeqNr ==
  \A e, f \in Global(ledger) \cup InFlight : e.seq = f.seq => e = f

(* The cause of an event is an event of the same session that is in the    *)
(* ledger and has a smaller number, also after a failed append or a        *)
(* restart: a replay in number order sees causes before effects.           *)
CauseIsEarlier ==
  \A e \in Global(ledger) : e.cause # 0 =>
    \E c \in ledger : c.id = e.cause /\ c.by = e.by /\ c.seq < e.seq

(* The recorded events of a session form one chain: no two that were       *)
(* reported as recorded follow the same event, across restarts of the      *)
(* runner (S0036 RULE 3).  Holds for one goroutine per runner; with more,  *)
(* an event may be recorded after one that is stamped later, and a restart *)
(* continues from the wrong one.                                           *)
AckedChainIsLinear ==
  \A e, f \in acked : e.by = f.by /\ e.cause = f.cause => e = f

(* A snapshot and LoadAfterSeqNr of its number give every event the        *)
(* counter numbered, but for those recorded while the rebuild was reading; *)
(* and, unless its number could not be read, none of them twice.           *)
RecoveryIsExact ==
  /\ Global(ledger) \subseteq
       snapshot.events \cup snapshot.overlap \cup LoadAfterSeqNr(snapshot.seq)
  /\ snapshot.seq > 0 =>
       Global(snapshot.events) \cap LoadAfterSeqNr(snapshot.seq) = {}

=============================================================================
