------------------------------- MODULE Waves -------------------------------
(***************************************************************************)
(* The waves of a session: domain/wave_aggregate.go, the policies of       *)
(* WavePolicy, the events that are stored of them (usecase/emitter.go,     *)
(* domain/session_aggregate.go) and their replay (domain/projection.go).   *)
(*                                                                         *)
(* An operation changes the waves in memory and returns an event, which    *)
(* the caller then stores: between the two the session may die, and the    *)
(* store may fail while the session goes on.  A session that is resumed    *)
(* sees what the replay of the ledger gives, and nothing else.             *)
(*                                                                         *)
(* The callers are outside the repository's commands today: operations     *)
(* come in any order that their guards allow; what the guards are in       *)
(* docs/testing.md ("Wave Lifecycle Guards") is part of the action.        *)
(***************************************************************************)
EXTENDS WavePolicy

CONSTANTS
  Plans,               \* results of a scan: sequences of the lists of waves of clusters
  Rescans,             \* later scans: records of clusters, successes (names), results
  FollowUps,           \* lists of waves that may be generated after a completion
  Modifications,       \* what the architect may return: records of prereqs, actions
  MaxWavesPerCluster,  \* the cap of NeedsMoreWaves (8 in the code)
  MaxFaults,           \* bound of the check: appends that fail, and crashes
  MaxChanges,          \* bound of the check: modifications, stalls and later scans
  Clusters, Ids, Issues   \* the names that occur, for the types

ASSUME BoundsAreNat ==
  /\ {MaxWavesPerCluster, MaxFaults, MaxChanges} \subseteq Nat
  /\ IsFiniteSet(Clusters) /\ IsFiniteSet(Ids)

Keys == Clusters \X Ids
Actions == [issue : Issues, own : BOOLEAN]

(* What may be waited for, with or without the cluster.                    *)
Prerequisites == Keys \cup {<<id>> : id \in Ids}

Design == [cluster : Clusters, id : Ids, prereqs : SUBSET Prerequisites,
           actions : Seq(Actions), status : {"available", "locked"}, score : {0}]

Distinct(ws) == \A i, j \in DOMAIN ws : Key(ws[i]) = Key(ws[j]) => i = j

(* What the prompts ask the provider for, and what the code relies on      *)
(* without a check (harness/filter/prompts/wave_generate_en.yaml and       *)
(* wave_nextgen_en.yaml): new waves, with an id each, of which those that  *)
(* can be started immediately wait for nothing.                            *)
ASSUME DesignsAreNew ==
  LET scans == {FlattenSeq(plan) : plan \in Plans}
                 \cup {FlattenSeq(scan.results) : scan \in Rescans}
  IN  /\ \A ws \in scans \cup FollowUps :
           /\ ws \in Seq(Design) /\ Distinct(ws)
           /\ \A i \in DOMAIN ws : ws[i].status = "available" => ws[i].prereqs = {}
      /\ <<>> \notin FollowUps

ASSUME ModificationsAreDesigns ==
  Modifications \subseteq [prereqs : (SUBSET Prerequisites) \cup {Omitted},
                           actions : Seq(Actions) \cup {Omitted}]

VARIABLES
  running,    \* a session holds the waves in memory
  waves,      \* the aggregate's list
  completed,  \* the aggregate's map of completed keys
  pending,    \* the event an operation returned, not stored yet
  replayed,   \* the replay of the ledger: a list of saved waves
  apart,      \* history: memory and ledger have gone apart
  late,       \* history: waves of which a prerequisite came late (see Store)
  faults, changes

vars == <<running, waves, completed, pending, replayed, apart, late, faults, changes>>

Statuses == {"available", "locked", "completed", "stalled"}

NoEvent == [type |-> "none"]

(* Events that the replay ignores: approvals, rejections, applications,    *)
(* session_rescanned and, though it changes the aggregate, wave.stalled.   *)
AuditEvent == [type |-> "audit"]
---------------------------------------------------------------------------
(* Replay *)

Seen(ss, w) == \E i \in DOMAIN ss : Key(ss[i]) = Key(w)

(* A wave that was seen before keeps its first design.                     *)
AddUnseen(ss, new) ==
  LET fresh == {i \in DOMAIN new : /\ ~Seen(ss, new[i])
                                   /\ ~Seen(SubSeq(new, 1, i - 1), new[i])}
  IN  ss \o Kept(new, fresh)

First(ss, key, i) == Key(ss[i]) = key /\ \A j \in 1 .. i - 1 : Key(ss[j]) # key

CompleteFirst(ss, key) ==
  [i \in DOMAIN ss |-> IF First(ss, key, i)
                       THEN [ss[i] EXCEPT !.status = "completed"] ELSE ss[i]]

UnlockAll(ss, keys) ==
  Change(ss, LAMBDA w : IF Key(w) \in keys /\ w.status = "locked"
                        THEN [w EXCEPT !.status = "available"] ELSE w)

(* Mutant: the projection does not know wave_modified. *)
ReplayWithoutModified(ss, e) ==
  CASE e.type \in {"waves_generated", "nextgen_waves_added"} -> AddUnseen(ss, e.waves)
    [] e.type = "wave_completed" -> CompleteFirst(ss, e.key)
    [] e.type = "waves_unlocked" -> UnlockAll(ss, e.keys)
    [] OTHER -> ss

Replay(ss, e) ==
  CASE e.type \in {"waves_generated", "nextgen_waves_added"} -> AddUnseen(ss, e.waves)
    [] e.type = "wave_completed" -> CompleteFirst(ss, e.key)
    [] e.type = "waves_unlocked" -> UnlockAll(ss, e.keys)
    [] e.type = "wave_modified"  -> PropagateWaveUpdate(ss, e.wave)
    [] OTHER -> ss

(* Resuming: what was replayed, restored, its dangling prerequisites       *)
(* removed and its unlocks repaired.                                       *)
Resumed(ss) ==
  LET restored == ValidateWavePrerequisites(RestoreWaves(ss))
  IN  RepairLockedWaves(restored, BuildCompletedWaveMap(restored))
---------------------------------------------------------------------------
Init ==
  /\ running = TRUE
  /\ waves = <<>>
  /\ completed = {}
  /\ pending = NoEvent
  /\ replayed = <<>>
  /\ apart = FALSE
  /\ late = {}
  /\ faults = 0
  /\ changes = 0

Ready == running /\ pending = NoEvent

Returns(event) ==
  /\ pending' = event
  /\ UNCHANGED <<running, replayed, late, faults>>

(* A scan's waves; a plan with a cycle is refused.                         *)
Generate ==
  /\ Ready
  /\ waves = <<>> /\ replayed = <<>>
  /\ \E plan \in Plans :
       /\ Acyclic(MergeWaveResults(plan))
       /\ waves' = MergeWaveResults(plan)
  /\ Returns([type |-> "waves_generated", waves |-> BuildWaveStates(waves')])
  /\ UNCHANGED <<completed, apart, changes>>

(* Approve, Reject, RecordApplied: an event and no change.                 *)
Audit ==
  /\ Ready
  /\ waves # <<>>
  /\ Returns(AuditEvent)
  /\ UNCHANGED <<waves, completed, apart, changes>>

(* All actions of an available wave were applied.                          *)
Complete ==
  /\ Ready
  /\ \E w \in AvailableWaves(waves, completed) :
       /\ waves' = CompleteFirst(waves, Key(w))
       /\ completed' = completed \cup {Key(w)}
       /\ Returns([type |-> "wave_completed", key |-> Key(w)])
  /\ UNCHANGED <<apart, changes>>

Unlock ==
  /\ Ready
  /\ waves' = EvaluateUnlocks(waves, completed)
  /\ waves' # waves
  /\ Returns([type |-> "waves_unlocked",
              keys |-> {Key(waves[i]) : i \in {i \in DOMAIN waves : waves'[i] # waves[i]}}])
  /\ UNCHANGED <<completed, apart, changes>>

(* The architect changes a wave that is being offered.                     *)
Modify ==
  /\ Ready
  /\ changes < MaxChanges
  /\ \E w \in AvailableWaves(waves, completed), m \in Modifications :
       LET updated == ApplyModifiedWave(w, m, completed)
       IN  /\ waves' = PropagateWaveUpdate(waves, updated)
           /\ Returns([type |-> "wave_modified", wave |-> BuildWaveStates(<<updated>>)[1]])
  /\ changes' = changes + 1
  /\ UNCHANGED <<completed, apart>>

MarkStalled ==
  /\ Ready
  /\ changes < MaxChanges
  /\ \E w \in AvailableWaves(waves, completed) :
       waves' = PropagateWaveUpdate(waves, [w EXCEPT !.status = "stalled"])
  /\ Returns(AuditEvent)
  /\ changes' = changes + 1
  /\ UNCHANGED <<completed, apart>>

(* The follow-up waves of a cluster, without implementation actions for    *)
(* issues that have their specification.  AddNextGen changes no wave: the  *)
(* list is set when the event is stored.                                   *)
Prepared(ws) ==
  FilterPROpenActions(
    FilterEmptyWaves(RemoveSelfReferences(NormalizeWavePrerequisites(ws))),
    CollectSpecSentIssueIDs(completed, waves))

NextGen ==
  /\ Ready
  /\ \E new \in FollowUps :
       /\ BuildCompletedWaveMap(waves) # {}
       /\ NeedsMoreWaves(new[1].cluster, waves, MaxWavesPerCluster)
       /\ KeysOf(new) \cap KeysOf(waves) = {}
       /\ Prepared(new) # <<>>
       /\ Returns([type |-> "nextgen_waves_added",
                   waves |-> BuildWaveStates(Prepared(new))])
  /\ UNCHANGED <<waves, completed, apart, changes>>

(* Scanning again: the waves of failed clusters are carried over, those of *)
(* clusters that are gone are dropped, what was completed stays completed. *)
Rescanned(scan) ==
  MergeCompletedStatus(completed,
    MergeOldWaves(PruneStaleWaves(waves, ToSet(scan.clusters)),
                  MergeWaveResults(scan.results),
                  ToSet(scan.clusters),
                  DetectFailedClusterNames(scan.clusters, scan.successes)))

Rescan ==
  /\ Ready
  /\ waves # <<>>
  /\ changes < MaxChanges
  /\ \E scan \in Rescans : waves' = Rescanned(scan)
  /\ Returns([type |-> "waves_generated", waves |-> BuildWaveStates(waves')])
  /\ apart' = TRUE
  /\ changes' = changes + 1
  /\ UNCHANGED completed
---------------------------------------------------------------------------
(* Storing the event *)

(* Waves that memory lets go without a prerequisite, which was unknown     *)
(* when the session was resumed, and which is now added: the ledger has    *)
(* them wait for it again.                                                 *)
CameLate ==
  {Key(replayed[i]) : i \in
     {i \in DOMAIN replayed \cap DOMAIN waves :
        (replayed[i].prereqs \ waves[i].prereqs)
          \cap (KeysOf(replayed') \ KeysOf(replayed)) # {}}}

Store ==
  /\ running /\ pending # NoEvent
  /\ replayed' = Replay(replayed, pending)
  /\ waves' = IF pending.type = "nextgen_waves_added"
              THEN waves \o RestoreWaves(pending.waves) ELSE waves
  /\ pending' = NoEvent
  /\ late' = late \cup CameLate
  /\ UNCHANGED <<running, completed, apart, faults, changes>>

(* An append that reports a failure may have landed; the session goes on.  *)
StoreFails ==
  /\ running /\ pending # NoEvent
  /\ faults < MaxFaults
  /\ \E landed \in BOOLEAN :
       replayed' = IF landed THEN Replay(replayed, pending) ELSE replayed
  /\ pending' = NoEvent
  /\ apart' = TRUE
  /\ faults' = faults + 1
  /\ UNCHANGED <<running, waves, completed, late, changes>>

Crash ==
  /\ running
  /\ faults < MaxFaults
  /\ running' = FALSE
  /\ waves' = <<>>
  /\ completed' = {}
  /\ pending' = NoEvent
  /\ faults' = faults + 1
  /\ UNCHANGED <<replayed, apart, late, changes>>

(* CanResume wants waves; otherwise the session starts with a scan.        *)
Resume ==
  /\ ~running
  /\ running' = TRUE
  /\ waves' = Resumed(replayed)
  /\ completed' = BuildCompletedWaveMap(waves')
  /\ UNCHANGED <<pending, replayed, apart, late, faults, changes>>

Next ==
  \/ Generate \/ Audit \/ Complete \/ Unlock \/ Modify \/ MarkStalled
  \/ NextGen \/ Rescan \/ Store \/ StoreFails \/ Crash \/ Resume

Spec == Init /\ [][Next]_vars
---------------------------------------------------------------------------
(* Properties *)

SavedWave == [cluster : Clusters, id : Ids, prereqs : SUBSET Keys,
              actions : Seq(Actions), status : Statuses]

Wave == [cluster : Clusters, id : Ids, prereqs : SUBSET Keys,
         actions : Seq(Actions), status : Statuses, score : Nat]

Pending(e) ==
  \/ e \in {NoEvent, AuditEvent}
  \/ e.type \in {"waves_generated", "nextgen_waves_added"} /\ e.waves \in Seq(SavedWave)
  \/ e.type = "wave_completed" /\ e.key \in Keys
  \/ e.type = "waves_unlocked" /\ e.keys \subseteq Keys
  \/ e.type = "wave_modified" /\ e.wave \in SavedWave

(* The types: in particular every prerequisite in memory and in the ledger *)
(* is a full key, whatever the architect left out.                         *)
TypeOK ==
  /\ running \in BOOLEAN
  /\ Pending(pending)
  /\ waves \in Seq(Wave)
  /\ completed \subseteq Keys
  /\ replayed \in Seq(SavedWave)
  /\ apart \in BOOLEAN
  /\ late \subseteq Keys
  /\ faults \in 0 .. MaxFaults
  /\ changes \in 0 .. MaxChanges

Unfinished(ws) == {i \in DOMAIN ws : ws[i].status # "completed"}

JustifiedIn(ws, done) ==
  \A i \in DOMAIN ws :
    ws[i].status = "available" /\ Key(ws[i]) \notin late => ws[i].prereqs \subseteq done

(* A wave is offered only when all it waits for is complete, in memory and *)
(* in what a resumed session would see, as long as no append was lost.  It *)
(* is not so for the waves in `late`, which were unlocked without it.      *)
AvailableIsJustified ==
  ~apart => /\ JustifiedIn(waves, completed)
            /\ JustifiedIn(ValidateWavePrerequisites(replayed),
                           BuildCompletedWaveMap(replayed))

(* Completed work stays completed: in the ledger for ever, and in memory   *)
(* for as long as the session runs and the wave is on the list.            *)
WorkIsKept ==
  [][ /\ BuildCompletedWaveMap(replayed) \subseteq BuildCompletedWaveMap(replayed')
      /\ running' => BuildCompletedWaveMap(waves) \cap KeysOf(waves')
                        \subseteq BuildCompletedWaveMap(waves') ]_vars

(* Up to marks that are kept in memory only.                               *)
Unmarked(ws) ==
  Change(ws, LAMBDA w : [w EXCEPT !.score = 0,
                           !.status = IF @ = "stalled" THEN "available" ELSE @])

(* A session that dies and is resumed has the waves that it had, as if it  *)
(* had resumed from its own memory, but for those in `late`.               *)
ResumeRestores ==
  Ready /\ ~apart =>
    LET its  == Unmarked(Resumed(replayed))
        mine == Unmarked(Resumed(waves))
    IN  /\ DOMAIN its = DOMAIN mine
        /\ \A i \in DOMAIN mine : Key(waves[i]) \notin late => its[i] = mine[i]

(* A resumed session of a plan without cycles has a wave to work on unless *)
(* everything is complete.                                                 *)
ResumeUnsticks ==
  [][ ~running /\ running' /\ Acyclic(waves') /\ Unfinished(waves') # {} =>
        \E i \in Unfinished(waves') : waves'[i].status # "locked" ]_vars

(* A follow-up wave asks for no implementation of an issue for which the   *)
(* ledger holds a completed wave that asked for one.                       *)
SpecOnce ==
  [][ pending.type = "nextgen_waves_added" /\ Len(waves') > Len(waves) /\ ~apart =>
        \A i \in Len(waves) + 1 .. Len(waves') :
          \A a \in ToSet(waves'[i].actions) : a.own \/ a.issue \notin
                CollectSpecSentIssueIDs(BuildCompletedWaveMap(replayed), replayed) ]_vars
===========================================================================
