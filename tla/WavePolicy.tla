---------------------------- MODULE WavePolicy ----------------------------
(***************************************************************************)
(* The pure functions on lists of waves: harness/policy/wave_policy.go,    *)
(* scan_policy.go and harness/verifier/wave_verifier.go.                   *)
(*                                                                         *)
(* A wave is a record of its cluster, id, prerequisites, actions, status   *)
(* and complexity score.  Its key, "cluster:id" in the code, is the pair   *)
(* <<cluster, id>>; a prerequisite without a colon is the tuple <<id>>.    *)
(* An action is a record of the issue it is about and whether sightjack    *)
(* carries it out itself (ValidWaveActionType) or it asks for an           *)
(* implementation.                                                         *)
(***************************************************************************)
EXTENDS Integers, Sequences, FiniteSets, SequencesExt

(* What the architect may leave out of a modified wave (JSON null).        *)
CONSTANT Omitted

Key(w) == <<w.cluster, w.id>>

KeysOf(ws) == {Key(ws[i]) : i \in DOMAIN ws}

Change(ws, Op(_)) == [i \in DOMAIN ws |-> Op(ws[i])]
---------------------------------------------------------------------------
(* Preparing what was generated *)

Normalize(p, cluster) == IF Len(p) = 1 THEN <<cluster, p[1]>> ELSE p

NormalizeWavePrerequisites(ws) ==
  Change(ws, LAMBDA w :
    [w EXCEPT !.prereqs = {Normalize(p, w.cluster) : p \in w.prereqs}])

RemoveSelfReferences(ws) ==
  Change(ws, LAMBDA w : [w EXCEPT !.prereqs = @ \ {Key(w)}])

(* Twice the score, which counts a prerequisite as half an action.         *)
Complexity(w) == 2 * Len(w.actions) + Cardinality(w.prereqs)

(* The n-th element of s among those with an index in I.                   *)
Nth(s, I, n) == s[CHOOSE i \in I : Cardinality({j \in I : j <= i}) = n]

(* The elements of s with an index in I, in their order.                   *)
Kept(s, I) == [n \in 1 .. Cardinality(I) |-> Nth(s, I, n)]

(* The stable sort: a wave goes behind the lighter ones, and behind those  *)
(* of its weight that were before it.                                      *)
SortWavesByComplexity(ws) ==
  LET weight(i) == Complexity(ws[i])
      place(i) == Cardinality({j \in DOMAIN ws :
                    weight(j) < weight(i) \/ (weight(j) = weight(i) /\ j <= i)})
  IN  [n \in DOMAIN ws |-> LET i == CHOOSE i \in DOMAIN ws : place(i) = n
                            IN  [ws[i] EXCEPT !.score = weight(i)]]

MergeWaveResults(results) ==
  SortWavesByComplexity(
    RemoveSelfReferences(NormalizeWavePrerequisites(FlattenSeq(results))))

(* Acyclicity, the verdict of DetectWaveCycles (see WaveCycles): every set *)
(* of waves has one that waits for none of the set.                        *)
Acyclic(ws) ==
  \A S \in (SUBSET DOMAIN ws) \ {{}} :
    \E i \in S : \A j \in S : Key(ws[j]) \notin ws[i].prereqs
---------------------------------------------------------------------------
(* Unlocking and choosing *)

Met(w, completed) == w.prereqs \subseteq completed

(* Mutant: one complete prerequisite is enough. *)
EvaluateUnlocksAny(ws, completed) ==
  Change(ws, LAMBDA w : IF w.status = "locked" /\ (w.prereqs = {} \/ w.prereqs \cap completed # {})
                        THEN [w EXCEPT !.status = "available"] ELSE w)

EvaluateUnlocks(ws, completed) ==
  Change(ws, LAMBDA w : IF w.status = "locked" /\ Met(w, completed)
                        THEN [w EXCEPT !.status = "available"] ELSE w)

(* Mutant: a resumed session repairs nothing. *)
RepairNothing(ws, completed) == ws

RepairLockedWaves(ws, completed) == EvaluateUnlocks(ws, completed)

(* The waves on offer; any of them may be chosen, so their order (by       *)
(* complexity) is left out.                                                *)
AvailableWaves(ws, completed) ==
  {w \in ToSet(ws) : w.status = "available" /\ Key(w) \notin completed}

(* The first wave with the key of w is replaced, if there is one.          *)
PropagateWaveUpdate(ws, w) ==
  [i \in DOMAIN ws |->
     IF Key(ws[i]) = Key(w) /\ \A j \in 1 .. i - 1 : Key(ws[j]) # Key(w)
     THEN w ELSE ws[i]]

(* What the architect omits stays; the identity always stays; the status   *)
(* follows from the prerequisites.                                         *)
ApplyModifiedWave(original, modified, completed) ==
  LET actions == IF modified.actions = Omitted THEN original.actions
                 ELSE modified.actions
      prereqs == IF modified.prereqs = Omitted THEN original.prereqs
                 ELSE modified.prereqs
      merged  == [original EXCEPT
                    !.actions = actions,
                    !.prereqs = {Normalize(p, original.cluster) : p \in prereqs},
                    !.score   = 0]
  IN  [merged EXCEPT !.status =
         IF Met(merged, completed) THEN "available" ELSE "locked"]
---------------------------------------------------------------------------
(* Saving, restoring, scanning again *)

(* The saved form has no score.                                            *)
BuildWaveStates(ws) ==
  Change(ws, LAMBDA w : [cluster |-> w.cluster, id |-> w.id,
                         prereqs |-> w.prereqs, actions |-> w.actions,
                         status |-> w.status])

RestoreWaves(ss) ==
  Change(ss, LAMBDA s : [cluster |-> s.cluster, id |-> s.id,
                         prereqs |-> s.prereqs, actions |-> s.actions,
                         status |-> s.status, score |-> 0])

ValidateWavePrerequisites(ws) ==
  Change(ws, LAMBDA w : [w EXCEPT !.prereqs = @ \cap KeysOf(ws)])

BuildCompletedWaveMap(ws) ==
  {Key(ws[i]) : i \in {i \in DOMAIN ws : ws[i].status = "completed"}}

PruneStaleWaves(ws, valid) ==
  Kept(ws, {i \in DOMAIN ws : ws[i].status = "completed" \/ ws[i].cluster \in valid})

(* Cluster names of which an instance has no result.                       *)
DetectFailedClusterNames(clusters, successes) ==
  LET Count(s, c) == Cardinality({i \in DOMAIN s : s[i] = c})
  IN  {c \in ToSet(clusters) : Count(successes, c) < Count(clusters, c)}

MergeOldWaves(old, new, scanned, failed) ==
  LET regenerated == {new[i].cluster : i \in DOMAIN new}
      carried(w)  == /\ w.cluster \in scanned
                     /\ w.cluster \notin regenerated \/ w.cluster \in failed
                     /\ Key(w) \notin KeysOf(new)
  IN  new \o Kept(old, {i \in DOMAIN old : carried(old[i])})

(* Mutant: a later scan starts from nothing. *)
MergeNothing(oldCompleted, ws) == ws

MergeCompletedStatus(oldCompleted, ws) ==
  Change(ws, LAMBDA w : IF Key(w) \in oldCompleted
                        THEN [w EXCEPT !.status = "completed"] ELSE w)
---------------------------------------------------------------------------
(* Follow-up waves *)

(* The completeness of the cluster, below 0.95 here, is the caller's.      *)
NeedsMoreWaves(cluster, ws, MaxWavesPerCluster) ==
  LET own == {i \in DOMAIN ws : ws[i].cluster = cluster}
  IN  /\ \A i \in own : ws[i].status \notin {"available", "locked", "partial"}
      /\ Cardinality(own) < MaxWavesPerCluster

FilterEmptyWaves(ws) == Kept(ws, {i \in DOMAIN ws : ws[i].actions # <<>>})

(* Issues of the completed waves that an implementation was asked for.     *)
CollectSpecSentIssueIDs(completed, ws) ==
  UNION {{a.issue : a \in {b \in ToSet(ws[i].actions) : ~b.own}} :
           i \in {i \in DOMAIN ws : Key(ws[i]) \in completed}}

(* Mutant: the wrong kind of action is dropped. *)
FilterPROpenOwn(ws, open) ==
  FilterEmptyWaves(Change(ws, LAMBDA w :
    [w EXCEPT !.actions = Kept(@, {n \in DOMAIN @ : @[n].issue \notin open \/ ~@[n].own})]))

FilterPROpenActions(ws, open) ==
  IF open = {} THEN ws
  ELSE FilterEmptyWaves(Change(ws, LAMBDA w :
         [w EXCEPT !.actions =
            Kept(@, {n \in DOMAIN @ : @[n].issue \notin open \/ @[n].own})]))
===========================================================================
