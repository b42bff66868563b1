------------------------------ MODULE Stalls ------------------------------
(***************************************************************************)
(* Waves that keep failing with the same structural error are escalated by *)
(* a D-Mail: session/stall_detector.go with domain/stall_cooldown.go,      *)
(* domain/error_fingerprint.go and session/dmail_stall.go.                 *)
(*                                                                         *)
(* An error is its fingerprint; transient errors (ClassifyError) have none *)
(* here, since the detector drops them.  ComposeDMail stages a mail and    *)
(* then flushes: one that it reports as failed may be staged all the same  *)
(* and delivered later (see Outbox), and the next attempt has a new name.  *)
(***************************************************************************)
EXTENDS Integers, Sequences, FiniteSets

CONSTANTS
  Waves, Errors,
  Threshold,    \* failures with one error that make a stall
  Window,       \* the cooldown, in units of the clock
  MaxFailures,  \* bound of the check: structural errors recorded of a wave
  MaxUnsent     \* bound of the check: mails of a stall that are not sent

StallsAssumption ==
  Threshold \in Nat \ {0} /\ Window \in Nat \ {0} /\ MaxFailures \in Nat /\ MaxUnsent \in Nat

VARIABLES
  fingerprints,  \* waveFingerprints: for each wave its errors, oldest first
  cooling,       \* for each wave and error, the rest of the cooldown
  staged,        \* history: mails staged since the last cooldown or, without one, success
  failed         \* history: those that were reported as not sent

vars == <<fingerprints, cooling, staged, failed>>

TypeOK ==
  /\ fingerprints \in [Waves -> Seq(Errors)]
  /\ \A w \in Waves : Len(fingerprints[w]) <= MaxFailures
  /\ cooling \in [Waves -> [Errors -> 0 .. Window]]
  /\ staged \in [Waves -> [Errors -> Nat]]
  /\ failed \in [Waves -> [Errors -> Nat]]

NoCounts == [e \in Errors |-> 0]

Init ==
  /\ fingerprints = [w \in Waves |-> <<>>]
  /\ cooling = [w \in Waves |-> NoCounts]
  /\ staged = [w \in Waves |-> NoCounts]
  /\ failed = [w \in Waves |-> NoCounts]

Count(fps, e) == Cardinality({i \in DOMAIN fps : fps[i] = e})

Repeated(fps) == {e \in Errors : Count(fps, e) >= Threshold}

(* DetectRepeatedPattern: the error that was the first to be repeated      *)
(* Threshold times.  Later ones are not looked at as long as it is there.  *)
FirstRepeated(fps) ==
  CHOOSE e \in Errors :
    \E n \in DOMAIN fps :
      /\ Count(SubSeq(fps, 1, n), e) >= Threshold
      /\ Repeated(SubSeq(fps, 1, n - 1)) = {}

Report(w, e) ==
  /\ staged' = [staged EXCEPT ![w][e] = @ + 1]
  /\ cooling' = [cooling EXCEPT ![w][e] = Window]
  /\ UNCHANGED failed

(* Mutant: the cooldown starts although the mail was not sent.             *)
CoolAnyway(w, e) ==
  \/ Report(w, e)
  \/ /\ failed[w][e] < MaxUnsent
     /\ \E landed \in {0, 1} : staged' = [staged EXCEPT ![w][e] = @ + landed]
     /\ failed' = [failed EXCEPT ![w][e] = @ + 1]
     /\ cooling' = [cooling EXCEPT ![w][e] = Window]

(* The mail is sent, or ComposeStallEscalation returns an error and the    *)
(* cooldown does not start.                                                *)
Escalate(w, e) ==
  \/ Report(w, e)
  \/ /\ failed[w][e] < MaxUnsent
     /\ \E landed \in {0, 1} : staged' = [staged EXCEPT ![w][e] = @ + landed]
     /\ failed' = [failed EXCEPT ![w][e] = @ + 1]
     /\ UNCHANGED cooling

(* An attempt at wave w failed with these structural errors, if any.       *)
RecordFailure(w, errors) ==
  LET fps == fingerprints[w] \o errors
      e   == FirstRepeated(fps)
  IN  /\ Len(fps) <= MaxFailures
      /\ fingerprints' = [fingerprints EXCEPT ![w] = fps]
      /\ IF Repeated(fps) # {} /\ cooling[w][e] = 0
         THEN Escalate(w, e)
         ELSE UNCHANGED <<cooling, staged, failed>>

(* A cooldown goes on after a success, and so does what is known of it.    *)
RecordSuccess(w) ==
  LET Kept(h) == [e \in Errors |-> IF cooling[w][e] > 0 THEN h[w][e] ELSE 0]
  IN  /\ fingerprints' = [fingerprints EXCEPT ![w] = <<>>]
      /\ staged' = [staged EXCEPT ![w] = Kept(staged)]
      /\ failed' = [failed EXCEPT ![w] = Kept(failed)]
      /\ UNCHANGED cooling

(* Time passes; what was mailed before the end of a cooldown is history.   *)
Tick ==
  LET over(w, e) == cooling[w][e] = 1
      Kept(h) == [w \in Waves |-> [e \in Errors |-> IF over(w, e) THEN 0 ELSE h[w][e]]]
  IN  /\ \E w \in Waves, e \in Errors : cooling[w][e] > 0
      /\ cooling' = [w \in Waves |-> [e \in Errors |->
                       IF cooling[w][e] > 0 THEN cooling[w][e] - 1 ELSE 0]]
      /\ staged' = Kept(staged)
      /\ failed' = Kept(failed)
      /\ UNCHANGED fingerprints

Attempts == UNION {[1 .. n -> Errors] : n \in 0 .. 2}

Next ==
  \/ \E w \in Waves :
       \/ \E errors \in Attempts : RecordFailure(w, errors)
       \/ RecordSuccess(w)
  \/ Tick

Spec == Init /\ [][Next]_vars
---------------------------------------------------------------------------
(* Between two ends of the cooldown the mails of a wave and an error are   *)
(* no more than the one that was reported and those whose sending failed.  *)
NoSpam == \A w \in Waves, e \in Errors : staged[w][e] <= failed[w][e] + 1

(* A failure that repeats an error often enough is mailed at once, unless  *)
(* an escalation of the wave that did stage its mail is still fresh.       *)
RepeatsAreMailed ==
  \A w \in Waves :
    /\ fingerprints'[w] # fingerprints[w]
    /\ \A e \in Errors : cooling[w][e] = 0 \/ staged[w][e] = 0
    /\ Repeated(fingerprints'[w]) # {}
    => \E e \in Repeated(fingerprints'[w]) :
         staged'[w][e] > staged[w][e] \/ failed'[w][e] > failed[w][e]

StallIsEscalatedOnce == []NoSpam /\ [][RepeatsAreMailed]_vars
===========================================================================
