----------------------------- MODULE Corrections -----------------------------
(***************************************************************************)
(* Corrective feedback (domain/improvement.go, provider_state.go,          *)
(* session/improvement_metadata.go, correction_insight.go): the metadata   *)
(* of a peer's mail is parsed, picked for a wave, forwarded with the mail  *)
(* that goes out for it, and noted in the ledger of insights.              *)
(*                                                                         *)
(* Metadata is a function of fields, None where there is no value.  In a   *)
(* mail a history is a sequence of words, ">" and ","; parsed it is a      *)
(* sequence of entries, each a sequence of words.  Mails go out through    *)
(* the peers' and the tests' use of Apply: this commit does not call it.   *)
(***************************************************************************)
EXTENDS Naturals, Sequences

CONSTANTS
  Diagnoses,   \* what a peer may put into a mail, as metadata
  Plans,       \* waves: [key, issues]
  Words,       \* what histories are made of
  Peers,       \* tools, by name
  MaxMails,
  None, Garbled

VARIABLES
  mails,   \* the feedback of the session, oldest first
  sent,    \* for each wave the metadata of its last mail, and which of `mails` it came from
  remarks  \* improvement-loop.md: what it says of each of `mails`

vars == <<mails, sent, remarks>>

Vocabulary ==
  [severity       |-> {"low", "medium", "high"},
   routing_mode   |-> {"retry", "reroute", "escalate"},
   provider_state |-> {"active", "waiting", "degraded", "paused"},
   outcome        |-> {"pending", "resolved", "escalated", "failed_again", "ignored"}]

Texts == {"failure_type", "secondary_type", "target_agent", "corrective_action",
          "escalation_reason", "correlation_id", "trace_id", "improvement_schema_version",
          "provider_reason", "provider_resume_at", "provider_resume_when"}
Histories == {"routing_history", "owner_history"}
Numbers == {"recurrence_count", "provider_retry_budget"}
ProviderFields == {"provider_state", "provider_reason", "provider_resume_at", "provider_resume_when"}
Fields == DOMAIN Vocabulary \cup Texts \cup Histories \cup Numbers \cup {"retry_allowed"}

(* No value is none of the values, histories are made of words, and the    *)
(* names of peers are words but no delimiters.                             *)
CorrectionsAssumption ==
  /\ None # <<"plain", "pending">> /\ None \notin Nat \cup Seq(Words)
  /\ Garbled \notin Nat
  /\ {">", ","} \subseteq Words /\ Peers \subseteq Words \ {">", ","}
  /\ \A d \in Diagnoses, k \in Histories : d[k] = None \/ d[k] \in Seq(Words)

Nothing == [k \in Fields |-> None]    \* a mail without metadata
ImprovementSchemaVersion == "1"

Or(value, default) == IF value = None THEN default ELSE value
---------------------------------------------------------------------------
(* Strings are compared as written; "HIGH" stands for another spelling of  *)
(* a word, <<"other", word>>.                                              *)
Normalize(v) == IF v # None /\ v[1] = "other" THEN <<"plain", v[2]>> ELSE v

IsKnown(k, v) == v[1] \in {"plain", "other"} /\ v[2] \in Vocabulary[k]

AppendHistory(history, entry) ==
  IF entry = <<>> \/ (history # <<>> /\ history[Len(history)] = entry) THEN history
  ELSE Append(history, entry)

NormalizeHistory(entries) ==
  LET upTo[i \in 0 .. Len(entries)] ==
        IF i = 0 THEN <<>> ELSE AppendHistory(upTo[i - 1], entries[i])
  IN  upTo[Len(entries)]

Delimiter(raw) ==
  IF (\A i \in DOMAIN raw : raw[i] # ">") /\ (\E i \in DOMAIN raw : raw[i] = ",") THEN "," ELSE ">"

Split(raw, delimiter) ==
  LET upTo[i \in 0 .. Len(raw)] ==
        IF i = 0 THEN <<<<>>>>
        ELSE LET before == upTo[i - 1]
             IN  IF raw[i] = delimiter THEN Append(before, <<>>)
                 ELSE [before EXCEPT ![Len(before)] = Append(@, raw[i])]
  IN  upTo[Len(raw)]

ParseHistory(raw) == IF raw = None THEN <<>> ELSE NormalizeHistory(Split(raw, Delimiter(raw)))

FormatHistory(entries) ==
  LET es == NormalizeHistory(entries)
      upTo[i \in 0 .. Len(es)] ==
        IF i = 0 THEN <<>>
        ELSE IF upTo[i - 1] = <<>> THEN es[i] ELSE upTo[i - 1] \o <<">">> \o es[i]
  IN  upTo[Len(es)]

(* A number that cannot be parsed is 0, a flag is missing.                 *)
Parsed(meta, k) ==
  CASE k \in DOMAIN Vocabulary -> Normalize(meta[k])
    [] k \in Histories         -> ParseHistory(meta[k])
    [] k \in Numbers           -> IF meta[k] \in {None, Garbled} THEN 0 ELSE meta[k]
    [] k = "retry_allowed"     -> IF meta[k] = Garbled THEN None ELSE meta[k]
    [] OTHER                   -> meta[k]

CorrectionMetadataFromMap(meta) == [k \in Fields |-> Parsed(meta, k)]

NoCorrection == CorrectionMetadataFromMap(Nothing)

(* The provider's state alone is no correction.                            *)
IsImprovement(m) ==
  \/ \E k \in Fields \ (ProviderFields \cup Numbers) : m[k] # NoCorrection[k]
  \/ m["recurrence_count"] > 0

HasSupportedVocabulary(m) == \A k \in DOMAIN Vocabulary : m[k] = None \/ IsKnown(k, m[k])

Usable(m) == IsImprovement(m) /\ HasSupportedVocabulary(m)

(* What m says replaces what is there, the rest stays.                     *)
Apply(m, meta) ==
  [k \in Fields |->
    CASE k = "improvement_schema_version" -> Or(m[k], ImprovementSchemaVersion)
      [] k \in {"severity", "routing_mode", "provider_state"} -> Or(Normalize(m[k]), meta[k])
      [] k \in Histories -> IF m[k] = <<>> THEN meta[k] ELSE FormatHistory(m[k])
      [] k = "recurrence_count" -> IF m[k] > 0 THEN m[k] ELSE meta[k]
      [] k = "provider_retry_budget" ->
           IF m[k] = 0 /\ \A p \in ProviderFields : m[p] = None THEN meta[k] ELSE m[k]
      [] OTHER -> Or(m[k], meta[k])]

ImprovementEvent(m) ==
  [k \in Fields |->
    CASE k = "improvement_schema_version" -> Or(m[k], ImprovementSchemaVersion)
      [] k \in {"severity", "routing_mode", "provider_state"} -> Normalize(m[k])
      [] OTHER -> m[k]]

ForwardForRecheck(m) ==
  IF ~IsImprovement(m) THEN m
  ELSE [m EXCEPT !["improvement_schema_version"] = Or(@, ImprovementSchemaVersion),
                 !["target_agent"] = None,
                 !["routing_mode"] = None,
                 !["outcome"] = Or(@, <<"plain", "pending">>)]

OverlapsIssueIDs(mail, plan) == mail.issues \cap plan.issues # {}

(* Mutant: a mail that cannot be used ends the search.                     *)
CorrectionOfLast(feedback, plan) ==
  LET Relevant(i) == feedback[i].wave = plan.key \/ OverlapsIssueIDs(feedback[i], plan)
      from[i \in 0 .. Len(feedback)] ==
        IF i = 0 THEN NoCorrection
        ELSE LET m == CorrectionMetadataFromMap(feedback[i].metadata)
             IN  IF ~Relevant(i) THEN from[i - 1]
                 ELSE IF Usable(m) THEN ForwardForRecheck(m) ELSE NoCorrection
  IN  from[Len(feedback)]

CorrectionMetadataForWave(feedback, plan) ==
  LET Relevant(i) == feedback[i].wave = plan.key \/ OverlapsIssueIDs(feedback[i], plan)
      from[i \in 0 .. Len(feedback)] ==
        IF i = 0 THEN NoCorrection
        ELSE LET m == CorrectionMetadataFromMap(feedback[i].metadata)
             IN  IF Usable(m) /\ Relevant(i) THEN ForwardForRecheck(m) ELSE from[i - 1]
  IN  from[Len(feedback)]

(* The mail that is to be taken: the last one that counts, 0 for none.     *)
Latest(p) ==
  LET Counts(i) == /\ mails[i].wave = p.key \/ OverlapsIssueIDs(mails[i], p)
                   /\ Usable(CorrectionMetadataFromMap(mails[i].metadata))
      all       == {i \in DOMAIN mails : Counts(i)}
  IN  IF all = {} THEN 0 ELSE CHOOSE i \in all : \A j \in all : j <= i

(* The extras of an entry: the failure type, and of the rest what there is *)
(* something to say of.                                                    *)
Unsaid == {"routing_mode", "retry_allowed", "escalation_reason", "improvement_schema_version"}

Said(m, k) ==
  CASE k = "failure_type"          -> TRUE
    [] k = "recurrence_count"      -> m[k] > 0
    [] k = "provider_retry_budget" -> m["provider_state"] # None
    [] OTHER                       -> k \notin Unsaid /\ m[k] # NoCorrection[k]

InsightEntry(m) ==
  [f \in {k \in Fields : Said(m, k)} |->
    CASE f = "failure_type" -> Or(m[f], "none")
      [] f \in Histories    -> FormatHistory(m[f])
      [] f \in {"severity", "provider_state"} -> Normalize(m[f])
      [] OTHER -> m[f]]
---------------------------------------------------------------------------
Init ==
  /\ mails = <<>>
  /\ sent = [p \in Plans |-> [metadata |-> Nothing, of |-> 0]]
  /\ remarks = <<>>

(* WriteCorrectionInsight for a mail that arrives.                         *)
Received(mail) ==
  LET m == CorrectionMetadataFromMap(mail.metadata)
  IN  /\ Len(mails) < MaxMails
      /\ mails' = Append(mails, mail)
      /\ remarks' = Append(remarks, IF Usable(m) THEN InsightEntry(m) ELSE NoCorrection)

(* A peer names the wave, or only the issues.                              *)
Diagnosed(p, d, byWave) ==
  /\ Received([wave |-> IF byWave THEN p.key ELSE None, metadata |-> d,
               issues |-> IF byWave THEN {} ELSE p.issues, of |-> 0, by |-> None])
  /\ UNCHANGED sent

(* The mail of a wave goes out with its correction, if there is one.       *)
Composed(p) ==
  LET m == CorrectionMetadataForWave(mails, p)
  IN  /\ IsImprovement(m)
      /\ sent' = [sent EXCEPT ![p] = [metadata |-> Apply(m, Nothing), of |-> Latest(p)]]
      /\ UNCHANGED <<mails, remarks>>

(* A peer finds the failure again: what it got, with itself as owner.      *)
FailedAgain(p, peer) ==
  LET m     == CorrectionMetadataFromMap(sent[p].metadata)
      again == [m EXCEPT !["owner_history"] = AppendHistory(@, <<peer>>),
                         !["recurrence_count"] = @ + 1,
                         !["target_agent"] = "sightjack",
                         !["outcome"] = <<"plain", "failed_again">>]
  IN  /\ sent[p].of # 0
      /\ Received([wave |-> p.key, issues |-> {}, metadata |-> Apply(again, sent[p].metadata),
                   of |-> sent[p].of, by |-> peer])
      /\ sent' = [sent EXCEPT ![p].of = 0]

Next ==
  \/ \E p \in Plans, d \in Diagnoses, byWave \in BOOLEAN : Diagnosed(p, d, byWave)
  \/ \E p \in Plans : Composed(p)
  \/ \E p \in Plans, peer \in Peers : FailedAgain(p, peer)

Spec == Init /\ [][Next]_vars
---------------------------------------------------------------------------
Correction(i) == CorrectionMetadataFromMap(mails[i].metadata)

Same(m, n, keys) == \A k \in Fields \ keys : m[k] = n[k]

Routes == {"target_agent", "routing_mode", "outcome", "improvement_schema_version"}

(* A wave gets the latest correction that is about it and can be used,     *)
(* whatever came in between, and not where it was to go.                   *)
LatestIsTaken ==
  \A p \in Plans :
    LET m      == CorrectionMetadataForWave(mails, p)
        latest == Latest(p)
    IN  IF latest = 0 THEN m = NoCorrection
        ELSE /\ Same(m, Correction(latest), Routes)
             /\ m["target_agent"] = None /\ m["routing_mode"] = None /\ m["outcome"] # None

(* However often a failure comes back, its diagnosis is what it was, each  *)
(* owner is added behind the others and each return is counted.            *)
ThreadIsKept ==
  \A i \in DOMAIN mails : mails[i].of # 0 =>
    LET now    == Correction(i)
        before == Correction(mails[i].of)
    IN  /\ Same(now, before, Routes \cup {"owner_history", "recurrence_count"})
        /\ now["owner_history"] = AppendHistory(before["owner_history"], <<mails[i].by>>)
        /\ now["recurrence_count"] = before["recurrence_count"] + 1

(* The metadata, the event and the ledger say the same of the mail that    *)
(* came last.                                                              *)
FormsAgree ==
  mails # <<>> =>
    LET i       == Len(mails)
        m       == Correction(i)
        applied == Apply(m, Nothing)
    IN  Usable(m) =>
          /\ CorrectionMetadataFromMap(applied) = ImprovementEvent(m)
          /\ \A k \in DOMAIN remarks[i] \ {"failure_type"} : remarks[i][k] = applied[k]

(* What the thread of a diagnosis rests on: counts are not negative, and no *)
(* comma is left in the only entry of a history, which would be taken for  *)
(* a delimiter the next time.                                              *)
DiagnosesAreClear ==
  \A d \in Diagnoses :
    /\ \A k \in Numbers : d[k] \in Nat \cup {None, Garbled}
    /\ \A k \in Histories :
         LET h == ParseHistory(d[k]) IN Len(h) = 1 => \A j \in DOMAIN h[1] : h[1][j] # ","

CorrectionsSurvive == LatestIsTaken /\ ThreadIsKept /\ FormsAgree
=============================================================================
