----------------------------- MODULE MCServices -----------------------------
(* Instances of Services for TLC; the other values are in the cfg file.    *)
EXTENDS Services, TLC

CONSTANTS p1, p2

(* The guard of one process has the ID of its store, that of the other one *)
(* does not.                                                               *)
MCGuardID == (p1 :> p1) @@ (p2 :> None)

MCSpecifications == 1 .. 3

AllSections == {"Intent", "Domain", "Decisions", "Steps", "Boundaries", "Evidence"}

Mail(id, revision, supersedes, text, keyed) ==
  [kind |-> "specification", schema |-> "rival-contract-v1", style |-> "",
   titled |-> TRUE, sections |-> AllSections,
   id |-> id, revision |-> revision, supersedes |-> supersedes, body |-> text, keyed |-> keyed]

(* A contract of two revisions with and without keys and predecessors, one *)
(* of another contract, and one that is not valid.                         *)
MCContents ==
  {Mail("A", 1, None, b, FALSE) : b \in {"b1", "b2"}}
  \cup {Mail("A", 2, s, b, k) : s \in {None, 1}, b \in {"b1", "b2"}, k \in BOOLEAN}
  \cup {Mail("B", 1, None, "b1", TRUE), [Mail("A", 2, None, "b1", FALSE) EXCEPT !.revision = 0]}

(* The constructors of lines and the names of the fields.                  *)
Text == INSTANCE Canvas WITH Inputs <- {}, EditLines <- {}
Meta == INSTANCE Corrections WITH Diagnoses <- {}, Plans <- {}

(* Waves to render: one that says nothing, one that is designed, and one   *)
(* with applied actions whose description has a heading of its own.        *)
Bare ==
  [title |-> <<>>, cluster |-> <<>>, issues |-> <<>>, description |-> <<>>, decisions |-> <<>>,
   steps |-> <<>>, applied |-> <<>>, boundaries |-> <<>>, evidence |-> <<>>, style |-> ""]

StepOf(text) == [description |-> text, issue |-> <<"i1">>, detail |-> <<>>, type |-> <<"fix">>]

Rich ==
  [title |-> <<"t">>, cluster |-> <<"c">>, issues |-> <<"i1">>,
   description |-> <<Text!Prose("", <<"d">>)>>, decisions |-> <<Text!Prose("Target:", <<"x">>)>>,
   steps |-> <<StepOf(<<"s">>)>>, applied |-> <<>>,
   boundaries |-> <<Text!Bullet("", <<"b">>), Text!Bullet("Never", <<"b">>)>>,
   evidence |-> <<Text!Bullet("nfr.p95_latency_ms", <<"<", "=", "5">>)>>, style |-> "event-sourced"]

MCInputs ==
  {Bare, Rich,
   [Bare EXCEPT !.style = "generic", !.issues = <<"i1">>,
                !.steps = <<StepOf(<<>>)>>, !.applied = <<<<"a">>>>,
                !.description = <<Text!Heading("Domain"), Text!Prose("", <<"d">>)>>]}

MCEditLines ==
  {Text!Prose("Do not", <<"x">>), Text!Bullet("Read Model:", <<"x">>),
   Text!Bullet("test", <<"=", "=", "1">>), Text!Heading("Domain"), Text!Heading("Risks")}

(* Two waves of the same issue.                                            *)
MCPlans == {[key |-> "w1", issues |-> {"i1"}], [key |-> "w2", issues |-> {"i1"}]}

With(meta) == [f \in Meta!Fields |-> IF f \in DOMAIN meta THEN meta[f] ELSE None]

(* A diagnosis of an old peer, with another spelling, a number that cannot *)
(* be parsed and both delimiters; one with a provider's state; one with a  *)
(* severity nobody knows; and a provider's state alone.                    *)
MCDiagnoses ==
  {With([failure_type |-> "scope_violation", severity |-> <<"other", "high">>,
         target_agent |-> "sightjack", routing_mode |-> <<"plain", "retry">>,
         retry_allowed |-> FALSE, recurrence_count |-> Garbled,
         owner_history |-> <<"amadeus", ",", "sightjack">>,
         routing_history |-> <<"retry", ",", "fast", ">", "retry", ">", ">", "retry">>]),
   With([correlation_id |-> "c1", improvement_schema_version |-> "2", retry_allowed |-> Garbled,
         provider_state |-> <<"other", "paused">>, provider_retry_budget |-> 2,
         recurrence_count |-> 1, outcome |-> <<"other", "resolved">>]),
   With([correlation_id |-> "c2", severity |-> <<"plain", "urgent">>]),
   With([provider_state |-> <<"plain", "waiting">>])}

ASSUME MCDiagnosesAreClear == Cr!DiagnosesAreClear
=============================================================================
