----------------------------- MODULE MCContracts -----------------------------
(* Instances of Contracts for TLC: two contracts, two revisions, mails     *)
(* with their own idempotency key or none, one whose metadata is not valid *)
(* and one without a section.                                              *)
EXTENDS Contracts

Mail(id, revision, supersedes, body, keyed) ==
  [kind |-> "specification", schema |-> "rival-contract-v1", style |-> "",
   titled |-> TRUE, sections |-> Sections,
   id |-> id, revision |-> revision, supersedes |-> supersedes, body |-> body, keyed |-> keyed]

MCFiles == 1 .. 3

MCContents ==
  {Mail("A", r, s, b, k) : r \in 1 .. 2, s \in {None, 1}, b \in {"b1", "b2"}, k \in BOOLEAN}
  \cup {Mail("B", 1, None, "b1", TRUE)}
  \cup {[Mail("A", 2, None, "b1", FALSE) EXCEPT !.revision = 0],
        [Mail("A", 2, None, "b1", FALSE) EXCEPT !.sections = @ \ {"Evidence"}]}
==============================================================================
