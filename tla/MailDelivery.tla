---------------------------- MODULE MailDelivery ----------------------------
(***************************************************************************)
(* What the transactional outbox promises, whatever its implementation: a  *)
(* D-Mail that was accepted stays pending until it has been delivered at   *)
(* least once, until a newer version of the same name replaces it, or      *)
(* until it has failed MaxRetry times and an operator gives it up.         *)
(***************************************************************************)
EXTENDS Naturals

CONSTANTS
  Names,      \* D-Mail filenames, the keys of the outbox
  Payloads,   \* marshalled D-Mails
  None,       \* no payload
  MaxRetry    \* failed rounds after which a mail is a dead letter

VARIABLES
  pending,    \* for each name the accepted mail still owed, if any
  delivered   \* every <<name, payload>> that ever reached outbox/

vars == <<pending, delivered>>

Nothing == [data |-> None, tries |-> 0]

Waiting(n) == pending[n].data # None

Init ==
  /\ pending = [n \in Names |-> Nothing]
  /\ delivered = {}

(* A mail is accepted; it replaces an older version that is still owed.    *)
Accept(n, d) ==
  /\ pending' = [pending EXCEPT ![n] = [data |-> d, tries |-> 0]]
  /\ UNCHANGED delivered

Deliver(n) ==
  /\ Waiting(n)
  /\ pending[n].tries < MaxRetry
  /\ delivered' = delivered \cup {<<n, pending[n].data>>}
  /\ UNCHANGED pending

(* One round of deliveries ends: the mails in Settled are owed no more, and *)
(* only delivered mails may be settled; those in Failed have used a try.    *)
EndRound(Settled, Failed) ==
  /\ Settled \cap Failed = {}
  /\ \A n \in Settled \cup Failed :
       Waiting(n) /\ pending[n].tries < MaxRetry
  /\ \A n \in Settled : <<n, pending[n].data>> \in delivered
  /\ pending' = [n \in Names |->
                   IF n \in Settled THEN Nothing
                   ELSE IF n \in Failed
                        THEN [data |-> pending[n].data,
                              tries |-> pending[n].tries + 1]
                        ELSE pending[n]]
  /\ UNCHANGED delivered

(* The operator gives up every mail that has used all its tries.           *)
GiveUp ==
  /\ pending' = [n \in Names |->
                   IF pending[n].tries >= MaxRetry THEN Nothing
                                                   ELSE pending[n]]
  /\ UNCHANGED delivered

Next ==
  \/ \E n \in Names, d \in Payloads : Accept(n, d)
  \/ \E n \in Names : Deliver(n)
  \/ \E Settled, Failed \in SUBSET Names : EndRound(Settled, Failed)
  \/ GiveUp

Spec == Init /\ [][Next]_vars

=============================================================================
