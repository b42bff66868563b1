------------------------------ MODULE Waiting ------------------------------
(***************************************************************************)
(* The waiting phase of a session: FeedbackCollector (session/dmail.go)    *)
(* gathers the mails the inbox monitor hands over, and waitForDMail        *)
(* (session/waiting.go) sleeps until one arrives.                          *)
(*                                                                         *)
(* The collector's goroutine appends a mail under the mutex, calls the     *)
(* hook and leaves a token in a channel of size one; the session notes how *)
(* much it has seen (Snapshot), waits for the token, and looks.            *)
(***************************************************************************)
EXTENDS Integers, Sequences

CONSTANTS
  Kinds,     \* "feedback", "report", "convergence"
  MaxMails,  \* bound of the check: mails handed over
  None

VARIABLES
  items,        \* what was collected
  convNames,    \* the convergence mails among the late ones, by position
  hooked,       \* how many the hook was called for
  token,        \* the channel `notify` is full
  adding,       \* where the goroutine is: None, "added" or "hooked"
  chClosed,     \* the monitor has closed its channel
  snapshotIdx,
  session       \* "working", "waiting", "woken" or "over"

collector == <<items, convNames, hooked, token, adding, chClosed>>
vars == <<collector, snapshotIdx, session>>

TypeOK ==
  /\ items \in Seq(Kinds) /\ Len(items) <= MaxMails
  /\ convNames \subseteq 1 .. MaxMails
  /\ hooked \in 0 .. MaxMails
  /\ token \in BOOLEAN
  /\ adding \in {None, "added", "hooked"}
  /\ chClosed \in BOOLEAN
  /\ snapshotIdx \in 0 .. MaxMails
  /\ session \in {"working", "waiting", "woken", "over"}

(* The mails of the drain are there from the start and leave no token.     *)
Init ==
  /\ items \in {<<>>} \cup {<<k>> : k \in Kinds}
  /\ convNames = {}
  /\ hooked = Len(items)
  /\ token = FALSE
  /\ adding = None
  /\ chClosed = FALSE
  /\ snapshotIdx = 0
  /\ session = "working"

AddMail(k) ==
  /\ adding = None /\ ~chClosed
  /\ Len(items) < MaxMails
  /\ items' = Append(items, k)
  /\ convNames' = IF k = "convergence" THEN convNames \cup {Len(items')} ELSE convNames
  /\ adding' = "added"
  /\ UNCHANGED <<hooked, token, chClosed, snapshotIdx, session>>

OnMail ==
  /\ adding = "added"
  /\ hooked' = hooked + 1
  /\ adding' = "hooked"
  /\ UNCHANGED <<items, convNames, token, chClosed, snapshotIdx, session>>

(* Mutant: a convergence mail only notifies the user.                      *)
NotifyUnlessConvergence ==
  /\ adding = "hooked"
  /\ token' = (token \/ items[Len(items)] # "convergence")
  /\ adding' = None
  /\ UNCHANGED <<items, convNames, hooked, chClosed, snapshotIdx, session>>

Notify ==
  /\ adding = "hooked"
  /\ token' = TRUE
  /\ adding' = None
  /\ UNCHANGED <<items, convNames, hooked, chClosed, snapshotIdx, session>>

MonitorEnds ==
  /\ adding = None /\ ~chClosed
  /\ chClosed' = TRUE
  /\ UNCHANGED <<items, convNames, hooked, token, adding, snapshotIdx, session>>
---------------------------------------------------------------------------
NewSinceSnapshot == SubSeq(items, snapshotIdx + 1, Len(items))

Snapshot ==
  /\ session \in {"working", "woken"}
  /\ snapshotIdx' = Len(items)
  /\ session' = "waiting"
  /\ UNCHANGED collector

(* The token may be an old one.                                            *)
Arrived ==
  /\ session = "waiting"
  /\ token
  /\ token' = FALSE
  /\ session' = "woken"
  /\ UNCHANGED <<items, convNames, hooked, adding, chClosed, snapshotIdx>>

(* The timer fires, after 24 hours at the latest, or the context ends.     *)
TimedOut ==
  /\ session = "waiting"
  /\ session' = "over"
  /\ UNCHANGED <<collector, snapshotIdx>>

Next ==
  \/ \E k \in Kinds : AddMail(k)
  \/ OnMail \/ Notify \/ MonitorEnds
  \/ Snapshot \/ Arrived \/ TimedOut

(* The goroutine and the select run; nothing is assumed of the timer.      *)
Fairness == WF_vars(OnMail) /\ WF_vars(Notify) /\ WF_vars(Arrived)

Spec == Init /\ [][Next]_vars /\ Fairness
---------------------------------------------------------------------------
(* A session that waits is woken by a mail that came after its snapshot,   *)
(* without the timer, whichever of the goroutine's steps the snapshot, an  *)
(* old token or the select fell between.                                   *)
MailWakes ==
  session = "waiting" /\ NewSinceSnapshot # <<>> ~> session # "waiting"
===========================================================================
