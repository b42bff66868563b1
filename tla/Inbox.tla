-------------------------------- MODULE Inbox --------------------------------
(***************************************************************************)
(* Receiving D-Mails (internal/session/dmail.go, gate.go): MonitorInbox    *)
(* watches inbox/, scans it once and then follows fsnotify; each mail is   *)
(* copied to archive/, removed from inbox/ and put into a channel, from    *)
(* which the session drains, asks for approval of convergence mails, and   *)
(* collects.  The order of these calls is that of docs/siren-directory.md  *)
(* (D-Mail Lifecycle).                                                     *)
(*                                                                         *)
(* A filename is a message ID, and the sender may deliver it again.  The   *)
(* session has two threads, its own (main) and the monitor's goroutine,    *)
(* which starts when the scan is over; hand is receiveDMailIfNew in        *)
(* whichever of them runs it.                                              *)
(***************************************************************************)
EXTENDS Integers, Sequences, FiniteSets

CONSTANTS
  Names,          \* filenames of mails
  Convergence,    \* those of convergence mails
  Unwanted,       \* those of mails of a kind the session does not take
  Prefixes,       \* what a reader may find of a mail that is being written
  PartialWrites,  \* whether a copy to archive/ may stop in the middle
  MaxRedrain,     \* maxRedrainCycles
  MaxDeliveries   \* bound: how many deliveries there are

ASSUME KindsAssumption == Convergence \subseteq Names /\ Unwanted \subseteq Names
(* "torn" cannot be parsed; "cut" lacks some of the body.                  *)
ASSUME PrefixesAssumption == Prefixes \subseteq {"torn", "cut"}
ASSUME PartialWritesAssumption == PartialWrites \in BOOLEAN
ASSUME BoundsAssumption == MaxRedrain \in Nat \ {0} /\ MaxDeliveries \in Nat

VARIABLES
  inbox, archive,  \* the file of each name: its content, or "none"
  writing,         \* names whose file the sender has not finished
  deliveries,      \* how many there were
  events,          \* file events of each name that are not handled yet
  main,            \* where the session's thread is
  todo,            \* files the scan has still to receive
  hand,            \* where the receiving thread is, and the mail it has
  buffer, cap,     \* the channel: mails in it, and its capacity
  items,           \* mails the session holds
  late,            \* those of the last re-drain
  cycle,           \* re-drains that brought a convergence mail
  asked,           \* convergence mails the approver was last asked about
  received,        \* history: how often the session received each name
  failed,          \* history: names whose receipt failed since the start
  early            \* history: names that were read before they were complete

sender  == <<writing, deliveries>>
channel == <<buffer, cap>>
gate    == <<items, late, cycle, asked>>
history == <<received, failed, early>>
vars == <<inbox, archive, sender, events, main, todo, hand, channel, gate,
          history>>

Contents == {"torn", "cut", "whole"}
Idle == [at |-> "idle"]
Held == [at : {"archive", "remove", "send"}, name : Names, content : {"cut", "whole"}]

Init ==
  /\ inbox = [n \in Names |-> "none"]
  /\ archive = [n \in Names |-> "none"]
  /\ writing = {}
  /\ deliveries = 0
  /\ events = [n \in Names |-> 0]
  /\ main = "down"
  /\ todo = {}
  /\ hand = Idle
  /\ buffer = <<>>
  /\ cap = 0
  /\ items = {}
  /\ late = {}
  /\ cycle = 0
  /\ asked = {}
  /\ received = [n \in Names |-> 0]
  /\ failed = {}
  /\ early = {}

-----------------------------------------------------------------------------
(* The sender (phonewave).  The watcher sees what is created or written    *)
(* after it was added.                                                     *)

(* Mutant: the watcher is added after the scan.                            *)
NoticeAfterScan(n) ==
  events' = IF main \in {"down", "watch", "scan"} THEN events
            ELSE [events EXCEPT ![n] = @ + 1]

Notice(n) ==
  events' = IF main = "down" THEN events ELSE [events EXCEPT ![n] = @ + 1]

Deliver(n, content) ==
  /\ inbox[n] = "none" /\ n \notin writing
  /\ deliveries < MaxDeliveries
  /\ deliveries' = deliveries + 1
  /\ inbox' = [inbox EXCEPT ![n] = content]
  /\ writing' = IF content = "whole" THEN writing ELSE writing \cup {n}
  /\ Notice(n)
  /\ UNCHANGED <<archive, main, todo, hand, channel, gate, history>>

(* A file that was removed meanwhile does not come back.                   *)
FinishWrite(n) ==
  /\ n \in writing
  /\ writing' = writing \ {n}
  /\ IF inbox[n] = "none"
     THEN UNCHANGED <<inbox, events>>
     ELSE inbox' = [inbox EXCEPT ![n] = "whole"] /\ Notice(n)
  /\ UNCHANGED <<archive, deliveries, main, todo, hand, channel, gate, history>>

-----------------------------------------------------------------------------
(* MonitorInbox: watcher.Add, ListDMail, the scan, then the goroutine.     *)

AddWatch ==
  /\ main = "down"
  /\ main' = "watch"
  /\ UNCHANGED <<inbox, archive, sender, events, todo, hand, channel, gate, history>>

(* A failing listing is an empty one.                                      *)
List ==
  /\ main = "watch"
  /\ main' = "scan"
  /\ \/ todo' = {n \in Names : inbox[n] # "none"} /\ UNCHANGED failed
     \/ todo' = {} /\ failed' = Names
  /\ UNCHANGED <<inbox, archive, sender, events, hand, channel, gate, received, early>>

(* make(chan, len(initial)), and go.                                       *)
ScanEnds ==
  /\ main = "scan" /\ todo = {} /\ hand = Idle
  /\ main' = "drain"
  /\ cap' = Len(buffer)
  /\ UNCHANGED <<inbox, archive, sender, events, todo, hand, buffer, gate, history>>

Following == main \in {"drain", "gate", "asking", "redrain", "session", "ended"}

(* The next file: of the scan's list, or of a Create or Write event.       *)
Take(n) ==
  /\ hand = Idle
  /\ \/ /\ main = "scan" /\ n \in todo
        /\ todo' = todo \ {n}
        /\ UNCHANGED events
     \/ /\ Following /\ events[n] > 0
        /\ events' = [events EXCEPT ![n] = @ - 1]
        /\ UNCHANGED todo

-----------------------------------------------------------------------------
(* receiveDMailIfNew and ReceiveDMail.                                     *)

(* A name that is in the archive was received before.                      *)
Dedup(n) ==
  /\ Take(n)
  /\ archive[n] # "none"
  /\ \/ inbox' = [inbox EXCEPT ![n] = "none"] /\ UNCHANGED failed
     \/ failed' = failed \cup {n} /\ UNCHANGED inbox
  /\ UNCHANGED <<archive, sender, main, hand, channel, gate, received, early>>

(* A file that cannot be parsed stays: a Write event will follow.          *)
SkipUnreadable(n) ==
  /\ Take(n)
  /\ archive[n] = "none"
  /\ inbox[n] \in {"none", "torn"}
  /\ UNCHANGED <<inbox, archive, sender, main, hand, channel, gate, history>>

TakeInHand(n) ==
  /\ hand' = [at |-> "archive", name |-> n, content |-> inbox[n]]
  /\ early' = IF n \in writing THEN early \cup {n} ELSE early
  /\ UNCHANGED <<inbox, archive, sender, main, channel, gate, received, failed>>

(* Mutant: parse errors are not looked at.                                 *)
ReadUnparsed(n) ==
  /\ Take(n)
  /\ archive[n] = "none"
  /\ inbox[n] # "none"
  /\ TakeInHand(n)

(* Mutant: without the look into the archive.                              *)
ReadAgain(n) ==
  /\ Take(n)
  /\ inbox[n] \in {"cut", "whole"}
  /\ TakeInHand(n)

Read(n) ==
  /\ Take(n)
  /\ archive[n] = "none"
  /\ inbox[n] \in {"cut", "whole"}
  /\ TakeInHand(n)

Archive ==
  /\ hand.at = "archive"
  /\ archive' = [archive EXCEPT ![hand.name] = hand.content]
  /\ hand' = [hand EXCEPT !.at = "remove"]
  /\ UNCHANGED <<inbox, sender, events, main, todo, channel, gate, history>>

(* os.WriteFile creates the file before it writes it.                      *)
Partial(n) ==
  {archive} \cup
  (IF PartialWrites THEN {[archive EXCEPT ![n] = "torn"]} ELSE {})

(* Mutant: the error of os.WriteFile is logged only.                       *)
ArchiveFailureLogged ==
  /\ hand.at = "archive"
  /\ archive' \in Partial(hand.name)
  /\ hand' = [hand EXCEPT !.at = "remove"]
  /\ UNCHANGED <<inbox, sender, events, main, todo, channel, gate, history>>

ArchiveFails ==
  /\ hand.at = "archive"
  /\ archive' \in Partial(hand.name)
  /\ failed' = failed \cup {hand.name}
  /\ hand' = Idle
  /\ UNCHANGED <<inbox, sender, events, main, todo, channel, gate, received, early>>

(* A mail of another kind is archived and not passed on.                   *)
Remove ==
  /\ hand.at = "remove"
  /\ inbox' = [inbox EXCEPT ![hand.name] = "none"]
  /\ hand' = IF hand.name \in Unwanted THEN Idle ELSE [hand EXCEPT !.at = "send"]
  /\ UNCHANGED <<archive, sender, events, main, todo, channel, gate, history>>

(* The mail is archived, and its receiver sees an error.                   *)
RemoveFails ==
  /\ hand.at = "remove"
  /\ failed' = failed \cup {hand.name}
  /\ hand' = Idle
  /\ UNCHANGED <<inbox, archive, sender, events, main, todo, channel, gate,
                 received, early>>

(* Mutant: a send that does not wait.                                      *)
SendOrDrop ==
  /\ hand.at = "send"
  /\ main = "scan" \/ Following
  /\ buffer' = IF main = "scan" \/ Len(buffer) < cap
               THEN Append(buffer, hand.name) ELSE buffer
  /\ hand' = Idle
  /\ UNCHANGED <<inbox, archive, sender, events, main, todo, cap, gate, history>>

(* The scan collects its mails for the channel it will make; the goroutine *)
(* waits for room in it.                                                   *)
Send ==
  /\ hand.at = "send"
  /\ main = "scan" \/ (Following /\ Len(buffer) < cap)
  /\ buffer' = Append(buffer, hand.name)
  /\ hand' = Idle
  /\ UNCHANGED <<inbox, archive, sender, events, main, todo, cap, gate, history>>

-----------------------------------------------------------------------------
(* The session's thread.                                                   *)

(* What a receive on the channel would return: the oldest mail in it, or   *)
(* that of a waiting sender.                                               *)
Arrived(n) ==
  \/ buffer # <<>> /\ n = Head(buffer)
  \/ buffer = <<>> /\ Following /\ hand.at = "send" /\ n = hand.name

Receive(n) ==
  /\ Arrived(n)
  /\ IF buffer # <<>>
     THEN buffer' = Tail(buffer) /\ UNCHANGED hand
     ELSE hand' = Idle /\ UNCHANGED buffer
  /\ items' = items \cup {n}
  /\ received' = [received EXCEPT ![n] = @ + 1]
  /\ UNCHANGED <<inbox, archive, sender, events, main, todo, cap, cycle, asked,
                 failed, early>>

Drain(n) ==
  /\ main \in {"drain", "redrain"}
  /\ Receive(n)
  /\ late' = late \cup {n}

Collect(n) ==
  /\ main = "session"
  /\ Receive(n)
  /\ UNCHANGED late

Goto(to) ==
  /\ main' = to
  /\ UNCHANGED <<inbox, archive, sender, events, todo, hand, channel, history>>

DrainEnds ==
  /\ main = "drain"
  /\ ~ \E n \in Names : Arrived(n)
  /\ Goto("gate")
  /\ UNCHANGED gate

(* RunConvergenceGate with the mails held so far.                          *)
NothingToAsk ==
  /\ main = "gate"
  /\ items \cap Convergence = {}
  /\ Goto("redrain")
  /\ late' = {}
  /\ UNCHANGED <<items, cycle, asked>>

Ask ==
  /\ main = "gate"
  /\ items \cap Convergence # {}
  /\ asked' = items \cap Convergence
  /\ Goto("asking")
  /\ UNCHANGED <<items, late, cycle>>

Approve ==
  /\ main = "asking"
  /\ Goto("redrain")
  /\ late' = {}
  /\ UNCHANGED <<items, cycle, asked>>

(* Denied, or the approver failed: the mails drained so far are dropped.   *)
Deny ==
  /\ main = "asking"
  /\ Goto("ended")
  /\ items' = {}
  /\ UNCHANGED <<late, cycle, asked>>

(* Mutant: the re-drain only adds to the mails.                            *)
RedrainStarts ==
  /\ main = "redrain"
  /\ ~ \E n \in Names : Arrived(n)
  /\ Goto("session")
  /\ UNCHANGED gate

(* A late convergence mail leads back to the gate, or to the end when the  *)
(* cap is reached.                                                         *)
RedrainEnds ==
  /\ main = "redrain"
  /\ ~ \E n \in Names : Arrived(n)
  /\ IF late \cap Convergence = {}
     THEN Goto("session") /\ UNCHANGED cycle
     ELSE /\ cycle' = cycle + 1
          /\ Goto(IF cycle' < MaxRedrain THEN "gate" ELSE "ended")
  /\ UNCHANGED <<items, late, asked>>

(* The context is cancelled or the process dies; what it holds is gone,    *)
(* and a copy it was writing is there, partial or not.                     *)
Stop ==
  /\ main # "down"
  /\ main' = "down"
  /\ archive' \in IF hand.at = "archive"
                  THEN Partial(hand.name) \cup
                         {[archive EXCEPT ![hand.name] = hand.content]}
                  ELSE {archive}
  /\ events' = [n \in Names |-> 0]
  /\ todo' = {}
  /\ hand' = Idle
  /\ buffer' = <<>>
  /\ cap' = 0
  /\ items' = {}
  /\ late' = {}
  /\ cycle' = 0
  /\ asked' = {}
  /\ failed' = {}
  /\ UNCHANGED <<inbox, sender, received, early>>

Monitor ==
  \/ \E n \in Names : Dedup(n) \/ SkipUnreadable(n) \/ Read(n)
  \/ Archive
  \/ ArchiveFails
  \/ Remove
  \/ RemoveFails
  \/ Send

Session ==
  \/ \E n \in Names : Drain(n) \/ Collect(n)
  \/ DrainEnds
  \/ NothingToAsk
  \/ Ask
  \/ Approve
  \/ Deny
  \/ RedrainEnds

Next ==
  \/ \E n \in Names, content \in Prefixes \cup {"whole"} : Deliver(n, content)
  \/ \E n \in Names : FinishWrite(n)
  \/ AddWatch
  \/ List
  \/ ScanEnds
  \/ Monitor
  \/ Session
  \/ Stop

Spec == Init /\ [][Next]_vars

(* The goroutine handles the events there are, and the collector receives; *)
(* nothing makes the sender deliver or the approver answer.                *)
Fairness == WF_vars(Monitor) /\ WF_vars(\E n \in Names : Collect(n))

FairSpec == Spec /\ Fairness

-----------------------------------------------------------------------------
(* Properties.                                                             *)

TypeOK ==
  /\ inbox \in [Names -> Contents \cup {"none"}]
  /\ archive \in [Names -> Contents \cup {"none"}]
  /\ writing \subseteq Names
  /\ deliveries \in 0..MaxDeliveries
  /\ events \in [Names -> Nat]
  /\ main \in {"down", "watch", "scan", "drain", "gate", "asking", "redrain",
               "session", "ended"}
  /\ todo \subseteq Names
  /\ hand \in {Idle} \cup Held
  /\ buffer \in Seq(Names)
  /\ cap \in Nat
  /\ items \subseteq Names
  /\ late \subseteq Names
  /\ cycle \in 0..MaxRedrain
  /\ asked \subseteq Convergence
  /\ received \in [Names -> Nat]
  /\ failed \subseteq Names
  /\ early \subseteq Names

(* No session gets a mail twice, however often it is delivered, whichever  *)
(* of scan and events announce it, and also after a restart.               *)
ReceivedOnce == \A n \in Names : received[n] <= 1

(* A complete mail leaves inbox/ only when archive/ holds all of it: it    *)
(* may miss the session, but not the permanent record.  The one exception  *)
(* is a name that was read while its sender was writing: a beginning that  *)
(* can be parsed is archived as it is, and deduplication then removes what *)
(* is complete.                                                            *)
NothingDestroyed ==
  [][\A n \in Names : inbox[n] = "whole" /\ inbox'[n] = "none" =>
       archive[n] = "whole" \/ (archive[n] = "cut" /\ n \in early)]_vars

(* A monitor with nothing to do has overlooked no mail, be it delivered    *)
(* before, during or after its scan, in one piece or written slowly.       *)
NothingOverlooked ==
  Following /\ hand = Idle =>
    \A n \in Names :
      events[n] = 0 /\ inbox[n] = "whole" => n \in failed

(* The session starts only after the approver has been asked about every   *)
(* convergence mail it holds, those that came while it was asking included.*)
EverythingIsAsked ==
  [][main # "session" /\ main' = "session" =>
       items' \cap Convergence \subseteq asked']_vars

(* A mail that is delivered while the session runs reaches it, unless an   *)
(* operation fails or the session stops.                                   *)
EveryMailArrives ==
  \A n \in Names \ Unwanted :
    main = "session" /\ inbox[n] = "whole" /\ archive[n] = "none"
      ~> received[n] > 0 \/ n \in failed \/ main = "down"
=============================================================================
