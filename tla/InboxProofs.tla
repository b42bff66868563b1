----------------------------- MODULE InboxProofs -----------------------------
(***************************************************************************)
(* Theorems about Inbox, for any mails, kinds, bounds and re-drains.  A    *)
(* mail on its way is in one place only, the hand or the channel, and the  *)
(* archive knows it; so deduplication by the archive is enough.            *)
(***************************************************************************)
EXTENDS Inbox, SequenceTheorems, TLAPS

(* A mail on its way has not been received, and is not on it twice.        *)
OnTheWayOnce ==
  /\ \A i, j \in 1..Len(buffer) : buffer[i] = buffer[j] => i = j
  /\ \A i \in 1..Len(buffer) : received[buffer[i]] = 0
  /\ hand.at \in {"remove", "send"} =>
       /\ received[hand.name] = 0
       /\ \A i \in 1..Len(buffer) : buffer[i] # hand.name

(* The archive knows every mail that was read.                             *)
ArchiveKnows ==
  /\ \A n \in Names : received[n] > 0 => archive[n] # "none"
  /\ \A i \in 1..Len(buffer) : archive[buffer[i]] # "none"
  /\ hand.at = "archive" => archive[hand.name] = "none"
  /\ hand.at \in {"remove", "send"} => archive[hand.name] # "none"

(* A complete mail in inbox/ has an event, is listed or in hand, or failed.*)
MailsAreSeen ==
  /\ main # "scan" => todo = {}
  /\ main \notin {"down", "watch"} =>
       \A n \in Names : inbox[n] = "whole" /\ events[n] = 0 =>
         \/ n \in todo \cup failed
         \/ hand.at \in {"archive", "remove"} /\ hand.name = n

(* What a re-drain has not asked about came with it.                       *)
UnaskedIsLate ==
  /\ main = "asking" => items \cap Convergence \subseteq asked
  /\ main = "redrain" => items \cap Convergence \subseteq asked \cup late

(* The count of re-drains can grow until the cap ends the session.         *)
CycleIsCapped == main \notin {"session", "ended"} => cycle < MaxRedrain

InboxInv ==
  /\ TypeOK
  /\ CycleIsCapped
  /\ OnTheWayOnce
  /\ ArchiveKnows
  /\ ReceivedOnce
  /\ MailsAreSeen
  /\ UnaskedIsLate

(* The actions of Next by what they touch.                                 *)
SenderStep ==
  \/ \E n \in Names, content \in Prefixes \cup {"whole"} : Deliver(n, content)
  \/ \E n \in Names : FinishWrite(n)

(* The directory and the thread before the first step.                     *)
LEMMA InitInv == Init => InboxInv
<1> SUFFICES ASSUME Init PROVE InboxInv
    OBVIOUS
<1> USE BoundsAssumption DEF Init
<1>1. TypeOK
  BY DEF TypeOK, Idle, Contents
<1>2. OnTheWayOnce /\ ArchiveKnows /\ ReceivedOnce
  BY DEF OnTheWayOnce, ArchiveKnows, ReceivedOnce, Idle
<1>3. MailsAreSeen /\ UnaskedIsLate /\ CycleIsCapped
  BY DEF MailsAreSeen, UnaskedIsLate, CycleIsCapped
<1> QED
  BY <1>1, <1>2, <1>3 DEF InboxInv

(***************************************************************************)
(* Types.                                                                  *)
(***************************************************************************)

(* A thread that is not idle holds a mail.                                 *)
LEMMA HandHoldsMail ==
  ASSUME TypeOK, hand.at # "idle"
  PROVE  hand \in Held
  BY DEF TypeOK, Idle

(* A receive moves one mail from the channel or the hand to the session.   *)
LEMMA ReceiveTypes ==
  ASSUME TypeOK, NEW n \in Names, Receive(n)
  PROVE  /\ hand' = hand \/ hand' = Idle
         /\ buffer' \in Seq(Names)
         /\ items' \subseteq Names
         /\ received' \in [Names -> Nat]
<1>1. hand' = hand \/ hand' = Idle
  BY DEF Receive
<1>2. buffer' \in Seq(Names)
  <2>1. buffer \in Seq(Names)
    BY DEF TypeOK
  <2>2. buffer # <<>> => Tail(buffer) \in Seq(Names)
    BY <2>1, HeadTailProperties
  <2> QED
    BY <2>1, <2>2 DEF Receive
<1>3. items' \subseteq Names /\ received' \in [Names -> Nat]
  BY DEF Receive, TypeOK
<1> QED
  BY <1>1, <1>2, <1>3

(* What the receiving thread does keeps the types.                         *)
LEMMA MonitorTypes ==
  ASSUME TypeOK, Monitor
  PROVE  TypeOK'
<1> USE DEF TypeOK, sender, channel, gate, history, Contents, Idle, Held, TakeInHand
<1>1. CASE \E n \in Names : Dedup(n) \/ SkipUnreadable(n) \/ Read(n)
  <2> PICK n \in Names : Dedup(n) \/ SkipUnreadable(n) \/ Read(n)
      BY <1>1
  <2>0. Take(n)
    BY DEF Dedup, SkipUnreadable, Read
  <2>1. events' \in [Names -> Nat] /\ todo' \subseteq Names
    BY <2>0 DEF Take
  <2>2. CASE Dedup(n)
    BY <2>1, <2>2 DEF Dedup
  <2>3. CASE SkipUnreadable(n)
    BY <2>1, <2>3 DEF SkipUnreadable
  <2>4. CASE Read(n)
    BY <2>1, <2>4 DEF Read
  <2> QED BY <2>2, <2>3, <2>4
<1>0. hand.at # "idle" => hand \in Held
  BY HandHoldsMail
<1>2. CASE Archive
  <2>1. [hand EXCEPT !.at = "remove"] \in Held
    BY <1>0, <1>2 DEF Archive
  <2> QED
    BY <1>0, <1>2, <2>1 DEF Archive
<1>3. CASE ArchiveFails
  <2>1. archive' \in [Names -> Contents \cup {"none"}]
    BY <1>3 DEF ArchiveFails, Partial
  <2>2. hand.name \in Names
    BY <1>0, <1>3 DEF ArchiveFails
  <2> QED
    BY <1>3, <2>1, <2>2 DEF ArchiveFails
<1>4. CASE Remove
  <2>1. [hand EXCEPT !.at = "send"] \in Held
    BY <1>0, <1>4 DEF Remove
  <2> QED
    BY <1>0, <1>4, <2>1 DEF Remove
<1>5. CASE RemoveFails
  BY <1>5 DEF RemoveFails
<1>6. CASE Send
  <2>1. hand.name \in Names
    BY <1>6 DEF Send
  <2> QED
    BY <1>6, <2>1, AppendProperties DEF Send
<1> QED
  BY <1>1, <1>2, <1>3, <1>4, <1>5, <1>6 DEF Monitor

(* So does the session's thread, the count of re-drains included.          *)
LEMMA SessionTypes ==
  ASSUME TypeOK, CycleIsCapped, Session
  PROVE  TypeOK'
<1> USE BoundsAssumption DEF TypeOK, sender, channel, gate, history
<1>1. CASE \E n \in Names : Drain(n) \/ Collect(n)
  <2> PICK n \in Names : Drain(n) \/ Collect(n)
      BY <1>1
  <2>1. Receive(n) /\ late' \subseteq Names
    BY DEF Drain, Collect
  <2>2. /\ hand' = hand \/ hand' = Idle
        /\ buffer' \in Seq(Names)
        /\ items' \subseteq Names
        /\ received' \in [Names -> Nat]
    BY <2>1, ReceiveTypes
  <2> QED
    BY <2>1, <2>2 DEF Receive
<1>2. CASE DrainEnds \/ NothingToAsk \/ Ask \/ Approve \/ Deny
  BY <1>2 DEF DrainEnds, NothingToAsk, Ask, Approve, Deny, Goto
<1>3. CASE RedrainEnds
  <2>1. cycle' \in 0..MaxRedrain
    BY <1>3 DEF RedrainEnds, CycleIsCapped
  <2> QED
    BY <1>3, <2>1 DEF RedrainEnds, Goto
<1> QED
  BY <1>1, <1>2, <1>3 DEF Session

(* Every step keeps the types.                                             *)
LEMMA NextTypes == TypeOK /\ CycleIsCapped /\ [Next]_vars => TypeOK'
<1> SUFFICES ASSUME TypeOK, CycleIsCapped, [Next]_vars PROVE TypeOK'
    OBVIOUS
<1> USE BoundsAssumption, PrefixesAssumption
    DEF TypeOK, sender, channel, gate, history, Contents, Held
<1>1. CASE SenderStep
  <2>1. CASE \E n \in Names, content \in Prefixes \cup {"whole"} :
               Deliver(n, content)
    <3> PICK n \in Names, content \in Prefixes \cup {"whole"} :
               Deliver(n, content)
        BY <2>1
    <3>1. events' \in [Names -> Nat]
      BY DEF Deliver, Notice
    <3>2. inbox' \in [Names -> Contents \cup {"none"}]
      BY DEF Deliver
    <3>3. writing' \subseteq Names /\ deliveries' \in 0..MaxDeliveries
      BY DEF Deliver
    <3> QED
      BY <3>1, <3>2, <3>3 DEF Deliver
  <2>2. CASE \E n \in Names : FinishWrite(n)
    <3> PICK n \in Names : FinishWrite(n)
        BY <2>2
    <3>1. events' \in [Names -> Nat]
      BY DEF FinishWrite, Notice
    <3>2. inbox' \in [Names -> Contents \cup {"none"}]
      BY DEF FinishWrite
    <3> QED
      BY <3>1, <3>2 DEF FinishWrite
  <2> QED
    BY <1>1, <2>1, <2>2 DEF SenderStep
<1>2. CASE AddWatch \/ List \/ ScanEnds
  <2>1. Len(buffer) \in Nat
    BY LenProperties
  <2> QED
    BY <1>2, <2>1 DEF AddWatch, List, ScanEnds
<1>3. CASE Monitor
  BY <1>3, MonitorTypes
<1>4. CASE Session
  BY <1>4, SessionTypes
<1>5. CASE Stop
  <2>1. archive' \in [Names -> Contents \cup {"none"}]
    <3>1. hand.at = "archive" => hand.content \in Contents
      BY HandHoldsMail DEF Held
    <3> QED
      BY <1>5, <3>1 DEF Stop, Partial
  <2> QED
    BY <1>5, <2>1 DEF Stop, Idle
<1>6. CASE UNCHANGED vars
  BY <1>6 DEF vars
<1> QED
  BY <1>1, <1>2, <1>3, <1>4, <1>5, <1>6 DEF Next, SenderStep

(***************************************************************************)
(* The session's thread: the cap, and what has been asked.                 *)
(***************************************************************************)

(* Only a re-drain counts, and it ends the session when the cap is reached.*)
LEMMA NextCycleIsCapped ==
  ASSUME TypeOK, CycleIsCapped, [Next]_vars
  PROVE  CycleIsCapped'
<1> USE BoundsAssumption DEF CycleIsCapped, sender, channel, gate, history, Goto, TakeInHand
<1>1. CASE SenderStep
  BY <1>1 DEF SenderStep, Deliver, FinishWrite
<1>2. CASE AddWatch \/ List \/ ScanEnds
  BY <1>2 DEF AddWatch, List, ScanEnds
<1>3. CASE Monitor
  BY <1>3 DEF Monitor, Dedup, SkipUnreadable, Read, Archive, ArchiveFails,
              Remove, RemoveFails, Send
<1>4. CASE Session
  BY <1>4 DEF Session, Drain, Collect, Receive, DrainEnds, NothingToAsk, Ask,
              Approve, Deny, RedrainEnds, TypeOK
<1>5. CASE Stop
  BY <1>5 DEF Stop
<1>6. CASE UNCHANGED vars
  BY <1>6 DEF vars
<1> QED
  BY <1>1, <1>2, <1>3, <1>4, <1>5, <1>6 DEF Next, SenderStep

(* What the gate asks about is all there is; a re-drain keeps apart what   *)
(* it adds.                                                                *)
LEMMA NextUnaskedIsLate ==
  ASSUME UnaskedIsLate, [Next]_vars
  PROVE  UnaskedIsLate'
<1> USE DEF UnaskedIsLate, sender, channel, gate, history, Goto, TakeInHand
<1>1. CASE SenderStep
  BY <1>1 DEF SenderStep, Deliver, FinishWrite
<1>2. CASE AddWatch \/ List \/ ScanEnds
  BY <1>2 DEF AddWatch, List, ScanEnds
<1>3. CASE Monitor
  BY <1>3 DEF Monitor, Dedup, SkipUnreadable, Read, Archive, ArchiveFails,
              Remove, RemoveFails, Send
<1>4. CASE Session
  <2>1. CASE \E n \in Names : Drain(n) \/ Collect(n)
    BY <2>1 DEF Drain, Collect, Receive
  <2>2. CASE DrainEnds \/ NothingToAsk \/ Ask \/ Approve \/ Deny \/ RedrainEnds
    BY <2>2 DEF DrainEnds, NothingToAsk, Ask, Approve, Deny, RedrainEnds
  <2> QED
    BY <1>4, <2>1, <2>2 DEF Session
<1>5. CASE Stop
  BY <1>5 DEF Stop
<1>6. CASE UNCHANGED vars
  BY <1>6 DEF vars
<1> QED
  BY <1>1, <1>2, <1>3, <1>4, <1>5, <1>6 DEF Next, SenderStep

(***************************************************************************)
(* What the monitor has seen.                                              *)
(***************************************************************************)

(* A complete mail gets an event or is listed, and is then in hand until   *)
(* it is gone or has failed.                                               *)
LEMMA NextMailsAreSeen ==
  ASSUME TypeOK, MailsAreSeen, [Next]_vars
  PROVE  MailsAreSeen'
<1> USE DEF MailsAreSeen, sender, channel, gate, history, Held, TakeInHand
<1>1. CASE SenderStep
  <2>1. CASE \E n \in Names, content \in Prefixes \cup {"whole"} :
               Deliver(n, content)
    BY <2>1 DEF Deliver, Notice, TypeOK
  <2>2. CASE \E n \in Names : FinishWrite(n)
    BY <2>2 DEF FinishWrite, Notice, TypeOK
  <2> QED
    BY <1>1, <2>1, <2>2 DEF SenderStep
<1>2. CASE AddWatch \/ List \/ ScanEnds
  BY <1>2 DEF AddWatch, List, ScanEnds
<1>3. CASE Monitor
  <2>1. CASE \E n \in Names : Dedup(n) \/ SkipUnreadable(n) \/ Read(n)
    <3> PICK n \in Names : Dedup(n) \/ SkipUnreadable(n) \/ Read(n)
        BY <2>1
    <3>1. /\ hand = Idle /\ main' = main
          /\ main # "scan" => todo' = todo
          /\ todo \ {n} \subseteq todo'
          /\ \A m \in Names \ {n} : events'[m] = events[m]
      BY DEF Dedup, SkipUnreadable, Read, Take, TypeOK, Following
    <3>2. CASE Dedup(n)
      BY <3>1, <3>2 DEF Dedup, Idle, TypeOK
    <3>3. CASE SkipUnreadable(n)
      BY <3>1, <3>3 DEF SkipUnreadable, Idle
    <3>4. CASE Read(n)
      BY <3>1, <3>4 DEF Read, Idle
    <3> QED BY <3>2, <3>3, <3>4
  <2>2. CASE Archive \/ ArchiveFails \/ Remove \/ RemoveFails \/ Send
    <3>1. hand.at # "idle"
      BY <2>2 DEF Archive, ArchiveFails, Remove, RemoveFails, Send
    <3>2. hand \in Held
      BY <3>1, HandHoldsMail
    <3>3. CASE Archive
      BY <3>2, <3>3 DEF Archive
    <3>4. CASE ArchiveFails \/ RemoveFails
      BY <3>2, <3>4 DEF ArchiveFails, RemoveFails, Idle
    <3>5. CASE Remove
      BY <3>2, <3>5 DEF Remove, Idle, TypeOK
    <3>6. CASE Send
      BY <3>2, <3>6 DEF Send, Idle
    <3> QED BY <2>2, <3>3, <3>4, <3>5, <3>6
  <2> QED
    BY <1>3, <2>1, <2>2 DEF Monitor
<1>4. CASE Session
  <2>1. CASE \E n \in Names : Drain(n) \/ Collect(n)
    <3> PICK n \in Names : Drain(n) \/ Collect(n)
        BY <2>1
    <3>1. Receive(n)
      BY DEF Drain, Collect
    <3>2. hand' = hand \/ hand.at = "send"
      BY <3>1 DEF Receive, Arrived
    <3> QED
      BY <3>1, <3>2 DEF Receive
  <2>2. CASE DrainEnds \/ NothingToAsk \/ Ask \/ Approve \/ Deny \/ RedrainEnds
    BY <2>2 DEF DrainEnds, NothingToAsk, Ask, Approve, Deny, RedrainEnds, Goto
  <2> QED
    BY <1>4, <2>1, <2>2 DEF Session
<1>5. CASE Stop
  BY <1>5 DEF Stop
<1>6. CASE UNCHANGED vars
  BY <1>6 DEF vars
<1> QED
  BY <1>1, <1>2, <1>3, <1>4, <1>5, <1>6 DEF Next, SenderStep
(***************************************************************************)
(* A mail is received once.                                                *)
(***************************************************************************)

Once == OnTheWayOnce /\ ArchiveKnows /\ ReceivedOnce

(* The archive only grows.                                                 *)
LEMMA ArchiveGrows ==
  ASSUME TypeOK, [Next]_vars, NEW n \in Names, archive[n] # "none"
  PROVE  archive'[n] # "none"
<1> USE DEF TypeOK, sender, channel, gate, history, Held, TakeInHand
<1>0. hand.at # "idle" => hand \in Held
  BY HandHoldsMail
<1>1. CASE SenderStep \/ AddWatch \/ List \/ ScanEnds
  BY <1>1 DEF SenderStep, Deliver, FinishWrite, AddWatch, List, ScanEnds
<1>2. CASE Monitor
  <2>1. CASE Archive
    BY <1>0, <2>1 DEF Archive
  <2>2. CASE ArchiveFails
    BY <1>0, <2>2 DEF ArchiveFails, Partial
  <2> QED
    BY <1>2, <2>1, <2>2 DEF Monitor, Dedup, SkipUnreadable, Read, Remove,
                            RemoveFails, Send
<1>3. CASE Session
  BY <1>3 DEF Session, Drain, Collect, Receive, DrainEnds, NothingToAsk, Ask,
              Approve, Deny, RedrainEnds, Goto
<1>4. CASE Stop
  BY <1>0, <1>4 DEF Stop, Partial
<1>5. CASE UNCHANGED vars
  BY <1>5 DEF vars
<1> QED
  BY <1>1, <1>2, <1>3, <1>4, <1>5 DEF Next, SenderStep

(* The mail of the hand joins those in the channel.                        *)
LEMMA SendOnce ==
  ASSUME TypeOK, Once, Send
  PROVE  Once'
<1> DEFINE k == Len(buffer)
           n == hand.name
<1>1. n \in Names /\ buffer \in Seq(Names)
  BY HandHoldsMail DEF Send, TypeOK, Held
<1>2. /\ k \in Nat
      /\ Len(buffer') = k + 1
      /\ \A i \in 1..k : buffer'[i] = buffer[i]
      /\ buffer'[k + 1] = n
  BY <1>1, AppendProperties, LenProperties DEF Send
<1>3. /\ received[n] = 0 /\ archive[n] # "none"
      /\ \A i \in 1..k : buffer[i] # n
  BY DEF Send, Once, OnTheWayOnce, ArchiveKnows
<1>4. hand'.at = "idle" /\ received' = received /\ archive' = archive
  BY DEF Send, Idle, history
<1>5. \A i \in 1..(k + 1) : i \in 1..k \/ i = k + 1
  BY <1>2
<1>6. OnTheWayOnce'
  BY <1>2, <1>3, <1>4, <1>5 DEF Once, OnTheWayOnce
<1>7. ArchiveKnows' /\ ReceivedOnce'
  BY <1>2, <1>3, <1>4, <1>5 DEF Once, ArchiveKnows, ReceivedOnce
<1> QED
  BY <1>6, <1>7 DEF Once

(* The oldest mail in the channel, or the hand's, is received.             *)
LEMMA ReceiveOnce ==
  ASSUME TypeOK, Once, NEW n \in Names, Receive(n)
  PROVE  Once'
<1>1. /\ buffer \in Seq(Names) /\ Len(buffer) \in Nat
      /\ received \in [Names -> Nat]
  BY LenProperties DEF TypeOK
<1>2. archive' = archive /\ received' = [received EXCEPT ![n] = @ + 1]
  BY DEF Receive
<1>3. CASE buffer # <<>>
  <2>1. /\ n = buffer[1] /\ hand' = hand /\ buffer' = Tail(buffer)
        /\ Len(buffer) > 0
    BY <1>1, <1>3, EmptySeq DEF Receive, Arrived
  <2>2. /\ Len(buffer') = Len(buffer) - 1
        /\ \A i \in 1..Len(buffer') : buffer'[i] = buffer[i + 1]
    BY <1>1, <1>3, <2>1, HeadTailProperties
  <2>3. /\ received[n] = 0 /\ archive[n] # "none"
        /\ \A i \in 1..Len(buffer') : buffer'[i] # n /\ buffer'[i] \in Names
    BY <1>1, <2>1, <2>2, ElementOfSeq DEF Once, OnTheWayOnce, ArchiveKnows
  <2>4. /\ hand.at \in {"remove", "send"} => hand.name # n /\ hand.name \in Names
    BY <1>1, <2>1, HandHoldsMail DEF Once, OnTheWayOnce, Held
  <2>5. OnTheWayOnce'
    BY <1>1, <1>2, <2>1, <2>2, <2>3, <2>4 DEF Once, OnTheWayOnce
  <2>6. ArchiveKnows' /\ ReceivedOnce'
    BY <1>1, <1>2, <2>1, <2>2, <2>3, <2>4 DEF Once, ArchiveKnows, ReceivedOnce
  <2> QED
    BY <2>5, <2>6 DEF Once
<1>4. CASE buffer = <<>>
  <2>1. /\ n = hand.name /\ hand.at = "send" /\ hand'.at = "idle"
        /\ buffer' = <<>> /\ Len(buffer') = 0
    BY <1>4 DEF Receive, Arrived, Idle
  <2>2. received[n] = 0 /\ archive[n] # "none"
    BY <2>1 DEF Once, OnTheWayOnce, ArchiveKnows
  <2> QED
    BY <1>1, <1>2, <2>1, <2>2 DEF Once, OnTheWayOnce, ArchiveKnows, ReceivedOnce
<1> QED
  BY <1>3, <1>4

(* No other step touches the channel, but for Stop, which empties it.      *)
LEMMA NextOnce ==
  ASSUME TypeOK, Once, [Next]_vars
  PROVE  Once'
<1> USE DEF Once, OnTheWayOnce, ArchiveKnows, ReceivedOnce, Held, sender,
           channel, gate, history, TakeInHand
<1>0. /\ buffer \in Seq(Names)
      /\ \A i \in 1..Len(buffer) : buffer[i] \in Names
      /\ hand.at # "idle" => hand \in Held
      /\ \A n \in Names : archive[n] # "none" => archive'[n] # "none"
  BY HandHoldsMail, ElementOfSeq, ArchiveGrows DEF TypeOK
<1>1. CASE SenderStep \/ AddWatch \/ List \/ ScanEnds
  BY <1>1 DEF SenderStep, Deliver, FinishWrite, AddWatch, List, ScanEnds
<1>2. CASE Monitor
  <2>1. CASE \E n \in Names : Dedup(n) \/ SkipUnreadable(n)
    BY <2>1 DEF Dedup, SkipUnreadable
  <2>2. CASE \E n \in Names : Read(n)
    BY <2>2 DEF Read
  <2>3. CASE Archive
    <3>1. /\ hand' = [hand EXCEPT !.at = "remove"]
          /\ hand'.name = hand.name /\ hand'.at = "remove"
          /\ buffer' = buffer /\ received' = received
          /\ archive'[hand.name] # "none"
      BY <1>0, <2>3 DEF Archive, TypeOK
    <3>2. received[hand.name] = 0
      BY <1>0, <2>3 DEF Archive, TypeOK
    <3> QED
      BY <1>0, <2>3, <3>1, <3>2 DEF Archive
  <2>4. CASE ArchiveFails \/ RemoveFails
    BY <1>0, <2>4 DEF ArchiveFails, RemoveFails, Idle
  <2>5. CASE Remove
    BY <1>0, <2>5 DEF Remove, Idle
  <2>6. CASE Send
    BY <2>6, SendOnce
  <2> QED
    BY <1>2, <2>1, <2>2, <2>3, <2>4, <2>5, <2>6 DEF Monitor
<1>3. CASE Session
  <2>1. CASE \E n \in Names : Drain(n) \/ Collect(n)
    BY <2>1, ReceiveOnce DEF Drain, Collect
  <2>2. CASE DrainEnds \/ NothingToAsk \/ Ask \/ Approve \/ Deny \/ RedrainEnds
    BY <2>2 DEF DrainEnds, NothingToAsk, Ask, Approve, Deny, RedrainEnds, Goto
  <2> QED
    BY <1>3, <2>1, <2>2 DEF Session
<1>4. CASE Stop
  BY <1>0, <1>4 DEF Stop, Idle
<1>5. CASE UNCHANGED vars
  BY <1>5 DEF vars
<1> QED
  BY <1>1, <1>2, <1>3, <1>4, <1>5 DEF Next, SenderStep
(***************************************************************************)
(* Theorems.                                                               *)
(***************************************************************************)

(* The invariant holds in every reachable state.                           *)
THEOREM InboxInvHolds == Spec => []InboxInv
<1>1. InboxInv /\ [Next]_vars => InboxInv'
  BY NextTypes, NextCycleIsCapped, NextUnaskedIsLate, NextMailsAreSeen, NextOnce
     DEF InboxInv, Once
<1> QED
  BY InitInv, <1>1, PTL DEF Spec

(* Every variable keeps its type; the re-drains never pass the cap.        *)
THEOREM TypeCorrect == Spec => []TypeOK
<1>1. InboxInv => TypeOK
  BY DEF InboxInv
<1> QED
  BY InboxInvHolds, <1>1, PTL

(* No session gets a mail twice, also after a restart and whatever fails.  *)
THEOREM ReceivedOnceHolds == Spec => []ReceivedOnce
<1>1. InboxInv => ReceivedOnce
  BY DEF InboxInv
<1> QED
  BY InboxInvHolds, <1>1, PTL

(* A monitor with nothing to do has overlooked no complete mail.           *)
THEOREM NothingOverlookedHolds == Spec => []NothingOverlooked
<1>1. InboxInv => NothingOverlooked
  BY DEF InboxInv, MailsAreSeen, NothingOverlooked, Following, Idle
<1> QED
  BY InboxInvHolds, <1>1, PTL

(* The session starts only with convergence mails the approver has seen.   *)
THEOREM EverythingIsAskedHolds == Spec => EverythingIsAsked
<1>1. UnaskedIsLate /\ [Next]_vars =>
        [main # "session" /\ main' = "session" =>
           items' \cap Convergence \subseteq asked']_vars
  <2> SUFFICES ASSUME UnaskedIsLate, Next, main # "session", main' = "session"
               PROVE  items' \cap Convergence \subseteq asked'
      BY DEF vars, sender, channel, gate, history
  <2>1. RedrainEnds
    BY DEF TakeInHand, Next, Deliver, FinishWrite, AddWatch, List, ScanEnds, Monitor, Dedup,
           SkipUnreadable, Read, Archive, ArchiveFails, Remove, RemoveFails,
           Send, Session, Drain, Collect, Receive, DrainEnds, NothingToAsk, Ask,
           Approve, Deny, Stop, Goto
  <2> QED
    BY <2>1 DEF RedrainEnds, Goto, UnaskedIsLate
<1>2. InboxInv => UnaskedIsLate
  BY DEF InboxInv
<1> QED
  BY InboxInvHolds, <1>1, <1>2, PTL DEF Spec, EverythingIsAsked

(***************************************************************************)
(* What the archive holds, without partial copies.                         *)
(***************************************************************************)

(* What is not complete is being written; and the archive, or the hand,    *)
(* has less than all of a mail only of a name that was read early.         *)
CopiesAreRead ==
  /\ \A n \in Names : inbox[n] \in {"torn", "cut"} => n \in writing
  /\ \A n \in Names : archive[n] # "torn" /\ (archive[n] = "cut" => n \in early)
  /\ hand.at \in {"archive", "remove", "send"} =>
       (hand.content = "cut" => hand.name \in early)

LEMMA NextCopiesAreRead ==
  ASSUME ~PartialWrites, TypeOK, CopiesAreRead, [Next]_vars
  PROVE  CopiesAreRead'
<1> USE DEF CopiesAreRead, sender, channel, gate, history, Held
<1>0. hand.at # "idle" => hand \in Held
  BY HandHoldsMail
<1>1. CASE SenderStep
  <2>1. CASE \E n \in Names, content \in Prefixes \cup {"whole"} :
               Deliver(n, content)
    BY <2>1 DEF Deliver, TypeOK
  <2>2. CASE \E n \in Names : FinishWrite(n)
    BY <2>2 DEF FinishWrite, TypeOK
  <2> QED
    BY <1>1, <2>1, <2>2 DEF SenderStep
<1>2. CASE AddWatch \/ List \/ ScanEnds
  BY <1>2 DEF AddWatch, List, ScanEnds
<1>3. CASE Monitor
  <2>1. CASE \E n \in Names : Dedup(n) \/ SkipUnreadable(n)
    BY <2>1 DEF Dedup, SkipUnreadable, Take, TypeOK, Idle
  <2>2. CASE \E n \in Names : Read(n)
    BY <2>2 DEF Read, TakeInHand, TypeOK
  <2>3. CASE Archive
    BY <1>0, <2>3 DEF Archive, TypeOK
  <2>4. CASE ArchiveFails \/ RemoveFails
    BY <1>0, <2>4 DEF ArchiveFails, RemoveFails, Partial, Idle
  <2>5. CASE Remove
    BY <1>0, <2>5 DEF Remove, TypeOK, Idle
  <2>6. CASE Send
    BY <2>6 DEF Send, Idle
  <2> QED
    BY <1>3, <2>1, <2>2, <2>3, <2>4, <2>5, <2>6 DEF Monitor
<1>4. CASE Session
  <2>1. CASE \E n \in Names : Drain(n) \/ Collect(n)
    BY <2>1 DEF Drain, Collect, Receive, Idle
  <2>2. CASE DrainEnds \/ NothingToAsk \/ Ask \/ Approve \/ Deny \/ RedrainEnds
    BY <2>2 DEF DrainEnds, NothingToAsk, Ask, Approve, Deny, RedrainEnds, Goto
  <2> QED
    BY <1>4, <2>1, <2>2 DEF Session
<1>5. CASE Stop
  BY <1>0, <1>5 DEF Stop, Partial, TypeOK, Idle
<1>6. CASE UNCHANGED vars
  BY <1>6 DEF vars
<1> QED
  BY <1>1, <1>2, <1>3, <1>4, <1>5, <1>6 DEF Next, SenderStep

(* If copies to archive/ are made completely or not at all, archive/ has   *)
(* all of a complete mail that leaves inbox/, but for one that was read    *)
(* while its sender was writing.                                           *)
THEOREM NothingDestroyedHolds ==
  ASSUME ~PartialWrites
  PROVE  Spec => NothingDestroyed
<1>1. Init => CopiesAreRead
  BY DEF Init, CopiesAreRead, Idle
<1>2. InboxInv /\ CopiesAreRead /\ [Next]_vars => CopiesAreRead'
  BY NextCopiesAreRead DEF InboxInv
<1>3. InboxInv /\ CopiesAreRead /\ [Next]_vars =>
        [\A n \in Names : inbox[n] = "whole" /\ inbox'[n] = "none" =>
           archive[n] = "whole" \/ (archive[n] = "cut" /\ n \in early)]_vars
  <2> SUFFICES ASSUME InboxInv, CopiesAreRead, Next, NEW n \in Names,
                      inbox[n] = "whole", inbox'[n] = "none"
               PROVE  archive[n] = "whole" \/ (archive[n] = "cut" /\ n \in early)
      BY DEF vars, sender, channel, gate, history
  <2> USE DEF InboxInv, TypeOK, Contents, sender, channel, gate, history
  <2>1. archive[n] # "none" =>
          archive[n] = "whole" \/ (archive[n] = "cut" /\ n \in early)
    BY DEF CopiesAreRead
  <2>2. CASE \E m \in Names : Dedup(m)
    BY <2>1, <2>2 DEF Dedup
  <2>3. CASE Remove
    BY <2>1, <2>3 DEF Remove, ArchiveKnows
  <2>4. CASE SenderStep
    <3>1. CASE \E m \in Names, content \in Prefixes \cup {"whole"} :
                 Deliver(m, content)
      BY <3>1 DEF Deliver
    <3>2. CASE \E m \in Names : FinishWrite(m)
      BY <3>2 DEF FinishWrite
    <3> QED
      BY <2>4, <3>1, <3>2 DEF SenderStep
  <2>5. CASE inbox' = inbox
    BY <2>5
  <2>6. inbox' = inbox \/ SenderStep \/ Remove \/ \E m \in Names : Dedup(m)
    BY DEF Next, SenderStep, AddWatch, List, ScanEnds, Monitor, SkipUnreadable,
           Read, TakeInHand, Archive, ArchiveFails, RemoveFails, Send, Session, Drain,
           Collect, Receive, DrainEnds, NothingToAsk, Ask, Approve, Deny,
           RedrainEnds, Stop, Goto
  <2> QED
    BY <2>2, <2>3, <2>4, <2>5, <2>6
<1> QED
  BY InboxInvHolds, <1>1, <1>2, <1>3, PTL DEF Spec, NothingDestroyed
=============================================================================
