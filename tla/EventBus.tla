------------------------------ MODULE EventBus ------------------------------
(***************************************************************************)
(* The bus of session stream events: platform/session_event_bus.go.        *)
(*                                                                         *)
(* Publish holds the RWMutex shared while it goes through the subscribers; *)
(* Subscribe and Close take it exclusively.  A writer that waits keeps new *)
(* readers out.  Events are only counted, in the subscribers' buffers.     *)
(***************************************************************************)
EXTENDS Integers, Sequences

CONSTANTS
  Publishers,  \* goroutines that publish, again and again
  Subs,        \* goroutines that subscribe, read until the channel is closed
               \* or unsubscribe
  Closers,     \* goroutines that close the bus
  BufSize,
  None

EventBusAssumption ==
  /\ Publishers \cap (Subs \cup Closers) = {} /\ Subs \cap Closers = {}
  /\ None \notin Subs \cup Closers
  /\ BufSize \in Nat

Writers == Subs \cup Closers
BusCallers == Publishers \cup Writers

VARIABLES
  closed,
  subscribers,  \* the list of the bus
  buffered,     \* for each subscriber, the events in its channel
  chClosed,     \* subscribers whose channel is closed
  done,         \* subscribers whose done channel is closed
  reading,      \* the publishers that hold the lock
  writer,       \* who holds it or waits for it, exclusively
  pc,
  rest          \* for each publisher, the subscribers it has still to serve

bus == <<closed, subscribers, chClosed>>
vars == <<bus, buffered, done, reading, writer, pc, rest>>

TypeOK ==
  /\ closed \in BOOLEAN
  /\ subscribers \in Seq(Subs)
  /\ buffered \in [Subs -> 0 .. BufSize]
  /\ chClosed \subseteq Subs /\ done \subseteq Subs
  /\ reading \subseteq Publishers
  /\ writer \in Writers \cup {None}
  /\ pc \in [BusCallers -> {"idle", "lock", "locked", "reading", "returned"}]
  /\ rest \in [Publishers -> Seq(Subs)]

Init ==
  /\ closed = FALSE
  /\ subscribers = <<>>
  /\ buffered = [s \in Subs |-> 0]
  /\ chClosed = {} /\ done = {}
  /\ reading = {}
  /\ writer = None
  /\ pc = [c \in BusCallers |-> "idle"]
  /\ rest = [p \in Publishers |-> <<>>]

Goto(c, l) == pc' = [pc EXCEPT ![c] = l]

Call(c) ==
  /\ pc[c] = "idle"
  /\ Goto(c, "lock")
  /\ UNCHANGED <<bus, buffered, done, reading, writer, rest>>
---------------------------------------------------------------------------
RLock(p) ==
  /\ pc[p] = "lock"
  /\ writer = None
  /\ reading' = reading \cup {p}
  /\ rest' = [rest EXCEPT ![p] = subscribers]
  /\ Goto(p, "locked")
  /\ UNCHANGED <<bus, buffered, done, writer>>

Sub(p) == Head(rest[p])

(* What the select on a subscriber may do: give up at once when it is done,*)
(* send when there is room, drop the event 100 ms after it found none, be  *)
(* told meanwhile that it is done.                                         *)
PublishOne(p) ==
  /\ pc[p] = "locked"
  /\ rest[p] # <<>>
  /\ \/ /\ Sub(p) \notin done
        /\ buffered[Sub(p)] < BufSize
        /\ buffered' = [buffered EXCEPT ![Sub(p)] = @ + 1]
     \/ /\ Sub(p) \in done \/ buffered[Sub(p)] = BufSize
        /\ UNCHANGED buffered
  /\ rest' = [rest EXCEPT ![p] = Tail(@)]
  /\ UNCHANGED <<bus, done, reading, writer, pc>>

(* After the last subscriber, or while it waits when its context ends.     *)
RUnlock(p) ==
  /\ pc[p] = "locked"
  /\ \/ rest[p] = <<>>
     \/ rest[p] # <<>> /\ Sub(p) \notin done /\ buffered[Sub(p)] = BufSize
  /\ reading' = reading \ {p}
  /\ rest' = [rest EXCEPT ![p] = <<>>]
  /\ Goto(p, "idle")
  /\ UNCHANGED <<bus, buffered, done, writer>>
---------------------------------------------------------------------------
Lock(w) ==
  /\ pc[w] = "lock"
  /\ writer = None
  /\ writer' = w
  /\ Goto(w, "locked")
  /\ UNCHANGED <<bus, buffered, done, reading, rest>>

(* A subscriber of a closed bus is done; its channel stays open.           *)
Subscribe(s) ==
  /\ pc[s] = "locked"
  /\ reading = {}
  /\ IF closed
     THEN done' = done \cup {s} /\ UNCHANGED subscribers
     ELSE subscribers' = Append(subscribers, s) /\ UNCHANGED done
  /\ writer' = None
  /\ Goto(s, "reading")
  /\ UNCHANGED <<closed, chClosed, buffered, reading, rest>>

(* Mutant: the channels are closed without the lock.                       *)
CloseUnlocked(c) ==
  LET all == {subscribers[i] : i \in DOMAIN subscribers}
  IN  /\ pc[c] = "locked"
      /\ closed' = TRUE
      /\ done' = done \cup all
      /\ chClosed' = chClosed \cup all
      /\ subscribers' = <<>>
      /\ writer' = None
      /\ Goto(c, "returned")
      /\ UNCHANGED <<buffered, reading, rest>>

Close(c) ==
  LET all == {subscribers[i] : i \in DOMAIN subscribers}
  IN  /\ pc[c] = "locked"
      /\ reading = {}
      /\ closed' = TRUE
      /\ done' = done \cup all
      /\ chClosed' = chClosed \cup all
      /\ subscribers' = <<>>
      /\ writer' = None
      /\ Goto(c, "returned")
      /\ UNCHANGED <<buffered, reading, rest>>
---------------------------------------------------------------------------
Read(s) ==
  /\ pc[s] = "reading"
  /\ \/ /\ buffered[s] > 0
        /\ buffered' = [buffered EXCEPT ![s] = @ - 1]
        /\ UNCHANGED pc
     \/ /\ buffered[s] = 0
        /\ s \in chClosed
        /\ Goto(s, "returned")
        /\ UNCHANGED buffered
  /\ UNCHANGED <<bus, done, reading, writer, rest>>

(* BusSubscriber.Close: it stays in the list, its channel open; events may *)
(* be left in it.                                                          *)
Unsubscribe(s) ==
  /\ pc[s] = "reading"
  /\ done' = done \cup {s}
  /\ Goto(s, "returned")
  /\ UNCHANGED <<bus, buffered, reading, writer, rest>>

Next ==
  \/ \E c \in BusCallers : Call(c)
  \/ \E p \in Publishers : RLock(p) \/ PublishOne(p) \/ RUnlock(p)
  \/ \E w \in Writers : Lock(w)
  \/ \E s \in Subs : Subscribe(s) \/ Read(s) \/ Unsubscribe(s)
  \/ \E c \in Closers : Close(c)

(* The scheduler, and the timers of Publish.                               *)
Fairness ==
  /\ \A p \in Publishers :
       SF_vars(RLock(p)) /\ WF_vars(PublishOne(p)) /\ WF_vars(RUnlock(p))
  /\ \A w \in Writers : SF_vars(Lock(w))
  /\ \A s \in Subs : WF_vars(Subscribe(s)) /\ WF_vars(Read(s))
  /\ \A c \in Closers : WF_vars(Close(c))

Spec == Init /\ [][Next]_vars /\ Fairness
---------------------------------------------------------------------------
(* Nobody is about to send on a closed channel, which panics, nor can any  *)
(* be closed twice, whatever calls come at the same time.                  *)
NobodySendsOnClosed ==
  /\ \A p \in Publishers : pc[p] = "locked" /\ rest[p] # <<>> =>
       Sub(p) \notin chClosed
  /\ \A i, j \in DOMAIN subscribers : subscribers[i] = subscribers[j] => i = j
  /\ \A i \in DOMAIN subscribers : subscribers[i] \notin chClosed

(* Publish, Subscribe and Close return, even when a subscriber with a full *)
(* buffer does not read; and whoever reads a channel of the bus comes to   *)
(* its end once the bus is closed.  One who subscribes to a closed bus     *)
(* does not: see Subscribe.                                                *)
BusCallsReturn ==
  /\ \A c \in BusCallers : pc[c] = "lock" ~> pc[c] \notin {"lock", "locked"}
  /\ \A s \in Subs : s \in chClosed ~> pc[s] = "returned"
===========================================================================
