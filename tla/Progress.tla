------------------------------ MODULE Progress ------------------------------
(***************************************************************************)
(* The calls that wait, one after the other: the circuit breaker's Allow,  *)
(* the session event bus, a session waiting for mails, ComposeDMail, and   *)
(* the search for cycles of waves.  They share no state in the code; `part`*)
(* says which of them a behaviour is about.                                *)
(***************************************************************************)
EXTENDS WaveCycles

CONSTANTS
  Callers, BackoffBase, BackoffMax, MinWait, Resets, Unknown,  \* Breaker
  Publishers, Subs, Closers, BufSize,                          \* EventBus
  Kinds, MaxMails,                                             \* Waiting
  Procs, Names, Payloads, NoProc, NoName, MaxRetry,            \* Outbox
  None

VARIABLES
  part,
  state, resetAt, left, backoff, caller, sleep, woken,
  closed, subscribers, buffered, chClosed, done, reading, locker, busPC, toServe,
  items, convNames, hooked, token, adding, monitorEnded, snapshotIdx, session,
  rows, tx, writer, archive, outbox, delivered, pc, mail, batch, cur, some, reply

B == INSTANCE Breaker WITH pc <- caller
E == INSTANCE EventBus WITH writer <- locker, pc <- busPC, rest <- toServe
W == INSTANCE Waiting WITH chClosed <- monitorEnded
O == INSTANCE Outbox

ASSUME ProgressAssumption == B!BreakerAssumption /\ E!EventBusAssumption

breakerVars == <<state, resetAt, left, backoff, caller, sleep, woken>>
busVars == <<closed, subscribers, buffered, chClosed, done, reading, locker, busPC, toServe>>
waitingVars == <<items, convNames, hooked, token, adding, monitorEnded, snapshotIdx, session>>
outboxVars == <<rows, tx, writer, archive, outbox, delivered, pc, mail, batch, cur, some, reply>>
partVars == <<part, vars, breakerVars, busVars, waitingVars, outboxVars>>

(* The parts a behaviour is not about stay as they are at the start.       *)
PartInit ==
  /\ part \in {"cycles", "breaker", "bus", "waiting", "outbox"}
  /\ Init /\ (part # "cycles" => \A w \in Waves : adj[w] = {})
  /\ B!Init
  /\ E!Init
  /\ W!Init /\ (part # "waiting" => items = <<>>)
  /\ O!Init

SearchStep ==
  /\ part = "cycles"
  /\ Next
  /\ UNCHANGED <<part, breakerVars, busVars, waitingVars, outboxVars>>

BreakerStep ==
  /\ part = "breaker"
  /\ B!Next
  /\ UNCHANGED <<part, vars, busVars, waitingVars, outboxVars>>

BusStep ==
  /\ part = "bus"
  /\ E!Next
  /\ UNCHANGED <<part, vars, breakerVars, waitingVars, outboxVars>>

WaitingStep ==
  /\ part = "waiting"
  /\ W!Next
  /\ UNCHANGED <<part, vars, breakerVars, busVars, outboxVars>>

OutboxStep ==
  /\ part = "outbox"
  /\ O!Next
  /\ UNCHANGED <<part, vars, breakerVars, busVars, waitingVars>>

PartNext ==
  \/ SearchStep \/ BreakerStep \/ BusStep \/ WaitingStep
  \/ OutboxStep

PartFairness ==
  /\ part = "cycles" => WF_vars(Next)
  /\ B!Fairness /\ E!Fairness /\ W!Fairness /\ O!Fairness

PartSpec == PartInit /\ [][PartNext]_partVars /\ PartFairness
-----------------------------------------------------------------------------
(* A caller of a tripped provider sleeps no longer than the pause lasts.   *)
NobodyOversleeps == B!NobodyOversleeps

(* Publish never sends on a channel that Close has closed.                 *)
NobodySendsOnClosed == E!NobodySendsOnClosed

(* Every call that waits returns: Allow, unless errors keep coming in; the *)
(* bus's calls and its readers, once it is closed; a session that waits    *)
(* when a mail has come; ComposeDMail, whatever writes fail; and the       *)
(* search, whatever the plan.                                              *)
EveryCallReturns ==
  /\ B!AllowReturns
  /\ E!BusCallsReturn
  /\ W!MailWakes
  /\ O!CallsReturn
  /\ part = "cycles" => Terminates
=============================================================================
