------------------------------ MODULE Breaker ------------------------------
(***************************************************************************)
(* The circuit breaker in front of a provider: platform/circuit_breaker.go *)
(* with the kinds of error of harness/verifier/provider_error.go.          *)
(*                                                                         *)
(* Callers ask Allow, which waits while the breaker is open, call the      *)
(* provider and record how it went.  The code compares absolute times;     *)
(* here every time is the distance to it, which Tick shortens: `left` is   *)
(* the time until the pause ends, which is over only when it is negative   *)
(* (the code's After and > are strict), `sleep` what a timer has to run.   *)
(***************************************************************************)
EXTENDS Integers

CONSTANTS
  Callers,
  BackoffBase, BackoffMax,  \* 30 seconds and 10 minutes in the code
  MinWait,                  \* one second
  Resets,                   \* distances of the times a rate limit may announce
  Unknown                   \* a trip without such a time

BreakerAssumption ==
  /\ BackoffBase \in Nat \ {0} /\ BackoffMax \in Nat /\ BackoffBase <= BackoffMax
  /\ MinWait \in Nat \ {0}
  /\ Resets \subseteq Int /\ Unknown \notin Int

VARIABLES
  state,    \* "closed", "open" or "half-open"
  resetAt,  \* whether the end of the pause was announced
  left,     \* the time until the pause ends, -1 if it is over
  backoff,  \* backoffCurrent
  pc,       \* where each caller is
  sleep,    \* the time until its timer fires
  woken     \* its notify channel was closed

breaker == <<state, resetAt, left, backoff>>
vars == <<breaker, pc, sleep, woken>>

Larger(a, b) == IF a > b THEN a ELSE b
Smaller(a, b) == IF a < b THEN a ELSE b

Longest == CHOOSE m \in {BackoffMax} \cup Resets :
             \A n \in {BackoffMax} \cup Resets : n <= m

TypeOK ==
  /\ state \in {"closed", "open", "half-open"}
  /\ resetAt \in BOOLEAN
  /\ left \in -1 .. Longest
  /\ backoff \in BackoffBase .. BackoffMax
  /\ pc \in [Callers -> {"idle", "allow", "waiting", "calling"}]
  /\ sleep \in [Callers -> 0 .. Larger(Longest, MinWait)]
  /\ woken \in [Callers -> BOOLEAN]

Init ==
  /\ state = "closed"
  /\ resetAt = FALSE
  /\ left = -1
  /\ backoff = BackoffBase
  /\ pc = [c \in Callers |-> "idle"]
  /\ sleep = [c \in Callers |-> 0]
  /\ woken = [c \in Callers |-> FALSE]

Goto(c, l) == pc' = [pc EXCEPT ![c] = l]

(* Every channel that a waiting caller holds is the current one or closed. *)
StateChanged == woken' = [c \in Callers |-> woken[c] \/ pc[c] = "waiting"]
---------------------------------------------------------------------------
Ask(c) ==
  /\ pc[c] = "idle"
  /\ Goto(c, "allow")
  /\ UNCHANGED <<breaker, sleep, woken>>

Allow(c) ==
  /\ pc[c] = "allow"
  /\ \/ state # "open"
     \/ left < 0
  /\ state' = IF state = "open" THEN "half-open" ELSE state
  /\ Goto(c, "calling")
  /\ UNCHANGED <<resetAt, left, backoff, sleep, woken>>

Wait(c) ==
  /\ pc[c] = "allow"
  /\ state = "open" /\ left >= 0
  /\ sleep' = [sleep EXCEPT ![c] = IF left = 0 THEN MinWait ELSE left]
  /\ woken' = [woken EXCEPT ![c] = FALSE]
  /\ Goto(c, "waiting")
  /\ UNCHANGED breaker

(* The timer fires or the channel is closed: look again.                   *)
WakeUp(c) ==
  /\ pc[c] = "waiting"
  /\ sleep[c] = 0 \/ woken[c]
  /\ sleep' = [sleep EXCEPT ![c] = 0]
  /\ woken' = [woken EXCEPT ![c] = FALSE]
  /\ Goto(c, "allow")
  /\ UNCHANGED breaker

(* The caller's context is cancelled.                                      *)
Cancel(c) ==
  /\ pc[c] \in {"allow", "waiting"}
  /\ sleep' = [sleep EXCEPT ![c] = 0]
  /\ woken' = [woken EXCEPT ![c] = FALSE]
  /\ Goto(c, "idle")
  /\ UNCHANGED breaker

(* Mutant: the waiting callers are not told.                               *)
RecordSuccessSilently(c) ==
  /\ pc[c] = "calling"
  /\ Goto(c, "idle")
  /\ state' = "closed"
  /\ resetAt' = FALSE
  /\ left' = -1
  /\ backoff' = IF state # "closed" THEN BackoffBase ELSE backoff
  /\ UNCHANGED <<sleep, woken>>

(* A success closes the breaker whatever happened since its call began.    *)
RecordSuccess(c) ==
  /\ pc[c] = "calling"
  /\ Goto(c, "idle")
  /\ IF state # "closed"
     THEN backoff' = BackoffBase /\ StateChanged
     ELSE UNCHANGED <<backoff, woken>>
  /\ state' = "closed"
  /\ resetAt' = FALSE
  /\ left' = -1
  /\ UNCHANGED sleep

(* An error that is not the provider's changes nothing.                    *)
RecordOther(c) ==
  /\ pc[c] = "calling"
  /\ Goto(c, "idle")
  /\ UNCHANGED <<breaker, sleep, woken>>

(* Rate limit or server error: the end is the announced one, or the doubled*)
(* back-off; the last error decides, whichever call it belongs to.         *)
Trip(c, reset) ==
  /\ pc[c] = "calling"
  /\ Goto(c, "idle")
  /\ state' = "open"
  /\ backoff' = Smaller(2 * backoff, BackoffMax)
  /\ resetAt' = (reset # Unknown)
  /\ left' = IF reset = Unknown THEN backoff' ELSE Larger(reset, -1)
  /\ StateChanged
  /\ UNCHANGED sleep

Tick ==
  /\ left >= 0 \/ \E c \in Callers : sleep[c] > 0
  /\ left' = Larger(left - 1, -1)
  /\ sleep' = [c \in Callers |-> Larger(sleep[c] - 1, 0)]
  /\ UNCHANGED <<state, resetAt, backoff, pc, woken>>

Trips == \E c \in Callers, reset \in Resets \cup {Unknown} : Trip(c, reset)

Next ==
  \/ \E c \in Callers :
       \/ Ask(c) \/ Allow(c) \/ Wait(c) \/ WakeUp(c) \/ Cancel(c)
       \/ RecordSuccess(c) \/ RecordOther(c)
  \/ Trips
  \/ Tick

(* Time passes, and Allow's loop runs.                                     *)
Fairness ==
  /\ WF_vars(Tick)
  /\ \A c \in Callers : WF_vars(Allow(c) \/ Wait(c)) /\ WF_vars(WakeUp(c))

Spec == Init /\ [][Next]_vars /\ Fairness
---------------------------------------------------------------------------
(* A caller sleeps no longer than the pause lasts, whatever trips, probes  *)
(* and recoveries happened since it fell asleep: it was told of a change,  *)
(* or its timer ends with the pause (at most MinWait after it).            *)
NobodyOversleeps ==
  \A c \in Callers : pc[c] = "waiting" /\ ~woken[c] =>
    /\ state # "closed"
    /\ sleep[c] <= Larger(left, MinWait)

(* Allow returns, unless errors keep coming in.                            *)
AllowReturns ==
  \A c \in Callers :
    []<><<Trips>>_vars \/ (pc[c] = "waiting" ~> pc[c] \in {"calling", "idle"})
===========================================================================
