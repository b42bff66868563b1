------------------------------ MODULE RunLock ------------------------------
(***************************************************************************)
(* The lock of a run across processes: session/run_lock_store.go under     *)
(* harness/policy/run_guard.go, and the daemon lock of                     *)
(* session/daemon_lock_unix.go.                                            *)
(*                                                                         *)
(* A lock is a row with a holder and an end of the lease; it is never      *)
(* renewed.  TryAcquire is three autocommitted statements over a time that *)
(* it reads before the first.  Times are in halves of a second; the code   *)
(* stores and compares them as RFC3339Nano text, which leaves out a zero   *)
(* fraction, so that within one second "...05Z" sorts behind "...05.5Z".   *)
(***************************************************************************)
EXTENDS Integers

CONSTANTS
  Procs,     \* processes; the store of each has an ID of its own
  Keys,      \* run keys
  GuardID,   \* the holder ID each process's RunGuard was given: its store's or unknown
  TTL,       \* the lease, in halves of a second
  MaxClock,  \* bound of the check: the clock
  None

Times == 0 .. MaxClock
Rows == [holder : Procs, expires : 0 .. MaxClock + TTL]

ASSUME RunLockAssumption ==
  /\ \A p \in Procs : GuardID[p] \in {p, None}
  /\ TTL \in Nat /\ MaxClock \in Nat
  /\ None \notin Procs \cup Rows

VARIABLES
  clock,
  locks,    \* the table run_locks: for each key None or its row
  pc,       \* where each process is
  call,     \* the key and the time of each process's call
  daemon    \* the process that has the flock on daemon.lock

vars == <<clock, locks, pc, call, daemon>>

Calls == [key : Keys, now : Times]

TypeOK ==
  /\ clock \in Times
  /\ locks \in [Keys -> Rows \cup {None}]
  /\ pc \in [Procs -> {"idle", "cleanup", "insert", "query", "running"}]
  /\ call \in [Procs -> Calls]
  /\ daemon \in Procs \cup {None}

(* a < b, as text.                                                         *)
Before(a, b) ==
  \/ a \div 2 < b \div 2
  \/ a \div 2 = b \div 2 /\ a % 2 = 1 /\ b % 2 = 0

Stale(k, now) == locks[k] # None /\ Before(locks[k].expires, now)

IsHeld(k, now) == IF locks[k] = None \/ Stale(k, now) THEN None ELSE locks[k].holder

Init ==
  /\ clock = 0
  /\ locks = [k \in Keys |-> None]
  /\ pc = [p \in Procs |-> "idle"]
  /\ call \in [Procs -> [key : Keys, now : {0}]]
  /\ daemon = None

Goto(p, l) == pc' = [pc EXCEPT ![p] = l]

AllowRun(p, k) ==
  /\ pc[p] = "idle"
  /\ call' = [call EXCEPT ![p] = [key |-> k, now |-> clock]]
  /\ Goto(p, "cleanup")
  /\ UNCHANGED <<clock, locks, daemon>>

Cleanup(p) ==
  /\ pc[p] = "cleanup"
  /\ LET k == call[p].key
     IN  locks' = IF Stale(k, call[p].now) THEN [locks EXCEPT ![k] = None] ELSE locks
  /\ Goto(p, "insert")
  /\ UNCHANGED <<clock, call, daemon>>

Lock(p) == locks' = [locks EXCEPT ![call[p].key] =
                       [holder |-> p, expires |-> call[p].now + TTL]]

(* Mutant: INSERT OR REPLACE.                                              *)
InsertOrReplace(p) ==
  /\ pc[p] = "insert"
  /\ Lock(p)
  /\ Goto(p, "running")
  /\ UNCHANGED <<clock, call, daemon>>

Insert(p) ==
  /\ pc[p] = "insert"
  /\ IF locks[call[p].key] = None
     THEN Lock(p) /\ Goto(p, "running")
     ELSE Goto(p, "query") /\ UNCHANGED locks
  /\ UNCHANGED <<clock, call, daemon>>

(* The run is refused with the holder's name, or with an error when the    *)
(* row went away meanwhile.                                                *)
Refused(p) ==
  /\ pc[p] = "query"
  /\ Goto(p, "idle")
  /\ UNCHANGED <<clock, locks, call, daemon>>

(* A statement fails; a cancelled INSERT may have been executed.           *)
TryAcquireFails(p) ==
  /\ pc[p] \in {"cleanup", "insert"}
  /\ \/ UNCHANGED locks
     \/ pc[p] = "insert" /\ locks[call[p].key] = None /\ Lock(p)
  /\ Goto(p, "idle")
  /\ UNCHANGED <<clock, call, daemon>>

(* The run ends; the row goes only if it has the guard's own holder ID.    *)
ReleaseRun(p) ==
  /\ pc[p] = "running"
  /\ LET k == call[p].key
     IN  locks' = IF locks[k] # None /\ locks[k].holder = GuardID[p]
                  THEN [locks EXCEPT ![k] = None] ELSE locks
  /\ Goto(p, "idle")
  /\ UNCHANGED <<clock, call, daemon>>

TryLockDaemon(p) ==
  /\ daemon = None
  /\ daemon' = p
  /\ UNCHANGED <<clock, locks, pc, call>>

UnlockDaemon(p) ==
  /\ daemon = p
  /\ daemon' = None
  /\ UNCHANGED <<clock, locks, pc, call>>

(* A process dies; the kernel drops its flock, nobody its row.             *)
Crash(p) ==
  /\ pc[p] # "idle" \/ daemon = p
  /\ Goto(p, "idle")
  /\ daemon' = IF daemon = p THEN None ELSE daemon
  /\ UNCHANGED <<clock, locks, call>>

Tick ==
  /\ clock < MaxClock
  /\ clock' = clock + 1
  /\ UNCHANGED <<locks, pc, call, daemon>>

Next ==
  \/ \E p \in Procs :
       \/ \E k \in Keys : AllowRun(p, k)
       \/ Cleanup(p) \/ Insert(p) \/ Refused(p) \/ TryAcquireFails(p)
       \/ ReleaseRun(p) \/ Crash(p)
       \/ TryLockDaemon(p) \/ UnlockDaemon(p)
  \/ Tick

Spec == Init /\ [][Next]_vars
---------------------------------------------------------------------------
Lease(p) == call[p].now + TTL

(* A run whose lease has a second left is protected: everybody who asks    *)
(* sees it as the holder, although leases are compared as text, stale rows *)
(* are removed by whoever comes, and rows outlive the runs that wrote them.*)
LeaseIsRespected ==
  \A p \in Procs : pc[p] = "running" /\ clock + 2 <= Lease(p) =>
    IsHeld(call[p].key, clock) = p
===========================================================================
