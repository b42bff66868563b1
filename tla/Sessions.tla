------------------------------ MODULE Sessions ------------------------------
(***************************************************************************)
(* Coding sessions: the table of .run/sessions.db                          *)
(* (session/coding_session_store.go, domain/coding_session.go) and what    *)
(* `sessions list`, `sessions enter` and `status` read from it.            *)
(*                                                                         *)
(* Times are in the table as RFC3339Nano texts and ordered as texts.  Such *)
(* a text leaves out the zeros at the end of a fraction, and the "Z" that  *)
(* ends it sorts behind the point and the digits.                          *)
(*                                                                         *)
(* The runners that write the table are the peer tools' and the tests': a  *)
(* runner holds the record it has begun, and takes no more steps when it   *)
(* dies.  What is written is up to it and to others: late, again, or a     *)
(* status that is not the record's.  The metadata is not looked at here    *)
(* and left out, as is the time of the update.                             *)
(***************************************************************************)
EXTENDS Naturals, Sequences, FiniteSets

CONSTANTS
  Records, Providers, ProviderIDs,
  MaxTime,   \* bound of the check
  None

(* What a session is begun with; the directory may be missing.             *)
Starts == [provider : Providers, dir : {"", "repo"}, created : Nat]

SessionsAssumption ==
  /\ IsFiniteSet(Records) /\ MaxTime \in Nat
  /\ "claude-code" \in Providers /\ None \notin Starts

Statuses == {"running", "completed", "failed", "abandoned"}

VARIABLES
  now,     \* when the last session was begun
  held,    \* each runner's record in memory
  coded,   \* the rows of coding_sessions
  begun    \* history: with what each session was begun

vars == <<now, held, coded, begun>>

(* The fractions of a second, as digits: a second has four instants here.  *)
Fractions == <<<<>>, <<2>>, <<2, 5>>, <<5>>>>

Second(t) == t \div 4
Fraction(t) == Fractions[(t % 4) + 1]

TextLess(s, t) ==
  LET Char(u, i) == IF i <= Len(Fraction(u)) THEN Fraction(u)[i] ELSE 10
  IN  \/ Second(s) < Second(t)
      \/ /\ Second(s) = Second(t)
         /\ \E i \in 1 .. 3 : /\ Char(s, i) < Char(t, i)
                              /\ \A j \in 1 .. i - 1 : Char(s, j) = Char(t, j)

Init ==
  /\ now = 0
  /\ held = [r \in Records |-> None]
  /\ coded = [r \in Records |-> None]
  /\ begun = [r \in Records |-> None]
-----------------------------------------------------------------------------
(* The record in memory *)

(* Only here is the clock read: it goes on from one session to the next.   *)
NewCodingSessionRecord(r) ==
  /\ begun[r] = None
  /\ \E p \in Providers, dir \in {"", "repo"}, t \in now .. MaxTime :
       /\ now' = t
       /\ begun' = [begun EXCEPT ![r] = [provider |-> p, dir |-> dir, created |-> t]]
       /\ held' = [held EXCEPT ![r] = [provider |-> p, status |-> "running", pid |-> "",
                                       dir |-> dir, created |-> t]]
  /\ UNCHANGED coded

Running(r) == held[r] # None /\ held[r].status = "running"

Complete(r) ==
  /\ Running(r)
  /\ \E id \in ProviderIDs :
       held' = [held EXCEPT ![r].status = "completed", ![r].pid = id]
  /\ UNCHANGED <<now, coded, begun>>

Fail(r) ==
  /\ Running(r)
  /\ held' = [held EXCEPT ![r].status = "failed"]
  /\ UNCHANGED <<now, coded, begun>>
-----------------------------------------------------------------------------
(* The table *)

(* INSERT OR REPLACE of the record, in which a caller may have set a       *)
(* provider's ID, whatever the row is by now.                              *)
Save(r) ==
  /\ held[r] # None
  /\ \E id \in ProviderIDs \cup {held[r].pid} :
       coded' = [coded EXCEPT ![r] = [held[r] EXCEPT !.pid = id]]
  /\ UNCHANGED <<now, held, begun>>

(* Mutant: the row is made new from what the update is given.              *)
UpdateByReplace(r) ==
  /\ coded[r] # None
  /\ \E status \in Statuses, id \in ProviderIDs \cup {""} :
       coded' = [coded EXCEPT ![r].status = status, ![r].pid = id, ![r].created = now]
  /\ UNCHANGED <<now, held, begun>>

(* It looks neither at the row nor at a record in memory; without a row it *)
(* is an error.                                                            *)
UpdateStatus(r) ==
  /\ coded[r] # None
  /\ \E status \in Statuses, id \in ProviderIDs \cup {""} :
       coded' = [coded EXCEPT ![r].status = status, ![r].pid = id]
  /\ UNCHANGED <<now, held, begun>>

Rows == {r \in Records : coded[r] # None}

FindByProviderSessionID(p, id) == {r \in Rows : coded[r].provider = p /\ coded[r].pid = id}

(* ORDER BY created_at DESC LIMIT 1: of equal texts any.                   *)
Last(S) == {r \in S : \A q \in S : ~TextLess(coded[r].created, coded[q].created)}

LatestByProviderSessionID(p, id) == Last(FindByProviderSessionID(p, id))

Having(statuses) == {r \in Rows : coded[r].status \in statuses}

(* The sets of rows a list of at most n may consist of.                    *)
List(statuses, n) ==
  LET found == Having(statuses)
  IN  {S \in SUBSET found :
        /\ Cardinality(S) = IF Cardinality(found) < n THEN Cardinality(found) ELSE n
        /\ \A r \in S, q \in found \ S : ~TextLess(coded[r].created, coded[q].created)}

(* sessions enter: the rows it may resume, by record or by provider id.    *)
Enterable(r) == coded[r].pid # "" /\ coded[r].dir # ""

EnterRecord == {r \in Rows : Enterable(r)}

EnterLatest(id) == {r \in LatestByProviderSessionID("claude-code", id) : Enterable(r)}

(* status: the row whose metadata is shown.                                *)
ApplyLatestProviderMetadata == UNION List(Statuses, 1)

Next ==
  \E r \in Records :
    \/ NewCodingSessionRecord(r) \/ Complete(r) \/ Fail(r) \/ Save(r) \/ UpdateStatus(r)

Spec == Init /\ [][Next]_vars
-----------------------------------------------------------------------------
(* Whoever wrote a row last, and however late, it has the provider, the    *)
(* directory and the time its session was begun with; so a session that is *)
(* entered is resumed in the directory in which it was begun.              *)
StartIsKept ==
  /\ \A r \in Rows :
       [provider |-> coded[r].provider, dir |-> coded[r].dir, created |-> coded[r].created]
         = begun[r]
  /\ \A r \in EnterRecord \cup UNION {EnterLatest(id) : id \in ProviderIDs} :
       begun[r].dir # "" /\ coded[r].dir = begun[r].dir

(* Session q was begun after r, and their texts say so too: not when they  *)
(* are of one second, and r's fraction is where q's begins.                *)
ClearlyLater(q, r) ==
  LET s == begun[r].created
      t == begun[q].created
  IN  /\ s < t
      /\ ~(/\ Second(s) = Second(t)
           /\ \A i \in DOMAIN Fraction(s) :
                i \in DOMAIN Fraction(t) /\ Fraction(t)[i] = Fraction(s)[i])

(* No session of the same provider id was begun clearly later than the one *)
(* that is entered by it; none of those a list leaves out clearly later    *)
(* than one it has; and none at all clearly later than the one of status.  *)
LatestIsRecent ==
  /\ \A id \in ProviderIDs :
       \A r \in EnterLatest(id), q \in FindByProviderSessionID("claude-code", id) :
         ~ClearlyLater(q, r)
  /\ \A status \in Statuses, n \in 1 .. Cardinality(Records) - 1 :
       \A S \in List({status}, n) : \A r \in S, q \in Having({status}) \ S : ~ClearlyLater(q, r)
  /\ \A r \in ApplyLatestProviderMetadata, q \in Rows : ~ClearlyLater(q, r)

SessionsAreKept == [](StartIsKept /\ LatestIsRecent)
=============================================================================
