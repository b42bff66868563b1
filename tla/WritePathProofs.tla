-------------------------- MODULE WritePathProofs ---------------------------
(***************************************************************************)
(* Proofs about WritePath for every set of processes, clusters, inputs and *)
(* days.  The invariant is WriteInv: what a call has still to write covers *)
(* what its event will name, and, without short writes, every landing of   *)
(* an append keeps the lines that were there.  Then the rebuild: what its  *)
(* snapshot owes is among what it read, and the projection shows it.       *)
(***************************************************************************)
EXTENDS WritePath, Counting

-----------------------------------------------------------------------------
(* The ledger file.                                                        *)

(* Appending an element adds that element and keeps the others.            *)
LEMMA ToSetAppend ==
  ASSUME NEW E, NEW s \in Seq(E), NEW e \in E
  PROVE  ToSet(Append(s, e)) = ToSet(s) \cup {e}
<1>1. /\ DOMAIN s = 1..Len(s)
      /\ DOMAIN Append(s, e) = 1..(Len(s) + 1)
      /\ Len(s) \in Nat
  OBVIOUS
<1>2. Append(s, e)[Len(s) + 1] = e
  OBVIOUS
<1>3. \A i \in 1..Len(s) : Append(s, e)[i] = s[i]
  OBVIOUS
<1>4. 1..(Len(s) + 1) = (1..Len(s)) \cup {Len(s) + 1}
  BY <1>1
<1> QED
  BY <1>1, <1>2, <1>3, <1>4, Zenon DEF ToSet

(* Dropping the last element leaves no new one.                            *)
LEMMA ToSetFront ==
  ASSUME NEW E, NEW s \in Seq(E)
  PROVE  Front(s) \in Seq(E) /\ ToSet(Front(s)) \subseteq ToSet(s)
BY DEF Front, ToSet

(* Of two sequences one after the other both are there.                    *)
LEMMA ToSetConcat ==
  ASSUME NEW E, NEW s \in Seq(E), NEW t \in Seq(E)
  PROVE  ToSet(s) \cup ToSet(t) \subseteq ToSet(s \o t)
<1>1. /\ Len(s) \in Nat /\ Len(t) \in Nat
      /\ DOMAIN s = 1 .. Len(s) /\ DOMAIN t = 1 .. Len(t)
      /\ DOMAIN (s \o t) = 1 .. Len(s) + Len(t)
  OBVIOUS
<1>2. ASSUME NEW i \in 1 .. Len(s) PROVE i \in DOMAIN (s \o t) /\ (s \o t)[i] = s[i]
  BY <1>1
<1>3. ASSUME NEW i \in 1 .. Len(t)
      PROVE  Len(s) + i \in DOMAIN (s \o t) /\ (s \o t)[Len(s) + i] = t[i]
  BY <1>1
<1>4. ToSet(s) \subseteq ToSet(s \o t)
  BY <1>1, <1>2 DEF ToSet
<1>5. ToSet(t) \subseteq ToSet(s \o t)
  BY <1>1, <1>3 DEF ToSet
<1> QED
  BY <1>4, <1>5

(* A sequence holds its head and what its tail holds.                      *)
LEMMA ToSetTail ==
  ASSUME NEW E, NEW s \in Seq(E), s # <<>>
  PROVE  /\ Tail(s) \in Seq(E)
         /\ Head(s) \in E
         /\ ToSet(s) = {Head(s)} \cup ToSet(Tail(s))
<1>1. /\ DOMAIN s = 1..Len(s)
      /\ DOMAIN Tail(s) = 1..(Len(s) - 1)
      /\ Len(s) \in Nat \ {0}
  OBVIOUS
<1>2. Head(s) = s[1] /\ Head(s) \in E /\ Tail(s) \in Seq(E)
  OBVIOUS
<1>3. \A i \in 1..(Len(s) - 1) : Tail(s)[i] = s[i + 1]
  OBVIOUS
<1>4. ToSet(s) \subseteq {Head(s)} \cup ToSet(Tail(s))
  <2>1. \A i \in 1..Len(s) : i # 1 =>
          \E j \in 1..(Len(s) - 1) : s[i] = Tail(s)[j]
    <3> SUFFICES ASSUME NEW i \in 1..Len(s), i # 1
                 PROVE  \E j \in 1..(Len(s) - 1) : s[i] = Tail(s)[j]
      OBVIOUS
    <3>1. i - 1 \in 1..(Len(s) - 1) /\ s[i] = Tail(s)[i - 1]
      BY <1>1, <1>3
    <3> QED
      BY <3>1
  <2> SUFFICES ASSUME NEW x \in ToSet(s), x # Head(s)
               PROVE  x \in ToSet(Tail(s))
    OBVIOUS
  <2>2. PICK i \in 1..Len(s) : x = s[i]
    BY <1>1 DEF ToSet
  <2>3. i # 1
    BY <2>2, <1>2
  <2> QED
    BY <1>1, <2>1, <2>2, <2>3 DEF ToSet
<1>5. {Head(s)} \cup ToSet(Tail(s)) \subseteq ToSet(s)
  <2>1. \A i \in 1..(Len(s) - 1) : i + 1 \in 1..Len(s) /\ Tail(s)[i] = s[i + 1]
    BY <1>1, <1>3
  <2>2. 1 \in 1..Len(s)
    BY <1>1
  <2> QED
    BY <1>1, <1>2, <2>1, <2>2 DEF ToSet
<1> QED
  BY <1>2, <1>4, <1>5

(* Appending a whole event keeps the other lines unless it completes a     *)
(* damaged one; it adds nothing else.                                      *)
LEMMA AppendLines ==
  ASSUME NEW E, NEW f \in Files(E), NEW e \in E
  PROVE  /\ Appended(f, e) \in Files(E)
         /\ LinesOf(Appended(f, e)) \subseteq LinesOf(f) \cup {e}
         /\ f.tail = "clean" =>
              /\ Appended(f, e).tail = "clean"
              /\ LinesOf(Appended(f, e)) = LinesOf(f) \cup {e}
<1>1. f.lines \in Seq(E)
  BY DEF Files
<1>2. CASE f.tail = "clean"
  <2>1. Appended(f, e) = [exists |-> TRUE, lines |-> Append(f.lines, e), tail |-> "clean"]
    BY <1>2 DEF Appended
  <2>2. ToSet(Append(f.lines, e)) = ToSet(f.lines) \cup {e}
    BY <1>1, ToSetAppend
  <2> QED
    BY <2>1, <2>2, <1>1 DEF Files, Tails, LinesOf
<1>3. CASE f.tail # "clean"
  <2>1. Continued(f) \in Seq(E) /\ ToSet(Continued(f)) \subseteq ToSet(f.lines)
    BY <1>1, ToSetFront DEF Continued
  <2>2. Appended(f, e) = [exists |-> TRUE, lines |-> Continued(f), tail |-> "clean"]
    BY <1>3 DEF Appended
  <2> QED
    BY <2>1, <2>2, <1>3 DEF Files, Tails, LinesOf
<1> QED
  BY <1>2, <1>3

(* The same for an append that did not report success: without short       *)
(* writes it either left the lines alone or added the event.               *)
LEMMA UnacknowledgedLines ==
  ASSUME NEW E, NEW f \in Files(E), NEW e \in E, NEW short \in BOOLEAN,
         NEW g \in Unacknowledged(f, e, short)
  PROVE  /\ g \in Files(E)
         /\ LinesOf(g) \subseteq LinesOf(f) \cup {e}
         /\ f.tail = "clean" /\ ~short =>
              g.tail = "clean" /\ LinesOf(f) \subseteq LinesOf(g)
<1>1. f.lines \in Seq(E) /\ f.exists \in BOOLEAN /\ f.tail \in Tails
  BY DEF Files
<1>2. CASE g = f
  BY <1>2
<1>3. CASE g = Opened(f)
  <2>1. g = [exists |-> TRUE, lines |-> f.lines, tail |-> f.tail]
    BY <1>3 DEF Opened, Files
  <2> QED
    BY <2>1, <1>1 DEF Files, LinesOf
<1>4. CASE g = Appended(f, e)
  BY <1>4, AppendLines
<1>5. CASE short /\ g \in {Cut(f), CutAtNewline(f, e)}
  <2>1. Continued(f) \in Seq(E) /\ ToSet(Continued(f)) \subseteq ToSet(f.lines)
    BY <1>1, ToSetFront DEF Continued
  <2>2. CASE g = Cut(f)
    BY <2>1, <2>2, <1>5 DEF Cut, Files, Tails, LinesOf
  <2>3. CASE f.tail = "clean" /\ g = CutAtNewline(f, e)
    <3>1. g = [exists |-> TRUE, lines |-> Append(f.lines, e), tail |-> "bare"]
      BY <2>3 DEF CutAtNewline
    <3>2. ToSet(Append(f.lines, e)) = ToSet(f.lines) \cup {e}
      BY <1>1, ToSetAppend
    <3> QED
      BY <3>1, <3>2, <1>1, <1>5 DEF Files, Tails, LinesOf
  <2> QED
    BY <2>2, <2>3, <1>5 DEF CutAtNewline
<1> QED
  BY <1>2, <1>3, <1>4, <1>5 DEF Unacknowledged

(* Replacing one file of the ledger by one with at most one more event.    *)
LEMMA LedgerStep ==
  ASSUME ledger \in [Days -> Files(Events)],
         NEW d \in Days, NEW e \in Events, NEW g \in Files(Events),
         LinesOf(g) \subseteq LinesOf(ledger[d]) \cup {e},
         ledger' = [ledger EXCEPT ![d] = g]
  PROVE  /\ ledger' \in [Days -> Files(Events)]
         /\ Loaded' \subseteq Loaded \cup {e}
         /\ LinesOf(ledger[d]) \subseteq LinesOf(g) => Loaded \subseteq Loaded'
         /\ e \in LinesOf(g) => e \in Loaded'
         /\ TailsAreClean /\ g.tail = "clean" => TailsAreClean'
<1>1. ledger' \in [Days -> Files(Events)]
  OBVIOUS
<1>2. \A x \in Days : ledger'[x] = IF x = d THEN g ELSE ledger[x]
  OBVIOUS
<1>3. Loaded' = UNION {LinesOf(ledger'[x]) : x \in Days}
  BY DEF Loaded, LinesOf
<1>4. Loaded' \subseteq Loaded \cup {e}
  BY <1>2, <1>3 DEF Loaded
<1>5. LinesOf(ledger[d]) \subseteq LinesOf(g) => Loaded \subseteq Loaded'
  BY <1>2, <1>3 DEF Loaded
<1>6. e \in LinesOf(g) => e \in Loaded'
  BY <1>2, <1>3
<1>7. TailsAreClean /\ g.tail = "clean" => TailsAreClean'
  BY <1>2 DEF TailsAreClean
<1> QED
  BY <1>1, <1>4, <1>5, <1>6, <1>7

-----------------------------------------------------------------------------
(* Types.                                                                  *)

(* The arguments of a call.                                                *)
LEMMA CallTypes ==
  ASSUME NEW c \in Calls
  PROVE  c # NoCall /\ c.clusters \in Seq(Clusters) /\ c.tool \in Tools
BY ScanInputsAssumption, DesignInputsAssumption DEF Calls, NoCall, Tools

(* An event's date is one of Days.                                         *)
LEMMA EventTypes ==
  ASSUME NEW e \in Events
  PROVE  e # NoEvent /\ e.id \in Instants /\ DayOf[e.id] \in Days
BY DayAssumption, MaxEventsAssumption DEF Events, NoEvent, Instants

(* What the three steps that may end an append do to the ledger.           *)
LEMMA LedgerMoves ==
  ASSUME StoreTypes, NEW p \in Procs,
         AppendEvent(p) \/ AppendFails(p) \/ Crash(p)
  PROVE  /\ ledger' \in [Days -> Files(Events)]
         /\ \A e \in Loaded' :
              e \in Loaded \/ (pc[p] = "append" /\ e = event[p])
         /\ ~ShortWrites /\ TailsAreClean =>
              /\ TailsAreClean'
              /\ Loaded \subseteq Loaded'
              /\ AppendEvent(p) => event[p] \in Loaded'
<1>1. CASE UNCHANGED ledger /\ ~AppendEvent(p)
  BY <1>1 DEF StoreTypes, Loaded, TailsAreClean, LinesOf
<1>2. ASSUME pc[p] = "append"
      PROVE  /\ event[p] \in Events
             /\ Day(p) \in Days
             /\ ledger[Day(p)] \in Files(Events)
  BY <1>2, EventTypes DEF StoreTypes, Day
<1>3. CASE AppendEvent(p)
  <2> DEFINE g == Appended(ledger[Day(p)], event[p])
  <2>1. pc[p] = "append" /\ ledger' = [ledger EXCEPT ![Day(p)] = g]
    BY <1>3 DEF AppendEvent
  <2>2. /\ g \in Files(Events)
        /\ LinesOf(g) \subseteq LinesOf(ledger[Day(p)]) \cup {event[p]}
        /\ ledger[Day(p)].tail = "clean" =>
             /\ g.tail = "clean"
             /\ LinesOf(g) = LinesOf(ledger[Day(p)]) \cup {event[p]}
    BY <2>1, <1>2, AppendLines
  <2>3. TailsAreClean => ledger[Day(p)].tail = "clean"
    BY <2>1, <1>2 DEF TailsAreClean
  <2> HIDE DEF g
  <2> QED
    BY <2>1, <2>2, <2>3, <1>2, LedgerStep DEF StoreTypes
<1>4. CASE /\ pc[p] = "append"
           /\ \E f \in Unacknowledged(ledger[Day(p)], event[p], ShortWrites) :
                ledger' = [ledger EXCEPT ![Day(p)] = f]
           /\ ~AppendEvent(p)
  <2>1. PICK g \in Unacknowledged(ledger[Day(p)], event[p], ShortWrites) :
          ledger' = [ledger EXCEPT ![Day(p)] = g]
    BY <1>4
  <2>2. /\ g \in Files(Events)
        /\ LinesOf(g) \subseteq LinesOf(ledger[Day(p)]) \cup {event[p]}
        /\ ledger[Day(p)].tail = "clean" /\ ~ShortWrites =>
             g.tail = "clean" /\ LinesOf(ledger[Day(p)]) \subseteq LinesOf(g)
    BY <1>4, <1>2, UnacknowledgedLines, ShortWritesAssumption
  <2>3. TailsAreClean => ledger[Day(p)].tail = "clean"
    BY <1>4, <1>2 DEF TailsAreClean
  <2> QED
    BY <2>1, <2>2, <2>3, <1>4, <1>2, LedgerStep DEF StoreTypes
<1> QED
  BY <1>1, <1>3, <1>4 DEF AppendFails, Crash

(* The end of a call keeps the types of the process's state.               *)
LEMMA AnswerTypes ==
  ASSUME StoreTypes, NEW p \in Procs, Answer(p)
  PROVE  /\ pc' \in [Procs -> {"idle", "files", "append"}]
         /\ call' \in [Procs -> Calls \cup {NoCall}]
         /\ todo' \in [Procs -> Seq(Clusters)]
         /\ event' \in [Procs -> Events \cup {NoEvent}]
         /\ \A q \in Procs :
              /\ pc'[q] = "idle" <=> call'[q] = NoCall
              /\ pc'[q] = "append" <=> event'[q] # NoEvent
<1>1. <<>> \in Seq(Clusters)
  OBVIOUS
<1> QED
  BY <1>1 DEF StoreTypes, Answer

(* Every step keeps the state of calls, emitters and ledger well typed.    *)
LEMMA StoreTypesPreserved ==
  ASSUME StoreTypes, [Next]_vars
  PROVE  StoreTypes'
<1>1. CASE UNCHANGED <<server, store>>
  BY <1>1 DEF StoreTypes, server, store
<1>2. ASSUME NEW p \in Procs, NEW c \in Calls, StartCall(p, c)
      PROVE  StoreTypes'
  <2>1. c # NoCall /\ c.clusters \in Seq(Clusters)
    BY CallTypes
  <2>2. UNCHANGED <<ledger, clock, event, prevID>> /\ pc[p] = "idle"
    BY <1>2 DEF StartCall, store
  <2> QED
    BY <1>2, <2>1, <2>2 DEF StoreTypes, StartCall
<1>3. ASSUME NEW p \in Procs, WriteFile(p)
      PROVE  StoreTypes'
  <2>1. Tail(todo[p]) \in Seq(Clusters)
    BY <1>3 DEF StoreTypes, WriteFile
  <2> QED
    BY <1>3, <2>1 DEF StoreTypes, WriteFile, store
<1>4. ASSUME NEW p \in Procs, WriteFileFails(p)
      PROVE  StoreTypes'
  BY <1>4, AnswerTypes DEF StoreTypes, WriteFileFails, store
<1>5. ASSUME NEW p \in Procs, Stamp(p)
      PROVE  StoreTypes'
  <2> DEFINE e == [id |-> clock + 1, cause |-> prevID[p], body |-> call[p]]
  <2>1. pc[p] = "files" /\ clock < MaxEvents
    BY <1>5 DEF Stamp
  <2>2. call[p] \in Calls /\ clock + 1 \in Instants /\ prevID[p] \in 0..MaxEvents
    BY <2>1, MaxEventsAssumption DEF StoreTypes, Instants
  <2>3. e \in Events /\ e # NoEvent
    BY <2>2, EventTypes DEF Events
  <2>4. clock' \in 0..MaxEvents
    BY <1>5, <2>1, MaxEventsAssumption DEF StoreTypes, Stamp
  <2>5. /\ event' = [event EXCEPT ![p] = e]
        /\ pc' = [pc EXCEPT ![p] = "append"]
        /\ UNCHANGED <<call, todo, prevID, ledger>>
    BY <1>5 DEF Stamp
  <2> HIDE DEF e
  <2> QED
    BY <2>1, <2>3, <2>4, <2>5 DEF StoreTypes
<1>6. ASSUME NEW p \in Procs, AppendEvent(p)
      PROVE  StoreTypes'
  <2>1. event[p].id \in 0..MaxEvents
    BY <1>6, EventTypes, MaxEventsAssumption DEF StoreTypes, AppendEvent, Instants
  <2> QED
    BY <1>6, <2>1, AnswerTypes, LedgerMoves DEF StoreTypes, AppendEvent
<1>7. ASSUME NEW p \in Procs, AppendFails(p)
      PROVE  StoreTypes'
  BY <1>7, AnswerTypes, LedgerMoves DEF StoreTypes, AppendFails
<1>8. ASSUME NEW p \in Procs, Crash(p)
      PROVE  StoreTypes'
  <2>1. 0 \in 0..MaxEvents
    BY MaxEventsAssumption
  <2> QED
    BY <1>8, <2>1, AnswerTypes, LedgerMoves DEF StoreTypes, Crash
<1> QED
  BY <1>1, <1>2, <1>3, <1>4, <1>5, <1>6, <1>7, <1>8
     DEF Next, vars, RebuildStarts, RebuildReads, RebuildAborts, RebuildSaves

-----------------------------------------------------------------------------
(* The inductive invariant.                                                *)

(* The empty project satisfies the invariant.                              *)
LEMMA InitInv == Init => WriteInv
<1> SUFFICES ASSUME Init
             PROVE  WriteInv
  OBVIOUS
<1> USE DEF Init
<1>1. NoFile \in Files(Events) /\ LinesOf(NoFile) = {} /\ NoFile.tail = "clean"
  BY DEF NoFile, Files, Tails, LinesOf, ToSet
<1>2. Loaded = {}
  BY <1>1 DEF Loaded
<1>3. <<>> \in Seq(Clusters) /\ 0 \in 0..MaxEvents
  BY MaxEventsAssumption
<1>4. StoreTypes
  BY <1>1, <1>3 DEF StoreTypes
<1>5. FilesLanded /\ FilesBeforeLedger
  BY <1>2 DEF FilesLanded, FilesBeforeLedger
<1>6. TailsAreClean /\ AckedIsLoaded /\ ChainsAreLoaded /\ CauseIsLoaded
  BY <1>1, <1>2 DEF TailsAreClean, AckedIsLoaded, ChainsAreLoaded, CauseIsLoaded
<1> QED
  BY <1>4, <1>5, <1>6 DEF WriteInv

(* Every file a call will speak of is still to be written or has landed,   *)
(* and what the ledger speaks of has landed.                               *)
LEMMA FilesPreserved ==
  ASSUME StoreTypes, FilesLanded, FilesBeforeLedger, [Next]_vars
  PROVE  FilesLanded' /\ FilesBeforeLedger'
<1>1. CASE UNCHANGED <<server, effects, store>>
  BY <1>1 DEF FilesLanded, FilesBeforeLedger, server, effects, store, Loaded, LinesOf
<1>2. ASSUME NEW p \in Procs, NEW c \in Calls, StartCall(p, c)
      PROVE  FilesLanded' /\ FilesBeforeLedger'
  <2>1. UNCHANGED <<ledger, written, event>> /\ pc[p] = "idle"
    BY <1>2 DEF StartCall, effects, store
  <2>2. FilesBeforeLedger'
    BY <2>1 DEF FilesBeforeLedger, Loaded, LinesOf
  <2>3. FilesLanded'
    BY <1>2, <2>1 DEF FilesLanded, StartCall, StoreTypes
  <2> QED
    BY <2>2, <2>3
<1>3. ASSUME NEW p \in Procs, WriteFile(p)
      PROVE  FilesLanded' /\ FilesBeforeLedger'
  <2>1. /\ pc[p] = "files" /\ todo[p] # <<>> /\ todo[p] \in Seq(Clusters)
        /\ written' = written \cup {<<call[p].tool, Head(todo[p]), call[p].version>>}
        /\ todo' = [todo EXCEPT ![p] = Tail(@)]
        /\ UNCHANGED <<pc, call, event, ledger>>
    BY <1>3 DEF WriteFile, store, StoreTypes
  <2>2. ToSet(todo[p]) = {Head(todo[p])} \cup ToSet(Tail(todo[p]))
    BY <2>1, ToSetTail
  <2>3. FilesBeforeLedger'
    BY <2>1 DEF FilesBeforeLedger, Loaded, LinesOf
  <2>4. FilesLanded'
    BY <2>1, <2>2, Zenon DEF FilesLanded, StoreTypes
  <2> QED
    BY <2>3, <2>4
<1>4. ASSUME NEW p \in Procs, WriteFileFails(p)
      PROVE  FilesLanded' /\ FilesBeforeLedger'
  <2>1. UNCHANGED <<ledger, written>>
    BY <1>4 DEF WriteFileFails, effects, store
  <2>2. FilesBeforeLedger'
    BY <2>1 DEF FilesBeforeLedger, Loaded, LinesOf
  <2>3. FilesLanded'
    BY <1>4, <2>1 DEF FilesLanded, WriteFileFails, Answer, StoreTypes
  <2> QED
    BY <2>2, <2>3
<1>5. ASSUME NEW p \in Procs, Stamp(p)
      PROVE  FilesLanded' /\ FilesBeforeLedger'
  <2>1. /\ pc[p] = "files" /\ todo[p] = <<>>
        /\ event' = [event EXCEPT ![p] =
             [id |-> clock + 1, cause |-> prevID[p], body |-> call[p]]]
        /\ pc' = [pc EXCEPT ![p] = "append"]
        /\ UNCHANGED <<call, todo, written, ledger>>
    BY <1>5 DEF Stamp, effects
  <2>2. FilesBeforeLedger'
    BY <2>1 DEF FilesBeforeLedger, Loaded, LinesOf
  <2>3. ToSet(todo[p]) = {}
    BY <2>1 DEF ToSet
  <2>4. event'[p].body = call[p]
    BY <2>1 DEF StoreTypes
  <2>5. FilesLanded'
    BY <2>1, <2>3, <2>4 DEF FilesLanded, StoreTypes
  <2> QED
    BY <2>2, <2>5
<1>6. ASSUME NEW p \in Procs, AppendEvent(p) \/ AppendFails(p) \/ Crash(p)
      PROVE  FilesLanded' /\ FilesBeforeLedger'
  <2>1. Answer(p) /\ UNCHANGED written
    BY <1>6 DEF AppendEvent, AppendFails, Crash, effects
  <2>2. \A e \in Loaded' : e \in Loaded \/ (pc[p] = "append" /\ e = event[p])
    BY <1>6, LedgerMoves
  <2>3. FilesBeforeLedger'
    BY <2>1, <2>2 DEF FilesBeforeLedger, FilesLanded
  <2>4. FilesLanded'
    BY <2>1 DEF FilesLanded, Answer, StoreTypes
  <2> QED
    BY <2>3, <2>4
<1> QED
  BY <1>1, <1>2, <1>3, <1>4, <1>5, <1>6
     DEF Next, vars, RebuildStarts, RebuildReads, RebuildAborts, RebuildSaves

(* The part of the invariant that needs appends to be whole.               *)
ChainInv == TailsAreClean /\ AckedIsLoaded /\ ChainsAreLoaded /\ CauseIsLoaded

(* No landing of an append takes an event away or breaks a chain.          *)
LEMMA ChainsPreserved ==
  ASSUME StoreTypes, ~ShortWrites, ChainInv, [Next]_vars
  PROVE  ChainInv'
<1> USE DEF ChainInv
<1>1. CASE UNCHANGED <<ledger, acked, prevID, clock>> /\ UNCHANGED <<pc, event>>
  BY <1>1 DEF TailsAreClean, AckedIsLoaded, ChainsAreLoaded, CauseIsLoaded,
              IsLoaded, Loaded, LinesOf
<1>2. ASSUME UNCHANGED <<ledger, acked, prevID, clock>>,
             \A p \in Procs : pc'[p] = "append" =>
               pc[p] = "append" /\ event'[p] = event[p]
      PROVE  ChainInv'
  <2>1. Loaded' = Loaded
    BY <1>2 DEF Loaded, LinesOf
  <2> QED
    BY <1>2, <2>1 DEF TailsAreClean, AckedIsLoaded, ChainsAreLoaded,
                      CauseIsLoaded, IsLoaded
<1>3. ASSUME NEW p \in Procs, NEW c \in Calls, StartCall(p, c)
      PROVE  ChainInv'
  <2>1. \A q \in Procs : pc'[q] = "append" =>
          pc[q] = "append" /\ event'[q] = event[q]
    BY <1>3 DEF StartCall, StoreTypes
  <2> QED
    BY <1>2, <1>3, <2>1 DEF StartCall, store
<1>4. ASSUME NEW p \in Procs, WriteFile(p)
      PROVE  ChainInv'
  BY <1>1, <1>4 DEF WriteFile, store
<1>5. ASSUME NEW p \in Procs, WriteFileFails(p)
      PROVE  ChainInv'
  <2>1. \A q \in Procs : pc'[q] = "append" =>
          pc[q] = "append" /\ event'[q] = event[q]
    BY <1>5 DEF WriteFileFails, Answer, StoreTypes
  <2> QED
    BY <1>2, <1>5, <2>1 DEF WriteFileFails, store
<1>6. ASSUME NEW p \in Procs, Stamp(p)
      PROVE  ChainInv'
  <2>1. /\ clock' = clock + 1
        /\ event' = [event EXCEPT ![p] =
             [id |-> clock + 1, cause |-> prevID[p], body |-> call[p]]]
        /\ pc' = [pc EXCEPT ![p] = "append"]
        /\ UNCHANGED <<ledger, acked, prevID>>
    BY <1>6 DEF Stamp
  <2>2. Loaded' = Loaded
    BY <2>1 DEF Loaded, LinesOf
  <2>3. event'[p].id = clock + 1 /\ event'[p].cause = prevID[p]
    BY <2>1 DEF StoreTypes
  <2>4. clock \in 0..MaxEvents /\ prevID[p] \in 0..MaxEvents
    BY DEF StoreTypes
  <2>5. prevID[p] < clock + 1
    BY <2>4, MaxEventsAssumption DEF ChainsAreLoaded
  <2>6. \A q \in Procs : prevID[q] # 0 => prevID[q] <= clock + 1
    BY MaxEventsAssumption DEF StoreTypes, ChainsAreLoaded
  <2>7. ChainsAreLoaded'
    <3>1. ASSUME NEW q \in Procs, pc'[q] = "append"
          PROVE  /\ event'[q].cause < event'[q].id /\ event'[q].id <= clock'
                 /\ event'[q].cause # 0 => \E a \in Loaded : a.id = event'[q].cause
      <4>1. CASE q = p
        BY <4>1, <2>1, <2>3, <2>4, <2>5, MaxEventsAssumption
           DEF ChainsAreLoaded, IsLoaded
      <4>2. CASE q # p
        <5>1. pc[q] = "append" /\ event'[q] = event[q]
          BY <4>2, <3>1, <2>1 DEF StoreTypes
        <5>2. event[q].id <= clock => event[q].id <= clock + 1
          BY <5>1, <2>4, EventTypes, MaxEventsAssumption DEF StoreTypes, Instants
        <5> QED
          BY <5>1, <5>2, <2>1 DEF ChainsAreLoaded, IsLoaded
      <4> QED
        BY <4>1, <4>2
    <3>2. ASSUME NEW q \in Procs, prevID'[q] # 0
          PROVE  (\E a \in Loaded : a.id = prevID'[q]) /\ prevID'[q] <= clock'
      BY <3>2, <2>1, <2>6 DEF ChainsAreLoaded, IsLoaded
    <3> QED
      BY <3>1, <3>2, <2>2 DEF ChainsAreLoaded, IsLoaded
  <2> QED
    BY <2>1, <2>2, <2>7 DEF TailsAreClean, AckedIsLoaded, CauseIsLoaded, IsLoaded
<1>7. ASSUME NEW p \in Procs, AppendEvent(p) \/ AppendFails(p) \/ Crash(p)
      PROVE  ChainInv'
  <2>1. /\ TailsAreClean'
        /\ Loaded \subseteq Loaded'
        /\ AppendEvent(p) => event[p] \in Loaded'
        /\ \A e \in Loaded' :
              e \in Loaded \/ (pc[p] = "append" /\ e = event[p])
    BY <1>7, LedgerMoves
  <2>2. /\ Answer(p) /\ clock' = clock
        /\ acked' = acked \/ (AppendEvent(p) /\ acked' = acked \cup {event[p]})
    BY <1>7 DEF AppendEvent, AppendFails, Crash
  <2>3. AckedIsLoaded'
    BY <2>1, <2>2 DEF AckedIsLoaded
  <2>4. CauseIsLoaded'
    <3>1. ASSUME NEW e \in Loaded', e.cause # 0
          PROVE  (\E a \in Loaded : a.id = e.cause) /\ e.cause < e.id
      <4>1. CASE e \in Loaded
        BY <4>1, <3>1 DEF CauseIsLoaded, IsLoaded
      <4>2. CASE pc[p] = "append" /\ e = event[p]
        BY <4>2, <3>1 DEF ChainsAreLoaded, IsLoaded
      <4> QED
        BY <4>1, <4>2, <2>1
    <3> QED
      BY <3>1, <2>1 DEF CauseIsLoaded, IsLoaded
  <2>5. \A q \in Procs : pc'[q] = "append" =>
          pc[q] = "append" /\ event'[q] = event[q]
    BY <2>2 DEF Answer, StoreTypes
  <2>6. ASSUME NEW q \in Procs, prevID'[q] # 0
        PROVE  (\E a \in Loaded' : a.id = prevID'[q]) /\ prevID'[q] <= clock
    <3>1. CASE prevID'[q] = prevID[q]
      BY <3>1, <2>6, <2>1 DEF ChainsAreLoaded, IsLoaded
    <3>2. CASE q = p /\ AppendEvent(p)
      <4>1. prevID'[p] = event[p].id
        BY <3>2 DEF AppendEvent, StoreTypes
      <4>2. event[p].id <= clock
        BY <3>2 DEF AppendEvent, ChainsAreLoaded
      <4> QED
        BY <3>2, <4>1, <4>2, <2>1
    <3>3. CASE q = p /\ Crash(p)
      BY <3>3, <2>6 DEF Crash, StoreTypes
    <3> QED
      BY <1>7, <3>1, <3>2, <3>3 DEF AppendEvent, AppendFails, Crash, StoreTypes
  <2>7. ChainsAreLoaded'
    BY <2>1, <2>2, <2>5, <2>6 DEF ChainsAreLoaded, IsLoaded
  <2> QED
    BY <2>1, <2>3, <2>4, <2>7
<1>8. CASE UNCHANGED <<server, effects, store>>
  BY <1>1, <1>8 DEF server, store
<1> QED
  BY <1>3, <1>4, <1>5, <1>6, <1>7, <1>8
     DEF Next, vars, RebuildStarts, RebuildReads, RebuildAborts, RebuildSaves

-----------------------------------------------------------------------------
(* The projection.                                                         *)

(* Sorting keeps every event and puts none before an earlier one.          *)
LEMMA SortedIs ==
  ASSUME NEW s \in Seq(Events)
  PROVE  LET t == Sorted(s)
         IN  /\ t \in Seq(Events) /\ Len(t) = Len(s)
             /\ \A m, n \in 1 .. Len(s) : m <= n => t[m].id <= t[n].id
             /\ ToSet(t) = ToSet(s)
<1> DEFINE D       == DOMAIN s
           id      == [i \in D |-> s[i].id]
           r       == [i \in D |-> {j \in D : id[j] < id[i] \/ (id[j] = id[i] /\ j <= i)}]
           UpTo(i) == {j \in DOMAIN s :
                         \/ s[j].id < s[i].id
                         \/ s[j].id = s[i].id /\ j <= i}
           f       == [n \in D |-> CHOOSE i \in DOMAIN s : Cardinality(UpTo(i)) = n]
           t       == Sorted(s)
<1>1. /\ Len(s) \in Nat /\ D = 1 .. Len(s) /\ IsFiniteSet(D) /\ Cardinality(D) = Len(s)
      /\ \A i \in D : s[i] \in Events
  BY DomainOf
<1>2. id \in [D -> Nat]
  BY <1>1, EventTypes DEF Instants
<1>3. /\ r \in [D -> SUBSET D] /\ \A i \in D : i \in r[i]
      /\ \A i, j \in D : r[i] \subseteq r[j] \/ r[j] \subseteq r[i]
      /\ \A i, j \in D : r[i] = r[j] => i = j
      /\ \A i, j \in D : i \in r[j] => id[i] <= id[j]
  <2> HIDE DEF id
  <2>1. r \in [D -> SUBSET D] /\ \A i \in D : i \in r[i]
    BY <1>1, <1>2
  <2>2. \A i, j \in D : r[i] \subseteq r[j] \/ r[j] \subseteq r[i]
    BY <1>1, <1>2
  <2>3. \A i, j \in D : r[i] = r[j] => i = j
    BY <1>1, <1>2
  <2>4. \A i, j \in D : i \in r[j] => id[i] <= id[j]
    BY <1>1, <1>2
  <2> HIDE DEF r, D
  <2> QED
    BY <2>1, <2>2, <2>3, <2>4
<1>4. \A i \in D : UpTo(i) = r[i]
  OBVIOUS
<1>5. \A i \in D : id[i] = s[i].id
  OBVIOUS
<1>6. \A n \in D : t[n] = s[f[n]]
  BY DEF Sorted
<1>7. t = [n \in D |-> t[n]]
  BY DEF Sorted
<1>8. /\ \A i \in D : Cardinality(r[i]) \in 1 .. Cardinality(D)
      /\ \A i, j \in D : Cardinality(r[i]) = Cardinality(r[j]) => i = j
      /\ \A n \in 1 .. Cardinality(D) : \E i \in D : Cardinality(r[i]) = n
  <2>1. r \in [D -> SUBSET D] /\ \A i \in D : i \in r[i]
    BY <1>3
  <2>2. \A i, j \in D : r[i] \subseteq r[j] \/ r[j] \subseteq r[i]
    BY <1>3
  <2>3. \A i, j \in D : r[i] = r[j] => i = j
    BY <1>3
  <2>4. IsFiniteSet(D)
    BY <1>1
  <2> HIDE DEF r, D
  <2> QED
    BY <2>1, <2>2, <2>3, <2>4, EveryRank
<1>9. \A n \in D : f[n] \in D /\ Cardinality(r[f[n]]) = n
  <2> SUFFICES ASSUME NEW n \in D PROVE f[n] \in D /\ Cardinality(r[f[n]]) = n
    OBVIOUS
  <2>1. \E i \in D : Cardinality(UpTo(i)) = n
    <3> HIDE DEF r, UpTo
    <3> QED
      BY <1>1, <1>4, <1>8
  <2>2. f[n] \in D /\ Cardinality(UpTo(f[n])) = n
    <3> HIDE DEF UpTo
    <3> QED
      BY <2>1
  <2> HIDE DEF r, UpTo, f
  <2> QED
    BY <1>4, <2>2
<1> HIDE DEF f, r, id, UpTo, t
<1>10. \A i \in D : \E n \in D : t[n] = s[i]
  <2> SUFFICES ASSUME NEW i \in D PROVE \E n \in D : t[n] = s[i]
    OBVIOUS
  <2>1. Cardinality(r[i]) \in D
    BY <1>1, <1>8
  <2>2. f[Cardinality(r[i])] = i
    BY <1>8, <1>9, <2>1
  <2> QED
    BY <1>6, <2>1, <2>2
<1>11. \A n \in D : t[n] \in Events /\ \E i \in D : t[n] = s[i]
  BY <1>1, <1>6, <1>9
<1>12. t \in Seq(Events) /\ Len(t) = Len(s) /\ DOMAIN t = D
  BY <1>1, <1>7, <1>11, SeqDef
<1>13. ToSet(t) = ToSet(s)
  BY <1>10, <1>11, <1>12 DEF ToSet
<1>14. ASSUME NEW m \in D, NEW n \in D, m <= n PROVE t[m].id <= t[n].id
  <2>1. f[m] \in D /\ f[n] \in D /\ Cardinality(r[f[m]]) = m /\ Cardinality(r[f[n]]) = n
    BY <1>9
  <2>2. r[f[m]] \subseteq r[f[n]]
    <3>1. CASE r[f[n]] \subseteq r[f[m]]
      <4>1. IsFiniteSet(r[f[m]])
        BY <1>1, <1>3, <2>1, FS_Subset
      <4>2. n <= m
        BY <2>1, <3>1, <4>1, FS_Subset
      <4>3. m = n
        BY <1>1, <1>14, <4>2
      <4> QED
        BY <4>3
    <3> QED
      BY <1>3, <2>1, <3>1
  <2>3. id[f[m]] <= id[f[n]]
    BY <1>3, <2>1, <2>2
  <2> QED
    BY <1>5, <1>6, <2>1, <2>3
<1> QED
  BY <1>1, <1>12, <1>13, <1>14 DEF t

(* The replay is defined for every ledger: were there a first event up to  *)
(* which it is not, it would be up to the one before it.                   *)
LEMMA ReplayedIs ==
  ASSUME NEW s \in Seq(Events)
  PROVE  /\ Replayed(s)[0] = EmptyState
         /\ \A n \in 1 .. Len(s) : Replayed(s)[n] = Apply(Replayed(s)[n - 1], s[n])
<1> DEFINE Is(g, n) ==
             g = [i \in 0 .. n |-> IF i = 0 THEN EmptyState ELSE Apply(g[i - 1], s[i])]
           Bad == {n \in Nat : ~\E g : Is(g, n)}
<1>1. Len(s) \in Nat
  OBVIOUS
<1>2. Bad \in SUBSET Nat /\ \A n \in Nat : n \in Bad <=> ~\E g : Is(g, n)
  <2> HIDE DEF Is
  <2> QED
    OBVIOUS
<1>3. Is(Replayed(s), Len(s)) <=> \E g : Is(g, Len(s))
  <2>1. Replayed(s) = CHOOSE g : Is(g, Len(s))
    BY DEF Replayed
  <2> HIDE DEF Is
  <2> QED
    BY <2>1
<1> HIDE DEF Bad, Is
<1>4. Bad = {}
  <2> SUFFICES ASSUME Bad # {} PROVE FALSE
    OBVIOUS
  <2>1. PICK n \in Bad : \A m \in Bad : n <= m
    BY <1>2, LeastNat
  <2>2. n \in Nat /\ ~\E g : Is(g, n)
    BY <1>2, <2>1
  <2>3. CASE n = 0
    <3> DEFINE g == [i \in 0 .. 0 |-> EmptyState]
    <3>1. \A i \in 0 .. 0 : i = 0
      OBVIOUS
    <3>2. \A i \in 0 .. 0 : g[i] = IF i = 0 THEN EmptyState ELSE Apply(g[i - 1], s[i])
      BY <3>1
    <3>3. g = [i \in 0 .. 0 |-> g[i]]
      OBVIOUS
    <3> HIDE DEF g
    <3>4. Is(g, 0)
      BY <3>2, <3>3 DEF Is
    <3> QED
      BY <2>2, <2>3, <3>4
  <2>4. CASE n # 0
    <3>1. n - 1 \in Nat /\ n - 1 \notin Bad
      BY <2>1, <2>2, <2>4
    <3>2. PICK g : Is(g, n - 1)
      BY <1>2, <3>1
    <3> DEFINE h == [i \in 0 .. n |-> IF i = n THEN Apply(g[n - 1], s[n]) ELSE g[i]]
    <3>3. \A i \in 0 .. n - 1 :
            g[i] = IF i = 0 THEN EmptyState ELSE Apply(g[i - 1], s[i])
      BY <3>2 DEF Is
    <3>4. \A i \in 0 .. n : h[i] = IF i = 0 THEN EmptyState ELSE Apply(h[i - 1], s[i])
      <4> SUFFICES ASSUME NEW i \in 0 .. n
                   PROVE  h[i] = IF i = 0 THEN EmptyState ELSE Apply(h[i - 1], s[i])
        OBVIOUS
      <4>1. CASE i = n
        <5>1. i # 0 /\ n - 1 \in 0 .. n /\ n - 1 # n
          BY <2>2, <2>4, <4>1
        <5>2. h[n - 1] = g[n - 1]
          BY <5>1
        <5> QED
          BY <4>1, <5>1, <5>2
      <4>2. CASE i # n
        <5>1. i \in 0 .. n - 1 /\ h[i] = g[i]
          BY <2>2, <4>2
        <5>2. i # 0 => i - 1 \in 0 .. n /\ i - 1 # n /\ h[i - 1] = g[i - 1]
          BY <2>2, <4>2
        <5> HIDE DEF h
        <5> QED
          BY <3>3, <5>1, <5>2
      <4> QED
        BY <4>1, <4>2
    <3>5. h = [i \in 0 .. n |-> h[i]]
      OBVIOUS
    <3> HIDE DEF h
    <3>6. Is(h, n)
      BY <3>4, <3>5 DEF Is
    <3> QED
      BY <2>2, <3>6
  <2> QED
    BY <2>3, <2>4
<1>5. Is(Replayed(s), Len(s))
  BY <1>1, <1>2, <1>3, <1>4
<1> QED
  BY <1>1, <1>5 DEF Is

(* A scan event of a replay shows the latest scan, a design event the      *)
(* first design of its cluster; so each event leaves its mark.             *)
Shown(s, n) ==
  LET state == Replayed(s)[n]
  IN  /\ state \in [scan : Nat, designs : [Clusters -> Nat]]
      /\ \A c \in Clusters :
           state.designs[c] # 0 => \E k \in 1 .. n : state.designs[c] = s[k].id
      /\ \A j \in 1 .. n :
           IF s[j].body.tool = "save_scan_result"
           THEN state.scan >= s[j].id
           ELSE state.designs[s[j].body.clusters[1]] \in 1 .. s[j].id

LEMMA ReplayShows ==
  ASSUME NEW s \in Seq(Events),
         \A m, n \in 1 .. Len(s) : m <= n => s[m].id <= s[n].id
  PROVE  Shown(s, Len(s))
<1> DEFINE Bad == {n \in 0 .. Len(s) : ~Shown(s, n)}
<1>1. /\ Len(s) \in Nat
      /\ \A i \in 1 .. Len(s) : s[i] \in Events /\ s[i].id \in Nat \ {0}
  BY EventTypes DEF Instants
<1>2. Bad \in SUBSET Nat /\ \A n \in 0 .. Len(s) : n \in Bad <=> ~Shown(s, n)
  BY <1>1
<1>3. Bad \subseteq 0 .. Len(s)
  OBVIOUS
<1> HIDE DEF Bad
<1>4. Bad = {}
  <2> SUFFICES ASSUME Bad # {} PROVE FALSE
    OBVIOUS
  <2>1. PICK n \in Bad : \A m \in Bad : n <= m
    BY <1>2, LeastNat
  <2>2. n \in 0 .. Len(s) /\ n \in Nat /\ ~Shown(s, n)
    BY <1>2, <1>3, <2>1
  <2>3. n # 0
    <3>1. Replayed(s)[0] = EmptyState
      BY ReplayedIs
    <3>2. /\ EmptyState \in [scan : Nat, designs : [Clusters -> Nat]]
          /\ \A c \in Clusters : EmptyState.designs[c] = 0
      BY DEF EmptyState
    <3>3. Shown(s, 0)
      BY <3>1, <3>2 DEF Shown
    <3> QED
      BY <2>2, <3>3
  <2>4. n - 1 \in 0 .. Len(s) /\ n \in 1 .. Len(s) /\ Shown(s, n - 1)
    <3>1. n - 1 \in 0 .. Len(s) /\ n \in 1 .. Len(s) /\ ~(n <= n - 1)
      BY <1>1, <2>2, <2>3
    <3> QED
      BY <1>2, <2>1, <3>1
  <2> DEFINE old == Replayed(s)[n - 1]
             new == Replayed(s)[n]
             e   == s[n]
  <2>5. new = Apply(old, e)
    BY <2>4, ReplayedIs
  <2>6. /\ old \in [scan : Nat, designs : [Clusters -> Nat]]
        /\ \A c \in Clusters :
             old.designs[c] # 0 => \E k \in 1 .. n - 1 : old.designs[c] = s[k].id
        /\ \A j \in 1 .. n - 1 :
             IF s[j].body.tool = "save_scan_result"
             THEN old.scan >= s[j].id
             ELSE old.designs[s[j].body.clusters[1]] \in 1 .. s[j].id
    BY <2>4 DEF Shown
  <2>7. /\ e \in Events /\ e.id \in Nat \ {0}
        /\ \A k \in 1 .. n - 1 : /\ k \in 1 .. Len(s) /\ k \in 1 .. n
                                /\ s[k].id \in Nat \ {0} /\ s[k].id <= e.id
        /\ \A k \in 1 .. n : k = n \/ k \in 1 .. n - 1
    BY <1>1, <2>2, <2>4
  <2> HIDE DEF old, new, e
  <2>8. /\ new \in [scan : Nat, designs : [Clusters -> Nat]]
        /\ \A c \in Clusters :
             new.designs[c] # 0 => \E k \in 1 .. n : new.designs[c] = s[k].id
        /\ \A j \in 1 .. n :
             IF s[j].body.tool = "save_scan_result"
             THEN new.scan >= s[j].id
             ELSE new.designs[s[j].body.clusters[1]] \in 1 .. s[j].id
    <3>1. CASE e.body.tool = "save_scan_result"
      <4>1. new = [scan |-> e.id, designs |-> old.designs]
        BY <2>5, <2>6, <3>1 DEF Apply
      <4> QED
        BY <2>6, <2>7, <3>1, <4>1 DEF e
    <3>2. CASE e.body.tool # "save_scan_result"
      <4> DEFINE c == e.body.clusters[1]
                 first == IF old.designs[c] = 0 THEN e.id ELSE old.designs[c]
      <4>1. c \in Clusters
        BY <2>7, <3>2, DesignInputsAssumption DEF Events, Calls
      <4>2. new = [scan |-> old.scan, designs |-> [old.designs EXCEPT ![c] = first]]
        BY <2>5, <2>6, <3>2 DEF Apply
      <4>3. /\ first \in 1 .. e.id
            /\ \E k \in 1 .. n : first = s[k].id
            /\ old.designs[c] # 0 => first = old.designs[c]
        <5>1. CASE old.designs[c] = 0
          BY <2>4, <2>7, <5>1 DEF e
        <5>2. CASE old.designs[c] # 0
          <6>1. PICK k \in 1 .. n - 1 : old.designs[c] = s[k].id
            BY <2>6, <4>1, <5>2
          <6> QED
            BY <2>7, <5>2, <6>1
        <5> QED
          BY <5>1, <5>2
      <4> HIDE DEF c, first
      <4>4. /\ new.scan = old.scan /\ first \in Nat
            /\ \A d \in Clusters : new.designs[d] = IF d = c THEN first ELSE old.designs[d]
            /\ new \in [scan : Nat, designs : [Clusters -> Nat]]
        BY <2>6, <2>7, <4>1, <4>2, <4>3
      <4>5. ASSUME NEW d \in Clusters, new.designs[d] # 0
            PROVE  \E k \in 1 .. n : new.designs[d] = s[k].id
        BY <2>6, <2>7, <4>3, <4>4, <4>5
      <4>6. ASSUME NEW j \in 1 .. n
            PROVE  IF s[j].body.tool = "save_scan_result"
                   THEN new.scan >= s[j].id
                   ELSE new.designs[s[j].body.clusters[1]] \in 1 .. s[j].id
        <5>1. CASE j = n
          BY <3>2, <4>1, <4>3, <4>4, <5>1 DEF c, e
        <5>2. CASE j \in 1 .. n - 1 /\ s[j].body.tool = "save_scan_result"
          BY <2>6, <4>4, <5>2
        <5>3. CASE j \in 1 .. n - 1 /\ s[j].body.tool # "save_scan_result"
          <6> DEFINE d == s[j].body.clusters[1]
          <6>1. d \in Clusters
            BY <1>1, <2>7, <5>3, DesignInputsAssumption DEF Events, Calls
          <6>2. old.designs[d] \in 1 .. s[j].id
            BY <2>6, <5>3
          <6> HIDE DEF d
          <6>3. new.designs[d] = old.designs[d]
            BY <4>3, <4>4, <6>1, <6>2
          <6> QED
            BY <5>3, <6>2, <6>3 DEF d
        <5> QED
          BY <2>7, <5>1, <5>2, <5>3
      <4> QED
        BY <4>4, <4>5, <4>6
    <3> QED
      BY <3>1, <3>2
  <2>9. Shown(s, n)
    BY <2>8 DEF Shown, new
  <2> QED
    BY <2>2, <2>9
<1> QED
  BY <1>1, <1>2, <1>4

(* What a projection is of it shows.                                       *)
LEMMA ProjectionShows ==
  ASSUME NEW s \in Seq(Events), NEW e \in ToSet(s)
  PROVE  IF e.body.tool = "save_scan_result"
         THEN Projected(s).scan >= e.id
         ELSE Projected(s).designs[e.body.clusters[1]] \in 1 .. e.id
<1> DEFINE t == Sorted(s)
<1>1. /\ t \in Seq(Events) /\ Len(t) = Len(s)
      /\ \A m, n \in 1 .. Len(t) : m <= n => t[m].id <= t[n].id
      /\ ToSet(t) = ToSet(s)
  BY SortedIs
<1> HIDE DEF t
<1>2. Shown(t, Len(t))
  BY <1>1, ReplayShows
<1>3. PICK i \in 1 .. Len(t) : e = t[i]
  <2>1. e \in ToSet(t) /\ DOMAIN t = 1 .. Len(t)
    BY <1>1
  <2> QED
    BY <2>1 DEF ToSet
<1>4. Projected(s) = Replayed(t)[Len(t)]
  BY <1>1 DEF Projected, t
<1> QED
  BY <1>2, <1>3, <1>4 DEF Shown

-----------------------------------------------------------------------------
(* The rebuild.                                                            *)

(* What a rebuild owes it has read, or will read in a file on its list;    *)
(* only files that were created have events.                               *)
RebuildInv ==
  /\ rebuild \in [running : BOOLEAN, unread : SUBSET Days,
                  seen : Seq(Events), owed : SUBSET Events]
  /\ rebuild.owed \subseteq ToSet(rebuild.seen)
                             \cup UNION {LinesOf(ledger[d]) : d \in rebuild.unread}
  /\ \A d \in Days : ledger[d].exists \/ LinesOf(ledger[d]) = {}

(* A file that is appended to keeps its events and is there.               *)
LEMMA FilesGrow ==
  ASSUME StoreTypes, ~ShortWrites, TailsAreClean, [Next]_vars, NEW d \in Days
  PROVE  /\ LinesOf(ledger[d]) \subseteq LinesOf(ledger'[d])
         /\ ledger'[d].exists \/ ledger'[d] = ledger[d]
<1>1. CASE UNCHANGED ledger
  BY <1>1
<1>2. ASSUME NEW p \in Procs, pc[p] = "append", ~UNCHANGED ledger,
             NEW g \in Unacknowledged(ledger[Day(p)], event[p], ShortWrites)
                       \cup {Appended(ledger[Day(p)], event[p])},
             ledger' = [ledger EXCEPT ![Day(p)] = g]
      PROVE  /\ LinesOf(ledger[d]) \subseteq LinesOf(ledger'[d])
             /\ ledger'[d].exists \/ ledger'[d] = ledger[d]
  <2> DEFINE f == ledger[Day(p)]
  <2>1. event[p] \in Events /\ Day(p) \in Days /\ f \in Files(Events) /\ f.tail = "clean"
    BY <1>2, EventTypes DEF StoreTypes, Day, TailsAreClean
  <2>2. g = f \/ g.exists
    BY <1>2, <2>1 DEF Unacknowledged, Opened, Appended, Files
  <2>3. LinesOf(f) \subseteq LinesOf(g)
    <3>1. CASE g = Appended(f, event[p])
      BY <2>1, <3>1, AppendLines
    <3>2. CASE g \in Unacknowledged(f, event[p], ShortWrites)
      BY <1>2, <2>1, <3>2, UnacknowledgedLines, ShortWritesAssumption
    <3> QED
      BY <1>2, <3>1, <3>2
  <2>4. ledger'[d] = IF d = Day(p) THEN g ELSE ledger[d]
    BY <1>2, <2>1 DEF StoreTypes
  <2> HIDE DEF f
  <2> QED
    BY <2>2, <2>3, <2>4 DEF f
<1>3. ASSUME NEW p \in Procs, AppendEvent(p) \/ AppendFails(p) \/ Crash(p)
      PROVE  \/ UNCHANGED ledger
             \/ /\ pc[p] = "append"
                /\ \E g \in Unacknowledged(ledger[Day(p)], event[p], ShortWrites)
                           \cup {Appended(ledger[Day(p)], event[p])} :
                     ledger' = [ledger EXCEPT ![Day(p)] = g]
  BY <1>3 DEF AppendEvent, AppendFails, Crash
<1>4. ASSUME NEW p \in Procs, AppendEvent(p) \/ AppendFails(p) \/ Crash(p)
      PROVE  /\ LinesOf(ledger[d]) \subseteq LinesOf(ledger'[d])
             /\ ledger'[d].exists \/ ledger'[d] = ledger[d]
  <2>1. CASE UNCHANGED ledger
    BY <1>1, <2>1
  <2>2. CASE ~UNCHANGED ledger
    <3>1. /\ pc[p] = "append"
          /\ \E g \in Unacknowledged(ledger[Day(p)], event[p], ShortWrites)
                     \cup {Appended(ledger[Day(p)], event[p])} :
               ledger' = [ledger EXCEPT ![Day(p)] = g]
      BY <1>3, <1>4, <2>2
    <3> QED
      BY <1>2, <2>2, <3>1
  <2> QED
    BY <2>1, <2>2
<1>5. ASSUME NEW p \in Procs, \/ \E c \in Calls : StartCall(p, c)
                             \/ WriteFile(p) \/ WriteFileFails(p) \/ Stamp(p)
      PROVE  UNCHANGED ledger
  BY <1>5 DEF StartCall, WriteFile, WriteFileFails, Stamp, store
<1>6. ASSUME \/ RebuildStarts \/ RebuildAborts \/ RebuildSaves
             \/ \E c \in Days : RebuildReads(c)
      PROVE  UNCHANGED ledger
  <2>1. ASSUME NEW c \in Days, RebuildReads(c) PROVE UNCHANGED store
    BY <2>1, Zenon DEF RebuildReads
  <2>2. ASSUME RebuildStarts \/ RebuildAborts \/ RebuildSaves PROVE UNCHANGED store
    BY <2>2, Zenon DEF RebuildStarts, RebuildAborts, RebuildSaves
  <2>3. UNCHANGED store
    BY <1>6, <2>1, <2>2
  <2> QED
    BY <2>3 DEF store
<1>7. UNCHANGED vars => UNCHANGED ledger
  BY DEF vars, store, effects
<1> QED
  BY <1>1, <1>4, <1>5, <1>6, <1>7 DEF Next

LEMMA RebuildInit == Init => RebuildInv
<1> SUFFICES ASSUME Init PROVE RebuildInv
  OBVIOUS
<1>1. LinesOf(NoFile) = {}
  BY DEF NoFile, LinesOf, ToSet
<1>2. NoRebuild \in [running : BOOLEAN, unread : SUBSET Days,
                    seen : Seq(Events), owed : SUBSET Events]
  BY DEF NoRebuild
<1> QED
  BY <1>1, <1>2 DEF Init, RebuildInv, NoRebuild

LEMMA RebuildPreserved ==
  ASSUME WriteInv, ~ShortWrites, RebuildInv, [Next]_vars
  PROVE  RebuildInv'
<1>1. \A d \in Days : /\ LinesOf(ledger[d]) \subseteq LinesOf(ledger'[d])
                      /\ ledger'[d].exists \/ ledger'[d] = ledger[d]
  BY FilesGrow DEF WriteInv
<1>2. \A d \in Days : ledger'[d].exists \/ LinesOf(ledger'[d]) = {}
  BY <1>1 DEF RebuildInv
<1>3. CASE UNCHANGED rebuild
  <2>1. rebuild.unread \subseteq Days
    BY DEF RebuildInv
  <2>2. UNION {LinesOf(ledger[d]) : d \in rebuild.unread}
          \subseteq UNION {LinesOf(ledger'[d]) : d \in rebuild.unread}
    BY <1>1, <2>1
  <2> QED
    BY <1>2, <1>3, <2>2 DEF RebuildInv
<1>4. CASE RebuildStarts
  <2>1. UNCHANGED ledger /\ acked \subseteq Loaded /\ Loaded \subseteq Events
    BY <1>4 DEF RebuildStarts, store, WriteInv, AckedIsLoaded, StoreTypes, Loaded, LinesOf,
                ToSet, Files
  <2>2. /\ rebuild' = [running |-> TRUE, unread |-> {d \in Days : ledger[d].exists},
                       seen |-> <<>>, owed |-> acked]
        /\ rebuild'.owed = acked /\ rebuild'.unread = {d \in Days : ledger[d].exists}
    BY <1>4 DEF RebuildStarts
  <2>3. Loaded \subseteq UNION {LinesOf(ledger[d]) : d \in rebuild'.unread}
    BY <2>2 DEF Loaded, RebuildInv
  <2>4. rebuild' \in [running : BOOLEAN, unread : SUBSET Days,
                     seen : Seq(Events), owed : SUBSET Events]
    BY <2>1, <2>2
  <2> QED
    BY <1>2, <2>1, <2>2, <2>3, <2>4 DEF RebuildInv
<1>5. ASSUME NEW d \in Days, RebuildReads(d) PROVE RebuildInv'
  <2> DEFINE lines == ledger[d].lines
  <2>1. /\ rebuild.seen \in Seq(Events) /\ lines \in Seq(Events) /\ UNCHANGED ledger
    BY <1>5 DEF RebuildInv, RebuildReads, store, WriteInv, StoreTypes, Files
  <2> HIDE DEF lines
  <2>2. /\ rebuild' = [rebuild EXCEPT !.unread = @ \ {d}, !.seen = @ \o lines]
        /\ rebuild \in [running : BOOLEAN, unread : SUBSET Days,
                       seen : Seq(Events), owed : SUBSET Events]
    BY <1>5 DEF RebuildInv, RebuildReads, lines
  <2> DEFINE read == rebuild.seen \o lines
  <2>3. read \in Seq(Events)
    BY <2>1
  <2>4. ToSet(rebuild.seen) \cup ToSet(lines) \subseteq ToSet(read)
    BY <2>1, ToSetConcat
  <2>5. rebuild' = [rebuild EXCEPT !.unread = @ \ {d}, !.seen = read]
    BY <2>2
  <2> HIDE DEF read
  <2>6. /\ rebuild' \in [running : BOOLEAN, unread : SUBSET Days,
                        seen : Seq(Events), owed : SUBSET Events]
        /\ rebuild'.owed = rebuild.owed /\ rebuild'.unread = rebuild.unread \ {d}
        /\ rebuild'.seen = read
    BY <2>2, <2>3, <2>5
  <2> DEFINE Unread(u) == UNION {LinesOf(ledger[c]) : c \in u}
  <2>7. Unread(rebuild.unread) \subseteq ToSet(lines) \cup Unread(rebuild.unread \ {d})
    BY DEF LinesOf, lines
  <2>8. rebuild.owed \subseteq ToSet(rebuild.seen) \cup Unread(rebuild.unread)
    BY DEF RebuildInv
  <2>9. /\ rebuild'.owed \subseteq ToSet(rebuild'.seen) \cup Unread(rebuild'.unread)
        /\ Unread(rebuild'.unread) = UNION {LinesOf(ledger'[c]) : c \in rebuild'.unread}
    BY <2>1, <2>4, <2>6, <2>7, <2>8
  <2> QED
    BY <1>2, <2>6, <2>9 DEF RebuildInv
<1>6. CASE rebuild' = NoRebuild
  <2>1. NoRebuild \in [running : BOOLEAN, unread : SUBSET Days,
                      seen : Seq(Events), owed : SUBSET Events]
    BY DEF NoRebuild
  <2> QED
    BY <1>2, <1>6, <2>1 DEF RebuildInv, NoRebuild
<1> QED
  BY <1>3, <1>4, <1>5, <1>6
     DEF Next, vars, replay, StartCall, WriteFile, WriteFileFails, Stamp, AppendEvent, AppendFails,
         Crash, RebuildAborts, RebuildSaves

-----------------------------------------------------------------------------
(* Results.                                                                *)

(* Calls, emitters and ledger stay in step in every reachable state.       *)
THEOREM WriteInvHolds == Spec => []WriteInv
<1>1. Init => WriteInv
  BY InitInv
<1>2. WriteInv /\ [Next]_vars => WriteInv'
  BY StoreTypesPreserved, FilesPreserved, ChainsPreserved DEF WriteInv, ChainInv
<1> QED
  BY <1>1, <1>2, PTL DEF Spec

(* The ledger never speaks of a file that was not written, whatever fails, *)
(* tears or crashes.                                                       *)
THEOREM FilesBeforeLedgerHolds == Spec => []FilesBeforeLedger
<1>1. WriteInv => FilesBeforeLedger
  BY DEF WriteInv
<1> QED
  BY <1>1, WriteInvHolds, PTL

(* Without short writes, what was reported as persisted stays loadable.    *)
THEOREM AckedIsLoadedHolds ==
  ASSUME ~ShortWrites
  PROVE  Spec => []AckedIsLoaded
<1>1. WriteInv => AckedIsLoaded
  BY DEF WriteInv
<1> QED
  BY <1>1, WriteInvHolds, PTL

(* Without short writes, the causation chain has no dangling link.         *)
THEOREM CauseIsLoadedHolds ==
  ASSUME ~ShortWrites
  PROVE  Spec => []CauseIsLoaded
<1>1. WriteInv => CauseIsLoaded
  BY DEF WriteInv
<1> QED
  BY <1>1, WriteInvHolds, PTL

(* Without short writes, a snapshot shows every event that was reported as *)
(* persisted before its rebuild began: no scan older than that, and of     *)
(* each design's cluster the first design.                                 *)
THEOREM SnapshotCompleteHolds ==
  ASSUME ~ShortWrites
  PROVE  Spec => SnapshotComplete
<1> DEFINE Complete ==
             snapshot' # snapshot =>
               \A e \in rebuild.owed :
                 IF e.body.tool = "save_scan_result"
                 THEN snapshot'.scan >= e.id
                 ELSE snapshot'.designs[e.body.clusters[1]] \in 1..e.id
<1>1. Init => RebuildInv
  BY RebuildInit
<1>2. WriteInv /\ RebuildInv /\ [Next]_vars => RebuildInv'
  BY RebuildPreserved
<1>3. ASSUME RebuildInv, RebuildSaves PROVE Complete
  <2>1. rebuild.seen \in Seq(Events) /\ rebuild.unread = {}
    BY <1>3 DEF RebuildInv, RebuildSaves
  <2>2. rebuild.owed \subseteq ToSet(rebuild.seen)
    BY <1>3, <2>1 DEF RebuildInv
  <2>3. snapshot' = Projected(rebuild.seen)
    BY <1>3 DEF RebuildSaves
  <2> QED
    BY <2>1, <2>2, <2>3, ProjectionShows
<1>4. [Next]_vars /\ ~RebuildSaves => UNCHANGED snapshot
  <2>1. ASSUME NEW p \in Procs, \/ \E c \in Calls : StartCall(p, c)
                               \/ WriteFile(p) \/ WriteFileFails(p) \/ Stamp(p)
                               \/ AppendEvent(p) \/ AppendFails(p) \/ Crash(p)
        PROVE  UNCHANGED replay
    BY <2>1, Zenon DEF StartCall, WriteFile, WriteFileFails, Stamp, AppendEvent, AppendFails, Crash
  <2>2. ASSUME \/ RebuildStarts \/ RebuildAborts
               \/ \E c \in Days : RebuildReads(c)
        PROVE  UNCHANGED snapshot
    BY <2>2, Zenon DEF RebuildStarts, RebuildReads, RebuildAborts
  <2>3. UNCHANGED vars \/ UNCHANGED replay => UNCHANGED snapshot
    BY DEF vars, replay
  <2> QED
    BY <2>1, <2>2, <2>3 DEF Next
<1>5. RebuildInv /\ [Next]_vars => [Complete]_vars
  BY <1>3, <1>4
<1>6. Spec => []RebuildInv
  BY <1>1, <1>2, WriteInvHolds, PTL DEF Spec
<1>7. Spec => [][Complete]_vars
  BY <1>5, <1>6, PTL DEF Spec
<1> QED
  BY <1>7 DEF SnapshotComplete

=============================================================================
