--------------------------- MODULE ServicesProofs ---------------------------
(***************************************************************************)
(* Proofs about the composition in Services: retention, insights, streams, *)
(* the MCP server, setting a project up, the run lock, stalls, rival       *)
(* contracts and their texts, the doctor, corrections and coding sessions. *)
(* Each has an invariant of its own, which its steps preserve and those of *)
(* the other parts do not touch.                                           *)
(***************************************************************************)
EXTENDS Services, Counting

(* Steps of the other parts leave a part as it is.                         *)
LEMMA OtherParts ==
  ASSUME [PartNext]_partVars
  PROVE  /\ St!Next \/ UNCHANGED stallVars
         /\ Co!Next \/ UNCHANGED archive
         /\ Ar!Next \/ UNCHANGED archiveVars
         /\ In!Next \/ UNCHANGED insightVars
         /\ Sm!Next \/ UNCHANGED streamVars
         /\ Se!Next \/ UNCHANGED serverVars
         /\ PI!Next \/ UNCHANGED setupVars
         /\ Do!Next \/ UNCHANGED doctorVars
         /\ Ca!Next \/ UNCHANGED canvasVars
         /\ Cr!Next \/ UNCHANGED correctionVars
         /\ Ss!Next \/ UNCHANGED sessionVars
<1>1. CASE LockStep
  BY <1>1 DEF LockStep
<1>2. CASE StallStep
  BY <1>2 DEF StallStep
<1>3. CASE ContractStep
  BY <1>3 DEF ContractStep
<1>4. CASE ArchiveStep
  BY <1>4 DEF ArchiveStep
<1>5. CASE InsightStep
  BY <1>5 DEF InsightStep
<1>6. CASE StreamStep
  BY <1>6 DEF StreamStep
<1>7. CASE ServerStep
  BY <1>7 DEF ServerStep
<1>8. CASE SetupStep
  BY <1>8 DEF SetupStep
<1>9. CASE DoctorStep
  BY <1>9 DEF DoctorStep
<1>10. CASE CanvasStep
  BY <1>10 DEF CanvasStep
<1>11. CASE CorrectionStep
  BY <1>11 DEF CorrectionStep
<1>13. CASE SessionStep
  BY <1>13 DEF SessionStep
<1>12. CASE UNCHANGED partVars
  BY <1>12 DEF partVars
<1> QED
  BY <1>1, <1>2, <1>3, <1>4, <1>5, <1>6, <1>7, <1>8, <1>9, <1>10, <1>11, <1>12, <1>13 DEF PartNext
---------------------------------------------------------------------------
(* Retention.  A prune has a mail on its list, and the mail is still there.*)
Doomed(p, m) == m \in listed[p] /\ store[m] # None

Pruning == {"confirm", "extract", "append", "delete"}

(* A rebuild has the lock; a pruned mail is gone for good, and what is on  *)
(* the list of a prune goes no other way; what a prune is going to delete  *)
(* is among the lines it writes, then in the index; and a rebuild has it   *)
(* before it or behind it.                                                 *)
RetentionInv ==
  /\ Ar!TypeOK
  /\ \A p \in Pruners : pruner[p] = "read" => indexLock = p
  /\ \A m \in pruned : store[m] = None
  /\ \A p \in Pruners, m \in Mails :
       /\ pruner[p] \in Pruning /\ m \in listed[p] /\ store[m] = None => m \in pruned
       /\ pruner[p] = "append" /\ Doomed(p, m) => m \in Ar!Full(entries[p])
       /\ pruner[p] = "delete" /\ Doomed(p, m) => m \in Ar!Full(index) \cup excused
       /\ \A q \in Pruners : pruner[p] = "delete" /\ Doomed(p, m) /\ pruner[q] = "read" =>
            m \in listed[q] \cup Ar!Full(entries[q]) \cup excused
  /\ PrunedIsIndexed

LEMMA RetentionInit == PartInit => RetentionInv
<1> SUFFICES ASSUME PartInit PROVE RetentionInv
  OBVIOUS
<1>1. Ar!Init
  BY DEF PartInit
<1>2. Ar!TypeOK
  BY <1>1 DEF Ar!Init, Ar!TypeOK, Ar!Entries
<1>3. \A p \in Pruners : pruner[p] = "idle"
  BY <1>1 DEF Ar!Init
<1>4. pruned = {} /\ PrunedIsIndexed
  BY <1>1 DEF Ar!Init, PrunedIsIndexed, Ar!PrunedIsIndexed
<1> QED
  BY <1>2, <1>3, <1>4 DEF RetentionInv, Pruning

(* The metadata of the mails that are there can be read.                   *)
LEMMA MetaOf ==
  ASSUME NEW ms \in SUBSET Mails
  PROVE  /\ Ar!ExtractMeta(ms) \subseteq Ar!Lines
         /\ Ar!Full(Ar!ExtractMeta(ms)) = {m \in ms : store[m] # None}
<1>1. Ar!ExtractMeta(ms) \subseteq Ar!Lines
  BY DEF Ar!ExtractMeta, Ar!Lines
<1>2. \A l \in Ar!ExtractMeta(ms) : l.mail \in ms /\ (l.meta = "full" <=> store[l.mail] # None)
  BY DEF Ar!ExtractMeta
<1>3. \A m \in ms : store[m] # None => [mail |-> m, meta |-> "full"] \in Ar!ExtractMeta(ms)
  BY DEF Ar!ExtractMeta
<1>4. Ar!Full(Ar!ExtractMeta(ms)) \subseteq {m \in ms : store[m] # None}
  BY <1>2 DEF Ar!Full
<1>5. ASSUME NEW m \in ms, store[m] # None PROVE m \in Ar!Full(Ar!ExtractMeta(ms))
  <2> DEFINE l == [mail |-> m, meta |-> "full"]
  <2>1. l \in Ar!ExtractMeta(ms) /\ l.mail = m /\ l.meta = "full"
    BY <1>3, <1>5
  <2> QED
    BY <2>1 DEF Ar!Full
<1> QED
  BY <1>1, <1>4, <1>5

LEMMA FullUnion ==
  ASSUME NEW a, NEW b
  PROVE  Ar!Full(a \cup b) = Ar!Full(a) \cup Ar!Full(b)
BY DEF Ar!Full

(* Lines that land are in the index, or an error has cost one.             *)
LEMMA Lands ==
  ASSUME Ar!TypeOK, NEW landed \in SUBSET Ar!Lines, Ar!Land(landed)
  PROVE  /\ index' \subseteq Ar!Lines /\ excused' \subseteq Mails
         /\ index \subseteq index' /\ excused \subseteq excused'
         /\ Ar!Full(index) \subseteq Ar!Full(index')
         /\ Ar!Full(landed) \subseteq Ar!Full(index') \cup excused'
<1>1. PICK glued \in SUBSET landed :
        index' = index \cup (landed \ glued) /\ excused' = excused \cup Ar!Full(glued)
  BY DEF Ar!Land
<1>2. Ar!Full(glued) \subseteq Mails
  BY DEF Ar!Full, Ar!Lines
<1>3. landed = glued \cup (landed \ glued)
  OBVIOUS
<1>4. Ar!Full(landed) = Ar!Full(glued) \cup Ar!Full(landed \ glued)
  BY <1>3, FullUnion
<1>5. Ar!Full(index') = Ar!Full(index) \cup Ar!Full(landed \ glued)
  BY <1>1, FullUnion
<1> QED
  BY <1>1, <1>2, <1>4, <1>5 DEF Ar!TypeOK

LEMMA RetentionStep ==
  ASSUME RetentionInv, Ar!Next \/ UNCHANGED archiveVars
  PROVE  RetentionInv'
<1>0. None \notin Pruners /\ None # "fresh" /\ None # "expired"
  BY ServicesAssumption DEF Ar!ArchiveAssumption
<1> USE <1>0 DEF RetentionInv, Ar!TypeOK, Ar!Entries, Ar!Lines, Doomed, Pruning, PrunedIsIndexed,
            Ar!PrunedIsIndexed, Ar!Goto, Ar!files, Ar!history
<1>1. ASSUME NEW e \in Ar!Entries, Ar!Written(e) PROVE RetentionInv'
  BY <1>1 DEF Ar!Written
<1>2. ASSUME NEW e \in Ar!Entries, Ar!Expires(e) PROVE RetentionInv'
  BY <1>2 DEF Ar!Expires
<1>3. ASSUME NEW p \in Pruners, Ar!List(p) PROVE RetentionInv'
  BY <1>3 DEF Ar!List
<1>4. ASSUME NEW p \in Pruners, Ar!Confirm(p) PROVE RetentionInv'
  BY <1>4 DEF Ar!Confirm
<1>5. ASSUME NEW p \in Pruners, Ar!Decline(p) PROVE RetentionInv'
  BY <1>5 DEF Ar!Decline
<1>6. ASSUME NEW p \in Pruners, Ar!Extract(p) PROVE RetentionInv'
  <2> DEFINE ms == listed[p] \cap Mails
  <2>1. Ar!ExtractMeta(ms) \subseteq Ar!Lines
    BY MetaOf
  <2>2. Ar!Full(Ar!ExtractMeta(ms)) = {m \in ms : store[m] # None}
    BY MetaOf
  <2> QED
    BY <1>6, <2>1, <2>2, Zenon DEF Ar!Extract
<1>7. ASSUME NEW p \in Pruners, Ar!AppendIndex(p) PROVE RetentionInv'
  <2>1. Ar!Land(entries[p]) /\ entries[p] \in SUBSET Ar!Lines
    BY <1>7 DEF Ar!AppendIndex
  <2>2. /\ index' \subseteq Ar!Lines /\ excused' \subseteq Mails
        /\ index \subseteq index' /\ excused \subseteq excused'
        /\ Ar!Full(index) \subseteq Ar!Full(index')
        /\ Ar!Full(entries[p]) \subseteq Ar!Full(index') \cup excused'
    BY <2>1, Lands
  <2>3. \A q \in Pruners : pruner[q] # "read"
    BY <1>7 DEF Ar!AppendIndex
  <2>4. Ar!TypeOK'
    BY <1>7, <2>2 DEF Ar!AppendIndex
  <2>5. PrunedIsIndexed'
    BY <1>7, <2>2 DEF Ar!AppendIndex
  <2>6. \A r \in Pruners : entries'[r] = IF r = p THEN {} ELSE entries[r]
    BY <1>7 DEF Ar!AppendIndex
  <2> QED
    BY <1>7, <2>2, <2>3, <2>4, <2>5, <2>6 DEF Ar!AppendIndex
<1>8. ASSUME NEW p \in Pruners, Ar!AppendFails(p) PROVE RetentionInv'
  <2>1. PICK landed \in SUBSET entries[p] : index' = index \cup landed
    <3>1. CASE UNCHANGED index
      <4>1. {} \in SUBSET entries[p] /\ index' = index \cup {}
        BY <3>1
      <4> QED
        BY <4>1
    <3>2. CASE \E landed \in SUBSET entries[p] : index' = index \cup landed
      BY <3>2
    <3> QED
      BY <1>8, <3>1, <3>2 DEF Ar!AppendFails
  <2>2. index' \subseteq Ar!Lines /\ Ar!Full(index') = Ar!Full(index) \cup Ar!Full(landed)
    BY <2>1, FullUnion
  <2>3. Ar!Full(entries[p]) \subseteq Mails
    BY DEF Ar!Full
  <2> QED
    BY <1>8, <2>2, <2>3, Zenon DEF Ar!AppendFails
<1>9. ASSUME NEW p \in Pruners, NEW e \in Ar!Entries, Ar!Delete(p, e) PROVE RetentionInv'
  BY <1>9 DEF Ar!Delete
<1>10. ASSUME NEW p \in Pruners, Ar!Done(p) PROVE RetentionInv'
  BY <1>10 DEF Ar!Done
<1>11. ASSUME NEW p \in Pruners, Ar!Walk(p) PROVE RetentionInv'
  BY <1>11 DEF Ar!Walk
<1>12. ASSUME NEW p \in Pruners, NEW m \in Mails, Ar!Read(p, m) PROVE RetentionInv'
  <2>1. Ar!ExtractMeta({m}) \subseteq Ar!Lines
    BY MetaOf
  <2>2. Ar!Full(Ar!ExtractMeta({m})) = {n \in {m} : store[n] # None}
    BY MetaOf
  <2>3. Ar!Full(entries[p] \cup Ar!ExtractMeta({m}))
          = Ar!Full(entries[p]) \cup Ar!Full(Ar!ExtractMeta({m}))
    BY FullUnion
  <2>4. Ar!Full(entries'[p]) = Ar!Full(entries[p]) \cup {n \in {m} : store[n] # None}
    BY <1>12, <2>2, <2>3 DEF Ar!Read
  <2>5. \A q \in Pruners : q # p => entries'[q] = entries[q]
    BY <1>12 DEF Ar!Read
  <2>6. Ar!TypeOK'
    BY <1>12, <2>1 DEF Ar!Read
  <2>7. /\ UNCHANGED <<store, index, torn, indexLock, pruner, pruned, excused>>
        /\ listed' = [listed EXCEPT ![p] = @ \ {m}] /\ pruner[p] = "read"
    BY <1>12 DEF Ar!Read
  <2>8. \A q \in Pruners : pruner[q] # "read" => listed'[q] = listed[q] /\ entries'[q] = entries[q]
    BY <2>5, <2>7
  <2>9. ASSUME NEW q \in Pruners, NEW r \in Pruners, NEW n \in Mails,
               pruner[q] = "delete", Doomed(q, n), pruner[r] = "read"
        PROVE  n \in listed'[r] \cup Ar!Full(entries'[r]) \cup excused
    <3>1. n \in listed[r] \cup Ar!Full(entries[r]) \cup excused /\ store[n] # None
      BY <2>9
    <3>2. CASE r = p
      BY <2>4, <2>7, <3>1, <3>2
    <3>3. CASE r # p
      BY <2>5, <2>7, <3>1, <3>3
    <3> QED
      BY <3>2, <3>3
  <2> QED
    BY <2>6, <2>7, <2>8, <2>9
<1>13. ASSUME NEW p \in Pruners, Ar!Rename(p) PROVE RetentionInv'
  BY <1>13, Zenon DEF Ar!Rename, Ar!Unlock
<1>14. ASSUME NEW p \in Pruners, Ar!Crash(p) PROVE RetentionInv'
  BY <1>14 DEF Ar!Crash, Ar!Unlock
<1>15. CASE UNCHANGED archiveVars
  BY <1>15 DEF archiveVars
<1> QED
  BY <1>1, <1>2, <1>3, <1>4, <1>5, <1>6, <1>7, <1>8, <1>9, <1>10, <1>11, <1>12, <1>13, <1>14,
     <1>15 DEF Ar!Next

(* What was pruned is in the index, or its line was lost to an error or to *)
(* a rebuild that came after it.                                           *)
THEOREM PrunedIsIndexedHolds == PartSpec => []PrunedIsIndexed
<1>1. PartInit => RetentionInv
  BY RetentionInit
<1>2. RetentionInv /\ [PartNext]_partVars => RetentionInv'
  BY OtherParts, RetentionStep
<1>3. RetentionInv => PrunedIsIndexed
  BY DEF RetentionInv
<1> QED
  BY <1>1, <1>2, <1>3, PTL DEF PartSpec
---------------------------------------------------------------------------
(* Insights.  Who has read the ledger has the lock, so the ledger is still *)
(* what was read, and the temporary file what is to come.                  *)
Unique(es) ==
  \A i, j \in DOMAIN es : es[i].title = es[j].title => i = j

InsightInv ==
  /\ In!TypeOK
  /\ \A w \in Writers :
       /\ writer[w] \in {"read", "write", "rename"} => insightLock = w
       /\ writer[w] \in {"write", "rename"} =>
            read[w] = In!Parsed(file) /\ entry[w].title \notin In!TitlesOf(file)
       /\ writer[w] = "rename" => tmp = Append(read[w], entry[w])
  /\ noted \subseteq In!TitlesOf(file)
  /\ Unique(file)

(* Parsing keeps the number, the order and the titles of the entries.      *)
LEMMA ParsedIs ==
  ASSUME NEW s \in Seq(In!Entries)
  PROVE  /\ In!Parsed(s) \in Seq(In!Entries)
         /\ Len(In!Parsed(s)) = Len(s)
         /\ \A i \in 1 .. Len(s) : /\ In!Parsed(s)[i] = [title |-> s[i].title, text |-> "line"]
                                  /\ In!Parsed(s)[i].title = s[i].title
         /\ In!TitlesOf(In!Parsed(s)) = In!TitlesOf(s)
<1> DEFINE t == In!Parsed(s)
<1>1. t = [i \in 1 .. Len(s) |-> [s[i] EXCEPT !.text = "line"]]
  BY DEF In!Parsed
<1>2. ASSUME NEW e \in In!Entries
      PROVE  /\ [e EXCEPT !.text = "line"] = [title |-> e.title, text |-> "line"]
             /\ [title |-> e.title, text |-> "line"] \in In!Entries
             /\ [title |-> e.title, text |-> "line"].title = e.title
  BY DEF In!Entries
<1> HIDE DEF t
<1>3. t \in Seq(In!Entries) /\ Len(t) = Len(s) /\ DOMAIN t = DOMAIN s
  <2>1. Len(s) \in Nat /\ \A i \in 1 .. Len(s) : s[i] \in In!Entries
    OBVIOUS
  <2>2. \A i \in 1 .. Len(s) : [s[i] EXCEPT !.text = "line"] \in In!Entries
    BY <1>2, <2>1
  <2>3. t \in [1 .. Len(s) -> In!Entries]
    BY <1>1, <2>2
  <2>4. t \in Seq(In!Entries)
    BY <2>1, <2>3, IsASeq
  <2> QED
    BY <2>1, <2>3, <2>4
<1>4. \A i \in 1 .. Len(s) : t[i] = [title |-> s[i].title, text |-> "line"]
  BY <1>1, <1>2, ElementOfSeq
<1>5. \A i \in 1 .. Len(s) : t[i].title = s[i].title
  <2> TAKE i \in 1 .. Len(s)
  <2>1. s[i] \in In!Entries
    BY ElementOfSeq
  <2> QED
    BY <1>2, <1>4, <2>1
<1>6. In!TitlesOf(t) = In!TitlesOf(s)
  BY <1>3, <1>5 DEF In!TitlesOf
<1> QED
  BY <1>3, <1>4, <1>5, <1>6 DEF t

(* Appending an entry with a new title to what was parsed.                 *)
LEMMA AppendedIs ==
  ASSUME NEW s \in Seq(In!Entries), Unique(s),
         NEW e \in In!Entries, e.title \notin In!TitlesOf(s)
  PROVE  LET t == Append(In!Parsed(s), e)
         IN  /\ t \in Seq(In!Entries) /\ t # <<>>
             /\ Unique(t)
             /\ In!TitlesOf(s) \cup {e.title} \subseteq In!TitlesOf(t)
             /\ In!IsPrefix(In!Parsed(s), In!Parsed(t))
<1> DEFINE r == In!Parsed(s)
           t == Append(r, e)
<1>1. /\ r \in Seq(In!Entries) /\ Len(r) = Len(s)
      /\ \A i \in 1 .. Len(s) : /\ r[i] = [title |-> s[i].title, text |-> "line"]
                               /\ r[i].title = s[i].title
  BY ParsedIs
<1> HIDE DEF r
<1>2. /\ t \in Seq(In!Entries) /\ Len(t) = Len(s) + 1 /\ t # <<>>
      /\ \A i \in 1 .. Len(s) : t[i] = r[i]
      /\ t[Len(s) + 1] = e
  BY <1>1, AppendProperties
<1> HIDE DEF t
<1>3. \A i \in 1 .. Len(s) : t[i].title = s[i].title
  BY <1>1, <1>2
<1>4. \A i \in 1 .. Len(s) : e.title # s[i].title
  BY DEF In!TitlesOf
<1>5. Unique(t)
  BY <1>2, <1>3, <1>4 DEF Unique
<1>6. In!TitlesOf(s) \subseteq In!TitlesOf(t)
  BY <1>2, <1>3 DEF In!TitlesOf
<1>7. e.title \in In!TitlesOf(t)
  BY <1>2 DEF In!TitlesOf
<1>8. /\ In!Parsed(t) \in Seq(In!Entries) /\ Len(In!Parsed(t)) = Len(s) + 1
      /\ \A i \in 1 .. Len(s) : In!Parsed(t)[i] = [title |-> t[i].title, text |-> "line"]
  BY <1>2, ParsedIs
<1>9. \A i \in 1 .. Len(s) : In!Parsed(t)[i] = r[i]
  BY <1>1, <1>3, <1>8
<1>10. In!IsPrefix(r, In!Parsed(t))
  <2>1. SubSeq(In!Parsed(t), 1, Len(r)) = r
    BY <1>1, <1>8, <1>9
  <2> QED
    BY <1>1, <1>8, <2>1 DEF In!IsPrefix
<1> QED
  BY <1>2, <1>5, <1>6, <1>7, <1>10 DEF r, t

LEMMA SomeEntry == (CHOOSE e \in In!Entries : TRUE) \in In!Entries
<1>1. PICK t \in Titles : TRUE
  BY ServicesAssumption DEF In!InsightsAssumption
<1>2. [title |-> t, text |-> "line"] \in In!Entries
  BY DEF In!Entries
<1> QED
  BY <1>2

(* Forgetting is about one writer.                                         *)
LEMMA Forgets ==
  ASSUME In!TypeOK, NEW w \in Writers, In!Forget(w)
  PROVE  /\ writer' \in [Writers -> {"idle", "lock", "read", "write", "rename"}]
         /\ entry' \in [Writers -> In!Entries]
         /\ read' \in [Writers -> Seq(In!Entries)]
         /\ writer'[w] = "idle"
         /\ \A v \in Writers \ {w} :
              writer'[v] = writer[v] /\ entry'[v] = entry[v] /\ read'[v] = read[v]
<1> DEFINE any == CHOOSE e \in In!Entries : TRUE
<1>1. any \in In!Entries
  BY SomeEntry
<1>2. entry' = [entry EXCEPT ![w] = any]
  BY DEF In!Forget
<1> HIDE DEF any
<1>3. entry' \in [Writers -> In!Entries] /\ \A v \in Writers \ {w} : entry'[v] = entry[v]
  BY <1>1, <1>2 DEF In!TypeOK
<1> QED
  BY <1>3, EmptySeq DEF In!TypeOK, In!Forget, In!Goto

LEMMA InsightInit == PartInit => InsightInv
<1> USE ServicesAssumption DEF In!InsightsAssumption
<1> SUFFICES ASSUME PartInit PROVE InsightInv
  OBVIOUS
<1>1. In!Init
  BY DEF PartInit
<1>2. (CHOOSE e \in In!Entries : TRUE) \in In!Entries
  BY SomeEntry
<1>3. In!TypeOK
  BY <1>1, <1>2, EmptySeq DEF In!Init, In!TypeOK
<1>4. Unique(file) /\ noted \subseteq In!TitlesOf(file)
  BY <1>1 DEF In!Init, Unique
<1>5. \A w \in Writers : writer[w] = "idle"
  BY <1>1 DEF In!Init
<1> QED
  BY <1>3, <1>4, <1>5 DEF InsightInv

Prefixed == In!IsPrefix(In!Parsed(file), In!Parsed(file'))

(* Only a rename changes the ledger, and it appends to what was parsed.    *)
LEMMA InsightPreserved ==
  ASSUME InsightInv, In!Next \/ UNCHANGED insightVars
  PROVE  InsightInv' /\ (Prefixed \/ UNCHANGED insightVars)
<1> USE ServicesAssumption DEF In!InsightsAssumption
<1> USE DEF InsightInv, In!TypeOK, In!Goto
<1>0. file \in Seq(In!Entries)
  OBVIOUS
<1>1. ASSUME UNCHANGED file PROVE Prefixed
  <2>1. In!Parsed(file) \in Seq(In!Entries)
    BY <1>0, ParsedIs
  <2>2. SubSeq(In!Parsed(file), 1, Len(In!Parsed(file))) = In!Parsed(file)
    BY <2>1
  <2> QED
    BY <1>1, <2>1, <2>2 DEF Prefixed, In!IsPrefix
<1>2. ASSUME NEW w \in Writers, NEW e \in In!Entries, In!Call(w, e) PROVE InsightInv' /\ Prefixed
  BY <1>1, <1>2 DEF In!Call
<1>3. ASSUME NEW w \in Writers, In!Lock(w) PROVE InsightInv' /\ Prefixed
  BY <1>1, <1>3 DEF In!Lock
<1>4. ASSUME NEW w \in Writers, In!ReadFile(w) PROVE InsightInv' /\ Prefixed
  <2>1. In!Parsed(file) \in Seq(In!Entries) /\ In!TitlesOf(In!Parsed(file)) = In!TitlesOf(file)
    BY ParsedIs
  <2>2. UNCHANGED <<file, tmp>> /\ writer[w] = "read"
    BY <1>4 DEF In!ReadFile
  <2>3. CASE entry[w].title \in In!TitlesOf(In!Parsed(file))
    <3>1. /\ In!Forget(w) /\ In!Unlock(w)
          /\ noted' = noted \cup {entry[w].title} /\ noted' \subseteq In!TitlesOf(file)
      BY <1>4, <2>1, <2>3 DEF In!ReadFile
    <3>2. /\ writer' \in [Writers -> {"idle", "lock", "read", "write", "rename"}]
          /\ entry' \in [Writers -> In!Entries]
          /\ read' \in [Writers -> Seq(In!Entries)]
          /\ writer'[w] = "idle"
          /\ \A v \in Writers \ {w} :
               writer'[v] = writer[v] /\ entry'[v] = entry[v] /\ read'[v] = read[v]
      BY <3>1, Forgets
    <3>3. entry[w].title \in Titles
      BY DEF In!Entries
    <3>4. In!TypeOK'
      BY <2>2, <3>1, <3>2, <3>3 DEF In!Unlock
    <3> QED
      BY <1>1, <2>2, <3>1, <3>2, <3>4 DEF In!Unlock
  <2>4. CASE entry[w].title \notin In!TitlesOf(In!Parsed(file))
    BY <1>1, <1>4, <2>1, <2>2, <2>4, Zenon DEF In!ReadFile
  <2> QED
    BY <2>3, <2>4
<1>5. ASSUME NEW w \in Writers, In!WriteTemp(w) PROVE InsightInv' /\ Prefixed
  <2>1. Append(read[w], entry[w]) \in Seq(In!Entries)
    BY AppendProperties
  <2> QED
    BY <1>1, <1>5, <2>1 DEF In!WriteTemp
<1>6. ASSUME NEW w \in Writers, In!Rename(w) PROVE InsightInv' /\ Prefixed
  <2>1. tmp = Append(In!Parsed(file), entry[w]) /\ entry[w].title \notin In!TitlesOf(file)
    BY <1>6 DEF In!Rename
  <2>2. entry[w] \in In!Entries /\ Unique(file)
    OBVIOUS
  <2>3. /\ tmp \in Seq(In!Entries) /\ tmp # <<>> /\ Unique(tmp)
        /\ In!TitlesOf(file) \cup {entry[w].title} \subseteq In!TitlesOf(tmp)
        /\ In!IsPrefix(In!Parsed(file), In!Parsed(tmp))
    BY <1>0, <2>1, <2>2, AppendedIs
  <2>4. file' = tmp /\ noted' = noted \cup {entry[w].title}
    BY <1>6, <2>3 DEF In!Rename
  <2>5. Prefixed
    BY <2>3, <2>4 DEF Prefixed
  <2>6. Unique(file) /\ Unique(file') /\ noted' \subseteq In!TitlesOf(file')
    BY <2>3, <2>4 DEF Unique
  <2>7. \A v \in Writers : v # w => writer[v] \in {"idle", "lock"}
    BY <1>6 DEF In!Rename
  <2>8. In!TypeOK'
    <3>1. In!Forget(w) /\ In!Unlock(w) /\ tmp' = <<>>
      BY <1>6 DEF In!Rename
    <3>2. entry[w].title \in Titles
      BY DEF In!Entries
    <3> QED
      BY <2>3, <2>4, <3>1, <3>2, Forgets, EmptySeq DEF In!Unlock
  <2>9. \A v \in Writers : writer'[v] \in {"idle", "lock"}
    BY <1>6, <2>7 DEF In!Rename, In!Forget
  <2> QED
    BY <2>5, <2>6, <2>8, <2>9
<1>7. ASSUME NEW w \in Writers, In!Fail(w) PROVE InsightInv' /\ Prefixed
  <2>1. tmp' \in Seq(In!Entries)
    <3>1. ASSUME NEW n \in 0 .. Len(read[w]) PROVE SubSeq(read[w], 1, n) \in Seq(In!Entries)
      BY <3>1
    <3> QED
      BY <1>7, <3>1, EmptySeq, Zenon DEF In!Fail
  <2>2. UNCHANGED <<file, noted>>
    BY <1>7 DEF In!Fail
  <2>3. ASSUME NEW v \in Writers, writer'[v] = "rename" PROVE tmp' = tmp /\ v # w
    BY <1>7, <2>3 DEF In!Fail, In!Forget
  <2>4. In!TypeOK'
    <3>1. In!Forget(w) /\ In!Unlock(w)
      BY <1>7 DEF In!Fail
    <3> QED
      BY <2>1, <2>2, <3>1, Forgets DEF In!Unlock
  <2> QED
    BY <1>1, <1>7, <2>2, <2>3, <2>4 DEF In!Fail, In!Unlock, In!Forget
<1>8. CASE UNCHANGED insightVars
  BY <1>8 DEF insightVars
<1> QED
  BY <1>2, <1>3, <1>4, <1>5, <1>6, <1>7, <1>8 DEF In!Next

(* What Append has written stays in the ledger, once and in its place.     *)
THEOREM InsightsAreKeptHolds == PartSpec => InsightsAreKept
<1>1. PartInit => InsightInv
  BY InsightInit
<1>2. InsightInv /\ [PartNext]_partVars => InsightInv' /\ [Prefixed]_insightVars
  BY OtherParts, InsightPreserved
<1>3. InsightInv => /\ noted \subseteq In!TitlesOf(file)
                    /\ \A i, j \in DOMAIN file : file[i].title = file[j].title => i = j
  BY DEF InsightInv, Unique
<1> QED
  BY <1>1, <1>2, <1>3, PTL DEF PartSpec, InsightsAreKept, In!InsightsAreKept, Prefixed,
     insightVars, In!vars
---------------------------------------------------------------------------
(* The MCP server.  Answers are for lines that are done with, and the line *)
(* in a read tool is not; the files it has listed stay whole.              *)
Answers == [line : Nat, error : BOOLEAN, files : SUBSET ScanFiles]

AnswerInv ==
  /\ input \in Seq(Se!Lines) /\ answers \in Seq(Answers)
  /\ handled \in Nat /\ handled <= Len(input)
  /\ \A i \in 1 .. Len(answers) : answers[i].line \in 1 .. handled
  /\ \A i, j \in 1 .. Len(answers) : i < j => answers[i].line < answers[j].line
  /\ ~broken => \A n \in 1 .. handled :
       input[n] \notin Se!Silent <=> \E i \in 1 .. Len(answers) : answers[i].line = n

ScanInv ==
  /\ parsed \subseteq ScanFiles
  /\ serving = "listed" =>
       /\ handled < Len(input) /\ input[handled + 1] = "read"
       /\ owed \subseteq unread \cup parsed
       /\ \A f \in unread : disk[f] = "whole"
  /\ disk \in [ScanFiles -> {"none", "whole"}]

ServerInv == AnswerInv /\ ScanInv

(* The line after those that are done with is answered.                    *)
LEMMA Answered ==
  ASSUME AnswerInv, handled < Len(input), input[handled + 1] \notin Se!Silent,
         NEW error \in BOOLEAN, NEW fs \in SUBSET ScanFiles,
         Se!Respond(error, fs), handled' = handled + 1, UNCHANGED <<input, broken>>
  PROVE  AnswerInv'
<1> USE DEF AnswerInv
<1>1. CASE broken
  BY <1>1 DEF Se!Respond
<1>2. CASE ~broken
  <2> DEFINE a == [line |-> handled + 1, error |-> error, files |-> fs]
  <2>1. a \in Answers /\ a.line = handled + 1
    BY DEF Answers
  <2>2. answers' = Append(answers, a)
    BY <1>2 DEF Se!Respond
  <2> HIDE DEF a
  <2>3. /\ answers' \in Seq(Answers) /\ Len(answers') = Len(answers) + 1
        /\ \A i \in 1 .. Len(answers) : answers'[i] = answers[i]
        /\ answers'[Len(answers) + 1] = a
    BY <2>1, <2>2, AppendProperties
  <2>4. Len(answers) \in Nat
    BY LenProperties
  <2>5. \A i \in 1 .. Len(answers') : answers'[i].line \in 1 .. handled'
    BY <2>1, <2>3, <2>4
  <2>6. ASSUME NEW i \in 1 .. Len(answers'), NEW j \in 1 .. Len(answers'), i < j
        PROVE  answers'[i].line < answers'[j].line
    <3>1. i \in 1 .. Len(answers)
      BY <2>3, <2>4, <2>6
    <3>2. CASE j \in 1 .. Len(answers)
      BY <2>3, <2>6, <3>1, <3>2
    <3>3. CASE j = Len(answers) + 1
      BY <2>1, <2>3, <3>1, <3>3
    <3> QED
      BY <2>3, <2>4, <3>2, <3>3
  <2>7. ASSUME NEW n \in 1 .. handled
        PROVE  input[n] \notin Se!Silent <=> \E i \in 1 .. Len(answers') : answers'[i].line = n
    <3>1. input[n] \notin Se!Silent <=> \E i \in 1 .. Len(answers) : answers[i].line = n
      BY <1>2
    <3>2. ASSUME NEW i \in 1 .. Len(answers), answers[i].line = n
          PROVE  i \in 1 .. Len(answers') /\ answers'[i].line = n
      BY <2>3, <2>4, <3>2
    <3>3. ASSUME NEW i \in 1 .. Len(answers'), answers'[i].line = n
          PROVE  i \in 1 .. Len(answers) /\ answers[i].line = n
      <4>1. i # Len(answers) + 1
        BY <2>1, <2>3, <3>3
      <4> QED
        BY <2>3, <2>4, <3>3, <4>1
    <3> QED
      BY <3>1, <3>2, <3>3
  <2>8. \E i \in 1 .. Len(answers') : answers'[i].line = handled + 1
    BY <2>1, <2>3, <2>4
  <2> QED
    BY <1>2, <2>3, <2>5, <2>6, <2>7, <2>8
<1> QED
  BY <1>1, <1>2

LEMMA ServerInit == PartInit => ServerInv
<1> SUFFICES ASSUME PartInit PROVE ServerInv
  OBVIOUS
<1>1. Se!Init
  BY DEF PartInit
<1> QED
  BY <1>1, EmptySeq DEF Se!Init, ServerInv, AnswerInv, ScanInv

LEMMA ServerPreserved ==
  ASSUME ServerInv, Se!Next \/ UNCHANGED serverVars
  PROVE  ServerInv'
<1> USE DEF ServerInv, Se!client, Se!reading, Se!Scanned, Se!Line
<1>0. AnswerInv /\ ScanInv
  OBVIOUS
<1>1. ASSUME NEW l \in Se!Lines, Se!Send(l) PROVE ServerInv'
  <2>1. /\ input' \in Seq(Se!Lines) /\ Len(input') = Len(input) + 1
        /\ \A n \in 1 .. Len(input) : input'[n] = input[n]
    BY <1>1, AppendProperties DEF Se!Send, AnswerInv
  <2>2. AnswerInv'
    BY <1>1, <2>1 DEF Se!Send, AnswerInv
  <2>3. ScanInv'
    BY <1>1, <2>1 DEF Se!Send, ScanInv, AnswerInv
  <2> QED
    BY <2>2, <2>3
<1>2. ASSUME Se!Cancel PROVE ServerInv'
  BY <1>2 DEF Se!Cancel, AnswerInv, ScanInv
<1>3. ASSUME Se!Hangup PROVE ServerInv'
  BY <1>3 DEF Se!Hangup, AnswerInv, ScanInv
<1>4. ASSUME Se!Handle PROVE ServerInv'
  <2>1. ScanInv'
    BY <1>4 DEF Se!Handle, ScanInv
  <2>2. CASE input[handled + 1] \in Se!Silent
    <3>1. UNCHANGED <<answers, input, broken>> /\ handled' = handled + 1 /\ handled < Len(input)
      BY <1>4, <2>2 DEF Se!Handle, AnswerInv
    <3>2. \A i \in 1 .. Len(answers) : answers[i].line # handled + 1
      BY DEF AnswerInv
    <3>3. AnswerInv'
      BY <2>2, <3>1, <3>2 DEF AnswerInv
    <3> QED
      BY <2>1, <3>3
  <2>3. CASE input[handled + 1] \notin Se!Silent
    <3> DEFINE error == input[handled + 1] = "refused"
    <3>1. /\ Se!Respond(error, {}) /\ handled' = handled + 1 /\ handled < Len(input)
          /\ UNCHANGED <<input, broken>>
      BY <1>4, <2>3 DEF Se!Handle, AnswerInv
    <3>2. error \in BOOLEAN
      OBVIOUS
    <3> HIDE DEF error
    <3>3. AnswerInv'
      BY <2>3, <3>1, <3>2, Answered
    <3> QED
      BY <2>1, <3>3
  <2> QED
    BY <2>2, <2>3
<1>5. ASSUME Se!StdinCloses \/ Se!ScanFails \/ Se!Ends PROVE ServerInv'
  BY <1>5 DEF Se!StdinCloses, Se!ScanFails, Se!Ends, AnswerInv, ScanInv
<1>6. ASSUME Se!ReadRefused PROVE ServerInv'
  <2>1. input[handled + 1] \notin Se!Silent
    BY <1>6 DEF Se!ReadRefused, Se!Silent
  <2>2. AnswerInv'
    BY <1>6, <2>1, Answered DEF Se!ReadRefused
  <2>3. ScanInv'
    BY <1>6 DEF Se!ReadRefused, ScanInv
  <2> QED
    BY <2>2, <2>3
<1>7. ASSUME Se!ReadDir PROVE ServerInv'
  BY <1>7 DEF Se!ReadDir, AnswerInv, ScanInv
<1>8. ASSUME NEW f \in ScanFiles, Se!Parse(f) PROVE ServerInv'
  BY <1>8 DEF Se!Parse, AnswerInv, ScanInv
<1>9. ASSUME Se!ReadAnswered PROVE ServerInv'
  <2>1. /\ handled < Len(input) /\ input[handled + 1] \notin Se!Silent
        /\ parsed \in SUBSET ScanFiles
    BY <1>9 DEF Se!ReadAnswered, Se!Silent, ScanInv
  <2>2. AnswerInv'
    BY <1>9, <2>1, Answered DEF Se!ReadAnswered
  <2>3. ScanInv'
    BY <1>9 DEF Se!ReadAnswered, ScanInv
  <2> QED
    BY <2>2, <2>3
<1>10. ASSUME NEW f \in ScanFiles, Se!AtomicWrite(f) PROVE ServerInv'
  BY <1>10 DEF Se!AtomicWrite, AnswerInv, ScanInv
<1>11. CASE UNCHANGED serverVars
  BY <1>11 DEF serverVars, AnswerInv, ScanInv
<1> QED
  BY <1>1, <1>2, <1>3, <1>4, <1>5, <1>6, <1>7, <1>8, <1>9, <1>10, <1>11 DEF Se!Next

(* Requests are answered once and in order, and a read tool misses no file *)
(* that was there when it was called.                                      *)
THEOREM AnswersAreCompleteHolds == PartSpec => []AnswersAreComplete
<1>1. PartInit => ServerInv
  BY ServerInit
<1>2. ServerInv /\ [PartNext]_partVars => ServerInv'
  BY OtherParts, ServerPreserved
<1>3. ServerInv => AnswersAreComplete
  <2> SUFFICES ASSUME ServerInv PROVE AnswersAreComplete
    OBVIOUS
  <2> USE DEF ServerInv, AnswerInv
  <2>1. DOMAIN answers = 1 .. Len(answers)
    BY LenProperties
  <2>2. ~broken => {answers[i].line : i \in 1 .. Len(answers)} =
                   {n \in 1 .. handled : input[n] \notin Se!Silent}
    OBVIOUS
  <2> QED
    BY <2>1, <2>2 DEF AnswersAreComplete, Se!AnswersAreComplete, ScanInv
<1> QED
  BY <1>1, <1>2, <1>3, PTL DEF PartSpec
---------------------------------------------------------------------------
(* Streams.  The map has the spans that are open, and an agent in the      *)
(* normalizer's map was started more often than it was ended.              *)
StreamInv ==
  /\ IsFiniteSet(openSpans) /\ live = Cardinality(openSpans)
  /\ outcome # None => openSpans = {}
  /\ balance \in [AgentIDs -> Nat]
  /\ \A a \in subagents : a \in AgentIDs /\ balance[a] > 0

Counted == IsFiniteSet(openSpans) /\ live = Cardinality(openSpans)

LEMMA SameCardinality ==
  ASSUME NEW S
  PROVE  Sm!Cardinality(S) = Cardinality(S)
BY DEF Cardinality, Sm!Cardinality

LEMMA Started ==
  ASSUME Counted, NEW keys, IsFiniteSet(keys), Sm!Start(keys)
  PROVE  Counted'
<1> DEFINE new == keys \ openSpans
<1>1. IsFiniteSet(new)
  BY FS_Difference
<1>2. IsFiniteSet(openSpans \cup new)
  BY <1>1, FS_Union DEF Counted
<1>3. Cardinality(openSpans \cup new)
        = Cardinality(openSpans) + Cardinality(new) - Cardinality(openSpans \cap new)
  BY <1>1, FS_Union DEF Counted
<1>4. (openSpans \cap new) = {} /\ (openSpans \cup new) = (openSpans \cup keys)
  OBVIOUS
<1>5. Cardinality({}) = 0 /\ Cardinality(openSpans) \in Nat /\ Cardinality(new) \in Nat
  BY <1>1, FS_EmptySet, FS_CardinalityType DEF Counted
<1>6. openSpans' = openSpans \cup keys /\ live' = live + Cardinality(new)
  BY SameCardinality DEF Sm!Start
<1> HIDE DEF new
<1>7. IsFiniteSet(openSpans \cup keys)
  BY <1>2, <1>4
<1>8. Cardinality(openSpans \cup keys) = Cardinality(openSpans) + Cardinality(new)
  <2>1. /\ Cardinality(openSpans \cap new) = 0
        /\ Cardinality(openSpans \cup new) = Cardinality(openSpans \cup keys)
    BY <1>4, <1>5, Zenon
  <2> QED
    BY <1>3, <1>5, <2>1
<1> QED
  BY <1>6, <1>7, <1>8 DEF Counted

LEMMA Ended ==
  ASSUME Counted, NEW keys, Sm!End(keys)
  PROVE  Counted' /\ openSpans' = openSpans \ keys
<1>1. /\ IsFiniteSet(openSpans \ keys)
      /\ Cardinality(openSpans \ keys)
           = Cardinality(openSpans) - Cardinality(openSpans \cap keys)
  BY FS_Difference DEF Counted
<1>2. openSpans' = openSpans \ keys /\ live' = live - Cardinality(openSpans \cap keys)
  <2>1. keys \cap openSpans = openSpans \cap keys
    OBVIOUS
  <2> QED
    BY <2>1, SameCardinality DEF Sm!End
<1> QED
  BY <1>1, <1>2 DEF Counted

LEMMA Processed ==
  ASSUME Counted, NEW m \in Sm!Messages, Sm!ProcessMessage(m)
  PROVE  Counted'
<1>1. CASE m.type = "assistant"
  <2>1. m.tools \in Sm!Blocks
    BY <1>1 DEF Sm!Messages
  <2>2. PICK n \in 0 .. 2 : DOMAIN m.tools = 1 .. n
    BY <2>1 DEF Sm!Blocks
  <2>3. IsFiniteSet(DOMAIN m.tools)
    BY <2>2, FS_Interval
  <2>4. IsFiniteSet(Sm!ToolKeys(m.tools))
    <3> DEFINE unnamed(i) == Sm!Cardinality({j \in 1 .. i - 1 : m.tools[j] = None})
               key == [i \in DOMAIN m.tools |->
                         IF m.tools[i] = None THEN <<"synthetic", syntheticSeq + unnamed(i)>>
                         ELSE <<"tool", m.tools[i]>>]
    <3>1. Sm!ToolKeys(m.tools) = {key[i] : i \in DOMAIN m.tools}
      BY DEF Sm!ToolKeys
    <3>2. DOMAIN key = DOMAIN m.tools
      OBVIOUS
    <3> HIDE DEF key
    <3>3. Sm!ToolKeys(m.tools) \subseteq {key[1], key[2]}
      BY <2>2, <3>1
    <3>4. IsFiniteSet({key[1], key[2]})
      <4>1. IsFiniteSet({key[1]}) /\ {key[1], key[2]} = ({key[1]} \cup {key[2]})
        BY FS_Singleton
      <4> QED
        BY <4>1, FS_AddElement, Zenon
    <3> QED
      BY <3>3, <3>4, FS_Subset
  <2>5. Sm!Start(Sm!ToolKeys(m.tools))
    BY <1>1 DEF Sm!ProcessMessage
  <2> QED
    BY <2>4, <2>5, Started
<1>2. CASE m.type = "tool_result"
  BY <1>2, Ended DEF Sm!ProcessMessage
<1>3. CASE m.type = "hook_started"
  <2>1. IsFiniteSet({<<"hook", m.id>>})
    BY FS_Singleton
  <2> QED
    BY <1>3, <2>1, Started DEF Sm!ProcessMessage
<1>4. CASE m.type = "hook_response"
  BY <1>4, Ended DEF Sm!ProcessMessage
<1>5. CASE m.type = "result"
  BY <1>5, Ended DEF Sm!ProcessMessage
<1>6. CASE m.type = "rate_limit_event"
  BY <1>6 DEF Sm!ProcessMessage, Counted
<1> QED
  BY <1>1, <1>2, <1>3, <1>4, <1>5, <1>6 DEF Sm!Messages

Agents == balance \in [AgentIDs -> Nat] /\ \A a \in subagents : a \in AgentIDs /\ balance[a] > 0

LEMMA Normalized ==
  ASSUME Agents, NEW m \in Sm!Messages, Sm!Normalize(m)
  PROVE  Agents'
<1> USE ServicesAssumption DEF Sm!StreamsAssumption, Agents
<1> DEFINE agent == IF m.type = "assistant" THEN Head(m.tools) ELSE m.id
<1>1. event' = Sm!EventOf(m)
  BY DEF Sm!Normalize
<1>2. CASE event' = "subagent_start"
  <2>1. agent \in AgentIDs
    BY <1>1, <1>2 DEF Sm!EventOf, Sm!Messages
  <2>2. subagents' = subagents \cup {agent} /\ balance' = [balance EXCEPT ![agent] = @ + 1]
    BY <1>2 DEF Sm!Normalize
  <2> HIDE DEF agent
  <2> QED
    BY <2>1, <2>2
<1>3. CASE event' = "subagent_end"
  <2>1. agent \in subagents
    BY <1>1, <1>3 DEF Sm!EventOf, Sm!Messages
  <2>2. subagents' = subagents \ {agent} /\ balance' = [balance EXCEPT ![agent] = @ - 1]
    BY <1>3 DEF Sm!Normalize
  <2> HIDE DEF agent
  <2> QED
    BY <2>1, <2>2
<1>4. CASE event' \notin {"subagent_start", "subagent_end"}
  BY <1>4 DEF Sm!Normalize
<1> QED
  BY <1>2, <1>3, <1>4

LEMMA StreamPreserved ==
  ASSUME StreamInv, Sm!Next \/ UNCHANGED streamVars
  PROVE  StreamInv'
<1> USE DEF StreamInv
<1>0. Counted /\ Agents
  BY DEF Counted, Agents
<1>1. ASSUME NEW err, Sm!Return(err) PROVE StreamInv'
  <2>1. Counted' /\ openSpans' = openSpans \ openSpans
    BY <1>0, <1>1, Ended DEF Sm!Return
  <2>2. Agents'
    BY <1>0, <1>1 DEF Sm!Return, Agents
  <2> QED
    BY <2>1, <2>2 DEF Counted, Agents
<1>2. ASSUME NEW err \in Sm!ReadErrors, Sm!Skip(err) PROVE StreamInv'
  BY <1>1, <1>2 DEF Sm!Skip
<1>3. ASSUME NEW m \in Sm!Messages, NEW err \in Sm!ReadErrors, Sm!Message(m, err) PROVE StreamInv'
  <2>1. Counted' /\ Agents'
    BY <1>0, <1>3, Processed, Normalized DEF Sm!Message
  <2>2. outcome' = None
    BY <1>3 DEF Sm!Message
  <2> QED
    BY <2>1, <2>2 DEF Counted, Agents
<1>4. ASSUME Sm!PendingError PROVE StreamInv'
  BY <1>1, <1>4 DEF Sm!PendingError
<1>5. CASE UNCHANGED streamVars
  BY <1>5 DEF streamVars
<1> QED
  BY <1>2, <1>3, <1>4, <1>5 DEF Sm!Next

(* Whatever a stream brings and however it ends, no span is left open and  *)
(* none is ended twice; the same for the starts and ends of agents.        *)
THEOREM SpansAreEndedHolds == PartSpec => []SpansAreEnded
<1>1. PartInit => StreamInv
  <2> SUFFICES ASSUME PartInit PROVE StreamInv
    OBVIOUS
  <2>1. Sm!Init
    BY DEF PartInit
  <2> QED
    BY <2>1, FS_EmptySet DEF Sm!Init, StreamInv
<1>2. StreamInv /\ [PartNext]_partVars => StreamInv'
  BY OtherParts, StreamPreserved
<1>3. StreamInv => SpansAreEnded
  BY SameCardinality DEF StreamInv, SpansAreEnded, Sm!SpansAreEnded
<1> QED
  BY <1>1, <1>2, <1>3, PTL DEF PartSpec
---------------------------------------------------------------------------
(* Setting a project up.  Between reading a file and writing it, nobody    *)
(* but a sibling tool at the root's .mcp.json touches it.                  *)
ConfigInv ==
  /\ PI!Parses(config) => \A k \in Options : config[k] \in {chosen[k], None}
  /\ PI!Parses(config) => config = [k \in Options |-> config[k]]
  /\ chosen = [k \in Options |-> chosen[k]]
  /\ setup = "write" => out = [k \in Options |-> PI!Merged(k)]

McpInv ==
  /\ PI!Parses(mcp) => added \cup {"sightjack"} \subseteq mcp
  /\ setup = "write mcp" => servers =
       {"sightjack"} \cup (IF PI!Parses(legacy) /\ ~force THEN legacy \ {"linear"} ELSE {})

RootInv ==
  /\ PI!Parses(root) => shared \subseteq root
  /\ root \in {None, Invalid} \cup SUBSET PI!Servers
  /\ servers \subseteq PI!Servers
  /\ legacy \in {None, Invalid} \cup SUBSET PI!Servers
  /\ root = None => shared = {}
  /\ setup = "write root" =>
       root # Invalid /\ (root # None => root \subseteq servers \cup late)

SetupInv == ConfigInv /\ McpInv /\ RootInv

LEMMA SetupInit == PartInit => SetupInv
<1> SUFFICES ASSUME PartInit PROVE SetupInv
  OBVIOUS
<1>1. PI!Init
  BY DEF PartInit
<1>2. legacy \in {None, Invalid} \cup SUBSET PI!Servers
  BY <1>1 DEF PI!Init, PI!Servers
<1> QED
  BY <1>1, <1>2 DEF PI!Init, SetupInv, ConfigInv, McpInv, RootInv, PI!Parses, PI!Configs

LEMMA SetupPreserved ==
  ASSUME SetupInv, PI!Next \/ UNCHANGED setupVars
  PROVE  SetupInv'
<1>0. None # Invalid /\ \A s \in SUBSET PI!Servers : s # None /\ s # Invalid
  BY ServicesAssumption DEF PI!ProjectInitAssumption
<1> USE DEF SetupInv, PI!Parses, PI!files, PI!command, PI!history, PI!Goto, PI!Return
<1>1. ASSUME NEW f \in BOOLEAN, NEW fl, PI!StartInit(f, fl) PROVE SetupInv'
  BY <1>0, <1>1 DEF PI!StartInit, ConfigInv, McpInv, RootInv
<1>2. ASSUME PI!EnsureStateDir PROVE SetupInv'
  BY <1>0, <1>2 DEF PI!EnsureStateDir, ConfigInv, McpInv, RootInv
<1>3. ASSUME PI!MergeConfig PROVE SetupInv'
  BY <1>0, <1>3 DEF PI!MergeConfig, ConfigInv, McpInv, RootInv, PI!Merged
<1>4. ASSUME PI!WriteConfig PROVE SetupInv'
  <2>1. config' = [k \in Options |-> PI!Merged(k)] /\ setup' = "skills"
    BY <1>4 DEF PI!WriteConfig, ConfigInv
  <2>2. \A k \in Options : config'[k] \in {chosen'[k], None}
    BY <1>4, <2>1 DEF PI!WriteConfig, ConfigInv, PI!Merged
  <2>3. config' = [k \in Options |-> config'[k]]
    BY <2>1
  <2>4. ConfigInv'
    <3>1. chosen' = [k \in Options |-> chosen'[k]]
      BY <1>4 DEF PI!WriteConfig
    <3> QED
      BY <2>1, <2>2, <2>3, <3>1 DEF ConfigInv
  <2>5. McpInv' /\ RootInv'
    BY <1>0, <1>4 DEF PI!WriteConfig, McpInv, RootInv
  <2> QED
    BY <2>4, <2>5
<1>5. ASSUME PI!InstallSkills PROVE SetupInv'
  BY <1>0, <1>5 DEF PI!InstallSkills, ConfigInv, McpInv, RootInv
<1>6. ASSUME NEW f \in BOOLEAN, PI!StartGenerate(f) PROVE SetupInv'
  BY <1>0, <1>6 DEF PI!StartGenerate, ConfigInv, McpInv, RootInv
<1>7. ASSUME PI!McpExists PROVE SetupInv'
  BY <1>0, <1>7 DEF PI!McpExists, ConfigInv, McpInv, RootInv
<1>8. ASSUME PI!GenerateMCPConfig PROVE SetupInv'
  BY <1>0, <1>8 DEF PI!GenerateMCPConfig, ConfigInv, McpInv, RootInv, PI!Servers
<1>9. ASSUME PI!WriteMcp PROVE SetupInv'
  BY <1>0, <1>9 DEF PI!WriteMcp, ConfigInv, McpInv, RootInv
<1>10. ASSUME PI!UpsertRootMCPConfig PROVE SetupInv'
  BY <1>0, <1>10 DEF PI!UpsertRootMCPConfig, ConfigInv, McpInv, RootInv, PI!Servers
<1>11. ASSUME PI!WriteRoot PROVE SetupInv'
  BY <1>0, <1>11 DEF PI!WriteRoot, ConfigInv, McpInv, RootInv
<1>12. ASSUME PI!GenerateClaudeSettings PROVE SetupInv'
  BY <1>0, <1>12 DEF PI!GenerateClaudeSettings, ConfigInv, McpInv, RootInv
<1>13. ASSUME PI!Interrupted PROVE SetupInv'
  <2>1. setup' = "idle" /\ servers' = {} /\ UNCHANGED <<legacy, added, shared, late>>
    BY <1>13 DEF PI!Interrupted
  <2>2. mcp' \in {mcp, Invalid} /\ root' \in {root, Invalid}
    BY <1>13 DEF PI!Interrupted
  <2>3. McpInv' /\ RootInv'
    BY <1>0, <2>1, <2>2 DEF McpInv, RootInv
  <2>0. chosen' = [k \in Options |-> chosen'[k]]
    BY <1>13 DEF PI!Interrupted
  <2>4. CASE setup = "write"
    <3>1. \/ config' = Invalid
          \/ \E keys \in SUBSET Options :
               config' = [k \in Options |-> IF k \in keys THEN out[k] ELSE None]
      BY <1>13, <2>4 DEF PI!Interrupted
    <3>2. PI!Parses(config') =>
            chosen' = [k \in Options |-> IF config'[k] # None THEN config'[k] ELSE chosen[k]]
      BY <1>13, <2>4 DEF PI!Interrupted
    <3>3. PI!Parses(config') => config' = [k \in Options |-> config'[k]]
      BY <3>1
    <3>4. PI!Parses(config') => \A k \in Options : config'[k] \in {chosen'[k], None}
      BY <3>2
    <3>5. ConfigInv'
      BY <2>0, <2>1, <3>3, <3>4 DEF ConfigInv
    <3> QED
      BY <2>3, <3>5
  <2>5. CASE setup # "write"
    <3>1. config' = config /\ chosen' = [k \in Options |-> chosen[k]]
      BY <1>13, <2>5 DEF PI!Interrupted
    <3>2. ConfigInv'
      BY <2>1, <3>1 DEF ConfigInv
    <3> QED
      BY <2>3, <3>2
  <2> QED
    BY <2>4, <2>5
<1>14. ASSUME NEW k \in Options, NEW v \in Values, PI!EditConfig(k, v) PROVE SetupInv'
  <2>1. /\ PI!Parses(config) /\ setup' = "idle"
        /\ config' = [config EXCEPT ![k] = v] /\ chosen' = [chosen EXCEPT ![k] = v]
    BY <1>14 DEF PI!EditConfig
  <2>2. config' = [j \in Options |-> IF j = k THEN v ELSE config[j]]
    BY <2>1 DEF ConfigInv
  <2>3. \A j \in Options \ {k} : chosen'[j] = chosen[j]
    BY <2>1
  <2>4. chosen'[k] = v
    BY <2>1 DEF ConfigInv
  <2>5. ConfigInv'
    <3>1. chosen' = [j \in Options |-> chosen'[j]]
      BY <2>1 DEF ConfigInv
    <3> QED
      BY <2>1, <2>2, <2>3, <2>4, <3>1 DEF ConfigInv
  <2>6. McpInv' /\ RootInv'
    BY <1>14 DEF PI!EditConfig, McpInv, RootInv
  <2> QED
    BY <2>5, <2>6
<1>15. ASSUME NEW s \in Customs, PI!EditMcp(s) PROVE SetupInv'
  BY <1>0, <1>15 DEF PI!EditMcp, ConfigInv, McpInv, RootInv
<1>16. ASSUME NEW s \in Customs, PI!SiblingUpserts(s) PROVE SetupInv'
  <2>1. ConfigInv'
    BY <1>16 DEF PI!SiblingUpserts, ConfigInv, PI!Merged, PI!Servers
  <2>2. McpInv'
    BY <1>16 DEF PI!SiblingUpserts, McpInv
  <2>3. RootInv'
    BY <1>0, <1>16 DEF PI!SiblingUpserts, RootInv, PI!Servers
  <2> QED
    BY <2>1, <2>2, <2>3
<1>17. ASSUME PI!RemoveInvalid PROVE SetupInv'
  BY <1>0, <1>17 DEF PI!RemoveInvalid, ConfigInv, McpInv, RootInv
<1>18. CASE UNCHANGED setupVars
  BY <1>18 DEF setupVars, ConfigInv, McpInv, RootInv, PI!Merged
<1> QED
  BY <1>1, <1>2, <1>3, <1>4, <1>5, <1>6, <1>7, <1>8, <1>9, <1>10, <1>11, <1>12, <1>13, <1>14,
     <1>15, <1>16, <1>17, <1>18 DEF PI!Next

(* What the user and sibling tools put into the files is not lost by       *)
(* setting the project up again.                                           *)
THEOREM UserValuesAreKeptHolds == PartSpec => []UserValuesAreKept
<1>1. PartInit => SetupInv
  BY SetupInit
<1>2. SetupInv /\ [PartNext]_partVars => SetupInv'
  BY OtherParts, SetupPreserved
<1>3. SetupInv => UserValuesAreKept
  BY DEF SetupInv, ConfigInv, McpInv, RootInv, UserValuesAreKept, PI!UserValuesAreKept
<1> QED
  BY <1>1, <1>2, <1>3, PTL DEF PartSpec
---------------------------------------------------------------------------
(* The run lock (RunLock): while a run's lease has a second left, its row  *)
(* is in the table as it was inserted.                                     *)
(* The texts of two times a second apart compare as the times do: neither  *)
(* TryAcquire's cleanup nor IsHeld takes a row for stale that has a second *)
(* left.                                                                   *)
LEMMA SecondsCompare ==
  ASSUME NEW a \in Nat, NEW b \in Nat, b + 2 <= a
  PROVE  ~Before(a, b)
<1>1. b \div 2 + 1 <= a \div 2
  OBVIOUS
<1> QED
  BY <1>1 DEF Before

(* A run whose lease has a second left has its own row in the table.       *)
RowIsThere ==
  \A p \in Procs : pc[p] = "running" /\ clock + 2 <= Lease(p) =>
    locks[call[p].key] = [holder |-> p, expires |-> Lease(p)]

(* No call has read a time that is still to come.                          *)
TimesArePast == \A p \in Procs : call[p].now <= clock

LockInv == TypeOK /\ TimesArePast /\ RowIsThere

LEMMA LockInit == Init => LockInv
<1> USE RunLockAssumption
<1> SUFFICES ASSUME Init PROVE LockInv
  OBVIOUS
<1>1. TypeOK
  BY DEF Init, TypeOK, Times, Calls
<1>2. TimesArePast
  <2> SUFFICES ASSUME NEW p \in Procs PROVE call[p].now <= clock
    BY DEF TimesArePast
  <2>1. call[p] \in [key : Keys, now : {0}]
    BY DEF Init
  <2> QED
    BY <2>1 DEF Init
<1>3. RowIsThere
  BY DEF Init, RowIsThere
<1> QED
  BY <1>1, <1>2, <1>3 DEF LockInv

(* Whoever writes its row does so where none is.                           *)
LEMMA LockKeeps ==
  ASSUME LockInv, NEW p \in Procs, locks[call[p].key] = None, pc[p] # "running", Lock(p),
         pc' \in [Procs -> {"idle", "cleanup", "insert", "query", "running"}],
         \A q \in Procs \ {p} : pc'[q] = pc[q],
         UNCHANGED <<clock, call, daemon>>
  PROVE  LockInv'
<1> USE RunLockAssumption DEF LockInv
<1> DEFINE k == call[p].key
           row == [holder |-> p, expires |-> call[p].now + TTL]
<1>1. /\ call[p] \in Calls /\ k \in Keys
      /\ call[p].now \in Times /\ call[p].now + TTL \in 0 .. MaxClock + TTL
  BY DEF TypeOK, Calls, Times
<1>2. row \in Rows
  BY <1>1 DEF Rows
<1>3. locks' = [locks EXCEPT ![k] = row]
  BY DEF Lock
<1>4. locks' \in [Keys -> Rows \cup {None}]
  BY <1>1, <1>2, <1>3 DEF TypeOK
<1>5. TypeOK'
  BY <1>4 DEF TypeOK, Times, Calls
<1>6. TimesArePast'
  BY DEF TimesArePast
<1>7. RowIsThere'
  <2> SUFFICES ASSUME NEW q \in Procs, pc'[q] = "running", clock' + 2 <= Lease(q)'
               PROVE  (locks[call[q].key] = [holder |-> q, expires |-> Lease(q)])'
    BY DEF RowIsThere
  <2>1. CASE q = p
    BY <2>1, <1>1, <1>3 DEF Lease, TypeOK
  <2>2. CASE q # p
    <3>1. locks[call[q].key] = [holder |-> q, expires |-> Lease(q)]
      BY <2>2 DEF RowIsThere, Lease
    <3>2. call[q].key \in Keys /\ Lease(q) \in 0 .. MaxClock + TTL
      BY DEF TypeOK, Calls, Times, Lease
    <3>3. locks[call[q].key] # None
      BY <3>1, <3>2, RunLockAssumption DEF Rows
    <3> QED
      BY <3>1, <3>2, <3>3, <1>3 DEF Lease, TypeOK
  <2> QED
    BY <2>1, <2>2
<1> QED
  BY <1>5, <1>6, <1>7

LEMMA LockPreserved == LockInv /\ [Next]_vars => LockInv'
<1> USE RunLockAssumption
<1> SUFFICES ASSUME LockInv, [Next]_vars PROVE LockInv'
  OBVIOUS
<1>0. TypeOK /\ TimesArePast /\ RowIsThere
  BY DEF LockInv
<1> DEFINE Labels == {"idle", "cleanup", "insert", "query", "running"}
<1>a. ASSUME NEW p \in Procs, NEW l \in Labels, Goto(p, l)
      PROVE  /\ pc' \in [Procs -> Labels]
             /\ pc'[p] = l
             /\ \A q \in Procs \ {p} : pc'[q] = pc[q]
  BY <1>a, <1>0 DEF Goto, TypeOK

(* A process moves on, not to the end, and leaves the table alone.         *)
<1>b. ASSUME NEW p \in Procs, NEW l \in Labels \ {"running"}, Goto(p, l),
             UNCHANGED <<clock, locks, call>>, daemon' \in Procs \cup {None}
      PROVE  LockInv'
  <2>1. TypeOK'
    BY <1>a, <1>b, <1>0 DEF TypeOK
  <2>2. TimesArePast'
    BY <1>b, <1>0 DEF TimesArePast
  <2>3. RowIsThere'
    BY <1>a, <1>b, <1>0 DEF RowIsThere, Lease
  <2> QED
    BY <2>1, <2>2, <2>3 DEF LockInv
<1>1. ASSUME NEW p \in Procs, NEW k \in Keys, AllowRun(p, k)
      PROVE  LockInv'
  <2>0. /\ call' = [call EXCEPT ![p] = [key |-> k, now |-> clock]]
        /\ Goto(p, "cleanup")
        /\ UNCHANGED <<clock, locks, daemon>>
    BY <1>1 DEF AllowRun
  <2>1. TypeOK'
    BY <2>0, <1>a, <1>0 DEF TypeOK, Calls
  <2>2. TimesArePast'
    BY <2>0, <1>0 DEF TimesArePast, TypeOK, Times
  <2>3. RowIsThere'
    <3> SUFFICES ASSUME NEW q \in Procs, pc'[q] = "running", clock' + 2 <= Lease(q)'
                 PROVE  (locks[call[q].key] = [holder |-> q, expires |-> Lease(q)])'
      BY DEF RowIsThere
    <3>1. q # p
      BY <2>0, <1>a
    <3> QED
      BY <3>1, <2>0, <1>a, <1>0 DEF RowIsThere, Lease, TypeOK
  <2> QED
    BY <2>1, <2>2, <2>3 DEF LockInv

(* Only rows that are over are removed here.                               *)
<1>2. ASSUME NEW p \in Procs, Cleanup(p)
      PROVE  LockInv'
  <2> DEFINE k == call[p].key
  <2>0. /\ locks' = IF Stale(k, call[p].now) THEN [locks EXCEPT ![k] = None] ELSE locks
        /\ Goto(p, "insert")
        /\ UNCHANGED <<clock, call, daemon>>
    BY <1>2 DEF Cleanup
  <2>1. TypeOK'
    BY <2>0, <1>a, <1>0 DEF TypeOK, Calls
  <2>2. TimesArePast'
    BY <2>0, <1>0 DEF TimesArePast
  <2>3. RowIsThere'
    <3> SUFFICES ASSUME NEW q \in Procs, pc'[q] = "running", clock' + 2 <= Lease(q)'
                 PROVE  (locks[call[q].key] = [holder |-> q, expires |-> Lease(q)])'
      BY DEF RowIsThere
    <3>1. /\ q # p /\ pc[q] = "running" /\ clock + 2 <= Lease(q)
          /\ locks[call[q].key] = [holder |-> q, expires |-> Lease(q)]
      BY <2>0, <1>a, <1>0 DEF RowIsThere, Lease
    <3>2. call[p].now \in Nat /\ clock \in Nat /\ Lease(q) \in Nat /\ call[p].now <= clock
      BY <1>0 DEF TypeOK, Calls, Times, TimesArePast, Lease
    <3>3. ~Before(Lease(q), call[p].now)
      BY <3>1, <3>2, SecondsCompare
    <3>4. call[q].key = k => ~Stale(k, call[p].now)
      BY <3>1, <3>3 DEF Stale
    <3> QED
      BY <3>1, <3>4, <2>0, <1>0 DEF Lease, TypeOK, Calls
  <2> QED
    BY <2>1, <2>2, <2>3 DEF LockInv
<1>3. ASSUME NEW p \in Procs, Insert(p)
      PROVE  LockInv'
  <2>1. CASE locks[call[p].key] = None
    BY <2>1, <1>3, <1>a, LockKeeps DEF Insert
  <2>2. CASE locks[call[p].key] # None
    BY <2>2, <1>3, <1>b, <1>0 DEF Insert, TypeOK
  <2> QED
    BY <2>1, <2>2
<1>4. ASSUME NEW p \in Procs, Refused(p)
      PROVE  LockInv'
  BY <1>4, <1>b, <1>0 DEF Refused, TypeOK
<1>5. ASSUME NEW p \in Procs, TryAcquireFails(p)
      PROVE  LockInv'
  <2>1. CASE UNCHANGED locks
    BY <2>1, <1>5, <1>b, <1>0 DEF TryAcquireFails, TypeOK
  <2>2. CASE pc[p] = "insert" /\ locks[call[p].key] = None /\ Lock(p)
    BY <2>2, <1>5, <1>a, LockKeeps DEF TryAcquireFails
  <2> QED
    BY <2>1, <2>2, <1>5 DEF TryAcquireFails

(* A guard removes only rows of its own process.                           *)
<1>6. ASSUME NEW p \in Procs, ReleaseRun(p)
      PROVE  LockInv'
  <2> DEFINE k == call[p].key
  <2>0. /\ locks' = IF locks[k] # None /\ locks[k].holder = GuardID[p]
                    THEN [locks EXCEPT ![k] = None] ELSE locks
        /\ Goto(p, "idle")
        /\ UNCHANGED <<clock, call, daemon>>
    BY <1>6 DEF ReleaseRun
  <2>1. TypeOK'
    BY <2>0, <1>a, <1>0 DEF TypeOK, Calls
  <2>2. TimesArePast'
    BY <2>0, <1>0 DEF TimesArePast
  <2>3. RowIsThere'
    <3> SUFFICES ASSUME NEW q \in Procs, pc'[q] = "running", clock' + 2 <= Lease(q)'
                 PROVE  (locks[call[q].key] = [holder |-> q, expires |-> Lease(q)])'
      BY DEF RowIsThere
    <3>1. q # p /\ locks[call[q].key] = [holder |-> q, expires |-> Lease(q)]
      BY <2>0, <1>a, <1>0 DEF RowIsThere, Lease
    <3>2. GuardID[p] # q
      BY <3>1
    <3> QED
      BY <3>1, <3>2, <2>0, <1>0 DEF Lease, TypeOK, Calls
  <2> QED
    BY <2>1, <2>2, <2>3 DEF LockInv
<1>7. ASSUME NEW p \in Procs, Crash(p)
      PROVE  LockInv'
  BY <1>7, <1>b, <1>0 DEF Crash, TypeOK

(* The daemon's lock is another one.                                       *)
<1>8. ASSUME NEW p \in Procs, TryLockDaemon(p) \/ UnlockDaemon(p)
      PROVE  LockInv'
  BY <1>8, <1>0 DEF TryLockDaemon, UnlockDaemon, LockInv, TypeOK, TimesArePast, RowIsThere, Lease
<1>9. CASE Tick
  <2>1. clock \in Nat /\ clock' = clock + 1 /\ clock' \in Times
        /\ UNCHANGED <<locks, pc, call, daemon>>
    BY <1>9, <1>0 DEF Tick, TypeOK, Times
  <2>2. TypeOK'
    BY <2>1, <1>0 DEF TypeOK
  <2>3. TimesArePast'
    BY <2>1, <1>0 DEF TimesArePast, TypeOK, Calls, Times
  <2>4. RowIsThere'
    <3> SUFFICES ASSUME NEW q \in Procs, pc[q] = "running", clock + 1 + 2 <= Lease(q)
                 PROVE  locks[call[q].key] = [holder |-> q, expires |-> Lease(q)]
      BY <2>1 DEF RowIsThere, Lease
    <3>1. Lease(q) \in Nat
      BY <1>0 DEF TypeOK, Calls, Times, Lease
    <3> QED
      BY <3>1, <2>1, <1>0 DEF RowIsThere
  <2> QED
    BY <2>2, <2>3, <2>4 DEF LockInv
<1>10. CASE UNCHANGED vars
  BY <1>10, <1>0 DEF vars, LockInv, TypeOK, TimesArePast, RowIsThere, Lease
<1> QED
  BY <1>1, <1>2, <1>3, <1>4, <1>5, <1>6, <1>7, <1>8, <1>9, <1>10 DEF Next

LEMMA LockInvariant == Spec => []LockInv
<1> QED
  BY LockInit, LockPreserved, PTL DEF Spec

(* Every row and every call of the run lock has its type.                  *)
THEOREM LockTypeCorrect == Spec => []TypeOK
<1>1. LockInv => TypeOK
  BY DEF LockInv
<1> QED
  BY <1>1, LockInvariant, PTL

(* For any number of processes, keys and clocks, and any lease: a run with *)
(* a second of its lease left is the one that everybody sees as the holder.*)
THEOREM LeaseIsRespectedHolds == Spec => []LeaseIsRespected
<1>1. LockInv => LeaseIsRespected
  <2> SUFFICES ASSUME LockInv, NEW p \in Procs, pc[p] = "running", clock + 2 <= Lease(p)
               PROVE  IsHeld(call[p].key, clock) = p
    BY DEF LeaseIsRespected
  <2>1. locks[call[p].key] = [holder |-> p, expires |-> Lease(p)]
    BY DEF LockInv, RowIsThere
  <2>2. call[p].key \in Keys /\ Lease(p) \in 0 .. MaxClock + TTL /\ clock \in Nat
    BY RunLockAssumption DEF LockInv, TypeOK, Calls, Times, Lease
  <2>3. locks[call[p].key] # None
    BY <2>1, <2>2, RunLockAssumption DEF Rows
  <2>4. ~Before(Lease(p), clock)
    BY <2>2, SecondsCompare, RunLockAssumption
  <2> QED
    BY <2>1, <2>3, <2>4 DEF IsHeld, Stale
<1> QED
  BY <1>1, LockInvariant, PTL
----------------------------------------------------------------------------
(* Stalls.  Once an error is mailed, it cools down until what was mailed   *)
(* is history; before, none was mailed that was not reported as failed;    *)
(* and what cools down was mailed.                                         *)
StallInv ==
  /\ \A w \in Waves : fingerprints[w] \in Seq(Errors)
  /\ DOMAIN fingerprints = Waves
  /\ cooling \in [Waves -> [Errors -> Nat]]
  /\ staged \in [Waves -> [Errors -> Nat]]
  /\ failed \in [Waves -> [Errors -> Nat]]
  /\ \A w \in Waves, e \in Errors :
       /\ staged[w][e] <= failed[w][e] + 1
       /\ cooling[w][e] = 0 => staged[w][e] <= failed[w][e]
       /\ cooling[w][e] > 0 => staged[w][e] > 0

LEMMA StallInit == PartInit => StallInv
BY DEF PartInit, St!Init, St!NoCounts, StallInv

LEMMA SizeInStalls ==
  ASSUME NEW S
  PROVE  St!Cardinality(S) = Cardinality(S)
BY DEF St!Cardinality, Cardinality

(* The places of a sequence at which an error is.                          *)
Places(fps, e) == {i \in DOMAIN fps : fps[i] = e}

LEMMA CountIs ==
  ASSUME NEW fps \in Seq(Errors), NEW e
  PROVE  /\ IsFiniteSet(Places(fps, e))
         /\ St!Count(fps, e) = Cardinality(Places(fps, e))
         /\ St!Count(fps, e) \in Nat
<1>1. IsFiniteSet(1 .. Len(fps))
  BY FS_Interval
<1>2. Places(fps, e) \in SUBSET (1 .. Len(fps))
  BY DEF Places
<1>3. IsFiniteSet(Places(fps, e))
  BY <1>1, <1>2, FS_Subset
<1>4. St!Count(fps, e) = Cardinality(Places(fps, e))
  BY SizeInStalls DEF St!Count, Places
<1> QED
  BY <1>3, <1>4, FS_CardinalityType

(* Nothing has failed: nothing is repeated.                                *)
LEMMA NoneRepeated == St!Repeated(<<>>) = {}
<1> SUFFICES ASSUME NEW e \in Errors, St!Count(<<>>, e) >= Threshold PROVE FALSE
  BY DEF St!Repeated
<1>1. <<>> \in Seq(Errors)
  OBVIOUS
<1>2. Places(<<>>, e) = {}
  BY DEF Places
<1>3. St!Count(<<>>, e) = 0
  BY <1>1, <1>2, CountIs, FS_EmptySet
<1> QED
  BY <1>3, ServicesAssumption DEF St!StallsAssumption

(* What is repeated at first is repeated later.                            *)
LEMMA StaysRepeated ==
  ASSUME NEW fps \in Seq(Errors), NEW n \in 1 .. Len(fps), NEW e \in Errors,
         St!Count(SubSeq(fps, 1, n), e) >= Threshold
  PROVE  e \in St!Repeated(fps)
<1> DEFINE early == SubSeq(fps, 1, n)
<1>1. early \in Seq(Errors) /\ Len(early) = n /\ \A i \in 1 .. n : early[i] = fps[i]
  OBVIOUS
<1>2. Places(early, e) \in SUBSET Places(fps, e)
  BY <1>1 DEF Places
<1>3. Cardinality(Places(early, e)) <= Cardinality(Places(fps, e))
  BY <1>2, CountIs, FS_Subset
<1>4. /\ St!Count(early, e) = Cardinality(Places(early, e)) /\ St!Count(early, e) \in Nat
      /\ St!Count(fps, e) = Cardinality(Places(fps, e)) /\ St!Count(fps, e) \in Nat
  BY <1>1, CountIs
<1>5. Threshold \in Nat
  BY ServicesAssumption DEF St!StallsAssumption
<1>6. St!Count(fps, e) >= Threshold
  BY <1>3, <1>4, <1>5
<1> QED
  BY <1>6 DEF St!Repeated

(* When something is repeated, something was the first to be.              *)
LEMMA FirstIsThere ==
  ASSUME NEW fps \in Seq(Errors), St!Repeated(fps) # {}
  PROVE  St!FirstRepeated(fps) \in St!Repeated(fps)
<1> DEFINE T == {n \in 1 .. Len(fps) : St!Repeated(SubSeq(fps, 1, n)) # {}}
<1>1. Len(fps) \in Nat /\ DOMAIN fps = 1 .. Len(fps)
  OBVIOUS
<1>2. fps # <<>>
  BY NoneRepeated
<1>3. Len(fps) \in T
  <2>1. SubSeq(fps, 1, Len(fps)) = fps /\ Len(fps) \in 1 .. Len(fps)
    BY <1>2
  <2> QED
    BY <2>1
<1>4. T \in SUBSET Nat /\ T # {}
  BY <1>3
<1>5. PICK n \in T : \A m \in T : n <= m
  <2> HIDE DEF T
  <2> QED
    BY <1>4, LeastNat
<1>6. n \in 1 .. Len(fps) /\ St!Repeated(SubSeq(fps, 1, n)) # {}
  OBVIOUS
<1>7. St!Repeated(SubSeq(fps, 1, n - 1)) = {}
  <2>1. CASE n = 1
    <3>1. SubSeq(fps, 1, n - 1) = <<>>
      BY <2>1
    <3> QED
      BY <3>1, NoneRepeated
  <2>2. CASE n # 1
    <3>1. n - 1 \in 1 .. Len(fps) /\ ~(n <= n - 1)
      BY <1>6, <2>2
    <3> QED
      BY <1>5, <3>1
  <2> QED
    BY <2>1, <2>2
<1>8. PICK e \in St!Repeated(SubSeq(fps, 1, n)) : TRUE
  BY <1>6
<1>9. e \in Errors /\ St!Count(SubSeq(fps, 1, n), e) >= Threshold
  BY <1>8 DEF St!Repeated
<1> DEFINE Is(x) == \E m \in DOMAIN fps : /\ St!Count(SubSeq(fps, 1, m), x) >= Threshold
                                         /\ St!Repeated(SubSeq(fps, 1, m - 1)) = {}
<1>10. Is(e)
  BY <1>1, <1>6, <1>7, <1>9
<1>11. St!FirstRepeated(fps) = CHOOSE x \in Errors : Is(x)
  BY DEF St!FirstRepeated
<1>12. St!FirstRepeated(fps) \in Errors /\ Is(St!FirstRepeated(fps))
  <2> HIDE DEF Is
  <2> QED
    BY <1>9, <1>10, <1>11
<1> QED
  BY <1>1, <1>12, StaysRepeated

LEMMA AttemptsAre == St!Attempts \subseteq Seq(Errors)
<1> SUFFICES ASSUME NEW n \in 0 .. 2, NEW errors \in [1 .. n -> Errors]
             PROVE  errors \in Seq(Errors)
  BY DEF St!Attempts
<1> QED
  BY IsASeq

(* What a failed attempt leaves: when it has repeated an error, the first  *)
(* that was repeated is mailed unless it cools down.                       *)
LEMMA FailureIs ==
  ASSUME StallInv, NEW w \in Waves, NEW errors \in St!Attempts, St!RecordFailure(w, errors)
  PROVE  /\ fingerprints'[w] = fingerprints[w] \o errors
         /\ fingerprints'[w] \in Seq(Errors)
         /\ DOMAIN fingerprints' = Waves
         /\ \A v \in Waves \ {w} : fingerprints'[v] = fingerprints[v]
         /\ \/ /\ UNCHANGED <<cooling, staged, failed>>
               /\ \/ St!Repeated(fingerprints'[w]) = {}
                  \/ \E e \in Errors : cooling[w][e] # 0
            \/ \E e \in St!Repeated(fingerprints'[w]) :
                 cooling[w][e] = 0 /\ St!Escalate(w, e)
<1> DEFINE fps == fingerprints[w] \o errors
           e == St!FirstRepeated(fps)
<1>1. errors \in Seq(Errors) /\ fingerprints[w] \in Seq(Errors)
  BY AttemptsAre DEF StallInv
<1>2. fps \in Seq(Errors)
  BY <1>1
<1>3. fingerprints' = [fingerprints EXCEPT ![w] = fps]
  BY DEF St!RecordFailure
<1>4. fingerprints'[w] = fps /\ DOMAIN fingerprints' = Waves
      /\ \A v \in Waves \ {w} : fingerprints'[v] = fingerprints[v]
  BY <1>3 DEF StallInv
<1>5. IF St!Repeated(fps) # {} /\ cooling[w][e] = 0
      THEN St!Escalate(w, e)
      ELSE UNCHANGED <<cooling, staged, failed>>
  BY DEF St!RecordFailure
<1>6. St!Repeated(fps) # {} => e \in St!Repeated(fps)
  BY <1>2, FirstIsThere
<1>7. St!Repeated(fps) \subseteq Errors
  BY DEF St!Repeated
<1> HIDE DEF fps, e
<1> QED
  BY <1>2, <1>4, <1>5, <1>6, <1>7 DEF fps

(* A mail of a wave and an error, sent or not.                             *)
LEMMA EscalationIs ==
  ASSUME StallInv, NEW w \in Waves, NEW e \in Errors, cooling[w][e] = 0, St!Escalate(w, e)
  PROVE  /\ cooling' \in [Waves -> [Errors -> Nat]]
         /\ staged' \in [Waves -> [Errors -> Nat]]
         /\ failed' \in [Waves -> [Errors -> Nat]]
         /\ \A v \in Waves, d \in Errors : v # w \/ d # e =>
              /\ cooling'[v][d] = cooling[v][d] /\ staged'[v][d] = staged[v][d]
              /\ failed'[v][d] = failed[v][d]
         /\ \/ /\ cooling'[w][e] # 0 /\ staged'[w][e] = staged[w][e] + 1
               /\ failed'[w][e] = failed[w][e]
            \/ /\ cooling'[w][e] = 0 /\ failed'[w][e] = failed[w][e] + 1
               /\ staged'[w][e] \in {staged[w][e], staged[w][e] + 1}
<1> USE DEF StallInv
<1>1. CASE St!Report(w, e)
  <2>1. Window \in Nat /\ Window # 0
    BY ServicesAssumption DEF St!StallsAssumption
  <2>2. /\ staged' = [staged EXCEPT ![w][e] = staged[w][e] + 1]
        /\ cooling' = [cooling EXCEPT ![w][e] = Window] /\ failed' = failed
    BY <1>1 DEF St!Report
  <2>3. /\ staged' \in [Waves -> [Errors -> Nat]] /\ staged'[w][e] = staged[w][e] + 1
        /\ \A v \in Waves, d \in Errors : v # w \/ d # e => staged'[v][d] = staged[v][d]
    BY <2>2
  <2>4. /\ cooling' \in [Waves -> [Errors -> Nat]] /\ cooling'[w][e] # 0
        /\ \A v \in Waves, d \in Errors : v # w \/ d # e => cooling'[v][d] = cooling[v][d]
    BY <2>1, <2>2
  <2> QED
    BY <2>2, <2>3, <2>4
<1>2. CASE \E landed \in {0, 1} : /\ staged' = [staged EXCEPT ![w][e] = @ + landed]
                                 /\ failed' = [failed EXCEPT ![w][e] = @ + 1]
                                 /\ UNCHANGED cooling
  <2>1. PICK landed \in {0, 1} : /\ staged' = [staged EXCEPT ![w][e] = staged[w][e] + landed]
                                /\ failed' = [failed EXCEPT ![w][e] = failed[w][e] + 1]
                                /\ cooling' = cooling
    BY <1>2
  <2>2. staged' \in [Waves -> [Errors -> Nat]] /\ failed' \in [Waves -> [Errors -> Nat]]
    BY <2>1
  <2>3. staged'[w][e] = staged[w][e] + landed /\ failed'[w][e] = failed[w][e] + 1
    BY <2>1
  <2>4. \A v \in Waves, d \in Errors : v # w \/ d # e =>
          staged'[v][d] = staged[v][d] /\ failed'[v][d] = failed[v][d]
    BY <2>1
  <2>5. staged'[w][e] \in {staged[w][e], staged[w][e] + 1}
    <3>1. staged[w][e] \in Nat
      OBVIOUS
    <3>2. landed = 0 \/ landed = 1
      OBVIOUS
    <3> QED
      BY <2>3, <3>1, <3>2
  <2>6. cooling' \in [Waves -> [Errors -> Nat]] /\ cooling'[w][e] = 0
    BY <2>1
  <2> QED
    BY <2>1, <2>2, <2>3, <2>4, <2>5, <2>6, Zenon
<1> QED
  BY <1>1, <1>2 DEF St!Escalate

LEMMA StallPreserved ==
  ASSUME StallInv, St!Next \/ UNCHANGED stallVars
  PROVE  StallInv'
<1>1. ASSUME NEW w \in Waves, NEW errors \in St!Attempts, St!RecordFailure(w, errors)
      PROVE  StallInv'
  <2>1. \A v \in Waves : fingerprints'[v] \in Seq(Errors)
    BY <1>1, FailureIs DEF StallInv
  <2>2. CASE UNCHANGED <<cooling, staged, failed>>
    BY <1>1, <2>1, <2>2, FailureIs DEF StallInv
  <2>3. CASE \E e \in St!Repeated(fingerprints'[w]) : cooling[w][e] = 0 /\ St!Escalate(w, e)
    <3>1. PICK e \in St!Repeated(fingerprints'[w]) : cooling[w][e] = 0 /\ St!Escalate(w, e)
      BY <2>3
    <3>2. e \in Errors
      BY DEF St!Repeated
    <3>3. /\ cooling' \in [Waves -> [Errors -> Nat]]
          /\ staged' \in [Waves -> [Errors -> Nat]]
          /\ failed' \in [Waves -> [Errors -> Nat]]
      BY <3>1, <3>2, EscalationIs
    <3>4. ASSUME NEW v \in Waves, NEW d \in Errors
          PROVE  /\ staged'[v][d] <= failed'[v][d] + 1
                 /\ cooling'[v][d] = 0 => staged'[v][d] <= failed'[v][d]
                 /\ cooling'[v][d] > 0 => staged'[v][d] > 0
      <4>1. /\ staged[v][d] \in Nat /\ failed[v][d] \in Nat
            /\ staged[v][d] <= failed[v][d] + 1
            /\ cooling[v][d] = 0 => staged[v][d] <= failed[v][d]
            /\ cooling[v][d] > 0 => staged[v][d] > 0
        BY DEF StallInv
      <4>2. CASE v # w \/ d # e
        <5>1. /\ cooling'[v][d] = cooling[v][d] /\ staged'[v][d] = staged[v][d]
              /\ failed'[v][d] = failed[v][d]
          BY <3>1, <3>2, <4>2, EscalationIs
        <5> QED
          BY <4>1, <5>1
      <4>3. CASE v = w /\ d = e
        <5>1. \/ /\ cooling'[v][d] # 0 /\ staged'[v][d] = staged[v][d] + 1
                 /\ failed'[v][d] = failed[v][d]
              \/ /\ cooling'[v][d] = 0 /\ failed'[v][d] = failed[v][d] + 1
                 /\ staged'[v][d] \in {staged[v][d], staged[v][d] + 1}
          BY <3>1, <3>2, <4>3, EscalationIs
        <5> QED
          BY <3>1, <4>1, <4>3, <5>1
      <4> QED
        BY <4>2, <4>3
    <3>5. DOMAIN fingerprints' = Waves
      BY <1>1, FailureIs
    <3> QED
      BY <2>1, <3>3, <3>4, <3>5 DEF StallInv
  <2> QED
    BY <1>1, <2>2, <2>3, FailureIs
<1>2. ASSUME NEW w \in Waves, St!RecordSuccess(w) PROVE StallInv'
  <2>1. /\ fingerprints' = [fingerprints EXCEPT ![w] = <<>>] /\ cooling' = cooling
        /\ staged' = [staged EXCEPT ![w] =
                        [e \in Errors |-> IF cooling[w][e] > 0 THEN staged[w][e] ELSE 0]]
        /\ failed' = [failed EXCEPT ![w] =
                        [e \in Errors |-> IF cooling[w][e] > 0 THEN failed[w][e] ELSE 0]]
    BY <1>2 DEF St!RecordSuccess
  <2>2. ASSUME NEW v \in Waves, NEW e \in Errors
        PROVE  /\ cooling[v][e] \in Nat
               /\ \/ staged'[v][e] = staged[v][e] /\ failed'[v][e] = failed[v][e]
                  \/ cooling[v][e] = 0 /\ staged'[v][e] = 0 /\ failed'[v][e] = 0
    BY <2>1 DEF StallInv
  <2>3. staged' \in [Waves -> [Errors -> Nat]] /\ failed' \in [Waves -> [Errors -> Nat]]
    BY <2>1 DEF StallInv
  <2>4. (\A v \in Waves : fingerprints'[v] \in Seq(Errors)) /\ DOMAIN fingerprints' = Waves
    BY <2>1 DEF StallInv
  <2> QED
    BY <2>1, <2>2, <2>3, <2>4 DEF StallInv
<1>3. CASE St!Tick
  <2>1. /\ cooling' = [w \in Waves |-> [e \in Errors |->
                         IF cooling[w][e] > 0 THEN cooling[w][e] - 1 ELSE 0]]
        /\ staged' = [w \in Waves |-> [e \in Errors |->
                        IF cooling[w][e] = 1 THEN 0 ELSE staged[w][e]]]
        /\ failed' = [w \in Waves |-> [e \in Errors |->
                        IF cooling[w][e] = 1 THEN 0 ELSE failed[w][e]]]
        /\ fingerprints' = fingerprints
    BY <1>3 DEF St!Tick
  <2>2. ASSUME NEW w \in Waves, NEW e \in Errors
        PROVE  /\ cooling'[w][e] \in Nat /\ staged'[w][e] \in Nat /\ failed'[w][e] \in Nat
               /\ staged'[w][e] <= failed'[w][e] + 1
               /\ cooling'[w][e] = 0 => staged'[w][e] <= failed'[w][e]
               /\ cooling'[w][e] > 0 => staged'[w][e] > 0
    <3>1. /\ cooling[w][e] \in Nat /\ staged[w][e] \in Nat /\ failed[w][e] \in Nat
          /\ staged[w][e] <= failed[w][e] + 1
          /\ cooling[w][e] = 0 => staged[w][e] <= failed[w][e]
          /\ cooling[w][e] > 0 => staged[w][e] > 0
      BY DEF StallInv
    <3>2. /\ cooling'[w][e] = IF cooling[w][e] > 0 THEN cooling[w][e] - 1 ELSE 0
          /\ staged'[w][e] = IF cooling[w][e] = 1 THEN 0 ELSE staged[w][e]
          /\ failed'[w][e] = IF cooling[w][e] = 1 THEN 0 ELSE failed[w][e]
      BY <2>1
    <3> QED
      BY <3>1, <3>2
  <2>3. /\ cooling' \in [Waves -> [Errors -> Nat]]
        /\ staged' \in [Waves -> [Errors -> Nat]]
        /\ failed' \in [Waves -> [Errors -> Nat]]
    BY <2>1, <2>2
  <2> QED
    BY <2>1, <2>2, <2>3 DEF StallInv
<1>4. CASE UNCHANGED stallVars
  BY <1>4 DEF StallInv, stallVars
<1> QED
  BY <1>1, <1>2, <1>3, <1>4 DEF St!Next

LEMMA RepeatIsMailed ==
  ASSUME StallInv, St!Next \/ UNCHANGED stallVars
  PROVE  St!RepeatsAreMailed
<1> SUFFICES ASSUME NEW w \in Waves, fingerprints'[w] # fingerprints[w],
                    \A e \in Errors : cooling[w][e] = 0 \/ staged[w][e] = 0,
                    St!Repeated(fingerprints'[w]) # {}
             PROVE  \E e \in St!Repeated(fingerprints'[w]) :
                      staged'[w][e] > staged[w][e] \/ failed'[w][e] > failed[w][e]
  BY DEF St!RepeatsAreMailed
<1>0. ASSUME NEW e \in Errors PROVE cooling[w][e] = 0
  <2>1. cooling[w][e] \in Nat /\ (cooling[w][e] > 0 => staged[w][e] > 0)
    BY DEF StallInv
  <2>2. cooling[w][e] = 0 \/ staged[w][e] = 0
    OBVIOUS
  <2> QED
    BY <2>1, <2>2
<1>1. ASSUME NEW v \in Waves, NEW errors \in St!Attempts, St!RecordFailure(v, errors)
      PROVE  \E e \in St!Repeated(fingerprints'[w]) :
               staged'[w][e] > staged[w][e] \/ failed'[w][e] > failed[w][e]
  <2>1. v = w
    BY <1>1, FailureIs
  <2>2. PICK e \in St!Repeated(fingerprints'[w]) : cooling[w][e] = 0 /\ St!Escalate(w, e)
    BY <1>0, <1>1, <2>1, FailureIs
  <2>3. e \in Errors
    BY DEF St!Repeated
  <2>4. staged[w][e] \in Nat /\ failed[w][e] \in Nat
    BY <2>3 DEF StallInv
  <2>5. staged'[w][e] > staged[w][e] \/ failed'[w][e] > failed[w][e]
    BY <2>2, <2>3, <2>4, EscalationIs
  <2> QED
    BY <2>5
<1>2. ASSUME NEW v \in Waves, St!RecordSuccess(v) PROVE FALSE
  <2>1. fingerprints'[w] \in {fingerprints[w], <<>>}
    BY <1>2 DEF StallInv, St!RecordSuccess
  <2> QED
    BY <2>1, NoneRepeated
<1>3. ~UNCHANGED fingerprints
  OBVIOUS
<1> QED
  BY <1>1, <1>2, <1>3 DEF St!Next, St!Tick, stallVars

(* A wave that repeats an error is escalated at once, unless one of its    *)
(* errors whose mail was staged cools down, and not again for that error   *)
(* until the cooldown is over, unless the mail was not sent.               *)
THEOREM StallIsEscalatedOnceHolds == PartSpec => StallIsEscalatedOnce
<1>0. [PartNext]_partVars => St!Next \/ UNCHANGED stallVars
  BY OtherParts
<1>1. PartInit => StallInv
  BY StallInit
<1>2. StallInv /\ [PartNext]_partVars => StallInv'
  BY <1>0, StallPreserved
<1>3. StallInv => (part = "stalls" => St!NoSpam)
  BY DEF StallInv, St!NoSpam
<1>4. StallInv /\ [PartNext]_partVars => [part = "stalls" => St!RepeatsAreMailed]_stallVars
  BY <1>0, RepeatIsMailed
<1> QED
  BY <1>1, <1>2, <1>3, <1>4, PTL DEF PartSpec, StallIsEscalatedOnce
----------------------------------------------------------------------------
(* Rival contracts.                                                        *)
LEMMA LeastIs ==
  ASSUME NEW T \in SUBSET Nat, T # {}
  PROVE  Co!Least(T) \in T /\ \A n \in T : Co!Least(T) <= n
BY LeastNat DEF Co!Least

LEMMA PresentIs ==
  /\ IsFiniteSet(Co!Present) /\ Co!Present \subseteq Specifications /\ Specifications \subseteq Nat
  /\ DOMAIN Co!ReadArchiveDMails = Co!Present
  /\ \A f \in Co!Present : Co!ReadArchiveDMails[f] = f
<1>1. Co!IsFiniteSet(Specifications) <=> IsFiniteSet(Specifications)
  BY DEF Co!IsFiniteSet, IsFiniteSet
<1>2. IsFiniteSet(Specifications) /\ Specifications \subseteq Nat
  BY <1>1, ServicesAssumption DEF Co!ContractsAssumption
<1>3. Co!Present \in SUBSET Specifications
  BY DEF Co!Present
<1>4. IsFiniteSet(Co!Present)
  BY <1>2, <1>3, FS_Subset
<1> QED
  BY <1>2, <1>3, <1>4 DEF Co!ReadArchiveDMails

(* The bodies at some places are equal to the first one's when all are.    *)
LEMMA BodiesAre ==
  ASSUME NEW s, NEW top \in SUBSET Co!Present
  PROVE  Co!BodiesEqual(s, top) <=> \A i, j \in top : Co!Same(s[i], s[j])
<1>1. top = {} \/ Co!Least(top) \in top
  BY LeastIs, PresentIs
<1> QED
  BY <1>1 DEF Co!BodiesEqual, Co!Same

(* In another order the candidates, the latest of them and what they have  *)
(* in common are the same.                                                 *)
LEMMA ProjectedInOrder ==
  ASSUME NEW s \in Co!Orders, NEW id
  PROVE  Co!ProjectCurrentContracts(s, id)
           = Co!ProjectCurrentContracts(Co!ReadArchiveDMails, id)
<1> DEFINE r     == Co!ReadArchiveDMails
           group == Co!Group(s, id)
           top   == Co!Top(s, group)
           G     == Co!Group(r, id)
           T     == Co!Top(r, G)
<1>1. s \in [Co!Present -> Co!Present] /\ \A f \in Co!Present : \E i \in Co!Present : s[i] = f
  BY DEF Co!Orders, Co!FilesAt
<1>2. \A i, j \in Co!Present : s[i] = s[j] => i = j
  <2>1. s \in Surjection(Co!Present, Co!Present)
    BY <1>1 DEF Surjection
  <2>2. s \in Injection(Co!Present, Co!Present)
    BY <2>1, PresentIs, FS_Surjection
  <2> QED
    BY <2>2 DEF Injection, IsInjective
<1>3. /\ group \subseteq Co!Present /\ G \subseteq Co!Present
      /\ \A i \in Co!Present : i \in group <=> s[i] \in G
  BY <1>1, PresentIs DEF Co!Group
<1>4. /\ top \subseteq group /\ T \subseteq G
      /\ \A i \in Co!Present : i \in top <=> s[i] \in T
  <2>1. \A i \in group : (\A j \in group : archive[s[j]].revision <= archive[s[i]].revision)
                        <=> (\A g \in G : archive[g].revision <= archive[s[i]].revision)
    BY <1>1, <1>3
  <2>2. \A f \in G : r[f] = f
    BY <1>3, PresentIs
  <2> QED
    BY <1>3, <2>1, <2>2 DEF Co!Top
<1> HIDE DEF group, top, G, T
<1>5. /\ Co!FilesAt(s, group) = G /\ Co!FilesAt(r, G) = G
      /\ Co!FilesAt(s, top) = T /\ Co!FilesAt(r, T) = T
  <2>1. \A f \in G : f \in Co!Present /\ \E i \in group : s[i] = f
    BY <1>1, <1>3
  <2>2. \A f \in T : f \in Co!Present /\ \E i \in top : s[i] = f
    BY <1>1, <1>3, <1>4
  <2>3. (\A i \in group : s[i] \in G) /\ (\A i \in top : s[i] \in T)
    BY <1>3, <1>4
  <2>4. \A f \in Co!Present : r[f] = f
    BY PresentIs
  <2> HIDE DEF r
  <2>5. Co!FilesAt(s, group) = G
    BY <2>1, <2>3 DEF Co!FilesAt
  <2>6. Co!FilesAt(s, top) = T
    BY <2>2, <2>3 DEF Co!FilesAt
  <2>7. Co!FilesAt(r, G) = G
    BY <2>1, <2>4 DEF Co!FilesAt
  <2>8. Co!FilesAt(r, T) = T
    BY <2>2, <2>4 DEF Co!FilesAt
  <2> QED
    BY <2>5, <2>6, <2>7, <2>8
<1>6. (\E i, j \in top : i # j) <=> (\E f, g \in T : f # g)
  BY <1>1, <1>2, <1>3, <1>4
<1>7. Co!BodiesEqual(s, top) <=> Co!BodiesEqual(r, T)
  <2>1. Co!BodiesEqual(s, top) <=> \A i, j \in top : Co!Same(s[i], s[j])
    BY <1>3, <1>4, BodiesAre
  <2>2. Co!BodiesEqual(r, T) <=> \A f, g \in T : Co!Same(r[f], r[g])
    BY <1>3, <1>4, BodiesAre
  <2>3. \A f \in T : r[f] = f /\ \E i \in top : s[i] = f
    BY <1>1, <1>3, <1>4, PresentIs
  <2>4. \A i \in top : s[i] \in T
    BY <1>3, <1>4
  <2> QED
    BY <2>1, <2>2, <2>3, <2>4
<1>8. Co!Duplicates(s, top) <=> Co!Duplicates(r, T)
  BY <1>5, <1>7 DEF Co!Duplicates
<1>9. Co!PickDeterministic(s, top) = Co!PickDeterministic(r, T)
  BY <1>5 DEF Co!PickDeterministic
<1>10. group = {} <=> G = {}
  BY <1>1, <1>3
<1> QED
  BY <1>5, <1>6, <1>8, <1>9, <1>10 DEF Co!ProjectCurrentContracts, group, top, G, T

(* The parsed mails of one contract.                                       *)
Candidates(id) ==
  {f \in Co!Present : /\ archive[f].kind = "specification"
                      /\ Co!Parses(archive[f])
                      /\ archive[f].id = id}

LEMMA CandidatesAre ==
  ASSUME NEW id
  PROVE  /\ Co!Group(Co!ReadArchiveDMails, id) = Candidates(id)
         /\ Co!FilesAt(Co!ReadArchiveDMails, Candidates(id)) = Candidates(id)
         /\ Candidates(id) \subseteq Co!Present
<1> DEFINE r == Co!ReadArchiveDMails
<1>1. DOMAIN r = Co!Present /\ \A f \in Co!Present : r[f] = f
  BY PresentIs
<1> HIDE DEF r
<1>2. Co!Group(r, id) = Candidates(id)
  BY <1>1 DEF Co!Group, Candidates
<1>3. Candidates(id) \subseteq Co!Present
  BY DEF Candidates
<1>4. Co!FilesAt(r, Candidates(id)) = Candidates(id)
  BY <1>1, <1>3 DEF Co!FilesAt
<1> QED
  BY <1>2, <1>3, <1>4 DEF r

(* Of some mails the ones of the latest revision are there: of the numbers *)
(* of mails that are later than one, one is the least.                     *)
LEMMA LatestIsThere ==
  ASSUME Co!TypeOK, NEW G \in SUBSET Co!Present, G # {}
  PROVE  \E f \in G : \A g \in G : archive[g].revision <= archive[f].revision
<1> DEFINE Rev(f)   == archive[f].revision
           Later(f) == {g \in G : Rev(g) > Rev(f)}
           Sizes    == {Cardinality(Later(f)) : f \in G}
<1>1. \A f \in G : Rev(f) \in Int
  BY ServicesAssumption DEF Co!TypeOK, Co!Present, Co!ContractsAssumption
<1>2. IsFiniteSet(G)
  BY PresentIs, FS_Subset
<1>3. \A f \in G : IsFiniteSet(Later(f)) /\ Cardinality(Later(f)) \in Nat
  <2> TAKE f \in G
  <2>1. Later(f) \in SUBSET G
    OBVIOUS
  <2>2. IsFiniteSet(Later(f))
    BY <1>2, <2>1, FS_Subset
  <2> QED
    BY <2>2, FS_CardinalityType
<1>4. Sizes \in SUBSET Nat /\ Sizes # {}
  BY <1>3
<1>5. PICK n \in Sizes : \A m \in Sizes : n <= m
  <2> HIDE DEF Sizes
  <2> QED
    BY <1>4, LeastNat
<1>6. PICK f \in G : n = Cardinality(Later(f))
  OBVIOUS
<1> SUFFICES ASSUME NEW g \in G, ~(Rev(g) <= Rev(f)) PROVE FALSE
  BY <1>6
<1>7. Rev(f) < Rev(g) /\ g \in Later(f) /\ g \notin Later(g)
  BY <1>1
<1>8. Later(g) \in SUBSET Later(f)
  BY <1>1, <1>7
<1>9. Later(g) # Later(f)
  BY <1>7
<1>10. Cardinality(Later(g)) < Cardinality(Later(f))
  <2> HIDE DEF Later
  <2> QED
    BY <1>3, <1>8, <1>9, FS_Subset
<1>11. Cardinality(Later(f)) <= Cardinality(Later(g))
  BY <1>5, <1>6
<1>12. Cardinality(Later(f)) \in Nat /\ Cardinality(Later(g)) \in Nat
  BY <1>3
<1> HIDE DEF Later
<1> QED
  BY <1>10, <1>11, <1>12

(* What `--wave` exports without --allow-conflict is a candidate, none is  *)
(* later, and the others of its revision have its body: two duplicates     *)
(* have different keys, so the bodies were compared.                       *)
ExportsAre ==
  \A id : Co!Export(id, FALSE) # None =>
    /\ Co!Export(id, FALSE) \in Candidates(id)
    /\ \A g \in Candidates(id) :
         /\ archive[g].revision <= archive[Co!Export(id, FALSE)].revision
         /\ archive[g].revision = archive[Co!Export(id, FALSE)].revision
              => archive[g].body = archive[Co!Export(id, FALSE)].body

LEMMA ExportIs == Co!TypeOK => ExportsAre
<1> SUFFICES ASSUME Co!TypeOK, NEW id, Co!Export(id, FALSE) # None
             PROVE  /\ Co!Export(id, FALSE) \in Candidates(id)
                    /\ \A g \in Candidates(id) :
                         /\ archive[g].revision <= archive[Co!Export(id, FALSE)].revision
                         /\ archive[g].revision = archive[Co!Export(id, FALSE)].revision
                              => archive[g].body = archive[Co!Export(id, FALSE)].body
  BY DEF ExportsAre
<1> DEFINE r == Co!ReadArchiveDMails
           G == Candidates(id)
           T == Co!Top(r, G)
           p == Co!ProjectCurrentContracts(r, id)
           e == Co!Export(id, FALSE)
<1>1. Co!Group(r, id) = G /\ G \subseteq Co!Present /\ \A f \in Co!Present : r[f] = f
  BY CandidatesAre, PresentIs
<1>2. T = {f \in G : \A g \in G : archive[g].revision <= archive[f].revision}
  BY <1>1 DEF Co!Top
<1>3. p.current # None /\ e = p.current
  BY DEF Co!Export
<1> HIDE DEF r, G, T, p, e
<1>4. /\ G # {} /\ e = Co!PickDeterministic(r, T)
      /\ (\E f, g \in T : f # g) => Co!Duplicates(r, T)
  BY <1>1, <1>3 DEF Co!ProjectCurrentContracts, p, T
<1>5. T # {} /\ T \subseteq G
  BY <1>1, <1>2, <1>4, LatestIsThere
<1>6. Co!FilesAt(r, T) = T
  BY <1>1, <1>5 DEF Co!FilesAt
<1>7. e \in T
  BY <1>1, <1>4, <1>5, <1>6, PresentIs, LeastIs DEF Co!PickDeterministic
<1>8. \A f, g \in T : archive[f].body = archive[g].body
  <2> SUFFICES ASSUME NEW f \in T, NEW g \in T, f # g PROVE archive[f].body = archive[g].body
    OBVIOUS
  <2>1. Co!Duplicates(r, T)
    BY <1>4
  <2>2. Co!BodiesEqual(r, T)
    BY <1>6, <2>1 DEF Co!Duplicates, Co!Key
  <2>3. Co!Same(r[f], r[g])
    BY <1>1, <1>5, <2>2, BodiesAre
  <2> QED
    BY <1>1, <1>5, <2>3 DEF Co!Same
<1>9. \A f \in G : archive[f].revision \in Int
  BY <1>1, ServicesAssumption DEF Co!TypeOK, Co!Present, Co!ContractsAssumption
<1>10. ASSUME NEW g \in G, archive[g].revision = archive[e].revision PROVE g \in T
  BY <1>2, <1>7, <1>10
<1> QED
  BY <1>2, <1>5, <1>7, <1>8, <1>10 DEF e, G

(* With --allow-conflict, what the fallback picks was parsed.              *)
LEMMA BothExport == Co!TypeOK => Co!ModesAgree
<1> SUFFICES ASSUME Co!TypeOK, NEW w, NEW allow \in BOOLEAN, Co!Export(w, allow) # None
             PROVE  /\ Co!Export(w, allow) \in Specifications
                    /\ Co!LoadRivalFromInputFile(Co!Export(w, allow)) = Co!Export(w, allow)
  BY DEF Co!ModesAgree
<1>1. CASE Co!Export(w, allow) = Co!Export(w, FALSE)
  <2>1. Co!Export(w, FALSE) \in Candidates(w)
    BY <1>1, ExportIs DEF ExportsAre
  <2> QED
    BY <1>1, <2>1, PresentIs DEF Candidates, Co!Present, Co!LoadRivalFromInputFile
<1>2. CASE Co!Export(w, allow) # Co!Export(w, FALSE)
  <2> DEFINE names == Co!ProjectCurrentContracts(Co!ReadArchiveDMails, w).conflict.names
  <2>1. Co!Export(w, allow) = Co!PickConflictFallback(names)
    BY <1>2 DEF Co!Export
  <2> QED
    BY <2>1 DEF Co!PickConflictFallback, Co!LoadRivalFromInputFile
<1> QED
  BY <1>1, <1>2

LEMMA ArchiveTyped ==
  ASSUME Co!TypeOK, Co!Next \/ UNCHANGED archive
  PROVE  Co!TypeOK'
<1>1. CASE UNCHANGED archive
  BY <1>1 DEF Co!TypeOK
<1>2. ASSUME NEW f \in Specifications, Co!Archived(f) PROVE Co!TypeOK'
  BY <1>2 DEF Co!Archived, Co!TypeOK
<1>3. ASSUME NEW f \in Specifications, Co!Pruned(f) PROVE Co!TypeOK'
  BY <1>3 DEF Co!Pruned, Co!TypeOK
<1> QED
  BY <1>1, <1>2, <1>3 DEF Co!Next

(* When a mail is archived, the contract that was exported is still a      *)
(* candidate.                                                              *)
LEMMA ArchivingRaises ==
  ASSUME Co!TypeOK, Co!Next \/ UNCHANGED archive
  PROVE  Co!RevisionsRise
<1> SUFFICES ASSUME NEW f \in Specifications, archive[f] = None, archive'[f] # None,
                    NEW w, Co!Export(w, FALSE) # None, Co!Export(w, FALSE)' # None
             PROVE  LET old == Co!Export(w, FALSE)
                        new == Co!Export(w, FALSE)'
                    IN  \/ archive[old].revision < archive'[new].revision
                        \/ /\ archive[old].revision = archive'[new].revision
                           /\ archive[old].body = archive'[new].body
  BY DEF Co!RevisionsRise
<1> DEFINE old == Co!Export(w, FALSE)
           new == Co!Export(w, FALSE)'
<1>1. Co!TypeOK'
  BY ArchiveTyped
<1>2. ExportsAre /\ ExportsAre'
  BY <1>1, ExportIs, PTL
<1>3. /\ old \in Candidates(w) /\ new \in Candidates(w)'
      /\ \A g \in Candidates(w)' :
           /\ archive'[g].revision <= archive'[new].revision
           /\ archive'[g].revision = archive'[new].revision
                => archive'[g].body = archive'[new].body
  BY <1>2 DEF ExportsAre
<1>4. Co!Archived(f)
  BY DEF Co!Next, Co!Archived, Co!Pruned, Co!TypeOK
<1>5. \A g \in Co!Present : g \in Co!Present' /\ archive'[g] = archive[g]
  BY <1>4 DEF Co!Archived, Co!TypeOK, Co!Present
<1> HIDE DEF old, new
<1>6. old \in Candidates(w)' /\ archive'[old] = archive[old]
  BY <1>3, <1>5 DEF Candidates, Co!Parses, Co!ParseRivalContractMetadata,
                    Co!ParseRivalContractBody
<1>7. archive'[old].revision \in Int /\ archive'[new].revision \in Int
  BY <1>1, <1>3, <1>6, ServicesAssumption
     DEF Candidates, Co!TypeOK, Co!Present, Co!ContractsAssumption
<1>8. \/ archive[old].revision < archive'[new].revision
      \/ archive[old].revision = archive'[new].revision /\ archive[old].body = archive'[new].body
  BY <1>3, <1>6, <1>7
<1> QED
  BY <1>8 DEF old, new

THEOREM ContractsAreStableHolds == PartSpec => ContractsAreStable
<1>0. [PartNext]_partVars => Co!Next \/ UNCHANGED archive
  BY OtherParts
<1>1. PartInit => Co!TypeOK
  BY DEF PartInit, Co!Init, Co!TypeOK
<1>2. Co!TypeOK /\ [PartNext]_partVars => Co!TypeOK'
  BY <1>0, ArchiveTyped
<1>3. Co!OrderDoesNotMatter
  BY ProjectedInOrder DEF Co!OrderDoesNotMatter
<1>4. Co!TypeOK => (part = "contracts" => Co!OrderDoesNotMatter /\ Co!ModesAgree)
  BY <1>3, BothExport
<1>5. Co!TypeOK /\ [PartNext]_partVars => [part = "contracts" => Co!RevisionsRise]_archive
  BY <1>0, ArchivingRaises
<1> QED
  BY <1>1, <1>2, <1>4, <1>5, PTL DEF PartSpec, ContractsAreStable
----------------------------------------------------------------------------
(* The doctor.  What a check that can fail looks at, when it is in order.  *)
Fit(c) ==
  CASE c = "Config"    -> env["config"] = "ok"
    [] c = "state-dir" -> env["state"] = "ok"
    [] c = "Skills"    -> Do!Broken = {}
    [] c \in {"git", "gh", "claude"} -> env[c] = "ok"

Failing == {"git", "gh", "Config", "claude", "state-dir", "Skills"}

(* The place of a step in a run, as far as the checks that can fail.       *)
Place(step) ==
  IF step = "idle" THEN 0 ELSE IF step = "git" THEN 1
  ELSE IF step = "gh" THEN 2 ELSE IF step = "gh-auth" THEN 3
  ELSE IF step = "Config" THEN 4 ELSE IF step = "claude" THEN 5
  ELSE IF step = "state-dir" THEN 6
  ELSE IF step \in {"Skills", "dmail-readable", "dmail-sendable", "recheck"} THEN 7 ELSE 8

(* A repair is about something that was out of order when it was looked    *)
(* at, so that it is not among what is mended; a verdict of a run during   *)
(* which nobody changed anything still holds; and after a run without a    *)
(* failure there is none until somebody changes something.                 *)
DoctorInv ==
  /\ env = [i \in Do!Items |-> env[i]] /\ \A i \in Do!Items : env[i] \in Do!States[i]
  /\ verdicts \in [Do!Checks -> Do!Statuses \cup {None}]
  /\ changes \in Nat
  /\ mended \subseteq {"state-dir", "Skills", "skills-ref", "stale-pid"}
  /\ \A c \in mended : Do!InOrder(c)
  /\ checking \in Do!SkillFiles =>
       faulty \cap Do!SkillFiles # {} /\ "Skills" \notin mended /\ ~clean
  /\ checking = "remove" => "pid" \in faulty
  /\ \A c \in Failing :
       /\ Place(checking) > Place(c) => verdicts[c] \in {"OK", "FIX", "FAIL"}
       /\ checking # "idle" /\ touched = {} /\ verdicts[c] \in {"OK", "FIX"} => Fit(c)
       /\ clean => Fit(c)
       /\ clean /\ checking # "idle" => verdicts[c] # "FAIL"
  /\ \A c \in Do!Checks \ Failing : verdicts[c] # "FAIL"
  /\ verdicts["event-store"] = "OK" /\ checking # "idle" =>
       \A l \in Logs \ touched : env[l] \notin {"mixed", "corrupt", "unreadable"}

(* The values of the items, one by one.                                    *)
LEMMA StatesAre ==
  /\ \A i \in Do!Tools : Do!States[i] = {"ok", "absent"}
  /\ Do!States["state"] = {"ok", "absent", "file", "readonly"}
  /\ \A f \in Do!SkillFiles : Do!States[f] = {"ok", "custom", "broken", "absent"}
  /\ Do!States["outbox"] = {"ok", "absent", "dead", "broken"}
  /\ Do!States["pid"] = {"absent", "live", "dead"}
  /\ Do!States["installer"] = {"ok", "broken", "off-path"}
  /\ \A l \in Logs : Do!States[l] =
       {"ok", "absent", "mixed", "corrupt", "empty", "long", "unreadable"}
  /\ \A i \in Do!Items \ {"pid"} : "ok" \in Do!States[i]
  /\ \A i \in Do!Inside : i \in Do!Items /\ "absent" \in Do!States[i]
<1>1. Logs \cap (Do!Tools \cup Do!Others) = {}
  BY ServicesAssumption DEF Do!DoctorAssumption
<1>2. \A i \in Do!Tools : Do!States[i] = {"ok", "absent"}
  BY <1>1 DEF Do!States, Do!Items, Do!Tools, Do!SkillFiles
<1>3. \A l \in Logs : Do!States[l] =
       {"ok", "absent", "mixed", "corrupt", "empty", "long", "unreadable"}
  BY <1>1 DEF Do!States, Do!Items, Do!Tools, Do!Others, Do!SkillFiles
<1>4. /\ Do!States["state"] = {"ok", "absent", "file", "readonly"}
      /\ \A f \in Do!SkillFiles : Do!States[f] = {"ok", "custom", "broken", "absent"}
      /\ Do!States["outbox"] = {"ok", "absent", "dead", "broken"}
      /\ Do!States["pid"] = {"absent", "live", "dead"}
      /\ Do!States["installer"] = {"ok", "broken", "off-path"}
  BY <1>1 DEF Do!States, Do!Items, Do!Tools, Do!Others, Do!SkillFiles
<1> QED
  BY <1>2, <1>3, <1>4 DEF Do!Items, Do!Tools, Do!Others, Do!SkillFiles, Do!Inside

(* An environment in which one item is changed.                            *)
LEMMA WithIs ==
  ASSUME NEW e, \A j \in Do!Items : e[j] \in Do!States[j],
         NEW i \in Do!Items, NEW v \in Do!States[i]
  PROVE  LET w == Do!With(e, i, v)
         IN  /\ w = [j \in Do!Items |-> w[j]] /\ \A j \in Do!Items : w[j] \in Do!States[j]
             /\ w[i] = v
BY StatesAre DEF Do!With

(* The check that is next is one place on.                                 *)
LEMMA FollowingIs ==
  ASSUME NEW c \in Do!Checks
  PROVE  /\ Place(Do!Following(c)) \in {Place(c), Place(c) + 1} /\ Place(c) \in 1 .. 8
         /\ Do!Following(c) \notin {"idle", "dmail-readable", "dmail-sendable", "remove"}
         /\ \A d \in Failing : Place(d) \in 1 .. 7 /\ (Place(d) = Place(c) => d = c)
<1>1. /\ Do!Following("git") = "gh"              /\ Do!Following("gh") = "gh-auth"
      /\ Do!Following("gh-auth") = "Config"      /\ Do!Following("Config") = "claude"
      /\ Do!Following("claude") = "state-dir"    /\ Do!Following("state-dir") = "Skills"
      /\ Do!Following("Skills") = "event-store"  /\ Do!Following("event-store") = "dead-letters"
      /\ Do!Following("dead-letters") = "claude-auth"
      /\ Do!Following("claude-auth") = "success-rate"
      /\ Do!Following("success-rate") = "skills-ref"
      /\ Do!Following("skills-ref") = "stale-pid" /\ Do!Following("stale-pid") = "print"
  BY DEF Do!Following
<1>2. Place(Do!Following(c)) \in {Place(c), Place(c) + 1}
  BY <1>1 DEF Do!Checks, Place
<1>3. Do!Following(c) \notin {"idle", "dmail-readable", "dmail-sendable", "remove"}
  BY <1>1 DEF Do!Checks
<1>4. Place(c) \in 1 .. 8
  BY DEF Do!Checks, Place
<1>5. \A d \in Failing : Place(d) \in 1 .. 7 /\ (Place(d) = Place(c) => d = c)
  BY DEF Do!Checks, Failing, Place
<1> QED
  BY <1>2, <1>3, <1>4, <1>5

LEMMA DoctorInit == PartInit => DoctorInv
<1> SUFFICES ASSUME PartInit PROVE DoctorInv
  OBVIOUS
<1>1. Do!Init
  BY DEF PartInit
<1>2. PICK i \in Do!Items : \E v \in Do!States[i] : env = Do!With(Do!Base, i, v)
  BY <1>1 DEF Do!Init
<1>3. /\ checking = "idle" /\ changes = 0 /\ mended = {} /\ clean = FALSE
      /\ verdicts = [c \in Do!Checks |-> None]
  BY <1>1 DEF Do!Init
<1>4. env = [j \in Do!Items |-> env[j]] /\ \A j \in Do!Items : env[j] \in Do!States[j]
  <2>1. \A j \in Do!Items : Do!Base[j] \in Do!States[j]
    BY StatesAre DEF Do!Base
  <2> QED
    BY <1>2, <2>1, WithIs
<1>5. None \notin Do!Statuses
  BY ServicesAssumption DEF Do!DoctorAssumption
<1>6. \A c \in Failing : ~(Place(checking) > Place(c)) /\ c \in Do!Checks
  BY <1>3 DEF Failing, Do!Checks, Place
<1>7. \A c \in Do!Checks : verdicts[c] = None
  BY <1>3
<1> QED
  BY <1>3, <1>4, <1>5, <1>6, <1>7 DEF DoctorInv, Do!Statuses, Do!SkillFiles

(* What a run may do to the environment: only the installing of the        *)
(* SKILL.md files may leave something worse than it was.                   *)
Repairs ==
  /\ env' = [i \in Do!Items |-> env'[i]]
  /\ \A i \in Do!Items :
       \/ env'[i] = env[i]
       \/ i = "state" /\ env[i] = "absent" /\ env'[i] = "ok"
       \/ /\ i \in Do!SkillFiles /\ checking \in Do!SkillFiles
          /\ env[i] # "ok" /\ env'[i] \in {"ok", "broken", "custom"}
       \/ i = "skills-ref" /\ env'[i] = "ok"
       \/ i = "pid" /\ checking = "remove" /\ env'[i] = "absent"

LEMMA StepsRepair ==
  ASSUME DoctorInv, Do!Step
  PROVE  Repairs /\ UNCHANGED <<changes, touched>>
<1>0. env = [i \in Do!Items |-> env[i]]
  BY DEF DoctorInv
<1>1. CASE UNCHANGED env
  <2>1. Repairs
    BY <1>0, <1>1 DEF Repairs
  <2> QED
    BY <2>1 DEF Do!Step, Do!Look, Do!CheckStateDir, Do!SkillsStep, Do!Install, Do!Recheck,
                Do!Begin, Do!CheckSkillsRefToolchain, Do!InstallSkillsRef, Do!VerifySkillsRef, Do!ReadPID,
                Do!RemovePID, Do!PrintDoctor, Do!Report, Do!Goto, Do!history
<1>2. CASE Do!CheckStateDir
  BY <1>0, <1>2 DEF Do!CheckStateDir, Do!Report, Repairs
<1>3. ASSUME NEW f \in Do!SkillFiles, NEW next, Do!Install(f, next)
      PROVE  Repairs /\ UNCHANGED <<changes, touched>>
  <2>1. Do!Made = [i \in Do!Items |-> IF i = "state" /\ env[i] = "absent" THEN "ok" ELSE env[i]]
    BY <1>0 DEF Do!Made
  <2>2. f \in Do!Items /\ f # "state"
    BY DEF Do!Items, Do!Others, Do!SkillFiles
  <2>3. \/ env' = env \/ env' = Do!Made \/ env' = [Do!Made EXCEPT ![f] = "ok"]
        \/ \E cut \in {"broken", "custom"} : env[f] # "ok" /\ env' = [Do!Made EXCEPT ![f] = cut]
    BY <1>3 DEF Do!Install
  <2>4. \/ env' = env
        \/ \E v : /\ env' = [Do!Made EXCEPT ![f] = v]
                  /\ \/ v = env[f] \/ v = "ok"
                     \/ env[f] # "ok" /\ v \in {"broken", "custom"}
    <3>1. Do!Made = [Do!Made EXCEPT ![f] = env[f]]
      BY <2>1, <2>2
    <3> QED
      BY <2>3, <3>1
  <2>5. Repairs
    BY <1>0, <1>3, <2>1, <2>2, <2>4 DEF Do!Install, Repairs
  <2> QED
    BY <1>3, <2>5 DEF Do!Install, Do!Report, Do!Goto, Do!history
<1>4. CASE Do!InstallSkillsRef
  BY <1>0, <1>4 DEF Do!InstallSkillsRef, Do!Report, Do!Goto, Do!history, Repairs
<1>5. CASE Do!RemovePID
  BY <1>0, <1>5 DEF Do!RemovePID, Do!Report, Repairs
<1> QED
  BY <1>1, <1>2, <1>3, <1>4, <1>5
     DEF Do!Step, Do!Look, Do!SkillsStep, Do!SkillFiles, Do!Recheck, Do!CheckSkillsRefToolchain,
         Do!VerifySkillsRef, Do!ReadPID, Do!PrintDoctor

(* No file is being installed that the check is about.                     *)
Safe(c) == c = "Skills" => checking \notin Do!SkillFiles

(* A repair leaves what is in order in order.                              *)
LEMMA RepairsKeep ==
  ASSUME DoctorInv, Repairs
  PROVE  /\ \A i \in Do!Items : env'[i] \in Do!States[i]
         /\ \A c \in Failing : Safe(c) /\ Fit(c) => Fit(c)'
         /\ \A c \in mended : Do!InOrder(c)'
         /\ \A l \in Logs : env'[l] = env[l]
<1>1. \A i \in Do!Items : env[i] \in Do!States[i]
  BY DEF DoctorInv
<1>2. \A i \in Do!Items : env'[i] \in Do!States[i]
  <2>1. /\ "ok" \in Do!States["state"]
        /\ \A f \in Do!SkillFiles : {"ok", "broken", "custom"} \subseteq Do!States[f]
        /\ "ok" \in Do!States["skills-ref"] /\ "absent" \in Do!States["pid"]
    BY StatesAre DEF Do!Tools
  <2> QED
    BY <1>1, <2>1 DEF Repairs
<1>3. \A l \in Logs : env'[l] = env[l]
  BY ServicesAssumption
     DEF Repairs, Do!DoctorAssumption, Do!Items, Do!Others, Do!SkillFiles, Do!Tools
<1>4. /\ \A t \in Do!Tools \ {"skills-ref"} : env'[t] = env[t]
      /\ env["skills-ref"] = "ok" => env'["skills-ref"] = "ok"
      /\ env["state"] # "absent" => env'["state"] = env["state"]
      /\ Safe("Skills") => \A f \in Do!SkillFiles : env'[f] = env[f]
      /\ env["pid"] = "absent" => env'["pid"] = "absent"
  BY DEF Repairs, Do!Items, Do!Others, Do!SkillFiles, Do!Tools, Safe
<1>5. \A c \in Failing : Safe(c) /\ Fit(c) => Fit(c)'
  <2>1. Safe("Skills") /\ Do!Broken = {} => Do!Broken' = {}
    BY <1>4 DEF Do!Broken
  <2> QED
    BY <1>4, <2>1 DEF Failing, Fit, Do!Tools
<1>6. ASSUME NEW c \in mended PROVE Do!InOrder(c)'
  <2>1. c \in {"state-dir", "Skills", "skills-ref", "stale-pid"} /\ Do!InOrder(c)
    BY DEF DoctorInv
  <2>2. c = "Skills" => Do!CheckSkills' = "OK"
    <3>1. c = "Skills" => Safe("Skills") /\ Do!Broken = {}
      BY <2>1 DEF DoctorInv, Safe, Do!InOrder, Do!CheckSkills, Do!OKOr
    <3>2. c = "Skills" => Do!Broken' = {}
      BY <1>4, <3>1 DEF Do!Broken
    <3> QED
      BY <3>2 DEF Do!CheckSkills, Do!OKOr
  <2> QED
    BY <1>4, <2>1, <2>2 DEF Do!InOrder
<1> QED
  BY <1>2, <1>3, <1>5, <1>6

(* A verdict is what the check has seen or made of it.                     *)
Sees(c, status) ==
  /\ status \in Do!Statuses
  /\ c \in Failing => /\ status \in {"OK", "FIX", "FAIL"}
                      /\ status \in {"OK", "FIX"} => Fit(c)'
                      /\ clean => status # "FAIL"
  /\ c \notin Failing => status # "FAIL"
  /\ status = "FIX" => /\ c \in {"state-dir", "Skills", "skills-ref", "stale-pid"}
                       /\ Do!InOrder(c)'
  /\ c = "event-store" /\ status = "OK" =>
       \A l \in Logs \ touched : env'[l] \notin {"mixed", "corrupt", "unreadable"}

LEMMA Reports ==
  ASSUME DoctorInv, Repairs, NEW c \in Do!Checks, NEW status, Do!Report(c, status),
         checking # "idle", Place(checking) = Place(c), Sees(c, status)
  PROVE  DoctorInv'
<1>1. /\ verdicts' = [verdicts EXCEPT ![c] = status]
      /\ checking' = Do!Following(c)
      /\ mended' = IF status = "FIX" THEN mended \cup {c} ELSE mended
      /\ UNCHANGED <<changes, touched, clean>>
  BY DEF Do!Report
<1>2. /\ verdicts' \in [Do!Checks -> Do!Statuses \cup {None}] /\ verdicts'[c] = status
      /\ \A d \in Do!Checks \ {c} : verdicts'[d] = verdicts[d]
  BY <1>1 DEF DoctorInv, Sees
<1>3. checking' \notin {"idle", "dmail-readable", "dmail-sendable", "remove"}
  BY <1>1, FollowingIs
<1>4. /\ env' = [i \in Do!Items |-> env'[i]] /\ \A i \in Do!Items : env'[i] \in Do!States[i]
      /\ \A d \in Failing : Safe(d) /\ Fit(d) => Fit(d)'
      /\ \A d \in mended : Do!InOrder(d)'
      /\ \A l \in Logs : env'[l] = env[l]
  BY RepairsKeep DEF Repairs
<1>5. /\ mended' \subseteq {"state-dir", "Skills", "skills-ref", "stale-pid"}
      /\ \A d \in mended' : Do!InOrder(d)'
  BY <1>1, <1>4 DEF DoctorInv, Sees
<1>6. ASSUME NEW d \in Failing
      PROVE  /\ Place(checking') > Place(d) => verdicts'[d] \in {"OK", "FIX", "FAIL"}
             /\ touched = {} /\ verdicts'[d] \in {"OK", "FIX"} => Fit(d)'
             /\ clean => Fit(d)'
             /\ clean => verdicts'[d] # "FAIL"
  <2>1. /\ Place(checking) > Place(d) => verdicts[d] \in {"OK", "FIX", "FAIL"}
        /\ touched = {} /\ verdicts[d] \in {"OK", "FIX"} => Fit(d)
        /\ clean => Fit(d)
        /\ clean => verdicts[d] # "FAIL"
    BY DEF DoctorInv
  <2>2. d \in Do!Checks
    BY DEF Failing, Do!Checks
  <2>3. CASE d = c
    BY <1>2, <1>4, <2>1, <2>3 DEF Sees
  <2>4. CASE d # c
    <3>1. Place(checking') > Place(d) => Place(checking) > Place(d)
      <4>1. /\ Place(checking') \in {Place(c), Place(c) + 1} /\ Place(c) \in 1 .. 8
            /\ Place(d) \in 1 .. 7 /\ Place(d) # Place(c)
        BY <1>1, <2>4, FollowingIs
      <4> QED
        BY <4>1
    <3>2. Safe(d)
      <4>1. d = "Skills" => c # "Skills" /\ Place("Skills") # Place(c)
        BY <2>4, FollowingIs
      <4>2. checking \in Do!SkillFiles => Place(checking) = Place("Skills")
        BY DEF Place, Do!SkillFiles
      <4> QED
        BY <4>1, <4>2 DEF Safe
    <3>3. Fit(d) => Fit(d)'
      BY <1>4, <3>2
    <3> QED
      BY <1>2, <2>1, <2>2, <2>4, <3>1, <3>3
  <2> QED
    BY <2>3, <2>4
<1>7. \A d \in Do!Checks \ Failing : verdicts'[d] # "FAIL"
  BY <1>2 DEF DoctorInv, Sees
<1>8. verdicts'["event-store"] = "OK" =>
        \A l \in Logs \ touched : env'[l] \notin {"mixed", "corrupt", "unreadable"}
  <2>1. "event-store" \in Do!Checks
    BY DEF Do!Checks
  <2> QED
    BY <1>2, <1>4, <2>1 DEF DoctorInv, Sees
<1>9. changes' \in Nat /\ touched' = touched /\ clean' = clean
  BY <1>1 DEF DoctorInv
<1>10. checking' \notin Do!SkillFiles
  BY <1>3 DEF Do!SkillFiles
<1> QED
  BY <1>2, <1>3, <1>4, <1>5, <1>6, <1>7, <1>8, <1>9, <1>10 DEF DoctorInv

(* A check goes on.                                                        *)
LEMMA Goes ==
  ASSUME DoctorInv, Repairs, NEW step, checking' = step, checking # "idle",
         UNCHANGED <<verdicts, changes, mended, touched, clean>>,
         Place(step) = Place(checking), step # "idle",
         checking \in Do!SkillFiles => Do!Broken' \subseteq Do!Broken,
         step \in Do!SkillFiles =>
           faulty' \cap Do!SkillFiles # {} /\ "Skills" \notin mended /\ ~clean,
         step = "remove" => "pid" \in faulty'
  PROVE  DoctorInv'
<1>1. /\ env' = [i \in Do!Items |-> env'[i]] /\ \A i \in Do!Items : env'[i] \in Do!States[i]
      /\ \A d \in Failing : Safe(d) /\ Fit(d) => Fit(d)'
      /\ \A d \in mended : Do!InOrder(d)'
      /\ \A l \in Logs : env'[l] = env[l]
  BY RepairsKeep DEF Repairs
<1>2. \A d \in Failing : Fit(d) => Fit(d)'
  <2>1. ~Safe("Skills") /\ Fit("Skills") => Fit("Skills")'
    BY DEF Safe, Fit
  <2>2. \A d \in Failing : Safe(d) \/ d = "Skills"
    BY DEF Safe
  <2> QED
    BY <1>1, <2>1, <2>2
<1>3. ASSUME NEW d \in Failing
      PROVE  /\ Place(checking') > Place(d) => verdicts'[d] \in {"OK", "FIX", "FAIL"}
             /\ touched = {} /\ verdicts'[d] \in {"OK", "FIX"} => Fit(d)'
             /\ clean => Fit(d)'
             /\ clean => verdicts'[d] # "FAIL"
  BY <1>2 DEF DoctorInv
<1> QED
  BY <1>1, <1>3 DEF DoctorInv

LEMMA GoesOn ==
  ASSUME DoctorInv, Repairs, NEW step \in {"install", "verify", "print"}, Do!Goto(step),
         checking \in {"skills-ref", "install", "stale-pid"}
  PROVE  DoctorInv'
<1>1. Place(step) = 8 /\ Place(checking) = 8 /\ checking \notin Do!SkillFiles
      /\ step \notin Do!SkillFiles /\ step # "idle" /\ checking # "idle" /\ step # "remove"
  BY DEF Place, Do!SkillFiles
<1>2. checking' = step /\ UNCHANGED <<verdicts, changes, mended, touched, clean>>
  BY DEF Do!Goto, Do!history
<1> QED
  BY <1>1, <1>2, Goes

(* A check that only looks.                                                *)
LEMMA Looks ==
  ASSUME DoctorInv, Do!Step, NEW c \in Do!Checks, NEW status, checking = c,
         Do!Report(c, status), Sees(c, status)
  PROVE  DoctorInv'
<1>1. Repairs
  BY StepsRepair
<1>2. c # "idle"
  BY DEF Do!Checks
<1> QED
  BY <1>1, <1>2, Reports

LEMMA StepPreserves == DoctorInv /\ Do!Step => DoctorInv'
<1> SUFFICES ASSUME DoctorInv, Do!Step PROVE DoctorInv'
  OBVIOUS
<1>0. Repairs
  BY StepsRepair
<1>a. \A c \in Failing : clean => Fit(c)
  BY DEF DoctorInv
<1>b. Do!Checks = {"git", "gh", "gh-auth", "Config", "claude", "state-dir", "Skills", "event-store",
                   "dead-letters", "claude-auth", "success-rate", "skills-ref", "stale-pid"}
  BY DEF Do!Checks
<1>1. CASE Do!Look("git", Do!CheckTool("git"))
  <2>1. Sees("git", Do!CheckTool("git"))
    BY <1>1, <1>a DEF Sees, Do!Look, Do!CheckTool, Do!OKOr, Do!Statuses, Failing, Fit
  <2> QED
    BY <1>1, <1>b, <2>1, Looks DEF Do!Look
<1>2. CASE Do!Look("gh", Do!CheckTool("gh"))
  <2>1. Sees("gh", Do!CheckTool("gh"))
    BY <1>2, <1>a DEF Sees, Do!Look, Do!CheckTool, Do!OKOr, Do!Statuses, Failing, Fit
  <2> QED
    BY <1>2, <1>b, <2>1, Looks DEF Do!Look
<1>3. CASE Do!Look("gh-auth", Do!CheckGHAuth)
  <2>1. Sees("gh-auth", Do!CheckGHAuth)
    BY DEF Sees, Do!CheckGHAuth, Do!OKOr, Do!Statuses, Failing
  <2> QED
    BY <1>3, <1>b, <2>1, Looks DEF Do!Look
<1>4. CASE Do!Look("Config", Do!CheckConfig)
  <2>1. Sees("Config", Do!CheckConfig)
    BY <1>4, <1>a DEF Sees, Do!Look, Do!CheckConfig, Do!OKOr, Do!Statuses, Failing, Fit
  <2> QED
    BY <1>4, <1>b, <2>1, Looks DEF Do!Look
<1>5. CASE Do!Look("claude", Do!CheckTool("claude"))
  <2>1. Sees("claude", Do!CheckTool("claude"))
    BY <1>5, <1>a DEF Sees, Do!Look, Do!CheckTool, Do!OKOr, Do!Statuses, Failing, Fit
  <2> QED
    BY <1>5, <1>b, <2>1, Looks DEF Do!Look
<1>6. CASE Do!CheckStateDir
  <2>1. PICK status : /\ Do!Report("state-dir", status)
                      /\ \/ status = "FIX" /\ env'["state"] = "ok"
                         \/ status = Do!OKOr(env["state"] = "ok", "FAIL") /\ env' = env
    <3>1. "state" \in Do!Items
      BY DEF Do!Items, Do!Others
    <3> QED
      BY <1>6, <3>1 DEF Do!CheckStateDir, DoctorInv
  <2>2. clean => env["state"] = "ok" /\ env'["state"] = "ok"
    <3>1. clean => Fit("state-dir") /\ Fit("state-dir")'
      BY <1>0, <1>a, RepairsKeep DEF Failing, Safe
    <3> QED
      BY <3>1 DEF Fit
  <2>3. Sees("state-dir", status)
    BY <2>1, <2>2 DEF Sees, Do!OKOr, Do!Statuses, Failing, Fit, Do!InOrder
  <2> QED
    BY <1>6, <1>b, <2>1, <2>3, Looks DEF Do!CheckStateDir
<1>7. CASE Do!SkillsStep
  <2>1. /\ Do!CheckSkills \in {"OK", "FAIL"}
        /\ Do!CheckSkills = "OK" <=> Do!Broken = {}
    BY DEF Do!CheckSkills, Do!OKOr
  <2>2. clean => Do!Broken = {}
    BY <1>a DEF Failing, Fit
  <2>3. CASE Do!CheckSkills = "FAIL" /\ repair
    <3>1. checking = "Skills" /\ checking' = "dmail-readable" /\ faulty' = Do!Broken
          /\ UNCHANGED <<verdicts, changes, mended, touched, clean>>
      BY <1>7, <2>3 DEF Do!SkillsStep, Do!Begin
    <3>2. /\ Place("dmail-readable") = Place("Skills") /\ "Skills" \notin Do!SkillFiles
          /\ Do!Broken \subseteq Do!SkillFiles
      BY DEF Place, Do!SkillFiles, Do!Broken
    <3>3. "Skills" \notin mended
      BY <2>3 DEF DoctorInv, Do!InOrder
    <3>4. Do!Broken # {} /\ ~clean
      BY <2>1, <2>2, <2>3
    <3> QED
      BY <1>0, <3>1, <3>2, <3>3, <3>4, Goes
  <2>4. CASE ~(Do!CheckSkills = "FAIL" /\ repair)
    <3>1. Do!Report("Skills", Do!CheckSkills) /\ env' = env /\ checking = "Skills"
      BY <1>7, <2>4 DEF Do!SkillsStep
    <3>3. Do!Broken' = Do!Broken
      BY <3>1 DEF Do!Broken
    <3>2. Sees("Skills", Do!CheckSkills)
      BY <2>1, <2>2, <3>1, <3>3 DEF Sees, Do!Statuses, Failing, Fit
    <3> QED
      BY <1>b, <3>1, <3>2, Looks
  <2> QED
    BY <2>3, <2>4
<1>8. ASSUME NEW f \in Do!SkillFiles, NEW next \in {"dmail-sendable", "recheck"},
             Do!Install(f, next)
      PROVE  DoctorInv'
  <2>0. checking = f /\ ~clean /\ faulty \cap Do!SkillFiles # {} /\ "Skills" \notin mended
    BY <1>8 DEF Do!Install, DoctorInv
  <2>1. Place(f) = Place("Skills") /\ Place(next) = Place("Skills") /\ f # "idle"
    BY DEF Place, Do!SkillFiles
  <2>2. CASE Do!Goto(next) /\ env' = [Do!Made EXCEPT ![f] = "ok"]
    <3>1. \A g \in Do!SkillFiles : env'[g] \in {env[g], "ok"}
      <4>1. Do!SkillFiles \subseteq Do!Items \ {"state"}
        BY DEF Do!SkillFiles, Do!Items, Do!Others
      <4>2. \A g \in Do!Items \ {"state"} : Do!Made[g] = env[g]
        BY DEF DoctorInv, Do!Made
      <4>3. DOMAIN Do!Made = Do!Items
        BY DEF DoctorInv, Do!Made
      <4> QED
        BY <2>2, <4>1, <4>2, <4>3
    <3>2. Do!Broken' \subseteq Do!Broken
      BY <3>1 DEF Do!Broken
    <3>3. checking' = next /\ UNCHANGED <<verdicts, changes, mended, touched, clean, faulty>>
      BY <2>2 DEF Do!Goto, Do!history
    <3> QED
      BY <1>0, <2>0, <2>1, <3>2, <3>3, Goes
  <2>3. CASE Do!Report("Skills", "FAIL")
    <3>1. Sees("Skills", "FAIL")
      BY <2>0 DEF Sees, Do!Statuses, Failing
    <3> QED
      BY <1>0, <1>b, <2>0, <2>1, <2>3, <3>1, Reports
  <2> QED
    BY <1>8, <2>2, <2>3 DEF Do!Install
<1>9. CASE Do!Recheck
  <2> DEFINE status == IF Do!CheckSkills = "OK" THEN "FIX" ELSE "FAIL"
  <2>0. checking = "recheck" /\ Do!Report("Skills", status) /\ env' = env
    BY <1>9 DEF Do!Recheck
  <2>1. Place("recheck") = Place("Skills")
    BY DEF Place
  <2>2. Do!CheckSkills = "OK" <=> Do!Broken = {}
    BY DEF Do!CheckSkills, Do!OKOr
  <2>3. clean => Do!Broken = {}
    BY <1>a DEF Failing, Fit
  <2>5. Do!Broken' = Do!Broken
    BY <2>0 DEF Do!Broken
  <2>4. Sees("Skills", status)
    BY <2>0, <2>2, <2>3, <2>5
       DEF Sees, Do!Statuses, Failing, Fit, Do!InOrder, Do!CheckSkills, Do!OKOr
  <2> QED
    BY <1>0, <1>b, <2>0, <2>1, <2>4, Reports
<1>10. CASE Do!Look("event-store", Do!CheckEventStore)
  <2>1. Do!CheckEventStore = "OK" =>
          \A l \in Logs : env[l] \notin {"mixed", "corrupt", "unreadable"}
    <3> DEFINE corrupt == {l \in Logs : env[l] \in {"mixed", "corrupt"}}
               failing == {l \in Logs : env[l] = "unreadable"}
    <3>1. Do!CheckEventStore = "OK" =>
            [corrupt |-> corrupt, failed |-> failing] = [corrupt |-> {}, failed |-> {}]
      BY DEF Do!CheckEventStore, Do!ValidateStore, Do!OKOr
    <3>2. Do!CheckEventStore = "OK" => corrupt = {} /\ failing = {}
      BY <3>1
    <3> QED
      BY <3>2
  <2>2. Sees("event-store", Do!CheckEventStore)
    BY <1>10, <2>1 DEF Sees, Do!Look, Do!CheckEventStore, Do!OKOr, Do!Statuses, Failing
  <2> QED
    BY <1>10, <1>b, <2>2, Looks DEF Do!Look
<1>11. CASE Do!Look("dead-letters", Do!CheckDeadLetters)
  <2>1. Sees("dead-letters", Do!CheckDeadLetters)
    BY DEF Sees, Do!CheckDeadLetters, Do!OKOr, Do!Statuses, Failing
  <2> QED
    BY <1>11, <1>b, <2>1, Looks DEF Do!Look
<1>12. CASE Do!Look("claude-auth", Do!CheckClaudeAuth)
  <2>1. Sees("claude-auth", Do!CheckClaudeAuth)
    BY DEF Sees, Do!CheckClaudeAuth, Do!OKOr, Do!Statuses, Failing
  <2> QED
    BY <1>12, <1>b, <2>1, Looks DEF Do!Look
<1>13. CASE Do!Look("success-rate", "OK")
  <2>1. Sees("success-rate", "OK")
    BY DEF Sees, Do!Statuses, Failing
  <2> QED
    BY <1>13, <1>b, <2>1, Looks DEF Do!Look
<1>c. /\ \A step \in {"skills-ref", "install", "verify", "stale-pid", "remove", "print"} :
           Place(step) = 8
      /\ "skills-ref" \in Do!Items /\ "pid" \in Do!Items
  BY DEF Place, Do!Items, Do!Tools, Do!Others
<1>d. /\ Sees("skills-ref", "OK") /\ Sees("skills-ref", "WARN")
      /\ env'["skills-ref"] = "ok" => Sees("skills-ref", "FIX")
  BY DEF Sees, Do!Statuses, Failing, Do!InOrder
<1>14. CASE Do!CheckSkillsRefToolchain
  <2>1. checking = "skills-ref"
        /\ (Do!Report("skills-ref", "OK") \/ Do!Report("skills-ref", "WARN") \/ Do!Goto("install"))
    BY <1>14 DEF Do!CheckSkillsRefToolchain
  <2> QED
    BY <1>0, <1>b, <1>c, <1>d, <2>1, Looks, GoesOn
<1>15. CASE Do!InstallSkillsRef
  <2>1. checking = "install" /\ (Do!Report("skills-ref", "WARN") \/ Do!Goto("verify"))
    BY <1>15 DEF Do!InstallSkillsRef
  <2> QED
    BY <1>0, <1>b, <1>c, <1>d, <2>1, Reports, GoesOn
<1>16. CASE Do!VerifySkillsRef
  <2>1. /\ checking = "verify" /\ env' = env
        /\ \/ Do!Report("skills-ref", "WARN")
           \/ Do!Report("skills-ref", "FIX") /\ env["skills-ref"] = "ok"
    BY <1>16 DEF Do!VerifySkillsRef
  <2> QED
    BY <1>0, <1>b, <1>c, <1>d, <2>1, Reports
<1>17. CASE Do!ReadPID
  <2>1. /\ checking = "stale-pid" /\ env' = env
        /\ Do!Begin("remove", {"pid"}) \/ Do!Goto("print")
    BY <1>17 DEF Do!ReadPID
  <2>2. CASE Do!Begin("remove", {"pid"})
    <3>1. checking' = "remove" /\ faulty' = {"pid"}
          /\ UNCHANGED <<verdicts, changes, mended, touched, clean>>
      BY <2>2 DEF Do!Begin
    <3>2. checking \notin Do!SkillFiles /\ "remove" \notin Do!SkillFiles
      BY <2>1 DEF Do!SkillFiles
    <3> QED
      BY <1>0, <1>c, <2>1, <3>1, <3>2, Goes
  <2> QED
    BY <1>0, <2>1, <2>2, GoesOn
<1>18. CASE Do!RemovePID
  <2>1. checking = "remove" /\ Do!Report("stale-pid", "FIX")
    BY <1>18 DEF Do!RemovePID
  <2>2. env'["pid"] = "absent" \/ env'["state"] = "readonly"
    BY <1>18, <1>c DEF Do!RemovePID, DoctorInv
  <2>3. Sees("stale-pid", "FIX")
    BY <2>2 DEF Sees, Do!Statuses, Failing, Do!InOrder
  <2> QED
    BY <1>0, <1>b, <1>c, <2>1, <2>3, Reports
<1>19. CASE Do!PrintDoctor
  <2>1. /\ checking = "print" /\ checking' = "idle"
        /\ clean' = (Do!Exit = 0 /\ touched = {})
        /\ UNCHANGED <<env, verdicts, changes, mended, touched>>
    BY <1>19 DEF Do!PrintDoctor
  <2>2. ASSUME NEW c \in Failing, clean' PROVE Fit(c)
    <3>1. c \in Do!Checks /\ 8 > Place(c)
      BY DEF Failing, Place, Do!Checks
    <3>2. verdicts[c] \in {"OK", "FIX", "FAIL"}
      BY <1>c, <2>1, <3>1 DEF DoctorInv
    <3>3. verdicts[c] # "FAIL"
      <4>1. Do!Exit = 0
        BY <2>1, <2>2
      <4> QED
        BY <3>1, <4>1 DEF Do!Exit
    <3> QED
      BY <2>1, <2>2, <3>2, <3>3 DEF DoctorInv
  <2>3. \A c \in Failing : /\ (Fit(c) <=> Fit(c)')
                           /\ ~(Place(checking') > Place(c))
    <3>1. Do!Broken' = Do!Broken
      BY <2>1 DEF Do!Broken
    <3> QED
      BY <2>1, <3>1 DEF Failing, Fit, Place
  <2>4. \A c \in mended : Do!InOrder(c)'
    BY <1>0, RepairsKeep
  <2>5. checking' \notin Do!SkillFiles
    BY <2>1 DEF Do!SkillFiles
  <2> QED
    BY <2>1, <2>2, <2>3, <2>4, <2>5 DEF DoctorInv
<1> QED
  BY <1>1, <1>2, <1>3, <1>4, <1>5, <1>6, <1>7, <1>8, <1>9, <1>10, <1>11, <1>12, <1>13, <1>14,
     <1>15, <1>16, <1>17, <1>18, <1>19 DEF Do!Step, Do!SkillFiles

LEMMA DoctorPreserved ==
  ASSUME DoctorInv, Do!Next \/ UNCHANGED doctorVars
  PROVE  DoctorInv'
<1>1. ASSUME NEW flag \in BOOLEAN, Do!Start(flag) PROVE DoctorInv'
  <2>1. /\ checking' = "git" /\ touched' = {}
        /\ verdicts' = [c \in Do!Checks |-> None]
        /\ UNCHANGED <<env, changes, mended, clean>>
    BY <1>1 DEF Do!Start
  <2>2. None \notin Do!Statuses
    BY ServicesAssumption DEF Do!DoctorAssumption
  <2>3. /\ verdicts' \in [Do!Checks -> Do!Statuses \cup {None}]
        /\ \A c \in Do!Checks : verdicts'[c] \notin {"OK", "FIX", "FAIL"}
    BY <2>1, <2>2 DEF Do!Statuses
  <2>4. ASSUME NEW c \in Failing
        PROVE  c \in Do!Checks /\ ~(Place(checking') > Place(c)) /\ (Fit(c) <=> Fit(c)')
    <3>1. Do!Broken' = Do!Broken
      BY <2>1 DEF Do!Broken
    <3> QED
      BY <2>1, <3>1 DEF Failing, Place, Do!Checks, Fit
  <2>5. \A c \in mended : Do!InOrder(c)'
    <3>1. Repairs
      BY <2>1 DEF DoctorInv, Repairs
    <3> QED
      BY <3>1, RepairsKeep
  <2>6. "event-store" \in Do!Checks /\ "git" \notin Do!SkillFiles
    BY DEF Do!Checks, Do!SkillFiles
  <2> QED
    BY <2>1, <2>3, <2>4, <2>5, <2>6 DEF DoctorInv
<1>2. ASSUME NEW i \in Do!Items, NEW v \in Do!States[i], Do!Change(i, v) PROVE DoctorInv'
  <2> DEFINE new == {j \in Do!Items : env'[j] # env[j]}
  <2>1. /\ v # env[i] /\ env' = Do!With(env, i, v) /\ changes' = changes + 1
        /\ mended' = {c \in mended : Do!Concerns(c) \cap new = {}}
        /\ touched' = touched \cup new
        /\ clean' = FALSE /\ UNCHANGED <<checking, verdicts, faulty>>
    BY <1>2 DEF Do!Change
  <2>2. /\ env' = [j \in Do!Items |-> env'[j]] /\ \A j \in Do!Items : env'[j] \in Do!States[j]
        /\ env'[i] = v
    BY <2>1, WithIs DEF DoctorInv
  <2>3. touched' # {}
    BY <2>1, <2>2
  <2>4. \A j \in Do!Items : j \notin touched' => env'[j] = env[j] /\ j \notin touched
    BY <2>1
  <2>5. Do!SkillFiles \subseteq Do!Items /\ "pid" \in Do!Items /\ "state" \in Do!Items
        /\ "skills-ref" \in Do!Items /\ Logs \subseteq Do!Items
    BY DEF Do!Items, Do!Others, Do!Tools
  <2>6. ASSUME NEW c \in mended' PROVE Do!InOrder(c)'
    <3>1. /\ c \in {"state-dir", "Skills", "skills-ref", "stale-pid"} /\ Do!InOrder(c)
          /\ \A j \in Do!Concerns(c) : j \in Do!Items => env'[j] = env[j]
      BY <2>1 DEF DoctorInv
    <3>2. CASE c = "state-dir"
      BY <2>5, <3>1, <3>2 DEF Do!Concerns, Do!InOrder
    <3>3. CASE c = "Skills"
      <4>1. \A f \in Do!SkillFiles : env'[f] = env[f]
        BY <2>5, <3>1, <3>3 DEF Do!Concerns
      <4>2. Do!Broken' = Do!Broken
        BY <4>1 DEF Do!Broken
      <4> QED
        BY <3>1, <3>3, <4>2 DEF Do!InOrder, Do!CheckSkills, Do!OKOr
    <3>4. CASE c = "skills-ref"
      BY <2>5, <3>1, <3>4 DEF Do!Concerns, Do!InOrder
    <3>5. CASE c = "stale-pid"
      BY <2>5, <3>1, <3>5 DEF Do!Concerns, Do!InOrder
    <3> QED
      BY <3>1, <3>2, <3>3, <3>4, <3>5
  <2>7. /\ changes' \in Nat /\ mended' \subseteq {"state-dir", "Skills", "skills-ref", "stale-pid"}
        /\ verdicts' \in [Do!Checks -> Do!Statuses \cup {None}]
    BY <2>1 DEF DoctorInv
  <2>8. /\ checking' \in Do!SkillFiles =>
             faulty' \cap Do!SkillFiles # {} /\ "Skills" \notin mended'
        /\ checking' = "remove" => "pid" \in faulty'
        /\ verdicts'["event-store"] = "OK" /\ checking' # "idle" =>
             \A l \in Logs \ touched' : env'[l] \notin {"mixed", "corrupt", "unreadable"}
    BY <2>1, <2>4, <2>5 DEF DoctorInv
  <2> HIDE DEF new
  <2> QED
    BY <2>1, <2>2, <2>3, <2>6, <2>7, <2>8 DEF DoctorInv
<1>3. CASE UNCHANGED doctorVars
  <2>1. Repairs
    BY <1>3 DEF doctorVars, DoctorInv, Repairs
  <2>2. \A c \in Failing : Fit(c) <=> Fit(c)'
    <3>1. Do!Broken' = Do!Broken
      BY <1>3 DEF doctorVars, Do!Broken
    <3> QED
      BY <1>3, <3>1 DEF doctorVars, Failing, Fit
  <2>3. \A c \in mended : Do!InOrder(c)'
    BY <2>1, RepairsKeep
  <2> QED
    BY <1>3, <2>2, <2>3 DEF doctorVars, DoctorInv
<1> QED
  BY <1>1, <1>2, <1>3, StepPreserves DEF Do!Next

LEMMA CarefulRepairs ==
  ASSUME DoctorInv, Do!Next
  PROVE  Do!RepairsAreCareful
<1> SUFFICES ASSUME NEW i \in Do!Items, env'[i] # env[i], changes' = changes
             PROVE  \/ env[i] \notin Do!Healthy \/ i \in faulty
                    \/ env[i] = "custom" /\ faulty \cap Do!SkillFiles # {}
  BY DEF Do!RepairsAreCareful
<1>1. ASSUME Do!Step
      PROVE  \/ env[i] \notin Do!Healthy \/ i \in faulty
             \/ env[i] = "custom" /\ faulty \cap Do!SkillFiles # {}
  <2>1. \/ i = "state" /\ env[i] = "absent"
        \/ i \in Do!SkillFiles /\ checking \in Do!SkillFiles /\ env[i] # "ok"
        \/ i = "skills-ref" /\ env'[i] = "ok"
        \/ i = "pid" /\ checking = "remove" /\ env'[i] = "absent"
    BY <1>1, StepsRepair DEF Repairs
  <2>2. env[i] \in Do!States[i]
    BY DEF DoctorInv
  <2>3. /\ i = "skills-ref" => env[i] \in {"ok", "absent"}
        /\ i \in Do!SkillFiles => env[i] # "live"
        /\ i = "pid" => env[i] \in {"absent", "live", "dead"}
    BY <2>2, StatesAre DEF Do!Tools
  <2> QED
    BY <2>1, <2>3 DEF DoctorInv, Do!Healthy
<1>2. ASSUME NEW flag \in BOOLEAN, Do!Start(flag) PROVE FALSE
  BY <1>2 DEF Do!Start
<1>3. ASSUME NEW j \in Do!Items, NEW v \in Do!States[j], Do!Change(j, v) PROVE FALSE
  <2>1. changes' = changes + 1 /\ changes \in Nat
    BY <1>3 DEF Do!Change, DoctorInv
  <2> QED
    BY <2>1
<1> QED
  BY <1>1, <1>2, <1>3 DEF Do!Next

LEMMA DoctorHolds == DoctorInv => Do!VerdictsHold
<1> SUFFICES ASSUME DoctorInv PROVE Do!VerdictsHold
  OBVIOUS
<1>1. checking = "print" /\ clean => Do!Exit = 0
  BY DEF DoctorInv, Do!Exit
<1>2. ASSUME verdicts["event-store"] = "OK", checking # "idle",
             NEW l \in Logs \ (Do!LoadAllEvents \cup touched)
      PROVE  env[l] \in {"absent", "empty"} \/ (env[l] = "long" /\ l \in Flat)
  <2>1. l \in Do!Items /\ env[l] \notin {"mixed", "corrupt", "unreadable"}
    BY <1>2 DEF DoctorInv, Do!Items
  <2>2. env[l] \in {"ok", "absent", "mixed", "corrupt", "empty", "long", "unreadable"}
    BY <2>1, StatesAre DEF DoctorInv
  <2>3. env[l] # "ok" /\ (env[l] = "long" => l \in Flat)
    BY DEF Do!LoadAllEvents
  <2> QED
    BY <2>1, <2>2, <2>3
<1> QED
  BY <1>1, <1>2 DEF Do!VerdictsHold, DoctorInv

(* A repair leaves alone what is in order and mends what it says it has,   *)
(* and the doctor's verdicts agree with what is found later.               *)
THEOREM DoctorIsRightHolds == PartSpec => DoctorIsRight
<1>0. [PartNext]_partVars => Do!Next \/ UNCHANGED doctorVars
  BY OtherParts
<1>1. PartInit => DoctorInv
  BY DoctorInit
<1>2. DoctorInv /\ [PartNext]_partVars => DoctorInv'
  BY <1>0, DoctorPreserved
<1>3. DoctorInv => (part = "doctor" => Do!VerdictsHold)
  BY DoctorHolds
<1>4. DoctorInv /\ [PartNext]_partVars => [part = "doctor" => Do!RepairsAreCareful]_doctorVars
  BY <1>0, CarefulRepairs
<1> QED
  BY <1>1, <1>2, <1>3, <1>4, PTL DEF PartSpec, DoctorIsRight
----------------------------------------------------------------------------
(* Coding sessions.                                                        *)
SessionRecords ==
  [provider : Providers, status : Ss!Statuses, pid : ProviderIDs \cup {""},
   dir : {"", "repo"}, created : Nat]

Start(h) == [provider |-> h.provider, dir |-> h.dir, created |-> h.created]

(* A runner's record and its row have the start of their session.          *)
OfSession(h, b) == h # None => h \in SessionRecords /\ Start(h) = b

SessionInv ==
  /\ now \in Nat
  /\ held = [r \in Records |-> held[r]]
  /\ coded = [r \in Records |-> coded[r]]
  /\ begun = [r \in Records |-> begun[r]]
  /\ \A r \in Records : OfSession(held[r], begun[r]) /\ OfSession(coded[r], begun[r])

LEMMA SessionInit == PartInit => SessionInv
BY DEF PartInit, Ss!Init, SessionInv, OfSession

(* Other status and provider's ID leave the start as it is.                *)
Updated(h, status, id) == [[h EXCEPT !.status = status] EXCEPT !.pid = id]

LEMMA UpdatedIs ==
  ASSUME NEW h, h # None, NEW b, OfSession(h, b), NEW status \in Ss!Statuses
  PROVE  /\ h.pid \in ProviderIDs \cup {""}
         /\ OfSession([h EXCEPT !.status = status], b)
         /\ \A id \in ProviderIDs \cup {""} :
              OfSession([h EXCEPT !.pid = id], b) /\ OfSession(Updated(h, status, id), b)
BY DEF Updated, OfSession, SessionRecords, Start

(* A runner's record or its row is another of the same session.            *)
LEMMA OneRecord ==
  ASSUME SessionInv, NEW r \in Records, NEW h, OfSession(h, begun[r]),
         now' = now, begun' = begun,
         \/ held' = [held EXCEPT ![r] = h] /\ coded' = coded
         \/ coded' = [coded EXCEPT ![r] = h] /\ held' = held
  PROVE  SessionInv'
<1>1. CASE held' = [held EXCEPT ![r] = h] /\ coded' = coded
  <2>1. held' = [q \in Records |-> IF q = r THEN h ELSE held[q]]
    BY <1>1 DEF SessionInv
  <2>2. \A q \in Records : OfSession(held'[q], begun[q])
    BY <2>1 DEF SessionInv
  <2>3. held' = [q \in Records |-> held'[q]]
    BY <2>1
  <2> QED
    BY <1>1, <2>2, <2>3 DEF SessionInv
<1>2. CASE coded' = [coded EXCEPT ![r] = h] /\ held' = held
  <2>1. coded' = [q \in Records |-> IF q = r THEN h ELSE coded[q]]
    BY <1>2 DEF SessionInv
  <2>2. \A q \in Records : OfSession(coded'[q], begun[q])
    BY <2>1 DEF SessionInv
  <2>3. coded' = [q \in Records |-> coded'[q]]
    BY <2>1
  <2> QED
    BY <1>2, <2>2, <2>3 DEF SessionInv
<1> QED
  BY <1>1, <1>2

LEMMA SessionPreserved ==
  ASSUME SessionInv, Ss!Next \/ UNCHANGED sessionVars
  PROVE  SessionInv'
<1>a. ASSUME NEW r \in Records
      PROVE  OfSession(held[r], begun[r]) /\ OfSession(coded[r], begun[r])
  BY DEF SessionInv
<1>1. ASSUME NEW r \in Records, Ss!NewCodingSessionRecord(r) PROVE SessionInv'
  <2>1. PICK p \in Providers, dir \in {"", "repo"}, t \in Nat :
          /\ now' = t
          /\ begun' = [begun EXCEPT ![r] = [provider |-> p, dir |-> dir, created |-> t]]
          /\ held' = [held EXCEPT ![r] = [provider |-> p, status |-> "running", pid |-> "",
                                          dir |-> dir, created |-> t]]
    <3>1. now \in Nat /\ MaxTime \in Nat
      BY ServicesAssumption DEF Ss!SessionsAssumption, SessionInv
    <3>2. \A t \in now .. MaxTime : t \in Nat
      BY <3>1
    <3> QED
      BY <1>1, <3>2 DEF Ss!NewCodingSessionRecord
  <2> DEFINE b == [provider |-> p, dir |-> dir, created |-> t]
             h == [provider |-> p, status |-> "running", pid |-> "", dir |-> dir, created |-> t]
  <2>2. t \in Nat /\ now' = t /\ coded' = coded
    BY <1>1, <2>1 DEF Ss!NewCodingSessionRecord
  <2>3. OfSession(h, b)
    <3>1. h \in SessionRecords
      BY <2>2 DEF SessionRecords, Ss!Statuses
    <3>2. Start(h) = b
      BY DEF Start
    <3> QED
      BY <3>1, <3>2 DEF OfSession
  <2>4. coded[r] = None
    <3>1. coded[r] # None => Start(coded[r]) \in Ss!Starts /\ Start(coded[r]) = begun[r]
      BY <1>a DEF OfSession, SessionRecords, Start, Ss!Starts
    <3>2. begun[r] = None /\ None \notin Ss!Starts
      BY <1>1, ServicesAssumption DEF Ss!NewCodingSessionRecord, Ss!SessionsAssumption
    <3> QED
      BY <3>1, <3>2
  <2>5. /\ begun' = [q \in Records |-> IF q = r THEN b ELSE begun[q]]
        /\ held' = [q \in Records |-> IF q = r THEN h ELSE held[q]]
    BY <2>1 DEF SessionInv
  <2> HIDE DEF b, h
  <2>6. ASSUME NEW q \in Records
        PROVE  OfSession(held'[q], begun'[q]) /\ OfSession(coded'[q], begun'[q])
    <3>1. CASE q = r
      <4>1. held'[q] = h /\ begun'[q] = b /\ coded'[q] = None
        BY <2>2, <2>4, <2>5, <3>1
      <4>2. OfSession(None, b)
        BY DEF OfSession
      <4> QED
        BY <2>3, <4>1, <4>2
    <3>2. CASE q # r
      BY <1>a, <2>2, <2>5, <3>2
    <3> QED
      BY <3>1, <3>2
  <2>7. /\ held' = [q \in Records |-> held'[q]]
        /\ begun' = [q \in Records |-> begun'[q]]
    BY <2>5
  <2> QED
    BY <2>2, <2>6, <2>7 DEF SessionInv
<1>2. ASSUME NEW r \in Records, Ss!Complete(r) PROVE SessionInv'
  <2>1. PICK id \in ProviderIDs :
          held' = [held EXCEPT ![r].status = "completed", ![r].pid = id]
    BY <1>2 DEF Ss!Complete
  <2>2. held' = [held EXCEPT ![r] = Updated(held[r], "completed", id)]
    BY <2>1 DEF SessionInv, Updated
  <2>3. OfSession(Updated(held[r], "completed", id), begun[r])
    BY <1>2, <1>a, UpdatedIs DEF Ss!Complete, Ss!Running, Ss!Statuses
  <2> QED
    BY <1>2, <2>2, <2>3, OneRecord DEF Ss!Complete
<1>3. ASSUME NEW r \in Records, Ss!Fail(r) PROVE SessionInv'
  <2>1. held' = [held EXCEPT ![r] = [held[r] EXCEPT !.status = "failed"]]
    BY <1>3 DEF SessionInv, Ss!Fail
  <2>2. held[r] # None /\ "failed" \in Ss!Statuses
    BY <1>3 DEF Ss!Fail, Ss!Running, Ss!Statuses
  <2>3. OfSession([held[r] EXCEPT !.status = "failed"], begun[r])
    BY <1>a, <2>2, UpdatedIs
  <2> QED
    BY <1>3, <2>1, <2>3, OneRecord DEF Ss!Fail
<1>5. ASSUME NEW r \in Records, Ss!Save(r) PROVE SessionInv'
  <2>1. PICK id \in ProviderIDs \cup {held[r].pid} :
          coded' = [coded EXCEPT ![r] = [held[r] EXCEPT !.pid = id]]
    BY <1>5 DEF Ss!Save
  <2>2. held[r] # None /\ "failed" \in Ss!Statuses
    BY <1>5 DEF Ss!Save, Ss!Statuses
  <2>3. held[r].pid \in ProviderIDs \cup {""}
    BY <1>a, <2>2, UpdatedIs
  <2>4. OfSession([held[r] EXCEPT !.pid = id], begun[r])
    BY <1>a, <2>2, <2>3, UpdatedIs
  <2> QED
    BY <1>5, <2>1, <2>4, OneRecord DEF Ss!Save
<1>6. ASSUME NEW r \in Records, Ss!UpdateStatus(r) PROVE SessionInv'
  <2>1. PICK status \in Ss!Statuses, id \in ProviderIDs \cup {""} :
          coded' = [coded EXCEPT ![r].status = status, ![r].pid = id]
    BY <1>6 DEF Ss!UpdateStatus
  <2>2. coded' = [coded EXCEPT ![r] = Updated(coded[r], status, id)]
    BY <2>1 DEF SessionInv, Updated
  <2>3. OfSession(Updated(coded[r], status, id), begun[r])
    BY <1>6, <1>a, UpdatedIs DEF Ss!UpdateStatus
  <2> QED
    BY <1>6, <2>2, <2>3, OneRecord DEF Ss!UpdateStatus
<1>7. CASE UNCHANGED sessionVars
  BY <1>7 DEF SessionInv, sessionVars
<1> QED
  BY <1>1, <1>2, <1>3, <1>5, <1>6, <1>7 DEF Ss!Next

(* Each instance has FiniteSets' operators under names of its own.         *)
LEMMA SizeInSessions ==
  ASSUME NEW S
  PROVE  /\ Ss!IsFiniteSet(S) <=> IsFiniteSet(S)
         /\ Ss!Cardinality(S) = Cardinality(S)
<1>1. Ss!IsFiniteSet(S) <=> IsFiniteSet(S)
  BY DEF Ss!IsFiniteSet, IsFiniteSet
<1>2. Ss!Cardinality(S) = Cardinality(S)
  BY DEF Ss!Cardinality, Cardinality
<1> QED
  BY <1>1, <1>2

(* Of two times the texts are in order, unless the fraction of the later   *)
(* one begins with that of the earlier.                                    *)
LEMMA TextsInOrder ==
  ASSUME NEW s \in Nat, NEW t \in Nat, s < t, ~Ss!TextLess(s, t)
  PROVE  /\ Ss!Second(s) = Ss!Second(t)
         /\ \A i \in DOMAIN Ss!Fraction(s) :
              i \in DOMAIN Ss!Fraction(t) /\ Ss!Fraction(t)[i] = Ss!Fraction(s)[i]
<1>1. Ss!Second(s) <= Ss!Second(t) /\ Ss!Second(s) \in Nat /\ Ss!Second(t) \in Nat
  BY DEF Ss!Second
<1>2. Ss!Second(s) = Ss!Second(t)
  <2>1. ~(Ss!Second(s) < Ss!Second(t))
    BY DEF Ss!TextLess
  <2> QED
    BY <1>1, <2>1
<1>3. /\ s % 4 \in 0 .. 3 /\ t % 4 \in 0 .. 3
      /\ s % 4 < t % 4
  BY <1>2 DEF Ss!Second
<1>4. \A u \in Nat : /\ u % 4 = 0 => Ss!Fraction(u) = <<>>
                     /\ u % 4 = 1 => Ss!Fraction(u) = <<2>>
                     /\ u % 4 = 2 => Ss!Fraction(u) = <<2, 5>>
                     /\ u % 4 = 3 => Ss!Fraction(u) = <<5>>
  BY DEF Ss!Fraction, Ss!Fractions
<1>5. CASE s % 4 = 0
  BY <1>2, <1>4, <1>5
<1>6. CASE s % 4 = 1 /\ t % 4 = 2
  BY <1>2, <1>4, <1>6
<1>7. CASE s % 4 \in {1, 2} /\ t % 4 = 3
  <2>1. /\ 1 <= Len(Ss!Fraction(s)) /\ Ss!Fraction(s)[1] = 2
        /\ 1 <= Len(Ss!Fraction(t)) /\ Ss!Fraction(t)[1] = 5
    BY <1>4, <1>7
  <2>2. Ss!TextLess(s, t)
    BY <1>2, <2>1 DEF Ss!TextLess
  <2> QED
    BY <2>2
<1> QED
  BY <1>3, <1>5, <1>6, <1>7

LEMMA EnteredAndShown == SessionInv => Ss!StartIsKept /\ Ss!LatestIsRecent
<1> SUFFICES ASSUME SessionInv PROVE Ss!StartIsKept /\ Ss!LatestIsRecent
  OBVIOUS
<1>a. ASSUME NEW r \in Ss!Rows
      PROVE  coded[r] \in SessionRecords /\ Start(coded[r]) = begun[r]
             /\ begun[r].created = coded[r].created /\ begun[r].dir = coded[r].dir
             /\ coded[r].created \in Nat
  <2>1. coded[r] \in SessionRecords /\ Start(coded[r]) = begun[r]
    BY DEF SessionInv, OfSession, Ss!Rows
  <2>2. coded[r].created \in Nat
    BY <2>1 DEF SessionRecords
  <2>3. /\ Start(coded[r]).created = coded[r].created
        /\ Start(coded[r]).dir = coded[r].dir
    BY DEF Start
  <2> QED
    BY <2>1, <2>2, <2>3
<1>1. ASSUME NEW r \in Ss!Rows, NEW q \in Ss!Rows, ~Ss!TextLess(coded[r].created, coded[q].created)
      PROVE  ~Ss!ClearlyLater(q, r)
  BY <1>1, <1>a, TextsInOrder DEF Ss!ClearlyLater
<1>2. Ss!StartIsKept
  <2>1. Ss!EnterRecord \subseteq {r \in Ss!Rows : Ss!Enterable(r)}
    BY DEF Ss!EnterRecord
  <2>2. \A id \in ProviderIDs : Ss!EnterLatest(id) \subseteq {r \in Ss!Rows : Ss!Enterable(r)}
    BY DEF Ss!EnterLatest, Ss!LatestByProviderSessionID, Ss!Last, Ss!FindByProviderSessionID
  <2>3. \A r \in Ss!Rows : Ss!Enterable(r) => begun[r].dir # "" /\ coded[r].dir = begun[r].dir
    BY <1>a DEF Ss!Enterable
  <2> QED
    BY <1>a, <2>1, <2>2, <2>3 DEF Ss!StartIsKept, Start
<1>3. ASSUME NEW id \in ProviderIDs, NEW r \in Ss!EnterLatest(id),
             NEW q \in Ss!FindByProviderSessionID("claude-code", id)
      PROVE  ~Ss!ClearlyLater(q, r)
  <2>1. r \in Ss!Rows /\ q \in Ss!Rows /\ ~Ss!TextLess(coded[r].created, coded[q].created)
    BY <1>3 DEF Ss!EnterLatest, Ss!LatestByProviderSessionID, Ss!Last, Ss!FindByProviderSessionID
  <2> QED
    BY <1>1, <2>1
<1>5. ASSUME NEW statuses, NEW n, NEW S \in Ss!List(statuses, n),
             NEW r \in S, NEW q \in Ss!Having(statuses) \ S
      PROVE  ~Ss!ClearlyLater(q, r)
  <2>1. r \in Ss!Rows /\ q \in Ss!Rows /\ ~Ss!TextLess(coded[r].created, coded[q].created)
    BY <1>5 DEF Ss!List, Ss!Having
  <2> QED
    BY <1>1, <2>1

(* The list of one row is all there is, or one that no other is behind.    *)
<1>4. ASSUME NEW r \in Ss!ApplyLatestProviderMetadata, NEW q \in Ss!Rows
      PROVE  ~Ss!ClearlyLater(q, r)
  <2> DEFINE found == Ss!Having(Ss!Statuses)
  <2>0. PICK S \in Ss!List(Ss!Statuses, 1) : r \in S
    BY <1>4 DEF Ss!ApplyLatestProviderMetadata
  <2>1. /\ S \in SUBSET found
        /\ Ss!Cardinality(S) = IF Ss!Cardinality(found) < 1 THEN Ss!Cardinality(found) ELSE 1
    BY <2>0 DEF Ss!List
  <2>2. Cardinality(S) = IF Cardinality(found) < 1 THEN Cardinality(found) ELSE 1
    BY <2>1, SizeInSessions
  <2>3. q \in found /\ r \in Ss!Rows
    BY <1>a, <2>0, <2>1 DEF SessionRecords, Ss!Having
  <2>4. IsFiniteSet(found) /\ IsFiniteSet(S)
    <3>1. IsFiniteSet(Records)
      BY ServicesAssumption, SizeInSessions DEF Ss!SessionsAssumption
    <3>2. found \in SUBSET Records
      BY DEF Ss!Having, Ss!Rows
    <3>3. IsFiniteSet(found)
      BY <3>1, <3>2, FS_Subset
    <3> QED
      BY <2>1, <3>3, FS_Subset
  <2>5. Cardinality(S) \in Nat /\ Cardinality(found) \in Nat
    BY <2>4, FS_CardinalityType
  <2>6. Cardinality(S) = 1
    <3>1. Cardinality(S) # 0
      BY <2>0, <2>4, FS_EmptySet
    <3> QED
      BY <2>2, <2>5, <3>1
  <2>7. S = {r}
    BY <2>0, <2>4, <2>6, FS_Singleton
  <2>8. CASE q \in S
    <3>1. q = r /\ begun[r].created \in Nat
      BY <1>a, <2>3, <2>7, <2>8
    <3> QED
      BY <3>1 DEF Ss!ClearlyLater
  <2>9. CASE q \notin S
    BY <1>5, <2>0, <2>3, <2>9
  <2> QED
    BY <2>8, <2>9
<1> QED
  BY <1>2, <1>3, <1>4, <1>5 DEF Ss!LatestIsRecent

(* Whatever the callers of the store write, and however late: a coding     *)
(* session is resumed where it was begun, and none was begun clearly later *)
(* than the one that is entered by its provider's ID or shown.             *)
THEOREM SessionsAreKeptHolds == PartSpec => []SessionsAreKept
<1>0. [PartNext]_partVars => Ss!Next \/ UNCHANGED sessionVars
  BY OtherParts
<1>1. PartInit => SessionInv
  BY SessionInit
<1>2. SessionInv /\ [PartNext]_partVars => SessionInv'
  BY <1>0, SessionPreserved
<1>3. SessionInv => SessionsAreKept
  BY EnteredAndShown DEF SessionsAreKept
<1> QED
  BY <1>1, <1>2, <1>3, PTL DEF PartSpec
---------------------------------------------------------------------------
(* Corrections.                                                            *)
Entry == Seq(Words)

(* Appending to a history reads as a fold.                                 *)
AppendStep == [q \in Seq(Entry) \X Entry |-> Cr!AppendHistory(q[1], q[2])]

LEMMA AppendHistoryType ==
  ASSUME NEW h \in Seq(Entry), NEW e \in Entry
  PROVE  Cr!AppendHistory(h, e) \in Seq(Entry) /\ AppendStep[<<h, e>>] = Cr!AppendHistory(h, e)
<1>1. Cr!AppendHistory(h, e) \in Seq(Entry)
  BY DEF Cr!AppendHistory
<1> QED
  BY <1>1 DEF AppendStep

LEMMA AppendStepType == AppendStep \in Steps(Seq(Entry), Entry)
<1>1. ASSUME NEW q \in Seq(Entry) \X Entry PROVE Cr!AppendHistory(q[1], q[2]) \in Seq(Entry)
  BY AppendHistoryType
<1> QED
  BY <1>1 DEF AppendStep, Steps

LEMMA NormalizeIsFold ==
  ASSUME NEW es \in Seq(Entry)
  PROVE  Cr!NormalizeHistory(es) = Fold(es, <<>>, AppendStep) /\ Cr!NormalizeHistory(es) \in Seq(Entry)
<1> DEFINE none == <<>>
           N == Len(es)
           Is(f) == f = [i \in 0 .. N |-> IF i = 0 THEN none ELSE Cr!AppendHistory(f[i - 1], es[i])]
           made == CHOOSE f : Is(f)
<1>1. N \in Nat /\ none \in Seq(Entry)
  OBVIOUS
<1> HIDE DEF none
<1>2. Cr!NormalizeHistory(es) = made[N]
  BY DEF Cr!NormalizeHistory, none
<1>3. PICK f : /\ IsFold(f, es, none, AppendStep) /\ Reads(f, es, none, AppendStep, Len(es))
               /\ f \in [0 .. N -> Seq(Entry)] /\ f[N] = Fold(es, none, AppendStep)
  BY <1>1, AppendStepType, FoldType
<1>4. Is(f)
  <2>1. ASSUME NEW i \in 0 .. N
        PROVE  f[i] = IF i = 0 THEN none ELSE Cr!AppendHistory(f[i - 1], es[i])
    <3>1. CASE i = 0
      BY <1>3, <3>1 DEF Reads
    <3>2. CASE i # 0
      <4>1. i \in 1 .. N /\ i - 1 \in 0 .. N
        BY <1>1, <3>2
      <4>2. f[i] = AppendStep[<<f[i - 1], es[i]>>] /\ f[i - 1] \in Seq(Entry) /\ es[i] \in Entry
        <5>1. f[i] = AppendStep[<<f[i - 1], es[i]>>]
          BY <1>3, <4>1 DEF Reads
        <5>2. f[i - 1] \in Seq(Entry)
          BY <1>3, <4>1
        <5>3. es[i] \in Entry
          BY <4>1
        <5> QED
          BY <5>1, <5>2, <5>3
      <4> QED
        BY <3>2, <4>2, AppendHistoryType
    <3> QED
      BY <3>1, <3>2
  <2> QED
    BY <1>3, <2>1
<1>5. Is(made)
  <2> HIDE DEF Is
  <2> QED
    BY <1>4
<1> HIDE DEF made
<1>6. made[0] = none /\ \A i \in 1 .. N : made[i] = Cr!AppendHistory(made[i - 1], es[i])
  BY <1>1, <1>5
<1>7. ASSUME NEW i \in 1 .. N, made[i - 1] \in Seq(Entry)
      PROVE  made[i] = AppendStep[<<made[i - 1], es[i]>>]
  <2>1. es[i] \in Entry
    OBVIOUS
  <2> QED
    BY <1>6, <1>7, <2>1, AppendHistoryType
<1>8. made[N] = Fold(es, none, AppendStep) /\ Fold(es, none, AppendStep) \in Seq(Entry)
  BY <1>1, <1>6, <1>7, AppendStepType, FoldIs
<1> QED
  BY <1>2, <1>8 DEF none

LEMMA NormalizeByAppend ==
  /\ Cr!NormalizeHistory(<<>>) = <<>>
  /\ \A es \in Seq(Entry), e \in Entry :
       /\ Cr!NormalizeHistory(es) \in Seq(Entry)
       /\ Cr!NormalizeHistory(Append(es, e)) = Cr!AppendHistory(Cr!NormalizeHistory(es), e)
<1> DEFINE none == <<>>
<1>1. Cr!NormalizeHistory(<<>>) = <<>>
  <2>1. <<>> \in Seq(Entry)
    OBVIOUS
  <2> QED
    BY <2>1, NormalizeIsFold, FoldEmpty
<1>2. ASSUME NEW es \in Seq(Entry), NEW e \in Entry
      PROVE  /\ Cr!NormalizeHistory(es) \in Seq(Entry)
             /\ Cr!NormalizeHistory(Append(es, e)) = Cr!AppendHistory(Cr!NormalizeHistory(es), e)
  <2>1. Append(es, e) \in Seq(Entry)
    OBVIOUS
  <2> HIDE DEF none
  <2>2. Cr!NormalizeHistory(Append(es, e)) = Fold(Append(es, e), none, AppendStep)
        /\ Cr!NormalizeHistory(es) = Fold(es, none, AppendStep)
        /\ Cr!NormalizeHistory(es) \in Seq(Entry)
    BY <2>1, NormalizeIsFold DEF none
  <2>3. Fold(Append(es, e), none, AppendStep) = AppendStep[<<Fold(es, none, AppendStep), e>>]
    BY FoldAppend
  <2> QED
    BY <2>2, <2>3, AppendHistoryType
<1> QED
  BY <1>1, <1>2

(* A history as the code keeps it: no entry is empty or repeats the last.  *)
Normal(h) ==
  /\ h \in Seq(Entry)
  /\ \A i \in 1 .. Len(h) : h[i] # <<>>
  /\ \A i \in 1 .. Len(h) - 1 : h[i] # h[i + 1]

Without(e, w) == \A j \in 1 .. Len(e) : e[j] # w

(* No entry has the word.                                                  *)
Free(h, w) == \A i \in 1 .. Len(h) : Without(h[i], w)

LEMMA AppendIsNormal ==
  ASSUME NEW h, Normal(h), NEW e \in Entry
  PROVE  /\ Normal(Cr!AppendHistory(h, e))
         /\ \A w : Free(h, w) /\ Without(e, w) => Free(Cr!AppendHistory(h, e), w)
<1>1. h \in Seq(Entry) /\ Len(h) \in Nat
  BY DEF Normal
<1>2. CASE Cr!AppendHistory(h, e) = h
  BY <1>2
<1>3. CASE Cr!AppendHistory(h, e) # h
  <2>1. /\ Cr!AppendHistory(h, e) = Append(h, e) /\ e # <<>>
        /\ h # <<>> => h[Len(h)] # e
    BY <1>3 DEF Cr!AppendHistory
  <2> DEFINE g == Append(h, e)
  <2>2. g \in Seq(Entry) /\ Len(g) = Len(h) + 1 /\ g[Len(h) + 1] = e
        /\ \A i \in 1 .. Len(h) : g[i] = h[i]
    BY <1>1
  <2> HIDE DEF g
  <2>3. ASSUME NEW i \in 1 .. Len(g) PROVE g[i] # <<>>
    <3>1. CASE i = Len(h) + 1
      BY <2>1, <2>2, <3>1
    <3>2. CASE i # Len(h) + 1
      <4>1. i \in 1 .. Len(h)
        BY <1>1, <2>2, <3>2
      <4> QED
        BY <2>2, <4>1 DEF Normal
    <3> QED
      BY <3>1, <3>2
  <2>4. ASSUME NEW i \in 1 .. Len(g) - 1 PROVE g[i] # g[i + 1]
    <3>0. i \in 1 .. Len(h)
      BY <1>1, <2>2
    <3>1. CASE i = Len(h)
      <4>1. h # <<>>
        BY <1>1, <3>0
      <4> QED
        BY <2>1, <2>2, <3>0, <3>1, <4>1
    <3>2. CASE i # Len(h)
      <4>1. i \in 1 .. Len(h) - 1 /\ i + 1 \in 1 .. Len(h)
        BY <1>1, <3>0, <3>2
      <4> QED
        BY <2>2, <3>0, <4>1 DEF Normal
    <3> QED
      BY <3>1, <3>2
  <2>5. ASSUME NEW w, Free(h, w), Without(e, w) PROVE Free(g, w)
    <3>1. ASSUME NEW i \in 1 .. Len(g) PROVE Without(g[i], w)
      <4>1. CASE i = Len(h) + 1
        BY <2>2, <2>5, <4>1
      <4>2. CASE i # Len(h) + 1
        <5>1. i \in 1 .. Len(h)
          BY <1>1, <2>2, <4>2
        <5> QED
          BY <2>2, <2>5, <5>1 DEF Free
      <4> QED
        BY <4>1, <4>2
    <3> QED
      BY <3>1 DEF Free
  <2>6. Normal(g)
    BY <2>2, <2>3, <2>4 DEF Normal
  <2> QED
    BY <2>1, <2>5, <2>6 DEF g
<1> QED
  BY <1>2, <1>3

LEMMA FreeAppend ==
  ASSUME NEW h \in Seq(Entry), NEW e \in Entry, NEW w
  PROVE  Free(Append(h, e), w) <=> Free(h, w) /\ Without(e, w)
<1> DEFINE g == Append(h, e)
<1>1. Len(h) \in Nat /\ Len(g) = Len(h) + 1 /\ g[Len(h) + 1] = e
      /\ \A i \in 1 .. Len(h) : g[i] = h[i]
  OBVIOUS
<1> HIDE DEF g
<1>2. ASSUME Free(g, w) PROVE Free(h, w) /\ Without(e, w)
  <2>1. \A i \in 1 .. Len(h) : i \in 1 .. Len(g)
    BY <1>1
  <2>2. Len(h) + 1 \in 1 .. Len(g)
    BY <1>1
  <2> QED
    BY <1>1, <1>2, <2>1, <2>2 DEF Free
<1>3. ASSUME Free(h, w), Without(e, w) PROVE Free(g, w)
  <2>1. ASSUME NEW i \in 1 .. Len(g) PROVE Without(g[i], w)
    <3>1. CASE i = Len(h) + 1
      BY <1>1, <1>3, <3>1
    <3>2. CASE i # Len(h) + 1
      <4>1. i \in 1 .. Len(h)
        BY <1>1, <3>2
      <4> QED
        BY <1>1, <1>3, <4>1 DEF Free
    <3> QED
      BY <3>1, <3>2
  <2> QED
    BY <2>1 DEF Free
<1> QED
  BY <1>2, <1>3 DEF g

LEMMA NormalAppend ==
  ASSUME NEW h \in Seq(Entry), NEW e \in Entry, Normal(Append(h, e))
  PROVE  Normal(h) /\ Cr!AppendHistory(h, e) = Append(h, e) /\ e # <<>>
<1> DEFINE g == Append(h, e)
<1>1. Len(h) \in Nat /\ Len(g) = Len(h) + 1 /\ g[Len(h) + 1] = e
      /\ \A i \in 1 .. Len(h) : g[i] = h[i]
  OBVIOUS
<1> HIDE DEF g
<1>2. /\ \A i \in 1 .. Len(g) : g[i] # <<>>
      /\ \A i \in 1 .. Len(g) - 1 : g[i] # g[i + 1]
  BY DEF Normal, g
<1>3. e # <<>>
  <2>1. Len(h) + 1 \in 1 .. Len(g)
    BY <1>1
  <2> QED
    BY <1>1, <1>2, <2>1
<1>4. h # <<>> => h[Len(h)] # e
  <2> SUFFICES ASSUME h # <<>> PROVE h[Len(h)] # e
    OBVIOUS
  <2>1. Len(h) \in 1 .. Len(g) - 1 /\ Len(h) \in 1 .. Len(h)
    BY <1>1
  <2> QED
    BY <1>1, <1>2, <2>1
<1>5. Normal(h)
  <2>1. ASSUME NEW i \in 1 .. Len(h) PROVE h[i] # <<>>
    <3>1. i \in 1 .. Len(g)
      BY <1>1
    <3> QED
      BY <1>1, <1>2, <3>1
  <2>2. ASSUME NEW i \in 1 .. Len(h) - 1 PROVE h[i] # h[i + 1]
    <3>1. i \in 1 .. Len(g) - 1 /\ i \in 1 .. Len(h) /\ i + 1 \in 1 .. Len(h)
      BY <1>1
    <3> QED
      BY <1>1, <1>2, <3>1
  <2> QED
    BY <2>1, <2>2 DEF Normal
<1> QED
  BY <1>3, <1>4, <1>5 DEF Cr!AppendHistory

LEMMA NormalizeIsNormal ==
  ASSUME NEW es \in Seq(Entry)
  PROVE  /\ Normal(Cr!NormalizeHistory(es))
         /\ \A w \in Words : Free(es, w) => Free(Cr!NormalizeHistory(es), w)
<1> DEFINE T == {h \in Seq(Entry) : /\ Normal(Cr!NormalizeHistory(h))
                                    /\ \A w \in Words : Free(h, w) => Free(Cr!NormalizeHistory(h), w)}
<1>1. <<>> \in T
  <2>1. <<>> \in Seq(Entry) /\ Normal(<<>>) /\ \A w \in Words : Free(<<>>, w)
    BY DEF Normal, Free
  <2> QED
    BY <2>1, NormalizeByAppend
<1>2. ASSUME NEW h \in Seq(Entry), h \in T, NEW e \in Entry PROVE Append(h, e) \in T
  <2>1. /\ Cr!NormalizeHistory(Append(h, e)) = Cr!AppendHistory(Cr!NormalizeHistory(h), e)
        /\ Append(h, e) \in Seq(Entry)
    BY NormalizeByAppend
  <2>2. /\ Normal(Cr!NormalizeHistory(h))
        /\ \A w \in Words : Free(h, w) => Free(Cr!NormalizeHistory(h), w)
    BY <1>2
  <2>3. Normal(Cr!NormalizeHistory(Append(h, e)))
    BY <2>1, <2>2, AppendIsNormal
  <2>4. ASSUME NEW w \in Words, Free(Append(h, e), w)
        PROVE  Free(Cr!NormalizeHistory(Append(h, e)), w)
    <3>1. Free(h, w) /\ Without(e, w)
      BY <2>4, FreeAppend
    <3> QED
      BY <2>1, <2>2, <3>1, AppendIsNormal
  <2> QED
    BY <2>1, <2>3, <2>4
<1> HIDE DEF T
<1>3. es \in T
  BY <1>1, <1>2, SequencesByAppend
<1> QED
  BY <1>3 DEF T

(* Normal histories are what they are made into.                           *)
LEMMA NormalStays ==
  ASSUME NEW h, Normal(h) PROVE Cr!NormalizeHistory(h) = h
<1> DEFINE T == {g \in Seq(Entry) : Normal(g) => Cr!NormalizeHistory(g) = g}
<1>1. <<>> \in T
  <2>1. <<>> \in Seq(Entry)
    OBVIOUS
  <2> QED
    BY <2>1, NormalizeByAppend
<1>2. ASSUME NEW g \in Seq(Entry), g \in T, NEW e \in Entry PROVE Append(g, e) \in T
  <2>1. /\ Cr!NormalizeHistory(Append(g, e)) = Cr!AppendHistory(Cr!NormalizeHistory(g), e)
        /\ Append(g, e) \in Seq(Entry)
    BY NormalizeByAppend
  <2>2. ASSUME Normal(Append(g, e)) PROVE Cr!NormalizeHistory(Append(g, e)) = Append(g, e)
    <3>1. Normal(g) /\ Cr!AppendHistory(g, e) = Append(g, e)
      BY <2>2, NormalAppend
    <3>2. Cr!NormalizeHistory(g) = g
      BY <1>2, <3>1
    <3> QED
      BY <2>1, <3>1, <3>2
  <2> QED
    BY <2>1, <2>2
<1> HIDE DEF T
<1>3. h \in T
  BY <1>1, <1>2, SequencesByAppend DEF Normal
<1> QED
  BY <1>3 DEF T

(* Splitting reads as a fold, too.                                         *)
Parts == {h \in Seq(Entry) : h # <<>>}

Splitting(h, x, d) == IF x = d THEN Append(h, <<>>) ELSE [h EXCEPT ![Len(h)] = Append(@, x)]

SplitStep(d) == [q \in Parts \X Words |-> Splitting(q[1], q[2], d)]

LEMMA ExtendLast ==
  ASSUME NEW h \in Parts, NEW e \in Entry
  PROVE  LET g == [h EXCEPT ![Len(h)] = e]
         IN  /\ g \in Parts /\ Len(g) = Len(h) /\ Len(h) \in 1 .. Len(h) /\ g[Len(h)] = e
             /\ \A i \in 1 .. Len(h) : i # Len(h) => g[i] = h[i]
<1> DEFINE n == Len(h)
           g == [h EXCEPT ![n] = e]
<1>1. n \in 1 .. Len(h) /\ h \in Seq(Entry)
  BY DEF Parts
<1> HIDE DEF n
<1>2. /\ g \in Seq(Entry) /\ Len(g) = Len(h)
      /\ \A j \in 1 .. Len(h) : g[j] = IF j = n THEN e ELSE h[j]
  BY <1>1, ExceptSeq
<1> HIDE DEF g
<1>3. g # <<>>
  BY <1>1, <1>2
<1>4. g \in Parts
  BY <1>2, <1>3 DEF Parts
<1> QED
  BY <1>1, <1>2, <1>4, Zenon DEF n, g

LEMMA SplittingType ==
  ASSUME NEW h \in Parts, NEW x \in Words, NEW d
  PROVE  Splitting(h, x, d) \in Parts /\ SplitStep(d)[<<h, x>>] = Splitting(h, x, d)
<1>1. CASE x = d
  <2>1. Append(h, <<>>) \in Seq(Entry) /\ Append(h, <<>>) # <<>>
    BY DEF Parts, Entry
  <2> QED
    BY <1>1, <2>1 DEF Splitting, Parts, SplitStep
<1>2. CASE x # d
  <2>1. h[Len(h)] \in Entry
    BY DEF Parts
  <2>2. Append(h[Len(h)], x) \in Entry
    BY <2>1 DEF Entry
  <2>3. [h EXCEPT ![Len(h)] = Append(h[Len(h)], x)] \in Parts
    BY <2>2, ExtendLast
  <2>4. Splitting(h, x, d) \in Parts
    BY <1>2, <2>3 DEF Splitting
  <2> QED
    BY <2>4 DEF SplitStep
<1> QED
  BY <1>1, <1>2

LEMMA SplitStepType ==
  ASSUME NEW d PROVE SplitStep(d) \in Steps(Parts, Words)
<1>1. ASSUME NEW q \in Parts \X Words PROVE Splitting(q[1], q[2], d) \in Parts
  BY SplittingType
<1> QED
  BY <1>1 DEF SplitStep, Steps

OnePart == <<<<>>>>

LEMMA OnePartType == OnePart \in Parts /\ Len(OnePart) = 1 /\ OnePart[1] = <<>>
  BY DEF OnePart, Parts, Entry

LEMMA SplitIsFold ==
  ASSUME NEW raw \in Entry, NEW d
  PROVE  Cr!Split(raw, d) = Fold(raw, OnePart, SplitStep(d)) /\ Cr!Split(raw, d) \in Parts
<1> DEFINE N == Len(raw)
           Is(f) == f = [i \in 0 .. N |->
                          IF i = 0 THEN <<<<>>>>
                          ELSE LET before == f[i - 1]
                               IN  IF raw[i] = d THEN Append(before, <<>>)
                                   ELSE [before EXCEPT ![Len(before)] = Append(@, raw[i])]]
           IsIt(f) == f = [i \in 0 .. N |-> IF i = 0 THEN OnePart ELSE Splitting(f[i - 1], raw[i], d)]
           made == CHOOSE f : Is(f)
<1>1. raw \in Seq(Words) /\ N \in Nat
  BY DEF Entry
<1>2. Cr!Split(raw, d) = made[N]
  BY DEF Cr!Split
<1>3. \A f : Is(f) <=> IsIt(f)
  BY DEF Splitting, OnePart
<1>4. PICK f : /\ IsFold(f, raw, OnePart, SplitStep(d)) /\ Reads(f, raw, OnePart, SplitStep(d), Len(raw))
               /\ f \in [0 .. Len(raw) -> Parts] /\ f[Len(raw)] = Fold(raw, OnePart, SplitStep(d))
  BY <1>1, OnePartType, SplitStepType, FoldType
<1>5. IsIt(f)
  <2>1. ASSUME NEW i \in 0 .. N
        PROVE  f[i] = IF i = 0 THEN OnePart ELSE Splitting(f[i - 1], raw[i], d)
    <3>1. CASE i = 0
      BY <1>4, <3>1 DEF Reads
    <3>2. CASE i # 0
      <4>1. i \in 1 .. N /\ i - 1 \in 0 .. N
        BY <1>1, <3>2
      <4>2. f[i] = SplitStep(d)[<<f[i - 1], raw[i]>>] /\ f[i - 1] \in Parts /\ raw[i] \in Words
        BY <1>1, <1>4, <4>1 DEF Reads
      <4> QED
        BY <3>2, <4>2, SplittingType
    <3> QED
      BY <3>1, <3>2
  <2> QED
    BY <1>4, <2>1
<1>6. IsIt(made)
  <2> HIDE DEF Is, IsIt
  <2>1. Is(made)
    BY <1>3, <1>5
  <2> HIDE DEF made
  <2> QED
    BY <1>3, <2>1
<1> HIDE DEF made
<1>7. made[0] = OnePart /\ \A i \in 1 .. N : made[i] = Splitting(made[i - 1], raw[i], d)
  BY <1>1, <1>6
<1>8. ASSUME NEW i \in 1 .. N, made[i - 1] \in Parts
      PROVE  made[i] = SplitStep(d)[<<made[i - 1], raw[i]>>]
  <2>1. raw[i] \in Words
    BY <1>1
  <2> QED
    BY <1>7, <1>8, <2>1, SplittingType
<1>9. made[N] = Fold(raw, OnePart, SplitStep(d)) /\ Fold(raw, OnePart, SplitStep(d)) \in Parts
  BY <1>1, <1>7, <1>8, OnePartType, SplitStepType, FoldIs
<1> QED
  BY <1>2, <1>9

LEMMA SplitByAppend ==
  ASSUME NEW d
  PROVE  /\ Cr!Split(<<>>, d) = OnePart
         /\ \A raw \in Entry, x \in Words :
              /\ Cr!Split(raw, d) \in Parts
              /\ Cr!Split(Append(raw, x), d) = Splitting(Cr!Split(raw, d), x, d)
<1>1. Cr!Split(<<>>, d) = OnePart
  <2>1. <<>> \in Entry
    BY DEF Entry
  <2> QED
    BY <2>1, SplitIsFold, FoldEmpty
<1>2. ASSUME NEW raw \in Entry, NEW x \in Words
      PROVE  /\ Cr!Split(raw, d) \in Parts
             /\ Cr!Split(Append(raw, x), d) = Splitting(Cr!Split(raw, d), x, d)
  <2>1. Append(raw, x) \in Entry /\ raw \in Seq(Words)
    BY DEF Entry
  <2>2. /\ Cr!Split(Append(raw, x), d) = Fold(Append(raw, x), OnePart, SplitStep(d))
        /\ Cr!Split(raw, d) = Fold(raw, OnePart, SplitStep(d)) /\ Cr!Split(raw, d) \in Parts
    BY <2>1, SplitIsFold
  <2>3. Fold(Append(raw, x), OnePart, SplitStep(d)) = SplitStep(d)[<<Fold(raw, OnePart, SplitStep(d)), x>>]
    BY <2>1, FoldAppend
  <2> QED
    BY <2>2, <2>3, SplittingType
<1> QED
  BY <1>1, <1>2

(* Words added behind the last delimiter are added to the last entry.      *)
LEMMA LastOfAppend ==
  ASSUME NEW h \in Seq(Entry), NEW e \in Entry, NEW x \in Words, NEW d, x # d
  PROVE  Splitting(Append(h, e), x, d) = Append(h, Append(e, x))
<1> DEFINE g == Append(h, e)
           u == Append(e, x)
           n == Len(h) + 1
           f == [g EXCEPT ![n] = u]
           k == Append(h, u)
<1>1. g \in Seq(Entry) /\ Len(g) = n /\ g[n] = e /\ n \in 1 .. Len(g) /\ Len(h) \in Nat
      /\ \A i \in 1 .. Len(h) : g[i] = h[i]
  OBVIOUS
<1>2. u \in Entry
  BY DEF Entry
<1>3. Splitting(g, x, d) = f
  <2> HIDE DEF g, n
  <2> QED
    BY <1>1 DEF Splitting
<1> HIDE DEF u
<1>4. k \in Seq(Entry) /\ Len(k) = n /\ k[n] = u /\ \A i \in 1 .. Len(h) : k[i] = h[i]
  BY <1>2
<1>5. /\ f \in Seq(Entry) /\ Len(f) = Len(g)
      /\ \A j \in 1 .. Len(g) : f[j] = IF j = n THEN u ELSE g[j]
  <2> HIDE DEF g, n
  <2> QED
    BY <1>1, <1>2, ExceptSeq
<1>6. ASSUME NEW j \in 1 .. n PROVE f[j] = k[j]
  <2> HIDE DEF f, k, g
  <2>1. CASE j = n
    BY <1>1, <1>4, <1>5, <2>1
  <2>2. CASE j # n
    <3>1. j \in 1 .. Len(h) /\ j \in 1 .. Len(g)
      BY <1>1, <2>2
    <3> QED
      BY <1>1, <1>4, <1>5, <2>2, <3>1
  <2> QED
    BY <2>1, <2>2
<1> HIDE DEF f, k, g, n
<1>7. f = k
  BY <1>1, <1>4, <1>5, <1>6, SeqEqual
<1> QED
  BY <1>3, <1>7 DEF g, k, u

LEMMA SplitTail ==
  ASSUME NEW raw \in Entry, NEW d, NEW h \in Seq(Entry), Cr!Split(raw, d) = Append(h, <<>>),
         NEW e \in Entry, Without(e, d)
  PROVE  Cr!Split(raw \o e, d) = Append(h, e)
<1> DEFINE T == {s \in Seq(Words) : Without(s, d) => Cr!Split(raw \o s, d) = Append(h, s)}
<1>1. <<>> \in T
  <2>1. raw \o <<>> = raw /\ <<>> \in Seq(Words)
    BY DEF Entry
  <2> QED
    BY <2>1
<1>2. ASSUME NEW s \in Seq(Words), s \in T, NEW x \in Words PROVE Append(s, x) \in T
  <2> DEFINE u == Append(s, x)
  <2>1. /\ raw \o u = Append(raw \o s, x) /\ raw \o s \in Entry /\ u \in Seq(Words)
        /\ Len(s) \in Nat /\ Len(u) = Len(s) + 1 /\ u[Len(s) + 1] = x
        /\ \A i \in 1 .. Len(s) : u[i] = s[i]
    BY DEF Entry
  <2> HIDE DEF u
  <2>2. ASSUME Without(u, d) PROVE Cr!Split(raw \o u, d) = Append(h, u)
    <3>1. x # d
      <4>1. Len(s) + 1 \in 1 .. Len(u)
        BY <2>1
      <4> QED
        BY <2>1, <2>2, <4>1 DEF Without
    <3>2. Without(s, d)
      <4>1. \A i \in 1 .. Len(s) : i \in 1 .. Len(u)
        BY <2>1
      <4> QED
        BY <2>1, <2>2, <4>1 DEF Without
    <3>3. Cr!Split(raw \o s, d) = Append(h, s)
      BY <1>2, <3>2
    <3>4. Cr!Split(raw \o u, d) = Splitting(Append(h, s), x, d)
      BY <2>1, <3>3, SplitByAppend
    <3> QED
      BY <3>1, <3>4, LastOfAppend DEF u, Entry
  <2> QED
    BY <2>1, <2>2 DEF u
<1> HIDE DEF T
<1>3. e \in T
  BY <1>1, <1>2, SequencesByAppend DEF Entry
<1> QED
  BY <1>3 DEF T

LEMMA SplitWord ==
  ASSUME NEW d, NEW e \in Entry, Without(e, d) PROVE Cr!Split(e, d) = Append(<<>>, e)
<1> DEFINE raw == <<>>
           h == <<>>
<1>1. raw \in Entry /\ h \in Seq(Entry)
  BY DEF Entry
<1>2. Cr!Split(raw, d) = Append(h, <<>>)
  BY SplitByAppend DEF OnePart
<1>3. raw \o e = e
  BY ConcatEmptySeq DEF Entry
<1> HIDE DEF raw
<1>4. Cr!Split(raw \o e, d) = Append(h, e)
  <2> HIDE DEF h
  <2> QED
    BY <1>1, <1>2, SplitTail
<1> QED
  BY <1>3, <1>4

LEMMA SplitIsFree ==
  ASSUME NEW raw \in Entry, NEW d, NEW w, w = d \/ Without(raw, w)
  PROVE  Free(Cr!Split(raw, d), w)
<1> DEFINE T == {s \in Seq(Words) : w = d \/ Without(s, w) => Free(Cr!Split(s, d), w)}
<1>1. <<>> \in T
  <2>1. Free(OnePart, w)
    BY OnePartType DEF Free, Without
  <2> QED
    BY <2>1, SplitByAppend
<1>2. ASSUME NEW s \in Seq(Words), s \in T, NEW x \in Words PROVE Append(s, x) \in T
  <2> DEFINE u == Append(s, x)
             h == Cr!Split(s, d)
  <2>1. /\ u \in Seq(Words) /\ Len(s) \in Nat /\ Len(u) = Len(s) + 1 /\ u[Len(s) + 1] = x
        /\ \A i \in 1 .. Len(s) : u[i] = s[i]
    OBVIOUS
  <2>2. Cr!Split(u, d) = Splitting(h, x, d) /\ h \in Parts
    BY SplitByAppend DEF Entry
  <2> HIDE DEF u, h
  <2>3. ASSUME w = d \/ Without(u, w) PROVE Free(Splitting(h, x, d), w)
    <3>1. w = d \/ (x # w /\ Without(s, w))
      <4>1. Len(s) + 1 \in 1 .. Len(u) /\ \A i \in 1 .. Len(s) : i \in 1 .. Len(u)
        BY <2>1
      <4> QED
        BY <2>1, <2>3, <4>1 DEF Without
    <3>2. Free(h, w)
      BY <1>2, <3>1 DEF h
    <3>3. CASE x = d
      <4>1. <<>> \in Entry /\ Without(<<>>, w) /\ h \in Seq(Entry)
        BY <2>2 DEF Entry, Without, Parts
      <4>2. Free(Append(h, <<>>), w)
        BY <3>2, <4>1, FreeAppend
      <4> QED
        BY <3>3, <4>2 DEF Splitting
    <3>4. CASE x # d
      <4> DEFINE n == Len(h)
                 v == Append(h[n], x)
                 g == [h EXCEPT ![n] = v]
      <4>1. n \in 1 .. n /\ h \in Seq(Entry) /\ h[n] \in Entry /\ x # w
        BY <2>2, <3>1, <3>4 DEF Parts
      <4>2. Without(h[n], w)
        BY <3>2, <4>1 DEF Free
      <4>3. v \in Entry /\ Without(v, w)
        <5> DEFINE y == h[n]
        <5>1. y \in Seq(Words) /\ Without(y, w)
          BY <4>1, <4>2 DEF Entry
        <5> HIDE DEF y, n
        <5>2. Append(y, x) \in Seq(Words) /\ Without(Append(y, x), w)
          BY <4>1, <5>1 DEF Without
        <5> QED
          BY <5>2 DEF y, Entry
      <4> HIDE DEF v
      <4>4. /\ Len(g) = n /\ g[n] = v
            /\ \A i \in 1 .. n : i # n => g[i] = h[i]
        BY <2>2, <4>3, ExtendLast
      <4>5. Splitting(h, x, d) = g
        BY <3>4 DEF Splitting, v
      <4> HIDE DEF g
      <4>6. Free(g, w)
        BY <3>2, <4>3, <4>4 DEF Free
      <4> QED
        BY <4>5, <4>6
    <3> QED
      BY <3>3, <3>4
  <2> QED
    BY <2>1, <2>2, <2>3 DEF u
<1> HIDE DEF T
<1>3. raw \in T
  BY <1>1, <1>2, SequencesByAppend DEF Entry
<1> QED
  BY <1>3 DEF T

(* Writing a history is a fold of it.                                      *)
Delimited(raw, e) == IF raw = <<>> THEN e ELSE raw \o <<">">> \o e

WriteStep == [q \in Entry \X Entry |-> Delimited(q[1], q[2])]

NoWords == <<>>

Written(h) == Fold(h, NoWords, WriteStep)

LEMMA DelimiterType == ">" \in Words /\ "," \in Words
  BY ServicesAssumption DEF Cr!CorrectionsAssumption

LEMMA DelimitedType ==
  ASSUME NEW raw \in Entry, NEW e \in Entry
  PROVE  Delimited(raw, e) \in Entry /\ WriteStep[<<raw, e>>] = Delimited(raw, e)
<1> DEFINE gt == ">"
<1>1. <<gt>> \in Entry
  <2>1. gt \in Words
    BY DelimiterType
  <2> HIDE DEF gt
  <2> QED
    BY <2>1 DEF Entry
<1>2. Delimited(raw, e) \in Entry
  BY <1>1 DEF Delimited, Entry
<1> QED
  BY <1>2 DEF WriteStep

LEMMA WriteStepType == WriteStep \in Steps(Entry, Entry) /\ NoWords \in Entry
<1>1. ASSUME NEW q \in Entry \X Entry PROVE Delimited(q[1], q[2]) \in Entry
  BY DelimitedType
<1> QED
  BY <1>1 DEF WriteStep, Steps, NoWords, Entry

LEMMA FormatIsWritten ==
  ASSUME NEW h, Normal(h)
  PROVE  Cr!FormatHistory(h) = Written(h) /\ Written(h) \in Entry
<1> DEFINE N == Len(h)
           Is(f) == f = [i \in 0 .. N |->
                          IF i = 0 THEN <<>>
                          ELSE IF f[i - 1] = <<>> THEN h[i] ELSE f[i - 1] \o <<">">> \o h[i]]
           IsIt(f) == f = [i \in 0 .. N |-> IF i = 0 THEN NoWords ELSE Delimited(f[i - 1], h[i])]
           made == CHOOSE f : Is(f)
<1>1. h \in Seq(Entry) /\ N \in Nat
  BY DEF Normal
<1>2. Cr!FormatHistory(h) = made[N]
  BY NormalStays, Zenon DEF Cr!FormatHistory
<1>3. \A f : Is(f) <=> IsIt(f)
  BY Zenon DEF Delimited, NoWords
<1>4. PICK f : /\ IsFold(f, h, NoWords, WriteStep) /\ Reads(f, h, NoWords, WriteStep, Len(h))
               /\ f \in [0 .. Len(h) -> Entry] /\ f[Len(h)] = Fold(h, NoWords, WriteStep)
  BY <1>1, WriteStepType, FoldType
<1>5. IsIt(f)
  <2>1. ASSUME NEW i \in 0 .. N
        PROVE  f[i] = IF i = 0 THEN NoWords ELSE Delimited(f[i - 1], h[i])
    <3>1. CASE i = 0
      BY <1>4, <3>1 DEF Reads
    <3>2. CASE i # 0
      <4>1. i \in 1 .. N /\ i - 1 \in 0 .. N
        BY <1>1, <3>2
      <4>2. f[i] = WriteStep[<<f[i - 1], h[i]>>] /\ f[i - 1] \in Entry /\ h[i] \in Entry
        BY <1>1, <1>4, <4>1 DEF Reads
      <4> QED
        BY <3>2, <4>2, DelimitedType
    <3> QED
      BY <3>1, <3>2
  <2> QED
    BY <1>4, <2>1
<1>6. IsIt(made)
  <2> HIDE DEF Is, IsIt
  <2>1. Is(made)
    BY <1>3, <1>5
  <2> HIDE DEF made
  <2> QED
    BY <1>3, <2>1
<1> HIDE DEF made
<1>7. made[0] = NoWords /\ \A i \in 1 .. N : made[i] = Delimited(made[i - 1], h[i])
  BY <1>1, <1>6
<1>8. ASSUME NEW i \in 1 .. N, made[i - 1] \in Entry
      PROVE  made[i] = WriteStep[<<made[i - 1], h[i]>>]
  <2>1. h[i] \in Entry
    BY <1>1
  <2> QED
    BY <1>7, <1>8, <2>1, DelimitedType
<1>9. made[N] = Fold(h, NoWords, WriteStep) /\ Fold(h, NoWords, WriteStep) \in Entry
  BY <1>1, <1>7, <1>8, WriteStepType, FoldIs
<1> QED
  BY <1>2, <1>9 DEF Written

LEMMA WrittenByAppend ==
  /\ Written(<<>>) = <<>>
  /\ \A h \in Seq(Entry), e \in Entry : Written(h) \in Entry =>
       Written(Append(h, e)) = Delimited(Written(h), e)
<1>1. Written(<<>>) = <<>>
  BY FoldEmpty DEF Written, NoWords
<1>2. ASSUME NEW h \in Seq(Entry), NEW e \in Entry, Written(h) \in Entry
      PROVE  Written(Append(h, e)) = Delimited(Written(h), e)
  <2>1. Written(Append(h, e)) = WriteStep[<<Written(h), e>>]
    BY FoldAppend, Zenon DEF Written
  <2> QED
    BY <1>2, <2>1, DelimitedType
<1> QED
  BY <1>1, <1>2

(* What is written of a history is split into it again.                    *)
WellWritten(h) ==
  /\ Written(h) \in Entry
  /\ h = <<>> => Written(h) = <<>>
  /\ h # <<>> => Written(h) # <<>> /\ Cr!Split(Written(h), ">") = h
  /\ Len(h) = 1 => Written(h) = h[1]
  /\ Len(h) > 1 => ~Without(Written(h), ">")

LEMMA WrittenIsSplit ==
  ASSUME NEW h, Normal(h), Free(h, ">")
  PROVE  WellWritten(h)
<1> DEFINE T == {g \in Seq(Entry) : Normal(g) /\ Free(g, ">") => WellWritten(g)}
<1>1. <<>> \in T
  <2>1. <<>> \in Seq(Entry) /\ <<>> \in Entry /\ Len(<<>>) = 0
    BY DEF Entry
  <2> QED
    BY <2>1, WrittenByAppend DEF WellWritten
<1>2. ASSUME NEW g \in Seq(Entry), g \in T, NEW e \in Entry PROVE Append(g, e) \in T
  <2> DEFINE u == Append(g, e)
             gt == ">"
  <2>1. /\ u \in Seq(Entry) /\ Len(g) \in Nat /\ Len(u) = Len(g) + 1 /\ u # <<>>
        /\ u[Len(g) + 1] = e
    OBVIOUS
  <2>1a. (g = <<>> => Len(g) = 0) /\ (g # <<>> => Len(g) > 0)
    OBVIOUS
  <2>2. ASSUME Normal(u), Free(u, gt) PROVE WellWritten(u)
    <3>1. Normal(g) /\ e # <<>>
      BY <2>2, NormalAppend
    <3>2. Free(g, gt) /\ Without(e, gt)
      BY <2>2, FreeAppend
    <3>3. WellWritten(g)
      BY <1>2, <3>1, <3>2
    <3> HIDE DEF u
    <3>4. Written(u) = Delimited(Written(g), e)
      BY <3>3, WrittenByAppend DEF u, WellWritten
    <3>5. CASE g = <<>>
      <4>1. Written(u) = e /\ Len(u) = 1
        BY <2>1, <2>1a, <3>3, <3>4, <3>5 DEF WellWritten, Delimited
      <4>3. Append(<<>>, e) = u
        BY <3>5 DEF u
      <4>4. Cr!Split(e, gt) = u
        BY <3>2, <4>3, SplitWord
      <4> QED
        BY <2>1, <2>1a, <3>1, <3>5, <4>1, <4>4 DEF WellWritten
    <3>6. CASE g # <<>>
      <4> DEFINE raw == Written(g)
                 more == Append(raw, gt)
                 all == raw \o <<gt>> \o e
      <4>1. raw \in Entry /\ raw # <<>> /\ Cr!Split(raw, gt) = g
        BY <3>3, <3>6 DEF WellWritten
      <4> HIDE DEF raw
      <4>2. /\ more \in Entry /\ gt \in Words /\ raw \o <<gt>> \o e = more \o e
            /\ all \in Entry
        <5>1. gt \in Words
          BY DelimiterType
        <5> HIDE DEF gt
        <5> QED
          BY <4>1, <5>1 DEF Entry
      <4>3. Written(u) = all
        BY <3>4, <4>1 DEF Delimited, raw
      <4>4. Cr!Split(more, gt) = Append(g, <<>>)
        BY <4>1, <4>2, SplitByAppend DEF Splitting
      <4> HIDE DEF more
      <4>5. Cr!Split(more \o e, gt) = u
        BY <3>2, <4>2, <4>4, SplitTail DEF u
      <4>6. ~Without(all, gt) /\ all # <<>>
        <5> HIDE DEF gt
        <5>1. Len(raw) \in Nat /\ Len(raw) + 1 \in 1 .. Len(all) /\ all[Len(raw) + 1] = gt
          BY <4>1 DEF Entry
        <5> HIDE DEF all
        <5> QED
          BY <5>1 DEF Without
      <4>7. Len(u) # 1
        BY <2>1, <2>1a, <3>6
      <4> HIDE DEF all
      <4> QED
        BY <2>1, <4>2, <4>3, <4>5, <4>6, <4>7 DEF WellWritten, all
    <3> QED
      BY <3>5, <3>6
  <2> QED
    BY <2>1, <2>2 DEF u
<1> HIDE DEF T
<1>3. h \in T
  BY <1>1, <1>2, SequencesByAppend DEF Normal
<1> QED
  BY <1>3 DEF T

(* Histories that are read back as they were: a comma in the only entry    *)
(* would be taken for a delimiter.                                         *)
Clear(h) == Normal(h) /\ Free(h, ">") /\ (Len(h) = 1 => Without(h[1], ","))

LEMMA DelimiterIs ==
  ASSUME NEW raw \in Entry
  PROVE  /\ Without(raw, ",") \/ ~Without(raw, ">") => Cr!Delimiter(raw) = ">"
         /\ Cr!Delimiter(raw) = ">" \/ Without(raw, ">")
<1>1. DOMAIN raw = 1 .. Len(raw)
  BY DEF Entry
<1> QED
  BY <1>1 DEF Cr!Delimiter, Without

LEMMA ParseIsNormal ==
  ASSUME NEW raw \in Entry
  PROVE  Normal(Cr!ParseHistory(raw)) /\ Free(Cr!ParseHistory(raw), ">")
<1> DEFINE d == Cr!Delimiter(raw)
           h == Cr!Split(raw, d)
<1>1. raw # None
  BY ServicesAssumption DEF Cr!CorrectionsAssumption, Entry
<1>2. Cr!ParseHistory(raw) = Cr!NormalizeHistory(h)
  BY <1>1 DEF Cr!ParseHistory
<1>3. d = ">" \/ Without(raw, ">")
  BY DelimiterIs
<1> HIDE DEF d
<1>4. h \in Seq(Entry) /\ Free(h, ">")
  <2> DEFINE gt == ">"
  <2>1. d = gt \/ Without(raw, gt)
    BY <1>3
  <2> HIDE DEF gt
  <2>2. Free(h, gt)
    BY <2>1, SplitIsFree
  <2>3. h \in Parts
    BY SplitByAppend, DelimiterType
  <2> QED
    BY <2>2, <2>3 DEF Parts, gt
<1> HIDE DEF h
<1>5. ">" \in Words => Free(Cr!NormalizeHistory(h), ">")
  BY <1>4, NormalizeIsNormal
<1> QED
  BY <1>2, <1>4, <1>5, NormalizeIsNormal, DelimiterType

LEMMA ReadBack ==
  ASSUME NEW h, Clear(h), h # <<>>
  PROVE  /\ Cr!ParseHistory(Cr!FormatHistory(h)) = h
         /\ Cr!FormatHistory(h) \in Entry /\ Cr!FormatHistory(h) # None
<1> DEFINE raw == Cr!FormatHistory(h)
<1>1. Normal(h) /\ Free(h, ">") /\ (Len(h) = 1 => Without(h[1], ","))
  BY DEF Clear
<1>2. raw = Written(h) /\ raw \in Entry /\ WellWritten(h)
  BY <1>1, FormatIsWritten, WrittenIsSplit
<1> HIDE DEF raw
<1>3. raw # None
  BY <1>2, ServicesAssumption DEF Cr!CorrectionsAssumption, Entry
<1>4. Cr!Delimiter(raw) = ">"
  <2>1. Len(h) = 1 \/ Len(h) > 1
    <3>1. h \in Seq(Entry)
      BY <1>1 DEF Normal
    <3> DEFINE n == Len(h)
    <3>2. n \in Nat /\ n # 0
      BY <3>1, EmptySeq
    <3> HIDE DEF n
    <3>3. n = 1 \/ n > 1
      BY <3>2
    <3> QED
      BY <3>3 DEF n
  <2> QED
    BY <1>1, <1>2, <2>1, DelimiterIs DEF WellWritten
<1>5. Cr!Split(raw, ">") = h
  BY <1>2 DEF WellWritten
<1>6. Cr!ParseHistory(raw) = Cr!NormalizeHistory(h)
  BY <1>3, <1>4, <1>5 DEF Cr!ParseHistory
<1> QED
  BY <1>1, <1>2, <1>3, <1>6, NormalStays DEF raw

LEMMA AppendIsClear ==
  ASSUME NEW h, Clear(h), NEW peer \in Peers
  PROVE  Clear(Cr!AppendHistory(h, <<peer>>)) /\ Cr!AppendHistory(h, <<peer>>) # <<>>
<1> DEFINE e == <<peer>>
           k == Append(h, e)
<1>1. Normal(h) /\ Free(h, ">") /\ (Len(h) = 1 => Without(h[1], ","))
  BY DEF Clear
<1>2. peer # ">" /\ peer # ","
  BY ServicesAssumption DEF Cr!CorrectionsAssumption
<1>3. e \in Seq(Words) /\ Len(e) = 1 /\ e[1] = peer /\ e # <<>>
  <2>1. e \in Seq(Words)
    <3>1. peer \in Words
      BY ServicesAssumption DEF Cr!CorrectionsAssumption
    <3> QED
      BY <3>1
  <2>2. Len(e) = 1 /\ e[1] = peer
    OBVIOUS
  <2>3. e # <<>>
    OBVIOUS
  <2> QED
    BY <2>1, <2>2, <2>3
<1> HIDE DEF e
<1>4. Without(e, ">") /\ Without(e, ",")
  <2>1. \A j \in 1 .. Len(e) : j = 1
    BY <1>3
  <2> QED
    BY <1>2, <1>3, <2>1 DEF Without
<1>5. h \in Seq(Entry) /\ e \in Entry
  BY <1>1, <1>3 DEF Normal, Entry
<1>6. Len(k) = Len(h) + 1 /\ Len(h) \in Nat /\ k[Len(h) + 1] = e /\ k # <<>>
  BY <1>5
<1> HIDE DEF k
<1>7. Normal(Cr!AppendHistory(h, e)) /\ Free(Cr!AppendHistory(h, e), ">")
  BY <1>1, <1>4, <1>5, AppendIsNormal
<1>8. Cr!AppendHistory(h, e) = k \/ (Cr!AppendHistory(h, e) = h /\ h # <<>>)
  BY <1>3 DEF Cr!AppendHistory, k
<1>9. Len(k) = 1 => Without(k[1], ",")
  BY <1>4, <1>6
<1>10. Clear(Cr!AppendHistory(h, e)) /\ Cr!AppendHistory(h, e) # <<>>
  BY <1>1, <1>6, <1>7, <1>8, <1>9 DEF Clear
<1> QED
  BY <1>10 DEF e

(* The fields by what is done with them.                                   *)
Spelled == {"severity", "routing_mode", "provider_state"}
Plainly == (Cr!Texts \ {"improvement_schema_version"})

LEMMA FieldsAre ==
  /\ DOMAIN Cr!Vocabulary = Spelled \cup {"outcome"}
  /\ Cr!Fields = Spelled \cup {"outcome"} \cup Cr!Histories \cup Cr!Numbers \cup {"retry_allowed"}
                 \cup Cr!Texts
  BY DEF Cr!Vocabulary, Spelled, Cr!Fields, Cr!Texts

LEMMA FieldParsed ==
  ASSUME NEW meta
  PROVE  /\ \A k \in Spelled \cup {"outcome"} : Cr!Parsed(meta, k) = Cr!Normalize(meta[k])
         /\ \A k \in Cr!Histories : Cr!Parsed(meta, k) = Cr!ParseHistory(meta[k])
         /\ \A k \in Cr!Numbers :
              Cr!Parsed(meta, k) = IF meta[k] \in {None, Garbled} THEN 0 ELSE meta[k]
         /\ Cr!Parsed(meta, "retry_allowed")
              = IF meta["retry_allowed"] = Garbled THEN None ELSE meta["retry_allowed"]
         /\ \A k \in Cr!Texts : Cr!Parsed(meta, k) = meta[k]
<1>10. \A k \in Spelled \cup {"outcome"} : /\ k \in DOMAIN Cr!Vocabulary /\ k \notin Cr!Histories
                                           /\ k \notin Cr!Numbers /\ k # "retry_allowed"
  BY FieldsAre DEF Cr!Histories, Cr!Numbers, Spelled
<1>1. \A k \in Spelled \cup {"outcome"} : Cr!Parsed(meta, k) = Cr!Normalize(meta[k])
  BY <1>10 DEF Cr!Parsed
<1>2. \A k \in Cr!Histories : /\ k \notin DOMAIN Cr!Vocabulary /\ k \notin Cr!Numbers
                              /\ k # "retry_allowed"
  BY FieldsAre DEF Cr!Histories, Cr!Numbers, Spelled
<1>3. \A k \in Cr!Histories : Cr!Parsed(meta, k) = Cr!ParseHistory(meta[k])
  BY <1>2 DEF Cr!Parsed
<1>4. \A k \in Cr!Numbers : /\ k \notin DOMAIN Cr!Vocabulary /\ k \notin Cr!Histories
                            /\ k # "retry_allowed"
  BY FieldsAre DEF Cr!Histories, Spelled, Cr!Numbers
<1>5. \A k \in Cr!Numbers : Cr!Parsed(meta, k) = IF meta[k] \in {None, Garbled} THEN 0 ELSE meta[k]
  BY <1>4 DEF Cr!Parsed
<1>6. /\ "retry_allowed" \notin DOMAIN Cr!Vocabulary /\ "retry_allowed" \notin Cr!Histories
      /\ "retry_allowed" \notin Cr!Numbers
  BY FieldsAre DEF Cr!Histories, Spelled, Cr!Numbers
<1>7. Cr!Parsed(meta, "retry_allowed")
        = IF meta["retry_allowed"] = Garbled THEN None ELSE meta["retry_allowed"]
  BY <1>6 DEF Cr!Parsed
<1>8. \A k \in Cr!Texts : /\ k \notin DOMAIN Cr!Vocabulary /\ k \notin Cr!Histories
                          /\ k \notin Cr!Numbers /\ k # "retry_allowed"
  BY FieldsAre DEF Cr!Histories, Spelled, Cr!Numbers, Cr!Texts
<1>9. \A k \in Cr!Texts : Cr!Parsed(meta, k) = meta[k]
  BY <1>8 DEF Cr!Parsed
<1> QED
  BY <1>1, <1>3, <1>5, <1>7, <1>9

LEMMA ApplyIs ==
  ASSUME NEW m, NEW meta, NEW a, a = Cr!Apply(m, meta)
  PROVE  /\ a["improvement_schema_version"]
              = Cr!Or(m["improvement_schema_version"], Cr!ImprovementSchemaVersion)
         /\ \A k \in Spelled : a[k] = Cr!Or(Cr!Normalize(m[k]), meta[k])
         /\ \A k \in Cr!Histories :
              a[k] = IF m[k] = <<>> THEN meta[k] ELSE Cr!FormatHistory(m[k])
         /\ a["recurrence_count"]
              = IF m["recurrence_count"] > 0 THEN m["recurrence_count"] ELSE meta["recurrence_count"]
         /\ a["provider_retry_budget"]
              = IF m["provider_retry_budget"] = 0 /\ \A p \in Cr!ProviderFields : m[p] = None
                THEN meta["provider_retry_budget"] ELSE m["provider_retry_budget"]
         /\ \A k \in Plainly \cup {"outcome", "retry_allowed"} : a[k] = Cr!Or(m[k], meta[k])
<1> DEFINE Of(k) ==
      CASE k = "improvement_schema_version" -> Cr!Or(m[k], Cr!ImprovementSchemaVersion)
        [] k \in {"severity", "routing_mode", "provider_state"} -> Cr!Or(Cr!Normalize(m[k]), meta[k])
        [] k \in Cr!Histories -> IF m[k] = <<>> THEN meta[k] ELSE Cr!FormatHistory(m[k])
        [] k = "recurrence_count" -> IF m[k] > 0 THEN m[k] ELSE meta[k]
        [] k = "provider_retry_budget" ->
             IF m[k] = 0 /\ \A p \in Cr!ProviderFields : m[p] = None THEN meta[k] ELSE m[k]
        [] OTHER -> Cr!Or(m[k], meta[k])
<1>1. \A k \in Cr!Fields : a[k] = Of(k)
  BY Zenon DEF Cr!Apply
<1> HIDE DEF Of
<1>2. "improvement_schema_version" \in Cr!Fields
  BY FieldsAre DEF Cr!Texts
<1>3. a["improvement_schema_version"]
        = Cr!Or(m["improvement_schema_version"], Cr!ImprovementSchemaVersion)
  <2>1. Of("improvement_schema_version")
          = Cr!Or(m["improvement_schema_version"], Cr!ImprovementSchemaVersion)
    BY DEF Of, Cr!Histories
  <2> QED
    BY <1>1, <1>2, <2>1
<1>4. ASSUME NEW k \in Spelled PROVE a[k] = Cr!Or(Cr!Normalize(m[k]), meta[k])
  <2>1. k \in Cr!Fields /\ k # "improvement_schema_version"
        /\ k \in {"severity", "routing_mode", "provider_state"} /\ k \notin Cr!Histories
        /\ k # "recurrence_count" /\ k # "provider_retry_budget"
    BY FieldsAre DEF Spelled, Cr!Histories
  <2>2. Of(k) = Cr!Or(Cr!Normalize(m[k]), meta[k])
    BY <2>1 DEF Of
  <2> QED
    BY <1>1, <2>1, <2>2
<1>5. ASSUME NEW k \in Cr!Histories
      PROVE  a[k] = IF m[k] = <<>> THEN meta[k] ELSE Cr!FormatHistory(m[k])
  <2>1. k \in Cr!Fields /\ k # "improvement_schema_version"
        /\ k \notin {"severity", "routing_mode", "provider_state"}
        /\ k # "recurrence_count" /\ k # "provider_retry_budget"
    BY FieldsAre DEF Cr!Histories
  <2>2. Of(k) = IF m[k] = <<>> THEN meta[k] ELSE Cr!FormatHistory(m[k])
    BY <2>1 DEF Of
  <2> QED
    BY <1>1, <2>1, <2>2
<1>6. a["recurrence_count"]
        = IF m["recurrence_count"] > 0 THEN m["recurrence_count"] ELSE meta["recurrence_count"]
  <2>1. "recurrence_count" \in Cr!Fields /\ "recurrence_count" \notin Cr!Histories
    BY FieldsAre DEF Cr!Histories, Cr!Numbers
  <2>2. Of("recurrence_count")
          = IF m["recurrence_count"] > 0 THEN m["recurrence_count"] ELSE meta["recurrence_count"]
    BY <2>1 DEF Of
  <2> QED
    BY <1>1, <2>1, <2>2
<1>7. a["provider_retry_budget"]
        = IF m["provider_retry_budget"] = 0 /\ \A p \in Cr!ProviderFields : m[p] = None
          THEN meta["provider_retry_budget"] ELSE m["provider_retry_budget"]
  <2>1. "provider_retry_budget" \in Cr!Fields /\ "provider_retry_budget" \notin Cr!Histories
    BY FieldsAre DEF Cr!Histories, Cr!Numbers
  <2>2. Of("provider_retry_budget")
          = IF m["provider_retry_budget"] = 0 /\ \A p \in Cr!ProviderFields : m[p] = None
            THEN meta["provider_retry_budget"] ELSE m["provider_retry_budget"]
    BY <2>1 DEF Of
  <2> QED
    BY <1>1, <2>1, <2>2
<1>8. ASSUME NEW k \in Plainly \cup {"outcome", "retry_allowed"}
      PROVE  a[k] = Cr!Or(m[k], meta[k])
  <2>1. /\ k \in Cr!Fields /\ k # "improvement_schema_version" /\ k \notin Cr!Histories
        /\ k \notin {"severity", "routing_mode", "provider_state"}
        /\ k # "recurrence_count" /\ k # "provider_retry_budget"
    BY FieldsAre DEF Cr!Histories, Cr!Texts, Plainly
  <2>2. Of(k) = Cr!Or(m[k], meta[k])
    BY <2>1 DEF Of
  <2> QED
    BY <1>1, <2>1, <2>2
<1> QED
  BY <1>3, <1>4, <1>5, <1>6, <1>7, <1>8

(* A correction as it is parsed, with histories that can be read back.     *)
Sound(m) ==
  /\ m = [k \in Cr!Fields |-> m[k]]
  /\ \A k \in Spelled \cup {"outcome"} : Cr!Normalize(m[k]) = m[k]
  /\ \A k \in Cr!Histories : Clear(m[k])
  /\ \A k \in Cr!Numbers : m[k] \in Nat
  /\ m["retry_allowed"] # Garbled \/ m["retry_allowed"] = None

LEMMA NormalizeTwice == \A v : Cr!Normalize(Cr!Normalize(v)) = Cr!Normalize(v)
  BY DEF Cr!Normalize

LEMMA NormalizeNone == Cr!Normalize(None) = None
  BY DEF Cr!Normalize

LEMMA NoCorrectionIs ==
  /\ \A k \in Spelled \cup {"outcome", "retry_allowed"} \cup Cr!Texts : Cr!NoCorrection[k] = None
  /\ \A k \in Cr!Histories : Cr!NoCorrection[k] = <<>>
  /\ \A k \in Cr!Numbers : Cr!NoCorrection[k] = 0
<1>1. \A k \in Cr!Fields : Cr!NoCorrection[k] = Cr!Parsed(Cr!Nothing, k) /\ Cr!Nothing[k] = None
  BY DEF Cr!NoCorrection, Cr!CorrectionMetadataFromMap, Cr!Nothing
<1>2. \A k \in Spelled \cup {"outcome", "retry_allowed"} \cup Cr!Texts : Cr!NoCorrection[k] = None
  <2>1. ASSUME NEW k \in Spelled \cup {"outcome"} PROVE Cr!NoCorrection[k] = None
    BY <1>1, FieldsAre, FieldParsed, NormalizeNone
  <2>2. ASSUME NEW k \in Cr!Texts PROVE Cr!NoCorrection[k] = None
    BY <1>1, FieldsAre, FieldParsed
  <2>3. Cr!NoCorrection["retry_allowed"] = None
    BY <1>1, FieldsAre, FieldParsed
  <2> QED
    BY <2>1, <2>2, <2>3
<1>3. ASSUME NEW k \in Cr!Histories PROVE Cr!NoCorrection[k] = <<>>
  <2>1. Cr!ParseHistory(None) = <<>>
    BY DEF Cr!ParseHistory
  <2> QED
    BY <1>1, <2>1, FieldsAre, FieldParsed
<1>4. ASSUME NEW k \in Cr!Numbers PROVE Cr!NoCorrection[k] = 0
  BY <1>1, FieldsAre, FieldParsed
<1> QED
  BY <1>2, <1>3, <1>4

(* What a correction says comes back as it was; of the rest what was there *)
(* before.                                                                 *)
LEMMA RoundTrip ==
  ASSUME NEW m, Sound(m), NEW meta, NEW a, a = Cr!Apply(m, meta),
         NEW k \in Cr!Fields \ {"improvement_schema_version"}
  PROVE  \/ Cr!Parsed(a, k) = m[k]
         \/ Cr!Parsed(a, k) = Cr!Parsed(meta, k) /\ m[k] = Cr!NoCorrection[k]
<1>1. CASE k \in Spelled
  <2>1. a[k] = Cr!Or(Cr!Normalize(m[k]), meta[k]) /\ Cr!Normalize(m[k]) = m[k]
    <3>1. a[k] = Cr!Or(Cr!Normalize(m[k]), meta[k])
      BY <1>1, ApplyIs
    <3>2. Cr!Normalize(m[k]) = m[k]
      BY <1>1 DEF Sound
    <3> QED
      BY <3>1, <3>2
  <2>2. /\ Cr!Parsed(a, k) = Cr!Normalize(a[k]) /\ Cr!Parsed(meta, k) = Cr!Normalize(meta[k])
        /\ Cr!NoCorrection[k] = None
    BY <1>1, FieldParsed, NoCorrectionIs
  <2> QED
    BY <2>1, <2>2 DEF Cr!Or
<1>2. CASE k = "outcome"
  <2>1. a[k] = Cr!Or(m[k], meta[k]) /\ Cr!Normalize(m[k]) = m[k]
    BY <1>2, ApplyIs DEF Sound
  <2>2. /\ Cr!Parsed(a, k) = Cr!Normalize(a[k]) /\ Cr!Parsed(meta, k) = Cr!Normalize(meta[k])
        /\ Cr!NoCorrection[k] = None
    BY <1>2, FieldParsed, NoCorrectionIs
  <2> QED
    BY <2>1, <2>2 DEF Cr!Or
<1>3. CASE k \in Cr!Histories
  <2>1. a[k] = IF m[k] = <<>> THEN meta[k] ELSE Cr!FormatHistory(m[k])
    BY <1>3, ApplyIs
  <2>2. /\ Cr!Parsed(a, k) = Cr!ParseHistory(a[k]) /\ Cr!Parsed(meta, k) = Cr!ParseHistory(meta[k])
        /\ Cr!NoCorrection[k] = <<>> /\ Clear(m[k])
    BY <1>3, FieldParsed, NoCorrectionIs DEF Sound
  <2> QED
    BY <2>1, <2>2, ReadBack
<1>4. CASE k = "recurrence_count"
  <2>1. a[k] = IF m[k] > 0 THEN m[k] ELSE meta[k]
    BY <1>4, ApplyIs
  <2>2. k \in Cr!Numbers /\ m[k] \in Nat
    BY <1>4 DEF Cr!Numbers, Sound
  <2>3. /\ Cr!Parsed(a, k) = IF a[k] \in {None, Garbled} THEN 0 ELSE a[k]
        /\ Cr!Parsed(meta, k) = IF meta[k] \in {None, Garbled} THEN 0 ELSE meta[k]
        /\ Cr!NoCorrection[k] = 0
    BY <2>2, FieldParsed, NoCorrectionIs
  <2>4. m[k] # None /\ m[k] # Garbled
    BY <2>2, ServicesAssumption DEF Cr!CorrectionsAssumption
  <2> QED
    BY <2>1, <2>2, <2>3, <2>4
<1>5. CASE k = "provider_retry_budget"
  <2>1. a[k] = IF m[k] = 0 /\ \A p \in Cr!ProviderFields : m[p] = None THEN meta[k] ELSE m[k]
    BY <1>5, ApplyIs
  <2>2. k \in Cr!Numbers /\ m[k] \in Nat
    BY <1>5 DEF Cr!Numbers, Sound
  <2>3. /\ Cr!Parsed(a, k) = IF a[k] \in {None, Garbled} THEN 0 ELSE a[k]
        /\ Cr!Parsed(meta, k) = IF meta[k] \in {None, Garbled} THEN 0 ELSE meta[k]
        /\ Cr!NoCorrection[k] = 0
    BY <2>2, FieldParsed, NoCorrectionIs
  <2>4. m[k] # None /\ m[k] # Garbled
    BY <2>2, ServicesAssumption DEF Cr!CorrectionsAssumption
  <2> QED
    BY <2>1, <2>3, <2>4
<1>6. CASE k = "retry_allowed"
  <2>1. a[k] = Cr!Or(m[k], meta[k])
    BY <1>6, ApplyIs
  <2>2. /\ Cr!Parsed(a, k) = IF a[k] = Garbled THEN None ELSE a[k]
        /\ Cr!Parsed(meta, k) = IF meta[k] = Garbled THEN None ELSE meta[k]
        /\ Cr!NoCorrection[k] = None /\ (m[k] # Garbled \/ m[k] = None)
    BY <1>6, FieldParsed, NoCorrectionIs DEF Sound
  <2> QED
    BY <2>1, <2>2 DEF Cr!Or
<1>7. CASE k \in Plainly
  <2>1. a[k] = Cr!Or(m[k], meta[k]) /\ k \in Cr!Texts
    BY <1>7, ApplyIs DEF Plainly
  <2>2. /\ Cr!Parsed(a, k) = a[k] /\ Cr!Parsed(meta, k) = meta[k]
        /\ Cr!NoCorrection[k] = None
    BY <2>1, FieldParsed, NoCorrectionIs
  <2> QED
    BY <2>1, <2>2 DEF Cr!Or
<1> QED
  BY <1>1, <1>2, <1>3, <1>4, <1>5, <1>6, <1>7, FieldsAre DEF Cr!Numbers, Plainly

Meta(meta) == Cr!CorrectionMetadataFromMap(meta)

(* What is forwarded of a correction.                                      *)
LEMMA ForwardedIs ==
  ASSUME NEW meta, Cr!IsImprovement(Meta(meta)), NEW f, f = Cr!ForwardForRecheck(Meta(meta))
  PROVE  /\ Cr!Same(f, Meta(meta), Cr!Routes)
         /\ f["target_agent"] = None /\ f["routing_mode"] = None /\ f["outcome"] # None
<1> DEFINE m == Meta(meta)
<1>1. m = [k \in Cr!Fields |-> m[k]]
  BY DEF Meta, Cr!CorrectionMetadataFromMap
<1>2. Cr!Routes \subseteq Cr!Fields
  BY DEF Cr!Routes, Cr!Fields, Cr!Texts, Cr!Vocabulary
<1>3. None # <<"plain", "pending">>
  BY ServicesAssumption DEF Cr!CorrectionsAssumption
<1>4. f = [m EXCEPT !["improvement_schema_version"] =
                      Cr!Or(m["improvement_schema_version"], Cr!ImprovementSchemaVersion),
                    !["target_agent"] = None,
                    !["routing_mode"] = None,
                    !["outcome"] = Cr!Or(m["outcome"], <<"plain", "pending">>)]
  BY DEF Cr!ForwardForRecheck
<1>5. Cr!Or(m["outcome"], <<"plain", "pending">>) # None
  BY <1>3 DEF Cr!Or
<1> HIDE DEF m
<1>6. f["target_agent"] = None /\ f["routing_mode"] = None /\ f["outcome"] # None
  BY <1>1, <1>2, <1>4, <1>5 DEF Cr!Routes
<1>7. \A k \in Cr!Fields \ Cr!Routes : f[k] = m[k]
  BY <1>1, <1>4 DEF Cr!Routes
<1> QED
  BY <1>6, <1>7 DEF Cr!Same, m

(* The mails that count for a wave.                                        *)
Corrective(p) ==
  {i \in DOMAIN mails : /\ mails[i].wave = p.key \/ Cr!OverlapsIssueIDs(mails[i], p)
                        /\ Cr!Usable(Meta(mails[i].metadata))}

(* The search in the feedback ends with the last of them.                  *)
LEMMA SearchOfWave ==
  ASSUME NEW S, mails \in Seq(S), NEW p
  PROVE  /\ Corrective(p) = {} => Cr!CorrectionMetadataForWave(mails, p) = Cr!NoCorrection
         /\ \A i \in Corrective(p) : (\A j \in Corrective(p) : j <= i) =>
              Cr!CorrectionMetadataForWave(mails, p)
                = Cr!ForwardForRecheck(Meta(mails[i].metadata))
<1> DEFINE N == Len(mails)
           T == Corrective(p)
           onward == [i \in 1 .. N |-> Cr!ForwardForRecheck(Meta(mails[i].metadata))]
           Relevant(i) == mails[i].wave = p.key \/ Cr!OverlapsIssueIDs(mails[i], p)
           Is(f) == f = [i \in 0 .. N |->
             IF i = 0 THEN Cr!NoCorrection
             ELSE IF Cr!Usable(Meta(mails[i].metadata)) /\ Relevant(i)
                  THEN Cr!ForwardForRecheck(Meta(mails[i].metadata)) ELSE f[i - 1]]
           found == CHOOSE f : Is(f)
<1>1. N \in Nat /\ DOMAIN mails = 1 .. N
  OBVIOUS
<1>2. \A i \in 1 .. N : i \in T <=> Cr!Usable(Meta(mails[i].metadata)) /\ Relevant(i)
  BY <1>1 DEF Corrective
<1>3. T \subseteq 1 .. N
  BY <1>1 DEF Corrective
<1>4. Cr!CorrectionMetadataForWave(mails, p) = found[N]
  BY DEF Cr!CorrectionMetadataForWave, Meta
<1> HIDE DEF T, Relevant
<1>5. ASSUME NEW f PROVE Is(f) <=> IsSearch(f, N, Cr!NoCorrection, T, onward)
  <2>1. [i \in 0 .. N |-> IF i = 0 THEN Cr!NoCorrection ELSE IF i \in T THEN onward[i] ELSE f[i - 1]]
        = [i \in 0 .. N |->
            IF i = 0 THEN Cr!NoCorrection
            ELSE IF Cr!Usable(Meta(mails[i].metadata)) /\ Relevant(i)
                 THEN Cr!ForwardForRecheck(Meta(mails[i].metadata)) ELSE f[i - 1]]
    BY <1>1, <1>2
  <2> QED
    BY <2>1 DEF IsSearch
<1> HIDE DEF onward, N, Is
<1>6. PICK g : Is(g)
  BY <1>1, <1>5, SearchExists
<1>7. Is(found)
  BY <1>6
<1> HIDE DEF found
<1>8. IsSearch(found, N, Cr!NoCorrection, T, onward)
  BY <1>5, <1>7
<1>9. /\ (\A i \in 1 .. N : i \notin T) => found[N] = Cr!NoCorrection
      /\ \A i \in 1 .. N : i \in T /\ (\A j \in i + 1 .. N : j \notin T) => found[N] = onward[i]
  <2>1. N \in Nat
    BY <1>1
  <2> QED
    BY <1>8, <2>1, SearchIs
<1>10. ASSUME NEW i \in T, \A j \in T : j <= i
       PROVE  found[N] = Cr!ForwardForRecheck(Meta(mails[i].metadata))
  <2>1. i \in 1 .. N /\ \A j \in i + 1 .. N : j \notin T
    BY <1>1, <1>3, <1>10
  <2>2. found[N] = onward[i]
    BY <1>9, <2>1
  <2> QED
    BY <2>1, <2>2 DEF onward
<1> QED
  BY <1>4, <1>9, <1>10 DEF T

(* Mails are a list.                                                       *)
CorrectionInv == \E S : mails \in Seq(S)

LEMMA CorrectionPreserved ==
  ASSUME CorrectionInv, Cr!Next \/ UNCHANGED correctionVars
  PROVE  CorrectionInv'
<1>1. PICK S : mails \in Seq(S)
  BY DEF CorrectionInv
<1>2. ASSUME NEW x, mails' = Append(mails, x) PROVE CorrectionInv'
  <2>1. mails \in Seq(S \cup {x})
    BY <1>1
  <2>2. mails' \in Seq(S \cup {x})
    BY <1>2, <2>1
  <2> QED
    BY <2>2 DEF CorrectionInv
<1>3. ASSUME NEW mail, Cr!Received(mail) PROVE CorrectionInv'
  BY <1>2, <1>3, Zenon DEF Cr!Received
<1>4. ASSUME NEW p, NEW d, NEW byWave, Cr!Diagnosed(p, d, byWave) PROVE CorrectionInv'
  BY <1>3, <1>4, Zenon DEF Cr!Diagnosed
<1>5. ASSUME NEW p, NEW peer, Cr!FailedAgain(p, peer) PROVE CorrectionInv'
  BY <1>3, <1>5, Zenon DEF Cr!FailedAgain
<1>6. ASSUME UNCHANGED mails PROVE CorrectionInv'
  BY <1>1, <1>6 DEF CorrectionInv
<1>7. ASSUME NEW p, Cr!Composed(p) PROVE CorrectionInv'
  BY <1>6, <1>7, Zenon DEF Cr!Composed
<1> QED
  BY <1>4, <1>5, <1>6, <1>7 DEF Cr!Next, correctionVars

(* The correction of a wave comes from the mail that is to be taken.       *)
LEMMA LatestIs ==
  ASSUME CorrectionInv, NEW p
  PROVE  LET m == Cr!CorrectionMetadataForWave(mails, p)
             i == Cr!Latest(p)
         IN  \/ i = 0 /\ m = Cr!NoCorrection
             \/ /\ i \in 1 .. Len(mails) /\ Cr!IsImprovement(Cr!Correction(i))
                /\ m = Cr!ForwardForRecheck(Cr!Correction(i))
<1>1. PICK S : mails \in Seq(S)
  BY DEF CorrectionInv
<1> DEFINE T == Corrective(p)
           m == Cr!CorrectionMetadataForWave(mails, p)
<1>2. T \in SUBSET (0 .. Len(mails)) /\ T \subseteq 1 .. Len(mails) /\ Len(mails) \in Nat
  BY <1>1 DEF Corrective
<1>3. Cr!Latest(p) = IF T = {} THEN 0 ELSE CHOOSE i \in T : \A j \in T : j <= i
  BY Zenon DEF Cr!Latest, Corrective, Meta
<1>4. /\ T = {} => m = Cr!NoCorrection
      /\ \A i \in T : (\A j \in T : j <= i) => m = Cr!ForwardForRecheck(Meta(mails[i].metadata))
  BY <1>1, SearchOfWave
<1>5. \A i \in T : Cr!IsImprovement(Meta(mails[i].metadata))
  BY DEF Corrective, Cr!Usable
<1>6. \A i : Cr!Correction(i) = Meta(mails[i].metadata)
  BY DEF Cr!Correction, Meta
<1> HIDE DEF T, m
<1>7. CASE T = {}
  BY <1>3, <1>4, <1>7 DEF m
<1>8. CASE T # {}
  <2> DEFINE i == CHOOSE i \in T : \A j \in T : j <= i
  <2>1. i \in T /\ \A j \in T : j <= i
    BY <1>2, <1>8, GreatestUpTo
  <2>2. Cr!Latest(p) = i
    BY <1>3, <1>8
  <2> HIDE DEF i
  <2>3. i \in 1 .. Len(mails) /\ m = Cr!ForwardForRecheck(Cr!Correction(i))
        /\ Cr!IsImprovement(Cr!Correction(i))
    BY <1>2, <1>4, <1>5, <1>6, <2>1
  <2> QED
    BY <2>2, <2>3 DEF m
<1> QED
  BY <1>7, <1>8

LEMMA LatestTaken == CorrectionInv => Cr!LatestIsTaken
<1> SUFFICES ASSUME CorrectionInv, NEW p \in Plans
             PROVE  LET m      == Cr!CorrectionMetadataForWave(mails, p)
                        latest == Cr!Latest(p)
                    IN  IF latest = 0 THEN m = Cr!NoCorrection
                        ELSE /\ Cr!Same(m, Cr!Correction(latest), Cr!Routes)
                             /\ m["target_agent"] = None /\ m["routing_mode"] = None
                             /\ m["outcome"] # None
  BY DEF Cr!LatestIsTaken
<1> DEFINE m == Cr!CorrectionMetadataForWave(mails, p)
           i == Cr!Latest(p)
<1>1. \/ i = 0 /\ m = Cr!NoCorrection
      \/ /\ i \in 1 .. Len(mails) /\ Cr!IsImprovement(Cr!Correction(i))
         /\ m = Cr!ForwardForRecheck(Cr!Correction(i))
  BY LatestIs
<1>2. Cr!Correction(i) = Meta(mails[i].metadata)
  BY DEF Cr!Correction, Meta
<1> HIDE DEF m, i
<1>3. ASSUME i # 0
      PROVE  /\ Cr!Same(m, Cr!Correction(i), Cr!Routes)
             /\ m["target_agent"] = None /\ m["routing_mode"] = None /\ m["outcome"] # None
  BY <1>1, <1>2, <1>3, ForwardedIs
<1> QED
  BY <1>1, <1>3 DEF m, i

(* Metadata that is parsed is sound if its histories and numbers are.      *)
LEMMA SoundMeta ==
  ASSUME NEW meta, \A k \in Cr!Histories : Clear(Cr!Parsed(meta, k)),
         \A k \in Cr!Numbers : Cr!Parsed(meta, k) \in Nat
  PROVE  Sound(Meta(meta)) /\ \A k \in Cr!Fields : Meta(meta)[k] = Cr!Parsed(meta, k)
<1> DEFINE m == Meta(meta)
<1>1. m = [k \in Cr!Fields |-> m[k]] /\ \A k \in Cr!Fields : m[k] = Cr!Parsed(meta, k)
  BY DEF Meta, Cr!CorrectionMetadataFromMap
<1> HIDE DEF m
<1>2. ASSUME NEW k \in Spelled \cup {"outcome"} PROVE Cr!Normalize(m[k]) = m[k]
  <2>1. k \in Cr!Fields
    BY FieldsAre
  <2>2. Cr!Parsed(meta, k) = Cr!Normalize(meta[k])
    BY FieldParsed
  <2> QED
    BY <1>1, <2>1, <2>2, NormalizeTwice
<1>3. m["retry_allowed"] # Garbled \/ m["retry_allowed"] = None
  <2>1. m["retry_allowed"] = Cr!Parsed(meta, "retry_allowed")
    BY <1>1, FieldsAre
  <2>2. Cr!Parsed(meta, "retry_allowed")
          = IF meta["retry_allowed"] = Garbled THEN None ELSE meta["retry_allowed"]
    BY FieldParsed
  <2> QED
    BY <2>1, <2>2
<1>4. Sound(m)
  BY <1>1, <1>2, <1>3, FieldsAre DEF Sound
<1> QED
  BY <1>1, <1>4 DEF m

LEMMA DiagnosisIsSound ==
  ASSUME Cr!DiagnosesAreClear, NEW d \in Diagnoses
  PROVE  Sound(Meta(d))
<1>1. ASSUME NEW k \in Cr!Histories PROVE Clear(Cr!Parsed(d, k))
  <2> DEFINE h == Cr!ParseHistory(d[k])
  <2>1. Cr!Parsed(d, k) = h
    BY FieldParsed
  <2>2. Len(h) = 1 => \A j \in DOMAIN h[1] : h[1][j] # ","
    BY DEF Cr!DiagnosesAreClear
  <2>3. d[k] = None \/ d[k] \in Entry
    BY ServicesAssumption DEF Cr!CorrectionsAssumption, Entry
  <2>4. Normal(h) /\ Free(h, ">")
    <3>1. CASE d[k] = None
      <4>1. h = <<>>
        BY <3>1 DEF Cr!ParseHistory
      <4>2. Normal(<<>>) /\ Free(<<>>, ">")
        BY DEF Normal, Free
      <4> QED
        BY <4>1, <4>2
    <3>2. CASE d[k] \in Entry
      BY <3>2, ParseIsNormal
    <3> QED
      BY <2>3, <3>1, <3>2
  <2> HIDE DEF h
  <2>5. ASSUME Len(h) = 1 PROVE Without(h[1], ",")
    <3>1. h \in Seq(Entry)
      BY <2>4 DEF Normal
    <3>2. h[1] \in Entry
      BY <2>5, <3>1
    <3>3. DOMAIN h[1] = 1 .. Len(h[1])
      BY <3>2 DEF Entry
    <3> QED
      BY <2>2, <2>5, <3>3 DEF Without
  <2> QED
    BY <2>1, <2>4, <2>5 DEF Clear
<1>2. ASSUME NEW k \in Cr!Numbers PROVE Cr!Parsed(d, k) \in Nat
  <2>1. d[k] \in Nat \cup {None, Garbled}
    BY DEF Cr!DiagnosesAreClear
  <2> QED
    BY <2>1, FieldParsed
<1> QED
  BY <1>1, <1>2, SoundMeta

(* What is forwarded is sound.                                             *)
LEMMA ForwardSound ==
  ASSUME NEW c, Sound(c), Cr!IsImprovement(c), NEW f, f = Cr!ForwardForRecheck(c)
  PROVE  Sound(f) /\ Cr!Same(f, c, Cr!Routes)
<1> DEFINE done == Cr!Or(c["outcome"], <<"plain", "pending">>)
<1>1. f = [c EXCEPT !["improvement_schema_version"] =
                      Cr!Or(c["improvement_schema_version"], Cr!ImprovementSchemaVersion),
                    !["target_agent"] = None,
                    !["routing_mode"] = None,
                    !["outcome"] = done]
  BY DEF Cr!ForwardForRecheck
<1>2. Cr!Normalize(<<"plain", "pending">>) = <<"plain", "pending">>
  BY DEF Cr!Normalize
<1>3. Cr!Normalize(done) = done
  BY <1>2 DEF Cr!Or, Sound
<1> HIDE DEF done
<1>4. c = [k \in Cr!Fields |-> c[k]]
  BY DEF Sound
<1> HIDE DEF done
<1>5. f = [k \in Cr!Fields |-> f[k]]
  BY <1>1, <1>4
<1>5a. \A k \in Cr!Fields \ Cr!Routes : f[k] = c[k]
  BY <1>1, <1>4 DEF Cr!Routes
<1>6. f["routing_mode"] = None /\ f["outcome"] = done
  <2>1. "routing_mode" \in Cr!Fields /\ "outcome" \in Cr!Fields
    BY FieldsAre DEF Spelled
  <2> QED
    BY <1>1, <1>4, <2>1
<1>7. ASSUME NEW k \in Spelled \cup {"outcome"} PROVE Cr!Normalize(f[k]) = f[k]
  <2>1. k \in {"routing_mode", "outcome"} \/ k \in Cr!Fields \ Cr!Routes
    BY FieldsAre DEF Spelled, Cr!Routes
  <2> QED
    BY <1>3, <1>5a, <1>6, <2>1, NormalizeNone DEF Sound
<1>8. /\ Cr!Histories \subseteq Cr!Fields \ Cr!Routes /\ Cr!Numbers \subseteq Cr!Fields \ Cr!Routes
      /\ "retry_allowed" \in Cr!Fields \ Cr!Routes
  BY FieldsAre DEF Cr!Histories, Cr!Numbers, Cr!Routes
<1> QED
  BY <1>5, <1>5a, <1>7, <1>8 DEF Sound, Cr!Same

(* What goes out says what was forwarded.                                  *)
LEMMA NothingParsed ==
  \A k \in Cr!Fields : Cr!Parsed(Cr!Nothing, k) = Cr!NoCorrection[k]
  BY DEF Cr!NoCorrection, Cr!CorrectionMetadataFromMap

LEMMA SentIs ==
  ASSUME NEW f, Sound(f), NEW base, base = Cr!Apply(f, Cr!Nothing)
  PROVE  /\ \A k \in Cr!Fields \ {"improvement_schema_version"} : Cr!Parsed(base, k) = f[k]
         /\ Sound(Meta(base)) /\ \A k \in Cr!Fields : Meta(base)[k] = Cr!Parsed(base, k)
<1>1. ASSUME NEW k \in Cr!Fields \ {"improvement_schema_version"} PROVE Cr!Parsed(base, k) = f[k]
  BY RoundTrip, NothingParsed
<1>2. /\ Cr!Histories \subseteq Cr!Fields \ {"improvement_schema_version"}
      /\ Cr!Numbers \subseteq Cr!Fields \ {"improvement_schema_version"}
  BY FieldsAre DEF Cr!Histories, Cr!Numbers
<1>3. /\ \A k \in Cr!Histories : Clear(Cr!Parsed(base, k))
      /\ \A k \in Cr!Numbers : Cr!Parsed(base, k) \in Nat
  BY <1>1, <1>2 DEF Sound
<1> QED
  BY <1>1, <1>3, SoundMeta

(* What comes back says the same, with one owner and one return more.      *)
Fates == Cr!Routes \cup {"owner_history", "recurrence_count"}

Reading(r, base) == \A k \in Cr!Fields : r[k] = Cr!Parsed(base, k)

Agrees(again, r) ==
  \A k \in Cr!Fields \ {"owner_history", "recurrence_count", "target_agent", "outcome"} :
    again[k] = r[k]

LEMMA AnsweredAgain ==
  ASSUME NEW base, NEW r, Sound(r), NEW again, Sound(again),
         Reading(r, base), Agrees(again, r), again["owner_history"] # <<>>, again["recurrence_count"] # 0,
         NEW came, came = Meta(Cr!Apply(again, base))
  PROVE  /\ Sound(came) /\ \A k \in Cr!Fields \ Fates : came[k] = r[k]
         /\ came["owner_history"] = again["owner_history"]
         /\ came["recurrence_count"] = again["recurrence_count"]
<1>1. /\ Cr!Histories \subseteq Cr!Fields \ {"improvement_schema_version"}
      /\ Cr!Numbers \subseteq Cr!Fields \ {"improvement_schema_version"}
      /\ "owner_history" \in Cr!Histories /\ "recurrence_count" \in Cr!Numbers
  BY FieldsAre DEF Cr!Histories, Cr!Numbers
<1>2. PICK a : a = Cr!Apply(again, base)
  OBVIOUS
<1>12. ASSUME NEW k \in Cr!Fields \ {"improvement_schema_version"}
       PROVE  \/ Cr!Parsed(a, k) = again[k]
              \/ Cr!Parsed(a, k) = Cr!Parsed(base, k) /\ again[k] = Cr!NoCorrection[k]
  BY <1>2, RoundTrip
<1>13. ASSUME NEW k \in Cr!Fields \ Fates PROVE Cr!Parsed(a, k) = r[k]
  <2>1. k \in Cr!Fields \ {"improvement_schema_version"}
        /\ k \in Cr!Fields \ {"owner_history", "recurrence_count", "target_agent", "outcome"}
    BY DEF Fates, Cr!Routes
  <2> QED
    BY <1>12, <2>1 DEF Reading, Agrees
<1>14. Cr!Parsed(a, "owner_history") = again["owner_history"]
  <2>1. Cr!NoCorrection["owner_history"] = <<>>
    BY <1>1, NoCorrectionIs
  <2> QED
    BY <1>1, <1>12, <2>1
<1>15. Cr!Parsed(a, "recurrence_count") = again["recurrence_count"]
  <2>1. Cr!NoCorrection["recurrence_count"] = 0
    BY <1>1, NoCorrectionIs
  <2> QED
    BY <1>1, <1>12, <2>1
<1>16. ASSUME NEW k \in Cr!Histories PROVE Clear(Cr!Parsed(a, k))
  <2>1. Clear(again[k]) /\ Clear(r[k]) /\ k \in Cr!Fields \ {"improvement_schema_version"}
    BY <1>1 DEF Sound
  <2> QED
    BY <1>1, <1>12, <2>1 DEF Reading
<1>17. ASSUME NEW k \in Cr!Numbers PROVE Cr!Parsed(a, k) \in Nat
  <2>1. again[k] \in Nat /\ r[k] \in Nat /\ k \in Cr!Fields \ {"improvement_schema_version"}
    BY <1>1 DEF Sound
  <2> QED
    BY <1>1, <1>12, <2>1 DEF Reading
<1>18. Sound(Meta(a)) /\ \A k \in Cr!Fields : Meta(a)[k] = Cr!Parsed(a, k)
  BY <1>16, <1>17, SoundMeta
<1>19. came = Meta(a)
  BY <1>2
<1>20. \A k \in Cr!Fields \ Fates : came[k] = r[k]
  BY <1>13, <1>18, <1>19
<1>21. came["owner_history"] = again["owner_history"]
       /\ came["recurrence_count"] = again["recurrence_count"]
  BY <1>1, <1>14, <1>15, <1>18, <1>19
<1> QED
  BY <1>18, <1>19, <1>20, <1>21

Returned(r, peer) ==
  [r EXCEPT !["owner_history"] = Cr!AppendHistory(@, <<peer>>),
            !["recurrence_count"] = @ + 1,
            !["target_agent"] = "sightjack",
            !["outcome"] = <<"plain", "failed_again">>]

LEMMA ReturnedIs ==
  ASSUME NEW r, Sound(r), NEW peer \in Peers, NEW again, again = Returned(r, peer)
  PROVE  /\ Sound(again)
         /\ Agrees(again, r)
         /\ again["owner_history"] = Cr!AppendHistory(r["owner_history"], <<peer>>)
         /\ again["recurrence_count"] = r["recurrence_count"] + 1
         /\ again["owner_history"] # <<>> /\ again["recurrence_count"] # 0
<1> DEFINE owners == Cr!AppendHistory(r["owner_history"], <<peer>>)
           count == r["recurrence_count"] + 1
           failed2 == <<"plain", "failed_again">>
<1>1. /\ Cr!Histories \subseteq Cr!Fields \ {"improvement_schema_version"}
      /\ Cr!Numbers \subseteq Cr!Fields \ {"improvement_schema_version"}
      /\ "owner_history" \in Cr!Histories /\ "recurrence_count" \in Cr!Numbers
      /\ "owner_history" \notin Cr!Numbers /\ "recurrence_count" \notin Cr!Histories
  BY FieldsAre DEF Cr!Histories, Cr!Numbers
<1>2. Clear(owners) /\ owners # <<>>
  BY <1>1, AppendIsClear DEF Sound
<1>3. count \in Nat /\ count # 0
  BY <1>1 DEF Sound
<1>4. Cr!Normalize(failed2) = failed2
  BY DEF Cr!Normalize
<1>5. r = [k \in Cr!Fields |-> r[k]]
  BY DEF Sound
<1> HIDE DEF owners, count, failed2
<1>6. again = [r EXCEPT !["owner_history"] = owners, !["recurrence_count"] = count,
                        !["target_agent"] = "sightjack", !["outcome"] = failed2]
  BY DEF owners, count, failed2, Returned
<1>7. again = [k \in Cr!Fields |-> again[k]]
  BY <1>5, <1>6, Zenon
<1>8. again["owner_history"] = owners /\ again["recurrence_count"] = count
  BY <1>1, <1>5, <1>6, Zenon
<1>9. again["outcome"] = failed2
  <2>1. "outcome" \in Cr!Fields
    BY FieldsAre
  <2> QED
    BY <1>5, <1>6, <2>1, Zenon
<1>10. \A k \in Cr!Fields \ {"owner_history", "recurrence_count", "target_agent", "outcome"} :
         again[k] = r[k]
  BY <1>5, <1>6, Zenon
<1>11. Sound(again)
  <2>1. ASSUME NEW k \in Spelled \cup {"outcome"} PROVE Cr!Normalize(again[k]) = again[k]
    <3>1. CASE k = "outcome"
      BY <1>4, <1>9, <3>1
    <3>2. CASE k # "outcome"
      <4>1. k \in Cr!Fields \ {"owner_history", "recurrence_count", "target_agent", "outcome"}
        BY <3>2, FieldsAre DEF Spelled
      <4> QED
        BY <1>10, <4>1 DEF Sound
    <3> QED
      BY <3>1, <3>2
  <2>2. ASSUME NEW k \in Cr!Histories PROVE Clear(again[k])
    <3>1. CASE k = "owner_history"
      BY <1>2, <1>8, <3>1
    <3>2. CASE k # "owner_history"
      <4>1. k \in Cr!Fields \ {"owner_history", "recurrence_count", "target_agent", "outcome"}
        BY <1>1, <3>2, FieldsAre DEF Cr!Histories
      <4> QED
        BY <1>10, <4>1 DEF Sound
    <3> QED
      BY <3>1, <3>2
  <2>3. ASSUME NEW k \in Cr!Numbers PROVE again[k] \in Nat
    <3>1. CASE k = "recurrence_count"
      BY <1>3, <1>8, <3>1
    <3>2. CASE k # "recurrence_count"
      <4>1. k \in Cr!Fields \ {"owner_history", "recurrence_count", "target_agent", "outcome"}
        BY <1>1, <3>2, FieldsAre DEF Cr!Numbers
      <4> QED
        BY <1>10, <4>1 DEF Sound
    <3> QED
      BY <3>1, <3>2
  <2>4. again["retry_allowed"] # Garbled \/ again["retry_allowed"] = None
    <3>1. "retry_allowed" \in Cr!Fields \ {"owner_history", "recurrence_count", "target_agent", "outcome"}
      BY FieldsAre
    <3> QED
      BY <1>10, <3>1 DEF Sound
  <2> QED
    BY <1>7, <2>1, <2>2, <2>3, <2>4 DEF Sound
<1> QED
  BY <1>2, <1>3, <1>8, <1>10, <1>11 DEF owners, count, Agrees

LEMMA CameBack ==
  ASSUME NEW base, NEW r, Sound(r), NEW peer \in Peers,
         Reading(r, base),
         NEW came, came = Meta(Cr!Apply(Returned(r, peer), base))
  PROVE  /\ Sound(came) /\ \A k \in Cr!Fields \ Fates : came[k] = r[k]
         /\ came["owner_history"] = Cr!AppendHistory(r["owner_history"], <<peer>>)
         /\ came["recurrence_count"] = r["recurrence_count"] + 1
<1>1. PICK again : again = Returned(r, peer)
  OBVIOUS
<1>2. /\ Sound(again) /\ again["owner_history"] # <<>> /\ again["recurrence_count"] # 0
      /\ Agrees(again, r)
  BY <1>1, ReturnedIs
<1>3. came = Meta(Cr!Apply(again, base))
  BY <1>1
<1>4. /\ Sound(came) /\ \A k \in Cr!Fields \ Fates : came[k] = r[k]
      /\ came["owner_history"] = again["owner_history"]
      /\ came["recurrence_count"] = again["recurrence_count"]
  BY <1>2, <1>3, AnsweredAgain
<1> QED
  BY <1>1, <1>4, ReturnedIs

(* Metadata, event and remark of a correction say the same.                *)
LEMMA FormsOf ==
  ASSUME NEW m, Sound(m), NEW a, a = Cr!Apply(m, Cr!Nothing)
  PROVE  /\ Meta(a) = Cr!ImprovementEvent(m)
         /\ \A k \in (DOMAIN Cr!InsightEntry(m)) \ {"failure_type"} : Cr!InsightEntry(m)[k] = a[k]
<1> DEFINE ev == Cr!ImprovementEvent(m)
<1>1. ASSUME NEW k \in Cr!Fields PROVE Cr!Parsed(a, k) = ev[k]
  <2>1. CASE k = "improvement_schema_version"
    <3>1. a[k] = Cr!Or(m[k], Cr!ImprovementSchemaVersion) /\ k \in Cr!Texts
      BY <2>1, ApplyIs DEF Cr!Texts
    <3>2. ev[k] = Cr!Or(m[k], Cr!ImprovementSchemaVersion)
      BY <2>1 DEF Cr!ImprovementEvent
    <3> QED
      BY <3>1, <3>2, FieldParsed
  <2>2. CASE k # "improvement_schema_version"
    <3>1. Cr!Parsed(a, k) = m[k]
      BY <2>2, SentIs
    <3>2. CASE k \in Spelled
      <4>1. ev[k] = Cr!Normalize(m[k])
        BY <2>2, <3>2 DEF Cr!ImprovementEvent, Spelled
      <4> QED
        BY <3>1, <3>2, <4>1 DEF Sound
    <3>3. CASE k \notin Spelled
      <4>1. ev[k] = m[k]
        BY <2>2, <3>3 DEF Cr!ImprovementEvent, Spelled
      <4> QED
        BY <3>1, <4>1
    <3> QED
      BY <3>2, <3>3
  <2> QED
    BY <2>1, <2>2
<1>2. ev = [k \in Cr!Fields |-> ev[k]]
  BY DEF Cr!ImprovementEvent
<1> HIDE DEF ev
<1>3. Meta(a) = ev
  BY <1>1, <1>2 DEF Meta, Cr!CorrectionMetadataFromMap
<1> DEFINE ie == Cr!InsightEntry(m)
<1>4. ASSUME NEW k \in (DOMAIN ie) \ {"failure_type"} PROVE ie[k] = a[k]
  <2>1. k \in Cr!Fields /\ Cr!Said(m, k) /\ k # "failure_type"
    BY DEF Cr!InsightEntry
  <2>2. CASE k \in Cr!Histories
    <3>1. k \notin {"severity", "provider_state"} /\ k # "failure_type"
          /\ k # "provider_retry_budget" /\ k # "recurrence_count"
      BY <2>2 DEF Cr!Histories
    <3>2. ie[k] = Cr!FormatHistory(m[k])
      BY <2>1, <2>2, <3>1 DEF Cr!InsightEntry
    <3>3. m[k] # <<>>
      <4>1. m[k] # Cr!NoCorrection[k]
        BY <2>1, <3>1 DEF Cr!Said
      <4> QED
        BY <2>2, <4>1, NoCorrectionIs
    <3> QED
      BY <2>2, <3>2, <3>3, ApplyIs
  <2>3. CASE k \in {"severity", "provider_state"}
    <3>1. k \notin Cr!Histories /\ k \in Spelled
      BY <2>3 DEF Cr!Histories, Spelled
    <3>2. ie[k] = Cr!Normalize(m[k])
      BY <2>1, <2>3, <3>1 DEF Cr!InsightEntry
    <3>3. a[k] = Cr!Or(Cr!Normalize(m[k]), Cr!Nothing[k]) /\ Cr!Nothing[k] = None
      BY <2>1, <3>1, ApplyIs DEF Cr!Nothing
    <3> QED
      BY <3>2, <3>3 DEF Cr!Or
  <2>4. CASE k \notin Cr!Histories \cup {"severity", "provider_state"}
    <3>1. ie[k] = m[k]
      BY <2>1, <2>4 DEF Cr!InsightEntry
    <3>2. CASE k = "provider_retry_budget"
      <4>1. m["provider_state"] # None /\ "provider_state" \in Cr!ProviderFields
        BY <2>1, <3>2 DEF Cr!Said, Cr!ProviderFields
      <4>2. a["provider_retry_budget"] = m["provider_retry_budget"]
        <5>1. a["provider_retry_budget"]
                = IF m["provider_retry_budget"] = 0 /\ \A p \in Cr!ProviderFields : m[p] = None
                  THEN Cr!Nothing["provider_retry_budget"] ELSE m["provider_retry_budget"]
          BY ApplyIs
        <5> QED
          BY <4>1, <5>1
      <4> QED
        BY <3>1, <3>2, <4>2
    <3>3. CASE k # "provider_retry_budget"
      <4>1. k # "recurrence_count" => k \notin Cr!Unsaid
        BY <2>1, <3>3 DEF Cr!Said
      <4>2. k = "recurrence_count" \/ k \in Plainly \cup {"outcome"}
        BY <2>1, <2>4, <3>3, <4>1, FieldsAre DEF Cr!Unsaid, Plainly, Spelled, Cr!Numbers
      <4>3. CASE k = "recurrence_count"
        <5>1. m[k] > 0
          BY <2>1, <4>3 DEF Cr!Said
        <5> QED
          BY <3>1, <4>3, <5>1, ApplyIs
      <4>4. CASE k \in Plainly \cup {"outcome"}
        <5>1. a[k] = Cr!Or(m[k], Cr!Nothing[k]) /\ Cr!Nothing[k] = None
          BY <2>1, <4>4, ApplyIs DEF Cr!Nothing
        <5> QED
          BY <3>1, <5>1 DEF Cr!Or
      <4> QED
        BY <4>2, <4>3, <4>4
    <3> QED
      BY <3>2, <3>3
  <2> QED
    BY <2>2, <2>3, <2>4
<1> QED
  BY <1>3, <1>4 DEF ev

(* The mails have been read, their remarks written, and the thread of each *)
(* is kept.                                                                *)
RemarkOn(m) == IF Cr!Usable(m) THEN Cr!InsightEntry(m) ELSE Cr!NoCorrection

Follows(mail, ms) ==
  mail.of # 0 =>
    /\ mail.of \in 1 .. Len(ms)
    /\ LET came   == Meta(mail.metadata)
           before == Meta(ms[mail.of].metadata)
       IN  /\ Cr!Same(came, before, Fates)
           /\ came["owner_history"] = Cr!AppendHistory(before["owner_history"], <<mail.by>>)
           /\ came["recurrence_count"] = before["recurrence_count"] + 1

MailsRead(ms, rs) ==
  /\ \E S : ms \in Seq(S)
  /\ \E S : rs \in Seq(S)
  /\ Len(rs) = Len(ms)
  /\ \A i \in 1 .. Len(ms) : /\ Sound(Meta(ms[i].metadata))
                             /\ rs[i] = RemarkOn(Meta(ms[i].metadata))
                             /\ Follows(ms[i], ms)

SentFrom(s, ms) ==
  s.of # 0 =>
    /\ s.of \in 1 .. Len(ms)
    /\ Cr!IsImprovement(Meta(ms[s.of].metadata))
    /\ s.metadata = Cr!Apply(Cr!ForwardForRecheck(Meta(ms[s.of].metadata)), Cr!Nothing)

AllSent(st, ms) ==
  /\ st = [p \in Plans |-> [metadata |-> st[p].metadata, of |-> st[p].of]]
  /\ \A p \in Plans : SentFrom(st[p], ms)

CorrectionsInv == MailsRead(mails, remarks) /\ AllSent(sent, mails)

LEMMA MailArrives ==
  ASSUME NEW ms, NEW rs, MailsRead(ms, rs), NEW mail, Sound(Meta(mail.metadata)),
         Follows(mail, ms)
  PROVE  MailsRead(Append(ms, mail), Append(rs, RemarkOn(Meta(mail.metadata))))
<1> DEFINE r == RemarkOn(Meta(mail.metadata))
           ns == Append(ms, mail)
           qs == Append(rs, r)
<1>1. PICK S : ms \in Seq(S)
  BY DEF MailsRead
<1>2. PICK R : rs \in Seq(R)
  BY DEF MailsRead
<1>3. Len(rs) = Len(ms) /\ Len(ms) \in Nat
  BY <1>1 DEF MailsRead
<1> HIDE DEF r
<1>4. /\ ns \in Seq(S \cup {mail}) /\ Len(ns) = Len(ms) + 1 /\ ns[Len(ms) + 1] = mail
      /\ \A i \in 1 .. Len(ms) : ns[i] = ms[i]
  <2>1. ms \in Seq(S \cup {mail})
    BY <1>1
  <2> QED
    BY <2>1
<1>5. /\ qs \in Seq(R \cup {r}) /\ Len(qs) = Len(rs) + 1 /\ qs[Len(rs) + 1] = r
      /\ \A i \in 1 .. Len(rs) : qs[i] = rs[i]
  <2>1. rs \in Seq(R \cup {r})
    BY <1>2
  <2> QED
    BY <2>1
<1> HIDE DEF ns, qs
<1>6. ASSUME NEW x, Follows(x, ms) PROVE Follows(x, ns)
  <2> SUFFICES ASSUME x.of # 0 PROVE x.of \in 1 .. Len(ns) /\ ns[x.of] = ms[x.of]
    BY <1>6 DEF Follows
  <2>1. x.of \in 1 .. Len(ms)
    BY <1>6 DEF Follows
  <2> QED
    BY <1>3, <1>4, <2>1
<1>7. ASSUME NEW i \in 1 .. Len(ns)
      PROVE  /\ Sound(Meta(ns[i].metadata))
             /\ qs[i] = RemarkOn(Meta(ns[i].metadata))
             /\ Follows(ns[i], ns)
  <2>1. CASE i = Len(ms) + 1
    BY <1>3, <1>4, <1>5, <1>6, <2>1 DEF r
  <2>2. CASE i # Len(ms) + 1
    <3>1. i \in 1 .. Len(ms) /\ ns[i] = ms[i] /\ qs[i] = rs[i]
      BY <1>3, <1>4, <1>5, <2>2
    <3>2. /\ Sound(Meta(ms[i].metadata)) /\ rs[i] = RemarkOn(Meta(ms[i].metadata))
          /\ Follows(ms[i], ms)
      BY <3>1 DEF MailsRead
    <3> QED
      BY <1>6, <3>1, <3>2
  <2> QED
    BY <2>1, <2>2
<1>8. MailsRead(ns, qs)
  BY <1>3, <1>4, <1>5, <1>7 DEF MailsRead
<1> QED
  BY <1>8 DEF ns, qs, r

LEMMA SentStays ==
  ASSUME NEW S, NEW ms \in Seq(S), NEW st, AllSent(st, ms), NEW mail
  PROVE  AllSent(st, Append(ms, mail))
<1> DEFINE ns == Append(ms, mail)
<1>1. Len(ns) = Len(ms) + 1 /\ Len(ms) \in Nat /\ \A i \in 1 .. Len(ms) : ns[i] = ms[i]
  OBVIOUS
<1> HIDE DEF ns
<1>2. ASSUME NEW p \in Plans PROVE SentFrom(st[p], ns)
  <2> SUFFICES ASSUME st[p].of # 0
               PROVE  st[p].of \in 1 .. Len(ns) /\ ns[st[p].of] = ms[st[p].of]
    BY DEF AllSent, SentFrom
  <2>1. st[p].of \in 1 .. Len(ms)
    BY DEF AllSent, SentFrom
  <2> QED
    BY <1>1, <2>1
<1>3. AllSent(st, ns)
  BY <1>2 DEF AllSent
<1> QED
  BY <1>3 DEF ns

LEMMA CorrectionsPreserved ==
  ASSUME Cr!DiagnosesAreClear, CorrectionsInv, Cr!Next \/ UNCHANGED correctionVars
  PROVE  CorrectionsInv'
<1>1. PICK S : mails \in Seq(S)
  BY DEF CorrectionsInv, MailsRead
<1>2. ASSUME NEW mail, Cr!Received(mail), Sound(Meta(mail.metadata)), Follows(mail, mails)
      PROVE  MailsRead(mails, remarks)' /\ mails' = Append(mails, mail)
  <2>1. /\ mails' = Append(mails, mail)
        /\ remarks' = Append(remarks, RemarkOn(Meta(mail.metadata)))
    BY <1>2 DEF Cr!Received, RemarkOn, Meta
  <2>2. MailsRead(mails', remarks')
    BY <1>2, <2>1, MailArrives DEF CorrectionsInv
  <2> QED
    BY <2>1, <2>2
<1>3. ASSUME NEW p \in Plans, NEW d \in Diagnoses, NEW byWave \in BOOLEAN, Cr!Diagnosed(p, d, byWave)
      PROVE  CorrectionsInv'
  <2>1. PICK mail : Cr!Received(mail) /\ mail.metadata = d /\ mail.of = 0 /\ UNCHANGED sent
    BY <1>3 DEF Cr!Diagnosed
  <2>2. Sound(Meta(mail.metadata)) /\ Follows(mail, mails)
    BY <2>1, DiagnosisIsSound DEF Follows
  <2>3. MailsRead(mails, remarks)' /\ mails' = Append(mails, mail)
    BY <1>2, <2>1, <2>2
  <2>4. AllSent(sent, mails')
    BY <1>1, <2>3, SentStays DEF CorrectionsInv
  <2> QED
    BY <2>1, <2>3, <2>4 DEF CorrectionsInv
<1>4. ASSUME NEW p \in Plans, Cr!Composed(p) PROVE CorrectionsInv'
  <2> DEFINE m == Cr!CorrectionMetadataForWave(mails, p)
             i == Cr!Latest(p)
             given == [metadata |-> Cr!Apply(m, Cr!Nothing), of |-> i]
  <2>1. /\ Cr!IsImprovement(m) /\ UNCHANGED <<mails, remarks>>
        /\ sent' = [sent EXCEPT ![p] = given]
    BY <1>4 DEF Cr!Composed
  <2>2. CorrectionInv
    BY <1>1 DEF CorrectionInv
  <2>3. \/ i = 0 /\ m = Cr!NoCorrection
        \/ /\ i \in 1 .. Len(mails) /\ Cr!IsImprovement(Cr!Correction(i))
           /\ m = Cr!ForwardForRecheck(Cr!Correction(i))
    BY <2>2, LatestIs
  <2>4. ~Cr!IsImprovement(Cr!NoCorrection)
    <3>1. Cr!NoCorrection["recurrence_count"] = 0
      BY NoCorrectionIs DEF Cr!Numbers
    <3> QED
      BY <3>1 DEF Cr!IsImprovement
  <2>5. Cr!Correction(i) = Meta(mails[i].metadata)
    BY DEF Cr!Correction, Meta
  <2> HIDE DEF m, i
  <2>6. /\ i \in 1 .. Len(mails) /\ Cr!IsImprovement(Meta(mails[i].metadata))
        /\ m = Cr!ForwardForRecheck(Meta(mails[i].metadata))
    BY <2>1, <2>3, <2>4, <2>5
  <2>7. given.of = i /\ given.metadata = Cr!Apply(m, Cr!Nothing)
        /\ given = [metadata |-> given.metadata, of |-> given.of]
    OBVIOUS
  <2> HIDE DEF given
  <2>8. SentFrom(given, mails)
    BY <2>6, <2>7 DEF SentFrom
  <2>9. AllSent(sent', mails)
    <3>1. sent = [q \in Plans |-> [metadata |-> sent[q].metadata, of |-> sent[q].of]]
          /\ \A q \in Plans : SentFrom(sent[q], mails)
      BY DEF CorrectionsInv, AllSent
    <3>2. sent' = [q \in Plans |-> IF q = p THEN given ELSE sent[q]]
      BY <2>1, <3>1
    <3>3. \A q \in Plans : sent'[q] = given \/ sent'[q] = sent[q]
      BY <3>2
    <3>4. \A q \in Plans : SentFrom(sent'[q], mails)
      BY <2>8, <3>1, <3>3
    <3>5. \A q \in Plans : sent'[q] = [metadata |-> sent'[q].metadata, of |-> sent'[q].of]
      <4>1. \A q \in Plans : sent[q] = [metadata |-> sent[q].metadata, of |-> sent[q].of]
        BY <3>1
      <4> QED
        BY <2>7, <3>3, <4>1
    <3>6. sent' = [q \in Plans |-> sent'[q]]
      BY <3>2
    <3> QED
      BY <3>4, <3>5, <3>6 DEF AllSent
  <2> QED
    BY <2>1, <2>9 DEF CorrectionsInv
<1>5. ASSUME NEW p \in Plans, NEW peer \in Peers, Cr!FailedAgain(p, peer) PROVE CorrectionsInv'
  <2> DEFINE j == sent[p].of
             base == sent[p].metadata
             c == Meta(mails[j].metadata)
             f == Cr!ForwardForRecheck(c)
             r == Meta(base)
             mail == [wave |-> p.key, issues |-> {}, metadata |-> Cr!Apply(Returned(r, peer), base),
                      of |-> j, by |-> peer]
  <2>1. j # 0 /\ Cr!Received(mail) /\ sent' = [sent EXCEPT ![p].of = 0]
    BY <1>5 DEF Cr!FailedAgain, Returned, Meta
  <2>2. /\ j \in 1 .. Len(mails) /\ Cr!IsImprovement(c) /\ base = Cr!Apply(f, Cr!Nothing)
    BY <2>1 DEF CorrectionsInv, AllSent, SentFrom
  <2>3. /\ mail.of = j /\ mail.by = peer
        /\ mail.metadata = Cr!Apply(Returned(r, peer), base)
    OBVIOUS
  <2> HIDE DEF mail, j, base
  <2>4. Sound(c)
    BY <2>2 DEF CorrectionsInv, MailsRead
  <2> HIDE DEF c
  <2>5. Sound(f) /\ Cr!Same(f, c, Cr!Routes)
    BY <2>2, <2>4, ForwardSound
  <2> HIDE DEF f
  <2>6. /\ \A k \in Cr!Fields \ {"improvement_schema_version"} : Cr!Parsed(base, k) = f[k]
        /\ Sound(r) /\ \A k \in Cr!Fields : r[k] = Cr!Parsed(base, k)
    BY <2>2, <2>5, SentIs
  <2> HIDE DEF r
  <2>7. Reading(r, base)
    BY <2>6 DEF Reading
  <2>8. \A k \in Cr!Fields \ Cr!Routes : r[k] = c[k]
    <3>1. "improvement_schema_version" \in Cr!Routes
      BY DEF Cr!Routes
    <3> QED
      BY <2>5, <2>6, <3>1 DEF Cr!Same
  <2>9. PICK came : came = Meta(mail.metadata)
    OBVIOUS
  <2>10. /\ Sound(came) /\ \A k \in Cr!Fields \ Fates : came[k] = r[k]
         /\ came["owner_history"] = Cr!AppendHistory(r["owner_history"], <<peer>>)
         /\ came["recurrence_count"] = r["recurrence_count"] + 1
    BY <2>3, <2>6, <2>7, <2>9, CameBack
  <2>11. /\ "owner_history" \in Cr!Fields \ Cr!Routes /\ "recurrence_count" \in Cr!Fields \ Cr!Routes
         /\ Cr!Fields \ Fates \subseteq Cr!Fields \ Cr!Routes
    BY FieldsAre DEF Cr!Histories, Cr!Numbers, Cr!Routes, Fates
  <2>12. /\ Cr!Same(came, c, Fates)
         /\ came["owner_history"] = Cr!AppendHistory(c["owner_history"], <<peer>>)
         /\ came["recurrence_count"] = c["recurrence_count"] + 1
    BY <2>8, <2>10, <2>11 DEF Cr!Same
  <2>13. Sound(Meta(mail.metadata)) /\ Follows(mail, mails)
    BY <2>2, <2>3, <2>9, <2>10, <2>12 DEF Follows, c
  <2>14. MailsRead(mails, remarks)' /\ mails' = Append(mails, mail)
    BY <1>2, <2>1, <2>13
  <2>15. AllSent(sent, mails')
    BY <1>1, <2>14, SentStays DEF CorrectionsInv
  <2>16. AllSent(sent', mails')
    <3>1. sent = [q \in Plans |-> [metadata |-> sent[q].metadata, of |-> sent[q].of]]
          /\ \A q \in Plans : SentFrom(sent[q], mails')
      BY <2>15 DEF AllSent
    <3>2. sent' = [q \in Plans |->
                     IF q = p THEN [metadata |-> sent[q].metadata, of |-> 0] ELSE sent[q]]
      BY <2>1, <3>1
    <3>3. \A q \in Plans : sent'[q].of = 0 \/ sent'[q] = sent[q]
      BY <3>2
    <3>4. \A q \in Plans : SentFrom(sent'[q], mails')
      BY <3>1, <3>3 DEF SentFrom
    <3>5. \A q \in Plans : sent[q] = [metadata |-> sent[q].metadata, of |-> sent[q].of]
      BY <3>1
    <3>6. \A q \in Plans : sent'[q] = [metadata |-> sent'[q].metadata, of |-> sent'[q].of]
      BY <3>2, <3>5
    <3>7. sent' = [q \in Plans |-> sent'[q]]
      BY <3>2
    <3> QED
      BY <3>4, <3>6, <3>7 DEF AllSent
  <2> QED
    BY <2>14, <2>16 DEF CorrectionsInv
<1>6. CASE UNCHANGED correctionVars
  BY <1>6 DEF correctionVars, CorrectionsInv
<1> QED
  BY <1>3, <1>4, <1>5, <1>6, Zenon DEF Cr!Next

LEMMA CorrectionsInit == Cr!Init => CorrectionsInv
<1> SUFFICES ASSUME Cr!Init PROVE CorrectionsInv
  OBVIOUS
<1>1. mails = <<>> /\ remarks = <<>>
      /\ sent = [p \in Plans |-> [metadata |-> Cr!Nothing, of |-> 0]]
  BY DEF Cr!Init
<1>2. MailsRead(mails, remarks)
  <2>1. mails \in Seq({}) /\ remarks \in Seq({}) /\ Len(mails) = 0 /\ Len(remarks) = 0
    BY <1>1
  <2> QED
    BY <2>1 DEF MailsRead
<1>3. AllSent(sent, mails)
  <2>1. \A p \in Plans : sent[p].of = 0 /\ sent[p] = [metadata |-> sent[p].metadata, of |-> sent[p].of]
    BY <1>1
  <2>2. sent = [p \in Plans |-> sent[p]]
    BY <1>1
  <2> QED
    BY <2>1, <2>2 DEF AllSent, SentFrom
<1> QED
  BY <1>2, <1>3 DEF CorrectionsInv

LEMMA CorrectionsKept == CorrectionsInv => Cr!CorrectionsSurvive
<1> SUFFICES ASSUME CorrectionsInv PROVE Cr!CorrectionsSurvive
  OBVIOUS
<1>1. PICK S : mails \in Seq(S)
  BY DEF CorrectionsInv, MailsRead
<1>2. \A i : Cr!Correction(i) = Meta(mails[i].metadata)
  BY DEF Cr!Correction, Meta
<1>3. DOMAIN mails = 1 .. Len(mails) /\ Len(mails) \in Nat
  BY <1>1
<1>4. \A i \in 1 .. Len(mails) : /\ Sound(Meta(mails[i].metadata))
                                /\ remarks[i] = RemarkOn(Meta(mails[i].metadata))
                                /\ Follows(mails[i], mails)
  BY DEF CorrectionsInv, MailsRead
<1>5. Cr!LatestIsTaken
  <2>1. CorrectionInv
    BY <1>1 DEF CorrectionInv
  <2> QED
    BY <2>1, LatestTaken
<1>6. Cr!ThreadIsKept
  <2> SUFFICES ASSUME NEW i \in DOMAIN mails, mails[i].of # 0
               PROVE  LET came   == Cr!Correction(i)
                          before == Cr!Correction(mails[i].of)
                      IN  /\ Cr!Same(came, before, Fates)
                          /\ came["owner_history"]
                               = Cr!AppendHistory(before["owner_history"], <<mails[i].by>>)
                          /\ came["recurrence_count"] = before["recurrence_count"] + 1
    BY Zenon DEF Cr!ThreadIsKept, Fates
  <2>1. Follows(mails[i], mails)
    BY <1>3, <1>4
  <2> QED
    BY <1>2, <2>1, Zenon DEF Follows
<1>7. Cr!FormsAgree
  <2> SUFFICES ASSUME mails # <<>>, NEW i, i = Len(mails), Cr!Usable(Cr!Correction(i))
               PROVE  LET m       == Cr!Correction(i)
                          applied == Cr!Apply(m, Cr!Nothing)
                      IN  /\ Meta(applied) = Cr!ImprovementEvent(m)
                          /\ \A k \in DOMAIN remarks[i] \ {"failure_type"} : remarks[i][k] = applied[k]
    BY DEF Cr!FormsAgree, Meta
  <2>1. i \in 1 .. Len(mails)
    BY <1>1, <1>3
  <2>2. PICK m : m = Cr!Correction(i)
    OBVIOUS
  <2>3. Sound(m) /\ remarks[i] = Cr!InsightEntry(m)
    BY <1>2, <1>4, <2>1, <2>2 DEF RemarkOn
  <2>4. PICK a : a = Cr!Apply(m, Cr!Nothing)
    OBVIOUS
  <2>5. /\ Meta(a) = Cr!ImprovementEvent(m)
        /\ \A k \in (DOMAIN Cr!InsightEntry(m)) \ {"failure_type"} : Cr!InsightEntry(m)[k] = a[k]
    BY <2>3, <2>4, FormsOf
  <2> QED
    BY <2>2, <2>3, <2>4, <2>5
<1> QED
  BY <1>5, <1>6, <1>7 DEF Cr!CorrectionsSurvive

(* Whatever comes in between, a wave is forwarded the latest correction    *)
(* that is about it and can be used, without where it was to go.           *)
THEOREM LatestIsTakenHolds == PartSpec => [](part = "corrections" => Cr!LatestIsTaken)
<1>1. PartInit => CorrectionInv
  <2>1. <<>> \in Seq({})
    OBVIOUS
  <2> QED
    BY <2>1 DEF PartInit, Cr!Init, CorrectionInv
<1>2. CorrectionInv /\ [PartNext]_partVars => CorrectionInv'
  BY OtherParts, CorrectionPreserved
<1> QED
  BY <1>1, <1>2, LatestTaken, PTL DEF PartSpec

(* The latest correction goes with the mail of its wave, however often a   *)
(* failure comes back its diagnosis stays what it was, each owner and each *)
(* return added, and metadata, event and ledger say the same: of all       *)
(* diagnoses whose counts and single entries can be written and read       *)
(* again.                                                                  *)
THEOREM CorrectionsSurviveHolds ==
  Cr!DiagnosesAreClear => (PartSpec => []CorrectionsSurvive)
<1> SUFFICES ASSUME Cr!DiagnosesAreClear PROVE PartSpec => []CorrectionsSurvive
  OBVIOUS
<1>1. PartInit => CorrectionsInv
  BY CorrectionsInit DEF PartInit
<1>2. CorrectionsInv /\ [PartNext]_partVars => CorrectionsInv'
  BY OtherParts, CorrectionsPreserved
<1>3. CorrectionsInv => CorrectionsSurvive
  BY CorrectionsKept DEF CorrectionsSurvive
<1> QED
  BY <1>1, <1>2, <1>3, PTL DEF PartSpec
---------------------------------------------------------------------------
(* The texts of rival contracts: sequences joined, sections found, and the *)
(* lines that are in them.                                                 *)

(* The sequences one after the other, up to each place.                    *)
JoinStep(S) == [q \in Seq(S) \X Seq(S) |-> q[1] \o q[2]]

(* Joined adds the sequences up, one after the other.                      *)
LEMMA JoinedIs ==
  ASSUME NEW S, NEW s \in Seq(Seq(S))
  PROVE  \E f : /\ f \in [0 .. Len(s) -> Seq(S)] /\ f[0] = <<>>
                /\ \A i \in 1 .. Len(s) : f[i] = f[i - 1] \o s[i]
                /\ Ca!Joined(s) = f[Len(s)]
<1> DEFINE N == Len(s)
           none == <<>>
           Is(f) == f = [i \in 0 .. N |-> IF i = 0 THEN none ELSE f[i - 1] \o s[i]]
           made == CHOOSE f : Is(f)
<1>1. N \in Nat /\ none \in Seq(S)
  OBVIOUS
<1>2. Ca!Joined(s) = made[N]
  BY DEF Ca!Joined
<1>3. \A q \in Seq(S) \X Seq(S) : q[1] \o q[2] \in Seq(S)
  BY ConcatProperties
<1>4. JoinStep(S) \in Steps(Seq(S), Seq(S))
  BY <1>3 DEF JoinStep, Steps
<1>5. \A v, e \in Seq(S) : JoinStep(S)[<<v, e>>] = v \o e
  BY DEF JoinStep
<1> HIDE DEF none
<1>6. PICK g : /\ Reads(g, s, none, JoinStep(S), N) /\ g \in [0 .. N -> Seq(S)]
  BY <1>1, <1>4, FoldType
<1>7. \A i \in 1 .. N : g[i] = g[i - 1] \o s[i]
  <2> SUFFICES ASSUME NEW i \in 1 .. N PROVE g[i] = g[i - 1] \o s[i]
    OBVIOUS
  <2>1. s[i] \in Seq(S) /\ i - 1 \in 0 .. N
    BY <1>1
  <2>2. g[i - 1] \in Seq(S)
    BY <1>6, <2>1
  <2>3. g[i] = JoinStep(S)[<<g[i - 1], s[i]>>]
    BY <1>6 DEF Reads
  <2> QED
    BY <1>5, <2>1, <2>2, <2>3
<1>8. Is(g)
  <2>1. g[0] = none
    BY <1>6 DEF Reads
  <2>2. \A i \in 0 .. N : i # 0 => i \in 1 .. N
    BY <1>1
  <2>3. \A i \in 0 .. N : g[i] = IF i = 0 THEN none ELSE g[i - 1] \o s[i]
    BY <1>7, <2>1, <2>2
  <2>4. g = [i \in 0 .. N |-> g[i]]
    BY <1>6
  <2> QED
    BY <2>3, <2>4
<1> HIDE DEF Is
<1>9. Is(made)
  BY <1>8
<1> HIDE DEF made
<1>10. made[0] = none /\ \A i \in 1 .. N : made[i] = made[i - 1] \o s[i]
  BY <1>1, <1>9 DEF Is
<1>11. ASSUME NEW i \in 1 .. N, made[i - 1] \in Seq(S)
       PROVE  made[i] = JoinStep(S)[<<made[i - 1], s[i]>>]
  <2>1. s[i] \in Seq(S)
    OBVIOUS
  <2> QED
    BY <1>5, <1>10, <1>11, <2>1
<1>12. made[N] = Fold(s, none, JoinStep(S))
  <2> DEFINE V == Seq(S)
             step == JoinStep(S)
  <2>1. \A i \in 1 .. Len(s) : made[i - 1] \in V => made[i] = step[<<made[i - 1], s[i]>>]
    BY <1>11
  <2>2. s \in Seq(V) /\ none \in V /\ step \in Steps(V, V) /\ made[0] = none
    BY <1>1, <1>4, <1>10
  <2> HIDE DEF V, step
  <2>3. made[Len(s)] = Fold(s, none, step)
    BY <2>1, <2>2, FoldIs
  <2> QED
    BY <2>3 DEF step
<1>13. g[N] = Fold(s, none, JoinStep(S))
  BY <1>6, FoldIsReading
<1>14. g[0] = none
  BY <1>6 DEF Reads
<1> QED
  BY <1>2, <1>6, <1>7, <1>12, <1>13, <1>14 DEF none

LEMMA JoinedType ==
  ASSUME NEW S, NEW s \in Seq(Seq(S))
  PROVE  Ca!Joined(s) \in Seq(S)
<1>1. PICK f : f \in [0 .. Len(s) -> Seq(S)] /\ Ca!Joined(s) = f[Len(s)]
  BY JoinedIs
<1>2. Len(s) \in 0 .. Len(s)
  OBVIOUS
<1> QED
  BY <1>1, <1>2

(* What is counted in each is counted in all.                              *)
LEMMA JoinedNumber ==
  ASSUME NEW S, NEW s \in Seq(Seq(S)), NEW X, NEW c,
         c[0] = 0, \A i \in 1 .. Len(s) : c[i] = c[i - 1] + Number(s[i], X)
  PROVE  Number(Ca!Joined(s), X) = c[Len(s)]
<1> DEFINE N == Len(s)
<1>1. N \in Nat
  OBVIOUS
<1>2. PICK f : /\ f \in [0 .. N -> Seq(S)] /\ f[0] = <<>>
               /\ \A i \in 1 .. N : f[i] = f[i - 1] \o s[i]
               /\ Ca!Joined(s) = f[N]
  BY JoinedIs
<1> DEFINE T == {i \in 0 .. N : Number(f[i], X) = c[i]}
<1>3. 0 \in T
  <2>1. Number(f[0], X) = 0
    BY <1>2, NumberNone
  <2> QED
    BY <1>1, <2>1
<1>4. ASSUME NEW i \in T, i # N PROVE i + 1 \in T
  <2>1. i + 1 \in 1 .. N /\ i \in 0 .. N /\ i + 1 \in 0 .. N /\ (i + 1) - 1 = i
    BY <1>1, <1>4
  <2>2. f[i] \in Seq(S) /\ s[i + 1] \in Seq(S)
    <3> HIDE DEF T
    <3>1. f[i] \in Seq(S)
      BY <1>2, <2>1
    <3>2. s[i + 1] \in Seq(S)
      BY <2>1
    <3> QED
      BY <3>1, <3>2, Zenon
  <2>3. f[i + 1] = f[i] \o s[i + 1]
    BY <1>2, <2>1
  <2>4. Number(f[i + 1], X) = Number(f[i], X) + Number(s[i + 1], X)
    BY <2>2, <2>3, NumberConcat
  <2>5. c[i + 1] = c[i] + Number(s[i + 1], X)
    BY <2>1
  <2> QED
    BY <1>4, <2>1, <2>4, <2>5
<1>5. T \in SUBSET (0 .. N)
  OBVIOUS
<1> HIDE DEF T
<1>6. T = 0 .. N
  BY <1>1, <1>3, <1>4, <1>5, Upwards
<1>7. N \in T
  BY <1>1, <1>6
<1> QED
  BY <1>2, <1>7 DEF T

(* Joined of two lists of sequences is that of the one, then of the other. *)
LEMMA JoinedConcat ==
  ASSUME NEW S, NEW p \in Seq(Seq(S)), NEW q \in Seq(Seq(S))
  PROVE  Ca!Joined(p \o q) = Ca!Joined(p) \o Ca!Joined(q)
<1> DEFINE m == Len(p)
           n == Len(q)
           r == p \o q
<1>1. /\ m \in Nat /\ n \in Nat /\ r \in Seq(Seq(S)) /\ Len(r) = m + n
      /\ \A i \in 1 .. m : r[i] = p[i]
      /\ \A i \in 1 .. n : r[m + i] = q[i]
  <2>1. m \in Nat /\ n \in Nat
    OBVIOUS
  <2>2. /\ r \in Seq(Seq(S)) /\ Len(r) = m + n
        /\ \A i \in 1 .. m + n : r[i] = IF i <= m THEN p[i] ELSE q[i - m]
    BY ConcatProperties
  <2> HIDE DEF m, n, r
  <2>3. \A i \in 1 .. m : i \in 1 .. m + n /\ i <= m
    BY <2>1
  <2>4. \A i \in 1 .. n : m + i \in 1 .. m + n /\ ~(m + i <= m) /\ (m + i) - m = i
    BY <2>1
  <2> QED
    BY <2>1, <2>2, <2>3, <2>4
<1>8. m = Len(p) /\ n = Len(q)
  OBVIOUS
<1> HIDE DEF r, m, n
<1>2. PICK f : /\ f \in [0 .. m + n -> Seq(S)] /\ f[0] = <<>>
               /\ \A i \in 1 .. m + n : f[i] = f[i - 1] \o r[i]
               /\ Ca!Joined(r) = f[m + n]
  <2>1. \E f : /\ f \in [0 .. Len(r) -> Seq(S)] /\ f[0] = <<>>
               /\ \A i \in 1 .. Len(r) : f[i] = f[i - 1] \o r[i]
               /\ Ca!Joined(r) = f[Len(r)]
    BY <1>1, JoinedIs
  <2> QED
    BY <1>1, <2>1, Zenon
<1>3. PICK g : /\ g \in [0 .. m -> Seq(S)] /\ g[0] = <<>>
               /\ \A i \in 1 .. m : g[i] = g[i - 1] \o p[i]
               /\ Ca!Joined(p) = g[m]
  BY <1>8, JoinedIs
<1>4. PICK h : /\ h \in [0 .. n -> Seq(S)] /\ h[0] = <<>>
               /\ \A i \in 1 .. n : h[i] = h[i - 1] \o q[i]
               /\ Ca!Joined(q) = h[n]
  BY <1>8, JoinedIs
<1>5. f[m] = g[m]
  <2> DEFINE T == {i \in 0 .. m : f[i] = g[i]}
  <2>1. 0 \in T
    BY <1>1, <1>2, <1>3
  <2>2. ASSUME NEW i \in T, i # m PROVE i + 1 \in T
    <3>1. i + 1 \in 1 .. m /\ i + 1 \in 1 .. m + n /\ i + 1 \in 0 .. m /\ (i + 1) - 1 = i
      <4>1. i \in 0 .. m
        OBVIOUS
      <4> HIDE DEF T
      <4> QED
        BY <1>1, <2>2, <4>1
    <3>2. f[i + 1] = f[i] \o r[i + 1] /\ g[i + 1] = g[i] \o p[i + 1] /\ r[i + 1] = p[i + 1]
      BY <1>1, <1>2, <1>3, <3>1
    <3> QED
      BY <2>2, <3>1, <3>2
  <2>3. T \in SUBSET (0 .. m)
    OBVIOUS
  <2> HIDE DEF T
  <2>4. T = 0 .. m
    BY <1>1, <2>1, <2>2, <2>3, Upwards
  <2>5. m \in T
    BY <1>1, <2>4
  <2> QED
    BY <2>5 DEF T
<1>6. f[m + n] = g[m] \o h[n]
  <2> DEFINE T == {i \in 0 .. n : f[m + i] = g[m] \o h[i]}
  <2>1. g[m] \in Seq(S)
    BY <1>1, <1>3
  <2>2. 0 \in T
    <3>1. g[m] \o <<>> = g[m]
      BY <2>1, ConcatEmptySeq
    <3>2. m + 0 = m /\ 0 \in 0 .. n
      BY <1>1
    <3> QED
      BY <1>4, <1>5, <3>1, <3>2
  <2>3. ASSUME NEW i \in T, i # n PROVE i + 1 \in T
    <3>1. /\ i + 1 \in 1 .. n /\ i \in 0 .. n /\ i + 1 \in 0 .. n /\ (i + 1) - 1 = i
          /\ m + (i + 1) \in 1 .. m + n /\ (m + (i + 1)) - 1 = m + i
      <4>1. i \in 0 .. n
        BY DEF T
      <4>2. m \in Nat /\ n \in Nat /\ i # n
        BY <1>1, <2>3
      <4> HIDE DEF T
      <4> QED
        BY <4>1, <4>2
    <3>2. /\ f[m + (i + 1)] = f[m + i] \o r[m + (i + 1)] /\ h[i + 1] = h[i] \o q[i + 1]
          /\ r[m + (i + 1)] = q[i + 1]
      BY <1>1, <1>2, <1>4, <3>1
    <3>3. h[i] \in Seq(S) /\ q[i + 1] \in Seq(S)
      <4>1. i + 1 \in 1 .. Len(q)
        BY <1>8, <3>1
      <4>2. q[i + 1] \in Seq(S)
        BY <4>1
      <4>3. h[i] \in Seq(S)
        BY <1>4, <3>1
      <4> QED
        BY <4>2, <4>3
    <3>4. (g[m] \o h[i]) \o q[i + 1] = g[m] \o (h[i] \o q[i + 1])
      <4> HIDE DEF T
      <4>1. \A a, b, e \in Seq(S) : (a \o b) \o e = a \o (b \o e)
        <5> TAKE a, b, e \in Seq(S)
        <5> QED
          BY ConcatAssociative
      <4> QED
        BY <2>1, <3>3, <4>1
    <3>5. f[m + i] = g[m] \o h[i]
      BY <2>3
    <3> QED
      BY <3>1, <3>2, <3>4, <3>5
  <2>4. T \in SUBSET (0 .. n)
    OBVIOUS
  <2> HIDE DEF T
  <2>5. T = 0 .. n
    BY <1>1, <2>2, <2>3, <2>4, Upwards
  <2>6. n \in T
    BY <1>1, <2>5
  <2> QED
    BY <2>6 DEF T
<1> QED
  BY <1>2, <1>3, <1>4, <1>6 DEF r

(* Elements at places.                                                     *)
Pieces(s, I) == [i \in DOMAIN s |-> IF i \in I THEN <<s[i]>> ELSE <<>>]

LEMMA PiecesType ==
  ASSUME NEW S, NEW s \in Seq(S), NEW I
  PROVE  /\ Pieces(s, I) \in Seq(Seq(S)) /\ Len(Pieces(s, I)) = Len(s)
         /\ \A i \in 1 .. Len(s) : Pieces(s, I)[i] = IF i \in I THEN <<s[i]>> ELSE <<>>
         /\ Ca!Those(s, I) = Ca!Joined(Pieces(s, I))
<1>1. DOMAIN s = 1 .. Len(s) /\ Len(s) \in Nat
  OBVIOUS
<1>2. \A i \in 1 .. Len(s) : (IF i \in I THEN <<s[i]>> ELSE <<>>) \in Seq(S)
  OBVIOUS
<1>3. Pieces(s, I) \in Seq(Seq(S)) /\ Len(Pieces(s, I)) = Len(s)
  BY <1>1, <1>2 DEF Pieces
<1> QED
  BY <1>1, <1>3 DEF Pieces, Ca!Those

LEMMA ThoseType ==
  ASSUME NEW S, NEW s \in Seq(S), NEW I
  PROVE  Ca!Those(s, I) \in Seq(S)
  BY PiecesType, JoinedType

(* Of those at the places in I, how many are in X.                         *)
LEMMA ThoseNumber ==
  ASSUME NEW S, NEW s \in Seq(S), NEW I \in SUBSET DOMAIN s, NEW X
  PROVE  Number(Ca!Those(s, I), X) = Cardinality({i \in I : s[i] \in X})
<1> DEFINE N == Len(s)
           Up(n) == {i \in I : i <= n /\ s[i] \in X}
           c == [n \in 0 .. N |-> Cardinality(Up(n))]
           p == Pieces(s, I)
<1>1. N \in Nat /\ DOMAIN s = 1 .. N
  OBVIOUS
<1>2. p \in Seq(Seq(S)) /\ Len(p) = N /\ Ca!Those(s, I) = Ca!Joined(p)
      /\ \A i \in 1 .. N : p[i] = IF i \in I THEN <<s[i]>> ELSE <<>>
  BY PiecesType
<1> HIDE DEF p
<1>3. \A n \in 0 .. N : IsFiniteSet(Up(n))
  <2>1. IsFiniteSet(1 .. N)
    BY <1>1, FS_Interval
  <2> QED
    BY <1>1, <2>1, FS_Subset
<1>4. c[0] = 0
  <2>1. Up(0) = {}
    BY <1>1
  <2>2. c[0] = Cardinality(Up(0))
    BY <1>1
  <2> HIDE DEF Up, c
  <2> QED
    BY <2>1, <2>2, FS_EmptySet
<1>5. ASSUME NEW i \in 1 .. N PROVE c[i] = c[i - 1] + Number(p[i], X)
  <2>1. i - 1 \in 0 .. N /\ i \in 0 .. N /\ i \in Int
    BY <1>1
  <2>2. c[i] = Cardinality(Up(i)) /\ c[i - 1] = Cardinality(Up(i - 1))
    BY <2>1
  <2>3. Cardinality(Up(i - 1)) \in Nat /\ IsFiniteSet(Up(i - 1))
    BY <1>3, <2>1, FS_CardinalityType
  <2>4. CASE i \in I /\ s[i] \in X
    <3>1. Up(i) = Up(i - 1) \cup {i} /\ i \notin Up(i - 1)
      BY <1>1, <2>1, <2>4
    <3> HIDE DEF Up
    <3>2. Cardinality(Up(i)) = Cardinality(Up(i - 1)) + 1
      BY <2>3, <3>1, FS_AddElement
    <3>3. Number(p[i], X) = 1
      BY <1>2, <2>4, NumberOne
    <3> QED
      BY <2>2, <3>2, <3>3
  <2>5. CASE ~(i \in I /\ s[i] \in X)
    <3>1. Up(i) = Up(i - 1)
      BY <1>1, <2>1, <2>5
    <3>2. Number(p[i], X) = 0
      BY <1>2, <2>5, NumberOne, NumberNone
    <3> HIDE DEF Up, c
    <3> QED
      BY <2>2, <2>3, <3>1, <3>2
  <2> QED
    BY <2>4, <2>5
<1>6. Up(N) = {i \in I : s[i] \in X} /\ c[N] = Cardinality(Up(N))
  BY <1>1
<1> HIDE DEF c, Up
<1>7. Number(Ca!Joined(p), X) = c[N]
  BY <1>2, <1>4, <1>5, JoinedNumber
<1> QED
  BY <1>2, <1>6, <1>7

(* Places of no line of s leave nothing.                                   *)
LEMMA ThoseNone ==
  ASSUME NEW S, NEW s \in Seq(S), NEW I, I \cap DOMAIN s = {}
  PROVE  Ca!Those(s, I) = <<>>
<1> DEFINE p == Pieces(s, I)
           N == Len(s)
<1>1. N \in Nat /\ DOMAIN s = 1 .. N
  OBVIOUS
<1>2. p \in Seq(Seq(S)) /\ Len(p) = N /\ Ca!Those(s, I) = Ca!Joined(p)
      /\ \A i \in 1 .. N : p[i] = IF i \in I THEN <<s[i]>> ELSE <<>>
  BY PiecesType
<1> HIDE DEF p, N
<1>3. \A i \in 1 .. N : p[i] = <<>>
  BY <1>1, <1>2
<1>4. PICK f : /\ f \in [0 .. Len(p) -> Seq(S)] /\ f[0] = <<>>
               /\ \A i \in 1 .. Len(p) : f[i] = f[i - 1] \o p[i]
               /\ Ca!Joined(p) = f[Len(p)]
  BY <1>2, JoinedIs
<1> DEFINE T == {i \in 0 .. N : f[i] = <<>>}
<1>5. 0 \in T
  BY <1>1, <1>4
<1>6. ASSUME NEW i \in T, i # N PROVE i + 1 \in T
  <2>1. i \in 0 .. N /\ f[i] = <<>>
    OBVIOUS
  <2>2. i + 1 \in 1 .. N /\ i + 1 \in 0 .. N /\ (i + 1) - 1 = i
    BY <1>1, <1>6, <2>1
  <2>3. f[i + 1] = f[i] \o p[i + 1]
    BY <1>2, <1>4, <2>2
  <2>4. f[i + 1] = <<>> \o <<>>
    BY <1>3, <2>1, <2>2, <2>3
  <2>5. <<>> \o <<>> = <<>>
    OBVIOUS
  <2> QED
    BY <2>2, <2>4, <2>5
<1>7. T \in SUBSET (0 .. N)
  OBVIOUS
<1> HIDE DEF T
<1>8. T = 0 .. N
  BY <1>1, <1>5, <1>6, <1>7, Upwards
<1>9. N \in T
  BY <1>1, <1>8
<1> QED
  BY <1>2, <1>4, <1>9 DEF T

(* All places leave s as it is.                                            *)
LEMMA ThoseAll ==
  ASSUME NEW S, NEW s \in Seq(S), NEW I, DOMAIN s \subseteq I
  PROVE  Ca!Those(s, I) = s
<1> DEFINE p == Pieces(s, I)
           N == Len(s)
<1>1. N \in Nat /\ DOMAIN s = 1 .. N
  OBVIOUS
<1>2. p \in Seq(Seq(S)) /\ Len(p) = N /\ Ca!Those(s, I) = Ca!Joined(p)
      /\ \A i \in 1 .. N : p[i] = IF i \in I THEN <<s[i]>> ELSE <<>>
  BY PiecesType
<1>10. N = Len(s)
  OBVIOUS
<1> HIDE DEF p, N
<1>3. \A i \in 1 .. N : p[i] = <<s[i]>>
  BY <1>1, <1>2
<1>4. PICK f : /\ f \in [0 .. Len(p) -> Seq(S)] /\ f[0] = <<>>
               /\ \A i \in 1 .. Len(p) : f[i] = f[i - 1] \o p[i]
               /\ Ca!Joined(p) = f[Len(p)]
  BY <1>2, JoinedIs
<1> DEFINE T == {i \in 0 .. N : f[i] = SubSeq(s, 1, i)}
<1>5. 0 \in T
  <2>1. SubSeq(s, 1, 0) = <<>>
    BY SubSeqEmpty
  <2> QED
    BY <1>1, <1>4, <2>1
<1>6. ASSUME NEW i \in T, i # N PROVE i + 1 \in T
  <2>1. i \in 0 .. N /\ f[i] = SubSeq(s, 1, i)
    OBVIOUS
  <2>2. i + 1 \in 1 .. N /\ i + 1 \in 0 .. N /\ (i + 1) - 1 = i
    BY <1>1, <1>6, <2>1
  <2>3. f[i + 1] = f[i] \o <<s[i + 1]>>
    BY <1>2, <1>3, <1>4, <2>2
  <2>4. SubSeq(s, 1, i + 1) = SubSeq(s, 1, (i + 1) - 1) \o <<s[i + 1]>>
    <3>1. 1 \in 1 .. Len(s) /\ i + 1 \in 1 .. Len(s)
      BY <1>1, <1>10, <2>2
    <3> HIDE DEF T
    <3> QED
      BY <3>1, SubSeqRecursiveSecond
  <2> QED
    BY <2>1, <2>2, <2>3, <2>4
<1>7. T \in SUBSET (0 .. N)
  OBVIOUS
<1> HIDE DEF T
<1>8. T = 0 .. N
  BY <1>1, <1>5, <1>6, <1>7, Upwards
<1>9. N \in T
  BY <1>1, <1>8
<1>11. SubSeq(s, 1, N) = s
  BY <1>10, SubSeqFull
<1> QED
  BY <1>2, <1>4, <1>9, <1>11 DEF T

(* Lines as strings.                                                       *)
Strings(S) == {Ca!String(l) : l \in S}

LEMMA BulletsType ==
  ASSUME NEW S, NEW s \in Seq(S)
  PROVE  /\ Ca!BulletsOf(s) \in Seq(Strings(S)) /\ Len(Ca!BulletsOf(s)) = Len(s)
         /\ DOMAIN Ca!BulletsOf(s) = DOMAIN s
         /\ \A i \in 1 .. Len(s) : Ca!BulletsOf(s)[i] = Ca!String(s[i])
         /\ Ca!Texts(s) = Ca!BulletsOf(s)
<1>1. Len(s) \in Nat /\ DOMAIN s = 1 .. Len(s) /\ \A i \in 1 .. Len(s) : s[i] \in S
  OBVIOUS
<1>2. \A i \in 1 .. Len(s) : Ca!String(s[i]) \in Strings(S)
  BY <1>1 DEF Strings
<1> QED
  BY <1>1, <1>2 DEF Ca!BulletsOf, Ca!Texts

LEMMA BulletsConcat ==
  ASSUME NEW S, NEW s \in Seq(S), NEW t \in Seq(S)
  PROVE  Ca!BulletsOf(s \o t) = Ca!BulletsOf(s) \o Ca!BulletsOf(t)
<1> DEFINE u == s \o t
           a == Ca!BulletsOf(s)
           b == Ca!BulletsOf(t)
           c == Ca!BulletsOf(u)
<1>1. /\ Len(s) \in Nat /\ Len(t) \in Nat /\ Len(u) = Len(s) + Len(t) /\ u \in Seq(S)
      /\ \A i \in 1 .. Len(s) + Len(t) : u[i] = IF i <= Len(s) THEN s[i] ELSE t[i - Len(s)]
  BY ConcatProperties, LenProperties
<1> HIDE DEF u
<1>2. /\ a \in Seq(Strings(S)) /\ Len(a) = Len(s) /\ \A i \in 1 .. Len(s) : a[i] = Ca!String(s[i])
      /\ b \in Seq(Strings(S)) /\ Len(b) = Len(t) /\ \A i \in 1 .. Len(t) : b[i] = Ca!String(t[i])
      /\ c \in Seq(Strings(S)) /\ Len(c) = Len(u) /\ \A i \in 1 .. Len(u) : c[i] = Ca!String(u[i])
  BY <1>1, BulletsType
<1> HIDE DEF a, b, c
<1> DEFINE d == a \o b
<1>3. /\ d \in Seq(Strings(S)) /\ Len(d) = Len(a) + Len(b)
      /\ \A i \in 1 .. Len(a) + Len(b) : d[i] = IF i <= Len(a) THEN a[i] ELSE b[i - Len(a)]
  <2>1. \A R : \A v, w \in Seq(R) :
          /\ v \o w \in Seq(R) /\ Len(v \o w) = Len(v) + Len(w)
          /\ \A i \in 1 .. Len(v) + Len(w) : (v \o w)[i] = IF i <= Len(v) THEN v[i] ELSE w[i - Len(v)]
    BY ConcatProperties
  <2>2. a \in Seq(Strings(S)) /\ b \in Seq(Strings(S))
    BY <1>2
  <2> QED
    BY <2>1, <2>2, Zenon
<1> HIDE DEF d
<1>4. ASSUME NEW i \in 1 .. Len(c) PROVE c[i] = d[i]
  <2>1. CASE i <= Len(s)
    <3>1. i \in 1 .. Len(s) /\ i \in 1 .. Len(s) + Len(t)
      BY <1>1, <1>2, <2>1
    <3> QED
      BY <1>1, <1>2, <1>3, <2>1, <3>1
  <2>2. CASE ~(i <= Len(s))
    <3>1. i - Len(s) \in 1 .. Len(t) /\ i \in 1 .. Len(s) + Len(t)
      BY <1>1, <1>2, <2>2
    <3> QED
      BY <1>1, <1>2, <1>3, <2>2, <3>1
  <2> QED
    BY <2>1, <2>2
<1>5. Len(c) = Len(d)
  BY <1>1, <1>2, <1>3
<1>6. c = d
  BY <1>2, <1>3, <1>4, <1>5, SeqEqual
<1> QED
  BY <1>6 DEF c, d, a, b, u

LEMMA BulletsThose ==
  ASSUME NEW S, NEW s \in Seq(S), NEW I
  PROVE  Ca!BulletsOf(Ca!Those(s, I)) = Ca!Those(Ca!BulletsOf(s), I)
<1> DEFINE N == Len(s)
           b == Ca!BulletsOf(s)
           p == Pieces(s, I)
           q == Pieces(b, I)
           none == <<>>
<1>1. N \in Nat /\ N = Len(s)
  OBVIOUS
<1>2. b \in Seq(Strings(S)) /\ Len(b) = N /\ \A i \in 1 .. N : b[i] = Ca!String(s[i])
  BY BulletsType
<1>3. p \in Seq(Seq(S)) /\ Len(p) = N /\ Ca!Those(s, I) = Ca!Joined(p)
      /\ \A i \in 1 .. N : p[i] = IF i \in I THEN <<s[i]>> ELSE none
  BY PiecesType
<1> HIDE DEF b, N
<1>4. q \in Seq(Seq(Strings(S))) /\ Len(q) = Len(b) /\ Ca!Those(b, I) = Ca!Joined(q)
      /\ \A i \in 1 .. Len(b) : q[i] = IF i \in I THEN <<b[i]>> ELSE none
  BY <1>2, PiecesType
<1> HIDE DEF p, q
<1>5. PICK f : /\ f \in [0 .. Len(p) -> Seq(S)] /\ f[0] = none
               /\ \A i \in 1 .. Len(p) : f[i] = f[i - 1] \o p[i]
               /\ Ca!Joined(p) = f[Len(p)]
  BY <1>3, JoinedIs
<1>6. PICK g : /\ g \in [0 .. Len(q) -> Seq(Strings(S))] /\ g[0] = none
               /\ \A i \in 1 .. Len(q) : g[i] = g[i - 1] \o q[i]
               /\ Ca!Joined(q) = g[Len(q)]
  BY <1>4, JoinedIs
<1>7. Ca!BulletsOf(none) = none
  <2>1. none \in Seq(S) /\ Len(none) = 0
    OBVIOUS
  <2>2. Ca!BulletsOf(none) \in Seq(Strings(S)) /\ Len(Ca!BulletsOf(none)) = 0
    BY <2>1, BulletsType
  <2> QED
    BY <2>2
<1>8. ASSUME NEW i \in 1 .. N PROVE Ca!BulletsOf(p[i]) = q[i] /\ p[i] \in Seq(S)
  <2>1. p[i] \in Seq(S) /\ s[i] \in S
    BY <1>1, <1>3
  <2>2. CASE i \in I
    <3>1. p[i] = <<s[i]>> /\ q[i] = <<Ca!String(s[i])>>
      BY <1>2, <1>3, <1>4, <2>2
    <3>2. Ca!BulletsOf(<<s[i]>>) = <<Ca!String(s[i])>>
      BY DEF Ca!BulletsOf
    <3> QED
      BY <2>1, <3>1, <3>2
  <2>3. CASE i \notin I
    BY <1>2, <1>3, <1>4, <1>7, <2>1, <2>3
  <2> QED
    BY <2>2, <2>3
<1> DEFINE T == {i \in 0 .. N : Ca!BulletsOf(f[i]) = g[i]}
<1>9. 0 \in T
  BY <1>1, <1>5, <1>6, <1>7
<1>10. ASSUME NEW i \in T, i # N PROVE i + 1 \in T
  <2>1. i \in 0 .. N /\ Ca!BulletsOf(f[i]) = g[i]
    OBVIOUS
  <2>2. i + 1 \in 1 .. N /\ i + 1 \in 0 .. N /\ (i + 1) - 1 = i
    BY <1>1, <1>10, <2>1
  <2>3. f[i + 1] = f[i] \o p[i + 1] /\ g[i + 1] = g[i] \o q[i + 1]
    BY <1>2, <1>3, <1>4, <1>5, <1>6, <2>2
  <2>4. f[i] \in Seq(S) /\ p[i + 1] \in Seq(S) /\ Ca!BulletsOf(p[i + 1]) = q[i + 1]
    BY <1>3, <1>5, <1>8, <2>1, <2>2
  <2>5. Ca!BulletsOf(f[i] \o p[i + 1]) = Ca!BulletsOf(f[i]) \o Ca!BulletsOf(p[i + 1])
    BY <2>4, BulletsConcat
  <2> QED
    BY <2>1, <2>2, <2>3, <2>4, <2>5
<1>11. T \in SUBSET (0 .. N)
  OBVIOUS
<1> HIDE DEF T
<1>12. T = 0 .. N
  BY <1>1, <1>9, <1>10, <1>11, Upwards
<1>13. N \in T
  BY <1>1, <1>12
<1>14. Ca!BulletsOf(f[N]) = g[N]
  BY <1>13 DEF T
<1> QED
  BY <1>2, <1>3, <1>4, <1>5, <1>6, <1>14 DEF b

(* The elements of s.                                                      *)
Its(s) == {s[i] : i \in DOMAIN s}

LEMMA ListType ==
  ASSUME NEW s, Ca!IsList(s)
  PROVE  /\ s \in Seq(Its(s)) /\ Len(s) \in Nat /\ DOMAIN s = 1 .. Len(s)
<1>1. Len(s) \in Nat /\ s = [i \in 1 .. Len(s) |-> s[i]]
  BY DEF Ca!IsList
<1>2. DOMAIN s = 1 .. Len(s)
  BY <1>1
<1>3. \A i \in 1 .. Len(s) : s[i] \in Its(s)
  BY <1>2 DEF Its
<1>4. [i \in 1 .. Len(s) |-> s[i]] \in Seq(Its(s))
  <2> DEFINE n == Len(s)
             e(i) == s[i]
             E == Its(s)
  <2>1. n \in Nat /\ \A i \in 1 .. n : e(i) \in E
    BY <1>1, <1>3
  <2> HIDE DEF n, e, E
  <2>2. [i \in 1 .. n |-> e(i)] \in Seq(E)
    BY <2>1
  <2> QED
    BY <2>2 DEF n, e, E
<1>5. s \in Seq(Its(s))
  BY <1>1, <1>4, Zenon
<1> QED
  BY <1>1, <1>2, <1>5

LEMMA SeqIsList ==
  ASSUME NEW S, NEW s \in Seq(S)
  PROVE  Ca!IsList(s) /\ DOMAIN s = 1 .. Len(s) /\ Len(s) \in Nat
<1>1. Len(s) \in Nat /\ s = [i \in 1 .. Len(s) |-> s[i]] /\ DOMAIN s = 1 .. Len(s)
  OBVIOUS
<1> QED
  BY <1>1 DEF Ca!IsList

LEMMA LinesType ==
  ASSUME NEW s, Ca!AreLines(s)
  PROVE  /\ s \in Seq(Its(s)) /\ Len(s) \in Nat /\ DOMAIN s = 1 .. Len(s)
         /\ \A i \in 1 .. Len(s) : Ca!IsLine(s[i])
  BY ListType DEF Ca!AreLines

LEMMA SeqOfLines ==
  ASSUME NEW S, NEW s \in Seq(S), \A i \in 1 .. Len(s) : Ca!IsLine(s[i])
  PROVE  Ca!AreLines(s)
  BY SeqIsList DEF Ca!AreLines

LEMMA NoLines == Ca!AreLines(<<>>)
<1>1. \A e : e = <<>> => e \in Seq({}) /\ Len(e) = 0
  OBVIOUS
<1> PICK none : none = <<>>
  OBVIOUS
<1>2. none \in Seq({}) /\ \A i \in 1 .. Len(none) : Ca!IsLine(none[i])
  BY <1>1
<1>3. Ca!AreLines(none)
  BY <1>2, SeqOfLines
<1> QED
  BY <1>3

LEMMA OneLine ==
  ASSUME NEW l, Ca!IsLine(l)
  PROVE  Ca!AreLines(<<l>>)
<1>1. <<l>> \in Seq({l}) /\ Len(<<l>>) = 1 /\ <<l>>[1] = l
  OBVIOUS
<1>2. \A i \in 1 .. Len(<<l>>) : Ca!IsLine(<<l>>[i])
  BY <1>1
<1> QED
  BY <1>1, <1>2, SeqOfLines

LEMMA ConcatLines ==
  ASSUME NEW s, NEW t, Ca!AreLines(s), Ca!AreLines(t)
  PROVE  Ca!AreLines(s \o t)
<1>1. s \in Seq(Its(s)) /\ t \in Seq(Its(t))
  BY LinesType
<1> PICK S : S = Its(s) \cup Its(t)
  OBVIOUS
<1>2. s \in Seq(S) /\ t \in Seq(S)
  <2>1. Its(s) \subseteq S /\ Its(t) \subseteq S
    OBVIOUS
  <2>2. \A A : A \subseteq S => Seq(A) \subseteq Seq(S)
    OBVIOUS
  <2> QED
    BY <1>1, <2>1, <2>2
<1>3. /\ s \o t \in Seq(S) /\ Len(s \o t) = Len(s) + Len(t)
      /\ \A i \in 1 .. Len(s) + Len(t) : (s \o t)[i] = IF i <= Len(s) THEN s[i] ELSE t[i - Len(s)]
  BY <1>2, ConcatProperties
<1>4. /\ Len(s) \in Nat /\ Len(t) \in Nat
      /\ \A i \in 1 .. Len(s) : Ca!IsLine(s[i])
      /\ \A i \in 1 .. Len(t) : Ca!IsLine(t[i])
  BY LinesType
<1>5. \A i \in 1 .. Len(s \o t) : Ca!IsLine((s \o t)[i])
  <2> SUFFICES ASSUME NEW i \in 1 .. Len(s) + Len(t) PROVE Ca!IsLine((s \o t)[i])
    BY <1>3
  <2>1. CASE i <= Len(s)
    BY <1>3, <1>4, <2>1
  <2>2. CASE ~(i <= Len(s))
    <3>1. i - Len(s) \in 1 .. Len(t)
      BY <1>4, <2>2
    <3> QED
      BY <1>3, <1>4, <2>2, <3>1
  <2> QED
    BY <2>1, <2>2
<1> QED
  BY <1>3, <1>5, SeqOfLines

LEMMA PartLines ==
  ASSUME NEW s, Ca!AreLines(s), NEW m \in Nat, NEW n \in Int, m >= 1, n <= Len(s)
  PROVE  Ca!AreLines(SubSeq(s, m, n))
<1> PICK S : S = Its(s)
  OBVIOUS
<1>1. /\ s \in Seq(S) /\ Len(s) \in Nat /\ \A i \in 1 .. Len(s) : Ca!IsLine(s[i])
  BY LinesType
<1>2. CASE m <= n
  <2>1. m \in 1 .. Len(s) /\ n \in m .. Len(s)
    BY <1>1, <1>2
  <2>2. /\ SubSeq(s, m, n) \in Seq(S) /\ Len(SubSeq(s, m, n)) = n - m + 1
        /\ \A i \in 1 .. n - m + 1 : SubSeq(s, m, n)[i] = s[m + i - 1]
    BY <1>1, <2>1
  <2>3. \A i \in 1 .. n - m + 1 : m + i - 1 \in 1 .. Len(s)
    BY <1>1, <2>1
  <2>4. \A i \in 1 .. Len(SubSeq(s, m, n)) : Ca!IsLine(SubSeq(s, m, n)[i])
    BY <1>1, <2>2, <2>3
  <2> QED
    BY <2>2, <2>4, SeqOfLines
<1>3. CASE n < m
  <2>1. SubSeq(s, m, n) = <<>>
    BY <1>1, <1>3
  <2> QED
    BY <2>1, NoLines
<1> QED
  BY <1>2, <1>3

(* Lists of lines joined are lines.                                        *)
LEMMA JoinedLines ==
  ASSUME NEW s, Ca!IsList(s), \A i \in 1 .. Len(s) : Ca!AreLines(s[i])
  PROVE  Ca!AreLines(Ca!Joined(s))
<1> DEFINE N == Len(s)
<1> PICK S : S = UNION {Its(s[i]) : i \in 1 .. N}
  OBVIOUS
<1>1. N \in Nat /\ DOMAIN s = 1 .. N /\ N = Len(s)
  BY ListType
<1>2. s \in Seq(Seq(S))
  <2>1. ASSUME NEW i \in 1 .. N PROVE s[i] \in Seq(S)
    <3>1. s[i] \in Seq(Its(s[i])) /\ Its(s[i]) \subseteq S
      BY LinesType
    <3>2. \A A : A \subseteq S => Seq(A) \subseteq Seq(S)
      OBVIOUS
    <3> QED
      BY <3>1, <3>2
  <2>2. s \in Seq(Its(s)) /\ \A i \in 1 .. N : s[i] \in Seq(S)
    BY <2>1, ListType
  <2> PICK R, Q : R = Its(s) /\ Q = Seq(S)
    OBVIOUS
  <2>3. s \in Seq(R) /\ \A i \in 1 .. Len(s) : s[i] \in Q
    BY <2>2
  <2>4. s \in Seq(Q)
    BY <2>3
  <2> QED
    BY <2>4
<1> HIDE DEF N
<1>3. PICK f : /\ f \in [0 .. N -> Seq(S)] /\ f[0] = <<>>
               /\ \A i \in 1 .. N : f[i] = f[i - 1] \o s[i]
               /\ Ca!Joined(s) = f[N]
  BY <1>1, <1>2, JoinedIs
<1>9. N \in Nat
  BY <1>1
<1> DEFINE T == {i \in 0 .. N : Ca!AreLines(f[i])}
<1>4. 0 \in T
  BY <1>1, <1>3, NoLines
<1>5. ASSUME NEW i \in T, i # N PROVE i + 1 \in T
  <2>1. i \in 0 .. N /\ Ca!AreLines(f[i])
    BY Zenon
  <2> HIDE DEF T
  <2>2. i + 1 \in 1 .. N /\ i + 1 \in 0 .. N /\ (i + 1) - 1 = i
    BY <1>9, <1>5, <2>1
  <2>3. f[i + 1] = f[i] \o s[i + 1] /\ Ca!AreLines(s[i + 1])
    BY <1>1, <1>3, <2>2
  <2>4. Ca!AreLines(f[i + 1])
    BY <2>1, <2>3, ConcatLines
  <2> QED
    BY <2>2, <2>4 DEF T
<1>6. T \in SUBSET (0 .. N)
  OBVIOUS
<1> HIDE DEF T
<1>7. T = 0 .. N
  BY <1>1, <1>4, <1>5, <1>6, Upwards
<1>8. N \in T
  BY <1>1, <1>7
<1> QED
  BY <1>3, <1>8 DEF T

LEMMA ListOver ==
  ASSUME NEW s, Ca!IsList(s), NEW p, p = [i \in DOMAIN s |-> p[i]]
  PROVE  Ca!IsList(p) /\ Len(p) = Len(s) /\ DOMAIN p = 1 .. Len(p) /\ Len(p) \in Nat
<1>1. Len(s) \in Nat /\ DOMAIN s = 1 .. Len(s)
  BY ListType
<1> PICK n : n = Len(s)
  OBVIOUS
<1>2. n \in Nat /\ p = [i \in 1 .. n |-> p[i]]
  BY <1>1
<1>3. Len(p) = n /\ DOMAIN p = 1 .. n
  BY <1>2
<1> QED
  BY <1>2, <1>3 DEF Ca!IsList

LEMMA ListOne ==
  ASSUME NEW x
  PROVE  Ca!IsList(<<x>>) /\ DOMAIN <<x>> = {1} /\ <<x>>[1] = x
  BY DEF Ca!IsList

(* What LinesOf makes of a list is a list of lines.                        *)
LEMMA LinesOfType ==
  ASSUME NEW s, Ca!IsList(s), NEW p, p = [i \in DOMAIN s |-> p[i]],
         \A i \in DOMAIN s : p[i] = <<>> \/ \E l : p[i] = <<l>> /\ Ca!IsLine(l)
  PROVE  Ca!AreLines(Ca!Joined(p))
<1>1. Ca!IsList(p) /\ Len(p) = Len(s) /\ DOMAIN p = 1 .. Len(p)
  BY ListOver
<1>2. DOMAIN s = 1 .. Len(p)
  BY <1>1, ListType
<1>3. \A i \in 1 .. Len(p) : Ca!AreLines(p[i])
  <2> SUFFICES ASSUME NEW i \in 1 .. Len(p) PROVE Ca!AreLines(p[i])
    OBVIOUS
  <2>1. p[i] = <<>> \/ \E l : p[i] = <<l>> /\ Ca!IsLine(l)
    BY <1>2, Zenon
  <2> QED
    BY <2>1, NoLines, OneLine
<1> QED
  BY <1>1, <1>3, JoinedLines

LEMMA OfLabel ==
  ASSUME NEW label, NEW text
  PROVE  /\ Ca!IsLine(Ca!Bullet(label, text)) /\ Ca!IsLine(Ca!Prose(label, text))
         /\ Ca!IsLine(Ca!Heading(label)) /\ Ca!IsLine(Ca!Title(text))
  BY DEF Ca!IsLine, Ca!Bullet, Ca!Prose, Ca!Heading, Ca!Title, Ca!Line

LEMMA TwoLines ==
  ASSUME NEW k, NEW l, Ca!IsLine(k), Ca!IsLine(l)
  PROVE  Ca!AreLines(<<k, l>>)
<1>1. <<k, l>> \in Seq({k, l}) /\ Len(<<k, l>>) = 2 /\ <<k, l>>[1] = k /\ <<k, l>>[2] = l
  OBVIOUS
<1> PICK e : e = <<k, l>>
  OBVIOUS
<1>2. \A i \in 1 .. Len(e) : Ca!IsLine(e[i])
  BY <1>1
<1> QED
  BY <1>1, <1>2, SeqOfLines

LEMMA IntentType ==
  ASSUME NEW in, Ca!AreLines(in.description)
  PROVE  Ca!AreLines(Ca!RenderIntentSection(in))
<1>1. Ca!AreLines(<<Ca!Bullet("Deliver", Ca!TitleOrDefault(in)), Ca!Bullet("Success", <<"executed">>)>>)
  BY OfLabel, TwoLines
<1> QED
  BY <1>1, ConcatLines DEF Ca!RenderIntentSection

(* A line if there is a text.                                              *)
Maybe(text, l) == IF text = <<>> THEN <<>> ELSE <<l>>

LEMMA MaybeType ==
  ASSUME NEW text, NEW l, Ca!IsLine(l), NEW p, p = [i \in DOMAIN <<text>> |-> Maybe(text, l)]
  PROVE  Ca!AreLines(Ca!Joined(p))
<1> PICK s : s = <<text>>
  OBVIOUS
<1>1. Ca!IsList(s) /\ p = [i \in DOMAIN s |-> Maybe(text, l)]
  BY ListOne
<1>2. p = [i \in DOMAIN s |-> p[i]] /\ \A i \in DOMAIN s : p[i] = Maybe(text, l)
  BY <1>1
<1>3. \A i \in DOMAIN s : p[i] = <<>> \/ \E k : p[i] = <<k>> /\ Ca!IsLine(k)
  BY <1>2 DEF Maybe
<1> QED
  BY <1>1, <1>2, <1>3, LinesOfType

LEMMA DomainType ==
  ASSUME NEW in
  PROVE  Ca!AreLines(Ca!RenderDomainSection(in))
<1> DEFINE c == [i \in DOMAIN <<in.cluster>> |->
                   IF <<in.cluster>>[i] = <<>> THEN <<>> ELSE <<Ca!Bullet("Cluster:", <<in.cluster>>[i])>>]
           d == [i \in DOMAIN <<in.issues>> |->
                   IF <<in.issues>>[i] = <<>> THEN <<>> ELSE <<Ca!Bullet("Issues:", <<in.issues>>[i])>>]
           e == <<Ca!Bullet("Command:", <<"execute">>), Ca!Bullet("Event:", <<"specified">>)>>
<1>1. Ca!RenderDomainSection(in) = (Ca!Joined(c) \o Ca!Joined(d)) \o e
  BY DEF Ca!RenderDomainSection, Ca!LinesOf
<1>2. c = [i \in DOMAIN <<in.cluster>> |-> Maybe(in.cluster, Ca!Bullet("Cluster:", in.cluster))]
  BY ListOne DEF Maybe
<1>3. d = [i \in DOMAIN <<in.issues>> |-> Maybe(in.issues, Ca!Bullet("Issues:", in.issues))]
  BY ListOne DEF Maybe
<1> HIDE DEF c, d
<1>4. Ca!AreLines(Ca!Joined(c)) /\ Ca!AreLines(Ca!Joined(d))
  BY <1>2, <1>3, OfLabel, MaybeType
<1>5. Ca!AreLines(e)
  BY OfLabel, TwoLines
<1> HIDE DEF e
<1> QED
  BY <1>1, <1>4, <1>5, ConcatLines

LEMMA StepType ==
  ASSUME NEW a
  PROVE  Ca!AreLines(Ca!RenderStep(a))
<1> DEFINE c == [i \in DOMAIN <<a.issue>> |->
                   IF <<a.issue>>[i] = <<>> THEN <<>> ELSE <<Ca!Bullet("Issue:", <<a.issue>>[i])>>]
           d == [i \in DOMAIN <<a.detail>> |->
                   IF <<a.detail>>[i] = <<>> THEN <<>> ELSE <<Ca!Bullet("Detail:", <<a.detail>>[i])>>]
           e == [i \in DOMAIN <<a.type>> |->
                   IF <<a.type>>[i] = <<>> THEN <<>> ELSE <<Ca!Bullet("Action type:", <<a.type>>[i])>>]
           k == <<Ca!Prose("", Ca!Or(a.description, <<"Implementation", "step">>))>>
<1>1. Ca!RenderStep(a) = ((k \o Ca!Joined(c)) \o Ca!Joined(d)) \o Ca!Joined(e)
  BY DEF Ca!RenderStep, Ca!LinesOf
<1>2. c = [i \in DOMAIN <<a.issue>> |-> Maybe(a.issue, Ca!Bullet("Issue:", a.issue))]
  BY ListOne DEF Maybe
<1>3. d = [i \in DOMAIN <<a.detail>> |-> Maybe(a.detail, Ca!Bullet("Detail:", a.detail))]
  BY ListOne DEF Maybe
<1>4. e = [i \in DOMAIN <<a.type>> |-> Maybe(a.type, Ca!Bullet("Action type:", a.type))]
  BY ListOne DEF Maybe
<1> HIDE DEF c, d, e
<1>5. Ca!AreLines(Ca!Joined(c)) /\ Ca!AreLines(Ca!Joined(d)) /\ Ca!AreLines(Ca!Joined(e))
  BY <1>2, <1>3, <1>4, OfLabel, MaybeType
<1>6. Ca!AreLines(k)
  BY OfLabel, OneLine
<1> HIDE DEF k
<1>7. Ca!AreLines(k \o Ca!Joined(c))
  BY <1>5, <1>6, ConcatLines
<1>8. Ca!AreLines((k \o Ca!Joined(c)) \o Ca!Joined(d))
  BY <1>5, <1>7, ConcatLines
<1> QED
  BY <1>1, <1>5, <1>8, ConcatLines

LEMMA StepsType ==
  ASSUME NEW in, Ca!IsList(in.steps)
  PROVE  Ca!AreLines(Ca!RenderStepsSection(in))
<1> DEFINE p == [i \in DOMAIN in.steps |-> Ca!RenderStep(in.steps[i])]
<1>1. \A i \in DOMAIN in.steps : p[i] = Ca!RenderStep(in.steps[i])
  OBVIOUS
<1>2. p = [i \in DOMAIN in.steps |-> p[i]]
  OBVIOUS
<1>3. Ca!RenderStepsSection(in) = IF in.steps = <<>> THEN <<Ca!Bullet("", <<"no", "steps">>)>>
                                  ELSE Ca!Joined(p)
  BY DEF Ca!RenderStepsSection
<1> HIDE DEF p
<1>4. Ca!IsList(p) /\ Len(p) = Len(in.steps) /\ DOMAIN p = 1 .. Len(p)
  BY <1>2, ListOver
<1>5. DOMAIN in.steps = 1 .. Len(p)
  BY <1>4, ListType
<1>6. \A i \in 1 .. Len(p) : Ca!AreLines(p[i])
  BY <1>1, <1>5, StepType
<1>7. Ca!AreLines(Ca!Joined(p))
  BY <1>4, <1>6, JoinedLines
<1>8. Ca!AreLines(<<Ca!Bullet("", <<"no", "steps">>)>>)
  BY OfLabel, OneLine
<1> QED
  BY <1>3, <1>7, <1>8

LEMMA BoundariesType ==
  ASSUME NEW in, Ca!IsList(in.applied), Ca!AreLines(in.boundaries)
  PROVE  Ca!AreLines(Ca!RenderBoundariesSection(in))
<1> DEFINE p == [i \in DOMAIN in.applied |->
                   Ca!Bullet("Already applied", Ca!Or(in.applied[i], <<"no", "description">>))]
           e == <<Ca!Bullet("Do not", <<"modify">>), Ca!Bullet("Do not", <<"expand">>)>>
<1>1. \A i \in DOMAIN in.applied : Ca!IsLine(p[i])
  BY OfLabel
<1>2. p = [i \in DOMAIN in.applied |-> p[i]]
  OBVIOUS
<1>3. Ca!RenderBoundariesSection(in) = (p \o in.boundaries) \o e
  BY DEF Ca!RenderBoundariesSection
<1>4. Ca!AreLines(e)
  BY OfLabel, TwoLines
<1> HIDE DEF p, e
<1>5. Ca!IsList(p) /\ Len(p) = Len(in.applied) /\ DOMAIN p = 1 .. Len(p)
  BY <1>2, ListOver
<1>6. DOMAIN in.applied = 1 .. Len(p)
  BY <1>5, ListType
<1>7. Ca!AreLines(p)
  BY <1>1, <1>5, <1>6 DEF Ca!AreLines
<1> QED
  BY <1>3, <1>4, <1>7, ConcatLines

LEMMA EvidenceType ==
  ASSUME NEW in, Ca!IsList(in.steps), Ca!AreLines(in.evidence)
  PROVE  Ca!AreLines(Ca!RenderEvidenceSection(in))
<1> DEFINE d == [i \in DOMAIN in.steps |-> in.steps[i].description]
           p == [i \in DOMAIN d |-> IF d[i] = <<>> THEN <<>> ELSE <<Ca!Bullet("Acceptance:", d[i])>>]
           e == <<Ca!Bullet("test", <<"just", "test">>), Ca!Bullet("lint", <<"just", "lint">>)>>
<1>1. Ca!RenderEvidenceSection(in) = (e \o Ca!Joined(p)) \o in.evidence
  BY DEF Ca!RenderEvidenceSection, Ca!LinesOf
<1>2. Ca!AreLines(e)
  BY OfLabel, TwoLines
<1>3. d = [i \in DOMAIN in.steps |-> d[i]]
  OBVIOUS
<1>4. Ca!IsList(d)
  <2> HIDE DEF d
  <2> QED
    BY <1>3, ListOver
<1> HIDE DEF d, e
<1>5. p = [i \in DOMAIN d |-> p[i]]
  OBVIOUS
<1>6. \A i \in DOMAIN d : p[i] = <<>> \/ \E l : p[i] = <<l>> /\ Ca!IsLine(l)
  BY OfLabel
<1> HIDE DEF p
<1>7. Ca!AreLines(Ca!Joined(p))
  BY <1>4, <1>5, <1>6, LinesOfType
<1> QED
  BY <1>1, <1>2, <1>7, ConcatLines

LEMMA DecisionsType ==
  ASSUME NEW in, Ca!AreLines(in.decisions)
  PROVE  Ca!AreLines(Ca!RenderDecisionsSection(in))
<1>1. Ca!AreLines(<<Ca!Bullet("", <<"No", "decision">>)>>)
  BY OfLabel, OneLine
<1> QED
  BY <1>1 DEF Ca!RenderDecisionsSection, Ca!Or

LEMMA SectionNames ==
  /\ DOMAIN Ca!Headings = 1 .. 6 /\ Len(Ca!Headings) = 6
  /\ Ca!Sections = {"Intent", "Domain", "Decisions", "Steps", "Boundaries", "Evidence"}
  /\ \A i \in 1 .. 6 : Ca!Headings[i] \in Ca!Sections
  /\ \A name \in Ca!Sections : \E i \in 1 .. 6 : name = Ca!Headings[i]
  /\ \A i, j \in 1 .. 6 : Ca!Headings[i] = Ca!Headings[j] => i = j
<1> DEFINE h == Ca!Headings
<1>1. /\ h[1] = "Intent" /\ h[2] = "Domain" /\ h[3] = "Decisions"
      /\ h[4] = "Steps" /\ h[5] = "Boundaries" /\ h[6] = "Evidence"
      /\ DOMAIN h = 1 .. 6 /\ Len(h) = 6
  BY DEF Ca!Headings
<1>2. Ca!Sections = {h[i] : i \in 1 .. 6}
  BY <1>1 DEF Ca!Sections
<1> HIDE DEF h
<1>3. 1 .. 6 = {1, 2, 3, 4, 5, 6}
  OBVIOUS
<1>4. Ca!Sections = {"Intent", "Domain", "Decisions", "Steps", "Boundaries", "Evidence"}
  BY <1>1, <1>2, <1>3
<1>5. \A i, j \in {1, 2, 3, 4, 5, 6} : h[i] = h[j] => i = j
  BY <1>1
<1> QED
  BY <1>1, <1>2, <1>3, <1>4, <1>5 DEF h

LEMMA SectionType ==
  ASSUME Ca!CanvasAssumption, NEW in \in Inputs, NEW name \in Ca!Sections
  PROVE  Ca!AreLines(Ca!RenderedSection(in, name))
<1>1. /\ Ca!AreLines(in.description) /\ Ca!AreLines(in.decisions)
      /\ Ca!AreLines(in.boundaries) /\ Ca!AreLines(in.evidence)
      /\ Ca!IsList(in.steps) /\ Ca!IsList(in.applied)
  BY DEF Ca!CanvasAssumption
<1>2. /\ Ca!AreLines(Ca!RenderIntentSection(in)) /\ Ca!AreLines(Ca!RenderDomainSection(in))
      /\ Ca!AreLines(Ca!RenderDecisionsSection(in)) /\ Ca!AreLines(Ca!RenderStepsSection(in))
      /\ Ca!AreLines(Ca!RenderBoundariesSection(in)) /\ Ca!AreLines(Ca!RenderEvidenceSection(in))
  BY <1>1, IntentType, DomainType, DecisionsType, StepsType, BoundariesType, EvidenceType
<1>3. name \in {"Intent", "Domain", "Decisions", "Steps", "Boundaries", "Evidence"}
  BY SectionNames
<1> QED
  BY <1>2, <1>3 DEF Ca!RenderedSection

(* In J each of the N sequences of s is there, k from the offset o[k - 1]  *)
(* on, and there is no more.                                               *)
Offsets(o, s, N, J) ==
  /\ o \in [0 .. N -> Nat] /\ o[0] = 0
  /\ \A k \in 1 .. N : o[k] = o[k - 1] + Len(s[k])
  /\ Len(J) = o[N]
  /\ \A k \in 1 .. N : \A j \in 1 .. Len(s[k]) :
       /\ o[k - 1] + j \in 1 .. o[N]
       /\ J[o[k - 1] + j] = s[k][j]
  /\ \A i \in 1 .. o[N] : \E k \in 1 .. N : \E j \in 1 .. Len(s[k]) : i = o[k - 1] + j

(* J is the N sequences of s, over S, one after the other.                 *)
AreJoined(s, S, N, J) == s \in Seq(Seq(S)) /\ N = Len(s) /\ J = Ca!Joined(s)

(* z is v with w after it.                                                 *)
Concat(z, S, v, w) == v \in Seq(S) /\ w \in Seq(S) /\ z = v \o w

Elements(z, v, w) ==
  /\ Len(z) = Len(v) + Len(w)
  /\ \A i \in 1 .. Len(v) + Len(w) : z[i] = IF i <= Len(v) THEN v[i] ELSE w[i - Len(v)]

LEMMA ConcatIs ==
  ASSUME NEW S, NEW v, NEW w, NEW z, Concat(z, S, v, w)
  PROVE  Elements(z, v, w)
  BY ConcatProperties DEF Concat, Elements

(* Each sequence is in the joined one, from its offset on.                 *)
LEMMA JoinedAt ==
  ASSUME NEW S, NEW s, NEW N, NEW J, AreJoined(s, S, N, J)
  PROVE  \E o : Offsets(o, s, N, J)
<1>0. s \in Seq(Seq(S)) /\ N = Len(s) /\ J = Ca!Joined(s)
  BY DEF AreJoined
<1>1. N \in Nat /\ N = Len(s)
  BY <1>0
<1>2. \A k \in 1 .. N : s[k] \in Seq(S) /\ Len(s[k]) \in Nat
  <2>1. \A k \in 1 .. N : s[k] \in Seq(S)
    BY <1>0
  <2>2. \A x \in Seq(S) : Len(x) \in Nat
    OBVIOUS
  <2> QED
    BY <2>1, <2>2
<1>3. PICK f : /\ f \in [0 .. N -> Seq(S)] /\ f[0] = <<>>
               /\ \A i \in 1 .. N : f[i] = f[i - 1] \o s[i]
               /\ Ca!Joined(s) = f[N]
  BY <1>0, <1>1, JoinedIs, Zenon
<1> DEFINE o == [k \in 0 .. N |-> Len(f[k])]
<1>4. o \in [0 .. N -> Nat] /\ \A k \in 0 .. N : o[k] = Len(f[k]) /\ f[k] \in Seq(S) /\ o[k] \in Nat
  <2>1. \A k \in 0 .. N : f[k] \in Seq(S)
    BY <1>3
  <2>2. \A x \in Seq(S) : Len(x) \in Nat
    OBVIOUS
  <2>3. \A k \in 0 .. N : Len(f[k]) \in Nat
    BY <2>1, <2>2
  <2> QED
    BY <2>1, <2>3
<1> HIDE DEF o
<1>5. o[0] = 0
  <2>1. Len(f[0]) = 0 /\ 0 \in 0 .. N
    BY <1>1, <1>3
  <2> QED
    BY <1>4, <2>1
<1>7. \A k \in 1 .. N :
        /\ k - 1 \in 0 .. N /\ k \in 0 .. N
        /\ o[k] = o[k - 1] + Len(s[k])
        /\ \A i \in 1 .. o[k] : f[k][i] = IF i <= o[k - 1] THEN f[k - 1][i] ELSE s[k][i - o[k - 1]]
  <2> SUFFICES ASSUME NEW k \in 1 .. N
               PROVE  /\ k - 1 \in 0 .. N /\ k \in 0 .. N
                      /\ o[k] = o[k - 1] + Len(s[k])
                      /\ \A i \in 1 .. o[k] :
                           f[k][i] = IF i <= o[k - 1] THEN f[k - 1][i] ELSE s[k][i - o[k - 1]]
    OBVIOUS
  <2>1. k - 1 \in 0 .. N /\ k \in 0 .. N
    BY <1>1
  <2>2. f[k] = f[k - 1] \o s[k] /\ s[k] \in Seq(S) /\ f[k - 1] \in Seq(S)
    BY <1>2, <1>3, <1>4, <2>1
  <2>3. o[k] = Len(f[k]) /\ o[k - 1] = Len(f[k - 1])
    BY <1>4, <2>1
  <2>4. Concat(f[k], S, f[k - 1], s[k])
    BY <2>2, Zenon DEF Concat
  <2>5. Elements(f[k], f[k - 1], s[k])
    BY <2>4, ConcatIs, Zenon
  <2> QED
    BY <2>1, <2>3, <2>5 DEF Elements
<1> DEFINE At(n) == /\ \A k \in 1 .. n : \A j \in 1 .. Len(s[k]) :
                          o[k - 1] + j \in 1 .. o[n] /\ f[n][o[k - 1] + j] = s[k][j]
                    /\ \A i \in 1 .. o[n] : \E k \in 1 .. n : \E j \in 1 .. Len(s[k]) :
                          i = o[k - 1] + j
           T == {n \in 0 .. N : At(n)}
<1>8. At(0)
  BY <1>5
<1>9. ASSUME NEW n \in T, n # N PROVE n + 1 \in T
  <2>1. n \in 0 .. N /\ At(n)
    OBVIOUS
  <2> HIDE DEF T
  <2>2. n + 1 \in 1 .. N /\ n + 1 \in 0 .. N /\ (n + 1) - 1 = n /\ n \in Nat
    <3> HIDE DEF At
    <3> QED
      BY <1>1, <1>9, <2>1
  <2>3. /\ o[n + 1] = o[n] + Len(s[n + 1]) /\ o[n] \in Nat /\ Len(s[n + 1]) \in Nat
        /\ \A i \in 1 .. o[n + 1] : f[n + 1][i] = IF i <= o[n] THEN f[n][i] ELSE s[n + 1][i - o[n]]
    <3> HIDE DEF At
    <3> QED
      BY <1>2, <1>4, <1>7, <2>1, <2>2, Zenon
  <2>4. ASSUME NEW k \in 1 .. n + 1, NEW j \in 1 .. Len(s[k])
        PROVE  o[k - 1] + j \in 1 .. o[n + 1] /\ f[n + 1][o[k - 1] + j] = s[k][j]
    <3>1. CASE k \in 1 .. n
      <4>1. o[k - 1] + j \in 1 .. o[n] /\ f[n][o[k - 1] + j] = s[k][j]
        BY <2>1, <3>1
      <4> HIDE DEF At
      <4>2. o[k - 1] + j \in 1 .. o[n + 1] /\ o[k - 1] + j <= o[n]
        <5> PICK x : x = o[k - 1] + j
          OBVIOUS
        <5>1. x \in 1 .. o[n]
          BY <4>1
        <5>2. x \in 1 .. o[n + 1] /\ x <= o[n]
          BY <2>3, <5>1
        <5> QED
          BY <5>2
      <4> QED
        BY <2>3, <4>1, <4>2
    <3>2. CASE ~(k \in 1 .. n)
      <4> HIDE DEF At
      <4>1. k = n + 1 /\ k - 1 = n
        BY <2>2, <3>2
      <4>2. o[k - 1] = o[n] /\ j \in 1 .. Len(s[n + 1])
        BY <4>1
      <4>3. o[n] + j \in 1 .. o[n + 1] /\ ~(o[n] + j <= o[n]) /\ (o[n] + j) - o[n] = j
        BY <2>3, <4>2
      <4> QED
        BY <2>3, <4>1, <4>2, <4>3
    <3> QED
      BY <3>1, <3>2
  <2>5. ASSUME NEW i \in 1 .. o[n + 1]
        PROVE  \E k \in 1 .. n + 1 : \E j \in 1 .. Len(s[k]) : i = o[k - 1] + j
    <3>1. CASE i <= o[n]
      <4>1. i \in 1 .. o[n]
        <5> HIDE DEF At
        <5> QED
          BY <2>3, <3>1
      <4>2. PICK k \in 1 .. n : \E j \in 1 .. Len(s[k]) : i = o[k - 1] + j
        BY <2>1, <4>1
      <4>3. k \in 1 .. n + 1
        BY <2>2
      <4> QED
        BY <4>2, <4>3
    <3>2. CASE ~(i <= o[n])
      <4> HIDE DEF At
      <4>1. i - o[n] \in 1 .. Len(s[n + 1]) /\ i = o[n] + (i - o[n]) /\ n + 1 \in 1 .. n + 1
        BY <2>2, <2>3, <3>2
      <4> QED
        BY <2>2, <4>1
    <3> QED
      BY <3>1, <3>2
  <2>6. At(n + 1)
    BY <2>4, <2>5
  <2> HIDE DEF At
  <2> QED
    BY <2>2, <2>6 DEF T
<1>10. T \in SUBSET (0 .. N)
  OBVIOUS
<1>11. 0 \in T
  BY <1>1, <1>8
<1> HIDE DEF T, At
<1>12. T = 0 .. N
  BY <1>1, <1>9, <1>10, <1>11, Upwards
<1>13. N \in T
  BY <1>1, <1>12
<1>14. At(N)
  BY <1>13 DEF T
<1>15. Len(J) = o[N] /\ J = f[N]
  BY <1>0, <1>1, <1>3, <1>4
<1>16. Offsets(o, s, N, J)
  <2>1. \A k \in 1 .. N : o[k] = o[k - 1] + Len(s[k])
    BY <1>7
  <2>2. /\ \A k \in 1 .. N : \A j \in 1 .. Len(s[k]) :
             o[k - 1] + j \in 1 .. o[N] /\ J[o[k - 1] + j] = s[k][j]
        /\ \A i \in 1 .. o[N] : \E k \in 1 .. N : \E j \in 1 .. Len(s[k]) : i = o[k - 1] + j
    BY <1>14, <1>15, Zenon DEF At
  <2>3. o \in [0 .. N -> Nat]
    BY <1>4
  <2>4. Len(J) = o[N] /\ o[0] = 0
    BY <1>5, <1>15
  <2> QED
    BY <2>1, <2>2, <2>3, <2>4, Zenon DEF Offsets
<1> HIDE DEF o
<1> QED
  BY <1>16, Zenon

(* The least and the greatest of a set of numbers.                         *)
LEMMA SmallestIs ==
  ASSUME NEW A \in SUBSET Nat, A # {}
  PROVE  Ca!Smallest(A) \in A /\ \A j \in A : Ca!Smallest(A) <= j
<1>1. \E i \in A : \A j \in A : i <= j
  BY LeastNat
<1> QED
  BY <1>1 DEF Ca!Smallest

LEMMA LargestIs ==
  ASSUME NEW n \in Nat, NEW A \in SUBSET (1 .. n), A # {}
  PROVE  Ca!Largest(A) \in A /\ \A j \in A : j <= Ca!Largest(A)
<1>2. A \in SUBSET (0 .. n)
  OBVIOUS
<1>1. \E i \in A : \A j \in A : j <= i
  BY <1>2, GreatestUpTo
<1> QED
  BY <1>1 DEF Ca!Largest

(* The section of that name has its heading at p and ends at q.            *)
IsSection(b, name, p, q) ==
  /\ p \in 1 .. Len(b) /\ q \in p .. Len(b)
  /\ p \in Ca!At(b, name) /\ \A j \in Ca!At(b, name) : j <= p
  /\ \A i \in p + 1 .. q : b[i].kind # "heading"
  /\ q = Len(b) \/ (q + 1 \in 1 .. Len(b) /\ b[q + 1].kind = "heading")

(* The lines below its heading are what is read of a section.              *)
LEMMA SectionIs ==
  ASSUME NEW S, NEW b \in Seq(S), NEW name, NEW p, NEW q, IsSection(b, name, p, q)
  PROVE  Ca!SplitRivalSections(b, name) = SubSeq(b, p + 1, q)
<1> DEFINE later == {i \in DOMAIN b : i >= p + 1 /\ b[i].kind = "heading"}
           A == Ca!At(b, name)
           N == Len(b)
<1>1. N \in Nat /\ DOMAIN b = 1 .. N /\ N = Len(b)
  OBVIOUS
<1>2. /\ p \in 1 .. N /\ q \in p .. N /\ p \in A /\ \A j \in A : j <= p
      /\ \A i \in p + 1 .. q : b[i].kind # "heading"
      /\ q = N \/ (q + 1 \in 1 .. N /\ b[q + 1].kind = "heading")
  BY DEF IsSection
<1>3. A \in SUBSET (1 .. N)
  BY <1>1 DEF Ca!At
<1>9. N \in Nat /\ p \in 1 .. N /\ q \in p .. N
  BY DEF IsSection
<1>8. Ca!SplitRivalSections(b, name) =
        LET first == Ca!Largest(A) + 1
            ahead == {i \in DOMAIN b : i >= first /\ b[i].kind = "heading"}
        IN  SubSeq(b, first, IF ahead = {} THEN N ELSE Ca!Smallest(ahead) - 1)
  BY DEF Ca!SplitRivalSections
<1> HIDE DEF N, A
<1>4. Ca!Largest(A) = p
  <2>1. Ca!Largest(A) \in A /\ \A j \in A : j <= Ca!Largest(A)
    BY <1>1, <1>2, <1>3, LargestIs, Zenon
  <2>2. Ca!Largest(A) <= p /\ p <= Ca!Largest(A) /\ Ca!Largest(A) \in 1 .. N /\ p \in 1 .. N
    BY <1>2, <1>3, <2>1
  <2> QED
    BY <1>1, <2>2
<1>5. Ca!SplitRivalSections(b, name) =
        SubSeq(b, p + 1, IF later = {} THEN N ELSE Ca!Smallest(later) - 1)
  BY <1>4, <1>8
<1>6. CASE q = N
  <2>1. later = {}
    BY <1>1, <1>2, <1>6
  <2> QED
    BY <1>5, <1>6, <2>1
<1>7. CASE q # N
  <2>1. p \in Nat /\ q \in Nat /\ p <= q
    BY <1>9
  <2>8. q + 1 \in 1 .. N /\ b[q + 1].kind = "heading"
    BY <1>2, <1>7
  <2>9. q + 1 >= p + 1
    BY <2>1
  <2>2. q + 1 \in DOMAIN b /\ b[q + 1].kind = "heading" /\ q + 1 >= p + 1
    BY <1>1, <2>8, <2>9
  <2>3. q + 1 \in later /\ later \in SUBSET Nat
    BY <1>1, <2>2
  <2>4. ASSUME NEW i \in later PROVE q + 1 <= i
    <3>1. i \in Nat /\ i >= p + 1 /\ b[i].kind = "heading"
      BY <1>1
    <3> HIDE DEF later
    <3>2. ~(i \in p + 1 .. q)
      BY <1>2, <3>1
    <3> QED
      BY <2>1, <3>1, <3>2
  <2> HIDE DEF later
  <2>5. later # {} /\ Ca!Smallest(later) \in later /\ \A j \in later : Ca!Smallest(later) <= j
    BY <2>3, SmallestIs
  <2> PICK m : m = Ca!Smallest(later)
    OBVIOUS
  <2>6. m \in Nat /\ m <= q + 1 /\ q + 1 <= m
    BY <2>3, <2>4, <2>5
  <2>7. m - 1 = q
    BY <2>1, <2>6
  <2> QED
    BY <1>5, <2>5, <2>7
<1> QED
  BY <1>6, <1>7

(* A heading that is there has its section.                                *)
LEMMA SectionExists ==
  ASSUME NEW S, NEW b \in Seq(S), NEW name, Ca!At(b, name) # {}
  PROVE  \E p, q : IsSection(b, name, p, q)
<1> DEFINE A == Ca!At(b, name)
           N == Len(b)
           p == Ca!Largest(A)
           later == {i \in DOMAIN b : i >= p + 1 /\ b[i].kind = "heading"}
           q == IF later = {} THEN N ELSE Ca!Smallest(later) - 1
<1>1. N \in Nat /\ DOMAIN b = 1 .. N
  OBVIOUS
<1>2. A \in SUBSET (1 .. N) /\ A # {}
  BY <1>1 DEF Ca!At
<1> HIDE DEF A
<1>3. p \in A /\ \A j \in A : j <= p
  BY <1>1, <1>2, LargestIs
<1>4. p \in 1 .. N
  BY <1>2, <1>3
<1> HIDE DEF p
<1>5. later \in SUBSET Nat /\ \A i \in later : i \in p + 1 .. N /\ b[i].kind = "heading"
  BY <1>1, <1>4
<1>6. \A i \in p + 1 .. N : b[i].kind = "heading" => i \in later
  BY <1>1, <1>4
<1> HIDE DEF later
<1>7. CASE later = {}
  <2>1. /\ q \in p .. N /\ q = N /\ \A i \in p + 1 .. q : b[i].kind # "heading"
    BY <1>1, <1>4, <1>6, <1>7
  <2>2. IsSection(b, name, p, q)
    BY <1>3, <1>4, <2>1 DEF IsSection, A
  <2> QED
    BY <2>2
<1>8. CASE later # {}
  <2>1. Ca!Smallest(later) \in later /\ \A j \in later : Ca!Smallest(later) <= j
    BY <1>5, <1>8, SmallestIs
  <2> PICK m : m = Ca!Smallest(later)
    OBVIOUS
  <2>2. q = m - 1 /\ m \in p + 1 .. N /\ b[m].kind = "heading" /\ \A j \in later : m <= j
    BY <1>5, <1>8, <2>1
  <2> HIDE DEF q
  <2>3. q \in p .. N /\ q + 1 = m /\ m \in 1 .. N
    BY <1>1, <1>4, <2>2
  <2>4. ASSUME NEW i \in p + 1 .. q PROVE b[i].kind # "heading"
    <3>1. i \in p + 1 .. N /\ ~(m <= i)
      BY <1>1, <1>4, <2>2, <2>3
    <3> QED
      BY <1>6, <2>2, <3>1
  <2>5. IsSection(b, name, p, q)
    BY <1>3, <1>4, <2>2, <2>3, <2>4 DEF IsSection, A
  <2> QED
    BY <2>5
<1> QED
  BY <1>7, <1>8

LEMMA SectionRead ==
  ASSUME NEW S, NEW b \in Seq(S), NEW name, NEW p, NEW q, IsSection(b, name, p, q), NEW r,
         r = Ca!SplitRivalSections(b, name)
  PROVE  /\ r \in Seq(S) /\ Len(r) = q - p /\ q - p \in Nat
         /\ \A j \in 1 .. q - p : /\ p + j \in p + 1 .. q /\ p + j \in 1 .. Len(b)
                                  /\ r[j] = b[p + j] /\ r[j].kind # "heading"
<1>1. /\ p \in 1 .. Len(b) /\ q \in p .. Len(b) /\ Len(b) \in Nat
      /\ \A i \in p + 1 .. q : b[i].kind # "heading"
  BY DEF IsSection
<1>2. r = SubSeq(b, p + 1, q)
  BY SectionIs
<1>3. \A i \in p + 1 .. q : b[i] \in S
  BY <1>1
<1>4. p + 1 \in Int /\ q \in Int
  BY <1>1
<1>5. /\ r \in Seq(S) /\ Len(r) = IF p + 1 <= q THEN q - (p + 1) + 1 ELSE 0
      /\ \A i \in 1 .. q - (p + 1) + 1 : r[i] = b[(p + 1) + i - 1]
  BY <1>2, <1>3, <1>4, SubSeqProperties
<1>6. Len(r) = q - p /\ q - p \in Nat /\ q - (p + 1) + 1 = q - p
  BY <1>1, <1>5
<1>7. ASSUME NEW j \in 1 .. q - p
      PROVE  /\ p + j \in p + 1 .. q /\ p + j \in 1 .. Len(b)
             /\ r[j] = b[p + j] /\ r[j].kind # "heading"
  <2>1. p + j \in p + 1 .. q /\ p + j \in 1 .. Len(b) /\ (p + 1) + j - 1 = p + j
    <3>1. /\ p \in Int /\ q \in Int /\ j \in Int /\ Len(b) \in Nat
          /\ 1 <= p /\ q <= Len(b) /\ 1 <= j /\ j <= q - p
      BY <1>1
    <3> QED
      BY <3>1
  <2>2. r[j] = b[p + j]
    BY <1>5, <1>6, <2>1
  <2> QED
    BY <1>1, <2>1, <2>2
<1> QED
  BY <1>5, <1>6, <1>7

(* A rendered contract in parts: a heading with its section, each.         *)
PartsOf(in) ==
  [i \in DOMAIN Ca!Headings |->
     <<Ca!Heading(Ca!Headings[i])>> \o Ca!RenderedSection(in, Ca!Headings[i])]

LEMMA PartsType ==
  ASSUME Ca!CanvasAssumption, NEW in \in Inputs
  PROVE  /\ Ca!IsList(PartsOf(in)) /\ Len(PartsOf(in)) = 6 /\ DOMAIN PartsOf(in) = 1 .. 6
         /\ \A i \in 1 .. 6 : /\ Ca!AreLines(PartsOf(in)[i])
                              /\ Ca!AreLines(Ca!RenderedSection(in, Ca!Headings[i]))
         /\ Ca!RenderRivalContract(in) = <<Ca!Title(Ca!TitleOrDefault(in))>> \o Ca!Joined(PartsOf(in))
<1> DEFINE h == Ca!Headings
           s == PartsOf(in)
<1>1. DOMAIN h = 1 .. 6 /\ Len(h) = 6 /\ \A i \in 1 .. 6 : h[i] \in Ca!Sections
  BY SectionNames
<1>2. s = [i \in 1 .. 6 |-> <<Ca!Heading(h[i])>> \o Ca!RenderedSection(in, h[i])]
  BY <1>1 DEF PartsOf
<1>3. Ca!RenderRivalContract(in) = <<Ca!Title(Ca!TitleOrDefault(in))>> \o Ca!Joined(s)
  BY DEF Ca!RenderRivalContract, PartsOf
<1> HIDE DEF h, s
<1>4. s = [i \in 1 .. 6 |-> s[i]] /\ \A i \in 1 .. 6 : s[i] = <<Ca!Heading(h[i])>> \o Ca!RenderedSection(in, h[i])
  BY <1>2
<1>5. Len(s) = 6 /\ DOMAIN s = 1 .. 6
  BY <1>4
<1>6. Ca!IsList(s)
  BY <1>4, <1>5 DEF Ca!IsList
<1>7. \A i \in 1 .. 6 : Ca!AreLines(s[i]) /\ Ca!AreLines(Ca!RenderedSection(in, h[i]))
  <2> SUFFICES ASSUME NEW i \in 1 .. 6
               PROVE  Ca!AreLines(s[i]) /\ Ca!AreLines(Ca!RenderedSection(in, h[i]))
    OBVIOUS
  <2>1. Ca!AreLines(Ca!RenderedSection(in, h[i]))
    BY <1>1, SectionType
  <2>2. Ca!AreLines(<<Ca!Heading(h[i])>>)
    BY OfLabel, OneLine
  <2> QED
    BY <1>4, <2>1, <2>2, ConcatLines
<1> QED
  BY <1>3, <1>5, <1>6, <1>7 DEF h, s

LEMMA RenderedType ==
  ASSUME Ca!CanvasAssumption, NEW in \in Inputs
  PROVE  Ca!AreLines(Ca!RenderRivalContract(in))
<1>1. Ca!AreLines(Ca!Joined(PartsOf(in)))
  BY PartsType, JoinedLines
<1>2. Ca!AreLines(<<Ca!Title(Ca!TitleOrDefault(in))>>)
  BY OfLabel, OneLine
<1> QED
  BY <1>1, <1>2, PartsType, ConcatLines

LEMMA OfKind ==
  ASSUME NEW label, NEW text
  PROVE  /\ Ca!Heading(label).kind = "heading" /\ Ca!Heading(label).label = label
         /\ Ca!Title(text).kind = "title" /\ Ca!Bullet(label, text).kind = "bullet"
         /\ Ca!Bullet(label, text).label = label /\ Ca!Bullet(label, text).text = text
  BY DEF Ca!Heading, Ca!Title, Ca!Bullet, Ca!Line

(* A rendered contract is read back section by section.                    *)
LEMMA ReadBackSections ==
  ASSUME Ca!CanvasAssumption, NEW in \in Inputs, Ca!Plain(in), NEW b, b = Ca!RenderRivalContract(in)
  PROVE  /\ Ca!ParseRivalContractBody(b)
         /\ \A name \in Ca!Sections :
              Ca!SplitRivalSections(b, name) = Ca!RenderedSection(in, name)
<1> DEFINE h == Ca!Headings
           s == PartsOf(in)
           sec(i) == Ca!RenderedSection(in, h[i])
           J == Ca!Joined(s)
           t == Ca!Title(Ca!TitleOrDefault(in))
<1>1. /\ Ca!IsList(s) /\ Len(s) = 6 /\ DOMAIN s = 1 .. 6
      /\ \A i \in 1 .. 6 : Ca!AreLines(sec(i))
      /\ b = <<t>> \o J
  BY PartsType
<1>4. DOMAIN h = 1 .. 6 /\ (\A i \in 1 .. 6 : h[i] \in Ca!Sections)
      /\ (\A name \in Ca!Sections : \E i \in 1 .. 6 : name = h[i])
      /\ \A i, j \in 1 .. 6 : h[i] = h[j] => i = j
  BY SectionNames
<1>5. s = [i \in 1 .. 6 |-> <<Ca!Heading(h[i])>> \o sec(i)]
  BY <1>4 DEF PartsOf
<1>6. \A i \in 1 .. 6 : \A j \in 1 .. Len(sec(i)) : sec(i)[j].kind # "heading"
  <2> SUFFICES ASSUME NEW i \in 1 .. 6, NEW j \in 1 .. Len(sec(i)) PROVE sec(i)[j].kind # "heading"
    OBVIOUS
  <2>1. ~Ca!HasHeading(sec(i))
    BY <1>4 DEF Ca!Plain
  <2>2. DOMAIN sec(i) = 1 .. Len(sec(i))
    BY <1>1, LinesType
  <2> QED
    BY <2>1, <2>2 DEF Ca!HasHeading
<1> HIDE DEF s, h, sec, t
<1>17. PICK U, H : U = UNION {Its(sec(i)) : i \in 1 .. 6} /\ H = {Ca!Heading(h[i]) : i \in 1 .. 6}
  OBVIOUS
<1>18. PICK S : S = (U \cup H) \cup {t}
  OBVIOUS
<1>2. \A i \in 1 .. 6 : sec(i) \in Seq(S) /\ <<Ca!Heading(h[i])>> \in Seq(S)
  <2> SUFFICES ASSUME NEW i \in 1 .. 6 PROVE sec(i) \in Seq(S) /\ <<Ca!Heading(h[i])>> \in Seq(S)
    OBVIOUS
  <2>4. Its(sec(i)) \subseteq U /\ Ca!Heading(h[i]) \in H
    BY <1>17
  <2>1. sec(i) \in Seq(Its(sec(i))) /\ Its(sec(i)) \subseteq S
    BY <1>1, <1>18, <2>4, LinesType
  <2>2. \A A : A \subseteq S => Seq(A) \subseteq Seq(S)
    OBVIOUS
  <2>3. Ca!Heading(h[i]) \in S
    BY <1>18, <2>4
  <2> QED
    BY <2>1, <2>2, <2>3
<1>3. t \in S
  BY <1>18
<1>7. \A i \in 1 .. 6 :
        /\ s[i] \in Seq(S) /\ Len(sec(i)) \in Nat /\ Len(s[i]) = 1 + Len(sec(i))
        /\ s[i][1] = Ca!Heading(h[i])
        /\ \A j \in 1 .. Len(sec(i)) : s[i][1 + j] = sec(i)[j]
  <2> SUFFICES ASSUME NEW i \in 1 .. 6
               PROVE  /\ s[i] \in Seq(S) /\ Len(sec(i)) \in Nat /\ Len(s[i]) = 1 + Len(sec(i))
                      /\ s[i][1] = Ca!Heading(h[i])
                      /\ \A j \in 1 .. Len(sec(i)) : s[i][1 + j] = sec(i)[j]
    OBVIOUS
  <2> PICK x, y, z : x = <<Ca!Heading(h[i])>> /\ y = sec(i) /\ z = x \o y
    OBVIOUS
  <2>1. x \in Seq(S) /\ y \in Seq(S) /\ Len(x) = 1 /\ x[1] = Ca!Heading(h[i]) /\ s[i] = z
    BY <1>2, <1>5
  <2>2. /\ z \in Seq(S) /\ Len(z) = Len(x) + Len(y)
        /\ \A k \in 1 .. Len(x) + Len(y) : z[k] = IF k <= Len(x) THEN x[k] ELSE y[k - Len(x)]
    BY <2>1, ConcatProperties
  <2>3. Len(y) \in Nat
    BY <2>1
  <2>4. Len(z) = 1 + Len(y) /\ z[1] = x[1]
    BY <2>1, <2>2, <2>3
  <2>5. \A j \in 1 .. Len(y) : z[1 + j] = y[j]
    <3> SUFFICES ASSUME NEW j \in 1 .. Len(y) PROVE z[1 + j] = y[j]
      OBVIOUS
    <3>1. 1 + j \in 1 .. Len(x) + Len(y) /\ ~(1 + j <= Len(x)) /\ (1 + j) - Len(x) = j
      BY <2>1, <2>3
    <3> QED
      BY <2>2, <3>1
  <2> QED
    BY <2>1, <2>2, <2>3, <2>4, <2>5
<1>8. s \in Seq(Seq(S))
  <2>1. s \in Seq(Its(s)) /\ \A i \in 1 .. Len(s) : s[i] \in Seq(S)
    BY <1>1, <1>7, ListType
  <2> QED
    BY <2>1, SeqOver
<1>30. AreJoined(s, S, 6, J)
  BY <1>1, <1>8 DEF AreJoined
<1> HIDE DEF J
<1>31. PICK o : Offsets(o, s, 6, J)
  BY <1>30, JoinedAt
<1>9. /\ o \in [0 .. 6 -> Nat] /\ o[0] = 0
      /\ \A k \in 1 .. 6 : o[k] = o[k - 1] + Len(s[k])
      /\ Len(J) = o[6]
      /\ \A k \in 1 .. 6 : \A j \in 1 .. Len(s[k]) :
           /\ o[k - 1] + j \in 1 .. o[6]
           /\ J[o[k - 1] + j] = s[k][j]
      /\ \A i \in 1 .. o[6] : \E k \in 1 .. 6 : \E j \in 1 .. Len(s[k]) : i = o[k - 1] + j
  BY <1>31, Zenon DEF Offsets
<1>10. J \in Seq(S)
  <2>1. J = Ca!Joined(s)
    BY <1>30 DEF AreJoined
  <2> QED
    BY <1>8, <2>1, JoinedType
<1>11. /\ b \in Seq(S) /\ Len(b) = 1 + o[6] /\ b[1] = t /\ o[6] \in Nat
       /\ \A i \in 1 .. o[6] : b[1 + i] = J[i]
  <2> PICK x : x = <<t>>
    OBVIOUS
  <2>1. x \in Seq(S) /\ Len(x) = 1 /\ x[1] = t /\ b = x \o J
    BY <1>1, <1>3
  <2>2. /\ b \in Seq(S) /\ Len(b) = Len(x) + Len(J)
        /\ \A k \in 1 .. Len(x) + Len(J) : b[k] = IF k <= Len(x) THEN x[k] ELSE J[k - Len(x)]
    BY <1>10, <2>1, ConcatProperties
  <2>3. o[6] \in Nat /\ Len(J) = o[6]
    BY <1>9
  <2>4. Len(b) = 1 + o[6] /\ b[1] = t
    BY <2>1, <2>2, <2>3
  <2>5. \A i \in 1 .. o[6] : b[1 + i] = J[i]
    <3> SUFFICES ASSUME NEW i \in 1 .. o[6] PROVE b[1 + i] = J[i]
      OBVIOUS
    <3>1. 1 + i \in 1 .. Len(x) + Len(J) /\ ~(1 + i <= Len(x)) /\ (1 + i) - Len(x) = i
      BY <2>1, <2>3
    <3> QED
      BY <2>2, <3>1
  <2> QED
    BY <2>2, <2>3, <2>4, <2>5
<1>12. \A k \in 1 .. 6 : \A j \in 1 .. Len(s[k]) :
         /\ o[k - 1] \in Nat /\ 1 + (o[k - 1] + j) \in 1 .. Len(b)
         /\ b[1 + (o[k - 1] + j)] = s[k][j]
  <2> SUFFICES ASSUME NEW k \in 1 .. 6, NEW j \in 1 .. Len(s[k])
               PROVE  /\ o[k - 1] \in Nat /\ 1 + (o[k - 1] + j) \in 1 .. Len(b)
                      /\ b[1 + (o[k - 1] + j)] = s[k][j]
    OBVIOUS
  <2>1. k - 1 \in 0 .. 6
    OBVIOUS
  <2> PICK i : i = o[k - 1] + j
    OBVIOUS
  <2>2. o[k - 1] \in Nat /\ i \in 1 .. o[6] /\ J[i] = s[k][j]
    BY <1>9, <2>1
  <2>3. b[1 + i] = s[k][j]
    BY <1>11, <2>2
  <2>4. 1 + i \in 1 .. Len(b)
    <3>1. o[6] \in Nat /\ Len(b) = 1 + o[6] /\ i \in 1 .. o[6]
      BY <1>11, <2>2
    <3> QED
      BY <3>1
  <2> QED
    BY <2>2, <2>3, <2>4
<1>13. \A i \in 1 .. Len(b) : i # 1 => \E k \in 1 .. 6 : \E j \in 1 .. Len(s[k]) : i = 1 + (o[k - 1] + j)
  <2> SUFFICES ASSUME NEW i \in 1 .. Len(b), i # 1
               PROVE  \E k \in 1 .. 6 : \E j \in 1 .. Len(s[k]) : i = 1 + (o[k - 1] + j)
    OBVIOUS
  <2>1. i - 1 \in 1 .. o[6] /\ i = 1 + (i - 1)
    BY <1>11
  <2>2. PICK k \in 1 .. 6 : \E j \in 1 .. Len(s[k]) : i - 1 = o[k - 1] + j
    BY <1>9, <2>1
  <2> QED
    BY <2>1, <2>2
<1>14. ASSUME NEW k \in 1 .. 6
       PROVE  /\ Ca!At(b, h[k]) # {}
              /\ Ca!SplitRivalSections(b, h[k]) = sec(k)
  <2> DEFINE p == 1 + (o[k - 1] + 1)
             q == 1 + o[k]
             n == Len(sec(k))
  <2>1. /\ o[k - 1] \in Nat /\ o[k] = o[k - 1] + (1 + n) /\ n \in Nat
        /\ s[k][1] = Ca!Heading(h[k]) /\ \A j \in 1 .. n : s[k][1 + j] = sec(k)[j]
        /\ sec(k) \in Seq(S) /\ Len(s[k]) = 1 + n /\ \A j \in 1 .. n : sec(k)[j].kind # "heading"
    <3>1. k - 1 \in 0 .. 6
      OBVIOUS
    <3> QED
      BY <1>2, <1>6, <1>7, <1>9, <3>1, Zenon
  <2>2. p \in 1 .. Len(b) /\ b[p] = Ca!Heading(h[k])
    <3>1. 1 \in 1 .. Len(s[k])
      BY <2>1
    <3> QED
      BY <1>12, <2>1, <3>1
  <2>3. p \in Ca!At(b, h[k])
    <3>1. b[p].kind = "heading" /\ b[p].label = h[k]
      BY <2>2, OfKind
    <3>2. p \in DOMAIN b
      BY <1>11, <2>2
    <3> HIDE DEF p
    <3> QED
      BY <3>1, <3>2 DEF Ca!At
  <2>4. \A i \in Ca!At(b, h[k]) : i = p
    <3> SUFFICES ASSUME NEW i \in Ca!At(b, h[k]) PROVE i = p
      OBVIOUS
    <3>1. i \in 1 .. Len(b) /\ b[i].kind = "heading" /\ b[i].label = h[k]
      BY <1>11 DEF Ca!At
    <3>2. i # 1
      BY <1>11, <3>1, OfKind DEF t
    <3>3. PICK m \in 1 .. 6 : \E j \in 1 .. Len(s[m]) : i = 1 + (o[m - 1] + j)
      BY <1>13, <3>1, <3>2
    <3>4. PICK j \in 1 .. Len(s[m]) : i = 1 + (o[m - 1] + j)
      BY <3>3
    <3>5. b[i] = s[m][j]
      BY <1>12, <3>4
    <3>6. CASE j = 1
      <4>1. s[m][j].label = h[m]
        <5>1. s[m][1] = Ca!Heading(h[m])
          BY <1>7
        <5>2. s[m][1].label = h[m]
          BY <5>1, OfKind
        <5> QED
          BY <3>6, <5>2
      <4>2. m = k
        BY <1>4, <3>1, <3>5, <4>1
      <4> QED
        BY <3>4, <3>6, <4>2
    <3>7. CASE j # 1
      <4>1. Len(s[m]) = 1 + Len(sec(m)) /\ Len(sec(m)) \in Nat
        BY <1>7
      <4>2. j - 1 \in 1 .. Len(sec(m)) /\ 1 + (j - 1) = j
        BY <3>7, <4>1
      <4>3. s[m][j] = sec(m)[j - 1]
        BY <1>7, <4>2
      <4>4. s[m][j].kind # "heading"
        BY <1>6, <4>2, <4>3
      <4> QED
        BY <3>1, <3>5, <4>4
    <3> QED
      BY <3>6, <3>7
  <2>5. \A j \in 1 .. n : p + j \in 1 .. Len(b) /\ b[p + j] = sec(k)[j]
    <3> SUFFICES ASSUME NEW j \in 1 .. n PROVE p + j \in 1 .. Len(b) /\ b[p + j] = sec(k)[j]
      OBVIOUS
    <3>2. n \in Nat /\ Len(s[k]) = 1 + n
      BY <2>1
    <3>3. 1 + j \in 1 .. Len(s[k])
      <4> HIDE DEF n
      <4> QED
        BY <3>2
    <3>4. 1 + (o[k - 1] + (1 + j)) = p + j
      <4> PICK x : x = o[k - 1]
        OBVIOUS
      <4>1. x \in Nat /\ j \in Nat
        BY <2>1
      <4>2. 1 + (x + (1 + j)) = (1 + (x + 1)) + j
        BY <4>1
      <4> QED
        BY <4>2
    <3>1. 1 + j \in 1 .. Len(s[k]) /\ 1 + (o[k - 1] + (1 + j)) = p + j
      BY <3>3, <3>4
    <3> HIDE DEF p, n
    <3> QED
      BY <1>12, <2>1, <3>1
  <2>6. q = p + n /\ p \in Nat
    <3> PICK x, y, z : x = o[k - 1] /\ y = o[k] /\ z = n
      OBVIOUS
    <3>1. x \in Nat /\ z \in Nat /\ y = x + (1 + z)
      BY <2>1
    <3>2. 1 + y = (1 + (x + 1)) + z /\ 1 + (x + 1) \in Nat
      BY <3>1
    <3> HIDE DEF n
    <3> QED
      BY <3>2
  <2>7. q <= Len(b) /\ (q = Len(b) \/ (q + 1 \in 1 .. Len(b) /\ b[q + 1].kind = "heading"))
    <3>1. CASE k = 6
      BY <1>11, <3>1
    <3>2. CASE k # 6
      <4>1. k + 1 \in 1 .. 6 /\ (k + 1) - 1 = k
        BY <3>2
      <4>7. Len(sec(k + 1)) \in Nat /\ Len(s[k + 1]) = 1 + Len(sec(k + 1))
        BY <1>7, <4>1
      <4>8. 1 \in 1 .. Len(s[k + 1])
        BY <4>7
      <4>2. 1 \in 1 .. Len(s[k + 1]) /\ s[k + 1][1] = Ca!Heading(h[k + 1])
        BY <1>7, <4>1, <4>8
      <4>3. 1 + (o[k] + 1) \in 1 .. Len(b) /\ b[1 + (o[k] + 1)] = Ca!Heading(h[k + 1])
        BY <1>12, <4>1, <4>2
      <4>4. o[k] \in Nat /\ q + 1 = 1 + (o[k] + 1)
        BY <2>1
      <4>5. q + 1 \in 1 .. Len(b) /\ b[q + 1].kind = "heading"
        BY <4>3, <4>4, OfKind
      <4>6. Len(b) \in Nat /\ q \in Nat
        <5>1. b \in Seq(S)
          BY <1>11
        <5>2. Len(b) \in Nat
          BY <5>1
        <5>3. q \in Nat
          BY <4>4
        <5> QED
          BY <5>2, <5>3
      <4> HIDE DEF q
      <4> QED
        BY <4>5, <4>6
    <3> QED
      BY <3>1, <3>2
  <2> HIDE DEF p, q
  <2>8. IsSection(b, h[k], p, q)
    <3>1. q \in p .. Len(b) /\ p \in Nat /\ n \in Nat
      BY <2>1, <2>6, <2>7, <1>11
    <3>2. \A i \in p + 1 .. q : b[i].kind # "heading"
      <4> SUFFICES ASSUME NEW i \in p + 1 .. q PROVE b[i].kind # "heading"
        OBVIOUS
      <4>1. i - p \in 1 .. n /\ p + (i - p) = i
        BY <2>6, <3>1
      <4> QED
        BY <2>1, <2>5, <4>1
    <3>3. \A j \in Ca!At(b, h[k]) : j <= p
      BY <2>4, <3>1
    <3> QED
      BY <2>2, <2>3, <2>7, <3>1, <3>2, <3>3 DEF IsSection
  <2> PICK r : r = Ca!SplitRivalSections(b, h[k])
    OBVIOUS
  <2>9. /\ r \in Seq(S) /\ Len(r) = q - p
        /\ \A j \in 1 .. q - p : r[j] = b[p + j]
    BY <1>11, <2>8, SectionRead
  <2>10. Len(r) = n /\ \A j \in 1 .. n : r[j] = sec(k)[j]
    <3>1. q - p = n
      BY <2>1, <2>6
    <3> QED
      BY <2>5, <2>9, <3>1
  <2> HIDE DEF n
  <2>11. r = sec(k)
    <3>1. Len(r) = Len(sec(k)) /\ \A j \in 1 .. Len(r) : r[j] = sec(k)[j]
      BY <2>10 DEF n
    <3> QED
      BY <2>1, <2>9, <3>1, SeqEqual
  <2> QED
    BY <2>3, <2>11
<1>15. Ca!ExtractContractTitle(b)
  <2>1. b # <<>>
    BY <1>11
  <2> QED
    BY <1>11, <2>1, OfKind DEF Ca!ExtractContractTitle, t
<1>16. \A name \in Ca!Sections :
         /\ Ca!At(b, name) # {}
         /\ Ca!SplitRivalSections(b, name) = Ca!RenderedSection(in, name)
  <2> SUFFICES ASSUME NEW name \in Ca!Sections
               PROVE  /\ Ca!At(b, name) # {}
                      /\ Ca!SplitRivalSections(b, name) = Ca!RenderedSection(in, name)
    OBVIOUS
  <2>1. PICK k \in 1 .. 6 : name = h[k]
    BY <1>4
  <2> QED
    BY <1>14, <2>1 DEF sec
<1> QED
  BY <1>15, <1>16 DEF Ca!ParseRivalContractBody

(* The module's cardinality is that of finite sets.                        *)
LEMMA CanvasCardinality ==
  ASSUME NEW S
  PROVE  Ca!Cardinality(S) = Cardinality(S)
BY DEF Ca!Cardinality, Cardinality

LEMMA CountNumber ==
  ASSUME NEW s, NEW x
  PROVE  Ca!Count(s, x) = Number(s, {x})
<1> DEFINE A == {i \in DOMAIN s : s[i] = x}
           B == {i \in DOMAIN s : s[i] \in {x}}
<1>1. A = B
  OBVIOUS
<1>2. Ca!Count(s, x) = Cardinality(A) /\ Number(s, {x}) = Cardinality(B)
  BY CanvasCardinality, Zenon DEF Ca!Count, Number
<1> HIDE DEF A, B
<1> QED
  BY <1>1, <1>2

LEMMA SixSections == IsFiniteSet(Ca!Sections) /\ Cardinality(Ca!Sections) = 6
<1> DEFINE f == [i \in 1 .. 6 |-> Ca!Headings[i]]
<1>1. f \in [1 .. 6 -> Ca!Sections]
  BY SectionNames
<1>2. \A i, j \in 1 .. 6 : f[i] = f[j] => i = j
  BY SectionNames
<1>3. \A name \in Ca!Sections : \E i \in 1 .. 6 : f[i] = name
  BY SectionNames
<1> HIDE DEF f
<1>4. f \in Bijection(1 .. 6, Ca!Sections)
  BY <1>1, <1>2, <1>3 DEF Bijection, Injection, Surjection, IsInjective
<1>5. ExistsBijection(1 .. 6, Ca!Sections)
  BY <1>4 DEF ExistsBijection
<1>6. IsFiniteSet(1 .. 6) /\ Cardinality(1 .. 6) = 6
  <2>1. \A n \in Nat : IsFiniteSet(1 .. n) /\ Cardinality(1 .. n) = n
    BY Numbered
  <2>2. 6 \in Nat
    OBVIOUS
  <2> QED
    BY <2>1, <2>2, Zenon
<1> QED
  BY <1>5, <1>6, FS_Bijection

(* In a text with each heading once: heading k is at P[k], its section     *)
(* ends at Q[k].                                                           *)
Charted(b, P, Q) ==
  /\ \A k \in 1 .. 6 : IsSection(b, Ca!Headings[k], P[k], Q[k])
  /\ \A i \in 1 .. Len(b) : b[i].kind = "heading" => \E k \in 1 .. 6 : P[k] = i
  /\ \A j, k \in 1 .. 6 : P[j] = P[k] => j = k

(* A text that parses and has each heading once has a chart.               *)
LEMMA ChartExists ==
  ASSUME NEW S, NEW b \in Seq(S), Ca!ParseRivalContractBody(b), NEW heads,
         heads = {i \in DOMAIN b : b[i].kind = "heading"},
         Cardinality(heads) = Cardinality(Ca!Sections)
  PROVE  \E P, Q : Charted(b, P, Q)
<1> DEFINE h == Ca!Headings
           N == Len(b)
           P == [k \in 1 .. 6 |-> CHOOSE p : \E q : IsSection(b, h[k], p, q)]
           Q == [k \in 1 .. 6 |-> CHOOSE q : IsSection(b, h[k], P[k], q)]
<1>1. N \in Nat /\ DOMAIN b = 1 .. N /\ N = Len(b)
  OBVIOUS
<1>2. (\A k \in 1 .. 6 : h[k] \in Ca!Sections) /\ (\A j, k \in 1 .. 6 : h[j] = h[k] => j = k)
  BY SectionNames
<1>3. \A k \in 1 .. 6 : IsSection(b, h[k], P[k], Q[k])
  <2> SUFFICES ASSUME NEW k \in 1 .. 6 PROVE IsSection(b, h[k], P[k], Q[k])
    OBVIOUS
  <2>1. Ca!At(b, h[k]) # {}
    BY <1>2 DEF Ca!ParseRivalContractBody
  <2> HIDE DEF h
  <2>2. \E p, q : IsSection(b, h[k], p, q)
    BY <2>1, SectionExists
  <2>3. \E q : IsSection(b, h[k], P[k], q)
    BY <2>2
  <2> HIDE DEF P
  <2> QED
    BY <2>3
<1>4. P = [k \in 1 .. 6 |-> P[k]]
  OBVIOUS
<1> HIDE DEF h, N, P, Q
<1>5. \A k \in 1 .. 6 : P[k] \in heads /\ b[P[k]].label = h[k]
  <2> SUFFICES ASSUME NEW k \in 1 .. 6 PROVE P[k] \in heads /\ b[P[k]].label = h[k]
    OBVIOUS
  <2>1. P[k] \in Ca!At(b, h[k])
    BY <1>3 DEF IsSection
  <2> QED
    BY <2>1 DEF Ca!At
<1>6. \A j, k \in 1 .. 6 : P[j] = P[k] => j = k
  BY <1>2, <1>5, Zenon
<1>7. P \in Injection(1 .. 6, heads)
  BY <1>4, <1>5, <1>6 DEF Injection, IsInjective
<1>8. IsFiniteSet(1 .. 6) /\ Cardinality(1 .. 6) = 6
  <2>1. \A n \in Nat : IsFiniteSet(1 .. n) /\ Cardinality(1 .. n) = n
    BY Numbered
  <2>2. 6 \in Nat
    OBVIOUS
  <2> QED
    BY <2>1, <2>2, Zenon
<1>9. IsFiniteSet(heads)
  <2>1. IsFiniteSet(1 .. N) /\ heads \in SUBSET (1 .. N)
    BY <1>1, FS_Interval
  <2> QED
    BY <2>1, FS_Subset
<1>10. Cardinality(1 .. 6) = Cardinality(heads)
  BY <1>8, SixSections
<1>11. P \in Surjection(1 .. 6, heads)
  BY <1>7, <1>9, <1>10, FS_Injection
<1>12. \A i \in heads : \E k \in 1 .. 6 : P[k] = i
  BY <1>11 DEF Surjection
<1>13. \A i \in 1 .. N : b[i].kind = "heading" => \E k \in 1 .. 6 : P[k] = i
  BY <1>1, <1>12
<1>14. Charted(b, P, Q)
  BY <1>1, <1>3, <1>6, <1>13 DEF Charted, h
<1> QED
  BY <1>14

(* The places of the sections: apart, and all that is below a heading.     *)
Body(P, Q, k) == P[k] + 1 .. Q[k]

Apart(P, Q) == \A j, k \in 1 .. 6 : \A i \in Body(P, Q, j) \cap Body(P, Q, k) : j = k

Below(b, P, Q, m) ==
  /\ \A k \in 1 .. 6 : \A i \in Body(P, Q, k) : i \in m .. Len(b) /\ b[i].kind # "heading"
  /\ \A i \in m .. Len(b) : b[i].kind # "heading" => \E k \in 1 .. 6 : i \in Body(P, Q, k)

FirstHeading(b, m) ==
  /\ m \in 1 .. Len(b) /\ b[m].kind = "heading"
  /\ \A i \in 1 .. Len(b) : b[i].kind = "heading" => m <= i

(* No place is in two sections, and each below the first heading is in one.*)
LEMMA ChartedPlaces ==
  ASSUME NEW S, NEW b \in Seq(S), NEW P, NEW Q, Charted(b, P, Q), NEW m, FirstHeading(b, m)
  PROVE  Apart(P, Q) /\ Below(b, P, Q, m)
<1> DEFINE N == Len(b)
<1>1. N \in Nat /\ N = Len(b)
  OBVIOUS
<1> HIDE DEF N
<1>8. /\ m \in 1 .. N /\ b[m].kind = "heading"
      /\ \A i \in 1 .. N : b[i].kind = "heading" => m <= i
  BY <1>1 DEF FirstHeading
<1>2. ASSUME NEW k \in 1 .. 6
      PROVE  /\ P[k] \in 1 .. N /\ Q[k] \in P[k] .. N /\ b[P[k]].kind = "heading"
             /\ \A i \in P[k] + 1 .. Q[k] : b[i].kind # "heading"
             /\ Q[k] = N \/ (Q[k] + 1 \in 1 .. N /\ b[Q[k] + 1].kind = "heading")
  <2>1. IsSection(b, Ca!Headings[k], P[k], Q[k])
    BY DEF Charted
  <2>2. P[k] \in Ca!At(b, Ca!Headings[k])
    BY <2>1 DEF IsSection
  <2>3. b[P[k]].kind = "heading"
    BY <2>2 DEF Ca!At
  <2> QED
    BY <1>1, <2>1, <2>3 DEF IsSection
<1>3. \A k \in 1 .. 6 : P[k] \in Nat /\ Q[k] \in Nat /\ P[k] <= Q[k] /\ Q[k] <= N
  <2> SUFFICES ASSUME NEW k \in 1 .. 6 PROVE P[k] \in Nat /\ Q[k] \in Nat /\ P[k] <= Q[k] /\ Q[k] <= N
    OBVIOUS
  <2> PICK x, y : x = P[k] /\ y = Q[k]
    OBVIOUS
  <2>1. x \in 1 .. N /\ y \in x .. N
    BY <1>2
  <2>2. x \in Nat /\ y \in Nat /\ x <= y /\ y <= N
    BY <1>1, <2>1
  <2> QED
    BY <2>2
<1>4. ASSUME NEW j \in 1 .. 6, NEW k \in 1 .. 6, NEW i, i \in P[j] + 1 .. Q[j], i \in P[k] + 1 .. Q[k]
      PROVE  ~(P[j] < P[k])
  <2> PICK w, x, y, z : w = P[j] /\ x = Q[j] /\ y = P[k] /\ z = Q[k]
    OBVIOUS
  <2>1. w \in Nat /\ x \in Nat /\ y \in Nat /\ z \in Nat /\ i \in w + 1 .. x /\ i \in y + 1 .. z
    BY <1>3, <1>4
  <2>2. w < y => y \in w + 1 .. x
    BY <2>1
  <2>3. \A n \in w + 1 .. x : b[n].kind # "heading"
    BY <1>2
  <2>4. b[y].kind = "heading"
    BY <1>2
  <2> QED
    BY <2>2, <2>3, <2>4
<1>5. ASSUME NEW j \in 1 .. 6, NEW k \in 1 .. 6, NEW i \in (P[j] + 1 .. Q[j]) \cap (P[k] + 1 .. Q[k])
      PROVE  j = k
  <2>1. ~(P[j] < P[k]) /\ ~(P[k] < P[j])
    BY <1>4
  <2>3. P[j] \in Nat /\ P[k] \in Nat
    BY <1>3
  <2>2. P[j] = P[k]
    <3> PICK x, y : x = P[j] /\ y = P[k]
      OBVIOUS
    <3>1. x \in Nat /\ y \in Nat /\ ~(x < y) /\ ~(y < x)
      BY <2>1, <2>3
    <3>2. x = y
      BY <3>1
    <3> QED
      BY <3>2
  <2> QED
    BY <2>2 DEF Charted
<1>6. ASSUME NEW k \in 1 .. 6, NEW i \in P[k] + 1 .. Q[k]
      PROVE  i \in m .. N /\ b[i].kind # "heading"
  <2> PICK x, y : x = P[k] /\ y = Q[k]
    OBVIOUS
  <2>1. x \in 1 .. N /\ b[x].kind = "heading" /\ x \in Nat /\ y \in Nat /\ y <= N /\ i \in x + 1 .. y
    BY <1>2, <1>3
  <2>2. m <= x /\ m \in Nat
    BY <1>1, <1>8, <2>1
  <2>3. i \in m .. N
    BY <1>1, <2>1, <2>2
  <2> QED
    BY <1>2, <2>3
<1>7. ASSUME NEW i \in m .. N, b[i].kind # "heading"
      PROVE  \E k \in 1 .. 6 : i \in P[k] + 1 .. Q[k]
  <2> DEFINE A == {n \in 1 .. N : n <= i /\ b[n].kind = "heading"}
  <2>1. m \in A /\ A \in SUBSET (1 .. N)
    BY <1>1, <1>8
  <2>2. \E x \in A : \A n \in A : n <= x
    <3> HIDE DEF A
    <3>1. A \in SUBSET (0 .. N) /\ A # {}
      BY <2>1
    <3> QED
      BY <1>1, <3>1, GreatestUpTo
  <2>3. PICK x \in A : \A n \in A : n <= x
    BY <2>2
  <2>4. x \in 1 .. N /\ x <= i /\ b[x].kind = "heading"
    OBVIOUS
  <2>5. PICK k \in 1 .. 6 : P[k] = x
    BY <1>1, <2>4 DEF Charted
  <2> PICK y : y = Q[k]
    OBVIOUS
  <2>6. /\ y \in Nat /\ x <= y /\ y <= N
        /\ y = N \/ (y + 1 \in 1 .. N /\ b[y + 1].kind = "heading")
    BY <1>2, <1>3, <2>5
  <2>7. \A n \in 1 .. N : n <= i /\ b[n].kind = "heading" => n <= x
    BY <2>3
  <2>8. x # i /\ i \in Nat /\ x \in Nat /\ i <= N
    BY <1>1, <1>7, <1>8, <2>4
  <2> HIDE DEF A
  <2>9. i <= y
    <3> SUFFICES ASSUME ~(i <= y) PROVE FALSE
      OBVIOUS
    <3>1. y # N /\ y + 1 <= i
      BY <1>1, <2>6, <2>8
    <3>2. y + 1 <= x
      BY <2>6, <2>7, <3>1
    <3> QED
      BY <2>6, <2>8, <3>2
  <2>10. i \in x + 1 .. y
    BY <2>4, <2>6, <2>8, <2>9
  <2> QED
    BY <2>5, <2>10
<1> QED
  BY <1>1, <1>5, <1>6, <1>7 DEF Apart, Below, Body

Sums(c, s, X) == c[0] = 0 /\ \A i \in 1 .. Len(s) : c[i] = c[i - 1] + Number(s[i], X)

LEMMA JoinedSum ==
  ASSUME NEW S, NEW s \in Seq(Seq(S)), NEW X, NEW c, Sums(c, s, X)
  PROVE  Number(Ca!Joined(s), X) = c[Len(s)]
  BY JoinedNumber DEF Sums

Chosen(s, I, X) == {i \in I : s[i] \in X}

LEMMA ThoseChosen ==
  ASSUME NEW S, NEW s \in Seq(S), NEW I \in SUBSET DOMAIN s, NEW X
  PROVE  Number(Ca!Those(s, I), X) = Cardinality(Chosen(s, I, X))
<1>1. Number(Ca!Those(s, I), X) = Cardinality({i \in I : s[i] \in X})
  BY ThoseNumber
<1> QED
  BY <1>1, Zenon DEF Chosen

(* How often a line is in a section: at how many of its places.            *)
LEMMA SectionNumber ==
  ASSUME NEW S, NEW b \in Seq(S), NEW name, NEW p, NEW q, IsSection(b, name, p, q), NEW r,
         r = Ca!SplitRivalSections(b, name), NEW X
  PROVE  IsFiniteSet(Chosen(b, p + 1 .. q, X)) /\ Cardinality(Chosen(b, p + 1 .. q, X)) = Number(r, X)
<1> DEFINE A == {j \in DOMAIN r : r[j] \in X}
           B == {i \in p + 1 .. q : b[i] \in X}
<1>1. /\ r \in Seq(S) /\ Len(r) = q - p /\ q - p \in Nat
      /\ \A j \in 1 .. q - p : r[j] = b[p + j]
  BY SectionRead
<1>2. p \in Nat /\ q \in Nat
  <2>1. Len(b) \in Nat /\ p \in 1 .. Len(b) /\ q \in p .. Len(b)
    BY DEF IsSection
  <2> QED
    BY <2>1
<1>3. DOMAIN r = 1 .. q - p
  BY <1>1
<1>4. A = {j \in 1 .. q - p : b[p + j] \in X}
  BY <1>1, <1>3
<1>5. A \in SUBSET Int /\ B \in SUBSET Int
  BY <1>4
<1>6. IsFiniteSet(A)
  <2>1. IsFiniteSet(1 .. q - p) /\ A \in SUBSET (1 .. q - p)
    BY <1>1, <1>4, Numbered
  <2> HIDE DEF A
  <2> QED
    BY <2>1, FS_Subset
<1>7. \A i \in Int : i \in B <=> i - p \in A
  <2> SUFFICES ASSUME NEW i \in Int PROVE i \in B <=> i - p \in A
    OBVIOUS
  <2>1. i \in p + 1 .. q <=> i - p \in 1 .. q - p
    BY <1>2
  <2>2. p + (i - p) = i
    BY <1>2
  <2> HIDE DEF A
  <2>3. i - p \in A <=> i - p \in 1 .. q - p /\ b[p + (i - p)] \in X
    BY <1>4
  <2> QED
    BY <2>1, <2>2, <2>3
<1>8. Number(r, X) = Cardinality(A) /\ Chosen(b, p + 1 .. q, X) = B
  BY Zenon DEF Number, Chosen
<1> HIDE DEF A, B
<1>9. Moved(A, B, p) /\ p \in Int
  BY <1>2, <1>7 DEF Moved
<1>10. IsFiniteSet(B) /\ Cardinality(B) = Cardinality(A)
  BY <1>5, <1>6, <1>9, MovedNumber
<1> QED
  BY <1>8, <1>10

(* All sections of a charted text: how often a line is in them.            *)
SectionsOf(b) == [k \in 1 .. 6 |-> Ca!SplitRivalSections(b, Ca!Headings[k])]

Within(b, P, Q, X) == {i \in 1 .. Len(b) : (\E k \in 1 .. 6 : i \in Body(P, Q, k)) /\ b[i] \in X}

(* The lines of the six sections together, counted.                        *)
LEMMA SectionsNumber ==
  ASSUME NEW S, NEW b \in Seq(S), NEW P, NEW Q, Charted(b, P, Q), NEW X, Apart(P, Q)
  PROVE  Number(Ca!Joined(SectionsOf(b)), X) = Cardinality(Within(b, P, Q, X))
<1> DEFINE N == Len(b)
           s == SectionsOf(b)
           B(k) == Chosen(b, Body(P, Q, k), X)
           Up(n) == {i \in 1 .. N : (\E k \in 1 .. n : i \in Body(P, Q, k)) /\ b[i] \in X}
           c == [n \in 0 .. 6 |-> Cardinality(Up(n))]
<1>1. N \in Nat /\ N = Len(b)
  OBVIOUS
<1>2. ASSUME NEW k \in 1 .. 6
      PROVE  /\ s[k] \in Seq(S) /\ Body(P, Q, k) \in SUBSET (1 .. N)
             /\ IsFiniteSet(B(k)) /\ Cardinality(B(k)) = Number(s[k], X)
  <2> PICK p, q, name, r : p = P[k] /\ q = Q[k] /\ name = Ca!Headings[k]
                           /\ r = Ca!SplitRivalSections(b, name)
    OBVIOUS
  <2>1. IsSection(b, name, p, q) /\ s[k] = r
    BY DEF Charted, SectionsOf
  <2>2. r \in Seq(S)
    BY <2>1, SectionRead
  <2>3. p \in 1 .. N /\ q \in p .. N
    BY <2>1 DEF IsSection
  <2>4. p + 1 .. q \in SUBSET (1 .. N)
    <3> HIDE DEF N
    <3> QED
      BY <1>1, <2>3
  <2>6. Body(P, Q, k) = p + 1 .. q
    BY DEF Body
  <2> HIDE DEF N, s
  <2>5. IsFiniteSet(Chosen(b, p + 1 .. q, X)) /\ Cardinality(Chosen(b, p + 1 .. q, X)) = Number(r, X)
    BY <2>1, SectionNumber
  <2> QED
    BY <2>1, <2>2, <2>4, <2>5, <2>6
<1>3. Len(s) = 6 /\ DOMAIN s = 1 .. 6 /\ s = [k \in 1 .. 6 |-> s[k]]
  BY DEF SectionsOf
<1> HIDE DEF s
<1>4. s \in Seq(Seq(S))
  <2>1. s = [k \in 1 .. 6 |-> s[k]] /\ \A k \in 1 .. 6 : s[k] \in Seq(S)
    BY <1>2, <1>3
  <2>2. Ca!IsList(s)
    BY <1>3, <2>1 DEF Ca!IsList
  <2>3. s \in Seq(Its(s)) /\ \A k \in 1 .. Len(s) : s[k] \in Seq(S)
    BY <1>3, <2>1, <2>2, ListType
  <2> QED
    BY <2>3, SeqOver
<1> HIDE DEF N
<1>5. \A n \in 0 .. 6 : IsFiniteSet(Up(n)) /\ c[n] = Cardinality(Up(n))
  <2> SUFFICES ASSUME NEW n \in 0 .. 6 PROVE IsFiniteSet(Up(n)) /\ c[n] = Cardinality(Up(n))
    OBVIOUS
  <2>1. IsFiniteSet(1 .. N) /\ Up(n) \in SUBSET (1 .. N)
    BY <1>1, Numbered
  <2>2. c[n] = Cardinality(Up(n))
    OBVIOUS
  <2> HIDE DEF Up
  <2> QED
    BY <2>1, <2>2, FS_Subset
<1>6. c[0] = 0
  <2>1. Up(0) = {}
    OBVIOUS
  <2>2. c[0] = Cardinality(Up(0))
    BY <1>5
  <2> HIDE DEF Up, c
  <2> QED
    BY <2>1, <2>2, FS_EmptySet
<1>7. ASSUME NEW n \in 1 .. 6 PROVE c[n] = c[n - 1] + Number(s[n], X)
  <2>1. n - 1 \in 0 .. 6 /\ n \in 0 .. 6 /\ 1 .. n = (1 .. n - 1) \cup {n}
        /\ (\A k \in 1 .. n - 1 : k \in 1 .. 6 /\ k # n) /\ n \in 1 .. n
    OBVIOUS
  <2>2. Up(n) = Up(n - 1) \cup B(n)
    <3>1. Body(P, Q, n) \in SUBSET (1 .. N)
      BY <1>2
    <3>2. \A i : (\E k \in 1 .. n : i \in Body(P, Q, k))
                <=> (\E k \in 1 .. n - 1 : i \in Body(P, Q, k)) \/ i \in Body(P, Q, n)
      BY <2>1
    <3> QED
      BY <3>1, <3>2 DEF Chosen
  <2>3. Up(n - 1) \cap B(n) = {}
    <3> SUFFICES ASSUME NEW i \in Up(n - 1), i \in B(n) PROVE FALSE
      OBVIOUS
    <3>1. PICK k \in 1 .. n - 1 : i \in Body(P, Q, k)
      OBVIOUS
    <3>2. k \in 1 .. 6 /\ k # n /\ i \in Body(P, Q, n)
      BY <2>1 DEF Chosen
    <3> QED
      BY <3>1, <3>2 DEF Apart
  <2>4. IsFiniteSet(Up(n - 1)) /\ IsFiniteSet(B(n)) /\ Cardinality(B(n)) = Number(s[n], X)
        /\ c[n] = Cardinality(Up(n)) /\ c[n - 1] = Cardinality(Up(n - 1))
    BY <1>2, <1>5, <2>1
  <2> HIDE DEF Up, B, c
  <2>5. Cardinality(Up(n - 1) \cup B(n)) = Cardinality(Up(n - 1)) + Cardinality(B(n))
    BY <2>3, <2>4, DisjointUnion
  <2> QED
    BY <2>2, <2>4, <2>5
<1>8. c[6] = Cardinality(Up(6))
  BY <1>5
<1> HIDE DEF c
<1> HIDE DEF Up, B
<1>9. Number(Ca!Joined(s), X) = c[6]
  <2>1. \A n \in 1 .. Len(s) : c[n] = c[n - 1] + Number(s[n], X)
    BY <1>3, <1>7
  <2>2. Sums(c, s, X)
    BY <1>6, <2>1 DEF Sums
  <2>3. Number(Ca!Joined(s), X) = c[Len(s)]
    BY <1>4, <2>2, JoinedSum
  <2> QED
    BY <1>3, <2>3
<1>10. Up(6) = Within(b, P, Q, X)
  BY Zenon DEF Within, Up, N
<1> QED
  BY <1>8, <1>9, <1>10 DEF s

(* The lines with a text below the first heading.                          *)
TextPlaces(w) == {i \in DOMAIN w : w[i].kind # "heading"}

BelowPlaces(b, m, X) == {i \in m .. Len(b) : b[i].kind # "heading" /\ b[i] \in X}

(* The lines below the first heading that are no headings, counted.        *)
LEMMA BelowNumber ==
  ASSUME NEW S, NEW b \in Seq(S), NEW m \in 1 .. Len(b), NEW X, NEW w, w = SubSeq(b, m, Len(b))
  PROVE  Number(Ca!Those(w, TextPlaces(w)), X) = Cardinality(BelowPlaces(b, m, X))
<1> DEFINE N == Len(b)
           d == m - 1
           A == Chosen(w, TextPlaces(w), X)
           B == BelowPlaces(b, m, X)
<1>1. N \in Nat /\ N = Len(b) /\ m \in Nat /\ m <= N /\ 1 <= m
  OBVIOUS
<1>2. \A i \in m .. N : b[i] \in S
  BY <1>1
<1> HIDE DEF N
<1>3. /\ w \in Seq(S) /\ Len(w) = IF m <= N THEN N - m + 1 ELSE 0
      /\ \A i \in 1 .. N - m + 1 : w[i] = b[m + i - 1]
  <2>1. m \in Int /\ N \in Int /\ w = SubSeq(b, m, N)
    BY <1>1
  <2> QED
    BY <1>2, <2>1, SubSeqProperties
<1>4. d \in Int /\ N - d \in Nat /\ N - m + 1 = N - d /\ Len(w) = N - d
  BY <1>1, <1>3
<1>5. DOMAIN w = 1 .. N - d
  BY <1>3, <1>4
<1>6. \A i \in 1 .. N - d : w[i] = b[i + d]
  <2> SUFFICES ASSUME NEW i \in 1 .. N - d PROVE w[i] = b[i + d]
    OBVIOUS
  <2>1. m + i - 1 = i + d
    BY <1>1
  <2> QED
    BY <1>3, <1>4, <2>1
<1> HIDE DEF d
<1>7. A = {i \in 1 .. N - d : b[i + d].kind # "heading" /\ b[i + d] \in X}
  BY <1>5, <1>6 DEF Chosen, TextPlaces
<1>8. d = m - 1
  BY DEF d
<1>9. IsFiniteSet(A)
  <2>1. IsFiniteSet(1 .. N - d) /\ A \in SUBSET (1 .. N - d)
    BY <1>4, <1>7, Numbered
  <2> HIDE DEF A
  <2> QED
    BY <2>1, FS_Subset
<1>10. TextPlaces(w) \in SUBSET DOMAIN w
  BY DEF TextPlaces
<1>11. Number(Ca!Those(w, TextPlaces(w)), X) = Cardinality(A)
  BY <1>3, <1>10, ThoseChosen
<1>14. B = {i \in m .. N : b[i].kind # "heading" /\ b[i] \in X}
  BY <1>1 DEF BelowPlaces
<1> HIDE DEF A, B
<1>12. \A i \in Int : i \in B <=> i - d \in A
  <2> SUFFICES ASSUME NEW i \in Int PROVE i \in B <=> i - d \in A
    OBVIOUS
  <2>1. i \in m .. N <=> i - d \in 1 .. N - d
    BY <1>1, <1>8
  <2>2. (i - d) + d = i
    BY <1>4
  <2>3. i - d \in A <=> i - d \in 1 .. N - d /\ b[(i - d) + d].kind # "heading" /\ b[(i - d) + d] \in X
    BY <1>7
  <2> QED
    BY <1>14, <2>1, <2>2, <2>3
<1>13. A \in SUBSET Int /\ B \in SUBSET Int
  BY <1>7, <1>14
<1>15. Moved(A, B, d)
  BY <1>12 DEF Moved
<1>16. Cardinality(B) = Cardinality(A)
  BY <1>4, <1>9, <1>13, <1>15, MovedNumber
<1> QED
  BY <1>11, <1>16 DEF B

(* The sections of a text that has each heading once hold, line for line,  *)
(* what is below the first heading: no line is lost, none is there twice.  *)
LEMMA NothingLost ==
  ASSUME NEW S, NEW b \in Seq(S), Ca!ParseRivalContractBody(b), NEW heads,
         heads = {i \in DOMAIN b : b[i].kind = "heading"},
         Cardinality(heads) = Cardinality(Ca!Sections), NEW X, NEW w,
         w = SubSeq(b, Ca!Smallest(heads), Len(b))
  PROVE  Number(Ca!Joined(SectionsOf(b)), X) = Number(Ca!Those(w, TextPlaces(w)), X)
<1> DEFINE N == Len(b)
           m == Ca!Smallest(heads)
<1>1. N \in Nat /\ DOMAIN b = 1 .. N /\ N = Len(b)
  OBVIOUS
<1>2. PICK P, Q : Charted(b, P, Q)
  BY ChartExists
<1>3. P[1] \in heads
  <2>1. P[1] \in Ca!At(b, Ca!Headings[1])
    BY <1>2 DEF Charted, IsSection
  <2> QED
    BY <2>1 DEF Ca!At
<1>4. heads \in SUBSET Nat
  BY <1>1
<1>5. m \in heads /\ \A i \in heads : m <= i
  BY <1>3, <1>4, SmallestIs
<1>11. w = SubSeq(b, m, N)
  OBVIOUS
<1> HIDE DEF m, N
<1>6. FirstHeading(b, m)
  BY <1>1, <1>5 DEF FirstHeading
<1>7. Apart(P, Q) /\ Below(b, P, Q, m)
  BY <1>2, <1>6, ChartedPlaces
<1>8. Number(Ca!Joined(SectionsOf(b)), X) = Cardinality(Within(b, P, Q, X))
  BY <1>2, <1>7, SectionsNumber
<1>12. m \in 1 .. Len(b)
  BY <1>6 DEF FirstHeading
<1>9. Within(b, P, Q, X) = BelowPlaces(b, m, X)
  <2>1. \A i \in m .. N : i \in 1 .. N
    BY <1>1, <1>12
  <2> QED
    BY <1>1, <1>7, <2>1 DEF Below, Within, BelowPlaces
<1>10. Number(Ca!Those(w, TextPlaces(w)), X) = Cardinality(BelowPlaces(b, m, X))
  <2>1. w = SubSeq(b, m, Len(b))
    BY <1>1, <1>11
  <2> QED
    BY <1>12, <2>1, BelowNumber
<1> QED
  BY <1>8, <1>9, <1>10

(* The lines of s that are no headings.                                    *)
Bare(s) == Ca!Those(s, TextPlaces(s))

LEMMA BareType ==
  ASSUME NEW S, NEW s \in Seq(S)
  PROVE  Bare(s) \in Seq(S)
  BY ThoseType DEF Bare

BareBy(s, r, S) ==
  /\ r \in Seq(Seq(S)) /\ Len(r) = Len(s) /\ Bare(s) = Ca!Joined(r)
  /\ \A i \in 1 .. Len(s) : r[i] = IF i \in TextPlaces(s) THEN <<s[i]>> ELSE <<>>

LEMMA BarePieces ==
  ASSUME NEW S, NEW s \in Seq(S)
  PROVE  BareBy(s, Pieces(s, TextPlaces(s)), S)
  BY PiecesType DEF Bare, BareBy

(* Headings are left out of each of two parts.                             *)
LEMMA BareConcat ==
  ASSUME NEW S, NEW s \in Seq(S), NEW t \in Seq(S)
  PROVE  Bare(s \o t) = Bare(s) \o Bare(t)
<1> PICK u : u = s \o t
  OBVIOUS
<1> DEFINE p == Pieces(s, TextPlaces(s))
           q == Pieces(t, TextPlaces(t))
           r == Pieces(u, TextPlaces(u))
           none == <<>>
<1>1. /\ Len(s) \in Nat /\ Len(t) \in Nat /\ Len(u) = Len(s) + Len(t) /\ u \in Seq(S)
      /\ \A i \in 1 .. Len(s) + Len(t) : u[i] = IF i <= Len(s) THEN s[i] ELSE t[i - Len(s)]
  BY ConcatProperties, LenProperties
<1>2. DOMAIN s = 1 .. Len(s) /\ DOMAIN t = 1 .. Len(t) /\ DOMAIN u = 1 .. Len(u)
  BY <1>1
<1>11. u \in Seq(S)
  BY <1>1
<1>12. BareBy(s, p, S) /\ BareBy(t, q, S) /\ BareBy(u, r, S)
  BY <1>11, BarePieces
<1> HIDE DEF p, q, r
<1>3. /\ p \in Seq(Seq(S)) /\ Len(p) = Len(s) /\ Bare(s) = Ca!Joined(p)
      /\ \A i \in 1 .. Len(s) : p[i] = IF i \in TextPlaces(s) THEN <<s[i]>> ELSE none
  BY <1>12, Zenon DEF BareBy
<1>4. /\ q \in Seq(Seq(S)) /\ Len(q) = Len(t) /\ Bare(t) = Ca!Joined(q)
      /\ \A i \in 1 .. Len(t) : q[i] = IF i \in TextPlaces(t) THEN <<t[i]>> ELSE none
  BY <1>12, Zenon DEF BareBy
<1>5. /\ r \in Seq(Seq(S)) /\ Len(r) = Len(u) /\ Bare(u) = Ca!Joined(r)
      /\ \A i \in 1 .. Len(u) : r[i] = IF i \in TextPlaces(u) THEN <<u[i]>> ELSE none
  BY <1>12, Zenon DEF BareBy
<1> HIDE DEF none
<1>6. Ca!Joined(p \o q) = Ca!Joined(p) \o Ca!Joined(q)
  BY <1>3, <1>4, JoinedConcat
<1> PICK R, w : R = Seq(S) /\ w = p \o q
  OBVIOUS
<1>7. /\ w \in Seq(R) /\ Len(w) = Len(p) + Len(q)
      /\ \A i \in 1 .. Len(p) + Len(q) : w[i] = IF i <= Len(p) THEN p[i] ELSE q[i - Len(p)]
  <2>1. \A A : \A x, y \in Seq(A) :
          /\ x \o y \in Seq(A) /\ Len(x \o y) = Len(x) + Len(y)
          /\ \A i \in 1 .. Len(x) + Len(y) : (x \o y)[i] = IF i <= Len(x) THEN x[i] ELSE y[i - Len(x)]
    BY ConcatProperties
  <2>2. p \in Seq(R) /\ q \in Seq(R)
    BY <1>3, <1>4
  <2> QED
    BY <2>1, <2>2, Zenon
<1>8. ASSUME NEW i \in 1 .. Len(w) PROVE w[i] = r[i]
  <2>1. i \in 1 .. Len(u) /\ i \in 1 .. Len(p) + Len(q) /\ i \in 1 .. Len(s) + Len(t)
    BY <1>1, <1>3, <1>4, <1>7
  <2>2. CASE i <= Len(s)
    <3>1. i \in 1 .. Len(s)
      BY <1>1, <2>1, <2>2
    <3>2. w[i] = p[i] /\ u[i] = s[i]
      BY <1>1, <1>3, <1>7, <2>1, <2>2
    <3>3. i \in TextPlaces(s) <=> i \in TextPlaces(u)
      BY <1>2, <2>1, <3>1, <3>2 DEF TextPlaces
    <3> QED
      BY <1>3, <1>5, <2>1, <3>1, <3>2, <3>3
  <2>3. CASE ~(i <= Len(s))
    <3>1. i - Len(s) \in 1 .. Len(t)
      BY <1>1, <2>1, <2>3
    <3>2. w[i] = q[i - Len(s)] /\ u[i] = t[i - Len(s)]
      BY <1>1, <1>3, <1>7, <2>1, <2>3
    <3>3. i - Len(s) \in TextPlaces(t) <=> i \in TextPlaces(u)
      BY <1>2, <2>1, <3>1, <3>2 DEF TextPlaces
    <3> QED
      BY <1>4, <1>5, <2>1, <3>1, <3>2, <3>3
  <2> QED
    BY <2>2, <2>3
<1>9. r \in Seq(R) /\ Len(w) = Len(r)
  BY <1>1, <1>3, <1>4, <1>5, <1>7
<1>10. w = r
  BY <1>7, <1>8, <1>9, SeqEqual
<1> QED
  BY <1>3, <1>4, <1>5, <1>6, <1>10

LEMMA BareHeadings ==
  ASSUME NEW S, NEW s \in Seq(S), \A i \in 1 .. Len(s) : s[i].kind = "heading"
  PROVE  Bare(s) = <<>>
<1>1. TextPlaces(s) \cap DOMAIN s = {}
  BY DEF TextPlaces
<1> QED
  BY <1>1, ThoseNone DEF Bare

LEMMA BareTexts ==
  ASSUME NEW S, NEW s \in Seq(S), \A i \in 1 .. Len(s) : s[i].kind # "heading"
  PROVE  Bare(s) = s
<1>1. DOMAIN s \subseteq TextPlaces(s)
  BY DEF TextPlaces
<1> QED
  BY <1>1, ThoseAll DEF Bare

LEMMA ThoseLen ==
  ASSUME NEW S, NEW s \in Seq(S), NEW I \in SUBSET DOMAIN s
  PROVE  Len(Ca!Those(s, I)) = Cardinality(I)
<1> PICK t : t = Ca!Those(s, I)
  OBVIOUS
<1>1. t \in Seq(S)
  BY ThoseType
<1>2. Number(t, S) = Cardinality(Chosen(s, I, S))
  BY ThoseChosen
<1>3. Chosen(s, I, S) = I
  BY DEF Chosen
<1>4. {i \in DOMAIN t : t[i] \in S} = 1 .. Len(t) /\ Len(t) \in Nat
  BY <1>1
<1>5. Number(t, S) = Len(t)
  <2>1. Number(t, S) = Cardinality(1 .. Len(t))
    BY <1>4, Zenon DEF Number
  <2> QED
    BY <1>4, <2>1, Numbered
<1> QED
  BY <1>2, <1>3, <1>5

(* Lines made bullets say the same.                                        *)
AsBullets(s) == [i \in DOMAIN s |-> Ca!Bullet(s[i].label, s[i].text)]

LEMMA AsBulletsText ==
  ASSUME NEW S, NEW s \in Seq(S)
  PROVE  Ca!Texts(AsBullets(s)) = Ca!BulletsOf(s)
<1>1. \A l, x : Ca!String(Ca!Bullet(l, x)) = <<l, x>>
  BY OfKind DEF Ca!String
<1>2. \A i \in DOMAIN s : Ca!String(AsBullets(s)[i]) = Ca!String(s[i])
  BY <1>1 DEF AsBullets, Ca!String
<1>3. DOMAIN AsBullets(s) = DOMAIN s
  BY DEF AsBullets
<1> QED
  BY <1>2, <1>3 DEF Ca!Texts, Ca!BulletsOf

(* The two ways to split the boundaries agree, and lose nothing.           *)
LEMMA BoundariesAgree ==
  ASSUME NEW S, NEW b \in Seq(S), Ca!AreLines(b), \A i \in 1 .. Len(b) : b[i].kind # "heading"
  PROVE  /\ Ca!Texts(Ca!SplitBoundaries(b).norms) = Ca!SplitBoundariesLists(b).norms
         /\ Ca!Texts(Ca!SplitBoundaries(b).safeguards) = Ca!SplitBoundariesLists(b).safeguards
         /\ \A x : Ca!Count(Ca!Texts(b), x) = Ca!Count(Ca!SplitBoundariesLists(b).norms, x)
                                             + Ca!Count(Ca!SplitBoundariesLists(b).safeguards, x)
<1> DEFINE I == {i \in DOMAIN b : ~Ca!IsSafeguardBullet(b[i])}
           J == {i \in DOMAIN b : b[i].kind = "prose" \/ b[i].label \notin Ca!SafeguardPrefixes}
           K == {i \in DOMAIN b : Ca!IsSafeguardBullet(b[i])}
<1>1. DOMAIN b = 1 .. Len(b) /\ Len(b) \in Nat /\ \A i \in 1 .. Len(b) : Ca!IsLine(b[i])
  BY LinesType
<1>2. I = J
  <2>1. ASSUME NEW i \in 1 .. Len(b)
        PROVE  ~Ca!IsSafeguardBullet(b[i])
               <=> b[i].kind = "prose" \/ b[i].label \notin Ca!SafeguardPrefixes
    <3> PICK l : l = b[i]
      OBVIOUS
    <3>1. l.kind \in {"title", "bullet", "prose"} /\ (l.kind = "title" => l.label = "")
      BY <1>1 DEF Ca!IsLine
    <3>2. "" \notin Ca!SafeguardPrefixes
      BY DEF Ca!SafeguardPrefixes
    <3> QED
      BY <3>1, <3>2 DEF Ca!IsSafeguardBullet
  <2> QED
    BY <1>1, <2>1
<1>3. Ca!SplitBoundaries(b).norms = AsBullets(Ca!Those(b, I))
  BY DEF Ca!SplitBoundaries, Ca!Where, AsBullets
<1>4. Ca!SplitBoundaries(b).safeguards = Ca!Those(b, K)
  BY DEF Ca!SplitBoundaries, Ca!Where
<1>5. Ca!SplitBoundariesLists(b).norms = Ca!BulletsOf(Ca!Those(b, J))
  BY DEF Ca!SplitBoundariesLists, Ca!Where
<1>6. Ca!SplitBoundariesLists(b).safeguards = Ca!BulletsOf(Ca!Those(b, K))
  BY DEF Ca!SplitBoundariesLists, Ca!Where
<1>7. I \cap K = {} /\ I \cup K = 1 .. Len(b) /\ I \in SUBSET (1 .. Len(b)) /\ K \in SUBSET (1 .. Len(b))
  BY <1>1
<1> HIDE DEF I, J, K
<1>8. Ca!Those(b, I) \in Seq(S) /\ Ca!Those(b, K) \in Seq(S)
  BY ThoseType
<1>9. Ca!Texts(AsBullets(Ca!Those(b, I))) = Ca!BulletsOf(Ca!Those(b, I))
  BY <1>8, AsBulletsText
<1>10. Ca!Texts(Ca!Those(b, K)) = Ca!BulletsOf(Ca!Those(b, K))
  BY <1>8, BulletsType
<1>11. ASSUME NEW x
       PROVE  Ca!Count(Ca!Texts(b), x) = Ca!Count(Ca!BulletsOf(Ca!Those(b, I)), x)
                                         + Ca!Count(Ca!BulletsOf(Ca!Those(b, K)), x)
  <2> PICK X, s, T : X = {x} /\ s = Ca!BulletsOf(b) /\ T = Strings(S)
    OBVIOUS
  <2>1. s \in Seq(T) /\ DOMAIN s = 1 .. Len(b) /\ s = Ca!Texts(b)
    BY <1>1, BulletsType
  <2>2. Ca!BulletsOf(Ca!Those(b, I)) = Ca!Those(s, I) /\ Ca!BulletsOf(Ca!Those(b, K)) = Ca!Those(s, K)
    BY BulletsThose
  <2>3. I \in SUBSET DOMAIN s /\ K \in SUBSET DOMAIN s
    BY <1>7, <2>1
  <2>4. /\ Number(Ca!Those(s, I), X) = Cardinality(Chosen(s, I, X))
        /\ Number(Ca!Those(s, K), X) = Cardinality(Chosen(s, K, X))
    BY <2>1, <2>3, ThoseChosen
  <2>5. Number(s, X) = Cardinality(Chosen(s, 1 .. Len(b), X))
    BY <2>1, Zenon DEF Number, Chosen
  <2>6. /\ Chosen(s, 1 .. Len(b), X) = Chosen(s, I, X) \cup Chosen(s, K, X)
        /\ Chosen(s, I, X) \cap Chosen(s, K, X) = {}
        /\ Chosen(s, I, X) \in SUBSET (1 .. Len(b)) /\ Chosen(s, K, X) \in SUBSET (1 .. Len(b))
    BY <1>7 DEF Chosen
  <2>7. IsFiniteSet(Chosen(s, I, X)) /\ IsFiniteSet(Chosen(s, K, X))
    <3>1. IsFiniteSet(1 .. Len(b))
      BY <1>1, Numbered
    <3> QED
      BY <2>6, <3>1, FS_Subset
  <2>8. Cardinality(Chosen(s, 1 .. Len(b), X)) = Cardinality(Chosen(s, I, X)) + Cardinality(Chosen(s, K, X))
    BY <2>6, <2>7, DisjointUnion, Zenon
  <2>9. Number(s, X) = Number(Ca!Those(s, I), X) + Number(Ca!Those(s, K), X)
    BY <2>4, <2>5, <2>8
  <2> QED
    BY <2>1, <2>2, <2>9, CountNumber
<1> QED
  BY <1>2, <1>3, <1>4, <1>5, <1>6, <1>9, <1>10, <1>11

Texted(s) == \A i \in 1 .. Len(s) : s[i].kind # "heading"

(* The blocks of an event-sourced domain without their headings.           *)
Blocks(C, E, R, A, O) ==
  [i \in 1 .. 9 |->
     CASE i = 1 -> <<Ca!Heading("Commands")>>    [] i = 2 -> C
       [] i = 3 -> <<Ca!Heading("Events")>>      [] i = 4 -> E
       [] i = 5 -> <<Ca!Heading("Read Models")>> [] i = 6 -> R
       [] i = 7 -> <<Ca!Heading("Aggregates")>>  [] i = 8 -> A
       [] i = 9 -> IF O = <<>> THEN <<>> ELSE <<Ca!Heading("Other")>> \o O]

LEMMA BareOne ==
  ASSUME NEW label, NEW S, <<Ca!Heading(label)>> \in Seq(S)
  PROVE  Bare(<<Ca!Heading(label)>>) = <<>>
<1> PICK s : s = <<Ca!Heading(label)>>
  OBVIOUS
<1>1. s \in Seq(S) /\ Len(s) = 1 /\ s[1].kind = "heading"
  BY OfKind
<1>2. \A i \in 1 .. Len(s) : s[i].kind = "heading"
  BY <1>1
<1> QED
  BY <1>1, <1>2, BareHeadings

LEMMA BareNone == Bare(<<>>) = <<>>
<1>1. \A s : s = <<>> => s \in Seq({}) /\ \A i \in 1 .. Len(s) : s[i].kind = "heading"
  OBVIOUS
<1> PICK none : none = <<>>
  OBVIOUS
<1>2. none \in Seq({}) /\ \A i \in 1 .. Len(none) : none[i].kind = "heading"
  BY <1>1
<1>3. Bare(none) = <<>>
  BY <1>2, BareHeadings
<1> QED
  BY <1>3

(* Nine sequences.                                                         *)
Nine(x1, x2, x3, x4, x5, x6, x7, x8, x9) ==
  [i \in 1 .. 9 |->
     CASE i = 1 -> x1 [] i = 2 -> x2 [] i = 3 -> x3 [] i = 4 -> x4 [] i = 5 -> x5
       [] i = 6 -> x6 [] i = 7 -> x7 [] i = 8 -> x8 [] i = 9 -> x9]

LEMMA NineAre ==
  ASSUME NEW x1, NEW x2, NEW x3, NEW x4, NEW x5, NEW x6, NEW x7, NEW x8, NEW x9, NEW s,
         s = Nine(x1, x2, x3, x4, x5, x6, x7, x8, x9)
  PROVE  /\ s = [i \in 1 .. 9 |-> s[i]] /\ DOMAIN s = 1 .. 9 /\ Len(s) = 9
         /\ s[1] = x1 /\ s[2] = x2 /\ s[3] = x3 /\ s[4] = x4 /\ s[5] = x5
         /\ s[6] = x6 /\ s[7] = x7 /\ s[8] = x8 /\ s[9] = x9
<1>1. s = [i \in 1 .. 9 |-> s[i]] /\ DOMAIN s = 1 .. 9
  BY DEF Nine
<1>2. Len(s) = 9
  BY <1>1
<1>3. /\ s[1] = x1 /\ s[2] = x2 /\ s[3] = x3 /\ s[4] = x4 /\ s[5] = x5
      /\ s[6] = x6 /\ s[7] = x7 /\ s[8] = x8 /\ s[9] = x9
  BY DEF Nine
<1> QED
  BY <1>1, <1>2, <1>3

NineIn(S, x1, x2, x3, x4, x5, x6, x7, x8, x9) ==
  /\ x1 \in Seq(S) /\ x2 \in Seq(S) /\ x3 \in Seq(S) /\ x4 \in Seq(S) /\ x5 \in Seq(S)
  /\ x6 \in Seq(S) /\ x7 \in Seq(S) /\ x8 \in Seq(S) /\ x9 \in Seq(S)

(* Nine sequences joined, without their headings.                          *)
LEMMA NineJoined ==
  ASSUME NEW S, NEW x1, NEW x2, NEW x3, NEW x4, NEW x5, NEW x6, NEW x7, NEW x8, NEW x9,
         NineIn(S, x1, x2, x3, x4, x5, x6, x7, x8, x9)
  PROVE  Ca!Joined(Nine(x1, x2, x3, x4, x5, x6, x7, x8, x9)) =
           (((((((x1 \o x2) \o x3) \o x4) \o x5) \o x6) \o x7) \o x8) \o x9
<1> DEFINE s == Nine(x1, x2, x3, x4, x5, x6, x7, x8, x9)
           none == <<>>
<1>1. /\ s = [i \in 1 .. 9 |-> s[i]] /\ DOMAIN s = 1 .. 9 /\ Len(s) = 9
      /\ s[1] = x1 /\ s[2] = x2 /\ s[3] = x3 /\ s[4] = x4 /\ s[5] = x5
      /\ s[6] = x6 /\ s[7] = x7 /\ s[8] = x8 /\ s[9] = x9
  <2> HIDE DEF s
  <2> QED
    BY NineAre DEF s
<1> HIDE DEF s
<1>0. /\ x1 \in Seq(S) /\ x2 \in Seq(S) /\ x3 \in Seq(S) /\ x4 \in Seq(S) /\ x5 \in Seq(S)
      /\ x6 \in Seq(S) /\ x7 \in Seq(S) /\ x8 \in Seq(S) /\ x9 \in Seq(S)
  BY DEF NineIn
<1>2. s \in Seq(Seq(S))
  <2>1. \A i \in 1 .. 9 : s[i] \in Seq(S)
    <3>1. 1 .. 9 = {1, 2, 3, 4, 5, 6, 7, 8, 9}
      OBVIOUS
    <3> QED
      BY <1>0, <1>1, <3>1
  <2>2. Ca!IsList(s)
    BY <1>1 DEF Ca!IsList
  <2>3. s \in Seq(Its(s)) /\ \A i \in 1 .. Len(s) : s[i] \in Seq(S)
    BY <1>1, <2>1, <2>2, ListType
  <2> QED
    BY <2>3, SeqOver
<1>3. PICK f : /\ f[0] = none /\ \A i \in 1 .. 9 : f[i] = f[i - 1] \o s[i]
               /\ Ca!Joined(s) = f[9]
  <2>1. \E f : /\ f \in [0 .. Len(s) -> Seq(S)] /\ f[0] = none
               /\ \A i \in 1 .. Len(s) : f[i] = f[i - 1] \o s[i]
               /\ Ca!Joined(s) = f[Len(s)]
    BY <1>2, JoinedIs
  <2> QED
    BY <1>1, <2>1, Zenon
<1> DEFINE After(i) == f[i] = f[i - 1] \o s[i]
<1>4. After(1) /\ After(2) /\ After(3) /\ After(4) /\ After(5) /\ After(6) /\ After(7) /\ After(8) /\ After(9)
  <2>1. \A i \in 1 .. 9 : After(i)
    BY <1>3
  <2> HIDE DEF After
  <2> QED
    BY <2>1
<1>5. 1 - 1 = 0 /\ 2 - 1 = 1 /\ 3 - 1 = 2 /\ 4 - 1 = 3 /\ 5 - 1 = 4 /\ 6 - 1 = 5 /\ 7 - 1 = 6
      /\ 8 - 1 = 7 /\ 9 - 1 = 8
  OBVIOUS
<1>6. f[1] = x1
  <2>1. none \o x1 = x1
    BY <1>0, ConcatEmptySeq
  <2> HIDE DEF none
  <2>2. f[1] = f[0] \o x1
    BY <1>1, <1>4, <1>5, Zenon
  <2> QED
    BY <1>3, <2>1, <2>2, Zenon
<1>7. f[2] = x1 \o x2
  BY <1>1, <1>4, <1>5, <1>6, Zenon
<1>8. f[3] = (x1 \o x2) \o x3
  <2>1. f[3] = f[2] \o x3
    BY <1>1, <1>4, <1>5, Zenon
  <2> QED
    BY <1>7, <2>1, Zenon
<1>9. f[4] = ((x1 \o x2) \o x3) \o x4
  <2>1. f[4] = f[3] \o x4
    BY <1>1, <1>4, <1>5, Zenon
  <2> QED
    BY <1>8, <2>1, Zenon
<1>10. f[5] = (((x1 \o x2) \o x3) \o x4) \o x5
  <2>1. f[5] = f[4] \o x5
    BY <1>1, <1>4, <1>5, Zenon
  <2> QED
    BY <1>9, <2>1, Zenon
<1>11. f[6] = ((((x1 \o x2) \o x3) \o x4) \o x5) \o x6
  <2>1. f[6] = f[5] \o x6
    BY <1>1, <1>4, <1>5, Zenon
  <2> QED
    BY <1>10, <2>1, Zenon
<1>12. f[7] = (((((x1 \o x2) \o x3) \o x4) \o x5) \o x6) \o x7
  <2>1. f[7] = f[6] \o x7
    BY <1>1, <1>4, <1>5, Zenon
  <2> QED
    BY <1>11, <2>1, Zenon
<1>13. f[8] = ((((((x1 \o x2) \o x3) \o x4) \o x5) \o x6) \o x7) \o x8
  <2>1. f[8] = f[7] \o x8
    BY <1>1, <1>4, <1>5, Zenon
  <2> QED
    BY <1>12, <2>1, Zenon
<1>14. f[9] = (((((((x1 \o x2) \o x3) \o x4) \o x5) \o x6) \o x7) \o x8) \o x9
  <2>1. f[9] = f[8] \o x9
    BY <1>1, <1>4, <1>5, Zenon
  <2> QED
    BY <1>13, <2>1, Zenon
<1>15. Ca!Joined(s) = f[9]
  BY <1>3
<1>16. Ca!Joined(s) = (((((((x1 \o x2) \o x3) \o x4) \o x5) \o x6) \o x7) \o x8) \o x9
  BY <1>14, <1>15, Zenon
<1> QED
  BY <1>16, Zenon DEF s

(* Of z, a sequence over S, without its headings remains t.                *)
BareIs(z, S, t) == z \in Seq(S) /\ Bare(z) = t

LEMMA BareJoin ==
  ASSUME NEW S, NEW x, NEW t, NEW y, NEW v, BareIs(x, S, t), BareIs(y, S, v), NEW z, z = x \o y
  PROVE  BareIs(z, S, t \o v)
<1>1. x \in Seq(S) /\ y \in Seq(S) /\ Bare(x) = t /\ Bare(y) = v
  BY DEF BareIs
<1>2. x \o y \in Seq(S) /\ Bare(x \o y) = Bare(x) \o Bare(y)
  BY <1>1, ConcatProperties, BareConcat
<1> QED
  BY <1>1, <1>2, Zenon DEF BareIs

(* A heading adds nothing.                                                 *)
LEMMA BareHead ==
  ASSUME NEW S, NEW x, NEW t, NEW h, NEW none, none = <<>>, BareIs(x, S, t), BareIs(h, S, none),
         NEW z, z = x \o h
  PROVE  BareIs(z, S, t)
<1>1. t \in Seq(S)
  <2>1. x \in Seq(S) /\ Bare(x) = t
    BY DEF BareIs
  <2> QED
    BY <2>1, BareType, Zenon
<1>2. t \o none = t
  BY <1>1, ConcatEmptySeq
<1>3. BareIs(z, S, t \o none)
  BY BareJoin, Zenon
<1> QED
  BY <1>2, <1>3, Zenon

LEMMA BareNine ==
  ASSUME NEW S, NEW C, NEW E, NEW R, NEW A, NEW O, NEW c, NEW e, NEW r, NEW a, NEW last, NEW none,
         none = <<>>, BareIs(C, S, C), BareIs(E, S, E), BareIs(R, S, R), BareIs(A, S, A),
         BareIs(c, S, none), BareIs(e, S, none), BareIs(r, S, none), BareIs(a, S, none),
         BareIs(last, S, O), NEW j, j = Ca!Joined(Nine(c, C, e, E, r, R, a, A, last))
  PROVE  BareIs(j, S, (((C \o E) \o R) \o A) \o O)
<1>0. Ca!Joined(Nine(c, C, e, E, r, R, a, A, last))
        = (((((((c \o C) \o e) \o E) \o r) \o R) \o a) \o A) \o last
  <2>1. NineIn(S, c, C, e, E, r, R, a, A, last)
    BY Zenon DEF BareIs, NineIn
  <2> QED
    BY <2>1, NineJoined
<1> PICK s2, s3, s4, s5, s6, s7, s8 :
      /\ s2 = c \o C  /\ s3 = s2 \o e /\ s4 = s3 \o E /\ s5 = s4 \o r
      /\ s6 = s5 \o R /\ s7 = s6 \o a /\ s8 = s7 \o A
  OBVIOUS
<1>1. j = s8 \o last
  BY <1>0
<1>2. BareIs(s2, S, C)
  <2>1. none \o C = C
    BY ConcatEmptySeq DEF BareIs
  <2>2. BareIs(s2, S, none \o C)
    BY BareJoin, Zenon
  <2> QED
    BY <2>1, <2>2, Zenon
<1>3. BareIs(s3, S, C)
  BY <1>2, BareHead, Zenon
<1>4. BareIs(s4, S, C \o E)
  BY <1>3, BareJoin, Zenon
<1>5. BareIs(s5, S, C \o E)
  BY <1>4, BareHead, Zenon
<1>6. BareIs(s6, S, (C \o E) \o R)
  BY <1>5, BareJoin, Zenon
<1>7. BareIs(s7, S, (C \o E) \o R)
  BY <1>6, BareHead, Zenon
<1>8. BareIs(s8, S, ((C \o E) \o R) \o A)
  BY <1>7, BareJoin, Zenon
<1> QED
  BY <1>1, <1>8, BareJoin, Zenon

Last(O) == IF O = <<>> THEN <<>> ELSE <<Ca!Heading("Other")>> \o O

LEMMA BlocksAre ==
  ASSUME NEW C, NEW E, NEW R, NEW A, NEW O
  PROVE  Blocks(C, E, R, A, O) =
           Nine(<<Ca!Heading("Commands")>>, C, <<Ca!Heading("Events")>>, E,
                <<Ca!Heading("Read Models")>>, R, <<Ca!Heading("Aggregates")>>, A, Last(O))
  BY Zenon DEF Blocks, Nine, Last

LEMMA BareLast ==
  ASSUME NEW S, NEW O \in Seq(S), Texted(O), <<Ca!Heading("Other")>> \in Seq(S)
  PROVE  Last(O) \in Seq(S) /\ Bare(Last(O)) = O
<1> DEFINE none == <<>>
<1>1. Bare(O) = O
  BY BareTexts DEF Texted
<1>2. none \in Seq(S) /\ Bare(none) = none
  BY BareNone
<1>3. CASE O = <<>>
  <2>1. Last(O) = none /\ O = none
    BY <1>3 DEF Last
  <2> HIDE DEF none
  <2> QED
    BY <1>2, <2>1
<1>4. CASE O # <<>>
  <2>1. PICK x : x = <<Ca!Heading("Other")>>
    OBVIOUS
  <2>2. Last(O) = x \o O
    BY <1>4, <2>1, Zenon DEF Last
  <2>3. x \in Seq(S) /\ Bare(x) = none
    BY <2>1, BareOne
  <2>4. none \o O = O
    BY ConcatEmptySeq
  <2> HIDE DEF none
  <2>5. x \o O \in Seq(S) /\ Bare(x \o O) = Bare(x) \o Bare(O)
    BY <2>3, ConcatProperties, BareConcat
  <2> QED
    BY <1>1, <2>2, <2>3, <2>4, <2>5, Zenon
<1> QED
  BY <1>3, <1>4

BlockNames == {"Commands", "Events", "Read Models", "Aggregates", "Other"}

(* Five texts over S, of which the headings are, too.                      *)
TextsIn(S, C, E, R, A, O) ==
  /\ C \in Seq(S) /\ E \in Seq(S) /\ R \in Seq(S) /\ A \in Seq(S) /\ O \in Seq(S)
  /\ Texted(C) /\ Texted(E) /\ Texted(R) /\ Texted(A) /\ Texted(O)
  /\ \A label \in BlockNames : <<Ca!Heading(label)>> \in Seq(S)

(* Without their headings the blocks are the texts.                        *)
OnlyTexts(C, E, R, A, O) ==
  Bare(Ca!Joined(Blocks(C, E, R, A, O))) = (((C \o E) \o R) \o A) \o O

LEMMA BareBlocks ==
  ASSUME NEW S, NEW C, NEW E, NEW R, NEW A, NEW O, TextsIn(S, C, E, R, A, O)
  PROVE  OnlyTexts(C, E, R, A, O)
<1>7. /\ C \in Seq(S) /\ E \in Seq(S) /\ R \in Seq(S) /\ A \in Seq(S) /\ O \in Seq(S)
      /\ Texted(C) /\ Texted(E) /\ Texted(R) /\ Texted(A) /\ Texted(O)
  BY DEF TextsIn
<1>6. /\ <<Ca!Heading("Commands")>> \in Seq(S) /\ <<Ca!Heading("Events")>> \in Seq(S)
      /\ <<Ca!Heading("Read Models")>> \in Seq(S) /\ <<Ca!Heading("Aggregates")>> \in Seq(S)
      /\ <<Ca!Heading("Other")>> \in Seq(S)
  BY DEF BlockNames, TextsIn
<1> PICK c, e, r, a, last :
      /\ c = <<Ca!Heading("Commands")>> /\ e = <<Ca!Heading("Events")>>
      /\ r = <<Ca!Heading("Read Models")>> /\ a = <<Ca!Heading("Aggregates")>> /\ last = Last(O)
  OBVIOUS
<1> PICK none : none = <<>>
  OBVIOUS
<1>1. /\ BareIs(c, S, none) /\ BareIs(e, S, none) /\ BareIs(r, S, none) /\ BareIs(a, S, none)
  BY <1>6, BareOne DEF BareIs
<1>2. BareIs(C, S, C) /\ BareIs(E, S, E) /\ BareIs(R, S, R) /\ BareIs(A, S, A)
  BY <1>7, BareTexts DEF Texted, BareIs
<1>3. BareIs(last, S, O)
  BY <1>6, <1>7, BareLast DEF BareIs
<1>4. Blocks(C, E, R, A, O) = Nine(c, C, e, E, r, R, a, A, last)
  BY BlocksAre
<1> PICK j : j = Ca!Joined(Blocks(C, E, R, A, O))
  OBVIOUS
<1>5. BareIs(j, S, (((C \o E) \o R) \o A) \o O)
  BY <1>1, <1>2, <1>3, <1>4, BareNine, Zenon
<1> QED
  BY <1>5 DEF BareIs, OnlyTexts

(* What an event-sourced domain is split into.                             *)
KindOf(d, k) == {i \in DOMAIN d : d[i].kind = "bullet" /\ d[i].label \in Ca!Labels[k]}

OthersOf(d) == {i \in DOMAIN d : d[i].kind # "bullet" \/ d[i].label \notin Ca!Labelled}

Unlabelled(s) == [i \in DOMAIN s |-> Ca!Bullet("", s[i].text)]

OfKindOnly(d, k) == Ca!Those(d, KindOf(d, k))

Lists(s) == [i \in DOMAIN s |-> <<"", s[i].text>>]

LEMMA BulletString ==
  ASSUME NEW label, NEW text
  PROVE  Ca!String(Ca!Bullet(label, text)) = <<label, text>>
<1>1. Ca!Bullet(label, text).label = label /\ Ca!Bullet(label, text).text = text
  BY OfKind
<1> QED
  BY <1>1, Zenon DEF Ca!String

LEMMA UnlabelledText ==
  ASSUME NEW S, NEW s \in Seq(S)
  PROVE  Ca!Texts(Unlabelled(s)) = Lists(s)
<1>2. \A i \in DOMAIN s : Ca!String(Unlabelled(s)[i]) = <<"", s[i].text>>
  <2> SUFFICES ASSUME NEW i \in DOMAIN s PROVE Ca!String(Unlabelled(s)[i]) = <<"", s[i].text>>
    OBVIOUS
  <2>1. PICK x, l : x = s[i].text /\ l = Ca!Bullet("", x)
    OBVIOUS
  <2>2. Unlabelled(s)[i] = l
    BY <2>1 DEF Unlabelled
  <2>4. Ca!String(l) = <<"", x>>
    BY <2>1, BulletString, Zenon
  <2> QED
    BY <2>1, <2>2, <2>4, Zenon
<1>3. DOMAIN Unlabelled(s) = DOMAIN s
  BY DEF Unlabelled
<1> QED
  BY <1>2, <1>3 DEF Ca!Texts, Lists

(* What the Markdown export makes of an event-sourced domain.              *)
LEMMA MarkdownEntities ==
  ASSUME NEW d, d # <<>>
  PROVE  Ca!RenderEntities(d, "event-sourced") =
           Ca!Joined(Blocks(Unlabelled(OfKindOnly(d, "Commands")), Unlabelled(OfKindOnly(d, "Events")),
                            Unlabelled(OfKindOnly(d, "ReadModels")), Unlabelled(OfKindOnly(d, "Aggregates")),
                            AsBullets(Ca!Those(d, OthersOf(d)))))
  BY Zenon DEF Ca!RenderEntities, Blocks, Unlabelled, OfKindOnly, KindOf, OthersOf, AsBullets, Ca!Where

(* What the JSON export makes of it.                                       *)
LEMMA JSONEntities ==
  ASSUME NEW d
  PROVE  /\ Ca!EntitiesJSON(d, "event-sourced").commands = Lists(OfKindOnly(d, "Commands"))
         /\ Ca!EntitiesJSON(d, "event-sourced").events = Lists(OfKindOnly(d, "Events"))
         /\ Ca!EntitiesJSON(d, "event-sourced").readModels = Lists(OfKindOnly(d, "ReadModels"))
         /\ Ca!EntitiesJSON(d, "event-sourced").aggregates = Lists(OfKindOnly(d, "Aggregates"))
         /\ Ca!EntitiesJSON(d, "event-sourced").other = Ca!BulletsOf(Ca!Those(d, OthersOf(d)))
<1> DEFINE K(k) == {i \in DOMAIN d : "event-sourced" = "event-sourced" /\ d[i].kind = "bullet"
                                     /\ d[i].label \in Ca!Labels[k]}
           M == {i \in DOMAIN d : "event-sourced" = "event-sourced"
                                  /\ (d[i].kind = "bullet" => d[i].label \notin Ca!Labelled)}
<1>1. /\ Ca!EntitiesJSON(d, "event-sourced").commands = Lists(Ca!Those(d, K("Commands")))
      /\ Ca!EntitiesJSON(d, "event-sourced").events = Lists(Ca!Those(d, K("Events")))
      /\ Ca!EntitiesJSON(d, "event-sourced").readModels = Lists(Ca!Those(d, K("ReadModels")))
      /\ Ca!EntitiesJSON(d, "event-sourced").aggregates = Lists(Ca!Those(d, K("Aggregates")))
      /\ Ca!EntitiesJSON(d, "event-sourced").other = Ca!BulletsOf(Ca!Those(d, M))
  BY DEF Ca!EntitiesJSON, Ca!Where, Lists
<1>2. \A k : K(k) = KindOf(d, k)
  BY DEF KindOf
<1>3. M = OthersOf(d)
  BY DEF OthersOf
<1> HIDE DEF K, M
<1> QED
  BY <1>1, <1>2, <1>3 DEF OfKindOnly

LEMMA LabelSets ==
  /\ Ca!Labels["Commands"] = {"Command:"} /\ Ca!Labels["Events"] = {"Event:"}
  /\ Ca!Labels["ReadModels"] = {"Read model:", "Read Model:"}
  /\ Ca!Labels["Aggregates"] = {"Aggregate:"}
  /\ Ca!Labelled = {"Command:", "Event:", "Read model:", "Read Model:", "Aggregate:"}
<1>1. /\ Ca!Labels["Commands"] = {"Command:"} /\ Ca!Labels["Events"] = {"Event:"}
      /\ Ca!Labels["ReadModels"] = {"Read model:", "Read Model:"}
      /\ Ca!Labels["Aggregates"] = {"Aggregate:"}
      /\ DOMAIN Ca!Labels = {"Commands", "Events", "ReadModels", "Aggregates"}
  BY DEF Ca!Labels
<1>2. Ca!Labelled = UNION {Ca!Labels[k] : k \in {"Commands", "Events", "ReadModels", "Aggregates"}}
  BY <1>1 DEF Ca!Labelled
<1> PICK L : L = Ca!Labels
  OBVIOUS
<1>3. UNION {L[k] : k \in {"Commands", "Events", "ReadModels", "Aggregates"}}
        = ((L["Commands"] \cup L["Events"]) \cup L["ReadModels"]) \cup L["Aggregates"]
  OBVIOUS
<1>4. Ca!Labelled = ((L["Commands"] \cup L["Events"]) \cup L["ReadModels"]) \cup L["Aggregates"]
  BY <1>2, <1>3, Zenon
<1>5. Ca!Labelled = (({"Command:"} \cup {"Event:"}) \cup {"Read model:", "Read Model:"}) \cup {"Aggregate:"}
  BY <1>1, <1>4, Zenon
<1>6. (({"Command:"} \cup {"Event:"}) \cup {"Read model:", "Read Model:"}) \cup {"Aggregate:"}
        = {"Command:", "Event:", "Read model:", "Read Model:", "Aggregate:"}
  OBVIOUS
<1> QED
  BY <1>1, <1>5, <1>6, Zenon

(* The five classes of an event-sourced domain have all its places.        *)
LEMMA Partition ==
  ASSUME NEW S, NEW d \in Seq(S)
  PROVE  Cardinality(KindOf(d, "Commands")) + Cardinality(KindOf(d, "Events"))
           + Cardinality(KindOf(d, "ReadModels")) + Cardinality(KindOf(d, "Aggregates"))
           + Cardinality(OthersOf(d)) = Len(d)
<1> PICK C, E, R, A, O : /\ C = KindOf(d, "Commands") /\ E = KindOf(d, "Events")
                         /\ R = KindOf(d, "ReadModels") /\ A = KindOf(d, "Aggregates")
                         /\ O = OthersOf(d)
  OBVIOUS
<1>1. DOMAIN d = 1 .. Len(d) /\ Len(d) \in Nat
  OBVIOUS
<1> PICK D : D = 1 .. Len(d)
  OBVIOUS
<1>2. /\ C = {i \in D : d[i].kind = "bullet" /\ d[i].label = "Command:"}
      /\ E = {i \in D : d[i].kind = "bullet" /\ d[i].label = "Event:"}
      /\ R = {i \in D : d[i].kind = "bullet" /\ (d[i].label = "Read model:" \/ d[i].label = "Read Model:")}
      /\ A = {i \in D : d[i].kind = "bullet" /\ d[i].label = "Aggregate:"}
      /\ O = {i \in D : d[i].kind # "bullet"
                        \/ ~(\/ d[i].label = "Command:" \/ d[i].label = "Event:" \/ d[i].label = "Read model:"
                             \/ d[i].label = "Read Model:" \/ d[i].label = "Aggregate:")}
  BY <1>1, LabelSets DEF KindOf, OthersOf
<1>3. /\ C \in SUBSET D /\ E \in SUBSET D /\ R \in SUBSET D /\ A \in SUBSET D /\ O \in SUBSET D
      /\ D = (((C \cup E) \cup R) \cup A) \cup O
  BY <1>2
<1>4. C \cap E = {} /\ (C \cup E) \cap R = {} /\ ((C \cup E) \cup R) \cap A = {}
      /\ (((C \cup E) \cup R) \cup A) \cap O = {}
  BY <1>2
<1>5. IsFiniteSet(D) /\ Cardinality(D) = Len(d)
  BY <1>1, Numbered
<1>6. IsFiniteSet(C) /\ IsFiniteSet(E) /\ IsFiniteSet(R) /\ IsFiniteSet(A) /\ IsFiniteSet(O)
  BY <1>3, <1>5, FS_Subset
<1>7. IsFiniteSet(C \cup E) /\ Cardinality(C \cup E) = Cardinality(C) + Cardinality(E)
  BY <1>4, <1>6, DisjointUnion
<1>8. /\ IsFiniteSet((C \cup E) \cup R)
      /\ Cardinality((C \cup E) \cup R) = Cardinality(C \cup E) + Cardinality(R)
  BY <1>4, <1>6, <1>7, DisjointUnion
<1>9. /\ IsFiniteSet(((C \cup E) \cup R) \cup A)
      /\ Cardinality(((C \cup E) \cup R) \cup A) = Cardinality((C \cup E) \cup R) + Cardinality(A)
  BY <1>4, <1>6, <1>8, DisjointUnion
<1>10. Cardinality((((C \cup E) \cup R) \cup A) \cup O)
         = Cardinality(((C \cup E) \cup R) \cup A) + Cardinality(O)
  BY <1>4, <1>6, <1>9, DisjointUnion
<1> QED
  BY <1>3, <1>5, <1>7, <1>8, <1>9, <1>10, Zenon

LEMMA BulletKind == \A label, x : Ca!Bullet(label, x).kind # "heading"
  BY DEF Ca!Bullet, Ca!Line

LEMMA UnlabelledType ==
  ASSUME NEW S, NEW s \in Seq(S), NEW u, u = Unlabelled(s)
  PROVE  u \in Seq(Its(u)) /\ Len(u) = Len(s) /\ Texted(u)
<1>1. u = [i \in DOMAIN s |-> u[i]] /\ \A i \in DOMAIN s : u[i] = Ca!Bullet("", s[i].text)
  BY DEF Unlabelled
<1>2. DOMAIN s = 1 .. Len(s) /\ Ca!IsList(s)
  BY SeqIsList
<1>3. Ca!IsList(u) /\ Len(u) = Len(s)
  BY <1>1, <1>2, ListOver
<1>4. Texted(u)
  <2> SUFFICES ASSUME NEW i \in 1 .. Len(s) PROVE u[i].kind # "heading"
    BY <1>3 DEF Texted
  <2>1. u[i] = Ca!Bullet("", s[i].text)
    BY <1>1, <1>2
  <2> QED
    BY <2>1, BulletKind
<1> QED
  BY <1>3, <1>4, ListType

LEMMA AsBulletsType ==
  ASSUME NEW S, NEW s \in Seq(S), NEW u, u = AsBullets(s)
  PROVE  u \in Seq(Its(u)) /\ Len(u) = Len(s) /\ Texted(u)
<1>1. u = [i \in DOMAIN s |-> u[i]] /\ \A i \in DOMAIN s : u[i] = Ca!Bullet(s[i].label, s[i].text)
  BY DEF AsBullets
<1>2. DOMAIN s = 1 .. Len(s) /\ Ca!IsList(s)
  BY SeqIsList
<1>3. Ca!IsList(u) /\ Len(u) = Len(s)
  BY <1>1, <1>2, ListOver
<1>4. Texted(u)
  <2> SUFFICES ASSUME NEW i \in 1 .. Len(s) PROVE u[i].kind # "heading"
    BY <1>3 DEF Texted
  <2>1. u[i].kind = "bullet"
    BY <1>1, <1>2, OfKind
  <2> QED
    BY <2>1
<1> QED
  BY <1>3, <1>4, ListType

(* The concatenations of five, in a common set.                            *)
FiveIn(S, C, E, R, A, O) ==
  C \in Seq(S) /\ E \in Seq(S) /\ R \in Seq(S) /\ A \in Seq(S) /\ O \in Seq(S)

FiveLong(z, C, E, R, A, O) ==
  /\ Ca!Texts(z) = (((Ca!Texts(C) \o Ca!Texts(E)) \o Ca!Texts(R)) \o Ca!Texts(A)) \o Ca!Texts(O)
  /\ Len(z) = Len(C) + Len(E) + Len(R) + Len(A) + Len(O)

LEMMA FiveTexts ==
  ASSUME NEW S, NEW C, NEW E, NEW R, NEW A, NEW O, FiveIn(S, C, E, R, A, O)
  PROVE  FiveLong((((C \o E) \o R) \o A) \o O, C, E, R, A, O)
<1>0. C \in Seq(S) /\ E \in Seq(S) /\ R \in Seq(S) /\ A \in Seq(S) /\ O \in Seq(S)
  BY DEF FiveIn
<1>1. \A x, y \in Seq(S) : /\ x \o y \in Seq(S) /\ Len(x \o y) = Len(x) + Len(y)
                           /\ Ca!Texts(x \o y) = Ca!Texts(x) \o Ca!Texts(y)
  <2> SUFFICES ASSUME NEW x \in Seq(S), NEW y \in Seq(S)
               PROVE  /\ x \o y \in Seq(S) /\ Len(x \o y) = Len(x) + Len(y)
                      /\ Ca!Texts(x \o y) = Ca!Texts(x) \o Ca!Texts(y)
    OBVIOUS
  <2>1. x \o y \in Seq(S) /\ Len(x \o y) = Len(x) + Len(y)
    BY ConcatProperties
  <2>2. Ca!Texts(x) = Ca!BulletsOf(x) /\ Ca!Texts(y) = Ca!BulletsOf(y)
    BY BulletsType
  <2>3. Ca!Texts(x \o y) = Ca!BulletsOf(x \o y)
    BY <2>1, BulletsType
  <2>4. Ca!BulletsOf(x \o y) = Ca!BulletsOf(x) \o Ca!BulletsOf(y)
    BY BulletsConcat
  <2> QED
    BY <2>1, <2>2, <2>3, <2>4, Zenon
<1>2. PICK u : u = C \o E
  OBVIOUS
<1>3. u \in Seq(S) /\ Len(u) = Len(C) + Len(E) /\ Ca!Texts(u) = Ca!Texts(C) \o Ca!Texts(E)
  BY <1>0, <1>1, <1>2, Zenon
<1>4. PICK v : v = u \o R
  OBVIOUS
<1>5. v \in Seq(S) /\ Len(v) = Len(u) + Len(R) /\ Ca!Texts(v) = Ca!Texts(u) \o Ca!Texts(R)
  BY <1>0, <1>1, <1>3, <1>4, Zenon
<1>6. PICK w : w = v \o A
  OBVIOUS
<1>7. w \in Seq(S) /\ Len(w) = Len(v) + Len(A) /\ Ca!Texts(w) = Ca!Texts(v) \o Ca!Texts(A)
  BY <1>0, <1>1, <1>5, <1>6, Zenon
<1>8. Len(w \o O) = Len(w) + Len(O) /\ Ca!Texts(w \o O) = Ca!Texts(w) \o Ca!Texts(O)
  BY <1>0, <1>1, <1>7, Zenon
<1>9. w \o O = (((C \o E) \o R) \o A) \o O
  BY <1>2, <1>4, <1>6, Zenon
<1> QED
  BY <1>3, <1>5, <1>7, <1>8, <1>9, Zenon DEF FiveLong

LEMMA ListsNone ==
  ASSUME NEW d, d = <<>>
  PROVE  /\ \A k : OfKindOnly(d, k) = d /\ Lists(OfKindOnly(d, k)) = d
         /\ Ca!BulletsOf(Ca!Those(d, OthersOf(d))) = d
<1>1. d \in Seq({}) /\ DOMAIN d = {} /\ Len(d) = 0
  OBVIOUS
<1>2. \A k : OfKindOnly(d, k) = d
  BY <1>1, ThoseNone DEF OfKindOnly
<1>3. Ca!Those(d, OthersOf(d)) = d
  BY <1>1, ThoseNone
<1>4. Lists(d) = d
  BY DEF Lists
<1>5. Ca!BulletsOf(d) = d
  BY DEF Ca!BulletsOf
<1> QED
  BY <1>2, <1>3, <1>4, <1>5

(* An event-sourced domain: both formats have the same, and all of it.     *)
LEMMA EntitiesAgree ==
  ASSUME NEW S, NEW d \in Seq(S), NEW md, md = Ca!RenderEntities(d, "event-sourced"),
         NEW json, json = Ca!EntitiesJSON(d, "event-sourced")
  PROVE  /\ Ca!Texts(Bare(md)) = json.commands \o json.events \o json.readModels
                                 \o json.aggregates \o json.other
         /\ Len(Bare(md)) = Len(d)
<1> PICK C0, E0, R0, A0, O0 :
      /\ C0 = OfKindOnly(d, "Commands") /\ E0 = OfKindOnly(d, "Events")
      /\ R0 = OfKindOnly(d, "ReadModels") /\ A0 = OfKindOnly(d, "Aggregates")
      /\ O0 = Ca!Those(d, OthersOf(d))
  OBVIOUS
<1>1. /\ json.commands = Lists(C0) /\ json.events = Lists(E0) /\ json.readModels = Lists(R0)
      /\ json.aggregates = Lists(A0) /\ json.other = Ca!BulletsOf(O0)
  BY JSONEntities, Zenon
<1>2. CASE d = <<>>
  <2>1. md = d
    BY <1>2 DEF Ca!RenderEntities
  <2>2. Bare(md) = d
    BY <1>2, <2>1, BareNone
  <2>3. Lists(C0) = d /\ Lists(E0) = d /\ Lists(R0) = d /\ Lists(A0) = d /\ Ca!BulletsOf(O0) = d
    BY <1>2, ListsNone
  <2>4. Ca!Texts(d) = d
    BY <1>2 DEF Ca!Texts
  <2>5. d \o d = d
    BY <1>2
  <2> QED
    BY <1>1, <2>2, <2>3, <2>4, <2>5, Zenon
<1>3. CASE d # <<>>
  <2> PICK C, E, R, A, O : /\ C = Unlabelled(C0) /\ E = Unlabelled(E0) /\ R = Unlabelled(R0)
                           /\ A = Unlabelled(A0) /\ O = AsBullets(O0)
    OBVIOUS
  <2>1. md = Ca!Joined(Blocks(C, E, R, A, O))
    BY <1>3, MarkdownEntities, Zenon
  <2>2. C0 \in Seq(S) /\ E0 \in Seq(S) /\ R0 \in Seq(S) /\ A0 \in Seq(S) /\ O0 \in Seq(S)
    BY ThoseType DEF OfKindOnly
  <2>3. /\ C \in Seq(Its(C)) /\ Len(C) = Len(C0) /\ Texted(C)
        /\ E \in Seq(Its(E)) /\ Len(E) = Len(E0) /\ Texted(E)
        /\ R \in Seq(Its(R)) /\ Len(R) = Len(R0) /\ Texted(R)
        /\ A \in Seq(Its(A)) /\ Len(A) = Len(A0) /\ Texted(A)
        /\ O \in Seq(Its(O)) /\ Len(O) = Len(O0) /\ Texted(O)
    BY <2>2, UnlabelledType, AsBulletsType
  <2>4. /\ Ca!Texts(C) = Lists(C0) /\ Ca!Texts(E) = Lists(E0) /\ Ca!Texts(R) = Lists(R0)
        /\ Ca!Texts(A) = Lists(A0) /\ Ca!Texts(O) = Ca!BulletsOf(O0)
    BY <2>2, UnlabelledText, AsBulletsText
  <2>5. PICK H : H = {Ca!Heading(label) : label \in BlockNames}
    OBVIOUS
  <2>6. PICK T : T = ((((Its(C) \cup Its(E)) \cup Its(R)) \cup Its(A)) \cup Its(O)) \cup H
    OBVIOUS
  <2>7. /\ Its(C) \subseteq T /\ Its(E) \subseteq T /\ Its(R) \subseteq T /\ Its(A) \subseteq T
        /\ Its(O) \subseteq T /\ H \subseteq T
    BY <2>6
  <2>8. C \in Seq(T) /\ E \in Seq(T) /\ R \in Seq(T) /\ A \in Seq(T) /\ O \in Seq(T)
    BY <2>3, <2>7, SeqWider
  <2>9. \A label \in BlockNames : <<Ca!Heading(label)>> \in Seq(T)
    <3> SUFFICES ASSUME NEW label \in BlockNames PROVE <<Ca!Heading(label)>> \in Seq(T)
      OBVIOUS
    <3>1. PICK l : l = Ca!Heading(label)
      OBVIOUS
    <3>2. l \in H
      BY <2>5, <3>1
    <3>3. l \in T
      BY <2>7, <3>2
    <3>4. <<l>> \in Seq(T)
      BY <3>3
    <3> QED
      BY <3>1, <3>4, Zenon
  <2>10. Bare(md) = (((C \o E) \o R) \o A) \o O
    <3>2. TextsIn(T, C, E, R, A, O)
      BY <2>3, <2>8, <2>9, Zenon DEF TextsIn
    <3>1. OnlyTexts(C, E, R, A, O)
      BY <3>2, BareBlocks, Zenon
    <3> QED
      BY <2>1, <3>1, Zenon DEF OnlyTexts
  <2>11. /\ Ca!Texts(Bare(md))
              = (((Ca!Texts(C) \o Ca!Texts(E)) \o Ca!Texts(R)) \o Ca!Texts(A)) \o Ca!Texts(O)
         /\ Len(Bare(md)) = Len(C) + Len(E) + Len(R) + Len(A) + Len(O)
    <3>1. FiveIn(T, C, E, R, A, O)
      BY <2>8, Zenon DEF FiveIn
    <3>2. FiveLong((((C \o E) \o R) \o A) \o O, C, E, R, A, O)
      BY <3>1, FiveTexts, Zenon
    <3>3. FiveLong(Bare(md), C, E, R, A, O)
      BY <2>10, <3>2, Zenon
    <3> QED
      BY <3>3, Zenon DEF FiveLong
  <2>12. /\ Len(C0) = Cardinality(KindOf(d, "Commands")) /\ Len(E0) = Cardinality(KindOf(d, "Events"))
         /\ Len(R0) = Cardinality(KindOf(d, "ReadModels"))
         /\ Len(A0) = Cardinality(KindOf(d, "Aggregates")) /\ Len(O0) = Cardinality(OthersOf(d))
    <3>1. (\A k : KindOf(d, k) \in SUBSET DOMAIN d) /\ OthersOf(d) \in SUBSET DOMAIN d
      BY DEF KindOf, OthersOf
    <3> QED
      BY <3>1, ThoseLen DEF OfKindOnly
  <2>13. Len(Bare(md)) = Len(d)
    BY <2>3, <2>11, <2>12, Partition, Zenon
  <2> QED
    BY <1>1, <2>4, <2>11, <2>13, Zenon
<1> QED
  BY <1>2, <1>3

(* The longer operators are looked for first.                              *)
LEMMA OperatorLengths ==
  /\ DOMAIN Ca!Operators = 1 .. 6
  /\ \A k \in 1 .. 6 : Len(Ca!Operators[k]) = IF k <= 3 THEN 2 ELSE 1
<1>1. DOMAIN Ca!Operators = 1 .. 6
  BY DEF Ca!Operators
<1>2. /\ Len(Ca!Operators[1]) = 2 /\ Len(Ca!Operators[2]) = 2 /\ Len(Ca!Operators[3]) = 2
      /\ Len(Ca!Operators[4]) = 1 /\ Len(Ca!Operators[5]) = 1 /\ Len(Ca!Operators[6]) = 1
  BY DEF Ca!Operators
<1> DEFINE size(k) == Len(Ca!Operators[k]) = IF k <= 3 THEN 2 ELSE 1
<1>3. size(1) /\ size(2) /\ size(3) /\ size(4) /\ size(5) /\ size(6)
  BY <1>2
<1> HIDE DEF size
<1>4. \A k \in 1 .. 6 : size(k)
  BY <1>3
<1> QED
  BY <1>1, <1>4 DEF size

(* No operator is taken where a longer one is meant.                       *)
LEMMA LongestTaken ==
  ASSUME NEW text, NEW k \in 1 .. 6, Ca!StartsWith(text, Ca!Operators[k])
  PROVE  Len(Ca!Operators[k]) <= Len(Ca!SplitOperator(text).operator)
<1> PICK found : found = {i \in DOMAIN Ca!Operators : Ca!StartsWith(text, Ca!Operators[i])}
  OBVIOUS
<1>1. k \in found /\ found \in SUBSET (1 .. 6)
  BY OperatorLengths
<1>2. found \in SUBSET Nat /\ found # {}
  BY <1>1
<1> PICK m : m = Ca!Smallest(found)
  OBVIOUS
<1>3. m \in found /\ \A j \in found : m <= j
  BY <1>2, SmallestIs
<1>4. Ca!SplitOperator(text).operator = Ca!Operators[m]
  BY <1>2 DEF Ca!SplitOperator
<1>5. m \in 1 .. 6 /\ m <= k
  BY <1>1, <1>3
<1>6. /\ Len(Ca!Operators[m]) = IF m <= 3 THEN 2 ELSE 1
      /\ Len(Ca!Operators[k]) = IF k <= 3 THEN 2 ELSE 1
  BY <1>5, OperatorLengths
<1> QED
  BY <1>4, <1>5, <1>6

(* What is rendered, and what becomes of it under edits, is lines.         *)
CanvasInv ==
  /\ Ca!AreLines(body) /\ source \in Inputs /\ edits \in Nat
  /\ edits = 0 => body = Ca!RenderRivalContract(source)

(* Every step keeps the body a text of lines.                              *)
LEMMA CanvasPreserved ==
  ASSUME CanvasInv, Ca!Next \/ UNCHANGED canvasVars
  PROVE  CanvasInv'
<1>1. Ca!CanvasAssumption
  BY ServicesAssumption
<1>2. body \in Seq(Its(body)) /\ Len(body) \in Nat /\ DOMAIN body = 1 .. Len(body)
  BY LinesType DEF CanvasInv
<1>3. \A m \in Nat, n \in Int : m >= 1 /\ n <= Len(body) => Ca!AreLines(SubSeq(body, m, n))
  BY PartLines DEF CanvasInv
<1>4. CASE UNCHANGED canvasVars
  BY <1>4 DEF CanvasInv, canvasVars
<1>5. ASSUME NEW i \in 0 .. Len(body), NEW l \in EditLines, Ca!Inserted(i, l) PROVE CanvasInv'
  <2>1. Ca!IsLine(l)
    BY <1>1 DEF Ca!CanvasAssumption
  <2>2. Ca!AreLines(<<l>>)
    BY <2>1, OneLine
  <2>3. 1 \in Nat /\ i \in Int /\ i <= Len(body) /\ i + 1 \in Nat /\ i + 1 >= 1 /\ Len(body) \in Int
    BY <1>2
  <2>4. Ca!AreLines(SubSeq(body, 1, i)) /\ Ca!AreLines(SubSeq(body, i + 1, Len(body)))
    BY <1>3, <2>3
  <2>5. Ca!AreLines(SubSeq(body, 1, i) \o <<l>> \o SubSeq(body, i + 1, Len(body)))
    BY <2>2, <2>4, ConcatLines
  <2>6. body' = SubSeq(body, 1, i) \o <<l>> \o SubSeq(body, i + 1, Len(body))
    BY <1>5, Zenon DEF Ca!Inserted
  <2>7. edits' = edits + 1 /\ source' = source
    BY <1>5, Zenon DEF Ca!Inserted
  <2>8. Ca!AreLines(body)'
    BY <2>5, <2>6, Zenon DEF Ca!AreLines, Ca!IsList, Ca!IsLine
  <2>9. edits' \in Nat /\ edits' # 0
    BY <2>7 DEF CanvasInv
  <2> QED
    BY <2>7, <2>8, <2>9 DEF CanvasInv
<1>6. ASSUME NEW i \in DOMAIN body, Ca!Removed(i) PROVE CanvasInv'
  <2>3. 1 \in Nat /\ i - 1 \in Int /\ i - 1 <= Len(body) /\ i + 1 \in Nat /\ i + 1 >= 1 /\ Len(body) \in Int
    BY <1>2
  <2>4. Ca!AreLines(SubSeq(body, 1, i - 1)) /\ Ca!AreLines(SubSeq(body, i + 1, Len(body)))
    BY <1>3, <2>3
  <2>5. Ca!AreLines(SubSeq(body, 1, i - 1) \o SubSeq(body, i + 1, Len(body)))
    BY <2>4, ConcatLines
  <2>6. body' = SubSeq(body, 1, i - 1) \o SubSeq(body, i + 1, Len(body))
    BY <1>6, Zenon DEF Ca!Removed
  <2>7. edits' = edits + 1 /\ source' = source
    BY <1>6, Zenon DEF Ca!Removed
  <2>8. Ca!AreLines(body)'
    BY <2>5, <2>6, Zenon DEF Ca!AreLines, Ca!IsList, Ca!IsLine
  <2>9. edits' \in Nat /\ edits' # 0
    BY <2>7 DEF CanvasInv
  <2> QED
    BY <2>7, <2>8, <2>9 DEF CanvasInv
<1> QED
  BY <1>4, <1>5, <1>6 DEF Ca!Next

(* A contract nobody edited is read back as it was rendered.               *)
LEMMA ContractReadBack ==
  ASSUME CanvasInv
  PROVE  Ca!RoundTrips
<1> SUFFICES ASSUME edits = 0, Ca!Plain(source)
             PROVE  /\ Ca!ParseRivalContractBody(body)
                    /\ \A name \in Ca!Sections :
                         Ca!SplitRivalSections(body, name) = Ca!RenderedSection(source, name)
  BY Zenon DEF Ca!RoundTrips
<1>1. Ca!CanvasAssumption
  BY ServicesAssumption
<1>2. source \in Inputs /\ body = Ca!RenderRivalContract(source)
  BY DEF CanvasInv
<1> QED
  BY <1>1, <1>2, ReadBackSections, Zenon

(* An edited contract with each heading once that parses keeps its lines.  *)
LEMMA EveryLineKept ==
  ASSUME CanvasInv
  PROVE  Ca!NoLineIsLost
<1> DEFINE heads == {i \in DOMAIN body : body[i].kind = "heading"}
           w == SubSeq(body, Ca!Smallest(heads), Len(body))
           all == Ca!Joined([i \in DOMAIN Ca!Headings |-> Ca!SplitRivalSections(body, Ca!Headings[i])])
<1>1. body \in Seq(Its(body))
  BY LinesType DEF CanvasInv
<1>2. all = Ca!Joined(SectionsOf(body))
  BY SectionNames, Zenon DEF SectionsOf
<1>3. ASSUME Ca!ParseRivalContractBody(body), Cardinality(heads) = Cardinality(Ca!Sections),
             NEW l \in {body[i] : i \in DOMAIN body}
      PROVE  Ca!Count(all, l) = Ca!Count(Ca!Those(w, TextPlaces(w)), l)
  <2> PICK h, v : h = heads /\ v = w
    OBVIOUS
  <2>1. Number(Ca!Joined(SectionsOf(body)), {l}) = Number(Ca!Those(v, TextPlaces(v)), {l})
    <3> HIDE DEF all
    <3>1. h = {i \in DOMAIN body : body[i].kind = "heading"} /\ v = SubSeq(body, Ca!Smallest(h), Len(body))
      OBVIOUS
    <3>2. Cardinality(h) = Cardinality(Ca!Sections)
      BY <1>3
    <3> HIDE DEF heads, w
    <3> QED
      BY <1>1, <1>3, <3>1, <3>2, NothingLost
  <2> HIDE DEF heads, w, all
  <2> QED
    BY <1>2, <2>1, CountNumber, Zenon
<1>4. SUFFICES ASSUME Ca!ParseRivalContractBody(body), Cardinality(heads) = Cardinality(Ca!Sections),
                      NEW l \in {body[i] : i \in DOMAIN body}
               PROVE  Ca!Count(all, l) = Ca!Count(Ca!Those(w, {i \in DOMAIN w : w[i].kind # "heading"}), l)
  BY CanvasCardinality, Zenon DEF Ca!NoLineIsLost, Ca!Where
<1> QED
  BY <1>3, <1>4, Zenon DEF TextPlaces

(* Every section of a contract that parses is lines without a heading.     *)
LEMMA SectionLines ==
  ASSUME NEW b, Ca!AreLines(b), Ca!ParseRivalContractBody(b), NEW name \in Ca!Sections,
         NEW r, r = Ca!SplitRivalSections(b, name)
  PROVE  r \in Seq(Its(b)) /\ Ca!AreLines(r) /\ Texted(r)
<1>1. b \in Seq(Its(b)) /\ \A i \in 1 .. Len(b) : Ca!IsLine(b[i])
  BY LinesType
<1>2. Ca!At(b, name) # {}
  BY DEF Ca!ParseRivalContractBody
<1>3. PICK p, q : IsSection(b, name, p, q)
  BY <1>1, <1>2, SectionExists
<1>4. /\ r \in Seq(Its(b)) /\ Len(r) = q - p
      /\ \A j \in 1 .. q - p : p + j \in 1 .. Len(b) /\ r[j] = b[p + j] /\ r[j].kind # "heading"
  BY <1>1, <1>3, SectionRead
<1>5. \A j \in 1 .. Len(r) : Ca!IsLine(r[j])
  <2> SUFFICES ASSUME NEW j \in 1 .. Len(r) PROVE Ca!IsLine(r[j])
    OBVIOUS
  <2>1. PICK n : n = p + j
    OBVIOUS
  <2>2. n \in 1 .. Len(b) /\ r[j] = b[n]
    BY <1>4, <2>1
  <2> QED
    BY <1>1, <2>2, Zenon
<1>6. Ca!AreLines(r)
  BY <1>4, <1>5, SeqOfLines
<1>7. Texted(r)
  BY <1>4 DEF Texted
<1> QED
  BY <1>4, <1>6, <1>7

(* The formats, by their parts.                                            *)
LEMMA MarkdownParts ==
  ASSUME NEW b, NEW style, NEW md, md = Ca!RenderRivalCanvas("markdown", b, style)
  PROVE  /\ md.Norms = Ca!SplitBoundaries(Ca!SplitRivalSections(b, "Boundaries")).norms
         /\ md.Safeguards = Ca!SplitBoundaries(Ca!SplitRivalSections(b, "Boundaries")).safeguards
         /\ md.Requirements = Ca!SplitRivalSections(b, "Intent")
         /\ md.Validation = Ca!SplitRivalSections(b, "Evidence")
         /\ md.Entities = Ca!RenderEntities(Ca!SplitRivalSections(b, "Domain"), style)
  BY DEF Ca!RenderRivalCanvas, Ca!ExportToReasonsCanvas

LEMMA JSONParts ==
  ASSUME NEW b, NEW style, NEW json, json = Ca!RenderRivalCanvas("json", b, style)
  PROVE  /\ json.norms = Ca!SplitBoundariesLists(Ca!SplitRivalSections(b, "Boundaries")).norms
         /\ json.safeguards = Ca!SplitBoundariesLists(Ca!SplitRivalSections(b, "Boundaries")).safeguards
         /\ json.requirements = Ca!BulletsOf(Ca!SplitRivalSections(b, "Intent"))
         /\ json.validation = Ca!BulletsOf(Ca!SplitRivalSections(b, "Evidence"))
         /\ json.entities = Ca!EntitiesJSON(Ca!SplitRivalSections(b, "Domain"), style)
  BY DEF Ca!RenderRivalCanvas, Ca!ExportToReasonsCanvasJSON

(* The Markdown and the JSON export have the same of every contract.       *)
LEMMA ExportsAgree ==
  ASSUME CanvasInv
  PROVE  Ca!FormatsAgree
<1> PICK md, json, domain, bounds, intent, evidence :
      /\ md = Ca!RenderRivalCanvas("markdown", body, source.style)
      /\ json = Ca!RenderRivalCanvas("json", body, source.style)
      /\ domain = Ca!SplitRivalSections(body, "Domain")
      /\ bounds = Ca!SplitRivalSections(body, "Boundaries")
      /\ intent = Ca!SplitRivalSections(body, "Intent")
      /\ evidence = Ca!SplitRivalSections(body, "Evidence")
  OBVIOUS
<1>1. CASE ~Ca!ParseRivalContractBody(body)
  BY <1>1, Zenon DEF Ca!FormatsAgree
<1>2. CASE Ca!ParseRivalContractBody(body)
  <2>1. /\ "Intent" \in Ca!Sections /\ "Domain" \in Ca!Sections
        /\ "Boundaries" \in Ca!Sections /\ "Evidence" \in Ca!Sections
    BY SectionNames
  <2>2. Ca!AreLines(body)
    BY DEF CanvasInv
  <2>3. /\ domain \in Seq(Its(body)) /\ bounds \in Seq(Its(body)) /\ Ca!AreLines(bounds) /\ Texted(bounds)
        /\ intent \in Seq(Its(body)) /\ evidence \in Seq(Its(body))
    BY <1>2, <2>1, <2>2, SectionLines
  <2>4. \A i \in 1 .. Len(bounds) : bounds[i].kind # "heading"
    BY <2>3, Zenon DEF Texted
  <2> DEFINE norms == Ca!SplitBoundariesLists(bounds).norms
             safeguards == Ca!SplitBoundariesLists(bounds).safeguards
  <2>5. /\ Ca!Texts(Ca!SplitBoundaries(bounds).norms) = norms
        /\ Ca!Texts(Ca!SplitBoundaries(bounds).safeguards) = safeguards
        /\ \A x : Ca!Count(Ca!Texts(bounds), x) = Ca!Count(norms, x) + Ca!Count(safeguards, x)
    BY <2>3, <2>4, BoundariesAgree, Zenon
  <2>6. /\ md.Norms = Ca!SplitBoundaries(bounds).norms
        /\ md.Safeguards = Ca!SplitBoundaries(bounds).safeguards
        /\ md.Requirements = intent /\ md.Validation = evidence
        /\ md.Entities = Ca!RenderEntities(domain, source.style)
    <3>1. /\ md.Norms = Ca!SplitBoundaries(Ca!SplitRivalSections(body, "Boundaries")).norms
          /\ md.Safeguards = Ca!SplitBoundaries(Ca!SplitRivalSections(body, "Boundaries")).safeguards
          /\ md.Requirements = Ca!SplitRivalSections(body, "Intent")
          /\ md.Validation = Ca!SplitRivalSections(body, "Evidence")
          /\ md.Entities = Ca!RenderEntities(Ca!SplitRivalSections(body, "Domain"), source.style)
      BY MarkdownParts
    <3> QED
      BY <3>1, Zenon
  <2>7. /\ json.norms = norms /\ json.safeguards = safeguards
        /\ json.requirements = Ca!BulletsOf(intent) /\ json.validation = Ca!BulletsOf(evidence)
        /\ json.entities = Ca!EntitiesJSON(domain, source.style)
    <3>1. /\ json.norms = Ca!SplitBoundariesLists(Ca!SplitRivalSections(body, "Boundaries")).norms
          /\ json.safeguards = Ca!SplitBoundariesLists(Ca!SplitRivalSections(body, "Boundaries")).safeguards
          /\ json.requirements = Ca!BulletsOf(Ca!SplitRivalSections(body, "Intent"))
          /\ json.validation = Ca!BulletsOf(Ca!SplitRivalSections(body, "Evidence"))
          /\ json.entities = Ca!EntitiesJSON(Ca!SplitRivalSections(body, "Domain"), source.style)
      BY JSONParts
    <3> QED
      BY <3>1, Zenon
  <2>8. Ca!Texts(intent) = Ca!BulletsOf(intent) /\ Ca!Texts(evidence) = Ca!BulletsOf(evidence)
    BY <2>3, BulletsType, Zenon
  <2> HIDE DEF norms, safeguards
  <2>9. ASSUME source.style = "event-sourced"
        PROVE  /\ Ca!Texts(Bare(md.Entities))
                  = json.entities.commands \o json.entities.events \o json.entities.readModels
                    \o json.entities.aggregates \o json.entities.other
               /\ Len(Bare(md.Entities)) = Len(domain)
    <3> PICK m, j : m = md.Entities /\ j = json.entities
      OBVIOUS
    <3>1. m = Ca!RenderEntities(domain, "event-sourced") /\ j = Ca!EntitiesJSON(domain, "event-sourced")
      BY <2>6, <2>7, <2>9, Zenon
    <3>2. /\ Ca!Texts(Bare(m)) = j.commands \o j.events \o j.readModels \o j.aggregates \o j.other
          /\ Len(Bare(m)) = Len(domain)
      BY <2>3, <3>1, EntitiesAgree, Zenon
    <3> QED
      BY <3>2, Zenon
  <2>10. /\ Ca!Texts(md.Norms) = json.norms /\ Ca!Texts(md.Safeguards) = json.safeguards
         /\ Ca!Texts(md.Requirements) = json.requirements /\ Ca!Texts(md.Validation) = json.validation
    BY <2>5, <2>6, <2>7, <2>8, Zenon
  <2>11. \A x : Ca!Count(Ca!Texts(bounds), x) = Ca!Count(json.norms, x) + Ca!Count(json.safeguards, x)
    BY <2>5, <2>7, Zenon
  <2> QED
    BY <2>9, <2>10, <2>11, Zenon DEF Ca!FormatsAgree, Ca!Where, Bare, TextPlaces
<1> QED
  BY <1>1, <1>2

(* Every constraint is split at the operator that is written in it.        *)
LEMMA WholeOperators == Ca!OperatorsAreWhole
<1> SUFFICES ASSUME NEW i \in DOMAIN body, NEW k \in DOMAIN Ca!Operators,
                    Ca!StartsWith(body[i].text, Ca!Operators[k])
             PROVE  Len(Ca!Operators[k]) <= Len(Ca!SplitOperator(body[i].text).operator)
  BY Zenon DEF Ca!OperatorsAreWhole
<1>1. k \in 1 .. 6
  BY OperatorLengths
<1> QED
  BY <1>1, LongestTaken, Zenon

(* The inductive invariant has what the property says.                     *)
LEMMA CanvasKept ==
  ASSUME CanvasInv
  PROVE  Ca!CanvasKeepsContract
  BY ContractReadBack, EveryLineKept, ExportsAgree, WholeOperators DEF Ca!CanvasKeepsContract

(* A contract without edits is read back as it was rendered; of an edited  *)
(* one that parses no line below the first heading is lost when each       *)
(* heading is there once, and both exports say the same: of all waves and  *)
(* all lines editors put in.                                               *)
THEOREM CanvasKeepsContractHolds == PartSpec => []CanvasKeepsContract
<1>1. PartInit => CanvasInv
  <2> SUFFICES ASSUME Ca!Init PROVE CanvasInv
    BY DEF PartInit
  <2>1. source \in Inputs /\ body = Ca!RenderRivalContract(source) /\ edits = 0
    BY DEF Ca!Init
  <2>2. Ca!CanvasAssumption
    BY ServicesAssumption
  <2>3. Ca!AreLines(body)
    BY <2>1, <2>2, RenderedType, Zenon
  <2> QED
    BY <2>1, <2>3 DEF CanvasInv
<1>2. CanvasInv /\ [PartNext]_partVars => CanvasInv'
  BY OtherParts, CanvasPreserved
<1>3. CanvasInv => CanvasKeepsContract
  BY CanvasKept DEF CanvasKeepsContract
<1> QED
  BY <1>1, <1>2, <1>3, PTL DEF PartSpec
=============================================================================
