---------------------------- MODULE WavesProofs ----------------------------
(***************************************************************************)
(* Proofs about the session's waves.  First what the functions of          *)
(* WavePolicy, and those of Waves that are built from them, return; then   *)
(* the invariants: completed work stays, what is offered is justified, a   *)
(* resumed session has the waves it had and is not stuck, and              *)
(* specifications go out once.                                             *)
(***************************************************************************)
EXTENDS Waves, Counting

(* Keys tell waves apart as their clusters and ids do.                     *)
LEMMA SameKey ==
  \A v, w : Key(v) = Key(w) <=> v.cluster = w.cluster /\ v.id = w.id
BY DEF Key

(* The n-th index is one of I, and each of I has its place.                *)
Picks(s, I, f) ==
  /\ \A n \in DOMAIN Kept(s, I) : Kept(s, I)[n] = s[f[n]]
  /\ \A m, n \in DOMAIN Kept(s, I) : f[m] = f[n] => m = n
  /\ \A i \in I : \E n \in DOMAIN Kept(s, I) : f[n] = i

LEMMA KeptIs ==
  ASSUME NEW S, NEW s \in Seq(S), NEW I \in SUBSET (DOMAIN s)
  PROVE  /\ Kept(s, I) \in Seq(S)
         /\ \E f \in [DOMAIN Kept(s, I) -> I] : Picks(s, I, f)
<1>1. Len(s) \in Nat /\ DOMAIN s = 1 .. Len(s) /\ \A i \in DOMAIN s : s[i] \in S
  BY DomainOf
<1>2. IsFiniteSet(I)
  BY DomainOf, FS_Subset
<1> DEFINE N == Cardinality(I)
           r == [i \in I |-> {j \in I : j <= i}]
           rank == [i \in I |-> Cardinality(r[i])]
           f == [n \in 1 .. N |-> CHOOSE i \in I : Cardinality({j \in I : j <= i}) = n]
<1>3. N \in Nat
  BY <1>2, FS_CardinalityType
<1>4. /\ \A i \in I : Cardinality(r[i]) \in 1 .. N
      /\ \A i, j \in I : Cardinality(r[i]) = Cardinality(r[j]) => i = j
      /\ \A n \in 1 .. N : \E i \in I : Cardinality(r[i]) = n
  <2>1. r \in [I -> SUBSET I] /\ \A i \in I : i \in r[i]
    BY <1>1
  <2>2. \A i, j \in I : r[i] \subseteq r[j] \/ r[j] \subseteq r[i]
    BY <1>1
  <2>3. \A i, j \in I : r[i] = r[j] => i = j
    BY <1>1
  <2> HIDE DEF r
  <2> QED
    BY <1>2, <2>1, <2>2, <2>3, EveryRank
<1>5. \A n \in 1 .. N : \E i \in I : Cardinality({j \in I : j <= i}) = n
  BY <1>4
<1>6. \A n \in 1 .. N : f[n] \in I /\ Cardinality({j \in I : j <= f[n]}) = n
  BY <1>5
<1>7. \A i \in I : rank[i] \in 1 .. N
  BY <1>4
<1>8. \A i, j \in I : rank[i] = rank[j] => i = j
  BY <1>4
<1>9. \A i \in I : f[rank[i]] = i
  <2> SUFFICES ASSUME NEW i \in I PROVE f[rank[i]] = i
    OBVIOUS
  <2>1. rank[i] \in 1 .. N
    BY <1>7
  <2>2. f[rank[i]] \in I /\ Cardinality({j \in I : j <= f[rank[i]]}) = rank[i]
    <3> HIDE DEF f, rank
    <3> QED
      BY <1>6, <2>1
  <2>3. rank[f[rank[i]]] = rank[i]
    <3> HIDE DEF f
    <3> QED
      BY <2>2
  <2> HIDE DEF rank, f
  <2> QED
    BY <1>8, <2>2, <2>3
<1>10. Kept(s, I) = [n \in 1 .. N |-> s[f[n]]]
  BY DEF Kept, Nth
<1>11. Kept(s, I) \in Seq(S)
  <2>1. [n \in 1 .. N |-> s[f[n]]] \in [1 .. N -> S]
    BY <1>1, <1>6
  <2> HIDE DEF f
  <2> QED
    BY <1>3, <1>10, <2>1, SeqDef
<1>12. DOMAIN Kept(s, I) = 1 .. N /\ \A n \in 1 .. N : Kept(s, I)[n] = s[f[n]]
  <2> HIDE DEF f
  <2> QED
    BY <1>10
<1> DEFINE K == Kept(s, I)
<1>13. f \in [1 .. N -> I] /\ \A m, n \in 1 .. N : f[m] = f[n] => m = n
  BY <1>6
<1>14. \A i \in I : \E n \in 1 .. N : f[n] = i
  BY <1>7, <1>9
<1>15. DOMAIN K = 1 .. N
  BY <1>12
<1>16. f \in [DOMAIN K -> I]
  BY <1>13, <1>15, Zenon
<1>17. /\ \A n \in DOMAIN K : K[n] = s[f[n]]
       /\ \A m, n \in DOMAIN K : f[m] = f[n] => m = n
       /\ \A i \in I : \E n \in DOMAIN K : f[n] = i
  BY <1>12, <1>13, <1>14, <1>15, Zenon
<1>18. Picks(s, I, f)
  <2> HIDE DEF f, N
  <2> QED
    BY <1>17 DEF Picks
<1> HIDE DEF f, N
<1> QED
  BY <1>11, <1>16, <1>18, Zenon
---------------------------------------------------------------------------
(* Lists that are changed wave by wave.                                    *)
LEMMA FiniteKeys == IsFiniteSet(Keys)
BY BoundsAreNat, FS_Product DEF Keys

LEMMA FullKeys ==
  ASSUME NEW p \in Prerequisites, NEW c \in Clusters
  PROVE  Normalize(p, c) \in Keys
BY DEF Prerequisites, Normalize, Keys

LEMMA Complexities == \A w \in Wave : Complexity(w) \in Nat
<1> SUFFICES ASSUME NEW w \in Wave PROVE Complexity(w) \in Nat
  OBVIOUS
<1>1. w.prereqs \subseteq Keys /\ w.actions \in Seq(Actions)
  BY DEF Wave
<1>2. Cardinality(w.prereqs) \in Nat
  BY <1>1, FiniteKeys, FS_Subset, FS_CardinalityType
<1>3. Len(w.actions) \in Nat
  BY <1>1, LenProperties
<1> QED
  BY <1>2, <1>3 DEF Complexity

LEMMA NewPrereqs ==
  ASSUME NEW w \in Design \cup Wave, NEW ps \in SUBSET Keys
  PROVE  LET v == [w EXCEPT !.prereqs = ps]
         IN  /\ v \in Wave /\ v.cluster = w.cluster /\ v.id = w.id
             /\ v.status = w.status /\ v.prereqs = ps /\ Key(v) = Key(w)
BY DEF Design, Wave, Statuses, Key

(* Prerequisites become full keys, and nothing else changes.               *)
LEMMA CleanedIs ==
  ASSUME NEW ws \in Seq(Design)
  PROVE  LET cleaned == RemoveSelfReferences(NormalizeWavePrerequisites(ws))
         IN  /\ cleaned \in Seq(Wave) /\ DOMAIN cleaned = DOMAIN ws
             /\ \A i \in DOMAIN ws :
                  /\ Key(cleaned[i]) = Key(ws[i])
                  /\ cleaned[i].status = ws[i].status
                  /\ ws[i].prereqs = {} => cleaned[i].prereqs = {}
<1> DEFINE full == NormalizeWavePrerequisites(ws)
           cleaned == RemoveSelfReferences(full)
<1>1. Len(ws) \in Nat /\ DOMAIN ws = 1 .. Len(ws) /\ \A i \in DOMAIN ws : ws[i] \in Design
  BY DomainOf
<1>2. DOMAIN full = DOMAIN ws /\ \A i \in DOMAIN ws :
        full[i] = [ws[i] EXCEPT !.prereqs = {Normalize(p, ws[i].cluster) : p \in ws[i].prereqs}]
  BY DEF NormalizeWavePrerequisites, Change
<1>3. \A i \in DOMAIN ws : /\ full[i] \in Wave /\ Key(full[i]) = Key(ws[i])
                           /\ full[i].status = ws[i].status
                           /\ ws[i].prereqs = {} => full[i].prereqs = {}
  <2> SUFFICES ASSUME NEW i \in DOMAIN ws
               PROVE  /\ full[i] \in Wave /\ Key(full[i]) = Key(ws[i])
                      /\ full[i].status = ws[i].status
                      /\ ws[i].prereqs = {} => full[i].prereqs = {}
    OBVIOUS
  <2> DEFINE ps == {Normalize(p, ws[i].cluster) : p \in ws[i].prereqs}
  <2>1. ws[i] \in Design
    BY <1>1
  <2>2. ws[i].cluster \in Clusters /\ ws[i].prereqs \subseteq Prerequisites
    BY <2>1 DEF Design
  <2>3. ps \subseteq Keys
    BY <2>2, FullKeys
  <2>4. ws[i].prereqs = {} => ps = {}
    OBVIOUS
  <2>5. full[i] = [ws[i] EXCEPT !.prereqs = ps]
    BY <1>2
  <2> HIDE DEF ps, full
  <2> QED
    BY <2>1, <2>3, <2>4, <2>5, NewPrereqs
<1>4. DOMAIN cleaned = DOMAIN ws /\ \A i \in DOMAIN ws :
        cleaned[i] = [full[i] EXCEPT !.prereqs = full[i].prereqs \ {Key(full[i])}]
  BY <1>2 DEF RemoveSelfReferences, Change
<1> HIDE DEF full
<1>5. \A i \in DOMAIN ws : /\ cleaned[i] \in Wave /\ Key(cleaned[i]) = Key(full[i])
                           /\ cleaned[i].status = full[i].status
                           /\ full[i].prereqs = {} => cleaned[i].prereqs = {}
  <2> HIDE DEF cleaned
  <2> SUFFICES ASSUME NEW i \in DOMAIN ws
               PROVE  /\ cleaned[i] \in Wave /\ Key(cleaned[i]) = Key(full[i])
                      /\ cleaned[i].status = full[i].status
                      /\ full[i].prereqs = {} => cleaned[i].prereqs = {}
    OBVIOUS
  <2> DEFINE ps == full[i].prereqs \ {Key(full[i])}
  <2>1. full[i] \in Wave /\ full[i].prereqs \subseteq Keys
    BY <1>3 DEF Wave
  <2>2. ps \subseteq Keys /\ (full[i].prereqs = {} => ps = {})
    BY <2>1
  <2>3. cleaned[i] = [full[i] EXCEPT !.prereqs = ps]
    BY <1>4
  <2> DEFINE v == [full[i] EXCEPT !.prereqs = ps]
  <2> HIDE DEF ps
  <2>4. v \in Wave /\ Key(v) = Key(full[i]) /\ v.status = full[i].status /\ v.prereqs = ps
    BY <2>1, <2>2, NewPrereqs
  <2> HIDE DEF v
  <2> QED
    BY <2>2, <2>3, <2>4 DEF v
<1>6. cleaned \in Seq(Wave)
  <2>1. cleaned = [i \in 1 .. Len(ws) |-> cleaned[i]]
    BY <1>1, <1>2 DEF RemoveSelfReferences, Change
  <2> HIDE DEF cleaned
  <2> QED
    BY <1>1, <1>5, <2>1, SeqDef
<1> QED
  BY <1>3, <1>4, <1>5, <1>6 DEF full

(* Waves that differ in their score at most.                               *)
Alike(v, w) ==
  /\ Key(v) = Key(w) /\ v.status = w.status
  /\ v.prereqs = w.prereqs /\ v.actions = w.actions

(* Sorting permutes.                                                       *)
LEMMA SortedIs ==
  ASSUME NEW ws \in Seq(Wave)
  PROVE  LET sorted == SortWavesByComplexity(ws)
         IN  /\ sorted \in Seq(Wave) /\ DOMAIN sorted = DOMAIN ws
             /\ \E f \in [DOMAIN ws -> DOMAIN ws] :
                  /\ \A m, n \in DOMAIN ws : f[m] = f[n] => m = n
                  /\ \A n \in DOMAIN ws : Alike(sorted[n], ws[f[n]])
<1> DEFINE D == DOMAIN ws
           weight == [i \in D |-> Complexity(ws[i])]
           r == [i \in D |-> {j \in D : weight[j] < weight[i] \/ (weight[j] = weight[i] /\ j <= i)}]
           sorted == SortWavesByComplexity(ws)
           lighter(i) == {j \in DOMAIN ws :
                           \/ Complexity(ws[j]) < Complexity(ws[i])
                           \/ Complexity(ws[j]) = Complexity(ws[i]) /\ j <= i}
           f == [n \in D |-> CHOOSE i \in DOMAIN ws : Cardinality(lighter(i)) = n]
<1>1. /\ Len(ws) \in Nat /\ D = 1 .. Len(ws) /\ IsFiniteSet(D) /\ Cardinality(D) = Len(ws)
      /\ \A i \in D : ws[i] \in Wave
  BY DomainOf
<1>2. weight \in [D -> Nat]
  BY <1>1, Complexities
<1>3. /\ \A i, j \in D : Cardinality(r[i]) = Cardinality(r[j]) => i = j
      /\ \A n \in 1 .. Cardinality(D) : \E i \in D : Cardinality(r[i]) = n
  <2> HIDE DEF weight
  <2>1. r \in [D -> SUBSET D] /\ \A i \in D : i \in r[i]
    BY <1>1, <1>2
  <2>2. \A i, j \in D : r[i] \subseteq r[j] \/ r[j] \subseteq r[i]
    BY <1>1, <1>2
  <2>3. \A i, j \in D : r[i] = r[j] => i = j
    BY <1>1, <1>2
  <2>4. IsFiniteSet(D)
    BY <1>1
  <2> HIDE DEF r, D
  <2> QED
    BY <2>1, <2>2, <2>3, <2>4, EveryRank
<1>4. \A i \in D : lighter(i) = r[i]
  OBVIOUS
<1>5. \A n \in D : f[n] \in D /\ Cardinality(r[f[n]]) = n
  <2> SUFFICES ASSUME NEW n \in D PROVE f[n] \in D /\ Cardinality(r[f[n]]) = n
    OBVIOUS
  <2>1. \E i \in D : Cardinality(lighter(i)) = n
    <3> HIDE DEF r, lighter
    <3> QED
      BY <1>1, <1>3, <1>4
  <2>2. f[n] \in D /\ Cardinality(lighter(f[n])) = n
    <3> HIDE DEF lighter
    <3> QED
      BY <2>1
  <2> HIDE DEF r, lighter, f
  <2> QED
    BY <1>4, <2>2
<1>6. \A n \in D : sorted[n] = [ws[f[n]] EXCEPT !.score = Complexity(ws[f[n]])]
  BY DEF SortWavesByComplexity
<1>7. \A n \in D : sorted[n] \in Wave /\ Alike(sorted[n], ws[f[n]])
  <2> SUFFICES ASSUME NEW n \in D PROVE sorted[n] \in Wave /\ Alike(sorted[n], ws[f[n]])
    OBVIOUS
  <2>1. ws[f[n]] \in Wave /\ Complexity(ws[f[n]]) \in Nat
    <3> HIDE DEF f
    <3> QED
      BY <1>1, <1>5, Complexities
  <2> HIDE DEF f, sorted
  <2> QED
    BY <1>6, <2>1 DEF Wave, Alike, Key
<1>8. sorted = [n \in D |-> sorted[n]]
  BY DEF SortWavesByComplexity
<1>9. sorted \in Seq(Wave) /\ DOMAIN sorted = D
  <2>1. \A n \in D : sorted[n] \in Wave
    BY <1>7
  <2> HIDE DEF sorted
  <2> QED
    BY <1>1, <1>8, <2>1, SeqDef
<1>10. f \in [D -> D] /\ \A m, n \in D : f[m] = f[n] => m = n
  <2>1. f \in [D -> D]
    BY <1>5
  <2> HIDE DEF f
  <2> QED
    BY <1>5, <2>1
<1> HIDE DEF f, sorted
<1> QED
  BY <1>7, <1>9, <1>10 DEF sorted
(* The waves of p are those of ws or some of them, each once.              *)
Along(p, ws, f) ==
  /\ \A m, n \in DOMAIN p : f[m] = f[n] => m = n
  /\ \A n \in DOMAIN p : /\ Key(p[n]) = Key(ws[f[n]])
                         /\ p[n].status = ws[f[n]].status
                         /\ ws[f[n]].prereqs = {} => p[n].prereqs = {}

From(p, ws) == \E f \in [DOMAIN p -> DOMAIN ws] : Along(p, ws, f)

LEMMA FromTrans ==
  ASSUME NEW p, NEW q, NEW ws, From(p, q), From(q, ws)
  PROVE  From(p, ws)
<1>1. PICK f \in [DOMAIN p -> DOMAIN q] : Along(p, q, f)
  BY DEF From
<1>2. PICK g \in [DOMAIN q -> DOMAIN ws] : Along(q, ws, g)
  BY DEF From
<1> DEFINE h == [n \in DOMAIN p |-> g[f[n]]]
<1>3. h \in [DOMAIN p -> DOMAIN ws]
  OBVIOUS
<1>4. Along(p, ws, h)
  BY <1>1, <1>2 DEF Along
<1> HIDE DEF h
<1> QED
  BY <1>3, <1>4 DEF From

(* What such a list keeps.                                                 *)
Fresh(ws) == \A i \in DOMAIN ws : /\ ws[i].status \in {"available", "locked"}
                                  /\ ws[i].status = "available" => ws[i].prereqs = {}

LEMMA FromKeeps ==
  ASSUME NEW p, NEW ws, From(p, ws)
  PROVE  /\ Distinct(ws) => Distinct(p)
         /\ KeysOf(p) \subseteq KeysOf(ws)
         /\ Fresh(ws) => Fresh(p)
<1>1. PICK f \in [DOMAIN p -> DOMAIN ws] : Along(p, ws, f)
  BY DEF From
<1>2. Distinct(ws) => Distinct(p)
  BY <1>1 DEF Along, Distinct
<1>3. KeysOf(p) \subseteq KeysOf(ws)
  BY <1>1 DEF Along, KeysOf
<1>4. Fresh(ws) => Fresh(p)
  BY <1>1 DEF Along, Fresh
<1> QED
  BY <1>2, <1>3, <1>4

LEMMA CleanedFrom ==
  ASSUME NEW ws \in Seq(Design)
  PROVE  From(RemoveSelfReferences(NormalizeWavePrerequisites(ws)), ws)
<1> DEFINE cleaned == RemoveSelfReferences(NormalizeWavePrerequisites(ws))
           f == [i \in DOMAIN cleaned |-> i]
<1>1. /\ DOMAIN cleaned = DOMAIN ws
      /\ \A i \in DOMAIN ws : /\ Key(cleaned[i]) = Key(ws[i])
                              /\ cleaned[i].status = ws[i].status
                              /\ ws[i].prereqs = {} => cleaned[i].prereqs = {}
  BY CleanedIs
<1> HIDE DEF cleaned
<1>2. f \in [DOMAIN cleaned -> DOMAIN ws] /\ \A i \in DOMAIN cleaned : f[i] = i
  BY <1>1
<1> HIDE DEF f
<1>3. Along(cleaned, ws, f)
  BY <1>1, <1>2 DEF Along
<1>4. From(cleaned, ws)
  BY <1>2, <1>3, Zenon DEF From
<1> QED
  BY <1>4 DEF cleaned

(* What was scanned, merged: the same waves in another order.              *)
LEMMA MergedIs ==
  ASSUME NEW results, FlattenSeq(results) \in Seq(Design)
  PROVE  /\ MergeWaveResults(results) \in Seq(Wave)
         /\ From(MergeWaveResults(results), FlattenSeq(results))
<1> DEFINE ws == FlattenSeq(results)
           cleaned == RemoveSelfReferences(NormalizeWavePrerequisites(ws))
           merged == MergeWaveResults(results)
<1>1. cleaned \in Seq(Wave) /\ From(cleaned, ws)
  BY CleanedIs, CleanedFrom
<1>2. merged = SortWavesByComplexity(cleaned)
  BY DEF MergeWaveResults
<1> HIDE DEF cleaned, merged
<1>3. merged \in Seq(Wave) /\ DOMAIN merged = DOMAIN cleaned
  BY <1>1, <1>2, SortedIs
<1>4. PICK f \in [DOMAIN cleaned -> DOMAIN cleaned] :
         /\ \A m, n \in DOMAIN cleaned : f[m] = f[n] => m = n
         /\ \A n \in DOMAIN cleaned : Alike(merged[n], cleaned[f[n]])
  BY <1>1, <1>2, SortedIs
<1>5. From(merged, cleaned)
  <2>1. f \in [DOMAIN merged -> DOMAIN cleaned]
    BY <1>3, <1>4, Zenon
  <2>2. Along(merged, cleaned, f)
    BY <1>3, <1>4 DEF Alike, Along
  <2> QED
    BY <2>1, <2>2, Zenon DEF From
<1>6. From(merged, ws)
  BY <1>1, <1>5, FromTrans
<1> QED
  BY <1>3, <1>6 DEF merged

(* Dropping waves.                                                         *)
LEMMA SomeKept ==
  ASSUME NEW ws \in Seq(Wave), NEW I \in SUBSET (DOMAIN ws), NEW ks, ks = Kept(ws, I)
  PROVE  /\ ks \in Seq(Wave) /\ From(ks, ws)
         /\ \A n \in DOMAIN ks : \E i \in I : ks[n] = ws[i]
<1>1. PICK f \in [DOMAIN ks -> I] : Picks(ws, I, f)
  BY KeptIs
<1>2. f \in [DOMAIN ks -> DOMAIN ws]
  BY <1>1
<1>3. ks \in Seq(Wave)
  BY KeptIs
<1>4. From(ks, ws)
  <2>1. Along(ks, ws, f)
    BY <1>1 DEF Along, Picks
  <2> QED
    BY <1>2, <2>1, Zenon DEF From
<1>5. \A n \in DOMAIN ks : \E i \in I : ks[n] = ws[i]
  BY <1>1 DEF Picks
<1> QED
  BY <1>3, <1>4, <1>5

LEMMA EmptyDropped ==
  ASSUME NEW ws \in Seq(Wave), NEW ks, ks = FilterEmptyWaves(ws)
  PROVE  /\ ks \in Seq(Wave) /\ From(ks, ws)
         /\ \A n \in DOMAIN ks : \E i \in DOMAIN ws : ks[n] = ws[i]
<1> DEFINE I == {i \in DOMAIN ws : ws[i].actions # <<>>}
<1>1. I \subseteq DOMAIN ws /\ ks = Kept(ws, I)
  BY DEF FilterEmptyWaves
<1> HIDE DEF I
<1> QED
  BY <1>1, SomeKept

(* Of a wave only actions that may go out are kept.                        *)
Sent(w, open) ==
  [w EXCEPT !.actions = Kept(@, {n \in DOMAIN @ : @[n].issue \notin open \/ @[n].own})]

LEMMA ActionsKept ==
  ASSUME NEW w \in Wave, NEW open, NEW v, v = Sent(w, open)
  PROVE  /\ v \in Wave /\ Key(v) = Key(w) /\ v.status = w.status /\ v.prereqs = w.prereqs
         /\ \A a \in ToSet(v.actions) : a.own \/ a.issue \notin open
<1> DEFINE I == {n \in DOMAIN w.actions : w.actions[n].issue \notin open \/ w.actions[n].own}
           as == Kept(w.actions, I)
<1>1. w.actions \in Seq(Actions)
  BY DEF Wave
<1>2. v = [w EXCEPT !.actions = as]
  BY DEF Sent
<1>3. as \in Seq(Actions) /\ \E f \in [DOMAIN as -> I] : Picks(w.actions, I, f)
  <2>1. I \subseteq DOMAIN w.actions
    OBVIOUS
  <2> HIDE DEF I
  <2> QED
    BY <1>1, <2>1, KeptIs
<1>4. \A n \in DOMAIN as : as[n].own \/ as[n].issue \notin open
  <2>1. PICK f \in [DOMAIN as -> I] : \A n \in DOMAIN as : as[n] = w.actions[f[n]]
    BY <1>3 DEF Picks
  <2>2. \A i \in I : w.actions[i].own \/ w.actions[i].issue \notin open
    OBVIOUS
  <2> HIDE DEF as, I
  <2> QED
    BY <2>1, <2>2
<1> HIDE DEF as
<1>5. v \in Wave /\ v.actions = as /\ Key(v) = Key(w) /\ v.status = w.status /\ v.prereqs = w.prereqs
  BY <1>2, <1>3 DEF Wave, Key
<1>6. ToSet(as) = {as[n] : n \in DOMAIN as}
  BY DEF ToSet
<1>7. \A a \in ToSet(as) : a.own \/ a.issue \notin open
  BY <1>4, <1>6
<1> QED
  BY <1>5, <1>7, Zenon

LEMMA FilteredIs ==
  ASSUME NEW ws \in Seq(Wave), NEW open
  PROVE  LET p == FilterPROpenActions(ws, open)
         IN  /\ p \in Seq(Wave) /\ From(p, ws)
             /\ \A n \in DOMAIN p : \A a \in ToSet(p[n].actions) : a.own \/ a.issue \notin open
<1> DEFINE p == FilterPROpenActions(ws, open)
           kept == Change(ws, LAMBDA w :
                     [w EXCEPT !.actions =
                        Kept(@, {n \in DOMAIN @ : @[n].issue \notin open \/ @[n].own})])
           id == [i \in DOMAIN ws |-> i]
<1>1. DOMAIN ws = 1 .. Len(ws) /\ Len(ws) \in Nat /\ \A i \in DOMAIN ws : ws[i] \in Wave
  BY DomainOf
<1>2. id \in [DOMAIN ws -> DOMAIN ws] /\ \A i \in DOMAIN ws : id[i] = i
  OBVIOUS
<1>3. CASE open = {}
  <2>1. p = ws
    BY <1>3 DEF FilterPROpenActions
  <2>2. From(ws, ws)
    <3> HIDE DEF id
    <3>1. Along(ws, ws, id)
      BY <1>2 DEF Along
    <3> QED
      BY <1>2, <3>1, Zenon DEF From
  <2> QED
    BY <1>3, <2>1, <2>2
<1>4. CASE open # {}
  <2>1. p = FilterEmptyWaves(kept)
    BY <1>4 DEF FilterPROpenActions
  <2>2. DOMAIN kept = DOMAIN ws /\ kept = [i \in 1 .. Len(ws) |-> kept[i]]
    BY <1>1 DEF Change
  <2>3. \A i \in DOMAIN ws : kept[i] = Sent(ws[i], open)
    BY DEF Change, Sent
  <2> HIDE DEF p, kept
  <2>4. \A i \in DOMAIN ws :
          /\ kept[i] \in Wave /\ Key(kept[i]) = Key(ws[i]) /\ kept[i].status = ws[i].status
          /\ kept[i].prereqs = ws[i].prereqs
          /\ \A a \in ToSet(kept[i].actions) : a.own \/ a.issue \notin open
    <3> SUFFICES ASSUME NEW i \in DOMAIN ws
                 PROVE  /\ kept[i] \in Wave /\ Key(kept[i]) = Key(ws[i])
                        /\ kept[i].status = ws[i].status
                        /\ kept[i].prereqs = ws[i].prereqs
                        /\ \A a \in ToSet(kept[i].actions) : a.own \/ a.issue \notin open
      OBVIOUS
    <3> DEFINE w == ws[i]
               v == kept[i]
    <3>1. w \in Wave
      BY <1>1
    <3>2. v = Sent(w, open)
      BY <2>3
    <3> HIDE DEF w, v
    <3>3. /\ v \in Wave /\ Key(v) = Key(w) /\ v.status = w.status /\ v.prereqs = w.prereqs
          /\ \A a \in ToSet(v.actions) : a.own \/ a.issue \notin open
      BY <3>1, <3>2, ActionsKept
    <3> QED
      BY <3>3 DEF v, w
  <2>5. kept \in Seq(Wave)
    <3>1. \A i \in DOMAIN ws : kept[i] \in Wave
      BY <2>4
    <3> QED
      BY <1>1, <2>2, <3>1, SeqDef
  <2>6. From(kept, ws)
    <3>1. id \in [DOMAIN kept -> DOMAIN ws] /\ \A i \in DOMAIN kept : id[i] = i
      BY <1>2, <2>2
    <3> HIDE DEF id
    <3>2. Along(kept, ws, id)
      BY <2>2, <2>4, <3>1 DEF Along
    <3> QED
      BY <3>1, <3>2, Zenon DEF From
  <2>7. p \in Seq(Wave) /\ From(p, kept) /\ \A n \in DOMAIN p : \E i \in DOMAIN kept : p[n] = kept[i]
    BY <2>1, <2>5, EmptyDropped
  <2>8. From(p, ws)
    BY <2>6, <2>7, FromTrans
  <2>9. \A n \in DOMAIN p : \A a \in ToSet(p[n].actions) : a.own \/ a.issue \notin open
    <3> SUFFICES ASSUME NEW n \in DOMAIN p
                 PROVE  \A a \in ToSet(p[n].actions) : a.own \/ a.issue \notin open
      OBVIOUS
    <3>1. PICK i \in DOMAIN kept : p[n] = kept[i]
      BY <2>7
    <3> QED
      BY <2>2, <2>4, <3>1
  <2> QED
    BY <2>7, <2>8, <2>9 DEF p
<1> QED
  BY <1>3, <1>4

(* The follow-up waves that are added.                                     *)
LEMMA PreparedIs ==
  ASSUME NEW new \in FollowUps
  PROVE  /\ Prepared(new) \in Seq(Wave) /\ Distinct(Prepared(new)) /\ Fresh(Prepared(new))
         /\ KeysOf(Prepared(new)) \subseteq KeysOf(new)
         /\ \A n \in DOMAIN Prepared(new) : \A a \in ToSet(Prepared(new)[n].actions) :
              a.own \/ a.issue \notin CollectSpecSentIssueIDs(completed, waves)
<1> DEFINE cleaned == RemoveSelfReferences(NormalizeWavePrerequisites(new))
           busy == FilterEmptyWaves(cleaned)
           open == CollectSpecSentIssueIDs(completed, waves)
<1>1. new \in Seq(Design) /\ Distinct(new)
      /\ \A i \in DOMAIN new : new[i].status = "available" => new[i].prereqs = {}
  BY DesignsAreNew
<1>2. \A i \in DOMAIN new : new[i] \in Design
  BY <1>1, DomainOf
<1>3. Fresh(new)
  BY <1>1, <1>2 DEF Fresh, Design
<1>4. Prepared(new) = FilterPROpenActions(busy, open)
  BY DEF Prepared
<1> HIDE DEF cleaned, busy, open
<1>5. cleaned \in Seq(Wave) /\ From(cleaned, new)
  BY <1>1, CleanedIs, CleanedFrom DEF cleaned
<1>6. busy \in Seq(Wave) /\ From(busy, cleaned)
  BY <1>5, EmptyDropped DEF busy
<1>7. /\ Prepared(new) \in Seq(Wave) /\ From(Prepared(new), busy)
      /\ \A n \in DOMAIN Prepared(new) : \A a \in ToSet(Prepared(new)[n].actions) :
           a.own \/ a.issue \notin open
  BY <1>4, <1>6, FilteredIs
<1>8. From(Prepared(new), new)
  BY <1>5, <1>6, <1>7, FromTrans
<1> QED
  BY <1>1, <1>3, <1>7, <1>8, FromKeeps DEF open

(* The waves of a scan.                                                    *)
LEMMA ScannedIs ==
  ASSUME NEW results, \/ results \in Plans
                      \/ \E scan \in Rescans : results = scan.results
  PROVE  LET merged == MergeWaveResults(results)
         IN  merged \in Seq(Wave) /\ Distinct(merged) /\ Fresh(merged)
<1> DEFINE ws == FlattenSeq(results)
<1>1. ws \in Seq(Design) /\ Distinct(ws)
      /\ \A i \in DOMAIN ws : ws[i].status = "available" => ws[i].prereqs = {}
  BY DesignsAreNew
<1> HIDE DEF ws
<1>2. \A i \in DOMAIN ws : ws[i] \in Design
  BY <1>1, DomainOf
<1>3. Fresh(ws)
  BY <1>1, <1>2 DEF Fresh, Design
<1>4. MergeWaveResults(results) \in Seq(Wave) /\ From(MergeWaveResults(results), ws)
  BY <1>1, MergedIs DEF ws
<1> QED
  BY <1>1, <1>3, <1>4, FromKeeps

---------------------------------------------------------------------------
(* What an operation on a list says of each wave.                          *)
LEMMA SeqBy ==
  ASSUME NEW S, NEW n \in Nat, NEW s, s = [i \in 1 .. n |-> s[i]],
         \A i \in 1 .. n : s[i] \in S
  PROVE  s \in Seq(S) /\ DOMAIN s = 1 .. n /\ Len(s) = n
<1>1. [i \in 1 .. n |-> s[i]] \in [1 .. n -> S]
  OBVIOUS
<1>2. s \in [1 .. n -> S]
  BY <1>1, Zenon
<1>3. s \in Seq(S)
  BY <1>2, SeqDef
<1>4. DOMAIN s = 1 .. n
  BY <1>2
<1> QED
  BY <1>3, <1>4, LenProperties

(* The waves that are complete are known by their keys.                    *)
LEMMA DoneIs ==
  ASSUME NEW ws
  PROVE  /\ \A k : k \in BuildCompletedWaveMap(ws) <=>
                     \E i \in DOMAIN ws : Key(ws[i]) = k /\ ws[i].status = "completed"
         /\ BuildCompletedWaveMap(ws) \subseteq KeysOf(ws)
BY DEF BuildCompletedWaveMap, KeysOf

(* The same wave, but for its status and score.                            *)
Kin(v, w) == Key(v) = Key(w) /\ v.prereqs = w.prereqs /\ v.actions = w.actions

LEMMA WavesKin ==
  ASSUME NEW w \in Wave, NEW st \in Statuses,
         NEW v, v = [w EXCEPT !.status = st]
  PROVE  v \in Wave /\ Kin(v, w) /\ v.status = st
BY DEF Wave, Kin, Key

LEMMA SavedKin ==
  ASSUME NEW w \in SavedWave, NEW st \in Statuses,
         NEW v, v = [w EXCEPT !.status = st]
  PROVE  v \in SavedWave /\ Kin(v, w) /\ v.status = st
BY DEF SavedWave, Kin, Key

LEMMA KinKeys ==
  ASSUME NEW ws, NEW vs, DOMAIN vs = DOMAIN ws, \A i \in DOMAIN ws : Key(vs[i]) = Key(ws[i])
  PROVE  KeysOf(vs) = KeysOf(ws) /\ (Distinct(ws) => Distinct(vs))
BY DEF KeysOf, Distinct

LEMMA UnlocksAre ==
  ASSUME NEW ws \in Seq(Wave), NEW done,
         NEW vs, vs = EvaluateUnlocks(ws, done)
  PROVE  /\ vs \in Seq(Wave) /\ DOMAIN vs = DOMAIN ws
         /\ \A i \in DOMAIN ws :
              /\ Kin(vs[i], ws[i])
              /\ vs[i].status = IF ws[i].status = "locked" /\ ws[i].prereqs \subseteq done
                                THEN "available" ELSE ws[i].status
              /\ vs[i].status = ws[i].status => vs[i] = ws[i]
<1>1. Len(ws) \in Nat /\ DOMAIN ws = 1 .. Len(ws) /\ \A i \in DOMAIN ws : ws[i] \in Wave
  BY DomainOf
<1>2. vs = [i \in DOMAIN ws |->
              IF ws[i].status = "locked" /\ ws[i].prereqs \subseteq done
              THEN [ws[i] EXCEPT !.status = "available"] ELSE ws[i]]
  BY DEF EvaluateUnlocks, Change, Met
<1>3. \A i \in DOMAIN ws :
        /\ vs[i] \in Wave /\ Kin(vs[i], ws[i])
        /\ vs[i].status = IF ws[i].status = "locked" /\ ws[i].prereqs \subseteq done
                          THEN "available" ELSE ws[i].status
        /\ vs[i].status = ws[i].status => vs[i] = ws[i]
  <2> SUFFICES ASSUME NEW i \in DOMAIN ws
               PROVE  /\ vs[i] \in Wave /\ Kin(vs[i], ws[i])
                      /\ vs[i].status = IF ws[i].status = "locked" /\ ws[i].prereqs \subseteq done
                                        THEN "available" ELSE ws[i].status
                      /\ vs[i].status = ws[i].status => vs[i] = ws[i]
    OBVIOUS
  <2>1. CASE ws[i].status = "locked" /\ ws[i].prereqs \subseteq done
    <3>1. vs[i] = [ws[i] EXCEPT !.status = "available"] /\ "available" \in Statuses
      BY <1>2, <2>1 DEF Statuses
    <3> QED
      BY <1>1, <2>1, <3>1, WavesKin
  <2>2. CASE ~(ws[i].status = "locked" /\ ws[i].prereqs \subseteq done)
    <3>1. vs[i] = ws[i]
      BY <1>2, <2>2
    <3> QED
      BY <1>1, <2>2, <3>1 DEF Kin
  <2> QED
    BY <2>1, <2>2
<1>4. vs = [i \in 1 .. Len(ws) |-> vs[i]]
  BY <1>1, <1>2
<1>5. vs \in Seq(Wave) /\ DOMAIN vs = 1 .. Len(ws)
  BY <1>1, <1>3, <1>4, SeqBy
<1> QED
  BY <1>1, <1>3, <1>5

(* The first wave with the key is completed, in memory and in the ledger.  *)
LEMMA CompleteIs ==
  ASSUME NEW S \in {Wave, SavedWave}, NEW ws \in Seq(S), NEW key,
         NEW vs, vs = CompleteFirst(ws, key)
  PROVE  /\ vs \in Seq(S) /\ DOMAIN vs = DOMAIN ws
         /\ \A i \in DOMAIN ws :
              /\ Kin(vs[i], ws[i])
              /\ vs[i].status = IF First(ws, key, i) THEN "completed" ELSE ws[i].status
<1>1. Len(ws) \in Nat /\ DOMAIN ws = 1 .. Len(ws) /\ \A i \in DOMAIN ws : ws[i] \in S
  BY DomainOf
<1>2. vs = [i \in DOMAIN ws |-> IF First(ws, key, i)
                                THEN [ws[i] EXCEPT !.status = "completed"] ELSE ws[i]]
  BY DEF CompleteFirst
<1>3. \A i \in DOMAIN ws :
        /\ vs[i] \in S /\ Kin(vs[i], ws[i])
        /\ vs[i].status = IF First(ws, key, i) THEN "completed" ELSE ws[i].status
  <2> SUFFICES ASSUME NEW i \in DOMAIN ws
               PROVE  /\ vs[i] \in S /\ Kin(vs[i], ws[i])
                      /\ vs[i].status = IF First(ws, key, i) THEN "completed" ELSE ws[i].status
    OBVIOUS
  <2>1. CASE First(ws, key, i)
    <3>1. vs[i] = [ws[i] EXCEPT !.status = "completed"] /\ "completed" \in Statuses
      BY <1>2, <2>1 DEF Statuses
    <3>2. vs[i] \in S /\ Kin(vs[i], ws[i]) /\ vs[i].status = "completed"
      BY <1>1, <3>1, WavesKin, SavedKin
    <3> QED
      BY <2>1, <3>2
  <2>2. CASE ~First(ws, key, i)
    <3>1. vs[i] = ws[i]
      BY <1>2, <2>2
    <3> QED
      BY <1>1, <2>2, <3>1 DEF Kin
  <2> QED
    BY <2>1, <2>2
<1>4. vs = [i \in 1 .. Len(ws) |-> vs[i]]
  BY <1>1, <1>2
<1>5. vs \in Seq(S) /\ DOMAIN vs = 1 .. Len(ws)
  BY <1>1, <1>3, <1>4, SeqBy
<1> QED
  BY <1>1, <1>3, <1>5

(* Where keys occur once, the first wave with a key is the one with it.    *)
LEMMA FirstIs ==
  ASSUME NEW S, NEW ws \in Seq(S), Distinct(ws), NEW i \in DOMAIN ws, NEW key
  PROVE  First(ws, key, i) <=> Key(ws[i]) = key
BY DomainOf DEF First, Distinct

(* A wave is replaced.                                                     *)
LEMMA PropagatedIs ==
  ASSUME NEW S, NEW ws \in Seq(S), NEW w \in S,
         NEW vs, vs = PropagateWaveUpdate(ws, w)
  PROVE  /\ vs \in Seq(S) /\ DOMAIN vs = DOMAIN ws
         /\ \A i \in DOMAIN ws : /\ vs[i] = IF First(ws, Key(w), i) THEN w ELSE ws[i]
                                 /\ Key(vs[i]) = Key(ws[i])
<1>1. Len(ws) \in Nat /\ DOMAIN ws = 1 .. Len(ws) /\ \A i \in DOMAIN ws : ws[i] \in S
  BY DomainOf
<1>2. vs = [i \in DOMAIN ws |-> IF First(ws, Key(w), i) THEN w ELSE ws[i]]
  BY DEF PropagateWaveUpdate, First
<1>3. \A i \in DOMAIN ws : First(ws, Key(w), i) => Key(ws[i]) = Key(w)
  BY DEF First
<1>4. vs = [i \in 1 .. Len(ws) |-> vs[i]]
  BY <1>1, <1>2
<1>5. \A i \in DOMAIN ws : vs[i] \in S
  BY <1>1, <1>2
<1>6. vs \in Seq(S) /\ DOMAIN vs = 1 .. Len(ws)
  BY <1>1, <1>4, <1>5, SeqBy
<1> QED
  BY <1>1, <1>2, <1>3, <1>6

LEMMA PropagatedThere ==
  ASSUME NEW S, NEW ws \in Seq(S), Distinct(ws), NEW w \in S,
         NEW vs, vs = PropagateWaveUpdate(ws, w)
  PROVE  /\ DOMAIN vs = DOMAIN ws
         /\ \A i \in DOMAIN ws : /\ Key(ws[i]) = Key(w) => vs[i] = w
                                 /\ Key(ws[i]) # Key(w) => vs[i] = ws[i]
                                 /\ Key(vs[i]) = Key(ws[i])
<1>1. /\ DOMAIN vs = DOMAIN ws
      /\ \A i \in DOMAIN ws : /\ vs[i] = IF First(ws, Key(w), i) THEN w ELSE ws[i]
                              /\ Key(vs[i]) = Key(ws[i])
  BY PropagatedIs
<1>2. \A i \in DOMAIN ws : First(ws, Key(w), i) <=> Key(ws[i]) = Key(w)
  BY FirstIs
<1> QED
  BY <1>1, <1>2

LEMMA UnlockedIs ==
  ASSUME NEW ws \in Seq(SavedWave), NEW keys,
         NEW vs, vs = UnlockAll(ws, keys)
  PROVE  /\ vs \in Seq(SavedWave) /\ DOMAIN vs = DOMAIN ws
         /\ \A i \in DOMAIN ws :
              /\ Kin(vs[i], ws[i])
              /\ vs[i].status = IF Key(ws[i]) \in keys /\ ws[i].status = "locked"
                                THEN "available" ELSE ws[i].status
<1>1. Len(ws) \in Nat /\ DOMAIN ws = 1 .. Len(ws) /\ \A i \in DOMAIN ws : ws[i] \in SavedWave
  BY DomainOf
<1>2. vs = [i \in DOMAIN ws |-> IF Key(ws[i]) \in keys /\ ws[i].status = "locked"
                                THEN [ws[i] EXCEPT !.status = "available"] ELSE ws[i]]
  BY DEF UnlockAll, Change
<1>3. \A i \in DOMAIN ws :
        /\ vs[i] \in SavedWave /\ Kin(vs[i], ws[i])
        /\ vs[i].status = IF Key(ws[i]) \in keys /\ ws[i].status = "locked"
                          THEN "available" ELSE ws[i].status
  <2> SUFFICES ASSUME NEW i \in DOMAIN ws
               PROVE  /\ vs[i] \in SavedWave /\ Kin(vs[i], ws[i])
                      /\ vs[i].status = IF Key(ws[i]) \in keys /\ ws[i].status = "locked"
                                        THEN "available" ELSE ws[i].status
    OBVIOUS
  <2>1. CASE Key(ws[i]) \in keys /\ ws[i].status = "locked"
    <3>1. vs[i] = [ws[i] EXCEPT !.status = "available"] /\ "available" \in Statuses
      BY <1>2, <2>1 DEF Statuses
    <3> QED
      BY <1>1, <2>1, <3>1, SavedKin
  <2>2. CASE ~(Key(ws[i]) \in keys /\ ws[i].status = "locked")
    <3>1. vs[i] = ws[i]
      BY <1>2, <2>2
    <3> QED
      BY <1>1, <2>2, <3>1 DEF Kin
  <2> QED
    BY <2>1, <2>2
<1>4. vs = [i \in 1 .. Len(ws) |-> vs[i]]
  BY <1>1, <1>2
<1>5. vs \in Seq(SavedWave) /\ DOMAIN vs = 1 .. Len(ws)
  BY <1>1, <1>3, <1>4, SeqBy
<1> QED
  BY <1>1, <1>3, <1>5

---------------------------------------------------------------------------
(* Saving, restoring and what a resumed session sees.                      *)
LEMMA SavedIs ==
  ASSUME NEW ws \in Seq(Wave), NEW ss, ss = BuildWaveStates(ws)
  PROVE  /\ ss \in Seq(SavedWave) /\ DOMAIN ss = DOMAIN ws
         /\ \A i \in DOMAIN ws : Alike(ss[i], ws[i])
<1>1. Len(ws) \in Nat /\ DOMAIN ws = 1 .. Len(ws) /\ \A i \in DOMAIN ws : ws[i] \in Wave
  BY DomainOf
<1>2. ss = [i \in DOMAIN ws |->
              [cluster |-> ws[i].cluster, id |-> ws[i].id, prereqs |-> ws[i].prereqs,
               actions |-> ws[i].actions, status |-> ws[i].status]]
  BY DEF BuildWaveStates, Change
<1>3. \A i \in DOMAIN ws : ss[i] \in SavedWave /\ Alike(ss[i], ws[i])
  BY <1>1, <1>2 DEF Wave, SavedWave, Alike, Key
<1>4. ss = [i \in 1 .. Len(ws) |-> ss[i]]
  BY <1>1, <1>2
<1>5. ss \in Seq(SavedWave) /\ DOMAIN ss = 1 .. Len(ws)
  BY <1>1, <1>3, <1>4, SeqBy
<1> QED
  BY <1>1, <1>3, <1>5

LEMMA RestoredIs ==
  ASSUME NEW S \in {Wave, SavedWave}, NEW ss \in Seq(S), NEW ws, ws = RestoreWaves(ss)
  PROVE  /\ ws \in Seq(Wave) /\ DOMAIN ws = DOMAIN ss
         /\ \A i \in DOMAIN ss : Alike(ws[i], ss[i]) /\ ws[i].score = 0
<1>1. Len(ss) \in Nat /\ DOMAIN ss = 1 .. Len(ss) /\ \A i \in DOMAIN ss : ss[i] \in S
  BY DomainOf
<1>2. ws = [i \in DOMAIN ss |->
              [cluster |-> ss[i].cluster, id |-> ss[i].id, prereqs |-> ss[i].prereqs,
               actions |-> ss[i].actions, status |-> ss[i].status, score |-> 0]]
  BY DEF RestoreWaves, Change
<1>3. \A i \in DOMAIN ss : ws[i] \in Wave /\ Alike(ws[i], ss[i]) /\ ws[i].score = 0
  <2>1. CASE S = Wave
    BY <1>1, <1>2, <2>1 DEF Wave, Alike, Key
  <2>2. CASE S = SavedWave
    BY <1>1, <1>2, <2>2 DEF Wave, SavedWave, Alike, Key
  <2> QED
    BY <2>1, <2>2
<1>4. ws = [i \in 1 .. Len(ss) |-> ws[i]]
  BY <1>1, <1>2
<1>5. ws \in Seq(Wave) /\ DOMAIN ws = 1 .. Len(ss)
  BY <1>1, <1>3, <1>4, SeqBy
<1> QED
  BY <1>1, <1>3, <1>5

LEMMA ValidatedIs ==
  ASSUME NEW S \in {Wave, SavedWave}, NEW ws \in Seq(S),
         NEW vs, vs = ValidateWavePrerequisites(ws)
  PROVE  /\ vs \in Seq(S) /\ DOMAIN vs = DOMAIN ws
         /\ \A i \in DOMAIN ws :
              /\ Key(vs[i]) = Key(ws[i]) /\ vs[i].actions = ws[i].actions
              /\ vs[i].status = ws[i].status
              /\ vs[i].prereqs = ws[i].prereqs \cap KeysOf(ws)
              /\ S = Wave => vs[i].score = ws[i].score
<1> DEFINE known == KeysOf(ws)
<1>1. Len(ws) \in Nat /\ DOMAIN ws = 1 .. Len(ws) /\ \A i \in DOMAIN ws : ws[i] \in S
  BY DomainOf
<1>2. vs = [i \in DOMAIN ws |-> [ws[i] EXCEPT !.prereqs = ws[i].prereqs \cap known]]
  BY DEF ValidateWavePrerequisites, Change
<1> HIDE DEF known
<1>3. \A i \in DOMAIN ws :
        /\ vs[i] \in S /\ Key(vs[i]) = Key(ws[i]) /\ vs[i].actions = ws[i].actions
        /\ vs[i].status = ws[i].status /\ vs[i].prereqs = ws[i].prereqs \cap known
        /\ S = Wave => vs[i].score = ws[i].score
  <2>1. CASE S = Wave
    BY <1>1, <1>2, <2>1 DEF Wave, Key
  <2>2. CASE S = SavedWave
    BY <1>1, <1>2, <2>2 DEF Wave, SavedWave, Key
  <2> QED
    BY <2>1, <2>2
<1>4. vs = [i \in 1 .. Len(ws) |-> vs[i]]
  BY <1>1, <1>2
<1>5. vs \in Seq(S) /\ DOMAIN vs = 1 .. Len(ws)
  BY <1>1, <1>3, <1>4, SeqBy
<1> QED
  BY <1>1, <1>3, <1>5 DEF known

(* The waves of a session that is resumed from ss.                         *)
LEMMA ResumedIs ==
  ASSUME NEW S \in {Wave, SavedWave}, NEW ss \in Seq(S), NEW ws, ws = Resumed(ss)
  PROVE  /\ ws \in Seq(Wave) /\ DOMAIN ws = DOMAIN ss
         /\ \A i \in DOMAIN ss :
              /\ Key(ws[i]) = Key(ss[i]) /\ ws[i].actions = ss[i].actions
              /\ ws[i].prereqs = ss[i].prereqs \cap KeysOf(ss)
              /\ ws[i].status =
                   IF ss[i].status = "locked"
                        /\ ss[i].prereqs \cap KeysOf(ss) \subseteq BuildCompletedWaveMap(ss)
                   THEN "available" ELSE ss[i].status
         /\ KeysOf(ws) = KeysOf(ss) /\ (Distinct(ss) => Distinct(ws))
         /\ BuildCompletedWaveMap(ws) = BuildCompletedWaveMap(ss)
<1> DEFINE rs == RestoreWaves(ss)
           vs == ValidateWavePrerequisites(rs)
           done == BuildCompletedWaveMap(vs)
<1>1. rs \in Seq(Wave) /\ DOMAIN rs = DOMAIN ss /\ \A i \in DOMAIN ss : Alike(rs[i], ss[i])
  BY RestoredIs
<1>2. ws = EvaluateUnlocks(vs, done)
  BY DEF Resumed, RepairLockedWaves
<1> HIDE DEF rs
<1>3. KeysOf(rs) = KeysOf(ss)
  BY <1>1, KinKeys DEF Alike
<1>4. /\ vs \in Seq(Wave) /\ DOMAIN vs = DOMAIN rs
      /\ \A i \in DOMAIN rs : /\ Key(vs[i]) = Key(rs[i]) /\ vs[i].actions = rs[i].actions
                              /\ vs[i].status = rs[i].status
                              /\ vs[i].prereqs = rs[i].prereqs \cap KeysOf(rs)
  BY <1>1, ValidatedIs
<1> HIDE DEF vs
<1>5. \A i \in DOMAIN ss : /\ Key(vs[i]) = Key(ss[i]) /\ vs[i].actions = ss[i].actions
                           /\ vs[i].status = ss[i].status
                           /\ vs[i].prereqs = ss[i].prereqs \cap KeysOf(ss)
  BY <1>1, <1>3, <1>4 DEF Alike
<1>6. done = BuildCompletedWaveMap(ss)
  <2>1. \A k : k \in done <=> k \in BuildCompletedWaveMap(ss)
    BY <1>1, <1>4, <1>5, DoneIs
  <2> QED
    BY <2>1
<1> HIDE DEF done
<1>7. /\ ws \in Seq(Wave) /\ DOMAIN ws = DOMAIN vs
      /\ \A i \in DOMAIN vs :
           /\ Kin(ws[i], vs[i])
           /\ ws[i].status = IF vs[i].status = "locked" /\ vs[i].prereqs \subseteq done
                             THEN "available" ELSE vs[i].status
  BY <1>2, <1>4, UnlocksAre
<1>8. DOMAIN ws = DOMAIN ss
  BY <1>1, <1>4, <1>7
<1>9. \A i \in DOMAIN ss :
        /\ Key(ws[i]) = Key(ss[i]) /\ ws[i].actions = ss[i].actions
        /\ ws[i].prereqs = ss[i].prereqs \cap KeysOf(ss)
        /\ ws[i].status =
             IF ss[i].status = "locked"
                  /\ ss[i].prereqs \cap KeysOf(ss) \subseteq BuildCompletedWaveMap(ss)
             THEN "available" ELSE ss[i].status
  BY <1>5, <1>6, <1>7, <1>8 DEF Kin
<1>10. KeysOf(ws) = KeysOf(ss) /\ (Distinct(ss) => Distinct(ws))
  BY <1>8, <1>9, KinKeys
<1>11. BuildCompletedWaveMap(ws) = BuildCompletedWaveMap(ss)
  <2>1. \A i \in DOMAIN ss : ws[i].status = "completed" <=> ss[i].status = "completed"
    BY <1>9
  <2>2. \A k : k \in BuildCompletedWaveMap(ws) <=> k \in BuildCompletedWaveMap(ss)
    BY <1>8, <1>9, <2>1, DoneIs
  <2> QED
    BY <2>2
<1> QED
  BY <1>7, <1>8, <1>9, <1>10, <1>11
---------------------------------------------------------------------------
(* All of a sequence is the sequence.                                      *)
LEMMA KeptAll ==
  ASSUME NEW S, NEW s \in Seq(S)
  PROVE  Kept(s, DOMAIN s) = s
<1>1. Len(s) \in Nat /\ DOMAIN s = 1 .. Len(s) /\ Cardinality(DOMAIN s) = Len(s)
  BY DomainOf
<1> DEFINE n == Len(s)
<1>2. \A i \in 1 .. n : Cardinality({j \in 1 .. n : j <= i}) = i
  <2> SUFFICES ASSUME NEW i \in 1 .. n PROVE Cardinality({j \in 1 .. n : j <= i}) = i
    OBVIOUS
  <2>1. {j \in 1 .. n : j <= i} = 1 .. i
    BY <1>1
  <2>2. Cardinality(1 .. i) = i
    BY <1>1, FS_Interval
  <2> QED
    BY <2>1, <2>2
<1>3. \A m \in 1 .. n : Nth(s, 1 .. n, m) = s[m]
  <2> SUFFICES ASSUME NEW m \in 1 .. n PROVE Nth(s, 1 .. n, m) = s[m]
    OBVIOUS
  <2>1. (CHOOSE i \in 1 .. n : Cardinality({j \in 1 .. n : j <= i}) = m) = m
    BY <1>2
  <2> QED
    BY <2>1 DEF Nth
<1>4. Kept(s, DOMAIN s) = [m \in 1 .. n |-> s[m]]
  BY <1>1, <1>3 DEF Kept
<1> QED
  BY <1>1, <1>4

(* New waves go behind the old ones, unless they were seen.                *)
LEMMA AddedIs ==
  ASSUME NEW ss \in Seq(SavedWave), NEW new \in Seq(SavedWave), Distinct(ss),
         NEW rs, rs = AddUnseen(ss, new)
  PROVE  /\ rs \in Seq(SavedWave) /\ Distinct(rs)
         /\ BuildCompletedWaveMap(ss) \subseteq BuildCompletedWaveMap(rs)
         /\ BuildCompletedWaveMap(rs) \subseteq
              BuildCompletedWaveMap(ss) \cup BuildCompletedWaveMap(new)
<1> DEFINE fresh == {i \in DOMAIN new : /\ ~Seen(ss, new[i])
                                        /\ ~Seen(SubSeq(new, 1, i - 1), new[i])}
           ks == Kept(new, fresh)
<1>1. /\ Len(ss) \in Nat /\ DOMAIN ss = 1 .. Len(ss)
      /\ Len(new) \in Nat /\ DOMAIN new = 1 .. Len(new)
  BY DomainOf
<1>2. fresh \subseteq DOMAIN new
  OBVIOUS
<1>3. \A i \in fresh : \A j \in DOMAIN ss : Key(ss[j]) # Key(new[i])
  BY DEF Seen
<1>4. \A i, j \in fresh : Key(new[i]) = Key(new[j]) => i = j
  <2>1. \A i, j \in fresh : j < i => Key(new[i]) # Key(new[j])
    <3> SUFFICES ASSUME NEW i \in fresh, NEW j \in fresh, j < i
                 PROVE  Key(new[i]) # Key(new[j])
      OBVIOUS
    <3> DEFINE before == SubSeq(new, 1, i - 1)
    <3>1. i \in 1 .. Len(new) /\ j \in 1 .. i - 1 /\ i - 1 \in Nat
      BY <1>1
    <3>2. DOMAIN before = 1 .. i - 1 /\ before[j] = new[j]
      BY <1>1, <3>1
    <3>3. ~Seen(before, new[i])
      OBVIOUS
    <3> HIDE DEF before
    <3> QED
      BY <3>1, <3>2, <3>3 DEF Seen
  <2> QED
    BY <1>1, <1>2, <2>1
<1>5. rs = ss \o ks
  BY DEF AddUnseen
<1> HIDE DEF fresh
<1>6. ks \in Seq(SavedWave)
  BY <1>2, KeptIs
<1>7. PICK f \in [DOMAIN ks -> fresh] : Picks(new, fresh, f)
  BY <1>2, KeptIs
<1>8. /\ \A n \in DOMAIN ks : ks[n] = new[f[n]]
      /\ \A m, n \in DOMAIN ks : f[m] = f[n] => m = n
  BY <1>7 DEF Picks
<1> HIDE DEF ks
<1>9. /\ Len(ks) \in Nat /\ DOMAIN ks = 1 .. Len(ks)
      /\ rs \in Seq(SavedWave) /\ DOMAIN rs = 1 .. Len(ss) + Len(ks)
      /\ \A i \in DOMAIN ss : rs[i] = ss[i]
      /\ \A i \in DOMAIN rs : i \notin DOMAIN ss =>
           i - Len(ss) \in DOMAIN ks /\ rs[i] = ks[i - Len(ss)]
  BY <1>1, <1>5, <1>6, DomainOf
<1>10. DOMAIN ss \subseteq DOMAIN rs
  BY <1>1, <1>9
<1>11. \A i \in DOMAIN ss, j \in DOMAIN rs : j \notin DOMAIN ss => Key(rs[i]) # Key(rs[j])
  BY <1>3, <1>8, <1>9
<1>12. Distinct(rs)
  <2> SUFFICES ASSUME NEW i \in DOMAIN rs, NEW j \in DOMAIN rs, Key(rs[i]) = Key(rs[j])
               PROVE  i = j
    BY DEF Distinct
  <2>1. CASE i \in DOMAIN ss /\ j \in DOMAIN ss
    BY <1>9, <2>1 DEF Distinct
  <2>2. CASE i \in DOMAIN ss /\ j \notin DOMAIN ss
    BY <1>11, <2>2
  <2>3. CASE i \notin DOMAIN ss /\ j \in DOMAIN ss
    BY <1>11, <2>3
  <2>4. CASE i \notin DOMAIN ss /\ j \notin DOMAIN ss
    <3> DEFINE a == i - Len(ss)
               b == j - Len(ss)
    <3>1. a \in DOMAIN ks /\ b \in DOMAIN ks /\ rs[i] = ks[a] /\ rs[j] = ks[b]
      BY <1>9, <2>4
    <3> HIDE DEF a, b
    <3>2. a = b
      BY <1>4, <1>8, <3>1
    <3> QED
      BY <1>1, <1>9, <3>2 DEF a, b
  <2> QED
    BY <2>1, <2>2, <2>3, <2>4
<1>13. BuildCompletedWaveMap(ss) \subseteq BuildCompletedWaveMap(rs)
  BY <1>9, <1>10, DoneIs
<1>14. \A i \in DOMAIN rs : \/ i \in DOMAIN ss /\ rs[i] = ss[i]
                            \/ \E j \in DOMAIN new : rs[i] = new[j]
  BY <1>2, <1>8, <1>9
<1>15. BuildCompletedWaveMap(rs) \subseteq BuildCompletedWaveMap(ss) \cup BuildCompletedWaveMap(new)
  BY <1>14, DoneIs
<1> QED
  BY <1>9, <1>12, <1>13, <1>15

LEMMA AllAdded ==
  ASSUME NEW ss, NEW new \in Seq(SavedWave), Distinct(new), KeysOf(new) \cap KeysOf(ss) = {}
  PROVE  AddUnseen(ss, new) = ss \o new
<1> DEFINE fresh == {i \in DOMAIN new : /\ ~Seen(ss, new[i])
                                        /\ ~Seen(SubSeq(new, 1, i - 1), new[i])}
<1>1. Len(new) \in Nat /\ DOMAIN new = 1 .. Len(new)
  BY DomainOf
<1>2. \A i \in DOMAIN new : ~Seen(ss, new[i])
  BY DEF Seen, KeysOf
<1>3. \A i \in DOMAIN new : ~Seen(SubSeq(new, 1, i - 1), new[i])
  <2> SUFFICES ASSUME NEW i \in DOMAIN new PROVE ~Seen(SubSeq(new, 1, i - 1), new[i])
    OBVIOUS
  <2> DEFINE before == SubSeq(new, 1, i - 1)
  <2>1. DOMAIN before = 1 .. i - 1 /\ \A j \in 1 .. i - 1 : before[j] = new[j]
    BY <1>1
  <2> HIDE DEF before
  <2>2. ~Seen(before, new[i])
    BY <1>1, <2>1 DEF Seen, Distinct
  <2> QED
    BY <2>2 DEF before
<1>4. fresh = DOMAIN new
  BY <1>2, <1>3
<1>5. AddUnseen(ss, new) = ss \o Kept(new, fresh)
  BY DEF AddUnseen
<1> HIDE DEF fresh
<1> QED
  BY <1>4, <1>5, KeptAll

---------------------------------------------------------------------------
(* What the architect returns is applied: the identity stays, and the      *)
(* status says whether the wave has to wait.                               *)
LEMMA ModifiedIs ==
  ASSUME NEW w \in Wave, NEW m \in Modifications, NEW done,
         NEW v, v = ApplyModifiedWave(w, m, done)
  PROVE  /\ v \in Wave /\ Key(v) = Key(w) /\ v.status \in {"available", "locked"}
         /\ v.status = "available" => v.prereqs \subseteq done
<1> DEFINE actions == IF m.actions = Omitted THEN w.actions ELSE m.actions
           prereqs == IF m.prereqs = Omitted THEN w.prereqs ELSE m.prereqs
           full == {Normalize(p, w.cluster) : p \in prereqs}
           merged == [w EXCEPT !.actions = actions, !.prereqs = full, !.score = 0]
           status == IF Met(merged, done) THEN "available" ELSE "locked"
<1>1. /\ w.cluster \in Clusters /\ w.prereqs \subseteq Keys /\ w.actions \in Seq(Actions)
  BY DEF Wave
<1>2. /\ m.prereqs = Omitted \/ m.prereqs \subseteq Prerequisites
      /\ m.actions = Omitted \/ m.actions \in Seq(Actions)
  BY ModificationsAreDesigns
<1>3. actions \in Seq(Actions)
  BY <1>1, <1>2
<1>4. prereqs \subseteq Prerequisites
  BY <1>1, <1>2 DEF Prerequisites
<1> HIDE DEF prereqs
<1>5. full \subseteq Keys
  BY <1>1, <1>4, FullKeys
<1>6. v = [merged EXCEPT !.status = status]
  BY DEF ApplyModifiedWave, prereqs
<1> HIDE DEF actions, full
<1>7. merged \in Wave /\ Key(merged) = Key(w) /\ merged.prereqs = full
  BY <1>3, <1>5 DEF Wave, Key
<1>8. status \in {"available", "locked"} /\ (status = "available" => full \subseteq done)
  BY <1>7 DEF Met
<1> HIDE DEF merged, status
<1>9. status \in Statuses
  BY <1>8 DEF Statuses
<1>10. v \in Wave /\ Kin(v, merged) /\ v.status = status
  BY <1>6, <1>7, <1>9, WavesKin
<1> QED
  BY <1>7, <1>8, <1>10 DEF Kin

(* Scanning again: a list without duplicates, in which what was completed  *)
(* is complete and nothing else.                                           *)
LEMMA OldMerged ==
  ASSUME NEW old \in Seq(Wave), NEW new \in Seq(Wave), Distinct(old), Distinct(new),
         NEW scanned, NEW failed, NEW ws, ws = MergeOldWaves(old, new, scanned, failed)
  PROVE  /\ ws \in Seq(Wave) /\ Distinct(ws)
         /\ BuildCompletedWaveMap(ws) \subseteq
              BuildCompletedWaveMap(old) \cup BuildCompletedWaveMap(new)
<1> DEFINE I == {i \in DOMAIN old :
                   /\ old[i].cluster \in scanned
                   /\ \/ old[i].cluster \notin {new[j].cluster : j \in DOMAIN new}
                      \/ old[i].cluster \in failed
                   /\ Key(old[i]) \notin KeysOf(new)}
           ks == Kept(old, I)
<1>1. I \subseteq DOMAIN old /\ \A i \in I : Key(old[i]) \notin KeysOf(new)
  OBVIOUS
<1>2. ws = new \o ks
  BY DEF MergeOldWaves
<1> HIDE DEF I
<1>3. ks \in Seq(Wave) /\ From(ks, old) /\ \A n \in DOMAIN ks : \E i \in I : ks[n] = old[i]
  BY <1>1, SomeKept
<1> HIDE DEF ks
<1>4. Distinct(ks)
  BY <1>3, FromKeeps
<1>5. /\ Len(new) \in Nat /\ DOMAIN new = 1 .. Len(new)
      /\ Len(ks) \in Nat /\ DOMAIN ks = 1 .. Len(ks)
  BY <1>3, DomainOf
<1>6. /\ ws \in Seq(Wave) /\ DOMAIN ws = 1 .. Len(new) + Len(ks)
      /\ \A i \in DOMAIN new : ws[i] = new[i]
      /\ \A i \in DOMAIN ws : i \notin DOMAIN new =>
           i - Len(new) \in DOMAIN ks /\ ws[i] = ks[i - Len(new)]
  BY <1>2, <1>3, <1>5
<1>7. \A i \in DOMAIN new, n \in DOMAIN ks : Key(new[i]) # Key(ks[n])
  BY <1>1, <1>3 DEF KeysOf
<1>8. \A i \in DOMAIN new, j \in DOMAIN ws : j \notin DOMAIN new => Key(ws[i]) # Key(ws[j])
  BY <1>6, <1>7
<1>9. Distinct(ws)
  <2> SUFFICES ASSUME NEW i \in DOMAIN ws, NEW j \in DOMAIN ws, Key(ws[i]) = Key(ws[j])
               PROVE  i = j
    BY DEF Distinct
  <2>1. CASE i \in DOMAIN new /\ j \in DOMAIN new
    BY <1>6, <2>1 DEF Distinct
  <2>2. CASE i \in DOMAIN new /\ j \notin DOMAIN new
    BY <1>8, <2>2
  <2>3. CASE i \notin DOMAIN new /\ j \in DOMAIN new
    BY <1>8, <2>3
  <2>4. CASE i \notin DOMAIN new /\ j \notin DOMAIN new
    <3> DEFINE a == i - Len(new)
               b == j - Len(new)
    <3>1. a \in DOMAIN ks /\ b \in DOMAIN ks /\ ws[i] = ks[a] /\ ws[j] = ks[b]
      BY <1>6, <2>4
    <3> HIDE DEF a, b
    <3>2. a = b
      BY <1>4, <3>1 DEF Distinct
    <3> QED
      BY <1>5, <1>6, <3>2 DEF a, b
  <2> QED
    BY <2>1, <2>2, <2>3, <2>4
<1>10. \A i \in DOMAIN ws : \/ i \in DOMAIN new /\ ws[i] = new[i]
                            \/ \E j \in DOMAIN old : ws[i] = old[j]
  BY <1>1, <1>3, <1>6
<1>11. BuildCompletedWaveMap(ws) \subseteq BuildCompletedWaveMap(old) \cup BuildCompletedWaveMap(new)
  BY <1>10, DoneIs
<1> QED
  BY <1>6, <1>9, <1>11

LEMMA StatusMerged ==
  ASSUME NEW ws \in Seq(Wave), NEW done, NEW vs, vs = MergeCompletedStatus(done, ws)
  PROVE  /\ vs \in Seq(Wave) /\ DOMAIN vs = DOMAIN ws
         /\ \A i \in DOMAIN ws :
              /\ Kin(vs[i], ws[i])
              /\ vs[i].status = IF Key(ws[i]) \in done THEN "completed" ELSE ws[i].status
<1>1. Len(ws) \in Nat /\ DOMAIN ws = 1 .. Len(ws) /\ \A i \in DOMAIN ws : ws[i] \in Wave
  BY DomainOf
<1>2. vs = [i \in DOMAIN ws |-> IF Key(ws[i]) \in done
                                THEN [ws[i] EXCEPT !.status = "completed"] ELSE ws[i]]
  BY DEF MergeCompletedStatus, Change
<1>3. \A i \in DOMAIN ws :
        /\ vs[i] \in Wave /\ Kin(vs[i], ws[i])
        /\ vs[i].status = IF Key(ws[i]) \in done THEN "completed" ELSE ws[i].status
  <2> SUFFICES ASSUME NEW i \in DOMAIN ws
               PROVE  /\ vs[i] \in Wave /\ Kin(vs[i], ws[i])
                      /\ vs[i].status = IF Key(ws[i]) \in done THEN "completed" ELSE ws[i].status
    OBVIOUS
  <2>1. CASE Key(ws[i]) \in done
    <3>1. vs[i] = [ws[i] EXCEPT !.status = "completed"] /\ "completed" \in Statuses
      BY <1>2, <2>1 DEF Statuses
    <3> QED
      BY <1>1, <2>1, <3>1, WavesKin
  <2>2. CASE Key(ws[i]) \notin done
    <3>1. vs[i] = ws[i]
      BY <1>2, <2>2
    <3> QED
      BY <1>1, <2>2, <3>1 DEF Kin
  <2> QED
    BY <2>1, <2>2
<1>4. vs = [i \in 1 .. Len(ws) |-> vs[i]]
  BY <1>1, <1>2
<1>5. vs \in Seq(Wave) /\ DOMAIN vs = 1 .. Len(ws)
  BY <1>1, <1>3, <1>4, SeqBy
<1> QED
  BY <1>1, <1>3, <1>5

LEMMA RescannedIs ==
  ASSUME waves \in Seq(Wave), Distinct(waves), NEW scan \in Rescans,
         NEW vs, vs = Rescanned(scan)
  PROVE  /\ vs \in Seq(Wave) /\ Distinct(vs)
         /\ completed \cap KeysOf(vs) \subseteq BuildCompletedWaveMap(vs)
         /\ BuildCompletedWaveMap(vs) \subseteq completed \cup BuildCompletedWaveMap(waves)
<1> DEFINE I == {i \in DOMAIN waves : \/ waves[i].status = "completed"
                                      \/ waves[i].cluster \in ToSet(scan.clusters)}
           old == PruneStaleWaves(waves, ToSet(scan.clusters))
           new == MergeWaveResults(scan.results)
           all == MergeOldWaves(old, new, ToSet(scan.clusters),
                                DetectFailedClusterNames(scan.clusters, scan.successes))
<1>1. I \subseteq DOMAIN waves /\ old = Kept(waves, I)
  BY DEF PruneStaleWaves
<1>2. vs = MergeCompletedStatus(completed, all)
  BY DEF Rescanned
<1> HIDE DEF I, old
<1>3. old \in Seq(Wave) /\ From(old, waves) /\ \A n \in DOMAIN old : \E i \in I : old[n] = waves[i]
  BY <1>1, SomeKept
<1>4. Distinct(old)
  BY <1>3, FromKeeps
<1>5. BuildCompletedWaveMap(old) \subseteq BuildCompletedWaveMap(waves)
  BY <1>1, <1>3, DoneIs
<1>6. new \in Seq(Wave) /\ Distinct(new) /\ Fresh(new)
  BY ScannedIs
<1> HIDE DEF new
<1>7. BuildCompletedWaveMap(new) = {}
  BY <1>6, DoneIs DEF Fresh
<1>8. /\ all \in Seq(Wave) /\ Distinct(all)
      /\ BuildCompletedWaveMap(all) \subseteq BuildCompletedWaveMap(waves)
  BY <1>3, <1>4, <1>5, <1>6, <1>7, OldMerged
<1> HIDE DEF all
<1>9. /\ vs \in Seq(Wave) /\ DOMAIN vs = DOMAIN all
      /\ \A i \in DOMAIN all :
           /\ Key(vs[i]) = Key(all[i])
           /\ vs[i].status = IF Key(all[i]) \in completed THEN "completed" ELSE all[i].status
  BY <1>2, <1>8, StatusMerged DEF Kin
<1>10. Distinct(vs)
  BY <1>8, <1>9, KinKeys
<1>11. completed \cap KeysOf(vs) \subseteq BuildCompletedWaveMap(vs)
  BY <1>9, DoneIs DEF KeysOf
<1>12. BuildCompletedWaveMap(vs) \subseteq completed \cup BuildCompletedWaveMap(waves)
  <2>1. \A i \in DOMAIN all : \/ Key(vs[i]) \in completed
                              \/ vs[i].status = all[i].status /\ Key(vs[i]) = Key(all[i])
    BY <1>9
  <2>2. BuildCompletedWaveMap(vs) \subseteq completed \cup BuildCompletedWaveMap(all)
    BY <1>9, <2>1, DoneIs
  <2> QED
    BY <1>8, <2>2
<1> QED
  BY <1>9, <1>10, <1>11, <1>12

---------------------------------------------------------------------------
(* What is complete before and after.                                      *)
LEMMA SameDone ==
  ASSUME NEW ws, NEW vs, DOMAIN vs = DOMAIN ws,
         \A i \in DOMAIN ws : Key(vs[i]) = Key(ws[i]),
         \A i \in DOMAIN ws : vs[i].status = "completed" <=> ws[i].status = "completed"
  PROVE  BuildCompletedWaveMap(vs) = BuildCompletedWaveMap(ws)
<1>1. \A k : k \in BuildCompletedWaveMap(vs) <=> k \in BuildCompletedWaveMap(ws)
  BY DoneIs
<1> QED
  BY <1>1

LEMMA DoneSaved ==
  ASSUME NEW ws \in Seq(Wave)
  PROVE  BuildCompletedWaveMap(BuildWaveStates(ws)) = BuildCompletedWaveMap(ws)
BY SavedIs, SameDone DEF Alike

LEMMA DoneFresh ==
  ASSUME NEW ws, Fresh(ws)
  PROVE  BuildCompletedWaveMap(ws) = {}
BY DoneIs DEF Fresh

LEMMA DoneComplete ==
  ASSUME NEW S \in {Wave, SavedWave}, NEW ws \in Seq(S), NEW key,
         NEW vs, vs = CompleteFirst(ws, key)
  PROVE  /\ BuildCompletedWaveMap(ws) \subseteq BuildCompletedWaveMap(vs)
         /\ BuildCompletedWaveMap(vs) \subseteq BuildCompletedWaveMap(ws) \cup {key}
         /\ Distinct(ws) /\ key \in KeysOf(ws) => key \in BuildCompletedWaveMap(vs)
<1>1. /\ DOMAIN vs = DOMAIN ws
      /\ \A i \in DOMAIN ws :
           /\ Key(vs[i]) = Key(ws[i])
           /\ vs[i].status = IF First(ws, key, i) THEN "completed" ELSE ws[i].status
  BY CompleteIs DEF Kin
<1>2. \A i \in DOMAIN ws : First(ws, key, i) => Key(ws[i]) = key
  BY DEF First
<1>3. BuildCompletedWaveMap(ws) \subseteq BuildCompletedWaveMap(vs)
  BY <1>1, DoneIs
<1>4. BuildCompletedWaveMap(vs) \subseteq BuildCompletedWaveMap(ws) \cup {key}
  BY <1>1, <1>2, DoneIs
<1>5. ASSUME Distinct(ws), key \in KeysOf(ws)
      PROVE  key \in BuildCompletedWaveMap(vs)
  <2>1. PICK i \in DOMAIN ws : Key(ws[i]) = key
    BY <1>5 DEF KeysOf
  <2>2. First(ws, key, i)
    BY <1>5, <2>1, FirstIs
  <2> QED
    BY <1>1, <2>1, <2>2, DoneIs
<1> QED
  BY <1>3, <1>4, <1>5

LEMMA DonePropagated ==
  ASSUME NEW S, NEW ws \in Seq(S), NEW w \in S, w.status # "completed",
         Key(w) \notin BuildCompletedWaveMap(ws),
         NEW vs, vs = PropagateWaveUpdate(ws, w)
  PROVE  BuildCompletedWaveMap(vs) = BuildCompletedWaveMap(ws)
<1>1. /\ DOMAIN vs = DOMAIN ws
      /\ \A i \in DOMAIN ws : /\ vs[i] = IF First(ws, Key(w), i) THEN w ELSE ws[i]
                              /\ Key(vs[i]) = Key(ws[i])
  BY PropagatedIs
<1>2. \A i \in DOMAIN ws : First(ws, Key(w), i) => ws[i].status # "completed"
  BY DoneIs DEF First
<1>3. \A i \in DOMAIN ws : vs[i].status = "completed" <=> ws[i].status = "completed"
  BY <1>1, <1>2
<1> QED
  BY <1>1, <1>3, SameDone

LEMMA DoneUnlocked ==
  ASSUME NEW ws \in Seq(Wave), NEW done
  PROVE  BuildCompletedWaveMap(EvaluateUnlocks(ws, done)) = BuildCompletedWaveMap(ws)
<1> DEFINE vs == EvaluateUnlocks(ws, done)
<1>1. /\ DOMAIN vs = DOMAIN ws
      /\ \A i \in DOMAIN ws :
           /\ Key(vs[i]) = Key(ws[i])
           /\ vs[i].status = IF ws[i].status = "locked" /\ ws[i].prereqs \subseteq done
                             THEN "available" ELSE ws[i].status
  BY UnlocksAre DEF Kin
<1> HIDE DEF vs
<1>2. \A i \in DOMAIN ws : vs[i].status = "completed" <=> ws[i].status = "completed"
  BY <1>1
<1>3. BuildCompletedWaveMap(vs) = BuildCompletedWaveMap(ws)
  BY <1>1, <1>2, SameDone
<1> QED
  BY <1>3 DEF vs

LEMMA DoneAllUnlocked ==
  ASSUME NEW ws \in Seq(SavedWave), NEW keys
  PROVE  BuildCompletedWaveMap(UnlockAll(ws, keys)) = BuildCompletedWaveMap(ws)
<1> DEFINE vs == UnlockAll(ws, keys)
<1>1. /\ DOMAIN vs = DOMAIN ws
      /\ \A i \in DOMAIN ws :
           /\ Key(vs[i]) = Key(ws[i])
           /\ vs[i].status = IF Key(ws[i]) \in keys /\ ws[i].status = "locked"
                             THEN "available" ELSE ws[i].status
  BY UnlockedIs DEF Kin
<1> HIDE DEF vs
<1>2. \A i \in DOMAIN ws : vs[i].status = "completed" <=> ws[i].status = "completed"
  BY <1>1
<1>3. BuildCompletedWaveMap(vs) = BuildCompletedWaveMap(ws)
  BY <1>1, <1>2, SameDone
<1> QED
  BY <1>3 DEF vs

LEMMA AvailableIs ==
  ASSUME NEW ws, NEW done, NEW w \in AvailableWaves(ws, done)
  PROVE  /\ w.status = "available" /\ Key(w) \notin done
         /\ \E i \in DOMAIN ws : w = ws[i]
         /\ Key(w) \in KeysOf(ws)
BY DEF AvailableWaves, ToSet, KeysOf

LEMMA DoneWithin ==
  ASSUME NEW ws, NEW vs, \A j \in DOMAIN ws : \E i \in DOMAIN vs : vs[i] = ws[j]
  PROVE  BuildCompletedWaveMap(ws) \subseteq BuildCompletedWaveMap(vs)
<1> SUFFICES ASSUME NEW k \in BuildCompletedWaveMap(ws)
             PROVE  k \in BuildCompletedWaveMap(vs)
  OBVIOUS
<1>1. PICK j \in DOMAIN ws : Key(ws[j]) = k /\ ws[j].status = "completed"
  BY DoneIs
<1>2. PICK i \in DOMAIN vs : vs[i] = ws[j]
  BY <1>1
<1>3. Key(vs[i]) = k /\ vs[i].status = "completed"
  BY <1>1, <1>2
<1> QED
  BY <1>3, DoneIs

(* Two lists, one behind the other.                                        *)
Behind(ws, new) == ws \o new

Joined(ws, new, vs) ==
  /\ DOMAIN vs = 1 .. Len(ws) + Len(new)
  /\ \A i \in DOMAIN ws : i \in DOMAIN vs /\ vs[i] = ws[i]
  /\ \A i \in DOMAIN vs : i \notin DOMAIN ws =>
       i - Len(ws) \in DOMAIN new /\ vs[i] = new[i - Len(ws)]

LEMMA Appended ==
  ASSUME NEW S, NEW ws \in Seq(S), NEW new \in Seq(S), NEW vs, vs = Behind(ws, new)
  PROVE  /\ vs \in Seq(S) /\ Len(vs) = Len(ws) + Len(new)
         /\ Joined(ws, new, vs)
         /\ BuildCompletedWaveMap(ws) \subseteq BuildCompletedWaveMap(vs)
         /\ BuildCompletedWaveMap(vs) \subseteq BuildCompletedWaveMap(ws) \cup BuildCompletedWaveMap(new)
         /\ KeysOf(vs) \subseteq KeysOf(ws) \cup KeysOf(new)
         /\ KeysOf(ws) \cup KeysOf(new) \subseteq KeysOf(vs)
         /\ Distinct(ws) /\ Distinct(new) /\ KeysOf(ws) \cap KeysOf(new) = {} => Distinct(vs)
<1>1. /\ Len(ws) \in Nat /\ DOMAIN ws = 1 .. Len(ws)
      /\ Len(new) \in Nat /\ DOMAIN new = 1 .. Len(new)
  BY DomainOf
<1>2. /\ vs \in Seq(S) /\ Len(vs) = Len(ws) + Len(new)
      /\ DOMAIN vs = 1 .. Len(ws) + Len(new)
      /\ \A i \in DOMAIN ws : i \in DOMAIN vs /\ vs[i] = ws[i]
      /\ \A i \in DOMAIN vs : i \notin DOMAIN ws =>
           i - Len(ws) \in DOMAIN new /\ vs[i] = new[i - Len(ws)]
      /\ \A n \in DOMAIN new : Len(ws) + n \in DOMAIN vs /\ vs[Len(ws) + n] = new[n]
  BY <1>1 DEF Behind
<1>3. /\ \A i \in DOMAIN vs : (\E j \in DOMAIN ws : vs[i] = ws[j])
                                \/ (\E n \in DOMAIN new : vs[i] = new[n])
      /\ \A j \in DOMAIN ws : \E i \in DOMAIN vs : vs[i] = ws[j]
      /\ \A n \in DOMAIN new : \E i \in DOMAIN vs : vs[i] = new[n]
  <2>1. \A i \in DOMAIN vs : (\E j \in DOMAIN ws : vs[i] = ws[j])
                               \/ (\E n \in DOMAIN new : vs[i] = new[n])
    BY <1>2
  <2>2. \A j \in DOMAIN ws : \E i \in DOMAIN vs : vs[i] = ws[j]
    BY <1>2
  <2>3. \A n \in DOMAIN new : \E i \in DOMAIN vs : vs[i] = new[n]
    BY <1>2
  <2> QED
    BY <2>1, <2>2, <2>3
<1>4. /\ BuildCompletedWaveMap(ws) \subseteq BuildCompletedWaveMap(vs)
      /\ BuildCompletedWaveMap(vs) \subseteq BuildCompletedWaveMap(ws) \cup BuildCompletedWaveMap(new)
  <2>1. \A k \in BuildCompletedWaveMap(vs) : k \in BuildCompletedWaveMap(ws) \cup BuildCompletedWaveMap(new)
    <3> SUFFICES ASSUME NEW k \in BuildCompletedWaveMap(vs)
                 PROVE  k \in BuildCompletedWaveMap(ws) \cup BuildCompletedWaveMap(new)
      OBVIOUS
    <3>1. PICK i \in DOMAIN vs : Key(vs[i]) = k /\ vs[i].status = "completed"
      BY DoneIs
    <3>2. CASE \E j \in DOMAIN ws : vs[i] = ws[j]
      <4>1. PICK j \in DOMAIN ws : vs[i] = ws[j]
        BY <3>2
      <4>2. Key(ws[j]) = k /\ ws[j].status = "completed"
        BY <3>1, <4>1
      <4>3. k \in BuildCompletedWaveMap(ws)
        BY <4>2, DoneIs
      <4> QED
        BY <4>3
    <3>3. CASE \E j \in DOMAIN new : vs[i] = new[j]
      <4>1. PICK j \in DOMAIN new : vs[i] = new[j]
        BY <3>3
      <4>2. Key(new[j]) = k /\ new[j].status = "completed"
        BY <3>1, <4>1
      <4>3. k \in BuildCompletedWaveMap(new)
        BY <4>2, DoneIs
      <4> QED
        BY <4>3
    <3> QED
      BY <1>3, <3>2, <3>3
  <2>2. BuildCompletedWaveMap(ws) \subseteq BuildCompletedWaveMap(vs)
    BY <1>3, DoneWithin
  <2> QED
    BY <2>1, <2>2
<1>5. /\ KeysOf(vs) \subseteq KeysOf(ws) \cup KeysOf(new)
      /\ KeysOf(ws) \cup KeysOf(new) \subseteq KeysOf(vs)
  <2>1. KeysOf(vs) \subseteq KeysOf(ws) \cup KeysOf(new)
    BY <1>3 DEF KeysOf
  <2>2. KeysOf(ws) \cup KeysOf(new) \subseteq KeysOf(vs)
    BY <1>3 DEF KeysOf
  <2> QED
    BY <2>1, <2>2
<1>6. ASSUME Distinct(ws), Distinct(new), KeysOf(ws) \cap KeysOf(new) = {}
      PROVE  Distinct(vs)
  <2>1. \A i \in DOMAIN ws, n \in DOMAIN new : Key(ws[i]) # Key(new[n])
    BY <1>6 DEF KeysOf
  <2> SUFFICES ASSUME NEW i \in DOMAIN vs, NEW j \in DOMAIN vs, Key(vs[i]) = Key(vs[j])
               PROVE  i = j
    BY DEF Distinct
  <2>2. CASE i \in DOMAIN ws /\ j \in DOMAIN ws
    BY <1>2, <1>6, <2>2 DEF Distinct
  <2>3. CASE i \in DOMAIN ws /\ j \notin DOMAIN ws
    BY <1>2, <2>1, <2>3
  <2>4. CASE i \notin DOMAIN ws /\ j \in DOMAIN ws
    BY <1>2, <2>1, <2>4
  <2>5. CASE i \notin DOMAIN ws /\ j \notin DOMAIN ws
    <3> DEFINE a == i - Len(ws)
               b == j - Len(ws)
    <3>1. a \in DOMAIN new /\ b \in DOMAIN new /\ vs[i] = new[a] /\ vs[j] = new[b]
      BY <1>2, <2>5
    <3> HIDE DEF a, b
    <3>2. a = b
      BY <1>6, <3>1 DEF Distinct
    <3> QED
      BY <1>1, <1>2, <3>2 DEF a, b
  <2> QED
    BY <2>2, <2>3, <2>4, <2>5
<1> QED
  BY <1>2, <1>4, <1>5, <1>6 DEF Joined
-----------------------------------------------------------------------------
(* What is kept whatever fails: a dead session holds nothing, keys occur   *)
(* once, and what is complete anywhere is complete in the aggregate's map. *)
WorkInv ==
  /\ ~running => waves = <<>> /\ pending = NoEvent
  /\ Distinct(waves) /\ Distinct(replayed)
  /\ running => /\ BuildCompletedWaveMap(waves) \subseteq completed
                /\ BuildCompletedWaveMap(replayed) \subseteq completed
  /\ pending.type \in {"waves_generated", "nextgen_waves_added"} =>
       BuildCompletedWaveMap(pending.waves) \subseteq completed
  /\ pending.type = "nextgen_waves_added" =>
       /\ Distinct(pending.waves)
       /\ KeysOf(waves) \cap KeysOf(pending.waves) = {}
  /\ pending.type = "wave_completed" => pending.key \in completed
  /\ pending.type = "wave_modified" => /\ Key(pending.wave) \notin completed
                                       /\ pending.wave.status # "completed"


Base == TypeOK /\ WorkInv

(* What an event does to the ledger's waves.                               *)
LEMMA ReplayIs ==
  ASSUME NEW rs \in Seq(SavedWave), Distinct(rs), NEW e, Pending(e),
         e.type = "wave_modified" => Key(e.wave) \notin BuildCompletedWaveMap(rs)
                                       /\ e.wave.status # "completed",
         NEW done, BuildCompletedWaveMap(rs) \subseteq done,
         e.type \in {"waves_generated", "nextgen_waves_added"} =>
           BuildCompletedWaveMap(e.waves) \subseteq done,
         e.type = "wave_completed" => e.key \in done,
         NEW ns, ns = Replay(rs, e)
  PROVE  /\ ns \in Seq(SavedWave) /\ Distinct(ns)
         /\ BuildCompletedWaveMap(rs) \subseteq BuildCompletedWaveMap(ns)
         /\ BuildCompletedWaveMap(ns) \subseteq done
<1>1. CASE e.type \in {"waves_generated", "nextgen_waves_added"}
  <2>1. ns = AddUnseen(rs, e.waves)
    BY <1>1 DEF Replay
  <2>2. e.waves \in Seq(SavedWave)
    BY <1>1 DEF Pending, NoEvent, AuditEvent
  <2> QED
    BY <1>1, <2>1, <2>2, AddedIs
<1>2. CASE e.type = "wave_completed"
  <2>1. ns = CompleteFirst(rs, e.key)
    BY <1>2 DEF Replay
  <2>2. ns \in Seq(SavedWave) /\ DOMAIN ns = DOMAIN rs
        /\ \A i \in DOMAIN rs : Key(ns[i]) = Key(rs[i])
    BY <2>1, CompleteIs DEF Kin
  <2>3. /\ BuildCompletedWaveMap(rs) \subseteq BuildCompletedWaveMap(ns)
        /\ BuildCompletedWaveMap(ns) \subseteq BuildCompletedWaveMap(rs) \cup {e.key}
    BY <2>1, DoneComplete
  <2> QED
    BY <1>2, <2>2, <2>3, KinKeys
<1>3. CASE e.type = "waves_unlocked"
  <2>1. ns = UnlockAll(rs, e.keys)
    BY <1>3 DEF Replay
  <2>2. ns \in Seq(SavedWave) /\ DOMAIN ns = DOMAIN rs
        /\ \A i \in DOMAIN rs : Key(ns[i]) = Key(rs[i])
    BY <2>1, UnlockedIs DEF Kin
  <2>3. BuildCompletedWaveMap(ns) = BuildCompletedWaveMap(rs)
    BY <2>1, DoneAllUnlocked
  <2> QED
    BY <2>2, <2>3, KinKeys
<1>4. CASE e.type = "wave_modified"
  <2>1. ns = PropagateWaveUpdate(rs, e.wave)
    BY <1>4 DEF Replay
  <2>2. e.wave \in SavedWave
    BY <1>4 DEF Pending, NoEvent, AuditEvent
  <2> DEFINE w == e.wave
  <2>3. ns \in Seq(SavedWave) /\ DOMAIN ns = DOMAIN rs
        /\ \A i \in DOMAIN rs : Key(ns[i]) = Key(rs[i])
    <3>1. w \in SavedWave /\ ns = PropagateWaveUpdate(rs, w)
      BY <2>1, <2>2
    <3> HIDE DEF w
    <3> QED
      BY <3>1, PropagatedIs
  <2>4. BuildCompletedWaveMap(ns) = BuildCompletedWaveMap(rs)
    BY <1>4, <2>1, <2>2, DonePropagated
  <2> QED
    BY <2>3, <2>4, KinKeys
<1>5. CASE e.type \notin {"waves_generated", "nextgen_waves_added", "wave_completed",
                          "waves_unlocked", "wave_modified"}
  <2>1. ns = rs
    BY <1>5 DEF Replay
  <2> QED
    BY <2>1
<1> QED
  BY <1>1, <1>2, <1>3, <1>4, <1>5

LEMMA NoDone == BuildCompletedWaveMap(<<>>) = {} /\ KeysOf(<<>>) = {} /\ Distinct(<<>>)
BY DEF BuildCompletedWaveMap, KeysOf, Distinct

LEMMA KeysAreKeys ==
  /\ \A w \in Wave : Key(w) \in Keys
  /\ \A ws \in Seq(Wave) : KeysOf(ws) \subseteq Keys
  /\ \A ss \in Seq(SavedWave) : KeysOf(ss) \subseteq Keys
<1>1. \A w \in Wave : Key(w) \in Keys
  BY DEF Wave, Key, Keys
<1>2. \A w \in SavedWave : Key(w) \in Keys
  BY DEF SavedWave, Key, Keys
<1>3. \A ws \in Seq(Wave) : KeysOf(ws) \subseteq Keys
  BY <1>1, DomainOf DEF KeysOf
<1>4. \A ss \in Seq(SavedWave) : KeysOf(ss) \subseteq Keys
  BY <1>2, DomainOf DEF KeysOf
<1> QED
  BY <1>1, <1>3, <1>4

LEMMA InitBase == Init => Base
<1> SUFFICES ASSUME Init PROVE Base
  OBVIOUS
<1>1. <<>> \in Seq(Wave) /\ <<>> \in Seq(SavedWave)
  OBVIOUS
<1>2. MaxFaults \in Nat /\ MaxChanges \in Nat
  BY BoundsAreNat
<1>3. Pending(NoEvent)
  BY DEF Pending
<1>4. TypeOK
  <2>1. Pending(pending)
    BY <1>3, Zenon DEF Init
  <2>2. running \in BOOLEAN /\ apart \in BOOLEAN
    BY DEF Init
  <2>3. /\ waves \in Seq(Wave) /\ completed \subseteq Keys /\ replayed \in Seq(SavedWave)
        /\ late \subseteq Keys /\ faults \in 0 .. MaxFaults /\ changes \in 0 .. MaxChanges
    BY <1>1, <1>2 DEF Init
  <2> QED
    BY <2>1, <2>2, <2>3 DEF TypeOK
<1>5. WorkInv
  BY NoDone DEF Init, WorkInv, NoEvent
<1> QED
  BY <1>4, <1>5 DEF Base

LEMMA GenerateBase == Base /\ Generate => Base'
<1> SUFFICES ASSUME Base, Generate PROVE Base'
  OBVIOUS
<1>1. PICK plan \in Plans : waves' = MergeWaveResults(plan)
  BY DEF Generate
<1>2. waves' \in Seq(Wave) /\ Distinct(waves') /\ Fresh(waves')
  BY <1>1, ScannedIs
<1>3. BuildCompletedWaveMap(waves') = {}
  BY <1>2, DoneFresh
<1>4. pending' = [type |-> "waves_generated", waves |-> BuildWaveStates(waves')]
  BY DEF Generate, Returns
<1>5. /\ pending'.type = "waves_generated" /\ pending'.waves = BuildWaveStates(waves')
      /\ pending'.waves \in Seq(SavedWave) /\ BuildCompletedWaveMap(pending'.waves) = {}
  BY <1>2, <1>3, <1>4, SavedIs, DoneSaved
<1>6. Pending(pending')
  BY <1>5 DEF Pending
<1>7. /\ running /\ running' = running /\ UNCHANGED <<replayed, late, faults>>
      /\ UNCHANGED <<completed, apart, changes>>
  BY DEF Generate, Returns, Ready
<1>8. TypeOK'
  BY <1>2, <1>6, <1>7 DEF Base, TypeOK
<1>9. WorkInv'
  BY <1>2, <1>3, <1>5, <1>7 DEF Base, WorkInv
<1> QED
  BY <1>8, <1>9 DEF Base

LEMMA AuditBase == Base /\ Audit => Base'
BY DEF Base, TypeOK, WorkInv, Audit, Ready, Returns, Pending, NoEvent, AuditEvent

LEMMA CompleteBase == Base /\ Complete => Base'
<1> SUFFICES ASSUME Base, Complete PROVE Base'
  OBVIOUS
<1>1. PICK w \in AvailableWaves(waves, completed) :
        /\ waves' = CompleteFirst(waves, Key(w))
        /\ completed' = completed \cup {Key(w)}
        /\ pending' = [type |-> "wave_completed", key |-> Key(w)]
  BY DEF Complete, Returns
<1>2. /\ running /\ running' = running /\ UNCHANGED <<replayed, late, faults, apart, changes>>
  BY DEF Complete, Returns, Ready
<1>3. waves \in Seq(Wave) /\ completed \subseteq Keys /\ Distinct(waves)
  BY DEF Base, TypeOK, WorkInv
<1>4. Key(w) \in Keys
  <2>1. w \in Wave
    BY <1>3, AvailableIs, DomainOf
  <2> QED
    BY <2>1, KeysAreKeys
<1>5. waves' \in Seq(Wave) /\ DOMAIN waves' = DOMAIN waves
      /\ \A i \in DOMAIN waves : Key(waves'[i]) = Key(waves[i])
  BY <1>1, <1>3, CompleteIs DEF Kin
<1>6. Distinct(waves')
  BY <1>3, <1>5, KinKeys
<1>7. BuildCompletedWaveMap(waves') \subseteq BuildCompletedWaveMap(waves) \cup {Key(w)}
  BY <1>1, <1>3, DoneComplete
<1>8. pending'.type = "wave_completed" /\ pending'.key = Key(w) /\ Pending(pending')
  BY <1>1, <1>4 DEF Pending
<1>9. TypeOK'
  BY <1>1, <1>2, <1>3, <1>4, <1>5, <1>8 DEF Base, TypeOK
<1>10. WorkInv'
  BY <1>1, <1>2, <1>6, <1>7, <1>8 DEF Base, WorkInv
<1> QED
  BY <1>9, <1>10 DEF Base

LEMMA UnlockBase == Base /\ Unlock => Base'
<1> SUFFICES ASSUME Base, Unlock PROVE Base'
  OBVIOUS
<1> DEFINE keys == {Key(waves[i]) : i \in {i \in DOMAIN waves : waves'[i] # waves[i]}}
<1>1. waves' = EvaluateUnlocks(waves, completed) /\ pending' = [type |-> "waves_unlocked", keys |-> keys]
  BY DEF Unlock, Returns
<1>2. /\ running /\ running' = running
      /\ UNCHANGED <<replayed, late, faults, completed, apart, changes>>
  BY DEF Unlock, Returns, Ready
<1>3. waves \in Seq(Wave) /\ Distinct(waves)
  BY DEF Base, TypeOK, WorkInv
<1>4. keys \subseteq Keys
  BY <1>3, KeysAreKeys DEF KeysOf
<1> HIDE DEF keys
<1>5. waves' \in Seq(Wave) /\ DOMAIN waves' = DOMAIN waves
      /\ \A i \in DOMAIN waves : Key(waves'[i]) = Key(waves[i])
  BY <1>1, <1>3, UnlocksAre DEF Kin
<1>6. Distinct(waves')
  BY <1>3, <1>5, KinKeys
<1>7. BuildCompletedWaveMap(waves') = BuildCompletedWaveMap(waves)
  BY <1>1, <1>3, DoneUnlocked
<1>8. pending'.type = "waves_unlocked" /\ pending'.keys = keys /\ Pending(pending')
  BY <1>1, <1>4 DEF Pending
<1>9. TypeOK'
  BY <1>2, <1>5, <1>8 DEF Base, TypeOK
<1>10. WorkInv'
  BY <1>2, <1>6, <1>7, <1>8 DEF Base, WorkInv
<1> QED
  BY <1>9, <1>10 DEF Base

LEMMA ModifyBase == Base /\ Modify => Base'
<1> SUFFICES ASSUME Base, Modify PROVE Base'
  OBVIOUS
<1>1. PICK w \in AvailableWaves(waves, completed), m \in Modifications :
        LET updated == ApplyModifiedWave(w, m, completed)
        IN  /\ waves' = PropagateWaveUpdate(waves, updated)
            /\ pending' = [type |-> "wave_modified", wave |-> BuildWaveStates(<<updated>>)[1]]
  BY DEF Modify, Returns
<1> DEFINE v == ApplyModifiedWave(w, m, completed)
           s == BuildWaveStates(<<v>>)[1]
<1>2. /\ running /\ running' = running /\ changes' \in 0 .. MaxChanges
      /\ UNCHANGED <<replayed, late, faults, completed, apart>>
  <2>1. changes \in 0 .. MaxChanges /\ MaxChanges \in Nat
    BY BoundsAreNat DEF Base, TypeOK
  <2> QED
    BY <2>1 DEF Modify, Returns, Ready
<1>3. waves \in Seq(Wave) /\ Distinct(waves) /\ BuildCompletedWaveMap(waves) \subseteq completed
  BY DEF Base, TypeOK, WorkInv, Modify, Ready
<1>4. w \in Wave /\ Key(w) \notin completed
  BY <1>3, AvailableIs, DomainOf
<1>5. v \in Wave /\ Key(v) = Key(w) /\ v.status \in {"available", "locked"}
  BY <1>4, ModifiedIs
<1>6. waves' = PropagateWaveUpdate(waves, v) /\ pending' = [type |-> "wave_modified", wave |-> s]
  BY <1>1
<1> HIDE DEF v
<1>7. s \in SavedWave /\ Alike(s, v)
  <2> DEFINE one == <<v>>
             ss == BuildWaveStates(one)
  <2>1. one \in Seq(Wave) /\ DOMAIN one = 1 .. 1 /\ one[1] = v
    BY <1>5
  <2> HIDE DEF one
  <2>2. ss \in Seq(SavedWave) /\ DOMAIN ss = 1 .. 1 /\ Alike(ss[1], v)
    BY <2>1, SavedIs
  <2>3. ss[1] \in SavedWave
    BY <2>2, DomainOf
  <2> QED
    BY <2>2, <2>3 DEF one
<1> HIDE DEF s
<1>8. waves' \in Seq(Wave) /\ DOMAIN waves' = DOMAIN waves
      /\ \A i \in DOMAIN waves : Key(waves'[i]) = Key(waves[i])
  BY <1>3, <1>5, <1>6, PropagatedIs
<1>9. Distinct(waves')
  BY <1>3, <1>8, KinKeys
<1>10. BuildCompletedWaveMap(waves') = BuildCompletedWaveMap(waves)
  BY <1>3, <1>4, <1>5, <1>6, DonePropagated
<1>11. pending'.type = "wave_modified" /\ pending'.wave = s /\ Pending(pending')
  BY <1>6, <1>7 DEF Pending
<1>12. Key(s) \notin completed /\ s.status # "completed"
  BY <1>4, <1>5, <1>7 DEF Alike
<1>13. TypeOK'
  BY <1>2, <1>8, <1>11 DEF Base, TypeOK
<1>14. WorkInv'
  BY <1>2, <1>9, <1>10, <1>11, <1>12 DEF Base, WorkInv
<1> QED
  BY <1>13, <1>14 DEF Base

LEMMA MarkStalledBase == Base /\ MarkStalled => Base'
<1> SUFFICES ASSUME Base, MarkStalled PROVE Base'
  OBVIOUS
<1>1. PICK w \in AvailableWaves(waves, completed) :
        waves' = PropagateWaveUpdate(waves, [w EXCEPT !.status = "stalled"])
  BY DEF MarkStalled
<1> DEFINE v == [w EXCEPT !.status = "stalled"]
<1>2. /\ running /\ running' = running /\ changes' \in 0 .. MaxChanges
      /\ pending' = AuditEvent
      /\ UNCHANGED <<replayed, late, faults, completed, apart>>
  <2>1. changes \in 0 .. MaxChanges /\ MaxChanges \in Nat
    BY BoundsAreNat DEF Base, TypeOK
  <2> QED
    BY <2>1 DEF MarkStalled, Returns, Ready
<1>3. waves \in Seq(Wave) /\ Distinct(waves) /\ BuildCompletedWaveMap(waves) \subseteq completed
  BY DEF Base, TypeOK, WorkInv, MarkStalled, Ready
<1>4. w \in Wave /\ Key(w) \notin completed
  BY <1>3, AvailableIs, DomainOf
<1>5. v \in Wave /\ Key(v) = Key(w) /\ v.status = "stalled"
  BY <1>4, WavesKin DEF Statuses, Kin
<1>6. waves' = PropagateWaveUpdate(waves, v)
  BY <1>1
<1> HIDE DEF v
<1>7. waves' \in Seq(Wave) /\ DOMAIN waves' = DOMAIN waves
      /\ \A i \in DOMAIN waves : Key(waves'[i]) = Key(waves[i])
  BY <1>3, <1>5, <1>6, PropagatedIs
<1>8. Distinct(waves')
  BY <1>3, <1>7, KinKeys
<1>9. BuildCompletedWaveMap(waves') = BuildCompletedWaveMap(waves)
  BY <1>3, <1>4, <1>5, <1>6, DonePropagated
<1>10. pending'.type = "audit" /\ Pending(pending')
  BY <1>2 DEF Pending, AuditEvent
<1>11. TypeOK'
  BY <1>2, <1>7, <1>10 DEF Base, TypeOK
<1>12. WorkInv'
  BY <1>2, <1>8, <1>9, <1>10 DEF Base, WorkInv
<1> QED
  BY <1>11, <1>12 DEF Base

LEMMA NextGenBase == Base /\ NextGen => Base'
<1> SUFFICES ASSUME Base, NextGen PROVE Base'
  OBVIOUS
<1>1. PICK new \in FollowUps :
        /\ KeysOf(new) \cap KeysOf(waves) = {}
        /\ pending' = [type |-> "nextgen_waves_added", waves |-> BuildWaveStates(Prepared(new))]
  BY DEF NextGen, Returns
<1>2. /\ running /\ running' = running
      /\ UNCHANGED <<replayed, late, faults, waves, completed, apart, changes>>
  BY DEF NextGen, Returns, Ready
<1> DEFINE ws == Prepared(new)
           ss == BuildWaveStates(ws)
<1>3. ws \in Seq(Wave) /\ Fresh(ws) /\ Distinct(ws) /\ KeysOf(ws) \cap KeysOf(waves) = {}
  BY <1>1, PreparedIs
<1> HIDE DEF ws
<1>4. /\ ss \in Seq(SavedWave) /\ BuildCompletedWaveMap(ss) = {}
      /\ Distinct(ss) /\ KeysOf(waves) \cap KeysOf(ss) = {}
  <2>1. /\ ss \in Seq(SavedWave) /\ DOMAIN ss = DOMAIN ws
        /\ \A i \in DOMAIN ws : Key(ss[i]) = Key(ws[i])
    BY <1>3, SavedIs DEF Alike
  <2>2. BuildCompletedWaveMap(ss) = {}
    BY <1>3, DoneSaved, DoneFresh
  <2> HIDE DEF ss
  <2>3. Distinct(ss) /\ KeysOf(ss) = KeysOf(ws)
    BY <1>3, <2>1, KinKeys
  <2> QED
    BY <1>3, <2>1, <2>2, <2>3
<1> HIDE DEF ss
<1>5. pending'.type = "nextgen_waves_added" /\ pending'.waves = ss
  BY <1>1 DEF ws, ss
<1>6. Pending(pending')
  BY <1>4, <1>5 DEF Pending
<1>7. TypeOK'
  BY <1>2, <1>6 DEF Base, TypeOK
<1>8. WorkInv'
  BY <1>2, <1>4, <1>5 DEF Base, WorkInv
<1> QED
  BY <1>7, <1>8 DEF Base

LEMMA RescanBase == Base /\ Rescan => Base'
<1> SUFFICES ASSUME Base, Rescan PROVE Base'
  OBVIOUS
<1>1. PICK scan \in Rescans : waves' = Rescanned(scan)
  BY DEF Rescan
<1>2. /\ running /\ running' = running /\ changes' \in 0 .. MaxChanges
      /\ apart' = TRUE /\ UNCHANGED <<replayed, late, faults, completed>>
      /\ pending' = [type |-> "waves_generated", waves |-> BuildWaveStates(waves')]
  <2>1. changes \in 0 .. MaxChanges /\ MaxChanges \in Nat
    BY BoundsAreNat DEF Base, TypeOK
  <2> QED
    BY <2>1 DEF Rescan, Returns, Ready
<1>3. waves \in Seq(Wave) /\ Distinct(waves) /\ BuildCompletedWaveMap(waves) \subseteq completed
  BY DEF Base, TypeOK, WorkInv, Rescan, Ready
<1>4. /\ waves' \in Seq(Wave) /\ Distinct(waves')
      /\ BuildCompletedWaveMap(waves') \subseteq completed
  BY <1>1, <1>3, RescannedIs
<1>5. /\ pending'.type = "waves_generated" /\ pending'.waves = BuildWaveStates(waves')
      /\ pending'.waves \in Seq(SavedWave)
      /\ BuildCompletedWaveMap(pending'.waves) \subseteq completed
  BY <1>2, <1>4, SavedIs, DoneSaved
<1>6. Pending(pending')
  BY <1>5 DEF Pending
<1>7. TypeOK'
  BY <1>2, <1>4, <1>6 DEF Base, TypeOK
<1>8. WorkInv'
  BY <1>2, <1>4, <1>5 DEF Base, WorkInv
<1> QED
  BY <1>7, <1>8 DEF Base

(* Storing the event that is pending; what is complete stays.              *)
LEMMA ReplayBase ==
  ASSUME Base, running, NEW ns, ns = Replay(replayed, pending)
  PROVE  /\ ns \in Seq(SavedWave) /\ Distinct(ns)
         /\ BuildCompletedWaveMap(replayed) \subseteq BuildCompletedWaveMap(ns)
         /\ BuildCompletedWaveMap(ns) \subseteq completed
<1>1. /\ replayed \in Seq(SavedWave) /\ Distinct(replayed) /\ Pending(pending)
      /\ BuildCompletedWaveMap(replayed) \subseteq completed
      /\ pending.type \in {"waves_generated", "nextgen_waves_added"} =>
           BuildCompletedWaveMap(pending.waves) \subseteq completed
      /\ pending.type = "wave_completed" => pending.key \in completed
      /\ pending.type = "wave_modified" => /\ Key(pending.wave) \notin completed
                                           /\ pending.wave.status # "completed"
  BY DEF Base, TypeOK, WorkInv
<1>2. pending.type = "wave_modified" =>
        Key(pending.wave) \notin BuildCompletedWaveMap(replayed) /\ pending.wave.status # "completed"
  BY <1>1
<1> QED
  BY <1>1, <1>2, ReplayIs

LEMMA CameLateIs ==
  ASSUME Base PROVE CameLate \subseteq Keys
<1>1. CameLate \subseteq KeysOf(replayed)
  BY DEF CameLate, KeysOf
<1> QED
  BY <1>1, KeysAreKeys DEF Base, TypeOK

LEMMA StoreBase == Base /\ Store => Base'
<1> SUFFICES ASSUME Base, Store PROVE Base'
  OBVIOUS
<1>1. /\ running /\ running' = running /\ pending' = NoEvent
      /\ replayed' = Replay(replayed, pending) /\ late' = late \cup CameLate
      /\ UNCHANGED <<completed, apart, faults, changes>>
  BY DEF Store
<1>2. /\ replayed' \in Seq(SavedWave) /\ Distinct(replayed')
      /\ BuildCompletedWaveMap(replayed') \subseteq completed
  BY <1>1, ReplayBase
<1>3. /\ waves \in Seq(Wave) /\ Distinct(waves)
      /\ BuildCompletedWaveMap(waves) \subseteq completed
  BY <1>1 DEF Base, TypeOK, WorkInv
<1>4. waves' \in Seq(Wave) /\ Distinct(waves') /\ BuildCompletedWaveMap(waves') \subseteq completed
  <2>1. CASE pending.type # "nextgen_waves_added"
    BY <1>3, <2>1 DEF Store
  <2>2. CASE pending.type = "nextgen_waves_added"
    <3> DEFINE new == RestoreWaves(pending.waves)
    <3>1. /\ pending.waves \in Seq(SavedWave)
          /\ BuildCompletedWaveMap(pending.waves) \subseteq completed
      BY <2>2 DEF Base, TypeOK, WorkInv, Pending, NoEvent, AuditEvent
    <3>2. Distinct(pending.waves) /\ KeysOf(waves) \cap KeysOf(pending.waves) = {}
      BY <2>2 DEF Base, WorkInv
    <3>3. /\ new \in Seq(Wave) /\ DOMAIN new = DOMAIN pending.waves
          /\ \A i \in DOMAIN new : Alike(new[i], pending.waves[i])
      BY <3>1, RestoredIs
    <3> HIDE DEF new
    <3>4. Distinct(new) /\ KeysOf(new) = KeysOf(pending.waves)
      BY <3>2, <3>3, KinKeys DEF Alike
    <3>5. BuildCompletedWaveMap(new) = BuildCompletedWaveMap(pending.waves)
      BY <3>3, SameDone DEF Alike
    <3>6. waves' = waves \o new
      BY <2>2 DEF Store, new
    <3> DEFINE ws == waves
               all == Behind(ws, new)
    <3>7. ws \in Seq(Wave)
      BY <1>3
    <3>8. all = Behind(ws, new)
      OBVIOUS
    <3> HIDE DEF ws, all
    <3>9. /\ all \in Seq(Wave)
          /\ BuildCompletedWaveMap(all) \subseteq BuildCompletedWaveMap(ws) \cup BuildCompletedWaveMap(new)
      BY <3>7, <3>8, <3>3, Appended
    <3>10. Distinct(all)
      <4>1. Distinct(ws) /\ Distinct(new) /\ KeysOf(ws) \cap KeysOf(new) = {}
        BY <1>3, <3>2, <3>4 DEF ws
      <4> QED
        BY <4>1, <3>7, <3>8, <3>3, Appended
    <3>11. /\ all \in Seq(Wave) /\ Distinct(all)
          /\ BuildCompletedWaveMap(all) \subseteq completed
      BY <1>3, <3>1, <3>5, <3>9, <3>10 DEF ws
    <3> QED
      BY <3>6, <3>11 DEF all, ws, Behind
  <2> QED
    BY <2>1, <2>2
<1>5. late' \subseteq Keys
  BY <1>1, CameLateIs DEF Base, TypeOK
<1>6. Pending(pending') /\ pending'.type = "none"
  BY <1>1 DEF Pending, NoEvent
<1>7. TypeOK'
  BY <1>1, <1>2, <1>4, <1>5, <1>6 DEF Base, TypeOK
<1>8. WorkInv'
  BY <1>1, <1>2, <1>4, <1>6 DEF Base, WorkInv
<1> QED
  BY <1>7, <1>8 DEF Base

LEMMA StoreFailsBase == Base /\ StoreFails => Base'
<1> SUFFICES ASSUME Base, StoreFails PROVE Base'
  OBVIOUS
<1>1. /\ running /\ running' = running /\ pending' = NoEvent
      /\ replayed' = Replay(replayed, pending) \/ replayed' = replayed
      /\ apart' = TRUE /\ faults' \in 0 .. MaxFaults
      /\ UNCHANGED <<waves, completed, late, changes>>
  <2>1. faults \in 0 .. MaxFaults /\ MaxFaults \in Nat
    BY BoundsAreNat DEF Base, TypeOK
  <2> QED
    BY <2>1 DEF StoreFails
<1>2. /\ replayed' \in Seq(SavedWave) /\ Distinct(replayed')
      /\ BuildCompletedWaveMap(replayed') \subseteq completed
  <2>1. CASE replayed' = Replay(replayed, pending)
    BY <1>1, <2>1, ReplayBase
  <2>2. CASE replayed' = replayed
    BY <1>1, <2>2 DEF Base, TypeOK, WorkInv
  <2> QED
    BY <1>1, <2>1, <2>2
<1>3. Pending(pending') /\ pending'.type = "none"
  BY <1>1 DEF Pending, NoEvent
<1>4. TypeOK'
  BY <1>1, <1>2, <1>3 DEF Base, TypeOK
<1>5. WorkInv'
  BY <1>1, <1>2, <1>3 DEF Base, WorkInv
<1> QED
  BY <1>4, <1>5 DEF Base

LEMMA CrashBase == Base /\ Crash => Base'
<1> SUFFICES ASSUME Base, Crash PROVE Base'
  OBVIOUS
<1>1. /\ running' = FALSE /\ waves' = <<>> /\ completed' = {} /\ pending' = NoEvent
      /\ faults' \in 0 .. MaxFaults /\ UNCHANGED <<replayed, apart, late, changes>>
  <2>1. faults \in 0 .. MaxFaults /\ MaxFaults \in Nat
    BY BoundsAreNat DEF Base, TypeOK
  <2> QED
    BY <2>1 DEF Crash
<1>2. waves' \in Seq(Wave)
  BY <1>1
<1>3. Pending(pending') /\ pending'.type = "none"
  BY <1>1 DEF Pending, NoEvent
<1>4. TypeOK'
  BY <1>1, <1>2, <1>3 DEF Base, TypeOK
<1>5. WorkInv'
  BY <1>1, <1>3, NoDone DEF Base, WorkInv
<1> QED
  BY <1>4, <1>5 DEF Base

LEMMA ResumeBase == Base /\ Resume => Base'
<1> SUFFICES ASSUME Base, Resume PROVE Base'
  OBVIOUS
<1>1. /\ ~running /\ running' = TRUE /\ waves' = Resumed(replayed)
      /\ completed' = BuildCompletedWaveMap(waves')
      /\ UNCHANGED <<pending, replayed, apart, late, faults, changes>>
  BY DEF Resume
<1>2. replayed \in Seq(SavedWave) /\ Distinct(replayed) /\ pending = NoEvent
  BY <1>1 DEF Base, TypeOK, WorkInv
<1>3. /\ waves' \in Seq(Wave) /\ KeysOf(waves') = KeysOf(replayed) /\ Distinct(waves')
      /\ BuildCompletedWaveMap(waves') = BuildCompletedWaveMap(replayed)
  BY <1>1, <1>2, ResumedIs
<1>4. completed' \subseteq Keys
  BY <1>1, <1>3, DoneIs, KeysAreKeys
<1>5. pending'.type = "none"
  BY <1>1, <1>2 DEF NoEvent
<1>6. TypeOK'
  BY <1>1, <1>3, <1>4 DEF Base, TypeOK
<1>7. WorkInv'
  BY <1>1, <1>2, <1>3, <1>5 DEF Base, WorkInv
<1> QED
  BY <1>6, <1>7 DEF Base

LEMMA StepBase == Base /\ [Next]_vars => Base'
<1> SUFFICES ASSUME Base, [Next]_vars PROVE Base'
  OBVIOUS
<1>1. CASE UNCHANGED vars
  BY <1>1 DEF vars, Base, TypeOK, WorkInv
<1> QED
  BY <1>1, GenerateBase, AuditBase, CompleteBase, UnlockBase, ModifyBase, MarkStalledBase,
     NextGenBase, RescanBase, StoreBase, StoreFailsBase, CrashBase, ResumeBase DEF Next

(* What holds of every state: the types, and that work is accounted for.   *)
LEMMA BaseHolds == Spec => []Base
BY InitBase, StepBase, PTL DEF Spec

(* Every prerequisite, in memory and in the ledger, is a full key, and     *)
(* every wave is one that the types describe.                              *)
THEOREM TypeCorrect == Spec => []TypeOK
<1>1. Base => TypeOK
  BY DEF Base
<1> QED
  BY <1>1, BaseHolds, PTL

(* Completed work stays completed, in the ledger for ever and in memory as *)
(* long as the wave is listed: for every plan, rescan and modification.    *)
THEOREM WorkIsKeptHolds == Spec => WorkIsKept
<1> DEFINE Keeps ==
      /\ BuildCompletedWaveMap(replayed) \subseteq BuildCompletedWaveMap(replayed')
      /\ running' => BuildCompletedWaveMap(waves) \cap KeysOf(waves')
                        \subseteq BuildCompletedWaveMap(waves')
<1>1. Base /\ [Next]_vars => [Keeps]_vars
  <2> SUFFICES ASSUME Base, Next PROVE Keeps
    BY DEF vars
  <2>1. /\ waves \in Seq(Wave) /\ Distinct(waves)
        /\ running => BuildCompletedWaveMap(waves) \subseteq completed
        /\ ~running => waves = <<>>
    BY DEF Base, TypeOK, WorkInv
  <2>2. ASSUME waves' = waves PROVE BuildCompletedWaveMap(waves) \subseteq BuildCompletedWaveMap(waves')
    BY <2>2
  <2>3. CASE Generate
    BY <2>3, NoDone DEF Generate, Returns
  <2>4. CASE Audit \/ NextGen
    BY <2>4 DEF Audit, NextGen, Returns
  <2>5. CASE Complete
    <3>1. PICK w \in AvailableWaves(waves, completed) : waves' = CompleteFirst(waves, Key(w))
      BY <2>5 DEF Complete
    <3>2. BuildCompletedWaveMap(waves) \subseteq BuildCompletedWaveMap(waves')
      BY <2>1, <3>1, DoneComplete
    <3> QED
      BY <2>5, <3>2 DEF Complete, Returns
  <2>6. CASE Unlock
    <3>1. BuildCompletedWaveMap(waves') = BuildCompletedWaveMap(waves)
      BY <2>1, <2>6, DoneUnlocked DEF Unlock
    <3> QED
      BY <2>6, <3>1 DEF Unlock, Returns
  <2>7. CASE Modify
    <3>1. PICK w \in AvailableWaves(waves, completed), m \in Modifications :
            waves' = PropagateWaveUpdate(waves, ApplyModifiedWave(w, m, completed))
      BY <2>7 DEF Modify
    <3> DEFINE v == ApplyModifiedWave(w, m, completed)
    <3>2. w \in Wave /\ Key(w) \notin completed
      BY <2>1, AvailableIs, DomainOf
    <3>3. v \in Wave /\ Key(v) = Key(w) /\ v.status # "completed"
      BY <3>2, ModifiedIs
    <3>4. waves' = PropagateWaveUpdate(waves, v)
      BY <3>1
    <3> HIDE DEF v
    <3>5. Key(v) \notin BuildCompletedWaveMap(waves)
      BY <2>1, <2>7, <3>2, <3>3 DEF Modify, Ready
    <3>6. BuildCompletedWaveMap(waves') = BuildCompletedWaveMap(waves)
      BY <2>1, <3>3, <3>4, <3>5, DonePropagated
    <3> QED
      BY <2>7, <3>6 DEF Modify, Returns
  <2>8. CASE MarkStalled
    <3>1. PICK w \in AvailableWaves(waves, completed) :
            waves' = PropagateWaveUpdate(waves, [w EXCEPT !.status = "stalled"])
      BY <2>8 DEF MarkStalled
    <3> DEFINE v == [w EXCEPT !.status = "stalled"]
    <3>2. w \in Wave /\ Key(w) \notin completed
      BY <2>1, AvailableIs, DomainOf
    <3>3. v \in Wave /\ Key(v) = Key(w) /\ v.status # "completed"
      BY <3>2, WavesKin DEF Statuses, Kin
    <3>4. waves' = PropagateWaveUpdate(waves, v)
      BY <3>1
    <3> HIDE DEF v
    <3>5. Key(v) \notin BuildCompletedWaveMap(waves)
      BY <2>1, <2>8, <3>2, <3>3 DEF MarkStalled, Ready
    <3>6. BuildCompletedWaveMap(waves') = BuildCompletedWaveMap(waves)
      BY <2>1, <3>3, <3>4, <3>5, DonePropagated
    <3> QED
      BY <2>8, <3>6 DEF MarkStalled, Returns
  <2>9. CASE Rescan
    <3>1. PICK scan \in Rescans : waves' = Rescanned(scan)
      BY <2>9 DEF Rescan
    <3>2. completed \cap KeysOf(waves') \subseteq BuildCompletedWaveMap(waves')
      BY <2>1, <3>1, RescannedIs
    <3> QED
      BY <2>1, <2>9, <3>2 DEF Rescan, Returns, Ready
  <2>10. CASE Store
    <3>1. BuildCompletedWaveMap(replayed) \subseteq BuildCompletedWaveMap(replayed')
      BY <2>10, ReplayBase DEF Store
    <3>2. CASE pending.type # "nextgen_waves_added"
      BY <2>10, <3>1, <3>2 DEF Store
    <3>3. CASE pending.type = "nextgen_waves_added"
      <4> DEFINE new == RestoreWaves(pending.waves)
                 all == Behind(waves, new)
      <4>1. pending.waves \in Seq(SavedWave)
        BY <3>3 DEF Base, TypeOK, Pending, NoEvent, AuditEvent
      <4>2. new \in Seq(Wave)
        BY <4>1, RestoredIs
      <4>3. all = Behind(waves, new)
        OBVIOUS
      <4> HIDE DEF new, all
      <4>4. BuildCompletedWaveMap(waves) \subseteq BuildCompletedWaveMap(all)
        BY <2>1, <4>2, <4>3, Appended
      <4> QED
        BY <2>10, <3>1, <3>3, <4>4 DEF Store, new, all, Behind
    <3> QED
      BY <3>2, <3>3
  <2>11. CASE StoreFails
    <3>1. running /\ (replayed' = Replay(replayed, pending) \/ replayed' = replayed)
      BY <2>11 DEF StoreFails
    <3>2. BuildCompletedWaveMap(replayed) \subseteq BuildCompletedWaveMap(replayed')
      BY <3>1, ReplayBase
    <3> QED
      BY <2>11, <3>2 DEF StoreFails
  <2>12. CASE Crash
    BY <2>12 DEF Crash
  <2>13. CASE Resume
    BY <2>1, <2>13, NoDone DEF Resume
  <2> QED
    BY <2>3, <2>4, <2>5, <2>6, <2>7, <2>8, <2>9, <2>10, <2>11, <2>12, <2>13 DEF Next
<1> QED
  BY <1>1, BaseHolds, PTL DEF Spec, WorkIsKept

(* A session that resumes a plan without cycles has a wave to work on,     *)
(* unless all is complete: whichever wave of those not complete comes      *)
(* first waits only for complete ones, and is unlocked.                    *)
THEOREM ResumeUnsticksHolds == Spec => ResumeUnsticks
<1> DEFINE Unsticks ==
      ~running /\ running' /\ Acyclic(waves') /\ Unfinished(waves') # {} =>
        \E i \in Unfinished(waves') : waves'[i].status # "locked"
<1>1. Base /\ [Next]_vars => [Unsticks]_vars
  <2> SUFFICES ASSUME Base, Next, ~running, running', Acyclic(waves'), Unfinished(waves') # {}
               PROVE  \E i \in Unfinished(waves') : waves'[i].status # "locked"
    BY DEF vars
  <2>1. waves' = Resumed(replayed)
    BY DEF Next, Generate, Audit, Complete, Unlock, Modify, MarkStalled, NextGen, Rescan,
           Store, StoreFails, Crash, Resume, Ready
  <2> DEFINE S == Unfinished(waves')
             ws == waves'
             done == BuildCompletedWaveMap(replayed)
  <2>2. /\ DOMAIN ws = DOMAIN replayed
        /\ \A i \in DOMAIN replayed :
             /\ Key(ws[i]) = Key(replayed[i])
             /\ ws[i].prereqs = replayed[i].prereqs \cap KeysOf(replayed)
             /\ ws[i].status =
                  IF replayed[i].status = "locked"
                       /\ replayed[i].prereqs \cap KeysOf(replayed) \subseteq done
                  THEN "available" ELSE replayed[i].status
        /\ KeysOf(ws) = KeysOf(replayed) /\ BuildCompletedWaveMap(ws) = done
    BY <2>1, ResumedIs DEF Base, TypeOK
  <2>3. S \in (SUBSET DOMAIN ws) \ {{}}
    BY DEF Unfinished
  <2>4. PICK i \in S : \A j \in S : Key(ws[j]) \notin ws[i].prereqs
    BY <2>3 DEF Acyclic
  <2> HIDE DEF done, ws
  <2>5. ws[i].prereqs \subseteq done
    <3> SUFFICES ASSUME NEW k \in ws[i].prereqs PROVE k \in done
      OBVIOUS
    <3>1. i \in DOMAIN ws /\ k \in KeysOf(ws)
      BY <2>2, <2>3
    <3>2. PICK j \in DOMAIN ws : Key(ws[j]) = k
      BY <3>1 DEF KeysOf
    <3>3. j \notin S
      BY <2>4, <3>2
    <3>4. ws[j].status = "completed"
      BY <3>2, <3>3 DEF Unfinished, ws
    <3>5. k \in BuildCompletedWaveMap(ws)
      BY <3>2, <3>4, DoneIs
    <3> QED
      BY <2>2, <3>5
  <2>6. ws[i].status # "locked"
    BY <2>2, <2>3, <2>5
  <2> QED
    BY <2>4, <2>6 DEF ws
<1> QED
  BY <1>1, BaseHolds, PTL DEF Spec, ResumeUnsticks

---------------------------------------------------------------------------
(* As long as no append was lost, the ledger mirrors memory.               *)

(* What the two may differ in: memory may let a wave go that the ledger    *)
(* has locked, it may mark it stalled, and it may have dropped             *)
(* prerequisites that no wave has, unless one came late.                   *)
Twins(r, m, known, tardy) ==
  /\ Key(r) = Key(m) /\ r.actions = m.actions
  /\ m.prereqs \subseteq r.prereqs
  /\ Key(m) \notin tardy => (r.prereqs \ m.prereqs) \cap known = {}
  /\ r.status = "completed" <=> m.status = "completed"
  /\ m.status = "locked" => r.status = "locked"
  /\ r.status # "stalled"

Paired(rs, ms, tardy) ==
  /\ DOMAIN rs = DOMAIN ms
  /\ \A i \in DOMAIN ms : Twins(rs[i], ms[i], KeysOf(ms), tardy)

(* What was let go, in memory and as a resumed session would see it.       *)
Offered(ms, done, tardy) ==
  \A i \in DOMAIN ms :
    ms[i].status \in {"available", "stalled"} /\ Key(ms[i]) \notin tardy
      => ms[i].prereqs \subseteq done

Stored(rs, tardy) ==
  \A i \in DOMAIN rs :
    /\ rs[i].status # "stalled"
    /\ rs[i].status = "available" /\ Key(rs[i]) \notin tardy
         => rs[i].prereqs \cap KeysOf(rs) \subseteq BuildCompletedWaveMap(rs)

(* Follow-up waves that are to be added ask for nothing twice.             *)
Once(ws, done, ms) ==
  \A n \in DOMAIN ws : \A a \in ToSet(ws[n].actions) :
    a.own \/ a.issue \notin CollectSpecSentIssueIDs(done, ms)

(* The ledger's waves once the pending change of one of them is stored.    *)
Ledger == IF pending.type = "nextgen_waves_added" THEN replayed
          ELSE Replay(replayed, pending)

MirrorInv ==
  ~apart =>
    /\ Stored(replayed, late)
    /\ running => /\ Paired(Ledger, waves, late)
                  /\ Offered(waves, completed, late)
                  /\ completed \subseteq BuildCompletedWaveMap(waves)
    /\ pending.type = "nextgen_waves_added" =>
         Fresh(pending.waves) /\ Once(pending.waves, completed, waves)

LEMMA PairKnows ==
  ASSUME NEW rs, NEW ms, NEW tardy, Paired(rs, ms, tardy)
  PROVE  /\ KeysOf(rs) = KeysOf(ms)
         /\ BuildCompletedWaveMap(rs) = BuildCompletedWaveMap(ms)
<1>1. /\ DOMAIN rs = DOMAIN ms /\ \A i \in DOMAIN ms : Key(rs[i]) = Key(ms[i])
      /\ \A i \in DOMAIN ms : rs[i].status = "completed" <=> ms[i].status = "completed"
  BY DEF Paired, Twins
<1> QED
  BY <1>1, KinKeys, SameDone

LEMMA PairStays ==
  ASSUME NEW rs, NEW ms, NEW done, NEW early, NEW tardy, early \subseteq tardy
  PROVE  /\ Paired(rs, ms, early) => Paired(rs, ms, tardy)
         /\ Offered(ms, done, early) => Offered(ms, done, tardy)
BY DEF Paired, Twins, Offered

LEMMA PairStored ==
  ASSUME NEW rs, NEW ms \in Seq(Wave), NEW tardy, Paired(rs, ms, tardy),
         Offered(ms, BuildCompletedWaveMap(ms), tardy)
  PROVE  Stored(rs, tardy)
<1>1. KeysOf(rs) = KeysOf(ms) /\ BuildCompletedWaveMap(rs) = BuildCompletedWaveMap(ms)
  BY PairKnows
<1> SUFFICES ASSUME NEW i \in DOMAIN rs
             PROVE  /\ rs[i].status # "stalled"
                    /\ rs[i].status = "available" /\ Key(rs[i]) \notin tardy
                         => rs[i].prereqs \cap KeysOf(ms) \subseteq BuildCompletedWaveMap(ms)
  BY <1>1 DEF Stored
<1>2. i \in DOMAIN ms /\ Twins(rs[i], ms[i], KeysOf(ms), tardy)
  BY DEF Paired
<1>3. ms[i].status \in Statuses
  <2>1. ms[i] \in Wave
    BY <1>2, DomainOf
  <2> QED
    BY <2>1 DEF Wave
<1>4. ASSUME rs[i].status = "available", Key(rs[i]) \notin tardy
      PROVE  rs[i].prereqs \cap KeysOf(ms) \subseteq BuildCompletedWaveMap(ms)
  <2>1. ms[i].status \in {"available", "stalled"} /\ Key(ms[i]) \notin tardy
    BY <1>2, <1>3, <1>4 DEF Twins, Statuses
  <2>2. ms[i].prereqs \subseteq BuildCompletedWaveMap(ms)
    BY <1>2, <2>1 DEF Offered
  <2>3. rs[i].prereqs \cap KeysOf(ms) \subseteq ms[i].prereqs
    BY <1>2, <2>1 DEF Twins
  <2> QED
    BY <2>2, <2>3
<1> QED
  BY <1>2, <1>4 DEF Twins

LEMMA PairSaved ==
  ASSUME NEW ms \in Seq(Wave), Fresh(ms), NEW done, NEW tardy
  PROVE  Paired(BuildWaveStates(ms), ms, tardy) /\ Offered(ms, done, tardy)
<1> DEFINE rs == BuildWaveStates(ms)
<1>1. DOMAIN rs = DOMAIN ms /\ \A i \in DOMAIN ms : Alike(rs[i], ms[i])
  BY SavedIs
<1> HIDE DEF rs
<1>2. Paired(rs, ms, tardy)
  BY <1>1 DEF Paired, Twins, Alike, Fresh
<1>3. Offered(ms, done, tardy)
  BY DEF Offered, Fresh
<1> QED
  BY <1>2, <1>3 DEF rs

LEMMA PairResumed ==
  ASSUME NEW rs \in Seq(SavedWave), NEW tardy, Stored(rs, tardy),
         NEW ms, ms = Resumed(rs)
  PROVE  Paired(rs, ms, tardy) /\ Offered(ms, BuildCompletedWaveMap(ms), tardy)
<1> DEFINE known == KeysOf(rs)
           done == BuildCompletedWaveMap(rs)
<1>1. /\ DOMAIN ms = DOMAIN rs
      /\ \A i \in DOMAIN rs :
           /\ Key(ms[i]) = Key(rs[i]) /\ ms[i].actions = rs[i].actions
           /\ ms[i].prereqs = rs[i].prereqs \cap known
           /\ ms[i].status = IF rs[i].status = "locked" /\ rs[i].prereqs \cap known \subseteq done
                             THEN "available" ELSE rs[i].status
      /\ KeysOf(ms) = known /\ BuildCompletedWaveMap(ms) = done
  BY ResumedIs
<1>2. \A i \in DOMAIN rs : /\ rs[i].status # "stalled"
                           /\ rs[i].status = "available" /\ Key(rs[i]) \notin tardy
                                => rs[i].prereqs \cap known \subseteq done
  BY DEF Stored
<1> HIDE DEF known, done
<1>3. Paired(rs, ms, tardy)
  BY <1>1, <1>2 DEF Paired, Twins
<1>4. Offered(ms, done, tardy)
  BY <1>1, <1>2 DEF Offered
<1> QED
  BY <1>1, <1>3, <1>4

LEMMA PairComplete ==
  ASSUME NEW rs \in Seq(SavedWave), NEW ms \in Seq(Wave), Distinct(rs), Distinct(ms),
         NEW tardy, Paired(rs, ms, tardy), NEW done, Offered(ms, done, tardy), NEW key,
         NEW qs, qs = CompleteFirst(rs, key), NEW ns, ns = CompleteFirst(ms, key)
  PROVE  Paired(qs, ns, tardy) /\ Offered(ns, done \cup {key}, tardy)
<1>1. /\ DOMAIN qs = DOMAIN rs
      /\ \A i \in DOMAIN rs :
           /\ Kin(qs[i], rs[i])
           /\ qs[i].status = IF Key(rs[i]) = key THEN "completed" ELSE rs[i].status
  BY CompleteIs, FirstIs
<1>2. /\ DOMAIN ns = DOMAIN ms
      /\ \A i \in DOMAIN ms :
           /\ Kin(ns[i], ms[i])
           /\ ns[i].status = IF Key(ms[i]) = key THEN "completed" ELSE ms[i].status
  BY CompleteIs, FirstIs
<1>3. KeysOf(ns) = KeysOf(ms)
  BY <1>2, KinKeys DEF Kin
<1>4. Paired(qs, ns, tardy)
  BY <1>1, <1>2, <1>3 DEF Paired, Twins, Kin
<1>5. Offered(ns, done \cup {key}, tardy)
  BY <1>2 DEF Offered, Kin
<1> QED
  BY <1>4, <1>5

LEMMA PairUnlocked ==
  ASSUME NEW rs \in Seq(SavedWave), NEW ms \in Seq(Wave), Distinct(ms),
         NEW tardy, Paired(rs, ms, tardy), NEW done, Offered(ms, done, tardy),
         NEW ns, ns = EvaluateUnlocks(ms, done),
         NEW keys, keys = {Key(ms[i]) : i \in {i \in DOMAIN ms : ns[i] # ms[i]}},
         NEW qs, qs = UnlockAll(rs, keys)
  PROVE  Paired(qs, ns, tardy) /\ Offered(ns, done, tardy)
<1>1. /\ DOMAIN qs = DOMAIN rs
      /\ \A i \in DOMAIN rs :
           /\ Kin(qs[i], rs[i])
           /\ qs[i].status = IF Key(rs[i]) \in keys /\ rs[i].status = "locked"
                             THEN "available" ELSE rs[i].status
  BY UnlockedIs
<1>2. /\ DOMAIN ns = DOMAIN ms
      /\ \A i \in DOMAIN ms :
           /\ Kin(ns[i], ms[i])
           /\ ns[i].status = IF ms[i].status = "locked" /\ ms[i].prereqs \subseteq done
                             THEN "available" ELSE ms[i].status
           /\ ns[i].status = ms[i].status => ns[i] = ms[i]
  BY UnlocksAre
<1>3. KeysOf(ns) = KeysOf(ms)
  BY <1>2, KinKeys DEF Kin
<1>4. \A i \in DOMAIN ms : ns[i] = ms[i] => Key(ms[i]) \notin keys
  BY DEF Distinct
<1>5. \A i \in DOMAIN ms : ns[i].status = "locked" => ns[i] = ms[i]
  BY <1>2
<1>6. DOMAIN rs = DOMAIN ms /\ \A i \in DOMAIN ms : Twins(rs[i], ms[i], KeysOf(ms), tardy)
  BY DEF Paired
<1>7. \A i \in DOMAIN ms : Twins(qs[i], ns[i], KeysOf(ms), tardy)
  <2> SUFFICES ASSUME NEW i \in DOMAIN ms PROVE Twins(qs[i], ns[i], KeysOf(ms), tardy)
    OBVIOUS
  <2>1. ns[i].status = "locked" => qs[i].status = "locked"
    BY <1>1, <1>4, <1>5, <1>6 DEF Twins
  <2>2. qs[i].status = "completed" <=> ns[i].status = "completed"
    BY <1>1, <1>2, <1>6 DEF Twins
  <2>3. qs[i].status # "stalled"
    BY <1>1, <1>6 DEF Twins
  <2> QED
    BY <1>1, <1>2, <1>6, <2>1, <2>2, <2>3 DEF Twins, Kin
<1>8. Paired(qs, ns, tardy)
  BY <1>1, <1>2, <1>3, <1>6, <1>7 DEF Paired
<1>9. Offered(ns, done, tardy)
  BY <1>2 DEF Offered, Kin
<1> QED
  BY <1>8, <1>9

LEMMA PairModified ==
  ASSUME NEW rs \in Seq(SavedWave), NEW ms \in Seq(Wave), Distinct(rs), Distinct(ms),
         NEW tardy, Paired(rs, ms, tardy), NEW done, Offered(ms, done, tardy),
         NEW v \in Wave, v.status \in {"available", "locked"},
         v.status = "available" => v.prereqs \subseteq done,
         NEW s \in SavedWave, Alike(s, v),
         NEW qs, qs = PropagateWaveUpdate(rs, s), NEW ns, ns = PropagateWaveUpdate(ms, v)
  PROVE  Paired(qs, ns, tardy) /\ Offered(ns, done, tardy)
<1>1. /\ DOMAIN qs = DOMAIN rs
      /\ \A i \in DOMAIN rs : /\ Key(rs[i]) = Key(s) => qs[i] = s
                              /\ Key(rs[i]) # Key(s) => qs[i] = rs[i]
  BY PropagatedThere
<1>2. /\ DOMAIN ns = DOMAIN ms
      /\ \A i \in DOMAIN ms : /\ Key(ms[i]) = Key(v) => ns[i] = v
                              /\ Key(ms[i]) # Key(v) => ns[i] = ms[i]
                              /\ Key(ns[i]) = Key(ms[i])
  BY PropagatedThere
<1>3. KeysOf(ns) = KeysOf(ms)
  BY <1>2, KinKeys
<1>4. DOMAIN rs = DOMAIN ms /\ \A i \in DOMAIN ms : Twins(rs[i], ms[i], KeysOf(ms), tardy)
  BY DEF Paired
<1>5. Twins(s, v, KeysOf(ms), tardy)
  BY DEF Twins, Alike
<1>6. \A i \in DOMAIN ms : Twins(qs[i], ns[i], KeysOf(ms), tardy)
  <2> SUFFICES ASSUME NEW i \in DOMAIN ms PROVE Twins(qs[i], ns[i], KeysOf(ms), tardy)
    OBVIOUS
  <2>1. Key(rs[i]) = Key(ms[i]) /\ Key(s) = Key(v)
    BY <1>4, <1>5 DEF Twins
  <2>2. CASE Key(ms[i]) = Key(v)
    <3>1. qs[i] = s /\ ns[i] = v
      BY <1>1, <1>2, <1>4, <2>1, <2>2
    <3> QED
      BY <1>5, <3>1
  <2>3. CASE Key(ms[i]) # Key(v)
    <3>1. qs[i] = rs[i] /\ ns[i] = ms[i]
      BY <1>1, <1>2, <1>4, <2>1, <2>3
    <3> QED
      BY <1>4, <3>1
  <2> QED
    BY <2>2, <2>3
<1>7. Paired(qs, ns, tardy)
  BY <1>1, <1>2, <1>3, <1>4, <1>6 DEF Paired
<1>8. Offered(ns, done, tardy)
  <2> SUFFICES ASSUME NEW i \in DOMAIN ms, ns[i].status \in {"available", "stalled"},
                      Key(ns[i]) \notin tardy
               PROVE  ns[i].prereqs \subseteq done
    BY <1>2 DEF Offered
  <2>1. ns[i] = v \/ ns[i] = ms[i]
    BY <1>2
  <2>2. CASE ns[i] = v
    BY <2>2
  <2>3. CASE ns[i] = ms[i]
    BY <2>3 DEF Offered
  <2> QED
    BY <2>1, <2>2, <2>3
<1> QED
  BY <1>7, <1>8

LEMMA PairMarked ==
  ASSUME NEW rs, NEW ms \in Seq(Wave), Distinct(ms),
         NEW tardy, Paired(rs, ms, tardy), NEW done, Offered(ms, done, tardy),
         NEW k \in DOMAIN ms, ms[k].status = "available",
         NEW v \in Wave, Kin(v, ms[k]), v.status = "stalled",
         NEW ns, ns = PropagateWaveUpdate(ms, v)
  PROVE  Paired(rs, ns, tardy) /\ Offered(ns, done, tardy)
<1>1. /\ DOMAIN ns = DOMAIN ms
      /\ \A i \in DOMAIN ms : /\ Key(ms[i]) = Key(v) => ns[i] = v
                              /\ Key(ms[i]) # Key(v) => ns[i] = ms[i]
                              /\ Key(ns[i]) = Key(ms[i])
  BY PropagatedThere
<1>2. KeysOf(ns) = KeysOf(ms)
  BY <1>1, KinKeys
<1>3. DOMAIN rs = DOMAIN ms /\ \A i \in DOMAIN ms : Twins(rs[i], ms[i], KeysOf(ms), tardy)
  BY DEF Paired
<1>4. \A i \in DOMAIN ms : (i = k /\ ns[i] = v) \/ ns[i] = ms[i]
  BY <1>1 DEF Distinct, Kin
<1>5. \A i \in DOMAIN ms : Twins(rs[i], ns[i], KeysOf(ms), tardy)
  <2> SUFFICES ASSUME NEW i \in DOMAIN ms PROVE Twins(rs[i], ns[i], KeysOf(ms), tardy)
    OBVIOUS
  <2>1. CASE i = k /\ ns[i] = v
    BY <1>3, <2>1 DEF Twins, Kin
  <2>2. CASE ns[i] = ms[i]
    BY <1>3, <2>2
  <2> QED
    BY <1>4, <2>1, <2>2
<1>6. Paired(rs, ns, tardy)
  BY <1>1, <1>2, <1>3, <1>5 DEF Paired
<1>7. Offered(ns, done, tardy)
  BY <1>1, <1>4 DEF Offered, Kin
<1> QED
  BY <1>6, <1>7

(* Follow-up waves are added on both sides; what waited for one of them    *)
(* without memory's knowing comes late.                                    *)
LEMMA PairAppended ==
  ASSUME NEW rs \in Seq(SavedWave), NEW ms \in Seq(Wave), NEW early, Paired(rs, ms, early),
         NEW done, Offered(ms, done, early),
         NEW ss \in Seq(SavedWave), Fresh(ss), NEW tardy, early \subseteq tardy,
         \A i \in DOMAIN rs : (rs[i].prereqs \ ms[i].prereqs) \cap KeysOf(ss) # {} =>
                                Key(rs[i]) \in tardy,
         NEW qs, qs = Behind(rs, ss), NEW ns, ns = Behind(ms, RestoreWaves(ss))
  PROVE  Paired(qs, ns, tardy) /\ Offered(ns, done, tardy)
<1> DEFINE new == RestoreWaves(ss)
<1>1. /\ new \in Seq(Wave) /\ DOMAIN new = DOMAIN ss
      /\ \A i \in DOMAIN ss : Alike(new[i], ss[i])
  BY RestoredIs
<1>2. ns = Behind(ms, new)
  OBVIOUS
<1> HIDE DEF new
<1>3. KeysOf(new) = KeysOf(ss)
  BY <1>1, KinKeys DEF Alike
<1>4. /\ Len(rs) \in Nat /\ DOMAIN rs = 1 .. Len(rs) /\ Len(ms) \in Nat /\ DOMAIN ms = 1 .. Len(ms)
      /\ Len(ss) \in Nat /\ DOMAIN ss = 1 .. Len(ss)
      /\ Len(new) \in Nat /\ DOMAIN new = 1 .. Len(new)
  BY <1>1, DomainOf
<1>5. DOMAIN rs = DOMAIN ms /\ \A i \in DOMAIN ms : Twins(rs[i], ms[i], KeysOf(ms), early)
  BY DEF Paired
<1>6. Len(rs) = Len(ms) /\ Len(ss) = Len(new)
  <2>1. \A m, n \in Nat : 1 .. m = 1 .. n => m = n
    <3> SUFFICES ASSUME NEW m \in Nat, NEW n \in Nat, 1 .. m = 1 .. n PROVE m = n
      OBVIOUS
    <3>1. Cardinality(1 .. m) = m /\ Cardinality(1 .. n) = n
      BY FS_Interval
    <3> QED
      BY <3>1
  <2> QED
    BY <1>1, <1>4, <1>5, <2>1, Zenon
<1>7. /\ DOMAIN qs = 1 .. Len(rs) + Len(ss)
      /\ \A i \in DOMAIN rs : qs[i] = rs[i]
      /\ \A i \in DOMAIN qs : i \notin DOMAIN rs => i - Len(rs) \in DOMAIN ss /\ qs[i] = ss[i - Len(rs)]
  <2>1. Joined(rs, ss, qs)
    BY Appended
  <2> QED
    BY <2>1 DEF Joined
<1>8. /\ DOMAIN ns = 1 .. Len(ms) + Len(new)
      /\ \A i \in DOMAIN ms : ns[i] = ms[i]
      /\ \A i \in DOMAIN ns : i \notin DOMAIN ms =>
           i - Len(ms) \in DOMAIN new /\ ns[i] = new[i - Len(ms)]
      /\ KeysOf(ns) \subseteq KeysOf(ms) \cup KeysOf(new)
  <2>1. Joined(ms, new, ns) /\ KeysOf(ns) \subseteq KeysOf(ms) \cup KeysOf(new)
    BY <1>1, <1>2, Appended
  <2> QED
    BY <2>1 DEF Joined
<1>9. DOMAIN qs = DOMAIN ns
  BY <1>6, <1>7, <1>8
<1>10. \A i \in DOMAIN ns : Twins(qs[i], ns[i], KeysOf(ns), tardy)
  <2> SUFFICES ASSUME NEW i \in DOMAIN ns PROVE Twins(qs[i], ns[i], KeysOf(ns), tardy)
    OBVIOUS
  <2>1. CASE i \in DOMAIN ms
    <3>1. qs[i] = rs[i] /\ ns[i] = ms[i] /\ Twins(rs[i], ms[i], KeysOf(ms), early)
      BY <1>5, <1>7, <1>8, <2>1
    <3>2. Key(ms[i]) \notin tardy => (rs[i].prereqs \ ms[i].prereqs) \cap KeysOf(ns) = {}
      <4> SUFFICES ASSUME Key(ms[i]) \notin tardy, NEW k \in rs[i].prereqs \ ms[i].prereqs
                   PROVE  k \notin KeysOf(ns)
        OBVIOUS
      <4>1. k \notin KeysOf(ms)
        BY <3>1 DEF Twins
      <4>2. k \notin KeysOf(ss)
        BY <1>5, <2>1, <3>1 DEF Twins
      <4> QED
        BY <1>3, <1>8, <4>1, <4>2
    <3> QED
      BY <3>1, <3>2 DEF Twins
  <2>2. CASE i \notin DOMAIN ms
    <3> DEFINE n == i - Len(ms)
    <3>1. n \in DOMAIN ss /\ qs[i] = ss[n] /\ ns[i] = new[n]
      BY <1>5, <1>6, <1>7, <1>8, <1>9, <1>1, <2>2
    <3> HIDE DEF n
    <3>2. Alike(ns[i], qs[i]) /\ qs[i].status # "stalled"
      BY <1>1, <3>1 DEF Fresh
    <3> QED
      BY <3>2 DEF Twins, Alike
  <2> QED
    BY <2>1, <2>2
<1>11. Paired(qs, ns, tardy)
  BY <1>9, <1>10 DEF Paired
<1>12. Offered(ns, done, tardy)
  <2> SUFFICES ASSUME NEW i \in DOMAIN ns, ns[i].status \in {"available", "stalled"},
                      Key(ns[i]) \notin tardy
               PROVE  ns[i].prereqs \subseteq done
    BY DEF Offered
  <2>1. CASE i \in DOMAIN ms
    BY <1>8, <2>1 DEF Offered
  <2>2. CASE i \notin DOMAIN ms
    <3> DEFINE n == i - Len(ms)
    <3>1. n \in DOMAIN ss /\ ns[i] = new[n]
      BY <1>1, <1>8, <2>2
    <3> HIDE DEF n
    <3>2. ns[i].prereqs = {}
      BY <1>1, <3>1 DEF Fresh, Alike
    <3> QED
      BY <3>2
  <2> QED
    BY <2>1, <2>2
<1> QED
  BY <1>11, <1>12

---------------------------------------------------------------------------
(* The mirror holds of every step.                                         *)
IInv == Base /\ MirrorInv

LEMMA InitMirror == Init => MirrorInv
<1> SUFFICES ASSUME Init PROVE MirrorInv
  OBVIOUS
<1>1. Ledger = <<>>
  BY DEF Init, Ledger, Replay, NoEvent
<1>2. Paired(<<>>, <<>>, late) /\ Offered(<<>>, completed, late) /\ Stored(<<>>, late)
  BY DEF Paired, Offered, Stored
<1>3. /\ replayed = <<>> /\ waves = <<>> /\ completed = {}
      /\ pending.type # "nextgen_waves_added"
  BY DEF Init, NoEvent
<1> QED
  BY <1>1, <1>2, <1>3 DEF MirrorInv

(* What is known when an operation starts.                                 *)
LEMMA ReadyMirror ==
  ASSUME IInv, Ready, ~apart
  PROVE  /\ replayed \in Seq(SavedWave) /\ waves \in Seq(Wave)
         /\ Distinct(replayed) /\ Distinct(waves)
         /\ Ledger = replayed /\ Stored(replayed, late)
         /\ Paired(replayed, waves, late) /\ Offered(waves, completed, late)
         /\ completed = BuildCompletedWaveMap(waves)
<1>1. pending.type = "none" /\ running
  BY DEF Ready, NoEvent
<1>2. Ledger = replayed
  BY <1>1 DEF Ledger, Replay
<1>3. completed = BuildCompletedWaveMap(waves)
  BY <1>1 DEF IInv, Base, WorkInv, MirrorInv
<1> QED
  BY <1>1, <1>2, <1>3 DEF IInv, Base, TypeOK, WorkInv, MirrorInv

LEMMA GenerateMirror == IInv /\ Generate => MirrorInv'
<1> SUFFICES ASSUME IInv, Generate, ~apart PROVE MirrorInv'
  BY DEF Generate, MirrorInv
<1>1. PICK plan \in Plans : waves' = MergeWaveResults(plan)
  BY DEF Generate
<1>2. waves' \in Seq(Wave) /\ Distinct(waves') /\ Fresh(waves')
  BY <1>1, ScannedIs
<1> DEFINE ss == BuildWaveStates(waves')
<1>3. /\ replayed = <<>> /\ waves = <<>> /\ Ready
      /\ UNCHANGED <<running, replayed, late, completed, apart>>
      /\ pending'.type = "waves_generated" /\ pending'.waves = ss
  BY DEF Generate, Returns
<1>4. Ledger' = AddUnseen(<<>>, ss)
  BY <1>3 DEF Ledger, Replay
<1>5. ss \in Seq(SavedWave) /\ DOMAIN ss = DOMAIN waves'
      /\ \A i \in DOMAIN waves' : Key(ss[i]) = Key(waves'[i])
  BY <1>2, SavedIs DEF Alike
<1>6. Paired(ss, waves', late) /\ Offered(waves', completed, late)
  BY <1>2, PairSaved
<1> HIDE DEF ss
<1>7. Distinct(ss)
  BY <1>2, <1>5, KinKeys
<1>8. AddUnseen(<<>>, ss) = ss
  <2>1. AddUnseen(<<>>, ss) = <<>> \o ss
    BY <1>5, <1>7, NoDone, AllAdded
  <2> QED
    BY <1>5, <2>1
<1>9. completed = {}
  BY <1>3, NoDone, ReadyMirror
<1>10. Stored(replayed', late')
  BY <1>3, ReadyMirror
<1> QED
  BY <1>3, <1>4, <1>6, <1>8, <1>9, <1>10 DEF MirrorInv

LEMMA AuditMirror == IInv /\ Audit => MirrorInv'
<1> SUFFICES ASSUME IInv, Audit, ~apart PROVE MirrorInv'
  BY DEF Audit, MirrorInv
<1>1. /\ Ready /\ pending'.type = "audit"
      /\ UNCHANGED <<running, replayed, late, waves, completed, apart>>
  BY DEF Audit, Returns, AuditEvent
<1>2. Ledger' = replayed
  BY <1>1 DEF Ledger, Replay
<1> QED
  BY <1>1, <1>2, ReadyMirror DEF MirrorInv

LEMMA CompleteMirror == IInv /\ Complete => MirrorInv'
<1> SUFFICES ASSUME IInv, Complete, ~apart PROVE MirrorInv'
  BY DEF Complete, MirrorInv
<1>1. PICK w \in AvailableWaves(waves, completed) :
        /\ waves' = CompleteFirst(waves, Key(w))
        /\ completed' = completed \cup {Key(w)}
        /\ pending' = [type |-> "wave_completed", key |-> Key(w)]
  BY DEF Complete, Returns
<1>2. Ready /\ UNCHANGED <<running, replayed, late, apart>>
  BY DEF Complete, Returns
<1> DEFINE key == Key(w)
           qs == CompleteFirst(replayed, key)
<1>3. Ledger' = qs /\ pending'.type = "wave_completed"
  BY <1>1, <1>2 DEF Ledger, Replay
<1>4. key \in KeysOf(waves)
  BY AvailableIs
<1>5. waves' = CompleteFirst(waves, key) /\ completed' = completed \cup {key}
  BY <1>1
<1> HIDE DEF key
<1>6. Paired(qs, waves', late) /\ Offered(waves', completed', late)
  BY <1>2, <1>5, ReadyMirror, PairComplete
<1>7. completed' \subseteq BuildCompletedWaveMap(waves')
  <2>1. /\ BuildCompletedWaveMap(waves) \subseteq BuildCompletedWaveMap(waves')
        /\ key \in BuildCompletedWaveMap(waves')
    BY <1>2, <1>4, <1>5, ReadyMirror, DoneComplete
  <2> QED
    BY <1>2, <1>5, <2>1, ReadyMirror
<1> HIDE DEF qs
<1> QED
  BY <1>2, <1>3, <1>6, <1>7, ReadyMirror DEF MirrorInv

LEMMA UnlockMirror == IInv /\ Unlock => MirrorInv'
<1> SUFFICES ASSUME IInv, Unlock, ~apart PROVE MirrorInv'
  BY DEF Unlock, MirrorInv
<1> DEFINE keys == {Key(waves[i]) : i \in {i \in DOMAIN waves : waves'[i] # waves[i]}}
           qs == UnlockAll(replayed, keys)
<1>1. waves' = EvaluateUnlocks(waves, completed) /\ pending' = [type |-> "waves_unlocked", keys |-> keys]
  BY DEF Unlock, Returns
<1>2. Ready /\ UNCHANGED <<running, replayed, late, completed, apart>>
  BY DEF Unlock, Returns
<1>3. Ledger' = qs /\ pending'.type = "waves_unlocked"
  BY <1>1, <1>2 DEF Ledger, Replay
<1>4. Paired(qs, waves', late) /\ Offered(waves', completed, late)
  BY <1>1, <1>2, ReadyMirror, PairUnlocked
<1>5. BuildCompletedWaveMap(waves') = BuildCompletedWaveMap(waves)
  BY <1>1, <1>2, ReadyMirror, DoneUnlocked
<1> HIDE DEF qs, keys
<1> QED
  BY <1>2, <1>3, <1>4, <1>5, ReadyMirror DEF MirrorInv

LEMMA ModifyMirror == IInv /\ Modify => MirrorInv'
<1> SUFFICES ASSUME IInv, Modify, ~apart PROVE MirrorInv'
  BY DEF Modify, MirrorInv
<1>1. PICK w \in AvailableWaves(waves, completed), m \in Modifications :
        LET updated == ApplyModifiedWave(w, m, completed)
        IN  /\ waves' = PropagateWaveUpdate(waves, updated)
            /\ pending' = [type |-> "wave_modified", wave |-> BuildWaveStates(<<updated>>)[1]]
  BY DEF Modify, Returns
<1> DEFINE v == ApplyModifiedWave(w, m, completed)
           s == BuildWaveStates(<<v>>)[1]
           qs == PropagateWaveUpdate(replayed, s)
<1>2. Ready /\ UNCHANGED <<running, replayed, late, completed, apart>>
  BY DEF Modify, Returns
<1>3. w \in Wave /\ Key(w) \notin completed
  BY <1>2, ReadyMirror, AvailableIs, DomainOf
<1>4. /\ v \in Wave /\ Key(v) = Key(w) /\ v.status \in {"available", "locked"}
      /\ v.status = "available" => v.prereqs \subseteq completed
  BY <1>3, ModifiedIs
<1>5. waves' = PropagateWaveUpdate(waves, v) /\ pending' = [type |-> "wave_modified", wave |-> s]
  BY <1>1
<1> HIDE DEF v
<1>6. s \in SavedWave /\ Alike(s, v)
  <2> DEFINE one == <<v>>
             ss == BuildWaveStates(one)
  <2>1. one \in Seq(Wave) /\ DOMAIN one = 1 .. 1 /\ one[1] = v
    BY <1>4
  <2> HIDE DEF one
  <2>2. ss \in Seq(SavedWave) /\ DOMAIN ss = 1 .. 1 /\ Alike(ss[1], v)
    BY <2>1, SavedIs
  <2>3. ss[1] \in SavedWave
    BY <2>2, DomainOf
  <2> QED
    BY <2>2, <2>3 DEF one
<1>7. Ledger' = qs /\ pending'.type = "wave_modified"
  BY <1>2, <1>5 DEF Ledger, Replay
<1> HIDE DEF s
<1>8. Paired(qs, waves', late) /\ Offered(waves', completed, late)
  BY <1>2, <1>4, <1>5, <1>6, ReadyMirror, PairModified
<1>9. BuildCompletedWaveMap(waves') = BuildCompletedWaveMap(waves)
  BY <1>2, <1>3, <1>4, <1>5, ReadyMirror, DonePropagated
<1> HIDE DEF qs
<1> QED
  BY <1>2, <1>7, <1>8, <1>9, ReadyMirror DEF MirrorInv

LEMMA MarkStalledMirror == IInv /\ MarkStalled => MirrorInv'
<1> SUFFICES ASSUME IInv, MarkStalled, ~apart PROVE MirrorInv'
  BY DEF MarkStalled, MirrorInv
<1>1. PICK w \in AvailableWaves(waves, completed) :
        waves' = PropagateWaveUpdate(waves, [w EXCEPT !.status = "stalled"])
  BY DEF MarkStalled
<1>2. Ready /\ pending'.type = "audit" /\ UNCHANGED <<running, replayed, late, completed, apart>>
  BY DEF MarkStalled, Returns, AuditEvent
<1>3. PICK k \in DOMAIN waves : w = waves[k]
  BY AvailableIs
<1>4. w \in Wave /\ Key(w) \notin completed /\ w.status = "available"
  BY <1>2, ReadyMirror, AvailableIs, DomainOf
<1> DEFINE v == [w EXCEPT !.status = "stalled"]
<1>5. v \in Wave /\ Kin(v, w) /\ v.status = "stalled"
  BY <1>4, WavesKin DEF Statuses
<1>6. waves' = PropagateWaveUpdate(waves, v)
  BY <1>1
<1> HIDE DEF v
<1>7. Paired(replayed, waves', late) /\ Offered(waves', completed, late)
  BY <1>2, <1>3, <1>4, <1>5, <1>6, ReadyMirror, PairMarked
<1>8. BuildCompletedWaveMap(waves') = BuildCompletedWaveMap(waves)
  BY <1>2, <1>4, <1>5, <1>6, ReadyMirror, DonePropagated DEF Kin
<1>9. Ledger' = replayed
  BY <1>2 DEF Ledger, Replay
<1> QED
  BY <1>2, <1>7, <1>8, <1>9, ReadyMirror DEF MirrorInv

LEMMA NextGenMirror == IInv /\ NextGen => MirrorInv'
<1> SUFFICES ASSUME IInv, NextGen, ~apart PROVE MirrorInv'
  BY DEF NextGen, MirrorInv
<1>1. PICK new \in FollowUps :
        pending' = [type |-> "nextgen_waves_added", waves |-> BuildWaveStates(Prepared(new))]
  BY DEF NextGen, Returns
<1>2. Ready /\ UNCHANGED <<running, replayed, late, waves, completed, apart>>
  BY DEF NextGen, Returns
<1> DEFINE ws == Prepared(new)
           ss == BuildWaveStates(ws)
<1>3. /\ ws \in Seq(Wave) /\ Fresh(ws)
      /\ \A n \in DOMAIN ws : \A a \in ToSet(ws[n].actions) :
           a.own \/ a.issue \notin CollectSpecSentIssueIDs(completed, waves)
  BY PreparedIs
<1>4. pending'.type = "nextgen_waves_added" /\ pending'.waves = ss
  BY <1>1
<1> HIDE DEF ws
<1>5. DOMAIN ss = DOMAIN ws /\ \A n \in DOMAIN ws : Alike(ss[n], ws[n])
  BY <1>3, SavedIs
<1> HIDE DEF ss
<1>6. Fresh(ss)
  BY <1>3, <1>5 DEF Fresh, Alike
<1>7. Once(ss, completed, waves)
  BY <1>3, <1>5 DEF Once, Alike
<1>8. Ledger' = replayed
  BY <1>2, <1>4 DEF Ledger
<1>9. /\ Fresh(pending'.waves) /\ Once(pending'.waves, completed', waves')
  BY <1>2, <1>4, <1>6, <1>7
<1> QED
  BY <1>2, <1>8, <1>9, ReadyMirror DEF MirrorInv

(* Storing the event brings the two together.                              *)
LEMMA StoreMirror == IInv /\ Store => MirrorInv'
<1> SUFFICES ASSUME IInv, Store, ~apart PROVE MirrorInv'
  BY DEF Store, MirrorInv
<1>1. /\ running /\ running' = running /\ pending' = NoEvent
      /\ replayed' = Replay(replayed, pending) /\ late' = late \cup CameLate
      /\ UNCHANGED <<completed, apart>>
  BY DEF Store
<1>2. Base /\ Base'
  BY StoreBase DEF IInv
<1>3. /\ replayed \in Seq(SavedWave) /\ waves \in Seq(Wave) /\ waves' \in Seq(Wave)
      /\ Paired(Ledger, waves, late) /\ Offered(waves, completed, late)
      /\ completed \subseteq BuildCompletedWaveMap(waves)
  BY <1>1, <1>2 DEF IInv, MirrorInv, Base, TypeOK
<1>4. /\ Paired(replayed', waves', late') /\ Offered(waves', completed, late')
      /\ completed \subseteq BuildCompletedWaveMap(waves')
  <2>1. CASE pending.type # "nextgen_waves_added"
    <3>1. waves' = waves /\ Ledger = replayed'
      BY <1>1, <2>1 DEF Store, Ledger
    <3> QED
      BY <1>1, <1>3, <3>1, PairStays
  <2>2. CASE pending.type = "nextgen_waves_added"
    <3> DEFINE ss == pending.waves
               qs == Behind(replayed, ss)
               ns == Behind(waves, RestoreWaves(ss))
    <3>1. /\ ss \in Seq(SavedWave) /\ Distinct(ss) /\ Fresh(ss)
          /\ KeysOf(waves) \cap KeysOf(ss) = {}
      BY <1>2, <2>2 DEF IInv, MirrorInv, Base, TypeOK, WorkInv, Pending, NoEvent, AuditEvent
    <3>2. Ledger = replayed /\ Replay(replayed, pending) = AddUnseen(replayed, ss)
      BY <2>2 DEF Ledger, Replay
    <3>3. waves' = ns
      BY <2>2 DEF Store, Behind
    <3> HIDE DEF ss
    <3>4. KeysOf(replayed) = KeysOf(waves)
      BY <1>3, <3>2, PairKnows
    <3>5. replayed' = qs
      <4>1. AddUnseen(replayed, ss) = replayed \o ss
        BY <3>1, <3>4, AllAdded
      <4> QED
        BY <1>1, <3>2, <4>1 DEF Behind
    <3>6. KeysOf(ss) \subseteq KeysOf(replayed') \ KeysOf(replayed)
      <4>1. KeysOf(ss) \subseteq KeysOf(qs)
        BY <1>3, <3>1, Appended
      <4> QED
        BY <3>1, <3>4, <3>5, <4>1
    <3>7. \A i \in DOMAIN replayed :
            (replayed[i].prereqs \ waves[i].prereqs) \cap KeysOf(ss) # {} => Key(replayed[i]) \in late'
      <4>1. DOMAIN replayed = DOMAIN waves
        BY <1>3, <3>2 DEF Paired
      <4> SUFFICES ASSUME NEW i \in DOMAIN replayed,
                          (replayed[i].prereqs \ waves[i].prereqs) \cap KeysOf(ss) # {}
                   PROVE  Key(replayed[i]) \in CameLate
        BY <1>1
      <4>2. (replayed[i].prereqs \ waves[i].prereqs)
              \cap (KeysOf(replayed') \ KeysOf(replayed)) # {}
        BY <3>6
      <4> QED
        BY <4>1, <4>2 DEF CameLate
    <3>8. late \subseteq late' /\ Paired(replayed, waves, late)
      BY <1>1, <1>3, <3>2
    <3>9. Paired(qs, ns, late') /\ Offered(ns, completed, late')
      BY <1>3, <3>1, <3>7, <3>8, PairAppended
    <3>10. BuildCompletedWaveMap(waves) \subseteq BuildCompletedWaveMap(ns)
      <4>1. RestoreWaves(ss) \in Seq(Wave)
        BY <3>1, RestoredIs
      <4> QED
        BY <1>3, <4>1, Appended
    <3> QED
      BY <1>3, <3>3, <3>5, <3>9, <3>10
  <2> QED
    BY <2>1, <2>2
<1>5. BuildCompletedWaveMap(waves') = completed
  BY <1>1, <1>2, <1>4 DEF Base, WorkInv
<1>6. Stored(replayed', late')
  BY <1>3, <1>4, <1>5, PairStored
<1>7. Ledger' = replayed' /\ pending'.type = "none"
  BY <1>1 DEF Ledger, Replay, NoEvent
<1> QED
  BY <1>1, <1>4, <1>6, <1>7 DEF MirrorInv

(* A resumed session has what the ledger has.                              *)
LEMMA ResumeMirror == IInv /\ Resume => MirrorInv'
<1> SUFFICES ASSUME IInv, Resume, ~apart PROVE MirrorInv'
  BY DEF Resume, MirrorInv
<1>1. /\ ~running /\ waves' = Resumed(replayed) /\ completed' = BuildCompletedWaveMap(waves')
      /\ UNCHANGED <<pending, replayed, apart, late>>
  BY DEF Resume
<1>2. replayed \in Seq(SavedWave) /\ Stored(replayed, late) /\ pending = NoEvent
  BY <1>1 DEF IInv, MirrorInv, Base, TypeOK, WorkInv
<1>3. Paired(replayed, waves', late) /\ Offered(waves', completed', late)
  BY <1>1, <1>2, PairResumed
<1>4. Ledger' = replayed /\ pending'.type = "none"
  BY <1>1, <1>2 DEF Ledger, Replay, NoEvent
<1> QED
  BY <1>1, <1>2, <1>3, <1>4 DEF MirrorInv

(* A dead session keeps the ledger; after a lost append nothing is said.   *)
LEMMA CrashMirror == IInv /\ Crash => MirrorInv'
<1> SUFFICES ASSUME IInv, Crash PROVE MirrorInv'
  OBVIOUS
<1>1. /\ running' = FALSE /\ pending' = NoEvent /\ UNCHANGED <<replayed, apart, late>>
  BY DEF Crash
<1>2. pending'.type = "none"
  BY <1>1 DEF NoEvent
<1> QED
  BY <1>1, <1>2 DEF IInv, MirrorInv

LEMMA StepMirror == IInv /\ [Next]_vars => MirrorInv'
<1> SUFFICES ASSUME IInv, [Next]_vars PROVE MirrorInv'
  OBVIOUS
<1>1. CASE UNCHANGED vars
  BY <1>1 DEF vars, IInv, MirrorInv, Ledger
<1>2. Rescan \/ StoreFails => apart' = TRUE
  BY DEF Rescan, StoreFails
<1>3. Rescan \/ StoreFails => MirrorInv'
  BY <1>2 DEF MirrorInv
<1> QED
  BY <1>1, <1>3, GenerateMirror, AuditMirror, CompleteMirror, UnlockMirror, ModifyMirror,
     MarkStalledMirror, NextGenMirror, StoreMirror, CrashMirror, ResumeMirror DEF Next

LEMMA IInvHolds == Spec => []IInv
<1>1. Init => IInv
  BY InitBase, InitMirror DEF IInv
<1>2. IInv /\ [Next]_vars => IInv'
  BY StepBase, StepMirror DEF IInv
<1> QED
  BY <1>1, <1>2, PTL DEF Spec

---------------------------------------------------------------------------
(* A wave is offered only when all it waits for is complete, in memory and *)
(* in what a resumed session would see, unless an append was lost or a     *)
(* prerequisite came late: evaluation, modification, storage and replay    *)
(* agree on what is unlocked (EvaluateUnlocks, ProjectState).              *)
THEOREM AvailableIsJustifiedHolds == Spec => []AvailableIsJustified
<1>1. IInv => AvailableIsJustified
  <2> SUFFICES ASSUME IInv, ~apart
               PROVE  /\ JustifiedIn(waves, completed)
                      /\ JustifiedIn(ValidateWavePrerequisites(replayed),
                                     BuildCompletedWaveMap(replayed))
    BY DEF AvailableIsJustified
  <2> DEFINE vs == ValidateWavePrerequisites(replayed)
  <2>1. /\ replayed \in Seq(SavedWave) /\ Stored(replayed, late)
        /\ running => Offered(waves, completed, late)
        /\ ~running => waves = <<>>
    BY DEF IInv, MirrorInv, Base, TypeOK, WorkInv
  <2>2. JustifiedIn(waves, completed)
    BY <2>1 DEF JustifiedIn, Offered
  <2>3. /\ DOMAIN vs = DOMAIN replayed
        /\ \A i \in DOMAIN replayed :
             /\ Key(vs[i]) = Key(replayed[i]) /\ vs[i].status = replayed[i].status
             /\ vs[i].prereqs = replayed[i].prereqs \cap KeysOf(replayed)
    BY <2>1, ValidatedIs
  <2> HIDE DEF vs
  <2>4. JustifiedIn(vs, BuildCompletedWaveMap(replayed))
    BY <2>1, <2>3 DEF JustifiedIn, Stored
  <2> QED
    BY <2>2, <2>4 DEF vs
<1> QED
  BY <1>1, IInvHolds, PTL

LEMMA SameWave ==
  ASSUME NEW v \in Wave, NEW w \in Wave, Alike(v, w), v.score = w.score
  PROVE  v = w
BY DEF Wave, Alike, Key

LEMMA UnmarkedIs ==
  ASSUME NEW ws \in Seq(Wave), NEW us, us = Unmarked(ws)
  PROVE  /\ DOMAIN us = DOMAIN ws
         /\ \A i \in DOMAIN ws :
              /\ us[i] \in Wave /\ Key(us[i]) = Key(ws[i]) /\ us[i].score = 0
              /\ us[i].prereqs = ws[i].prereqs /\ us[i].actions = ws[i].actions
              /\ us[i].status = IF ws[i].status = "stalled" THEN "available" ELSE ws[i].status
<1>1. \A i \in DOMAIN ws : ws[i] \in Wave
  BY DomainOf
<1>2. us = [i \in DOMAIN ws |->
              [ws[i] EXCEPT !.score = 0,
                 !.status = IF ws[i].status = "stalled" THEN "available" ELSE ws[i].status]]
  BY DEF Unmarked, Change
<1>3. DOMAIN us = DOMAIN ws
  BY <1>2
<1>4. ASSUME NEW i \in DOMAIN ws
      PROVE  /\ us[i] \in Wave /\ Key(us[i]) = Key(ws[i]) /\ us[i].score = 0
             /\ us[i].prereqs = ws[i].prereqs /\ us[i].actions = ws[i].actions
             /\ us[i].status = IF ws[i].status = "stalled" THEN "available" ELSE ws[i].status
  <2> DEFINE w == ws[i]
             st == IF w.status = "stalled" THEN "available" ELSE w.status
             v == [w EXCEPT !.score = 0, !.status = st]
  <2>1. w \in Wave /\ us[i] = v
    BY <1>1, <1>2
  <2>2. st \in Statuses
    BY <2>1 DEF Wave, Statuses
  <2> HIDE DEF w, st
  <2>3. /\ v \in Wave /\ Key(v) = Key(w) /\ v.score = 0
        /\ v.prereqs = w.prereqs /\ v.actions = w.actions /\ v.status = st
    BY <2>1, <2>2 DEF Wave, Key
  <2> QED
    BY <2>1, <2>3 DEF w, st
<1> QED
  BY <1>3, <1>4

(* A session that dies between two operations and is resumed has the waves *)
(* that it had, as if it had resumed from its own memory: the events that  *)
(* were stored are enough (ProjectState, RestoreWaves).                    *)
THEOREM ResumeRestoresHolds == Spec => []ResumeRestores
<1>1. IInv => ResumeRestores
  <2> DEFINE rs == Resumed(replayed)
             ms == Resumed(waves)
             its == Unmarked(rs)
             mine == Unmarked(ms)
  <2> SUFFICES ASSUME IInv, Ready, ~apart
               PROVE  /\ DOMAIN its = DOMAIN mine
                      /\ \A i \in DOMAIN mine : Key(waves[i]) \notin late => its[i] = mine[i]
    BY DEF ResumeRestores
  <2> DEFINE known == KeysOf(waves)
             done == BuildCompletedWaveMap(waves)
  <2>1. /\ replayed \in Seq(SavedWave) /\ waves \in Seq(Wave)
        /\ Paired(replayed, waves, late) /\ Offered(waves, done, late)
        /\ KeysOf(replayed) = known /\ BuildCompletedWaveMap(replayed) = done
    BY ReadyMirror, PairKnows
  <2>2. /\ rs \in Seq(Wave) /\ DOMAIN rs = DOMAIN replayed
        /\ \A i \in DOMAIN replayed :
             /\ Key(rs[i]) = Key(replayed[i]) /\ rs[i].actions = replayed[i].actions
             /\ rs[i].prereqs = replayed[i].prereqs \cap known
             /\ rs[i].status =
                  IF replayed[i].status = "locked" /\ replayed[i].prereqs \cap known \subseteq done
                  THEN "available" ELSE replayed[i].status
    BY <2>1, ResumedIs
  <2>3. /\ ms \in Seq(Wave) /\ DOMAIN ms = DOMAIN waves
        /\ \A i \in DOMAIN waves :
             /\ Key(ms[i]) = Key(waves[i]) /\ ms[i].actions = waves[i].actions
             /\ ms[i].prereqs = waves[i].prereqs \cap known
             /\ ms[i].status =
                  IF waves[i].status = "locked" /\ waves[i].prereqs \cap known \subseteq done
                  THEN "available" ELSE waves[i].status
    BY <2>1, ResumedIs
  <2> HIDE DEF rs, ms
  <2>4. /\ DOMAIN its = DOMAIN rs
        /\ \A i \in DOMAIN rs :
             /\ its[i] \in Wave /\ Key(its[i]) = Key(rs[i]) /\ its[i].score = 0
             /\ its[i].prereqs = rs[i].prereqs /\ its[i].actions = rs[i].actions
             /\ its[i].status = IF rs[i].status = "stalled" THEN "available" ELSE rs[i].status
    BY <2>2, UnmarkedIs
  <2>5. /\ DOMAIN mine = DOMAIN ms
        /\ \A i \in DOMAIN ms :
             /\ mine[i] \in Wave /\ Key(mine[i]) = Key(ms[i]) /\ mine[i].score = 0
             /\ mine[i].prereqs = ms[i].prereqs /\ mine[i].actions = ms[i].actions
             /\ mine[i].status = IF ms[i].status = "stalled" THEN "available" ELSE ms[i].status
    BY <2>3, UnmarkedIs
  <2> HIDE DEF its, mine
  <2>6. DOMAIN replayed = DOMAIN waves /\ \A i \in DOMAIN waves : Twins(replayed[i], waves[i], known, late)
    BY <2>1 DEF Paired
  <2>7. \A i \in DOMAIN waves : Key(waves[i]) \notin late => its[i] = mine[i]
    <3> SUFFICES ASSUME NEW i \in DOMAIN waves, Key(waves[i]) \notin late
                 PROVE  its[i] = mine[i]
      OBVIOUS
    <3> DEFINE r == replayed[i]
               m == waves[i]
               p == m.prereqs \cap known
    <3>1. /\ Key(r) = Key(m) /\ r.actions = m.actions /\ m.prereqs \subseteq r.prereqs
          /\ (r.prereqs \ m.prereqs) \cap known = {}
          /\ r.status = "completed" <=> m.status = "completed"
          /\ m.status = "locked" => r.status = "locked"
          /\ r.status # "stalled"
      BY <2>6 DEF Twins
    <3>2. r.prereqs \cap known = p
      BY <3>1
    <3>3. m.status \in Statuses /\ r.status \in Statuses
      <4>1. m \in Wave /\ r \in SavedWave
        BY <2>1, <2>6, DomainOf
      <4> QED
        BY <4>1 DEF Wave, SavedWave
    <3>4. m.status \in {"available", "stalled"} => p \subseteq done
      BY <2>1 DEF Offered
    <3>5. /\ rs[i].prereqs = p
          /\ rs[i].status = IF r.status = "locked" /\ p \subseteq done THEN "available" ELSE r.status
          /\ Key(rs[i]) = Key(r) /\ rs[i].actions = r.actions
      BY <2>2, <2>6, <3>2
    <3>6. /\ ms[i].prereqs = p
          /\ ms[i].status = IF m.status = "locked" /\ p \subseteq done THEN "available" ELSE m.status
          /\ Key(ms[i]) = Key(m) /\ ms[i].actions = m.actions
      BY <2>3
    <3>7. its[i].status = mine[i].status
      <4> DEFINE x == rs[i].status
                 y == ms[i].status
      <4>1. (IF x = "stalled" THEN "available" ELSE x) = (IF y = "stalled" THEN "available" ELSE y)
        BY <3>1, <3>3, <3>4, <3>5, <3>6 DEF Statuses
      <4> QED
        BY <2>2, <2>3, <2>4, <2>5, <2>6, <4>1
    <3>8. Alike(its[i], mine[i]) /\ its[i].score = mine[i].score /\ its[i] \in Wave /\ mine[i] \in Wave
      <4>1. Key(its[i]) = Key(mine[i]) /\ its[i].prereqs = mine[i].prereqs
            /\ its[i].actions = mine[i].actions
        BY <2>2, <2>3, <2>4, <2>5, <2>6, <3>1, <3>5, <3>6
      <4> QED
        BY <2>2, <2>3, <2>4, <2>5, <2>6, <3>7, <4>1 DEF Alike
    <3> QED
      BY <3>8, SameWave
  <2>8. DOMAIN its = DOMAIN mine /\ DOMAIN mine = DOMAIN waves
    BY <2>2, <2>3, <2>4, <2>5, <2>6
  <2> QED
    BY <2>7, <2>8
<1> QED
  BY <1>1, IInvHolds, PTL

---------------------------------------------------------------------------
(* The ledger's completed waves are memory's, with the same actions.       *)
LEMMA SentAgree ==
  ASSUME NEW rs, NEW ms, NEW tardy, Paired(rs, ms, tardy), NEW done,
         BuildCompletedWaveMap(ms) \subseteq done
  PROVE  CollectSpecSentIssueIDs(BuildCompletedWaveMap(rs), rs)
           \subseteq CollectSpecSentIssueIDs(done, ms)
<1> SUFFICES ASSUME NEW i \in DOMAIN rs, Key(rs[i]) \in BuildCompletedWaveMap(rs),
                    NEW b \in ToSet(rs[i].actions), ~b.own
             PROVE  b.issue \in CollectSpecSentIssueIDs(done, ms)
  BY DEF CollectSpecSentIssueIDs
<1>1. i \in DOMAIN ms /\ Key(ms[i]) = Key(rs[i]) /\ ms[i].actions = rs[i].actions
  BY DEF Paired, Twins
<1>2. Key(ms[i]) \in done
  BY <1>1, PairKnows
<1> QED
  BY <1>1, <1>2 DEF CollectSpecSentIssueIDs

(* A follow-up wave asks for no implementation of an issue for which the   *)
(* ledger holds a completed wave that asked for one: what FilterPROpen-    *)
(* Actions saw when the wave was prepared still holds when it is stored.   *)
THEOREM SpecOnceHolds == Spec => SpecOnce
<1> DEFINE news == Len(waves) + 1 .. Len(waves')
           sent == CollectSpecSentIssueIDs(BuildCompletedWaveMap(replayed), replayed)
           adds == pending.type = "nextgen_waves_added" /\ Len(waves') > Len(waves) /\ ~apart
           fine == \A i \in news : \A a \in ToSet(waves'[i].actions) : a.own \/ a.issue \notin sent
<1>1. IInv /\ [Next]_vars => (adds => fine)
  <2> SUFFICES ASSUME IInv, [Next]_vars, adds PROVE fine
    OBVIOUS
  <2>1. Base /\ waves \in Seq(Wave) /\ running /\ ~Ready
    BY DEF IInv, Base, TypeOK, WorkInv, NoEvent, Ready
  <2>2. Len(waves) \in Nat /\ waves' # waves /\ waves' # <<>>
    <3>1. Len(waves) \in Nat /\ Len(<<>>) = 0
      BY <2>1, DomainOf
    <3> QED
      BY <3>1
  <2>3. Store
    BY <2>1, <2>2 DEF Next, vars, Generate, Audit, Complete, Unlock, Modify, MarkStalled,
       NextGen, Rescan, StoreFails, Crash, Resume
  <2> DEFINE ss == pending.waves
             new == RestoreWaves(ss)
             ns == Behind(waves, new)
  <2>4. waves' = ns
    BY <2>3 DEF Store, Behind
  <2>5. /\ ss \in Seq(SavedWave) /\ Once(ss, completed, waves)
        /\ Paired(replayed, waves, late) /\ completed \subseteq BuildCompletedWaveMap(waves)
        /\ BuildCompletedWaveMap(waves) \subseteq completed
    BY <2>1 DEF IInv, MirrorInv, Base, TypeOK, WorkInv, Ledger, Pending, NoEvent, AuditEvent
  <2> HIDE DEF ss
  <2>6. new \in Seq(Wave) /\ DOMAIN new = DOMAIN ss /\ \A i \in DOMAIN ss : Alike(new[i], ss[i])
    BY <2>5, RestoredIs
  <2> HIDE DEF new
  <2>7. /\ DOMAIN ns = 1 .. Len(waves) + Len(new) /\ DOMAIN ns = 1 .. Len(ns) /\ Len(ns) \in Nat
        /\ DOMAIN waves = 1 .. Len(waves)
        /\ \A i \in DOMAIN ns : i \notin DOMAIN waves =>
             i - Len(waves) \in DOMAIN new /\ ns[i] = new[i - Len(waves)]
    <3>1. Joined(waves, new, ns) /\ ns \in Seq(Wave)
      BY <2>1, <2>6, Appended
    <3>2. DOMAIN ns = 1 .. Len(ns) /\ Len(ns) \in Nat /\ DOMAIN waves = 1 .. Len(waves)
      BY <2>1, <3>1, DomainOf
    <3> HIDE DEF ns
    <3> QED
      BY <3>1, <3>2 DEF Joined
  <2> HIDE DEF ns
  <2> SUFFICES ASSUME NEW i \in news, NEW a \in ToSet(ns[i].actions)
               PROVE  a.own \/ a.issue \notin sent
    BY <2>4
  <2>8. i \in DOMAIN ns /\ i \notin DOMAIN waves
    BY <2>2, <2>4, <2>7
  <2> DEFINE n == i - Len(waves)
  <2>9. n \in DOMAIN ss /\ ns[i] = new[n]
    BY <2>6, <2>7, <2>8
  <2> HIDE DEF n
  <2>10. a \in ToSet(ss[n].actions)
    BY <2>6, <2>9 DEF Alike
  <2>11. a.own \/ a.issue \notin CollectSpecSentIssueIDs(completed, waves)
    BY <2>5, <2>9, <2>10 DEF Once
  <2> QED
    BY <2>5, <2>11, SentAgree
<1>2. IInv /\ [Next]_vars => [adds => fine]_vars
  BY <1>1
<1> QED
  BY <1>2, IInvHolds, PTL DEF Spec, SpecOnce
============================================================================
