--------------------------- MODULE ProgressProofs ---------------------------
(***************************************************************************)
(* Proofs about the composition in Progress: the invariants of the circuit *)
(* breaker and of the session event bus, and the search for cycles.        *)
(***************************************************************************)
EXTENDS Progress, SequenceTheorems, FiniteSetTheorems, TLAPS

(* Steps of the other parts leave a part as it is.                         *)
LEMMA OtherParts ==
  ASSUME [PartNext]_partVars
  PROVE  (B!Next \/ UNCHANGED breakerVars) /\ (E!Next \/ UNCHANGED busVars)
BY DEF PartNext, partVars, SearchStep, BreakerStep, BusStep, WaitingStep, OutboxStep
---------------------------------------------------------------------------
(* The breaker.  Who waits was told of every change since it looked, or    *)
(* its timer ends with the pause.                                          *)
SleepInv ==
  /\ left \in Int /\ backoff \in Int
  /\ caller \in [Callers -> {"idle", "allow", "waiting", "calling"}]
  /\ sleep \in [Callers -> Int] /\ woken \in [Callers -> BOOLEAN]
  /\ NobodyOversleeps

LEMMA SleepInit == PartInit => SleepInv
<1> SUFFICES ASSUME PartInit PROVE SleepInv
  OBVIOUS
<1>1. B!Init
  BY DEF PartInit
<1> QED
  BY <1>1, ProgressAssumption DEF B!BreakerAssumption, B!Init, SleepInv, NobodyOversleeps, B!NobodyOversleeps

LEMMA Told ==
  ASSUME B!StateChanged
  PROVE  /\ woken' \in [Callers -> BOOLEAN]
         /\ \A d \in Callers : caller[d] = "waiting" => woken'[d]
<1>1. woken' = [d \in Callers |-> woken[d] \/ caller[d] = "waiting"]
  BY DEF B!StateChanged
<1>2. \A d \in Callers : (woken[d] \/ caller[d] = "waiting") \in BOOLEAN
  OBVIOUS
<1>3. \A d \in Callers : caller[d] = "waiting" => woken'[d]
  BY <1>1, Zenon
<1> QED
  BY <1>1, <1>2, <1>3, Zenon

LEMMA SleepPreserved ==
  ASSUME SleepInv, B!Next \/ UNCHANGED breakerVars
  PROVE  SleepInv'
<1>0. /\ MinWait \in Nat \ {0} /\ BackoffBase \in Int /\ BackoffMax \in Int
      /\ Resets \subseteq Int
  BY ProgressAssumption DEF B!BreakerAssumption
<1> USE <1>0 DEF SleepInv, NobodyOversleeps, B!NobodyOversleeps, B!Goto, B!breaker, B!Larger
<1>1. ASSUME NEW c \in Callers, B!Ask(c) \/ B!RecordOther(c) PROVE SleepInv'
  BY <1>1 DEF B!Ask, B!RecordOther
<1>2. ASSUME NEW c \in Callers, B!Allow(c) PROVE SleepInv'
  BY <1>2 DEF B!Allow
<1>3. ASSUME NEW c \in Callers, B!Wait(c) PROVE SleepInv'
  BY <1>3 DEF B!Wait
<1>4. ASSUME NEW c \in Callers, B!WakeUp(c) \/ B!Cancel(c) PROVE SleepInv'
  <2>1. /\ sleep' = [sleep EXCEPT ![c] = 0] /\ woken' = [woken EXCEPT ![c] = FALSE]
        /\ UNCHANGED <<state, left, backoff>>
    BY <1>4 DEF B!WakeUp, B!Cancel
  <2>2. caller' = [caller EXCEPT ![c] = "allow"] \/ caller' = [caller EXCEPT ![c] = "idle"]
    BY <1>4 DEF B!WakeUp, B!Cancel
  <2>3. caller'[c] # "waiting" /\ \A d \in Callers \ {c} : caller'[d] = caller[d]
    BY <2>2
  <2>4. \A d \in Callers \ {c} : sleep'[d] = sleep[d] /\ woken'[d] = woken[d]
    BY <2>1
  <2>5. ASSUME NEW d \in Callers, caller'[d] = "waiting", ~woken'[d]
        PROVE  state' # "closed" /\ sleep'[d] <= B!Larger(left', MinWait)
    <3>1. d # c /\ caller[d] = "waiting"
      BY <2>3, <2>5
    <3>2. ~woken[d]
      BY <2>4, <2>5, <3>1, Zenon
    <3> QED
      BY <2>1, <2>4, <3>1, <3>2
  <2>6. woken' \in [Callers -> BOOLEAN]
    BY <2>1
  <2> QED
    BY <2>1, <2>2, <2>5, <2>6
<1>5. ASSUME NEW c \in Callers, B!RecordSuccess(c) PROVE SleepInv'
  <2>1. /\ caller' = [caller EXCEPT ![c] = "idle"] /\ left' = -1 /\ UNCHANGED sleep
        /\ backoff' \in Int
    BY <1>5 DEF B!RecordSuccess
  <2>2. woken' \in [Callers -> BOOLEAN] /\ \A d \in Callers : caller[d] = "waiting" => woken'[d]
    <3>1. CASE state # "closed"
      <4>1. B!StateChanged
        BY <1>5, <3>1 DEF B!RecordSuccess
      <4> QED
        BY <4>1, Told
    <3>2. CASE state = "closed"
      <4>1. UNCHANGED woken
        BY <1>5, <3>2 DEF B!RecordSuccess
      <4> QED
        BY <3>2, <4>1, Zenon
    <3> QED
      BY <3>1, <3>2
  <2>3. \A d \in Callers : caller'[d] = "waiting" => caller[d] = "waiting"
    BY <2>1
  <2>4. NobodyOversleeps'
    BY <2>2, <2>3, Zenon
  <2>5. /\ left' \in Int /\ sleep' \in [Callers -> Int]
        /\ caller' \in [Callers -> {"idle", "allow", "waiting", "calling"}]
    BY <2>1
  <2> QED
    BY <2>1, <2>2, <2>4, <2>5, Zenon
<1>6. ASSUME NEW c \in Callers, NEW reset \in Resets \cup {Unknown}, B!Trip(c, reset)
      PROVE  SleepInv'
  <2>1. caller' = [caller EXCEPT ![c] = "idle"] /\ B!StateChanged /\ UNCHANGED sleep
    BY <1>6 DEF B!Trip
  <2>2. woken' \in [Callers -> BOOLEAN] /\ \A d \in Callers : caller[d] = "waiting" => woken'[d]
    BY <2>1, Told
  <2>3. left' \in Int /\ backoff' \in Int
    BY <1>6 DEF B!Trip, B!Smaller
  <2>4. \A d \in Callers : caller'[d] = "waiting" => caller[d] = "waiting"
    BY <2>1
  <2>5. NobodyOversleeps'
    BY <2>2, <2>4, Zenon
  <2> QED
    BY <2>1, <2>2, <2>3, <2>5
<1>7. ASSUME B!Tick PROVE SleepInv'
  BY <1>7 DEF B!Tick
<1>8. CASE UNCHANGED breakerVars
  BY <1>8 DEF breakerVars
<1> QED
  BY <1>1, <1>2, <1>3, <1>4, <1>5, <1>6, <1>7, <1>8 DEF B!Next, B!Trips

(* A caller that waits for the breaker sleeps no longer than the pause     *)
(* lasts, whatever the announced ends of pauses and the back-offs are.     *)
THEOREM NobodyOversleepsHolds == PartSpec => []NobodyOversleeps
<1>1. PartInit => SleepInv
  BY SleepInit
<1>2. SleepInv /\ [PartNext]_partVars => SleepInv'
  BY OtherParts, SleepPreserved
<1>3. SleepInv => NobodyOversleeps
  BY DEF SleepInv
<1> QED
  BY <1>1, <1>2, <1>3, PTL DEF PartSpec
---------------------------------------------------------------------------
(* The bus.  While a publisher reads nobody changes the list or closes a   *)
(* channel; a subscriber comes into the list once, and its channel is      *)
(* closed when it leaves it.                                               *)
BusInv ==
  /\ subscribers \in Seq(Subs) /\ toServe \in [Publishers -> Seq(Subs)]
  /\ chClosed \subseteq Subs
  /\ busPC \in [E!BusCallers -> {"idle", "lock", "locked", "reading", "returned"}]
  /\ \A p \in Publishers : busPC[p] = "locked" =>
       p \in reading /\ \A i \in 1 .. Len(toServe[p]) : toServe[p][i] \notin chClosed
  /\ \A s \in chClosed : busPC[s] \in {"reading", "returned"}
  /\ \A i \in 1 .. Len(subscribers) :
       subscribers[i] \notin chClosed /\ busPC[subscribers[i]] \in {"reading", "returned"}
  /\ \A i, j \in 1 .. Len(subscribers) : subscribers[i] = subscribers[j] => i = j

LEMMA BusInit == PartInit => BusInv
<1> SUFFICES ASSUME PartInit PROVE BusInv
  OBVIOUS
<1>1. E!Init
  BY DEF PartInit
<1> QED
  BY <1>1, EmptySeq DEF E!Init, BusInv, E!BusCallers, E!Writers

LEMMA BusPreserved ==
  ASSUME BusInv, E!Next \/ UNCHANGED busVars
  PROVE  BusInv'
<1>0. Publishers \cap E!Writers = {} /\ Subs \cap Closers = {}
  BY ProgressAssumption DEF E!EventBusAssumption, E!Writers
<1> USE <1>0 DEF BusInv, E!BusCallers, E!Writers, E!Goto, E!bus
<1>1. ASSUME NEW c \in E!BusCallers, E!Call(c) PROVE BusInv'
  <2>1. /\ busPC[c] = "idle" /\ busPC' = [busPC EXCEPT ![c] = "lock"]
        /\ UNCHANGED <<subscribers, toServe, chClosed, reading>>
    BY <1>1 DEF E!Call
  <2>2. /\ busPC' \in [E!BusCallers -> {"idle", "lock", "locked", "reading", "returned"}]
        /\ \A d \in E!BusCallers : d # c => busPC'[d] = busPC[d]
        /\ busPC'[c] = "lock"
    BY <2>1
  <2> QED
    BY <2>1, <2>2
<1>2. ASSUME NEW p \in Publishers, E!RLock(p) PROVE BusInv'
  BY <1>2 DEF E!RLock
<1>3. ASSUME NEW p \in Publishers, E!PublishOne(p) PROVE BusInv'
  <2>1. toServe[p] \in Seq(Subs) /\ toServe[p] # <<>>
    BY <1>3 DEF E!PublishOne
  <2>2. /\ Tail(toServe[p]) \in Seq(Subs) /\ Len(Tail(toServe[p])) = Len(toServe[p]) - 1
        /\ \A i \in 1 .. Len(Tail(toServe[p])) : Tail(toServe[p])[i] = toServe[p][i + 1]
    BY <2>1, HeadTailProperties
  <2>3. toServe' = [toServe EXCEPT ![p] = Tail(@)] /\ busPC' = busPC /\ busPC[p] = "locked"
    BY <1>3 DEF E!PublishOne
  <2>4. \A i \in 1 .. Len(toServe'[p]) : toServe'[p][i] \notin chClosed
    BY <2>1, <2>2, <2>3
  <2> QED
    BY <1>3, <2>2, <2>3, <2>4 DEF E!PublishOne
<1>4. ASSUME NEW p \in Publishers, E!RUnlock(p) PROVE BusInv'
  BY <1>4, EmptySeq DEF E!RUnlock
<1>5. ASSUME NEW w \in E!Writers, E!Lock(w) PROVE BusInv'
  BY <1>5 DEF E!Lock
<1>6. ASSUME NEW s \in Subs, E!Subscribe(s) PROVE BusInv'
  <2>1. /\ busPC' = [busPC EXCEPT ![s] = "reading"] /\ busPC[s] = "locked"
        /\ UNCHANGED <<chClosed, toServe, reading>>
    BY <1>6 DEF E!Subscribe
  <2>2. CASE UNCHANGED subscribers
    BY <2>1, <2>2
  <2>3. CASE subscribers' = Append(subscribers, s)
    <3>1. /\ subscribers' \in Seq(Subs) /\ Len(subscribers') = Len(subscribers) + 1
          /\ \A i \in 1 .. Len(subscribers) : subscribers'[i] = subscribers[i]
          /\ subscribers'[Len(subscribers) + 1] = s
      BY <2>3, AppendProperties
    <3>2. s \notin chClosed /\ \A i \in 1 .. Len(subscribers) : subscribers[i] # s
      BY <2>1
    <3>3. \A i \in 1 .. Len(subscribers') :
            i \in 1 .. Len(subscribers) \/ i = Len(subscribers) + 1
      BY <3>1, LenProperties
    <3> QED
      BY <2>1, <3>1, <3>2, <3>3
  <2> QED
    BY <1>6, <2>2, <2>3 DEF E!Subscribe
<1>7. ASSUME NEW s \in Subs, E!Read(s) \/ E!Unsubscribe(s) PROVE BusInv'
  BY <1>7 DEF E!Read, E!Unsubscribe
<1>8. ASSUME NEW c \in Closers, E!Close(c) PROVE BusInv'
  <2>1. \A p \in Publishers : busPC[p] # "locked"
    BY <1>8 DEF E!Close
  <2>2. \A i \in 1 .. Len(subscribers) : subscribers[i] \in Subs
    BY ElementOfSeq
  <2>3. chClosed' = chClosed \cup {subscribers[i] : i \in 1 .. Len(subscribers)}
    BY <1>8 DEF E!Close
  <2>4. chClosed' \subseteq Subs /\ \A s \in chClosed' : busPC[s] \in {"reading", "returned"}
    BY <2>2, <2>3
  <2>5. subscribers' = <<>> /\ busPC' = [busPC EXCEPT ![c] = "returned"] /\ UNCHANGED toServe
    BY <1>8 DEF E!Close
  <2> QED
    BY <2>1, <2>4, <2>5, EmptySeq
<1>9. CASE UNCHANGED busVars
  BY <1>9 DEF busVars
<1> QED
  BY <1>1, <1>2, <1>3, <1>4, <1>5, <1>6, <1>7, <1>8, <1>9 DEF E!Next

(* Publish never meets a closed channel, and none is closed twice.         *)
THEOREM NobodySendsOnClosedHolds == PartSpec => []NobodySendsOnClosed
<1>1. PartInit => BusInv
  BY BusInit
<1>2. BusInv /\ [PartNext]_partVars => BusInv'
  BY OtherParts, BusPreserved
<1>3. BusInv => NobodySendsOnClosed
  <2> SUFFICES ASSUME BusInv PROVE NobodySendsOnClosed
    OBVIOUS
  <2> USE DEF BusInv
  <2>1. ASSUME NEW p \in Publishers, busPC[p] = "locked", toServe[p] # <<>>
        PROVE  E!Sub(p) \notin chClosed
    <3>1. toServe[p] \in Seq(Subs)
      OBVIOUS
    <3>2. E!Sub(p) = toServe[p][1] /\ 1 \in 1 .. Len(toServe[p])
      BY <2>1, <3>1 DEF E!Sub
    <3> QED
      BY <2>1, <3>2
  <2>2. DOMAIN subscribers = 1 .. Len(subscribers)
    BY LenProperties
  <2> QED
    BY <2>1, <2>2 DEF NobodySendsOnClosed, E!NobodySendsOnClosed
<1> QED
  BY <1>1, <1>2, <1>3, PTL DEF PartSpec
---------------------------------------------------------------------------
(* DetectWaveCycles, for every plan of any size (WaveCycles).  Acyclic is  *)
(* stated over sets of waves, so neither paths nor an order of finishing   *)
(* have to be constructed.                                                 *)
Black == {n \in Nodes : color[n] = "black"}

LEMMA DepsAreNodes == TypeOK => \A n : Deps(n) \subseteq Nodes
BY DEF TypeOK, Deps

(* Only a wave has prerequisites.                                          *)
LEMMA DepsOfWaves == \A n : Deps(n) # {} => n \in Waves
BY DEF Deps

(* A part of an acyclic set is acyclic.                                    *)
LEMMA AcyclicSubset ==
  ASSUME NEW S, NEW T, T \subseteq S, Acyclic(S)
  PROVE  Acyclic(T)
BY DEF Acyclic

(* A node whose prerequisites lie in a closed acyclic set can be added.    *)
LEMMA AcyclicGrows ==
  ASSUME NEW S, NEW n, Acyclic(S), n \notin S,
         \A w \in S : Deps(w) \subseteq S, Deps(n) \subseteq S
  PROVE  Acyclic(S \cup {n})
<1> SUFFICES ASSUME NEW T \in SUBSET (S \cup {n}), T # {}
             PROVE  \E w \in T : Deps(w) \cap T = {}
    BY DEF Acyclic
<1>1. CASE T \cap S = {}
  <2>1. T = {n}
    BY <1>1
  <2> QED
    BY <2>1
<1>2. CASE T \cap S # {}
  <2>1. PICK w \in T \cap S : Deps(w) \cap (T \cap S) = {}
    BY <1>2 DEF Acyclic
  <2> QED
    BY <2>1
<1> QED
  BY <1>1, <1>2

LEMMA InitInv == Init => SearchInv
<1> SUFFICES ASSUME Init PROVE SearchInv
    OBVIOUS
<1>1. TypeOK
  BY DEF Init, TypeOK
<1>2. StackIsGrayPath /\ LookedAtIsVisited
  BY DEF Init, StackIsGrayPath, LookedAtIsVisited
<1>3. {n \in Nodes : color[n] = "black"} = {}
  BY DEF Init
<1> QED
  BY <1>1, <1>2, <1>3 DEF SearchInv, Acyclic

(***************************************************************************)
(* The search.                                                             *)
(***************************************************************************)

LEMMA VisitRootStep ==
  ASSUME SearchInv, NEW w \in Waves, VisitRoot(w)
  PROVE  SearchInv'
<1> USE DEF VisitRoot, SearchInv
<1>0. w \in Nodes /\ Deps(w)' = Deps(w) /\ \A n : Deps(n)' = Deps(n)
  BY DEF Nodes, Deps
<1>1. TypeOK'
  BY <1>0, DepsAreNodes DEF TypeOK
<1>2. StackIsGrayPath'
  BY <1>0 DEF StackIsGrayPath, TypeOK
<1>3. LookedAtIsVisited'
  BY <1>0 DEF LookedAtIsVisited, TypeOK, StackIsGrayPath
<1>4. {n \in Nodes : color[n] = "black"}' = {n \in Nodes : color[n] = "black"}
  BY <1>0 DEF TypeOK
<1>5. Acyclic({n \in Nodes : color[n] = "black"})'
  BY <1>0, <1>4 DEF Acyclic
<1> QED
  BY <1>1, <1>2, <1>3, <1>5

LEMMA VisitWhiteStep ==
  ASSUME SearchInv, NEW dep \in Nodes, VisitWhite(dep)
  PROVE  SearchInv'
<1> USE DEF VisitWhite, LooksAt, SearchInv
<1>0. \A n : Deps(n)' = Deps(n)
  BY DEF Deps
<1>1. Len(stack) \in Nat \ {0} /\ Top = stack[Len(stack)] /\ Top \in Nodes
      /\ color[Top] = "gray" /\ dep # Top
  BY DEF TypeOK, StackIsGrayPath, Top
<1>2. TypeOK'
  <2>1. stack' \in Seq(Nodes)
    BY DEF TypeOK
  <2>2. rest' \in [Nodes -> SUBSET Nodes]
    BY <1>1, DepsAreNodes DEF TypeOK
  <2>3. parent' \in [Nodes -> Nodes] /\ color' \in [Nodes -> {"white", "gray", "black"}]
    BY <1>1 DEF TypeOK
  <2> QED
    BY <2>1, <2>2, <2>3 DEF TypeOK
<1>3. Len(stack') = Len(stack) + 1 /\ stack'[Len(stack) + 1] = dep
      /\ \A i \in 1..Len(stack) : stack'[i] = stack[i]
  BY DEF TypeOK
<1>4. \A i \in DOMAIN stack : stack[i] # dep
  BY DEF StackIsGrayPath, TypeOK
<1>5. dep \in Deps(Top)
  BY <1>1 DEF LookedAtIsVisited, TypeOK
<1>6. StackIsGrayPath'
  <2>1. \A n \in Nodes : (color[n] = "gray" <=> \E i \in DOMAIN stack : stack[i] = n)'
    <3>1. DOMAIN stack = 1..Len(stack) /\ DOMAIN stack' = 1..(Len(stack) + 1)
      BY <1>1, <1>2, <1>3 DEF TypeOK
    <3>2. \A n \in Nodes : color'[n] = "gray" <=> color[n] = "gray" \/ n = dep
      BY DEF TypeOK
    <3>3. \A n : (\E i \in DOMAIN stack' : stack'[i] = n)
                   <=> (\E i \in DOMAIN stack : stack[i] = n) \/ n = dep
      BY <1>1, <1>3, <3>1
    <3> QED
      BY <3>2, <3>3 DEF StackIsGrayPath
  <2>2. \A i, j \in DOMAIN stack' : stack'[i] = stack'[j] => i = j
    BY <1>1, <1>2, <1>3, <1>4 DEF StackIsGrayPath, TypeOK
  <2>3. ASSUME NEW i \in 2..Len(stack')
        PROVE  /\ parent'[stack'[i]] = stack'[i - 1]
               /\ stack'[i] \in Deps(stack'[i - 1])
    <3>1. CASE i = Len(stack) + 1
      BY <1>1, <1>3, <1>5, <3>1 DEF TypeOK
    <3>2. CASE i \in 2..Len(stack)
      <4>1. stack'[i] = stack[i] /\ stack'[i - 1] = stack[i - 1] /\ stack[i] # dep
        BY <1>1, <1>3, <1>4, <3>2 DEF TypeOK
      <4> QED
        BY <3>2, <4>1 DEF StackIsGrayPath, TypeOK
    <3> QED
      BY <1>1, <1>3, <3>1, <3>2
  <2> QED
    BY <1>0, <2>1, <2>2, <2>3 DEF StackIsGrayPath
<1>7. LookedAtIsVisited'
  <2>1. \A n \in Nodes : color'[n] = "black" => \A d \in Deps(n) : color'[d] = "black"
    BY DepsAreNodes DEF LookedAtIsVisited, TypeOK
  <2>2. ASSUME NEW i \in DOMAIN stack'
        PROVE  /\ rest'[stack'[i]] \subseteq Deps(stack'[i])
               /\ \A d \in Deps(stack'[i]) \ rest'[stack'[i]] :
                    color'[d] = "black" \/ (i < Len(stack') /\ d = stack'[i + 1])
    <3>1. CASE i = Len(stack) + 1
      BY <1>1, <1>3, <3>1 DEF TypeOK
    <3>2. CASE i = Len(stack)
      BY <1>1, <1>3, <3>2, DepsAreNodes DEF LookedAtIsVisited, TypeOK
    <3>3. CASE i \in 1..(Len(stack) - 1)
      <4>1. stack'[i] = stack[i] /\ stack'[i + 1] = stack[i + 1]
            /\ stack[i] # dep /\ stack[i] # Top /\ stack[i] \in Nodes
        BY <1>1, <1>3, <1>4, <3>3 DEF StackIsGrayPath, TypeOK
      <4>2. rest'[stack[i]] = rest[stack[i]]
        BY <1>1, <4>1 DEF TypeOK
      <4>3. \A d \in Nodes : color[d] = "black" => color'[d] = "black"
        BY DEF TypeOK
      <4> QED
        BY <1>1, <1>3, <3>3, <4>1, <4>2, <4>3, DepsAreNodes
           DEF LookedAtIsVisited, TypeOK
    <3>4. i \in 1..(Len(stack) + 1)
      BY <1>2, <1>3 DEF TypeOK
    <3>5. i = Len(stack) + 1 \/ i = Len(stack) \/ i \in 1..(Len(stack) - 1)
      BY <1>1, <3>4
    <3> QED
      BY <3>1, <3>2, <3>3, <3>5
  <2> QED
    BY <1>0, <2>1, <2>2 DEF LookedAtIsVisited
<1>8. {n \in Nodes : color[n] = "black"}' = {n \in Nodes : color[n] = "black"}
  BY DEF TypeOK
<1>9. Acyclic({n \in Nodes : color[n] = "black"})'
  BY <1>0, <1>8 DEF Acyclic
<1> QED
  BY <1>2, <1>6, <1>7, <1>9

LEMMA SkipBlackStep ==
  ASSUME SearchInv, NEW dep \in Nodes, SkipBlack(dep)
  PROVE  SearchInv'
<1> USE DEF SkipBlack, LooksAt, SearchInv
<1>0. \A n : Deps(n)' = Deps(n)
  BY DEF Deps
<1>1. Len(stack) \in Nat \ {0} /\ Top = stack[Len(stack)] /\ Top \in Nodes
  BY DEF TypeOK, Top
<1>2. TypeOK'
  BY <1>1 DEF TypeOK
<1>3. StackIsGrayPath'
  BY <1>0 DEF StackIsGrayPath
<1>4. LookedAtIsVisited'
  BY <1>0, <1>1 DEF LookedAtIsVisited, TypeOK
<1>5. Acyclic({n \in Nodes : color[n] = "black"})'
  BY <1>0 DEF Acyclic
<1> QED
  BY <1>2, <1>3, <1>4, <1>5

LEMMA FinishStep ==
  ASSUME SearchInv, Finish
  PROVE  SearchInv'
<1> USE DEF Finish, SearchInv
<1>0. \A n : Deps(n)' = Deps(n)
  BY DEF Deps
<1> DEFINE k == Len(stack)
<1>1. k \in Nat \ {0} /\ Top = stack[k] /\ Top \in Nodes /\ color[Top] = "gray"
  BY DEF TypeOK, StackIsGrayPath, Top
<1>2. stack' \in Seq(Nodes) /\ Len(stack') = k - 1
      /\ \A i \in 1..(k - 1) : stack'[i] = stack[i]
  <2>1. stack \in Seq(Nodes) /\ 1 \in 1..(k + 1) /\ k - 1 \in 0..k
    BY <1>1 DEF TypeOK
  <2>2. stack' = SubSeq(stack, 1, k - 1)
    OBVIOUS
  <2> HIDE DEF k
  <2>3. \A i \in 1..(k - 1) : stack[i] \in Nodes
    BY <1>1, <2>1 DEF k
  <2>4. stack' = [i \in 1..(k - 1) |-> stack[i]]
    BY <1>1, <2>1, <2>2 DEF k
  <2> QED
    BY <1>1, <2>3, <2>4
<1>3. TypeOK'
  BY <1>1, <1>2 DEF TypeOK
<1>4. \A i \in 1..(k - 1) : stack[i] # Top
  BY <1>1 DEF StackIsGrayPath, TypeOK
<1>5. StackIsGrayPath'
  <2>1. \A n \in Nodes : color'[n] = "gray" <=> \E i \in 1..(k - 1) : stack[i] = n
    BY <1>1, <1>4 DEF StackIsGrayPath, TypeOK
  <2>2. DOMAIN stack = 1..k /\ DOMAIN stack' = 1..(k - 1)
    BY <1>1, <1>2 DEF TypeOK
  <2>3. (\A n \in Nodes : color[n] = "gray" <=> \E i \in DOMAIN stack : stack[i] = n)'
    BY <1>2, <2>1, <2>2
  <2>4. (\A i, j \in DOMAIN stack : stack[i] = stack[j] => i = j)'
    BY <1>1, <1>2, <2>2 DEF StackIsGrayPath
  <2>5. ASSUME NEW i \in 2..(k - 1)
        PROVE  parent[stack'[i]] = stack'[i - 1] /\ stack'[i] \in Deps(stack'[i - 1])
    BY <1>1, <1>2 DEF StackIsGrayPath
  <2> QED
    BY <1>0, <1>1, <1>2, <2>3, <2>4, <2>5 DEF StackIsGrayPath
<1>6. \A d \in Deps(Top) : color[d] = "black"
  BY <1>1 DEF LookedAtIsVisited, TypeOK
<1>7. \A d \in Nodes : color[d] = "black" => color'[d] = "black"
  BY DEF TypeOK
<1>8. LookedAtIsVisited'
  <2>1. \A n \in Nodes : color'[n] = "black" => \A d \in Deps(n) : color'[d] = "black"
    BY <1>1, <1>6, <1>7, DepsAreNodes DEF LookedAtIsVisited, TypeOK
  <2>2. ASSUME NEW i \in 1..(k - 1)
        PROVE  /\ rest[stack[i]] \subseteq Deps(stack[i])
               /\ \A d \in Deps(stack[i]) \ rest[stack[i]] :
                    color'[d] = "black" \/ (i < k - 1 /\ d = stack[i + 1])
    <3>1. i \in DOMAIN stack
      BY <1>1 DEF TypeOK
    <3>2. ASSUME NEW d \in Deps(stack[i]) \ rest[stack[i]]
          PROVE  color'[d] = "black" \/ (i < k - 1 /\ d = stack[i + 1])
      <4>1. CASE color[d] = "black"
        BY <1>7, <4>1, DepsAreNodes
      <4>2. CASE i < k /\ d = stack[i + 1]
        <5>1. CASE i + 1 = k
          BY <1>1, <4>2, <5>1 DEF TypeOK
        <5>2. CASE i + 1 # k
          BY <1>1, <4>2, <5>2
        <5> QED
          BY <5>1, <5>2
      <4> QED
        BY <3>1, <3>2, <4>1, <4>2 DEF LookedAtIsVisited
    <3> QED
      BY <3>1, <3>2 DEF LookedAtIsVisited
  <2> QED
    BY <1>0, <1>1, <1>2, <2>1, <2>2 DEF LookedAtIsVisited, TypeOK
<1>9. Acyclic({n \in Nodes : color[n] = "black"})'
  <2>1. Acyclic(Black \cup {Top})
    <3>1. \A w \in Black : Deps(w) \subseteq Black
      BY DepsAreNodes DEF Black, LookedAtIsVisited
    <3>2. Deps(Top) \subseteq Black
      BY <1>6, DepsAreNodes DEF Black
    <3>3. Top \notin Black /\ Acyclic(Black)
      BY <1>1 DEF Black
    <3> QED
      BY <3>1, <3>2, <3>3, AcyclicGrows
  <2>2. {n \in Nodes : color'[n] = "black"} = Black \cup {Top}
    BY <1>1 DEF Black, TypeOK
  <2> QED
    BY <1>0, <2>1, <2>2 DEF Acyclic, Nodes
<1> QED
  BY <1>3, <1>5, <1>8, <1>9

(* Once a back edge is found the search stands still.                      *)
LEMMA RestStep ==
  ASSUME SearchInv, UNCHANGED <<adj, search>>,
         path' \in Seq(Nodes), verdict' \in {"searching", "acyclic", "reporting", "cycle"}
  PROVE  SearchInv'
<1>1. \A n : Deps(n)' = Deps(n)
  BY DEF Deps
<1>2. TypeOK'
  BY DEF SearchInv, TypeOK, search
<1>3. StackIsGrayPath' /\ LookedAtIsVisited'
  BY <1>1 DEF SearchInv, StackIsGrayPath, LookedAtIsVisited, search
<1>4. Acyclic({n \in Nodes : color[n] = "black"})'
  BY <1>1 DEF SearchInv, Acyclic, search
<1> QED
  BY <1>2, <1>3, <1>4 DEF SearchInv

(***************************************************************************)
(* The verdict.                                                            *)
(***************************************************************************)

(* The nodes on the stack when a back edge is found.                       *)
LEMMA BackEdgeFacts ==
  ASSUME SearchInv, NEW dep \in Nodes, BackEdge(dep)
  PROVE  /\ Len(stack) \in Nat \ {0} /\ Top = stack[Len(stack)] /\ Top \in Nodes
         /\ dep \in Deps(Top)
         /\ \E d \in 1..Len(stack) : stack[d] = dep
         /\ \A i \in 1..Len(stack) : stack[i] \in Waves
<1>1. Len(stack) \in Nat \ {0} /\ Top = stack[Len(stack)] /\ Top \in Nodes
      /\ DOMAIN stack = 1..Len(stack)
  BY DEF SearchInv, TypeOK, BackEdge, LooksAt, Top
<1>2. dep \in Deps(Top)
  BY <1>1 DEF SearchInv, LookedAtIsVisited, BackEdge, LooksAt
<1>3. \E d \in 1..Len(stack) : stack[d] = dep
  BY <1>1 DEF SearchInv, StackIsGrayPath, BackEdge
<1>4. ASSUME NEW i \in 1..Len(stack)
      PROVE  Deps(stack[i]) # {}
  <2>1. CASE i = Len(stack)
    BY <1>1, <1>2, <2>1
  <2>2. CASE i # Len(stack)
    <3>1. Len(stack) \in Nat
      BY <1>1
    <3>2. i + 1 \in 2..Len(stack) /\ (i + 1) - 1 = i
      BY <2>2, <3>1
    <3>3. stack[i + 1] \in Deps(stack[(i + 1) - 1])
      BY <3>2 DEF SearchInv, StackIsGrayPath
    <3> QED
      BY <3>2, <3>3
  <2> QED
    BY <2>1, <2>2
<1> QED
  BY <1>1, <1>2, <1>3, <1>4, DepsOfWaves

(* The nodes from dep to the top of the stack wait for each other.         *)
LEMMA BackEdgeIsCycle ==
  ASSUME SearchInv, NEW dep \in Nodes, BackEdge(dep)
  PROVE  ~Acyclic(Waves)
<1>1. PICK d \in 1..Len(stack) : stack[d] = dep
  BY BackEdgeFacts
<1> DEFINE T == {stack[i] : i \in d..Len(stack)}
<1>2. Len(stack) \in Nat \ {0} /\ Top = stack[Len(stack)] /\ dep \in Deps(Top)
      /\ \A i \in 1..Len(stack) : stack[i] \in Waves
  BY BackEdgeFacts
<1>3. T \in SUBSET Waves /\ T # {}
  BY <1>1, <1>2
<1>4. ASSUME NEW i \in d..Len(stack)
      PROVE  Deps(stack[i]) \cap T # {}
  <2>1. CASE i = Len(stack)
    BY <1>1, <1>2, <2>1
  <2>2. CASE i # Len(stack)
    <3>1. i + 1 \in 2..Len(stack) /\ (i + 1) - 1 = i /\ i + 1 \in d..Len(stack)
      BY <1>1, <1>2, <2>2
    <3>2. stack[i + 1] \in Deps(stack[(i + 1) - 1])
      BY <3>1 DEF SearchInv, StackIsGrayPath
    <3> QED
      BY <3>1, <3>2
  <2> QED
    BY <2>1, <2>2
<1>5. ~ \E w \in T : Deps(w) \cap T = {}
  BY <1>4
<1> QED
  BY <1>3, <1>5 DEF Acyclic

(* With an empty stack and no white wave, every wave is black.             *)
LEMMA NoCycleIsAcyclic ==
  ASSUME SearchInv, NoCycle
  PROVE  Acyclic(Waves)
<1>1. DOMAIN stack = {}
  BY DEF NoCycle
<1>2. \A w \in Waves : color[w] = "black"
  BY <1>1 DEF SearchInv, TypeOK, StackIsGrayPath, NoCycle, Nodes
<1>3. Waves \subseteq {n \in Nodes : color[n] = "black"}
  BY <1>2 DEF Nodes
<1> QED
  BY <1>3, AcyclicSubset DEF SearchInv

(***************************************************************************)
(* The path.  While it is collected it is the stack read downwards, after  *)
(* the prerequisite that closed the cycle, which is further down.          *)
(***************************************************************************)

ReportInv ==
  verdict = "reporting" =>
    /\ Len(path) \in 2..(Len(stack) + 1)
    /\ path[1] \in Deps(path[2])
    /\ \A j \in 2..Len(path) : path[j] = stack[Len(stack) - j + 2]
    /\ \E d \in 1..(Len(stack) - Len(path) + 2) : path[1] = stack[d]
    /\ \A i \in 1..Len(stack) : stack[i] \in Waves

LEMMA BackEdgeReports ==
  ASSUME SearchInv, NEW dep \in Nodes, BackEdge(dep)
  PROVE  ReportInv'
<1>1. /\ Len(stack) \in Nat \ {0} /\ Top = stack[Len(stack)]
      /\ dep \in Deps(Top)
      /\ \E d \in 1..Len(stack) : stack[d] = dep
      /\ \A i \in 1..Len(stack) : stack[i] \in Waves
  BY BackEdgeFacts
<1>2. path' = <<dep, Top>> /\ stack' = stack /\ \A n : Deps(n)' = Deps(n)
  BY DEF BackEdge, search, Deps
<1>3. Len(path') = 2 /\ path'[1] = dep /\ path'[2] = Top
  BY <1>2
<1> QED
  BY <1>1, <1>2, <1>3 DEF ReportInv

LEMMA FollowParentReports ==
  ASSUME SearchInv, ReportInv, FollowParent
  PROVE  ReportInv' /\ path' \in Seq(Nodes)
<1> DEFINE k == Len(stack)
           p == Len(path)
<1>1. /\ k \in Nat /\ p \in 2..(k + 1)
      /\ path[1] \in Deps(path[2])
      /\ \A j \in 2..p : path[j] = stack[k - j + 2]
      /\ \A i \in 1..k : stack[i] \in Waves
      /\ path \in Seq(Nodes) /\ Cur = path[p] /\ Cur # path[1]
  BY DEF SearchInv, TypeOK, ReportInv, FollowParent, Following, Cur
<1>2. PICK d \in 1..(k - p + 2) : path[1] = stack[d]
  BY DEF ReportInv, FollowParent
<1>3. stack' = stack /\ path' = Append(path, parent[Cur]) /\ \A n : Deps(n)' = Deps(n)
  BY DEF FollowParent, search, Deps
<1> HIDE DEF k, p
<1>4. Cur = stack[k - p + 2]
  BY <1>1
<1>5. d # k - p + 2
  BY <1>1, <1>2, <1>4
<1>6. d \in 1..(k - p + 1) /\ k - p + 2 \in 2..k /\ (k - p + 2) - 1 = k - p + 1
  BY <1>1, <1>2, <1>5
<1>7. parent[Cur] = stack[k - p + 1]
  BY <1>4, <1>6 DEF SearchInv, StackIsGrayPath, k
<1>8. parent[Cur] \in Nodes
  BY <1>1, <1>6, <1>7 DEF Nodes
<1>9. /\ path' \in Seq(Nodes) /\ Len(path') = p + 1 /\ path'[p + 1] = stack[k - p + 1]
      /\ \A j \in 1..p : path'[j] = path[j]
  BY <1>1, <1>3, <1>7, <1>8 DEF p
<1>10. \A j \in 2..(p + 1) : path'[j] = stack[k - j + 2]
  <2> TAKE j \in 2..(p + 1)
  <2>1. CASE j = p + 1
    BY <1>1, <1>9, <2>1
  <2>2. CASE j \in 2..p
    BY <1>1, <1>9, <2>2
  <2> QED
    BY <1>1, <2>1, <2>2
<1>11. p + 1 \in 2..(k + 1) /\ path'[1] = path[1] /\ path'[2] = path[2]
  BY <1>1, <1>6, <1>9
<1>12. \E e \in 1..(k - (p + 1) + 2) : path'[1] = stack[e]
  BY <1>1, <1>2, <1>6, <1>11
<1> QED
  BY <1>1, <1>3, <1>9, <1>10, <1>11, <1>12 DEF ReportInv, k, p

(* The loop never stops for its bound: the stack holds each wave once.     *)
LEMMA ReportIsCycle ==
  ASSUME SearchInv, ReportInv, Report
  PROVE  PathIsCycle'
<1> DEFINE k == Len(stack)
           p == Len(path)
<1>1. /\ k \in Nat /\ p \in 2..(k + 1)
      /\ path[1] \in Deps(path[2])
      /\ \A j \in 2..p : path[j] = stack[k - j + 2]
      /\ \A i \in 1..k : stack[i] \in Waves
      /\ stack \in Seq(Nodes)
  BY DEF SearchInv, TypeOK, ReportInv, Report
<1>2. path' = path /\ \A n : Deps(n)' = Deps(n)
  BY DEF Report, Deps
<1>3. k <= Cardinality(Waves)
  <2>1. stack \in [1..k -> Waves]
    BY <1>1
  <2>2. \A i, j \in 1..k : stack[i] = stack[j] => i = j
    BY <1>1 DEF SearchInv, StackIsGrayPath
  <2>3. stack \in Injection(1..k, Waves)
    BY <2>1, <2>2 DEF Injection, IsInjective
  <2>4. Cardinality(1..k) <= Cardinality(Waves)
    BY <2>3, WavesAssumption, FS_Injection
  <2>5. Cardinality(1..k) = IF 1 > k THEN 0 ELSE k - 1 + 1
    BY <1>1, FS_Interval
  <2> QED
    BY <1>1, <2>4, <2>5
<1>4. Cardinality(Waves) \in Nat
  BY WavesAssumption, FS_CardinalityType
<1>5. path[p] = path[1]
  <2> HIDE DEF k
  <2>1. ~ (p - 2 < Cardinality(Waves) /\ path[p] # path[1])
    BY DEF Report, Following, Added, Cur
  <2> HIDE DEF p
  <2>2. p - 2 < Cardinality(Waves)
    BY <1>1, <1>3, <1>4
  <2> QED
    BY <2>1, <2>2
<1>6. ASSUME NEW i \in 2..p
      PROVE  path[i - 1] \in Deps(path[i])
  <2>1. CASE i = 2
    BY <1>1, <2>1
  <2>2. CASE i \in 3..p
    <3> DEFINE j == k - i + 3
    <3>1. j \in 2..k /\ path[i] = stack[j - 1] /\ path[i - 1] = stack[j]
      <4> HIDE DEF p
      <4>1. i \in 2..p /\ i - 1 \in 2..p
        BY <1>1, <2>2
      <4>2. path[i] = stack[k - i + 2] /\ path[i - 1] = stack[k - (i - 1) + 2]
        BY <1>1, <4>1
      <4>3. k - i + 2 = j - 1 /\ k - (i - 1) + 2 = j /\ j \in 2..k
        BY <1>1, <2>2
      <4> QED
        BY <4>2, <4>3
    <3> QED
      BY <3>1 DEF SearchInv, StackIsGrayPath
  <2> QED
    BY <1>1, <2>1, <2>2
<1> QED
  BY <1>2, <1>5, <1>6 DEF PathIsCycle

(***************************************************************************)
(* The theorems.                                                           *)
(***************************************************************************)

CyclesInv ==
  /\ SearchInv
  /\ VerdictIsRight
  /\ ReportInv
  /\ PathIsCycle

LEMMA VerdictStays ==
  ASSUME VerdictIsRight, adj' = adj,
         verdict' = verdict \/ (verdict = "reporting" /\ verdict' = "cycle")
  PROVE  VerdictIsRight'
<1>1. Acyclic(Waves)' <=> Acyclic(Waves)
  BY DEF Acyclic, Deps
<1> QED
  BY <1>1 DEF VerdictIsRight

LEMMA CyclesStep == CyclesInv /\ [Next]_vars => CyclesInv'
<1> SUFFICES ASSUME CyclesInv, [Next]_vars
             PROVE  CyclesInv'
    OBVIOUS
<1> USE DEF CyclesInv
<1>1. ASSUME verdict = "searching", verdict' = "searching", adj' = adj
      PROVE  (VerdictIsRight /\ ReportInv /\ PathIsCycle)'
  BY <1>1 DEF VerdictIsRight, ReportInv, PathIsCycle
<1>2. ASSUME NEW w \in Waves, VisitRoot(w)
      PROVE  CyclesInv'
  BY <1>1, <1>2, VisitRootStep DEF VisitRoot
<1>3. ASSUME NEW dep \in Nodes, VisitWhite(dep)
      PROVE  CyclesInv'
  BY <1>1, <1>3, VisitWhiteStep DEF VisitWhite, LooksAt
<1>4. ASSUME NEW dep \in Nodes, SkipBlack(dep)
      PROVE  CyclesInv'
  BY <1>1, <1>4, SkipBlackStep DEF SkipBlack, LooksAt
<1>5. ASSUME NEW dep \in Nodes, BackEdge(dep)
      PROVE  CyclesInv'
  <2>1. path' \in Seq(Nodes) /\ verdict' = "reporting" /\ UNCHANGED <<adj, search>>
    BY <1>5, BackEdgeFacts DEF BackEdge
  <2>2. SearchInv'
    BY <2>1, RestStep
  <2>3. Acyclic(Waves)' <=> Acyclic(Waves)
    BY <2>1 DEF Acyclic, Deps
  <2>4. VerdictIsRight'
    BY <1>5, <2>1, <2>3, BackEdgeIsCycle DEF VerdictIsRight
  <2>5. ReportInv'
    BY <1>5, BackEdgeReports
  <2> QED
    BY <2>1, <2>2, <2>4, <2>5 DEF PathIsCycle
<1>6. CASE Finish
  BY <1>1, <1>6, FinishStep DEF Finish
<1>7. CASE NoCycle
  <2>1. SearchInv'
    BY <1>7, RestStep DEF NoCycle, SearchInv, TypeOK
  <2>2. Acyclic(Waves)' <=> Acyclic(Waves)
    BY <1>7 DEF NoCycle, Acyclic, Deps
  <2>3. VerdictIsRight'
    BY <1>7, <2>2, NoCycleIsAcyclic DEF VerdictIsRight, NoCycle
  <2> QED
    BY <1>7, <2>1, <2>3 DEF NoCycle, ReportInv, PathIsCycle
<1>8. CASE FollowParent
  <2>1. ReportInv' /\ path' \in Seq(Nodes)
    BY <1>8, FollowParentReports
  <2>2. SearchInv'
    BY <1>8, <2>1, RestStep DEF FollowParent
  <2>3. VerdictIsRight'
    BY <1>8, VerdictStays DEF FollowParent
  <2> QED
    BY <1>8, <2>1, <2>2, <2>3 DEF FollowParent, PathIsCycle
<1>9. CASE Report
  <2>1. SearchInv'
    BY <1>9, RestStep DEF Report, SearchInv, TypeOK
  <2>2. VerdictIsRight'
    BY <1>9, VerdictStays DEF Report
  <2>3. PathIsCycle'
    BY <1>9, ReportIsCycle
  <2> QED
    BY <1>9, <2>1, <2>2, <2>3 DEF Report, ReportInv
<1>10. CASE UNCHANGED vars
  <2>1. SearchInv'
    BY <1>10, RestStep DEF vars, SearchInv, TypeOK
  <2>2. VerdictIsRight'
    BY <1>10, VerdictStays DEF vars
  <2> QED
    BY <1>10, <2>1, <2>2 DEF vars, search, ReportInv, PathIsCycle, Deps
<1> HIDE DEF CyclesInv
<1> QED
  BY <1>2, <1>3, <1>4, <1>5, <1>6, <1>7, <1>8, <1>9, <1>10 DEF Next

LEMMA CyclesInvariant == Spec => []CyclesInv
<1>1. Init => CyclesInv
  BY InitInv DEF CyclesInv, Init, VerdictIsRight, ReportInv, PathIsCycle
<1> QED
  BY <1>1, CyclesStep, PTL DEF Spec

(* Through every step of the search the colours keep their meaning and the *)
(* finished part of the plan is acyclic, whatever the plan.                *)
THEOREM SearchInvHolds == Spec => []SearchInv
<1>1. CyclesInv => SearchInv
  BY DEF CyclesInv
<1> QED
  BY <1>1, CyclesInvariant, PTL

(* For every plan, DetectWaveCycles reports a cycle only if some waves     *)
(* wait for each other, and none only if no waves do.                      *)
THEOREM VerdictIsRightHolds == Spec => []VerdictIsRight
<1>1. CyclesInv => VerdictIsRight
  BY DEF CyclesInv
<1> QED
  BY <1>1, CyclesInvariant, PTL

(* For every plan, the path in the error is a cycle of the plan: the bound *)
(* of the loop that collects it never cuts it short.                       *)
THEOREM PathIsCycleHolds == Spec => []PathIsCycle
<1>1. CyclesInv => PathIsCycle
  BY DEF CyclesInv
<1> QED
  BY <1>1, CyclesInvariant, PTL

(* For every plan, DetectWaveCycles finds out whether waves wait for each  *)
(* other and names a cycle if they do.                                     *)
THEOREM SearchIsRightHolds == Spec => []SearchIsRight
<1>1. VerdictIsRight /\ PathIsCycle => SearchIsRight
  BY DEF SearchIsRight
<1> QED
  BY <1>1, VerdictIsRightHolds, PathIsCycleHolds, PTL
=============================================================================
