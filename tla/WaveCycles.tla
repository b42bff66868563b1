----------------------------- MODULE WaveCycles -----------------------------
(***************************************************************************)
(* DetectWaveCycles (internal/harness/policy/wave_policy.go): depth-first  *)
(* search over the prerequisites of a plan of waves, one step per turn of  *)
(* its loops, and the path it puts in the error.  Prerequisites and roots  *)
(* are taken in any order.  The plan's wave keys are distinct (of two      *)
(* waves with one key the code's map keeps the prerequisites of the last). *)
(***************************************************************************)
EXTENDS Integers, Sequences, FiniteSets

CONSTANTS
  Waves,   \* the keys of the plan's waves
  Others   \* keys that prerequisites name and that no wave has

ASSUME OthersAssumption == Waves \cap Others = {}
ASSUME WavesAssumption == IsFiniteSet(Waves)

VARIABLES
  adj,      \* the prerequisites of each wave
  color,
  parent,   \* the node from which a node was visited
  stack,    \* the calls of dfs, the first one at the bottom
  rest,     \* the prerequisites each of them has still to look at
  verdict,  \* "searching", "acyclic", or "reporting" and then "cycle"
  path      \* the cycle in the error, from the back edge on

search == <<color, parent, stack, rest>>
vars == <<adj, search, verdict, path>>

Nodes == Waves \cup Others

(* adj[node], where a key without a wave has none.                         *)
Deps(n) == IF n \in Waves THEN adj[n] ELSE {}

Top == stack[Len(stack)]

Init ==
  /\ adj \in [Waves -> SUBSET Nodes]
  /\ color = [n \in Nodes |-> "white"]
  /\ parent = [n \in Nodes |-> n]
  /\ stack = <<>>
  /\ rest = [n \in Nodes |-> {}]
  /\ verdict = "searching"
  /\ path = <<>>

VisitRoot(w) ==
  /\ verdict = "searching"
  /\ stack = <<>>
  /\ color[w] = "white"
  /\ color' = [color EXCEPT ![w] = "gray"]
  /\ rest' = [rest EXCEPT ![w] = Deps(w)]
  /\ stack' = <<w>>
  /\ UNCHANGED <<adj, parent, verdict, path>>

(* The loop of dfs(Top) looks at dep.                                      *)
LooksAt(dep) ==
  /\ verdict = "searching"
  /\ stack # <<>>
  /\ dep \in rest[Top]

VisitWhite(dep) ==
  /\ LooksAt(dep)
  /\ color[dep] = "white"
  /\ parent' = [parent EXCEPT ![dep] = Top]
  /\ color' = [color EXCEPT ![dep] = "gray"]
  /\ rest' = [rest EXCEPT ![Top] = @ \ {dep}, ![dep] = Deps(dep)]
  /\ stack' = Append(stack, dep)
  /\ UNCHANGED <<adj, verdict, path>>

SkipBlack(dep) ==
  /\ LooksAt(dep)
  /\ color[dep] = "black"
  /\ rest' = [rest EXCEPT ![Top] = @ \ {dep}]
  /\ UNCHANGED <<adj, color, parent, stack, verdict, path>>

(* Mutant: without the colour black, a second visit is taken for a cycle.  *)
BackEdgeToVisited(dep) ==
  /\ LooksAt(dep)
  /\ color[dep] # "white"
  /\ verdict' = "reporting"
  /\ path' = <<dep, Top>>
  /\ UNCHANGED <<adj, search>>

(* A prerequisite that is on the stack.                                    *)
BackEdge(dep) ==
  /\ LooksAt(dep)
  /\ color[dep] = "gray"
  /\ verdict' = "reporting"
  /\ path' = <<dep, Top>>
  /\ UNCHANGED <<adj, search>>

Finish ==
  /\ verdict = "searching"
  /\ stack # <<>>
  /\ rest[Top] = {}
  /\ color' = [color EXCEPT ![Top] = "black"]
  /\ stack' = SubSeq(stack, 1, Len(stack) - 1)
  /\ UNCHANGED <<adj, parent, rest, verdict, path>>

NoCycle ==
  /\ verdict = "searching"
  /\ stack = <<>>
  /\ \A w \in Waves : color[w] # "white"
  /\ verdict' = "acyclic"
  /\ UNCHANGED <<adj, search, path>>

(* cur, the last node of the path, and the number of nodes added to it.    *)
Cur == path[Len(path)]
Added == Len(path) - 2

(* for i := 0; i < len(waves) && cur != dep                                *)
Following == Added < Cardinality(Waves) /\ Cur # path[1]

FollowParent ==
  /\ verdict = "reporting"
  /\ Following
  /\ path' = Append(path, parent[Cur])
  /\ UNCHANGED <<adj, search, verdict>>

Report ==
  /\ verdict = "reporting"
  /\ ~Following
  /\ verdict' = "cycle"
  /\ UNCHANGED <<adj, search, path>>

Next ==
  \/ \E w \in Waves : VisitRoot(w)
  \/ \E dep \in Nodes : VisitWhite(dep) \/ SkipBlack(dep) \/ BackEdge(dep)
  \/ Finish
  \/ NoCycle
  \/ FollowParent
  \/ Report

Spec == Init /\ [][Next]_vars /\ WF_vars(Next)

-----------------------------------------------------------------------------
(* Properties.                                                             *)

TypeOK ==
  /\ adj \in [Waves -> SUBSET Nodes]
  /\ color \in [Nodes -> {"white", "gray", "black"}]
  /\ parent \in [Nodes -> Nodes]
  /\ stack \in Seq(Nodes)
  /\ rest \in [Nodes -> SUBSET Nodes]
  /\ verdict \in {"searching", "acyclic", "reporting", "cycle"}
  /\ path \in Seq(Nodes)

(* No set of waves waits for itself: in each there is one that could go    *)
(* first.  Prerequisites nobody has do not make a cycle.                   *)
Acyclic(S) ==
  \A T \in SUBSET S : T # {} => \E w \in T : Deps(w) \cap T = {}

(* The stack is the gray path, each node noted as the parent of the next.  *)
StackIsGrayPath ==
  /\ \A n \in Nodes : color[n] = "gray" <=> \E i \in DOMAIN stack : stack[i] = n
  /\ \A i, j \in DOMAIN stack : stack[i] = stack[j] => i = j
  /\ \A i \in 2..Len(stack) :
       /\ parent[stack[i]] = stack[i - 1]
       /\ stack[i] \in Deps(stack[i - 1])

(* What a gray node has looked at is finished or above it on the stack;    *)
(* a black node has looked at everything.                                  *)
LookedAtIsVisited ==
  /\ \A n \in Nodes : color[n] = "black" => \A d \in Deps(n) : color[d] = "black"
  /\ \A i \in DOMAIN stack :
       /\ rest[stack[i]] \subseteq Deps(stack[i])
       /\ \A d \in Deps(stack[i]) \ rest[stack[i]] :
            color[d] = "black" \/ (i < Len(stack) /\ d = stack[i + 1])

(* The colours keep their meaning through every step of the search, and    *)
(* the finished part of the plan has no cycle.                             *)
SearchInv ==
  /\ TypeOK
  /\ StackIsGrayPath
  /\ LookedAtIsVisited
  /\ Acyclic({n \in Nodes : color[n] = "black"})

(* DetectWaveCycles returns an error exactly if some waves would wait for  *)
(* each other for ever, also when prerequisites name waves that do not     *)
(* exist, themselves, or a wave reachable on several ways.                 *)
VerdictIsRight ==
  /\ verdict = "acyclic" => Acyclic(Waves)
  /\ verdict \in {"reporting", "cycle"} => ~Acyclic(Waves)

(* The path in the error is a cycle of the plan: it ends where it began,   *)
(* and each node is a prerequisite of the next.                            *)
PathIsCycle ==
  verdict = "cycle" =>
    /\ path[1] = path[Len(path)]
    /\ \A i \in 2..Len(path) : path[i - 1] \in Deps(path[i])

(* Of every plan, DetectWaveCycles says whether waves wait for each other, *)
(* and which (VerdictIsRight, PathIsCycle).                                *)
SearchIsRight == VerdictIsRight /\ PathIsCycle

(* The search ends.                                                        *)
Terminates == <>(verdict \in {"acyclic", "cycle"})
=============================================================================
