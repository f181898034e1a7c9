----------------------------- MODULE PlanGraph -----------------------------
(***************************************************************************)
(* The dependency checks on a mission plan (graph_utils): the depth-first  *)
(* search of find_cycle, one action per turn of visit's loop with Python's *)
(* call stack as `path`, then the rounds of topological_order.             *)
(***************************************************************************)
EXTENDS Naturals, Sequences, FiniteSets, SequencesExt

CONSTANTS
    N,           (* how many steps a plan has: the keys of depends_on       *)
    Graphs       (* the depends_on maps that are checked                    *)

Nodes == 1..N    \* step ids in the order of the dict
Dangling == 0    \* any id that is not a key

ASSUME SizeAssumption == N \in Nat
ASSUME GraphsAssumption == Graphs \subseteq [Nodes -> Seq(Nodes \cup {Dangling})]

VARIABLES
    depends,     \* depends_on
    colour,      \* WHITE, GRAY or BLACK per node
    path,        \* the nodes visit has been entered for, outermost first
    at,          \* the next dependency each of them looks at
    found,       \* the cycle returned, <<>> for None
    ordered,     \* topological_order's result so far
    remaining,   \* the nodes it has not placed yet
    phase        \* which function runs, or how it ended

search == <<colour, path, at, found>>
order  == <<ordered, remaining>>
vars   == <<depends, search, order, phase>>

Deps(n) == Range(depends[n])
Top     == Last(path)
Push(n) == path' = Append(path, n) /\ colour' = [colour EXCEPT ![n] = "GRAY"]

Init ==
    /\ depends \in Graphs
    /\ colour = [n \in Nodes |-> "WHITE"] /\ at = [n \in Nodes |-> 1]
    /\ path = <<>> /\ found = <<>>
    /\ ordered = <<>> /\ remaining = Nodes
    /\ phase = "search"

-----------------------------------------------------------------------------
(* find_cycle.                                                             *)

\* The outer loop enters visit for the first node that is still WHITE.
VisitRoot(n) ==
    /\ phase = "search" /\ path = <<>>
    /\ colour[n] = "WHITE" /\ \A m \in 1..(n - 1) : colour[m] # "WHITE"
    /\ Push(n)
    /\ UNCHANGED <<depends, at, found, order, phase>>

\* The dependency that the innermost visit looks at next.
Looking(d) ==
    /\ phase = "search" /\ path # <<>>
    /\ at[Top] <= Len(depends[Top]) /\ d = depends[Top][at[Top]]

Colour(d) == IF d \in Nodes THEN colour[d] ELSE "no node"

\* A dangling reference or a finished node: nothing to do.
PassGray(d) ==                    \* variant: only a self-reference is a loop
    /\ Looking(d) /\ Colour(d) # "WHITE" /\ d # Top
    /\ at' = [at EXCEPT ![Top] = @ + 1]
    /\ UNCHANGED <<depends, colour, path, found, order, phase>>
Pass(d) ==
    /\ Looking(d) /\ Colour(d) \in {"no node", "BLACK"}
    /\ at' = [at EXCEPT ![Top] = @ + 1]
    /\ UNCHANGED <<depends, colour, path, found, order, phase>>

Descend(d) ==
    /\ Looking(d) /\ Colour(d) = "WHITE"
    /\ at' = [at EXCEPT ![Top] = @ + 1]
    /\ Push(d)
    /\ UNCHANGED <<depends, found, order, phase>>

\* A GRAY dependency closes a cycle: the path from it on, and itself again.
CloseOpen(d) ==                   \* variant: the closing node is left out
    /\ Looking(d) /\ Colour(d) = "GRAY"
    /\ \E i \in 1..Len(path) : path[i] = d /\ found' = SubSeq(path, i, Len(path))
    /\ phase' = "cyclic"
    /\ UNCHANGED <<depends, colour, path, at, order>>
Close(d) ==
    /\ Looking(d) /\ Colour(d) = "GRAY"
    /\ \E i \in 1..Len(path) : path[i] = d /\ found' = Append(SubSeq(path, i, Len(path)), d)
    /\ phase' = "cyclic"
    /\ UNCHANGED <<depends, colour, path, at, order>>

\* All dependencies looked at: the visit returns None.
Leave ==
    /\ phase = "search" /\ path # <<>> /\ at[Top] > Len(depends[Top])
    /\ colour' = [colour EXCEPT ![Top] = "BLACK"]
    /\ path' = Front(path)
    /\ UNCHANGED <<depends, at, found, order, phase>>

\* Every node visited, no cycle: None.
NoCycle ==
    /\ phase = "search" /\ path = <<>> /\ \A n \in Nodes : colour[n] # "WHITE"
    /\ phase' = "order"
    /\ UNCHANGED <<depends, search, order>>

-----------------------------------------------------------------------------
(* topological_order.                                                      *)

ReadyAnyhow == {n \in remaining : \E d \in Deps(n) : d \notin remaining} \cup
               {n \in remaining : Deps(n) = {}}    \* variant: any placed dependency will do
Ready == {n \in remaining : Deps(n) \cap remaining = {}}

\* One round of the while loop places everything whose dependencies are placed,
\* in the order of the dict.
Round ==
    /\ phase = "order" /\ Ready # {}
    /\ \E batch \in [1..Cardinality(Ready) -> Ready] :
          /\ \A i, j \in DOMAIN batch : i < j => batch[i] < batch[j]
          /\ \A n \in Ready : \E i \in DOMAIN batch : batch[i] = n
          /\ ordered' = ordered \o batch
    /\ remaining' = remaining \ Ready
    /\ UNCHANGED <<depends, search, phase>>

Ends(p) == phase' = p /\ UNCHANGED <<depends, search, order>>

\* With none ready the loop has ended, or raises DependencyCycleError once more.
Finished == phase = "order" /\ Ready = {} /\ Ends(IF remaining = {} THEN "ordered" ELSE "stuck")

Visit(d) == Pass(d) \/ Descend(d) \/ Close(d)

Next ==
    \/ \E n \in Nodes : VisitRoot(n)
    \/ \E d \in Nodes \cup {Dangling} : Visit(d)
    \/ Leave \/ NoCycle
    \/ Round \/ Finished

Spec == Init /\ [][Next]_vars

-----------------------------------------------------------------------------
(* Properties.                                                             *)

Colours == {"WHITE", "GRAY", "BLACK"}
Phases  == {"search", "cyclic", "order", "ordered", "stuck"}

SearchTypes ==
    /\ depends \in Graphs
    /\ colour \in [Nodes -> Colours] /\ path \in Seq(Nodes) /\ at \in [Nodes -> Nat]
    /\ found \in Seq(Nodes) /\ remaining \in SUBSET Nodes /\ phase \in Phases

\* No loop: any set of steps has one that depends on none of them.
AcyclicSet(T) == \A S \in SUBSET T : S # {} => \E n \in S : Deps(n) \cap S = {}
Acyclic == AcyclicSet(Nodes)

\* The answer of find_cycle is right both ways: a cycle it returns is one, each
\* step of it depending on the next, and None means there is none at all.
FindCycleIsRight ==
    /\ phase = "cyclic" =>
          /\ Len(found) > 1 /\ found[1] = found[Len(found)]
          /\ \A i \in 1..(Len(found) - 1) : found[i + 1] \in Deps(found[i])
    /\ phase \in {"order", "ordered", "stuck"} => Acyclic

\* topological_order's second DependencyCycleError cannot happen, find_cycle has
\* already ruled it out; and the order returned has every step once, after
\* everything it depends on.
OrderIsRight ==
    /\ phase # "stuck"
    /\ phase = "ordered" => \A n \in Nodes : \E i \in 1..Len(ordered) : ordered[i] = n
    /\ \A i, j \in 1..Len(ordered) : ordered[i] = ordered[j] => i = j
    /\ \A i, j \in 1..Len(ordered) : ordered[j] \in Deps(ordered[i]) => j < i

-----------------------------------------------------------------------------
(* The inductive invariant behind the theorems of DecisionProofs.          *)

Black == {n \in Nodes : colour[n] = "BLACK"}

\* The GRAY nodes are the path, each once, and each depends on the next.
PathIsGray ==
    /\ \A n \in Nodes : colour[n] = "GRAY" <=> \E i \in 1..Len(path) : path[i] = n
    /\ \A i, j \in 1..Len(path) : path[i] = path[j] => i = j
    /\ \A i \in 1..(Len(path) - 1) : path[i + 1] \in Deps(path[i])

\* What a node on the path has looked at is finished, or is next on the path.
LookedAt ==
    /\ \A n \in Nodes : at[n] # 0 /\ (colour[n] = "WHITE" => at[n] = 1)
    /\ \A i \in 1..Len(path) : \A k \in 1..(at[path[i]] - 1) : k <= Len(depends[path[i]]) =>
          \/ depends[path[i]][k] \in Black \cup {Dangling}
          \/ i < Len(path) /\ depends[path[i]][k] = path[i + 1]

\* Finished nodes depend on finished nodes only, and on no loop.
BlackIsClosed == (\A n \in Black : Deps(n) \subseteq Black \cup {Dangling}) /\ AcyclicSet(Black)

\* All of it together: what find_cycle maintains (TLC checks it, and
\* DecisionProofs proves it for plans of any size).
SearchInv == SearchTypes /\ PathIsGray /\ LookedAt /\ BlackIsClosed /\ FindCycleIsRight
=============================================================================
