---------------------------- MODULE ModuleOrder ----------------------------
(***************************************************************************)
(* ModuleGraph::BuildInstantiationOrder: the depth-first search that turns *)
(* the dependencies of a Program's modules into the order in which they    *)
(* are instantiated, or finds a cycle.  Its recursion is the variable      *)
(* `path' (the vector `stack' in the code, which grows and shrinks with    *)
(* the calls of `visit'), together with how far the loop of each call got. *)
(***************************************************************************)
EXTENDS DependencyOrder

CONSTANT Count   \* number of modules in the graph

ASSUME CountAssumption == Count \in Nat

VARIABLES deps,   \* Node::dependencies of each node, which are distinct
          visit,  \* VisitState of each node
          path,   \* nodes being visited, the innermost last
          next,   \* position of each node's loop over its dependencies
          root,   \* the node the outer loop looks at
          order,  \* nodes in the order in which their visits ended
          cycle   \* the cycle reported, or <<>>

vars == <<deps, visit, path, next, root, order, cycle>>

Nodes == 1..Count

DependencyLists ==
    {s \in UNION {[1..k -> Nodes] : k \in 0..Count} :
        \A p, q \in DOMAIN s : s[p] = s[q] => p = q}

Init == /\ deps \in [Nodes -> DependencyLists]
        /\ visit = [n \in Nodes |-> "Unvisited"]
        /\ path = <<>>
        /\ next = [n \in Nodes |-> 1]
        /\ root = 1
        /\ order = <<>>
        /\ cycle = <<>>

-----------------------------------------------------------------------------
Searching == cycle = <<>>

Here == path[Len(path)]

(* The dependency the innermost visit looks at. *)
AtDependency == Searching /\ path # <<>> /\ next[Here] <= Len(deps[Here])
Dependency == deps[Here][next[Here]]

Visit(n) == /\ visit' = [visit EXCEPT ![n] = "Visiting"]
            /\ path' = Append(path, n)

VisitRoot == /\ Searching /\ path = <<>> /\ root \in Nodes
             /\ visit[root] = "Unvisited"
             /\ Visit(root)
             /\ UNCHANGED <<deps, next, root, order, cycle>>

(* The outer loop goes on, past a node that an earlier visit reached or    *)
(* after the visit of this one.                                            *)
NextRoot == /\ Searching /\ path = <<>> /\ root \in Nodes
            /\ visit[root] # "Unvisited"
            /\ root' = root + 1
            /\ UNCHANGED <<deps, visit, path, next, order, cycle>>

(* Variant: the loop does not go on.                                       *)
Stuck == next

Advanced == [next EXCEPT ![Here] = @ + 1]

VisitDependency == /\ AtDependency
                   /\ visit[Dependency] = "Unvisited"
                   /\ Visit(Dependency)
                   /\ next' = Advanced
                   /\ UNCHANGED <<deps, root, order, cycle>>

(* Variant: a node being visited is passed over like a finished one.       *)
SkipAnyVisited == /\ AtDependency
                  /\ visit[Dependency] # "Unvisited"
                  /\ next' = Advanced
                  /\ UNCHANGED <<deps, visit, path, root, order, cycle>>

SkipDependency == /\ AtDependency
                  /\ visit[Dependency] = "Visited"
                  /\ next' = Advanced
                  /\ UNCHANGED <<deps, visit, path, root, order, cycle>>

(* Variant: the whole path is reported, with what led to the cycle.        *)
ReportWholePath == /\ AtDependency
                   /\ visit[Dependency] = "Visiting"
                   /\ cycle' = path
                   /\ UNCHANGED <<deps, visit, path, next, root, order>>

(* A dependency that is being visited closes a cycle: the part of the path *)
(* that begins with it.  Every call of visit returns the error.            *)
FindCycle == /\ AtDependency
             /\ visit[Dependency] = "Visiting"
             /\ \E p \in 1..Len(path) : /\ path[p] = Dependency
                                        /\ cycle' = SubSeq(path, p, Len(path))
             /\ UNCHANGED <<deps, visit, path, next, root, order>>

(* Variant: the order is built from the back. *)
LeaveInFront == /\ Searching /\ path # <<>> /\ next[Here] > Len(deps[Here])
                /\ visit' = [visit EXCEPT ![Here] = "Visited"]
                /\ order' = <<Here>> \o order
                /\ path' = SubSeq(path, 1, Len(path) - 1)
                /\ UNCHANGED <<deps, next, root, cycle>>

(* A visit ends; the loop of the visit that led here has moved on already. *)
Leave == /\ Searching /\ path # <<>> /\ next[Here] > Len(deps[Here])
         /\ visit' = [visit EXCEPT ![Here] = "Visited"]
         /\ order' = Append(order, Here)
         /\ path' = SubSeq(path, 1, Len(path) - 1)
         /\ UNCHANGED <<deps, next, root, cycle>>

Next == VisitRoot \/ NextRoot \/ VisitDependency \/ SkipDependency \/ FindCycle \/ Leave

Spec == Init /\ [][Next]_vars

(* It is one sequential function: it takes its next step.                  *)
FairSpec == Spec /\ WF_vars(Next)

-----------------------------------------------------------------------------
Succeeded == Searching /\ path = <<>> /\ root > Count

Needs == [n \in Nodes |-> {deps[n][k] : k \in DOMAIN deps[n]}]

TypeOK == /\ deps \in [Nodes -> DependencyLists]
          /\ visit \in [Nodes -> {"Unvisited", "Visiting", "Visited"}]
          /\ path \in Seq(Nodes)
          /\ next \in [Nodes -> Nat \ {0}]
          /\ root \in 1..(Count + 1)
          /\ order \in Seq(Nodes)
          /\ cycle \in Seq(Nodes)

(* Success hands ModuleGraph::Instantiate an order that has every module   *)
(* once, after everything it imports from: one of the Orders from which    *)
(* ModuleGraph takes its queue.                                            *)
OrderIsRight == Succeeded => order \in Orders(Needs)

(* The error names modules that really import from one another in a ring,  *)
(* the first again after the last, and no module that merely leads there.  *)
CycleIsReal == cycle # <<>> => IsCycle(cycle, Needs)

(* No cycle is missed and none is invented: a search that succeeds means   *)
(* that no set of modules is without a first one; a cycle, that one is,    *)
(* and that the graph is refused because no order would do.                *)
AnswerIsRight ==
    LET Circular == \E s \in (SUBSET Nodes) \ {{}} : \A n \in s : Needs[n] \cap s # {}
    IN /\ Succeeded => ~Circular
       /\ cycle # <<>> => Circular /\ Orders(Needs) = {}

(* The recursion of visit is no deeper than the graph has modules, however *)
(* its nodes refer to one another.                                         *)
DepthBounded == Len(path) <= Count

(* Nothing is undone and no step is idle: a node's visit begins and ends   *)
(* once, a loop looks at each dependency once, the order only grows, and   *)
(* an error stops it all.  As all of these are bounded, this is why the    *)
(* search ends.                                                            *)
Begun(n) == visit[n] # "Unvisited"
Finished(n) == visit[n] = "Visited"

Forward == /\ Searching /\ deps' = deps
           /\ \A n \in Nodes : /\ Begun(n) => Begun(n)'
                               /\ Finished(n) => Finished(n)'
                               /\ next[n] <= next'[n]
           /\ root <= root'
           /\ \A p \in 1..Len(order) : p <= Len(order') /\ order'[p] = order[p]
           /\ \/ \E n \in Nodes : \/ Begun(n)' /\ ~Begun(n)
                                  \/ Finished(n)' /\ ~Finished(n)
                                  \/ next[n] < next'[n]
              \/ root < root'
              \/ cycle' # <<>>

AlwaysForward == [][Forward]_vars

(* Until it has an answer the search can go on: there is a root left, or   *)
(* the innermost loop has ended, or it is at a dependency, which, if it is *)
(* being visited, std::find finds on the path.                             *)
CanGoOn == \/ path = <<>> /\ root \in Nodes
           \/ path # <<>> /\ next[Here] > Len(deps[Here])
           \/ /\ AtDependency
              /\ visit[Dependency] = "Visiting" => \E p \in 1..Len(path) : path[p] = Dependency

NeverStuck == Searching /\ ~Succeeded => CanGoOn

(* The search ends on every graph, however its nodes refer to one another. *)
Ends == <>(Succeeded \/ cycle # <<>>)

-----------------------------------------------------------------------------
(* Why the answers are right: one inductive invariant.                     *)

(* The nodes being visited are those on the path, each once there.         *)
PathIsVisited ==
    /\ \A p, q \in 1..Len(path) : path[p] = path[q] => p = q
    /\ \A n \in Nodes : visit[n] = "Visiting" <=> \E p \in 1..Len(path) : path[p] = n

(* Every visit but the innermost waits for the last dependency it took.    *)
PathIsChain ==
    \A p \in 1..Len(path) : p < Len(path) =>
        /\ next[path[p]] > 1
        /\ deps[path[p]][next[path[p]] - 1] = path[p + 1]

(* What a loop has passed is finished, but for the visit it waits for.     *)
LoopsDone ==
    \A p \in 1..Len(path) :
        /\ next[path[p]] <= Len(deps[path[p]]) + 1
        /\ \A k \in 1..Len(deps[path[p]]) : k < next[path[p]] =>
              \/ visit[deps[path[p]][k]] = "Visited"
              \/ p < Len(path) /\ deps[path[p]][k] = path[p + 1]

(* The finished nodes are those in the order, once and after their         *)
(* dependencies.                                                           *)
OrderGrows ==
    /\ \A p, q \in 1..Len(order) : order[p] = order[q] => p = q
    /\ \A n \in Nodes : visit[n] = "Visited" <=> \E p \in 1..Len(order) : order[p] = n
    /\ \A p \in 1..Len(order) : \A n \in Needs[order[p]] :
          \E q \in 1..Len(order) : q < p /\ order[q] = n

(* The loop of a node no visit has reached has not begun.                  *)
FreshLoops == \A n \in Nodes : visit[n] = "Unvisited" => next[n] = 1

(* The roots the outer loop has passed are finished.                       *)
RootsDone == \A n \in Nodes : n < root => visit[n] = "Visited"

(* The inductive invariant from which the proofs start.                    *)
SearchInv == /\ TypeOK /\ PathIsVisited /\ PathIsChain /\ LoopsDone
             /\ FreshLoops /\ OrderGrows /\ RootsDone /\ CycleIsReal
=============================================================================
