------------------------- MODULE ModuleOrderProofs -------------------------
(***************************************************************************)
(* For every number of modules and every way they import from one another: *)
(* the order BuildInstantiationOrder returns respects the imports, and the *)
(* cycle it reports is one.                                                *)
(***************************************************************************)
EXTENDS ModuleOrder, SequenceTheorems, FiniteSetTheorems, TLAPS

(* The dependencies of a node are a sequence of nodes.                     *)
LEMMA ListFacts ==
    ASSUME NEW s \in DependencyLists
    PROVE  s \in Seq(Nodes) /\ Len(s) \in Nat /\ DOMAIN s = 1..Len(s)
  <1>1. PICK k \in 0..Count : s \in [1..k -> Nodes]
    BY DEF DependencyLists
  <1>2. k \in Nat
    BY <1>1, CountAssumption
  <1> QED
    BY <1>1, <1>2

(* What the invariant says of the innermost visit.                         *)
LEMMA HereFacts ==
    ASSUME SearchInv, path # <<>>
    PROVE  /\ path \in Seq(Nodes) /\ Len(path) \in Nat \ {0} /\ Len(path) \in 1..Len(path)
           /\ Here \in Nodes /\ visit[Here] = "Visiting"
           /\ deps[Here] \in Seq(Nodes) /\ Len(deps[Here]) \in Nat
           /\ next[Here] \in Nat \ {0} /\ next[Here] <= Len(deps[Here]) + 1
  <1>1. path \in Seq(Nodes) /\ Len(path) \in Nat \ {0} /\ Len(path) \in 1..Len(path)
    BY DEF SearchInv, TypeOK
  <1>2. Here \in Nodes
    BY <1>1 DEF Here
  <1>3. visit[Here] = "Visiting"
    BY <1>1, <1>2 DEF SearchInv, PathIsVisited, Here
  <1>4. deps[Here] \in DependencyLists /\ next[Here] \in Nat \ {0}
    BY <1>2 DEF SearchInv, TypeOK
  <1>5. next[Here] <= Len(deps[Here]) + 1
    BY <1>1 DEF SearchInv, LoopsDone, Here
  <1> QED
    BY <1>1, <1>2, <1>3, <1>4, <1>5, ListFacts

(* What it says of the dependency the innermost visit looks at.            *)
LEMMA DependencyFacts ==
    ASSUME SearchInv, AtDependency
    PROVE  /\ next[Here] \in 1..Len(deps[Here])
           /\ Dependency \in Nodes
           /\ Dependency \in Needs[Here]
  <1>1. path # <<>> /\ next[Here] <= Len(deps[Here])
    BY DEF AtDependency
  <1>2. next[Here] \in 1..Len(deps[Here])
    BY <1>1, HereFacts
  <1>3. Dependency \in Nodes
    BY <1>1, <1>2, HereFacts DEF Dependency
  <1>4. DOMAIN deps[Here] = 1..Len(deps[Here])
    BY <1>1, HereFacts
  <1> QED
    BY <1>1, <1>2, <1>3, <1>4, HereFacts DEF Dependency, Needs

(* A path that grows by one node.                                          *)
LEMMA GrownPath ==
    ASSUME SearchInv, NEW n \in Nodes, path' = Append(path, n)
    PROVE  /\ Len(path) \in Nat
           /\ path' \in Seq(Nodes)
           /\ Len(path') = Len(path) + 1 /\ path'[Len(path) + 1] = n
           /\ \A p \in 1..Len(path) : path'[p] = path[p] /\ path[p] \in Nodes
  BY DEF SearchInv, TypeOK

(* Part of a sequence.                                                     *)
LEMMA PartFacts ==
    ASSUME NEW S, NEW s \in Seq(S), NEW a \in Nat \ {0}, NEW b \in Nat,
           a <= b + 1, b <= Len(s)
    PROVE  /\ SubSeq(s, a, b) \in Seq(S)
           /\ Len(SubSeq(s, a, b)) = b - a + 1
           /\ \A p \in 1..(b - a + 1) : /\ a + p - 1 \in 1..Len(s)
                                        /\ SubSeq(s, a, b)[p] = s[a + p - 1]
  <1>1. Len(s) \in Nat /\ \A p \in a..b : p \in 1..Len(s)
    OBVIOUS
  <1>2. \A p \in a..b : s[p] \in S
    BY <1>1
  <1>3. a \in Int /\ b \in Int
    OBVIOUS
  <1> DEFINE r == SubSeq(s, a, b)
  <1>4. /\ r \in Seq(S)
        /\ Len(r) = IF a <= b THEN b - a + 1 ELSE 0
        /\ \A p \in 1..(b - a + 1) : r[p] = s[a + p - 1]
    BY <1>2, <1>3, SubSeqProperties
  <1> HIDE DEF r
  <1>5. Len(r) = b - a + 1
    BY <1>4
  <1>6. \A p \in 1..(b - a + 1) : a + p - 1 \in 1..Len(s)
    BY <1>1
  <1>7. r \in Seq(S) /\ Len(r) = b - a + 1
        /\ \A p \in 1..(b - a + 1) : a + p - 1 \in 1..Len(s) /\ r[p] = s[a + p - 1]
    BY <1>4, <1>5, <1>6
  <1> QED
    BY <1>7 DEF r

(* A path that loses its last node.                                        *)
LEMMA ShrunkPath ==
    ASSUME SearchInv, path # <<>>, path' = SubSeq(path, 1, Len(path) - 1)
    PROVE  /\ path' \in Seq(Nodes)
           /\ Len(path') = Len(path) - 1
           /\ \A p \in 1..Len(path') : /\ p \in 1..Len(path) /\ p # Len(path)
                                       /\ path'[p] = path[p] /\ path[p] \in Nodes
  <1>1. path \in Seq(Nodes) /\ Len(path) \in Nat \ {0}
    BY HereFacts
  <1>2. \A p \in 1..Len(path) : path[p] \in Nodes
    BY <1>1
  <1> DEFINE b == Len(path) - 1
  <1>3. b \in Nat /\ b <= Len(path) /\ b = Len(path) - 1
    BY <1>1
  <1>4. path' = SubSeq(path, 1, b)
    OBVIOUS
  <1> HIDE DEF b
  <1>5. /\ SubSeq(path, 1, b) \in Seq(Nodes)
        /\ Len(SubSeq(path, 1, b)) = b - 1 + 1
        /\ \A p \in 1..(b - 1 + 1) : SubSeq(path, 1, b)[p] = path[1 + p - 1]
    BY <1>1, <1>3, PartFacts
  <1>6. path' \in Seq(Nodes) /\ Len(path') = b /\ \A p \in 1..b : path'[p] = path[p]
    <2>1. b - 1 + 1 = b /\ \A p \in 1..b : 1 + p - 1 = p
      BY <1>3
    <2>2. /\ path' \in Seq(Nodes) /\ Len(path') = b - 1 + 1
          /\ \A p \in 1..(b - 1 + 1) : path'[p] = path[1 + p - 1]
      BY <1>4, <1>5
    <2> QED
      BY <2>1, <2>2
  <1> QED
    BY <1>1, <1>2, <1>3, <1>6

(* An unvisited node is neither on the path nor in the order.              *)
LEMMA FreshNode ==
    ASSUME SearchInv, NEW n \in Nodes, visit[n] = "Unvisited"
    PROVE  /\ \A p \in 1..Len(path) : path[p] # n
           /\ \A p \in 1..Len(order) : order[p] # n
  BY DEF SearchInv, PathIsVisited, OrderGrows

(* The search begins with nothing visited.                                 *)
LEMMA InitSearch == Init => SearchInv
  <1> SUFFICES ASSUME Init PROVE SearchInv
    OBVIOUS
  <1>1. TypeOK
    BY CountAssumption DEF Init, TypeOK, Nodes
  <1>2. PathIsVisited /\ PathIsChain /\ LoopsDone /\ OrderGrows /\ CycleIsReal
    BY DEF Init, PathIsVisited, PathIsChain, LoopsDone, OrderGrows, CycleIsReal
  <1>4. FreshLoops
    BY DEF Init, FreshLoops
  <1>3. RootsDone
    BY DEF Init, RootsDone, Nodes
  <1> QED
    BY <1>1, <1>2, <1>3, <1>4 DEF SearchInv

(* The variables that Visit changes, and what the visit of a new node      *)
(* leaves true whichever loop begins it.                                   *)
LEMMA VisitKeeps ==
    ASSUME SearchInv, NEW n \in Nodes, visit[n] = "Unvisited", Visit(n),
           UNCHANGED <<deps, root, order, cycle>>
    PROVE  /\ visit' \in [Nodes -> {"Unvisited", "Visiting", "Visited"}]
           /\ visit'[n] = "Visiting" /\ \A k \in Nodes \ {n} : visit'[k] = visit[k]
           /\ PathIsVisited' /\ OrderGrows' /\ RootsDone' /\ CycleIsReal'
  <1>1. /\ visit \in [Nodes -> {"Unvisited", "Visiting", "Visited"}]
        /\ order \in Seq(Nodes)
    BY DEF SearchInv, TypeOK
  <1>2. visit' = [visit EXCEPT ![n] = "Visiting"] /\ path' = Append(path, n)
    BY DEF Visit
  <1>3. visit'[n] = "Visiting" /\ \A k \in Nodes \ {n} : visit'[k] = visit[k]
    BY <1>1, <1>2
  <1>4. PathIsVisited'
    <2>1. \A p \in 1..Len(path) : path[p] # n
      BY FreshNode
    <2>2. /\ Len(path) \in Nat /\ Len(path') = Len(path) + 1 /\ path'[Len(path) + 1] = n
          /\ \A p \in 1..Len(path) : path'[p] = path[p] /\ path[p] \in Nodes
      BY <1>2, GrownPath
    <2>3. 1..Len(path') = 1..Len(path) \cup {Len(path) + 1}
      BY <2>2
    <2>4. \A p, q \in 1..Len(path') : path'[p] = path'[q] => p = q
      BY <2>1, <2>2, <2>3 DEF SearchInv, PathIsVisited
    <2>5. \A k \in Nodes : visit'[k] = "Visiting" <=> \E p \in 1..Len(path') : path'[p] = k
      <3>1. (\E p \in 1..Len(path') : path'[p] = n) /\ visit'[n] = "Visiting"
        BY <1>3, <2>2, <2>3
      <3>2. ASSUME NEW k \in Nodes \ {n}
            PROVE  visit'[k] = "Visiting" <=> \E p \in 1..Len(path') : path'[p] = k
        <4>1. visit[k] = "Visiting" <=> \E p \in 1..Len(path) : path[p] = k
          BY DEF SearchInv, PathIsVisited
        <4> QED
          BY <4>1, <1>3, <2>2, <2>3
      <3> QED
        BY <3>1, <3>2
    <2> QED
      BY <2>4, <2>5 DEF PathIsVisited
  <1>5. OrderGrows'
    <2>1. \A k \in Nodes : visit'[k] = "Visited" <=> visit[k] = "Visited"
      BY <1>3
    <2>2. Needs' = Needs
      BY DEF Needs
    <2>3. \A p, q \in 1..Len(order') : order'[p] = order'[q] => p = q
      BY DEF SearchInv, OrderGrows
    <2>4. \A k \in Nodes : visit'[k] = "Visited" <=> \E p \in 1..Len(order') : order'[p] = k
      <3>1. order' = order
        OBVIOUS
      <3> QED
        BY <2>1, <3>1 DEF SearchInv, OrderGrows
    <2>5. \A p \in 1..Len(order') : \A k \in Needs'[order'[p]] :
             \E q \in 1..Len(order') : q < p /\ order'[q] = k
      <3>1. order' = order
        OBVIOUS
      <3> QED
        BY <2>2, <3>1 DEF SearchInv, OrderGrows
    <2> QED
      BY <2>3, <2>4, <2>5 DEF OrderGrows
  <1>6. RootsDone'
    BY <1>3 DEF SearchInv, RootsDone
  <1>7. CycleIsReal'
    BY DEF SearchInv, CycleIsReal, Needs
  <1> QED
    BY <1>1, <1>2, <1>3, <1>4, <1>5, <1>6, <1>7

(* A visit from the outer loop.                                            *)
LEMMA VisitRootKeeps == SearchInv /\ VisitRoot => SearchInv'
  <1> SUFFICES ASSUME SearchInv, VisitRoot PROVE SearchInv'
    OBVIOUS
  <1>1. /\ path = <<>> /\ root \in Nodes /\ visit[root] = "Unvisited" /\ Visit(root)
        /\ UNCHANGED <<deps, next, root, order, cycle>>
    BY DEF VisitRoot
  <1>2. /\ visit' \in [Nodes -> {"Unvisited", "Visiting", "Visited"}]
        /\ visit'[root] = "Visiting" /\ \A k \in Nodes \ {root} : visit'[k] = visit[k]
        /\ PathIsVisited' /\ OrderGrows' /\ RootsDone' /\ CycleIsReal'
    BY <1>1, VisitKeeps
  <1>3. path' \in Seq(Nodes) /\ Len(path') = 1 /\ path'[1] = root
    BY <1>1, GrownPath DEF Visit
  <1>4. TypeOK'
    BY <1>1, <1>2, <1>3 DEF SearchInv, TypeOK
  <1>5. PathIsChain'
    BY <1>3 DEF PathIsChain
  <1>6. LoopsDone'
    <2>1. next[root] = 1
      BY <1>1 DEF SearchInv, FreshLoops
    <2>2. deps[root] \in DependencyLists
      BY <1>1 DEF SearchInv, TypeOK
    <2>3. Len(deps[root]) \in Nat
      BY <2>2, ListFacts
    <2>4. 1..Len(path') = {1} /\ path'[1] = root
      BY <1>3
    <2>5. next'[root] = 1 /\ Len(deps'[root]) \in Nat
      BY <1>1, <2>1, <2>3
    <2> QED
      BY <2>4, <2>5 DEF LoopsDone
  <1>7. FreshLoops'
    BY <1>1, <1>2 DEF SearchInv, FreshLoops
  <1> QED
    BY <1>2, <1>4, <1>5, <1>6, <1>7 DEF SearchInv

(* A step that finishes no node leaves the order as right as it was.       *)
LEMMA SameOrder ==
    ASSUME SearchInv, UNCHANGED <<deps, visit, order>>
    PROVE  OrderGrows'
  <1>1. Needs' = Needs
    BY DEF Needs
  <1>2. order' = order /\ visit' = visit
    OBVIOUS
  <1> QED
    BY <1>1, <1>2 DEF SearchInv, OrderGrows

(* A step that only moves a loop on changes nothing of the answers.        *)
LEMMA SameAnswers ==
    ASSUME SearchInv, UNCHANGED <<deps, visit, order, cycle>>
    PROVE  OrderGrows' /\ CycleIsReal'
  <1>1. Needs' = Needs /\ cycle' = cycle
    BY DEF Needs
  <1>2. CycleIsReal'
    BY <1>1 DEF SearchInv, CycleIsReal
  <1> QED
    BY <1>2, SameOrder

(* The outer loop moves on only past finished nodes: with an empty path    *)
(* nothing is being visited.                                               *)
LEMMA NextRootKeeps == SearchInv /\ NextRoot => SearchInv'
  <1> SUFFICES ASSUME SearchInv, NextRoot PROVE SearchInv'
    OBVIOUS
  <1>1. /\ path = <<>> /\ root \in Nodes /\ visit[root] # "Unvisited" /\ root' = root + 1
        /\ UNCHANGED <<deps, visit, path, next, order, cycle>>
    BY DEF NextRoot
  <1>2. TypeOK'
    <2>1. root' \in 1..(Count + 1)
      BY <1>1, CountAssumption DEF Nodes
    <2> QED
      BY <1>1, <2>1 DEF SearchInv, TypeOK
  <1>3. visit[root] = "Visited"
    <2>1. visit[root] # "Visiting"
      BY <1>1 DEF SearchInv, PathIsVisited
    <2> QED
      BY <1>1, <2>1 DEF SearchInv, TypeOK
  <1>4. RootsDone'
    BY <1>1, <1>3, CountAssumption DEF SearchInv, RootsDone, Nodes
  <1>5. PathIsVisited' /\ PathIsChain' /\ LoopsDone' /\ FreshLoops'
    BY <1>1 DEF SearchInv, PathIsVisited, PathIsChain, LoopsDone, FreshLoops
  <1>6. OrderGrows' /\ CycleIsReal'
    BY <1>1, SameAnswers
  <1> QED
    BY <1>2, <1>4, <1>5, <1>6 DEF SearchInv

(* The innermost loop moves on by one.                                     *)
LEMMA AdvancedFacts ==
    ASSUME SearchInv, AtDependency, next' = Advanced
    PROVE  /\ next' \in [Nodes -> Nat \ {0}]
           /\ next'[Here] = next[Here] + 1
           /\ \A k \in Nodes \ {Here} : next'[k] = next[k]
  <1>1. path # <<>>
    BY DEF AtDependency
  <1>2. Here \in Nodes /\ next[Here] \in Nat \ {0}
    BY <1>1, HereFacts
  <1>3. next \in [Nodes -> Nat \ {0}]
    BY DEF SearchInv, TypeOK
  <1> QED
    BY <1>2, <1>3 DEF Advanced

(* The nodes on the path but for the innermost are not the innermost.      *)
LEMMA OuterFacts ==
    ASSUME SearchInv, NEW p \in 1..Len(path), p # Len(path)
    PROVE  /\ path[p] \in Nodes \ {Here} /\ p + 1 \in 1..Len(path) /\ p < Len(path)
           /\ path[p] # path[Len(path)]
  <1>1. path \in Seq(Nodes) /\ Len(path) \in Nat
    BY DEF SearchInv, TypeOK
  <1>2. path[p] \in Nodes /\ Len(path) \in 1..Len(path) /\ p + 1 \in 1..Len(path) /\ p < Len(path)
    BY <1>1
  <1>3. path[p] # path[Len(path)]
    BY <1>2 DEF SearchInv, PathIsVisited
  <1> QED
    BY <1>2, <1>3 DEF Here

(* A finished dependency is passed over.                                   *)
LEMMA SkipDependencyKeeps == SearchInv /\ SkipDependency => SearchInv'
  <1> SUFFICES ASSUME SearchInv, SkipDependency PROVE SearchInv'
    OBVIOUS
  <1>1. /\ AtDependency /\ visit[Dependency] = "Visited" /\ next' = Advanced
        /\ UNCHANGED <<deps, visit, path, root, order, cycle>>
    BY DEF SkipDependency
  <1>2. path # <<>>
    BY <1>1 DEF AtDependency
  <1>3. /\ next' \in [Nodes -> Nat \ {0}]
        /\ next'[Here] = next[Here] + 1
        /\ \A k \in Nodes \ {Here} : next'[k] = next[k]
    BY <1>1, AdvancedFacts
  <1>4. /\ path \in Seq(Nodes) /\ Len(path) \in Nat \ {0} /\ Len(path) \in 1..Len(path)
        /\ Here \in Nodes /\ visit[Here] = "Visiting" /\ Here = path[Len(path)]
        /\ Len(deps[Here]) \in Nat /\ next[Here] \in 1..Len(deps[Here])
    BY <1>1, <1>2, HereFacts, DependencyFacts DEF Here
  <1>5. TypeOK'
    BY <1>1, <1>3 DEF SearchInv, TypeOK
  <1>6. PathIsVisited' /\ RootsDone'
    BY <1>1 DEF SearchInv, PathIsVisited, RootsDone
  <1>7. OrderGrows' /\ CycleIsReal'
    BY <1>1, SameAnswers
  <1>8. PathIsChain'
    <2> SUFFICES ASSUME NEW p \in 1..Len(path), p < Len(path)
                 PROVE  /\ next'[path[p]] > 1
                        /\ deps[path[p]][next'[path[p]] - 1] = path[p + 1]
      BY <1>1 DEF PathIsChain
    <2>1. path[p] \in Nodes \ {Here}
      BY OuterFacts
    <2>2. next'[path[p]] = next[path[p]]
      BY <1>3, <2>1
    <2> QED
      BY <2>2 DEF SearchInv, PathIsChain
  <1>9. LoopsDone'
    <2> SUFFICES ASSUME NEW p \in 1..Len(path)
                 PROVE  /\ next'[path[p]] <= Len(deps[path[p]]) + 1
                        /\ \A k \in 1..Len(deps[path[p]]) : k < next'[path[p]] =>
                              \/ visit[deps[path[p]][k]] = "Visited"
                              \/ p < Len(path) /\ deps[path[p]][k] = path[p + 1]
      BY <1>1 DEF LoopsDone
    <2>1. CASE p # Len(path)
      <3>1. path[p] \in Nodes \ {Here}
        BY <2>1, OuterFacts
      <3>2. next'[path[p]] = next[path[p]]
        BY <1>3, <3>1
      <3> QED
        BY <3>2 DEF SearchInv, LoopsDone
    <2>2. CASE p = Len(path)
      <3>1. path[p] = Here
        BY <1>4, <2>2
      <3>2. next'[Here] <= Len(deps[Here]) + 1
        BY <1>3, <1>4
      <3>3. ASSUME NEW k \in 1..Len(deps[Here]), k < next'[Here]
            PROVE  visit[deps[Here][k]] = "Visited"
        <4>1. CASE k = next[Here]
          BY <1>1, <4>1 DEF Dependency
        <4>2. CASE k # next[Here]
          <5>1. k < next[Here]
            BY <1>3, <1>4, <3>3, <4>2
          <5> QED
            BY <2>2, <3>1, <5>1, <1>4 DEF SearchInv, LoopsDone
        <4> QED
          BY <4>1, <4>2
      <3> QED
        BY <3>1, <3>2, <3>3
    <2> QED
      BY <2>1, <2>2
  <1>10. FreshLoops'
    <2> SUFFICES ASSUME NEW n \in Nodes, visit[n] = "Unvisited" PROVE next'[n] = 1
      BY <1>1 DEF FreshLoops
    <2>1. n \in Nodes \ {Here} /\ next[n] = 1
      BY <1>4 DEF SearchInv, FreshLoops
    <2> QED
      BY <1>3, <2>1
  <1> QED
    BY <1>5, <1>6, <1>7, <1>8, <1>9, <1>10 DEF SearchInv

(* A visit from the innermost loop: it waits for the node it took.         *)
LEMMA VisitDependencyKeeps == SearchInv /\ VisitDependency => SearchInv'
  <1> SUFFICES ASSUME SearchInv, VisitDependency PROVE SearchInv'
    OBVIOUS
  <1> DEFINE n == Dependency
             l == Len(path)
  <1>1. /\ AtDependency /\ visit[n] = "Unvisited" /\ Visit(n) /\ next' = Advanced
        /\ UNCHANGED <<deps, root, order, cycle>>
    BY DEF VisitDependency
  <1>2. path # <<>> /\ n \in Nodes /\ n = deps[Here][next[Here]]
    BY <1>1, DependencyFacts DEF AtDependency, Dependency
  <1>3. /\ next' \in [Nodes -> Nat \ {0}]
        /\ next'[Here] = next[Here] + 1
        /\ \A k \in Nodes \ {Here} : next'[k] = next[k]
    BY <1>1, AdvancedFacts
  <1>4. /\ path \in Seq(Nodes) /\ l \in Nat \ {0} /\ l \in 1..l
        /\ Here \in Nodes /\ visit[Here] = "Visiting" /\ Here = path[l]
        /\ Len(deps[Here]) \in Nat /\ next[Here] \in 1..Len(deps[Here])
    BY <1>1, <1>2, HereFacts, DependencyFacts DEF Here
  <1>5. next[n] = 1 /\ n # Here /\ Len(deps[n]) \in Nat
    <2>1. deps[n] \in DependencyLists
      BY <1>2 DEF SearchInv, TypeOK
    <2> QED
      BY <1>1, <1>2, <1>4, <2>1, ListFacts DEF SearchInv, FreshLoops
  <1>6. /\ path' \in Seq(Nodes) /\ Len(path') = l + 1 /\ path'[l + 1] = n
        /\ \A p \in 1..l : path'[p] = path[p] /\ path[p] \in Nodes
    <2>1. path' = Append(path, n)
      BY <1>1 DEF Visit
    <2> HIDE DEF n
    <2> QED
      BY <1>2, <2>1, GrownPath
  <1> HIDE DEF n, l
  <1>7. /\ visit' \in [Nodes -> {"Unvisited", "Visiting", "Visited"}]
        /\ visit'[n] = "Visiting" /\ \A k \in Nodes \ {n} : visit'[k] = visit[k]
        /\ PathIsVisited' /\ OrderGrows' /\ RootsDone' /\ CycleIsReal'
    BY <1>1, <1>2, VisitKeeps
  <1>8. TypeOK'
    BY <1>1, <1>3, <1>6, <1>7 DEF SearchInv, TypeOK
  <1>9. 1..Len(path') = 1..l \cup {l + 1}
    BY <1>4, <1>6
  <1>10. ASSUME NEW p \in 1..l, p # l
         PROVE  /\ p + 1 \in 1..l /\ p < l
                /\ path'[p] = path[p] /\ path'[p + 1] = path[p + 1]
                /\ next'[path'[p]] = next[path[p]]
    <2>1. path[p] \in Nodes \ {Here} /\ p + 1 \in 1..l /\ p < l
      BY <1>10, OuterFacts DEF l
    <2> QED
      BY <1>3, <1>6, <2>1
  <1>11. PathIsChain'
    <2> SUFFICES ASSUME NEW p \in 1..l
                 PROVE  /\ next'[path'[p]] > 1
                        /\ deps[path'[p]][next'[path'[p]] - 1] = path'[p + 1]
      BY <1>1, <1>4, <1>6, <1>9 DEF PathIsChain
    <2>1. CASE p # l
      BY <1>10, <2>1 DEF SearchInv, PathIsChain, l
    <2>2. CASE p = l
      <3>1. path'[p] = Here /\ path'[p + 1] = n
        BY <1>4, <1>6, <2>2
      <3>2. next'[Here] > 1 /\ next'[Here] - 1 = next[Here]
        BY <1>3, <1>4
      <3> QED
        BY <1>2, <3>1, <3>2
    <2> QED
      BY <2>1, <2>2
  <1>12. LoopsDone'
    <2> SUFFICES ASSUME NEW p \in 1..Len(path')
                 PROVE  /\ next'[path'[p]] <= Len(deps[path'[p]]) + 1
                        /\ \A k \in 1..Len(deps[path'[p]]) : k < next'[path'[p]] =>
                              \/ visit'[deps[path'[p]][k]] = "Visited"
                              \/ p < Len(path') /\ deps[path'[p]][k] = path'[p + 1]
      BY <1>1 DEF LoopsDone
    <2>1. \A m \in Nodes : visit[m] = "Visited" => visit'[m] = "Visited"
      BY <1>1, <1>7
    <2>2. ASSUME NEW m \in Nodes, NEW k \in 1..Len(deps[m])
          PROVE  deps[m][k] \in Nodes
      <3>1. deps[m] \in DependencyLists
        BY DEF SearchInv, TypeOK
      <3>2. deps[m] \in Seq(Nodes)
        BY <3>1, ListFacts
      <3> QED
        BY <3>2
    <2>3. CASE p \in 1..l /\ p # l
      <3>1. /\ p + 1 \in 1..l /\ p < l /\ path[p] \in Nodes
            /\ path'[p] = path[p] /\ path'[p + 1] = path[p + 1]
            /\ next'[path'[p]] = next[path[p]]
        BY <1>6, <1>10, <2>3
      <3>2. /\ next[path[p]] <= Len(deps[path[p]]) + 1
            /\ \A k \in 1..Len(deps[path[p]]) : k < next[path[p]] =>
                  \/ visit[deps[path[p]][k]] = "Visited"
                  \/ p < l /\ deps[path[p]][k] = path[p + 1]
        BY <2>3 DEF SearchInv, LoopsDone, l
      <3>3. p < Len(path')
        BY <1>4, <1>6, <3>1
      <3> QED
        BY <2>1, <2>2, <3>1, <3>2, <3>3
    <2>4. CASE p = l
      <3>1. path'[p] = Here /\ path'[p + 1] = n /\ p < Len(path')
        BY <1>4, <1>6, <2>4
      <3>2. next'[Here] <= Len(deps[Here]) + 1
        BY <1>3, <1>4
      <3>3. ASSUME NEW k \in 1..Len(deps[Here]), k < next'[Here]
            PROVE  visit'[deps[Here][k]] = "Visited" \/ deps[Here][k] = n
        <4>1. CASE k = next[Here]
          BY <1>2, <4>1
        <4>2. CASE k # next[Here]
          <5>1. k < next[Here]
            BY <1>3, <1>4, <3>3, <4>2
          <5>2. visit[deps[Here][k]] = "Visited"
            BY <5>1, <1>4 DEF SearchInv, LoopsDone, l
          <5> QED
            BY <1>4, <2>1, <2>2, <5>2
        <4> QED
          BY <4>1, <4>2
      <3> QED
        BY <3>1, <3>2, <3>3
    <2>5. CASE p = l + 1
      <3>1. path'[p] = n
        BY <1>6, <2>5
      <3>2. next'[n] = 1
        BY <1>2, <1>3, <1>5
      <3> QED
        BY <1>5, <3>1, <3>2
    <2> QED
      BY <1>9, <2>3, <2>4, <2>5
  <1>13. FreshLoops'
    <2> SUFFICES ASSUME NEW m \in Nodes, visit'[m] = "Unvisited" PROVE next'[m] = 1
      BY DEF FreshLoops
    <2>1. m # n /\ visit[m] = "Unvisited"
      BY <1>7
    <2>2. m \in Nodes \ {Here} /\ next[m] = 1
      BY <1>4, <2>1 DEF SearchInv, FreshLoops
    <2> QED
      BY <1>3, <2>2
  <1> QED
    BY <1>7, <1>8, <1>11, <1>12, <1>13 DEF SearchInv

(* What is reported is a part of the path, which is a chain of imports, to *)
(* the innermost node, which imports from the first of the part.           *)
LEMMA FindCycleKeeps == SearchInv /\ FindCycle => SearchInv'
  <1> SUFFICES ASSUME SearchInv, FindCycle PROVE SearchInv'
    OBVIOUS
  <1>1. /\ AtDependency
        /\ UNCHANGED <<deps, visit, path, next, root, order>>
    BY DEF FindCycle
  <1>2. PICK p \in 1..Len(path) : /\ path[p] = Dependency
                                  /\ cycle' = SubSeq(path, p, Len(path))
    BY DEF FindCycle
  <1> DEFINE l == Len(path)
  <1>3. /\ path \in Seq(Nodes) /\ l \in Nat \ {0} /\ l \in 1..l
        /\ Here = path[l] /\ Dependency \in Needs[Here] /\ p \in Nat \ {0} /\ p <= l
    <2>1. path # <<>>
      BY <1>1 DEF AtDependency
    <2> QED
      BY <1>1, <2>1, HereFacts, DependencyFacts DEF Here
  <1>4. cycle' = SubSeq(path, p, l)
    BY <1>2
  <1>5. p <= l + 1 /\ l \in Nat /\ l <= Len(path)
    BY <1>3
  <1> HIDE DEF l
  <1>6. /\ cycle' \in Seq(Nodes) /\ Len(cycle') = l - p + 1
        /\ \A q \in 1..(l - p + 1) : p + q - 1 \in 1..Len(path) /\ cycle'[q] = path[p + q - 1]
    BY <1>3, <1>4, <1>5, PartFacts
  <1>7. ASSUME NEW q \in 1..Len(path), q < Len(path)
        PROVE  path[q + 1] \in Needs[path[q]]
    <2>1. path[q] \in Nodes
      BY <1>3
    <2>2. deps[path[q]] \in DependencyLists /\ next[path[q]] \in Nat
      BY <2>1 DEF SearchInv, TypeOK
    <2>3. /\ next[path[q]] > 1 /\ next[path[q]] <= Len(deps[path[q]]) + 1
          /\ deps[path[q]][next[path[q]] - 1] = path[q + 1]
      BY <1>7 DEF SearchInv, PathIsChain, LoopsDone
    <2>4. Len(deps[path[q]]) \in Nat /\ DOMAIN deps[path[q]] = 1..Len(deps[path[q]])
      BY <2>2, ListFacts
    <2>5. next[path[q]] - 1 \in DOMAIN deps[path[q]]
      BY <2>2, <2>3, <2>4
    <2> QED
      BY <2>1, <2>3, <2>5 DEF Needs
  <1>8. IsCycle(cycle', Needs)
    <2>1. cycle' # <<>>
      BY <1>3, <1>6
    <2> SUFFICES ASSUME NEW q \in 1..Len(cycle')
                 PROVE  cycle'[IF q = Len(cycle') THEN 1 ELSE q + 1] \in Needs[cycle'[q]]
      BY <2>1 DEF IsCycle
    <2>2. CASE q = Len(cycle')
      <3>1. p + q - 1 = l /\ 1 \in 1..(l - p + 1) /\ p + 1 - 1 = p /\ q \in 1..(l - p + 1)
        BY <1>3, <1>6, <2>2
      <3>2. cycle'[q] = path[l] /\ cycle'[1] = path[p]
        BY <1>6, <3>1
      <3> QED
        BY <1>2, <1>3, <2>2, <3>2
    <2>3. CASE q # Len(cycle')
      <3>1. /\ q \in 1..(l - p + 1) /\ q + 1 \in 1..(l - p + 1)
            /\ p + (q + 1) - 1 = (p + q - 1) + 1 /\ p + q - 1 < l
        BY <1>3, <1>6, <2>3
      <3>2. /\ p + q - 1 \in 1..Len(path) /\ cycle'[q] = path[p + q - 1]
            /\ cycle'[q + 1] = path[p + (q + 1) - 1]
        BY <1>6, <3>1
      <3>3. cycle'[q + 1] = path[(p + q - 1) + 1]
        BY <3>1, <3>2
      <3>4. path[(p + q - 1) + 1] \in Needs[path[p + q - 1]]
        BY <1>7, <3>1, <3>2 DEF l
      <3> QED
        BY <2>3, <3>2, <3>3, <3>4
    <2> QED
      BY <2>2, <2>3
  <1>9. Needs' = Needs
    BY <1>1 DEF Needs
  <1>10. CycleIsReal'
    BY <1>8, <1>9 DEF CycleIsReal
  <1>11. TypeOK'
    BY <1>1, <1>6 DEF SearchInv, TypeOK
  <1>12. PathIsVisited' /\ PathIsChain' /\ LoopsDone' /\ FreshLoops' /\ RootsDone'
    BY <1>1 DEF SearchInv, PathIsVisited, PathIsChain, LoopsDone, FreshLoops, RootsDone
  <1>13. OrderGrows'
    BY <1>1, SameOrder
  <1> QED
    BY <1>10, <1>11, <1>12, <1>13 DEF SearchInv

(* A node joins the order when all its dependencies are in it.             *)
LEMMA LeaveKeeps == SearchInv /\ Leave => SearchInv'
  <1> SUFFICES ASSUME SearchInv, Leave PROVE SearchInv'
    OBVIOUS
  <1> DEFINE h == Here
             l == Len(path)
             o == Len(order)
  <1>1. /\ path # <<>> /\ next[h] > Len(deps[h])
        /\ visit' = [visit EXCEPT ![h] = "Visited"] /\ order' = Append(order, h)
        /\ path' = SubSeq(path, 1, Len(path) - 1)
        /\ UNCHANGED <<deps, next, root, cycle>>
    BY DEF Leave
  <1>2. /\ path \in Seq(Nodes) /\ l \in Nat \ {0} /\ l \in 1..l
        /\ h \in Nodes /\ visit[h] = "Visiting" /\ h = path[l]
        /\ Len(deps[h]) \in Nat /\ next[h] \in Nat
    BY <1>1, HereFacts DEF Here
  <1>3. /\ path' \in Seq(Nodes) /\ Len(path') = l - 1
        /\ \A p \in 1..Len(path') : /\ p \in 1..l /\ p # l
                                    /\ path'[p] = path[p] /\ path[p] \in Nodes
    BY <1>1, ShrunkPath
  <1>4. \A p \in 1..l : p # l => path[p] # h /\ p + 1 \in 1..l /\ p < l
    BY <1>2, OuterFacts
  <1> HIDE DEF h, l
  <1>5. /\ visit' \in [Nodes -> {"Unvisited", "Visiting", "Visited"}]
        /\ visit'[h] = "Visited" /\ \A k \in Nodes \ {h} : visit'[k] = visit[k]
    BY <1>1, <1>2 DEF SearchInv, TypeOK
  <1>6. /\ order \in Seq(Nodes) /\ o \in Nat
        /\ order' \in Seq(Nodes) /\ Len(order') = o + 1 /\ order'[o + 1] = h
        /\ \A p \in 1..o : order'[p] = order[p] /\ order[p] \in Nodes
    BY <1>1, <1>2 DEF SearchInv, TypeOK
  <1>7. 1..Len(order') = 1..o \cup {o + 1} /\ \A p \in 1..o : p < o + 1
    BY <1>6
  <1> HIDE DEF o
  <1>8. TypeOK'
    BY <1>1, <1>3, <1>5, <1>6 DEF SearchInv, TypeOK
  <1>9. PathIsVisited'
    <2>1. \A p, q \in 1..Len(path') : path'[p] = path'[q] => p = q
      BY <1>3 DEF SearchInv, PathIsVisited, l
    <2>2. ASSUME NEW k \in Nodes
          PROVE  visit'[k] = "Visiting" <=> \E p \in 1..Len(path') : path'[p] = k
      <3>1. CASE k = h
        BY <1>3, <1>4, <1>5, <3>1
      <3>2. CASE k # h
        <4>1. visit'[k] = visit[k]
          BY <1>5, <3>2
        <4>2. visit[k] = "Visiting" <=> \E p \in 1..l : path[p] = k
          BY DEF SearchInv, PathIsVisited, l
        <4>3. \A p \in 1..l : path[p] = k => p \in 1..Len(path') /\ path'[p] = k
          BY <1>2, <1>3, <3>2
        <4> QED
          BY <1>3, <4>1, <4>2, <4>3
      <3> QED
        BY <3>1, <3>2
    <2> QED
      BY <2>1, <2>2 DEF PathIsVisited
  <1>10. PathIsChain'
    <2> SUFFICES ASSUME NEW p \in 1..Len(path'), p < Len(path')
                 PROVE  /\ next[path'[p]] > 1
                        /\ deps[path'[p]][next[path'[p]] - 1] = path'[p + 1]
      BY <1>1 DEF PathIsChain
    <2>1. p + 1 \in 1..Len(path') /\ p < l /\ p \in 1..l
      BY <1>2, <1>3
    <2>2. path'[p] = path[p] /\ path'[p + 1] = path[p + 1]
      BY <1>3, <2>1
    <2> QED
      BY <2>1, <2>2 DEF SearchInv, PathIsChain, l
  <1>11. \A m \in Nodes : visit[m] = "Visited" => visit'[m] = "Visited"
    BY <1>5
  <1>12. ASSUME NEW m \in Nodes
         PROVE  /\ DOMAIN deps[m] = 1..Len(deps[m])
                /\ \A k \in 1..Len(deps[m]) : deps[m][k] \in Nodes
    <2>1. deps[m] \in DependencyLists
      BY DEF SearchInv, TypeOK
    <2>2. deps[m] \in Seq(Nodes) /\ DOMAIN deps[m] = 1..Len(deps[m])
      BY <2>1, ListFacts
    <2> QED
      BY <2>2
  <1>13. LoopsDone'
    <2> SUFFICES ASSUME NEW p \in 1..Len(path')
                 PROVE  /\ next[path'[p]] <= Len(deps[path'[p]]) + 1
                        /\ \A k \in 1..Len(deps[path'[p]]) : k < next[path'[p]] =>
                              \/ visit'[deps[path'[p]][k]] = "Visited"
                              \/ p < Len(path') /\ deps[path'[p]][k] = path'[p + 1]
      <3>1. deps' = deps /\ next' = next
        BY <1>1
      <3> QED
        BY <3>1 DEF LoopsDone
    <2>1. p \in 1..l /\ p # l /\ path'[p] = path[p] /\ path[p] \in Nodes
      BY <1>3
    <2>2. p + 1 \in 1..l /\ p < l
      BY <1>4, <2>1
    <2>3. /\ next[path[p]] <= Len(deps[path[p]]) + 1
          /\ \A k \in 1..Len(deps[path[p]]) : k < next[path[p]] =>
                \/ visit[deps[path[p]][k]] = "Visited"
                \/ deps[path[p]][k] = path[p + 1]
      BY <2>1 DEF SearchInv, LoopsDone, l
    <2>4. \/ path[p + 1] = h
          \/ p < Len(path') /\ path'[p + 1] = path[p + 1]
      <3>1. CASE p + 1 = l
        BY <1>2, <3>1
      <3>2. CASE p + 1 # l
        <4>1. p + 1 \in 1..Len(path') /\ p < Len(path')
          BY <1>2, <1>3, <2>2, <3>2
        <4> QED
          BY <1>3, <4>1
      <3> QED
        BY <3>1, <3>2
    <2> QED
      BY <1>5, <1>11, <1>12, <2>1, <2>3, <2>4
  <1>14. FreshLoops'
    BY <1>1, <1>5 DEF SearchInv, FreshLoops
  <1>15. RootsDone'
    BY <1>1, <1>11 DEF SearchInv, RootsDone
  <1>16. Needs' = Needs
    BY <1>1 DEF Needs
  <1>17. CycleIsReal'
    <2>1. cycle' = cycle
      BY <1>1
    <2> QED
      BY <1>16, <2>1 DEF SearchInv, CycleIsReal
  <1>18. \A k \in Needs[h] : visit[k] = "Visited"
    <2> SUFFICES ASSUME NEW i \in DOMAIN deps[h] PROVE visit[deps[h][i]] = "Visited"
      BY <1>2 DEF Needs
    <2>1. i \in 1..Len(deps[h]) /\ i < next[h]
      BY <1>1, <1>2, <1>12
    <2>2. ~(l < l)
      BY <1>2
    <2> QED
      BY <1>2, <2>1, <2>2 DEF SearchInv, LoopsDone, l
  <1>19. OrderGrows'
    <2>1. \A m \in Nodes : visit[m] = "Visited" <=> \E p \in 1..o : order[p] = m
      BY DEF SearchInv, OrderGrows, o
    <2>2. \A p \in 1..o : order[p] # h
      BY <1>2, <2>1
    <2>3. \A p, q \in 1..Len(order') : order'[p] = order'[q] => p = q
      <3>1. \A p, q \in 1..o : order[p] = order[q] => p = q
        BY DEF SearchInv, OrderGrows, o
      <3> QED
        BY <1>6, <1>7, <2>2, <3>1
    <2>4. ASSUME NEW m \in Nodes
          PROVE  visit'[m] = "Visited" <=> \E p \in 1..Len(order') : order'[p] = m
      <3>1. CASE m = h
        BY <1>5, <1>6, <1>7, <3>1
      <3>2. CASE m # h
        BY <1>5, <1>6, <1>7, <2>1, <3>2
      <3> QED
        BY <3>1, <3>2
    <2>5. ASSUME NEW p \in 1..Len(order'), NEW k \in Needs[order'[p]]
          PROVE  \E q \in 1..Len(order') : q < p /\ order'[q] = k
      <3>1. CASE p = o + 1
        <4>1. k \in Needs[h]
          BY <1>6, <2>5, <3>1
        <4>2. k \in Nodes /\ visit[k] = "Visited"
          BY <1>2, <1>12, <1>18, <4>1 DEF Needs
        <4>3. PICK q \in 1..o : order[q] = k
          BY <2>1, <4>2
        <4> QED
          BY <1>6, <1>7, <3>1, <4>3
      <3>2. CASE p \in 1..o
        <4>1. k \in Needs[order[p]]
          BY <1>6, <2>5, <3>2
        <4>2. PICK q \in 1..o : q < p /\ order[q] = k
          BY <3>2, <4>1 DEF SearchInv, OrderGrows, o
        <4> QED
          BY <1>6, <1>7, <4>2
      <3> QED
        BY <1>7, <3>1, <3>2
    <2> QED
      BY <1>16, <2>3, <2>4, <2>5 DEF OrderGrows
  <1> QED
    BY <1>8, <1>9, <1>10, <1>13, <1>14, <1>15, <1>17, <1>19 DEF SearchInv
-----------------------------------------------------------------------------
(* The invariant holds in every state of the search.                       *)
THEOREM SearchIsSound == Spec => []SearchInv
  <1>1. SearchInv /\ [Next]_vars => SearchInv'
    <2> SUFFICES ASSUME SearchInv, [Next]_vars PROVE SearchInv'
      OBVIOUS
    <2>1. CASE VisitRoot
      BY <2>1, VisitRootKeeps
    <2>2. CASE NextRoot
      BY <2>2, NextRootKeeps
    <2>3. CASE VisitDependency
      BY <2>3, VisitDependencyKeeps
    <2>4. CASE SkipDependency
      BY <2>4, SkipDependencyKeeps
    <2>5. CASE FindCycle
      BY <2>5, FindCycleKeeps
    <2>6. CASE Leave
      BY <2>6, LeaveKeeps
    <2>7. CASE UNCHANGED vars
      <3>1. UNCHANGED <<deps, visit, path, next, root, order, cycle>>
        BY <2>7 DEF vars
      <3>2. OrderGrows' /\ CycleIsReal'
        BY <3>1, SameAnswers
      <3>3. PathIsVisited' /\ PathIsChain' /\ LoopsDone' /\ FreshLoops' /\ RootsDone' /\ TypeOK'
        BY <3>1 DEF SearchInv, PathIsVisited, PathIsChain, LoopsDone, FreshLoops,
                    RootsDone, TypeOK
      <3> QED
        BY <3>2, <3>3 DEF SearchInv
    <2> QED
      BY <2>1, <2>2, <2>3, <2>4, <2>5, <2>6, <2>7 DEF Next
  <1> QED
    BY InitSearch, <1>1, PTL DEF Spec

(* The search keeps to its types: the outer loop stops one past the last   *)
(* module.                                                                 *)
THEOREM SearchTypes == Spec => []TypeOK
  <1>1. SearchInv => TypeOK
    BY DEF SearchInv
  <1> QED
    BY SearchIsSound, <1>1, PTL

(* The nodes of a sequence that has each once are no more than there are.  *)
LEMMA OnceEach ==
    ASSUME NEW s \in Seq(Nodes), \A p, q \in 1..Len(s) : s[p] = s[q] => p = q
    PROVE  /\ Len(s) <= Count
           /\ (\A n \in Nodes : \E p \in 1..Len(s) : s[p] = n) => Len(s) = Count
  <1>1. Len(s) \in Nat /\ s \in [1..Len(s) -> Nodes] /\ Count \in Nat
    BY CountAssumption
  <1>2. s \in Injection(1..Len(s), Nodes)
    BY <1>1 DEF Injection, IsInjective
  <1>3. IsFiniteSet(Nodes) /\ Cardinality(Nodes) = Count
    BY <1>1, FS_Interval DEF Nodes
  <1>4. Cardinality(1..Len(s)) = Len(s)
    BY <1>1, FS_Interval
  <1>5. /\ Cardinality(1..Len(s)) <= Cardinality(Nodes)
        /\ s \in Surjection(1..Len(s), Nodes) => Cardinality(1..Len(s)) = Cardinality(Nodes)
    BY <1>2, <1>3, FS_Injection
  <1>6. (\A n \in Nodes : \E p \in 1..Len(s) : s[p] = n) => s \in Surjection(1..Len(s), Nodes)
    BY <1>1 DEF Surjection
  <1> QED
    BY <1>3, <1>4, <1>5, <1>6

(* A search that succeeds has one of the graph's orders in hand.           *)
LEMMA OrderFound == SearchInv => OrderIsRight
  <1> SUFFICES ASSUME SearchInv, Succeeded PROVE order \in Orders(Needs)
    BY DEF OrderIsRight
  <1>1. root > Count /\ root \in Nat
    BY CountAssumption DEF Succeeded, SearchInv, TypeOK
  <1>2. \A n \in Nodes : visit[n] = "Visited"
    BY <1>1, CountAssumption DEF SearchInv, RootsDone, Nodes
  <1>3. order \in Seq(Nodes) /\ DOMAIN Needs = Nodes
    BY DEF SearchInv, TypeOK, Needs
  <1>4. \A n \in Nodes : \E p \in 1..Len(order) : order[p] = n
    BY <1>2 DEF SearchInv, OrderGrows
  <1>5. {order[p] : p \in 1..Len(order)} = DOMAIN Needs
    <2>1. \A p \in 1..Len(order) : order[p] \in Nodes
      BY <1>3
    <2> QED
      BY <1>3, <1>4, <2>1
  <1>6. IsOrder(order, Needs)
    BY <1>5 DEF SearchInv, OrderGrows, IsOrder
  <1>7. Len(order) = Count
    BY <1>3, <1>4, OnceEach DEF SearchInv, OrderGrows
  <1>8. Cardinality(DOMAIN Needs) = Count
    BY <1>3, CountAssumption, FS_Interval DEF Nodes
  <1>9. order \in [1..Count -> Nodes]
    BY <1>3, <1>7
  <1> QED
    BY <1>3, <1>6, <1>8, <1>9 DEF Orders

(* Every order BuildInstantiationOrder returns has every module once,      *)
(* after all it imports from, whatever the number of modules: it is one of *)
(* those with which ModuleGraph goes on.                                   *)
THEOREM OrderRespectsImports == Spec => []OrderIsRight
  BY SearchIsSound, OrderFound, PTL

(* The recursion of visit is never deeper than the number of modules.      *)
THEOREM RecursionIsBounded == Spec => []DepthBounded
  <1>1. SearchInv => DepthBounded
    BY OnceEach DEF SearchInv, TypeOK, PathIsVisited, DepthBounded
  <1> QED
    BY SearchIsSound, <1>1, PTL

(* Every cycle it reports is a ring of imports.                            *)
THEOREM ReportedCycleExists == Spec => []CycleIsReal
  <1>1. SearchInv => CycleIsReal
    BY DEF SearchInv
  <1> QED
    BY SearchIsSound, <1>1, PTL

Before == {ss \in Nat \X Nat : ss[1] < ss[2]}

(* Among the places of some modules in the order there is a first one.     *)
LEMMA BeforeIsWellFounded == IsWellFoundedOn(Before, Nat)
  BY NatLessThanWellFounded DEF OpToRel, Before

(* A graph with an order has no ring of imports: in a set of modules each  *)
(* of which imports from the set, the first in the order would come after  *)
(* another of them.                                                        *)
LEMMA NoOrderOfARing ==
    ASSUME NEW needs \in [Nodes -> SUBSET Nodes], NEW o \in Orders(needs),
           NEW s \in (SUBSET Nodes) \ {{}}, \A n \in s : needs[n] \cap s # {}
    PROVE  FALSE
  <1>1. Cardinality(DOMAIN needs) = Count /\ DOMAIN needs = Nodes /\ Count \in Nat
    BY CountAssumption, FS_Interval DEF Nodes
  <1>2. o \in [1..Count -> Nodes] /\ IsOrder(o, needs)
    BY <1>1 DEF Orders
  <1>3. Len(o) = Count
    BY <1>1, <1>2
  <1> DEFINE places == {p \in 1..Count : o[p] \in s}
  <1>4. places \subseteq Nat /\ places # {}
    <2>1. PICK n \in s : TRUE
      OBVIOUS
    <2>2. PICK p \in 1..Count : o[p] = n
      BY <1>1, <1>2, <1>3, <2>1 DEF IsOrder
    <2> QED
      BY <1>1, <2>1, <2>2
  <1>5. PICK p \in places : \A q \in places : ~(<<q, p>> \in Before)
    <2> HIDE DEF places
    <2> QED
      BY <1>4, BeforeIsWellFounded, WFMin
  <1>6. PICK n \in needs[o[p]] : n \in s
    BY <1>5
  <1>7. PICK q \in 1..Count : q < p /\ o[q] = n
    BY <1>2, <1>3, <1>5, <1>6 DEF IsOrder
  <1>8. q \in places /\ <<q, p>> \in Before
    BY <1>1, <1>5, <1>6, <1>7 DEF Before
  <1> QED
    BY <1>5, <1>8

(* The modules of a cycle are such a set.                                  *)
LEMMA CycleIsARing ==
    ASSUME NEW needs \in [Nodes -> SUBSET Nodes], NEW c \in Seq(Nodes), IsCycle(c, needs)
    PROVE  \E s \in (SUBSET Nodes) \ {{}} : \A n \in s : needs[n] \cap s # {}
  <1>1. Len(c) \in Nat \ {0}
    BY DEF IsCycle
  <1> DEFINE s == {c[p] : p \in 1..Len(c)}
  <1>2. s \in (SUBSET Nodes) \ {{}}
    <2>1. c[1] \in s /\ \A p \in 1..Len(c) : c[p] \in Nodes
      BY <1>1
    <2> QED
      BY <2>1
  <1>3. ASSUME NEW p \in 1..Len(c)
        PROVE  needs[c[p]] \cap s # {}
    <2> DEFINE q == IF p = Len(c) THEN 1 ELSE p + 1
    <2>1. q \in 1..Len(c)
      BY <1>1
    <2>2. c[q] \in needs[c[p]]
      BY DEF IsCycle
    <2>3. c[q] \in s
      BY <2>1
    <2> QED
      BY <2>2, <2>3
  <1>4. \A n \in s : needs[n] \cap s # {}
    <2>1. \A n \in s : \E p \in 1..Len(c) : n = c[p]
      OBVIOUS
    <2> HIDE DEF s
    <2> QED
      BY <1>3, <2>1
  <1> HIDE DEF s
  <1> QED
    BY <1>2, <1>4

(* The imports of each node are nodes.                                     *)
LEMMA NeedsType == SearchInv => Needs \in [Nodes -> SUBSET Nodes]
  <1> SUFFICES ASSUME SearchInv, NEW n \in Nodes PROVE {deps[n][k] : k \in DOMAIN deps[n]} \subseteq Nodes
    BY DEF Needs
  <1>1. deps[n] \in Seq(Nodes) /\ DOMAIN deps[n] = 1..Len(deps[n])
    BY ListFacts DEF SearchInv, TypeOK
  <1> QED
    BY <1>1

(* A search that succeeds leaves no ring of imports unreported, and one    *)
(* that reports a ring had one to report, for which there is no order.     *)
THEOREM AnswerFitsGraph == Spec => []AnswerIsRight
  <1>1. SearchInv /\ Succeeded
            => ~\E s \in (SUBSET Nodes) \ {{}} : \A n \in s : Needs[n] \cap s # {}
    BY OrderFound, NeedsType, NoOrderOfARing DEF OrderIsRight
  <1>2. SearchInv /\ cycle # <<>>
            => \E s \in (SUBSET Nodes) \ {{}} : \A n \in s : Needs[n] \cap s # {}
    BY NeedsType, CycleIsARing DEF SearchInv, TypeOK, CycleIsReal
  <1>3. SearchInv /\ cycle # <<>> => Orders(Needs) = {}
    BY <1>2, NeedsType, NoOrderOfARing
  <1>4. SearchInv => AnswerIsRight
    BY <1>1, <1>2, <1>3 DEF AnswerIsRight
  <1> QED
    BY SearchIsSound, <1>4, PTL

(* Short of an answer the search never lacks a next step, and (below) each *)
(* step moves forward what is bounded: the two reasons why it ends.        *)
THEOREM SearchGoesOn == Spec => []NeverStuck
  <1>1. SearchInv => NeverStuck
    <2> SUFFICES ASSUME SearchInv, Searching, ~Succeeded PROVE CanGoOn
      BY DEF NeverStuck
    <2>1. CASE path = <<>>
      <3>1. root \in Nodes
        BY <2>1, CountAssumption DEF Succeeded, SearchInv, TypeOK, Nodes
      <3> QED
        BY <2>1, <3>1 DEF CanGoOn
    <2>2. CASE path # <<>> /\ next[Here] > Len(deps[Here])
      BY <2>2 DEF CanGoOn
    <2>3. CASE path # <<>> /\ ~(next[Here] > Len(deps[Here]))
      <3>1. AtDependency
        BY <2>3, HereFacts DEF AtDependency
      <3>2. Dependency \in Nodes
        BY <3>1, DependencyFacts
      <3>3. visit[Dependency] = "Visiting" => \E p \in 1..Len(path) : path[p] = Dependency
        BY <3>2 DEF SearchInv, PathIsVisited
      <3> QED
        BY <3>1, <3>3 DEF CanGoOn
    <2> QED
      BY <2>1, <2>2, <2>3
  <1> QED
    BY SearchIsSound, <1>1, PTL

(* Every step of the search moves it forward and takes nothing back.       *)
THEOREM SearchAdvances == Spec => AlwaysForward
  <1> SUFFICES ASSUME TRUE PROVE Spec => [][Forward]_vars
    BY DEF AlwaysForward
  <1>1. ASSUME SearchInv, Next PROVE Forward
    <2>1. /\ \A n \in Nodes : next[n] \in Nat
          /\ visit \in [Nodes -> {"Unvisited", "Visiting", "Visited"}]
          /\ order \in Seq(Nodes) /\ Len(order) \in Nat /\ root \in Nat
      BY <1>1, CountAssumption DEF SearchInv, TypeOK
    <2>2. CASE VisitRoot
      <3>1. /\ Searching /\ root \in Nodes /\ visit[root] = "Unvisited"
            /\ visit' = [visit EXCEPT ![root] = "Visiting"]
            /\ UNCHANGED <<deps, next, root, order, cycle>>
        BY <2>2 DEF VisitRoot, Visit
      <3>2. Begun(root)' /\ ~Begun(root)
        BY <2>1, <3>1 DEF Begun
      <3>3. \A n \in Nodes : (Begun(n) => Begun(n)') /\ (Finished(n) => Finished(n)')
        BY <2>1, <3>1 DEF Begun, Finished
      <3> QED
        BY <2>1, <3>1, <3>2, <3>3 DEF Forward
    <2>3. CASE NextRoot
      BY <2>1, <2>3 DEF NextRoot, Forward, Begun, Finished
    <2>4. CASE VisitDependency
      <3>1. /\ Searching /\ AtDependency /\ visit[Dependency] = "Unvisited"
            /\ visit' = [visit EXCEPT ![Dependency] = "Visiting"]
            /\ next' = Advanced
            /\ UNCHANGED <<deps, root, order, cycle>>
        BY <2>4 DEF VisitDependency, Visit, AtDependency
      <3>2. Dependency \in Nodes
        BY <1>1, <3>1, DependencyFacts
      <3>3. \E n \in Nodes : Begun(n)' /\ ~Begun(n)
        <4>1. PICK d \in Nodes : d = Dependency
          BY <3>2
        <4>2. visit[d] = "Unvisited" /\ visit'[d] = "Visiting"
          BY <2>1, <3>1, <4>1
        <4> QED
          BY <4>2 DEF Begun
      <3>4. \A n \in Nodes : (Begun(n) => Begun(n)') /\ (Finished(n) => Finished(n)')
        BY <2>1, <3>1, <3>2 DEF Begun, Finished
      <3>5. \A n \in Nodes : next[n] <= next'[n]
        BY <1>1, <2>1, <3>1, AdvancedFacts
      <3> QED
        BY <2>1, <3>1, <3>2, <3>3, <3>4, <3>5 DEF Forward
    <2>5. CASE SkipDependency
      <3>1. /\ Searching /\ AtDependency /\ next' = Advanced /\ path # <<>>
            /\ UNCHANGED <<deps, visit, root, order, cycle>>
        BY <2>5 DEF SkipDependency, AtDependency
      <3>2. /\ Here \in Nodes /\ next'[Here] = next[Here] + 1
            /\ \A n \in Nodes \ {Here} : next'[n] = next[n]
        BY <1>1, <3>1, AdvancedFacts, HereFacts
      <3>3. next[Here] < next'[Here] /\ \A n \in Nodes : next[n] <= next'[n]
        BY <2>1, <3>2
      <3>4. \A n \in Nodes : (Begun(n) => Begun(n)') /\ (Finished(n) => Finished(n)')
        BY <3>1 DEF Begun, Finished
      <3> QED
        BY <2>1, <3>1, <3>2, <3>3, <3>4 DEF Forward
    <2>6. CASE FindCycle
      <3>1. /\ Searching /\ cycle # cycle'
            /\ UNCHANGED <<deps, visit, next, root, order>>
        <4>1. PICK p \in 1..Len(path) : cycle' = SubSeq(path, p, Len(path))
          BY <2>6 DEF FindCycle
        <4>2. path \in Seq(Nodes) /\ Len(path) \in Nat /\ p \in Nat \ {0} /\ p <= Len(path)
          BY <1>1 DEF SearchInv, TypeOK
        <4>3. Len(cycle') = Len(path) - p + 1
          BY <4>1, <4>2, PartFacts
        <4>4. cycle' # <<>>
          BY <4>2, <4>3
        <4> QED
          BY <2>6, <4>4 DEF FindCycle, AtDependency, Searching
      <3> QED
        BY <2>1, <3>1 DEF Forward, Searching, Begun, Finished
    <2>7. CASE Leave
      <3>1. PICK h \in Nodes : h = Here
        BY <1>1, <2>7, HereFacts DEF Leave
      <3>2. /\ Searching /\ visit[h] = "Visiting"
            /\ visit' = [visit EXCEPT ![h] = "Visited"] /\ order' = Append(order, h)
            /\ UNCHANGED <<deps, next, root, cycle>>
        BY <1>1, <2>7, <3>1, HereFacts DEF Leave
      <3>3. Finished(h)' /\ ~Finished(h)
        BY <2>1, <3>2 DEF Finished
      <3>4. \A n \in Nodes : (Begun(n) => Begun(n)') /\ (Finished(n) => Finished(n)')
        BY <2>1, <3>2 DEF Begun, Finished
      <3>5. \A p \in 1..Len(order) : p <= Len(order') /\ order'[p] = order[p]
        BY <2>1, <3>2
      <3> QED
        BY <2>1, <3>1, <3>2, <3>3, <3>4, <3>5 DEF Forward
    <2> QED
      BY <1>1, <2>2, <2>3, <2>4, <2>5, <2>6, <2>7 DEF Next
  <1>2. SearchInv /\ [Next]_vars => [Forward]_vars
    BY <1>1
  <1> QED
    BY SearchIsSound, <1>2, PTL DEF Spec
=============================================================================
