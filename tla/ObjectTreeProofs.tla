-------------------------- MODULE ObjectTreeProofs --------------------------
(***************************************************************************)
(* The invariants of ObjectTree for any number of Runtimes, Modules,       *)
(* domains, Programs and Instances.                                        *)
(***************************************************************************)
EXTENDS ObjectTree, TLAPS

-----------------------------------------------------------------------------
(* What holds whether or not main domains are moved *)

LEMMA TreeInit == Init => TreeInv
  BY NoneAssumption DEF Init, TreeInv, TypeOK, ProgramStates, MoveStates, InMove, Settled, Completed, ProgramsWhole, NothingDangles, HasLinker, HasModule, Hollow, NoAsync, NoInst, ModuleStates, DomainStates, Graphs

(* What an action does to the Programs, apart from the assignments under   *)
(* way: at most one of them becomes something else,                        *)
LEMMA OneChanges ==
    ASSUME TypeOK, UNCHANGED moves, NEW p \in Programs, ~InMove(p),
           \A x \in Programs \ {p} : prog'[x] = prog[x]
    PROVE  /\ \A s \in Settled' : s \in Settled \/ s = prog'[p]
           /\ \A f \in moves : prog'[f.from] = prog[f.from]
  BY DEF TypeOK, MoveStates, Settled, Completed, InMove

(* or a main domain is exchanged,                                          *)
LEMMA MainChanges ==
    ASSUME TypeOK, UNCHANGED moves,
           \A x \in Programs : prog'[x].realm = prog[x].realm /\ prog'[x].graph = prog[x].graph
    PROVE  \A s \in Settled' : \E t \in Settled : s.realm = t.realm /\ s.graph = t.graph
  <1>1. ASSUME NEW s \in Settled' PROVE \E t \in Settled : s.realm = t.realm /\ s.graph = t.graph
    <2>1. \/ \E p \in Programs : ~InMove(p) /\ s = prog'[p]
          \/ \E f \in moves : s = Completed(f)'
      BY <1>1 DEF Settled, InMove
    <2>2. ASSUME NEW p \in Programs, ~InMove(p), s = prog'[p] PROVE prog[p] \in Settled
      BY <2>2 DEF Settled
    <2>3. ASSUME NEW f \in moves, s = Completed(f)'
          PROVE  Completed(f) \in Settled /\ s.realm = Completed(f).realm /\ s.graph = Completed(f).graph
      BY <2>3 DEF Settled, Completed, TypeOK, MoveStates
    <2> QED
      BY <2>1, <2>2, <2>3
  <1> QED
    BY <1>1

(* or what one of them was is now another, at once,                        *)
LEMMA MoveChanges ==
    ASSUME TypeOK, NEW p \in Programs, NEW q \in Programs, MoveProgram(p, q)
    PROVE  /\ \A s \in Settled' : s \in Settled \/ s = Hollow
           /\ \A f \in moves : prog'[f.from] = prog[f.from]
  <1>1. /\ prog'[q] = prog[p] /\ prog'[p] = Hollow
        /\ \A x \in Programs \ {p, q} : prog'[x] = prog[x]
        /\ ~InMove(p) /\ ~InMove(q) /\ moves' = moves
    BY DEF MoveProgram, Moved, TypeOK
  <1> QED
    BY <1>1 DEF TypeOK, MoveStates, Settled, Completed, InMove

(* when the assignment returns,                                            *)
LEMMA BeginChanges ==
    ASSUME TypeOK, NEW p \in Programs, NEW q \in Programs, BeginMove(p, q)
    PROVE  /\ Settled' \subseteq Settled
           /\ \A f \in moves' : (prog'[f.from] = prog[f.from] /\ f \in moves) \/ prog'[f.from].realm = None
  <1> DEFINE new == [from |-> p, to |-> q, old |-> prog[q].main]
  <1>1. /\ prog'[q] = [prog[p] EXCEPT !.graph = prog[q].graph]
        /\ prog'[p] = [Hollow EXCEPT !.graph = prog[p].graph]
        /\ \A x \in Programs \ {p, q} : prog'[x] = prog[x]
        /\ ~InMove(p) /\ ~InMove(q) /\ moves' = moves \cup {new}
    BY DEF BeginMove, TypeOK
  <1>2. Completed(new)' = prog[p]
    BY <1>1 DEF Completed, Hollow, TypeOK, ProgramStates
  <1>3. \A f \in moves : Completed(f)' = Completed(f) /\ prog'[f.from] = prog[f.from]
    BY <1>1 DEF Completed, InMove, TypeOK, MoveStates
  <1>4. ASSUME NEW x \in Programs, ~InMove(x)' PROVE ~InMove(x) /\ prog'[x] = prog[x]
    <2>1. \A f \in moves' : x # f.from /\ x # f.to
      BY <1>4 DEF InMove
    <2>2. new \in moves' /\ new.from = p /\ new.to = q
      BY <1>1
    <2>3. x # p /\ x # q
      BY <2>1, <2>2
    <2> QED
      BY <1>1, <2>1, <2>3 DEF InMove
  <1>5. prog'[new.from].realm = None
    BY <1>1 DEF Hollow
  <1>6. prog[p] \in Settled /\ \A f \in moves : Completed(f) \in Settled
    BY <1>1 DEF Settled
  <1>7. ASSUME NEW s \in Settled' PROVE s \in Settled
    <2>1. \/ \E x \in Programs : ~InMove(x)' /\ s = prog'[x]
          \/ \E f \in moves' : s = Completed(f)'
      BY <1>7 DEF Settled
    <2>2. CASE \E x \in Programs : ~InMove(x)' /\ s = prog'[x]
      BY <1>4, <2>2 DEF Settled
    <2>3. ASSUME NEW f \in moves, s = Completed(f)' PROVE s \in Settled
      BY <1>3, <1>6, <2>3
    <2>4. ASSUME s = Completed(new)' PROVE s \in Settled
      BY <1>2, <1>6, <2>4
    <2>5. \A f \in moves' : f \in moves \/ f = new
      BY <1>1
    <2>6. CASE \E f \in moves' : s = Completed(f)'
      BY <2>3, <2>4, <2>5, <2>6 DEF Completed
    <2> QED
      BY <2>1, <2>2, <2>6
  <1> HIDE DEF new
  <1> QED
    BY <1>1, <1>3, <1>5, <1>7

(* as it then does.                                                        *)
LEMMA FinishChanges ==
    ASSUME TypeOK, ProgramsWhole, NEW f \in moves, FinishMove(f)
    PROVE  /\ \A s \in Settled' : s \in Settled \/ (s.realm = None /\ s.graph = None)
           /\ \A g \in moves' : g \in moves /\ prog'[g.from] = prog[g.from]
  <1>1. /\ f.from \in Programs /\ f.to \in Programs /\ f.from # f.to
        /\ prog'[f.to] = Completed(f)
        /\ prog'[f.from].realm = None /\ prog'[f.from].graph = None
        /\ \A x \in Programs \ {f.from, f.to} : prog'[x] = prog[x]
        /\ moves' = moves \ {f}
    BY DEF FinishMove, GraphMoved, TypeOK, MoveStates, ProgramStates, ProgramsWhole, Completed
  <1>2. \A g \in moves' : Completed(g)' = Completed(g) /\ prog'[g.from] = prog[g.from] /\ g \in moves
    BY <1>1 DEF Completed, TypeOK, MoveStates
  <1>3. \A x \in Programs \ {f.from, f.to} : ~InMove(x)' => ~InMove(x)
    BY <1>1 DEF InMove
  <1>4. ASSUME NEW s \in Settled' PROVE s \in Settled \/ (s.realm = None /\ s.graph = None)
    <2>1. \/ \E x \in Programs : ~InMove(x)' /\ s = prog'[x]
          \/ \E g \in moves' : s = Completed(g)'
      BY <1>4 DEF Settled
    <2>2. ASSUME NEW x \in Programs \ {f.from, f.to}, ~InMove(x)', s = prog'[x] PROVE s \in Settled
      BY <1>1, <1>3, <2>2 DEF Settled
    <2>3. CASE \E g \in moves' : s = Completed(g)'
      BY <1>2, <2>3 DEF Settled
    <2>4. Completed(f) \in Settled
      BY DEF Settled
    <2> QED
      BY <1>1, <2>1, <2>2, <2>3, <2>4
  <1> QED
    BY <1>2, <1>4

LEMMA WholeKept ==
    ASSUME ProgramsWhole,
           \A s \in Settled' : s \in Settled \/ (s.realm = None /\ s.graph = None),
           \A f \in moves' : (f \in moves /\ prog'[f.from] = prog[f.from]) \/ prog'[f.from].realm = None
    PROVE  ProgramsWhole'
  BY DEF ProgramsWhole

LEMMA TreeStep == TreeInv /\ [HandleStep \/ Destruction \/ MoveDomain]_vars => TreeInv'
  <1> SUFFICES ASSUME TreeInv, [HandleStep \/ Destruction \/ MoveDomain]_vars PROVE TreeInv'
    OBVIOUS
  <1> USE NoneAssumption DEF MoveStates
  <1>1. ASSUME NEW e \in Engines, CreateRuntime(e) PROVE TreeInv'
    BY <1>1 DEF TreeInv, TypeOK, ProgramStates, ModuleStates, DomainStates, Graphs, ProgramsWhole, Settled, Completed, InMove, NothingDangles, HasLinker, HasModule, CreateRuntime
  <1>2. ASSUME NEW e \in Engines, DestroyRuntime(e) PROVE TreeInv'
    BY <1>2 DEF TreeInv, TypeOK, ProgramStates, ModuleStates, DomainStates, Graphs, ProgramsWhole, Settled, Completed, InMove, NothingDangles, HasLinker, HasModule, DestroyRuntime
  <1>3. ASSUME NEW e \in Engines, CreateRealm(e) PROVE TreeInv'
    BY <1>3 DEF TreeInv, TypeOK, ProgramStates, ModuleStates, DomainStates, Graphs, ProgramsWhole, Settled, Completed, InMove, NothingDangles, HasLinker, HasModule, CreateRealm
  <1>4. ASSUME NEW e \in Engines, DestroyRealm(e) PROVE TreeInv'
    BY <1>4 DEF TreeInv, TypeOK, ProgramStates, ModuleStates, DomainStates, Graphs, ProgramsWhole, Settled, Completed, InMove, NothingDangles, HasLinker, HasModule, DestroyRealm
  <1>5. ASSUME NEW e \in Engines, NEW m \in Modules, Compile(e, m) PROVE TreeInv'
    <2> USE <1>5 DEF TreeInv, Compile
    <2>0. mod' \in [Modules -> ModuleStates]
      BY DEF TypeOK, ProgramStates, ModuleStates
    <2>1. TypeOK'
      BY <2>0 DEF TypeOK, ProgramStates, DomainStates
    <2>2. ProgramsWhole'
      BY DEF TypeOK, ProgramStates, ProgramsWhole, Settled, Completed, InMove, Graphs
    <2>3. NothingDangles'
      BY DEF TypeOK, ProgramStates, NothingDangles, HasLinker, HasModule, Graphs, NoAsync
    <2> QED
      BY <2>1, <2>2, <2>3
  <1>6. ASSUME NEW e \in Engines, NEW p \in Programs, NEW d \in Domains, CreateProgram(e, p, d) PROVE TreeInv'
    <2> USE <1>6 DEF TreeInv, CreateProgram, Assign, NoGraph, DomainOwned
    <2>0. dom' \in [Domains -> DomainStates]
      BY DEF TypeOK, ProgramStates, DomainStates
    <2>1. TypeOK'
      <3>1. prog' \in [Programs -> ProgramStates]
        BY DEF TypeOK, ProgramStates, Graphs
      <3>2. /\ \A x \in Programs : prog[x].main # d
            /\ domain # d
        BY DEF NothingDangles, HasLinker
      <3>3. \A x, y \in Programs : prog'[x].main = prog'[y].main => x = y \/ prog'[x].main = None
        BY <3>2 DEF TypeOK, ProgramStates
      <3>4. \A x \in Programs : prog'[x].main = domain => domain = None
        BY <3>2 DEF TypeOK, ProgramStates
      <3> QED
        BY <2>0, <3>1, <3>3, <3>4 DEF TypeOK, ProgramStates, ModuleStates
    <2>2. ProgramsWhole'
      <3>1. /\ prog'[p] = [realm |-> e, main |-> d, graph |-> NoGraph]
            /\ \A x \in Programs \ {p} : prog'[x] = prog[x]
        BY DEF TypeOK
      <3>2. NoGraph \in Graphs /\ e # None
        BY DEF Graphs
      <3>3. /\ \A s \in Settled' : s \in Settled \/ s = prog'[p]
            /\ \A f \in moves : prog'[f.from] = prog[f.from]
        BY <3>1, OneChanges
      <3>4. prog'[p].realm # None /\ prog'[p].graph # None
        BY <3>1, <3>2
      <3> QED
        BY <3>3, <3>4 DEF ProgramsWhole
    <2>3. NothingDangles'
      BY DEF TypeOK, ProgramStates, NothingDangles, HasLinker, HasModule, Graphs, NoAsync
    <2> QED
      BY <2>1, <2>2, <2>3
  <1>7. ASSUME NEW m \in Modules, DestroyModule(m) PROVE TreeInv'
    <2> USE <1>7 DEF TreeInv, DestroyModule
    <2>0. mod' \in [Modules -> ModuleStates]
      <3> DEFINE s == [mod[m] EXCEPT !.handle = FALSE]
      <3>1. mod[m] \in ModuleStates
        BY DEF TypeOK, ProgramStates
      <3>2. s \in ModuleStates
        BY <3>1 DEF ModuleStates
      <3>3. mod' = [mod EXCEPT ![m] = s]
        BY DEF ModuleStates, TypeOK
      <3>4. mod \in [Modules -> ModuleStates]
        BY DEF TypeOK
      <3> HIDE DEF s
      <3> QED
        BY <3>2, <3>3, <3>4
    <2>1. TypeOK'
      BY <2>0 DEF TypeOK, ProgramStates, DomainStates
    <2>2. ProgramsWhole'
      BY DEF TypeOK, ProgramStates, ProgramsWhole, Settled, Completed, InMove, Graphs
    <2>3. NothingDangles'
      BY DEF TypeOK, ProgramStates, NothingDangles, HasLinker, HasModule, Graphs, NoAsync
    <2> QED
      BY <2>1, <2>2, <2>3
  <1>8. ASSUME NEW p \in Programs, DestroyProgram(p) PROVE TreeInv'
    <2> USE <1>8 DEF TreeInv, DestroyProgram, Assign, Hollow
    <2>0. prog' \in [Programs -> ProgramStates]
      BY DEF TypeOK, ProgramStates, ProgramsWhole, Settled, Completed, InMove, Graphs
    <2>1. TypeOK'
      BY <2>0 DEF TypeOK, ProgramStates, ModuleStates, DomainStates
    <2>2. ProgramsWhole'
      BY OneChanges DEF TypeOK, ProgramsWhole
    <2>3. NothingDangles'
      BY DEF TypeOK, ProgramStates, NothingDangles, HasLinker, HasModule, Graphs, NoAsync
    <2> QED
      BY <2>1, <2>2, <2>3
  <1>9. ASSUME NEW p \in Programs, NEW q \in Programs, MoveProgram(p, q) PROVE TreeInv'
    <2> USE <1>9 DEF TreeInv, MoveProgram, Moved, Hollow
    <2>0. prog' \in [Programs -> ProgramStates]
      BY DEF TypeOK, ProgramStates, ProgramsWhole, Settled, Completed, InMove, Graphs
    <2>1. TypeOK'
      BY <2>0 DEF TypeOK, ProgramStates, ModuleStates, DomainStates
    <2>2. ProgramsWhole'
      <3>1. /\ \A s \in Settled' : s \in Settled \/ s = Hollow
            /\ \A f \in moves : prog'[f.from] = prog[f.from]
        BY MoveChanges
      <3>2. Hollow.realm = None /\ Hollow.graph = None /\ moves' = moves
        OBVIOUS
      <3> QED
        BY <3>1, <3>2, WholeKept
    <2>3. NothingDangles'
      BY DEF TypeOK, ProgramStates, NothingDangles, HasLinker, HasModule, Graphs, NoAsync
    <2> QED
      BY <2>1, <2>2, <2>3
  <1>10. ASSUME NEW p \in Programs, NEW m \in Modules, AddModule(p, m) PROVE TreeInv'
    <2> USE <1>10 DEF TreeInv, AddModule, Accepts
    <2> DEFINE G == [prog[p].graph EXCEPT !.mods = @ \cup {m}]
    <2>0. /\ prog[p].graph \in Graphs /\ G \in Graphs /\ prog[p] \in ProgramStates
          /\ G.mods \subseteq prog[p].graph.mods \cup {x \in Modules : HasModule(x)}
      <3>1. prog[p] \in ProgramStates
        BY DEF TypeOK, ProgramStates
      <3>2. prog[p].graph \in Graphs
        BY <3>1 DEF ProgramsWhole, Settled, ProgramStates
      <3>3. G \in Graphs
        BY <3>1, <3>2 DEF Graphs, ProgramStates
      <3>4. G.mods \subseteq prog[p].graph.mods \cup {x \in Modules : HasModule(x)}
        BY <3>2 DEF Graphs, NothingDangles
      <3> QED
        BY <3>1, <3>2, <3>3, <3>4
    <2>a. prog' = [prog EXCEPT ![p] = [prog[p] EXCEPT !.graph = G]]
      BY DEF TypeOK, ProgramStates
    <2> HIDE DEF G
    <2>b. /\ prog'[p].realm = prog[p].realm /\ prog'[p].main = prog[p].main /\ prog'[p].graph = G
          /\ \A x \in Programs : x # p => prog'[x] = prog[x]
          /\ prog' \in [Programs -> ProgramStates]
      <3>1. [prog[p] EXCEPT !.graph = G] \in ProgramStates
        BY <2>0 DEF ProgramStates
      <3>2. prog' \in [Programs -> ProgramStates]
        BY <2>a, <3>1 DEF TypeOK
      <3>3. prog'[p] = [prog[p] EXCEPT !.graph = G] /\ \A x \in Programs : x # p => prog'[x] = prog[x]
        BY <2>a DEF TypeOK, ProgramStates
      <3> QED
        BY <2>0, <3>2, <3>3 DEF ProgramStates
    <2>1. TypeOK'
      BY <2>0, <2>b DEF TypeOK, ProgramStates, ModuleStates, DomainStates
    <2>2. ProgramsWhole'
      BY <2>0, <2>b, OneChanges DEF ProgramsWhole
    <2>3. NothingDangles'
      BY <2>0, <2>b DEF NothingDangles, HasLinker, HasModule
    <2> QED
      BY <2>1, <2>2, <2>3
  <1>11. ASSUME NEW p \in Programs, NEW ok \in BOOLEAN, InstantiateGraph(p, ok) PROVE TreeInv'
    <2> USE <1>11 DEF TreeInv, InstantiateGraph
    <2> DEFINE G == IF ok THEN [prog[p].graph EXCEPT !.life = "Instantiated", !.store = prog[p].main] ELSE [prog[p].graph EXCEPT !.life = "Failed"]
    <2>0. /\ prog[p].graph \in Graphs /\ G \in Graphs /\ prog[p] \in ProgramStates
          /\ G.mods \subseteq prog[p].graph.mods \cup {x \in Modules : HasModule(x)}
      <3>1. prog[p] \in ProgramStates
        BY DEF TypeOK, ProgramStates
      <3>2. prog[p].graph \in Graphs
        BY <3>1 DEF ProgramsWhole, Settled, ProgramStates
      <3>3. G \in Graphs
        BY <3>1, <3>2 DEF Graphs, ProgramStates
      <3>4. G.mods \subseteq prog[p].graph.mods \cup {x \in Modules : HasModule(x)}
        BY <3>2 DEF Graphs, NothingDangles
      <3> QED
        BY <3>1, <3>2, <3>3, <3>4
    <2>a. prog' = [prog EXCEPT ![p] = [prog[p] EXCEPT !.graph = G]]
      BY DEF TypeOK, ProgramStates
    <2> HIDE DEF G
    <2>b. /\ prog'[p].realm = prog[p].realm /\ prog'[p].main = prog[p].main /\ prog'[p].graph = G
          /\ \A x \in Programs : x # p => prog'[x] = prog[x]
          /\ prog' \in [Programs -> ProgramStates]
      <3>1. [prog[p] EXCEPT !.graph = G] \in ProgramStates
        BY <2>0 DEF ProgramStates
      <3>2. prog' \in [Programs -> ProgramStates]
        BY <2>a, <3>1 DEF TypeOK
      <3>3. prog'[p] = [prog[p] EXCEPT !.graph = G] /\ \A x \in Programs : x # p => prog'[x] = prog[x]
        BY <2>a DEF TypeOK, ProgramStates
      <3> QED
        BY <2>0, <3>2, <3>3 DEF ProgramStates
    <2>1. TypeOK'
      BY <2>0, <2>b DEF TypeOK, ProgramStates, ModuleStates, DomainStates
    <2>2. ProgramsWhole'
      BY <2>0, <2>b, OneChanges DEF ProgramsWhole
    <2>3. NothingDangles'
      BY <2>0, <2>b DEF NothingDangles, HasLinker, HasModule
    <2> QED
      BY <2>1, <2>2, <2>3
  <1>12. ASSUME NEW p \in Programs, NEW i \in Instances, GetInstance(p, i) PROVE TreeInv'
    BY <1>12 DEF TreeInv, TypeOK, ProgramStates, ModuleStates, DomainStates, Graphs, ProgramsWhole, Settled, Completed, InMove, NothingDangles, HasLinker, HasModule, GetInstance
  <1>13. ASSUME NEW d \in Domains, NEW m \in Modules, InstantiateAsync(d, m) PROVE TreeInv'
    BY <1>13 DEF TreeInv, TypeOK, ProgramStates, ModuleStates, DomainStates, Graphs, ProgramsWhole, Settled, Completed, InMove, NothingDangles, HasLinker, HasModule, InstantiateAsync, SameRuntime, Reachable
  <1>14. ASSUME NEW d \in Domains, NEW m \in Modules, NEW i \in Instances, Instantiate(d, m, i) PROVE TreeInv'
    BY <1>14 DEF TreeInv, TypeOK, ProgramStates, ModuleStates, DomainStates, Graphs, ProgramsWhole, Settled, Completed, InMove, NothingDangles, HasLinker, HasModule, Instantiate, SameRuntime, Reachable
  <1>15. ASSUME NEW i \in Instances, TakeInstance(i) PROVE TreeInv'
    BY <1>15 DEF TreeInv, TypeOK, ProgramStates, ModuleStates, DomainStates, Graphs, ProgramsWhole, Settled, Completed, InMove, NothingDangles, HasLinker, HasModule, TakeInstance, NoAsync
  <1>16. ASSUME DropAsync PROVE TreeInv'
    BY <1>16 DEF TreeInv, TypeOK, ProgramStates, ModuleStates, DomainStates, Graphs, ProgramsWhole, Settled, Completed, InMove, NothingDangles, HasLinker, HasModule, DropAsync, NoAsync
  <1>17. ASSUME NEW m \in Modules, DestroyModuleState(m) PROVE TreeInv'
    <2> USE <1>17 DEF TreeInv, DestroyModuleState, ModuleOwned, InGraph
    <2>0. mod' \in [Modules -> ModuleStates]
      <3> DEFINE s == [mod[m] EXCEPT !.phase = IF @ = "live" THEN "closed" ELSE "gone"]
      <3>1. mod[m] \in ModuleStates
        BY DEF TypeOK, ProgramStates
      <3>2. s \in ModuleStates
        BY <3>1 DEF ModuleStates
      <3>3. mod' = [mod EXCEPT ![m] = s]
        BY DEF ModuleStates, TypeOK
      <3> HIDE DEF s
      <3> QED
        BY <3>2, <3>3 DEF TypeOK, ProgramStates
    <2>1. TypeOK'
      BY <2>0 DEF TypeOK, ProgramStates, DomainStates
    <2>2. ProgramsWhole'
      BY DEF TypeOK, ProgramStates, ProgramsWhole, Settled, Completed, InMove, Graphs
    <2>3. NothingDangles'
      BY DEF TypeOK, ProgramStates, NothingDangles, HasLinker, HasModule, Graphs, NoAsync
    <2> QED
      BY <2>1, <2>2, <2>3
  <1>18. ASSUME NEW d \in Domains, DestroyDomainState(d) PROVE TreeInv'
    <2> USE <1>18 DEF TreeInv, DestroyDomainState, DomainOwned
    <2>0. dom' \in [Domains -> DomainStates]
      <3> DEFINE next == [dom[d] EXCEPT !.phase = IF @ = "live" THEN "unlinked"
                                       ELSE IF @ = "unlinked" THEN "closed" ELSE "gone"]
      <3>1. dom \in [Domains -> DomainStates] /\ next \in DomainStates
        BY DEF TypeOK, DomainStates
      <3>2. dom' = [dom EXCEPT ![d] = next]
        OBVIOUS
      <3> HIDE DEF next
      <3> QED
        BY <3>1, <3>2
    <2>1. TypeOK'
      BY <2>0 DEF TypeOK, ProgramStates, ModuleStates, Graphs
    <2>2. ProgramsWhole'
      BY DEF TypeOK, ProgramStates, ProgramsWhole, Settled, Completed, InMove, Graphs
    <2>3. NothingDangles'
      BY DEF TypeOK, ProgramStates, NothingDangles, HasLinker, HasModule, Graphs, NoAsync
    <2> QED
      BY <2>1, <2>2, <2>3
  <1>19. ASSUME NEW p \in Programs, MoveMainDomainOut(p) PROVE TreeInv'
    <2> USE <1>19 DEF TreeInv, MoveMainDomainOut
    <2>1. /\ \A x \in Programs : prog'[x].realm = prog[x].realm /\ prog'[x].graph = prog[x].graph
          /\ \A x \in Programs : prog'[x].main \in {prog[x].main, None}
      BY DEF TypeOK, ProgramStates
    <2>2. TypeOK'
      BY <2>1 DEF TypeOK, ProgramStates, ModuleStates, DomainStates, Graphs
    <2>3. ProgramsWhole'
      BY <2>1, MainChanges DEF ProgramsWhole, TypeOK
    <2>4. NothingDangles'
      BY <2>1 DEF TypeOK, ProgramStates, NothingDangles, HasLinker, HasModule
    <2> QED
      BY <2>2, <2>3, <2>4
  <1>20. ASSUME NEW p \in Programs, MoveMainDomainIn(p) PROVE TreeInv'
    <2> USE <1>20 DEF TreeInv, MoveMainDomainIn
    <2>1. /\ \A x \in Programs : prog'[x].realm = prog[x].realm /\ prog'[x].graph = prog[x].graph
          /\ \A x \in Programs : prog'[x].main \in {prog[x].main, domain}
      BY DEF TypeOK, ProgramStates
    <2>2. TypeOK'
      BY <2>1 DEF TypeOK, ProgramStates, ModuleStates, DomainStates, Graphs
    <2>3. ProgramsWhole'
      BY <2>1, MainChanges DEF ProgramsWhole, TypeOK
    <2>4. NothingDangles'
      BY <2>1 DEF TypeOK, ProgramStates, NothingDangles, HasLinker, HasModule
    <2> QED
      BY <2>2, <2>3, <2>4
  <1>21. ASSUME DropDomain PROVE TreeInv'
    BY <1>21 DEF TreeInv, TypeOK, ProgramStates, ModuleStates, DomainStates, Graphs, ProgramsWhole, Settled, Completed, InMove, NothingDangles, HasLinker, HasModule, DropDomain
  <1>23. ASSUME NEW e \in Engines, DestroyEngineState(e) PROVE TreeInv'
    BY <1>23 DEF TreeInv, TypeOK, ProgramStates, ModuleStates, DomainStates, Graphs, ProgramsWhole, Settled, Completed, InMove, NothingDangles, HasLinker, HasModule, DestroyEngineState
  <1>24. ASSUME NEW p \in Programs, NEW q \in Programs, BeginMove(p, q) PROVE TreeInv'
    <2> USE <1>24 DEF TreeInv, BeginMove, Hollow
    <2>0. /\ prog'[q] = [prog[p] EXCEPT !.graph = prog[q].graph]
          /\ prog'[p] = [Hollow EXCEPT !.graph = prog[p].graph]
          /\ \A x \in Programs \ {p, q} : prog'[x] = prog[x]
          /\ moves' = moves \cup {[from |-> p, to |-> q, old |-> prog[q].main]}
          /\ [from |-> p, to |-> q, old |-> prog[q].main] \in MoveStates
      BY DEF TypeOK, LosesMain, ProgramStates
    <2>1. TypeOK'
      <3>1. prog' \in [Programs -> ProgramStates]
        BY <2>0 DEF TypeOK, ProgramStates
      <3>2. \A x, y \in Programs : prog'[x].main = prog'[y].main => x = y \/ prog'[x].main = None
        BY <2>0 DEF TypeOK, ProgramStates
      <3>3. \A x \in Programs : prog'[x].main = domain => domain = None
        BY <2>0 DEF TypeOK, ProgramStates
      <3>4. /\ moves' \subseteq MoveStates
            /\ \A f \in moves' : f.from # f.to
        BY <2>0 DEF TypeOK
      <3>5. \A f, g \in moves' : f # g => {f.from, f.to} \cap {g.from, g.to} = {}
        BY <2>0 DEF TypeOK, InMove
      <3> QED
        BY <3>1, <3>2, <3>3, <3>4, <3>5 DEF TypeOK
    <2>2. ProgramsWhole'
      <3>1. /\ Settled' \subseteq Settled
            /\ \A f \in moves' : (prog'[f.from] = prog[f.from] /\ f \in moves) \/ prog'[f.from].realm = None
        BY BeginChanges
      <3> QED
        BY <3>1, WholeKept
    <2>3. NothingDangles'
      <3>1. \A x \in Programs : /\ \E y \in Programs : prog'[x].graph = prog[y].graph
                                /\ prog'[x].main = None \/ \E y \in Programs : prog'[x].main = prog[y].main
        BY <2>0 DEF TypeOK, ProgramStates
      <3>2. \A x \in Programs : prog'[x].main # None => dom'[prog'[x].main].phase = "live"
        <4>1. ASSUME NEW x \in Programs, NEW y \in Programs, prog'[x].main = prog[y].main, prog'[x].main # None
              PROVE  dom[prog[y].main].phase = "live"
          BY <4>1 DEF NothingDangles, HasLinker
        <4>2. dom' = dom
          OBVIOUS
        <4> QED
          BY ONLY <3>1, <4>1, <4>2
      <3>3. \A x \in Programs : prog'[x].graph # None => \A m \in prog'[x].graph.mods : mod'[m].phase = "live"
        BY <3>1 DEF NothingDangles, HasModule
      <3>4. UNCHANGED <<mod, dom, domain, async>>
        OBVIOUS
      <3> QED
        BY <3>2, <3>3, <3>4 DEF NothingDangles, HasLinker, HasModule
    <2> QED
      BY <2>1, <2>2, <2>3
  <1>25. ASSUME NEW f \in moves, FinishMove(f) PROVE TreeInv'
    <2> USE <1>25 DEF TreeInv, FinishMove, GraphMoved
    <2>0. /\ f.from \in Programs /\ f.to \in Programs /\ f.from # f.to
          /\ prog'[f.to] = [prog[f.to] EXCEPT !.graph = prog[f.from].graph]
          /\ prog'[f.from] = [prog[f.from] EXCEPT !.graph = None]
          /\ \A x \in Programs \ {f.from, f.to} : prog'[x] = prog[x]
      BY DEF TypeOK
    <2>1. TypeOK'
      <3>1. prog' \in [Programs -> ProgramStates]
        BY <2>0 DEF TypeOK, ProgramStates
      <3>2. \A x \in Programs : prog'[x].main = prog[x].main
        BY <2>0 DEF TypeOK, ProgramStates
      <3>3. moves' \subseteq moves
        OBVIOUS
      <3>4. /\ moves' \subseteq MoveStates
            /\ \A g \in moves' : g.from # g.to
            /\ \A g, h \in moves' : g # h => {g.from, g.to} \cap {h.from, h.to} = {}
        BY <3>3 DEF TypeOK
      <3>5. /\ \A x, y \in Programs : prog'[x].main = prog'[y].main => x = y \/ prog'[x].main = None
            /\ \A x \in Programs : prog'[x].main = domain => domain = None
        BY <3>2 DEF TypeOK
      <3> QED
        BY <3>1, <3>4, <3>5 DEF TypeOK
    <2>2. ProgramsWhole'
      <3>1. /\ \A s \in Settled' : s \in Settled \/ (s.realm = None /\ s.graph = None)
            /\ \A g \in moves' : g \in moves /\ prog'[g.from] = prog[g.from]
        BY FinishChanges
      <3> QED
        BY <3>1, WholeKept
    <2>3. NothingDangles'
      <3>1. \A x \in Programs : /\ prog'[x].graph = None \/ \E y \in Programs : prog'[x].graph = prog[y].graph
                                /\ prog'[x].main = prog[x].main
        BY <2>0 DEF TypeOK, ProgramStates
      <3> QED
        BY <3>1 DEF TypeOK, NothingDangles, HasLinker, HasModule
    <2> QED
      BY <2>1, <2>2, <2>3
  <1>22. CASE UNCHANGED vars
    BY <1>22 DEF vars, TreeInv, TypeOK, ProgramStates, ModuleStates, DomainStates, Graphs, ProgramsWhole, Settled, Completed, InMove, NothingDangles, HasLinker, HasModule
  <1> QED
    BY <1>1, <1>2, <1>3, <1>4, <1>5, <1>6, <1>7, <1>8, <1>9, <1>10, <1>11, <1>12, <1>13, <1>14, <1>15, <1>16, <1>17, <1>18, <1>19, <1>20, <1>21, <1>22, <1>23, <1>24, <1>25 DEF HandleStep, Destruction, MoveDomain

(* Whatever the host destroys, moves or assigns, what it can follow is     *)
(* sound.                                                                  *)
THEOREM TreeIsSound == MovingSpec => []TreeInv
  BY TreeInit, TreeStep, PTL DEF MovingSpec

(* Type correctness, whatever the host destroys or moves.                  *)
THEOREM Types == MovingSpec => []TypeOK
  BY TreeInit, TreeStep, PTL DEF MovingSpec, TreeInv

(* No public operation reaches a graph through a null pointer: a Program   *)
(* has its graph exactly when it has its Realm's state.                    *)
THEOREM Whole == MovingSpec => []ProgramsWhole
  BY TreeInit, TreeStep, PTL DEF MovingSpec, TreeInv

(* The Store of every main domain a host can reach, the native modules of  *)
(* every graph and Module, and what a pending instantiation needs, exist.  *)
THEOREM NoDangling == MovingSpec => []NothingDangles
  BY TreeInit, TreeStep, PTL DEF MovingSpec, TreeInv

-----------------------------------------------------------------------------
(* Native engines outlive what was made with them *)

LEMMA EngineInit == Init => EngineOutlives
  BY NoneAssumption DEF Init, EngineOutlives, HasStore, HasLinker, HasModule, Hollow

LEMMA EngineStep ==
    TreeInv /\ EngineOutlives /\ [HandleStep \/ Destruction \/ MoveDomain]_vars => EngineOutlives'
  <1> SUFFICES ASSUME TypeOK, NothingDangles, EngineOutlives, [HandleStep \/ Destruction \/ MoveDomain]_vars
               PROVE EngineOutlives'
    BY DEF TreeInv
  <1> USE NoneAssumption DEF EngineOutlives, HasStore, HasLinker, HasModule
  <1>1. ASSUME NEW e \in Engines, CreateRuntime(e) PROVE EngineOutlives'
    BY <1>1 DEF TypeOK, CreateRuntime
  <1>2. ASSUME NEW e \in Engines, DestroyEngineState(e) PROVE EngineOutlives'
    BY <1>2 DEF TypeOK, DestroyEngineState, EngineOwned, KeepsEngine
  <1>3. ASSUME NEW e \in Engines, NEW m \in Modules, Compile(e, m) PROVE EngineOutlives'
    BY <1>3 DEF TypeOK, ModuleStates, Compile
  <1>4. ASSUME NEW e \in Engines, NEW p \in Programs, NEW d \in Domains, CreateProgram(e, p, d)
        PROVE EngineOutlives'
    <2>1. dom' = [dom EXCEPT ![d] = [phase |-> "live", engine |-> e]] /\ dom'[d].engine = e
      BY <1>4 DEF CreateProgram, TypeOK
    <2>2. \A x \in Programs : prog'[x].realm = IF x = p THEN e ELSE prog[x].realm
      BY <1>4 DEF CreateProgram, Assign, TypeOK
    <2> QED
      BY <1>4, <2>1, <2>2 DEF TypeOK, CreateProgram
  <1>5. ASSUME NEW m \in Modules, DestroyModuleState(m) PROVE EngineOutlives'
    BY <1>5 DEF TypeOK, ModuleStates, DestroyModuleState
  <1>6. ASSUME NEW d \in Domains, DestroyDomainState(d) PROVE EngineOutlives'
    BY <1>6 DEF TypeOK, DomainStates, DestroyDomainState
  <1>7. ASSUME NEW m \in Modules, DestroyModule(m) PROVE EngineOutlives'
    BY <1>7 DEF TypeOK, ModuleStates, DestroyModule
  <1>8. ASSUME NEW p \in Programs, DestroyProgram(p) PROVE EngineOutlives'
    BY <1>8 DEF TypeOK, DestroyProgram, Assign, Hollow
  <1>9. ASSUME NEW p \in Programs, NEW q \in Programs, MoveProgram(p, q) PROVE EngineOutlives'
    BY <1>9 DEF TypeOK, MoveProgram, Moved, Hollow
  <1>12. ASSUME NEW p \in Programs, NEW q \in Programs, BeginMove(p, q) PROVE EngineOutlives'
    <2>1. /\ \A x \in Programs : prog'[x].realm = None \/ \E y \in Programs : prog'[x].realm = prog[y].realm
          /\ UNCHANGED <<engine, runtimes, realms, mod, dom>>
      BY <1>12 DEF TypeOK, ProgramStates, BeginMove, Hollow
    <2> QED
      BY <2>1
  <1>13. ASSUME NEW f \in moves, FinishMove(f) PROVE EngineOutlives'
    <2>1. /\ \A x \in Programs : prog'[x].realm = prog[x].realm
          /\ UNCHANGED <<engine, runtimes, realms, mod, dom>>
      BY <1>13 DEF TypeOK, ProgramStates, MoveStates, FinishMove, GraphMoved
    <2> QED
      BY <2>1
  <1>10. ASSUME NEW p \in Programs, \/ \E m \in Modules : AddModule(p, m)
                                   \/ \E ok \in BOOLEAN : InstantiateGraph(p, ok)
                                   \/ MoveMainDomainOut(p)
                                   \/ MoveMainDomainIn(p)
         PROVE EngineOutlives'
    <2>1. /\ \A x \in Programs : prog'[x].realm = prog[x].realm
          /\ UNCHANGED <<engine, runtimes, realms, mod, dom>>
      BY <1>10 DEF TypeOK, ProgramStates, AddModule, InstantiateGraph, MoveMainDomainOut, MoveMainDomainIn
    <2> QED
      BY <2>1
  <1>11. CASE UNCHANGED <<engine, mod, dom, prog>> /\ runtimes' \subseteq runtimes
                 /\ realms' \subseteq realms \cup runtimes
    BY <1>11
  <1> QED
    BY <1>1, <1>2, <1>3, <1>4, <1>5, <1>6, <1>7, <1>8, <1>9, <1>10, <1>11, <1>12, <1>13
    DEF HandleStep, Destruction, MoveDomain, vars, DestroyRuntime, CreateRealm, DestroyRealm, GetInstance,
        InstantiateAsync, Instantiate, TakeInstance, DropAsync, DropDomain

(* No Store, linker or native module outlives its engine, in any order of  *)
(* destruction and at no step of a destructor.                             *)
THEOREM EnginesOutlive == MovingSpec => []EngineOutlives
  BY TreeInit, TreeStep, EngineInit, EngineStep, PTL DEF MovingSpec

-----------------------------------------------------------------------------
(* What holds if main domains stay in their Programs *)

(* InstancesAtHome asks of an Instance only while its domain is owned; what *)
(* is kept is that the Instances and the graph of a Program name the Store *)
(* they were made in, and that no main domain is anywhere else.            *)
HomeInv ==
    /\ GraphsAtHome
    /\ domain = None
    /\ \A s \in Settled : s.realm # None /\ s.graph.life = "Instantiated" => s.graph.store = s.main
    /\ \A i \in Instances : inst[i].store = inst[i].dom

LEMMA HomeInit == Init => HomeInv
  BY NoneAssumption DEF Init, HomeInv, GraphsAtHome, Settled, InMove, Hollow, NoInst

(* What a settled Program refers to is there.                              *)
LEMMA SettledSound ==
    ASSUME TreeInv, NEW s \in Settled
    PROVE  /\ s \in ProgramStates
           /\ s.main # None => s.main \in Domains /\ dom[s.main].phase = "live"
           /\ s.realm # None => /\ s.graph \in Graphs
                                /\ \A m \in s.graph.mods : m \in Modules /\ mod[m].phase = "live"
  <1>1. ASSUME NEW p \in Programs, NEW q \in Programs,
               s.realm = prog[q].realm, s.main = prog[q].main, s.graph = prog[p].graph, s \in ProgramStates
        PROVE  /\ s.main # None => s.main \in Domains /\ dom[s.main].phase = "live"
               /\ s.realm # None => /\ s.graph \in Graphs
                                    /\ \A m \in s.graph.mods : m \in Modules /\ mod[m].phase = "live"
    <2>1. s.realm # None => s.graph \in Graphs /\ s.graph.mods \subseteq Modules
      BY <1>1, NoneAssumption DEF TreeInv, ProgramsWhole, ProgramStates, Graphs
    <2> QED
      BY <1>1, <2>1, NoneAssumption DEF TreeInv, NothingDangles, HasLinker, HasModule, ProgramStates
  <1>2. \/ \E p \in Programs : s = prog[p]
        \/ \E f \in moves : s = Completed(f)
    BY DEF Settled
  <1>3. \A p \in Programs : prog[p] \in ProgramStates
    BY DEF TreeInv, TypeOK
  <1>4. ASSUME NEW f \in moves, s = Completed(f)
        PROVE  /\ f.from \in Programs /\ f.to \in Programs /\ s \in ProgramStates
               /\ s.realm = prog[f.to].realm /\ s.main = prog[f.to].main /\ s.graph = prog[f.from].graph
    BY <1>3, <1>4 DEF TreeInv, TypeOK, MoveStates, Completed, ProgramStates
  <1> QED
    BY <1>1, <1>2, <1>3, <1>4

(* Nothing but a graph that is new, or was changed, has to be looked at.   *)
LEMMA HomeKept ==
    ASSUME TreeInv, HomeInv,
           \A m \in Modules : mod[m].phase = "live" => mod'[m].engine = mod[m].engine,
           \A d \in Domains : dom[d].phase = "live" => dom'[d].engine = dom[d].engine,
           domain' = None, \A i \in Instances : inst'[i].store = inst'[i].dom,
           \A s \in Settled' : s \in Settled \/ s.realm = None
                               \/ /\ s.main # None /\ dom'[s.main].engine = s.realm
                                  /\ \A m \in s.graph.mods : mod'[m].engine = s.realm
                                  /\ s.graph.store \in {None, s.main}
                                  /\ s.graph.life = "Instantiated" => s.graph.store = s.main
    PROVE  HomeInv'
  <1>1. ASSUME NEW s \in Settled', s.realm # None
        PROVE  /\ s.main # None /\ dom'[s.main].engine = s.realm
               /\ \A m \in s.graph.mods : mod'[m].engine = s.realm
               /\ s.graph.store \in {None, s.main}
               /\ s.graph.life = "Instantiated" => s.graph.store = s.main
    <2>1. CASE s \in Settled
      <3>1. /\ s.main # None => s.main \in Domains /\ dom[s.main].phase = "live"
            /\ \A m \in s.graph.mods : m \in Modules /\ mod[m].phase = "live"
        BY <1>1, <2>1, SettledSound
      <3> QED
        BY <1>1, <2>1, <3>1 DEF HomeInv, GraphsAtHome
    <2> QED
      BY <1>1, <2>1
  <1> QED
    BY <1>1 DEF HomeInv, GraphsAtHome

LEMMA HomeStep == TreeInv /\ HomeInv /\ [HandleStep \/ Destruction]_vars => HomeInv'
  <1> SUFFICES ASSUME TreeInv, HomeInv, [HandleStep \/ Destruction]_vars
               PROVE HomeInv'
    OBVIOUS
  <1> USE NoneAssumption
  <1>0. /\ TypeOK /\ ProgramsWhole /\ domain = None
        /\ \A i \in Instances : inst[i].store = inst[i].dom
        /\ mod \in [Modules -> ModuleStates] /\ dom \in [Domains -> DomainStates]
        /\ prog \in [Programs -> ProgramStates] /\ inst \in [Instances -> [dom : Domains \cup {None}, store : Domains \cup {None}]]
    BY DEF TreeInv, HomeInv, TypeOK
  <1>a. \A p \in Programs : ~InMove(p) => prog[p] \in Settled
    BY DEF Settled
  <1>b. UNCHANGED <<prog, moves>> => Settled' = Settled
    BY DEF Settled, Completed, InMove
  <1>1. ASSUME NEW e \in Engines, NEW m \in Modules, Compile(e, m) PROVE HomeInv'
    <2>1. \A x \in Modules : mod[x].phase = "live" => mod'[x].engine = mod[x].engine
      BY <1>0, <1>1 DEF Compile
    <2> QED
      BY <1>0, <1>b, <1>1, <2>1, HomeKept DEF Compile
  <1>2. ASSUME NEW e \in Engines, NEW p \in Programs, NEW d \in Domains, CreateProgram(e, p, d) PROVE HomeInv'
    <2>1. /\ prog'[p] = [realm |-> e, main |-> d, graph |-> NoGraph]
          /\ \A x \in Programs \ {p} : prog'[x] = prog[x]
          /\ dom'[d].engine = e
          /\ \A x \in Domains : dom[x].phase = "live" => dom'[x] = dom[x]
          /\ ~InMove(p) /\ UNCHANGED <<moves, mod, domain, inst>>
      BY <1>0, <1>2 DEF CreateProgram, Assign
    <2>2. \A s \in Settled' : s \in Settled \/ s = [realm |-> e, main |-> d, graph |-> NoGraph]
      BY <1>0, <2>1, OneChanges
    <2> QED
      BY <1>0, <2>1, <2>2, HomeKept DEF NoGraph
  <1>3. ASSUME NEW p \in Programs, NEW m \in Modules, AddModule(p, m) PROVE HomeInv'
    <2>1. /\ prog[p] \in Settled /\ prog[p].realm # None /\ ~InMove(p) /\ mod[m].engine = prog[p].realm
          /\ UNCHANGED <<moves, mod, dom, domain, inst>>
      BY <1>a, <1>3 DEF AddModule, Accepts
    <2>2. prog[p].graph \in Graphs /\ prog[p] \in ProgramStates
      BY <2>1, SettledSound
    <2>3. /\ prog'[p].realm = prog[p].realm /\ prog'[p].main = prog[p].main
          /\ prog'[p].graph.store = prog[p].graph.store /\ prog'[p].graph.life = prog[p].graph.life
          /\ prog'[p].graph.mods = prog[p].graph.mods \cup {m}
          /\ \A x \in Programs \ {p} : prog'[x] = prog[x]
      BY <1>0, <1>3, <2>2 DEF AddModule, ProgramStates, Graphs
    <2>4. \A s \in Settled' : s \in Settled \/ s = prog'[p]
      BY <1>0, <2>1, <2>3, OneChanges
    <2>5. /\ prog[p].main # None /\ dom[prog[p].main].engine = prog[p].realm
          /\ \A x \in prog[p].graph.mods : mod[x].engine = prog[p].realm
          /\ prog[p].graph.store \in {None, prog[p].main}
          /\ prog[p].graph.life = "Instantiated" => prog[p].graph.store = prog[p].main
      BY <2>1 DEF HomeInv, GraphsAtHome
    <2> QED
      BY <1>0, <2>1, <2>3, <2>4, <2>5, HomeKept
  <1>4. ASSUME NEW p \in Programs, NEW ok \in BOOLEAN, InstantiateGraph(p, ok) PROVE HomeInv'
    <2>1. /\ prog[p] \in Settled /\ prog[p].realm # None /\ ~InMove(p)
          /\ UNCHANGED <<moves, mod, dom, domain, inst>>
      BY <1>a, <1>4 DEF InstantiateGraph
    <2>2. prog[p].graph \in Graphs /\ prog[p] \in ProgramStates
      BY <2>1, SettledSound
    <2>3. /\ prog'[p].realm = prog[p].realm /\ prog'[p].main = prog[p].main
          /\ prog'[p].graph.mods = prog[p].graph.mods
          /\ \A x \in Programs \ {p} : prog'[x] = prog[x]
      BY <1>0, <1>4, <2>2 DEF InstantiateGraph, ProgramStates, Graphs
    <2>4. \/ prog'[p].graph.life = "Instantiated" /\ prog'[p].graph.store = prog[p].main
          \/ prog'[p].graph.life = "Failed" /\ prog'[p].graph.store = prog[p].graph.store
      BY <1>0, <1>4, <2>2 DEF InstantiateGraph, ProgramStates, Graphs
    <2>5. \A s \in Settled' : s \in Settled \/ s = prog'[p]
      BY <1>0, <2>1, <2>3, OneChanges
    <2>6. /\ prog[p].main # None /\ dom[prog[p].main].engine = prog[p].realm
          /\ \A x \in prog[p].graph.mods : mod[x].engine = prog[p].realm
          /\ prog[p].graph.store \in {None, prog[p].main}
      BY <2>1 DEF HomeInv, GraphsAtHome
    <2> QED
      BY <1>0, <2>1, <2>3, <2>4, <2>5, <2>6, HomeKept
  <1>5. ASSUME NEW p \in Programs, NEW i \in Instances, GetInstance(p, i) PROVE HomeInv'
    <2>1. prog[p].graph.store = prog[p].main
      BY <1>a, <1>5 DEF GetInstance, HomeInv
    <2>2. \A j \in Instances : inst'[j].store = inst'[j].dom
      BY <1>0, <1>5, <2>1 DEF GetInstance
    <2> QED
      BY <1>0, <1>b, <1>5, <2>2, HomeKept DEF GetInstance
  <1>6. ASSUME NEW d \in Domains, NEW m \in Modules, NEW i \in Instances, Instantiate(d, m, i) PROVE HomeInv'
    <2>1. \A j \in Instances : inst'[j].store = inst'[j].dom
      BY <1>0, <1>6 DEF Instantiate
    <2> QED
      BY <1>0, <1>b, <1>6, <2>1, HomeKept DEF Instantiate
  <1>7. ASSUME NEW i \in Instances, TakeInstance(i) PROVE HomeInv'
    <2>1. \A j \in Instances : inst'[j].store = inst'[j].dom
      BY <1>0, <1>7 DEF TakeInstance
    <2> QED
      BY <1>0, <1>b, <1>7, <2>1, HomeKept DEF TakeInstance
  <1>8. ASSUME NEW p \in Programs, DestroyProgram(p) PROVE HomeInv'
    <2>1. /\ prog'[p].realm = None /\ ~InMove(p) /\ UNCHANGED <<moves, mod, dom, domain, inst>>
          /\ \A x \in Programs \ {p} : prog'[x] = prog[x]
      BY <1>0, <1>8 DEF DestroyProgram, Assign, Hollow
    <2>2. \A s \in Settled' : s \in Settled \/ s = prog'[p]
      BY <1>0, <2>1, OneChanges
    <2> QED
      BY <1>0, <2>1, <2>2, HomeKept
  <1>9. ASSUME NEW p \in Programs, NEW q \in Programs, MoveProgram(p, q) PROVE HomeInv'
    <2>1. \A s \in Settled' : s \in Settled \/ s = Hollow
      BY <1>0, <1>9, MoveChanges
    <2>2. Hollow.realm = None
      BY DEF Hollow
    <2> QED
      BY <1>0, <1>9, <2>1, <2>2, HomeKept DEF MoveProgram
  <1>12. ASSUME NEW p \in Programs, NEW q \in Programs, BeginMove(p, q) PROVE HomeInv'
    <2>1. Settled' \subseteq Settled
      BY <1>0, <1>12, BeginChanges
    <2> QED
      BY <1>0, <1>12, <2>1, HomeKept DEF BeginMove
  <1>13. ASSUME NEW f \in moves, FinishMove(f) PROVE HomeInv'
    <2>1. \A s \in Settled' : s \in Settled \/ s.realm = None
      BY <1>0, <1>13, FinishChanges
    <2> QED
      BY <1>0, <1>13, <2>1, HomeKept DEF FinishMove
  <1>10. ASSUME \/ \E m \in Modules : DestroyModule(m) \/ DestroyModuleState(m)
                \/ \E d \in Domains : DestroyDomainState(d)
         PROVE HomeInv'
    <2>1. ASSUME NEW m \in Modules, DestroyModule(m) \/ DestroyModuleState(m)
          PROVE \A x \in Modules : mod'[x].engine = mod[x].engine
      BY <1>0, <2>1 DEF DestroyModule, DestroyModuleState, ModuleStates
    <2>2. ASSUME NEW d \in Domains, DestroyDomainState(d)
          PROVE \A x \in Domains : dom'[x].engine = dom[x].engine
      BY <1>0, <2>2 DEF DestroyDomainState, DomainStates
    <2>3. /\ \A x \in Modules : mod'[x].engine = mod[x].engine
          /\ \A x \in Domains : dom'[x].engine = dom[x].engine
          /\ UNCHANGED <<prog, moves, domain, inst>>
      BY <1>10, <2>1, <2>2 DEF DestroyModule, DestroyModuleState, DestroyDomainState
    <2> QED
      BY <1>0, <1>b, <2>3, HomeKept
  <1>11. CASE UNCHANGED <<mod, dom, prog, moves, domain, inst>>
    BY <1>0, <1>b, <1>11, HomeKept
  <1> QED
    BY <1>1, <1>2, <1>3, <1>4, <1>5, <1>6, <1>7, <1>8, <1>9, <1>10, <1>11, <1>12, <1>13
    DEF HandleStep, Destruction, vars, CreateRuntime, DestroyRuntime, CreateRealm, DestroyRealm,
        InstantiateAsync, DropAsync, DestroyEngineState

LEMMA HomeImplies == HomeInv => InstancesAtHome /\ GraphsAtHome
  BY DEF HomeInv, InstancesAtHome

LEMMA StayingIsMoving == [HandleStep \/ Destruction]_vars => [HandleStep \/ Destruction \/ MoveDomain]_vars
  OBVIOUS

(* Every Instance names a native instance of the Store its calls use, as   *)
(* long as nobody moves a main domain out of its Program.                  *)
THEOREM InstancesStayHome == Spec => []InstancesAtHome
  BY TreeInit, TreeStep, StayingIsMoving, HomeInit, HomeStep, HomeImplies, PTL DEF Spec

(* A Program's modules and main domain are of one Runtime, whatever the    *)
(* number of Runtimes and the order of moves and destructions.             *)
THEOREM GraphsStayHome == Spec => []GraphsAtHome
  BY TreeInit, TreeStep, StayingIsMoving, HomeInit, HomeStep, HomeImplies, PTL DEF Spec

-----------------------------------------------------------------------------
(* What is lost stays lost *)

(* No step gives an owner to a domain that was made and has none left.     *)
LEMMA LostDomain ==
    ASSUME TypeOK, HandleStep \/ Destruction \/ MoveDomain,
           NEW d \in Domains, dom[d].phase # "unused", ~DomainOwned(d)
    PROVE  ~DomainOwned(d)'
  <1>0. /\ \A p \in Programs : prog[p].main # d
        /\ domain # d /\ async.dom # d /\ d # None
        /\ prog \in [Programs -> ProgramStates]
    BY NoneAssumption DEF DomainOwned, TypeOK
  <1> SUFFICES /\ \A p \in Programs : prog'[p].main # d
               /\ domain' # d /\ async'.dom # d
    BY DEF DomainOwned
  <1>1. ASSUME NEW e \in Engines, NEW p \in Programs, NEW c \in Domains, CreateProgram(e, p, c)
        PROVE  /\ \A q \in Programs : prog'[q].main # d
               /\ domain' # d /\ async'.dom # d
    BY <1>0, <1>1 DEF CreateProgram, Assign
  <1>2. ASSUME NEW p \in Programs, NEW q \in Programs,
               \/ DestroyProgram(p)
               \/ MoveProgram(p, q)
               \/ BeginMove(p, q)
        PROVE  /\ \A x \in Programs : prog'[x].main # d
               /\ domain' # d /\ async'.dom # d
    BY <1>0, <1>2 DEF DestroyProgram, Assign, MoveProgram, Moved, BeginMove, Hollow, ProgramStates
  <1>3. ASSUME NEW p \in Programs,
               \/ \E m \in Modules : AddModule(p, m)
               \/ \E ok \in BOOLEAN : InstantiateGraph(p, ok)
        PROVE  /\ \A x \in Programs : prog'[x].main # d
               /\ domain' # d /\ async'.dom # d
    <2>1. \E g : prog' = [prog EXCEPT ![p].graph = g] /\ UNCHANGED <<domain, async>>
      BY <1>3 DEF AddModule, InstantiateGraph
    <2>2. \A x \in Programs : prog'[x].main = prog[x].main
      BY <1>0, <2>1 DEF ProgramStates
    <2> QED
      BY <1>0, <2>1, <2>2
  <1>4. ASSUME NEW c \in Domains, NEW m \in Modules, InstantiateAsync(c, m)
        PROVE  /\ \A x \in Programs : prog'[x].main # d
               /\ domain' # d /\ async'.dom # d
    BY <1>0, <1>4 DEF InstantiateAsync, Reachable
  <1>5. CASE DropAsync
    BY <1>0, <1>5 DEF DropAsync, NoAsync
  <1>6. CASE MoveDomain
    <2>1. ASSUME NEW p \in Programs, MoveMainDomainOut(p) \/ MoveMainDomainIn(p)
          PROVE  /\ \A x \in Programs : prog'[x].main # d
                 /\ domain' # d /\ async'.dom # d
      <3>1. \A x \in Programs : prog'[x].main \in {prog[x].main, None, domain}
        BY <1>0, <2>1 DEF MoveMainDomainOut, MoveMainDomainIn, ProgramStates
      <3> QED
        BY <1>0, <2>1, <3>1 DEF MoveMainDomainOut, MoveMainDomainIn
    <2> QED
      BY <1>0, <1>6, <2>1 DEF MoveDomain, DropDomain
  <1>8. ASSUME NEW f \in moves, FinishMove(f)
        PROVE  /\ \A x \in Programs : prog'[x].main # d
               /\ domain' # d /\ async'.dom # d
    <2>1. \A x \in Programs : prog'[x].main = prog[x].main
      BY <1>0, <1>8 DEF FinishMove, GraphMoved, ProgramStates
    <2> QED
      BY <1>0, <1>8, <2>1 DEF FinishMove
  <1>7. CASE UNCHANGED <<prog, domain, async>>
    BY <1>0, <1>7
  <1> QED
    BY <1>1, <1>2, <1>3, <1>4, <1>5, <1>6, <1>7, <1>8
       DEF HandleStep, Destruction, CreateRuntime, DestroyRuntime, CreateRealm, DestroyRealm, Compile,
           DestroyModule, GetInstance, Instantiate, TakeInstance,
           DestroyEngineState, DestroyModuleState, DestroyDomainState

(* Nor to a module.                                                        *)
LEMMA LostModule ==
    ASSUME TypeOK, ProgramsWhole, HandleStep \/ Destruction \/ MoveDomain,
           NEW m \in Modules, mod[m].phase # "unused", ~ModuleOwned(m)
    PROVE  ~ModuleOwned(m)'
  <1>0. /\ mod[m].handle = FALSE /\ async.mod # m /\ m # None
        /\ \A p \in Programs : prog[p].graph # None => m \notin prog[p].graph.mods
        /\ prog \in [Programs -> ProgramStates] /\ mod \in [Modules -> ModuleStates]
    BY NoneAssumption DEF ModuleOwned, InGraph, TypeOK, ModuleStates
  <1> DEFINE Lost == /\ mod'[m].handle = FALSE /\ async'.mod # m
                     /\ \A p \in Programs : prog'[p].graph # None => m \notin prog'[p].graph.mods
  <1> SUFFICES Lost
    BY DEF ModuleOwned, InGraph
  <1>1. ASSUME NEW e \in Engines, NEW c \in Modules, Compile(e, c) PROVE Lost
    BY <1>0, <1>1 DEF Compile
  <1>2. ASSUME NEW c \in Modules, DestroyModule(c) \/ DestroyModuleState(c) PROVE Lost
    <2>1. mod'[m].handle = FALSE
      BY <1>0, <1>2 DEF DestroyModule, DestroyModuleState, ModuleStates
    <2> QED
      BY <1>0, <1>2, <2>1 DEF DestroyModule, DestroyModuleState
  <1>3. ASSUME NEW e \in Engines, NEW p \in Programs, NEW c \in Domains, CreateProgram(e, p, c) PROVE Lost
    BY <1>0, <1>3 DEF CreateProgram, Assign, NoGraph
  <1>4. ASSUME NEW p \in Programs, NEW q \in Programs, DestroyProgram(p) \/ MoveProgram(p, q) PROVE Lost
    BY <1>0, <1>4 DEF DestroyProgram, Assign, MoveProgram, Moved, Hollow
  <1>5. ASSUME NEW p \in Programs, NEW c \in Modules, AddModule(p, c) PROVE Lost
    <2>1. c # m /\ prog[p] \in ProgramStates /\ prog[p].graph \in Graphs
      BY <1>0, <1>5 DEF AddModule, Accepts, ProgramsWhole, Settled, ProgramStates
    <2>2. /\ prog'[p].graph.mods = prog[p].graph.mods \cup {c}
          /\ \A x \in Programs \ {p} : prog'[x] = prog[x]
      BY <1>0, <1>5, <2>1 DEF AddModule, ProgramStates, Graphs
    <2>3. m \notin prog'[p].graph.mods
      BY <1>0, <2>1, <2>2, NoneAssumption
    <2> QED
      BY <1>0, <1>5, <2>2, <2>3 DEF AddModule
  <1>6. ASSUME NEW p \in Programs, NEW ok \in BOOLEAN, InstantiateGraph(p, ok) PROVE Lost
    <2>1. prog[p] \in ProgramStates /\ prog[p].graph \in Graphs
      BY <1>0, <1>6 DEF InstantiateGraph, ProgramsWhole, Settled, ProgramStates
    <2>2. /\ prog'[p].graph.mods = prog[p].graph.mods
          /\ \A x \in Programs \ {p} : prog'[x] = prog[x]
      BY <1>0, <1>6, <2>1 DEF InstantiateGraph, ProgramStates, Graphs
    <2>3. m \notin prog'[p].graph.mods
      BY <1>0, <2>1, <2>2, NoneAssumption
    <2> QED
      BY <1>0, <1>6, <2>2, <2>3 DEF InstantiateGraph
  <1>7. ASSUME NEW d \in Domains, NEW c \in Modules, InstantiateAsync(d, c) PROVE Lost
    BY <1>0, <1>7 DEF InstantiateAsync, SameRuntime
  <1>8. CASE DropAsync
    BY <1>0, <1>8 DEF DropAsync, NoAsync
  <1>9. CASE MoveDomain
    <2>1. ASSUME NEW p \in Programs, MoveMainDomainOut(p) \/ MoveMainDomainIn(p)
          PROVE  (\A x \in Programs : prog'[x].graph = prog[x].graph) /\ UNCHANGED <<mod, async>>
      BY <1>0, <2>1 DEF MoveMainDomainOut, MoveMainDomainIn, ProgramStates
    <2> QED
      BY <1>0, <1>9, <2>1 DEF MoveDomain, DropDomain
  <1>11. ASSUME NEW p \in Programs, NEW q \in Programs, BeginMove(p, q) PROVE Lost
    <2>1. \A x \in Programs : \E y \in Programs : prog'[x].graph = prog[y].graph
      BY <1>0, <1>11 DEF BeginMove, Hollow, ProgramStates
    <2> QED
      BY <1>0, <1>11, <2>1 DEF BeginMove
  <1>12. ASSUME NEW f \in moves, FinishMove(f) PROVE Lost
    <2>1. \A x \in Programs : prog'[x].graph = None \/ \E y \in Programs : prog'[x].graph = prog[y].graph
      BY <1>0, <1>12 DEF FinishMove, GraphMoved, ProgramStates, TypeOK, MoveStates
    <2> QED
      BY <1>0, <1>12, <2>1 DEF FinishMove
  <1>10. CASE UNCHANGED <<prog, mod, async>>
    BY <1>0, <1>10
  <1> HIDE DEF Lost
  <1> QED
    BY <1>1, <1>2, <1>3, <1>4, <1>5, <1>6, <1>7, <1>8, <1>9, <1>10, <1>11, <1>12
       DEF HandleStep, Destruction, CreateRuntime, DestroyRuntime, CreateRealm, DestroyRealm,
           GetInstance, Instantiate, TakeInstance, DestroyEngineState, DestroyDomainState

(* Nor to an engine: only what has it can make something that has it.      *)
LEMMA LostEngine ==
    ASSUME TypeOK, HandleStep \/ Destruction \/ MoveDomain,
           NEW e \in Engines, engine[e] # "unused", ~EngineOwned(e)
    PROVE  ~EngineOwned(e)'
  <1>0. /\ e \notin runtimes /\ e \notin realms /\ e # None
        /\ \A p \in Programs : prog[p].realm # e
        /\ \A m \in Modules : mod[m].engine = e => ~KeepsEngine(mod[m])
        /\ \A d \in Domains : dom[d].engine = e => ~KeepsEngine(dom[d])
        /\ prog \in [Programs -> ProgramStates] /\ mod \in [Modules -> ModuleStates]
        /\ dom \in [Domains -> DomainStates]
    BY NoneAssumption DEF EngineOwned, TypeOK
  <1> DEFINE Lost == /\ e \notin runtimes' /\ e \notin realms'
                     /\ \A p \in Programs : prog'[p].realm # e
                     /\ \A m \in Modules : mod'[m].engine = e => ~KeepsEngine(mod'[m])
                     /\ \A d \in Domains : dom'[d].engine = e => ~KeepsEngine(dom'[d])
  <1> SUFFICES Lost
    BY DEF EngineOwned, KeepsEngine
  <1>1. ASSUME NEW f \in Engines, \/ CreateRuntime(f) \/ DestroyRuntime(f)
                                  \/ CreateRealm(f) \/ DestroyRealm(f)
        PROVE  Lost
    BY <1>0, <1>1 DEF CreateRuntime, DestroyRuntime, CreateRealm, DestroyRealm
  <1>2. ASSUME NEW f \in Engines, NEW c \in Modules, Compile(f, c) PROVE Lost
    <2>1. f # e /\ \A m \in Modules : mod'[m] = mod[m] \/ mod'[m].engine = f
      BY <1>0, <1>2 DEF Compile
    <2> QED
      BY <1>0, <1>2, <2>1 DEF Compile
  <1>3. ASSUME NEW f \in Engines, NEW p \in Programs, NEW c \in Domains, CreateProgram(f, p, c) PROVE Lost
    <2>1. /\ f # e
          /\ \A d \in Domains : dom'[d] = dom[d] \/ dom'[d].engine = f
          /\ \A x \in Programs : prog'[x] = prog[x] \/ prog'[x].realm = f
      BY <1>0, <1>3 DEF CreateProgram, Assign
    <2> QED
      BY <1>0, <1>3, <2>1 DEF CreateProgram
  <1>4. ASSUME NEW c \in Modules, DestroyModule(c) \/ DestroyModuleState(c) PROVE Lost
    <2>1. \A m \in Modules : /\ mod'[m].engine = mod[m].engine
                             /\ KeepsEngine(mod'[m]) => KeepsEngine(mod[m])
      BY <1>0, <1>4 DEF DestroyModule, DestroyModuleState, KeepsEngine, ModuleStates
    <2> QED
      BY <1>0, <1>4, <2>1 DEF DestroyModule, DestroyModuleState
  <1>5. ASSUME NEW c \in Domains, DestroyDomainState(c) PROVE Lost
    <2>1. \A d \in Domains : /\ dom'[d].engine = dom[d].engine
                             /\ KeepsEngine(dom'[d]) => KeepsEngine(dom[d])
      BY <1>0, <1>5 DEF DestroyDomainState, KeepsEngine, DomainStates
    <2> QED
      BY <1>0, <1>5, <2>1 DEF DestroyDomainState
  <1>6. ASSUME NEW p \in Programs, NEW q \in Programs, DestroyProgram(p) \/ MoveProgram(p, q) PROVE Lost
    <2>1. \A x \in Programs : prog'[x].realm # e
      BY <1>0, <1>6 DEF DestroyProgram, Assign, MoveProgram, Moved, Hollow
    <2> QED
      BY <1>0, <1>6, <2>1 DEF DestroyProgram, MoveProgram
  <1>7. ASSUME NEW p \in Programs,
               \/ \E m \in Modules : AddModule(p, m)
               \/ \E ok \in BOOLEAN : InstantiateGraph(p, ok)
               \/ MoveMainDomainOut(p) \/ MoveMainDomainIn(p)
        PROVE  Lost
    <2>1. /\ \E g : \/ prog' = [prog EXCEPT ![p].graph = g]
                   \/ prog' = [prog EXCEPT ![p].main = g]
          /\ UNCHANGED <<runtimes, realms, mod, dom>>
      BY <1>7 DEF AddModule, InstantiateGraph, MoveMainDomainOut, MoveMainDomainIn
    <2>2. \A x \in Programs : prog'[x].realm = prog[x].realm
      BY <1>0, <2>1 DEF ProgramStates
    <2> QED
      BY <1>0, <2>1, <2>2
  <1>9. ASSUME NEW p \in Programs, NEW q \in Programs, BeginMove(p, q) PROVE Lost
    <2>1. \A x \in Programs : prog'[x].realm # e
      BY <1>0, <1>9 DEF BeginMove, Hollow, ProgramStates
    <2> QED
      BY <1>0, <1>9, <2>1 DEF BeginMove
  <1>10. ASSUME NEW f \in moves, FinishMove(f) PROVE Lost
    <2>1. \A x \in Programs : prog'[x].realm # e
      BY <1>0, <1>10 DEF FinishMove, GraphMoved, ProgramStates
    <2> QED
      BY <1>0, <1>10, <2>1 DEF FinishMove
  <1>8. CASE UNCHANGED <<runtimes, realms, prog, mod, dom>>
    BY <1>0, <1>8
  <1> HIDE DEF Lost
  <1> QED
    BY <1>1, <1>2, <1>3, <1>4, <1>5, <1>6, <1>7, <1>8, <1>9, <1>10
       DEF HandleStep, Destruction, MoveDomain, GetInstance, Instantiate, InstantiateAsync,
           TakeInstance, DropAsync, DropDomain, DestroyEngineState

(* For any number of handles, however they are moved and assigned, and at  *)
(* every step of a destructor: nothing that is being destroyed, or was, is *)
(* owned again.                                                            *)
THEOREM LostIsLost == MovingSpec => NoResurrection
  <1>1. TreeInv /\ [HandleStep \/ Destruction \/ MoveDomain]_vars =>
          [/\ \A d \in Domains : dom[d].phase # "unused" /\ ~DomainOwned(d) => ~DomainOwned(d)'
           /\ \A m \in Modules : mod[m].phase # "unused" /\ ~ModuleOwned(m) => ~ModuleOwned(m)'
           /\ \A e \in Engines : engine[e] # "unused" /\ ~EngineOwned(e) => ~EngineOwned(e)']_vars
    BY LostDomain, LostModule, LostEngine DEF TreeInv
  <1> QED
    BY <1>1, TreeInit, TreeStep, PTL DEF MovingSpec, NoResurrection
=============================================================================
