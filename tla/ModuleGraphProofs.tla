------------------------- MODULE ModuleGraphProofs -------------------------
(***************************************************************************)
(* The invariants of ModuleGraph, and the specifications it implements,    *)
(* for any modules with any imports and exports.                           *)
(***************************************************************************)
EXTENDS ModuleGraph, SequenceTheorems, FiniteSetTheorems, TLAPS

Indices == 1..Len(nodes)

(* The Store is taken exactly while a graph is being instantiated.         *)
LeaseInv ==
    /\ lifecycle = "Instantiating" <=> activity = "Exclusive"
    /\ lifecycle # "Instantiating" => queue = <<>>
    /\ lifecycle # "Building" => nodes # <<>>

(* Once instantiation has begun, every import is satisfied by a module the *)
(* importer depends on.                                                    *)
SoundInv ==
    lifecycle # "Building" =>
        \A n \in Indices : \A k \in 1..Len(ImportsOf(n)) :
            FromNode(ImportsOf(n)[k]) /\ Providers(ImportsOf(n)[k]) \subseteq nodes[n].deps

(* What is left of the order has every module without an instance, after   *)
(* those it depends on.                                                    *)
QueueInv ==
    lifecycle = "Instantiating" =>
        /\ \A n \in Indices : nodes[n].hasInstance \/ \E q \in 1..Len(queue) : queue[q] = n
        /\ \A q \in 1..Len(queue) : \A p \in nodes[queue[q]].deps :
              nodes[p].hasInstance \/ \E r \in 1..Len(queue) : r < q /\ queue[r] = p

WholeInv == lifecycle = "Instantiated" => \A n \in Indices : nodes[n].hasInstance

(* A module with an instance has all its exports in the linker.            *)
PublishedInv ==
    \A n \in Indices : nodes[n].hasInstance =>
        \A k \in 1..Len(Exports[nodes[n].mod]) : Entry(n, Exports[nodes[n].mod][k]) \in linker

(* The parts that concern one node, or none, and those about all of them.  *)
GInv == /\ TypeOK /\ LeaseInv /\ SoundInv /\ QueueInv /\ WholeInv /\ PublishedInv
        /\ NamesMeanOneThing /\ BuildingIsClean /\ LinkedAsValidated

-----------------------------------------------------------------------------
LEMMA GraphInit == Init => GInv
  <1> SUFFICES ASSUME Init PROVE GInv
    OBVIOUS
  <1>1. nodes = <<>> /\ queue = <<>> /\ linker = {} /\ Len(nodes) = 0 /\ lifecycle = "Building"
    BY DEF Init
  <1>2. nodes \in Seq(Nodes) /\ queue \in Seq(1..Len(nodes))
    BY <1>1
  <1>3. TypeOK
    <2>1. activity = "Idle" /\ asyncRequired = FALSE /\ 1..Len(nodes) = {}
      BY <1>1 DEF Init
    <2>2. \A e \in linker : FALSE
      BY <1>1
    <2> HIDE DEF Init
    <2> QED
      BY <1>1, <1>2, <2>1, <2>2 DEF TypeOK
  <1> QED
    BY <1>1, <1>3 DEF Init, GInv, LeaseInv, SoundInv, QueueInv, WholeInv, PublishedInv,
       NamesMeanOneThing, BuildingIsClean, LinkedAsValidated, Indices, GraphEntries

LEMMA NodeFacts ==
    ASSUME TypeOK, NEW n \in Indices
    PROVE  /\ nodes[n] \in Nodes /\ nodes[n].mod \in Modules /\ nodes[n].ns \in Namespaces
           /\ nodes[n].deps \subseteq Indices /\ nodes[n].hasInstance \in BOOLEAN
           /\ ImportsOf(n) \in Seq([ns : STRING, name : STRING, type : Types])
           /\ Exports[nodes[n].mod] \in Seq([name : STRING, type : Types])
  <1>1. nodes[n] \in Nodes
    BY DEF TypeOK, Indices
  <1>2. nodes[n].mod \in Modules /\ nodes[n].ns \in Namespaces /\ nodes[n].deps \subseteq Indices
        /\ nodes[n].hasInstance \in BOOLEAN
    BY <1>1 DEF Nodes, Indices
  <1> QED
    BY <1>1, <1>2, ModulesAssumption DEF ImportsOf

(* BuildDependencies changes nothing but dependencies, and leaves each of  *)
(* a sound graph with those it examined.                                   *)
LEMMA RebuiltFacts ==
    ASSUME TypeOK
    PROVE  /\ Rebuilt \in Seq(Nodes) /\ Len(Rebuilt) = Len(nodes)
           /\ \A n \in Indices : /\ Rebuilt[n].ns = nodes[n].ns /\ Rebuilt[n].mod = nodes[n].mod
                                 /\ Rebuilt[n].hasInstance = nodes[n].hasInstance
                                 /\ Rebuilt[n].links = nodes[n].links
                                 /\ Reached(n) => Rebuilt[n].deps = Dependencies(n)
  <1>1. \A n \in Indices : Dependencies(n) \in SUBSET Indices
    BY DEF Dependencies, Providers, Indices
  <1>2. \A n \in Indices : [nodes[n] EXCEPT !.deps = Dependencies(n)] \in Nodes
    BY <1>1, NodeFacts DEF Nodes, Indices
  <1>3. \A n \in Indices : Rebuilt[n] = IF Reached(n) THEN [nodes[n] EXCEPT !.deps = Dependencies(n)] ELSE nodes[n]
    BY DEF Rebuilt, Indices
  <1>4. Rebuilt = [n \in Indices |-> Rebuilt[n]] /\ Len(nodes) \in Nat
    BY DEF Rebuilt, Indices, TypeOK
  <1>5. \A n \in Indices : Rebuilt[n] \in Nodes
    BY <1>2, <1>3, NodeFacts
  <1>6. Rebuilt \in Seq(Nodes) /\ Len(Rebuilt) = Len(nodes)
    BY <1>4, <1>5 DEF Indices
  <1>7. \A n \in Indices : Reached(n) => Rebuilt[n].deps = Dependencies(n)
    BY <1>3, NodeFacts DEF Nodes
  <1> QED
    BY <1>3, <1>6, <1>7, NodeFacts DEF Nodes

(* A graph is sound where every import is from a module of the graph.      *)
LEMMA SoundGraph ==
    ASSUME TypeOK, GraphSound, ~RequiresAsyncHost, NEW n \in Indices, NEW k \in 1..Len(ImportsOf(n))
    PROVE  /\ FromNode(ImportsOf(n)[k])
           /\ Providers(ImportsOf(n)[k]) \subseteq Rebuilt[n].deps
  <1>1. Examined(n) = 1..Len(ImportsOf(n))
    BY DEF GraphSound, Sound, Indices
  <1>2. Len(ImportsOf(n)) \in Nat /\ n \in Nat /\ Len(nodes) \in Nat
    BY NodeFacts DEF TypeOK, Indices
  <1>3. FromHost(ImportsOf(n)[k]) \/ FromNode(ImportsOf(n)[k])
    <2>1. k \in Examined(n) /\ k \in 1..k
      BY <1>1, <1>2
    <2> QED
      BY <2>1 DEF Examined
  <1>4. ~FromHost(ImportsOf(n)[k])
    BY <1>1 DEF RequiresAsyncHost, Indices
  <1>5. Reached(n)
    BY <1>2 DEF GraphSound, Reached, Indices
  <1>6. Rebuilt[n].deps = Dependencies(n)
    BY <1>5, RebuiltFacts
  <1>7. Providers(ImportsOf(n)[k]) \subseteq Dependencies(n)
    BY <1>1 DEF Dependencies
  <1> QED
    BY <1>3, <1>4, <1>6, <1>7

(* What is read of the modules depends on the nodes' namespaces and        *)
(* modules only, which no step of an instantiation changes.                *)
SameModules == /\ Len(nodes') = Len(nodes)
               /\ \A n \in Indices : nodes'[n].ns = nodes[n].ns /\ nodes'[n].mod = nodes[n].mod

LEMMA ShapeKept ==
    ASSUME SameModules
    PROVE  /\ Indices' = Indices
           /\ \A n \in Indices : ImportsOf(n)' = ImportsOf(n)
           /\ \A i : Providers(i)' = Providers(i)
           /\ \A i : FromNode(i)' = FromNode(i)
           /\ \A n \in Indices : \A x : Entry(n, x)' = Entry(n, x)
  <1>1. Indices' = Indices
    BY DEF SameModules, Indices
  <1>2. \A n \in Indices : ImportsOf(n)' = ImportsOf(n)
    BY DEF SameModules, ImportsOf
  <1>3. \A i : Providers(i)' = Providers(i) /\ Providers(i) \subseteq Indices
    BY <1>1 DEF SameModules, Providers, Indices
  <1>4. \A n \in Indices : \A name : FindExport(nodes'[n].mod, name) = FindExport(nodes[n].mod, name)
    BY DEF SameModules
  <1>5. ASSUME NEW i PROVE FromNode(i)' = FromNode(i)
    BY <1>3, <1>4 DEF FromNode
  <1>6. \A n \in Indices : \A x : Entry(n, x)' = Entry(n, x)
    BY DEF SameModules, Entry, Key
  <1> QED
    BY <1>1, <1>2, <1>3, <1>5, <1>6

(* An order of the graph, as it is left in the queue.                      *)
LEMMA OrderFacts ==
    ASSUME TypeOK, NEW o \in Orders(NeedsOf(Rebuilt))
    PROVE  /\ o \in Seq(Indices)
           /\ \A n \in Indices : \E q \in 1..Len(o) : o[q] = n
           /\ \A q \in 1..Len(o) : \A p \in Rebuilt[o[q]].deps : \E r \in 1..Len(o) : r < q /\ o[r] = p
  <1> DEFINE needs == NeedsOf(Rebuilt)
  <1>1. DOMAIN needs = Indices /\ \A n \in Indices : needs[n] = Rebuilt[n].deps
    BY RebuiltFacts DEF NeedsOf, Indices
  <1>2. Len(nodes) \in Nat
    BY DEF TypeOK
  <1>3. Cardinality(DOMAIN needs) \in Nat
    <2>1. IsFiniteSet(Indices)
      BY <1>2, FS_Interval DEF Indices
    <2> QED
      BY <1>1, <2>1, FS_CardinalityType
  <1>4. o \in [1..Cardinality(DOMAIN needs) -> DOMAIN needs] /\ IsOrder(o, needs)
    BY DEF Orders
  <1> HIDE DEF needs
  <1>5. o \in Seq(Indices) /\ Len(o) = Cardinality(DOMAIN needs)
    BY <1>1, <1>3, <1>4
  <1>6. \A n \in Indices : \E q \in 1..Len(o) : o[q] = n
    BY <1>1, <1>4 DEF IsOrder
  <1>7. \A q \in 1..Len(o) : o[q] \in Indices
    BY <1>5
  <1> QED
    BY <1>1, <1>4, <1>5, <1>6, <1>7 DEF IsOrder
-----------------------------------------------------------------------------
(* Steps before the instantiation *)

LEMMA AddStep == ASSUME GInv, NEW ns \in Namespaces, NEW m \in Modules, AddModule(ns, m) PROVE GInv'
  <1> DEFINE new == NewNode(ns, m)
  <1> USE DEF GInv
  <1>1. Len(nodes) \in Nat /\ nodes \in Seq(Nodes) /\ linker' = linker
    BY DEF TypeOK, AddModule
  <1>2. nodes' = Append(nodes, new) /\ Len(nodes') = Len(nodes) + 1 /\ nodes'[Len(nodes) + 1] = new
        /\ \A n \in Indices : nodes'[n] = nodes[n]
    BY <1>1 DEF AddModule, Indices
  <1>3. \A n \in Indices' : n \in Indices \/ n = Len(nodes) + 1
    BY <1>1, <1>2 DEF Indices
  <1>4. new \in Nodes'
    BY <1>1, <1>2 DEF NewNode, Nodes
  <1>5. \A n \in Indices : nodes[n] \in Nodes'
    <2>1. Indices \subseteq 1..Len(nodes')
      BY <1>1, <1>2 DEF Indices
    <2>2. \A n \in Indices : nodes[n] \in Nodes
      BY NodeFacts
    <2> QED
      BY <1>1, <2>1, <2>2 DEF Nodes, Indices
  <1>6. nodes' \in Seq(Nodes')
    <2>1. \A n \in 1..Len(nodes') : nodes'[n] \in Nodes'
      BY <1>2, <1>3, <1>4, <1>5 DEF Indices
    <2>2. nodes' \in Seq(Nodes \cup {new})
      <3> HIDE DEF new
      <3> QED
        BY <1>1, <1>2
    <2> QED
      BY <2>1, <2>2
  <1>7. \A n, p \in Indices' : nodes'[n].ns = nodes'[p].ns => n = p
    <2>1. \A n \in Indices : nodes[n].ns # new.ns
      BY DEF AddModule, NewNode, Indices
    <2> QED
      BY <1>2, <1>3, <2>1 DEF TypeOK, Indices
  <1>8. queue' = <<>> /\ lifecycle' = "Building" /\ lifecycle = "Building"
    BY DEF AddModule, LeaseInv
  <1>9. queue' \in Seq(1..Len(nodes'))
    BY <1>8
  <1>10. TypeOK'
    BY <1>1, <1>6, <1>7, <1>8, <1>9 DEF TypeOK, AddModule, Indices
  <1>11. \A n \in Indices' : nodes'[n].hasInstance = FALSE
    BY <1>2, <1>3, <1>8, NodeFacts DEF BuildingIsClean, Indices, NewNode
  <1>12. /\ activity' = activity /\ linker' = linker
    BY DEF AddModule
  <1>13. GraphEntries' = {}
    BY <1>8, <1>12 DEF BuildingIsClean, GraphEntries
  <1>14. LeaseInv' /\ SoundInv' /\ QueueInv' /\ WholeInv'
    BY <1>8, <1>12 DEF LeaseInv, SoundInv, QueueInv, WholeInv
  <1>15. PublishedInv' /\ LinkedAsValidated'
    BY <1>11 DEF PublishedInv, LinkedAsValidated, Indices
  <1>16. NamesMeanOneThing' /\ BuildingIsClean'
    BY <1>11, <1>12, <1>13 DEF NamesMeanOneThing, BuildingIsClean, Indices
  <1> QED
    BY <1>10, <1>14, <1>15, <1>16

(* What RefuseInstantiate and BeginInstantiate do to the nodes.            *)
LEMMA RebuildStep ==
    ASSUME GInv, MayInstantiate, nodes' = Rebuilt, linker' = linker
    PROVE  /\ SameModules /\ nodes' \in Seq(Nodes')
           /\ \A n \in Indices' : nodes'[n].hasInstance = FALSE
           /\ \A n, p \in Indices' : nodes'[n].ns = nodes'[p].ns => n = p
           /\ PublishedInv' /\ LinkedAsValidated' /\ NamesMeanOneThing' /\ GraphEntries' = {}
  <1> USE DEF GInv
  <1>1. SameModules
    BY RebuiltFacts DEF SameModules
  <1>2. Indices' = Indices
    BY <1>1, ShapeKept
  <1>3. Nodes' = Nodes
    BY <1>1 DEF SameModules, Nodes
  <1>4. nodes' \in Seq(Nodes')
    BY <1>3, RebuiltFacts
  <1>5. \A n \in Indices' : nodes'[n].hasInstance = FALSE
    BY <1>2, RebuiltFacts, NodeFacts DEF BuildingIsClean, MayInstantiate, Indices
  <1>6. \A n, p \in Indices' : nodes'[n].ns = nodes'[p].ns => n = p
    BY <1>1, <1>2 DEF SameModules, TypeOK, Indices
  <1>7. PublishedInv' /\ LinkedAsValidated'
    BY <1>5 DEF PublishedInv, LinkedAsValidated, Indices
  <1>8. NamesMeanOneThing' /\ GraphEntries' = {}
    BY DEF NamesMeanOneThing, BuildingIsClean, MayInstantiate, GraphEntries
  <1> QED
    BY <1>1, <1>4, <1>5, <1>6, <1>7, <1>8

LEMMA RefuseStep == ASSUME GInv, RefuseInstantiate PROVE GInv'
  <1> USE DEF GInv
  <1>1. MayInstantiate /\ nodes' = Rebuilt /\ UNCHANGED <<lifecycle, queue, linker, activity, asyncRequired>>
        /\ lifecycle = "Building"
    BY DEF RefuseInstantiate, MayInstantiate
  <1>2. /\ SameModules /\ nodes' \in Seq(Nodes')
        /\ \A n \in Indices' : nodes'[n].hasInstance = FALSE
        /\ \A n, p \in Indices' : nodes'[n].ns = nodes'[p].ns => n = p
        /\ PublishedInv' /\ LinkedAsValidated' /\ NamesMeanOneThing' /\ GraphEntries' = {}
    BY <1>1, RebuildStep
  <1>3. TypeOK'
    BY <1>1, <1>2 DEF TypeOK, Indices, SameModules
  <1>4. LeaseInv' /\ SoundInv' /\ QueueInv' /\ WholeInv' /\ BuildingIsClean'
    BY <1>1, <1>2 DEF LeaseInv, SoundInv, QueueInv, WholeInv, BuildingIsClean, Indices
  <1> QED
    BY <1>2, <1>3, <1>4

LEMMA BeginStep == ASSUME GInv, BeginInstantiate PROVE GInv'
  <1> USE DEF GInv
  <1>1. /\ MayInstantiate /\ nodes' = Rebuilt /\ UNCHANGED <<linker, asyncRequired>> /\ nodes # <<>>
        /\ lifecycle' = "Instantiating" /\ activity' = "Exclusive"
        /\ GraphSound /\ ~RequiresAsyncHost /\ queue' \in Orders(NeedsOf(Rebuilt))
    BY DEF BeginInstantiate, MayInstantiate
  <1>2. /\ SameModules /\ nodes' \in Seq(Nodes')
        /\ \A n \in Indices' : nodes'[n].hasInstance = FALSE
        /\ \A n, p \in Indices' : nodes'[n].ns = nodes'[p].ns => n = p
        /\ PublishedInv' /\ LinkedAsValidated' /\ NamesMeanOneThing' /\ GraphEntries' = {}
    BY <1>1, RebuildStep
  <1>3. Indices' = Indices /\ \A n \in Indices : ImportsOf(n)' = ImportsOf(n)
        /\ \A j : FromNode(j)' = FromNode(j) /\ Providers(j)' = Providers(j)
    BY <1>2, ShapeKept
  <1>4. /\ queue' \in Seq(Indices)
        /\ \A n \in Indices : \E q \in 1..Len(queue') : queue'[q] = n
        /\ \A q \in 1..Len(queue') : \A p \in nodes'[queue'[q]].deps : \E r \in 1..Len(queue') : r < q /\ queue'[r] = p
    BY <1>1, OrderFacts
  <1>5. TypeOK'
    BY <1>1, <1>2, <1>3, <1>4 DEF TypeOK, Indices
  <1>6. SoundInv'
    BY <1>1, <1>3, SoundGraph DEF SoundInv
  <1>7. QueueInv'
    BY <1>3, <1>4 DEF QueueInv
  <1>8. nodes' # <<>>
    BY <1>1, <1>2, EmptySeq DEF SameModules, TypeOK
  <1>9. LeaseInv' /\ WholeInv' /\ BuildingIsClean'
    BY <1>1, <1>8 DEF LeaseInv, WholeInv, BuildingIsClean
  <1> QED
    BY <1>2, <1>5, <1>6, <1>7, <1>9
-----------------------------------------------------------------------------
(* Steps of the instantiation *)

(* What AtNode says of the head of the queue.                              *)
LEMMA CurrentFacts ==
    ASSUME GInv, AtNode
    PROVE  /\ Current \in Indices /\ queue \in Seq(Indices) /\ Len(queue) \in Nat \ {0}
           /\ \A p \in nodes[Current].deps : nodes[p].hasInstance
           /\ \A k \in 1..Len(ImportsOf(Current)) :
                 FromNode(ImportsOf(Current)[k]) /\ Providers(ImportsOf(Current)[k]) \subseteq nodes[Current].deps
  <1> USE DEF GInv
  <1>1. queue \in Seq(Indices) /\ queue # <<>> /\ lifecycle = "Instantiating"
    BY DEF TypeOK, Indices, AtNode, Running
  <1>2. Len(queue) \in Nat \ {0}
    BY <1>1, EmptySeq
  <1>3. Current \in Indices /\ 1 \in 1..Len(queue)
    BY <1>1, <1>2 DEF Current
  <1>4. \A p \in nodes[Current].deps : nodes[p].hasInstance
    BY <1>1, <1>2, <1>3 DEF QueueInv, Current
  <1> QED
    BY <1>1, <1>2, <1>3, <1>4 DEF SoundInv

(* A definition that carries the name of a published export is that export. *)
LEMMA LinkedWithExport ==
    ASSUME GInv, NEW p \in Indices, nodes[p].hasInstance, NEW e \in linker, NEW name,
           FindExport(nodes[p].mod, name) # {}, e.key = Key(nodes[p].ns, name)
    PROVE  e.owner = nodes[p].ns
  <1>1. PICK k \in 1..Len(Exports[nodes[p].mod]) : Exports[nodes[p].mod][k].name = name
    BY DEF FindExport
  <1>2. Entry(p, Exports[nodes[p].mod][k]) \in linker
    BY DEF GInv, PublishedInv
  <1>3. e = Entry(p, Exports[nodes[p].mod][k])
    BY <1>1, <1>2 DEF GInv, NamesMeanOneThing, Entry
  <1> QED
    BY <1>3 DEF Entry

(* Publication adds definitions under new names.                           *)
LEMMA PublishedFacts ==
    ASSUME GInv, NEW n \in Indices
    PROVE  /\ linker \subseteq Published(n)
           /\ \A e \in Published(n) \ linker : e.owner = nodes[n].ns /\ e.key[1] = e.owner
           /\ \A e, f \in Published(n) : e.key = f.key => e = f
           /\ Publishes(n) => \A k \in 1..Len(Exports[nodes[n].mod]) : Entry(n, Exports[nodes[n].mod][k]) \in Published(n)
  <1> DEFINE X == Exports[nodes[n].mod]
             new == {Entry(n, X[k]) : k \in Publishable(n)}
  <1>1. Published(n) = linker \cup new
    BY DEF Published
  <1>2. \A k \in Publishable(n) : k \in 1..Len(X) /\ ~Defined(Key(nodes[n].ns, X[k].name))
    <2>1. \A k \in 1..Len(X) : k \in 1..k
      OBVIOUS
    <2> QED
      BY <2>1 DEF Publishable
  <1>3. \A j, k \in 1..Len(X) : X[j].name = X[k].name => j = k
    BY NodeFacts, ModulesAssumption DEF GInv
  <1>4. \A e \in new, f \in linker : e.key # f.key
    BY <1>2 DEF Entry, Defined
  <1>5. ASSUME NEW e \in new, NEW f \in new, e.key = f.key PROVE e = f
    <2>1. PICK j \in Publishable(n), k \in Publishable(n) : e = Entry(n, X[j]) /\ f = Entry(n, X[k])
      OBVIOUS
    <2>2. X[j].name = X[k].name
      BY <1>5, <2>1 DEF Entry, Key
    <2>3. j = k
      BY <1>2, <1>3, <2>2
    <2> QED
      BY <2>1, <2>3
  <1>6. \A e \in new : e.owner = nodes[n].ns /\ e.key[1] = e.owner
    BY DEF Entry, Key
  <1>7. \A e, f \in Published(n) : e.key = f.key => e = f
    BY <1>1, <1>4, <1>5 DEF GInv, NamesMeanOneThing
  <1>8. Publishes(n) => \A k \in 1..Len(X) : Entry(n, X[k]) \in Published(n)
    BY <1>1 DEF Publishes
  <1> QED
    BY <1>1, <1>6, <1>7, <1>8

(* A step of the instantiation that fails leaves the nodes alone, and only *)
(* adds definitions.                                                       *)
LEMMA FailStep ==
    ASSUME GInv, NEW n \in Indices, lifecycle = "Instantiating", Fail, linker' = linker \/ linker' = Published(n)
    PROVE  GInv'
  <1> USE DEF GInv
  <1>1. /\ lifecycle' = "Failed" /\ queue' = <<>> /\ activity' = "Idle" /\ nodes' = nodes
        /\ asyncRequired' = asyncRequired /\ linker \subseteq linker'
        /\ \A e \in linker' \ linker : e.owner = nodes[n].ns /\ e.key[1] = e.owner
        /\ NamesMeanOneThing'
    BY PublishedFacts DEF Fail, NamesMeanOneThing
  <1>2. SameModules
    BY <1>1 DEF SameModules, Indices
  <1>3. nodes' \in Seq(Nodes')
    <2>1. \A x \in Nodes : x \in Nodes'
      BY <1>1 DEF Nodes
    <2> QED
      BY <1>1, <2>1 DEF TypeOK
  <1>4. nodes[n].ns \in Namespaces /\ queue' \in Seq(1..Len(nodes'))
    BY <1>1, NodeFacts
  <1>5. TypeOK'
    BY <1>1, <1>3, <1>4 DEF TypeOK
  <1>6. Indices' = Indices /\ (\A x \in Indices : ImportsOf(x)' = ImportsOf(x))
        /\ (\A j : FromNode(j)' = FromNode(j) /\ Providers(j)' = Providers(j))
        /\ (\A x \in Indices : \A y : Entry(x, y)' = Entry(x, y))
    BY <1>2, ShapeKept
  <1>7. SoundInv' /\ PublishedInv'
    BY <1>1, <1>6 DEF SoundInv, PublishedInv
  <1>8. LinkedAsValidated'
    BY <1>1, <1>6 DEF LinkedAsValidated, Indices
  <1>9. LeaseInv' /\ QueueInv' /\ WholeInv' /\ BuildingIsClean'
    BY <1>1 DEF LeaseInv, QueueInv, WholeInv, BuildingIsClean
  <1> QED
    BY <1>1, <1>5, <1>7, <1>8, <1>9
(* The links of a node come from where its imports were validated.         *)
LEMMA LinksFromDependencies ==
    ASSUME GInv, AtNode, NEW l \in Links(Current), NEW k \in 1..Len(ImportsOf(Current))
    PROVE  \E p \in nodes[Current].deps :
              /\ nodes[p].ns = l[k].owner
              /\ nodes[p].ns = ImportsOf(Current)[k].ns
              /\ nodes[p].hasInstance
  <1> DEFINE i == ImportsOf(Current)[k]
  <1>1. l[k] \in linker /\ l[k].key = Key(i.ns, i.name)
    BY DEF Links, Matches
  <1>2. FromNode(i) /\ Providers(i) \subseteq nodes[Current].deps
    BY CurrentFacts
  <1>3. PICK p \in Providers(i) : FindExport(nodes[p].mod, i.name) # {}
    BY <1>2 DEF FromNode
  <1>4. p \in Indices /\ nodes[p].ns = i.ns /\ p \in nodes[Current].deps /\ nodes[p].hasInstance
    BY <1>2, <1>3, CurrentFacts DEF Providers, Indices
  <1>5. l[k].owner = nodes[p].ns
    BY <1>1, <1>3, <1>4, LinkedWithExport
  <1> QED
    BY <1>4, <1>5

LEMMA NodeStep == ASSUME GInv, InstantiateNode PROVE GInv'
  <1> DEFINE c == Current
  <1> USE DEF GInv
  <1>1. /\ AtNode /\ lifecycle = "Instantiating" /\ Publishes(c) /\ linker' = Published(c) /\ queue' = Tail(queue)
        /\ UNCHANGED <<lifecycle, activity, asyncRequired>>
    BY DEF InstantiateNode, AtNode, Running
  <1>2. PICK l \in Links(c) : nodes' = [nodes EXCEPT ![c].hasInstance = TRUE, ![c].links = l]
    BY DEF InstantiateNode
  <1>3. /\ c \in Indices /\ queue \in Seq(Indices) /\ Len(queue) \in Nat \ {0} /\ c = queue[1]
        /\ Len(nodes) \in Nat /\ nodes \in Seq(Nodes) /\ nodes[c] \in Nodes
    BY <1>1, CurrentFacts, NodeFacts DEF Current, TypeOK
  <1> HIDE DEF c
  <1>4. /\ Len(nodes') = Len(nodes) /\ nodes'[c] = [nodes[c] EXCEPT !.hasInstance = TRUE, !.links = l]
        /\ \A n \in Indices : n # c => nodes'[n] = nodes[n]
        /\ DOMAIN nodes' = Indices
    <2> DEFINE v == [nodes[c] EXCEPT !.hasInstance = TRUE, !.links = l]
    <2>1. nodes' = [nodes EXCEPT ![c] = v]
      BY <1>2, <1>3 DEF Indices
    <2> HIDE DEF v
    <2>2. /\ Len(nodes') = Len(nodes) /\ nodes'[c] = v
          /\ \A n \in Indices : n # c => nodes'[n] = nodes[n]
          /\ DOMAIN nodes' = Indices
      BY <1>3, <2>1 DEF Indices
    <2> QED
      BY <2>2 DEF v
  <1>5. /\ nodes'[c].hasInstance = TRUE /\ nodes'[c].links = l /\ nodes'[c].ns = nodes[c].ns
        /\ nodes'[c].mod = nodes[c].mod /\ nodes'[c].deps = nodes[c].deps
    BY <1>3, <1>4 DEF Nodes
  <1>6. SameModules /\ \A n \in Indices : nodes'[n].deps = nodes[n].deps
    BY <1>4, <1>5 DEF SameModules
  <1>7. Indices' = Indices /\ (\A x \in Indices : ImportsOf(x)' = ImportsOf(x))
        /\ (\A j : FromNode(j)' = FromNode(j) /\ Providers(j)' = Providers(j))
        /\ (\A x \in Indices : \A y : Entry(x, y)' = Entry(x, y))
    BY <1>6, ShapeKept
  <1>8. /\ linker \subseteq linker' /\ NamesMeanOneThing'
        /\ \A e \in linker' \ linker : e.owner = nodes[c].ns /\ e.key[1] = e.owner
        /\ \A k \in 1..Len(Exports[nodes[c].mod]) : Entry(c, Exports[nodes[c].mod][k]) \in linker'
    BY <1>1, <1>3, PublishedFacts DEF NamesMeanOneThing
  <1>9. nodes' \in Seq(Nodes')
    <2>1. l \in Seq(linker)
      <3>1. Len(ImportsOf(c)) \in Nat
        BY <1>3, NodeFacts
      <3> QED
        BY <1>2, <3>1 DEF Links
    <2>2. \A x \in Nodes : x \in Nodes'
      BY <1>4, <1>8 DEF Nodes
    <2>3. nodes'[c] \in Nodes'
      <3>1. nodes[c] \in Nodes' /\ l \in Seq(linker')
        BY <1>3, <1>8, <2>1, <2>2
      <3> QED
        BY <1>4, <3>1 DEF Nodes
    <2>4. \A n \in Indices : nodes'[n] \in Nodes'
      BY <1>4, <2>2, <2>3, NodeFacts
    <2>5. nodes' = [n \in 1..Len(nodes) |-> nodes'[n]]
      BY <1>2, <1>3, <1>4 DEF Indices
    <2> QED
      BY <1>3, <2>4, <2>5 DEF Indices
  <1>10. /\ queue' \in Seq(Indices) /\ Len(queue') = Len(queue) - 1
         /\ \A q \in 1..Len(queue') : queue'[q] = queue[q + 1]
    BY <1>1, <1>3
  <1>11. TypeOK'
    <2>1. nodes[c].ns \in Namespaces
      BY <1>3, NodeFacts
    <2>2. \A e \in linker' : \/ e.owner = Host /\ e.key \in HostKeys /\ e.type \in HostTypes
                             \/ e.owner \in Namespaces /\ e.key[1] = e.owner
      <3>1. \A e \in linker : \/ e.owner = Host /\ e.key \in HostKeys /\ e.type \in HostTypes
                              \/ e.owner \in Namespaces /\ e.key[1] = e.owner
        BY DEF TypeOK
      <3>2. \A e \in linker' \ linker : e.owner \in Namespaces /\ e.key[1] = e.owner
        BY <1>8, <2>1, Zenon
      <3>3. \A e \in linker' : e \in linker \/ e \in linker' \ linker
        OBVIOUS
      <3> QED
        BY <3>1, <3>2, <3>3, Zenon
    <2>3. \A n, p \in Indices : nodes'[n].ns = nodes'[p].ns => n = p
      BY <1>6 DEF SameModules, TypeOK, Indices
    <2> QED
      BY <1>1, <1>4, <1>7, <1>9, <1>10, <2>2, <2>3 DEF TypeOK, Indices
  <1>12. SoundInv'
    BY <1>1, <1>6, <1>7 DEF SoundInv
  <1>13. \A n \in Indices : nodes[n].hasInstance => nodes'[n].hasInstance
    BY <1>4, <1>5
  <1>14. QueueInv'
    <2>1. ASSUME NEW n \in Indices PROVE nodes'[n].hasInstance \/ \E q \in 1..Len(queue') : queue'[q] = n
      <3>1. CASE nodes[n].hasInstance \/ n = c
        BY <3>1, <1>13, <1>5
      <3>2. CASE ~nodes[n].hasInstance /\ n # c
        <4>1. PICK q \in 1..Len(queue) : queue[q] = n
          BY <3>2, <1>1 DEF QueueInv
        <4>2. q - 1 \in 1..Len(queue') /\ queue'[q - 1] = n
          BY <1>3, <1>10, <3>2, <4>1
        <4> QED
          BY <4>2
      <3> QED
        BY <3>1, <3>2
    <2>2. ASSUME NEW q \in 1..Len(queue'), NEW p \in nodes'[queue'[q]].deps
          PROVE nodes'[p].hasInstance \/ \E r \in 1..Len(queue') : r < q /\ queue'[r] = p
      <3>1. q + 1 \in 1..Len(queue) /\ queue'[q] = queue[q + 1] /\ queue[q + 1] \in Indices
        BY <1>3, <1>10
      <3>2. p \in nodes[queue[q + 1]].deps /\ p \in Indices
        BY <1>6, <3>1, NodeFacts
      <3>3. CASE nodes[p].hasInstance \/ p = c
        BY <3>2, <3>3, <1>13, <1>5
      <3>4. CASE ~nodes[p].hasInstance /\ p # c
        <4>1. PICK r \in 1..Len(queue) : r < q + 1 /\ queue[r] = p
          BY <3>1, <3>2, <3>4, <1>1 DEF QueueInv
        <4>2. r - 1 \in 1..Len(queue') /\ r - 1 < q /\ queue'[r - 1] = p
          BY <1>3, <1>10, <3>4, <4>1
        <4> QED
          BY <4>2
      <3> QED
        BY <3>3, <3>4
    <2> QED
      BY <1>7, <2>1, <2>2 DEF QueueInv
  <1>15. PublishedInv'
    BY <1>4, <1>5, <1>6, <1>7, <1>8 DEF PublishedInv, SameModules
  <1>16. LinkedAsValidated'
    <2>1. ASSUME NEW n \in Indices, nodes'[n].hasInstance, NEW k \in 1..Len(ImportsOf(n))
          PROVE  \E p \in nodes[n].deps : /\ nodes[p].ns = nodes'[n].links[k].owner
                                          /\ nodes[p].ns = ImportsOf(n)[k].ns
                                          /\ nodes[p].hasInstance
      <3>1. CASE n = c
        BY <3>1, <2>1, <1>1, <1>2, <1>5, LinksFromDependencies DEF c
      <3>2. CASE n # c
        <4>1. nodes'[n] = nodes[n]
          BY <3>2, <1>4
        <4> QED
          BY <2>1, <4>1 DEF LinkedAsValidated, Indices
      <3> QED
        BY <3>1, <3>2
    <2>2. ASSUME NEW n \in Indices, nodes'[n].hasInstance, NEW k \in 1..Len(ImportsOf(n)')
          PROVE  \E p \in nodes'[n].deps : /\ nodes'[p].ns = nodes'[n].links[k].owner
                                           /\ nodes'[p].ns = ImportsOf(n)'[k].ns
                                           /\ nodes'[p].hasInstance
      <3>1. PICK p \in nodes[n].deps : /\ nodes[p].ns = nodes'[n].links[k].owner
                                      /\ nodes[p].ns = ImportsOf(n)[k].ns
                                      /\ nodes[p].hasInstance
        BY <1>7, <2>1, <2>2
      <3>2. p \in Indices
        BY NodeFacts
      <3> QED
        BY <1>6, <1>7, <1>13, <3>1, <3>2 DEF SameModules
    <2> QED
      BY <1>7, <2>2 DEF LinkedAsValidated, Indices
  <1>17. LeaseInv' /\ WholeInv' /\ BuildingIsClean'
    <2>1. nodes' # <<>>
      BY <1>3, <1>4, EmptySeq DEF Indices
    <2> QED
      BY <1>1, <2>1 DEF LeaseInv, WholeInv, BuildingIsClean
  <1> QED
    BY <1>8, <1>11, <1>12, <1>14, <1>15, <1>16, <1>17
LEMMA FinishStep == ASSUME GInv, FinishInstantiate PROVE GInv'
  <1> USE DEF GInv
  <1>1. /\ lifecycle = "Instantiating" /\ queue = <<>> /\ lifecycle' = "Instantiated" /\ activity' = "Idle"
        /\ UNCHANGED <<nodes, queue, linker, asyncRequired>>
    BY DEF FinishInstantiate, Running
  <1>2. \A n \in Indices : nodes[n].hasInstance
    <2>1. 1..Len(queue) = {}
      BY <1>1
    <2> QED
      BY <1>1, <2>1 DEF QueueInv
  <1>3. SameModules
    BY <1>1 DEF SameModules
  <1>4. Indices' = Indices /\ (\A x \in Indices : ImportsOf(x)' = ImportsOf(x))
        /\ (\A j : FromNode(j)' = FromNode(j) /\ Providers(j)' = Providers(j))
        /\ (\A x \in Indices : \A y : Entry(x, y)' = Entry(x, y))
    BY <1>3, ShapeKept
  <1>5. TypeOK'
    BY <1>1 DEF TypeOK, Nodes
  <1>6. SoundInv' /\ PublishedInv' /\ WholeInv'
    BY <1>1, <1>2, <1>4 DEF SoundInv, PublishedInv, WholeInv
  <1>7. LinkedAsValidated' /\ NamesMeanOneThing'
    BY <1>1, <1>4 DEF LinkedAsValidated, NamesMeanOneThing, Indices
  <1>8. LeaseInv' /\ QueueInv' /\ BuildingIsClean'
    BY <1>1 DEF LeaseInv, QueueInv, BuildingIsClean
  <1> QED
    BY <1>5, <1>6, <1>7, <1>8

-----------------------------------------------------------------------------
(* The host, and the whole *)

LEMMA DefineStep ==
    ASSUME GInv, NEW k \in HostKeys, NEW t \in HostTypes, DefineAsyncFunction(k, t)
    PROVE  GInv'
  <1> DEFINE new == [key |-> k, type |-> t, owner |-> Host]
  <1> USE DEF GInv
  <1>1. /\ activity = "Idle" /\ ~Defined(k) /\ linker' = linker \cup {new}
        /\ UNCHANGED <<lifecycle, nodes, queue, activity, asyncRequired>> /\ lifecycle # "Instantiating"
    BY DEF DefineAsyncFunction, LeaseInv
  <1>2. NamesMeanOneThing'
    BY <1>1 DEF NamesMeanOneThing, Defined
  <1>3. GraphEntries' = GraphEntries
    BY <1>1 DEF GraphEntries
  <1>4. SameModules
    BY <1>1 DEF SameModules
  <1>5. Indices' = Indices /\ (\A x \in Indices : ImportsOf(x)' = ImportsOf(x))
        /\ (\A j : FromNode(j)' = FromNode(j) /\ Providers(j)' = Providers(j))
        /\ (\A x \in Indices : \A y : Entry(x, y)' = Entry(x, y))
    BY <1>4, ShapeKept
  <1>6. TypeOK'
    <2>1. \A x \in Nodes : x \in Nodes'
      BY <1>1 DEF Nodes
    <2>2. nodes' \in Seq(Nodes')
      BY <1>1, <2>1 DEF TypeOK
    <2>3. new.owner = Host /\ new.key \in HostKeys /\ new.type \in HostTypes
      OBVIOUS
    <2> HIDE DEF new
    <2> QED
      BY <1>1, <2>2, <2>3 DEF TypeOK
  <1>7. SoundInv' /\ PublishedInv' /\ WholeInv'
    BY <1>1, <1>5 DEF SoundInv, PublishedInv, WholeInv
  <1>8. LinkedAsValidated'
    BY <1>1, <1>5 DEF LinkedAsValidated, Indices
  <1>9. LeaseInv' /\ QueueInv' /\ BuildingIsClean'
    BY <1>1, <1>3 DEF LeaseInv, QueueInv, BuildingIsClean
  <1> QED
    BY <1>2, <1>6, <1>7, <1>8, <1>9

(* Steps that touch neither graph nor linker.                              *)
LEMMA AsyncStep ==
    ASSUME GInv, UNCHANGED <<lifecycle, nodes, queue, linker>>, asyncRequired' \in BOOLEAN,
           activity' = activity \/ (activity \in {"Idle", "Async"} /\ activity' \in {"Idle", "Async"})
    PROVE  GInv'
  <1> USE DEF GInv
  <1>1. TypeOK' /\ LeaseInv'
    BY DEF TypeOK, LeaseInv, Nodes
  <1>2. SameModules
    BY DEF SameModules
  <1>3. Indices' = Indices /\ (\A x \in Indices : ImportsOf(x)' = ImportsOf(x))
        /\ (\A j : FromNode(j)' = FromNode(j) /\ Providers(j)' = Providers(j))
        /\ (\A x \in Indices : \A y : Entry(x, y)' = Entry(x, y))
    BY <1>2, ShapeKept
  <1>4. SoundInv' /\ PublishedInv' /\ WholeInv' /\ QueueInv'
    BY <1>3 DEF SoundInv, PublishedInv, WholeInv, QueueInv
  <1>5. LinkedAsValidated' /\ NamesMeanOneThing' /\ BuildingIsClean'
    BY <1>3 DEF LinkedAsValidated, NamesMeanOneThing, BuildingIsClean, GraphEntries, Indices
  <1> QED
    BY <1>1, <1>4, <1>5

LEMMA GraphStepKeeps == GInv /\ [Next]_vars => GInv'
  <1> SUFFICES ASSUME GInv, [Next]_vars PROVE GInv'
    OBVIOUS
  <1>1. CASE NodeDoesNotLink \/ NodeTraps \/ NodeIsNotPublished
    <2>1. /\ AtNode /\ Fail /\ lifecycle = "Instantiating"
          /\ linker' = linker \/ linker' = Published(Current)
      BY <1>1 DEF NodeDoesNotLink, NodeTraps, NodeIsNotPublished, AtNode, Running
    <2>2. Current \in Indices
      BY <2>1, CurrentFacts
    <2> QED
      BY <2>1, <2>2, FailStep
  <1>2. ASSUME NEW m \in Modules, InstantiateAsync(m) PROVE GInv'
    <2>1. asyncRequired' \in BOOLEAN
      BY <1>2 DEF InstantiateAsync, GInv, TypeOK, UsesAsyncHostFunction
    <2> QED
      BY <1>2, <2>1, AsyncStep DEF InstantiateAsync
  <1>3. CASE AsyncOperationEnds \/ UNCHANGED vars
    BY <1>3, AsyncStep DEF AsyncOperationEnds, vars, GInv, TypeOK
  <1> QED
    BY <1>1, <1>2, <1>3, AddStep, RefuseStep, BeginStep, NodeStep, FinishStep, DefineStep DEF Next, GraphStep

LEMMA Inductive == Spec => []GInv
  BY GraphInit, GraphStepKeeps, PTL DEF Spec
LEMMA GImpliesWhole == GInv => WholeGraphPublished
  <1> SUFFICES ASSUME GInv PROVE WholeGraphPublished
    OBVIOUS
  <1>1. ASSUME NEW ns \in Namespaces PROVE GetInstance(ns) # "InvalidState"
    BY DEF GetInstance, GInv, WholeInv, Indices
  <1>2. ASSUME lifecycle = "Instantiated", NEW n \in Indices, NEW k \in 1..Len(Exports[nodes[n].mod])
        PROVE  Entry(n, Exports[nodes[n].mod][k]) \in linker
    BY <1>2 DEF GInv, WholeInv, PublishedInv
  <1> QED
    BY <1>1, <1>2 DEF WholeGraphPublished, Indices

LEMMA SameType ==
    ASSUME NEW a \in Types, NEW b \in Types, a.kind = b.kind, a.params = b.params, a.results = b.results
    PROVE  a = b
  BY DEF Types

(* An import whose provider offers the same signature finds, in the        *)
(* linker, the definition of the export it was compared with.              *)
LEMMA GImpliesLink == GInv => ValidatedImportsLink
  <1> SUFFICES ASSUME GInv, AtNode,
                      \A k \in 1..Len(ImportsOf(Current)) : LET i == ImportsOf(Current)[k] IN
                          /\ ~Opaque(i)
                          /\ \A n \in Providers(i) : \A x \in FindExport(nodes[n].mod, i.name) : ~Opaque(x)
               PROVE  Links(Current) # {}
    BY DEF ValidatedImportsLink
  <1> DEFINE N == Len(ImportsOf(Current))
  <1>1. ASSUME NEW k \in 1..N PROVE \E e \in linker : Matches(e, ImportsOf(Current)[k])
    <2> DEFINE i == ImportsOf(Current)[k]
    <2>1. i \in [ns : STRING, name : STRING, type : Types]
      <3>1. ImportsOf(Current) \in Seq([ns : STRING, name : STRING, type : Types])
        BY CurrentFacts, NodeFacts DEF GInv
      <3> QED
        BY <1>1, <3>1, ElementOfSeq
    <2>2. FromNode(i) /\ Providers(i) \subseteq nodes[Current].deps
      BY CurrentFacts
    <2>3. PICK p \in Providers(i) : \E x \in FindExport(nodes[p].mod, i.name) :
                     Kind(x) = "func" /\ Compatible(Signature(i), Signature(x))
      BY <2>2 DEF FromNode
    <2>4. p \in Indices /\ nodes[p].ns = i.ns /\ nodes[p].hasInstance
      BY <2>2, <2>3, CurrentFacts DEF Providers, Indices
    <2>5. PICK j \in 1..Len(Exports[nodes[p].mod]) :
             LET x == Exports[nodes[p].mod][j] IN
                /\ x.name = i.name /\ Kind(x) = "func" /\ Compatible(Signature(i), Signature(x))
                /\ x \in FindExport(nodes[p].mod, i.name)
      BY <2>3 DEF FindExport
    <2> DEFINE x == Exports[nodes[p].mod][j]
    <2>6. x \in [name : STRING, type : Types]
      <3>1. Exports[nodes[p].mod] \in Seq([name : STRING, type : Types])
        BY <2>4, NodeFacts DEF GInv
      <3> QED
        BY <2>5, <3>1, ElementOfSeq
    <2>7. Kind(i) = "func"
      BY <2>2 DEF FromNode
    <2>8. FunctionSignatureEqual(Signature(i), Signature(x))
      BY <2>3, <2>5 DEF Compatible, Opaque
    <2>9. i.type = x.type
      <3>1. i.type \in Types /\ x.type \in Types /\ i.type.kind = "func" /\ x.type.kind = "func"
        BY <2>1, <2>5, <2>6, <2>7 DEF Kind
      <3>2. i.type.params = x.type.params /\ i.type.results = x.type.results
        BY <2>5, <2>7, <2>8 DEF FunctionSignatureEqual, Signature, ReadFunctionSignature, Kind
      <3> HIDE DEF i, x
      <3> QED
        BY <3>1, <3>2, SameType
    <2>10. Entry(p, x) \in linker
      BY <2>4 DEF GInv, PublishedInv
    <2>11. Matches(Entry(p, x), i)
      BY <2>4, <2>5, <2>9 DEF Matches, Entry
    <2> QED
      BY <2>10, <2>11
  <1>2. [k \in 1..N |-> CHOOSE e \in linker : Matches(e, ImportsOf(Current)[k])] \in Links(Current)
    BY <1>1 DEF Links
  <1> QED
    BY <1>2

LEMMA FinalStep ==
    ASSUME GInv, [Next]_vars, lifecycle \in {"Instantiated", "Failed"}
    PROVE  UNCHANGED <<lifecycle, nodes, GraphEntries>>
  <1> USE DEF GraphEntries
  <1>1. ~Running /\ lifecycle # "Building"
    BY DEF Running
  <1>2. ASSUME NEW k \in HostKeys, NEW t \in HostTypes, DefineAsyncFunction(k, t)
        PROVE  UNCHANGED <<lifecycle, nodes, GraphEntries>>
    BY <1>2 DEF DefineAsyncFunction
  <1> QED
    BY <1>1, <1>2 DEF Next, GraphStep, vars, AddModule, RefuseInstantiate, BeginInstantiate, MayInstantiate, NodeDoesNotLink, NodeTraps,
       NodeIsNotPublished, InstantiateNode, FinishInstantiate, AtNode, InstantiateAsync, AsyncOperationEnds

-----------------------------------------------------------------------------
(* The theorems *)

(* Type correctness of graph, queue and linker.                            *)
THEOREM GraphTypes == Spec => []TypeOK
  BY Inductive, PTL DEF GInv

(* Whatever modules there are, an instantiated one is linked with the      *)
(* exports it was validated against, of modules instantiated before it.    *)
THEOREM LinksAreValidated == Spec => []LinkedAsValidated
  BY Inductive, PTL DEF GInv

(* Wasmtime refuses no module of a validated graph but for a signature     *)
(* that validation leaves to it.                                           *)
THEOREM ValidationAgrees == Spec => []ValidatedImportsLink
  BY Inductive, GImpliesLink, PTL

(* No name of the linker ever has two definitions.                         *)
THEOREM OneDefinition == Spec => []NamesMeanOneThing
  BY Inductive, PTL DEF GInv

(* An instantiated Program has every instance and every export.            *)
THEOREM GraphsAreWhole == Spec => []WholeGraphPublished
  BY Inductive, GImpliesWhole, PTL

(* A refused instantiation has left nothing in the Store.                  *)
THEOREM RefusalLeavesNothing == Spec => []BuildingIsClean
  BY Inductive, PTL DEF GInv

(* The outcome of an instantiation, and what it published, stay.           *)
THEOREM OutcomeStays == Spec => OutcomeIsFinal
  BY Inductive, FinalStep, PTL DEF Spec, OutcomeIsFinal
-----------------------------------------------------------------------------
(* No module is instantiated twice *)

(* A module waits for its instance once, and only while it has none.       *)
OnceInv ==
    lifecycle = "Instantiating" =>
        /\ \A q \in 1..Len(queue) : ~nodes[queue[q]].hasInstance
        /\ \A q, r \in 1..Len(queue) : queue[q] = queue[r] => q = r

(* What the instantiation of one module changes of the modules.            *)
LEMMA NodeGetsInstance ==
    ASSUME GInv, InstantiateNode
    PROVE  /\ AtNode /\ Current \in Indices /\ Current = queue[1]
           /\ queue \in Seq(Indices) /\ Len(queue) \in Nat \ {0} /\ queue' = Tail(queue)
           /\ lifecycle' = lifecycle
           /\ nodes'[Current].hasInstance
           /\ \A n \in Indices : n # Current => nodes'[n] = nodes[n]
  <1> DEFINE c == Current
  <1>1. AtNode /\ queue' = Tail(queue) /\ lifecycle' = lifecycle
    BY DEF InstantiateNode
  <1>2. PICK l \in Links(c) : nodes' = [nodes EXCEPT ![c].hasInstance = TRUE, ![c].links = l]
    BY DEF InstantiateNode
  <1>3. /\ c \in Indices /\ c = queue[1] /\ queue \in Seq(Indices) /\ Len(queue) \in Nat \ {0}
        /\ nodes \in Seq(Nodes) /\ nodes[c] \in Nodes
    BY <1>1, CurrentFacts, NodeFacts DEF Current, GInv, TypeOK
  <1> HIDE DEF c
  <1> DEFINE v == [nodes[c] EXCEPT !.hasInstance = TRUE, !.links = l]
  <1>4. nodes' = [nodes EXCEPT ![c] = v]
    BY <1>2, <1>3 DEF Indices
  <1>5. v.hasInstance
    BY <1>3 DEF Nodes
  <1> HIDE DEF v
  <1>6. nodes'[c] = v /\ \A n \in Indices : n # c => nodes'[n] = nodes[n]
    BY <1>3, <1>4 DEF Indices
  <1> QED
    BY <1>1, <1>3, <1>5, <1>6 DEF c

LEMMA OnceStep == GInv /\ OnceInv /\ [Next]_vars => OnceInv'
  <1> SUFFICES ASSUME GInv, OnceInv, [Next]_vars, lifecycle' = "Instantiating"
               PROVE  /\ \A q \in 1..Len(queue') : ~nodes'[queue'[q]].hasInstance
                      /\ \A q, r \in 1..Len(queue') : queue'[q] = queue'[r] => q = r
    BY DEF OnceInv
  <1>1. CASE BeginInstantiate
    <2>1. /\ MayInstantiate /\ nodes' = Rebuilt /\ linker' = linker
          /\ queue' \in Orders(NeedsOf(Rebuilt))
      BY <1>1 DEF BeginInstantiate
    <2>2. /\ Indices' = Indices /\ \A n \in Indices : ~nodes'[n].hasInstance
      BY <2>1, RebuildStep, ShapeKept
    <2>3. queue' \in Seq(Indices)
      BY <2>1, OrderFacts DEF GInv
    <2>4. \A q, r \in 1..Len(queue') : queue'[q] = queue'[r] => q = r
      BY <2>1 DEF Orders, IsOrder
    <2> QED
      BY <2>2, <2>3, <2>4
  <1>2. CASE InstantiateNode
    <2>1. /\ lifecycle = "Instantiating" /\ Current = queue[1]
          /\ queue \in Seq(Indices) /\ Len(queue) \in Nat \ {0} /\ queue' = Tail(queue)
          /\ \A n \in Indices : n # Current => nodes'[n] = nodes[n]
      BY <1>2, NodeGetsInstance DEF AtNode, Running
    <2>2. /\ Len(queue') = Len(queue) - 1 /\ Len(queue') \in Nat
          /\ \A q \in 1..Len(queue') : /\ queue'[q] = queue[q + 1] /\ queue[q + 1] \in Indices
                                       /\ q + 1 \in 1..Len(queue) /\ q + 1 # 1
      BY <2>1
    <2>3. 1 \in 1..Len(queue)
      BY <2>1
    <2>4. \A q, r \in 1..Len(queue) : queue[q] = queue[r] => q = r
      BY <2>1 DEF OnceInv
    <2>5. ASSUME NEW q \in 1..Len(queue') PROVE ~nodes'[queue'[q]].hasInstance
      <3>1. queue[q + 1] # Current
        BY <2>1, <2>2, <2>3, <2>4
      <3>2. nodes'[queue'[q]] = nodes[queue[q + 1]]
        BY <2>1, <2>2, <3>1
      <3> QED
        BY <2>1, <2>2, <3>2 DEF OnceInv
    <2>6. ASSUME NEW q \in 1..Len(queue'), NEW r \in 1..Len(queue'), queue'[q] = queue'[r] PROVE q = r
      <3>1. queue[q + 1] = queue[r + 1] /\ q + 1 \in 1..Len(queue) /\ r + 1 \in 1..Len(queue)
        BY <2>2, <2>6
      <3>2. q + 1 = r + 1
        BY <2>4, <3>1
      <3> QED
        BY <3>2
    <2> QED
      BY <2>5, <2>6
  <1>3. CASE NodeDoesNotLink \/ NodeTraps \/ NodeIsNotPublished \/ FinishInstantiate
    BY <1>3 DEF NodeDoesNotLink, NodeTraps, NodeIsNotPublished, FinishInstantiate, Fail
  <1>4. ASSUME NEW ns \in Namespaces, NEW m \in Modules, AddModule(ns, m) PROVE FALSE
    BY <1>4 DEF AddModule
  <1>5. CASE RefuseInstantiate
    BY <1>5 DEF RefuseInstantiate, MayInstantiate
  <1>6. ASSUME UNCHANGED <<lifecycle, nodes, queue>>
        PROVE  /\ \A q \in 1..Len(queue') : ~nodes'[queue'[q]].hasInstance
               /\ \A q, r \in 1..Len(queue') : queue'[q] = queue'[r] => q = r
    BY <1>6 DEF OnceInv
  <1>7. ASSUME NEW k \in HostKeys, NEW t \in HostTypes, DefineAsyncFunction(k, t)
        PROVE  UNCHANGED <<lifecycle, nodes, queue>>
    BY <1>7 DEF DefineAsyncFunction
  <1>8. ASSUME NEW m \in Modules, InstantiateAsync(m)
        PROVE  UNCHANGED <<lifecycle, nodes, queue>>
    BY <1>8 DEF InstantiateAsync
  <1>9. CASE AsyncOperationEnds \/ UNCHANGED vars
    BY <1>6, <1>9 DEF AsyncOperationEnds, vars
  <1> QED
    BY <1>1, <1>2, <1>3, <1>4, <1>5, <1>6, <1>7, <1>8, <1>9 DEF Next, GraphStep

LEMMA AttemptStep ==
    ASSUME GInv, OnceInv, Next, lifecycle = "Instantiating"
    PROVE  /\ \A n \in 1..Len(nodes) : nodes[n].hasInstance => nodes'[n] = nodes[n]
           /\ \/ lifecycle' \in {"Instantiated", "Failed"} /\ activity' = "Idle"
              \/ /\ lifecycle' = "Instantiating" /\ queue # <<>> /\ queue' = Tail(queue)
                 /\ ~nodes[Current].hasInstance /\ nodes'[Current].hasInstance
  <1>1. activity = "Exclusive"
    BY DEF GInv, LeaseInv
  <1>2. GraphStep
    BY <1>1 DEF Next, AddModule, RefuseInstantiate, BeginInstantiate, MayInstantiate,
                DefineAsyncFunction, InstantiateAsync, AsyncOperationEnds
  <1>3. CASE InstantiateNode
    <2>1. /\ AtNode /\ Current \in Indices /\ Current = queue[1] /\ Len(queue) \in Nat \ {0}
          /\ queue' = Tail(queue) /\ lifecycle' = lifecycle /\ nodes'[Current].hasInstance
          /\ \A n \in Indices : n # Current => nodes'[n] = nodes[n]
      BY <1>3, NodeGetsInstance
    <2>2. ~nodes[Current].hasInstance
      BY <2>1 DEF OnceInv
    <2>3. queue # <<>>
      BY <2>1 DEF AtNode
    <2> QED
      BY <2>1, <2>2, <2>3 DEF Indices
  <1>4. CASE NodeDoesNotLink \/ NodeTraps \/ NodeIsNotPublished \/ FinishInstantiate
    BY <1>4 DEF NodeDoesNotLink, NodeTraps, NodeIsNotPublished, FinishInstantiate, Fail
  <1> QED
    BY <1>2, <1>3, <1>4 DEF GraphStep

(* Nothing comes between the steps of an instantiation, and none of them   *)
(* gives a second instance to a module.                                    *)
THEOREM AttemptIsAlone == Spec => AttemptGoesOn
  <1>1. Init => OnceInv
    BY DEF Init, OnceInv
  <1>2. Spec => []OnceInv
    BY <1>1, OnceStep, Inductive, PTL DEF Spec
  <1> QED
    BY <1>2, Inductive, AttemptStep, PTL DEF Spec, AttemptGoesOn
-----------------------------------------------------------------------------
(* The graph as it is seen through GetInstance *)

Members == {<<nodes[n].ns, nodes[n].mod>> : n \in Indices}
Offered == {<<nodes[n].ns, nodes[n].mod>> : n \in {k \in Indices : GetInstance(nodes[k].ns) = "OK"}}

LEMMA OfferedFacts ==
    ASSUME GInv
    PROVE  /\ lifecycle # "Instantiated" => Offered = {}
           /\ lifecycle = "Instantiated" => Offered = Members
  <1>1. ASSUME lifecycle = "Instantiated", NEW k \in Indices PROVE GetInstance(nodes[k].ns) = "OK"
    BY <1>1 DEF GetInstance, GInv, WholeInv, Indices
  <1> QED
    BY <1>1 DEF Offered, Members, GetInstance

LEMMA MappedActivation ==
    /\ Activation!vars = <<Members, Offered, lifecycle = "Failed">>
    /\ Activation!Init <=> Members = {} /\ Offered = {} /\ (lifecycle = "Failed") = FALSE
  BY DEF Activation!vars, Activation!Init, Members, Offered, Indices

LEMMA SameMembers ==
    ASSUME SameModules PROVE Members' = Members
  BY ShapeKept DEF SameModules, Members

LEMMA ActivationStep ==
    ASSUME GInv, GInv', [Next]_vars
    PROVE  Activation!Next \/ UNCHANGED Activation!vars
  <1> DEFINE failed == lifecycle = "Failed"
         Adds == /\ Offered = {} /\ Offered' = {} /\ lifecycle = "Building" /\ lifecycle' = "Building"
                 /\ \E member \in Members' : /\ Members' = Members \cup {member}
                                            /\ \A other \in Members : other[1] # member[1]
         Activates == /\ Offered = {} /\ ~failed /\ Members # {}
                      /\ Offered' = Members /\ Members' = Members /\ failed' = failed
         Fails == /\ Offered = {} /\ ~failed /\ Members # {}
                  /\ failed' = TRUE /\ Members' = Members /\ Offered' = Offered
         Stays == Members' = Members /\ Offered' = Offered /\ failed' = failed
  <1>a. Adds => Activation!Next
    <2> SUFFICES ASSUME Adds PROVE Activation!Add
      BY DEF Activation!Next
    <2>1. Activation!Open
      BY DEF Activation!Open, Offered, Indices
    <2>2. PICK member \in Members' : /\ Members' = Members \cup {member}
                                     /\ \A other \in Members : other[1] # member[1]
      OBVIOUS
    <2>3. Offered' = Offered /\ lifecycle' = lifecycle
      OBVIOUS
    <2> HIDE DEF Adds
    <2> QED
      BY <2>1, <2>2, <2>3 DEF Activation!Add, Members, Offered, Indices
  <1>b. Activates => Activation!Next
    BY DEF Activation!Next, Activation!Activate, Activation!Open, Members, Offered, Indices
  <1>c. Fails => Activation!Next
    BY DEF Activation!Next, Activation!Fail, Activation!Open, Members, Offered, Indices
  <1>d. Stays => UNCHANGED Activation!vars
    BY DEF Activation!vars, Members, Offered, Indices
  <1> SUFFICES Adds \/ Activates \/ Fails \/ Stays
    <2> HIDE DEF Adds, Activates, Fails, Stays
    <2> QED
      BY <1>a, <1>b, <1>c, <1>d
  <1>1. ASSUME NEW ns \in Namespaces, NEW m \in Modules, AddModule(ns, m)
        PROVE  Adds
    <2>1. lifecycle = "Building" /\ lifecycle' = "Building" /\ nodes' = Append(nodes, NewNode(ns, m))
          /\ nodes \in Seq(Nodes) /\ \A n \in Indices : nodes[n].ns # ns
      BY <1>1 DEF AddModule, Indices, GInv, TypeOK
    <2>2. /\ Indices' = Indices \cup {Len(nodes) + 1} /\ nodes'[Len(nodes) + 1] = NewNode(ns, m)
          /\ \A n \in Indices : nodes'[n] = nodes[n]
          /\ Len(nodes) + 1 \notin Indices
      BY <2>1 DEF Indices
    <2>3. Members' = Members \cup {<<ns, m>>}
      BY <2>2 DEF Members, NewNode
    <2>4. \A other \in Members : other[1] # ns
      BY <2>1 DEF Members
    <2>5. Offered = {} /\ Offered' = {}
      BY <2>1, OfferedFacts DEF Offered, GetInstance
    <2>6. <<ns, m>> \in Members'
      BY <2>3
    <2> QED
      BY <2>1, <2>3, <2>4, <2>5, <2>6
  <1>2. ASSUME RefuseInstantiate \/ BeginInstantiate PROVE Stays
    <2>1. nodes' = Rebuilt /\ lifecycle = "Building" /\ lifecycle' \in {"Building", "Instantiating"}
      BY <1>2 DEF RefuseInstantiate, BeginInstantiate, MayInstantiate
    <2>2. SameModules
      BY <2>1, RebuiltFacts DEF SameModules, GInv
    <2>3. Members' = Members
      BY <2>2, SameMembers
    <2>4. Offered = {} /\ Offered' = {}
      BY <2>1 DEF Offered, GetInstance
    <2> QED
      BY <2>1, <2>3, <2>4
  <1>3. ASSUME InstantiateNode PROVE Stays
    <2>1. lifecycle = "Instantiating" /\ lifecycle' = lifecycle
      BY <1>3 DEF InstantiateNode, AtNode, Running
    <2>2. SameModules
      <3>1. PICK l \in Links(Current) : nodes' = [nodes EXCEPT ![Current].hasInstance = TRUE, ![Current].links = l]
        BY <1>3 DEF InstantiateNode
      <3>2. \A n \in Indices : nodes[n] \in Nodes
        BY NodeFacts DEF GInv
      <3>3. Current \in Indices /\ nodes \in Seq(Nodes)
        BY <1>3, CurrentFacts DEF InstantiateNode, GInv, TypeOK
      <3> DEFINE v == [nodes[Current] EXCEPT !.hasInstance = TRUE, !.links = l]
      <3>4. nodes' = [nodes EXCEPT ![Current] = v]
        BY <3>1, <3>3 DEF Indices
      <3>5. v.ns = nodes[Current].ns /\ v.mod = nodes[Current].mod
        BY <3>2, <3>3 DEF Nodes
      <3> HIDE DEF v
      <3>6. Len(nodes') = Len(nodes) /\ \A n \in Indices : nodes'[n] = IF n = Current THEN v ELSE nodes[n]
        BY <3>3, <3>4 DEF Indices
      <3> QED
        BY <3>5, <3>6 DEF SameModules
    <2>3. Members' = Members
      BY <2>2, SameMembers
    <2>4. Offered = {} /\ Offered' = {}
      BY <2>1 DEF Offered, GetInstance
    <2> QED
      BY <2>1, <2>3, <2>4
  <1>4. ASSUME NodeDoesNotLink \/ NodeTraps \/ NodeIsNotPublished \/ FinishInstantiate PROVE Fails \/ Activates
    <2>1. /\ lifecycle = "Instantiating" /\ nodes' = nodes /\ nodes # <<>>
          /\ lifecycle' = "Failed" \/ lifecycle' = "Instantiated"
      BY <1>4 DEF NodeDoesNotLink, NodeTraps, NodeIsNotPublished, FinishInstantiate, Fail, AtNode, Running, GInv, LeaseInv
    <2>2. Members # {}
      <3>1. Len(nodes) \in Nat \ {0}
        BY <2>1, EmptySeq DEF GInv, TypeOK
      <3>2. 1 \in Indices
        BY <3>1 DEF Indices
      <3> QED
        BY <3>2 DEF Members
    <2>3. Members' = Members
      BY <2>1 DEF Members, Indices
    <2>4. Offered = {}
      BY <2>1, OfferedFacts
    <2>5. CASE lifecycle' = "Failed"
      <3>1. Offered' = {}
        BY <2>5 DEF Offered, GetInstance
      <3> QED
        BY <2>1, <2>2, <2>3, <2>4, <2>5, <3>1
    <2>6. CASE lifecycle' = "Instantiated"
      <3>1. WholeInv'
        BY DEF GInv
      <3>2. Offered' = Members'
        BY <2>6, <3>1 DEF Offered, Members, GetInstance, WholeInv, Indices
      <3> QED
        BY <2>1, <2>2, <2>3, <2>4, <2>6, <3>2
    <2> QED
      BY <2>1, <2>5, <2>6
  <1>5. ASSUME UNCHANGED <<lifecycle, nodes>> PROVE Stays
    BY <1>5 DEF Members, Offered, Indices, GetInstance
  <1> HIDE DEF Adds, Activates, Fails, Stays
  <1> QED
    BY <1>1, <1>2, <1>3, <1>4, <1>5 DEF Next, GraphStep, vars, DefineAsyncFunction, InstantiateAsync, AsyncOperationEnds

(* To the one who asks for instances, the graph is offered whole in one    *)
(* step or never.                                                          *)
THEOREM ImplementsActivation == Spec => ActivationKept
  <1>1. Init => Activation!Init
    BY DEF Init, Activation!Init, GetInstance
  <1> QED
    BY Inductive, <1>1, ActivationStep, PTL DEF Spec, ActivationKept, Activation!Spec

-----------------------------------------------------------------------------
(* The graph as a user of the Store *)

Users == [d \in {"main"} |-> (IF lifecycle = "Instantiating" THEN {"graph"} ELSE {})
                              \cup (IF activity = "Async" THEN {"async"} ELSE {})]
AsyncOnly == [d \in {"main"} |-> asyncRequired]

LEMMA OwnershipStep ==
    ASSUME GInv, GInv', [Next]_vars
    PROVE  Ownership!Next \/ UNCHANGED Ownership!vars
  <1> SUFFICES \/ /\ Users["main"] = {} /\ ~AsyncOnly["main"]
                  /\ Users' = [Users EXCEPT !["main"] = {"graph"}] /\ AsyncOnly' = AsyncOnly
               \/ /\ Users["main"] = {}
                  /\ Users' = [Users EXCEPT !["main"] = {"async"}]
                  /\ AsyncOnly' = AsyncOnly \/ AsyncOnly' = [AsyncOnly EXCEPT !["main"] = TRUE]
               \/ /\ Users["main"] # {}
                  /\ Users' = [Users EXCEPT !["main"] = {}] /\ AsyncOnly' = AsyncOnly
               \/ Users' = Users /\ AsyncOnly' = AsyncOnly
    BY DEF Ownership!Next, Ownership!EnterSync, Ownership!EnterAsync, Ownership!Leave, Ownership!vars, Users, AsyncOnly
  <1> USE DEF Users, AsyncOnly
  <1>0. /\ lifecycle = "Instantiating" <=> activity = "Exclusive"
        /\ lifecycle' = "Instantiating" <=> activity' = "Exclusive"
        /\ asyncRequired \in BOOLEAN
    BY DEF GInv, LeaseInv, TypeOK
  <1>1. CASE BeginInstantiate
    BY <1>0, <1>1 DEF BeginInstantiate, MayInstantiate
  <1>2. CASE NodeDoesNotLink \/ NodeTraps \/ NodeIsNotPublished \/ FinishInstantiate
    BY <1>0, <1>2 DEF NodeDoesNotLink, NodeTraps, NodeIsNotPublished, FinishInstantiate, Fail, AtNode, Running
  <1>3. ASSUME NEW m \in Modules, InstantiateAsync(m)
        PROVE  /\ Users["main"] = {}
               /\ Users' = [Users EXCEPT !["main"] = {"async"}]
               /\ AsyncOnly' = AsyncOnly \/ AsyncOnly' = [AsyncOnly EXCEPT !["main"] = TRUE]
    <2>1. activity = "Idle" /\ activity' = "Async" /\ lifecycle # "Instantiating" /\ lifecycle' = lifecycle
          /\ (asyncRequired' = asyncRequired \/ asyncRequired' = TRUE)
      BY <1>0, <1>3 DEF InstantiateAsync, UsesAsyncHostFunction
    <2>2. Users = [d \in {"main"} |-> {}] /\ Users' = [d \in {"main"} |-> {"async"}]
      <3>1. (IF lifecycle = "Instantiating" THEN {"graph"} ELSE {}) \cup (IF activity = "Async" THEN {"async"} ELSE {}) = {}
        BY <2>1
      <3>2. (IF lifecycle' = "Instantiating" THEN {"graph"} ELSE {}) \cup (IF activity' = "Async" THEN {"async"} ELSE {})
               = {"async"}
        BY <2>1
      <3> QED
        BY <3>1, <3>2
    <2>3. AsyncOnly' = AsyncOnly \/ AsyncOnly' = [AsyncOnly EXCEPT !["main"] = TRUE]
      BY <2>1
    <2> HIDE DEF Users, AsyncOnly
    <2> QED
      BY <2>2, <2>3
  <1>4. CASE AsyncOperationEnds
    BY <1>0, <1>4 DEF AsyncOperationEnds
  <1>5. CASE UNCHANGED <<lifecycle, activity, asyncRequired>>
    BY <1>5
  <1> QED
    BY <1>1, <1>2, <1>3, <1>4, <1>5
    DEF Next, GraphStep, vars, AddModule, RefuseInstantiate, InstantiateNode, DefineAsyncFunction

(* The graph and the operations of the host share the main domain's Store  *)
(* as StoreOwnership allows.                                               *)
THEOREM ImplementsOwnership == Spec => OwnershipKept
  <1>1. Init => Ownership!Init
    BY DEF Init, Ownership!Init
  <1> QED
    BY Inductive, <1>1, OwnershipStep, PTL DEF Spec, OwnershipKept, Ownership!Spec
=============================================================================
