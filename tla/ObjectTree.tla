------------------------------ MODULE ObjectTree ------------------------------
(***************************************************************************)
(* The handles a host has of NexusWasm's objects (Runtime, Realm, Module,  *)
(* Program, ExecutionDomain, AsyncInstantiation, Instance), the states     *)
(* they share, and the native engines, modules and Stores in them: which   *)
(* of them exist, and whether what is used together belongs together, when *)
(* the host destroys, moves and assigns handles in any order and has more  *)
(* than one Runtime.                                                       *)
(*                                                                         *)
(* A state is owned by the handles and states with a shared_ptr to it; its *)
(* destruction goes member by member and runs host code on the way, so the *)
(* host may act between its steps, and in the middle of the assignment of  *)
(* a Program that caused it.  Leases and calls are in StoreExecution, the  *)
(* instantiation of graphs in ModuleGraph.                                 *)
(***************************************************************************)
EXTENDS FiniteSets

CONSTANTS Engines,   \* EngineState objects, one for each Runtime
          Modules,   \* ModuleState objects
          Domains,   \* ExecutionDomainState objects
          Programs,  \* Program variables of the host
          Instances, \* Instance variables of the host
          None

Graphs == [life : {"Building", "Instantiated", "Failed"},
           mods : SUBSET Modules, store : Domains \cup {None}]

ASSUME NoneAssumption == None \notin Engines \cup Modules \cup Domains /\ None \notin Graphs

VARIABLES
    engine,   \* EngineStates, each with a native engine
    runtimes, \* engines of which the host has the Runtime
    realms,   \* engines of which the host has a Realm
    mod,      \* ModuleStates, and whether the host has the Module
    dom,      \* ExecutionDomainStates
    prog,     \* Programs; Hollow if moved from, or none
    domain,   \* an ExecutionDomain variable of the host: its m_pState
    async,    \* an AsyncInstantiation of the host: [dom, mod]
    inst,     \* Instances: the domain they refer to, the Store they are in
    moves     \* assignments of Programs that wait for the destruction of a domain

vars == <<engine, runtimes, realms, mod, dom, prog, domain, async, inst, moves>>

Hollow  == [realm |-> None, main |-> None, graph |-> None]
NoGraph == [life |-> "Building", mods |-> {}, store |-> None]
NoAsync == [dom |-> None, mod |-> None]
NoInst  == [dom |-> None, store |-> None]

Init == /\ engine = [e \in Engines |-> "unused"]
        /\ runtimes = {} /\ realms = {}
        /\ mod = [m \in Modules |-> [phase |-> "unused", engine |-> None, handle |-> FALSE]]
        /\ dom = [d \in Domains |-> [phase |-> "unused", engine |-> None]]
        /\ prog = [p \in Programs |-> Hollow]
        /\ domain = None
        /\ async = NoAsync
        /\ inst = [i \in Instances |-> NoInst]
        /\ moves = {}

-----------------------------------------------------------------------------
(* Ownership *)

DomainOwned(d) == \/ \E p \in Programs : prog[p].main = d
                  \/ domain = d
                  \/ async.dom = d

(* Variant: the nodes of a graph refer to the host's Modules.              *)
InNoGraph(m) == FALSE

(* A node of a graph keeps a Module of its own.                            *)
InGraph(m) == \E p \in Programs : prog[p].graph # None /\ m \in prog[p].graph.mods

ModuleOwned(m) == mod[m].handle \/ InGraph(m) \/ async.mod = m

(* The members of an ExecutionDomainState go in the order linker, store,   *)
(* engine, the reverse of their declaration; of a ModuleState, module and  *)
(* engine.  A phase tells which have gone.                                 *)
HasLinker(d) == dom[d].phase = "live"
HasStore(d)  == dom[d].phase \in {"live", "unlinked"}
HasModule(m) == mod[m].phase = "live"

(* Variant: the engine is declared last, and goes first.                   *)
KeepsEngineWhileOwned(s) == s.phase = "live"

KeepsEngine(s) == s.phase \in {"live", "unlinked", "closed"}

EngineOwned(e) == \/ e \in runtimes
                  \/ e \in realms
                  \/ \E p \in Programs : prog[p].realm = e
                  \/ \E m \in Modules : mod[m].engine = e /\ KeepsEngine(mod[m])
                  \/ \E d \in Domains : dom[d].engine = e /\ KeepsEngine(dom[d])

(* Destructors, one member at a time; the next phase of each.              *)
DestroyEngineState(e) ==
    /\ ~EngineOwned(e)
    /\ engine[e] = "live"
    /\ engine' = [engine EXCEPT ![e] = "gone"]
    /\ UNCHANGED <<runtimes, realms, mod, dom, prog, domain, async, inst, moves>>

DestroyModuleState(m) ==
    /\ ~ModuleOwned(m)
    /\ mod[m].phase \in {"live", "closed"}
    /\ mod' = [mod EXCEPT ![m].phase = IF @ = "live" THEN "closed" ELSE "gone"]
    /\ UNCHANGED <<engine, runtimes, realms, dom, prog, domain, async, inst, moves>>

DestroyDomainState(d) ==
    /\ ~DomainOwned(d)
    /\ dom[d].phase \in {"live", "unlinked", "closed"}
    /\ dom' = [dom EXCEPT ![d].phase = IF @ = "live" THEN "unlinked"
                                       ELSE IF @ = "unlinked" THEN "closed" ELSE "gone"]
    /\ UNCHANGED <<engine, runtimes, realms, mod, prog, domain, async, inst, moves>>

-----------------------------------------------------------------------------
(* Runtime, Realm and Module *)

CreateRuntime(e) == /\ engine[e] = "unused"
                    /\ engine' = [engine EXCEPT ![e] = "live"]
                    /\ runtimes' = runtimes \cup {e}
                    /\ UNCHANGED <<realms, mod, dom, prog, domain, async, inst, moves>>

DestroyRuntime(e) == /\ e \in runtimes
                     /\ runtimes' = runtimes \ {e}
                     /\ UNCHANGED <<engine, realms, mod, dom, prog, domain, async, inst, moves>>

CreateRealm(e) == /\ e \in runtimes
                  /\ realms' = realms \cup {e}
                  /\ UNCHANGED <<engine, runtimes, mod, dom, prog, domain, async, inst, moves>>

DestroyRealm(e) == /\ e \in realms
                   /\ realms' = realms \ {e}
                   /\ UNCHANGED <<engine, runtimes, mod, dom, prog, domain, async, inst, moves>>

Compile(e, m) ==
    /\ e \in runtimes
    /\ mod[m].phase = "unused"
    /\ mod' = [mod EXCEPT ![m] = [phase |-> "live", engine |-> e, handle |-> TRUE]]
    /\ UNCHANGED <<engine, runtimes, realms, dom, prog, domain, async, inst, moves>>

DestroyModule(m) == /\ mod[m].handle
                    /\ mod' = [mod EXCEPT ![m].handle = FALSE]
                    /\ UNCHANGED <<engine, runtimes, realms, dom, prog, domain, async, inst, moves>>

-----------------------------------------------------------------------------
(* Program *)

Assign(p, value) == prog' = [prog EXCEPT ![p] = value]

(* An assignment to p, or from p, is under way.  The host is expected not  *)
(* to destroy or to assign such a Program, nor to use its graph, from the  *)
(* code that the assignment runs; of its main domain it may make any use.  *)
InMove(p) == \E f \in moves : p \in {f.from, f.to}

(* Realm::CreateProgram makes a new Program; MoveProgram assigns it to     *)
(* one that exists.                                                        *)
CreateProgram(e, p, d) ==
    /\ prog[p] = Hollow /\ ~InMove(p)
    /\ e \in realms
    /\ dom[d].phase = "unused"
    /\ dom' = [dom EXCEPT ![d] = [phase |-> "live", engine |-> e]]
    /\ Assign(p, [realm |-> e, main |-> d, graph |-> NoGraph])
    /\ UNCHANGED <<engine, runtimes, realms, mod, domain, async, inst, moves>>

DestroyProgram(p) == /\ prog[p] # Hollow /\ ~InMove(p)
                     /\ Assign(p, Hollow)
                     /\ UNCHANGED <<engine, runtimes, realms, mod, dom, domain, async, inst, moves>>

(* Variant: the main domain stays behind.                                  *)
MovedWithoutDomain(p, q) ==
    [prog EXCEPT ![q] = [prog[p] EXCEPT !.main = prog[q].main],
                 ![p] = [Hollow EXCEPT !.main = prog[p].main]]

(* q = std::move(p): the realm, then the main domain, then the graph, which *)
(* leaves p without any of them.                                           *)
Moved(p, q) == [prog EXCEPT ![q] = prog[p], ![p] = Hollow]

(* The domain of q goes with its last owner.                               *)
LosesMain(q) == prog[q].main # None /\ prog[q].main \notin {domain, async.dom}

MoveProgram(p, q) ==
    /\ p # q /\ ~InMove(p) /\ ~InMove(q)
    /\ ~LosesMain(q)
    /\ prog' = Moved(p, q)
    /\ UNCHANGED <<engine, runtimes, realms, mod, dom, domain, async, inst, moves>>

(* Or the old domain of q is destroyed, and host code runs, while q has the *)
(* realm and the domain of p but not yet its graph.                        *)
BeginMove(p, q) ==
    /\ p # q /\ ~InMove(p) /\ ~InMove(q)
    /\ LosesMain(q)
    /\ prog' = [prog EXCEPT ![q] = [prog[p] EXCEPT !.graph = prog[q].graph],
                            ![p] = [Hollow EXCEPT !.graph = prog[p].graph]]
    /\ moves' = moves \cup {[from |-> p, to |-> q, old |-> prog[q].main]}
    /\ UNCHANGED <<engine, runtimes, realms, mod, dom, domain, async, inst>>

(* Variant: the graph of the target is kept.                               *)
KeptGraph(f) == [prog EXCEPT ![f.from].graph = None]

GraphMoved(f) == [prog EXCEPT ![f.to].graph = prog[f.from].graph, ![f.from].graph = None]

FinishMove(f) ==
    /\ dom[f.old].phase = "gone"
    /\ prog' = GraphMoved(f)
    /\ moves' = moves \ {f}
    /\ UNCHANGED <<engine, runtimes, realms, mod, dom, domain, async, inst>>

(* Variant: the Runtimes are not compared.                                 *)
AcceptsForeign(p, m) == prog[p].realm # None /\ mod[m].handle

(* Variant: a Module that was moved from is not noticed.                   *)
AcceptsMovedFrom(p, m) == prog[p].realm # None /\ mod[m].engine = prog[p].realm

Accepts(p, m) == prog[p].realm # None /\ mod[m].handle /\ mod[m].engine = prog[p].realm

AddModule(p, m) ==
    /\ Accepts(p, m) /\ ~InMove(p)
    /\ prog[p].graph.life = "Building"
    /\ prog' = [prog EXCEPT ![p].graph.mods = @ \cup {m}]
    /\ UNCHANGED <<engine, runtimes, realms, mod, dom, domain, async, inst, moves>>

(* Wasmtime refuses a module of another engine; a module may fail for      *)
(* reasons of its own as well.                                             *)
InstantiateGraph(p, ok) ==
    /\ prog[p].realm # None /\ prog[p].main # None /\ ~InMove(p)
    /\ prog[p].graph.life = "Building" /\ prog[p].graph.mods # {}
    /\ ok => \A m \in prog[p].graph.mods : mod[m].engine = dom[prog[p].main].engine
    /\ prog' = [prog EXCEPT ![p].graph =
                   IF ok THEN [@ EXCEPT !.life = "Instantiated", !.store = prog[p].main]
                         ELSE [@ EXCEPT !.life = "Failed"]]
    /\ UNCHANGED <<engine, runtimes, realms, mod, dom, domain, async, inst, moves>>

(* The Instance pairs the main domain of now with the native instance of   *)
(* then.                                                                   *)
GetInstance(p, i) ==
    /\ prog[p].realm # None /\ ~InMove(p)
    /\ prog[p].graph.life = "Instantiated"
    /\ inst' = [inst EXCEPT ![i] = [dom |-> prog[p].main, store |-> prog[p].graph.store]]
    /\ UNCHANGED <<engine, runtimes, realms, mod, dom, prog, domain, async, moves>>

-----------------------------------------------------------------------------
(* ExecutionDomain, reached through Program::MainDomain or a variable *)

Reachable(d) == domain = d \/ \E p \in Programs : prog[p].main = d
SameRuntime(d, m) == mod[m].handle /\ mod[m].engine = dom[d].engine

Instantiate(d, m, i) ==
    /\ Reachable(d) /\ SameRuntime(d, m)
    /\ inst' = [inst EXCEPT ![i] = [dom |-> d, store |-> d]]
    /\ UNCHANGED <<engine, runtimes, realms, mod, dom, prog, domain, async, moves>>

(* The AsyncInstantiationState keeps both its domain and its module; the   *)
(* one that was in the variable is destroyed.                              *)
InstantiateAsync(d, m) ==
    /\ Reachable(d) /\ SameRuntime(d, m)
    /\ async' = [dom |-> d, mod |-> m]
    /\ UNCHANGED <<engine, runtimes, realms, mod, dom, prog, domain, inst, moves>>

TakeInstance(i) ==
    /\ async # NoAsync
    /\ inst' = [inst EXCEPT ![i] = [dom |-> async.dom, store |-> async.dom]]
    /\ UNCHANGED <<engine, runtimes, realms, mod, dom, prog, domain, async, moves>>

DropAsync == /\ async # NoAsync
             /\ async' = NoAsync
             /\ UNCHANGED <<engine, runtimes, realms, mod, dom, prog, domain, inst, moves>>

(* MainDomain is a reference, and an ExecutionDomain can be moved.         *)
MoveMainDomainOut(p) == /\ prog[p].main # None
                        /\ domain' = prog[p].main
                        /\ prog' = [prog EXCEPT ![p].main = None]
                        /\ UNCHANGED <<engine, runtimes, realms, mod, dom, async, inst, moves>>

MoveMainDomainIn(p) == /\ domain # None
                       /\ prog' = [prog EXCEPT ![p].main = domain]
                       /\ domain' = None
                       /\ UNCHANGED <<engine, runtimes, realms, mod, dom, async, inst, moves>>

DropDomain == /\ domain # None
              /\ domain' = None
              /\ UNCHANGED <<engine, runtimes, realms, mod, dom, prog, async, inst, moves>>

-----------------------------------------------------------------------------
(* What goes on without the host.                                          *)
Destruction == \/ \E e \in Engines : DestroyEngineState(e)
               \/ \E m \in Modules : DestroyModuleState(m)
               \/ \E d \in Domains : DestroyDomainState(d)
               \/ \E f \in moves : FinishMove(f)

(* Inside an assignment the host runs while the linker is deleted, with    *)
(* the host functions in it.                                               *)
HostRuns == \A f \in moves : dom[f.old].phase = "live"

HandleStep ==
    /\ HostRuns
    /\ \/ \E e \in Engines : \/ CreateRuntime(e) \/ DestroyRuntime(e)
                             \/ CreateRealm(e) \/ DestroyRealm(e)
                             \/ \E m \in Modules : Compile(e, m)
                             \/ \E p \in Programs, d \in Domains : CreateProgram(e, p, d)
       \/ \E m \in Modules : DestroyModule(m)
       \/ \E p \in Programs : \/ DestroyProgram(p)
                              \/ \E q \in Programs : MoveProgram(p, q) \/ BeginMove(p, q)
                              \/ \E m \in Modules : AddModule(p, m)
                              \/ \E ok \in BOOLEAN : InstantiateGraph(p, ok)
                              \/ \E i \in Instances : GetInstance(p, i)
       \/ \E d \in Domains, m \in Modules : \/ InstantiateAsync(d, m)
                                            \/ \E i \in Instances : Instantiate(d, m, i)
       \/ \E i \in Instances : TakeInstance(i)
       \/ DropAsync

MoveDomain == /\ HostRuns
              /\ \/ \E p \in Programs : MoveMainDomainOut(p) \/ MoveMainDomainIn(p)
                 \/ DropDomain

(* A host that leaves main domains where they are, and one that does not.  *)
Spec == Init /\ [][HandleStep \/ Destruction]_vars
MovingSpec == Init /\ [][HandleStep \/ Destruction \/ MoveDomain]_vars

-----------------------------------------------------------------------------
ModuleStates  == [phase : {"unused", "live", "closed", "gone"},
                  engine : Engines \cup {None}, handle : BOOLEAN]
DomainStates  == [phase : {"unused", "live", "unlinked", "closed", "gone"},
                  engine : Engines \cup {None}]
ProgramStates == [realm : Engines \cup {None}, main : Domains \cup {None},
                  graph : Graphs \cup {None}]
MoveStates    == [from : Programs, to : Programs, old : Domains]

TypeOK ==
    /\ engine \in [Engines -> {"unused", "live", "gone"}]
    /\ runtimes \subseteq Engines /\ realms \subseteq Engines
    /\ mod \in [Modules -> ModuleStates]
    /\ dom \in [Domains -> DomainStates]
    /\ domain \in Domains \cup {None}
    /\ async \in {NoAsync} \cup [dom : Domains, mod : Modules]
    /\ prog \in [Programs -> ProgramStates]
    /\ \A p, q \in Programs : prog[p].main = prog[q].main => p = q \/ prog[p].main = None
    /\ \A p \in Programs : prog[p].main = domain => domain = None
    /\ inst \in [Instances -> [dom : Domains \cup {None}, store : Domains \cup {None}]]
    /\ moves \subseteq MoveStates
    /\ \A f \in moves : f.from # f.to
    /\ \A f, g \in moves : f # g => {f.from, f.to} \cap {g.from, g.to} = {}

(* No native Store, linker or module outlives the native engine it was     *)
(* made with, whatever the order in which Runtimes, Realms, Programs,      *)
(* Modules and operations go, and at no step of a destructor; and nobody   *)
(* who may create or compile holds a dead one.                             *)
EngineOutlives ==
    /\ \A d \in Domains : HasStore(d) \/ HasLinker(d) => engine[dom[d].engine] = "live"
    /\ \A m \in Modules : HasModule(m) => engine[mod[m].engine] = "live"
    /\ \A e \in runtimes \cup realms : engine[e] = "live"
    /\ \A p \in Programs : prog[p].realm # None => engine[prog[p].realm] = "live"

(* The Programs: as they are, or as the one that is being assigned will be *)
(* when the assignment returns.                                            *)
Completed(f) == [realm |-> prog[f.to].realm, main |-> prog[f.to].main,
                 graph |-> prog[f.from].graph]

Settled == {prog[p] : p \in {x \in Programs : ~InMove(x)}} \cup {Completed(f) : f \in moves}

(* A Program that does not say it was moved from has its graph: no public  *)
(* operation reaches a graph through a null pointer.  One that is being    *)
(* assigned will have it when the assignment returns.                      *)
ProgramsWhole == /\ \A s \in Settled : s.realm = None <=> s.graph = None
                 /\ \A f \in moves : prog[f.from].realm = None

(* What can be reached exists: the Store of a main domain, the modules of  *)
(* a graph although the host's Modules are gone, and both for as long as   *)
(* an asynchronous instantiation needs them.                               *)
NothingDangles ==
    /\ \A p \in Programs : prog[p].main # None => HasLinker(prog[p].main)
    /\ domain # None => HasLinker(domain)
    /\ \A m \in Modules : mod[m].handle => HasModule(m)
    /\ \A p \in Programs : prog[p].graph # None => \A m \in prog[p].graph.mods : HasModule(m)
    /\ async # NoAsync => HasLinker(async.dom) /\ HasModule(async.mod)

(* What the host can follow is sound: every pointer has its type, a domain *)
(* has one handle, and none of the pointers is null or dangles unnoticed.  *)
(* This much is inductive.                                                 *)
TreeInv == TypeOK /\ ProgramsWhole /\ NothingDangles

(* What has lost its last owner is lost: no step, of a handle or of a       *)
(* destructor that is under way, gives it an owner again, so that no member *)
(* is destroyed under one who holds the state.                             *)
NoResurrection ==
    [][/\ \A d \in Domains : dom[d].phase # "unused" /\ ~DomainOwned(d) => ~DomainOwned(d)'
       /\ \A m \in Modules : mod[m].phase # "unused" /\ ~ModuleOwned(m) => ~ModuleOwned(m)'
       /\ \A e \in Engines : engine[e] # "unused" /\ ~EngineOwned(e) => ~EngineOwned(e)']_vars

(* An Instance through which a call can be made names a native instance of *)
(* the very Store the call is made in.                                     *)
InstancesAtHome ==
    \A i \in Instances :
        inst[i].dom # None /\ DomainOwned(inst[i].dom) => inst[i].store = inst[i].dom

(* The modules of a Program are those of its Runtime, and its main domain  *)
(* is of that Runtime and has the instances of its graph; when assignments *)
(* to it have returned, whatever the host did inside them.                 *)
GraphsAtHome ==
    \A s \in Settled : s.realm # None =>
        /\ s.main # None
        /\ dom[s.main].engine = s.realm
        /\ \A m \in s.graph.mods : mod[m].engine = s.realm
        /\ s.graph.store \in {None, s.main}
=============================================================================
