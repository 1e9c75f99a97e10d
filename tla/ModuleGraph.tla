---------------------------- MODULE ModuleGraph ----------------------------
(***************************************************************************)
(* The module graph of a Program: modules are added under namespaces, all  *)
(* of them are instantiated at once into the Program's main domain, each   *)
(* after the modules it imports from, and each is published in the         *)
(* domain's linker for those that follow.  The host reaches the same       *)
(* domain through Program::MainDomain and defines asynchronous host        *)
(* functions in the same linker, before, after and between attempts.       *)
(*                                                                         *)
(* The lease of StoreExecution keeps the instantiation of the graph whole, *)
(* so the host has no step inside it; the steps of its loop are separate   *)
(* all the same, for each can be the one that fails.                       *)
(***************************************************************************)
EXTENDS DependencyOrder

CONSTANTS Namespaces, \* the names modules are added under
          Modules,    \* compiled modules of the Program's Runtime
          Imports,    \* Imports[m]: sequence of [ns, name, type]
          Exports,    \* Exports[m]: sequence of [name, type]
          HostKeys,   \* <<namespace, name>> of asynchronous host functions
          HostTypes   \* types the host gives them

(* A type as Wasmtime knows it; what is not a function has no parameters   *)
(* and no results.                                                         *)
Types == [kind : STRING, params : Seq(STRING), results : Seq(STRING)]

SimpleValueKinds == {"i32", "i64", "f32", "f64"}
KindsIn(values) == {values[k] : k \in 1..Len(values)}

Host == "host"   \* the owner of the linker's asynchronous host functions

(* The exports of a module have different names, as Wasm requires.         *)
ASSUME ModulesAssumption ==
    /\ Imports \in [Modules -> Seq([ns : STRING, name : STRING, type : Types])]
    /\ Exports \in [Modules -> Seq([name : STRING, type : Types])]
    /\ \A m \in Modules : \A j, k \in 1..Len(Exports[m]) :
          Exports[m][j].name = Exports[m][k].name => j = k
    /\ Host \notin Namespaces

ASSUME TypesAssumption ==
    \A t \in HostTypes : /\ t.kind = "func"
                         /\ KindsIn(t.params) \subseteq SimpleValueKinds
                         /\ KindsIn(t.results) \subseteq SimpleValueKinds

VARIABLES lifecycle,     \* ModuleGraph::m_eLifecycle
          nodes,         \* ModuleGraph::m_vNodes, of which m_mIndex is the inverse
          queue,         \* what is left of the loop over the order
          linker,        \* what the domain's linker defines, and who defined it
          activity,      \* StoreExecutionState::m_eActivity of the domain
          asyncRequired  \* StoreExecutionState::m_bAsyncRequired of the domain

vars == <<lifecycle, nodes, queue, linker, activity, asyncRequired>>

Init == /\ lifecycle = "Building"
        /\ nodes = <<>>
        /\ queue = <<>>
        /\ linker = {}
        /\ activity = "Idle"
        /\ asyncRequired = FALSE

-----------------------------------------------------------------------------
(* The linker *)

Key(ns, name) == <<ns, name>>
Defined(k) == \E e \in linker : e.key = k
HasAsyncHostFunction(k) == \E e \in linker : e.key = k /\ e.owner = Host

(* What Wasmtime itself requires of an import: a definition of its type.   *)
Matches(e, i) == e.key = Key(i.ns, i.name) /\ e.type = i.type

-----------------------------------------------------------------------------
(* ModuleMetadata: what InspectModule keeps of the types of a module.      *)

NoSignature == [parameters |-> <<>>, results |-> <<>>]
ReadFunctionSignature(t) == [parameters |-> t.params, results |-> t.results]

Kind(x) == x.type.kind
Signature(x) == IF Kind(x) = "func" THEN ReadFunctionSignature(x.type) ELSE NoSignature

IsSimpleFunctionSignature(s) ==
    KindsIn(s.parameters) \subseteq SimpleValueKinds /\ KindsIn(s.results) \subseteq SimpleValueKinds

(* Variant: results are not compared.                                      *)
ParametersEqual(a, b) == a.parameters = b.parameters

FunctionSignatureEqual(a, b) == a.parameters = b.parameters /\ a.results = b.results

-----------------------------------------------------------------------------
(* Building the graph *)

NewNode(ns, m) == [ns |-> ns, mod |-> m, deps |-> {}, hasInstance |-> FALSE,
                   links |-> <<>>]

(* Variant: the lifecycle is not looked at.                                *)
AddModuleAnytime(ns, m) == /\ \A n \in 1..Len(nodes) : nodes[n].ns # ns
                           /\ nodes' = Append(nodes, NewNode(ns, m))
                           /\ UNCHANGED <<lifecycle, queue, linker, activity, asyncRequired>>

(* The Store is not touched, so no lease is needed: a module can be added  *)
(* while another operation owns the domain.                                *)
AddModule(ns, m) == /\ lifecycle = "Building"
                    /\ \A n \in 1..Len(nodes) : nodes[n].ns # ns
                    /\ nodes' = Append(nodes, NewNode(ns, m))
                    /\ UNCHANGED <<lifecycle, queue, linker, activity, asyncRequired>>

-----------------------------------------------------------------------------
(* BuildDependencies *)

ImportsOf(n) == Imports[nodes[n].mod]

(* The nodes an import can come from: the one its namespace names, if any. *)
Providers(i) == {n \in 1..Len(nodes) : nodes[n].ns = i.ns}

FindExport(m, name) == {x \in {Exports[m][k] : k \in 1..Len(Exports[m])} : x.name = name}

(* Signatures are compared here only when both are simple; any other       *)
(* difference is left to the linker.                                       *)
Compatible(a, b) == IsSimpleFunctionSignature(a) /\ IsSimpleFunctionSignature(b)
                       => FunctionSignatureEqual(a, b)

FromHost(i) == /\ Providers(i) = {}
               /\ HasAsyncHostFunction(Key(i.ns, i.name))
               /\ Kind(i) = "func"

FromNode(i) == /\ Kind(i) = "func"
               /\ \E n \in Providers(i) : \E x \in FindExport(nodes[n].mod, i.name) :
                     Kind(x) = "func" /\ Compatible(Signature(i), Signature(x))

MissingDependencyExport(i) ==
    /\ Kind(i) = "func"
    /\ \E n \in Providers(i) : FindExport(nodes[n].mod, i.name) = {}

(* The imports are looked at in order; the first that comes from nowhere   *)
(* ends the examination, wherever it is.                                   *)
Examined(n) == {k \in 1..Len(ImportsOf(n)) :
                  \A j \in 1..k : FromHost(ImportsOf(n)[j]) \/ FromNode(ImportsOf(n)[j])}
Sound(n)   == Examined(n) = 1..Len(ImportsOf(n))
Reached(n) == \A p \in 1..(n - 1) : Sound(p)

(* Import k of node n is the one that makes the graph unsound.             *)
Refuses(n, k) == Reached(n) /\ ~Sound(n) /\ Examined(n) = 1..(k - 1)

GraphSound == \A n \in 1..Len(nodes) : Sound(n)
RequiresAsyncHost == \E n \in 1..Len(nodes) : \E k \in Examined(n) : FromHost(ImportsOf(n)[k])

Dependencies(n) == UNION {Providers(ImportsOf(n)[k]) : k \in Examined(n)}

(* Nodes after the first unsound one keep the dependencies they had.       *)
Rebuilt == [n \in 1..Len(nodes) |->
              IF Reached(n) THEN [nodes[n] EXCEPT !.deps = Dependencies(n)] ELSE nodes[n]]

(* BuildInstantiationOrder answers with one of the Orders of this, and     *)
(* with a cycle only when there is none: see ModuleOrder.                  *)
NeedsOf(s) == [n \in 1..Len(s) |-> s[n].deps]

-----------------------------------------------------------------------------
(* Instantiating the graph *)

(* Variant: the lease of a linker mutation is asked for.                   *)
MayMutate == lifecycle = "Building" /\ nodes # <<>> /\ activity = "Idle"

MayInstantiate == /\ lifecycle = "Building"
                  /\ nodes # <<>>
                  /\ activity = "Idle" /\ ~asyncRequired

(* An import is missing or wrong, or is asynchronous, or the modules import *)
(* from one another in a ring: nothing but the dependencies has changed,    *)
(* and the host may add what is missing and try again.                      *)
RefuseInstantiate ==
    /\ MayInstantiate
    /\ ~GraphSound \/ RequiresAsyncHost \/ Orders(NeedsOf(Rebuilt)) = {}
    /\ nodes' = Rebuilt
    /\ UNCHANGED <<lifecycle, queue, linker, activity, asyncRequired>>

(* Variant: a graph that needs an asynchronous host function is accepted.  *)
BeginRegardless ==
    /\ MayInstantiate /\ GraphSound
    /\ nodes' = Rebuilt
    /\ queue' \in Orders(NeedsOf(Rebuilt))
    /\ lifecycle' = "Instantiating"
    /\ activity' = "Exclusive"
    /\ UNCHANGED <<linker, asyncRequired>>

BeginInstantiate ==
    /\ MayInstantiate /\ GraphSound /\ ~RequiresAsyncHost
    /\ nodes' = Rebuilt
    /\ queue' \in Orders(NeedsOf(Rebuilt))
    /\ lifecycle' = "Instantiating"
    /\ activity' = "Exclusive"
    /\ UNCHANGED <<linker, asyncRequired>>

(* The call that instantiates the graph is running, at the first node left. *)
Running == lifecycle = "Instantiating" /\ activity = "Exclusive"
AtNode  == Running /\ queue # <<>>
Current == queue[1]

(* The definitions Wasmtime links the imports of node n with.              *)
Links(n) == {l \in [1..Len(ImportsOf(n)) -> linker] :
               \A k \in 1..Len(ImportsOf(n)) : Matches(l[k], ImportsOf(n)[k])}

(* Publication goes export by export and stops at a name already defined.  *)
Entry(n, x) == [key |-> Key(nodes[n].ns, x.name), type |-> x.type, owner |-> nodes[n].ns]
Publishable(n) == {k \in 1..Len(Exports[nodes[n].mod]) :
                     \A j \in 1..k : ~Defined(Key(nodes[n].ns, Exports[nodes[n].mod][j].name))}
Publishes(n) == Publishable(n) = 1..Len(Exports[nodes[n].mod])

(* Variant: shadowing is allowed.                                          *)
PublishedOver(n) == linker \cup {Entry(n, Exports[nodes[n].mod][k]) :
                                   k \in 1..Len(Exports[nodes[n].mod])}

Published(n) == linker \cup {Entry(n, Exports[nodes[n].mod][k]) : k \in Publishable(n)}

(* Variant: the graph may be built and instantiated again after a failure. *)
BackToBuilding == /\ lifecycle' = "Building"
                  /\ queue' = <<>>
                  /\ activity' = "Idle"
                  /\ UNCHANGED <<nodes, asyncRequired>>

(* Variant: the lifecycle is not set.                                      *)
LeaveInstantiating == /\ queue' = <<>>
                      /\ activity' = "Idle"
                      /\ UNCHANGED <<lifecycle, nodes, asyncRequired>>

(* A failed node ends the instantiation for good; what earlier nodes       *)
(* instantiated and published stays where it is.                           *)
Fail == /\ lifecycle' = "Failed"
        /\ queue' = <<>>
        /\ activity' = "Idle"
        /\ UNCHANGED <<nodes, asyncRequired>>

(* Variant: a node that does not link is passed over.                      *)
NodeSkipped == /\ AtNode /\ Links(Current) = {}
               /\ queue' = Tail(queue)
               /\ UNCHANGED <<lifecycle, nodes, linker, activity, asyncRequired>>

NodeDoesNotLink == /\ AtNode /\ Links(Current) = {}
                   /\ Fail
                   /\ UNCHANGED linker

(* The start function of the module traps.                                 *)
NodeTraps == /\ AtNode /\ Links(Current) # {}
             /\ Fail
             /\ UNCHANGED linker

NodeIsNotPublished == /\ AtNode /\ Links(Current) # {} /\ ~Publishes(Current)
                      /\ linker' = Published(Current)
                      /\ Fail

InstantiateNode ==
    /\ AtNode /\ Publishes(Current)
    /\ \E l \in Links(Current) :
          nodes' = [nodes EXCEPT ![Current].hasInstance = TRUE, ![Current].links = l]
    /\ linker' = Published(Current)
    /\ queue' = Tail(queue)
    /\ UNCHANGED <<lifecycle, activity, asyncRequired>>

FinishInstantiate == /\ Running /\ queue = <<>>
                     /\ lifecycle' = "Instantiated"
                     /\ activity' = "Idle"
                     /\ UNCHANGED <<nodes, queue, linker, asyncRequired>>

(* Variant: an instance is given out as soon as it exists.                 *)
GetInstanceOfAnyGraph(ns) ==
    IF \A n \in 1..Len(nodes) : nodes[n].ns # ns THEN "ModuleInstanceNotFound"
    ELSE IF \E n \in 1..Len(nodes) : nodes[n].ns = ns /\ ~nodes[n].hasInstance
         THEN "InvalidState"
    ELSE "OK"

(* What Program::GetInstance answers; it changes nothing.                  *)
GetInstance(ns) ==
    IF lifecycle # "Instantiated" THEN "ModuleGraphNotInstantiated"
    ELSE IF \A n \in 1..Len(nodes) : nodes[n].ns # ns THEN "ModuleInstanceNotFound"
    ELSE IF \E n \in 1..Len(nodes) : nodes[n].ns = ns /\ ~nodes[n].hasInstance
         THEN "InvalidState"
    ELSE "OK"

-----------------------------------------------------------------------------
(* The host in the same domain: see StoreExecution for all it can do there *)

DefineAsyncFunction(k, t) ==
    /\ activity = "Idle"
    /\ ~Defined(k)
    /\ linker' = linker \cup {[key |-> k, type |-> t, owner |-> Host]}
    /\ UNCHANGED <<lifecycle, nodes, queue, activity, asyncRequired>>

UsesAsyncHostFunction(m) ==
    \E k \in 1..Len(Imports[m]) :
        /\ Kind(Imports[m][k]) = "func"
        /\ HasAsyncHostFunction(Key(Imports[m][k].ns, Imports[m][k].name))

InstantiateAsync(m) ==
    /\ activity = "Idle"
    /\ activity' = "Async"
    /\ asyncRequired' = (asyncRequired \/ UsesAsyncHostFunction(m))
    /\ UNCHANGED <<lifecycle, nodes, queue, linker>>

(* The asynchronous operation completes or is dropped.                     *)
AsyncOperationEnds == /\ activity = "Async"
                      /\ activity' = "Idle"
                      /\ UNCHANGED <<lifecycle, nodes, queue, linker, asyncRequired>>

-----------------------------------------------------------------------------
GraphStep == \/ NodeDoesNotLink
             \/ NodeTraps
             \/ NodeIsNotPublished
             \/ InstantiateNode
             \/ FinishInstantiate

Next == \/ \E ns \in Namespaces, m \in Modules : AddModule(ns, m)
        \/ RefuseInstantiate
        \/ BeginInstantiate
        \/ GraphStep
        \/ \E k \in HostKeys, t \in HostTypes : DefineAsyncFunction(k, t)
        \/ \E m \in Modules : InstantiateAsync(m)
        \/ AsyncOperationEnds

Spec == Init /\ [][Next]_vars

(* Instantiation is one call, whose guests' start functions return.        *)
FairSpec == Spec /\ WF_vars(GraphStep)

-----------------------------------------------------------------------------
Nodes == [ns : Namespaces, mod : Modules, deps : SUBSET (1..Len(nodes)),
          hasInstance : BOOLEAN, links : Seq(linker)]

TypeOK ==
    /\ lifecycle \in {"Building", "Instantiating", "Instantiated", "Failed"}
    /\ activity \in {"Idle", "Exclusive", "Async"}
    /\ asyncRequired \in BOOLEAN
    /\ \A e \in linker : \/ e.owner = Host /\ e.key \in HostKeys /\ e.type \in HostTypes
                         \/ e.owner \in Namespaces /\ e.key[1] = e.owner
    /\ nodes \in Seq(Nodes)
    /\ queue \in Seq(1..Len(nodes))
    /\ \A n, p \in 1..Len(nodes) : nodes[n].ns = nodes[p].ns => n = p

(* Every import of an instantiated module is linked with the export it was *)
(* validated against: not with a host function of the same name, which the *)
(* module could not call from a synchronous operation, and not with a      *)
(* module that has no instance.                                            *)
LinkedAsValidated ==
    \A n \in 1..Len(nodes) : nodes[n].hasInstance =>
        \A k \in 1..Len(ImportsOf(n)) :
            \E p \in nodes[n].deps :
                /\ nodes[p].ns = nodes[n].links[k].owner
                /\ nodes[p].ns = ImportsOf(n)[k].ns
                /\ nodes[p].hasInstance

(* What was validated links: once the graph is being instantiated, Wasmtime *)
(* refuses a module only for a signature the validation does not compare,  *)
(* one with a reference or a vector in it, wanted or offered.              *)
Opaque(x) == ~IsSimpleFunctionSignature(Signature(x))

ValidatedImportsLink ==
    AtNode /\ Links(Current) = {} =>
        \E k \in 1..Len(ImportsOf(Current)) : LET i == ImportsOf(Current)[k] IN
            \/ Opaque(i)
            \/ \E n \in Providers(i) : \E x \in FindExport(nodes[n].mod, i.name) : Opaque(x)

(* A name in the linker has one definition, whoever defines first, the     *)
(* host between two attempts or the graph during one.                      *)
NamesMeanOneThing == \A e, f \in linker : e.key = f.key => e = f

(* A Program that claims to be instantiated is so completely: GetInstance  *)
(* never meets a module without an instance, and the linker has every      *)
(* export of every module.                                                 *)
WholeGraphPublished ==
    /\ \A ns \in Namespaces : GetInstance(ns) # "InvalidState"
    /\ lifecycle = "Instantiated" =>
          \A n \in 1..Len(nodes) : \A k \in 1..Len(Exports[nodes[n].mod]) :
              Entry(n, Exports[nodes[n].mod][k]) \in linker

GraphEntries == {e \in linker : e.owner # Host}

(* A graph that can still be changed has left nothing in the Store: every  *)
(* failure that allows another attempt comes before the first instance.    *)
BuildingIsClean ==
    lifecycle = "Building" => /\ \A n \in 1..Len(nodes) : ~nodes[n].hasInstance
                              /\ GraphEntries = {}

(* After success and after failure the graph never changes again, nor does *)
(* what it has published.                                                  *)
OutcomeIsFinal ==
    [][(lifecycle \in {"Instantiated", "Failed"})
          => UNCHANGED <<lifecycle, nodes, GraphEntries>>]_vars

(* Between its first step and its last an instantiation is alone: each     *)
(* step gives the module whose turn it is its only instance, or ends it    *)
(* for good and frees the Store; the instances there are stay as they are. *)
AttemptGoesOn ==
    [][lifecycle = "Instantiating" =>
          /\ \A n \in 1..Len(nodes) : nodes[n].hasInstance => nodes'[n] = nodes[n]
          /\ \/ lifecycle' \in {"Instantiated", "Failed"} /\ activity' = "Idle"
             \/ /\ lifecycle' = "Instantiating" /\ queue # <<>> /\ queue' = Tail(queue)
                /\ ~nodes[Current].hasInstance /\ nodes'[Current].hasInstance]_vars

(* An instantiation ends in one way or the other, and the Store with it is *)
(* free for others.                                                        *)
AttemptsEnd ==
    lifecycle = "Instantiating"
        ~> lifecycle \in {"Instantiated", "Failed"} /\ activity # "Exclusive"

-----------------------------------------------------------------------------
(* The graph seen through GetInstance: nothing, then every module, or never *)
(* anything.                                                               *)
Activation == INSTANCE GraphActivation
    WITH members <- {<<nodes[n].ns, nodes[n].mod>> : n \in 1..Len(nodes)},
         offered <- {<<nodes[n].ns, nodes[n].mod>> :
                        n \in {k \in 1..Len(nodes) : GetInstance(nodes[k].ns) = "OK"}},
         failed  <- lifecycle = "Failed"

ActivationKept == Activation!Spec

(* The graph uses the Store of the main domain as StoreOwnership allows:   *)
(* alone, and never again once the Store requires asynchronous operations. *)
Ownership == INSTANCE StoreOwnership
    WITH Stores     <- {"main"},
         AsyncUsers <- {"async"},
         SyncUser   <- "graph",
         Mutator    <- "mutator",
         users      <- [d \in {"main"} |->
                          (IF lifecycle = "Instantiating" THEN {"graph"} ELSE {})
                             \cup (IF activity = "Async" THEN {"async"} ELSE {})],
         asyncOnly  <- [d \in {"main"} |-> asyncRequired]

OwnershipKept == Ownership!Spec

-----------------------------------------------------------------------------
(* What the repository says of the program, refuted by a run of its own.   *)

(* "The graph also recognizes registered async host imports ... rather     *)
(* than misclassifying the import as an unresolved module dependency": no  *)
(* attempt is refused with MissingDependencyExport for an import that is   *)
(* registered as an asynchronous host function.                            *)
HostImportsRecognized ==
    MayInstantiate =>
        \A n \in 1..Len(nodes) : \A k \in 1..Len(ImportsOf(n)) :
            Refuses(n, k) /\ MissingDependencyExport(ImportsOf(n)[k]) =>
                ~HasAsyncHostFunction(Key(ImportsOf(n)[k].ns, ImportsOf(n)[k].name))
=============================================================================
