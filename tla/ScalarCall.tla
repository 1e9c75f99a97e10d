------------------------------ MODULE ScalarCall ------------------------------
(***************************************************************************)
(* The values of one call of an exported function, synchronous or          *)
(* asynchronous: from the C++ types of the host through tagged unions into *)
(* Wasmtime's, into the guest, and back.                                   *)
(*                                                                         *)
(* A union remembers which of its members was written: reading another one *)
(* yields Garbage.  Whether the call may happen at all (leases, lifetimes) *)
(* is the matter of StoreExecution.                                        *)
(***************************************************************************)
EXTENDS Naturals, Sequences, FiniteSets

CONSTANTS Exports,  \* Exports[name]: [kind, params, results] of the instance
          Names,    \* the names the host asks for, exported or not
          Payloads, \* what a value says, whatever its type
          MaxArgs,  \* how many arguments a call has at most
          Garbage,  \* what is read from a member that was not written
          None

ASSUME PayloadsAssumption ==
    /\ MaxArgs \in Nat
    /\ 0 \in Payloads
    /\ Garbage \notin Payloads
    /\ None \notin Payloads /\ None # Garbage

ASSUME ExportsAssumption ==
    \A name \in DOMAIN Exports :
        /\ Exports[name].params \in Seq(STRING)
        /\ Exports[name].results \in Seq(STRING)

ScalerKinds == {"I32", "I64", "F32", "F64"}

VARIABLES
    stage,   \* where the call is
    request, \* what the host called: mode, name, arguments and result type
    valid,   \* the ResolvedFunction objects of which m_bValid is true
    item,    \* the wasmtime_extern_t that was resolved
    argsAt,  \* the vector of packed arguments whose address Wasmtime has
    guest,   \* what the guest was entered with, and what came out of it
    slot,    \* the wasmtime_val_t for the result
    answer   \* what the host was told last

vars == <<stage, request, valid, item, argsAt, guest, slot, answer>>

-----------------------------------------------------------------------------
(* Tagged unions *)

(* A ScalerValue or a wasmtime_val_t whose member m was written.           *)
Tagged(kind, m, p) == [kind |-> kind, member |-> m, payload |-> p]
Member(u, m) == IF u.member = m THEN u.payload ELSE Garbage

PackScaler(type, p) == Tagged(type, type, p)
UnpackScaler(type, u) == Member(u, type)

ToWasmKind == [I32 |-> "i32", I64 |-> "i64", F32 |-> "f32", F64 |-> "f64"]

ToWasmtimeValue(u) == Tagged(ToWasmKind[u.kind], ToWasmKind[u.kind], Member(u, u.kind))

FromWasmtimeValue(w) ==
    IF \E k \in ScalerKinds : ToWasmKind[k] = w.kind
    THEN LET k == CHOOSE k \in ScalerKinds : ToWasmKind[k] = w.kind
         IN Tagged(k, k, Member(w, w.kind))
    ELSE Tagged("I32", "I32", 0)

(* The slot before the call: wasmtime_val_t{} has the kind 0, which is i32. *)
EmptySlot == Tagged("i32", "i32", 0)

-----------------------------------------------------------------------------
(* ResolveFunction *)

(* Variant: the result's kind is not compared.                             *)
ResolvedByParameters(name, args, type) ==
    LET f == Exports[name] IN
    IF name \notin DOMAIN Exports THEN "ExportNotFound"
    ELSE IF f.kind # "func" THEN "ExportNotFunction"
    ELSE IF \/ Len(f.params) # Len(args)
            \/ Len(f.results) # 1
            \/ \E i \in 1..Len(args) : f.params[i] # ToWasmKind[args[i].kind]
         THEN "SignatureMismatch"
    ELSE "OK"

ResolveFunction(name, args, type) ==
    LET f == Exports[name] IN
    IF name \notin DOMAIN Exports THEN "ExportNotFound"
    ELSE IF f.kind # "func" THEN "ExportNotFunction"
    ELSE IF \/ Len(f.params) # Len(args)
            \/ Len(f.results) # 1
            \/ \E i \in 1..Len(args) : f.params[i] # ToWasmKind[args[i].kind]
            \/ f.results[1] # ToWasmKind[type]
         THEN "SignatureMismatch"
    ELSE "OK"

(* Where a ResolvedFunction lives: the local of ResolveFunction, the       *)
(* Result it returns, the local of the caller, the parameter of the        *)
(* constructor of an AsyncCall's state, and that state.                    *)
Holders == {"resolved", "functionResult", "function", "parameter", "state"}

(* Variant: the object moved from stays valid.                             *)
Copied(v, from, to) == v \cup {to}

(* Of the valid ones in v, after a move.                                   *)
Moved(v, from, to) == (v \ {from}) \cup {to}

(* The extern after the objects in holders are destroyed, each of which    *)
(* deletes it if it is valid.                                              *)
AfterDestroying(holders, v) ==
    CASE Cardinality(holders \cap v) = 0 -> item
      [] Cardinality(holders \cap v) = 1 /\ item = "live" -> "deleted"
      [] OTHER -> "corrupt"

-----------------------------------------------------------------------------
NoRequest == [mode |-> "none", name |-> None, args |-> <<>>, type |-> "I32"]
NotEntered == [args |-> None, outcome |-> "none", payload |-> None]

Init == /\ stage = "idle"
        /\ request = NoRequest
        /\ valid = {}
        /\ item = "none"
        /\ argsAt = "nowhere"
        /\ guest = NotEntered
        /\ slot = EmptySlot
        /\ answer = [status |-> "none", payload |-> None]

Answer(status, p) == [status |-> status, payload |-> p]

(* Instance::Call and CallAsync pack the arguments and look the export up. *)
(* Nothing of a call is left for the next, so a behaviour has one.         *)
Asked(mode, name, args, type) ==
    /\ stage = "idle"
    /\ request' = [mode |-> mode, name |-> name, args |-> args, type |-> type]

NotFound(mode, name, args, type) ==
    /\ Asked(mode, name, args, type)
    /\ name \notin DOMAIN Exports
    /\ stage' = "done"
    /\ answer' = Answer(ResolveFunction(name, args, type), None)
    /\ UNCHANGED <<valid, item, argsAt, guest, slot>>

FindExport(mode, name, args, type) ==
    /\ Asked(mode, name, args, type)
    /\ name \in DOMAIN Exports
    /\ stage' = "found"
    /\ valid' = {"resolved"}
    /\ item' = "live"
    /\ UNCHANGED <<argsAt, guest, slot, answer>>

(* The local that holds the extern goes with the return, whatever it is.   *)
LeaveResolve(v) == /\ valid' = v \ {"resolved"}
                   /\ item' = AfterDestroying({"resolved"}, v)
                   /\ UNCHANGED <<request, argsAt, guest, slot>>

Resolution == ResolveFunction(request.name, request.args, request.type)

Refused == /\ stage = "found"
           /\ Resolution # "OK"
           /\ stage' = "done"
           /\ answer' = Answer(Resolution, None)
           /\ LeaveResolve(valid)

(* Wasmtime does not tell the type of a function.                          *)
NotInspected == /\ stage = "found"
                /\ Exports[request.name].kind = "func"
                /\ stage' = "done"
                /\ answer' = Answer("CallFailed", None)
                /\ LeaveResolve(valid)

Resolved == /\ stage = "found"
            /\ Resolution = "OK"
            /\ stage' = "resolved"
            /\ LeaveResolve(Moved(valid, "resolved", "functionResult"))
            /\ UNCHANGED answer

(* The caller takes the function out of the Result and packs the arguments *)
(* into a vector of its own.                                               *)
Unwrap == /\ stage = "resolved"
          /\ stage' = "ready to call"
          /\ valid' = Moved(valid, "functionResult", "function")
          /\ argsAt' = "local"
          /\ UNCHANGED <<request, item, guest, slot, answer>>

(* Variant: Wasmtime is given the vector of the function that returns.     *)
AddressOfLocal == "local"

AddressOfState == "state"

(* CallScalerAsync moves function and arguments into the AsyncCallState    *)
(* and gives Wasmtime their addresses there: the future outlives the call  *)
(* of CallScalerAsync, whose locals are gone when it is first polled.  If  *)
(* Wasmtime returns no future, the state goes with them.                   *)
InState == Moved(Moved(valid, "function", "parameter"), "parameter", "state")

AsyncFails ==
    /\ stage = "ready to call" /\ request.mode = "async"
    /\ stage' = "done"
    /\ valid' = {}
    /\ item' = AfterDestroying(Holders, InState)
    /\ argsAt' = AddressOfState
    /\ answer' = Answer("CallFailed", None)
    /\ UNCHANGED <<request, guest, slot>>

StartAsync ==
    /\ stage = "ready to call" /\ request.mode = "async"
    /\ stage' = "future"
    /\ valid' = InState \ {"parameter", "function", "functionResult"}
    /\ item' = AfterDestroying({"parameter", "function", "functionResult"}, InState)
    /\ argsAt' = AddressOfState
    /\ UNCHANGED <<request, guest, slot, answer>>

(* What Wasmtime finds at the address of the arguments.                    *)
PassedArguments ==
    [i \in 1..Len(request.args) |->
        LET w == ToWasmtimeValue(request.args[i])
        IN IF argsAt = "local" /\ request.mode = "async"
           THEN [w EXCEPT !.payload = Garbage] ELSE w]

EnterGuest ==
    /\ \/ stage = "ready to call" /\ request.mode = "sync"
       \/ stage = "future"
    /\ stage' = "guest"
    /\ guest' = [guest EXCEPT !.args = PassedArguments]
    /\ UNCHANGED <<request, valid, item, argsAt, slot, answer>>

(* The guest returns a value of its result type; or it traps, or Wasmtime  *)
(* reports an error.                                                       *)
Outcome(o, p) ==
    /\ guest' = [guest EXCEPT !.outcome = o, !.payload = p]
    /\ slot' = IF o = "OK" THEN LET k == Exports[request.name].results[1] IN Tagged(k, k, p)
                           ELSE slot

Outcomes == ({"OK"} \X Payloads) \cup ({"Trap", "CallFailed"} \X {None})

Told(o, w) == IF o = "OK" THEN Answer("OK", UnpackScaler(request.type, FromWasmtimeValue(w)))
                          ELSE Answer(o, None)

FinishSync(o, p) ==
    /\ stage = "guest" /\ request.mode = "sync"
    /\ Outcome(o, p)
    /\ answer' = Told(o, slot')
    /\ item' = AfterDestroying({"function", "functionResult"}, valid)
    /\ valid' = valid \ {"function", "functionResult"}
    /\ stage' = "done"
    /\ UNCHANGED <<request, argsAt>>

FinishAsync(o, p) ==
    /\ stage = "guest" /\ request.mode = "async"
    /\ Outcome(o, p)
    /\ stage' = "complete"
    /\ UNCHANGED <<request, valid, item, argsAt, answer>>

(* AsyncCall::TakeResult; a second time, or too early, it is an error that *)
(* changes nothing.                                                        *)
TakeResult ==
    /\ stage = "complete"
    /\ stage' = "taken"
    /\ answer' = Told(guest.outcome, slot)
    /\ UNCHANGED <<request, valid, item, argsAt, guest, slot>>

(* The AsyncCallState is destroyed, at any time.                           *)
DropCall == /\ stage \in {"future", "guest", "complete", "taken"}
            /\ request.mode = "async"
            /\ stage' = "done"
            /\ item' = AfterDestroying({"state"}, valid)
            /\ valid' = valid \ {"state"}
            /\ UNCHANGED <<request, argsAt, guest, slot, answer>>

Packed(types, ps) == [i \in DOMAIN types |-> PackScaler(types[i], ps[i])]
ArgLists == UNION {{Packed(types, ps) : types \in [1..n -> ScalerKinds], ps \in [1..n -> Payloads]}
                     : n \in 0..MaxArgs}

Call == \E mode \in {"sync", "async"}, name \in Names, args \in ArgLists, type \in ScalerKinds :
            NotFound(mode, name, args, type) \/ FindExport(mode, name, args, type)

Next == \/ Call
        \/ Refused
        \/ NotInspected
        \/ Resolved
        \/ Unwrap
        \/ StartAsync
        \/ AsyncFails
        \/ EnterGuest
        \/ \E o \in Outcomes : FinishSync(o[1], o[2]) \/ FinishAsync(o[1], o[2])
        \/ TakeResult
        \/ DropCall

Spec == Init /\ [][Next]_vars

-----------------------------------------------------------------------------
TypeOK ==
    /\ stage \in {"idle", "found", "resolved", "ready to call", "future", "guest", "complete",
                  "taken", "done"}
    /\ request.mode \in {"none", "sync", "async"}
    /\ request.type \in ScalerKinds
    /\ valid \subseteq Holders
    /\ item \in {"none", "live", "deleted", "corrupt"}
    /\ argsAt \in {"nowhere", "local", "state"}
    /\ guest.outcome \in {"none", "OK", "Trap", "CallFailed"}
    /\ slot.kind = slot.member /\ slot.payload \in Payloads

(* The reference: a C++ call R(A1, ..., An) fits a WebAssembly function    *)
(* when the function's type is exactly that.                               *)
Fits == /\ request.name \in DOMAIN Exports
        /\ Exports[request.name].kind = "func"
        /\ Exports[request.name].params =
             [i \in 1..Len(request.args) |-> ToWasmKind[request.args[i].kind]]
        /\ Exports[request.name].results = <<ToWasmKind[request.type]>>

(* The guest runs only with as many arguments as it has parameters, of     *)
(* their kinds and with what the host passed, also when it runs long after *)
(* the C++ function that started it has returned.                          *)
GuestGetsArguments ==
    stage = "guest" =>
        /\ Fits
        /\ guest.args = [i \in 1..Len(request.args) |->
                            LET k == ToWasmKind[request.args[i].kind]
                            IN Tagged(k, k, request.args[i].payload)]

(* What the host is told: a value is the one the guest returned, read as   *)
(* the type it has; a trap or an error is the guest's, unless it was never *)
(* entered; and a refusal means that the types differ and the guest has    *)
(* not run.                                                                *)
AnswerIsTrue ==
    /\ answer.status = "OK" => guest.outcome = "OK" /\ answer.payload = guest.payload
    /\ answer.status = "Trap" => guest.outcome = "Trap"
    /\ answer.status = "CallFailed" => guest.outcome = "CallFailed" \/ guest = NotEntered
    /\ answer.status \in {"ExportNotFound", "ExportNotFunction", "SignatureMismatch"} =>
          ~Fits /\ guest = NotEntered

(* A resolved export has one valid holder as long as it lives, through all *)
(* the moves, is there while the guest can run, and is deleted once.       *)
ExternOwned ==
    /\ item # "corrupt"
    /\ item = "live" <=> Cardinality(valid) = 1
    /\ Cardinality(valid) <= 1
    /\ stage \notin {"idle", "done"} <=> item = "live"
=============================================================================
