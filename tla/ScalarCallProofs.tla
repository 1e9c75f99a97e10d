--------------------------- MODULE ScalarCallProofs ---------------------------
(***************************************************************************)
(* Proofs about ScalarCall, for every instance, every set of values and    *)
(* calls of any length: what the guest is entered with, what the host is   *)
(* told and who owns the resolved export.                                  *)
(***************************************************************************)
EXTENDS ScalarCall, SequenceTheorems, FiniteSetTheorems, TLAPS

-----------------------------------------------------------------------------
(* Values *)

Packeds == {PackScaler(t, p) : t \in ScalerKinds, p \in Payloads}

(* An argument list is a sequence of values packed as what they are.       *)
LEMMA PackedArguments ==
    ASSUME NEW args \in ArgLists
    PROVE  args \in Seq(Packeds)
<1>1. PICK n \in 0..MaxArgs :
         args \in {Packed(types, ps) : types \in [1..n -> ScalerKinds], ps \in [1..n -> Payloads]}
  BY DEF ArgLists
<1>2. PICK types \in [1..n -> ScalerKinds], ps \in [1..n -> Payloads] : args = Packed(types, ps)
  BY <1>1
<1>3. n \in Nat
  BY PayloadsAssumption
<1>4. args = [i \in 1..n |-> PackScaler(types[i], ps[i])]
  BY <1>2 DEF Packed
<1>5. \A i \in 1..n : PackScaler(types[i], ps[i]) \in Packeds
  BY DEF Packeds
<1>6. args \in [1..n -> Packeds]
  BY <1>4, <1>5
<1> QED
  BY <1>3, <1>6, SeqDef

LEMMA PackedValue ==
    ASSUME NEW u \in Packeds
    PROVE  /\ u.kind \in ScalerKinds /\ u.payload \in Payloads
           /\ Member(u, u.kind) = u.payload
  BY DEF Packeds, PackScaler, Tagged, Member

(* The four kinds are translated into different ones.                      *)
LEMMA KindsDiffer ==
    ASSUME NEW s \in ScalerKinds, NEW t \in ScalerKinds
    PROVE  ToWasmKind[s] = ToWasmKind[t] => s = t
<1>1. /\ ToWasmKind["I32"] = "i32" /\ ToWasmKind["I64"] = "i64"
      /\ ToWasmKind["F32"] = "f32" /\ ToWasmKind["F64"] = "f64"
  BY DEF ToWasmKind
<1>2. s \in {"I32", "I64", "F32", "F64"} /\ t \in {"I32", "I64", "F32", "F64"}
  BY DEF ScalerKinds
<1> QED
  BY <1>1, <1>2, Zenon

(* A guest's value of the type asked for comes back as it was.             *)
LEMMA RoundTrip ==
    ASSUME NEW type \in ScalerKinds, NEW p
    PROVE  LET k == ToWasmKind[type]
           IN UnpackScaler(type, FromWasmtimeValue(Tagged(k, k, p))) = p
<1> DEFINE k == ToWasmKind[type]
           w == Tagged(k, k, p)
           c == CHOOSE t \in ScalerKinds : ToWasmKind[t] = w.kind
<1>1. w.kind = k /\ w.member = k /\ w.payload = p
  BY DEF Tagged
<1>2. c \in ScalerKinds /\ ToWasmKind[c] = k
  BY <1>1
<1>3. c = type
  BY <1>2, KindsDiffer
<1>4. FromWasmtimeValue(w) = Tagged(c, c, Member(w, w.kind))
  BY <1>1 DEF FromWasmtimeValue
<1>5. Member(w, w.kind) = p
  BY <1>1 DEF Member
<1>6. FromWasmtimeValue(w) = Tagged(type, type, p)
  BY <1>3, <1>4, <1>5
<1> HIDE DEF w
<1>7. UnpackScaler(type, FromWasmtimeValue(w)) = p
  BY <1>6 DEF UnpackScaler, Member, Tagged
<1> QED
  BY <1>7 DEF w

(* What Wasmtime reads at an address that is still good is what was passed. *)
LEMMA PassedAsGiven ==
    ASSUME request.args \in ArgLists, ~(argsAt = "local" /\ request.mode = "async")
    PROVE  PassedArguments = [i \in 1..Len(request.args) |->
                                LET k == ToWasmKind[request.args[i].kind]
                                IN Tagged(k, k, request.args[i].payload)]
<1>1. ASSUME NEW i \in 1..Len(request.args)
      PROVE  ToWasmtimeValue(request.args[i])
               = LET k == ToWasmKind[request.args[i].kind]
                 IN Tagged(k, k, request.args[i].payload)
  <2>1. request.args[i] \in Packeds
    BY PackedArguments, ElementOfSeq
  <2> QED
    BY <2>1, PackedValue DEF ToWasmtimeValue
<1> QED
  BY <1>1 DEF PassedArguments

-----------------------------------------------------------------------------
(* Resolution *)

(* The comparisons of ResolveFunction amount to the equality of the types. *)
LEMMA ResolvedMeansFits ==
    ASSUME NEW name, NEW args \in ArgLists, NEW type \in ScalerKinds
    PROVE  ResolveFunction(name, args, type) = "OK"
             <=> /\ name \in DOMAIN Exports
                 /\ Exports[name].kind = "func"
                 /\ Exports[name].params = [i \in 1..Len(args) |-> ToWasmKind[args[i].kind]]
                 /\ Exports[name].results = <<ToWasmKind[type]>>
<1> DEFINE wanted == [i \in 1..Len(args) |-> ToWasmKind[args[i].kind]]
           f == Exports[name]
           Kinds == STRING \cup {ToWasmKind[t] : t \in ScalerKinds}
<1>0. \A q \in Seq(STRING) : q \in Seq(Kinds)
  <2>1. TAKE q \in Seq(STRING)
  <2>2. Len(q) \in Nat /\ q \in [1..Len(q) -> STRING]
    BY LenProperties
  <2>3. q \in [1..Len(q) -> Kinds]
    BY <2>2
  <2> QED
    BY <2>2, <2>3, SeqDef
<1>1. CASE name \notin DOMAIN Exports
  BY <1>1 DEF ResolveFunction
<1>2. CASE name \in DOMAIN Exports /\ f.kind # "func"
  BY <1>2 DEF ResolveFunction
<1>3. CASE name \in DOMAIN Exports /\ f.kind = "func"
  <2>1. f.params \in Seq(Kinds) /\ f.results \in Seq(Kinds)
    BY <1>0, <1>3, ExportsAssumption
  <2>2. args \in Seq(Packeds) /\ Len(args) \in Nat
    BY PackedArguments, LenProperties
  <2>3. \A i \in 1..Len(args) : ToWasmKind[args[i].kind] \in Kinds
    BY <2>2, ElementOfSeq, PackedValue
  <2>4. wanted \in [1..Len(args) -> Kinds]
    BY <2>3
  <2>5. wanted \in Seq(Kinds) /\ Len(wanted) = Len(args)
    BY <2>2, <2>4, SeqDef, LenProperties
  <2>6. f.params = wanted <=> /\ Len(f.params) = Len(args)
                              /\ \A i \in 1..Len(args) : f.params[i] = ToWasmKind[args[i].kind]
    <3>1. ASSUME Len(f.params) = Len(args),
                 \A i \in 1..Len(args) : f.params[i] = ToWasmKind[args[i].kind]
          PROVE  f.params = wanted
      <4>1. \A i \in 1..Len(f.params) : f.params[i] = wanted[i]
        BY <3>1
      <4> HIDE DEF wanted, f, Kinds
      <4> QED
        BY <3>1, <4>1, <2>1, <2>5, SeqEqual
    <3>2. ASSUME f.params = wanted
          PROVE  /\ Len(f.params) = Len(args)
                 /\ \A i \in 1..Len(args) : f.params[i] = ToWasmKind[args[i].kind]
      BY <3>2, <2>5
    <3> QED
      BY <3>1, <3>2
  <2>7. f.results = <<ToWasmKind[type]>> <=> Len(f.results) = 1 /\ f.results[1] = ToWasmKind[type]
    <3>1. <<ToWasmKind[type]>> \in Seq(Kinds)
      OBVIOUS
    <3>2. ASSUME Len(f.results) = 1, f.results[1] = ToWasmKind[type]
          PROVE  f.results = <<ToWasmKind[type]>>
      <4>1. \A i \in 1..Len(f.results) : f.results[i] = <<ToWasmKind[type]>>[i]
        BY <3>2
      <4> HIDE DEF f, Kinds
      <4> QED
        BY <3>1, <3>2, <4>1, <2>1, SeqEqual
    <3> QED
      BY <3>2
  <2>8. ResolveFunction(name, args, type) = "OK"
          <=> /\ Len(f.params) = Len(args) /\ Len(f.results) = 1
              /\ \A i \in 1..Len(args) : f.params[i] = ToWasmKind[args[i].kind]
              /\ f.results[1] = ToWasmKind[type]
    BY <1>3 DEF ResolveFunction
  <2> HIDE DEF wanted, f
  <2>9. ResolveFunction(name, args, type) = "OK"
          <=> f.params = wanted /\ f.results = <<ToWasmKind[type]>>
    BY <2>6, <2>7, <2>8
  <2> QED
    BY <1>3, <2>9 DEF wanted, f
<1> QED
  BY <1>1, <1>2, <1>3

-----------------------------------------------------------------------------
(* The owner of the extern *)

LEMMA Singles ==
    ASSUME NEW h
    PROVE  Cardinality({h}) = 1 /\ Cardinality({}) = 0
  BY FS_Singleton, FS_EmptySet

LEMMA DestroyingOwner ==
    ASSUME NEW hs, NEW h \in hs, item = "live"
    PROVE  AfterDestroying(hs, {h}) = "deleted"
<1>1. hs \cap {h} = {h}
  OBVIOUS
<1>2. Cardinality(hs \cap {h}) = 1
  BY <1>1, Singles, Zenon
<1> QED
  BY <1>2 DEF AfterDestroying

LEMMA DestroyingOthers ==
    ASSUME NEW hs, NEW h, h \notin hs, item = "live"
    PROVE  AfterDestroying(hs, {h}) = "live"
<1>1. hs \cap {h} = {}
  OBVIOUS
<1>2. Cardinality(hs \cap {h}) = 0
  BY <1>1, Singles, Zenon
<1> QED
  BY <1>2 DEF AfterDestroying

-----------------------------------------------------------------------------
(* The inductive invariant: who holds the export, and where the arguments  *)
(* are, at each stage.                                                     *)

Going == stage \notin {"idle", "done"}

Returned == LET k == Exports[request.name].results[1] IN Tagged(k, k, guest.payload)

HolderInv ==
    /\ stage = "idle" => valid = {} /\ item = "none"
    /\ stage = "found" => valid = {"resolved"}
    /\ stage = "resolved" => valid = {"functionResult"}
    /\ stage = "ready to call" => valid = {"function"} /\ argsAt = "local"
    /\ stage = "guest" => valid = IF request.mode = "sync" THEN {"function"} ELSE {"state"}
    /\ stage \in {"future", "complete", "taken"} => valid = {"state"} /\ request.mode = "async"
    /\ stage = "future" => argsAt = "state"
    /\ stage = "done" => valid = {} /\ item \in {"none", "deleted"}
    /\ Going => item = "live"

ValueInv ==
    /\ DOMAIN guest = {"args", "outcome", "payload"}
    /\ Going => request.mode # "none" /\ request.args \in ArgLists
    /\ Going => stage = "found" \/ Fits
    /\ stage \in {"idle", "found", "resolved", "ready to call", "future"} => guest = NotEntered
    /\ stage \in {"idle", "found", "resolved", "ready to call", "future", "guest", "complete"}
          => answer.status = "none"
    /\ stage \in {"complete", "taken"} => /\ guest.outcome # "none"
                                          /\ guest.outcome = "OK" => slot = Returned

CallInv == TypeOK /\ HolderInv /\ ValueInv /\ GuestGetsArguments /\ AnswerIsTrue

LEMMA InitCall == Init => CallInv
<1> SUFFICES ASSUME Init PROVE CallInv
  OBVIOUS
<1>1. TypeOK
  BY PayloadsAssumption DEF Init, TypeOK, NoRequest, NotEntered, EmptySlot, Tagged, ScalerKinds
<1>2. HolderInv /\ ValueInv /\ GuestGetsArguments /\ AnswerIsTrue
  BY DEF Init, HolderInv, ValueInv, GuestGetsArguments, AnswerIsTrue, Going, NotEntered
<1> QED
  BY <1>1, <1>2 DEF CallInv

LEMMA NotFoundStep ==
    ASSUME CallInv, NEW mode \in {"sync", "async"}, NEW name \in Names, NEW args \in ArgLists,
           NEW type \in ScalerKinds, NotFound(mode, name, args, type)
    PROVE  CallInv'
<1> USE DEF NotFound, Asked
<1>1. request' = [mode |-> mode, name |-> name, args |-> args, type |-> type]
  OBVIOUS
<1>2. ~Fits'
  BY <1>1 DEF Fits
<1>3. answer'.status = "ExportNotFound"
  BY DEF Answer, ResolveFunction
<1>4. TypeOK'
  BY <1>1 DEF CallInv, TypeOK
<1>5. HolderInv'
  BY DEF CallInv, HolderInv, Going
<1>6. ValueInv'
  BY DEF CallInv, ValueInv, Going
<1>7. GuestGetsArguments'
  BY DEF GuestGetsArguments
<1>8. AnswerIsTrue'
  <2>1. guest' = NotEntered
    BY DEF CallInv, ValueInv
  <2> QED
    BY <1>2, <1>3, <2>1 DEF AnswerIsTrue
<1> QED
  BY <1>4, <1>5, <1>6, <1>7, <1>8 DEF CallInv

LEMMA FindStep ==
    ASSUME CallInv, NEW mode \in {"sync", "async"}, NEW name \in Names, NEW args \in ArgLists,
           NEW type \in ScalerKinds, FindExport(mode, name, args, type)
    PROVE  CallInv'
<1> USE DEF FindExport, Asked
<1>1. request' = [mode |-> mode, name |-> name, args |-> args, type |-> type]
  OBVIOUS
<1>2. answer'.status = "none" /\ guest' = NotEntered
  BY DEF CallInv, ValueInv
<1>3. TypeOK'
  BY <1>1 DEF CallInv, TypeOK, Holders
<1>4. HolderInv'
  BY DEF CallInv, HolderInv, Going
<1>5. ValueInv'
  BY <1>1, <1>2 DEF ValueInv, Going, NotEntered
<1>6. GuestGetsArguments'
  BY DEF GuestGetsArguments
<1>7. AnswerIsTrue'
  BY <1>2 DEF AnswerIsTrue
<1> QED
  BY <1>3, <1>4, <1>5, <1>6, <1>7 DEF CallInv

(* A refusal, of the type or because it cannot be told, deletes the extern. *)
LEMMA RefusedStep ==
    ASSUME CallInv, Refused \/ NotInspected
    PROVE  CallInv'
<1> USE DEF Refused, NotInspected, LeaveResolve
<1>1. stage = "found" /\ stage' = "done" /\ UNCHANGED <<request, argsAt, guest, slot>>
  OBVIOUS
<1>2. valid = {"resolved"} /\ item = "live" /\ guest = NotEntered
  BY <1>1 DEF CallInv, HolderInv, ValueInv, Going
<1>3. item' = "deleted" /\ valid' = {}
  <2>1. item' = AfterDestroying({"resolved"}, valid) /\ valid' = valid \ {"resolved"}
    OBVIOUS
  <2>2. AfterDestroying({"resolved"}, {"resolved"}) = "deleted"
    BY <1>2, DestroyingOwner
  <2> QED
    BY <1>2, <2>1, <2>2
<1>4. \/ ~Fits /\ answer'.status \in {"ExportNotFound", "ExportNotFunction", "SignatureMismatch"}
      \/ answer'.status = "CallFailed"
  <2>1. CASE Refused
    <3>1. request.args \in ArgLists /\ request.type \in ScalerKinds
      BY <1>1 DEF CallInv, ValueInv, TypeOK, Going
    <3>2. ~Fits
      BY <2>1, <3>1, ResolvedMeansFits DEF Fits, Resolution
    <3>3. answer'.status \in {"ExportNotFound", "ExportNotFunction", "SignatureMismatch"}
      BY <2>1 DEF Answer, Resolution, ResolveFunction
    <3> QED
      BY <3>2, <3>3
  <2>2. CASE NotInspected
    BY <2>2 DEF Answer
  <2> QED
    BY <2>1, <2>2
<1> HIDE DEF Refused, NotInspected, LeaveResolve
<1>5. Fits' <=> Fits
  BY <1>1 DEF Fits
<1>6. TypeOK'
  BY <1>1, <1>3 DEF CallInv, TypeOK
<1>7. HolderInv'
  BY <1>1, <1>3 DEF HolderInv, Going
<1>8. ValueInv'
  BY <1>1, <1>2 DEF CallInv, ValueInv, Going, NotEntered
<1>9. GuestGetsArguments'
  BY <1>1 DEF GuestGetsArguments
<1>10. AnswerIsTrue'
  BY <1>1, <1>2, <1>4, <1>5 DEF AnswerIsTrue
<1> QED
  BY <1>6, <1>7, <1>8, <1>9, <1>10 DEF CallInv

LEMMA ResolvedStep ==
    ASSUME CallInv, Resolved
    PROVE  CallInv'
<1> USE DEF Resolved, LeaveResolve
<1>1. request.args \in ArgLists /\ request.type \in ScalerKinds /\ request.mode # "none"
  BY DEF CallInv, ValueInv, TypeOK, Going
<1>2. valid = {"resolved"} /\ item = "live" /\ guest = NotEntered /\ answer.status = "none"
  BY DEF CallInv, HolderInv, ValueInv, Going
<1>3. valid' = {"functionResult"} /\ item' = "live"
  <2>1. Moved(valid, "resolved", "functionResult") = {"functionResult"}
    BY <1>2 DEF Moved
  <2>2. "functionResult" \notin {"resolved"}
    OBVIOUS
  <2>3. AfterDestroying({"resolved"}, {"functionResult"}) = "live"
    BY <1>2, <2>2, DestroyingOthers, Zenon
  <2> QED
    BY <2>1, <2>3
<1>4. Fits
  BY <1>1, ResolvedMeansFits DEF Fits, Resolution
<1>5. Fits' <=> Fits
  BY DEF Fits
<1>6. TypeOK'
  BY <1>3 DEF CallInv, TypeOK, Holders
<1>7. HolderInv'
  BY <1>3 DEF CallInv, HolderInv, Going
<1>8. ValueInv'
  BY <1>1, <1>2, <1>4, <1>5 DEF ValueInv, Going, NotEntered
<1>9. GuestGetsArguments'
  BY DEF GuestGetsArguments
<1>10. AnswerIsTrue'
  BY <1>2 DEF AnswerIsTrue
<1> QED
  BY <1>6, <1>7, <1>8, <1>9, <1>10 DEF CallInv

LEMMA UnwrapStep ==
    ASSUME CallInv, Unwrap
    PROVE  CallInv'
<1> USE DEF Unwrap
<1>1. valid' = {"function"}
  BY DEF CallInv, HolderInv, Moved
<1>2. Fits' <=> Fits
  BY DEF Fits
<1>3. TypeOK'
  BY <1>1 DEF CallInv, TypeOK, Holders
<1>4. HolderInv'
  BY <1>1 DEF CallInv, HolderInv, Going
<1>5. ValueInv'
  BY <1>2 DEF CallInv, ValueInv, Going
<1>6. GuestGetsArguments'
  BY DEF GuestGetsArguments
<1>7. AnswerIsTrue'
  BY <1>2 DEF CallInv, AnswerIsTrue
<1> QED
  BY <1>3, <1>4, <1>5, <1>6, <1>7 DEF CallInv

LEMMA StartStep ==
    ASSUME CallInv, StartAsync
    PROVE  CallInv'
<1> USE DEF StartAsync
<1>1. InState = {"state"}
  BY DEF CallInv, HolderInv, Moved, InState
<1>2. valid' = {"state"}
  BY <1>1
<1>3. item' = "live"
  <2>1. item = "live" /\ "state" \notin {"parameter", "function", "functionResult"}
    BY DEF CallInv, HolderInv, Going
  <2>2. AfterDestroying({"parameter", "function", "functionResult"}, {"state"}) = "live"
    BY <2>1, DestroyingOthers, Zenon
  <2> QED
    BY <1>1, <2>2
<1>4. Fits' <=> Fits
  BY DEF Fits
<1>5. TypeOK'
  BY <1>2, <1>3 DEF CallInv, TypeOK, Holders, AddressOfState
<1>6. HolderInv'
  BY <1>2, <1>3 DEF CallInv, HolderInv, Going, AddressOfState
<1>7. ValueInv'
  BY <1>4 DEF CallInv, ValueInv, Going
<1>8. GuestGetsArguments'
  BY DEF GuestGetsArguments
<1>9. AnswerIsTrue'
  BY <1>4 DEF CallInv, AnswerIsTrue
<1> QED
  BY <1>5, <1>6, <1>7, <1>8, <1>9 DEF CallInv

LEMMA FailsStep ==
    ASSUME CallInv, AsyncFails
    PROVE  CallInv'
<1> USE DEF AsyncFails
<1>1. InState = {"state"}
  BY DEF CallInv, HolderInv, Moved, InState
<1>2. item' = "deleted"
  <2>1. item = "live" /\ "state" \in Holders
    BY DEF CallInv, HolderInv, Going, Holders
  <2>2. AfterDestroying(Holders, {"state"}) = "deleted"
    BY <2>1, DestroyingOwner, Zenon
  <2> QED
    BY <1>1, <2>2
<1>3. guest' = NotEntered
  BY DEF CallInv, ValueInv
<1>4. TypeOK'
  BY <1>2 DEF CallInv, TypeOK, Holders, AddressOfState
<1>5. HolderInv'
  BY <1>2 DEF HolderInv, Going
<1>6. ValueInv'
  BY <1>3 DEF ValueInv, Going, NotEntered
<1>7. GuestGetsArguments'
  BY DEF GuestGetsArguments
<1>8. AnswerIsTrue'
  BY <1>3 DEF AnswerIsTrue, Answer
<1> QED
  BY <1>4, <1>5, <1>6, <1>7, <1>8 DEF CallInv

LEMMA EnterStep ==
    ASSUME CallInv, EnterGuest
    PROVE  CallInv'
<1> USE DEF EnterGuest
<1>1. ~(argsAt = "local" /\ request.mode = "async")
  BY DEF CallInv, HolderInv
<1>2. Going /\ request.args \in ArgLists /\ Fits
  BY DEF CallInv, ValueInv, Going
<1>3. Fits' <=> Fits
  BY DEF Fits
<1>4. guest' = [guest EXCEPT !.args = PassedArguments]
  OBVIOUS
<1>5. guest = NotEntered /\ answer.status = "none"
  BY DEF CallInv, ValueInv
<1>6. guest'.args = PassedArguments /\ guest'.outcome = "none"
  BY <1>4, <1>5 DEF NotEntered
<1>7. TypeOK'
  BY <1>6 DEF CallInv, TypeOK
<1>8. HolderInv'
  BY DEF CallInv, HolderInv, Going, TypeOK
<1>9. ValueInv'
  BY <1>2, <1>3 DEF CallInv, ValueInv, Going
<1>10. GuestGetsArguments'
  <2>1. guest'.args = [i \in 1..Len(request.args) |->
                          LET k == ToWasmKind[request.args[i].kind]
                          IN Tagged(k, k, request.args[i].payload)]
    BY <1>1, <1>2, <1>6, PassedAsGiven
  <2>2. request' = request
    OBVIOUS
  <2> QED
    BY <1>2, <1>3, <2>1, <2>2 DEF GuestGetsArguments
<1>11. AnswerIsTrue'
  BY <1>5 DEF AnswerIsTrue
<1> QED
  BY <1>7, <1>8, <1>9, <1>10, <1>11 DEF CallInv

(* What the end of the guest's run leaves in the slot.                     *)
LEMMA OutcomeProperties ==
    ASSUME CallInv, stage = "guest", request' = request,
           NEW o, NEW p, <<o, p>> \in Outcomes, Outcome(o, p)
    PROVE  /\ o \in {"OK", "Trap", "CallFailed"}
           /\ guest'.outcome = o /\ guest'.payload = p
           /\ slot'.kind = slot'.member /\ slot'.payload \in Payloads
           /\ o = "OK" => slot' = Returned'
<1>1. \/ o = "OK" /\ p \in Payloads
      \/ o \in {"Trap", "CallFailed"} /\ p = None
  BY DEF Outcomes
<1>2. guest' = [guest EXCEPT !.outcome = o, !.payload = p]
  BY DEF Outcome
<1>3. DOMAIN guest = {"args", "outcome", "payload"}
  BY DEF CallInv, ValueInv
<1> QED
  BY <1>1, <1>2, <1>3 DEF Outcome, Returned, Tagged, CallInv, TypeOK

(* What the host is told of it.                                            *)
LEMMA ToldTruly ==
    ASSUME NEW o \in {"OK", "Trap", "CallFailed"}, NEW w, NEW p, request.type \in ScalerKinds,
           o = "OK" => w = LET k == ToWasmKind[request.type] IN Tagged(k, k, p)
    PROVE  /\ Told(o, w).status = o
           /\ o = "OK" => Told(o, w).payload = p
<1>1. CASE o # "OK"
  BY <1>1 DEF Told, Answer
<1>2. CASE o = "OK"
  <2>1. UnpackScaler(request.type, FromWasmtimeValue(w)) = p
    BY <1>2, RoundTrip
  <2> QED
    BY <1>2, <2>1 DEF Told, Answer
<1> QED
  BY <1>1, <1>2

LEMMA FinishSyncStep ==
    ASSUME CallInv, NEW o, NEW p, <<o, p>> \in Outcomes, FinishSync(o, p)
    PROVE  CallInv'
<1> USE DEF FinishSync
<1>1. /\ o \in {"OK", "Trap", "CallFailed"}
      /\ guest'.outcome = o
      /\ slot'.kind = slot'.member /\ slot'.payload \in Payloads
      /\ o = "OK" => slot' = Returned'
  BY OutcomeProperties
<1>2. Fits /\ request.type \in ScalerKinds
  BY DEF CallInv, ValueInv, TypeOK, Going
<1>3. o = "OK" => slot' = LET k == ToWasmKind[request.type] IN Tagged(k, k, guest'.payload)
  BY <1>1, <1>2 DEF Fits, Returned
<1>4. answer'.status = o /\ (o = "OK" => answer'.payload = guest'.payload)
  <2>1. /\ Told(o, slot').status = o
        /\ o = "OK" => Told(o, slot').payload = guest'.payload
    BY <1>1, <1>2, <1>3, ToldTruly
  <2> QED
    BY <2>1
<1>5. item' = "deleted"
  <2>1. item = "live" /\ "function" \in {"function", "functionResult"}
    BY DEF CallInv, HolderInv, Going
  <2>2. AfterDestroying({"function", "functionResult"}, {"function"}) = "deleted"
    BY <2>1, DestroyingOwner, Zenon
  <2> QED
    BY <2>2 DEF CallInv, HolderInv
<1>6. valid' = {}
  BY DEF CallInv, HolderInv
<1>7. TypeOK'
  BY <1>1, <1>5, <1>6 DEF CallInv, TypeOK, Holders
<1>8. HolderInv'
  BY <1>5, <1>6 DEF HolderInv, Going
<1>9. ValueInv'
  BY DEF CallInv, ValueInv, Going, Outcome
<1>10. GuestGetsArguments'
  BY DEF GuestGetsArguments
<1>11. AnswerIsTrue'
  BY <1>1, <1>4 DEF AnswerIsTrue
<1> QED
  BY <1>7, <1>8, <1>9, <1>10, <1>11 DEF CallInv

LEMMA FinishAsyncStep ==
    ASSUME CallInv, NEW o, NEW p, <<o, p>> \in Outcomes, FinishAsync(o, p)
    PROVE  CallInv'
<1> USE DEF FinishAsync
<1>1. /\ o \in {"OK", "Trap", "CallFailed"}
      /\ guest'.outcome = o
      /\ slot'.kind = slot'.member /\ slot'.payload \in Payloads
      /\ o = "OK" => slot' = Returned'
  BY OutcomeProperties
<1>2. Fits' <=> Fits
  BY DEF Fits
<1>3. answer.status = "none"
  BY DEF CallInv, ValueInv
<1>4. TypeOK'
  BY <1>1 DEF CallInv, TypeOK
<1>5. HolderInv'
  BY DEF CallInv, HolderInv, Going
<1>6. ValueInv'
  <2>1. DOMAIN guest' = {"args", "outcome", "payload"}
    BY DEF CallInv, ValueInv, Outcome
  <2> QED
    BY <1>1, <1>2, <1>3, <2>1 DEF CallInv, ValueInv, Going
<1>7. GuestGetsArguments'
  BY DEF GuestGetsArguments
<1>8. AnswerIsTrue'
  BY <1>3 DEF AnswerIsTrue
<1> QED
  BY <1>4, <1>5, <1>6, <1>7, <1>8 DEF CallInv

LEMMA TakeStep ==
    ASSUME CallInv, TakeResult
    PROVE  CallInv'
<1> USE DEF TakeResult
<1>1. Fits /\ request.type \in ScalerKinds
  BY DEF CallInv, ValueInv, TypeOK, Going
<1>2. /\ guest.outcome \in {"OK", "Trap", "CallFailed"}
      /\ guest.outcome = "OK" => slot = Returned
  BY DEF CallInv, ValueInv, TypeOK
<1>3. /\ answer'.status = guest.outcome
      /\ guest.outcome = "OK" => answer'.payload = guest.payload
  <2>1. guest.outcome = "OK"
           => slot = LET k == ToWasmKind[request.type] IN Tagged(k, k, guest.payload)
    BY <1>1, <1>2 DEF Fits, Returned
  <2> QED
    BY <1>1, <1>2, <2>1, ToldTruly
<1>4. Fits' <=> Fits
  BY DEF Fits
<1>5. TypeOK'
  BY DEF CallInv, TypeOK
<1>6. HolderInv'
  BY DEF CallInv, HolderInv, Going
<1>7. ValueInv'
  BY <1>1, <1>2, <1>4 DEF CallInv, ValueInv, Going, Returned
<1>8. GuestGetsArguments'
  BY DEF GuestGetsArguments
<1>9. AnswerIsTrue'
  BY <1>2, <1>3 DEF AnswerIsTrue
<1> QED
  BY <1>5, <1>6, <1>7, <1>8, <1>9 DEF CallInv

LEMMA DropStep ==
    ASSUME CallInv, DropCall
    PROVE  CallInv'
<1> USE DEF DropCall
<1>1. item = "live" /\ valid = {"state"}
  BY DEF CallInv, HolderInv, Going
<1>2. item' = "deleted" /\ valid' = {}
  <2>1. AfterDestroying({"state"}, {"state"}) = "deleted"
    BY <1>1, DestroyingOwner
  <2> QED
    BY <1>1, <2>1
<1>3. Fits' <=> Fits
  BY DEF Fits
<1>4. TypeOK'
  BY <1>2 DEF CallInv, TypeOK, Holders
<1>5. HolderInv'
  BY <1>2 DEF HolderInv, Going
<1>6. ValueInv'
  BY DEF CallInv, ValueInv, Going
<1>7. GuestGetsArguments'
  BY DEF GuestGetsArguments
<1>8. AnswerIsTrue'
  BY <1>3 DEF CallInv, AnswerIsTrue
<1> QED
  BY <1>4, <1>5, <1>6, <1>7, <1>8 DEF CallInv

LEMMA StutterStep ==
    ASSUME CallInv, UNCHANGED vars
    PROVE  CallInv'
<1> USE DEF vars
<1>1. Fits' <=> Fits
  BY DEF Fits
<1>2. TypeOK' /\ HolderInv'
  BY DEF CallInv, TypeOK, HolderInv, Going
<1>3. ValueInv'
  BY <1>1 DEF CallInv, ValueInv, Going, Returned
<1>4. GuestGetsArguments'
  BY <1>1 DEF CallInv, GuestGetsArguments
<1>5. AnswerIsTrue'
  BY <1>1 DEF CallInv, AnswerIsTrue
<1> QED
  BY <1>2, <1>3, <1>4, <1>5 DEF CallInv

LEMMA CallStep == CallInv /\ [Next]_vars => CallInv'
<1> SUFFICES ASSUME CallInv, [Next]_vars PROVE CallInv'
  OBVIOUS
<1>1. CASE Call
  BY <1>1, NotFoundStep, FindStep DEF Call
<1>10. CASE Refused \/ NotInspected
  BY <1>10, RefusedStep
<1>11. CASE Resolved
  BY <1>11, ResolvedStep
<1>2. CASE Unwrap
  BY <1>2, UnwrapStep
<1>3. CASE StartAsync
  BY <1>3, StartStep
<1>4. CASE AsyncFails
  BY <1>4, FailsStep
<1>5. CASE EnterGuest
  BY <1>5, EnterStep
<1>6. CASE \E o \in Outcomes : FinishSync(o[1], o[2]) \/ FinishAsync(o[1], o[2])
  <2>1. PICK o \in Outcomes : FinishSync(o[1], o[2]) \/ FinishAsync(o[1], o[2])
    BY <1>6
  <2>2. <<o[1], o[2]>> \in Outcomes
    BY DEF Outcomes
  <2> QED
    BY <2>1, <2>2, FinishSyncStep, FinishAsyncStep
<1>7. CASE TakeResult
  BY <1>7, TakeStep
<1>8. CASE DropCall
  BY <1>8, DropStep
<1>9. CASE UNCHANGED vars
  BY <1>9, StutterStep
<1> QED
  BY <1>1, <1>2, <1>3, <1>4, <1>5, <1>6, <1>7, <1>8, <1>9, <1>10, <1>11 DEF Next

LEMMA CallHolds == Spec => []CallInv
  BY InitCall, CallStep, PTL DEF Spec

-----------------------------------------------------------------------------
(* The properties *)

(* Type correctness: no value without a type, no stage the code has not.   *)
THEOREM Types == Spec => []TypeOK
<1>1. CallInv => TypeOK
  BY DEF CallInv
<1> QED
  BY <1>1, CallHolds, PTL

(* The guest runs only with what the host passed, of the types it has.     *)
THEOREM ArgumentsArrive == Spec => []GuestGetsArguments
<1>1. CallInv => GuestGetsArguments
  BY DEF CallInv
<1> QED
  BY <1>1, CallHolds, PTL

(* The host is told what happened, and no value is read as another type.   *)
THEOREM AnswersAreTrue == Spec => []AnswerIsTrue
<1>1. CallInv => AnswerIsTrue
  BY DEF CallInv
<1> QED
  BY <1>1, CallHolds, PTL

(* Each resolved export is owned by one object and deleted once.           *)
THEOREM OneOwner == Spec => []ExternOwned
<1>1. CallInv => ExternOwned
  <2> SUFFICES ASSUME CallInv PROVE ExternOwned
    OBVIOUS
  <2>1. HolderInv /\ TypeOK
    BY DEF CallInv
  <2>2. CASE Going
    <3>1. PICK h : valid = {h}
      BY <2>1, <2>2 DEF HolderInv, Going, TypeOK
    <3>2. Cardinality(valid) = 1
      BY <3>1, Singles
    <3>3. item = "live"
      BY <2>1, <2>2 DEF HolderInv
    <3> QED
      BY <2>2, <3>2, <3>3 DEF ExternOwned, Going
  <2>3. CASE ~Going
    <3>1. valid = {} /\ item \in {"none", "deleted"}
      BY <2>1, <2>3 DEF HolderInv, Going
    <3>2. Cardinality(valid) = 0
      BY <3>1, Singles
    <3> QED
      BY <2>3, <3>1, <3>2 DEF ExternOwned, Going
  <2> QED
    BY <2>2, <2>3
<1> QED
  BY <1>1, CallHolds, PTL
=============================================================================
