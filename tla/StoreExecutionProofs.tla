------------------------ MODULE StoreExecutionProofs ------------------------
(***************************************************************************)
(* Theorems about StoreExecution for any number of domains, modules,       *)
(* operations and Instances.  IInv is shown to be inductive, one lemma for *)
(* each of its conjuncts, and the safety properties follow from it.        *)
(***************************************************************************)
EXTENDS StoreExecution, SequenceTheorems, TLAPS

USE DEF HostStages

-----------------------------------------------------------------------------
(* The call stack: what pushing, popping and moving the top frame change.  *)

LEMMA PushFacts ==
    ASSUME NEW s \in Seq(Frames), NEW x \in Frames
    PROVE  /\ Append(s, x) \in Seq(Frames)
           /\ Len(Append(s, x)) = Len(s) + 1
           /\ Append(s, x)[Len(s) + 1] = x
           /\ \A n \in 1..Len(s) : Append(s, x)[n] = s[n]
  OBVIOUS

(* The stack without its top is the stack below it.                        *)
LEMMA PopFacts ==
    ASSUME NEW s \in Seq(Frames), s # <<>>
    PROVE  LET r == SubSeq(s, 1, Len(s) - 1)
           IN  /\ r \in Seq(Frames)
               /\ Len(r) = Len(s) - 1
               /\ \A n \in 1..Len(r) : n \in 1..Len(s) /\ n # Len(s) /\ r[n] = s[n]
  <1>1. Len(s) \in Nat \ {0}
    OBVIOUS
  <1>2. \A n \in 1..(Len(s) - 1) : s[n] \in Frames
    BY <1>1
  <1> DEFINE k == Len(s) - 1
  <1>3. k \in Nat /\ k = Len(s) - 1
    BY <1>1
  <1>4. /\ SubSeq(s, 1, k) \in Seq(Frames)
        /\ Len(SubSeq(s, 1, k)) = IF 1 <= k THEN k - 1 + 1 ELSE 0
        /\ \A i \in 1..(k - 1 + 1) : SubSeq(s, 1, k)[i] = s[1 + i - 1]
    <2> HIDE DEF k
    <2>1. \A i \in 1..k : s[i] \in Frames
      BY <1>2, <1>3
    <2>2. 1 \in Int /\ k \in Int
      BY <1>3
    <2>3. QED
      BY <2>1, <2>2, SubSeqProperties
  <1> DEFINE r == SubSeq(s, 1, k)
  <1>5. r \in Seq(Frames) /\ Len(r) = k /\ \A i \in 1..k : r[i] = s[i]
    <2>1. k \in Nat
      BY <1>3
    <2> HIDE DEF k
    <2>2. /\ r \in Seq(Frames)
          /\ Len(r) = IF 1 <= k THEN k - 1 + 1 ELSE 0
          /\ \A i \in 1..(k - 1 + 1) : r[i] = s[1 + i - 1]
      BY <1>4
    <2> HIDE DEF r
    <2>3. QED
      BY <2>1, <2>2
  <1>6. QED
    BY <1>1, <1>3, <1>4, <1>5

(* The top of a stack that is not empty is one of its frames.              *)
LEMMA TopFacts ==
    ASSUME NEW s \in Seq(Frames), s # <<>>
    PROVE  Len(s) \in 1..Len(s) /\ s[Len(s)] \in Frames
  OBVIOUS

(* Moving the top frame to another place changes nothing else of the stack. *)
LEMMA MoveFacts ==
    ASSUME NEW s \in Seq(Frames), s # <<>>,
           NEW a \in {"guest", "callback", "continuation", "finalizer", "cleanup"}
    PROVE  LET r == [s EXCEPT ![Len(s)].at = a]
           IN  /\ r \in Seq(Frames)
               /\ Len(r) = Len(s)
               /\ \A n \in 1..Len(s) : n # Len(s) => r[n] = s[n]
               /\ r[Len(s)] = [s[Len(s)] EXCEPT !.at = a]
  <1> DEFINE r == [s EXCEPT ![Len(s)].at = a]
  <1>1. Len(s) \in 1..Len(s) /\ s[Len(s)] \in Frames
    BY TopFacts
  <1>2. [s[Len(s)] EXCEPT !.at = a] \in Frames
    BY <1>1 DEF Frames
  <1>3. r = [s EXCEPT ![Len(s)] = [s[Len(s)] EXCEPT !.at = a]]
    OBVIOUS
  <1>4. QED
    BY <1>1, <1>2, <1>3

(* The stack after an owner lets go of a domain: what was to remain, and   *)
(* perhaps the destruction of the domain on top of it.                     *)
LEMMA UnpinFacts ==
    ASSUME NEW d \in Domains, NEW h, NEW rest \in Seq(Frames), Unpin(d, h, rest)
    PROVE  /\ stack' \in Seq(Frames)
           /\ \/ stack' = rest
              \/ /\ refs[d] = {h}
                 /\ Len(stack') = Len(rest) + 1
                 /\ \A n \in 1..Len(rest) : stack'[n] = rest[n]
                 /\ stack'[Len(rest) + 1].kind = "Teardown"
                 /\ stack'[Len(rest) + 1].dom = d
                 /\ stack'[Len(rest) + 1].op = None
  <1> DEFINE x == Frame("Teardown", d, None, None,
                        IF hostFns[d] # {} THEN "finalizer" ELSE "cleanup")
  <1>1. /\ x \in Frames
        /\ x.kind = "Teardown" /\ x.dom = d /\ x.op = None
    BY DEF Frame, Frames
  <1>2. stack' = IF refs[d] = {h} THEN Append(rest, x) ELSE rest
    BY DEF Unpin
  <1> HIDE DEF x
  <1>3. QED
    BY <1>1, <1>2, PushFacts

(* A lease that is given back before the operation returns changes nothing. *)
LEMMA FailsIdle ==
    ASSUME activity \in [Domains -> {"Idle", "Exclusive", "Async"}], NEW d \in Domains,
           NEW k \in {"Sync", "Async", "Mutation"}, Acquire(d, k) = "OK"
    PROVE  activity[d] = "Idle" /\ FailedAfter(d, k) = activity
  BY DEF Acquire, FailedAfter, Taken

(* An operation that fails with the lease leaves everything as it was.     *)
LEMMA FailsQuietly ==
    ASSUME TypeOK, NEW d \in Domains, NEW k \in {"Sync", "Async", "Mutation"},
           OperationFails(d, k)
    PROVE  UNCHANGED vars
  BY FailsIdle DEF OperationFails, TypeOK, vars

(* A mutation of the linker takes the Store exclusively.                   *)
LEMMA MutationTakes ==
    ASSUME NEW d \in Domains
    PROVE  Taken(d, "Mutation") = [activity EXCEPT ![d] = "Exclusive"]
  BY DEF Taken

-----------------------------------------------------------------------------
(* Types *)

LEMMA CompletedType ==
    ASSUME NEW s \in OpStates, s # NoOp, NEW n \in {"none", "error", "trap"}
    PROVE  /\ Completed(s, n) \in OpStates
           /\ Completed(s, n).dom = s.dom
           /\ Completed(s, n).future = "null" /\ ~Completed(s, n).lease
           /\ Completed(s, n).ready /\ Completed(s, n).native = n
  BY DEF Completed, OpStates, LiveOps, NoOp

(* The state object of an operation just started has its type.             *)
LEMMA StartedType ==
    ASSUME NEW k \in {"call", "inst"}, NEW d \in Domains, NEW m \in Modules \cup {None},
           k = "inst" => m \in Modules
    PROVE  /\ Started(k, d, m) \in OpStates
           /\ Started(k, d, m).kind = k
           /\ Started(k, d, m).dom = d /\ Started(k, d, m).mod = m
           /\ Started(k, d, m).future = "fresh" /\ Started(k, d, m).lease
           /\ ~Started(k, d, m).ready /\ Started(k, d, m).native = "none"
  BY DEF Started, OpStates, LiveOps, NoOp

(* The type invariant holds initially.                                     *)
LEMMA InitType == Init => TypeOK
  BY DEF Init, TypeOK, OpStates, InstStates, NoOp

(* A slot that is given an Instance has its type.                          *)
LEMMA HandedType ==
    ASSUME inst \in [Instances -> InstStates], NEW d \in Domains, NEW m \in Modules,
           NEW new \in Handed(d, m)
    PROVE  new \in [Instances -> InstStates]
  BY DEF Handed, InstStates

(* Every step keeps the type invariant.                                    *)
LEMMA TypeStep == IInv /\ [Next]_vars => TypeOK'
  <1> SUFFICES ASSUME IInv, [Next]_vars PROVE TypeOK'
    OBVIOUS
  <1> USE DEF TypeOK
  <1>0. TypeOK /\ FramesFit
    BY DEF IInv
  <1>t. stack # <<>> => Len(stack) \in 1..Len(stack) /\ Top \in Frames
    BY <1>0, TopFacts DEF Top
  <1>p. stack # <<>> => Popped \in Seq(Frames)
    BY <1>0, PopFacts DEF Popped
  <1>m. stack # <<>> => \A a \in {"guest", "callback", "continuation", "finalizer", "cleanup"} :
                            MovedTo(a) \in Seq(Frames)
    BY <1>0, MoveFacts DEF MovedTo
  <1>o. \A o \in Ops : op[o] \in OpStates
    BY <1>0
  <1>f. \A o \in Ops : op[o].kind # "free" \/ op[o].future # "null" \/ op[o].ready =>
           /\ op[o] # NoOp
           /\ op[o].dom \in Domains
           /\ op[o].kind = "inst" => op[o].mod \in Modules
    BY <1>o DEF OpStates, LiveOps, NoOp
  <1>1. ASSUME NEW d \in Domains, NEW f \in HostFunctions, DefineAsyncFunction(d, f)
        PROVE  TypeOK'
    BY <1>0, <1>1 DEF DefineAsyncFunction
  <1>1a. ASSUME NEW d \in Domains, DefineRefused(d)
         PROVE  TypeOK'
    <2> DEFINE x == Frame("Define", d, None, None, "finalizer")
    <2>1. x \in Frames /\ x.kind = "Define" /\ x.dom = d /\ x.op = None
      BY DEF Frame, Frames
    <2>2. stack' = Append(stack, x)
      BY <1>1a DEF DefineRefused
    <2> HIDE DEF x
    <2>3. QED
      BY <1>0, <1>1a, <2>1, <2>2, PushFacts, MutationTakes DEF DefineRefused
  <1>1b. CASE FinishDefine
    <2>1. Top.dom \in Domains
      BY <1>1b, <1>t DEF FinishDefine, OnTop, Frames
    <2>2. QED
      BY <1>0, <1>1b, <1>p, <2>1 DEF FinishDefine, OnTop
  <1>2. ASSUME NEW d \in Domains, NEW m \in Modules, Instantiate(d, m)
        PROVE  TypeOK'
    <2>1. Frame("Instantiate", d, None, m, "guest") \in Frames
      BY DEF Frame, Frames
    <2>2. QED
      BY <1>0, <1>2, <2>1, PushFacts DEF Instantiate, Linked
  <1>3. CASE FinishInstantiate
    <2>1. Top.dom \in Domains /\ Top.mod \in Modules
      BY <1>0, <1>3, <1>t DEF FinishInstantiate, OnTop, FramesFit, FrameFits, Frames, Top
    <2>2. inst' \in [Instances -> InstStates]
      BY <1>0, <1>3, <2>1, HandedType DEF FinishInstantiate
    <2>3. QED
      BY <1>0, <1>3, <1>p, <2>1, <2>2 DEF FinishInstantiate, OnTop
  <1>4. ASSUME NEW i \in Instances, Call(i)
        PROVE  TypeOK'
    <2>1. inst[i].dom \in Domains
      BY <1>0, <1>4 DEF Call, InstStates
    <2>2. Frame("Call", inst[i].dom, None, None, "guest") \in Frames
      BY <2>1 DEF Frame, Frames
    <2>3. QED
      BY <1>0, <1>4, <2>1, <2>2, PushFacts DEF Call
  <1>5. CASE FinishCall
    <2>1. Top.dom \in Domains /\ Popped \in Seq(Frames)
      BY <1>5, <1>t, <1>p DEF FinishCall, OnTop, Frames
    <2>2. stack' \in Seq(Frames)
      BY <1>5, <2>1, UnpinFacts DEF FinishCall
    <2>3. QED
      BY <1>0, <1>5, <2>1, <2>2 DEF FinishCall, Unpin
  <1>6. ASSUME NEW i \in Instances, NEW o \in Ops, CallAsync(i, o)
        PROVE  TypeOK'
    <2>1. inst[i].dom \in Domains
      BY <1>0, <1>6 DEF CallAsync, InstStates
    <2>2. Started("call", inst[i].dom, None) \in OpStates
      BY <2>1, StartedType
    <2>3. QED
      BY <1>0, <1>6, <2>1, <2>2 DEF CallAsync, Start
  <1>7. ASSUME NEW d \in Domains, NEW m \in Modules, NEW o \in Ops, InstantiateAsync(d, m, o)
        PROVE  TypeOK'
    <2>1. Started("inst", d, m) \in OpStates
      BY StartedType
    <2>2. QED
      BY <1>0, <1>7, <2>1 DEF InstantiateAsync, Start, MarkIfUsed, MarkAsyncRequired
  <1>8. ASSUME NEW d \in Domains, NEW m \in Modules, InstantiateAsyncFails(d, m)
        PROVE  TypeOK'
    BY <1>0, <1>8, FailsIdle DEF InstantiateAsyncFails, MarkIfUsed, MarkAsyncRequired
  <1>9. ASSUME NEW o \in Ops, Poll(o)
        PROVE  TypeOK'
    <2>1. op[o].dom \in Domains /\ (op[o].kind = "inst" => op[o].mod \in Modules) /\ op[o] # NoOp
      BY <1>9, <1>f DEF Poll
    <2> DEFINE x == Frame("Poll", op[o].dom, o, None,
                       IF op[o].future = "suspended" THEN "continuation" ELSE "guest")
    <2>2. x \in Frames
      BY <2>1 DEF Frame, Frames
    <2>3. stack' = Append(stack, x)
      BY <1>9 DEF Poll
    <2> HIDE DEF x
    <2>4. stack' \in Seq(Frames)
      BY <1>0, <2>2, <2>3, PushFacts
    <2>5. [op[o] EXCEPT !.future = "running"] \in OpStates
      BY <1>o, <2>1 DEF OpStates, LiveOps
    <2>6. op' \in [Ops -> OpStates]
      BY <1>0, <1>9, <2>5 DEF Poll
    <2>7. linked' \in [Domains -> SUBSET Modules]
      BY <1>0, <1>9, <2>1 DEF Poll, Linked
    <2>8. QED
      BY <1>0, <1>9, <2>4, <2>6, <2>7 DEF Poll
  <1>10. ASSUME NEW o \in Ops, op[o] # NoOp, op[o].dom \in Domains,
                NEW n \in {"none", "error", "trap"}, Complete(o, n)
         PROVE  /\ op' \in [Ops -> OpStates]
                /\ activity' \in [Domains -> {"Idle", "Exclusive", "Async"}]
                /\ heap' \in SUBSET Ops
    <2>1. Completed(op[o], n) \in OpStates
      BY <1>o, <1>10, CompletedType
    <2>2. QED
      BY <1>0, <1>10, <2>1 DEF Complete, ReleasedBy
  <1>11. ASSUME NEW o \in Ops, PollUnresolved(o)
         PROVE  TypeOK'
    <2>1. op[o] # NoOp /\ op[o].dom \in Domains
      BY <1>11, <1>f DEF PollUnresolved
    <2>2. QED
      BY <1>0, <1>11, <1>10, <2>1 DEF PollUnresolved
  <1>12. CASE GuestCallsHost
    BY <1>0, <1>12, <1>m DEF GuestCallsHost
  <1>13. CASE HostReturnsOperation
    BY <1>0, <1>13, <1>m DEF HostReturnsOperation, OnTop
  <1>top. OnTop("Poll") \/ OnTop("Drop") => /\ Popped \in Seq(Frames)
                                            /\ Top.op \in Ops
                                            /\ op[Top.op] # NoOp
                                            /\ op[Top.op].dom \in Domains
                                            /\ Top.dom \in Domains
    <2>1. OnTop("Poll") \/ OnTop("Drop") =>
             /\ Top.op \in Ops /\ op[Top.op].dom = Top.dom /\ Top.dom \in Domains
      BY <1>0, <1>t DEF OnTop, FramesFit, FrameFits, Frames, Top
    <2>2. QED
      BY <2>1, <1>p, ConstantsAssumption DEF OnTop, NoOp, ConstantsAssumption
  <1>14. CASE ContinuationPending
    <2>1. [op[Top.op] EXCEPT !.future = "suspended"] \in OpStates
      BY <1>14, <1>o, <1>top DEF ContinuationPending, OpStates, LiveOps
    <2>2. QED
      BY <1>0, <1>14, <1>top, <2>1 DEF ContinuationPending
  <1>15. CASE ContinuationReady
    BY <1>0, <1>15, <1>m DEF ContinuationReady, OnTop
  <1>16. CASE HostFails
    BY <1>0, <1>16, <1>10, <1>top DEF HostFails
  <1>17. CASE GuestReturns
    <2>1. PICK n \in {"none", "error", "trap"} : Complete(Top.op, n)
      BY <1>17 DEF GuestReturns
    <2>2. QED
      BY <1>0, <1>17, <1>10, <1>top, <2>1 DEF GuestReturns
  <1>18. ASSUME NEW o \in Ops, TakeResult(o)
         PROVE  TypeOK'
    <2>1. /\ op[o] # NoOp /\ op[o].dom \in Domains
          /\ op[o].kind = "inst" => op[o].mod \in Modules
      BY <1>18, <1>f DEF TakeResult
    <2>2. [op[o] EXCEPT !.taken = TRUE, !.native = "none"] \in OpStates
      BY <1>18, <1>o, <2>1 DEF TakeResult, OpStates, LiveOps
    <2>3. op' = [op EXCEPT ![o] = [op[o] EXCEPT !.taken = TRUE, !.native = "none"]]
      BY <1>0, <1>18 DEF TakeResult
    <2>4. inst' \in [Instances -> InstStates]
      BY <1>0, <1>18, <2>1, HandedType DEF TakeResult
    <2>5. QED
      BY <1>0, <1>18, <2>2, <2>3, <2>4 DEF TakeResult
  <1>19. ASSUME NEW o \in Ops, Drop(o)
         PROVE  TypeOK'
    <2>1. op[o].dom \in Domains
      BY <1>19, <1>f DEF Drop
    <2> DEFINE x == Frame("Drop", op[o].dom, o, None,
                       IF op[o].future = "suspended" THEN "finalizer" ELSE "cleanup")
    <2>2. x \in Frames /\ stack' = Append(stack, x)
      BY <1>19, <2>1 DEF Frame, Frames, Drop
    <2> HIDE DEF x
    <2>3. QED
      BY <1>0, <1>19, <2>2, PushFacts DEF Drop
  <1>20. CASE FinishDrop
    <2>1. stack' \in Seq(Frames)
      BY <1>20, <1>top, UnpinFacts DEF FinishDrop
    <2>2. op' \in [Ops -> OpStates]
      BY <1>0, <1>20 DEF FinishDrop, OpStates
    <2>3. QED
      BY <1>0, <1>20, <1>top, <2>1, <2>2 DEF FinishDrop, Unpin, ReleasedBy
  <1>21. ASSUME NEW d \in Domains, DropHandle(d)
         PROVE  TypeOK'
    <2>1. stack' \in Seq(Frames)
      BY <1>0, <1>21, UnpinFacts DEF DropHandle
    <2>2. QED
      BY <1>0, <1>21, <2>1 DEF DropHandle, Unpin
  <1>22. CASE FinishTeardown
    BY <1>0, <1>22, <1>p DEF FinishTeardown, OnTop
  <1>23. ASSUME NEW i \in Instances, DropInstance(i)
         PROVE  TypeOK'
    BY <1>0, <1>23 DEF DropInstance, InstStates
  <1>24. CASE UNCHANGED vars
    BY <1>0, <1>24 DEF vars
  <1>1c. ASSUME NEW d \in Domains, NEW k \in {"Sync", "Async", "Mutation"}, OperationFails(d, k)
         PROVE  TypeOK'
    BY <1>0, <1>1c, <1>24, FailsQuietly
  <1>25. QED
    BY <1>1, <1>1a, <1>1b, <1>1c, <1>2, <1>3, <1>4, <1>5, <1>6, <1>7, <1>8, <1>9, <1>11, <1>12, <1>13, <1>14,
       <1>15, <1>16, <1>17, <1>18, <1>19, <1>20, <1>21, <1>22, <1>23, <1>24 DEF Next

-----------------------------------------------------------------------------
(* Leases *)

(* What the invariant says of one operation, with the sets expanded.       *)
LEMMA OpFacts ==
    ASSUME IInv, NEW o \in Ops
    PROVE  /\ op[o].lease \in BOOLEAN
           /\ op[o].lease <=> op[o].future # "null"
           /\ op[o].kind = "free" <=> op[o] = NoOp
           /\ op[o].kind = "free" => ~op[o].lease /\ ~op[o].ready /\ op[o].native = "none"
           /\ op[o].dom \in Domains <=> op[o].kind # "free"
           /\ op[o].kind = "inst" => op[o].mod \in Modules
           /\ op[o].lease => activity[op[o].dom] = "Async" /\ ~op[o].ready
           /\ op[o].kind # "free" => o \in refs[op[o].dom]
  <1>1. op[o] \in OpStates
    BY DEF IInv, TypeOK
  <1>2. /\ op[o].lease <=> op[o].future # "null"
        /\ op[o].lease => activity[op[o].dom] = "Async" /\ ~op[o].ready
    BY DEF IInv, LeasesHeld
  <1>3. /\ op[o].lease \in BOOLEAN
        /\ op[o].kind = "free" <=> op[o] = NoOp
        /\ op[o].kind = "free" => ~op[o].lease /\ ~op[o].ready /\ op[o].native = "none"
        /\ op[o].dom \in Domains <=> op[o].kind # "free"
        /\ op[o].kind = "inst" => op[o].mod \in Modules
    <2>1. CASE op[o] = NoOp
      BY <2>1, ConstantsAssumption DEF ConstantsAssumption, NoOp
    <2>2. CASE op[o] # NoOp
      BY <1>1, <2>2 DEF OpStates, LiveOps
    <2>3. QED
      BY <2>1, <2>2
  <1>4. op[o].kind # "free" => o \in refs[op[o].dom]
    BY <1>3 DEF IInv, LeasesHeld
  <1>5. QED
    BY <1>2, <1>3, <1>4

(* What it says of the frame on top of the call stack.                     *)
LEMMA TopFrame ==
    ASSUME IInv, stack # <<>>
    PROVE  /\ Len(stack) \in 1..Len(stack) /\ Top = stack[Len(stack)] /\ Top \in Frames
           /\ Top.dom \in Domains
           /\ Popped \in Seq(Frames) /\ Len(Popped) = Len(stack) - 1
           /\ \A n \in 1..Len(Popped) :
                 n \in 1..Len(stack) /\ n # Len(stack) /\ Popped[n] = stack[n]
           /\ Top.kind \in {"Call", "Instantiate", "Define"} => activity[Top.dom] = "Exclusive"
           /\ Top.kind \in {"Call", "Instantiate"} => Top.at = "guest"
           /\ Top.kind \in {"Poll", "Drop"} =>
                 /\ Top.op \in Ops
                 /\ op[Top.op].dom = Top.dom
                 /\ op[Top.op].kind # "free"
           /\ Top.kind = "Poll" => op[Top.op].future = "running" /\ op[Top.op].lease
           /\ Top.kind = "Instantiate" => Top.mod \in Modules
  <1>1. /\ Len(stack) \in 1..Len(stack) /\ Top = stack[Len(stack)] /\ Top \in Frames
        /\ Popped \in Seq(Frames) /\ Len(Popped) = Len(stack) - 1
        /\ \A n \in 1..Len(Popped) :
              n \in 1..Len(stack) /\ n # Len(stack) /\ Popped[n] = stack[n]
    BY TopFacts, PopFacts DEF IInv, TypeOK, Top, Popped
  <1>2. Top.dom \in Domains
    BY <1>1 DEF Frames
  <1>3. /\ Top.kind \in {"Call", "Instantiate", "Define"} => activity[Top.dom] = "Exclusive"
        /\ Top.kind \in {"Call", "Instantiate"} => Top.at = "guest"
    BY <1>1 DEF IInv, ExclusiveHeld, SyncOnTop, LeaseKinds, SyncKinds
  <1>4. /\ Top.kind \in {"Poll", "Drop"} => Top.op \in Ops /\ op[Top.op].dom = Top.dom
        /\ Top.kind = "Poll" => op[Top.op].future = "running"
        /\ Top.kind = "Instantiate" => Top.mod \in Modules
    BY <1>1 DEF IInv, FramesFit, FrameFits
  <1>5. /\ Top.kind \in {"Poll", "Drop"} => op[Top.op].kind # "free"
        /\ Top.kind = "Poll" => op[Top.op].lease
    BY <1>2, <1>4, OpFacts
  <1>6. QED
    BY <1>1, <1>2, <1>3, <1>4, <1>5

(* An operation that completes gives its Store back.                       *)
LEMMA CompleteLeases ==
    ASSUME IInv, NEW o \in Ops, op[o].lease, NEW n \in {"none", "error", "trap"},
           Complete(o, n), UNCHANGED refs
    PROVE  LeasesHeld'
  <1> DEFINE c == Completed(op[o], n)
  <1>1. /\ op' = [op EXCEPT ![o] = c]
        /\ activity' = [activity EXCEPT ![op[o].dom] = "Idle"]
    BY DEF Complete, ReleasedBy
  <1>2. op[o].dom \in Domains /\ op[o] # NoOp
    BY OpFacts
  <1>3. c.dom = op[o].dom /\ c.future = "null" /\ ~c.lease /\ c.ready
    BY <1>2, CompletedType DEF IInv, TypeOK
  <1> HIDE DEF c
  <1>4. op \in [Ops -> OpStates] /\ activity \in [Domains -> {"Idle", "Exclusive", "Async"}]
    BY DEF IInv, TypeOK
  <1>5. LeasesHeld
    BY DEF IInv
  <1>6. \A p \in Ops : p # o => op'[p] = op[p] /\ (op[p].lease => op[p].dom \in Domains /\ op[p].dom # op[o].dom)
    BY <1>1, <1>4, <1>5, OpFacts DEF LeasesHeld
  <1>7. op'[o] = c
    BY <1>1, <1>4
  <1>8. QED
    BY <1>1, <1>2, <1>3, <1>4, <1>5, <1>6, <1>7 DEF LeasesHeld

(* An operation that starts takes an idle Store.                           *)
LEMMA StartLeases ==
    ASSUME IInv, NEW o \in Ops, op[o].kind = "free", NEW k \in {"call", "inst"},
           NEW d \in Domains, NEW m \in Modules \cup {None}, k = "inst" => m \in Modules,
           activity[d] = "Idle", Start(o, k, d, m)
    PROVE  LeasesHeld'
  <1> DEFINE s == Started(k, d, m)
  <1>1. /\ op' = [op EXCEPT ![o] = s]
        /\ activity' = [activity EXCEPT ![d] = "Async"]
        /\ refs' = [refs EXCEPT ![d] = @ \cup {o}]
    BY DEF Start
  <1>2. s.dom = d /\ s.future = "fresh" /\ s.lease /\ ~s.ready /\ s.native = "none"
    BY StartedType
  <1> HIDE DEF s
  <1>3. /\ op \in [Ops -> OpStates] /\ activity \in [Domains -> {"Idle", "Exclusive", "Async"}]
        /\ refs \in [Domains -> SUBSET ({"handle", "local"} \cup Ops)]
    BY DEF IInv, TypeOK
  <1>4. LeasesHeld
    BY DEF IInv
  <1>5. \A p \in Ops : p # o => op'[p] = op[p] /\ (op[p].lease => op[p].dom # d)
    BY <1>1, <1>3, OpFacts
  <1>6. op'[o] = s /\ op[o].dom \notin Domains
    BY <1>1, <1>3, OpFacts
  <1>7. QED
    BY <1>1, <1>2, <1>3, <1>4, <1>5, <1>6 DEF LeasesHeld

(* A step inside an operation leaves its lease and its owners alone.       *)
LEMMA SameLeases ==
    ASSUME IInv, UNCHANGED <<activity, refs>>, NEW o \in Ops,
           \A p \in Ops \ {o} : op'[p] = op[p],
           op'[o].lease = op[o].lease, op'[o].dom = op[o].dom,
           op'[o].future = "null" <=> op[o].future = "null",
           op'[o].ready = op[o].ready,
           op'[o].native \in {op[o].native, "none"}
    PROVE  LeasesHeld'
  <1>1. LeasesHeld
    BY DEF IInv
  <1>2. \A p \in Ops :
           /\ op'[p].lease = op[p].lease /\ op'[p].dom = op[p].dom
           /\ op'[p].future = "null" <=> op[p].future = "null"
           /\ op'[p].ready = op[p].ready
           /\ op'[p].native \in {op[p].native, "none"}
    OBVIOUS
  <1>3. QED
    BY <1>1, <1>2 DEF LeasesHeld

(* A synchronous operation takes an idle Store, which it alone then holds, *)
(* or gives it back.                                                       *)
LEMMA SyncLeases ==
    ASSUME IInv, NEW d \in Domains, NEW a \in {"Idle", "Exclusive"},
           activity[d] \in {"Idle", "Exclusive"},
           activity' = [activity EXCEPT ![d] = a], UNCHANGED op,
           \A e \in Domains : refs'[e] \cap Ops = refs[e] \cap Ops
    PROVE  LeasesHeld'
  <1>1. LeasesHeld /\ activity \in [Domains -> {"Idle", "Exclusive", "Async"}]
    BY DEF IInv, TypeOK
  <1>2. \A o \in Ops : op[o].lease => op[o].dom \in Domains /\ op[o].dom # d
    BY <1>1, OpFacts
  <1>3. QED
    BY <1>1, <1>2 DEF LeasesHeld

(* Every step keeps leases, futures and owners in agreement.               *)
LEMMA LeasesStep == IInv /\ [Next]_vars => LeasesHeld'
  <1> SUFFICES ASSUME IInv, [Next]_vars PROVE LeasesHeld'
    OBVIOUS
  <1>0. /\ TypeOK /\ LeasesHeld
        /\ "local" \notin Ops /\ "handle" \notin Ops
    BY ConstantsAssumption DEF IInv, ConstantsAssumption
  <1>i. \A o \in Ops : op[o].ready => ~op[o].lease
    BY OpFacts
  <1>a. \A d \in Domains, k \in {"Sync", "Async", "Mutation"} :
           Acquire(d, k) = "OK" => activity[d] = "Idle"
    BY DEF Acquire
  <1>1. ASSUME NEW d \in Domains, NEW f \in HostFunctions, DefineAsyncFunction(d, f)
        PROVE  LeasesHeld'
    BY <1>0, <1>1 DEF DefineAsyncFunction, LeasesHeld
  <1>1a. ASSUME NEW d \in Domains, DefineRefused(d)
         PROVE  LeasesHeld'
    BY <1>1a, <1>a, MutationTakes, SyncLeases DEF DefineRefused
  <1>1b. CASE FinishDefine
    <2>1. Top.dom \in Domains /\ activity[Top.dom] = "Exclusive"
      BY <1>1b, TopFrame DEF FinishDefine, OnTop
    <2>2. QED
      BY <1>1b, <2>1, SyncLeases DEF FinishDefine
  <1>2. ASSUME NEW d \in Domains, NEW m \in Modules, Instantiate(d, m)
        PROVE  LeasesHeld'
    BY <1>2, <1>a, SyncLeases DEF Instantiate
  <1>3. CASE FinishInstantiate
    <2>1. Top.dom \in Domains /\ activity[Top.dom] = "Exclusive"
      BY <1>3, TopFrame DEF FinishInstantiate, OnTop
    <2>2. QED
      BY <1>3, <2>1, SyncLeases DEF FinishInstantiate
  <1>4. ASSUME NEW i \in Instances, Call(i)
        PROVE  LeasesHeld'
    <2>1. inst[i].dom \in Domains
      BY <1>0, <1>4 DEF Call, InstStates, TypeOK
    <2>2. \A e \in Domains : refs'[e] \cap Ops = refs[e] \cap Ops
      BY <1>0, <1>4, <2>1 DEF Call, TypeOK
    <2>3. QED
      BY <1>4, <1>a, <2>1, <2>2, SyncLeases DEF Call
  <1>5. CASE FinishCall
    <2>1. Top.dom \in Domains /\ activity[Top.dom] = "Exclusive"
      BY <1>5, TopFrame DEF FinishCall, OnTop
    <2>2. \A e \in Domains : refs'[e] \cap Ops = refs[e] \cap Ops
      BY <1>0, <1>5, <2>1 DEF FinishCall, Unpin, TypeOK
    <2>3. QED
      BY <1>5, <2>1, <2>2, SyncLeases DEF FinishCall
  <1>6. ASSUME NEW i \in Instances, NEW o \in Ops, CallAsync(i, o)
        PROVE  LeasesHeld'
    <2>1. inst[i].dom \in Domains
      BY <1>0, <1>6 DEF CallAsync, InstStates, TypeOK
    <2>2. QED
      BY <1>6, <1>a, <2>1, StartLeases DEF CallAsync
  <1>7. ASSUME NEW d \in Domains, NEW m \in Modules, NEW o \in Ops, InstantiateAsync(d, m, o)
        PROVE  LeasesHeld'
    BY <1>7, <1>a, StartLeases DEF InstantiateAsync
  <1>8. ASSUME NEW d \in Domains, NEW m \in Modules, InstantiateAsyncFails(d, m)
        PROVE  LeasesHeld'
    BY <1>0, <1>8, FailsIdle DEF InstantiateAsyncFails, LeasesHeld, TypeOK
  <1>9. ASSUME NEW o \in Ops, Poll(o)
        PROVE  LeasesHeld'
    <2>1. op'[o] = [op[o] EXCEPT !.future = "running"] /\ \A p \in Ops \ {o} : op'[p] = op[p]
      BY <1>0, <1>9 DEF Poll, TypeOK
    <2>2. op[o] # NoOp /\ op[o] \in OpStates
      BY <1>0, <1>9, OpFacts DEF Poll, TypeOK, NoOp
    <2>3. /\ op'[o].lease = op[o].lease /\ op'[o].dom = op[o].dom /\ op'[o].future = "running"
          /\ op'[o].ready = op[o].ready /\ op'[o].native = op[o].native
          /\ op[o].future # "null"
      BY <1>9, <2>1, <2>2 DEF OpStates, LiveOps, Poll
    <2>4. UNCHANGED <<activity, refs>>
      BY <1>9 DEF Poll
    <2>5. QED
      BY <2>1, <2>3, <2>4, SameLeases
  <1>11. ASSUME NEW o \in Ops, PollUnresolved(o)
         PROVE  LeasesHeld'
    BY <1>11, OpFacts, CompleteLeases DEF PollUnresolved
  <1>12. CASE GuestCallsHost
    BY <1>0, <1>12 DEF GuestCallsHost, LeasesHeld
  <1>13. CASE HostReturnsOperation
    BY <1>0, <1>13 DEF HostReturnsOperation, LeasesHeld
  <1>14. CASE ContinuationPending
    <2> DEFINE o == Top.op
    <2>1. o \in Ops /\ op[o].kind # "free" /\ op[o].future = "running"
      BY <1>14, TopFrame DEF ContinuationPending, OnTop
    <2>2. op' = [op EXCEPT ![o].future = "suspended"] /\ UNCHANGED <<activity, refs>>
      BY <1>14 DEF ContinuationPending
    <2> HIDE DEF o
    <2>3. op'[o] = [op[o] EXCEPT !.future = "suspended"] /\ \A p \in Ops \ {o} : op'[p] = op[p]
      BY <1>0, <2>1, <2>2 DEF TypeOK
    <2>4. op[o] # NoOp /\ op[o] \in OpStates
      BY <1>0, <2>1, OpFacts DEF TypeOK, NoOp
    <2>5. /\ op'[o].lease = op[o].lease /\ op'[o].dom = op[o].dom /\ op'[o].future = "suspended"
          /\ op'[o].ready = op[o].ready /\ op'[o].native = op[o].native
      BY <2>3, <2>4 DEF OpStates, LiveOps
    <2>6. QED
      BY <2>1, <2>2, <2>3, <2>5, SameLeases
  <1>15. CASE ContinuationReady
    BY <1>0, <1>15 DEF ContinuationReady, LeasesHeld
  <1>16. CASE HostFails
    BY <1>16, TopFrame, CompleteLeases DEF HostFails, OnTop
  <1>17. CASE GuestReturns
    BY <1>17, TopFrame, CompleteLeases DEF GuestReturns, OnTop
  <1>18. ASSUME NEW o \in Ops, TakeResult(o)
         PROVE  LeasesHeld'
    <2>1. op[o] # NoOp /\ op[o] \in OpStates
      BY <1>0, <1>18, OpFacts DEF TakeResult, TypeOK, NoOp
    <2>2. /\ op'[o] = [op[o] EXCEPT !.taken = TRUE, !.native = "none"]
          /\ \A p \in Ops \ {o} : op'[p] = op[p]
      BY <1>0, <1>18 DEF TakeResult, TypeOK
    <2>3. /\ op'[o].lease = op[o].lease /\ op'[o].dom = op[o].dom /\ op'[o].future = op[o].future
          /\ op'[o].ready = op[o].ready /\ op'[o].native = "none"
      BY <2>1, <2>2 DEF OpStates, LiveOps
    <2>4. UNCHANGED <<activity, refs>>
      BY <1>18 DEF TakeResult
    <2>5. QED
      BY <2>2, <2>3, <2>4, SameLeases
  <1>19. ASSUME NEW o \in Ops, Drop(o)
         PROVE  LeasesHeld'
    BY <1>0, <1>19 DEF Drop, LeasesHeld
  <1>20. CASE FinishDrop
    <2> DEFINE o == Top.op
    <2>1. o \in Ops /\ op[o].dom = Top.dom /\ Top.dom \in Domains /\ op[o].kind # "free"
      BY <1>20, TopFrame DEF FinishDrop, OnTop
    <2>2. /\ activity' = IF op[o].lease THEN [activity EXCEPT ![op[o].dom] = "Idle"] ELSE activity
          /\ op' = [op EXCEPT ![o] = NoOp]
          /\ refs' = [refs EXCEPT ![op[o].dom] = @ \ {o}]
      BY <1>20, <2>1 DEF FinishDrop, ReleasedBy, Unpin
    <2> HIDE DEF o
    <2>3. /\ op \in [Ops -> OpStates] /\ activity \in [Domains -> {"Idle", "Exclusive", "Async"}]
          /\ refs \in [Domains -> SUBSET ({"handle", "local"} \cup Ops)]
      BY <1>0 DEF TypeOK
    <2>4. op'[o] = NoOp /\ \A p \in Ops \ {o} : op'[p] = op[p]
      BY <2>1, <2>2, <2>3
    <2>5. NoOp.dom \notin Domains /\ ~NoOp.lease /\ NoOp.future = "null" /\ NoOp.native = "none"
      BY ConstantsAssumption DEF NoOp, ConstantsAssumption
    <2>6. \A p \in Ops : op[p].lease => op[p].dom \in Domains
      BY OpFacts
    <2>7. CASE op[o].lease
      <3>1. \A p \in Ops \ {o} : op[p].lease => op[p].dom # op[o].dom
        BY <1>0, <2>1, <2>7 DEF LeasesHeld
      <3>2. QED
        BY <1>0, <2>1, <2>2, <2>3, <2>4, <2>5, <2>6, <2>7, <3>1 DEF LeasesHeld
    <2>8. CASE ~op[o].lease
      BY <1>0, <2>1, <2>2, <2>3, <2>4, <2>5, <2>6, <2>8 DEF LeasesHeld
    <2>9. QED
      BY <2>7, <2>8
  <1>21. ASSUME NEW d \in Domains, DropHandle(d)
         PROVE  LeasesHeld'
    BY <1>0, <1>21 DEF DropHandle, Unpin, LeasesHeld, TypeOK
  <1>22. CASE FinishTeardown
    BY <1>0, <1>22 DEF FinishTeardown, LeasesHeld
  <1>23. ASSUME NEW i \in Instances, DropInstance(i)
         PROVE  LeasesHeld'
    BY <1>0, <1>23 DEF DropInstance, LeasesHeld
  <1>24. CASE UNCHANGED vars
    BY <1>0, <1>24 DEF vars, LeasesHeld
  <1>1c. ASSUME NEW d \in Domains, NEW k \in {"Sync", "Async", "Mutation"}, OperationFails(d, k)
         PROVE  LeasesHeld'
    BY <1>0, <1>1c, <1>24, FailsQuietly
  <1>25. QED
    BY <1>1, <1>1a, <1>1b, <1>1c, <1>2, <1>3, <1>4, <1>5, <1>6, <1>7, <1>8, <1>9, <1>11, <1>12, <1>13, <1>14,
       <1>15, <1>16, <1>17, <1>18, <1>19, <1>20, <1>21, <1>22, <1>23, <1>24 DEF Next

-----------------------------------------------------------------------------
(* Synchronous operations *)

NoSync == \A n \in 1..Len(stack) : stack[n].kind \notin SyncKinds

(* Unless a synchronous operation is on top there is none at all.          *)
LEMMA NoSyncBelow ==
    ASSUME IInv, stack # <<>> => Top.kind \notin SyncKinds
    PROVE  NoSync
  <1>1. stack # <<>> => Len(stack) \in 1..Len(stack) /\ Top = stack[Len(stack)]
    BY TopFrame
  <1>2. stack = <<>> => Len(stack) = 0
    OBVIOUS
  <1>3. QED
    BY <1>1, <1>2 DEF IInv, SyncOnTop, NoSync, SyncKinds

(* When host code runs, no synchronous operation is on the stack.          *)
LEMMA NoSyncWhileHostRuns ==
    ASSUME IInv, HostRuns
    PROVE  NoSync
  BY TopFrame, NoSyncBelow DEF HostRuns, SyncKinds

(* No module that could call the host is linked where a synchronous        *)
(* operation runs.                                                         *)
LEMMA SyncHasNoImports ==
    ASSUME IInv, NEW n \in 1..Len(stack), stack[n].kind \in SyncKinds
    PROVE  \A m \in linked[stack[n].dom] : Imports[m] = {}
  <1>1. stack[n].dom \in Domains /\ ~asyncRequired[stack[n].dom]
    <2>1. stack[n] \in Frames
      BY DEF IInv, TypeOK
    <2>2. stack[n].dom \in Domains
      BY <2>1 DEF Frames
    <2>3. QED
      BY <2>2 DEF IInv, SyncOnTop, SyncKinds
  <1>2. QED
    BY <1>1 DEF IInv, RequiredInTime

(* Without synchronous operations there is nothing for SyncOnTop to say.   *)
LEMMA NoSyncSuffices == NoSync' => SyncOnTop'
  BY DEF NoSync, SyncOnTop, SyncKinds

(* The stack of a step that pops, moves or pushes frames of other kinds.   *)
LEMMA NoSyncPopped ==
    ASSUME IInv, NoSync, stack # <<>>
    PROVE  \A n \in 1..Len(Popped) : Popped[n].kind \notin SyncKinds
  BY TopFrame DEF NoSync

(* Pushing the frame of an asynchronous operation adds no synchronous one. *)
LEMMA NoSyncPushed ==
    ASSUME IInv, NoSync, NEW x \in Frames, x.kind \notin SyncKinds
    PROVE  \A n \in 1..Len(Append(stack, x)) : Append(stack, x)[n].kind \notin SyncKinds
  <1>1. stack \in Seq(Frames)
    BY DEF IInv, TypeOK
  <1>2. \A n \in 1..Len(Append(stack, x)) : n \in 1..Len(stack) \/ n = Len(stack) + 1
    BY <1>1, PushFacts
  <1>3. QED
    BY <1>1, <1>2, PushFacts DEF NoSync

(* Nor does moving the top frame.                                          *)
LEMMA NoSyncMoved ==
    ASSUME IInv, NoSync, stack # <<>>,
           NEW a \in {"guest", "callback", "continuation", "finalizer", "cleanup"}
    PROVE  \A n \in 1..Len(MovedTo(a)) : MovedTo(a)[n].kind \notin SyncKinds
  <1>1. stack \in Seq(Frames)
    BY DEF IInv, TypeOK
  <1>2. [Top EXCEPT !.at = a].kind = Top.kind
    BY TopFrame DEF Frames
  <1>3. QED
    BY <1>1, <1>2, MoveFacts DEF NoSync, MovedTo, Top

(* Nor does letting go of a domain, which may begin its destruction.       *)
LEMMA NoSyncUnpinned ==
    ASSUME NEW d \in Domains, NEW h, NEW rest \in Seq(Frames), Unpin(d, h, rest),
           \A n \in 1..Len(rest) : rest[n].kind \notin SyncKinds
    PROVE  \A n \in 1..Len(stack') : stack'[n].kind \notin SyncKinds
  <1>1. CASE stack' = rest
    BY <1>1
  <1>2. CASE /\ Len(stack') = Len(rest) + 1
             /\ \A n \in 1..Len(rest) : stack'[n] = rest[n]
             /\ stack'[Len(rest) + 1].kind = "Teardown"
    <2>1. Len(rest) \in Nat
      OBVIOUS
    <2>2. \A n \in 1..Len(stack') : n \in 1..Len(rest) \/ n = Len(rest) + 1
      BY <1>2, <2>1
    <2>3. QED
      BY <1>2, <2>2 DEF SyncKinds
  <1>3. QED
    BY <1>1, <1>2, UnpinFacts

(* A synchronous operation enters an idle Store that needs no futures.     *)
LEMMA SyncEnters ==
    ASSUME IInv, HostRuns, NEW x \in Frames, x.kind \in SyncKinds, x.at = "guest",
           Acquire(x.dom, "Sync") = "OK", UNCHANGED asyncRequired,
           stack' = Append(stack, x)
    PROVE  SyncOnTop'
  <1>1. /\ stack \in Seq(Frames) /\ Len(stack) \in Nat
        /\ asyncRequired \in [Domains -> BOOLEAN]
        /\ x.dom \in Domains
    BY DEF IInv, TypeOK, Frames
  <1>2. /\ Len(stack') = Len(stack) + 1
        /\ stack'[Len(stack')] = x
        /\ \A n \in 1..Len(stack) : stack'[n] = stack[n]
    BY <1>1, PushFacts
  <1>3. \A n \in 1..Len(stack') : n \in 1..Len(stack) \/ n = Len(stack')
    BY <1>1, <1>2
  <1>4. NoSync
    BY NoSyncWhileHostRuns
  <1>5. ~asyncRequired'[x.dom]
    BY <1>1 DEF Acquire
  <1>6. \A n \in 1..Len(stack') : stack'[n].kind \in SyncKinds => n = Len(stack')
    BY <1>2, <1>3, <1>4 DEF NoSync
  <1>7. Len(stack') \in 1..Len(stack')
    BY <1>1, <1>2
  <1>8. QED
    BY <1>2, <1>5, <1>6, <1>7 DEF SyncOnTop

(* The synchronous operation on top leaves: none remains.                  *)
LEMMA SyncLeaves ==
    ASSUME IInv, stack # <<>>
    PROVE  \A n \in 1..Len(Popped) : Popped[n].kind \notin SyncKinds
  <1>1. \A n \in 1..Len(stack) : stack[n].kind \in SyncKinds => n = Len(stack)
    BY DEF IInv, SyncOnTop
  <1>2. QED
    BY <1>1, TopFrame

(* Every step keeps synchronous operations on top.                         *)
LEMMA SyncStep == IInv /\ [Next]_vars => SyncOnTop'
  <1> SUFFICES ASSUME IInv, [Next]_vars PROVE SyncOnTop'
    OBVIOUS
  <1>0. TypeOK /\ SyncOnTop
    BY DEF IInv
  <1>h. HostRuns => NoSync
    BY NoSyncWhileHostRuns
  <1>k. OnTop("Poll") \/ OnTop("Drop") \/ OnTop("Teardown") \/ OnTop("Define") =>
           NoSync /\ stack # <<>>
    BY NoSyncBelow DEF OnTop, SyncKinds
  <1>x. ASSUME \A n \in 1..Len(stack') : stack'[n].kind \notin SyncKinds
        PROVE  SyncOnTop'
    BY <1>x, NoSyncSuffices DEF NoSync
  <1>s. NoSync => \A n \in 1..Len(stack) : stack[n].kind \notin SyncKinds
    BY DEF NoSync
  <1>1. ASSUME NEW d \in Domains, NEW f \in HostFunctions, DefineAsyncFunction(d, f)
        PROVE  SyncOnTop'
    BY <1>0, <1>1 DEF DefineAsyncFunction, SyncOnTop
  <1>1a. ASSUME NEW d \in Domains, DefineRefused(d)
         PROVE  SyncOnTop'
    <2> DEFINE x == Frame("Define", d, None, None, "finalizer")
    <2>1. x \in Frames /\ x.kind = "Define" /\ x.dom = d /\ x.op = None
      BY DEF Frame, Frames
    <2>2. stack' = Append(stack, x)
      BY <1>1a DEF DefineRefused
    <2> HIDE DEF x
    <2>3. QED
      BY <1>1a, <1>h, <1>x, <2>1, <2>2, NoSyncPushed DEF DefineRefused, SyncKinds
  <1>1b. CASE FinishDefine
    BY <1>1b, <1>k, <1>x, NoSyncPopped DEF FinishDefine
  <1>2. ASSUME NEW d \in Domains, NEW m \in Modules, Instantiate(d, m)
        PROVE  SyncOnTop'
    <2> DEFINE x == Frame("Instantiate", d, None, m, "guest")
    <2>1. x \in Frames /\ x.kind = "Instantiate" /\ x.dom = d /\ x.at = "guest"
      BY DEF Frame, Frames
    <2>2. stack' = Append(stack, x)
      BY <1>2 DEF Instantiate
    <2> HIDE DEF x
    <2>3. QED
      BY <1>2, <2>1, <2>2, SyncEnters DEF Instantiate, SyncKinds
  <1>3. CASE FinishInstantiate
    BY <1>3, <1>x, SyncLeaves DEF FinishInstantiate, OnTop
  <1>4. ASSUME NEW i \in Instances, Call(i)
        PROVE  SyncOnTop'
    <2> DEFINE x == Frame("Call", inst[i].dom, None, None, "guest")
    <2>1. inst[i].dom \in Domains
      BY <1>0, <1>4 DEF Call, InstStates, TypeOK
    <2>2. x \in Frames /\ x.kind = "Call" /\ x.dom = inst[i].dom /\ x.at = "guest"
      BY <2>1 DEF Frame, Frames
    <2>3. stack' = Append(stack, x)
      BY <1>4 DEF Call
    <2> HIDE DEF x
    <2>4. QED
      BY <1>4, <2>2, <2>3, SyncEnters DEF Call, SyncKinds
  <1>5. CASE FinishCall
    <2>1. \A n \in 1..Len(Popped) : Popped[n].kind \notin SyncKinds
      BY <1>5, SyncLeaves DEF FinishCall, OnTop
    <2>2. Popped \in Seq(Frames) /\ Top.dom \in Domains
      BY <1>5, TopFrame DEF FinishCall, OnTop
    <2>3. QED
      BY <1>5, <1>x, <2>1, <2>2, NoSyncUnpinned DEF FinishCall
  <1>6. ASSUME NEW i \in Instances, NEW o \in Ops, CallAsync(i, o)
        PROVE  SyncOnTop'
    BY <1>6, <1>h, <1>s, <1>x DEF CallAsync, Start
  <1>7. ASSUME NEW d \in Domains, NEW m \in Modules, NEW o \in Ops, InstantiateAsync(d, m, o)
        PROVE  SyncOnTop'
    BY <1>7, <1>h, <1>s, <1>x DEF InstantiateAsync, Start
  <1>8. ASSUME NEW d \in Domains, NEW m \in Modules, InstantiateAsyncFails(d, m)
        PROVE  SyncOnTop'
    BY <1>8, <1>h, <1>s, <1>x DEF InstantiateAsyncFails
  <1>9. ASSUME NEW o \in Ops, Poll(o)
        PROVE  SyncOnTop'
    <2> DEFINE x == Frame("Poll", op[o].dom, o, None,
                       IF op[o].future = "suspended" THEN "continuation" ELSE "guest")
    <2>1. op[o].dom \in Domains
      BY <1>9, OpFacts DEF Poll
    <2>2. x \in Frames /\ x.kind \notin SyncKinds /\ stack' = Append(stack, x)
      BY <1>9, <2>1 DEF Frame, Frames, SyncKinds, Poll
    <2> HIDE DEF x
    <2>3. QED
      BY <1>9, <1>h, <1>x, <2>2, NoSyncPushed DEF Poll
  <1>11. ASSUME NEW o \in Ops, PollUnresolved(o)
         PROVE  SyncOnTop'
    BY <1>11, <1>h, <1>s, <1>x DEF PollUnresolved
  <1>12. CASE GuestCallsHost
    <2>1. Top.kind \notin SyncKinds
      BY <1>12, TopFrame, SyncHasNoImports DEF GuestCallsHost
    <2>2. NoSync
      BY <2>1, NoSyncBelow
    <2>3. QED
      BY <1>12, <1>x, <2>2, NoSyncMoved DEF GuestCallsHost
  <1>13. CASE HostReturnsOperation
    BY <1>13, <1>k, <1>x, NoSyncMoved DEF HostReturnsOperation
  <1>14. CASE ContinuationPending
    BY <1>14, <1>k, <1>x, NoSyncPopped DEF ContinuationPending
  <1>15. CASE ContinuationReady
    BY <1>15, <1>k, <1>x, NoSyncMoved DEF ContinuationReady
  <1>16. CASE HostFails
    BY <1>16, <1>k, <1>x, NoSyncPopped DEF HostFails
  <1>17. CASE GuestReturns
    BY <1>17, <1>k, <1>x, NoSyncPopped DEF GuestReturns
  <1>18. ASSUME NEW o \in Ops, TakeResult(o)
         PROVE  SyncOnTop'
    BY <1>18, <1>h, <1>s, <1>x DEF TakeResult
  <1>19. ASSUME NEW o \in Ops, Drop(o)
         PROVE  SyncOnTop'
    <2> DEFINE x == Frame("Drop", op[o].dom, o, None,
                       IF op[o].future = "suspended" THEN "finalizer" ELSE "cleanup")
    <2>1. op[o].dom \in Domains
      BY <1>19, OpFacts DEF Drop
    <2>2. x \in Frames /\ x.kind \notin SyncKinds /\ stack' = Append(stack, x)
      BY <1>19, <2>1 DEF Frame, Frames, SyncKinds, Drop
    <2> HIDE DEF x
    <2>3. QED
      BY <1>19, <1>h, <1>x, <2>2, NoSyncPushed DEF Drop
  <1>20. CASE FinishDrop
    <2>1. NoSync /\ stack # <<>> /\ Top.dom \in Domains /\ Popped \in Seq(Frames)
      BY <1>20, <1>k, TopFrame DEF FinishDrop, OnTop
    <2>2. \A n \in 1..Len(stack') : stack'[n].kind \notin SyncKinds
      BY <1>20, <2>1, NoSyncPopped, NoSyncUnpinned DEF FinishDrop
    <2>3. QED
      BY <1>x, <2>2
  <1>21. ASSUME NEW d \in Domains, DropHandle(d)
         PROVE  SyncOnTop'
    <2>1. NoSync /\ stack \in Seq(Frames)
      BY <1>0, <1>21, <1>h DEF DropHandle, TypeOK
    <2>2. \A n \in 1..Len(stack') : stack'[n].kind \notin SyncKinds
      BY <1>21, <1>s, <2>1, NoSyncUnpinned DEF DropHandle
    <2>3. QED
      BY <1>21, <1>x, <2>1, <2>2 DEF DropHandle
  <1>22. CASE FinishTeardown
    BY <1>22, <1>k, <1>x, NoSyncPopped DEF FinishTeardown
  <1>23. ASSUME NEW i \in Instances, DropInstance(i)
         PROVE  SyncOnTop'
    BY <1>23, <1>h, <1>s, <1>x DEF DropInstance
  <1>24. CASE UNCHANGED vars
    BY <1>0, <1>24 DEF vars, SyncOnTop
  <1>1c. ASSUME NEW d \in Domains, NEW k \in {"Sync", "Async", "Mutation"}, OperationFails(d, k)
         PROVE  SyncOnTop'
    BY <1>0, <1>1c, <1>24, FailsQuietly
  <1>25. QED
    BY <1>1, <1>1a, <1>1b, <1>1c, <1>2, <1>3, <1>4, <1>5, <1>6, <1>7, <1>8, <1>9, <1>11, <1>12, <1>13, <1>14,
       <1>15, <1>16, <1>17, <1>18, <1>19, <1>20, <1>21, <1>22, <1>23, <1>24 DEF Next

-----------------------------------------------------------------------------
(* Frames *)

(* FrameFits(x) in the next state, for a frame of either state.            *)
FitsAfter(x) ==
    /\ x.kind \in {"Poll", "Drop"} => x.op \in Ops /\ op'[x.op].dom = x.dom
    /\ x.kind = "Poll" => op'[x.op].future = "running"
    /\ x.kind = "Teardown" => refs'[x.dom] = {}
    /\ x.kind = "Instantiate" => x.mod \in Modules

(* Frames that fit after the step make a stack that does.                  *)
LEMMA NextFits ==
    ASSUME OneFrameEach(stack'), \A n \in 1..Len(stack') : FitsAfter(stack'[n])
    PROVE  FramesFit'
  BY DEF FramesFit, OneFrameEach, FrameFits, FitsAfter

(* A frame still fits when its operation is left alone and its domain, if  *)
(* destroyed, stays so.                                                    *)
LEMMA StillFits ==
    ASSUME NEW x, FrameFits(x),
           x.kind \in {"Poll", "Drop"} => /\ op'[x.op].dom = op[x.op].dom
                                          /\ op'[x.op].future = op[x.op].future,
           refs[x.dom] = {} => refs'[x.dom] = {}
    PROVE  FitsAfter(x)
  BY DEF FrameFits, FitsAfter

(* What is below the top frame fits, and belongs to other operations.      *)
LEMMA PoppedFits ==
    ASSUME IInv, stack # <<>>
    PROVE  /\ Popped \in Seq(Frames) /\ OneFrameEach(Popped)
           /\ \A n \in 1..Len(Popped) :
                 /\ Popped[n] \in Frames /\ FrameFits(Popped[n])
                 /\ Top.op \in Ops => Popped[n].op # Top.op
  <1>1. \A n \in 1..Len(Popped) : Popped[n] \in Frames
    BY TopFrame
  <1>2. QED
    BY <1>1, TopFrame DEF IInv, FramesFit, OneFrameEach

(* What the invariant says of the stack and of each frame on it.           *)
LEMMA StackFits ==
    ASSUME IInv
    PROVE  /\ stack \in Seq(Frames) /\ OneFrameEach(stack)
           /\ \A n \in 1..Len(stack) : stack[n] \in Frames /\ FrameFits(stack[n])
  BY DEF IInv, TypeOK, FramesFit

(* A frame pushed for an operation without one keeps the stack fitting.    *)
LEMMA PushedFits ==
    ASSUME IInv, NEW x \in Frames, stack' = Append(stack, x), FitsAfter(x),
           x.op \in Ops => \A n \in 1..Len(stack) : stack[n].op # x.op,
           \A n \in 1..Len(stack) : FitsAfter(stack[n])
    PROVE  FramesFit'
  <1>1. /\ stack \in Seq(Frames) /\ OneFrameEach(stack) /\ Len(stack) \in Nat
    BY StackFits
  <1>2. /\ Len(stack') = Len(stack) + 1 /\ stack'[Len(stack) + 1] = x
        /\ \A n \in 1..Len(stack) : stack'[n] = stack[n]
    BY <1>1, PushFacts
  <1>3. \A n \in 1..Len(stack') : n \in 1..Len(stack) \/ n = Len(stack) + 1
    BY <1>1, <1>2
  <1>4. \A n \in 1..Len(stack') : FitsAfter(stack'[n])
    BY <1>2, <1>3
  <1>5. OneFrameEach(stack')
    BY <1>1, <1>2, <1>3 DEF OneFrameEach
  <1>6. QED
    BY <1>4, <1>5, NextFits

(* Moving the top frame on changes neither its kind nor its operation.     *)
LEMMA MovedFits ==
    ASSUME IInv, stack # <<>>, UNCHANGED <<op, refs>>,
           NEW a \in {"guest", "callback", "continuation", "finalizer", "cleanup"},
           stack' = MovedTo(a)
    PROVE  FramesFit'
  <1>1. stack \in Seq(Frames) /\ OneFrameEach(stack)
    BY StackFits
  <1>2. /\ Len(stack') = Len(stack)
        /\ \A n \in 1..Len(stack) : n # Len(stack) => stack'[n] = stack[n]
        /\ stack'[Len(stack)] = [Top EXCEPT !.at = a]
    <2> DEFINE r == [stack EXCEPT ![Len(stack)].at = a]
    <2>1. /\ Len(r) = Len(stack)
          /\ \A n \in 1..Len(stack) : n # Len(stack) => r[n] = stack[n]
          /\ r[Len(stack)] = [stack[Len(stack)] EXCEPT !.at = a]
      BY <1>1, MoveFacts
    <2>2. stack' = r
      BY DEF MovedTo
    <2> HIDE DEF r
    <2>3. QED
      BY <2>1, <2>2 DEF Top
  <1>3. /\ [Top EXCEPT !.at = a].kind = Top.kind /\ [Top EXCEPT !.at = a].op = Top.op
        /\ [Top EXCEPT !.at = a].dom = Top.dom /\ [Top EXCEPT !.at = a].mod = Top.mod
    BY TopFrame DEF Frames
  <1>4. \A n \in 1..Len(stack) : /\ stack'[n].kind = stack[n].kind /\ stack'[n].op = stack[n].op
                                 /\ stack'[n].dom = stack[n].dom /\ stack'[n].mod = stack[n].mod
    BY <1>2, <1>3, TopFrame
  <1>5. \A n \in 1..Len(stack) : FrameFits(stack[n])
    BY StackFits
  <1>6. QED
    <2>1. OneFrameEach(stack')
      BY <1>1, <1>2, <1>4 DEF OneFrameEach
    <2>2. \A n \in 1..Len(stack') : FitsAfter(stack'[n])
      BY <1>2, <1>4, <1>5 DEF FrameFits, FitsAfter
    <2>3. QED
      BY <2>1, <2>2, NextFits

(* Letting go of a domain may push its destruction, which fits.            *)
LEMMA UnpinnedFits ==
    ASSUME IInv, NEW d \in Domains, NEW h, NEW rest \in Seq(Frames), Unpin(d, h, rest),
           OneFrameEach(rest), \A n \in 1..Len(rest) : FitsAfter(rest[n])
    PROVE  FramesFit'
  <1>1. CASE stack' = rest
    BY <1>1, NextFits
  <1>2. CASE /\ refs[d] = {h}
             /\ Len(stack') = Len(rest) + 1
             /\ \A n \in 1..Len(rest) : stack'[n] = rest[n]
             /\ stack'[Len(rest) + 1].kind = "Teardown"
             /\ stack'[Len(rest) + 1].dom = d
             /\ stack'[Len(rest) + 1].op = None
    <2>1. refs'[d] = {}
      BY <1>2 DEF Unpin, IInv, TypeOK
    <2>2. Len(rest) \in Nat
      OBVIOUS
    <2>3. \A n \in 1..Len(stack') : n \in 1..Len(rest) \/ n = Len(rest) + 1
      BY <1>2, <2>2
    <2>4. FitsAfter(stack'[Len(rest) + 1])
      BY <1>2, <2>1 DEF FitsAfter
    <2>5. \A n \in 1..Len(stack') : FitsAfter(stack'[n])
      BY <1>2, <2>3, <2>4
    <2>6. OneFrameEach(stack')
      BY <1>2, <2>3, ConstantsAssumption DEF OneFrameEach, ConstantsAssumption
    <2>7. QED
      BY <2>5, <2>6, NextFits
  <1>3. QED
    BY <1>1, <1>2, UnpinFacts

(* A step that leaves the stack, the owners and the places of the futures. *)
LEMMA QuietFits ==
    ASSUME IInv, UNCHANGED <<stack, refs, op>>
    PROVE  FramesFit'
  BY DEF IInv, FramesFit, OneFrameEach, FrameFits

(* An operation that starts is on no frame, and keeps its domain alive.    *)
LEMMA StartFits ==
    ASSUME IInv, NEW o \in Ops, op[o].kind = "free", NEW k, NEW d \in Domains, NEW m,
           Alive(d), Start(o, k, d, m)
    PROVE  FramesFit'
  <1>1. \A p \in Ops \ {o} : op'[p] = op[p]
    BY DEF IInv, TypeOK, Start
  <1>2. \A e \in Domains : refs[e] = {} => refs'[e] = {}
    BY DEF IInv, TypeOK, Start, Alive
  <1>3. op[o].dom \notin Domains
    BY OpFacts
  <1>4. ASSUME NEW n \in 1..Len(stack) PROVE FitsAfter(stack[n])
    <2>1. stack[n] \in Frames /\ FrameFits(stack[n])
      BY StackFits
    <2>2. stack[n].dom \in Domains
      BY <2>1 DEF Frames
    <2>3. stack[n].kind \in {"Poll", "Drop"} => stack[n].op \in Ops \ {o}
      BY <1>3, <2>1, <2>2 DEF FrameFits
    <2>4. QED
      BY <1>1, <1>2, <2>1, <2>2, <2>3 DEF FrameFits, FitsAfter
  <1>5. QED
    BY <1>4, StackFits, NextFits DEF Start

(* An operation on no frame of a stack may change its own state.           *)
LEMMA OthersFit ==
    ASSUME IInv, UNCHANGED refs, NEW o, \A p \in Ops \ {o} : op'[p] = op[p],
           NEW x, FrameFits(x), x.op # o
    PROVE  FitsAfter(x)
  BY DEF FrameFits, FitsAfter

(* Every step keeps frames and operations in agreement.                    *)
LEMMA FramesStep == IInv /\ [Next]_vars => FramesFit'
  <1> SUFFICES ASSUME IInv, [Next]_vars PROVE FramesFit'
    OBVIOUS
  <1>0. TypeOK
    BY DEF IInv
  <1>n. None \notin Ops
    BY ConstantsAssumption DEF ConstantsAssumption
  <1>q. UNCHANGED <<op, refs>> => \A n \in 1..Len(stack) : FitsAfter(stack[n])
    BY StackFits DEF FrameFits, FitsAfter
  <1>u. \A o \in Ops : Usable(o) => \A n \in 1..Len(stack) : stack[n].op # o
    BY DEF Usable
  <1>1. ASSUME NEW d \in Domains, NEW f \in HostFunctions, DefineAsyncFunction(d, f)
        PROVE  FramesFit'
    BY <1>1, QuietFits DEF DefineAsyncFunction
  <1>1a. ASSUME NEW d \in Domains, DefineRefused(d)
         PROVE  FramesFit'
    <2> DEFINE x == Frame("Define", d, None, None, "finalizer")
    <2>1. x \in Frames /\ x.kind = "Define" /\ x.dom = d /\ x.op = None
      BY DEF Frame, Frames
    <2>2. stack' = Append(stack, x)
      BY <1>1a DEF DefineRefused
    <2> HIDE DEF x
    <2>3. QED
      BY <1>1a, <1>n, <1>q, <2>1, <2>2, PushedFits DEF DefineRefused, FitsAfter
  <1>1b. CASE FinishDefine
    <2>1. UNCHANGED <<op, refs>> /\ stack' = Popped /\ stack # <<>>
      BY <1>1b DEF FinishDefine, OnTop
    <2>2. QED
      BY <2>1, PoppedFits, NextFits DEF FrameFits, FitsAfter
  <1>2. ASSUME NEW d \in Domains, NEW m \in Modules, Instantiate(d, m)
        PROVE  FramesFit'
    <2> DEFINE x == Frame("Instantiate", d, None, m, "guest")
    <2>1. x \in Frames /\ x.op = None /\ FitsAfter(x)
      BY DEF Frame, Frames, FitsAfter
    <2>2. stack' = Append(stack, x)
      BY <1>2 DEF Instantiate
    <2> HIDE DEF x
    <2>3. QED
      BY <1>2, <1>n, <1>q, <2>1, <2>2, PushedFits DEF Instantiate
  <1>3. CASE FinishInstantiate
    <2>1. UNCHANGED <<op, refs>> /\ stack' = Popped /\ stack # <<>>
      BY <1>3 DEF FinishInstantiate, OnTop
    <2>2. QED
      BY <2>1, PoppedFits, NextFits DEF FrameFits, FitsAfter
  <1>4. ASSUME NEW i \in Instances, Call(i)
        PROVE  FramesFit'
    <2> DEFINE d == inst[i].dom
    <2> DEFINE x == Frame("Call", d, None, None, "guest")
    <2>1. d \in Domains
      BY <1>0, <1>4 DEF Call, InstStates, TypeOK
    <2>2. x \in Frames /\ x.op = None /\ FitsAfter(x)
      BY <2>1 DEF Frame, Frames, FitsAfter
    <2>3. stack' = Append(stack, x) /\ UNCHANGED op
      BY <1>4 DEF Call
    <2>4. \A e \in Domains : refs[e] = {} => refs'[e] = {}
      BY <1>0, <1>4 DEF Call, Alive, TypeOK
    <2> HIDE DEF x
    <2>5. \A n \in 1..Len(stack) : FitsAfter(stack[n])
      BY <2>3, <2>4, StackFits, StillFits DEF Frames
    <2>6. QED
      BY <1>n, <2>2, <2>3, <2>5, PushedFits
  <1>5. CASE FinishCall
    <2>1. stack # <<>> /\ Top.dom \in Domains /\ UNCHANGED op
      BY <1>5, TopFrame DEF FinishCall, OnTop
    <2>2. \A e \in Domains : refs[e] = {} => refs'[e] = {}
      BY <1>0, <1>5 DEF FinishCall, Unpin, TypeOK
    <2>3. \A n \in 1..Len(Popped) : FitsAfter(Popped[n])
      BY <2>1, <2>2, PoppedFits, StillFits DEF Frames
    <2>4. QED
      BY <1>5, <2>1, <2>3, PoppedFits, UnpinnedFits DEF FinishCall
  <1>6. ASSUME NEW i \in Instances, NEW o \in Ops, CallAsync(i, o)
        PROVE  FramesFit'
    <2>1. inst[i].dom \in Domains
      BY <1>0, <1>6 DEF CallAsync, InstStates, TypeOK
    <2>2. QED
      BY <1>6, <2>1, StartFits DEF CallAsync
  <1>7. ASSUME NEW d \in Domains, NEW m \in Modules, NEW o \in Ops, InstantiateAsync(d, m, o)
        PROVE  FramesFit'
    BY <1>7, StartFits DEF InstantiateAsync, Alive
  <1>8. ASSUME NEW d \in Domains, NEW m \in Modules, InstantiateAsyncFails(d, m)
        PROVE  FramesFit'
    BY <1>8, QuietFits DEF InstantiateAsyncFails
  <1>9. ASSUME NEW o \in Ops, Usable(o), Poll(o)
        PROVE  FramesFit'
    <2> DEFINE x == Frame("Poll", op[o].dom, o, None,
                       IF op[o].future = "suspended" THEN "continuation" ELSE "guest")
    <2>1. op[o].dom \in Domains /\ op[o] # NoOp /\ op[o] \in OpStates
      BY <1>0, <1>9, OpFacts DEF Poll, TypeOK, NoOp
    <2>2. op'[o] = [op[o] EXCEPT !.future = "running"] /\ \A p \in Ops \ {o} : op'[p] = op[p]
      BY <1>0, <1>9 DEF Poll, TypeOK
    <2>3. op'[o].dom = op[o].dom /\ op'[o].future = "running"
      BY <2>1, <2>2 DEF OpStates, LiveOps
    <2>4. x \in Frames /\ x.op = o /\ FitsAfter(x) /\ stack' = Append(stack, x)
      BY <1>9, <2>1, <2>3 DEF Frame, Frames, FitsAfter, Poll
    <2>5. \A n \in 1..Len(stack) : FitsAfter(stack[n])
      BY <1>9, <1>u, <2>2, StackFits, OthersFit DEF Poll
    <2> HIDE DEF x
    <2>6. QED
      BY <1>9, <1>u, <2>4, <2>5, PushedFits
  <1>11. ASSUME NEW o \in Ops, Usable(o), PollUnresolved(o)
         PROVE  FramesFit'
    <2>1. \A p \in Ops \ {o} : op'[p] = op[p]
      BY <1>0, <1>11 DEF PollUnresolved, Complete, TypeOK
    <2>2. \A n \in 1..Len(stack) : FitsAfter(stack[n])
      BY <1>11, <1>u, <2>1, StackFits, OthersFit DEF PollUnresolved
    <2>3. QED
      BY <1>11, <2>2, StackFits, NextFits DEF PollUnresolved
  <1>12. CASE GuestCallsHost
    BY <1>12, MovedFits DEF GuestCallsHost
  <1>13. CASE HostReturnsOperation
    BY <1>13, MovedFits DEF HostReturnsOperation, OnTop
  <1>y. ASSUME stack # <<>>, Top.op \in Ops, stack' = Popped, UNCHANGED refs,
               \A p \in Ops \ {Top.op} : op'[p] = op[p]
        PROVE  FramesFit'
    BY <1>y, PoppedFits, OthersFit, NextFits
  <1>14. CASE ContinuationPending
    <2>1. stack # <<>> /\ Top.op \in Ops /\ \A p \in Ops \ {Top.op} : op'[p] = op[p]
      BY <1>0, <1>14, TopFrame DEF ContinuationPending, OnTop, TypeOK
    <2>2. QED
      BY <1>14, <1>y, <2>1 DEF ContinuationPending
  <1>15. CASE ContinuationReady
    BY <1>15, MovedFits DEF ContinuationReady, OnTop
  <1>16. CASE HostFails
    <2>1. stack # <<>> /\ Top.op \in Ops /\ \A p \in Ops \ {Top.op} : op'[p] = op[p]
      BY <1>0, <1>16, TopFrame DEF HostFails, Complete, OnTop, TypeOK
    <2>2. QED
      BY <1>16, <1>y, <2>1 DEF HostFails
  <1>17. CASE GuestReturns
    <2>1. stack # <<>> /\ Top.op \in Ops /\ \A p \in Ops \ {Top.op} : op'[p] = op[p]
      BY <1>0, <1>17, TopFrame DEF GuestReturns, Complete, OnTop, TypeOK
    <2>2. QED
      BY <1>17, <1>y, <2>1 DEF GuestReturns
  <1>18. ASSUME NEW o \in Ops, Usable(o), TakeResult(o)
         PROVE  FramesFit'
    <2>1. \A p \in Ops \ {o} : op'[p] = op[p]
      BY <1>0, <1>18 DEF TakeResult, TypeOK
    <2>2. \A n \in 1..Len(stack) : FitsAfter(stack[n])
      BY <1>18, <1>u, <2>1, StackFits, OthersFit DEF TakeResult
    <2>3. QED
      BY <1>18, <2>2, StackFits, NextFits DEF TakeResult
  <1>19. ASSUME NEW o \in Ops, Usable(o), Drop(o)
         PROVE  FramesFit'
    <2> DEFINE x == Frame("Drop", op[o].dom, o, None,
                       IF op[o].future = "suspended" THEN "finalizer" ELSE "cleanup")
    <2>1. op[o].dom \in Domains
      BY <1>19, OpFacts DEF Drop
    <2>2. UNCHANGED <<op, refs>>
      BY <1>19 DEF Drop
    <2>3. x \in Frames /\ x.op = o /\ FitsAfter(x) /\ stack' = Append(stack, x)
      BY <1>19, <2>1, <2>2 DEF Frame, Frames, FitsAfter, Drop
    <2> HIDE DEF x
    <2>4. QED
      BY <1>19, <1>q, <1>u, <2>2, <2>3, PushedFits
  <1>20. CASE FinishDrop
    <2>1. stack # <<>> /\ Top.op \in Ops /\ Top.dom \in Domains
      BY <1>20, TopFrame DEF FinishDrop, OnTop
    <2>2. \A p \in Ops \ {Top.op} : op'[p] = op[p]
      BY <1>0, <1>20, <2>1 DEF FinishDrop, TypeOK
    <2>3. \A e \in Domains : refs[e] = {} => refs'[e] = {}
      BY <1>0, <1>20 DEF FinishDrop, Unpin, TypeOK
    <2>4. ASSUME NEW n \in 1..Len(Popped) PROVE FitsAfter(Popped[n])
      <3>1. Popped[n] \in Frames /\ FrameFits(Popped[n]) /\ Popped[n].op # Top.op
        BY <2>1, PoppedFits
      <3>2. Popped[n].dom \in Domains
        BY <3>1 DEF Frames
      <3>3. Popped[n].kind \in {"Poll", "Drop"} => Popped[n].op \in Ops \ {Top.op}
        BY <3>1 DEF FrameFits
      <3>4. QED
        BY <2>2, <2>3, <3>1, <3>2, <3>3, StillFits
    <2>5. QED
      BY <1>20, <2>1, <2>4, PoppedFits, UnpinnedFits DEF FinishDrop
  <1>21. ASSUME NEW d \in Domains, DropHandle(d)
         PROVE  FramesFit'
    <2>1. \A e \in Domains : refs[e] = {} => refs'[e] = {}
      BY <1>0, <1>21 DEF DropHandle, Unpin, TypeOK
    <2>2. \A n \in 1..Len(stack) : FitsAfter(stack[n])
      BY <1>21, <2>1, StackFits, StillFits DEF DropHandle, Frames
    <2>3. QED
      BY <1>21, <2>2, StackFits, UnpinnedFits DEF DropHandle
  <1>22. CASE FinishTeardown
    <2>1. UNCHANGED <<op, refs>> /\ stack' = Popped /\ stack # <<>>
      BY <1>22 DEF FinishTeardown, OnTop
    <2>2. QED
      BY <2>1, PoppedFits, NextFits DEF FrameFits, FitsAfter
  <1>23. ASSUME NEW i \in Instances, DropInstance(i)
         PROVE  FramesFit'
    BY <1>23, QuietFits DEF DropInstance
  <1>24. CASE UNCHANGED vars
    BY <1>24, QuietFits DEF vars
  <1>1c. ASSUME NEW d \in Domains, NEW k \in {"Sync", "Async", "Mutation"}, OperationFails(d, k)
         PROVE  FramesFit'
    BY <1>0, <1>1c, <1>24, FailsQuietly
  <1>25. QED
    BY <1>1, <1>1a, <1>1b, <1>1c, <1>2, <1>3, <1>4, <1>5, <1>6, <1>7, <1>8, <1>9, <1>11, <1>12, <1>13, <1>14,
       <1>15, <1>16, <1>17, <1>18, <1>19, <1>20, <1>21, <1>22, <1>23, <1>24 DEF Next

-----------------------------------------------------------------------------
(* Exclusive leases.  A step lets a synchronous operation or mutation enter *)
(* a Store, lets the one on top leave, or leaves all of them alone.        *)

Keeper(x) == IF x.kind = "Call" THEN "local" ELSE "handle"

SameLeaseFrames ==
    /\ \A n \in 1..Len(stack') :
          stack'[n].kind \in LeaseKinds =>
              n \in 1..Len(stack) /\ stack[n].kind = stack'[n].kind /\ stack[n].dom = stack'[n].dom
    /\ \A n \in 1..Len(stack) :
          stack[n].kind \in LeaseKinds =>
              n \in 1..Len(stack') /\ stack[n].kind = stack'[n].kind /\ stack[n].dom = stack'[n].dom

Quiet ==
    /\ SameLeaseFrames
    /\ \A d \in Domains : activity'[d] = "Exclusive" <=> activity[d] = "Exclusive"
    /\ \A n \in 1..Len(stack) :
          stack[n].kind \in LeaseKinds => Keeper(stack[n]) \in refs'[stack[n].dom]

Enters(x) ==
    /\ x \in Frames /\ x.kind \in LeaseKinds /\ stack' = Append(stack, x)
    /\ activity[x.dom] = "Idle" /\ activity' = [activity EXCEPT ![x.dom] = "Exclusive"]
    /\ \A d \in Domains : refs[d] \subseteq refs'[d]
    /\ Keeper(x) \in refs'[x.dom]
    /\ x.kind \in SyncKinds => ~asyncRequired[x.dom]
    /\ UNCHANGED <<op, asyncRequired>>

Leaves ==
    /\ stack # <<>> /\ Top.kind \in LeaseKinds
    /\ activity' = [activity EXCEPT ![Top.dom] = "Idle"]
    /\ \A n \in 1..Len(Popped) : n \in 1..Len(stack') /\ stack'[n] = Popped[n]
    /\ \A n \in 1..Len(stack') : stack'[n].kind \in LeaseKinds => n \in 1..Len(Popped)
    /\ \A d \in Domains \ {Top.dom} : refs'[d] = refs[d]
    /\ UNCHANGED <<op, asyncRequired>>

(* What each of the ways in which a step changes the stack does to the     *)
(* frames that hold a lease.                                               *)
LEMMA PushedLeases ==
    ASSUME IInv, NEW x \in Frames, x.kind \notin LeaseKinds, stack' = Append(stack, x)
    PROVE  SameLeaseFrames
  <1>1. stack \in Seq(Frames) /\ Len(stack) \in Nat
    BY DEF IInv, TypeOK
  <1>2. /\ Len(stack') = Len(stack) + 1 /\ stack'[Len(stack) + 1] = x
        /\ \A n \in 1..Len(stack) : stack'[n] = stack[n]
    BY <1>1, PushFacts
  <1>3. \A n \in 1..Len(stack') : n \in 1..Len(stack) \/ n = Len(stack) + 1
    BY <1>1, <1>2
  <1>4. \A n \in 1..Len(stack) : n \in 1..Len(stack')
    BY <1>1, <1>2
  <1>5. QED
    BY <1>2, <1>3, <1>4 DEF SameLeaseFrames

(* Popping a frame without a lease.                                        *)
LEMMA PoppedLeases ==
    ASSUME IInv, stack # <<>>, Top.kind \notin LeaseKinds, stack' = Popped
    PROVE  SameLeaseFrames
  <1>1. /\ Len(Popped) = Len(stack) - 1 /\ Len(stack) \in 1..Len(stack)
        /\ Top = stack[Len(stack)]
        /\ \A n \in 1..Len(Popped) : n \in 1..Len(stack) /\ Popped[n] = stack[n]
    BY TopFrame
  <1>2. \A n \in 1..Len(stack) : n \in 1..Len(Popped) \/ n = Len(stack)
    BY <1>1
  <1>3. QED
    BY <1>1, <1>2 DEF SameLeaseFrames

(* Moving the top frame.                                                   *)
LEMMA MovedLeases ==
    ASSUME IInv, stack # <<>>,
           NEW a \in {"guest", "callback", "continuation", "finalizer", "cleanup"},
           stack' = MovedTo(a)
    PROVE  SameLeaseFrames
  <1>1. stack \in Seq(Frames)
    BY DEF IInv, TypeOK
  <1>2. /\ [Top EXCEPT !.at = a].kind = Top.kind /\ [Top EXCEPT !.at = a].dom = Top.dom
    BY TopFrame DEF Frames
  <1>3. /\ Len(stack') = Len(stack)
        /\ \A n \in 1..Len(stack) : n # Len(stack) => stack'[n] = stack[n]
        /\ stack'[Len(stack)] = [Top EXCEPT !.at = a]
    <2> DEFINE r == [stack EXCEPT ![Len(stack)].at = a]
    <2>1. /\ Len(r) = Len(stack)
          /\ \A n \in 1..Len(stack) : n # Len(stack) => r[n] = stack[n]
          /\ r[Len(stack)] = [stack[Len(stack)] EXCEPT !.at = a]
      BY <1>1, MoveFacts
    <2>2. stack' = r
      BY DEF MovedTo
    <2> HIDE DEF r
    <2>3. QED
      BY <2>1, <2>2 DEF Top
  <1>4. Top = stack[Len(stack)]
    BY DEF Top
  <1>5. \A n \in 1..Len(stack) : stack'[n].kind = stack[n].kind /\ stack'[n].dom = stack[n].dom
    BY <1>2, <1>3, <1>4
  <1>6. QED
    BY <1>3, <1>5 DEF SameLeaseFrames

(* Letting go of a domain, over a stack that keeps its lease frames.       *)
LEMMA UnpinnedLeases ==
    ASSUME NEW d \in Domains, NEW h, NEW rest \in Seq(Frames), Unpin(d, h, rest)
    PROVE  /\ \A n \in 1..Len(rest) : n \in 1..Len(stack') /\ stack'[n] = rest[n]
           /\ \A n \in 1..Len(stack') : stack'[n].kind \in LeaseKinds => n \in 1..Len(rest)
  <1>1. Len(rest) \in Nat
    OBVIOUS
  <1>2. CASE stack' = rest
    BY <1>2
  <1>3. CASE /\ Len(stack') = Len(rest) + 1
             /\ \A n \in 1..Len(rest) : stack'[n] = rest[n]
             /\ stack'[Len(rest) + 1].kind = "Teardown"
    <2>1. \A n \in 1..Len(stack') : n \in 1..Len(rest) \/ n = Len(rest) + 1
      BY <1>1, <1>3
    <2>2. \A n \in 1..Len(rest) : n \in 1..Len(stack')
      BY <1>1, <1>3
    <2>3. QED
      BY <1>3, <2>1, <2>2 DEF LeaseKinds, SyncKinds
  <1>4. QED
    BY <1>2, <1>3, UnpinFacts

(* Every step is of one of the three kinds.                                *)
LEMMA LeaseStack ==
    ASSUME IInv, [Next]_vars
    PROVE  Quiet \/ (\E x \in Frames : Enters(x)) \/ Leaves
  <1>0. TypeOK /\ ExclusiveHeld
    BY DEF IInv
  <1>a. \A d \in Domains, k \in {"Sync", "Async", "Mutation"} :
           Acquire(d, k) = "OK" => activity[d] = "Idle" /\ (k = "Sync" => ~asyncRequired[d])
    BY DEF Acquire
  <1>n. {"handle", "local"} \cap Ops = {}
    BY ConstantsAssumption DEF ConstantsAssumption
  <1>h. \A n \in 1..Len(stack) : stack[n].kind \in LeaseKinds =>
           /\ stack[n].dom \in Domains
           /\ activity[stack[n].dom] = "Exclusive" /\ Keeper(stack[n]) \in refs[stack[n].dom]
    BY <1>0, StackFits DEF ExclusiveHeld, Keeper, Frames
  <1>q. ASSUME SameLeaseFrames,
               \A d \in Domains : activity'[d] = "Exclusive" <=> activity[d] = "Exclusive",
               \A d \in Domains : refs[d] \cap {"handle", "local"} \subseteq refs'[d]
        PROVE  Quiet
    BY <1>h, <1>q DEF Quiet, Keeper
  <1>s. UNCHANGED stack => SameLeaseFrames
    BY DEF SameLeaseFrames
  <1>u. UNCHANGED <<stack, activity, refs>> => Quiet
    BY <1>q, <1>s
  <1>p. OnTop("Poll") \/ OnTop("Drop") \/ OnTop("Teardown") =>
           /\ stack # <<>> /\ Top.kind \notin LeaseKinds /\ Top.dom \in Domains
           /\ Popped \in Seq(Frames)
           /\ ~OnTop("Teardown") => Top.op \in Ops
    BY TopFrame DEF OnTop, LeaseKinds, SyncKinds
  <1>r. ASSUME NEW o \in Ops, activity' = ReleasedBy(o)
        PROVE  \A d \in Domains : activity'[d] = "Exclusive" <=> activity[d] = "Exclusive"
    BY <1>0, <1>r, OpFacts DEF ReleasedBy, TypeOK
  <1>1. ASSUME NEW d \in Domains, NEW f \in HostFunctions, DefineAsyncFunction(d, f)
        PROVE  Quiet
    BY <1>1, <1>u DEF DefineAsyncFunction
  <1>1a. ASSUME NEW d \in Domains, DefineRefused(d)
         PROVE  \E x \in Frames : Enters(x)
    <2> DEFINE x == Frame("Define", d, None, None, "finalizer")
    <2>1. x \in Frames /\ x.kind = "Define" /\ x.dom = d /\ stack' = Append(stack, x)
      BY <1>1a DEF DefineRefused, Frame, Frames
    <2> HIDE DEF x
    <2>2. Enters(x)
      BY <1>1a, <1>a, <2>1, MutationTakes
         DEF Enters, Keeper, DefineRefused, LeaseKinds, SyncKinds
    <2>3. QED
      BY <2>1, <2>2
  <1>1b. CASE FinishDefine
    <2>1. /\ stack # <<>> /\ Top.kind \in LeaseKinds /\ stack' = Popped
          /\ activity' = [activity EXCEPT ![Top.dom] = "Idle"] /\ UNCHANGED <<op, asyncRequired, refs>>
      BY <1>1b DEF FinishDefine, OnTop, LeaseKinds
    <2>2. Leaves
      BY <2>1 DEF Leaves
    <2>3. QED
      BY <2>2
  <1>2. ASSUME NEW d \in Domains, NEW m \in Modules, Instantiate(d, m)
        PROVE  \E x \in Frames : Enters(x)
    <2> DEFINE x == Frame("Instantiate", d, None, m, "guest")
    <2>1. x \in Frames /\ x.kind = "Instantiate" /\ x.dom = d /\ stack' = Append(stack, x)
      BY <1>2 DEF Instantiate, Frame, Frames
    <2> HIDE DEF x
    <2>2. Enters(x)
      BY <1>2, <1>a, <2>1 DEF Enters, Keeper, Instantiate, LeaseKinds, SyncKinds
    <2>3. QED
      BY <2>1, <2>2
  <1>3. CASE FinishInstantiate
    <2>1. /\ stack # <<>> /\ Top.kind \in LeaseKinds /\ stack' = Popped
          /\ activity' = [activity EXCEPT ![Top.dom] = "Idle"] /\ UNCHANGED <<op, asyncRequired, refs>>
      BY <1>3 DEF FinishInstantiate, OnTop, LeaseKinds, SyncKinds
    <2>2. Leaves
      BY <2>1 DEF Leaves
    <2>3. QED
      BY <2>2
  <1>4. ASSUME NEW i \in Instances, Call(i)
        PROVE  \E x \in Frames : Enters(x)
    <2> DEFINE d == inst[i].dom
    <2> DEFINE x == Frame("Call", d, None, None, "guest")
    <2>1. d \in Domains
      BY <1>0, <1>4 DEF Call, InstStates, TypeOK
    <2>2. x \in Frames /\ x.kind = "Call" /\ x.dom = d /\ stack' = Append(stack, x)
      BY <1>4, <2>1 DEF Call, Frame, Frames
    <2>3. /\ Acquire(d, "Sync") = "OK" /\ UNCHANGED <<op, asyncRequired>>
          /\ activity' = [activity EXCEPT ![d] = "Exclusive"]
          /\ refs' = [refs EXCEPT ![d] = @ \cup {"local"}]
      BY <1>4 DEF Call
    <2>4. "local" \in refs'[d] /\ \A e \in Domains : refs[e] \subseteq refs'[e]
      BY <1>0, <2>1, <2>3 DEF TypeOK
    <2> HIDE DEF x, d
    <2>5. Enters(x)
      BY <1>a, <2>1, <2>2, <2>3, <2>4 DEF Enters, Keeper, LeaseKinds, SyncKinds
    <2>6. QED
      BY <2>2, <2>5
  <1>5. CASE FinishCall
    <2>1. /\ stack # <<>> /\ Top.kind \in LeaseKinds /\ Top.dom \in Domains /\ Popped \in Seq(Frames)
          /\ Unpin(Top.dom, "local", Popped)
          /\ activity' = [activity EXCEPT ![Top.dom] = "Idle"] /\ UNCHANGED <<op, asyncRequired>>
      BY <1>5, TopFrame DEF FinishCall, OnTop, LeaseKinds, SyncKinds
    <2>2. \A d \in Domains \ {Top.dom} : refs'[d] = refs[d]
      BY <1>0, <2>1 DEF Unpin, TypeOK
    <2>3. Leaves
      BY <2>1, <2>2, UnpinnedLeases DEF Leaves
    <2>4. QED
      BY <2>3
  <1>6. ASSUME NEW d \in Domains, NEW o \in Ops, NEW k, NEW m, Acquire(d, "Async") = "OK",
               Start(o, k, d, m)
        PROVE  Quiet
    <2>1. /\ \A e \in Domains : activity'[e] = "Exclusive" <=> activity[e] = "Exclusive"
          /\ \A e \in Domains : refs[e] \subseteq refs'[e]
      BY <1>0, <1>6, <1>a DEF Start, TypeOK
    <2>2. QED
      BY <1>6, <1>q, <1>s, <2>1 DEF Start
  <1>7. ASSUME NEW i \in Instances, NEW o \in Ops, CallAsync(i, o)
        PROVE  Quiet
    <2>1. inst[i].dom \in Domains
      BY <1>0, <1>7 DEF CallAsync, InstStates, TypeOK
    <2>2. QED
      BY <1>6, <1>7, <2>1 DEF CallAsync
  <1>8. ASSUME NEW d \in Domains, NEW m \in Modules, InstantiateAsyncFails(d, m)
        PROVE  Quiet
    BY <1>0, <1>8, <1>u, FailsIdle DEF InstantiateAsyncFails, TypeOK
  <1>9. ASSUME NEW o \in Ops, Poll(o)
        PROVE  Quiet
    <2> DEFINE x == Frame("Poll", op[o].dom, o, None,
                       IF op[o].future = "suspended" THEN "continuation" ELSE "guest")
    <2>1. op[o].dom \in Domains
      BY <1>9, OpFacts DEF Poll
    <2>2. x \in Frames /\ x.kind \notin LeaseKinds /\ stack' = Append(stack, x)
      BY <1>9, <2>1 DEF Frame, Frames, LeaseKinds, SyncKinds, Poll
    <2> HIDE DEF x
    <2>3. QED
      BY <1>9, <1>q, <2>2, PushedLeases DEF Poll
  <1>11. ASSUME NEW o \in Ops, PollUnresolved(o)
         PROVE  Quiet
    BY <1>11, <1>q, <1>r, <1>s DEF PollUnresolved, Complete
  <1>12. CASE GuestCallsHost
    BY <1>12, <1>q, MovedLeases DEF GuestCallsHost
  <1>13. CASE HostReturnsOperation \/ ContinuationReady
    BY <1>13, <1>q, MovedLeases DEF HostReturnsOperation, ContinuationReady, OnTop
  <1>14. CASE ContinuationPending
    BY <1>14, <1>p, <1>q, PoppedLeases DEF ContinuationPending
  <1>16. CASE HostFails
    <2>1. /\ stack # <<>> /\ Top.kind \notin LeaseKinds /\ Top.op \in Ops
          /\ stack' = Popped /\ UNCHANGED refs
      BY <1>16, <1>p DEF HostFails, OnTop
    <2>2. activity' = ReleasedBy(Top.op)
      BY <1>16 DEF HostFails, Complete
    <2>3. SameLeaseFrames
      BY <2>1, PoppedLeases
    <2>4. QED
      BY <1>q, <1>r, <2>1, <2>2, <2>3
  <1>17. CASE GuestReturns
    <2>1. /\ stack # <<>> /\ Top.kind \notin LeaseKinds /\ Top.op \in Ops
          /\ stack' = Popped /\ UNCHANGED refs
      BY <1>17, <1>p DEF GuestReturns, OnTop
    <2>2. activity' = ReleasedBy(Top.op)
      BY <1>17 DEF GuestReturns, Complete
    <2>3. SameLeaseFrames
      BY <2>1, PoppedLeases
    <2>4. QED
      BY <1>q, <1>r, <2>1, <2>2, <2>3
  <1>18. ASSUME NEW o \in Ops, TakeResult(o)
         PROVE  Quiet
    BY <1>18, <1>u DEF TakeResult
  <1>19. ASSUME NEW o \in Ops, Drop(o)
         PROVE  Quiet
    <2> DEFINE x == Frame("Drop", op[o].dom, o, None,
                       IF op[o].future = "suspended" THEN "finalizer" ELSE "cleanup")
    <2>1. op[o].dom \in Domains
      BY <1>19, OpFacts DEF Drop
    <2>2. x \in Frames /\ x.kind \notin LeaseKinds /\ stack' = Append(stack, x)
      BY <1>19, <2>1 DEF Frame, Frames, LeaseKinds, SyncKinds, Drop
    <2> HIDE DEF x
    <2>3. QED
      BY <1>19, <1>q, <2>2, PushedLeases DEF Drop
  <1>20. CASE FinishDrop
    <2>1. /\ stack # <<>> /\ Top.kind \notin LeaseKinds /\ Top.dom \in Domains
          /\ Popped \in Seq(Frames) /\ Top.op \in Ops
      BY <1>20, <1>p DEF FinishDrop, OnTop
    <2>2. Unpin(Top.dom, Top.op, Popped) /\ activity' = ReleasedBy(Top.op)
      BY <1>20 DEF FinishDrop
    <2>3. \A n \in 1..Len(stack) : n \in 1..Len(Popped) \/ n = Len(stack)
      BY <2>1, TopFrame
    <2>4. SameLeaseFrames
      BY <2>1, <2>2, <2>3, TopFrame, UnpinnedLeases DEF SameLeaseFrames
    <2>5. \A d \in Domains : refs[d] \cap {"handle", "local"} \subseteq refs'[d]
      BY <1>0, <1>n, <2>1, <2>2 DEF Unpin, TypeOK
    <2>6. QED
      BY <1>q, <1>r, <2>1, <2>2, <2>4, <2>5
  <1>21. ASSUME NEW d \in Domains, Releasable(d), DropHandle(d)
         PROVE  Quiet
    <2>1. stack \in Seq(Frames) /\ Unpin(d, "handle", stack) /\ UNCHANGED activity
      BY <1>0, <1>21 DEF DropHandle, TypeOK
    <2>2. SameLeaseFrames
      BY <2>1, UnpinnedLeases DEF SameLeaseFrames
    <2>3. refs' = [refs EXCEPT ![d] = @ \ {"handle"}]
      BY <2>1 DEF Unpin
    <2>4. ASSUME NEW n \in 1..Len(stack), stack[n].kind \in LeaseKinds
          PROVE  Keeper(stack[n]) \in refs'[stack[n].dom]
      <3>1. stack[n].dom \in Domains /\ Keeper(stack[n]) \in refs[stack[n].dom]
        BY <1>h, <2>4
      <3>2. CASE stack[n].dom # d
        BY <1>0, <2>3, <3>1, <3>2 DEF TypeOK
      <3>3. CASE stack[n].dom = d
        <4>1. stack[n].kind = "Call"
          BY <1>21, <2>4, <3>3 DEF Releasable, LeaseKinds, SyncKinds
        <4>2. QED
          BY <1>0, <2>3, <3>1, <4>1 DEF TypeOK, Keeper
      <3>4. QED
        BY <3>2, <3>3
    <2>5. QED
      BY <2>1, <2>2, <2>4 DEF Quiet
  <1>22. CASE FinishTeardown
    BY <1>22, <1>p, <1>q, PoppedLeases DEF FinishTeardown
  <1>23. ASSUME NEW i \in Instances, DropInstance(i)
         PROVE  Quiet
    BY <1>23, <1>u DEF DropInstance
  <1>24. CASE UNCHANGED vars
    BY <1>24, <1>u DEF vars
  <1>1c. ASSUME NEW d \in Domains, NEW k \in {"Sync", "Async", "Mutation"}, OperationFails(d, k)
         PROVE  Quiet
    BY <1>0, <1>1c, <1>u, FailsQuietly DEF vars
  <1>25. ASSUME NEW d \in Domains, NEW m \in Modules, NEW o \in Ops, InstantiateAsync(d, m, o)
         PROVE  Quiet
    BY <1>6, <1>25 DEF InstantiateAsync
  <1>26. QED
    BY <1>1, <1>1a, <1>1b, <1>1c, <1>2, <1>3, <1>4, <1>5, <1>7, <1>8, <1>9, <1>11, <1>12, <1>13,
       <1>14, <1>16, <1>17, <1>18, <1>19, <1>20, <1>21, <1>22, <1>23, <1>24, <1>25 DEF Next

(* So every step keeps each exclusive lease with its one operation.        *)
LEMMA ExclusiveStep == IInv /\ [Next]_vars => ExclusiveHeld'
  <1> SUFFICES ASSUME IInv, [Next]_vars PROVE ExclusiveHeld'
    OBVIOUS
  <1>0. ExclusiveHeld /\ activity \in [Domains -> {"Idle", "Exclusive", "Async"}]
    BY DEF IInv, TypeOK
  <1>h. \A n \in 1..Len(stack) : stack[n].kind \in LeaseKinds =>
           /\ stack[n].dom \in Domains
           /\ activity[stack[n].dom] = "Exclusive" /\ Keeper(stack[n]) \in refs[stack[n].dom]
    BY <1>0, StackFits DEF ExclusiveHeld, Keeper, Frames
  <1>o. \A n, k \in 1..Len(stack) :
           stack[n].kind \in LeaseKinds /\ stack[k].kind \in LeaseKinds
             /\ stack[n].dom = stack[k].dom => n = k
    BY <1>0 DEF ExclusiveHeld
  <1>e. \A d \in Domains : activity[d] = "Exclusive" =>
           \E n \in 1..Len(stack) : stack[n].dom = d /\ stack[n].kind \in LeaseKinds
    BY <1>0 DEF ExclusiveHeld, LeaseFrames
  <1>x. ASSUME \A n \in 1..Len(stack') : stack'[n].kind \in LeaseKinds =>
                  /\ activity'[stack'[n].dom] = "Exclusive"
                  /\ Keeper(stack'[n]) \in refs'[stack'[n].dom],
               \A n, k \in 1..Len(stack') :
                  stack'[n].kind \in LeaseKinds /\ stack'[k].kind \in LeaseKinds
                    /\ stack'[n].dom = stack'[k].dom => n = k,
               \A d \in Domains : activity'[d] = "Exclusive" =>
                  \E n \in 1..Len(stack') : stack'[n].dom = d /\ stack'[n].kind \in LeaseKinds
        PROVE  ExclusiveHeld'
    BY <1>x DEF ExclusiveHeld, Keeper, LeaseFrames
  <1>1. CASE Quiet
    <2>1. \A n \in 1..Len(stack') : stack'[n].kind \in LeaseKinds =>
             /\ n \in 1..Len(stack) /\ stack[n].kind = stack'[n].kind /\ stack[n].dom = stack'[n].dom
             /\ Keeper(stack'[n]) = Keeper(stack[n])
      BY <1>1 DEF Quiet, SameLeaseFrames, Keeper
    <2>2. \A n \in 1..Len(stack') : stack'[n].kind \in LeaseKinds =>
             /\ activity'[stack'[n].dom] = "Exclusive"
             /\ Keeper(stack'[n]) \in refs'[stack'[n].dom]
      BY <1>1, <1>h, <2>1 DEF Quiet
    <2>3. \A n, k \in 1..Len(stack') :
             stack'[n].kind \in LeaseKinds /\ stack'[k].kind \in LeaseKinds
               /\ stack'[n].dom = stack'[k].dom => n = k
      BY <1>o, <2>1
    <2>4. \A d \in Domains : activity'[d] = "Exclusive" =>
             \E n \in 1..Len(stack') : stack'[n].dom = d /\ stack'[n].kind \in LeaseKinds
      BY <1>1, <1>e DEF Quiet, SameLeaseFrames
    <2>5. QED
      BY <1>x, <2>2, <2>3, <2>4
  <1>2. CASE \E x \in Frames : Enters(x)
    <2>1. PICK x \in Frames : Enters(x)
      BY <1>2
    <2>2. /\ stack \in Seq(Frames) /\ Len(stack) \in Nat /\ x.dom \in Domains
      BY DEF IInv, TypeOK, Frames
    <2>3. /\ Len(stack') = Len(stack) + 1 /\ stack'[Len(stack) + 1] = x
          /\ \A n \in 1..Len(stack) : stack'[n] = stack[n]
      BY <2>1, <2>2, PushFacts DEF Enters
    <2>4. /\ \A n \in 1..Len(stack') : n \in 1..Len(stack) \/ n = Len(stack) + 1
          /\ \A n \in 1..Len(stack) : n \in 1..Len(stack')
          /\ Len(stack) + 1 \in 1..Len(stack')
      BY <2>2, <2>3
    <2>5. /\ activity'[x.dom] = "Exclusive" /\ activity[x.dom] = "Idle" /\ x.kind \in LeaseKinds
          /\ \A d \in Domains \ {x.dom} : activity'[d] = activity[d]
          /\ Keeper(x) \in refs'[x.dom] /\ \A d \in Domains : refs[d] \subseteq refs'[d]
      BY <1>0, <2>1, <2>2 DEF Enters
    <2>6. \A n \in 1..Len(stack) : stack[n].kind \in LeaseKinds => stack[n].dom # x.dom
      BY <1>h, <2>5
    <2>7. \A n \in 1..Len(stack') : stack'[n].kind \in LeaseKinds =>
             /\ activity'[stack'[n].dom] = "Exclusive"
             /\ Keeper(stack'[n]) \in refs'[stack'[n].dom]
      BY <1>h, <2>3, <2>4, <2>5, <2>6
    <2>8. \A n, k \in 1..Len(stack') :
             stack'[n].kind \in LeaseKinds /\ stack'[k].kind \in LeaseKinds
               /\ stack'[n].dom = stack'[k].dom => n = k
      BY <1>o, <2>3, <2>4, <2>6
    <2>9. \A d \in Domains : activity'[d] = "Exclusive" =>
             \E n \in 1..Len(stack') : stack'[n].dom = d /\ stack'[n].kind \in LeaseKinds
      BY <1>e, <2>3, <2>4, <2>5
    <2>10. QED
      BY <1>x, <2>7, <2>8, <2>9
  <1>3. CASE Leaves
    <2>1. /\ stack # <<>> /\ Top.kind \in LeaseKinds /\ Top.dom \in Domains
          /\ Len(stack) \in 1..Len(stack) /\ Top = stack[Len(stack)]
          /\ \A n \in 1..Len(Popped) :
                n \in 1..Len(stack) /\ n # Len(stack) /\ Popped[n] = stack[n]
          /\ \A n \in 1..Len(stack) : n \in 1..Len(Popped) \/ n = Len(stack)
      BY <1>3, TopFrame DEF Leaves
    <2>2. \A n \in 1..Len(stack') : stack'[n].kind \in LeaseKinds =>
             /\ n \in 1..Len(stack) /\ stack'[n] = stack[n] /\ stack[n].dom # Top.dom
      BY <1>3, <1>o, <2>1 DEF Leaves
    <2>3. /\ activity'[Top.dom] = "Idle"
          /\ \A d \in Domains \ {Top.dom} : activity'[d] = activity[d] /\ refs'[d] = refs[d]
      BY <1>0, <1>3, <2>1 DEF Leaves
    <2>4. \A n \in 1..Len(stack') : stack'[n].kind \in LeaseKinds =>
             /\ activity'[stack'[n].dom] = "Exclusive"
             /\ Keeper(stack'[n]) \in refs'[stack'[n].dom]
      BY <1>h, <2>2, <2>3
    <2>5. \A n, k \in 1..Len(stack') :
             stack'[n].kind \in LeaseKinds /\ stack'[k].kind \in LeaseKinds
               /\ stack'[n].dom = stack'[k].dom => n = k
      BY <1>o, <2>2
    <2>6. ASSUME NEW d \in Domains, activity'[d] = "Exclusive"
          PROVE  \E n \in 1..Len(stack') : stack'[n].dom = d /\ stack'[n].kind \in LeaseKinds
      <3>1. d # Top.dom /\ activity[d] = "Exclusive"
        BY <2>3, <2>6
      <3>2. PICK n \in 1..Len(stack) : stack[n].dom = d /\ stack[n].kind \in LeaseKinds
        BY <1>e, <3>1
      <3>3. n \in 1..Len(stack') /\ stack'[n] = stack[n]
        BY <1>3, <2>1, <3>1, <3>2 DEF Leaves
      <3>4. QED
        BY <3>2, <3>3
    <2>7. QED
      BY <1>x, <2>4, <2>5, <2>6
  <1>4. QED
    BY <1>1, <1>2, <1>3, LeaseStack

-----------------------------------------------------------------------------
(* Asynchronous entrypoints are required in time *)

(* Only what is linked, what is registered, what is marked and what is     *)
(* pending matters; a step may mark more Stores.                           *)
LEMMA SameRequired ==
    ASSUME IInv, UNCHANGED <<linked, hostFns>>,
           \A d \in Domains : asyncRequired[d] => asyncRequired'[d],
           \A o \in Ops : op'[o].kind = "inst" /\ op'[o].future # "null" =>
               /\ op[o].kind = "inst" /\ op[o].future # "null"
               /\ op'[o].dom = op[o].dom /\ op'[o].mod = op[o].mod
               /\ op'[o].future # "fresh" => op[o].future # "fresh"
    PROVE  RequiredInTime'
  <1>1. \A o \in Ops : op[o].kind = "inst" => op[o].dom \in Domains
    BY OpFacts
  <1>2. QED
    BY <1>1 DEF IInv, RequiredInTime, UsesAsyncHostFunction

(* A module that resolves in a marked Store, or imports nothing, may be    *)
(* linked.                                                                 *)
LEMMA LinkRequired ==
    ASSUME IInv, UNCHANGED <<hostFns, asyncRequired>>,
           NEW d \in Domains, NEW m \in Modules, linked' = Linked(d, m),
           Imports[m] # {} => asyncRequired[d],
           \A o \in Ops : op'[o].kind = "inst" /\ op'[o].future # "null" =>
               /\ op[o].kind = "inst" /\ op[o].future # "null"
               /\ op'[o].dom = op[o].dom /\ op'[o].mod = op[o].mod
               /\ op'[o].future # "fresh" /\ op[o].future = "fresh" =>
                      op[o].dom = d /\ op[o].mod = m
    PROVE  RequiredInTime'
  <1>1. /\ linked'[d] = linked[d] \cup {m}
        /\ \A e \in Domains \ {d} : linked'[e] = linked[e]
    BY DEF IInv, TypeOK, Linked
  <1>2. \A o \in Ops : op[o].kind = "inst" => op[o].dom \in Domains
    BY OpFacts
  <1>3. RequiredInTime
    BY DEF IInv
  <1>4. \A e \in Domains : \A l \in linked'[e] : Imports[l] # {} => asyncRequired'[e]
    BY <1>1, <1>3 DEF RequiredInTime
  <1>5. ASSUME NEW o \in Ops, op'[o].kind = "inst", op'[o].future # "null"
        PROVE  /\ Imports[op'[o].mod] \cap hostFns'[op'[o].dom] # {} => asyncRequired'[op'[o].dom]
               /\ op'[o].future # "fresh" => op'[o].mod \in linked'[op'[o].dom]
    <2>1. UsesAsyncHostFunction(op[o].dom, op[o].mod) => asyncRequired[op[o].dom]
      BY <1>3, <1>5 DEF RequiredInTime
    <2>2. op[o].future # "fresh" => op[o].mod \in linked[op[o].dom]
      BY <1>3, <1>5 DEF RequiredInTime
    <2>3. QED
      BY <1>1, <1>2, <1>5, <2>1, <2>2 DEF UsesAsyncHostFunction
  <1>6. QED
    BY <1>4, <1>5 DEF RequiredInTime, UsesAsyncHostFunction

(* Every step keeps the mark ahead of what is linked.                      *)
LEMMA RequiredStep == IInv /\ [Next]_vars => RequiredInTime'
  <1> SUFFICES ASSUME IInv, [Next]_vars PROVE RequiredInTime'
    OBVIOUS
  <1>0. TypeOK /\ RequiredInTime
    BY DEF IInv
  <1>o. \A o \in Ops : /\ op[o].future # "null" => activity[op[o].dom] = "Async"
                       /\ op[o].kind = "inst" => op[o].dom \in Domains /\ o \in refs[op[o].dom]
    BY OpFacts
  <1>u. UNCHANGED <<linked, hostFns, op, asyncRequired>> => RequiredInTime'
    BY <1>0 DEF RequiredInTime, UsesAsyncHostFunction
  <1>c. ASSUME NEW o \in Ops, op[o].kind # "free", NEW n \in {"none", "error", "trap"},
               Complete(o, n), UNCHANGED <<linked, hostFns, asyncRequired>>
        PROVE  RequiredInTime'
    <2>1. op[o] # NoOp /\ op[o] \in OpStates
      BY <1>0, <1>c, OpFacts DEF TypeOK
    <2>2. op'[o] = Completed(op[o], n) /\ \A p \in Ops \ {o} : op'[p] = op[p]
      BY <1>0, <1>c DEF Complete, TypeOK
    <2>3. op'[o].future = "null"
      BY <2>1, <2>2, CompletedType
    <2>4. QED
      BY <1>c, <2>2, <2>3, SameRequired
  <1>p. OnTop("Poll") => Top.op \in Ops /\ op[Top.op].kind # "free" /\ op[Top.op].future = "running"
    BY TopFrame DEF OnTop
  <1>1. ASSUME NEW d \in Domains, NEW f \in HostFunctions, DefineAsyncFunction(d, f)
        PROVE  RequiredInTime'
    <2>1. activity[d] = "Idle"
      BY <1>1 DEF DefineAsyncFunction, Acquire
    <2>2. \A o \in Ops : op[o].future # "null" => op[o].dom # d
      BY <1>o, <2>1
    <2>3. \A e \in Domains \ {d} : hostFns'[e] = hostFns[e]
      BY <1>0, <1>1 DEF DefineAsyncFunction, TypeOK
    <2>4. UNCHANGED <<linked, op, asyncRequired>>
      BY <1>1 DEF DefineAsyncFunction
    <2>5. QED
      BY <1>0, <1>o, <2>2, <2>3, <2>4 DEF RequiredInTime, UsesAsyncHostFunction
  <1>1a. ASSUME NEW d \in Domains, DefineRefused(d)
         PROVE  RequiredInTime'
    BY <1>1a, <1>u DEF DefineRefused
  <1>1b. CASE FinishDefine
    BY <1>1b, <1>u DEF FinishDefine
  <1>2. ASSUME NEW d \in Domains, NEW m \in Modules, Instantiate(d, m)
        PROVE  RequiredInTime'
    <2>1. Imports[m] = {}
      BY <1>0, <1>2, ConstantsAssumption
         DEF Instantiate, Resolves, UsesAsyncHostFunction, ConstantsAssumption, TypeOK
    <2>2. UNCHANGED <<op, hostFns, asyncRequired>> /\ linked' = Linked(d, m)
      BY <1>2 DEF Instantiate
    <2>3. QED
      BY <2>1, <2>2, LinkRequired
  <1>3. CASE FinishInstantiate
    BY <1>3, <1>u DEF FinishInstantiate
  <1>4. ASSUME NEW i \in Instances, Call(i)
        PROVE  RequiredInTime'
    BY <1>4, <1>u DEF Call
  <1>5. CASE FinishCall
    BY <1>5, <1>u DEF FinishCall
  <1>6. ASSUME NEW i \in Instances, NEW o \in Ops, CallAsync(i, o)
        PROVE  RequiredInTime'
    <2>1. inst[i].dom \in Domains
      BY <1>0, <1>6 DEF CallAsync, InstStates, TypeOK
    <2>2. /\ op'[o].kind = "call"
          /\ \A p \in Ops \ {o} : op'[p] = op[p]
      BY <1>0, <1>6, <2>1, StartedType DEF CallAsync, Start, TypeOK
    <2>3. UNCHANGED <<linked, hostFns, asyncRequired>>
      BY <1>6 DEF CallAsync, Start
    <2>4. QED
      BY <2>2, <2>3, SameRequired
  <1>m. ASSUME NEW d \in Domains, NEW m \in Modules, MarkIfUsed(d, m)
        PROVE  /\ \A e \in Domains : asyncRequired[e] => asyncRequired'[e]
               /\ UsesAsyncHostFunction(d, m) => asyncRequired'[d]
    BY <1>0, <1>m DEF MarkIfUsed, MarkAsyncRequired, TypeOK
  <1>7. ASSUME NEW d \in Domains, NEW m \in Modules, NEW o \in Ops, InstantiateAsync(d, m, o)
        PROVE  RequiredInTime'
    <2>1. /\ op'[o].kind = "inst" /\ op'[o].dom = d /\ op'[o].mod = m /\ op'[o].future = "fresh"
          /\ \A p \in Ops \ {o} : op'[p] = op[p]
      BY <1>0, <1>7, StartedType DEF InstantiateAsync, Start, TypeOK
    <2>2. UNCHANGED <<linked, hostFns>>
      BY <1>7 DEF InstantiateAsync, Start
    <2>3. /\ \A e \in Domains : asyncRequired[e] => asyncRequired'[e]
          /\ UsesAsyncHostFunction(d, m) => asyncRequired'[d]
      BY <1>7, <1>m DEF InstantiateAsync
    <2>4. QED
      BY <1>0, <1>o, <2>1, <2>2, <2>3 DEF RequiredInTime, UsesAsyncHostFunction
  <1>8. ASSUME NEW d \in Domains, NEW m \in Modules, InstantiateAsyncFails(d, m)
        PROVE  RequiredInTime'
    <2>1. UNCHANGED <<linked, hostFns, op>>
      BY <1>8 DEF InstantiateAsyncFails
    <2>2. \A e \in Domains : asyncRequired[e] => asyncRequired'[e]
      BY <1>8, <1>m DEF InstantiateAsyncFails
    <2>3. QED
      BY <2>1, <2>2, SameRequired
  <1>9. ASSUME NEW o \in Ops, Poll(o)
        PROVE  RequiredInTime'
    <2>1. op[o] # NoOp /\ op[o] \in OpStates
      BY <1>0, <1>9, OpFacts DEF Poll, TypeOK, NoOp
    <2>2. op'[o] = [op[o] EXCEPT !.future = "running"] /\ \A p \in Ops \ {o} : op'[p] = op[p]
      BY <1>0, <1>9 DEF Poll, TypeOK
    <2>3. /\ op'[o].future = "running" /\ op'[o].kind = op[o].kind
          /\ op'[o].dom = op[o].dom /\ op'[o].mod = op[o].mod
      BY <2>1, <2>2 DEF OpStates, LiveOps
    <2>4. op[o].future # "null" /\ UNCHANGED <<hostFns, asyncRequired>>
      BY <1>9 DEF Poll
    <2>5. CASE op[o].kind = "inst"
      <3>1. op[o].dom \in Domains /\ op[o].mod \in Modules
        BY <2>5, OpFacts
      <3>2. linked' = Linked(op[o].dom, op[o].mod)
        BY <1>9, <2>5 DEF Poll
      <3>3. Imports[op[o].mod] # {} => asyncRequired[op[o].dom]
        <4>1. CASE op[o].future = "fresh"
          <5>1. Imports[op[o].mod] \subseteq hostFns[op[o].dom]
            BY <1>9, <2>5, <4>1 DEF Poll, Resolves
          <5>2. Imports[op[o].mod] # {} => UsesAsyncHostFunction(op[o].dom, op[o].mod)
            BY <5>1 DEF UsesAsyncHostFunction
          <5>3. QED
            BY <1>0, <2>4, <2>5, <5>2 DEF RequiredInTime
        <4>2. CASE op[o].future # "fresh"
          BY <1>0, <2>4, <2>5, <3>1, <4>2 DEF RequiredInTime
        <4>3. QED
          BY <4>1, <4>2
      <3>4. \A p \in Ops : op'[p].kind = "inst" /\ op'[p].future # "null" =>
               /\ op[p].kind = "inst" /\ op[p].future # "null"
               /\ op'[p].dom = op[p].dom /\ op'[p].mod = op[p].mod
               /\ op'[p].future # "fresh" /\ op[p].future = "fresh" =>
                      op[p].dom = op[o].dom /\ op[p].mod = op[o].mod
        BY <2>2, <2>3, <2>4, <2>5
      <3>5. QED
        BY <2>4, <3>1, <3>2, <3>3, <3>4, LinkRequired
    <2>6. CASE op[o].kind # "inst"
      <3>1. UNCHANGED linked
        BY <1>9, <2>6 DEF Poll
      <3>2. \A p \in Ops : op'[p].kind = "inst" => op'[p] = op[p]
        BY <2>2, <2>3, <2>6
      <3>3. QED
        BY <2>4, <3>1, <3>2, SameRequired
    <2>7. QED
      BY <2>5, <2>6
  <1>11. ASSUME NEW o \in Ops, PollUnresolved(o)
         PROVE  RequiredInTime'
    BY <1>11, <1>c DEF PollUnresolved
  <1>12. CASE GuestCallsHost
    BY <1>12, <1>u DEF GuestCallsHost
  <1>13. CASE HostReturnsOperation
    BY <1>13, <1>u DEF HostReturnsOperation
  <1>14. CASE ContinuationPending
    <2> DEFINE o == Top.op
    <2>1. o \in Ops /\ op[o].kind # "free" /\ op[o].future = "running"
      BY <1>14, <1>p DEF ContinuationPending
    <2>2. op' = [op EXCEPT ![o].future = "suspended"] /\ UNCHANGED <<linked, hostFns, asyncRequired>>
      BY <1>14 DEF ContinuationPending
    <2> HIDE DEF o
    <2>3. op[o] # NoOp /\ op[o] \in OpStates
      BY <1>0, <2>1 DEF TypeOK, NoOp
    <2>4. op'[o] = [op[o] EXCEPT !.future = "suspended"] /\ \A p \in Ops \ {o} : op'[p] = op[p]
      BY <1>0, <2>1, <2>2 DEF TypeOK
    <2>5. /\ op'[o].future = "suspended" /\ op'[o].kind = op[o].kind
          /\ op'[o].dom = op[o].dom /\ op'[o].mod = op[o].mod
      BY <2>3, <2>4 DEF OpStates, LiveOps
    <2>6. QED
      BY <2>1, <2>2, <2>4, <2>5, SameRequired
  <1>15. CASE ContinuationReady
    BY <1>15, <1>u DEF ContinuationReady
  <1>16. CASE HostFails
    BY <1>16, <1>c, <1>p DEF HostFails
  <1>17. CASE GuestReturns
    BY <1>17, <1>c, <1>p DEF GuestReturns
  <1>18. ASSUME NEW o \in Ops, TakeResult(o)
         PROVE  RequiredInTime'
    <2>1. op[o].future = "null" /\ op[o] # NoOp /\ op[o] \in OpStates
      BY <1>0, <1>18, OpFacts DEF TakeResult, TypeOK, NoOp
    <2>2. /\ op'[o] = [op[o] EXCEPT !.taken = TRUE, !.native = "none"]
          /\ \A p \in Ops \ {o} : op'[p] = op[p]
      BY <1>0, <1>18 DEF TakeResult, TypeOK
    <2>3. op'[o].future = "null"
      BY <2>1, <2>2 DEF OpStates, LiveOps
    <2>4. QED
      BY <1>18, <2>2, <2>3, SameRequired DEF TakeResult
  <1>19. ASSUME NEW o \in Ops, Drop(o)
         PROVE  RequiredInTime'
    BY <1>19, <1>u DEF Drop
  <1>20. CASE FinishDrop
    <2>1. \A p \in Ops : op'[p] = op[p] \/ op'[p] = NoOp
      BY <1>0, <1>20 DEF FinishDrop, TypeOK
    <2>2. QED
      BY <1>20, <2>1, SameRequired DEF FinishDrop, NoOp
  <1>21. ASSUME NEW d \in Domains, DropHandle(d)
         PROVE  RequiredInTime'
    BY <1>21, <1>u DEF DropHandle
  <1>22. CASE FinishTeardown
    <2> DEFINE d == Top.dom
    <2>1. d \in Domains /\ refs[d] = {}
      BY <1>22, TopFrame, StackFits DEF FinishTeardown, OnTop, FrameFits
    <2>2. /\ hostFns' = [hostFns EXCEPT ![d] = {}] /\ linked' = [linked EXCEPT ![d] = {}]
          /\ UNCHANGED <<op, asyncRequired>>
      BY <1>22 DEF FinishTeardown
    <2> HIDE DEF d
    <2>3. /\ linked'[d] = {}
          /\ \A e \in Domains \ {d} : linked'[e] = linked[e] /\ hostFns'[e] = hostFns[e]
      BY <1>0, <2>1, <2>2 DEF TypeOK
    <2>4. \A o \in Ops : op[o].kind = "inst" => op[o].dom \in Domains \ {d}
      BY <1>o, <2>1
    <2>5. QED
      BY <1>0, <2>2, <2>3, <2>4 DEF RequiredInTime, UsesAsyncHostFunction
  <1>23. ASSUME NEW i \in Instances, DropInstance(i)
         PROVE  RequiredInTime'
    BY <1>23, <1>u DEF DropInstance
  <1>24. CASE UNCHANGED vars
    BY <1>24, <1>u DEF vars
  <1>1c. ASSUME NEW d \in Domains, NEW k \in {"Sync", "Async", "Mutation"}, OperationFails(d, k)
         PROVE  RequiredInTime'
    BY <1>0, <1>1c, <1>24, FailsQuietly
  <1>25. QED
    BY <1>1, <1>1a, <1>1b, <1>1c, <1>2, <1>3, <1>4, <1>5, <1>6, <1>7, <1>8, <1>9, <1>11, <1>12, <1>13, <1>14,
       <1>15, <1>16, <1>17, <1>18, <1>19, <1>20, <1>21, <1>22, <1>23, <1>24 DEF Next

-----------------------------------------------------------------------------
(* Native errors and traps *)

LEMMA SameNative ==
    ASSUME IInv, UNCHANGED heap, \A o \in Ops : op'[o].native = op[o].native
    PROVE  NativeErrorsOwned'
  BY DEF IInv, NativeErrorsOwned

(* A change of one operation changes the heap for that operation alone.    *)
LEMMA OneNative ==
    ASSUME IInv, NEW o \in Ops, \A p \in Ops \ {o} : op'[p] = op[p],
           heap' = IF op'[o].native = "none" THEN heap \ {o} ELSE heap \cup {o}
    PROVE  NativeErrorsOwned'
  BY DEF IInv, NativeErrorsOwned

(* Every step keeps each native error owned.                               *)
LEMMA NativeStep == IInv /\ [Next]_vars => NativeErrorsOwned'
  <1> SUFFICES ASSUME IInv, [Next]_vars PROVE NativeErrorsOwned'
    OBVIOUS
  <1>0. TypeOK /\ NativeErrorsOwned
    BY DEF IInv
  <1>u. UNCHANGED <<op, heap>> => NativeErrorsOwned'
    BY SameNative
  <1>s. ASSUME NEW o \in Ops, op[o].kind = "free", NEW k \in {"call", "inst"}, NEW d \in Domains,
               NEW m \in Modules \cup {None}, k = "inst" => m \in Modules, Start(o, k, d, m)
        PROVE  NativeErrorsOwned'
    <2>1. op[o].native = "none"
      BY <1>s, OpFacts
    <2>2. op'[o].native = "none" /\ \A p \in Ops \ {o} : op'[p] = op[p]
      BY <1>0, <1>s, StartedType DEF Start, TypeOK
    <2>3. QED
      BY <1>s, <2>1, <2>2, SameNative DEF Start
  <1>c. ASSUME NEW o \in Ops, op[o].lease, NEW n \in {"none", "error", "trap"}, Complete(o, n)
        PROVE  NativeErrorsOwned'
    <2>1. op[o] # NoOp /\ op[o] \in OpStates /\ op[o].native = "none"
      BY <1>0, <1>c, OpFacts DEF TypeOK, IInv, LeasesHeld, NoOp
    <2>2. op'[o] = Completed(op[o], n) /\ \A p \in Ops \ {o} : op'[p] = op[p]
      BY <1>0, <1>c DEF Complete, TypeOK
    <2>3. op'[o].native = n
      BY <2>1, <2>2, CompletedType
    <2>4. o \notin heap
      BY <1>0, <2>1 DEF NativeErrorsOwned
    <2>5. QED
      BY <1>c, <2>2, <2>3, <2>4, OneNative DEF Complete
  <1>p. OnTop("Poll") => Top.op \in Ops /\ op[Top.op].kind # "free" /\ op[Top.op].lease
    BY TopFrame DEF OnTop
  <1>f. ASSUME NEW o \in Ops, op[o].kind # "free", op[o].future # "null", NEW x,
               op' = [op EXCEPT ![o].future = x], UNCHANGED heap
        PROVE  NativeErrorsOwned'
    <2>1. op[o] # NoOp /\ op[o] \in OpStates
      BY <1>0, <1>f DEF TypeOK, NoOp
    <2>2. op'[o] = [op[o] EXCEPT !.future = x] /\ \A p \in Ops \ {o} : op'[p] = op[p]
      BY <1>0, <1>f DEF TypeOK
    <2>3. op'[o].native = op[o].native
      BY <2>1, <2>2 DEF OpStates, LiveOps
    <2>4. QED
      BY <1>f, <2>2, <2>3, SameNative
  <1>1. ASSUME NEW d \in Domains, NEW f \in HostFunctions, DefineAsyncFunction(d, f)
        PROVE  NativeErrorsOwned'
    BY <1>1, <1>u DEF DefineAsyncFunction
  <1>1a. ASSUME NEW d \in Domains, DefineRefused(d)
         PROVE  NativeErrorsOwned'
    BY <1>1a, <1>u DEF DefineRefused
  <1>1b. CASE FinishDefine
    BY <1>1b, <1>u DEF FinishDefine
  <1>2. ASSUME NEW d \in Domains, NEW m \in Modules, Instantiate(d, m)
        PROVE  NativeErrorsOwned'
    BY <1>2, <1>u DEF Instantiate
  <1>3. CASE FinishInstantiate
    BY <1>3, <1>u DEF FinishInstantiate
  <1>4. ASSUME NEW i \in Instances, Call(i)
        PROVE  NativeErrorsOwned'
    BY <1>4, <1>u DEF Call
  <1>5. CASE FinishCall
    BY <1>5, <1>u DEF FinishCall
  <1>6. ASSUME NEW i \in Instances, NEW o \in Ops, CallAsync(i, o)
        PROVE  NativeErrorsOwned'
    <2>1. inst[i].dom \in Domains
      BY <1>0, <1>6 DEF CallAsync, InstStates, TypeOK
    <2>2. QED
      BY <1>6, <1>s, <2>1 DEF CallAsync
  <1>7. ASSUME NEW d \in Domains, NEW m \in Modules, NEW o \in Ops, InstantiateAsync(d, m, o)
        PROVE  NativeErrorsOwned'
    BY <1>7, <1>s DEF InstantiateAsync
  <1>8. ASSUME NEW d \in Domains, NEW m \in Modules, InstantiateAsyncFails(d, m)
        PROVE  NativeErrorsOwned'
    BY <1>8, <1>u DEF InstantiateAsyncFails
  <1>9. ASSUME NEW o \in Ops, Poll(o)
        PROVE  NativeErrorsOwned'
    BY <1>9, <1>f, OpFacts DEF Poll
  <1>11. ASSUME NEW o \in Ops, PollUnresolved(o)
         PROVE  NativeErrorsOwned'
    BY <1>11, <1>c, OpFacts DEF PollUnresolved
  <1>12. CASE GuestCallsHost
    BY <1>12, <1>u DEF GuestCallsHost
  <1>13. CASE HostReturnsOperation
    BY <1>13, <1>u DEF HostReturnsOperation
  <1>14. CASE ContinuationPending
    BY <1>14, <1>f, <1>p, OpFacts DEF ContinuationPending
  <1>15. CASE ContinuationReady
    BY <1>15, <1>u DEF ContinuationReady
  <1>16. CASE HostFails
    BY <1>16, <1>c, <1>p DEF HostFails
  <1>17. CASE GuestReturns
    BY <1>17, <1>c, <1>p DEF GuestReturns
  <1>18. ASSUME NEW o \in Ops, TakeResult(o)
         PROVE  NativeErrorsOwned'
    <2>1. op[o] # NoOp /\ op[o] \in OpStates
      BY <1>0, <1>18, OpFacts DEF TakeResult, TypeOK, NoOp
    <2>2. /\ op'[o] = [op[o] EXCEPT !.taken = TRUE, !.native = "none"]
          /\ \A p \in Ops \ {o} : op'[p] = op[p]
      BY <1>0, <1>18 DEF TakeResult, TypeOK
    <2>3. op'[o].native = "none"
      BY <2>1, <2>2 DEF OpStates, LiveOps
    <2>4. QED
      BY <1>18, <2>2, <2>3, OneNative DEF TakeResult
  <1>19. ASSUME NEW o \in Ops, Drop(o)
         PROVE  NativeErrorsOwned'
    BY <1>19, <1>u DEF Drop
  <1>20. CASE FinishDrop
    <2>1. Top.op \in Ops
      BY <1>20, TopFrame DEF FinishDrop, OnTop
    <2>2. op'[Top.op] = NoOp /\ \A p \in Ops \ {Top.op} : op'[p] = op[p]
      BY <1>0, <1>20, <2>1 DEF FinishDrop, TypeOK
    <2>3. op'[Top.op].native = "none"
      BY <2>2 DEF NoOp
    <2>4. QED
      BY <1>20, <2>1, <2>2, <2>3, OneNative DEF FinishDrop
  <1>21. ASSUME NEW d \in Domains, DropHandle(d)
         PROVE  NativeErrorsOwned'
    BY <1>21, <1>u DEF DropHandle
  <1>22. CASE FinishTeardown
    BY <1>22, <1>u DEF FinishTeardown
  <1>23. ASSUME NEW i \in Instances, DropInstance(i)
         PROVE  NativeErrorsOwned'
    BY <1>23, <1>u DEF DropInstance
  <1>24. CASE UNCHANGED vars
    BY <1>24, <1>u DEF vars
  <1>1c. ASSUME NEW d \in Domains, NEW k \in {"Sync", "Async", "Mutation"}, OperationFails(d, k)
         PROVE  NativeErrorsOwned'
    BY <1>0, <1>1c, <1>24, FailsQuietly
  <1>25. QED
    BY <1>1, <1>1a, <1>1b, <1>1c, <1>2, <1>3, <1>4, <1>5, <1>6, <1>7, <1>8, <1>9, <1>11, <1>12, <1>13, <1>14,
       <1>15, <1>16, <1>17, <1>18, <1>19, <1>20, <1>21, <1>22, <1>23, <1>24 DEF Next

-----------------------------------------------------------------------------
(* The theorems *)

LEMMA InitInductive == Init => IInv
  <1> SUFFICES ASSUME Init PROVE IInv
    OBVIOUS
  <1>1. TypeOK
    BY InitType
  <1>2. NoOp.dom \notin Domains /\ "handle" \notin Ops
    BY ConstantsAssumption DEF ConstantsAssumption, NoOp
  <1>3. LeasesHeld
    BY <1>2 DEF Init, LeasesHeld, NoOp
  <1>4. ExclusiveHeld /\ SyncOnTop /\ FramesFit /\ NativeErrorsOwned
    BY DEF Init, ExclusiveHeld, SyncOnTop, FramesFit, OneFrameEach, FrameFits,
       NativeErrorsOwned, NoOp
  <1>5. RequiredInTime
    BY DEF Init, RequiredInTime, NoOp
  <1>6. QED
    BY <1>1, <1>3, <1>4, <1>5 DEF IInv

(* The inductive invariant holds in every state of every behaviour.        *)
THEOREM Inductive == Spec => []IInv
  <1>1. IInv /\ [Next]_vars => IInv'
    BY TypeStep, LeasesStep, ExclusiveStep, SyncStep, FramesStep, RequiredStep, NativeStep DEF IInv
  <1>2. QED
    BY InitInductive, <1>1, PTL DEF Spec

(* Every variable keeps its type, for any number of domains and operations. *)
THEOREM TypeCorrect == Spec => []TypeOK
  <1>1. IInv => TypeOK
    BY DEF IInv
  <1>2. QED
    BY Inductive, <1>1, PTL

(* Futures of a Store keep it in asynchronous use, and there is only one.  *)
LEMMA FutureUse ==
    ASSUME IInv, NEW d \in Domains
    PROVE  /\ \A o \in Futures(d) : op[o].lease /\ activity[d] = "Async"
           /\ \A o, p \in Futures(d) : o = p
           /\ activity[d] = "Async" => Futures(d) # {}
  <1>1. \A o \in Futures(d) : o \in Ops /\ op[o].lease /\ op[o].dom = d
    BY OpFacts DEF Futures
  <1>2. QED
    BY <1>1 DEF IInv, LeasesHeld, Futures

(* So do synchronous operations and mutations, exclusively.                *)
LEMMA SyncUse ==
    ASSUME IInv, NEW d \in Domains
    PROVE  /\ LeaseFrames(d, LeaseKinds) # {} <=> activity[d] = "Exclusive"
           /\ \A n, k \in LeaseFrames(d, LeaseKinds) : n = k
  BY DEF IInv, ExclusiveHeld, LeaseFrames

(* No two native operations are ever in the same Store, however deep host  *)
(* code re-enters the API from callbacks and finalizers.                   *)
THEOREM Exclusive == Spec => []StoreExclusive
  <1>1. IInv => StoreExclusive
    <2> SUFFICES ASSUME IInv, NEW d \in Domains, NEW u \in Users(d), NEW v \in Users(d)
                 PROVE  u = v
      BY DEF StoreExclusive
    <2>1. CASE LeaseFrames(d, LeaseKinds) = {}
      BY <2>1, FutureUse DEF Users
    <2>2. CASE LeaseFrames(d, LeaseKinds) # {}
      <3>1. Futures(d) = {}
        BY <2>2, FutureUse, SyncUse
      <3>2. QED
        BY <3>1, SyncUse DEF Users
    <2>3. QED
      BY <2>1, <2>2
  <1>2. QED
    BY Inductive, <1>1, PTL

(* The recorded activity of a Store and its real use never disagree.       *)
THEOREM Tracking == Spec => []ActivityTracksUse
  <1>1. IInv => ActivityTracksUse
    <2> SUFFICES ASSUME IInv, NEW d \in Domains
                 PROVE  activity[d] = "Idle" <=> Users(d) = {}
      BY DEF ActivityTracksUse
    <2>1. Users(d) = {} <=> Futures(d) = {} /\ LeaseFrames(d, LeaseKinds) = {}
      <3>1. /\ \A o \in Futures(d) : <<"future", o>> \in Users(d)
            /\ \A n \in LeaseFrames(d, LeaseKinds) : <<"frame", n>> \in Users(d)
        BY DEF Users
      <3>2. Users(d) # {} => Futures(d) # {} \/ LeaseFrames(d, LeaseKinds) # {}
        BY DEF Users
      <3>3. QED
        BY <3>1, <3>2
    <2>2. activity[d] \in {"Idle", "Exclusive", "Async"}
      BY DEF IInv, TypeOK
    <2>3. QED
      BY <2>1, <2>2, FutureUse, SyncUse
  <1>2. QED
    BY Inductive, <1>1, PTL

(* A synchronous operation never runs where a guest could call an          *)
(* asynchronous host function.                                             *)
THEOREM NeverReaches == Spec => []SyncNeverReachesHost
  <1>1. IInv => SyncNeverReachesHost
    BY SyncHasNoImports DEF SyncNeverReachesHost
  <1>2. QED
    BY Inductive, <1>1, PTL

(* A Store outlives each of its uses.                                      *)
THEOREM Outlives == Spec => []StoreOutlivesUse
  <1>1. ASSUME IInv, NEW n \in 1..Len(stack)
        PROVE  Alive(stack[n].dom) <=> stack[n].kind # "Teardown"
    <2>1. stack[n] \in Frames /\ FrameFits(stack[n])
      BY <1>1, StackFits
    <2>2. stack[n].kind \in {"Call", "Instantiate", "Define", "Poll", "Drop", "Teardown"}
          /\ stack[n].dom \in Domains
      BY <2>1 DEF Frames
    <2>3. stack[n].kind \in {"Call", "Instantiate", "Define"} => Alive(stack[n].dom)
      BY <1>1 DEF IInv, ExclusiveHeld, LeaseKinds, SyncKinds, Alive
    <2>4. stack[n].kind \in {"Poll", "Drop"} => Alive(stack[n].dom)
      BY <1>1, <2>1, <2>2 DEF IInv, LeasesHeld, FrameFits, Alive
    <2>5. QED
      BY <2>1, <2>2, <2>3, <2>4 DEF FrameFits, Alive
  <1>2. ASSUME IInv, NEW d \in Domains, Users(d) # {}
        PROVE  Alive(d)
    <2>1. CASE Futures(d) # {}
      BY <1>2, <2>1 DEF IInv, LeasesHeld, Futures, Alive
    <2>2. CASE LeaseFrames(d, LeaseKinds) # {}
      BY <1>1, <1>2, <2>2 DEF LeaseFrames, LeaseKinds, SyncKinds
    <2>3. QED
      BY <1>2, <2>1, <2>2 DEF Users
  <1>3. IInv => StoreOutlivesUse
    BY <1>1, <1>2 DEF StoreOutlivesUse
  <1>4. QED
    BY Inductive, <1>3, PTL

(* Every native error or trap is owned, and deleted, exactly once.         *)
THEOREM Owned == Spec => []NativeErrorsOwned
  <1>1. IInv => NativeErrorsOwned
    BY DEF IInv
  <1>2. QED
    BY Inductive, <1>1, PTL

(* The linker is never changed under a pending instantiation.              *)
THEOREM Frozen == Spec => LinkerFrozen
  <1> DEFINE Kept == \A d \in Domains :
                        (\E o \in Futures(d) : op[o].kind = "inst") => hostFns'[d] = hostFns[d]
  <1>1. IInv /\ [Next]_vars => [Kept]_vars
    <2> SUFFICES ASSUME IInv, Next, NEW d \in Domains, Futures(d) # {}
                 PROVE  hostFns'[d] = hostFns[d]
      OBVIOUS
    <2>1. activity[d] = "Async" /\ refs[d] # {}
      BY FutureUse DEF IInv, LeasesHeld, Futures
    <2>2. ASSUME NEW e \in Domains, NEW f \in HostFunctions, DefineAsyncFunction(e, f)
          PROVE  hostFns'[d] = hostFns[d]
      BY <2>1, <2>2 DEF DefineAsyncFunction, Acquire, IInv, TypeOK
    <2>3. CASE FinishTeardown
      <3>1. Top.dom \in Domains /\ refs[Top.dom] = {}
        BY <2>3, TopFrame, StackFits DEF FinishTeardown, OnTop, FrameFits
      <3>2. QED
        BY <2>1, <2>3, <3>1 DEF FinishTeardown, IInv, TypeOK
    <2>4. CASE UNCHANGED hostFns
      BY <2>4
    <2>5. QED
      BY <2>2, <2>3, <2>4 DEF Next, Instantiate, FinishInstantiate, Call, FinishCall, CallAsync,
         InstantiateAsync, InstantiateAsyncFails, OperationFails,
         DefineRefused, FinishDefine, Start, Poll, PollUnresolved, GuestCallsHost,
         HostReturnsOperation, ContinuationPending, ContinuationReady, HostFails, GuestReturns,
         TakeResult, Drop, FinishDrop, DropHandle, DropInstance
  <1>2. QED
    BY Inductive, <1>1, PTL DEF Spec, LinkerFrozen

-----------------------------------------------------------------------------
(* The leases implement StoreOwnership *)

(* Who uses a Store, told from its activity instead of the call stack.     *)
Holder(d) == IF LeaseFrames(d, {"Define"}) # {} THEN "mutator" ELSE "sync"
Use == [d \in Domains |-> Futures(d) \cup (IF activity[d] = "Exclusive" THEN {Holder(d)} ELSE {})]

MappedUsers ==
    [d \in Domains |->
        Futures(d)
        \cup (IF LeaseFrames(d, SyncKinds) # {} THEN {"sync"} ELSE {})
        \cup (IF LeaseFrames(d, {"Define"}) # {} THEN {"mutator"} ELSE {})]

(* The users of the refinement mapping, spelled out.                       *)
LEMMA UseIsMapped == IInv => MappedUsers = Use
  <1> SUFFICES ASSUME IInv PROVE MappedUsers = Use
    OBVIOUS
  <1>1. ASSUME NEW d \in Domains PROVE MappedUsers[d] = Use[d]
    <2> DEFINE S == LeaseFrames(d, SyncKinds)
               D == LeaseFrames(d, {"Define"})
    <2>1. /\ LeaseFrames(d, LeaseKinds) = S \cup D
          /\ S \cap D = {}
      BY DEF LeaseFrames, LeaseKinds, SyncKinds
    <2>2. /\ S \cup D # {} <=> activity[d] = "Exclusive"
          /\ \A n, k \in S \cup D : n = k
      BY <2>1, SyncUse
    <2> HIDE DEF S, D
    <2>3. /\ MappedUsers[d] = Futures(d) \cup (IF S # {} THEN {"sync"} ELSE {})
                                        \cup (IF D # {} THEN {"mutator"} ELSE {})
          /\ Use[d] = Futures(d) \cup (IF activity[d] = "Exclusive"
                         THEN {IF D # {} THEN "mutator" ELSE "sync"} ELSE {})
      BY DEF MappedUsers, Use, Holder, S, D
    <2>4. S = {} \/ D = {}
      BY <2>1, <2>2
    <2>5. QED
      BY <2>2, <2>3, <2>4
  <1>2. QED
    BY <1>1 DEF MappedUsers, Use

(* The same in the next state.                                             *)
LEMMA UseIsMappedNext == IInv' => MappedUsers' = Use'
  <1>1. (IInv => MappedUsers = Use)'
    BY UseIsMapped, PTL
  <1>2. QED
    BY <1>1

(* A step that leaves the lease frames alone leaves the Stores' holders.   *)
LEMMA QuietHolders ==
    ASSUME Quiet
    PROVE  \A d \in Domains : Holder(d)' = Holder(d)
  <1>1. ASSUME NEW d \in Domains
        PROVE  LeaseFrames(d, {"Define"})' = LeaseFrames(d, {"Define"})
    BY DEF Quiet, SameLeaseFrames, LeaseFrames, LeaseKinds
  <1>2. QED
    BY <1>1 DEF Holder

(* One Store changes hands: an operation enters or leaves it.              *)
LEMMA UseChanges ==
    ASSUME NEW d \in Domains, NEW U,
           Use'[d] = U, \A e \in Domains \ {d} : Use'[e] = Use[e]
    PROVE  Use' = [Use EXCEPT ![d] = U]
  BY DEF Use

(* Starting an operation makes it the one user of its Store.               *)
LEMMA StartUse ==
    ASSUME IInv, NEW o \in Ops, op[o].kind = "free", NEW k \in {"call", "inst"},
           NEW d \in Domains, NEW m \in Modules \cup {None}, k = "inst" => m \in Modules,
           activity[d] = "Idle", Start(o, k, d, m), \A e \in Domains : Holder(e)' = Holder(e)
    PROVE  Use[d] = {} /\ Use' = [Use EXCEPT ![d] = {o}]
  <1>1. /\ op'[o].dom = d /\ op'[o].future = "fresh"
        /\ \A p \in Ops \ {o} : op'[p] = op[p]
    BY StartedType DEF IInv, TypeOK, Start
  <1>2. op[o].dom \notin Domains /\ Futures(d) = {}
    BY OpFacts, FutureUse
  <1>3. Futures(d)' = {o} /\ \A e \in Domains \ {d} : Futures(e)' = Futures(e)
    BY <1>1, <1>2 DEF Futures
  <1>4. /\ activity'[d] = "Async"
        /\ \A e \in Domains \ {d} : activity'[e] = activity[e]
    BY DEF IInv, TypeOK, Start
  <1>5. Use[d] = {} /\ Use'[d] = {o} /\ \A e \in Domains \ {d} : Use'[e] = Use[e]
    BY <1>2, <1>3, <1>4 DEF Use
  <1>6. QED
    BY <1>5, UseChanges

(* An operation whose future goes leaves its Store.                        *)
LEMMA LeaveUse ==
    ASSUME IInv, NEW o \in Ops, op[o].lease, NEW d \in Domains, op[o].dom = d,
           op'[o].future = "null", \A p \in Ops \ {o} : op'[p] = op[p],
           activity' = [activity EXCEPT ![d] = "Idle"], \A e \in Domains : Holder(e)' = Holder(e)
    PROVE  Use[d] # {} /\ Use' = [Use EXCEPT ![d] = {}]
  <1>1. o \in Futures(d)
    BY OpFacts DEF Futures
  <1>2. Futures(d) = {o}
    BY <1>1, FutureUse
  <1>3. Futures(d)' = {} /\ \A e \in Domains \ {d} : Futures(e)' = Futures(e)
    BY <1>2 DEF Futures
  <1>4. activity'[d] = "Idle" /\ \A e \in Domains \ {d} : activity'[e] = activity[e]
    BY DEF IInv, TypeOK
  <1>5. Use[d] # {} /\ Use'[d] = {} /\ \A e \in Domains \ {d} : Use'[e] = Use[e]
    BY <1>2, <1>3, <1>4 DEF Use
  <1>6. QED
    BY <1>5, UseChanges

(* A step that moves no future and no activity leaves the users alone.     *)
LEMMA SameUse ==
    ASSUME UNCHANGED activity, \A d \in Domains : Holder(d)' = Holder(d),
           \A o \in Ops : /\ op'[o].future = "null" <=> op[o].future = "null"
                          /\ op[o].future # "null" => op'[o].dom = op[o].dom
    PROVE  UNCHANGED Use
  BY DEF Use, Futures

(* A synchronous operation or mutation enters an idle Store.               *)
LEMMA EntersUse ==
    ASSUME IInv, NEW x \in Frames, Enters(x)
    PROVE  /\ x.dom \in Domains /\ Use[x.dom] = {}
           /\ Use' = [Use EXCEPT ![x.dom] = {IF x.kind = "Define" THEN "mutator" ELSE "sync"}]
  <1> DEFINE d == x.dom
  <1>1. /\ d \in Domains /\ activity[d] = "Idle" /\ UNCHANGED op
        /\ stack \in Seq(Frames) /\ stack' = Append(stack, x)
        /\ activity'[d] = "Exclusive" /\ \A e \in Domains \ {d} : activity'[e] = activity[e]
    BY DEF Enters, IInv, TypeOK, Frames
  <1>2. LeaseFrames(d, LeaseKinds) = {} /\ Futures(d) = {}
    BY <1>1, FutureUse, SyncUse
  <1>3. LeaseFrames(d, {"Define"}) = {}
    BY <1>2 DEF LeaseFrames, LeaseKinds
  <1>4. /\ Len(stack') = Len(stack) + 1 /\ stack'[Len(stack) + 1] = x
        /\ \A n \in 1..Len(stack) : stack'[n] = stack[n]
    BY <1>1, PushFacts
  <1>5. /\ \A n \in 1..Len(stack') : n \in 1..Len(stack) \/ n = Len(stack) + 1
        /\ \A n \in 1..Len(stack) : n \in 1..Len(stack')
        /\ Len(stack) + 1 \in 1..Len(stack')
    BY <1>1, <1>4
  <1>6. \A e \in Domains \ {d} : LeaseFrames(e, {"Define"})' = LeaseFrames(e, {"Define"})
    BY <1>4, <1>5 DEF LeaseFrames
  <1>7. LeaseFrames(d, {"Define"})' # {} <=> x.kind = "Define"
    BY <1>3, <1>4, <1>5 DEF LeaseFrames
  <1>8. \A e \in Domains : Futures(e)' = Futures(e)
    BY <1>1 DEF Futures
  <1> HIDE DEF d
  <1>9. /\ Use[d] = {} /\ Use'[d] = {IF x.kind = "Define" THEN "mutator" ELSE "sync"}
        /\ \A e \in Domains \ {d} : Use'[e] = Use[e]
    BY <1>1, <1>2, <1>6, <1>7, <1>8 DEF Use, Holder
  <1>10. QED
    BY <1>1, <1>9, UseChanges DEF d

(* The one on top of the stack leaves its Store.                           *)
LEMMA LeavesUse ==
    ASSUME IInv, Leaves
    PROVE  /\ Top.dom \in Domains /\ Use[Top.dom] # {}
           /\ Use' = [Use EXCEPT ![Top.dom] = {}]
  <1> DEFINE d == Top.dom
  <1>1. /\ d \in Domains /\ activity[d] = "Exclusive" /\ UNCHANGED op /\ stack # <<>>
        /\ activity'[d] = "Idle" /\ \A e \in Domains \ {d} : activity'[e] = activity[e]
    BY TopFrame DEF Leaves, IInv, TypeOK, LeaseKinds, SyncKinds
  <1>2. /\ Futures(d) = {} /\ \A e \in Domains : Futures(e)' = Futures(e)
    BY <1>1, FutureUse DEF Futures
  <1>3. /\ \A n \in 1..Len(stack) : n \in 1..Len(Popped) \/ n = Len(stack)
        /\ \A n \in 1..Len(Popped) :
              n \in 1..Len(stack) /\ n # Len(stack) /\ Popped[n] = stack[n]
        /\ stack[Len(stack)].dom = d
    BY <1>1, TopFrame
  <1>4. \A e \in Domains \ {d} : LeaseFrames(e, {"Define"})' = LeaseFrames(e, {"Define"})
    BY <1>3 DEF LeaseFrames, Leaves, LeaseKinds
  <1> HIDE DEF d
  <1>5. /\ Use[d] # {} /\ Use'[d] = {}
        /\ \A e \in Domains \ {d} : Use'[e] = Use[e]
    BY <1>1, <1>2, <1>4 DEF Use, Holder
  <1>6. QED
    BY <1>1, <1>5, UseChanges DEF d

(* Every step of the leases is a step of StoreOwnership, or none.          *)
LEMMA OwnershipStep ==
    ASSUME IInv, IInv', [Next]_vars
    PROVE  [Ownership!Next]_(Ownership!vars)
  <1>0. TypeOK
    BY DEF IInv
  <1>m. MappedUsers = Use /\ MappedUsers' = Use'
    BY UseIsMapped, UseIsMappedNext
  <1>e. ASSUME NEW d \in Domains, Use[d] = {}, ~asyncRequired[d], UNCHANGED asyncRequired,
               Use' = [Use EXCEPT ![d] = {"sync"}]
        PROVE  Ownership!Next
    BY <1>e, <1>m DEF Ownership!Next, Ownership!EnterSync, MappedUsers
  <1>v. ASSUME NEW d \in Domains, Use[d] = {}, UNCHANGED asyncRequired,
               Use' = [Use EXCEPT ![d] = {"mutator"}]
        PROVE  Ownership!Next
    BY <1>v, <1>m DEF Ownership!Next, Ownership!EnterMutation, MappedUsers
  <1>a. ASSUME NEW d \in Domains, NEW o \in Ops, Use[d] = {}, Use' = [Use EXCEPT ![d] = {o}],
               UNCHANGED asyncRequired \/ asyncRequired' = [asyncRequired EXCEPT ![d] = TRUE]
        PROVE  Ownership!Next
    BY <1>a, <1>m DEF Ownership!Next, Ownership!EnterAsync, MappedUsers
  <1>r. ASSUME NEW d \in Domains, Use[d] = {}, UNCHANGED Use,
               asyncRequired' = [asyncRequired EXCEPT ![d] = TRUE]
        PROVE  Ownership!Next
    BY <1>r, <1>m DEF Ownership!Next, Ownership!RequireAsync, MappedUsers
  <1>l. ASSUME NEW d \in Domains, Use[d] # {}, Use' = [Use EXCEPT ![d] = {}],
               UNCHANGED asyncRequired
        PROVE  Ownership!Next
    BY <1>l, <1>m DEF Ownership!Next, Ownership!Leave, MappedUsers
  <1>u. UNCHANGED <<Use, asyncRequired>> => UNCHANGED Ownership!vars
    BY <1>m DEF Ownership!vars, MappedUsers
  <1>x. CASE \E x \in Frames : Enters(x)
    <2>1. PICK x \in Frames : Enters(x)
      BY <1>x
    <2>2. UNCHANGED asyncRequired /\ (x.kind # "Define" => ~asyncRequired[x.dom])
      BY <2>1 DEF Enters, LeaseKinds
    <2>3. CASE x.kind = "Define"
      BY <1>v, <2>1, <2>2, <2>3, EntersUse
    <2>4. CASE x.kind # "Define"
      BY <1>e, <2>1, <2>2, <2>4, EntersUse
    <2>5. QED
      BY <2>3, <2>4
  <1>y. CASE Leaves
    BY <1>l, <1>y, LeavesUse DEF Leaves
  <1> SUFFICES ASSUME Quiet PROVE [Ownership!Next]_(Ownership!vars)
    BY <1>x, <1>y, LeaseStack
  <1>z. /\ \A d \in Domains : Holder(d)' = Holder(d)
        /\ \A d \in Domains : activity'[d] = "Exclusive" <=> activity[d] = "Exclusive"
    BY QuietHolders DEF Quiet
  <1>s. UNCHANGED <<activity, op>> => UNCHANGED Use
    BY <1>z, SameUse
  <1>k. ASSUME NEW d \in Domains, NEW k \in {"Sync", "Async", "Mutation"}, Acquire(d, k) = "OK"
        PROVE  activity[d] = "Idle" /\ (k = "Sync" => ~asyncRequired[d])
    BY <1>k DEF Acquire
  <1>c. ASSUME NEW o \in Ops, op[o].lease, NEW n \in {"none", "error", "trap"}, Complete(o, n),
               UNCHANGED asyncRequired
        PROVE  Ownership!Next
    <2>1. op[o].dom \in Domains /\ op[o] # NoOp /\ op[o] \in OpStates
      BY <1>0, <1>c, OpFacts DEF TypeOK
    <2>2. op'[o] = Completed(op[o], n) /\ \A p \in Ops \ {o} : op'[p] = op[p]
      BY <1>0, <1>c DEF Complete, TypeOK
    <2>3. op'[o].future = "null"
      BY <2>1, <2>2, CompletedType
    <2>4. activity' = [activity EXCEPT ![op[o].dom] = "Idle"]
      BY <1>c DEF Complete, ReleasedBy
    <2>5. QED
      BY <1>c, <1>l, <1>z, <2>1, <2>2, <2>3, <2>4, LeaveUse
  <1>p. OnTop("Poll") => Top.op \in Ops /\ op[Top.op].kind # "free" /\ op[Top.op].lease
    BY TopFrame DEF OnTop
  <1>f. ASSUME NEW o \in Ops, op[o].future # "null", NEW x \in {"running", "suspended"},
               op' = [op EXCEPT ![o].future = x], UNCHANGED activity
        PROVE  UNCHANGED Use
    <2>1. op[o] # NoOp /\ op[o] \in OpStates
      BY <1>0, <1>f DEF TypeOK, NoOp
    <2>2. op'[o] = [op[o] EXCEPT !.future = x] /\ \A p \in Ops \ {o} : op'[p] = op[p]
      BY <1>0, <1>f DEF TypeOK
    <2>3. op'[o].future = x /\ op'[o].dom = op[o].dom
      BY <2>1, <2>2 DEF OpStates, LiveOps
    <2>4. QED
      BY <1>f, <1>z, <2>2, <2>3, SameUse
  <1>1. ASSUME NEW d \in Domains, NEW g \in HostFunctions, DefineAsyncFunction(d, g)
        PROVE  UNCHANGED <<Use, asyncRequired>>
    BY <1>1, <1>s DEF DefineAsyncFunction
  <1>2. ASSUME NEW d \in Domains, activity[d] = "Idle" \/ activity[d] = "Exclusive",
               NEW a \in {"Idle", "Exclusive"}, a # activity[d],
               activity' = [activity EXCEPT ![d] = a]
        PROVE  FALSE
    BY <1>0, <1>2, <1>z DEF TypeOK
  <1>3. ASSUME NEW d \in Domains, \/ DefineRefused(d)
                                 \/ \E m \in Modules : Instantiate(d, m)
        PROVE  FALSE
    BY <1>2, <1>3, <1>k, MutationTakes DEF DefineRefused, Instantiate
  <1>4. ASSUME NEW i \in Instances, Call(i)
        PROVE  FALSE
    <2>1. inst[i].dom \in Domains
      BY <1>0, <1>4 DEF Call, InstStates, TypeOK
    <2>2. QED
      BY <1>2, <1>4, <1>k, <2>1 DEF Call
  <1>5. ASSUME FinishInstantiate \/ FinishCall \/ FinishDefine
        PROVE  FALSE
    <2>1. Top.dom \in Domains /\ activity[Top.dom] = "Exclusive"
      BY <1>5, TopFrame DEF FinishInstantiate, FinishCall, FinishDefine, OnTop
    <2>2. activity' = [activity EXCEPT ![Top.dom] = "Idle"]
      BY <1>5 DEF FinishInstantiate, FinishCall, FinishDefine
    <2>3. QED
      BY <1>2, <2>1, <2>2
  <1>6. ASSUME NEW i \in Instances, NEW o \in Ops, CallAsync(i, o)
        PROVE  Ownership!Next
    <2>1. inst[i].dom \in Domains
      BY <1>0, <1>6 DEF CallAsync, InstStates, TypeOK
    <2>2. QED
      BY <1>6, <1>a, <1>k, <1>z, <2>1, StartUse DEF CallAsync
  <1>7. ASSUME NEW d \in Domains, NEW m \in Modules, NEW o \in Ops, InstantiateAsync(d, m, o)
        PROVE  Ownership!Next
    BY <1>7, <1>a, <1>k, <1>z, StartUse DEF InstantiateAsync, MarkIfUsed, MarkAsyncRequired
  <1>8. ASSUME NEW d \in Domains, NEW m \in Modules, InstantiateAsyncFails(d, m)
        PROVE  Ownership!Next \/ UNCHANGED <<Use, asyncRequired>>
    <2>1. UNCHANGED Use /\ activity[d] = "Idle"
      BY <1>0, <1>8, <1>s, FailsIdle DEF InstantiateAsyncFails, TypeOK
    <2>2. Use[d] = {}
      BY <2>1, FutureUse DEF Use
    <2>3. QED
      BY <1>8, <1>r, <2>1, <2>2 DEF InstantiateAsyncFails, MarkIfUsed, MarkAsyncRequired
  <1>9. ASSUME NEW o \in Ops, Poll(o)
        PROVE  UNCHANGED <<Use, asyncRequired>>
    BY <1>9, <1>f DEF Poll
  <1>11. ASSUME NEW o \in Ops, PollUnresolved(o)
         PROVE  Ownership!Next
    BY <1>11, <1>c, OpFacts DEF PollUnresolved
  <1>14. CASE ContinuationPending
    <2>1. op[Top.op].future = "running" /\ Top.op \in Ops
      BY <1>14, TopFrame DEF ContinuationPending, OnTop
    <2>2. UNCHANGED <<Use, asyncRequired>>
      BY <1>14, <1>f, <2>1 DEF ContinuationPending
    <2>3. QED
      BY <1>u, <2>2
  <1>16. CASE HostFails
    BY <1>16, <1>c, <1>p DEF HostFails
  <1>17. CASE GuestReturns
    BY <1>17, <1>c, <1>p DEF GuestReturns
  <1>18. ASSUME NEW o \in Ops, TakeResult(o)
         PROVE  UNCHANGED <<Use, asyncRequired>>
    <2>1. op[o] # NoOp /\ op[o] \in OpStates
      BY <1>0, <1>18, OpFacts DEF TakeResult, TypeOK, NoOp
    <2>2. /\ op'[o] = [op[o] EXCEPT !.taken = TRUE, !.native = "none"]
          /\ \A p \in Ops \ {o} : op'[p] = op[p]
      BY <1>0, <1>18 DEF TakeResult, TypeOK
    <2>3. op'[o].future = op[o].future /\ op'[o].dom = op[o].dom
      BY <2>1, <2>2 DEF OpStates, LiveOps
    <2>4. QED
      BY <1>18, <1>z, <2>2, <2>3, SameUse DEF TakeResult
  <1>20. CASE FinishDrop
    <2>1. Top.op \in Ops /\ op[Top.op].dom = Top.dom /\ Top.dom \in Domains
      BY <1>20, TopFrame DEF FinishDrop, OnTop
    <2>2. op'[Top.op] = NoOp /\ \A p \in Ops \ {Top.op} : op'[p] = op[p]
      BY <1>0, <1>20, <2>1 DEF FinishDrop, TypeOK
    <2>3. op'[Top.op].future = "null"
      BY <2>2 DEF NoOp
    <2>4. CASE op[Top.op].lease
      BY <1>20, <1>l, <1>z, <2>1, <2>2, <2>3, <2>4, LeaveUse DEF FinishDrop, ReleasedBy
    <2>5. CASE ~op[Top.op].lease
      <3>1. op[Top.op].future = "null"
        BY <2>1, <2>5, OpFacts
      <3>2. UNCHANGED <<activity, asyncRequired>>
        BY <1>20, <2>5 DEF FinishDrop, ReleasedBy
      <3>3. \A p \in Ops : /\ op'[p].future = "null" <=> op[p].future = "null"
                           /\ op[p].future # "null" => op'[p].dom = op[p].dom
        BY <2>2, <2>3, <3>1
      <3>4. UNCHANGED Use
        BY <1>z, <3>2, <3>3, SameUse
      <3>5. QED
        BY <1>u, <3>2, <3>4
    <2>6. QED
      BY <2>4, <2>5
  <1>24. CASE \/ GuestCallsHost \/ HostReturnsOperation \/ ContinuationReady
              \/ FinishTeardown \/ UNCHANGED vars
              \/ \E o \in Ops : Drop(o)
              \/ \E d \in Domains : DropHandle(d)
              \/ \E i \in Instances : DropInstance(i)
              \/ \E d \in Domains, k \in {"Sync", "Async", "Mutation"} : OperationFails(d, k)
    <2>1. UNCHANGED <<activity, op, asyncRequired>>
      BY <1>0, <1>24, FailsQuietly DEF GuestCallsHost, HostReturnsOperation, ContinuationReady,
         FinishTeardown, vars, Drop, DropHandle, DropInstance
    <2>2. QED
      BY <1>s, <1>u, <2>1
  <1>25. QED
    BY <1>1, <1>2, <1>3, <1>4, <1>5, <1>6, <1>7, <1>8, <1>9, <1>11, <1>14,
       <1>16, <1>17, <1>18, <1>20, <1>24, <1>u DEF Next

(* Behaviours of StoreExecution are behaviours of StoreOwnership: at most  *)
(* one user of a Store, and no synchronous one once it is async-required.  *)
THEOREM Implements == Spec => OwnershipKept
  <1>1. Init => Ownership!Init
    BY DEF Init, Ownership!Init, Futures, LeaseFrames, NoOp
  <1>2. QED
    BY Inductive, <1>1, OwnershipStep, PTL DEF Spec, OwnershipKept, Ownership!Spec
=============================================================================
