------------------------------ MODULE HostCall ------------------------------
(***************************************************************************)
(* What NexusWasm promises to a guest and to a host about the asynchronous *)
(* host functions the one calls and the other provides, with bindings,     *)
(* linkers, slots, continuations and memory left out.  The host answers an *)
(* invocation in turns: its function, then its operation's poll until that *)
(* is ready, then once its result.  What is promised does not change while *)
(* it works; the first failure ends the invocation, and the guest goes on  *)
(* only with what was promised.                                            *)
(***************************************************************************)
CONSTANT Results \* what a host function may be defined to return

VARIABLES phase,   \* whose turn it is, guest's or host's, or that of neither
          promise, \* what the function was defined to return
          answer   \* how the invocation has ended

vars == <<phase, promise, answer>>

Phases   == {"idle", "guest", "function", "operation", "poll", "result", "answered", "ended"}
HostTurn == {"function", "operation", "poll", "result"}

Nothing   == <<"nothing", <<>>>>
Trap      == <<"trap", <<>>>>
GoOn(r)  == <<"values", r>>

Init == phase = "idle" /\ promise = <<>> /\ answer = Nothing

Turn(from, to) == phase = from /\ phase' = to /\ UNCHANGED <<promise, answer>>

(* A guest is entered, and left without an invocation in progress.         *)
Begin == Turn("idle", "guest")
End   == Turn("guest", "ended")

(* A call that does not fit its definition is answered at once.            *)
Invoke == /\ phase = "guest"
          /\ promise' \in Results
          /\ \/ phase' = "function" /\ UNCHANGED answer
             \/ phase' = "answered" /\ answer' = Trap

Accept  == Turn("function", "operation")
Ask     == Turn("operation", "poll")
Pending == Turn("poll", "operation")
Ready   == Turn("poll", "result")

Fail == /\ phase \in HostTurn
        /\ phase' = "answered"
        /\ answer' = Trap
        /\ UNCHANGED promise

Deliver(r) == /\ phase = "result"
              /\ phase' = "answered"
              /\ answer' = IF r = promise THEN GoOn(r) ELSE Trap
              /\ UNCHANGED promise

Resume == /\ phase = "answered"
          /\ phase' = IF answer = Trap THEN "ended" ELSE "guest"
          /\ promise' = <<>> /\ answer' = Nothing

(* The call is dropped, not while its guest or the host's code runs.       *)
Drop == /\ phase \in {"idle", "operation", "ended"}
        /\ phase' = "idle"
        /\ promise' = <<>> /\ answer' = Nothing

Next == \/ Begin \/ End
        \/ Invoke \/ Accept \/ Ask \/ Pending \/ Ready \/ Fail
        \/ \E r \in Results : Deliver(r)
        \/ Resume \/ Drop

Spec == Init /\ [][Next]_vars
=============================================================================
