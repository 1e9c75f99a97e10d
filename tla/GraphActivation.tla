--------------------------- MODULE GraphActivation ---------------------------
(***************************************************************************)
(* What a Program promises of its module graph to the one who asks it for  *)
(* instances: modules are added, and then, in one step as far as he can    *)
(* see, all of them are offered, or none ever is.                          *)
(***************************************************************************)
VARIABLES members, \* the modules added, each under its namespace
          offered, \* those of which an instance can be had
          failed   \* there will be no instances

vars == <<members, offered, failed>>

Init == members = {} /\ offered = {} /\ failed = FALSE

Open == offered = {} /\ ~failed

(* A namespace stands for one module and is not taken back.                *)
Add == /\ Open
       /\ \E member \in members' :
             /\ members' = members \cup {member}
             /\ \A other \in members : other[1] # member[1]
       /\ UNCHANGED <<offered, failed>>

Activate == /\ Open /\ members # {}
            /\ offered' = members
            /\ UNCHANGED <<members, failed>>

Fail == /\ Open /\ members # {}
        /\ failed' = TRUE
        /\ UNCHANGED <<members, offered>>

Next == Add \/ Activate \/ Fail

Spec == Init /\ [][Next]_vars
=============================================================================
