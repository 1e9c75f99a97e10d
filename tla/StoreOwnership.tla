--------------------------- MODULE StoreOwnership ---------------------------
(***************************************************************************)
(* What StoreExecutionState promises to the rest of NexusWasm, with the    *)
(* leases, the futures, the call stack and the object lifetimes left out:  *)
(* a Wasmtime Store is in use by at most one native operation, and once a  *)
(* Store requires asynchronous entrypoints no synchronous operation gets   *)
(* in again.  Its linker may still be changed.                             *)
(***************************************************************************)
CONSTANTS Stores,     \* the Wasmtime Stores, one per ExecutionDomain
          AsyncUsers, \* operations that use a Store through a native future
          SyncUser,   \* the operation that uses a Store inside one host call
          Mutator     \* the one that changes its linker inside one host call

VARIABLES users,      \* users[s]: the native operations now using Store s
          asyncOnly   \* asyncOnly[s]: s has become async-required

vars == <<users, asyncOnly>>

Init == /\ users = [s \in Stores |-> {}]
        /\ asyncOnly = [s \in Stores |-> FALSE]

(* A synchronous call or instantiation begins. *)
EnterSync(s) == /\ users[s] = {}
                /\ ~asyncOnly[s]
                /\ users' = [users EXCEPT ![s] = {SyncUser}]
                /\ UNCHANGED asyncOnly

(* A mutation of the linker begins, which the mark does not keep out. *)
EnterMutation(s) == /\ users[s] = {}
                    /\ users' = [users EXCEPT ![s] = {Mutator}]
                    /\ UNCHANGED asyncOnly

(* A native future is created; instantiating a module that imports an     *)
(* asynchronous host function makes the Store async-required for good.    *)
EnterAsync(s, u) == /\ users[s] = {}
                    /\ users' = [users EXCEPT ![s] = {u}]
                    /\ \/ UNCHANGED asyncOnly
                       \/ asyncOnly' = [asyncOnly EXCEPT ![s] = TRUE]

(* The mark alone: the future that was to be created was not. *)
RequireAsync(s) == /\ users[s] = {}
                   /\ asyncOnly' = [asyncOnly EXCEPT ![s] = TRUE]
                   /\ UNCHANGED users

Leave(s) == /\ users[s] # {}
            /\ users' = [users EXCEPT ![s] = {}]
            /\ UNCHANGED asyncOnly

Next == \E s \in Stores :
           \/ EnterSync(s)
           \/ EnterMutation(s)
           \/ \E u \in AsyncUsers : EnterAsync(s, u)
           \/ RequireAsync(s)
           \/ Leave(s)

Spec == Init /\ [][Next]_vars
=============================================================================
