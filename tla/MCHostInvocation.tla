------------------------- MODULE MCHostInvocation -------------------------
(* Functions without results, with one and with two of different kinds.   *)
EXTENDS HostInvocation

MCValues == {<<>>, <<"i32">>, <<"i64">>, <<"i32", "i64">>, <<"i32", "i32">>}
MCSignatures == {[params |-> <<>>, results |-> <<>>],
                 [params |-> <<"i32">>, results |-> <<"i32">>],
                 [params |-> <<"i32", "i64">>, results |-> <<"i32", "i64">>]}
===========================================================================
