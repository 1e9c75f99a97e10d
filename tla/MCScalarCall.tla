---------------------------- MODULE MCScalarCall ----------------------------
(* Functions that can be called and functions that cannot, for every       *)
(* reason the code knows.                                                  *)
EXTENDS ScalarCall

Func(params, results) == [kind |-> "func", params |-> params, results |-> results]

MCExports ==
    [answer |-> Func(<<>>, <<"i32">>),
     half   |-> Func(<<"f64">>, <<"f64">>),
     wide   |-> Func(<<"i64">>, <<"i64">>),
     mixed  |-> Func(<<"i32", "f32">>, <<"f32">>),
     silent |-> Func(<<"i32">>, <<>>),
     pair   |-> Func(<<>>, <<"i32", "i32">>),
     opaque |-> Func(<<"externref">>, <<"externref">>),
     memory |-> [kind |-> "memory", params |-> <<>>, results |-> <<>>]]

MCNames == DOMAIN MCExports \cup {"missing"}
=============================================================================
