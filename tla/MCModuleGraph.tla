--------------------------- MODULE MCModuleGraph ---------------------------
(* Modules that fit together, and modules that do not in every way the     *)
(* code distinguishes, under two or three namespaces.                      *)
EXTENDS ModuleGraph

Func(params, results) == [kind |-> "func", params |-> params, results |-> results]
Unary  == Func(<<"i32">>, <<"i32">>)
Widens == Func(<<"i32">>, <<"i64">>)
Reference == Func(<<"externref">>, <<"i32">>)
Memory == [kind |-> "memory", params |-> <<>>, results |-> <<>>]

Import(ns, name, type) == [ns |-> ns, name |-> name, type |-> type]
Export(name, type) == [name |-> name, type |-> type]

MCImports ==
    [adder   |-> <<>>,
     user    |-> <<Import("math", "add", Unary)>>,
     deep    |-> <<Import("app", "run", Unary), Import("math", "add", Unary)>>,
     wrong   |-> <<Import("math", "add", Widens)>>,
     refs    |-> <<Import("math", "add", Reference)>>,
     memory  |-> <<Import("math", "add", Memory)>>,
     both    |-> <<Import("math", "add", Unary), Import("math", "sub", Unary)>>]

MCExports ==
    [adder   |-> <<Export("add", Unary), Export("sub", Unary)>>,
     user    |-> <<Export("run", Unary)>>,
     deep    |-> <<Export("add", Unary)>>,
     wrong   |-> <<>>,
     refs    |-> <<Export("add", Reference)>>,
     memory  |-> <<Export("sub", Memory)>>,
     both    |-> <<Export("run", Unary), Export("add", Unary)>>]

MCHostKeys == {<<"math", "add">>, <<"math", "sub">>}
MCHostTypes == {Unary, Widens}
=============================================================================
