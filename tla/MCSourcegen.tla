---------------------------- MODULE MCSourcegen ----------------------------
(* Values of the constants of Sourcegen for TLC: types a and b, an operator *)
(* f and a combinator c, and the ways in which one can be taken for another. *)
EXTENDS Sourcegen

MCSlots == <<"a", "b", "f", "c">>
MCLanguages == {"L", "M"}

Type(n, alias, list) == [name |-> n, alias |-> alias, args |-> list]
MCTypeDecls ==
  {Type("a", "nominal", <<>>), Type("b", "nominal", <<>>), Type("a", "host", <<>>),
   Type("b", "other", <<>>)}
    \union {Type("b", "lambda", list) :
              list \in {<<Unit, "a">>, <<Unit, "a", "b">>, <<Unit, Unit, "a">>, <<"a">>,
                        <<Unit, "a", "f">>, <<Unit, Symbol>>, <<Unit, Unit, Unit, Unit>>}}

Operator(n, list, ret) == [name |-> n, args |-> list, ret |-> ret]
MCOperatorDecls ==
  {Operator("f", <<"a">>, "a"), Operator("f", <<"a", "b">>, None), Operator("f", <<>>, "b"),
   Operator("f", <<"b">>, None), Operator("f", <<"b", "f">>, None), Operator("f", <<"a">>, "f"),
   Operator("b", <<"a">>, None), Operator("f", <<"a", "a", "a">>, None)}

MCCombinatorNames == {"c", "f"}
MCArgLists == {<<>>, <<"a">>, <<"a", "b">>, <<"a", "f">>, <<"c">>}

Invoke(dest, op, list) == [kind |-> "invocation", dest |-> dest, op |-> op, operands |-> list]
Assign(dest, list) == [kind |-> "lambda", dest |-> dest, params |-> list]
MCStatements ==
  {Invoke(None, "f", <<1>>), Invoke(None, "f", <<1, 2>>),
   Invoke("a", "f", <<1>>), Invoke("a", "f", <<3>>), Invoke("f", "b", <<1>>),
   Invoke(None, "f", <<1, 1, 1>>), Invoke(None, "f", <<4>>),
   Assign("b", <<>>), Assign("b", <<"a">>), Assign("b", <<"a", "b">>), Assign("b", <<"b", "f">>),
   Assign("a", <<"a">>), Assign("f", <<"a">>)}
=============================================================================
