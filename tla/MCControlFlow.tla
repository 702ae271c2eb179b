--------------------------- MODULE MCControlFlow ---------------------------
(***************************************************************************)
(* The programs ControlFlow is checked with.  Their loops count i or j up  *)
(* to a bound, so that each of them ends unless its function calls itself  *)
(* for ever.                                                               *)
(***************************************************************************)
EXTENDS ControlFlow

MCBuiltins == <<"print", "len">>

i == Ident("i")
j == Ident("j")
Show(e)     == Expr(Call(Ident("print"), <<e>>))
Less(e, n)  == Op("LESS_THAN", <<e, Const(n)>>)
Plus(e1, e2) == Op("ADD", <<e1, e2>>)
Inc(n)      == Postfix(n, "ADD")
One(s)      == Block(<<s>>)
Empty       == Block(<< >>)

\* for (let n = 0; n < k; n++) and while (n++ < k), with n declared before.
Count(n, k, b) == {For(Let(n, Const(0)), Less(Ident(n), k), Expr(Inc(n)), b),
                   While(Less(Inc(n), k), b)}
From0(n)       == Let(n, Const(0))

\* What stands in the body of a loop over n.
Plain(n)  == {Show(Ident(n)), Break, Continue}
Ifs(n, S) == {Expr(If(Less(Ident(n), 1), One(s), b)) :
                 s \in S, b \in {Absent} \cup {One(t) : t \in S}}
Turns(n)  == Plain(n) \cup Ifs(n, Plain(n)) \cup {Let("k", Ident(n)), Expr(Inc(n))}

\* One loop, as a statement or for its value.
Flat == {Block(<<From0("i"), Expr(e), Show(i)>>) :
            e \in UNION {Count("i", 2, Block(b)) :
                            b \in {<< >>} \cup {<<s, t>> : s, t \in Turns("i")}}}
Single == UNION {Count("i", 2, One(s)) : s \in Turns("i")}
Valued == {Block(<<From0("i"), Show(Plus(Const(5), Const(1))), Let("r", e), Expr(Ident("r"))>>)
              : e \in Single}

\* A loop in the body of another, alone or within an if, and what follows it there.
Inner  == UNION {Count("j", 2, One(s)) : s \in Ifs("j", {Break, Continue, Show(j)}) \cup {Break, Continue}}
Nested == {Block(<<From0("i"), From0("j"), Expr(e), Show(j)>>) :
              e \in UNION {Count("i", 2, Block(<<s, t>>)) :
                  s \in {Expr(x) : x \in Inner} \cup
                        {Expr(If(Less(i, 1), One(Expr(x)), Absent)) : x \in Inner},
                  t \in {Break, Continue, Show(i)}}}

\* Functions: return out of a loop, the value of the last statement, locals and recursion.
Calls(b, arg) == Block(<<Let("i", Const(7)), Let("f", Function(<<"a">>, b)),
                         Show(Plus(Const(1), Call(Ident("f"), <<Const(arg)>>))), Show(i)>>)
Returning == {Calls(Block(<<From0("i"), From0("k"), Expr(e), x>>), 1) :
    e \in UNION {Count("i", 3, One(s)) : s \in Ifs("i", Plain("i") \cup {Return(i)})},
    x \in {Return(Plus(i, Ident("a"))), Expr(i), Expr(If(Less(i, 2), One(Expr(i)), One(Return(Const(9)))))}}
Recursive == {Calls(b, 2) :
    b \in {Block(<<Expr(If(Less(Ident("a"), 1), One(Return(Const(0))), Absent)),
                   Expr(Plus(Call(Ident("f"), <<Op("SUBTRACT", <<Ident("a"), Const(1)>>)>>),
                             Ident("a")))>>),
           One(Expr(If(Less(Ident("a"), 1), One(Expr(Ident("a"))),
                       One(Expr(Call(Ident("f"), <<Op("SUBTRACT", <<Ident("a"), Const(1)>>)>>))))))}}

\* Single statements, most of them from the tests of the repository.
Small ==
    {Block(<<From0("i"), s, Show(i)>>) : s \in
        {Expr(Assign(i, Plus(i, Const(3)))), Let("i", Const(4)), Let("k", Absent),
         Expr(Op("BANG", <<If(Bool(FALSE), One(Expr(Const(5))), Absent)>>)),
         Expr(Plus(Inc("i"), Inc("i"))),
         Show(Op("MINUS", <<Plus(Const(2), If(Less(i, 1), One(Expr(i)), One(Expr(Const(3)))))>>)),
         Expr(If(Op("AND", <<Bool(TRUE), Op("EQUAL", <<i, Const(0)>>)>>),
                 One(Expr(Const(10))), One(Expr(Const(20))))),
         Expr(For(Expr(Absent), Absent, Expr(Absent), One(Break))),
         Show(Op("INDEX_GET", <<Op("ARRAY", <<Inc("i"), i, Const(7)>>), Const(1)>>)),
         Show(Op("INDEX_GET", <<Op("SLICE", <<Op("ARRAY", <<i, Const(8)>>), Const(1), Absent>>), Const(0)>>)),
         Show(Op("INDEX_GET", <<Op("SLICE", <<Op("ARRAY", <<i, Const(8), Const(9)>>), Op("MINUS", <<Const(2)>>), Const(0)>>), Const(2)>>)),
         Show(Op("INDEX_GET", <<Op("ARRAY", <<i>>), Bool(TRUE)>>)),
         Show(Op("SLICE", <<i, Absent, Absent>>)),
         Show(Op("SLICE", <<Op("ARRAY", <<i, Const(8)>>), Op("MINUS", <<Const(100)>>), Op("MINUS", <<Const(200)>>)>>)),
         Show(Op("ADD", <<Op("DIVIDE", <<Op("MINUS", <<Const(7)>>), Const(2)>>),
                          Op("MODULO", <<Op("MINUS", <<Const(7)>>), Op("MULTIPLY", <<Const(2), Const(2)>>)>>)>>)),
         Show(Op("MODULO", <<Const(1), i>>)), Show(Op("DIVIDE", <<i, i>>)),
         Expr(If(Op("OR", <<Op("GREATER_THAN", <<i, Const(0)>>), Op("NOT_EQUAL", <<i, Const(1)>>)>>),
                 One(Show(Op("LESS_THAN_OR_EQUALS", <<i, i>>))), One(Show(Op("GREATER_THAN_OR_EQUALS", <<i, i>>))))),
         Show(Call(Function(<< >>, Empty), << >>)),
         Show(Call(Function(<< >>, One(Let("k", Const(1)))), << >>)),
         Expr(Ident("missing")), Expr(Assign(Ident("missing"), i))}}

\* Functions that call themselves for ever: as a statement, as an operand, with locals,
\* under an if and in a loop.
Forever(ps, ss, args) == Block(<<Let("f", Function(ps, Block(ss))), Expr(Call(Ident("f"), args))>>)
Self(e)     == Call(Ident("f"), <<e>>)
Endless == {Forever(<<"a">>, ss, <<Const(0)>>) : ss \in
    {<<Expr(Self(Ident("a")))>>, <<Expr(Plus(Const(1), Self(Plus(Ident("a"), Const(1)))))>>,
     <<Let("k", Const(2)), Let("l", Ident("k")), Return(Self(Ident("l")))>>,
     <<Expr(If(Less(Ident("a"), 1), One(Expr(Self(Const(1)))), One(Expr(Self(Const(0))))))>>,
     <<Expr(If(Less(Ident("a"), 3), One(Expr(Self(Inc("a")))), Absent)), Expr(Self(Const(4)))>>,
     <<Expr(For(Let("i", Const(0)), Less(i, 2), Expr(Inc("i")), One(Expr(Self(i)))))>>,
     <<Expr(Op("ARRAY", <<Ident("a"), Const(1), Const(2), Self(Const(3))>>))>>}}

MCPrograms == Flat \cup Valued \cup Nested \cup Returning \cup Recursive \cup Small \cup Endless

\* What the language offers and the compiler has no value or no instruction for: an if
\* whose last statement is a let or that is empty, and a return without a value.
MCIfLet == {Calls(Block(<<From0("i"), Expr(e), Return(i)>>), 0) :
    e \in UNION {Count("i", 2, One(Expr(If(Bool(TRUE), b, Absent)))) :
                     b \in {Empty, One(Let("k", i))}}}
MCBareReturn == {Block(<<Let("f", Function(<<"a">>, Block(<<s, Expr(Ident("a"))>>))),
                         Show(Call(Ident("f"), <<Const(3)>>))>>) :
    s \in {Return(Absent), Expr(If(Less(Ident("a"), 4), Block(<<Expr(Const(2)), Return(Absent)>>), Absent))}}

\* A break, a continue or a return where there is no loop or function to leave: in the
\* program itself, in a function, and in a function that is called in a loop.
MCStray == {Block(<<s>>) : s \in {Break, Continue, Expr(If(Bool(TRUE), One(Break), Absent))}}
    \cup {Block(<<Let("f", Function(<< >>, One(s))), From0("i"),
                  Expr(While(Less(Inc("i"), 2), One(Expr(Call(Ident("f"), << >>)))))>>) : s \in {Break, Continue}}

\* A let of the name of a built-in function.
MCRedefine == {Block(<<From0("i"), Let("len", Const(3)), e>>) : e \in {Show(Ident("len")), Show(i)}}
    \cup {Block(<<Show(Plus(Const(1), Plus(Const(2), If(Bool(TRUE), Block(<<Let("len", Const(9)), Expr(Const(4))>>),
                                                       Absent))))>>)}
=============================================================================
