------------------------------- MODULE MCRepl -------------------------------
(***************************************************************************)
(* The sessions Repl is checked with: all of up to three of these lines,   *)
(* and some longer ones.                                                   *)
(***************************************************************************)
EXTENDS Repl

MCBuiltins   == <<"print", "len">>
MCUnparsable == Block(<<[stmt |-> "unparsable"]>>)

a == Ident("a")
b == Ident("b")
Plus(e, n) == Op("ADD", <<e, Const(n)>>)
Show(e)    == Expr(Call(Ident("print"), <<e>>))
Fn(ss)     == Function(<< >>, Block(ss))
One(s)     == Block(<<s>>)

\* Lines that read and write globals, in and out of functions,
Sound == {One(Let("a", Const(1))), One(Let("a", Plus(a, 2))), One(Let("b", a)),
          One(Expr(Assign(a, Const(8)))), Block(<<Show(a), Expr(b)>>),
          One(Let("f", Fn(<<Expr(Assign(a, Plus(a, 3))), Return(a)>>))),
          One(Let("f", Fn(<<Let("b", Const(4)), Show(b), Expr(Plus(a, 5))>>))),
          One(Let("f", Fn(<<Expr(Plus(b, 6))>>))),
          One(Expr(Call(Ident("f"), << >>)))}
\* and lines that fail, or use a name while they declare it, or do nothing.
Failing == {One(Let("b", Ident("missing"))), One(Let("a", a)),
            One(Let("b", Fn(<<Show(Const(7)), Let("c", Const(9)), Expr(Ident("missing"))>>))),
            Block(<<Let("a", Const(2)), Expr(Ident("missing"))>>),
            Block(<< >>), MCUnparsable, One(Expr(Assign(Ident("print"), a)))}

Sequences(S, n) == UNION {[1 .. k -> S] : k \in 0 .. n}
Longer == {<<One(Let("a", Const(1)))>> \o s \o <<One(Expr(Call(Ident("f"), << >>)))>> :
              s \in [1 .. 3 -> Sound \cup Failing]}
MCSessions == Sequences(Sound \cup Failing, 3) \cup Longer

\* One constant a line, one line more than there are constants.
MCManyLines == {[i \in 1 .. 65 |-> One(Expr(Const(1)))]}
=============================================================================
