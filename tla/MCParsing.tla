----------------------------- MODULE MCParsing -----------------------------
(***************************************************************************)
(* The programs Parsing is checked with: syntax trees that combine every   *)
(* pair of operators, short sequences of tokens, and programs in which one *)
(* token is missing, doubled or replaced.                                  *)
(***************************************************************************)
EXTENDS Parsing

MCNames    == {"a", "b"}
MCNumerals == ("1" :> 1) @@ ("2" :> 2)
MCSpelling == (1 :> "1") @@ (2 :> "2")
MCStrings  == {"text"}

a == Ident("a")
b == Ident("b")
One(s) == Block(<<s>>)

\* One operator of each level and, where it matters, a second one.
Over(e1, e2) == {Op(op, <<e1, e2>>) : op \in {"OR", "AND", "EQUAL", "LESS_THAN", "SUBTRACT", "ADD", "MULTIPLY"}}
Under(e)     == {Op("MINUS", <<e>>), Op("BANG", <<e>>)}
Closed(e)    == {Op("INDEX_GET", <<e, Const(1)>>), Op("INDEX_GET", <<a, e>>),
                 Op("SLICE", <<e, Absent, b>>), Op("SLICE", <<b, e, Absent>>),
                 Op("ARRAY", <<e, b>>), Call(e, << >>), Call(a, <<e, Const(2)>>),
                 Assign(a, e), Assign(Op("INDEX_GET", <<a, Const(1)>>), e)}
Leaves == {a, Const(1), Postfix("a", "ADD"), Postfix("b", "SUBTRACT")}
Blocks == {If(a, One(Expr(b)), Absent), If(b, Block(<< >>), One(Break)),
           If(a, Block(<< >>), One(Expr(If(b, One(Return(a)), One(Let("b", Absent)))))),
           While(a, Block(<<Expr(b), Continue>>)), Function(<<"a", "b">>, One(Return(Absent))),
           For(Let("a", Const(1)), Absent, Expr(Postfix("a", "ADD")), One(Expr(a))),
           For(Expr(Absent), Bool(TRUE), Expr(Absent), Block(<< >>))}

\* Trees of depth one, and of depth two with each of these in each place.
Flat    == Leaves \cup Over(a, b) \cup Under(a) \cup Closed(b) \cup Blocks \cup {Bool(TRUE), Text("text")}
Deep    == UNION {Over(x, b) \cup Over(a, x) \cup Over(Const(1), x) \cup Under(x) \cup Closed(x) : x \in Flat}
Deeper  == UNION {Over(x, b) \cup Over(a, x) \cup Under(x) :
                     x \in UNION {Over(y, b) \cup Over(a, y) \cup Under(y) : y \in Over(a, b) \cup Under(a) \cup Leaves}}
Around(e) == {<<Expr(e)>>, <<Let("b", e), Expr(a)>>}
MCTrees == UNION {Around(e) : e \in Flat \cup Deep} \cup {<<Expr(e)>> : e \in Deeper}
           \cup {<<Return(e), Expr(If(e, One(Expr(e)), One(Let("a", e)))), Expr(While(e, One(Return(e))))>>
                    : e \in Flat}
           \cup {<<Expr(Function(<< >>, Block(<<Expr(e), Expr(e)>>))),
                   Expr(For(Expr(e), e, Expr(e), One(Expr(e))))>> : e \in Flat}

Sequences(S, n) == UNION {[1 .. k -> S] : k \in 0 .. n}

\* Every sequence of these tokens, as it is and followed by a statement the parser has to
\* find again.
Short == Sequences({"a", "1", "+", "-", "=", "(", ")", "[", "]", ";"}, 4)
         \cup Sequences({"a", "+", "(", "[", ",", ":", "]", ";"}, 4)
         \cup Sequences({"fn", "if", "(", ")", "{", "}", "a", "else", ";"}, 4)
Followed == {ts \o <<";", "let", "b">> :
                ts \in Sequences({"a", "+", "=", "(", "[", "]", ",", "let", ";", "return"}, 3)
                       \cup Sequences({"fn", "if", "while", "(", ")", "a", ",", ":", "[", ";", "?"}, 3)}

\* Programs of which one token is missing, doubled, or another one.
Sound == {WriteProgram(<<s>>) : s \in {
             Expr(Op("SLICE", <<Call(a, <<Const(1), Op("ARRAY", <<b, a>>)>>), Const(1), b>>)),
             Expr(If(Op("BANG", <<a>>), One(Expr(b)), One(Let("a", Const(1))))),
             Let("a", Function(<<"a", "b">>, Block(<<Expr(For(Let("b", a), a, Expr(Postfix("b", "ADD")), One(Break))), Return(b)>>))),
             Expr(While(Op("INDEX_GET", <<Op("ADD", <<a, Call(b, <<a>>)>>), b>>), One(Expr(Assign(Op("INDEX_GET", <<a, b>>), Const(2))))))}}
Other   == {"a", "1", "+", "(", ")", "[", "]", "{", "}", ";", ",", "=", "else", "let", "?"}
Damaged == UNION {UNION {{RemoveAt(ts, i), InsertAt(ts, i, ts[i])}
                         \cup {ReplaceAt(ts, i, t) : t \in Other} : i \in DOMAIN ts} : ts \in Sound}

MCInputs == Short \cup Followed \cup Damaged \cup {ts \o <<"let", "b">> : ts \in Damaged}

\* What the compiler makes of a program that was parsed without an error: the comment at
\* parser.c:714 says of a semicolon in the place of an expression that it can be ignored,
\* but the compiler reads the type of the expression that is not there (compiler.c:345).
C == INSTANCE Compiler WITH Builtins <- << >>
CompilesWhatIsClean == Clean => C!CompileProgram(Block(program)).err # "crash"
=============================================================================
