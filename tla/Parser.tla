------------------------------- MODULE Parser -------------------------------
(***************************************************************************)
(* The parser (parser.c): precedence climbing over two tokens, the one it  *)
(* stands on and the next one.                                             *)
(*                                                                         *)
(* A token is written as its text.  A parsing function takes a parser and  *)
(* returns the parser it leaves behind with what it built.  One that is    *)
(* missing a token it expects reports it, skips to a semicolon, and gives  *)
(* up with NULL: until its caller takes over, the parser is "failed" and   *)
(* sees nothing but the end of the input.  A parser that has dereferenced  *)
(* NULL is "crashed" and stays so.                                         *)
(***************************************************************************)
EXTENDS Syntax, Integers, SequencesExt, FiniteSetsExt, TLC

CONSTANTS
    Names,         \* identifiers
    Numerals,      \* integer literal -> the integer
    Strings        \* string literals

EOF     == "end of input"
Garbage == "uninitialized"                   \* the name of a let that has none
Freed   == [node |-> "freed"]                \* what a list holds that was freed and kept

----------------------------------------------------------------------------
\* enum precedence, from LOWEST to INDEX, and get_token_precedence().
Levels == << {}, {"="}, {"||"}, {"&&"}, {"==", "!="}, {"<", "<=", ">", ">="},
             {"-", "+"}, {"*", "/", "%"}, {}, {"("}, {"["} >>
LOWEST == 1
PREFIX == 9
SumBindsTighter(t) ==      \* mutant of Precedence
    LET k == {l \in DOMAIN Levels : t \in Levels[l]}
    IN  IF t = "+" THEN 8 ELSE IF k = {} THEN LOWEST ELSE CHOOSE l \in k : TRUE
Precedence(t) ==
    LET k == {l \in DOMAIN Levels : t \in Levels[l]}
    IN  IF k = {} THEN LOWEST ELSE CHOOSE l \in k : TRUE

\* parse_operator(), with the opcodes the compiler emits for the operators.
InfixOp == ("+" :> "ADD") @@ ("-" :> "SUBTRACT") @@ ("*" :> "MULTIPLY") @@ ("/" :> "DIVIDE")
           @@ ("%" :> "MODULO") @@ ("==" :> "EQUAL") @@ ("!=" :> "NOT_EQUAL")
           @@ ("<" :> "LESS_THAN") @@ ("<=" :> "LESS_THAN_OR_EQUALS")
           @@ (">" :> "GREATER_THAN") @@ (">=" :> "GREATER_THAN_OR_EQUALS")
           @@ ("&&" :> "AND") @@ ("||" :> "OR")
PrefixOp == ("-" :> "MINUS") @@ ("!" :> "BANG")

----------------------------------------------------------------------------
\* struct parser, before the first token is looked at: "undefined" says that memory was
\* freed through a pointer never set, or twice.
NewParser(ts) == [tokens |-> ts, at |-> 1, errors |-> 0, undefined |-> FALSE,
                  status |-> "parsing"]

Token(p, i) == IF p.status = "parsing" /\ i <= Len(p.tokens) THEN p.tokens[i] ELSE EOF
Current(p)  == Token(p, p.at)
Peek(p)     == Token(p, p.at + 1)

Advance(p)     == [p EXCEPT !.at = @ + 1]      \* mutant of NextToken
NextToken(p)   == IF Current(p) = EOF THEN p ELSE [p EXCEPT !.at = @ + 1]
Report(p)      == IF p.status = "parsing" THEN [p EXCEPT !.errors = @ + 1] ELSE p
SkipOne(p)     == NextToken(p)      \* mutant of SkipForward
SkipForward(p) == [p EXCEPT !.at =
                      Min({i \in @ .. Max({@, Len(p.tokens) + 1}) : Token(p, i) \in {";", EOF}})]

\* advance_to_next_token(), whose failure the parsing function that called it ends with.
ExpectSilently(p, t) ==      \* mutant of Expect
    IF p.status # "parsing" THEN p
    ELSE IF Peek(p) = t THEN NextToken(p)
    ELSE [SkipForward(p) EXCEPT !.status = "failed"]
Expect(p, t) ==
    IF p.status # "parsing" THEN p
    ELSE IF Peek(p) = t THEN NextToken(p)
    ELSE [SkipForward(Report(p)) EXCEPT !.status = "failed"]

Result(p, e) == [p |-> p, e |-> e]
Crash(p)     == Result([p EXCEPT !.status = "crashed"], Absent)

\* The parts of a tree, down to its leaves.
Parts(e) ==
    CASE "stmt" \in DOMAIN e  -> IF "value" \in DOMAIN e THEN {e.value} ELSE {}
      [] e.node = "op"        -> Range(e.args)
      [] e.node = "if"        -> {e.cond, e.then, e.else}
      [] e.node = "while"     -> {e.cond, e.body}
      [] e.node = "for"       -> {e.init, e.cond, e.inc, e.body}
      [] e.node = "function"  -> {e.body}
      [] e.node = "call"      -> {e.function} \cup Range(e.args)
      [] e.node = "assign"    -> {e.target, e.value}
      [] e.node = "block"     -> Range(e.stmts)
      [] OTHER                -> {}
RECURSIVE Nodes(_)
Nodes(e) == {e} \cup UNION {Nodes(f) : f \in Parts(e)}

\* free_expression(): what is freed may have been freed before.
Free(p, e) == IF p.status # "crashed" /\ Freed \in Nodes(e)
              THEN [p EXCEPT !.undefined = TRUE] ELSE p

\* How a parsing function ends that built e and may have missed a token: it frees e, whose
\* parts it has not set yet may be anything.
Resume(p) == IF p.status = "failed" THEN [p EXCEPT !.status = "parsing"] ELSE p
OrNull(p, e) ==
    IF p.status = "failed" THEN Result(Resume(Free(p, e)), Absent) ELSE Result(p, e)
OrNullUnset(p, e) ==
    IF p.status = "failed" THEN Result(Resume([p EXCEPT !.undefined = TRUE]), Absent)
    ELSE Result(p, e)

----------------------------------------------------------------------------
RECURSIVE ParseExpression(_, _), ParseStatement(_)

\* parse_expression_list(), from the opening bracket: a list that is not closed is freed
\* but stays in the tree.
RECURSIVE ListTail(_, _)
ListTail(p, es) ==
    IF Peek(p) = "," THEN LET r == ParseExpression(NextToken(NextToken(p)), LOWEST)
                          IN  ListTail(r.p, Append(es, r.e))
    ELSE [p |-> p, es |-> es]
ParseExpressionList(p, end) ==
    LET first == ParseExpression(NextToken(p), LOWEST)
        list  == ListTail(first.p, <<first.e>>)
        close == Expect(list.p, end)
    IN  IF Peek(p) = end THEN [p |-> NextToken(p), es |-> << >>]
        ELSE [p |-> Resume(close), es |-> IF close.status = "failed" THEN <<Freed>> ELSE list.es]

ParseArray(p) == LET list == ParseExpressionList(p, "]")
                 IN  Result(list.p, Op("ARRAY", list.es))
ParseCall(p, left) == LET list == ParseExpressionList(p, ")")
                      IN  Result(list.p, Call(left, list.es))

\* parse_index_expression() and parse_slice_expression(), from the bracket.
ParseIndex(p, left) ==
    LET index == IF Peek(p) = ":" THEN Result(p, Absent)
                 ELSE ParseExpression(NextToken(p), LOWEST)
        colon == NextToken(index.p)
        to    == IF Peek(colon) = "]" THEN Result(colon, Absent)
                 ELSE ParseExpression(NextToken(colon), LOWEST)
    IN  IF Peek(index.p) = ":"
        THEN OrNull(Expect(to.p, "]"), Op("SLICE", <<left, index.e, to.e>>))
        ELSE IF index.e = Absent THEN Result(Free(index.p, left), Absent)
        ELSE OrNull(Expect(index.p, "]"), Op("INDEX_GET", <<left, index.e>>))

ParseGrouped(p) ==      \* what is not closed is lost
    LET inner == ParseExpression(NextToken(p), LOWEST)
        close == Expect(inner.p, ")")
    IN  IF inner.e = Absent THEN inner
        ELSE Result(Resume(close), IF close.status = "failed" THEN Absent ELSE inner.e)

ParsePrefix(p) == LET right == ParseExpression(NextToken(p), PREFIX)
                  IN  Result(right.p, Op(PrefixOp[Current(p)], <<right.e>>))

----------------------------------------------------------------------------
\* parse_block_statement(), from the opening brace: the end of the input closes it too.
RECURSIVE BlockTail(_, _)
BlockSwallows(p, ss) ==      \* mutant of BlockTail
    LET s == ParseStatement(p)
    IN  IF Current(p) \in {"}", EOF} THEN Result(p, Block(ss))
        ELSE BlockTail(NextToken(NextToken(s.p)), IF s.ok THEN Append(ss, s.s) ELSE ss)
BlockTail(p, ss) ==
    LET s    == ParseStatement(p)
        semi == IF Peek(s.p) = ";" THEN NextToken(s.p) ELSE s.p
    IN  IF Current(p) \in {"}", EOF} THEN Result(p, Block(ss))
        ELSE BlockTail(NextToken(semi), IF s.ok THEN Append(ss, s.s) ELSE ss)
ParseBlock(p) == BlockTail(NextToken(p), << >>)

\* The headers of if and while.
ParseCondition(p) == ParseExpression(NextToken(Expect(p, "(")), LOWEST)
ParseBody(p)      == ParseBlock(Expect(Expect(p, ")"), "{"))

ParseWhile(p) ==
    LET cond == ParseCondition(p)
        body == ParseBody(cond.p)
    IN  OrNullUnset(body.p, While(cond.e, body.e))

ParseIf(p) ==
    LET cond == ParseCondition(p)
        then == ParseBody(cond.p)
        else == NextToken(then.p)
        elif == ParseStatement(NextToken(else))
        last == ParseBlock(Expect(else, "{"))
    IN  IF Peek(then.p) # "else" THEN OrNullUnset(then.p, If(cond.e, then.e, Absent))
        ELSE IF Peek(else) = "if" THEN Result(elif.p, If(cond.e, then.e, Block(<<elif.s>>)))
        ELSE OrNull(last.p, If(cond.e, then.e, last.e))

ParseFor(p) ==
    LET None(q) == [p |-> q, e |-> Absent, s |-> Expr(Absent)]
        open    == Expect(p, "(")
        init    == IF Peek(open) = ";" THEN None(open) ELSE ParseStatement(NextToken(open))
        second  == Expect(init.p, ";")
        cond    == IF Peek(second) = ";" THEN None(second)
                   ELSE ParseExpression(NextToken(second), LOWEST)
        third   == Expect(cond.p, ";")
        inc     == IF Peek(third) = ")" THEN None(third) ELSE ParseStatement(NextToken(third))
        body    == ParseBody(inc.p)
    IN  OrNullUnset(body.p, For(init.s, cond.e, inc.s, body.e))

\* parse_function_parameters(), from the parenthesis: any token is taken for a name.
RECURSIVE ParameterTail(_, _)
ParameterTail(p, ns) ==
    LET name == NextToken(NextToken(p))
    IN  IF Peek(p) = "," THEN ParameterTail(name, Append(ns, Current(name)))
        ELSE [p |-> Resume(Expect(p, ")")), ns |-> ns]
ParseParameters(p) ==
    LET first == NextToken(p)
    IN  IF Peek(p) = ")" THEN [p |-> first, ns |-> << >>]
        ELSE ParameterTail(first, <<Current(first)>>)

ParseFunction(p) ==
    LET open   == Expect(p, "(")
        params == ParseParameters(open)
        body   == ParseBlock(Expect(params.p, "{"))
    IN  IF open.status = "failed" THEN OrNullUnset(open, Absent)
        ELSE OrNull(body.p, Function(params.ns, body.e))

----------------------------------------------------------------------------
\* parse_assignment_expression(), parse_postfix_expression() and parse_infix_expression(),
\* from the operator: all of them look at the left operand, which may be NULL.
ParseAssignment(p, left) ==
    LET value == ParseExpression(NextToken(p), Precedence("="))
    IN  IF left = Absent THEN Crash(p)
        ELSE IF left.node = "ident" \/ (left.node = "op" /\ left.op = "INDEX_GET")
        THEN Result(value.p, Assign(left, value.e))
        ELSE Result(Report(p), Absent)

ParseInfix(p, left) ==
    LET t     == Current(p)
        right == ParseExpression(NextToken(p), Precedence(t))
    IN  IF left = Absent THEN Crash(p)
        ELSE IF left.node = "ident" /\ Peek(p) = t /\ t \in {"+", "-"}
        THEN Result(NextToken(p), Postfix(left.name, InfixOp[t]))
        ELSE Result(right.p, Op(InfixOp[t], <<left, right.e>>))

\* The loop of parse_expression(), with what stands to the left of the next token.
RECURSIVE ParseRight(_, _)
ParseRight(r, precedence) ==
    LET p == NextToken(r.p)
        t == Current(p)
    IN  IF Peek(r.p) = ";" \/ precedence >= Precedence(Peek(r.p)) THEN r
        ELSE ParseRight(CASE t = "=" -> ParseAssignment(p, r.e)
                          [] t = "(" -> ParseCall(p, r.e)
                          [] t = "[" -> ParseIndex(p, r.e)
                          [] OTHER   -> ParseInfix(p, r.e), precedence)

\* The switch of parse_expression(), on the first token of an expression.
Beginnings == Names \cup DOMAIN Numerals \cup Strings \cup DOMAIN PrefixOp
              \cup {"true", "false", "(", "[", "if", "while", "for", "fn"}
ParseOperand(p) ==
    LET t == Current(p)
    IN  CASE t \in Names             -> Result(p, Ident(t))
          [] t \in DOMAIN Numerals   -> Result(p, Const(Numerals[t]))
          [] t \in Strings           -> Result(p, Text(t))
          [] t \in {"true", "false"} -> Result(p, Bool(t = "true"))
          [] t \in DOMAIN PrefixOp   -> ParsePrefix(p)
          [] t = "("                 -> ParseGrouped(p)
          [] t = "["                 -> ParseArray(p)
          [] t = "if"                -> ParseIf(p)
          [] t = "while"             -> ParseWhile(p)
          [] t = "for"               -> ParseFor(p)
          [] t = "fn"                -> ParseFunction(p)
ParseExpression(p, precedence) ==
    IF Current(p) = ";" THEN Result(p, Absent)
    ELSE IF Current(p) \notin Beginnings THEN Result(SkipForward(Report(p)), Absent)
    ELSE ParseRight(ParseOperand(p), precedence)

----------------------------------------------------------------------------
\* A statement, and whether it is kept.  The name of a let that has none is not set.
Kept(p, s)    == [p |-> p, s |-> s, ok |-> TRUE]
Named(r, n)   == Kept(r.p, Let(n, r.e))
Returned(r)   == Kept(r.p, Return(r.e))
Standalone(r) == [p |-> r.p, s |-> Expr(r.e), ok |-> r.e # Absent]

ParseLet(p) ==
    LET name == NextToken(p)
    IN  IF Peek(p) \notin Names THEN Kept(SkipForward(Report(p)), Let(Garbage, Absent))
        ELSE IF Peek(name) # "=" THEN Kept(name, Let(Current(name), Absent))
        ELSE Named(ParseExpression(NextToken(NextToken(name)), LOWEST), Current(name))

ParseStatement(p) ==
    CASE Current(p) = "let"      -> ParseLet(p)
      [] Current(p) = "return"   -> Returned(ParseExpression(NextToken(p), LOWEST))
      [] Current(p) = "break"    -> Kept(p, Break)
      [] Current(p) = "continue" -> Kept(p, Continue)
      [] OTHER                   -> Standalone(ParseExpression(p, LOWEST))
=============================================================================
