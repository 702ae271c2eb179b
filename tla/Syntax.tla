------------------------------- MODULE Syntax -------------------------------
(***************************************************************************)
(* Syntax trees, as the parser builds them and the compiler walks them     *)
(* (struct expression, struct statement and struct program, parser.h).     *)
(*                                                                         *)
(* Operators of the language that only differ in their opcode share the    *)
(* node "op", which carries the opcode.  Absent stands for the NULL of a   *)
(* part that was left out.                                                 *)
(***************************************************************************)
EXTENDS Sequences

Absent == [node |-> "absent"]

Const(v)          == [node |-> "const", value |-> v]          \* EXPR_INT
Bool(b)           == [node |-> "bool", truth |-> b]
Text(s)           == [node |-> "string", text |-> s]
Ident(n)          == [node |-> "ident", name |-> n]
Op(op, args)      == [node |-> "op", op |-> op, args |-> args]
Postfix(n, op)    == [node |-> "postfix", name |-> n, op |-> op]
If(e, b1, b2)     == [node |-> "if", cond |-> e, then |-> b1, else |-> b2]
While(e, b)       == [node |-> "while", cond |-> e, body |-> b]
For(i, e, inc, b) == [node |-> "for", init |-> i, cond |-> e, inc |-> inc, body |-> b]
Function(ps, b)   == [node |-> "function", params |-> ps, body |-> b]
Call(f, args)     == [node |-> "call", function |-> f, args |-> args]
Assign(t, e)      == [node |-> "assign", target |-> t, value |-> e]   \* an Ident or an index

Expr(e)     == [stmt |-> "expr", value |-> e]
Let(n, e)   == [stmt |-> "let", name |-> n, value |-> e]
Return(e)   == [stmt |-> "return", value |-> e]
Break       == [stmt |-> "break"]
Continue    == [stmt |-> "continue"]
Block(ss)   == [node |-> "block", stmts |-> ss]
=============================================================================
