------------------------------ MODULE Language ------------------------------
(***************************************************************************)
(* What a Pepper program means, read off its syntax tree: the values of    *)
(* expressions, the scopes of names and the flow of control, without code, *)
(* stack or jumps.  Programs compiled by Compiler and executed by Machine  *)
(* are compared with it.                                                   *)
(*                                                                         *)
(* An if, a loop and a function have the value of the last statement they  *)
(* executed, null if it is not an expression, and a loop that was left by  *)
(* break has null.  A function has variables of its own and sees the       *)
(* global ones; blocks have none.                                          *)
(***************************************************************************)
EXTENDS Values, TLC

CONSTANT Builtins

\* The state of an evaluation: flow is where control goes next, "next" being onwards.
Begin == [globals |-> << >>, locals |-> << >>, called |-> FALSE,
          out |-> << >>, flow |-> "next", val |-> Null]

Onwards(s)     == s.flow = "next"
Yield(s, v)    == [s EXCEPT !.val = v]
Divert(s, f)   == [s EXCEPT !.flow = f]
Resume(s, f)   == IF s.flow = f THEN [s EXCEPT !.flow = "next"] ELSE s

Declare(s, n, v) == IF s.called THEN [s EXCEPT !.locals = (n :> v) @@ @]
                    ELSE [s EXCEPT !.globals = (n :> v) @@ @]
Store(s, n, v)   == IF n \in DOMAIN s.locals THEN [s EXCEPT !.locals[n] = v]
                    ELSE [s EXCEPT !.globals[n] = v]
Lookup(s, n) ==
    IF n \in DOMAIN s.locals THEN Yield(s, s.locals[n])
    ELSE IF n \in DOMAIN s.globals THEN Yield(s, s.globals[n])
    ELSE IF \E i \in DOMAIN Builtins : Builtins[i] = n
         THEN Yield(s, [type |-> "BUILTIN", name |-> n])
    ELSE Divert(s, "undeclared")

RECURSIVE Eval(_, _), Run(_, _), Repeat(_, _, _)

RunBlock(s, b) ==
    FoldLeft(LAMBDA t, x : IF Onwards(t) THEN Run(t, x) ELSE t, Yield(s, Null), b.stmts)

EvalAll(s, es) ==
    FoldLeft(LAMBDA a, e : IF ~Onwards(a.s) THEN a
                           ELSE LET t == Eval(a.s, e)
                                IN  [s |-> t, vals |-> Append(a.vals, t.val)],
             [s |-> s, vals |-> << >>], es)

\* A loop whose last turn had value v.  A for goes on with its increment, after continue too.
Repeat(s, e, v) ==
    LET test == IF e.cond.node = "absent" THEN Yield(s, Truth(TRUE)) ELSE Eval(s, e.cond)
        turn == RunBlock(test, e.body)
        val  == IF turn.flow = "continue" THEN Null ELSE turn.val
        next == IF e.node = "while" THEN Resume(turn, "continue")
                ELSE IF turn.flow \in {"next", "continue"}
                     THEN Run(Resume(turn, "continue"), e.inc) ELSE turn
    IN  IF ~Onwards(test) THEN test
        ELSE IF Falsy(test.val) THEN Yield(test, v)
        ELSE IF turn.flow = "break" THEN Yield(Resume(turn, "break"), Null)
        ELSE IF ~Onwards(next) THEN next
        ELSE Repeat(next, e, val)

Invoke(a) ==
    LET f    == a.vals[1]
        args == Tail(a.vals)
        bind == [n \in {f.params[i] : i \in DOMAIN f.params} |->
                    args[CHOOSE i \in DOMAIN f.params : f.params[i] = n]]
        done == RunBlock([a.s EXCEPT !.locals = bind, !.called = TRUE], f.body)
    IN  IF f.type = "BUILTIN" THEN Yield([a.s EXCEPT !.out = @ \o args], Null)
        ELSE Resume([done EXCEPT !.locals = a.s.locals, !.called = a.s.called], "return")

Eval(s, e) ==
    CASE e.node = "const"    -> Yield(s, Number(e.value))
      [] e.node = "bool"     -> Yield(s, Truth(e.truth))
      [] e.node = "absent"   -> Yield(s, Null)
      [] e.node = "ident"    -> Lookup(s, e.name)
      [] e.node = "op"       -> LET a == EvalAll(s, e.args)
                                IN  IF Onwards(a.s) THEN Yield(a.s, Apply(e.op, a.vals)) ELSE a.s
      [] e.node = "postfix"  -> LET t == Lookup(s, e.name)
                                IN  IF Onwards(t)
                                    THEN Store(t, e.name, Apply(e.op, <<t.val, Number(1)>>)) ELSE t
      [] e.node = "if"       -> LET t == Eval(s, e.cond)
                                IN  IF ~Onwards(t) THEN t
                                    ELSE IF ~Falsy(t.val) THEN RunBlock(t, e.then)
                                    ELSE IF e.else.node = "absent" THEN Yield(t, Null)
                                    ELSE RunBlock(t, e.else)
      [] e.node = "while"    -> Repeat(s, e, Null)
      [] e.node = "for"      -> LET t == Run(s, e.init)
                                IN  IF Onwards(t) THEN Repeat(t, e, Null) ELSE t
      [] e.node = "function" -> Yield(s, [type |-> "FUNCTION", params |-> e.params,
                                          body |-> e.body])
      [] e.node = "call"     -> LET a == EvalAll(s, <<e.function>> \o e.args)
                                IN  IF Onwards(a.s) THEN Invoke(a) ELSE a.s
      [] e.node = "assign"   -> LET t == Eval(s, e.value)
                                    n == e.target.name
                                IN  IF ~Onwards(Lookup(s, n)) THEN Lookup(s, n)
                                    ELSE IF Onwards(t) THEN Store(t, n, t.val) ELSE t

Run(s, x) ==
    CASE x.stmt = "expr"     -> Eval(s, x.value)
      [] x.stmt = "let"      -> LET t == Eval(s, x.value)
                                IN  IF Onwards(t) THEN Yield(Declare(t, x.name, t.val), Null)
                                    ELSE t
      [] x.stmt = "return"   -> LET t == Eval(s, x.value)
                                IN  IF Onwards(t) THEN Divert(t, "return") ELSE t
      [] x.stmt = "break"    -> Divert(s, "break")
      [] x.stmt = "continue" -> Divert(s, "continue")

Meaning(p) == RunBlock(Begin, p)
=============================================================================
