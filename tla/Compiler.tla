------------------------------ MODULE Compiler ------------------------------
(***************************************************************************)
(* The bytecode compiler (compiler.c): a recursive walk over the syntax    *)
(* tree that appends instructions to the current scope, patches the        *)
(* operands of jumps once their targets are known, and takes back the last *)
(* instruction when the value of a statement is needed after all.          *)
(*                                                                         *)
(* A position is an index into a sequence of instructions, from zero,      *)
(* where the code counts bytes.  The scopes' names are those of            *)
(* LexicalScopes, which SymbolTable implements.                            *)
(***************************************************************************)
EXTENDS Syntax, Integers, SequencesExt, FiniteSets

CONSTANT Builtins        \* the names of builtin_functions[], in order

----------------------------------------------------------------------------
\* struct compiler: the scopes being compiled and the names each of them has defined,
\* the constants, and the error the walk has stopped with.
NoInstruction == [op |-> "NONE", pos |-> 0]
NewScope      == [ins |-> << >>, last |-> NoInstruction, previous |-> NoInstruction]
NewCompiler   == [scopes |-> <<NewScope>>, tables |-> << << >> >>,
                  constants |-> << >>, err |-> "none"]

BreakMark    == 9999      \* JUMP_PLACEHOLDER_BREAK
ContinueMark == 9998      \* JUMP_PLACEHOLDER_CONTINUE
Placeholder  == 9999      \* operand of the jumps of if, while and for

Scope(c) == c.scopes[Len(c.scopes)]
Pos(c)   == Len(Scope(c).ins)          \* instructions->size

\* An error ends the walk: what would come next leaves the compiler as it is.
Fail(c, e)          == [c EXCEPT !.err = e]
Unless(c, changed)  == IF c.err = "none" THEN changed ELSE c
InScope(c, changed) == Unless(c, [c EXCEPT !.scopes[Len(c.scopes)] = changed])

Emit(c, op, arg) ==
    LET s == Scope(c)
    IN  InScope(c, [ins      |-> Append(s.ins, [op |-> op, arg |-> arg]),
                    last     |-> [op |-> op, pos |-> Len(s.ins)],
                    previous |-> s.last])

\* compiler_last_instruction_is(), compiler_remove_last_instruction(),
\* compiler_replace_last_instruction() and compiler_change_operand().
LastIs(c, op) == Scope(c).ins # << >> /\ Scope(c).last.op = op
RemoveLast(c) ==
    LET s == Scope(c)
    IN  InScope(c, [s EXCEPT !.ins = SubSeq(@, 1, s.last.pos), !.last = s.previous])
ReplaceLast(c, op) ==
    LET s == Scope(c)
    IN  InScope(c, [ins      |-> [s.ins EXCEPT ![s.last.pos + 1] = [op |-> op, arg |-> 0]],
                    last     |-> [op |-> op, pos |-> s.last.pos],
                    previous |-> s.last])
ChangeOutermost(c, pos, arg) ==      \* mutant of ChangeOperand: in the wrong scope
    Unless(c, [c EXCEPT !.scopes[1].ins =
        [i \in DOMAIN @ |-> IF i = pos + 1 THEN [@[i] EXCEPT !.arg = arg] ELSE @[i]]])
ChangeOperand(c, pos, arg) ==
    LET s == Scope(c)
    IN  InScope(c, [s EXCEPT !.ins[pos + 1].arg = arg])

\* compiler_change_jump_placeholders(), on the instructions from start up to end.
ChangePlaceholders(c, start, end, mark, arg) ==
    LET s == Scope(c)
    IN  InScope(c, [s EXCEPT !.ins = [i \in DOMAIN @ |->
            IF /\ i - 1 \in start .. end - 1
               /\ @[i].op = "JUMP" /\ @[i].arg = mark
            THEN [@[i] EXCEPT !.arg = arg] ELSE @[i]]])

\* add_constant() and the instruction that loads it.
EmitConst(c, v) ==
    Emit(Unless(c, [c EXCEPT !.constants = Append(@, v)]), "CONST", Len(c.constants))

----------------------------------------------------------------------------
\* symbol_table_define() in the current scope, and symbol_table_resolve().
Table(c)      == c.tables[Len(c.tables)]
IsBuiltin(n)  == \E i \in DOMAIN Builtins : Builtins[i] = n
Index(seq, n) == (CHOOSE i \in DOMAIN seq : seq[i] = n) - 1
Has(table, n) == \E i \in DOMAIN table : table[i] = n

Define(c, n) ==
    IF Has(Table(c), n) \/ (Len(c.tables) = 1 /\ IsBuiltin(n)) THEN c
    ELSE Unless(c, [c EXCEPT !.tables[Len(c.tables)] = Append(@, n)])

Depths(c, n) == {k \in DOMAIN c.tables : Has(c.tables[k], n)}
Resolve(c, n) ==
    IF Depths(c, n) # {} THEN
        LET k == CHOOSE k \in Depths(c, n) : \A j \in Depths(c, n) : j <= k
        IN  [scope |-> IF k = 1 THEN "global" ELSE "local", index |-> Index(c.tables[k], n)]
    ELSE IF IsBuiltin(n) THEN [scope |-> "builtin", index |-> Index(Builtins, n)]
    ELSE [scope |-> "none", index |-> 0]

\* The store to a symbol, its load, and the load of an identifier.
EmitSet(c, s) == Emit(c, IF s.scope = "global" THEN "SET_GLOBAL" ELSE "SET_LOCAL", s.index)
GetOf == [global |-> "GET_GLOBAL", local |-> "GET_LOCAL", builtin |-> "GET_BUILTIN"]
EmitLoad(c, s) == Emit(c, GetOf[s.scope], s.index)
EmitGet(c, n) ==
    LET s == Resolve(c, n)
    IN  IF s.scope = "none" THEN Unless(c, Fail(c, "unknown_ident")) ELSE EmitLoad(c, s)

----------------------------------------------------------------------------
RECURSIVE CompileExpression(_, _), CompileStatement(_, _)

CompileAll(c, es)   == FoldLeft(LAMBDA d, e : CompileExpression(d, e), c, es)
\* A part that may be left out has null for its value.
CompileOptional(c, e) == IF e = Absent THEN Emit(c, "NULL", 0) ELSE CompileExpression(c, e)
CompileSlice(c, e) ==
    Emit(CompileOptional(CompileOptional(CompileExpression(c, e.args[1]), e.args[2]), e.args[3]),
         "SLICE", 3)
CompileBlock(c, b)  == FoldLeft(LAMBDA d, s : CompileStatement(d, s), c, b.stmts)

\* The value of the last statement of a block is not popped when the block is that of an
\* if or of a loop; a loop has null instead when the last statement left none.
KeepValue(c)       == IF LastIs(c, "POP") THEN RemoveLast(c) ELSE c
KeepValueIfAny(c)  == IF LastIs(c, "POP") THEN RemoveLast(c) ELSE c     \* mutant of KeepValueOrNull
KeepValueOrNull(c) == IF LastIs(c, "POP") THEN RemoveLast(c) ELSE Emit(c, "NULL", 0)

StoreThenLoad(c, e) ==      \* mutant of CompilePostfix: the value is the new one
    LET added == Emit(EmitConst(EmitGet(c, e.name), [type |-> "INT", int |-> 1]), e.op, 0)
    IN  EmitGet(EmitSet(added, Resolve(added, e.name)), e.name)
CompilePostfix(c, e) ==
    LET loaded == EmitGet(EmitGet(c, e.name), e.name)
        added  == Emit(EmitConst(loaded, [type |-> "INT", int |-> 1]), e.op, 0)
    IN  EmitSet(added, Resolve(added, e.name))

IfWithoutElse(c, e) ==      \* mutant of CompileIf: no value for a missing alternative
    LET cond == CompileExpression(c, e.cond)
        then == KeepValue(CompileBlock(Emit(cond, "JUMP_NOT_TRUE", Placeholder), e.then))
        jump == Emit(then, "JUMP", Placeholder)
        test == ChangeOperand(jump, Pos(cond), Pos(jump))
        else == IF e.else = Absent THEN test ELSE KeepValue(CompileBlock(test, e.else))
    IN  ChangeOperand(else, Pos(then), Pos(else))
CompileIf(c, e) ==
    LET cond == CompileExpression(c, e.cond)
        then == KeepValue(CompileBlock(Emit(cond, "JUMP_NOT_TRUE", Placeholder), e.then))
        jump == Emit(then, "JUMP", Placeholder)
        test == ChangeOperand(jump, Pos(cond), Pos(jump))
        else == IF e.else = Absent THEN Emit(test, "NULL", 0)
                ELSE KeepValue(CompileBlock(test, e.else))
    IN  ChangeOperand(else, Pos(then), Pos(else))

\* The breaks and continues of a loop's body, those of inner loops being patched already.
PatchLoop(c, start, end, break, continue) ==
    ChangePlaceholders(ChangePlaceholders(c, start, end, BreakMark, break),
                       start, end, ContinueMark, continue)

CompileWhile(c, e) ==
    LET before == Emit(c, "NULL", 0)
        cond   == CompileExpression(before, e.cond)
        start  == Emit(Emit(cond, "JUMP_NOT_TRUE", Placeholder), "POP", 0)
        end    == CompileBlock(start, e.body)
        after  == Emit(KeepValueOrNull(end), "JUMP", Pos(before))
    IN  PatchLoop(ChangeOperand(after, Pos(cond), Pos(after)),
                  Pos(start), Pos(end), Pos(after), Pos(before))

ContinueAtCondition(c, e) ==      \* mutant of CompileFor: continue skips the increment
    LET before == CompileStatement(Emit(c, "NULL", 0), e.init)
        cond   == IF e.cond = Absent THEN before ELSE CompileExpression(before, e.cond)
        test   == IF e.cond = Absent THEN cond ELSE Emit(cond, "JUMP_NOT_TRUE", Placeholder)
        start  == Emit(test, "POP", 0)
        end    == CompileBlock(start, e.body)
        inc    == KeepValueOrNull(end)
        after  == Emit(CompileStatement(inc, e.inc), "JUMP", Pos(before))
    IN  PatchLoop(IF e.cond = Absent THEN after
                  ELSE ChangeOperand(after, Pos(cond), Pos(after)),
                  Pos(start), Pos(end), Pos(after), Pos(before))
CompileFor(c, e) ==
    LET before == CompileStatement(Emit(c, "NULL", 0), e.init)
        cond   == IF e.cond = Absent THEN before ELSE CompileExpression(before, e.cond)
        test   == IF e.cond = Absent THEN cond ELSE Emit(cond, "JUMP_NOT_TRUE", Placeholder)
        start  == Emit(test, "POP", 0)
        end    == CompileBlock(start, e.body)
        inc    == KeepValueOrNull(end)
        after  == Emit(CompileStatement(inc, e.inc), "JUMP", Pos(before))
    IN  PatchLoop(IF e.cond = Absent THEN after
                  ELSE ChangeOperand(after, Pos(cond), Pos(after)),
                  Pos(start), Pos(end), Pos(after), Pos(inc))

\* compiler_enter_scope() and compiler_leave_scope().
EnterScope(c) == Unless(c, [c EXCEPT !.scopes = Append(@, NewScope),
                                     !.tables = Append(@, << >>)])
LeaveScope(c) == Unless(c, [c EXCEPT !.scopes = Front(@), !.tables = Front(@)])

CompileFunction(c, e) ==
    LET params == FoldLeft(LAMBDA d, n : Define(d, n), EnterScope(c), e.params)
        body   == CompileBlock(params, e.body)
        ended  == IF LastIs(body, "POP") THEN ReplaceLast(body, "RETURN_VALUE")
                  ELSE IF LastIs(body, "RETURN_VALUE") THEN body
                  ELSE Emit(body, "RETURN", 0)
    IN  EmitConst(LeaveScope(ended), [type   |-> "FUNCTION",
                                      ins    |-> Scope(ended).ins,
                                      locals |-> Len(Table(ended))])

\* The symbol is the one found before the value is compiled, which may declare the name.
CompileAssign(c, e) ==
    LET s     == Resolve(c, e.target.name)
        value == CompileExpression(c, e.value)
    IN  CASE s.scope = "none"    -> Unless(c, Fail(c, "unknown_ident"))
          [] s.scope = "builtin" -> Unless(value, Fail(value, "exit"))
          [] OTHER               -> EmitLoad(EmitSet(value, s), s)

\* left[index] = value
CompileIndexAssign(c, e) ==
    Emit(CompileExpression(CompileAll(c, e.target.args), e.value), "INDEX_SET", 0)

\* After an error nothing is compiled any more: every caller returns it at once.
CompileExpression(c, e) == Unless(c,
    CASE e.node = "const"    -> EmitConst(c, [type |-> "INT", int |-> e.value])
      [] e.node = "bool"     -> Emit(c, IF e.truth THEN "TRUE" ELSE "FALSE", 0)
      [] e.node = "string"   -> EmitConst(c, [type |-> "STRING", text |-> e.text])
      [] e.node = "absent"   -> Fail(c, "crash")          \* reads the type of NULL
      [] e.node = "ident"    -> EmitGet(c, e.name)
      [] e.node = "op"       -> IF e.op = "SLICE" THEN CompileSlice(c, e)
                                ELSE Emit(CompileAll(c, e.args), e.op, Len(e.args))
      [] e.node = "postfix"  -> CompilePostfix(c, e)
      [] e.node = "if"       -> CompileIf(c, e)
      [] e.node = "while"    -> CompileWhile(c, e)
      [] e.node = "for"      -> CompileFor(c, e)
      [] e.node = "function" -> CompileFunction(c, e)
      [] e.node = "call"     -> Emit(CompileAll(CompileExpression(c, e.function), e.args),
                                     "CALL", Len(e.args))
      [] e.node = "assign"   -> IF e.target.node = "ident" THEN CompileAssign(c, e)
                                ELSE CompileIndexAssign(c, e))

CompileStatement(c, s) == Unless(c,
    CASE s.stmt = "expr"     -> IF s.value = Absent THEN c
                                ELSE Emit(CompileExpression(c, s.value), "POP", 0)
      [] s.stmt = "let"      -> LET d == Define(c, s.name)
                                IN  EmitSet(CompileOptional(d, s.value), Resolve(d, s.name))
      [] s.stmt = "return"   -> IF s.value = Absent THEN c
                                ELSE Emit(CompileExpression(c, s.value), "RETURN_VALUE", 0)
      [] s.stmt = "break"    -> Emit(Emit(c, "NULL", 0), "JUMP", BreakMark)
      [] s.stmt = "continue" -> Emit(Emit(c, "NULL", 0), "JUMP", ContinueMark))

\* compile_program(), on the compiler of compiler_new() or compiler_new_with_state().
CompileWith(c, b)   == Emit(CompileBlock(c, b), "HALT", 0)
CompileProgram(b)   == CompileWith(NewCompiler, b)
NewConstants(names, constants) ==      \* mutant of CompilerWithState
    [NewCompiler EXCEPT !.tables = <<names>>]
CompilerWithState(names, constants) ==
    [NewCompiler EXCEPT !.tables = <<names>>, !.constants = constants]
=============================================================================
