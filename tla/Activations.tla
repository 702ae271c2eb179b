---------------------------- MODULE Activations ----------------------------
(***************************************************************************)
(* What the machine promises to the compiler: every active call of a       *)
(* function has variables and operands of its own.  An instruction works   *)
(* on those of the topmost call; a call hands over its arguments, a return *)
(* its value, and nothing else a caller has is touched meanwhile.          *)
(***************************************************************************)
EXTENDS Values

CONSTANT PrintIndex

VARIABLES
    functions,   \* the program, then the constants
    calls,       \* [fn, ip, locals, operands] of the active calls, the program's first
    globals,
    out,
    status

vars == <<functions, calls, globals, out, status>>

Active == Last(calls)
Instr  == functions[Active.fn].ins[Active.ip + 1]

Runs(ops)   == status = "running" /\ Instr.op \in ops
Has(n)      == Len(Active.operands) >= n
Operands(n) == SubSeq(Active.operands, Len(Active.operands) - n + 1, Len(Active.operands))
Rest(n)     == SubSeq(Active.operands, 1, Len(Active.operands) - n)

\* A call of function f: its first variables are the arguments, whatever the others hold.
Entered(c, f, args) ==
    /\ c.fn = f /\ c.ip = 0 /\ c.operands = << >>
    /\ DOMAIN c.locals = 0 .. functions[f].locals - 1
    /\ \A k \in DOMAIN c.locals : k < Len(args) => c.locals[k] = args[k + 1]

Init == Len(calls) = 1 /\ Entered(calls[1], 1, << >>) /\ out = << >>

\* The topmost call goes on at q, with these variables and operands.
GoesOn(ls, ops, q) ==
    calls' = Append(Front(calls), [fn |-> Active.fn, ip |-> q, locals |-> ls, operands |-> ops])

\* v takes the place of n operands.
Yields(n, v) == Has(n) /\ GoesOn(Active.locals, Append(Rest(n), v), Active.ip + 1)

Compute ==
    /\ \/ Runs({"CONST"}) /\ Yields(0, Loaded(functions, Instr.arg + 2))
       \/ Runs(DOMAIN Literal) /\ Yields(0, Literal[Instr.op])
       \/ Runs({"GET_BUILTIN"}) /\ Yields(0, [type |-> "BUILTIN", index |-> Instr.arg])
       \/ Runs({"GET_GLOBAL"}) /\ Yields(0, globals[Instr.arg])
       \/ /\ Runs({"GET_LOCAL"}) /\ Instr.arg \in DOMAIN Active.locals
          /\ Yields(0, Active.locals[Instr.arg])
       \/ /\ Runs(DOMAIN Arity)
          /\ Yields(Arity[Instr.op], Apply(Instr.op, Operands(Arity[Instr.op])))
       \/ Runs({"ARRAY"}) /\ Yields(Instr.arg, Apply("ARRAY", Operands(Instr.arg)))
    /\ UNCHANGED <<functions, globals, out, status>>

Discard ==
    /\ Runs({"POP"}) /\ Has(1)
    /\ GoesOn(Active.locals, Rest(1), Active.ip + 1)
    /\ UNCHANGED <<functions, globals, out, status>>

StoreGlobal ==
    /\ Runs({"SET_GLOBAL"}) /\ Has(1)
    /\ globals' = [globals EXCEPT ![Instr.arg] = Last(Active.operands)]
    /\ GoesOn(Active.locals, Rest(1), Active.ip + 1)
    /\ UNCHANGED <<functions, out, status>>

StoreLocal ==
    /\ Runs({"SET_LOCAL"}) /\ Has(1) /\ Instr.arg \in DOMAIN Active.locals
    /\ GoesOn([Active.locals EXCEPT ![Instr.arg] = Last(Active.operands)], Rest(1), Active.ip + 1)
    /\ UNCHANGED <<functions, globals, out, status>>

Branch ==
    /\ \/ Runs({"JUMP"}) /\ GoesOn(Active.locals, Active.operands, Instr.arg)
       \/ /\ Runs({"JUMP_NOT_TRUE"}) /\ Has(1)
          /\ GoesOn(Active.locals, Rest(1),
                    IF Falsy(Last(Active.operands)) THEN Instr.arg ELSE Active.ip + 1)
    /\ UNCHANGED <<functions, globals, out, status>>

\* The caller is left waiting without the callee and the arguments.
Callee    == Operands(Instr.arg + 1)[1]
Arguments == Tail(Operands(Instr.arg + 1))
CallFunction ==
    /\ Runs({"CALL"}) /\ Has(Instr.arg + 1) /\ Callee.type = "FUNCTION"
    /\ calls' = Front(calls) \o <<[Active EXCEPT !.operands = Rest(Instr.arg + 1)], Last(calls')>>
    /\ Entered(Last(calls'), Callee.fn, Arguments)
    /\ UNCHANGED <<functions, globals, out, status>>

CallPrint ==
    /\ Runs({"CALL"}) /\ Callee = [type |-> "BUILTIN", index |-> PrintIndex]
    /\ out' = out \o Arguments
    /\ Yields(Instr.arg + 1, Null)
    /\ UNCHANGED <<functions, globals, status>>

\* The caller goes on with what it has and the value.
Waiting == Last(Front(calls))
Resumes(v) ==
    /\ Len(calls) > 1
    /\ calls' = Append(Front(Front(calls)),
                      [fn |-> Waiting.fn, ip |-> Waiting.ip + 1, locals |-> Waiting.locals,
                       operands |-> Append(Waiting.operands, v)])
    /\ UNCHANGED <<functions, globals, out, status>>

Return == \/ Runs({"RETURN"}) /\ Resumes(Null)
          \/ Runs({"RETURN_VALUE"}) /\ Has(1) /\ Resumes(Last(Active.operands))

\* The program ends with nothing left of what it computed.
Halt ==
    /\ Runs({"HALT"}) /\ Len(calls) = 1 /\ Active.operands = << >>
    /\ status' = "halted"
    /\ UNCHANGED <<functions, calls, globals, out>>

Next == \/ Compute \/ Discard \/ StoreGlobal \/ StoreLocal \/ Branch \/ CallFunction \/ CallPrint
        \/ Return \/ Halt
Spec == Init /\ [][Next]_vars
=============================================================================
