------------------------------ MODULE Machine ------------------------------
(***************************************************************************)
(* The virtual machine's control (vm.c): how vm_run() executes the code of *)
(* the compiler, with the stack, the frames, the globals and the           *)
(* instruction pointers it uses.  What the machine does to the heap is the *)
(* subject of VmHeap: values here are integers, booleans, null, functions  *)
(* and arrays that are never assigned to.                                  *)
(*                                                                         *)
(* An instruction whose execution is not defined, because it would use a   *)
(* slot, a frame or an instruction there is none of, or operands the       *)
(* machine asserts or assumes not to meet, is no step: the run is stuck.   *)
(***************************************************************************)
EXTENDS Values

CONSTANTS
    StackSize,     \* STACK_SIZE, 256
    FramesSize,    \* number of frames, 64
    PrintIndex     \* index of print() in builtin_functions[]

VARIABLES
    functions,     \* the main program, then the constants: [ins, locals] or a value
    stack,         \* slot -> value, kept above the stack pointer as well
    sp,            \* stack_pointer
    frames,        \* [fn, ip, base] of the active calls, the main program's first
    globals,       \* index -> value
    out,           \* what print() has printed
    status         \* "running", "halted", or why nothing runs (ControlFlow, Repl)

machineVars == <<functions, stack, sp, frames, globals, out, status>>

Frame   == Last(frames)
Code    == functions[Frame.fn].ins
Fetched == Frame.ip \in 0 .. Len(Code) - 1
Opcode  == Code[Frame.ip + 1].op
Operand == Code[Frame.ip + 1].arg

\* The operands of an instruction that takes n of them, the first one deepest.
Top(n)   == [i \in 1 .. n |-> stack[sp - n + i - 1]]
Holds(n) == sp >= n

Advance == frames' = [frames EXCEPT ![Len(frames)].ip = @ + 1]

\* The instruction replaces n operands by v and goes on with the next one.
Push(n, v) ==
    /\ Holds(n) /\ sp - n < StackSize
    /\ stack' = [stack EXCEPT ![sp - n] = v]
    /\ sp' = sp - n + 1

----------------------------------------------------------------------------
Executes(ops) == status = "running" /\ Fetched /\ Opcode \in ops

LoadConst ==
    /\ Executes({"CONST"}) /\ Operand + 2 \in DOMAIN functions
    /\ Push(0, Loaded(functions, Operand + 2)) /\ Advance
    /\ UNCHANGED <<functions, globals, out, status>>

LoadLiteral ==
    /\ Executes(DOMAIN Literal)
    /\ Push(0, Literal[Opcode]) /\ Advance
    /\ UNCHANGED <<functions, globals, out, status>>

GetBuiltin ==
    /\ Executes({"GET_BUILTIN"})
    /\ Push(0, [type |-> "BUILTIN", index |-> Operand]) /\ Advance
    /\ UNCHANGED <<functions, globals, out, status>>

Pop ==
    /\ Executes({"POP"}) /\ Holds(1)
    /\ sp' = sp - 1 /\ Advance
    /\ UNCHANGED <<functions, stack, globals, out, status>>

Operate ==
    /\ Executes(DOMAIN Arity) /\ Holds(Arity[Opcode])
    /\ LET v == Top(Arity[Opcode])
       IN  Takes(Opcode, v) /\ Push(Arity[Opcode], Apply(Opcode, v))
    /\ Advance
    /\ UNCHANGED <<functions, globals, out, status>>

BuildArray ==
    /\ Executes({"ARRAY"}) /\ Holds(Operand)
    /\ Push(Operand, Apply("ARRAY", Top(Operand))) /\ Advance
    /\ UNCHANGED <<functions, globals, out, status>>

GetGlobal ==
    /\ Executes({"GET_GLOBAL"}) /\ Operand \in DOMAIN globals
    /\ Push(0, globals[Operand]) /\ Advance
    /\ UNCHANGED <<functions, globals, out, status>>

SetGlobal ==
    /\ Executes({"SET_GLOBAL"}) /\ Holds(1) /\ Operand \in DOMAIN globals
    /\ globals' = [globals EXCEPT ![Operand] = stack[sp - 1]]
    /\ sp' = sp - 1 /\ Advance
    /\ UNCHANGED <<functions, stack, out, status>>

GetLocal ==
    /\ Executes({"GET_LOCAL"}) /\ Frame.base + Operand < StackSize
    /\ Push(0, stack[Frame.base + Operand]) /\ Advance
    /\ UNCHANGED <<functions, globals, out, status>>

SetLocal ==
    /\ Executes({"SET_LOCAL"}) /\ Holds(1) /\ Frame.base + Operand < StackSize
    /\ stack' = [stack EXCEPT ![Frame.base + Operand] = stack[sp - 1]]
    /\ sp' = sp - 1 /\ Advance
    /\ UNCHANGED <<functions, globals, out, status>>

Jump ==
    /\ Executes({"JUMP"})
    /\ frames' = [frames EXCEPT ![Len(frames)].ip = Operand]
    /\ UNCHANGED <<functions, stack, sp, globals, out, status>>

JumpNotTrue ==
    /\ Executes({"JUMP_NOT_TRUE"}) /\ Holds(1)
    /\ frames' = [frames EXCEPT ![Len(frames)].ip =
                      IF Falsy(stack[sp - 1]) THEN Operand ELSE @ + 1]
    /\ sp' = sp - 1
    /\ UNCHANGED <<functions, stack, globals, out, status>>

\* vm_do_call(): the callee lies below its arguments, which become its first locals; the
\* other locals are what the slots held.
Callee == stack[sp - Operand - 1]
IsFunction(v) == /\ v.type = "FUNCTION" /\ v.fn \in DOMAIN functions
                 /\ functions[v.fn].type = "FUNCTION"
CallUnreserved ==      \* mutant of CallFunction: no room for locals that are not parameters
    /\ Executes({"CALL"}) /\ Holds(Operand + 1) /\ IsFunction(Callee)
    /\ Len(frames) < FramesSize
    /\ frames' = Append(frames, [fn |-> Callee.fn, ip |-> 0, base |-> sp - Operand])
    /\ UNCHANGED <<functions, stack, sp, globals, out, status>>
CallFunction ==
    /\ Executes({"CALL"}) /\ Holds(Operand + 1) /\ IsFunction(Callee)
    /\ Len(frames) < FramesSize
    /\ frames' = Append(frames, [fn |-> Callee.fn, ip |-> 0, base |-> sp - Operand])
    /\ sp' = sp - Operand + functions[Callee.fn].locals
    /\ sp' <= StackSize
    /\ UNCHANGED <<functions, stack, globals, out, status>>

\* vm_do_call_builtin() of print().
CallPrint ==
    /\ Executes({"CALL"}) /\ Holds(Operand + 1)
    /\ Callee = [type |-> "BUILTIN", index |-> PrintIndex]
    /\ out' = out \o Top(Operand)
    /\ Push(Operand + 1, Null) /\ Advance
    /\ UNCHANGED <<functions, globals, status>>

\* The value takes the place of the callee, and the caller goes on after its call.
ReturnWith(v) ==
    /\ Len(frames) > 1
    /\ stack' = [stack EXCEPT ![Frame.base - 1] = v]
    /\ sp' = Frame.base
    /\ frames' = [Front(frames) EXCEPT ![Len(frames) - 1].ip = @ + 1]
    /\ UNCHANGED <<functions, globals, out, status>>

ReturnValue == Executes({"RETURN_VALUE"}) /\ Holds(1) /\ ReturnWith(stack[sp - 1])
ReturnNull  == Executes({"RETURN"}) /\ ReturnWith(Null)

Halt ==
    /\ Executes({"HALT"})
    /\ status' = "halted"
    /\ UNCHANGED <<functions, stack, sp, frames, globals, out>>

Step == \/ LoadConst \/ LoadLiteral \/ GetBuiltin \/ Pop \/ Operate \/ BuildArray
        \/ GetGlobal \/ SetGlobal \/ GetLocal \/ SetLocal \/ Jump \/ JumpNotTrue
        \/ CallFunction \/ CallPrint \/ ReturnValue \/ ReturnNull \/ Halt

\* vm_stack_last_popped(), the value of the program.
LastPopped == stack[sp]
=============================================================================
