---------------------------- MODULE ControlFlow ----------------------------
(***************************************************************************)
(* Compiler and Machine together: a program is compiled and its code is    *)
(* executed, as run_script() does (pepper.c).                              *)
(***************************************************************************)
EXTENDS Compiler, Execution

CONSTANT Programs      \* syntax trees of programs

ASSUME PrintAssumption == PrintIndex \in 0 .. Len(Builtins) - 1

VARIABLE program       \* what is compiled and run

vars == <<executionVars, program>>

\* compile_program() and vm_new() on its code.
Init ==
    /\ program \in Programs
    /\ LET c == CompileProgram(program)
       IN  /\ functions = <<[type |-> "FUNCTION", ins |-> Scope(c).ins, locals |-> 0]>>
                          \o c.constants
           /\ status = IF c.err = "none" THEN "running" ELSE "rejected"
    /\ NewMachine

Next == Run /\ UNCHANGED program

Spec     == Init /\ [][Next]_vars
FairSpec == Spec /\ WF_vars(Next)

----------------------------------------------------------------------------
\* What the compiler makes of a program passes the verifier: on every path, also on those
\* the program never takes, loops, ifs, breaks and continues leave as many temporaries as
\* the code around them expects, and no jump is left unpatched.
CodeVerified == status = "running" /\ frames = <<[fn |-> 1, ip |-> 0, base |-> 0]>> => Verified(functions)

\* Compiled code executes no instruction without a defined effect, not even at a limit.
NeverStuck == status = "running" => ENABLED Step

\* The next instruction may need a frame or a slot of the stack beyond the last one.
AtLimit ==
    \/ sp = StackSize \/ Len(frames) = FramesSize
    \/ /\ Executes({"CALL"}) /\ Holds(Operand + 1) /\ Callee.type = "FUNCTION"
       /\ sp - Operand + functions[Callee.fn].locals > StackSize

\* The machine checks neither how many frames nor how much stack it uses (vm.c:351), but
\* these limits are all a program can fail at: none takes more from the stack than there
\* is, jumps out of its code or returns from the main program, and one that recurses for
\* ever runs until it needs a frame or a slot that is not there.
StuckOnlyAtLimits == status = "running" => AtLimit \/ ENABLED Step

Source == INSTANCE Language

\* A program that ends has printed what the syntax tree means, has its value, and is
\* rejected only for a name that is not declared.
AgreesWithSource ==
    /\ status = "halted" =>
         LET m == Source!Meaning(program)
         IN  /\ out = m.out
             /\ m.val # Null => LastPopped = m.val
    /\ status = "rejected" => Source!Meaning(program).flow = "undeclared"

\* Every program whose loops end on their own comes to its end, or, if its functions call
\* themselves for ever, to a limit: a continue does not skip what makes the loop's
\* condition false.
Finishes == <>(status # "running" \/ AtLimit)
=============================================================================
