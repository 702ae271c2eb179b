-------------------------------- MODULE Repl --------------------------------
(***************************************************************************)
(* The interactive session (repl() of pepper.c): line after line is parsed,*)
(* compiled and run, each by a compiler and a machine of its own.  What is *)
(* carried from one line to the next are the names and the constants,      *)
(* which a compiler adds to also when it gives up, and the globals, which  *)
(* are copied into a machine and out of it again once it has halted.       *)
(***************************************************************************)
EXTENDS Compiler, Machine, Functions, TLC

CONSTANTS
    Sessions,      \* sequences of lines, the syntax tree of each or Unparsable
    Unparsable,    \* a line with a parse error
    GlobalsSize,   \* GLOBALS_SIZE, 64
    ConstantsSize  \* size of the constants array of a machine, 64 too

ASSUME SizesAssumption ==
    /\ StackSize \in Nat \ {0} /\ FramesSize \in Nat \ {0}
    /\ GlobalsSize \in Nat /\ ConstantsSize \in Nat
    /\ PrintIndex \in 0 .. Len(Builtins) - 1

VARIABLES
    session,       \* the lines
    line,          \* the one that is read next, or runs
    names,         \* global names defined so far, in the order of their indices
    constants,     \* the constants of all lines so far
    kept,          \* the globals of the session, between the lines
    meaning        \* what Language makes of the lines that were run

vars == <<machineVars, session, line, names, constants, kept, meaning>>

Source == INSTANCE Language

\* No machine: what the variables of one are while a line is read.
Idle ==
    /\ functions = << >> /\ frames = << >> /\ sp = 0 /\ out = << >>
    /\ stack = [i \in 0 .. StackSize - 1 |-> Stale]
    /\ globals = [i \in 0 .. GlobalsSize - 1 |-> Stale]

\* The globals of the session are an array on the stack nobody writes before the first
\* line has run.
Init ==
    /\ session \in Sessions /\ line = 1
    /\ names = << >> /\ constants = << >>
    /\ kept = [i \in 0 .. GlobalsSize - 1 |-> Stale]
    /\ meaning = Source!Begin
    /\ status = "reading" /\ Idle

\* The line, from the globals the lines before it left.
Meant(globalsBefore) ==
    Source!RunBlock([meaning EXCEPT !.globals = globalsBefore, !.out = << >>], session[line])

AtPrompt == status = "reading" /\ line <= Len(session)
Compiled == CompileWith(CompilerWithState(names, constants), session[line])

\* add_constant() and the machine's array have room for that many constants.
AfterCompiling(s) == IF Len(Compiled.constants) <= ConstantsSize THEN s ELSE "overrun"

ParseError ==
    /\ AtPrompt /\ session[line] = Unparsable
    /\ line' = line + 1
    /\ UNCHANGED <<machineVars, session, names, constants, kept, meaning>>

\* The names and constants of the line up to its error stay; names without a value are
\* what that means for the lines to come.
CompileError ==
    /\ AtPrompt /\ session[line] # Unparsable /\ Compiled.err = "unknown_ident"
    /\ names' = Compiled.tables[1] /\ constants' = Compiled.constants
    /\ meaning' = [meaning EXCEPT !.globals = @ @@ [n \in Range(names') |-> Stale]]
    /\ line' = line + 1
    /\ status' = AfterCompiling("reading")
    /\ UNCHANGED <<functions, stack, sp, frames, globals, out, session, kept>>

\* exit(1) on the assignment to a built-in function.
Exit ==
    /\ AtPrompt /\ session[line] # Unparsable /\ Compiled.err = "exit"
    /\ status' = "exited"
    /\ UNCHANGED <<functions, stack, sp, frames, globals, out, session, line, names,
                   constants, kept, meaning>>

NullGlobals == [i \in DOMAIN kept |-> Null]      \* mutant of FirstGlobals: vm_new()
\* vm_new_with_globals(): the machine copies all constants, however many there are, and
\* the globals of the session over its null ones.
FirstGlobals == kept
StartLine ==
    /\ AtPrompt /\ session[line] # Unparsable /\ Compiled.err = "none"
    /\ names' = Compiled.tables[1] /\ constants' = Compiled.constants
    /\ functions' = <<[type |-> "FUNCTION", ins |-> Scope(Compiled).ins, locals |-> 0]>>
                    \o Compiled.constants
    /\ frames' = <<[fn |-> 1, ip |-> 0, base |-> 0]>> /\ sp' = 0 /\ out' = << >>
    /\ stack' = [i \in DOMAIN stack |-> Stale]
    /\ globals' = FirstGlobals
    /\ status' = AfterCompiling("running")
    /\ UNCHANGED <<session, line, kept, meaning>>

\* From here on anything may happen: the line uses a global that was never written, or
\* one behind the end of the array.
Garbage == /\ Executes({"GET_GLOBAL"}) /\ Operand \in DOMAIN globals
           /\ globals[Operand] = Stale
Outside == Executes({"GET_GLOBAL", "SET_GLOBAL"}) /\ Operand \notin DOMAIN globals
Stray ==
    /\ \/ Garbage /\ status' = "undefined"
       \/ Outside /\ status' = "overrun"
    /\ UNCHANGED <<functions, stack, sp, frames, globals, out, session, line, names, constants,
                   kept, meaning>>

Execute == ~Garbage /\ Step /\ UNCHANGED <<session, line, names, constants, kept, meaning>>

KeepsNothing ==      \* mutant of Answer: the globals stay in the machine
    /\ status = "halted"
    /\ meaning' = Meant(meaning.globals)
    /\ status' = "reading" /\ line' = line + 1
    /\ UNCHANGED <<functions, stack, sp, frames, globals, out, session, names, constants, kept>>
\* The value is printed and the globals are copied out.
Answer ==
    /\ status = "halted"
    /\ kept' = globals /\ meaning' = Meant(meaning.globals)
    /\ status' = "reading" /\ line' = line + 1
    /\ UNCHANGED <<functions, stack, sp, frames, globals, out, session, names, constants>>

Next == ParseError \/ CompileError \/ Exit \/ StartLine \/ Stray \/ Execute \/ Answer

Spec == Init /\ [][Next]_vars

----------------------------------------------------------------------------
\* A session means what its lines mean one after the other: a line that has run printed
\* and answered what it should, given what the lines before it left in the globals, and
\* the functions they defined still find their constants and globals, whatever lines
\* were compiled in between, those that failed half-way included (pepper.c:74-102).
\* Functions are not printed (pepper.c:93).
AgreesWithSource ==
    status = "halted" =>
        LET m == Meant(meaning.globals)
        IN  /\ m.flow = "next"
            /\ out = m.out
            /\ m.val.type \notin {"NULL", "FUNCTION", "BUILTIN"} => LastPopped = m.val

\* Only a line that uses a name no line has given a value reads a global that was never
\* written: the name was left defined by a line that failed, or is being declared.
Given == Restrict(meaning.globals, {n \in DOMAIN meaning.globals : meaning.globals[n] # Stale})
StrayOnlyUndeclared == status = "undefined" => Meant(Given).flow = "undeclared"

\* No line executes an instruction without a defined effect, but for the strays above: the
\* code of a function that an earlier line compiled fits the machine of a later one.
NeverStuck == status = "running" => Garbage \/ Outside \/ ENABLED Step

----------------------------------------------------------------------------
\* What comments say of the machine and the session does not keep.

\* A global that was not written is null (vm.c:81).
GlobalsAreInitialised == status # "undefined"

\* A machine has room for the constants it copies from the bytecode (vm.c:86).
ConstantsFit == status # "overrun"
=============================================================================
