----------------------------- MODULE Execution -----------------------------
(***************************************************************************)
(* Machine from its first instruction on (vm_new(), vm_run()), on any      *)
(* code, and a verifier of code: what the compiler has to see to for the   *)
(* machine, which checks nothing, to run as it is meant to.                *)
(***************************************************************************)
EXTENDS Machine

CONSTANT GlobalsSize    \* GLOBALS_SIZE, 64

ASSUME SizesAssumption ==
    /\ StackSize \in Nat \ {0} /\ FramesSize \in Nat \ {0} /\ GlobalsSize \in Nat

VARIABLE heights       \* the heights of the stack above the frame seen at each instruction

executionVars == <<machineVars, heights>>

\* vm_new()
NewMachine ==
    /\ stack = [i \in 0 .. StackSize - 1 |-> Stale] /\ sp = 0
    /\ frames = <<[fn |-> 1, ip |-> 0, base |-> 0]>>
    /\ globals = [i \in 0 .. GlobalsSize - 1 |-> Null]
    /\ out = << >>
    /\ heights = [k \in {<<1, 0>>} |-> {0}]

Height(fs, p) == p - fs[Len(fs)].base
At(fs)        == <<fs[Len(fs)].fn, fs[Len(fs)].ip>>
Seen(h, k)    == IF k \in DOMAIN h THEN h[k] ELSE {}

Run ==
    /\ Step
    /\ heights' = [k \in DOMAIN heights \cup {At(frames')} |->
           IF k = At(frames') THEN Seen(heights, k) \cup {Height(frames', sp')} ELSE heights[k]]

----------------------------------------------------------------------------
(***************************************************************************)
(* The verifier follows every path through the code, whatever the values,  *)
(* and notes the height of the stack above the frame, the slots of the     *)
(* locals included.  A point is <<function, position, height>>.            *)
(***************************************************************************)
Pushing   == {"CONST", "TRUE", "FALSE", "NULL", "GET_BUILTIN", "GET_GLOBAL", "GET_LOCAL", "ARRAY", "CALL"}
Popping   == {"POP", "SET_GLOBAL", "SET_LOCAL", "JUMP_NOT_TRUE", "RETURN_VALUE"}
Ending    == {"RETURN_VALUE", "RETURN", "HALT"}
Opcodes   == Pushing \cup Popping \cup Ending \cup {"JUMP"} \cup DOMAIN Arity

Pops(i)   == CASE i.op \in DOMAIN Arity -> Arity[i.op]
               [] i.op = "ARRAY"        -> i.arg
               [] i.op = "CALL"         -> i.arg + 1
               [] i.op \in Popping      -> 1
               [] OTHER                 -> 0
Pushes(i) == IF i.op \in Pushing \cup DOMAIN Arity THEN 1 ELSE 0
Goes(i, ip) == CASE i.op = "JUMP"          -> {i.arg}
                 [] i.op = "JUMP_NOT_TRUE" -> {i.arg, ip + 1}
                 [] i.op \in Ending        -> {}
                 [] OTHER                  -> {ip + 1}

Procedures(fs) == {f \in DOMAIN fs : fs[f].type = "FUNCTION"}
Within(fs, p)  == p[2] \in 0 .. Len(fs[p[1]].ins) - 1
Ins(fs, p)     == fs[p[1]].ins[p[2] + 1]
Entries(fs)    == {<<f, 0, fs[f].locals>> : f \in Procedures(fs)}
After(fs, p)   == LET i == Ins(fs, p)
                  IN  {<<p[1], q, p[3] - Pops(i) + Pushes(i)>> : q \in Goes(i, p[2])}

\* Instructions use temporaries of their own call only, and what there is of locals,
\* globals and constants; the program halts at the height it began with.
Allowed(fs, p) ==
    LET i == Ins(fs, p)
    IN  /\ i.op \in Opcodes /\ i.arg \in Nat
        /\ p[3] >= fs[p[1]].locals + Pops(i)
        /\ i.op \in {"GET_LOCAL", "SET_LOCAL"}   => i.arg < fs[p[1]].locals
        /\ i.op \in {"GET_GLOBAL", "SET_GLOBAL"} => i.arg < GlobalsSize
        /\ i.op = "CONST"                        => i.arg + 2 \in DOMAIN fs
        /\ i.op \in {"RETURN_VALUE", "RETURN"}   => p[1] # 1
        /\ i.op = "HALT"                         => p[1] = 1 /\ p[3] = 0

\* The points passed by code that is in order.
Certifies(P, fs) ==
    /\ Entries(fs) \subseteq P
    /\ \A p \in P : Within(fs, p) /\ Allowed(fs, p) /\ After(fs, p) \subseteq P
    /\ \A p, q \in P : p[1] = q[1] /\ p[2] = q[2] => p[3] = q[3]

\* What a compiler hands to a machine: the program and its constants.
IsLoadable(fs) ==
    /\ DOMAIN fs = 1 .. Len(fs) /\ Len(fs) \in Nat \ {0}
    /\ \A f \in DOMAIN fs : fs[f].type \in {"FUNCTION", "INT", "STRING"}
    /\ \A f \in DOMAIN fs : fs[f].type = "INT" => fs[f].int \in Int
    /\ \A f \in Procedures(fs) : Len(fs[f].ins) \in Nat /\ fs[f].locals \in Nat
    /\ fs[1].type = "FUNCTION" /\ fs[1].locals = 0

\* The points that are reached from the entries, found in as many rounds as there are
\* instructions in the longest function.
Points(fs) ==
    LET reached[n \in Nat] ==
            IF n = 0 THEN Entries(fs)
            ELSE LET P == reached[n - 1]
                 IN  P \cup UNION {After(fs, p) : p \in {q \in P : Within(fs, q)}}
    IN  reached[Max({Len(fs[f].ins) : f \in Procedures(fs)})]

Verified(fs) == IsLoadable(fs) /\ Certifies(Points(fs), fs)

\* The machine on verified code.
Launch    == status = "running" /\ Verified(functions) /\ NewMachine
Execution == Launch /\ [][Run]_executionVars

----------------------------------------------------------------------------
(***************************************************************************)
(* The calls as Activations has them: each one's variables and operands    *)
(* lie on the one stack, from the base of its frame up to the callee the   *)
(* next frame begins above.                                                *)
(***************************************************************************)
Floor(fs, c) == c.base + fs[c.fn].locals
Ceiling(fr, s, i) == IF i = Len(fr) THEN s ELSE fr[i + 1].base - 1
Activation(fs, st, c, top) ==
    [fn |-> c.fn, ip |-> c.ip,
     locals   |-> [k \in 0 .. fs[c.fn].locals - 1 |-> st[c.base + k]],
     operands |-> [k \in 1 .. top - Floor(fs, c) |-> st[Floor(fs, c) + k - 1]]]

OwnCalls == [i \in DOMAIN frames |-> Activation(functions, stack, frames[i], Ceiling(frames, sp, i))]

Apart == INSTANCE Activations WITH calls <- OwnCalls

\* On the one stack all calls share, each call has its variables and operands to itself: no
\* instruction of a function reads or writes a slot of the function that called it, save
\* its arguments and its value, and no return finds its caller's operands changed.
CallsApart == Apart!Spec

----------------------------------------------------------------------------
TypeOK ==
    /\ sp \in 0 .. StackSize
    /\ DOMAIN stack = 0 .. StackSize - 1
    /\ Len(frames) \in 1 .. FramesSize
    /\ \A i \in DOMAIN frames :
         /\ frames[i].fn \in DOMAIN functions
         /\ functions[frames[i].fn].type = "FUNCTION"
         /\ frames[i].ip \in 0 .. Len(functions[frames[i].fn].ins) - 1
         /\ i > 1 => frames[i].base \in frames[i - 1].base + 1 .. sp
    /\ status \in {"running", "halted", "rejected"}

\* The stack has one height at an instruction, on whatever path control gets there, and a
\* program that ends has taken back all it pushed: every jump a loop, an if, a break or a
\* continue is compiled to leaves as many temporaries as the code around it expects.
HeightFixed ==
    /\ \A k \in DOMAIN heights : Cardinality(heights[k]) = 1
    /\ status = "halted" => sp = 0

\* What a loop pops before its next turn is a temporary of its own, null or the value of
\* the turn before (compiler.c:535): only the compilers of loops emit a pop after a jump.
PopsLastTurn ==
    status = "running" /\ Opcode = "POP" /\ Frame.ip > 0 /\ Code[Frame.ip].op = "JUMP_NOT_TRUE"
        => sp > Frame.base + functions[Frame.fn].locals

\* No instruction takes a local variable, or a slot of the caller, for a temporary.
TakesTemporaries ==
    status = "running" =>
        sp - Pops(Code[Frame.ip + 1]) >= Frame.base + functions[Frame.fn].locals
=============================================================================
