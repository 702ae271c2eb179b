------------------------------ MODULE Encoding ------------------------------
(***************************************************************************)
(* The bytes of a scope's code (opcode.c, compiler.c): how the compiler    *)
(* appends instructions to a buffer that grows, takes the last one back or *)
(* replaces it, patches the operands of jumps, and walks over the bytes of *)
(* a loop's body to find the jumps of its breaks and continues.            *)
(*                                                                         *)
(* A position is an offset in bytes.  An operand is one byte or two, the   *)
(* higher one first.  "code" keeps, beside the bytes, the instructions the *)
(* compiler means them to be; nothing the compiler does depends on it.     *)
(* The operations come in every order in which compile_expression() and    *)
(* compile_statement() can call them, and in some more.                    *)
(***************************************************************************)
EXTENDS Integers, Sequences

CONSTANTS
    Base,                \* values of a byte, 256
    Width,               \* opcode -> bytes of its operand, none if zero
    JUMP, POP, RETURN_VALUE,
    BreakMark,           \* JUMP_PLACEHOLDER_BREAK, 9999, also the placeholder of other jumps
    ContinueMark,        \* JUMP_PLACEHOLDER_CONTINUE, 9998
    InitialCap,          \* bytes of a new buffer, 2048 or 1024
    Arguments,           \* operands of instructions that are no jumps
    MaxSize              \* bound: bytes of code

Ops == DOMAIN Width

ASSUME EncodingAssumption ==
    /\ Base \in Nat /\ Base > 1 /\ InitialCap \in Nat /\ InitialCap > 3 /\ MaxSize \in Nat
    /\ Ops \subseteq 0 .. Base - 1 /\ Width \in [Ops -> 0 .. 2]
    /\ {JUMP, POP, RETURN_VALUE} \subseteq Ops
    /\ Width[JUMP] = 2 /\ Width[POP] = 0 /\ Width[RETURN_VALUE] = 0
    /\ BreakMark \in Nat /\ ContinueMark \in Nat /\ ContinueMark < BreakMark
    /\ BreakMark < Base * Base /\ MaxSize < Base * Base
    /\ Arguments \subseteq Nat

VARIABLES
    bytes,         \* instructions->bytes
    size, cap,     \* instructions->size and cap
    last, previous,  \* last_instruction and previous_instruction: [op, pos]
    walk,          \* the walk of compiler_change_jump_placeholders(), or NoWalk
    code           \* the instructions: [op, arg, at, kind]

vars == <<bytes, size, cap, last, previous, walk, code>>

Kinds   == {"plain", "break", "continue", "forward", "target"}
NoWalk  == [at |-> 0, end |-> 0, mark |-> 0, value |-> 0]
Walking == walk.end > 0

Init ==
    /\ bytes = [i \in 0 .. InitialCap - 1 |-> 0] /\ size = 0 /\ cap = InitialCap
    /\ last = [op |-> POP, pos |-> 0] /\ previous = last      \* any: not read while the size is 0
    /\ walk = NoWalk
    /\ code = << >>

----------------------------------------------------------------------------
Uncast(x) == x      \* mutant of Low
Low(x)    == x % Base
High(x)   == (x \div Base) % Base

\* The operand x written behind the opcode at pos.
LowFirst(b, pos, width, x) ==      \* mutant of Written
    [i \in DOMAIN b |->
        IF width = 2 /\ i = pos + 1 THEN Low(x)
        ELSE IF width > 0 /\ i = pos + width THEN High(x) ELSE b[i]]
Written(b, pos, width, x) ==
    [i \in DOMAIN b |->
        IF width = 2 /\ i = pos + 1 THEN High(x)
        ELSE IF width > 0 /\ i = pos + width THEN Low(x) ELSE b[i]]

\* read_uint16() behind the opcode at pos.
ReadOperand(b, pos) == b[pos + 1] * Base + b[pos + 2]

\* The buffer doubles when three more bytes might not fit.
GrowsLate(w) == IF size + (IF w > 0 THEN 3 ELSE 0) > cap THEN 2 * cap ELSE cap      \* mutant of Grown
Grown(w)     == IF size + (IF w > 0 THEN 3 ELSE 0) >= cap THEN 2 * cap ELSE cap

\* compiler_emit_va()
Emit(op, arg, kind) ==
    /\ ~Walking /\ size + 1 + Width[op] <= MaxSize
    /\ cap' = Grown(Width[op])
    /\ bytes' = LET b == [i \in 0 .. cap' - 1 |-> IF i = size THEN op
                                                  ELSE IF i < cap THEN bytes[i] ELSE 0]
                IN  Written(b, size, Width[op], arg)
    /\ size' = size + 1 + Width[op]
    /\ last' = [op |-> op, pos |-> size] /\ previous' = last
    /\ code' = Append(code, [op |-> op, arg |-> arg, at |-> size, kind |-> kind])
    /\ UNCHANGED walk

EmitPlain == \E op \in Ops \ {JUMP} : \E arg \in IF Width[op] = 0 THEN {0} ELSE Arguments :
                 Emit(op, arg, "plain")
EmitJump ==
    \/ Emit(JUMP, BreakMark, "break")                   \* break
    \/ Emit(JUMP, ContinueMark, "continue")             \* continue
    \/ Emit(JUMP, BreakMark, "forward")                 \* over the alternative of an if
    \/ \E i \in DOMAIN code : Emit(JUMP, code[i].at, "target")      \* back to the condition

\* compiler_remove_last_instruction(), after compiler_last_instruction_is(c, OPCODE_POP).
\* Between two of them, and after a replacement, something is emitted: an if or a loop is
\* followed by the POP of its statement, or by the instruction that uses its value.
RemoveOnly ==      \* mutant of RemoveLast
    /\ ~Walking /\ size > 0 /\ last.op = POP /\ previous.pos < last.pos
    /\ size' = last.pos
    /\ code' = SubSeq(code, 1, Len(code) - 1)
    /\ UNCHANGED <<bytes, cap, last, previous, walk>>
RemoveLast ==
    /\ ~Walking /\ size > 0 /\ last.op = POP /\ previous.pos < last.pos
    /\ size' = last.pos /\ last' = previous
    /\ code' = SubSeq(code, 1, Len(code) - 1)
    /\ UNCHANGED <<bytes, cap, previous, walk>>

\* compiler_replace_last_instruction() at the end of a function, after the same test.
ReplaceLast ==
    /\ ~Walking /\ size > 0 /\ last.op = POP
    /\ bytes' = [bytes EXCEPT ![last.pos] = RETURN_VALUE]
    /\ last' = [last EXCEPT !.op = RETURN_VALUE] /\ previous' = last
    /\ code' = [code EXCEPT ![Len(code)].op = RETURN_VALUE]
    /\ UNCHANGED <<size, cap, walk>>

\* compiler_change_operand() of a jump over what has been compiled since: it goes here.
ChangeOperand ==
    /\ ~Walking
    /\ \E i \in DOMAIN code :
         /\ code[i].kind = "forward"
         /\ bytes' = Written(bytes, code[i].at, Width[bytes[code[i].at]], size)
         /\ code' = [code EXCEPT ![i].arg = size, ![i].kind = "target"]
    /\ UNCHANGED <<size, cap, last, previous, walk>>

\* compiler_change_jump_placeholders() begins at an instruction; the jumps from there on
\* that are not those of a break or a continue have their targets.
StartWalk ==
    /\ ~Walking
    /\ \E i \in DOMAIN code, end \in 1 .. size, mark \in {BreakMark, ContinueMark},
          value \in {size} \cup {code[j].at : j \in DOMAIN code} :
         /\ code[i].at < end
         /\ \A j \in DOMAIN code : code[j].at >= code[i].at => code[j].kind # "forward"
         /\ walk' = [at |-> code[i].at, end |-> end, mark |-> mark, value |-> value]
    /\ UNCHANGED <<bytes, size, cap, last, previous, code>>

Found == bytes[walk.at] = JUMP /\ ReadOperand(bytes, walk.at) = walk.mark
Meant(k) == k = (IF walk.mark = BreakMark THEN "break" ELSE "continue")
SkipsOperand(pos) == pos + Width[bytes[pos]]      \* mutant of Following
Following(pos)    == pos + 1 + Width[bytes[pos]]

WalkOn ==
    /\ Walking
    /\ bytes' = IF Found THEN Written(bytes, walk.at, 2, walk.value) ELSE bytes
    /\ walk' = IF Following(walk.at) < walk.end THEN [walk EXCEPT !.at = Following(@)] ELSE NoWalk
    /\ code' = [i \in DOMAIN code |->
                   IF code[i].at = walk.at /\ Meant(code[i].kind)
                   THEN [code[i] EXCEPT !.arg = walk.value, !.kind = "target"] ELSE code[i]]
    /\ UNCHANGED <<size, cap, last, previous>>

Next == EmitPlain \/ EmitJump \/ RemoveLast \/ ReplaceLast \/ ChangeOperand \/ StartWalk \/ WalkOn
Spec == Init /\ [][Next]_vars

----------------------------------------------------------------------------
End(c) == c.at + 1 + Width[c.op]

TypeOK ==
    /\ cap \in Nat /\ bytes \in [0 .. cap - 1 -> 0 .. Base - 1] /\ size \in Nat
    /\ last \in [op : Ops, pos : Nat] /\ previous \in [op : Ops, pos : Nat]
    /\ walk \in [at : Nat, end : Nat, mark : Nat, value : Nat]
    /\ code \in Seq([op : Ops, arg : Nat, at : Nat, kind : Kinds])

\* No instruction is written beyond the end of the buffer, although one without an operand
\* makes it grow only when it is full to the last byte (compiler.c:145).
Fits == size <= cap /\ size <= MaxSize

\* The instructions lie one behind the other in the bytes up to the size, each with its
\* opcode and its operand: whatever is emitted, taken back and patched, the machine
\* fetches what the compiler meant (vm.c:541), and only breaks and continues are patched
\* with the ends of a loop.
Contiguous ==
    /\ code = << >> => size = 0
    /\ code # << >> => code[1].at = 0 /\ End(code[Len(code)]) = size
    /\ \A i \in 1 .. Len(code) - 1 : code[i + 1].at = End(code[i])
Held(b, c) ==
    /\ b[c.at] = c.op
    /\ Width[c.op] = 2 => b[c.at + 1] = High(c.arg)
    /\ Width[c.op] > 0 => b[c.at + Width[c.op]] = Low(c.arg)
Encoded == Contiguous /\ \A i \in DOMAIN code : Held(bytes, code[i])

\* The instruction taken for the last one, which a removal cuts off, is the last one, and
\* after a removal again: its previous_instruction is never that of an earlier time.
LastTrue == code # << >> => last = [op |-> code[Len(code)].op, pos |-> code[Len(code)].at]

\* The walk over a loop's body reads opcodes, never the bytes of an operand.
Aligned == Walking => walk.end <= size /\ \E i \in DOMAIN code : code[i].at = walk.at
=============================================================================
