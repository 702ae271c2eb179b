----------------------------- MODULE MCEncoding -----------------------------
(***************************************************************************)
(* Encoding with bytes of a few values, so that operands of two bytes are  *)
(* small, and the listing of instruction_to_str().                         *)
(***************************************************************************)
EXTENDS Encoding

\* POP, RETURN_VALUE, JUMP, GET_LOCAL and CONST.
MCWidth     == [op \in 0 .. 4 |-> <<0, 0, 2, 1, 2>>[op + 1]]
MCArguments == {12}

\* instruction_to_str() with read_operands(), without the names.
RECURSIVE Listing(_)
NextByte(pos) ==      \* mutant of Listed
    [at |-> pos, op |-> bytes[pos], next |-> pos + 1,
     arg |-> IF Width[bytes[pos]] = 2 THEN ReadOperand(bytes, pos)
             ELSE IF Width[bytes[pos]] = 1 THEN bytes[pos + 1] ELSE 0]
Listed(pos) ==
    [at |-> pos, op |-> bytes[pos], next |-> pos + 1 + Width[bytes[pos]],
     arg |-> IF Width[bytes[pos]] = 2 THEN ReadOperand(bytes, pos)
             ELSE IF Width[bytes[pos]] = 1 THEN bytes[pos + 1] ELSE 0]
Listing(pos) ==
    IF pos >= size THEN << >>
    ELSE <<[op |-> Listed(pos).op, arg |-> Listed(pos).arg, at |-> pos]>> \o Listing(Listed(pos).next)

\* The listing of the bytes is the code, with operands that fit into their bytes.
Fitting(c) == c.arg % (IF Width[c.op] = 2 THEN Base * Base ELSE Base)
Lists == Listing(0) = [i \in DOMAIN code |->
                          [op |-> code[i].op, arg |-> Fitting(code[i]), at |-> code[i].at]]

\* "now we know actual position to jump to, so change operand" (compiler.c:422, 553, 601):
\* a jump whose position has been found goes there.
JumpsGoWhereMeant == \A i \in DOMAIN code : code[i].kind = "target" => Held(bytes, code[i])
=============================================================================
