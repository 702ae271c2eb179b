------------------------------ MODULE Parsing ------------------------------
(***************************************************************************)
(* parse_program() on one program after the other: a step is one turn of   *)
(* its loop, which parses a statement and goes on after the semicolon      *)
(* behind it, or after the token it got stuck at.                          *)
(***************************************************************************)
EXTENDS Parser, Grammar

CONSTANTS
    Trees,         \* programs given as sequences of syntax trees
    Inputs         \* programs given as sequences of tokens

VARIABLES
    source,        \* the tokens
    tree,          \* what they were written from, or Unknown
    p,             \* the parser
    program,       \* the statements parsed so far
    turns          \* how many turns the loop has made

vars == <<source, tree, p, program, turns>>

Unknown == <<[stmt |-> "unknown"]>>

Init ==
    /\ \/ tree \in Trees /\ source = WriteProgram(tree)
       \/ tree = Unknown /\ source \in Inputs
    /\ p = NewParser(source)
    /\ program = << >>
    /\ turns = 0

KeepStatement ==
    LET s == ParseStatement(p)
    IN  /\ Current(p) # EOF
        /\ s.ok
        /\ p' = NextToken(IF Peek(s.p) = ";" THEN NextToken(s.p) ELSE s.p)
        /\ program' = Append(program, s.s)
        /\ turns' = turns + 1
        /\ UNCHANGED <<source, tree>>

SkipStays ==      \* mutant of SkipStatement
    LET s == ParseStatement(p)
    IN  /\ Current(p) # EOF
        /\ ~s.ok
        /\ p' = s.p
        /\ turns' = turns + 1
        /\ UNCHANGED <<source, tree, program>>
SkipStatement ==
    LET s == ParseStatement(p)
    IN  /\ Current(p) # EOF
        /\ ~s.ok
        /\ p' = NextToken(s.p)
        /\ turns' = turns + 1
        /\ UNCHANGED <<source, tree, program>>

Next == KeepStatement \/ SkipStatement

Spec == Init /\ [][Next]_vars

----------------------------------------------------------------------------
Done  == Current(p) = EOF
Clean == Done /\ p.status = "parsing" /\ p.errors = 0

TypeOK ==
    /\ p.at \in 1 .. Len(source) + 1 /\ p.errors \in Nat /\ p.undefined \in BOOLEAN
    /\ p.status \in {"parsing", "crashed"}
    /\ \A i \in DOMAIN program : program[i].stmt \in {"expr", "let", "return", "break", "continue"}

\* Every program that is written as the grammar has it is parsed, without an error, to the
\* tree it was written from: the table of precedences and the way the parsing functions
\* call each other give each operand to the operator it belongs to (parser.c:33, 676).
RoundTrip == tree # Unknown /\ Done => p.errors = 0 /\ program = tree

\* The semicolons of the source stand where an operand has ended or a statement begins.
Endings == Names \cup DOMAIN Numerals \cup Strings
           \cup {")", "]", "{", "}", ";", "true", "false", "return", "break", "continue"}
SemicolonsEnd == \A i \in DOMAIN source :
    source[i] = ";" => i = 1 \/ source[i - 1] \in Endings

\* No token is dropped or taken twice without an error: apart from brackets and semicolons
\* a tree that is parsed without an error is written with exactly the tokens of the source.
Bare(ts)  == SelectSeq(ts, LAMBDA t : t \notin {"(", ")", "{", "}", ";"})
WholeTree == Clean /\ SemicolonsEnd => Bare(WriteProgram(program)) = Bare(source)

\* Whatever memory the parser mishandles or pointer it misuses on the way out of an error,
\* it has reported the error first, so that nothing of the tree is compiled (pepper.c:68).
\* A semicolon in the place of an operand is the exception: it is no error.
FaultsReported == (p.undefined \/ p.status = "crashed") /\ SemicolonsEnd => p.errors > 0

\* After an error the parser finds its way at the next semicolon: a let that follows it is
\* parsed as such.  (Not inside the header of a for or an open brace, where a semicolon is
\* not the end of a statement.)
Sentinel(ts) == Len(ts) > 3 /\ SubSeq(ts, Len(ts) - 2, Len(ts) - 1) = <<";", "let">>
Recovers ==
    Done /\ Sentinel(source) /\ Range(source) \cap {"{", "for"} = {} =>
        \/ p.status = "crashed"
        \/ program # << >> /\ Last(program) = Let(Last(source), Absent)

\* The loop ends on every input, after as many turns as there are tokens at most: a turn
\* that is stuck at a token it cannot use or has skipped to a semicolon leaves it behind.
EachTurnConsumes == turns < p.at

----------------------------------------------------------------------------
\* What the code or its comments say and the parser does not keep.

\* An error never makes the parser look at the type of NULL: the parser skips a
\* token and goes on (parser.c:839).
NeverCrashes == p.status # "crashed"

\* The names of parameters are names (parser.c:639).
ParametersAreNames ==
    Clean => \A i \in DOMAIN program : \A e \in Nodes(program[i]) :
        "params" \in DOMAIN e => Range(e.params) \subseteq Names
=============================================================================
