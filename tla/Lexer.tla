------------------------------- MODULE Lexer -------------------------------
(***************************************************************************)
(* The lexer (lexer.c), fed with the lines of the REPL: fgets() writes     *)
(* each line over the one before, in one buffer (pepper.c), a new lexer    *)
(* and a new parser start on it, and the parser takes one token after the  *)
(* other, always one ahead of the one it stands on.                        *)
(*                                                                         *)
(* Characters are strings of length one, a text is a sequence of them.     *)
(***************************************************************************)
EXTENDS Integers, Sequences, FiniteSets, FiniteSetsExt

CONSTANTS
    Characters,        \* what lines are made of
    Letters, Digits,   \* the characters is_letter() and isdigit() accept
    Keywords,          \* the texts get_ident() knows
    MaxIdent,          \* MAX_IDENT_LENGTH, 64
    Histories          \* the lines of a session, as sequences of texts

NUL   == "NUL"
Space == {" ", "\n"}

\* The tokens of one and of two characters.  The type of any other token but a keyword is
\* a word of its own.
Single  == {";", ":", "(", ")", ",", "+", "-", "*", "{", "}", "[", "]", "%", "=", "!", "/", "<", ">"}
Double  == {<<"=", "=">>, <<"!", "=">>, <<"<", "=">>, <<">", "=">>, <<"|", "|">>, <<"&", "&">>}
ILLEGAL == <<"ILLEGAL">>
END     == <<"EOF">>
IDENT   == <<"IDENT">>
INT     == <<"INT">>
STRING_ == <<"STRING">>

Symbols == Space \cup Single \cup {"|", "&", "\"", "\\"}
Names   == {"ILLEGAL", "EOF", "IDENT", "INT", "STRING", NUL}

ASSUME MaxIdentAssumption == MaxIdent \in Nat /\ MaxIdent > 1
ASSUME CharacterAssumption ==
    /\ Letters \cup Digits \subseteq Characters \ Symbols /\ Letters \cap Digits = {}
    /\ Characters \cap Names = {}
    /\ Keywords \subseteq Seq(Letters \cup Digits)
    /\ \A h \in Histories : h \in Seq(Seq(Characters))

VARIABLES
    lines,         \* the lines still to come
    buffer,        \* input[] of repl(): what follows is zero
    length,        \* number of characters of the current line
    lexer,         \* struct lexer: the position of the next character, line, column
    current,       \* current_token: its type, the first and the last character read for it,
                   \* line and column, and where its start and end point to
    next,          \* next_token
    taken          \* the tokens the parser has stood on, in this line

vars == <<lines, buffer, length, lexer, current, next, taken>>

Char(b, i)  == IF i <= Len(b) THEN b[i] ELSE NUL
Pair(b, i)  == <<Char(b, i), Char(b, i + 1)>>
From(b, i)  == i .. Max({i, Len(b) + 1})      \* the positions from i on, one beyond b included

\* A comment that begins at i or later goes on at j: it runs up to a newline or the end.
CommentedOn(b, i, j) == \E k \in i .. j : /\ Pair(b, k) = <<"/", "/">>      \* mutant of Commented
                                          /\ \A m \in k .. j : Char(b, m) # "\n" /\ m <= Len(b)
Commented(b, i, j)   == \E k \in i .. j : /\ Pair(b, k) = <<"/", "/">>
                                          /\ \A m \in k .. j : Char(b, m) \notin {"\n", NUL}

\* Where the next token begins: space and comments are skipped.
TokenStart(b, i) == Min({j \in From(b, i) : Char(b, j) \notin Space /\ ~Commented(b, i, j)})

\* The quote that ends a string whose first character is at i: not one behind a backslash.
AnyQuote(b, i)  == Min({j \in From(b, i) : Char(b, j) \in {"\"", NUL}})      \* mutant of StringEnd
StringEnd(b, i) == Min({j \in From(b, i) : \/ Char(b, j) = NUL
                                           \/ Char(b, j) = "\"" /\ Char(b, j - 1) # "\\"})

\* A word or a number of at most MAX_IDENT_LENGTH - 1 characters: the one after it has been
\* read as well and is given back.
Leave(b, i, S)         == Min({j \in From(b, i) : Char(b, j) \notin S})
RunAndOneMore(b, i, S) == Min({Leave(b, i, S), i + MaxIdent - 2})      \* mutant of RunEnd
RunEnd(b, i, S)        == Min({Leave(b, i, S) - 1, i + MaxIdent - 2})

\* The last character of the token that begins at i.
TokenEnd(b, i) ==
    CASE Pair(b, i) \in Double    -> i + 1
      [] Char(b, i) = "\""        -> StringEnd(b, i + 1)
      [] Char(b, i) \in Letters   -> RunEnd(b, i, Letters \cup Digits)
      [] Char(b, i) \in Digits    -> RunEnd(b, i, Digits)
      [] OTHER                    -> i

\* The type of the token at i .. j.  A | or & alone assigns none: the old one stays.
Text(b, i, j) == [k \in 1 .. j - i + 1 |-> Char(b, i + k - 1)]
TypeOf(b, i, j, old) ==
    LET text == Text(b, i, j)
        c    == Char(b, i)
    IN  CASE text \in Double \cup Keywords                -> text
          [] text \notin Double /\ c \in Single           -> <<c>>
          [] text \notin Double /\ c \in {"|", "&"}       -> old
          [] c = "\""                                     -> STRING_
          [] text \notin Keywords /\ c \in Letters        -> IDENT
          [] text \notin Keywords /\ c \in Digits         -> INT
          [] c = NUL                                      -> END
          [] OTHER                                        -> ILLEGAL

\* cur_linepos, from its value at l to the character at from.
Newlines(b, i, j)      == {k \in i .. j : Char(b, k) = "\n"}
Backwards(b, l, from)  == l.column + l.pos - from + 1      \* mutant of Column
NeverReset(b, l, from) == l.column + from - l.pos + 1      \* mutant of Column
Column(b, l, from) ==
    LET newlines == Newlines(b, l.pos, from - 1)
    IN  IF newlines = {} THEN l.column + from - l.pos + 1 ELSE from - Max(newlines)

\* gettoken(), into the struct of an old token: what is not assigned stays.
GetToken(b, l, old) ==
    LET from   == TokenStart(b, l.pos)
        to     == TokenEnd(b, from)
        line   == l.line + Cardinality(Newlines(b, l.pos, from - 1))
        column == Column(b, l, from)
        body   == IF Char(b, from) = "\"" THEN [start |-> from + 1, end |-> to] ELSE old.body
    IN  [l |-> [pos |-> to + 1, line |-> line, column |-> column + to - from],
         t |-> [type |-> TypeOf(b, from, to, old.type), from |-> from, to |-> to,
                line |-> line, column |-> column, body |-> body]]

----------------------------------------------------------------------------
NoToken  == [type |-> ILLEGAL, from |-> 0, to |-> 0, line |-> 0, column |-> 0,
             body |-> [start |-> 0, end |-> 0]]
NewLexer == [pos |-> 1, line |-> 1, column |-> 0]

Init ==
    /\ lines \in Histories
    /\ buffer = << >> /\ length = 0
    /\ lexer = NewLexer
    /\ current = [NoToken EXCEPT !.type = END] /\ next = NoToken
    /\ taken = << >>

\* The line before is done with: fgets(), new_lexer() and new_parser().
ReadLine ==
    /\ lines # << >> /\ current.type = END
    /\ lines' = Tail(lines)
    /\ length' = Len(Head(lines))
    /\ buffer' = Head(lines) \o <<NUL>> \o SubSeq(buffer, Len(Head(lines)) + 2, Len(buffer))
    /\ LET first  == GetToken(buffer', NewLexer, NoToken)
           second == GetToken(buffer', first.l, NoToken)
       IN  current' = first.t /\ next' = second.t /\ lexer' = second.l /\ taken' = <<first.t>>

\* next_token()
NextToken ==
    /\ current.type # END
    /\ current' = next
    /\ taken' = Append(taken, next)
    /\ IF next.type = END THEN UNCHANGED <<lexer, next>>
       ELSE LET r == GetToken(buffer, lexer, next)
            IN  next' = r.t /\ lexer' = r.l
    /\ UNCHANGED <<lines, buffer, length>>

Next == ReadLine \/ NextToken
Spec == Init /\ [][Next]_vars

----------------------------------------------------------------------------
Types  == {ILLEGAL, END, IDENT, INT, STRING_} \cup Keywords \cup Double \cup {<<c>> : c \in Single}
IsToken(t) == /\ t.type \in Types /\ t.from \in 0 .. Len(buffer) + 1
              /\ t.to \in t.from .. Len(buffer) + 1 /\ t.line \in Nat /\ t.column \in Nat
TypeOK ==
    /\ lexer.pos \in 1 .. Len(buffer) + 2
    /\ IsToken(current) /\ IsToken(next) /\ length <= Len(buffer)

\* No string the parser has stood on runs over the end of the line.
Open(t) == t.type = STRING_ /\ t.to > length
Shut    == \A i \in DOMAIN taken : ~Open(taken[i])

\* The parser never stands on a token of an earlier line, which the buffer still holds
\* behind the end of a shorter one, unless a string is left open (pepper.c:63).
ReadsOwnLine == Shut => current.from <= length + 1

\* A token knows the line and the column it begins at (lexer.c:73), as long as no string
\* before it in the line contains a newline.
InPlace(t) ==
    LET above == Newlines(buffer, 1, t.from - 1)
    IN  t.line = 1 + Cardinality(above) /\ t.column = t.from - Max(above \cup {0})
PositionsTrue == Shut /\ taken # << >> => InPlace(current)
Folded(t)     == t.type = STRING_ /\ Newlines(buffer, t.from, t.to) # {}
PositionsTrueOnOneLine ==
    taken # << >> /\ (\A i \in DOMAIN taken : ~Folded(taken[i])) => InPlace(current)

\* parse_string_literal(): the characters it stands on while it copies a string, escapes
\* being two characters long.
Step(b, i) == IF b[i] = "\\" /\ Char(b, i + 1) \in {"n", "t", "\""} THEN i + 2 ELSE i + 1
Walk(b, start, end) ==
    {i \in start .. end + 1 : \A R \in SUBSET (start .. end + 1) :
        start \in R /\ (\A j \in R : j < end => Step(b, j) \in R) => i \in R}

\* The escapes of a string are read up to its end, where the loop stops, never over it
\* (parser.c:226), those of a string whose token a lone | or & repeats included.
LiteralsStop ==
    current.type = STRING_ =>
        \A i \in Walk(buffer, current.body.start, current.body.end) : i <= current.body.end
=============================================================================
