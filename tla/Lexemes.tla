------------------------------ MODULE Lexemes ------------------------------
(***************************************************************************)
(* The reference for Lexer: a text is cut into the longest lexemes there   *)
(* are.                                                                    *)
(***************************************************************************)
EXTENDS Lexer

Line == SubSeq(buffer, 1, length)

AllIn(w, S)  == \A i \in DOMAIN w : w[i] \in S
IsString(w)  == /\ Len(w) > 1 /\ w[1] = "\"" /\ w[Len(w)] = "\"" /\ w[Len(w) - 1] # "\\"
                /\ \A i \in 2 .. Len(w) - 1 : w[i] = "\"" => w[i - 1] = "\\"
IsComment(w) == Len(w) > 1 /\ w[1] = "/" /\ w[2] = "/" /\ \A i \in DOMAIN w : w[i] # "\n"
IsLexeme(w)  == \/ AllIn(w, Space) \/ IsComment(w) \/ IsString(w) \/ AllIn(w, Digits)
                \/ w[1] \in Letters /\ AllIn(w, Letters \cup Digits)
                \/ w \in Double \/ Len(w) = 1
IsBlank(w)   == AllIn(w, Space) \/ IsComment(w)
KindOf(w) == CASE w \in Keywords                              -> w
               [] w \notin Keywords /\ w[1] \in Letters       -> IDENT
               [] w \notin Keywords /\ w[1] \in Digits        -> INT
               [] IsString(w)                                 -> STRING_
               [] w \in Double \/ (Len(w) = 1 /\ w[1] \in Single) -> w
               [] OTHER                                       -> ILLEGAL

\* The lexemes of s from each of its positions on: the longest one there, then those behind
\* it, without the blank ones.
Longest(s, i) == Max({j \in i .. Len(s) : IsLexeme(SubSeq(s, i, j))})
Lexemes(s) ==
    LET cut[i \in 1 .. Len(s) + 1] ==
            IF i = Len(s) + 1 THEN << >>
            ELSE LET j == Longest(s, i)
                     w == SubSeq(s, i, j)
                 IN  (IF IsBlank(w) THEN << >> ELSE <<[from |-> i, to |-> j, type |-> KindOf(w)]>>)
                     \o cut[j + 1]
    IN  cut

\* Lines for which the lexer has a token for each lexeme: no string is left open, no word is
\* too long for a token and no | or & stands alone.
Fits(w) == /\ w \notin {<<"\"">>, <<"|">>, <<"&">>}
           /\ AllIn(w, Letters \cup Digits) => Len(w) < MaxIdent
Closed  == LET all == Lexemes(Line)[1]
           IN  \A i \in DOMAIN all : Fits(SubSeq(Line, all[i].from, all[i].to))

\* The parser is handed exactly the longest lexemes of the line, comments left out, each
\* with its own type, and then the end of the line (lexer.c:52).
LongestLexemes ==
    current.type = END /\ taken # << >> /\ Closed =>
        LET all == Lexemes(Line)[1]
        IN  /\ Len(taken) = Len(all) + 1
            /\ \A i \in DOMAIN all : /\ taken[i].from = all[i].from /\ taken[i].to = all[i].to
                                     /\ taken[i].type = all[i].type
=============================================================================
