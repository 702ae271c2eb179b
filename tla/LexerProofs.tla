----------------------------- MODULE LexerProofs -----------------------------
(***************************************************************************)
(* Proofs about Lexer for lines of any length over any characters, in any  *)
(* order: it stays in its buffer and in its line, its tokens know where    *)
(* they are, what copies a string stops at its end, and a line is cut      *)
(* into its longest lexemes.                                               *)
(***************************************************************************)
EXTENDS Lexemes, FiniteSetTheorems, SequenceTheorems, WellFoundedInduction, TLAPS

----------------------------------------------------------------------------
(***************************************************************************)
(* Least and greatest numbers                                              *)
(***************************************************************************)

LEMMA MinOK == ASSUME NEW S \in SUBSET Nat, S # {}
               PROVE  Min(S) \in S /\ \A j \in S : Min(S) <= j
  <1> DEFINE R == OpToRel(<, Nat)
  <1>1. IsWellFoundedOn(R, Nat)
    BY NatLessThanWellFounded
  <1>2. R = {p \in Nat \X Nat : p[1] < p[2]}
    BY DEF OpToRel
  <1> HIDE DEF R
  <1>3. \A x, y \in Nat : <<x, y>> \in R <=> x < y
    BY <1>2
  <1>4. PICK i \in S : \A j \in S : ~ (<<j, i>> \in R)
    BY <1>1, WFMin
  <1>5. \A j \in S : ~ (j < i) /\ i \in Nat /\ j \in Nat
    BY <1>3, <1>4
  <1>6. \E i_1 \in S : \A j \in S : i_1 <= j
    BY <1>5
  <1> QED BY <1>6 DEF Min

LEMMA MaxOK == ASSUME NEW n \in Nat, NEW S \in SUBSET (0 .. n), S # {}
               PROVE  Max(S) \in S /\ \A j \in S : j <= Max(S)
  <1> DEFINE T == {m \in Nat : n - m \in S}
  <1>1. PICK x \in S : TRUE
    OBVIOUS
  <1>2. T \in SUBSET Nat /\ n - x \in T
    BY <1>1
  <1>3. Min(T) \in T /\ \A j \in T : Min(T) <= j
    BY <1>2, MinOK
  <1>4. \A y \in S : y \in 0 .. n /\ n - y \in T
    OBVIOUS
  <1>5. n - Min(T) \in S /\ Min(T) \in Nat
    BY <1>3
  <1> HIDE DEF T
  <1>6. \A y \in S : n - Min(T) >= y
    BY <1>3, <1>4, <1>5
  <1>7. \E z \in S : \A y \in S : z >= y
    BY <1>5, <1>6
  <1>8. Max(S) \in S /\ \A y \in S : Max(S) >= y
    BY <1>7 DEF Max
  <1> QED BY <1>8

----------------------------------------------------------------------------
(***************************************************************************)
(* Characters                                                              *)
(***************************************************************************)

\* What fgets() leaves behind: characters, the last one being the end of the longest line.
Filled(b) == b \in Seq(Characters \cup {NUL}) /\ b # << >> /\ b[Len(b)] = NUL

LEMMA CharOK ==
    ASSUME NEW b, Filled(b)
    PROVE  /\ Len(b) \in Nat \ {0} /\ Char(b, Len(b)) = NUL
           /\ \A i \in Nat : i > Len(b) => Char(b, i) = NUL
           /\ \A i \in 1 .. Len(b) : Char(b, i) = b[i]
  BY DEF Filled, Char

LEMMA FromOK == ASSUME NEW b, Filled(b), NEW i \in 1 .. Len(b) + 1
                PROVE  From(b, i) = i .. Len(b) + 1
  <1> DEFINE S == {i, Len(b) + 1}
  <1>1. Len(b) + 1 \in Nat /\ S \in SUBSET (0 .. Len(b) + 1) /\ S # {} /\ S = {i, Len(b) + 1}
    BY CharOK
  <1> HIDE DEF S
  <1>2. Max(S) \in S /\ \A j \in S : j <= Max(S)
    BY <1>1, MaxOK
  <1>3. Max(S) = Len(b) + 1
    BY <1>1, <1>2
  <1> QED BY <1>1, <1>3 DEF From

\* The first position from i on with a property that some position has.
LEMMA FirstOK ==
    ASSUME NEW b, Filled(b), NEW i \in 1 .. Len(b) + 1, NEW P, NEW k \in P,
           P \in SUBSET From(b, i)
    PROVE  /\ Min(P) \in P /\ Min(P) \in i .. k /\ Min(P) \in i .. Len(b) + 1
           /\ \A j \in i .. Min(P) - 1 : j \notin P
  <1>1. From(b, i) = i .. Len(b) + 1 /\ Len(b) \in Nat
    BY FromOK, CharOK
  <1>2. P \in SUBSET Nat /\ P # {}
    BY <1>1
  <1>3. Min(P) \in P /\ \A j \in P : Min(P) <= j
    BY <1>2, MinOK
  <1>4. k \in i .. Len(b) + 1 /\ Min(P) \in i .. Len(b) + 1 /\ Min(P) <= k
    BY <1>1, <1>3
  <1>5. \A j \in i .. Min(P) - 1 : j \notin P
    <2> SUFFICES ASSUME NEW j \in i .. Min(P) - 1, j \in P PROVE FALSE
      OBVIOUS
    <2> QED BY <1>3, <1>4
  <1> QED BY <1>3, <1>4, <1>5

\* Letters, digits and what a token begins with are told apart, from each other and from
\* space and the end.
LEMMA Apart ==
    /\ \A c \in Letters \cup Digits :
          c \notin Single \cup Space /\ c \notin {"|", "&", "\"", "\\", NUL, "EOF"}
    /\ \A c \in Letters : c \notin Digits
  BY CharacterAssumption DEF Symbols, Names

LEMMA StartOK ==
    ASSUME NEW b, Filled(b), NEW i \in 1 .. Len(b) + 1
    PROVE  /\ TokenStart(b, i) \in i .. Len(b) + 1
           /\ Char(b, TokenStart(b, i)) \notin Space
           /\ \A j \in i .. TokenStart(b, i) - 1 : Char(b, j) # NUL
  <1> DEFINE P == {j \in From(b, i) : Char(b, j) \notin Space /\ ~Commented(b, i, j)}
             k == Len(b) + 1
  <1>1. From(b, i) = i .. k /\ Len(b) \in Nat /\ Char(b, k) = NUL
    BY FromOK, CharOK
  <1>2. ~Commented(b, i, k)
    BY <1>1 DEF Commented
  <1>3. NUL \notin Space /\ \A j \in i .. k : Commented(b, i, j) => Char(b, j) # NUL
    <2>1. ASSUME NEW j \in i .. k, Commented(b, i, j) PROVE Char(b, j) # NUL
      <3>1. PICK m \in i .. j : \A n \in m .. j : Char(b, n) \notin {"\n", NUL}
        BY <2>1 DEF Commented
      <3>2. j \in m .. j
        BY <1>1
      <3> QED BY <3>1, <3>2
    <2> QED BY <2>1 DEF Space, NUL
  <1>4. k \in From(b, i) /\ \A j \in i .. k : j \in From(b, i)
    BY <1>1
  <1>5. k \in P /\ P \in SUBSET From(b, i)
    BY <1>1, <1>2, <1>3, <1>4
  <1>6. /\ \A j \in i .. k : j \notin P => Char(b, j) # NUL
        /\ \A j \in P : Char(b, j) \notin Space
    BY <1>3, <1>4
  <1>7. PICK s : s = Min(P) /\ s = TokenStart(b, i)
    BY DEF TokenStart
  <1> HIDE DEF P
  <1>8. s \in P /\ s \in i .. k /\ \A j \in i .. s - 1 : j \notin P
    <2>1. Min(P) \in P /\ Min(P) \in i .. k /\ \A j \in i .. Min(P) - 1 : j \notin P
      BY <1>5, FirstOK
    <2> QED BY <2>1, <1>7
  <1>9. \A j \in i .. s - 1 : j \in i .. k
    BY <1>1, <1>8
  <1> QED BY <1>6, <1>7, <1>8, <1>9

LEMMA StringEndOK ==
    ASSUME NEW b, Filled(b), NEW i \in 1 .. Len(b)
    PROVE  /\ StringEnd(b, i) \in i .. Len(b)
           /\ \/ Char(b, StringEnd(b, i)) = NUL
              \/ Char(b, StringEnd(b, i)) = "\"" /\ Char(b, StringEnd(b, i) - 1) # "\\"
           /\ \A j \in i .. StringEnd(b, i) - 1 : Char(b, j) # NUL
  <1> DEFINE P == {j \in From(b, i) : \/ Char(b, j) = NUL
                                      \/ Char(b, j) = "\"" /\ Char(b, j - 1) # "\\"}
  <1>1. Len(b) \in Nat \ {0} /\ Char(b, Len(b)) = NUL /\ i \in 1 .. Len(b) + 1
    BY CharOK
  <1>2. From(b, i) = i .. Len(b) + 1
    BY <1>1, FromOK
  <1>3. Len(b) \in From(b, i) /\ \A j \in i .. Len(b) : j \in From(b, i)
    BY <1>1, <1>2
  <1>4. Len(b) \in P /\ P \in SUBSET From(b, i)
        /\ \A j \in i .. Len(b) : j \notin P => Char(b, j) # NUL
    BY <1>1, <1>3
  <1>5. \A j \in P : Char(b, j) = NUL \/ (Char(b, j) = "\"" /\ Char(b, j - 1) # "\\")
    OBVIOUS
  <1>6. PICK e : e = Min(P) /\ e = StringEnd(b, i)
    BY DEF StringEnd
  <1> HIDE DEF P
  <1>7. e \in P /\ e \in i .. Len(b) /\ \A j \in i .. e - 1 : j \notin P
    <2>1. Min(P) \in P /\ Min(P) \in i .. Len(b) /\ \A j \in i .. Min(P) - 1 : j \notin P
      BY <1>1, <1>4, FirstOK
    <2> QED BY <2>1, <1>6
  <1>8. \A j \in i .. e - 1 : j \in i .. Len(b)
    BY <1>1, <1>7
  <1> QED BY <1>4, <1>5, <1>6, <1>7, <1>8

LEMMA RunOK ==
    ASSUME NEW b, Filled(b), NEW i \in 1 .. Len(b) + 1, NEW S \in SUBSET (Letters \cup Digits),
           Char(b, i) \in S
    PROVE  /\ RunEnd(b, i, S) \in i .. Len(b)
           /\ \A j \in i .. RunEnd(b, i, S) : Char(b, j) \in S
  <1> DEFINE P == {j \in From(b, i) : Char(b, j) \notin S}
             k == Min(P)
             Q == {k - 1, i + MaxIdent - 2}
  <1>1. Len(b) + 1 \in Nat /\ Char(b, Len(b) + 1) = NUL /\ From(b, i) = i .. Len(b) + 1
    BY CharOK, FromOK
  <1>2. NUL \notin S
    BY Apart
  <1>3. Len(b) + 1 \in P /\ P \in SUBSET From(b, i) /\ i \notin P
    BY <1>1, <1>2
  <1>4. Leave(b, i, S) = Min(P)
    BY DEF Leave
  <1>5. \A j \in i .. Len(b) + 1 : j \notin P => Char(b, j) \in S
    BY <1>1
  <1> HIDE DEF P
  <1>6. k \in P /\ k \in i .. Len(b) + 1 /\ \A j \in i .. k - 1 : j \notin P
    BY <1>3, FirstOK
  <1> HIDE DEF k
  <1>7. k - 1 \in i .. Len(b) /\ \A j \in i .. k - 1 : Char(b, j) \in S
    BY <1>1, <1>3, <1>5, <1>6
  <1>8. i + MaxIdent - 2 \in Nat /\ i + MaxIdent - 2 >= i
    BY MaxIdentAssumption
  <1>9. Q \in SUBSET Nat /\ Q # {} /\ \A j \in Q : j >= i
    BY <1>7, <1>8
  <1>10. RunEnd(b, i, S) = Min(Q)
    BY <1>4 DEF RunEnd, k
  <1>11. k - 1 \in Q
    OBVIOUS
  <1> HIDE DEF Q
  <1>12. PICK e : e = Min(Q) /\ e = RunEnd(b, i, S)
    BY <1>10
  <1>13. e \in Nat /\ e >= i /\ e <= k - 1
    <2>1. Min(Q) \in Q /\ \A j \in Q : Min(Q) <= j
      BY <1>9, MinOK
    <2> QED BY <1>9, <1>11, <1>12, <2>1
  <1>14. e \in i .. Len(b) /\ \A j \in i .. e : j \in i .. k - 1
    BY <1>7, <1>13
  <1> QED BY <1>7, <1>12, <1>14


----------------------------------------------------------------------------
(***************************************************************************)
(* Tokens                                                                  *)
(***************************************************************************)

\* Whether a character ends the line or the text.
Ends(c) == c \in {NUL, "\n"}

LEMMA DoubleOK ==
    ASSUME NEW b, NEW i, Pair(b, i) \in Double
    PROVE  /\ Char(b, i) \in {"=", "!", "<", ">", "|", "&"}
           /\ ~Ends(Char(b, i)) /\ ~Ends(Char(b, i + 1))
  <1>1. /\ Pair(b, i)[1] \in {"=", "!", "<", ">", "|", "&"}
        /\ Pair(b, i)[2] \in {"=", "|", "&"}
    BY DEF Double
  <1>2. Pair(b, i)[1] = Char(b, i) /\ Pair(b, i)[2] = Char(b, i + 1)
    BY DEF Pair
  <1> QED BY <1>1, <1>2 DEF Ends, NUL

\* The last character of a token that begins at i: it stays in the text, and only a string
\* runs over the end of a line, which then is its last character.
Closes(b, i, e) ==
    /\ e \in i .. Len(b) + 1
    /\ Char(b, i) # NUL => e <= Len(b)
    /\ Char(b, i) # "\"" => \A j \in i .. e : Ends(Char(b, j)) => j = i
    /\ Char(b, i) = "\"" => /\ i < Len(b) /\ e = StringEnd(b, i + 1)
                            /\ \A j \in i .. e - 1 : Char(b, j) # NUL

LEMMA EndOK ==
    ASSUME NEW b, Filled(b), NEW i \in 1 .. Len(b) + 1
    PROVE  Closes(b, i, TokenEnd(b, i))
  <1>1. Len(b) \in Nat \ {0} /\ i \in Nat /\ Char(b, Len(b)) = NUL
        /\ \A j \in Nat : j > Len(b) => Char(b, j) = NUL
    BY CharOK
  <1>2. Char(b, i) # NUL => i < Len(b)
    BY <1>1
  <1>3. CASE Pair(b, i) \in Double
    <2>1. /\ Char(b, i) \in {"=", "!", "<", ">", "|", "&"}
          /\ ~Ends(Char(b, i)) /\ ~Ends(Char(b, i + 1))
      BY <1>3, DoubleOK
    <2>2. Char(b, i) \notin Letters \cup Digits \cup {"\""} /\ Char(b, i) # NUL
      BY <2>1, Apart DEF Ends, Single
    <2>3. TokenEnd(b, i) = i + 1
      BY <1>3, <2>2 DEF TokenEnd
    <2>4. i + 1 <= Len(b)
      <3>1. i < Len(b)
        BY <1>2, <2>2
      <3>2. i \in Nat /\ Len(b) \in Nat
        BY <1>1
      <3> QED BY <3>1, <3>2
    <2>5. \A j \in i .. i + 1 : j = i \/ j = i + 1
      BY <1>1
    <2>6. i + 1 \in i .. Len(b) + 1
      BY <1>1, <2>4
    <2>7. Closes(b, i, i + 1)
      BY <2>1, <2>2, <2>4, <2>5, <2>6 DEF Closes
    <2> QED BY <2>3, <2>7
  <1>4. CASE Char(b, i) = "\""
    <2>1. Pair(b, i) \notin Double /\ Char(b, i) # NUL /\ Char(b, i) \notin Letters \cup Digits
      BY <1>4, DoubleOK, Apart DEF NUL
    <2>2. TokenEnd(b, i) = StringEnd(b, i + 1)
      BY <1>4, <2>1 DEF TokenEnd
    <2>3. i + 1 \in 1 .. Len(b) /\ i < Len(b)
      BY <1>1, <1>2, <2>1
    <2>4. PICK e : e = StringEnd(b, i + 1)
      OBVIOUS
    <2>5. e \in i + 1 .. Len(b) /\ \A j \in i + 1 .. e - 1 : Char(b, j) # NUL
      <3>1. /\ StringEnd(b, i + 1) \in i + 1 .. Len(b)
            /\ \A j \in i + 1 .. StringEnd(b, i + 1) - 1 : Char(b, j) # NUL
        BY <2>3, StringEndOK
      <3> QED BY <2>4, <3>1
    <2>6. \A j \in i .. e - 1 : j = i \/ j \in i + 1 .. e - 1
      BY <1>1, <2>5
    <2>7. e \in i .. Len(b) + 1 /\ e <= Len(b)
      BY <1>1, <2>5
    <2>8. \A j \in i .. e - 1 : Char(b, j) # NUL
      BY <2>1, <2>5, <2>6
    <2>9. Closes(b, i, e)
      BY <1>4, <2>3, <2>4, <2>7, <2>8 DEF Closes
    <2> QED BY <2>2, <2>4, <2>9
  <1>5. CASE Char(b, i) \in Letters \cup Digits
    <2>1. Pair(b, i) \notin Double /\ Char(b, i) # "\"" /\ Char(b, i) # NUL
      BY <1>5, Apart, DoubleOK DEF Single
    <2>2. PICK S \in SUBSET (Letters \cup Digits) :
             Char(b, i) \in S /\ TokenEnd(b, i) = RunEnd(b, i, S)
      <3>1. CASE Char(b, i) \in Letters
        BY <2>1, <3>1, Apart DEF TokenEnd
      <3>2. CASE Char(b, i) \in Digits
        <4>1. Char(b, i) \notin Letters
          BY <3>2, Apart
        <4> QED BY <2>1, <3>2, <4>1 DEF TokenEnd
      <3> QED BY <1>5, <3>1, <3>2
    <2>3. PICK e : e = RunEnd(b, i, S)
      OBVIOUS
    <2>4. e \in i .. Len(b) /\ \A j \in i .. e : Char(b, j) \in S
      <3>1. /\ RunEnd(b, i, S) \in i .. Len(b)
            /\ \A j \in i .. RunEnd(b, i, S) : Char(b, j) \in S
        BY <2>2, RunOK
      <3> QED BY <2>3, <3>1
    <2>5. \A j \in i .. e : ~Ends(Char(b, j))
      <3>1. \A c \in Letters \cup Digits : ~Ends(c)
        BY Apart DEF Ends, Space
      <3> QED BY <2>2, <2>4, <3>1
    <2>6. e \in i .. Len(b) + 1 /\ e <= Len(b)
      BY <1>1, <2>4
    <2>7. Closes(b, i, e)
      BY <2>1, <2>5, <2>6 DEF Closes
    <2> QED BY <2>2, <2>3, <2>7
  <1>6. CASE Pair(b, i) \notin Double /\ Char(b, i) \notin {"\""} \cup Letters \cup Digits
    <2>1. TokenEnd(b, i) = i
      BY <1>6 DEF TokenEnd
    <2>2. i \in i .. Len(b) + 1 /\ \A j \in i .. i : j = i
      BY <1>1
    <2>3. Char(b, i) # NUL => i <= Len(b)
      BY <1>1, <1>2
    <2>4. Closes(b, i, i)
      BY <1>6, <2>2, <2>3 DEF Closes
    <2> QED BY <2>1, <2>4
  <1> QED BY <1>3, <1>4, <1>5, <1>6


\* The type of a token: a lone | or & has the one of the token before.
LEMMA TypeOfOK ==
    ASSUME NEW b, NEW i \in Nat, NEW j \in Nat, i <= j, NEW old \in Types
    PROVE  /\ TypeOf(b, i, j, old) \in Types
           /\ old # END => (TypeOf(b, i, j, old) = END <=> Char(b, i) = NUL)
           /\ Char(b, i) = "\"" => TypeOf(b, i, j, old) = STRING_
           /\ TypeOf(b, i, j, old) = STRING_ => Char(b, i) = "\"" \/ old = STRING_
  <1> DEFINE text == Text(b, i, j)
             c == Char(b, i)
             type == TypeOf(b, i, j, old)
  <1>1. text[1] = c
    <2>1. 1 \in 1 .. j - i + 1 /\ i + 1 - 1 = i
      OBVIOUS
    <2> QED BY <2>1 DEF Text
  <1>2. /\ DOMAIN text = 1 .. j - i + 1
        /\ \A K \in Keywords : K = text => c \in Letters \cup Digits
    <2>1. DOMAIN text = 1 .. j - i + 1
      BY DEF Text
    <2>2. ASSUME NEW K \in Keywords, K = text PROVE c \in Letters \cup Digits
      <3>1. K \in Seq(Letters \cup Digits)
        BY CharacterAssumption
      <3>2. 1 \in DOMAIN K
        BY <2>1, <2>2
      <3> QED BY <1>1, <2>2, <3>1, <3>2
    <2> QED BY <2>1, <2>2
  <1>3. text \in Double => c \in {"=", "!", "<", ">", "|", "&"}
    BY <1>1 DEF Double
  <1>4. \A t \in Double \cup Keywords : t # END /\ t # STRING_
    <2>1. \A t \in Double : t # END /\ t # STRING_
      BY DEF Double, END, STRING_
    <2>2. ASSUME NEW t \in Keywords PROVE t # END /\ t # STRING_
      <3>1. t \in Seq(Letters \cup Digits)
        BY CharacterAssumption
      <3>2. t = END => "EOF" \in Letters \cup Digits
        BY <3>1 DEF END
      <3>3. t = STRING_ => "STRING" \in Letters \cup Digits
        BY <3>1 DEF STRING_
      <3>4. {"EOF", "STRING"} \cap (Letters \cup Digits) = {}
        BY CharacterAssumption DEF Names
      <3> QED BY <3>2, <3>3, <3>4
    <2> QED BY <2>1, <2>2
  <1>5. {END, STRING_, IDENT, INT, ILLEGAL} \subseteq Types /\ END \notin {STRING_, IDENT, INT, ILLEGAL}
        /\ STRING_ \notin {IDENT, INT, ILLEGAL}
    BY DEF Types, END, STRING_, IDENT, INT, ILLEGAL
  <1>6. \A s \in Single : <<s>> \in Types /\ <<s>> # END /\ <<s>> # STRING_ /\ s # NUL /\ s # "\""
    BY DEF Types, Single, END, STRING_, NUL
  <1>7. c \in Letters \cup Digits => c \notin Single /\ c \notin {"|", "&", "\"", NUL}
    BY Apart
  <1> HIDE DEF text, c
  <1>8. CASE text \in Double \cup Keywords
    <2>1. c \in Letters \cup Digits \cup {"=", "!", "<", ">", "|", "&"}
      BY <1>2, <1>3, <1>8
    <2>2. c # NUL /\ c # "\""
      BY <1>7, <2>1 DEF NUL
    <2>3. c \in Single \cup {"|", "&"} => text \in Double
      BY <1>2, <1>7, <1>8
    <2>4. c \in Letters \cup Digits => text \in Keywords
      BY <1>3, <1>7, <1>8 DEF Single
    <2>5. type = text
      BY <1>8, <2>1, <2>2, <2>3, <2>4 DEF TypeOf, text, c
    <2>6. text \in Types
      BY <1>8 DEF Types
    <2> QED BY <1>4, <1>8, <2>2, <2>5, <2>6 DEF c
  <1>9. CASE text \notin Double \cup Keywords /\ c \in Single
    <2>1. c \notin Letters \cup Digits /\ c \notin {"|", "&", "\"", NUL}
      BY <1>7, <1>9 DEF Single, NUL
    <2>2. type = <<c>>
      BY <1>9, <2>1 DEF TypeOf, text, c
    <2> QED BY <1>6, <1>9, <2>1, <2>2 DEF c
  <1>10. CASE text \notin Double \cup Keywords /\ c \in {"|", "&"}
    <2>1. c \notin Letters \cup Digits /\ c \notin Single /\ c \notin {"\"", NUL}
      BY <1>7, <1>10 DEF Single, NUL
    <2>2. type = old
      BY <1>10, <2>1 DEF TypeOf, text, c
    <2> QED BY <2>1, <2>2 DEF c
  <1>11. CASE text \notin Double \cup Keywords /\ c = "\""
    <2>1. c \notin Letters \cup Digits /\ c \notin Single /\ c \notin {"|", "&", NUL}
      BY <1>7, <1>11 DEF Single, NUL
    <2>2. type = STRING_
      BY <1>11, <2>1 DEF TypeOf, text, c
    <2> QED BY <1>5, <1>11, <2>1, <2>2 DEF c
  <1>12. CASE text \notin Double \cup Keywords /\ c \in Letters \cup Digits
    <2>1. c \notin Letters \/ c \notin Digits
      BY Apart
    <2>2. type \in {IDENT, INT}
      BY <1>7, <1>12, <2>1 DEF TypeOf, text, c
    <2> QED BY <1>5, <1>7, <1>12, <2>2 DEF c
  <1>13. CASE text \notin Double \cup Keywords /\ c = NUL
    <2>1. c \notin Letters \cup Digits /\ c \notin Single /\ c \notin {"|", "&", "\""}
      BY <1>7, <1>13 DEF Single, NUL
    <2>2. type = END
      BY <1>13, <2>1 DEF TypeOf, text, c
    <2> QED BY <1>5, <1>13, <2>1, <2>2 DEF c
  <1>14. CASE /\ text \notin Double \cup Keywords
              /\ c \notin Single \cup {"|", "&", "\"", NUL} \cup Letters \cup Digits
    <2>1. type = ILLEGAL
      BY <1>14 DEF TypeOf, text, c
    <2> QED BY <1>5, <1>14, <2>1 DEF c
  <1> QED BY <1>8, <1>9, <1>10, <1>11, <1>12, <1>13, <1>14

----------------------------------------------------------------------------
(***************************************************************************)
(* Positions                                                               *)
(***************************************************************************)

LEMMA NewlinesOK ==
    ASSUME NEW b, NEW i \in Nat, NEW j \in Int
    PROVE  /\ Newlines(b, i, j) \subseteq i .. j
           /\ IsFiniteSet(Newlines(b, i, j)) /\ Cardinality(Newlines(b, i, j)) \in Nat
  <1>1. Newlines(b, i, j) \in SUBSET (i .. j) /\ IsFiniteSet(i .. j)
    BY FS_Interval DEF Newlines
  <1>2. IsFiniteSet(Newlines(b, i, j))
    BY <1>1, FS_Subset
  <1> QED BY <1>1, <1>2, FS_CardinalityType

\* The last newline before a position, or the position before the text.
LastLine(b, i) == Max(Newlines(b, 1, i - 1) \cup {0})

LEMMA LastLineOK ==
    ASSUME NEW b, NEW i \in Nat \ {0}
    PROVE  /\ LastLine(b, i) \in 0 .. i - 1 /\ LastLine(b, i) \in Newlines(b, 1, i - 1) \cup {0}
           /\ \A j \in Newlines(b, 1, i - 1) : j <= LastLine(b, i)
  <1> DEFINE S == Newlines(b, 1, i - 1) \cup {0}
  <1>1. S \in SUBSET (0 .. i - 1) /\ S # {} /\ i - 1 \in Nat
    BY NewlinesOK
  <1>2. LastLine(b, i) = Max(S)
    BY DEF LastLine
  <1>3. \A j \in Newlines(b, 1, i - 1) : j \in S
    OBVIOUS
  <1>4. S = Newlines(b, 1, i - 1) \cup {0}
    OBVIOUS
  <1> HIDE DEF S
  <1>5. Max(S) \in S /\ \A j \in S : j <= Max(S)
    BY <1>1, MaxOK
  <1> QED BY <1>1, <1>2, <1>3, <1>4, <1>5

LEMMA ColumnOK ==
    ASSUME NEW b, NEW l, l.pos \in Nat \ {0}, l.column \in Nat, NEW from \in Nat, from >= l.pos
    PROVE  /\ Column(b, l, from) \in Nat
           /\ l.column = l.pos - 1 - LastLine(b, l.pos) => Column(b, l, from) = from - LastLine(b, from)
  <1> DEFINE p == l.pos
             N == Newlines(b, p, from - 1)
             B == Newlines(b, 1, p - 1)
             A == Newlines(b, 1, from - 1)
  <1>1. /\ N \in SUBSET (0 .. from) /\ N \subseteq p .. from - 1
        /\ B \subseteq 1 .. p - 1 /\ A = B \cup N
    BY DEF Newlines
  <1>2. /\ LastLine(b, p) \in 0 .. p - 1 /\ LastLine(b, p) \in B \cup {0}
        /\ \A j \in B : j <= LastLine(b, p)
    BY LastLineOK
  <1>3. /\ LastLine(b, from) \in 0 .. from - 1 /\ LastLine(b, from) \in A \cup {0}
        /\ \A j \in A : j <= LastLine(b, from)
    <2>1. from \in Nat \ {0}
      OBVIOUS
    <2> QED BY <2>1, LastLineOK
  <1>4. Column(b, l, from) = IF N = {} THEN l.column + from - p + 1 ELSE from - Max(N)
    BY DEF Column
  <1> HIDE DEF N, B, A
  <1>5. CASE N = {}
    <2>1. LastLine(b, from) = LastLine(b, p)
      <3>1. A = B
        BY <1>1, <1>5
      <3>2. LastLine(b, from) \in Nat /\ LastLine(b, p) \in Nat
        BY <1>2, <1>3
      <3>3. LastLine(b, from) = 0 \/ LastLine(b, from) <= LastLine(b, p)
        BY <1>2, <1>3, <3>1
      <3>4. LastLine(b, p) = 0 \/ LastLine(b, p) <= LastLine(b, from)
        BY <1>2, <1>3, <3>1
      <3> QED BY <3>2, <3>3, <3>4
    <2>2. Column(b, l, from) = l.column + from - p + 1
      BY <1>4, <1>5
    <2>3. p \in Nat /\ l.column \in Nat /\ from >= p /\ LastLine(b, p) \in Nat
      BY <1>2
    <2> HIDE DEF p
    <2>4. /\ l.column + from - p + 1 \in Nat
          /\ l.column = p - 1 - LastLine(b, p) => l.column + from - p + 1 = from - LastLine(b, p)
      BY <2>3
    <2> QED BY <2>1, <2>2, <2>4 DEF p
  <1>6. CASE N # {}
    <2>1. Max(N) \in N /\ \A j \in N : j <= Max(N)
      BY <1>1, <1>6, MaxOK
    <2>2. Max(N) \in p .. from - 1 /\ Max(N) \in A
      BY <1>1, <2>1
    <2>3. LastLine(b, from) = Max(N)
      <3>1. Max(N) \in Nat /\ LastLine(b, from) \in Nat /\ p \in Nat /\ Max(N) >= p
        BY <1>3, <2>2
      <3>2. Max(N) <= LastLine(b, from)
        BY <1>3, <2>2
      <3>3. LastLine(b, from) \in N \/ LastLine(b, from) < p
        BY <1>1, <1>3
      <3>4. LastLine(b, from) <= Max(N)
        BY <2>1, <3>1, <3>2, <3>3
      <3> QED BY <3>1, <3>2, <3>4
    <2>4. Column(b, l, from) = from - Max(N)
      BY <1>4, <1>6
    <2>5. from - Max(N) \in Nat
      BY <2>2
    <2> QED BY <2>3, <2>4, <2>5
  <1> QED BY <1>5, <1>6

\* The number of newlines before a position, and between two.
Above(b, i)      == Cardinality(Newlines(b, 1, i - 1))
Between(b, p, i) == Cardinality(Newlines(b, p, i - 1))

LEMMA AboveOK ==
    ASSUME NEW b, NEW p \in Nat \ {0}, NEW i \in Nat, i >= p
    PROVE  /\ Above(b, p) \in Nat /\ Between(b, p, i) \in Nat
           /\ Above(b, i) = Above(b, p) + Between(b, p, i)
  <1> DEFINE B == Newlines(b, 1, p - 1)
             N == Newlines(b, p, i - 1)
  <1>1. Newlines(b, 1, i - 1) = B \cup N /\ B \cap N = {}
    BY DEF Newlines
  <1>2. /\ IsFiniteSet(B) /\ Cardinality(B) \in Nat
        /\ IsFiniteSet(N) /\ Cardinality(N) \in Nat
    BY NewlinesOK
  <1>3. Above(b, i) = Cardinality(B \cup N)
    BY <1>1 DEF Above
  <1>4. Above(b, p) = Cardinality(B) /\ Between(b, p, i) = Cardinality(N)
    BY DEF Above, Between
  <1> HIDE DEF B, N
  <1>5. Cardinality(B \cup N) = Cardinality(B) + Cardinality(N) - Cardinality(B \cap N)
    BY <1>2, FS_Union
  <1>6. Cardinality(B \cap N) = 0
    BY <1>1, FS_EmptySet
  <1> QED BY <1>2, <1>3, <1>4, <1>5, <1>6

LEMMA SameLine ==
    ASSUME NEW b, NEW i \in Nat \ {0}, NEW j \in Nat, i <= j, \A m \in i .. j : Char(b, m) # "\n"
    PROVE  Above(b, j + 1) = Above(b, i) /\ LastLine(b, j + 1) = LastLine(b, i)
  <1>1. j + 1 - 1 = j
    OBVIOUS
  <1>2. \A m \in 1 .. j : m \in 1 .. i - 1 \/ m \in i .. j
    OBVIOUS
  <1>3. \A m \in 1 .. i - 1 : m \in 1 .. j
    OBVIOUS
  <1>4. Newlines(b, 1, j) = Newlines(b, 1, i - 1)
    BY <1>2, <1>3 DEF Newlines
  <1>5. Newlines(b, 1, j + 1 - 1) = Newlines(b, 1, i - 1)
    BY <1>1, <1>4
  <1> QED BY <1>5 DEF Above, LastLine

\* What gettoken() finds at l: a token t, and where it goes on, k.
Finds(b, l, t, k) ==
    /\ t.from \in l.pos .. Len(b) + 1 /\ Char(b, t.from) \notin Space
    /\ \A j \in l.pos .. t.from - 1 : Char(b, j) # NUL
    /\ Closes(b, t.from, t.to) /\ k.pos = t.to + 1
Places(b, l, t, k) ==
    /\ t.line = l.line + Between(b, l.pos, t.from) /\ k.line = t.line
    /\ t.column = Column(b, l, t.from) /\ k.column = t.column + t.to - t.from
Sorts(b, t, old) ==
    /\ t.type \in Types
    /\ old.type # END => (t.type = END <=> Char(b, t.from) = NUL)
    /\ Char(b, t.from) = "\"" =>
          t.type = STRING_ /\ t.body = [start |-> t.from + 1, end |-> t.to]
    /\ Char(b, t.from) # "\"" =>
          t.body = old.body /\ (t.type = STRING_ => old.type = STRING_)

LEMMA GetTokenOK ==
    ASSUME NEW b, Filled(b), NEW l, l.pos \in 1 .. Len(b) + 1, NEW old, old.type \in Types
    PROVE  LET r == GetToken(b, l, old)
           IN  Finds(b, l, r.t, r.l) /\ Places(b, l, r.t, r.l) /\ Sorts(b, r.t, old)
  <1> DEFINE from   == TokenStart(b, l.pos)
             to     == TokenEnd(b, from)
             line   == l.line + Between(b, l.pos, from)
             column == Column(b, l, from)
             body   == IF Char(b, from) = "\"" THEN [start |-> from + 1, end |-> to] ELSE old.body
             type   == TypeOf(b, from, to, old.type)
             t      == [type |-> type, from |-> from, to |-> to, line |-> line,
                        column |-> column, body |-> body]
             k      == [pos |-> to + 1, line |-> line, column |-> column + to - from]
  <1>1. GetToken(b, l, old) = [l |-> k, t |-> t]
    BY DEF GetToken, Between
  <1>2. /\ from \in l.pos .. Len(b) + 1 /\ Char(b, from) \notin Space
        /\ \A j \in l.pos .. from - 1 : Char(b, j) # NUL
    BY StartOK
  <1>3. Len(b) \in Nat /\ from \in 1 .. Len(b) + 1
    <2>1. Len(b) \in Nat
      BY CharOK
    <2> HIDE DEF from
    <2> QED BY <1>2, <2>1
  <1>4. Closes(b, from, to)
    BY <1>3, EndOK
  <1>5. from \in Nat /\ to \in Nat /\ from <= to
    <2> HIDE DEF from, to
    <2>1. to \in from .. Len(b) + 1
      BY <1>4 DEF Closes
    <2> QED BY <1>3, <2>1
  <1>6. /\ type \in Types
        /\ old.type # END => (type = END <=> Char(b, from) = NUL)
        /\ Char(b, from) = "\"" => type = STRING_
        /\ type = STRING_ => Char(b, from) = "\"" \/ old.type = STRING_
    <2> HIDE DEF from, to
    <2> QED BY <1>5, TypeOfOK
  <1> HIDE DEF from, to, line, column, type
  <1>7. Finds(b, l, t, k)
    BY <1>2, <1>4 DEF Finds
  <1>8. Places(b, l, t, k)
    BY DEF Places, line, column
  <1>9. Sorts(b, t, old)
    BY <1>6 DEF Sorts
  <1> HIDE DEF t, k
  <1> QED BY <1>1, <1>7, <1>8, <1>9

----------------------------------------------------------------------------
(***************************************************************************)
(* One token after the other                                               *)
(***************************************************************************)

\* The end of the text is the last thing there is to find in it, and the end of a line is
\* found before what follows it, unless a string runs over it.
LEMMA WithinText ==
    ASSUME NEW b, Filled(b), NEW l, NEW t, NEW k, Finds(b, l, t, k), l.pos \in 1 .. Len(b) + 1
    PROVE  /\ t.from \in 1 .. Len(b) + 1 /\ t.to \in t.from .. Len(b) + 1
           /\ k.pos \in 1 .. Len(b) + 2
           /\ l.pos <= Len(b) \/ Char(b, t.from) # NUL => k.pos <= Len(b) + 1
  <1>1. Len(b) \in Nat \ {0} /\ Char(b, Len(b)) = NUL
    BY CharOK
  <1>2. /\ t.from \in l.pos .. Len(b) + 1 /\ t.to \in t.from .. Len(b) + 1 /\ k.pos = t.to + 1
        /\ \A j \in l.pos .. t.from - 1 : Char(b, j) # NUL
        /\ Char(b, t.from) # NUL => t.to <= Len(b)
        /\ Char(b, t.from) # "\"" => \A j \in t.from .. t.to : Ends(Char(b, j)) => j = t.from
    BY DEF Finds, Closes
  <1> DEFINE p == l.pos
             i == t.from
             j == t.to
  <1>3. /\ p \in Nat /\ i \in Nat /\ j \in Nat /\ Len(b) \in Nat /\ p >= 1
        /\ p <= i /\ i <= j /\ j <= Len(b) + 1 /\ k.pos = j + 1
    <2>1. p \in 1 .. Len(b) + 1 /\ i \in p .. Len(b) + 1 /\ j \in i .. Len(b) + 1
      BY <1>2
    <2>2. Len(b) \in Nat /\ k.pos = j + 1
      BY <1>1, <1>2
    <2> HIDE DEF p, i, j
    <2> QED BY <2>1, <2>2
  <1>4. p <= Len(b) => j <= Len(b)
    <2> SUFFICES ASSUME p <= Len(b) PROVE j <= Len(b)
      OBVIOUS
    <2>1. i <= Len(b)
      <3>1. ~ (Len(b) \in p .. i - 1)
        BY <1>1, <1>2
      <3> HIDE DEF p, i, j
      <3> QED BY <1>3, <3>1
    <2>2. CASE Char(b, i) # NUL
      BY <1>2, <2>2
    <2>3. CASE Char(b, i) = NUL
      <3>1. Char(b, i) # "\"" /\ Ends(NUL)
        BY <2>3 DEF NUL, Ends
      <3>2. \A m \in i .. j : Ends(Char(b, m)) => m = i
        BY <1>2, <3>1
      <3>3. Len(b) \in i .. j => Len(b) = i
        BY <1>1, <3>1, <3>2
      <3>4. j = Len(b) + 1 => i = Len(b)
        <4> HIDE DEF p, i, j
        <4> QED BY <1>3, <2>1, <3>3
      <3>5. j = Len(b) + 1 => j \in i .. j /\ Char(b, j) = NUL
        <4>1. Char(b, Len(b) + 1) = NUL
          BY <1>3, CharOK
        <4>2. j \in i .. j
          BY <1>3
        <4> QED BY <4>1, <4>2
      <3>6. j = Len(b) + 1 => j = i
        BY <3>1, <3>2, <3>5
      <3> HIDE DEF p, i, j
      <3> QED BY <1>3, <3>4, <3>6
    <2> QED BY <2>2, <2>3
  <1>5. Char(b, i) # NUL => j <= Len(b)
    BY <1>2
  <1> HIDE DEF p, i, j
  <1>6. /\ i \in 1 .. Len(b) + 1 /\ j \in i .. Len(b) + 1 /\ k.pos \in 1 .. Len(b) + 2
        /\ p <= Len(b) \/ Char(b, i) # NUL => k.pos <= Len(b) + 1
    BY <1>3, <1>4, <1>5
  <1> QED BY <1>6 DEF p, i, j

LEMMA WithinLine ==
    ASSUME NEW b, Filled(b), NEW n \in Nat, n < Len(b), Char(b, n + 1) = NUL,
           NEW l, l.pos \in 1 .. n + 1, NEW t, NEW k, NEW old, old.type # END,
           Finds(b, l, t, k), Sorts(b, t, old)
    PROVE  /\ t.from <= n + 1
           /\ t.type # END /\ ~(t.type = STRING_ /\ t.to > n) => k.pos \in 1 .. n + 1
  <1> DEFINE p == l.pos
             i == t.from
             j == t.to
  <1>1. /\ i \in p .. Len(b) + 1 /\ j \in i .. Len(b) + 1 /\ k.pos = j + 1
        /\ \A m \in p .. i - 1 : Char(b, m) # NUL
        /\ Char(b, i) # "\"" => \A m \in i .. j : Ends(Char(b, m)) => m = i
    BY DEF Finds, Closes
  <1>2. /\ t.type # END => Char(b, i) # NUL
        /\ Char(b, i) = "\"" => t.type = STRING_
    BY DEF Sorts
  <1>3. /\ p \in Nat /\ i \in Nat /\ j \in Nat /\ p >= 1 /\ p <= n + 1
        /\ p <= i /\ i <= j /\ k.pos = j + 1
    <2>1. Len(b) \in Nat /\ k.pos = j + 1
      BY <1>1, CharOK
    <2>2. p \in 1 .. n + 1 /\ i \in p .. Len(b) + 1 /\ j \in i .. Len(b) + 1
      BY <1>1
    <2> HIDE DEF p, i, j
    <2> QED BY <2>1, <2>2
  <1>4. n + 1 \notin p .. i - 1
    BY <1>1
  <1>5. i <= n + 1
    <2> HIDE DEF p, i, j
    <2> QED BY <1>3, <1>4
  <1>6. ASSUME t.type # END, ~(t.type = STRING_ /\ j > n) PROVE j <= n
    <2>1. i # n + 1
      BY <1>2, <1>6
    <2>2. CASE Char(b, i) = "\""
      <3>1. ~ (j > n)
        BY <1>2, <1>6, <2>2
      <3> HIDE DEF p, i, j
      <3> QED BY <1>3, <3>1
    <2>3. CASE Char(b, i) # "\""
      <3>1. n + 1 \in i .. j => n + 1 = i
        BY <1>1, <2>3 DEF Ends
      <3> HIDE DEF p, i, j
      <3> QED BY <1>3, <1>5, <2>1, <3>1
    <2> QED BY <2>2, <2>3
  <1> HIDE DEF p, i, j
  <1>7. t.type # END /\ ~(t.type = STRING_ /\ j > n) => k.pos \in 1 .. n + 1
    BY <1>3, <1>6
  <1> QED BY <1>5, <1>7 DEF i, j

\* A lexer, or a token, that knows where it is.
Here(b, l) == l.line = 1 + Above(b, l.pos) /\ l.column = l.pos - 1 - LastLine(b, l.pos)
At(b, t)   == t.line = 1 + Above(b, t.from) /\ t.column = t.from - LastLine(b, t.from)

LEMMA PlaceKept ==
    ASSUME NEW b, Filled(b), NEW l, l.pos \in 1 .. Len(b) + 1, l.column \in Nat, l.line \in Nat,
           NEW t, NEW k, NEW old, Finds(b, l, t, k), Places(b, l, t, k), Sorts(b, t, old)
    PROVE  /\ t.line \in Nat /\ t.column \in Nat /\ k.line \in Nat /\ k.column \in Nat
           /\ Here(b, l) => At(b, t)
           /\ At(b, t) /\ ~(t.type = STRING_ /\ Newlines(b, t.from, t.to) # {}) => Here(b, k)
  <1> DEFINE p == l.pos
             i == t.from
             j == t.to
  <1>1. /\ i \in p .. Len(b) + 1 /\ j \in i .. Len(b) + 1 /\ k.pos = j + 1
        /\ Char(b, i) \notin Space
        /\ Char(b, i) # "\"" => \A m \in i .. j : Ends(Char(b, m)) => m = i
    BY DEF Finds, Closes
  <1>2. p \in Nat \ {0} /\ p \in Nat /\ i \in Nat \ {0} /\ i \in Nat /\ j \in Nat /\ i >= p /\ i <= j
    <2>1. Len(b) \in Nat
      BY CharOK
    <2>2. p \in 1 .. Len(b) + 1 /\ i \in p .. Len(b) + 1 /\ j \in i .. Len(b) + 1
      BY <1>1
    <2> HIDE DEF p, i, j
    <2> QED BY <2>1, <2>2
  <1>3. /\ t.line = l.line + Between(b, p, i) /\ k.line = t.line
        /\ t.column = Column(b, l, i) /\ k.column = t.column + j - i
    BY DEF Places
  <1>4. /\ Above(b, p) \in Nat /\ Between(b, p, i) \in Nat
        /\ Above(b, i) = Above(b, p) + Between(b, p, i)
    <2> HIDE DEF p, i, j
    <2> QED BY <1>2, AboveOK
  <1>5. /\ Column(b, l, i) \in Nat
        /\ l.column = p - 1 - LastLine(b, p) => Column(b, l, i) = i - LastLine(b, i)
    <2>1. l.pos \in Nat \ {0} /\ i \in Nat /\ i >= l.pos
      BY <1>2
    <2> HIDE DEF i, j
    <2> QED BY <2>1, ColumnOK
  <1>6. t.line \in Nat /\ t.column \in Nat /\ k.line \in Nat /\ k.column \in Nat
    <2>1. l.line \in Nat
      OBVIOUS
    <2> HIDE DEF p, i, j
    <2>2. t.line \in Nat /\ k.line \in Nat
      BY <1>3, <1>4, <2>1
    <2>3. t.column \in Nat
      BY <1>3, <1>5
    <2>4. k.column \in Nat
      <3>1. j - i \in Nat
        BY <1>2
      <3>2. k.column = t.column + j - i
        BY <1>3
      <3> HIDE DEF p, i, j
      <3> QED BY <1>2, <2>3, <3>1, <3>2
    <2> QED BY <2>2, <2>3, <2>4
  <1>7. ASSUME Here(b, l) PROVE At(b, t)
    <2>1. l.line = 1 + Above(b, p) /\ l.column = p - 1 - LastLine(b, p)
      BY <1>7 DEF Here
    <2>2. t.line = 1 + Above(b, i)
      <3> HIDE DEF p, i, j
      <3> QED BY <1>3, <1>4, <2>1
    <2>3. t.column = i - LastLine(b, i)
      <3> HIDE DEF p, i, j
      <3> QED BY <1>3, <1>5, <2>1
    <2> QED BY <2>2, <2>3 DEF At
  <1>8. ASSUME At(b, t), ~(t.type = STRING_ /\ Newlines(b, i, j) # {}) PROVE Here(b, k)
    <2>1. \A m \in i .. j : Char(b, m) # "\n"
      <3>1. CASE Char(b, i) = "\""
        <4>1. t.type = STRING_
          BY <3>1 DEF Sorts
        <4>2. Newlines(b, i, j) = {}
          BY <1>8, <4>1
        <4> QED BY <4>2 DEF Newlines
      <3>2. CASE Char(b, i) # "\""
        <4>1. \A m \in i .. j : Char(b, m) = "\n" => m = i
          BY <1>1, <3>2 DEF Ends
        <4> QED BY <1>1, <4>1 DEF Space
      <3> QED BY <3>1, <3>2
    <2>2. t.line = 1 + Above(b, i) /\ t.column = i - LastLine(b, i)
      BY <1>8 DEF At
    <2>3. Above(b, j + 1) = Above(b, i) /\ LastLine(b, j + 1) = LastLine(b, i)
      <3> HIDE DEF p, i, j
      <3> QED BY <1>2, <2>1, SameLine
    <2>4. LastLine(b, i) \in Nat
      BY <1>2, LastLineOK
    <2>5. PICK q : q = j + 1
      OBVIOUS
    <2>6. k.pos = q /\ k.line = 1 + Above(b, q)
      BY <1>1, <1>3, <2>2, <2>3, <2>5
    <2>7. k.column = q - 1 - LastLine(b, q)
      <3>1. LastLine(b, q) = LastLine(b, i)
        BY <2>3, <2>5
      <3> HIDE DEF p, i, j
      <3> QED BY <1>2, <1>3, <2>2, <2>4, <2>5, <3>1
    <2> QED BY <2>6, <2>7 DEF Here
  <1> QED BY <1>6, <1>7, <1>8

\* The text of a string lies in the buffer, and is followed by the end of the buffer or by a
\* quote without a backslash.
Quotes(b, start, end) ==
    /\ start \in Nat \ {0} /\ end \in start .. Len(b)
    /\ Char(b, end) = NUL \/ (Char(b, end) = "\"" /\ Char(b, end - 1) # "\\")
Bodied(b, t) == t.type = STRING_ => Quotes(b, t.body.start, t.body.end)

LEMMA BodyKept ==
    ASSUME NEW b, Filled(b), NEW l, l.pos \in 1 .. Len(b) + 1, NEW t, NEW k, NEW old,
           Finds(b, l, t, k), Sorts(b, t, old), Bodied(b, old)
    PROVE  Bodied(b, t)
  <1>1. CASE Char(b, t.from) = "\""
    <2>1. t.body = [start |-> t.from + 1, end |-> t.to]
      BY <1>1 DEF Sorts
    <2>2. t.body.start = t.from + 1 /\ t.body.end = t.to
      BY <2>1
    <2>3. t.from \in l.pos .. Len(b) + 1 /\ t.from < Len(b) /\ t.to = StringEnd(b, t.from + 1)
      BY <1>1 DEF Finds, Closes
    <2>4. t.from + 1 \in 1 .. Len(b) /\ t.from + 1 \in Nat \ {0}
      <3>1. Len(b) \in Nat
        BY CharOK
      <3> QED BY <2>3, <3>1
    <2>5. Quotes(b, t.from + 1, StringEnd(b, t.from + 1))
      BY <2>4, StringEndOK DEF Quotes
    <2>6. Quotes(b, t.body.start, t.body.end)
      BY <2>2, <2>3, <2>5
    <2> QED BY <2>6 DEF Bodied
  <1>2. CASE Char(b, t.from) # "\""
    <2>1. t.body = old.body /\ (t.type = STRING_ => old.type = STRING_)
      BY <1>2 DEF Sorts
    <2> QED BY <2>1 DEF Bodied
  <1> QED BY <1>1, <1>2

LEMMA WalkStops ==
    ASSUME NEW b, Filled(b), NEW s, NEW e, Quotes(b, s, e)
    PROVE  \A i \in Walk(b, s, e) : i <= e
  <1>1. s \in Nat /\ e \in Nat /\ s <= e /\ e <= Len(b) /\ s >= 1 /\ Len(b) \in Nat
    <2>1. s \in Nat \ {0} /\ e \in s .. Len(b)
      BY DEF Quotes
    <2>2. Len(b) \in Nat
      BY CharOK
    <2> QED BY <2>1, <2>2
  <1>2. Char(b, e) = NUL \/ (Char(b, e) = "\"" /\ Char(b, e - 1) # "\\")
    BY DEF Quotes
  <1>3. ASSUME NEW j \in s .. e, j < e PROVE Step(b, j) \in s .. e
    <2>1. Char(b, j) = b[j] /\ e - 1 \in s .. e
      <3>1. j \in 1 .. Len(b) /\ e - 1 \in s .. e
        BY <1>1, <1>3
      <3> QED BY <3>1, CharOK
    <2>2. CASE b[j] = "\\" /\ Char(b, j + 1) \in {"n", "t", "\""}
      <3>1. j + 1 # e
        <4> SUFFICES ASSUME j + 1 = e PROVE FALSE
          OBVIOUS
        <4>1. e - 1 = j
          BY <1>1
        <4>2. Char(b, e) \in {"n", "t", "\""} /\ Char(b, e - 1) = "\\"
          BY <2>1, <2>2, <4>1
        <4> QED BY <1>2, <4>2 DEF NUL
      <3>2. Step(b, j) = j + 2
        BY <2>2 DEF Step
      <3>3. j + 2 \in s .. e
        BY <1>1, <1>3, <3>1
      <3> QED BY <3>2, <3>3
    <2>3. CASE ~ (b[j] = "\\" /\ Char(b, j + 1) \in {"n", "t", "\""})
      <3>1. Step(b, j) = j + 1
        BY <2>3 DEF Step
      <3>2. j + 1 \in s .. e
        BY <1>1, <1>3
      <3> QED BY <3>1, <3>2
    <2> QED BY <2>2, <2>3
  <1>4. s .. e \in SUBSET (s .. e + 1) /\ s \in s .. e
    BY <1>1
  <1>5. Walk(b, s, e) \subseteq s .. e
    BY <1>3, <1>4 DEF Walk
  <1> QED BY <1>1, <1>5

----------------------------------------------------------------------------
(***************************************************************************)
(* The inductive invariant                                                 *)
(***************************************************************************)

\* What fgets() has left in the buffer: the line, its end, and what the lines before left.
Stored ==
    /\ lines \in Seq(Seq(Characters))
    /\ length \in Nat /\ length <= Len(buffer)
    /\ buffer = << >> \/ (Filled(buffer) /\ length < Len(buffer) /\ Char(buffer, length + 1) = NUL)
    /\ \E S : taken \in Seq(S)

\* The lexer and the two tokens of the parser lie in the buffer, in this order.
Placed ==
    /\ lexer.pos \in 1 .. Len(buffer) + 2 /\ lexer.line \in Nat /\ lexer.column \in Nat
    /\ IsToken(current) /\ IsToken(next)
    /\ current.type # END => buffer # << >> /\ taken # << >>
    /\ current.type # END /\ next.type # END => lexer.pos <= Len(buffer) + 1

\* As long as no string was left open, the lexer has not left the line either.
Inside ==
    Shut => /\ current.from <= length + 1
            /\ current.type # END =>
                 /\ next.from <= length + 1
                 /\ next.type # END /\ ~Open(next) => lexer.pos <= length + 1

\* As long as no string had a newline, tokens and lexer know where they are.
Located ==
    taken # << >> /\ (\A i \in DOMAIN taken : ~Folded(taken[i])) =>
        /\ At(buffer, current)
        /\ current.type # END =>
             /\ At(buffer, next)
             /\ next.type # END /\ ~Folded(next) => Here(buffer, lexer)

Inv == /\ Stored /\ Placed /\ Inside /\ Located
       /\ Bodied(buffer, current) /\ Bodied(buffer, next)

LEMMA InitInv == Init => Inv
  <1> SUFFICES ASSUME Init PROVE Inv
    OBVIOUS
  <1>1. buffer = << >> /\ Len(buffer) = 0 /\ length = 0 /\ taken = << >> /\ DOMAIN taken = {}
    BY DEF Init
  <1>2. /\ current.type = END /\ current.from = 0 /\ current.to = 0
        /\ current.line = 0 /\ current.column = 0
        /\ next.type = ILLEGAL /\ next.from = 0 /\ next.to = 0 /\ next.line = 0 /\ next.column = 0
    BY DEF Init, NoToken
  <1>3. END \in Types /\ ILLEGAL \in Types /\ END # STRING_ /\ ILLEGAL # STRING_
    BY DEF Types, END, ILLEGAL, STRING_
  <1>4. Stored
    <2>1. lines \in Seq(Seq(Characters))
      BY CharacterAssumption DEF Init
    <2>2. \E S : taken \in Seq(S)
      BY <1>1
    <2> QED BY <1>1, <2>1, <2>2 DEF Stored
  <1>5. Placed
    <2>1. IsToken(current) /\ IsToken(next)
      BY <1>1, <1>2, <1>3 DEF IsToken
    <2>2. lexer.pos = 1 /\ lexer.line = 1 /\ lexer.column = 0
      BY DEF Init, NewLexer
    <2>3. lexer.pos \in 1 .. Len(buffer) + 2 /\ lexer.line \in Nat /\ lexer.column \in Nat
      BY <1>1, <2>2
    <2> QED BY <1>2, <2>1, <2>3 DEF Placed
  <1>6. Inside
    BY <1>1, <1>2 DEF Inside
  <1>7. Located
    BY <1>1 DEF Located
  <1>8. Bodied(buffer, current) /\ Bodied(buffer, next)
    BY <1>2, <1>3 DEF Bodied
  <1> QED BY <1>4, <1>5, <1>6, <1>7, <1>8 DEF Inv

\* What fgets() makes of the buffer.
LEMMA BufferFilled ==
    ASSUME NEW h \in Seq(Characters), NEW b, b = << >> \/ Filled(b), NEW c,
           c = h \o <<NUL>> \o SubSeq(b, Len(h) + 2, Len(b))
    PROVE  Filled(c) /\ Len(h) \in Nat /\ Len(h) < Len(c) /\ Char(c, Len(h) + 1) = NUL
  <1> DEFINE S == Characters \cup {NUL}
             n == Len(h)
             r == SubSeq(b, n + 2, Len(b))
             d == h \o <<NUL>>
  <1>1. n \in Nat /\ h \in Seq(S) /\ <<NUL>> \in Seq(S) /\ Len(<<NUL>>) = 1 /\ <<NUL>>[1] = NUL
    BY LenProperties
  <1>2. b \in Seq(S) /\ Len(b) \in Nat /\ (b # << >> => Len(b) > 0 /\ b[Len(b)] = NUL)
    <2>1. << >> \in Seq(S)
      OBVIOUS
    <2>2. b \in Seq(S) /\ (b # << >> => b[Len(b)] = NUL)
      BY <2>1 DEF Filled
    <2> QED BY <2>2, LenProperties
  <1>3. d \in Seq(S) /\ Len(d) = n + 1 /\ d[n + 1] = NUL
    <2>1. d \in Seq(S) /\ Len(d) = Len(h) + Len(<<NUL>>)
          /\ \A i \in 1 .. Len(h) + Len(<<NUL>>) : d[i] = IF i <= Len(h) THEN h[i] ELSE <<NUL>>[i - Len(h)]
      <3> HIDE DEF S
      <3> QED BY <1>1, ConcatProperties
    <2>2. n + 1 \in 1 .. n + 1 /\ ~ (n + 1 <= n) /\ n + 1 - n = 1
      BY <1>1
    <2> QED BY <1>1, <2>1, <2>2
  <1>4. /\ r \in Seq(S)
        /\ IF n + 2 <= Len(b) THEN Len(r) = Len(b) - n - 1 /\ r[Len(r)] = NUL ELSE Len(r) = 0
    <2>1. \A i \in n + 2 .. Len(b) : i \in DOMAIN b /\ b[i] \in S
      BY <1>1, <1>2
    <2>2. n + 2 \in Int /\ Len(b) \in Int
      BY <1>1, <1>2
    <2>3. /\ r \in Seq(S)
          /\ Len(r) = IF n + 2 <= Len(b) THEN Len(b) - (n + 2) + 1 ELSE 0
          /\ \A i \in 1 .. Len(b) - (n + 2) + 1 : r[i] = b[n + 2 + i - 1]
      BY <2>1, <2>2, SubSeqProperties
    <2> HIDE DEF r, S
    <2>4. CASE n + 2 <= Len(b)
      <3>1. /\ Len(r) = Len(b) - n - 1 /\ Len(r) \in 1 .. Len(b) - (n + 2) + 1
            /\ n + 2 + Len(r) - 1 = Len(b) /\ b # << >>
        BY <1>1, <1>2, <2>3, <2>4
      <3>2. r[Len(r)] = b[Len(b)]
        BY <2>3, <3>1
      <3> QED BY <1>2, <2>3, <2>4, <3>1, <3>2
    <2>5. CASE ~ (n + 2 <= Len(b))
      BY <2>3, <2>5
    <2> QED BY <2>4, <2>5
  <1>5. /\ c \in Seq(S) /\ Len(c) = n + 1 + Len(r) /\ Len(r) \in Nat
        /\ \A i \in 1 .. n + 1 + Len(r) : c[i] = IF i <= n + 1 THEN d[i] ELSE r[i - (n + 1)]
    <2>1. c = d \o r
      OBVIOUS
    <2>2. Len(r) \in Nat
      BY <1>4, LenProperties
    <2>3. d \in Seq(S) /\ r \in Seq(S)
      BY <1>3, <1>4
    <2> HIDE DEF d, r, S, n
    <2>4. /\ d \o r \in Seq(S) /\ Len(d \o r) = Len(d) + Len(r)
          /\ \A i \in 1 .. Len(d) + Len(r) :
                (d \o r)[i] = IF i <= Len(d) THEN d[i] ELSE r[i - Len(d)]
      BY <2>3, ConcatProperties
    <2>5. Len(d) = n + 1
      BY <1>3
    <2> QED BY <2>1, <2>2, <2>4, <2>5
  <1>6. PICK k : k = Len(r)
    OBVIOUS
  <1>7. PICK m : m = Len(c)
    OBVIOUS
  <1>8. PICK l : l = Len(b)
    OBVIOUS
  <1>9. n \in Nat /\ k \in Nat /\ m = n + 1 + k /\ l \in Nat
    BY <1>1, <1>2, <1>5, <1>6, <1>7, <1>8
  <1>10. k > 0 => r[k] = NUL
    <2>1. k > 0 => n + 2 <= l
      BY <1>4, <1>6, <1>8
    <2> QED BY <1>4, <1>6, <1>8, <2>1
  <1> HIDE DEF d, r, n
  <1>11. d[n + 1] = NUL /\ \A i \in 1 .. m : c[i] = IF i <= n + 1 THEN d[i] ELSE r[i - (n + 1)]
    BY <1>3, <1>5, <1>6, <1>9
  <1>12. n < m /\ n + 1 \in 1 .. m /\ m \in 1 .. m
    BY <1>9
  <1>13. c[n + 1] = NUL
    <2>1. PICK q : q = n + 1
      OBVIOUS
    <2>2. q \in 1 .. m /\ q <= n + 1
      BY <1>9, <1>12, <2>1
    <2>3. c[q] = d[q]
      BY <1>11, <2>2
    <2> QED BY <1>11, <2>1, <2>3
  <1>14. c[m] = NUL
    <2>1. CASE k = 0
      <3>1. m = n + 1
        BY <1>9, <2>1
      <3> QED BY <1>13, <3>1
    <2>2. CASE k # 0
      <3>1. k > 0 /\ ~ (m <= n + 1) /\ m - (n + 1) = k
        BY <1>9, <2>2
      <3> QED BY <1>10, <1>11, <1>12, <3>1
    <2> QED BY <2>1, <2>2
  <1>15. c # << >>
    <2>1. m # 0
      BY <1>9
    <2> QED BY <1>7, <2>1
  <1>16. Char(c, n + 1) = NUL
    <2>1. n + 1 <= m
      BY <1>9
    <2> QED BY <1>7, <1>13, <2>1 DEF Char
  <1>17. Filled(c)
    <2>1. c \in Seq(Characters \cup {NUL})
      BY <1>5
    <2> QED BY <1>7, <1>14, <1>15, <2>1 DEF Filled
  <1>18. n \in Nat /\ n < Len(c)
    BY <1>7, <1>9, <1>12
  <1> QED BY <1>16, <1>17, <1>18 DEF n

\* All of this of one call of gettoken(), at l in a buffer b whose line has n characters.
Within(b, l, t, k) ==
    /\ t.type \in Types /\ t.from \in 0 .. Len(b) + 1 /\ t.to \in t.from .. Len(b) + 1
    /\ t.line \in Nat /\ t.column \in Nat
    /\ k.pos \in 1 .. Len(b) + 2 /\ k.line \in Nat /\ k.column \in Nat
    /\ l.pos <= Len(b) \/ t.type # END => k.pos \in 1 .. Len(b) + 1
OnLine(n, l, t, k) ==
    l.pos <= n + 1 =>
        /\ t.from <= n + 1
        /\ t.type # END /\ ~(t.type = STRING_ /\ t.to > n) => k.pos <= n + 1
Knows(b, l, t, k) ==
    /\ Here(b, l) => At(b, t)
    /\ At(b, t) /\ ~(t.type = STRING_ /\ Newlines(b, t.from, t.to) # {}) => Here(b, k)
Reads(b, n, l, old, t, k) ==
    /\ Within(b, l, t, k) /\ OnLine(n, l, t, k) /\ Knows(b, l, t, k)
    /\ Bodied(b, old) => Bodied(b, t)

LEMMA ReadOK ==
    ASSUME NEW b, Filled(b), NEW n \in Nat, n < Len(b), Char(b, n + 1) = NUL,
           NEW l, l.pos \in 1 .. Len(b) + 1, l.line \in Nat, l.column \in Nat,
           NEW old, old.type \in Types, old.type # END
    PROVE  Reads(b, n, l, old, GetToken(b, l, old).t, GetToken(b, l, old).l)
  <1>1. PICK r : r = GetToken(b, l, old)
    OBVIOUS
  <1>2. PICK t : t = r.t
    OBVIOUS
  <1>3. PICK k : k = r.l
    OBVIOUS
  <1>4. Finds(b, l, t, k) /\ Places(b, l, t, k) /\ Sorts(b, t, old)
    BY <1>1, <1>2, <1>3, GetTokenOK
  <1>5. /\ t.from \in 1 .. Len(b) + 1 /\ t.to \in t.from .. Len(b) + 1
        /\ k.pos \in 1 .. Len(b) + 2
        /\ l.pos <= Len(b) \/ Char(b, t.from) # NUL => k.pos <= Len(b) + 1
    BY <1>4, WithinText
  <1>6. /\ t.line \in Nat /\ t.column \in Nat /\ k.line \in Nat /\ k.column \in Nat
        /\ Knows(b, l, t, k)
    BY <1>4, PlaceKept DEF Knows
  <1>7. Within(b, l, t, k)
    <2>1. t.type \in Types /\ (t.type # END => Char(b, t.from) # NUL)
      BY <1>4 DEF Sorts
    <2>2. Len(b) \in Nat
      BY CharOK
    <2>3. t.from \in 0 .. Len(b) + 1 /\ (k.pos <= Len(b) + 1 => k.pos \in 1 .. Len(b) + 1)
      BY <1>5, <2>2
    <2> QED BY <1>5, <1>6, <2>1, <2>3 DEF Within
  <1>8. OnLine(n, l, t, k)
    <2> SUFFICES ASSUME l.pos <= n + 1
                 PROVE  /\ t.from <= n + 1
                        /\ t.type # END /\ ~(t.type = STRING_ /\ t.to > n) => k.pos <= n + 1
      BY DEF OnLine
    <2>1. l.pos \in 1 .. n + 1
      BY CharOK
    <2>2. /\ t.from <= n + 1
          /\ t.type # END /\ ~(t.type = STRING_ /\ t.to > n) => k.pos \in 1 .. n + 1
      BY <1>4, <2>1, WithinLine
    <2> QED BY <2>2
  <1>9. Bodied(b, old) => Bodied(b, t)
    BY <1>4, BodyKept
  <1>10. Reads(b, n, l, old, t, k)
    BY <1>6, <1>7, <1>8, <1>9 DEF Reads
  <1> QED BY <1>1, <1>2, <1>3, <1>10

LEMMA ReadLineInv == Inv /\ ReadLine => Inv'
  <1> SUFFICES ASSUME Inv, ReadLine PROVE Inv'
    OBVIOUS
  <1>1. PICK b : b = buffer'
    OBVIOUS
  <1>2. PICK n : n = length'
    OBVIOUS
  <1>3. lines \in Seq(Seq(Characters)) /\ lines # << >> /\ (buffer = << >> \/ Filled(buffer))
    BY DEF Inv, Stored, ReadLine
  <1>4. Head(lines) \in Seq(Characters) /\ lines' \in Seq(Seq(Characters))
    BY <1>3 DEF ReadLine
  <1>5. Filled(b) /\ n \in Nat /\ n < Len(b) /\ Char(b, n + 1) = NUL
    <2>1. PICK h \in Seq(Characters) : h = Head(lines)
      BY <1>4
    <2>2. b = h \o <<NUL>> \o SubSeq(buffer, Len(h) + 2, Len(buffer)) /\ n = Len(h)
      BY <1>1, <1>2, <2>1 DEF ReadLine
    <2>3. Filled(b) /\ Len(h) \in Nat /\ Len(h) < Len(b) /\ Char(b, Len(h) + 1) = NUL
      BY <1>3, <2>2, BufferFilled
    <2> QED BY <2>2, <2>3
  <1>6. Len(b) \in Nat \ {0}
    BY <1>5, CharOK
  <1>7. PICK l : l = NewLexer
    OBVIOUS
  <1>8. l.pos = 1 /\ l.pos \in 1 .. Len(b) + 1 /\ l.line \in Nat /\ l.column \in Nat /\ Here(b, l)
    <2>1. l.pos = 1 /\ l.line = 1 /\ l.column = 0
      BY <1>7 DEF NewLexer
    <2>2. Newlines(b, 1, 1 - 1) = {} /\ Cardinality({}) = 0
      BY FS_EmptySet DEF Newlines
    <2>3. Above(b, 1) = 0
      BY <2>2 DEF Above
    <2>4. LastLine(b, 1) = 0
      <3>1. LastLine(b, 1) = Max({0})
        BY <2>2 DEF LastLine
      <3>2. Max({0}) \in {0}
        <4>1. {0} \in SUBSET (0 .. 0) /\ {0} # {} /\ 0 \in Nat
          OBVIOUS
        <4> QED BY <4>1, MaxOK
      <3> QED BY <3>1, <3>2
    <2> QED BY <1>6, <2>1, <2>3, <2>4 DEF Here
  <1>9. PICK old : old = NoToken
    OBVIOUS
  <1>10. old.type \in Types /\ old.type # END /\ Bodied(b, old)
    BY <1>9 DEF NoToken, Types, END, ILLEGAL, STRING_, Bodied
  <1>11. PICK f : f = GetToken(b, l, old).t
    OBVIOUS
  <1>12. PICK k : k = GetToken(b, l, old).l
    OBVIOUS
  <1>13. Reads(b, n, l, old, f, k)
    BY <1>5, <1>8, <1>10, <1>11, <1>12, ReadOK
  <1>14. k.pos \in 1 .. Len(b) + 1 /\ k.line \in Nat /\ k.column \in Nat
    <2>1. l.pos <= Len(b)
      BY <1>6, <1>8
    <2> QED BY <1>13, <2>1 DEF Reads, Within
  <1>15. PICK s : s = GetToken(b, k, old).t
    OBVIOUS
  <1>16. PICK m : m = GetToken(b, k, old).l
    OBVIOUS
  <1>17. Reads(b, n, k, old, s, m)
    BY <1>5, <1>10, <1>14, <1>15, <1>16, ReadOK
  <1>18. current' = f /\ next' = s /\ lexer' = m /\ taken' = <<f>>
    BY <1>1, <1>7, <1>9, <1>11, <1>12, <1>15, <1>16 DEF ReadLine
  <1>19. taken' # << >> /\ DOMAIN taken' = {1} /\ taken'[1] = f /\ taken' \in Seq({f})
    BY <1>18
  <1>20. Stored'
    <2>1. buffer' = << >> \/ (Filled(buffer') /\ length' < Len(buffer') /\ Char(buffer', length' + 1) = NUL)
      BY <1>1, <1>2, <1>5
    <2>2. length' \in Nat /\ length' <= Len(buffer')
      BY <1>1, <1>2, <1>5, <1>6
    <2> QED BY <1>4, <1>19, <2>1, <2>2 DEF Stored
  <1>21. Placed'
    <2>1. Within(b, l, f, k) /\ Within(b, k, s, m)
      BY <1>13, <1>17 DEF Reads
    <2>2. IsToken(current)' /\ IsToken(next)'
      BY <1>1, <1>18, <2>1 DEF Within, IsToken
    <2>3. /\ m.pos \in 1 .. Len(b) + 2 /\ m.line \in Nat /\ m.column \in Nat
          /\ s.type # END => m.pos <= Len(b) + 1
      BY <2>1 DEF Within
    <2>4. b # << >>
      BY <1>5 DEF Filled
    <2> QED BY <1>1, <1>18, <1>19, <2>2, <2>3, <2>4 DEF Placed
  <1>22. Inside'
    <2> SUFFICES ASSUME Shut'
                 PROVE  /\ f.from <= n + 1
                        /\ f.type # END =>
                             /\ s.from <= n + 1
                             /\ s.type # END /\ ~(s.type = STRING_ /\ s.to > n) => m.pos <= n + 1
      BY <1>2, <1>18 DEF Inside, Open
    <2>1. ~(f.type = STRING_ /\ f.to > n)
      BY <1>2, <1>19 DEF Shut, Open
    <2>2. OnLine(n, l, f, k) /\ OnLine(n, k, s, m)
      BY <1>13, <1>17 DEF Reads
    <2>3. l.pos <= n + 1
      BY <1>5, <1>8
    <2> QED BY <2>1, <2>2, <2>3 DEF OnLine
  <1>23. Located'
    <2> SUFFICES ASSUME (\A i \in DOMAIN taken : ~Folded(taken[i]))'
                 PROVE  /\ At(b, f)
                        /\ f.type # END =>
                             /\ At(b, s)
                             /\ s.type # END /\ ~(s.type = STRING_ /\ Newlines(b, s.from, s.to) # {})
                                    => Here(b, m)
      BY <1>1, <1>18 DEF Located, Folded
    <2>1. ~(f.type = STRING_ /\ Newlines(b, f.from, f.to) # {})
      BY <1>1, <1>19 DEF Folded
    <2>2. Knows(b, l, f, k) /\ Knows(b, k, s, m)
      BY <1>13, <1>17 DEF Reads
    <2> QED BY <1>8, <2>1, <2>2 DEF Knows
  <1>24. Bodied(buffer, current)' /\ Bodied(buffer, next)'
    <2>1. Bodied(b, f) /\ Bodied(b, s)
      BY <1>10, <1>13, <1>17 DEF Reads
    <2> QED BY <1>1, <1>18, <2>1 DEF Bodied
  <1> QED BY <1>20, <1>21, <1>22, <1>23, <1>24 DEF Inv

LEMMA NextTokenInv == Inv /\ NextToken => Inv'
  <1> SUFFICES ASSUME Inv, NextToken PROVE Inv'
    OBVIOUS
  <1>1. /\ current.type # END /\ current' = next /\ taken' = Append(taken, next)
        /\ lines' = lines /\ buffer' = buffer /\ length' = length
    BY DEF NextToken
  <1>2. /\ buffer # << >> /\ taken # << >> /\ Filled(buffer)
        /\ length \in Nat /\ length < Len(buffer) /\ Char(buffer, length + 1) = NUL
    BY <1>1 DEF Inv, Placed, Stored
  <1>3. taken' # << >> /\ (\E S : taken' \in Seq(S))
    <2>1. PICK S : taken \in Seq(S)
      BY DEF Inv, Stored
    <2>2. taken \in Seq(S \cup {next}) /\ next \in S \cup {next}
      BY <2>1
    <2>3. taken' \in Seq(S \cup {next}) /\ taken' # << >>
      BY <1>1, <2>2
    <2> QED BY <2>3
  <1>4. /\ \A i \in DOMAIN taken : i \in DOMAIN taken' /\ taken'[i] = taken[i]
        /\ \E i \in DOMAIN taken' : taken'[i] = next
    <2>1. PICK S : taken \in Seq(S)
      BY DEF Inv, Stored
    <2>2. taken \in Seq(S \cup {next}) /\ next \in S \cup {next}
      BY <2>1
    <2>3. /\ taken' \in Seq(S \cup {next}) /\ Len(taken') = Len(taken) + 1
          /\ \A i \in 1 .. Len(taken) : taken'[i] = taken[i]
          /\ taken'[Len(taken) + 1] = next
      BY <1>1, <2>2, AppendProperties
    <2>4. DOMAIN taken = 1 .. Len(taken) /\ DOMAIN taken' = 1 .. Len(taken) + 1 /\ Len(taken) \in Nat
      BY <2>2, <2>3, LenProperties
    <2> QED BY <2>3, <2>4
  <1>5. Shut' => Shut /\ ~Open(next)
    <2> SUFFICES ASSUME Shut' PROVE Shut /\ ~Open(next)
      OBVIOUS
    <2>1. \A i \in DOMAIN taken' : ~(taken'[i].type = STRING_ /\ taken'[i].to > length)
      BY <1>1 DEF Shut, Open
    <2> QED BY <1>4, <2>1 DEF Shut, Open
  <1>6. (\A i \in DOMAIN taken : ~Folded(taken[i]))' =>
            (\A i \in DOMAIN taken : ~Folded(taken[i])) /\ ~Folded(next)
    <2> SUFFICES ASSUME (\A i \in DOMAIN taken : ~Folded(taken[i]))'
                 PROVE  (\A i \in DOMAIN taken : ~Folded(taken[i])) /\ ~Folded(next)
      OBVIOUS
    <2>1. \A i \in DOMAIN taken' : ~(taken'[i].type = STRING_
                                       /\ Newlines(buffer, taken'[i].from, taken'[i].to) # {})
      BY <1>1 DEF Folded
    <2> QED BY <1>4, <2>1 DEF Folded
  <1>7. Stored'
    BY <1>1, <1>3 DEF Inv, Stored
  <1>8. IsToken(current)'
    <2>1. IsToken(next)
      BY DEF Inv, Placed
    <2> QED BY <1>1, <2>1 DEF IsToken
  <1>9. Bodied(buffer, current)'
    BY <1>1 DEF Inv, Bodied
  <1>10. Shut' => next.from <= length + 1 /\ (next.type # END => lexer.pos <= length + 1)
    BY <1>1, <1>5 DEF Inv, Inside
  <1>11. (\A i \in DOMAIN taken : ~Folded(taken[i]))' =>
             At(buffer, next) /\ (next.type # END => Here(buffer, lexer))
    BY <1>1, <1>2, <1>6 DEF Inv, Located
  <1>12. CASE next.type = END
    <2>1. lexer' = lexer /\ next' = next /\ current'.type = END
      BY <1>1, <1>12 DEF NextToken
    <2>2. Placed'
      <3>1. /\ lexer.pos \in 1 .. Len(buffer) + 2 /\ lexer.line \in Nat /\ lexer.column \in Nat
            /\ IsToken(next)
        BY DEF Inv, Placed
      <3>2. IsToken(next)'
        BY <1>1, <2>1, <3>1 DEF IsToken
      <3> QED BY <1>1, <1>8, <2>1, <3>1, <3>2 DEF Placed
    <2>3. Inside'
      BY <1>1, <1>10, <2>1 DEF Inside
    <2>4. Located'
      BY <1>1, <1>11, <2>1 DEF Located
    <2>5. Bodied(buffer, next)'
      BY <1>1, <2>1 DEF Inv, Bodied
    <2> QED BY <1>7, <1>9, <2>2, <2>3, <2>4, <2>5 DEF Inv
  <1>13. CASE next.type # END
    <2>1. PICK b : b = buffer
      OBVIOUS
    <2>2. PICK l : l = lexer
      OBVIOUS
    <2>3. PICK old : old = next
      OBVIOUS
    <2>4. PICK t : t = GetToken(b, l, old).t
      OBVIOUS
    <2>5. PICK k : k = GetToken(b, l, old).l
      OBVIOUS
    <2>6. next' = t /\ lexer' = k
      BY <1>13, <2>1, <2>2, <2>3, <2>4, <2>5 DEF NextToken
    <2>7. /\ l.pos \in 1 .. Len(b) + 1 /\ l.line \in Nat /\ l.column \in Nat
          /\ old.type \in Types /\ old.type # END
      <3>1. /\ l.pos \in 1 .. Len(b) + 2 /\ l.line \in Nat /\ l.column \in Nat
            /\ l.pos <= Len(b) + 1 /\ old.type \in Types
        BY <1>1, <1>13, <2>1, <2>2, <2>3 DEF Inv, Placed, IsToken
      <3>2. Len(b) \in Nat
        BY <1>2, <2>1, CharOK
      <3> QED BY <1>13, <2>3, <3>1, <3>2
    <2>8. PICK n : n = length
      OBVIOUS
    <2>9. Filled(b) /\ n \in Nat /\ n < Len(b) /\ Char(b, n + 1) = NUL
      BY <1>2, <2>1, <2>8
    <2>10. Reads(b, n, l, old, t, k)
      BY <2>4, <2>5, <2>7, <2>9, ReadOK
    <2>11. Placed'
      <3>1. Within(b, l, t, k)
        BY <2>10 DEF Reads
      <3>2. IsToken(next)'
        BY <1>1, <2>1, <2>6, <3>1 DEF Within, IsToken
      <3>3. /\ k.pos \in 1 .. Len(b) + 2 /\ k.line \in Nat /\ k.column \in Nat
            /\ t.type # END => k.pos <= Len(b) + 1
        BY <3>1 DEF Within
      <3> QED BY <1>1, <1>2, <1>3, <1>8, <2>1, <2>6, <3>2, <3>3 DEF Placed
    <2>12. Inside'
      <3> SUFFICES ASSUME Shut'
                   PROVE  /\ next.from <= n + 1
                          /\ t.from <= n + 1
                          /\ t.type # END /\ ~(t.type = STRING_ /\ t.to > n) => k.pos <= n + 1
        BY <1>1, <2>6, <2>8 DEF Inside, Open
      <3>1. next.from <= n + 1 /\ l.pos <= n + 1
        BY <1>10, <1>13, <2>2, <2>8
      <3>2. OnLine(n, l, t, k)
        BY <2>10 DEF Reads
      <3> QED BY <3>1, <3>2 DEF OnLine
    <2>13. Located'
      <3> SUFFICES ASSUME (\A i \in DOMAIN taken : ~Folded(taken[i]))'
                   PROVE  /\ At(b, next)
                          /\ At(b, t)
                          /\ t.type # END /\ ~(t.type = STRING_ /\ Newlines(b, t.from, t.to) # {})
                                 => Here(b, k)
        BY <1>1, <2>1, <2>6 DEF Located, Folded
      <3>1. At(b, next) /\ Here(b, l)
        BY <1>11, <1>13, <2>1, <2>2
      <3>2. Knows(b, l, t, k)
        BY <2>10 DEF Reads
      <3> QED BY <3>1, <3>2 DEF Knows
    <2>14. Bodied(buffer, next)'
      <3>1. Bodied(b, old)
        BY <2>1, <2>3 DEF Inv
      <3>2. Bodied(b, t)
        BY <2>10, <3>1 DEF Reads
      <3> QED BY <1>1, <2>1, <2>6, <3>2 DEF Bodied
    <2> QED BY <1>7, <1>9, <2>11, <2>12, <2>13, <2>14 DEF Inv
  <1> QED BY <1>12, <1>13

LEMMA StutterInv == Inv /\ UNCHANGED vars => Inv'
  <1> SUFFICES ASSUME Inv, UNCHANGED vars PROVE Inv'
    OBVIOUS
  <1>1. /\ lines' = lines /\ buffer' = buffer /\ length' = length /\ lexer' = lexer
        /\ current' = current /\ next' = next /\ taken' = taken
    BY DEF vars
  <1>2. Stored' /\ Placed'
    BY <1>1 DEF Inv, Stored, Placed, IsToken
  <1>3. Inside'
    BY <1>1 DEF Inv, Inside, Shut, Open
  <1>4. Located'
    BY <1>1 DEF Inv, Located, Folded
  <1>5. Bodied(buffer, current)' /\ Bodied(buffer, next)'
    BY <1>1 DEF Inv, Bodied
  <1> QED BY <1>2, <1>3, <1>4, <1>5 DEF Inv

LEMMA Invariance == Spec => []Inv
  <1>1. Inv /\ [Next]_vars => Inv'
    BY ReadLineInv, NextTokenInv, StutterInv DEF Next
  <1> QED BY InitInv, <1>1, PTL DEF Spec

----------------------------------------------------------------------------
(***************************************************************************)
(* Lexemes                                                                 *)
(***************************************************************************)

\* The line of n characters at the beginning of what fgets() has left in b.
Lined(b, n) ==
    /\ Filled(b) /\ n \in Nat /\ n < Len(b) /\ Char(b, n + 1) = NUL
    /\ \A i \in 1 .. n : Char(b, i) # NUL

LEMMA LinedOK ==
    ASSUME NEW b, NEW n, Lined(b, n)
    PROVE  /\ SubSeq(b, 1, n) \in Seq(Characters \cup {NUL}) /\ Len(SubSeq(b, 1, n)) = n
           /\ \A i \in 1 .. n : SubSeq(b, 1, n)[i] = Char(b, i)
  <1>1. b \in Seq(Characters \cup {NUL}) /\ n \in Nat /\ Len(b) \in Nat /\ n < Len(b)
    BY CharOK DEF Lined, Filled
  <1>2. \A i \in 1 .. n : i \in DOMAIN b /\ b[i] \in Characters \cup {NUL} /\ Char(b, i) = b[i]
    BY <1>1 DEF Char
  <1> QED BY <1>1, <1>2, SubSeqProperties

\* The word from i to j.
LEMMA WordOK ==
    ASSUME NEW b, NEW n, Lined(b, n), NEW i \in 1 .. n, NEW j \in i .. n
    PROVE  /\ SubSeq(SubSeq(b, 1, n), i, j) = Text(b, i, j)
           /\ n \in Nat /\ Len(Text(b, i, j)) = j - i + 1 /\ DOMAIN Text(b, i, j) = 1 .. j - i + 1
           /\ \A k \in 1 .. j - i + 1 : Text(b, i, j)[k] = Char(b, i + k - 1)
  <1>1. PICK s : s = SubSeq(b, 1, n)
    OBVIOUS
  <1>2. PICK S : S = Characters \cup {NUL}
    OBVIOUS
  <1>3. s \in Seq(S) /\ Len(s) = n /\ n \in Nat /\ \A k \in 1 .. n : s[k] = Char(b, k)
    BY <1>1, <1>2, LinedOK DEF Lined
  <1>4. \A k \in i .. j : k \in 1 .. n /\ k \in DOMAIN s /\ s[k] \in S
    BY <1>3
  <1>5. PICK w : w = SubSeq(s, i, j)
    OBVIOUS
  <1>6. /\ w \in Seq(S) /\ Len(w) = IF i <= j THEN j - i + 1 ELSE 0
        /\ \A k \in 1 .. j - i + 1 : w[k] = s[i + k - 1]
    BY <1>4, <1>5, SubSeqProperties
  <1>7. Len(w) = j - i + 1 /\ \A k \in 1 .. j - i + 1 : w[k] = Char(b, i + k - 1)
    BY <1>3, <1>6
  <1>8. w = [k \in 1 .. j - i + 1 |-> w[k]] /\ DOMAIN w = 1 .. j - i + 1
    BY <1>6, <1>7
  <1>9. Text(b, i, j) = w
    BY <1>7, <1>8 DEF Text
  <1> QED BY <1>1, <1>3, <1>5, <1>7, <1>8, <1>9

\* What the word from i to j is made of, in terms of the characters of the text.
LEMMA AllInOK ==
    ASSUME NEW b, NEW n, Lined(b, n), NEW i \in 1 .. n, NEW j \in i .. n, NEW S
    PROVE  AllIn(Text(b, i, j), S) <=> \A k \in i .. j : Char(b, k) \in S
  <1>1. n \in Nat
    BY DEF Lined
  <1>2. PICK w : w = Text(b, i, j)
    OBVIOUS
  <1>3. DOMAIN w = 1 .. j - i + 1 /\ \A k \in 1 .. j - i + 1 : w[k] = Char(b, i + k - 1)
    BY <1>2, WordOK
  <1>4. ASSUME AllIn(w, S), NEW k \in i .. j PROVE Char(b, k) \in S
    <2>1. k - i + 1 \in 1 .. j - i + 1 /\ i + (k - i + 1) - 1 = k
      BY <1>1
    <2>2. w[k - i + 1] \in S /\ w[k - i + 1] = Char(b, i + (k - i + 1) - 1)
      BY <1>3, <1>4, <2>1 DEF AllIn
    <2> QED BY <2>1, <2>2
  <1>5. ASSUME \A k \in i .. j : Char(b, k) \in S PROVE AllIn(w, S)
    <2>1. \A k \in 1 .. j - i + 1 : i + k - 1 \in i .. j
      BY <1>1
    <2> QED BY <1>3, <1>5, <2>1 DEF AllIn
  <1> QED BY <1>2, <1>4, <1>5

\* The first two characters of a word.
LEMMA HeadOK ==
    ASSUME NEW b, NEW n, Lined(b, n), NEW i \in 1 .. n, NEW j \in i .. n
    PROVE  /\ Text(b, i, j)[1] = Char(b, i)
           /\ Len(Text(b, i, j)) > 1 <=> i < j
           /\ i < j => Text(b, i, j)[2] = Char(b, i + 1)
           /\ Len(Text(b, i, j)) = 1 <=> i = j
  <1>1. n \in Nat /\ Len(Text(b, i, j)) = j - i + 1
        /\ \A k \in 1 .. j - i + 1 : Text(b, i, j)[k] = Char(b, i + k - 1)
    BY WordOK
  <1>2. 1 \in 1 .. j - i + 1 /\ i + 1 - 1 = i /\ (i < j => 2 \in 1 .. j - i + 1 /\ i + 2 - 1 = i + 1)
    BY <1>1
  <1> QED BY <1>1, <1>2

LEMMA CommentOK ==
    ASSUME NEW b, NEW n, Lined(b, n), NEW i \in 1 .. n, NEW j \in i .. n
    PROVE  IsComment(Text(b, i, j)) <=>
               /\ i < j /\ Pair(b, i) = <<"/", "/">>
               /\ \A k \in i .. j : Char(b, k) # "\n"
  <1>1. PICK w : w = Text(b, i, j)
    OBVIOUS
  <1>2. PICK S : S = {c \in Characters \cup {NUL} : c # "\n"}
    OBVIOUS
  <1>3. \A k \in i .. j : Char(b, k) \in Characters \cup {NUL}
    <2>1. n \in Nat /\ b \in Seq(Characters \cup {NUL}) /\ n < Len(b) /\ Len(b) \in Nat
      BY CharOK DEF Lined, Filled
    <2>2. \A k \in i .. j : k \in 1 .. Len(b) /\ Char(b, k) = b[k]
      BY <2>1 DEF Char
    <2> QED BY <2>1, <2>2
  <1>4. AllIn(w, S) <=> \A k \in i .. j : Char(b, k) # "\n"
    <2>1. AllIn(w, S) <=> \A k \in i .. j : Char(b, k) \in S
      BY <1>1, AllInOK
    <2> QED BY <1>2, <1>3, <2>1
  <1>5. AllIn(w, S) <=> \A k \in DOMAIN w : w[k] # "\n"
    <2>1. n \in Nat /\ DOMAIN w = 1 .. j - i + 1 /\ \A k \in 1 .. j - i + 1 : w[k] = Char(b, i + k - 1)
      BY <1>1, WordOK
    <2>2. \A k \in 1 .. j - i + 1 : i + k - 1 \in i .. j
      BY <2>1
    <2>3. \A k \in DOMAIN w : w[k] \in Characters \cup {NUL}
      BY <1>3, <2>1, <2>2
    <2> QED BY <1>2, <2>3 DEF AllIn
  <1>6. /\ w[1] = Char(b, i) /\ (Len(w) > 1 <=> i < j)
        /\ i < j => w[2] = Char(b, i + 1)
    BY <1>1, HeadOK
  <1>7. IsComment(w) <=> i < j /\ w[1] = "/" /\ w[2] = "/" /\ AllIn(w, S)
    BY <1>5, <1>6 DEF IsComment
  <1>8. Pair(b, i) = <<"/", "/">> <=> Char(b, i) = "/" /\ Char(b, i + 1) = "/"
    BY DEF Pair
  <1> QED BY <1>1, <1>4, <1>6, <1>7, <1>8

\* A string is closed by the first quote that has no backslash before it.
Quoted(b, i, j) ==
    /\ i < j /\ Char(b, i) = "\"" /\ Char(b, j) = "\"" /\ Char(b, j - 1) # "\\"
    /\ \A k \in i + 1 .. j - 1 : Char(b, k) = "\"" => Char(b, k - 1) = "\\"

LEMMA StringOK ==
    ASSUME NEW b, NEW n, Lined(b, n), NEW i \in 1 .. n, NEW j \in i .. n
    PROVE  IsString(Text(b, i, j)) <=> Quoted(b, i, j)
  <1>1. PICK w : w = Text(b, i, j)
    OBVIOUS
  <1>2. n \in Nat /\ Len(w) = j - i + 1 /\ \A k \in 1 .. j - i + 1 : w[k] = Char(b, i + k - 1)
    BY <1>1, WordOK
  <1>3. w[1] = Char(b, i) /\ (Len(w) > 1 <=> i < j)
    BY <1>1, HeadOK
  <1>4. CASE i = j
    <2>1. ~(i < j) /\ ~(Len(w) > 1)
      BY <1>2, <1>3, <1>4
    <2> QED BY <1>1, <2>1 DEF IsString, Quoted
  <1>5. CASE i < j
    <2>1. /\ j - i + 1 \in 1 .. j - i + 1 /\ i + (j - i + 1) - 1 = j
          /\ j - i \in 1 .. j - i + 1 /\ i + (j - i) - 1 = j - 1 /\ j - i + 1 - 1 = j - i
      BY <1>2, <1>5
    <2>2. w[Len(w)] = Char(b, j) /\ w[Len(w) - 1] = Char(b, j - 1)
      <3>1. PICK d : d = j - i + 1
        OBVIOUS
      <3>2. Len(w) = d /\ d \in 1 .. d /\ d - 1 \in 1 .. d /\ i + d - 1 = j /\ i + (d - 1) - 1 = j - 1
        BY <1>2, <2>1, <3>1
      <3>3. w[d] = Char(b, i + d - 1) /\ w[d - 1] = Char(b, i + (d - 1) - 1)
        BY <1>2, <3>1, <3>2
      <3> QED BY <3>2, <3>3
    <2>3. ASSUME \A k \in 2 .. Len(w) - 1 : w[k] = "\"" => w[k - 1] = "\\",
                 NEW m \in i + 1 .. j - 1, Char(b, m) = "\""
          PROVE  Char(b, m - 1) = "\\"
      <3>1. PICK k : k = m - i + 1
        OBVIOUS
      <3>2. /\ k \in 2 .. j - i /\ k \in 1 .. j - i + 1 /\ k - 1 \in 1 .. j - i + 1
            /\ i + k - 1 = m /\ i + (k - 1) - 1 = m - 1 /\ Len(w) - 1 = j - i
        BY <1>2, <3>1
      <3>3. w[k] = Char(b, m) /\ w[k - 1] = Char(b, m - 1)
        BY <1>2, <3>2
      <3> QED BY <2>3, <3>2, <3>3
    <2>4. ASSUME \A m \in i + 1 .. j - 1 : Char(b, m) = "\"" => Char(b, m - 1) = "\\",
                 NEW k \in 2 .. Len(w) - 1, w[k] = "\""
          PROVE  w[k - 1] = "\\"
      <3>1. PICK m : m = i + k - 1
        OBVIOUS
      <3>2. /\ m \in i + 1 .. j - 1 /\ k \in 1 .. j - i + 1 /\ k - 1 \in 1 .. j - i + 1
            /\ i + (k - 1) - 1 = m - 1
        BY <1>2, <3>1
      <3>3. w[k] = Char(b, m) /\ w[k - 1] = Char(b, m - 1)
        BY <1>2, <3>1, <3>2
      <3> QED BY <2>4, <3>2, <3>3
    <2> QED BY <1>1, <1>3, <1>5, <2>2, <2>3, <2>4 DEF IsString, Quoted
  <1>6. i <= j
    BY <1>2
  <1> QED BY <1>4, <1>5, <1>6

LEMMA DoubleWord ==
    ASSUME NEW b, NEW n, Lined(b, n), NEW i \in 1 .. n, NEW j \in i .. n
    PROVE  Text(b, i, j) \in Double <=> j = i + 1 /\ Pair(b, i) \in Double
  <1>1. PICK w : w = Text(b, i, j)
    OBVIOUS
  <1>2. n \in Nat /\ Len(w) = j - i + 1 /\ DOMAIN w = 1 .. j - i + 1
        /\ \A k \in 1 .. j - i + 1 : w[k] = Char(b, i + k - 1)
    BY <1>1, WordOK
  <1>3. ASSUME w \in Double PROVE j = i + 1 /\ Pair(b, i) \in Double
    <2>1. Len(w) = 2 /\ w = <<w[1], w[2]>>
      BY <1>3 DEF Double
    <2>2. j = i + 1
      <3>1. PICK d : d = Len(w)
        OBVIOUS
      <3>2. d = j - i + 1
        BY <1>2, <3>1
      <3>3. d = 2
        BY <2>1, <3>1
      <3>4. i \in Int /\ j \in Int
        BY <1>2
      <3> QED BY <3>2, <3>3, <3>4
    <2>3. w[1] = Char(b, i) /\ w[2] = Char(b, i + 1)
      BY <1>1, <1>2, <2>2, HeadOK
    <2> QED BY <1>3, <2>1, <2>2, <2>3 DEF Pair
  <1>4. ASSUME j = i + 1, Pair(b, i) \in Double PROVE w \in Double
    <2>1. w[1] = Char(b, i) /\ w[2] = Char(b, i + 1) /\ j - i + 1 = 2
      BY <1>1, <1>2, <1>4, HeadOK
    <2>2. w = [k \in 1 .. 2 |-> Char(b, i + k - 1)]
      BY <1>1, <2>1 DEF Text
    <2>3. w = <<w[1], w[2]>>
      BY <2>2
    <2> QED BY <1>4, <2>1, <2>3 DEF Pair
  <1> QED BY <1>1, <1>3, <1>4

\* The longest lexeme there is at i, in terms of the characters of the text.
Lexeme(b, i, j) ==
    \/ \A k \in i .. j : Char(b, k) \in Space
    \/ i < j /\ Pair(b, i) = <<"/", "/">> /\ \A k \in i .. j : Char(b, k) # "\n"
    \/ Quoted(b, i, j)
    \/ \A k \in i .. j : Char(b, k) \in Digits
    \/ Char(b, i) \in Letters /\ \A k \in i .. j : Char(b, k) \in Letters \cup Digits
    \/ j = i + 1 /\ Pair(b, i) \in Double
    \/ i = j

LEMMA LexemeOK ==
    ASSUME NEW b, NEW n, Lined(b, n), NEW i \in 1 .. n, NEW j \in i .. n
    PROVE  IsLexeme(SubSeq(SubSeq(b, 1, n), i, j)) <=> Lexeme(b, i, j)
  <1>1. PICK w : w = Text(b, i, j)
    OBVIOUS
  <1>2. w = SubSeq(SubSeq(b, 1, n), i, j)
    BY <1>1, WordOK
  <1>3. AllIn(w, Space) <=> \A k \in i .. j : Char(b, k) \in Space
    BY <1>1, AllInOK
  <1>4. AllIn(w, Digits) <=> \A k \in i .. j : Char(b, k) \in Digits
    BY <1>1, AllInOK
  <1>5. AllIn(w, Letters \cup Digits) <=> \A k \in i .. j : Char(b, k) \in Letters \cup Digits
    BY <1>1, AllInOK
  <1>6. IsComment(w) <=> i < j /\ Pair(b, i) = <<"/", "/">> /\ \A k \in i .. j : Char(b, k) # "\n"
    BY <1>1, CommentOK
  <1>7. IsString(w) <=> Quoted(b, i, j)
    BY <1>1, StringOK
  <1>8. w \in Double <=> j = i + 1 /\ Pair(b, i) \in Double
    BY <1>1, DoubleWord
  <1>9. w[1] = Char(b, i) /\ (Len(w) = 1 <=> i = j)
    BY <1>1, HeadOK
  <1> QED BY <1>2, <1>3, <1>4, <1>5, <1>6, <1>7, <1>8, <1>9 DEF IsLexeme, Lexeme

LEMMA LongestOK ==
    ASSUME NEW b, NEW n, Lined(b, n), NEW i \in 1 .. n
    PROVE  LET e == Longest(SubSeq(b, 1, n), i)
           IN  e \in i .. n /\ Lexeme(b, i, e) /\ \A j \in i .. n : j > e => ~Lexeme(b, i, j)
  <1>1. PICK s : s = SubSeq(b, 1, n)
    OBVIOUS
  <1>2. n \in Nat /\ Len(s) = n /\ i \in i .. n
    BY <1>1, LinedOK DEF Lined
  <1> DEFINE S == {j \in i .. Len(s) : IsLexeme(SubSeq(s, i, j))}
  <1>3. \A j \in i .. n : IsLexeme(SubSeq(s, i, j)) <=> Lexeme(b, i, j)
    BY <1>1, LexemeOK
  <1>4. S = {j \in i .. n : Lexeme(b, i, j)}
    BY <1>2, <1>3
  <1>5. Lexeme(b, i, i)
    BY DEF Lexeme
  <1>6. i \in S /\ S \in SUBSET (0 .. n) /\ S # {}
    BY <1>2, <1>4, <1>5
  <1>7. Longest(s, i) = Max(S)
    BY DEF Longest
  <1> HIDE DEF S
  <1>8. PICK e : e = Max(S)
    OBVIOUS
  <1>9. e \in S /\ \A j \in S : j <= e
    BY <1>2, <1>6, <1>8, MaxOK
  <1>10. e \in i .. n /\ Lexeme(b, i, e)
    BY <1>4, <1>9
  <1>11. ASSUME NEW j \in i .. n, j > e, Lexeme(b, i, j) PROVE FALSE
    <2>1. j <= e
      BY <1>4, <1>9, <1>11
    <2> QED BY <1>2, <1>10, <1>11, <2>1
  <1>12. Longest(SubSeq(b, 1, n), i) = e
    BY <1>1, <1>7, <1>8
  <1> QED BY <1>10, <1>11, <1>12

\* What is skipped from i to q.
Skips(b, i, q) ==
    /\ \A j \in i .. q - 1 : Char(b, j) \in Space \/ Commented(b, i, j)
    /\ \A j \in q .. Len(b) + 1 : Commented(b, i, j) => Commented(b, q, j)

LEMMA StartKept ==
    ASSUME NEW b, NEW n, Lined(b, n), NEW i \in 1 .. n, NEW q \in i .. n + 1, Skips(b, i, q)
    PROVE  TokenStart(b, i) = TokenStart(b, q)
  <1>1. Len(b) \in Nat /\ n \in Nat /\ n < Len(b)
    BY CharOK DEF Lined
  <1>2. i \in 1 .. Len(b) + 1 /\ q \in 1 .. Len(b) + 1
    BY <1>1
  <1>3. From(b, i) = i .. Len(b) + 1 /\ From(b, q) = q .. Len(b) + 1
    BY <1>2, FromOK DEF Lined
  <1>4. \A j \in q .. Len(b) + 1 : Commented(b, q, j) => Commented(b, i, j)
    <2>1. \A j \in q .. Len(b) + 1 : \A k \in q .. j : k \in i .. j
      BY <1>1, <1>2
    <2> QED BY <2>1 DEF Commented
  <1>5. \A j \in i .. Len(b) + 1 : j \in i .. q - 1 \/ j \in q .. Len(b) + 1
    BY <1>1, <1>2
  <1>6. \A j \in q .. Len(b) + 1 : j \in i .. Len(b) + 1
    BY <1>1, <1>2
  <1>7. {j \in From(b, i) : Char(b, j) \notin Space /\ ~Commented(b, i, j)}
          = {j \in From(b, q) : Char(b, j) \notin Space /\ ~Commented(b, q, j)}
    BY <1>3, <1>4, <1>5, <1>6 DEF Skips
  <1> QED BY <1>7 DEF TokenStart

\* e is the end of the longest lexeme at i.
Longs(b, n, i, e) ==
    e \in i .. n /\ Lexeme(b, i, e) /\ \A j \in i .. n : j > e => ~Lexeme(b, i, j)

\* Space and comments.
BlankAt(b, i) == Char(b, i) \in Space \/ Pair(b, i) = <<"/", "/">>

LEMMA Slashes == ASSUME NEW b, NEW i, Pair(b, i) = <<"/", "/">>
                 PROVE  /\ Char(b, i) = "/" /\ Char(b, i + 1) = "/"
                        /\ Char(b, i) \notin Space /\ Char(b, i) \notin Letters \cup Digits
                        /\ Pair(b, i) \notin Double
  <1>1. Char(b, i) = "/" /\ Char(b, i + 1) = "/"
    BY DEF Pair
  <1>2. "/" \in Single /\ "/" \notin Space
    BY DEF Single, Space
  <1>3. Pair(b, i) \notin Double
    BY DEF Double
  <1> QED BY <1>1, <1>2, <1>3, Apart

LEMMA SpaceSkipped ==
    ASSUME NEW b, NEW n, Lined(b, n), NEW i \in 1 .. n, NEW e, Longs(b, n, i, e),
           Char(b, i) \in Space
    PROVE  Skips(b, i, e + 1) /\ IsBlank(Text(b, i, e))
  <1>1. n \in Nat /\ e \in i .. n /\ e \in Nat /\ i \in Nat /\ i \in i .. e
    BY DEF Lined, Longs
  <1>2. Char(b, i) \notin Letters \cup Digits /\ Char(b, i) # "\"" /\ Char(b, i) # "/"
    BY Apart DEF Space
  <1>3. Pair(b, i) \notin Double /\ Pair(b, i) # <<"/", "/">>
    <2>1. Pair(b, i) \notin Double
      BY DoubleOK DEF Space
    <2> QED BY <2>1, Slashes
  <1>4. \A k \in i .. e : Char(b, k) \in Space
    <2>1. i = e => \A k \in i .. e : k = i
      BY <1>1
    <2>2. Lexeme(b, i, e)
      BY DEF Longs
    <2> QED BY <1>1, <1>2, <1>3, <2>1, <2>2 DEF Lexeme, Quoted
  <1>5. IsBlank(Text(b, i, e))
    BY <1>1, <1>4, AllInOK DEF IsBlank
  <1>6. ASSUME NEW j \in e + 1 .. Len(b) + 1, Commented(b, i, j) PROVE Commented(b, e + 1, j)
    <2>1. PICK k \in i .. j : /\ Pair(b, k) = <<"/", "/">>
                              /\ \A m \in k .. j : Char(b, m) \notin {"\n", NUL}
      BY <1>6 DEF Commented
    <2>2. Char(b, k) \notin Space
      BY <2>1, Slashes
    <2>3. Len(b) \in Nat
      BY CharOK DEF Lined
    <2>4. k \notin i .. e
      BY <1>4, <2>2
    <2>5. k \in e + 1 .. j
      BY <1>1, <2>3, <2>4
    <2> QED BY <2>1, <2>5 DEF Commented
  <1>7. PICK q : q = e + 1
    OBVIOUS
  <1>8. \A j \in i .. q - 1 : j \in i .. e
    BY <1>1, <1>7
  <1>9. Skips(b, i, q)
    BY <1>4, <1>6, <1>7, <1>8 DEF Skips
  <1> QED BY <1>5, <1>7, <1>9

LEMMA CommentSkipped ==
    ASSUME NEW b, NEW n, Lined(b, n), NEW i \in 1 .. n, NEW e, Longs(b, n, i, e),
           Pair(b, i) = <<"/", "/">>
    PROVE  Skips(b, i, e + 1) /\ IsBlank(Text(b, i, e))
  <1>1. n \in Nat /\ e \in i .. n /\ e \in Nat /\ i \in Nat /\ Lexeme(b, i, e)
    BY DEF Lined, Longs
  <1>2. /\ Char(b, i) = "/" /\ Char(b, i + 1) = "/" /\ Char(b, i) \notin Space
        /\ Char(b, i) \notin Letters \cup Digits /\ Pair(b, i) \notin Double
    BY Slashes
  <1>3. Char(b, n + 1) = NUL /\ \A k \in 1 .. n : Char(b, k) # NUL
    BY DEF Lined
  <1>4. i + 1 \in i .. n
    <2>1. i # n
      BY <1>2, <1>3 DEF NUL
    <2> QED BY <1>1, <2>1
  <1>5. e # i
    <2>1. \A k \in i .. i + 1 : k = i \/ k = i + 1
      BY <1>1
    <2>2. Lexeme(b, i, i + 1)
      BY <1>1, <1>2, <2>1 DEF Lexeme
    <2>3. ~(i + 1 > e)
      BY <1>4, <2>2 DEF Longs
    <2> QED BY <1>1, <2>3
  <1>6. i < e /\ \A k \in i .. e : Char(b, k) # "\n"
    <2>1. i < e /\ i \in i .. e
      BY <1>1, <1>5
    <2> QED BY <1>1, <1>2, <1>5, <2>1 DEF Lexeme, Quoted
  <1>7. Char(b, e + 1) \in {"\n", NUL}
    <2> SUFFICES ASSUME Char(b, e + 1) # "\n", e # n PROVE FALSE
      BY <1>3
    <2>1. e + 1 \in i .. n /\ e + 1 > e /\ i < e + 1
      BY <1>1
    <2>2. \A k \in i .. e + 1 : k \in i .. e \/ k = e + 1
      BY <1>1
    <2>3. Lexeme(b, i, e + 1)
      BY <1>6, <2>1, <2>2 DEF Lexeme
    <2> QED BY <2>1, <2>3 DEF Longs
  <1>8. IsBlank(Text(b, i, e))
    BY <1>1, <1>6, CommentOK DEF IsBlank
  <1>9. ASSUME NEW j \in i .. e PROVE Commented(b, i, j)
    <2>1. i \in i .. j /\ \A m \in i .. j : m \in i .. e /\ m \in 1 .. n
      BY <1>1
    <2> QED BY <1>3, <1>6, <2>1 DEF Commented
  <1>10. ASSUME NEW j \in e + 1 .. Len(b) + 1, Commented(b, i, j) PROVE Commented(b, e + 1, j)
    <2>1. PICK k \in i .. j : /\ Pair(b, k) = <<"/", "/">>
                              /\ \A m \in k .. j : Char(b, m) \notin {"\n", NUL}
      BY <1>10 DEF Commented
    <2>2. Len(b) \in Nat
      BY CharOK DEF Lined
    <2>3. e + 1 \notin k .. j
      BY <1>7, <2>1
    <2>4. k \in e + 1 .. j
      BY <1>1, <2>2, <2>3
    <2> QED BY <2>1, <2>4 DEF Commented
  <1>11. PICK q : q = e + 1
    OBVIOUS
  <1>12. \A j \in i .. q - 1 : j \in i .. e
    BY <1>1, <1>11
  <1>13. Skips(b, i, q)
    BY <1>9, <1>10, <1>11, <1>12 DEF Skips
  <1> QED BY <1>8, <1>11, <1>13

\* Where a lexeme that is not blank begins.
LEMMA NotSkipped ==
    ASSUME NEW b, NEW n, Lined(b, n), NEW i \in 1 .. n, NEW e \in i .. n, ~BlankAt(b, i)
    PROVE  TokenStart(b, i) = i /\ ~IsBlank(Text(b, i, e))
  <1>1. Len(b) \in Nat /\ n \in Nat /\ n < Len(b) /\ i \in 1 .. Len(b) + 1 /\ i \in i .. e
    BY CharOK DEF Lined
  <1>2. From(b, i) = i .. Len(b) + 1
    BY <1>1, FromOK DEF Lined
  <1> DEFINE P == {j \in From(b, i) : Char(b, j) \notin Space /\ ~Commented(b, i, j)}
  <1>3. ~Commented(b, i, i)
    <2>1. \A k \in i .. i : k = i
      BY <1>1
    <2> QED BY <2>1 DEF BlankAt, Commented
  <1>4. i \in P /\ P \in SUBSET From(b, i)
    BY <1>1, <1>2, <1>3 DEF BlankAt
  <1>5. TokenStart(b, i) = Min(P)
    BY DEF TokenStart
  <1> HIDE DEF P
  <1>6. Min(P) \in i .. i
    BY <1>1, <1>4, FirstOK DEF Lined
  <1>7. ~AllIn(Text(b, i, e), Space)
    BY <1>1, AllInOK DEF BlankAt
  <1>8. ~IsComment(Text(b, i, e))
    BY CommentOK DEF BlankAt
  <1> QED BY <1>1, <1>5, <1>6, <1>7, <1>8 DEF IsBlank

LEMMA BeginOK ==
    ASSUME NEW b, NEW n, Lined(b, n), NEW p \in 1 .. n + 1
    PROVE  TokenStart(b, p) \in p .. n + 1 /\ ~BlankAt(b, TokenStart(b, p))
  <1>1. Len(b) \in Nat /\ n \in Nat /\ n < Len(b) /\ p \in 1 .. Len(b) + 1 /\ Char(b, n + 1) = NUL
    BY CharOK DEF Lined
  <1>2. From(b, p) = p .. Len(b) + 1
    BY <1>1, FromOK DEF Lined
  <1> DEFINE P == {j \in From(b, p) : Char(b, j) \notin Space /\ ~Commented(b, p, j)}
  <1>3. n + 1 \in P
    <2>1. ~Commented(b, p, n + 1)
      <3>1. \A k \in p .. n + 1 : n + 1 \in k .. n + 1
        BY <1>1
      <3> QED BY <1>1, <3>1 DEF Commented
    <2>2. n + 1 \in From(b, p)
      BY <1>1, <1>2
    <2> QED BY <1>1, <2>1, <2>2 DEF Space, NUL
  <1>4. P \in SUBSET From(b, p) /\ \A j \in P : Char(b, j) \notin Space /\ ~Commented(b, p, j)
    OBVIOUS
  <1>5. PICK t : t = TokenStart(b, p)
    OBVIOUS
  <1>6. t = Min(P)
    BY <1>5 DEF TokenStart
  <1> HIDE DEF P
  <1>7. Min(P) \in P /\ Min(P) \in p .. n + 1
    BY <1>1, <1>3, <1>4, FirstOK DEF Lined
  <1>8. t \in p .. n + 1 /\ Char(b, t) \notin Space /\ ~Commented(b, p, t)
    BY <1>4, <1>6, <1>7
  <1>9. ASSUME Pair(b, t) = <<"/", "/">> PROVE FALSE
    <2>1. Char(b, t) = "/"
      BY <1>9, Slashes
    <2>2. t \in p .. t /\ \A m \in t .. t : m = t
      BY <1>1, <1>8
    <2>3. Commented(b, p, t)
      BY <1>9, <2>1, <2>2 DEF Commented, NUL
    <2> QED BY <1>8, <2>3
  <1> QED BY <1>5, <1>8, <1>9 DEF BlankAt

\* The lexer reads the longest lexeme, when it is one it has a token for.
LEMMA DoubleEnd ==
    ASSUME NEW b, NEW n, Lined(b, n), NEW i \in 1 .. n, NEW e, Longs(b, n, i, e),
           Pair(b, i) \in Double
    PROVE  TokenEnd(b, i) = e
  <1>1. n \in Nat /\ e \in i .. n /\ e \in Nat /\ i \in Nat /\ Lexeme(b, i, e) /\ i \in i .. e
    BY DEF Lined, Longs
  <1>2. /\ Char(b, i) \in {"=", "!", "<", ">", "|", "&"}
        /\ ~Ends(Char(b, i)) /\ ~Ends(Char(b, i + 1))
    BY DoubleOK
  <1>3. Char(b, i) \notin Letters \cup Digits \cup {"\"", "/"} \cup Space
    BY <1>2, Apart DEF Single, Space
  <1>4. TokenEnd(b, i) = i + 1
    BY <1>3 DEF TokenEnd
  <1>5. i + 1 \in i .. n
    <2>1. Char(b, n + 1) = NUL
      BY DEF Lined
    <2>2. i # n
      BY <1>2, <2>1 DEF Ends
    <2> QED BY <1>1, <2>2
  <1>6. Lexeme(b, i, i + 1)
    BY DEF Lexeme
  <1>7. ~(i + 1 > e)
    BY <1>5, <1>6 DEF Longs
  <1>8. e = i + 1
    <2>1. e # i
      BY <1>1, <1>7
    <2>2. Pair(b, i) # <<"/", "/">>
      BY Slashes
    <2> QED BY <1>1, <1>3, <2>1, <2>2 DEF Lexeme, Quoted
  <1> QED BY <1>4, <1>8

QuoteAt(b, i) == Char(b, i) = "\""

LEMMA StringEnds ==
    ASSUME NEW b, NEW n, Lined(b, n), NEW i \in 1 .. n, NEW e, Longs(b, n, i, e),
           QuoteAt(b, i), Fits(Text(b, i, e))
    PROVE  TokenEnd(b, i) = e /\ Quoted(b, i, e)
  <1>1. n \in Nat /\ e \in i .. n /\ e \in Nat /\ i \in Nat /\ Lexeme(b, i, e) /\ i \in i .. e
    BY DEF Lined, Longs
  <1>2. /\ Char(b, i) \notin Letters \cup Digits /\ Char(b, i) \notin Space
        /\ Pair(b, i) \notin Double /\ Pair(b, i) # <<"/", "/">>
    BY Apart, DoubleOK, Slashes DEF Space, QuoteAt
  <1>3. e # i
    <2> SUFFICES ASSUME e = i PROVE FALSE
      OBVIOUS
    <2>1. i - i + 1 = 1 /\ i + 1 - 1 = i
      BY <1>1
    <2>2. \A k \in 1 .. 1 : i + k - 1 = i
      BY <1>1
    <2>3. Text(b, i, i) = [k \in 1 .. 1 |-> Char(b, i)]
      BY <2>1, <2>2 DEF Text
    <2>4. Text(b, i, i) = <<Char(b, i)>>
      BY <2>3
    <2> QED BY <2>4 DEF Fits, QuoteAt
  <1>4. Quoted(b, i, e)
    BY <1>1, <1>2, <1>3 DEF Lexeme
  <1>5. TokenEnd(b, i) = StringEnd(b, i + 1)
    BY <1>2 DEF TokenEnd, QuoteAt
  <1>6. Len(b) \in Nat /\ n < Len(b) /\ i + 1 \in 1 .. Len(b) + 1 /\ e \in i + 1 .. Len(b) + 1
    <2>1. i < e
      BY <1>4 DEF Quoted
    <2>2. Len(b) \in Nat /\ n < Len(b)
      BY CharOK DEF Lined
    <2> QED BY <1>1, <2>1, <2>2
  <1> DEFINE P == {j \in From(b, i + 1) : \/ Char(b, j) = NUL
                                          \/ Char(b, j) = "\"" /\ Char(b, j - 1) # "\\"}
  <1>7. From(b, i + 1) = i + 1 .. Len(b) + 1
    BY <1>6, FromOK DEF Lined
  <1>8. e \in P /\ P \in SUBSET From(b, i + 1)
    BY <1>4, <1>6, <1>7 DEF Quoted
  <1>9. \A j \in P : Char(b, j) = NUL \/ (Char(b, j) = "\"" /\ Char(b, j - 1) # "\\")
    OBVIOUS
  <1>10. StringEnd(b, i + 1) = Min(P)
    BY DEF StringEnd
  <1> HIDE DEF P
  <1>11. PICK m : m = Min(P)
    OBVIOUS
  <1>12. m \in P /\ m \in i + 1 .. e
    BY <1>6, <1>8, <1>11, FirstOK DEF Lined
  <1>13. m = e
    <2> SUFFICES ASSUME m # e PROVE FALSE
      OBVIOUS
    <2>1. m \in 1 .. n /\ m \in i + 1 .. e - 1
      BY <1>1, <1>12
    <2>2. Char(b, m) # NUL
      BY <2>1 DEF Lined
    <2> QED BY <1>4, <1>9, <1>12, <2>1, <2>2 DEF Quoted
  <1> QED BY <1>4, <1>5, <1>10, <1>11, <1>13

LEMMA RunEnds ==
    ASSUME NEW b, NEW n, Lined(b, n), NEW i \in 1 .. n, NEW e \in i .. n,
           NEW S \in SUBSET (Letters \cup Digits), \A k \in i .. e : Char(b, k) \in S,
           Char(b, e + 1) \notin S, Fits(Text(b, i, e))
    PROVE  RunEnd(b, i, S) = e
  <1>1. n \in Nat /\ e \in Nat /\ i \in Nat /\ i <= e
    BY DEF Lined
  <1>2. Len(b) \in Nat /\ n < Len(b) /\ i \in 1 .. Len(b) + 1 /\ e + 1 \in i .. Len(b) + 1
    BY <1>1, CharOK DEF Lined
  <1> DEFINE P == {j \in From(b, i) : Char(b, j) \notin S}
             Q == {e, i + MaxIdent - 2}
  <1>3. From(b, i) = i .. Len(b) + 1
    BY <1>2, FromOK DEF Lined
  <1>4. e + 1 \in P /\ P \in SUBSET From(b, i) /\ \A j \in P : Char(b, j) \notin S
    BY <1>2, <1>3
  <1>5. Leave(b, i, S) = Min(P)
    BY DEF Leave
  <1> HIDE DEF P
  <1>6. PICK m : m = Min(P)
    OBVIOUS
  <1>7. m \in P /\ m \in i .. e + 1
    BY <1>2, <1>4, <1>6, FirstOK DEF Lined
  <1>8. m \notin i .. e
    BY <1>4, <1>7
  <1>9. m = e + 1 /\ m - 1 = e
    BY <1>1, <1>7, <1>8
  <1>10. RunEnd(b, i, S) = Min(Q)
    BY <1>5, <1>6, <1>9 DEF RunEnd
  <1>11. e - i + 1 < MaxIdent
    <2>1. \A k \in i .. e : Char(b, k) \in Letters \cup Digits
      OBVIOUS
    <2>2. AllIn(Text(b, i, e), Letters \cup Digits)
      BY <2>1, AllInOK
    <2>3. Len(Text(b, i, e)) = e - i + 1
      BY WordOK
    <2> QED BY <2>2, <2>3 DEF Fits
  <1>12. MaxIdent \in Nat /\ i + MaxIdent - 2 \in Nat /\ e <= i + MaxIdent - 2
    BY <1>1, <1>11, MaxIdentAssumption
  <1>13. Q \in SUBSET Nat /\ Q # {} /\ e \in Q /\ \A q \in Q : e <= q
    BY <1>1, <1>12
  <1> HIDE DEF Q
  <1>14. PICK q : q = Min(Q)
    OBVIOUS
  <1>15. q \in Q /\ q <= e
    BY <1>13, <1>14, MinOK
  <1>16. e <= q /\ q \in Nat
    BY <1>13, <1>15
  <1>17. q = e
    BY <1>1, <1>15, <1>16
  <1> QED BY <1>10, <1>14, <1>17

\* The character behind the longest word of characters of S.
LEMMA RunStops ==
    ASSUME NEW b, NEW n, Lined(b, n), NEW i \in 1 .. n, NEW e \in i .. n,
           NEW S \in SUBSET (Letters \cup Digits), \A k \in i .. e : Char(b, k) \in S,
           \A j \in i .. n : j > e => \E k \in i .. j : Char(b, k) \notin S
    PROVE  Char(b, e + 1) \notin S
  <1>1. n \in Nat /\ e \in Nat /\ i \in Nat /\ i <= e /\ Char(b, n + 1) = NUL
    BY DEF Lined
  <1>2. CASE e = n
    BY <1>1, <1>2, Apart
  <1>3. CASE e # n
    <2>1. e + 1 \in i .. n /\ e + 1 > e
      BY <1>1, <1>3
    <2>2. PICK k \in i .. e + 1 : Char(b, k) \notin S
      BY <2>1
    <2>3. k = e + 1
      BY <1>1, <2>2
    <2> QED BY <2>2, <2>3
  <1> QED BY <1>2, <1>3

LEMMA WordEnds ==
    ASSUME NEW b, NEW n, Lined(b, n), NEW i \in 1 .. n, NEW e, Longs(b, n, i, e),
           Char(b, i) \in Letters \cup Digits, Fits(Text(b, i, e))
    PROVE  TokenEnd(b, i) = e
  <1>1. n \in Nat /\ e \in i .. n /\ e \in Nat /\ i \in Nat /\ Lexeme(b, i, e) /\ i \in i .. e
    BY DEF Lined, Longs
  <1>2. /\ Char(b, i) \notin Space /\ Pair(b, i) \notin Double /\ ~QuoteAt(b, i)
        /\ Pair(b, i) # <<"/", "/">>
    BY Apart, DoubleOK, Slashes DEF Single, QuoteAt
  <1>3. i = e => \A k \in i .. e : k = i
    BY <1>1
  <1>4. CASE Char(b, i) \in Letters
    <2>1. Char(b, i) \notin Digits
      BY <1>4, Apart
    <2>2. \A k \in i .. e : Char(b, k) \in Letters \cup Digits
      BY <1>1, <1>2, <1>3, <1>4, <2>1 DEF Lexeme, Quoted, QuoteAt
    <2>3. ASSUME NEW j \in i .. n, j > e PROVE \E k \in i .. j : Char(b, k) \notin Letters \cup Digits
      BY <1>4, <2>3 DEF Longs, Lexeme
    <2>4. Char(b, e + 1) \notin Letters \cup Digits
      BY <1>1, <2>2, <2>3, RunStops
    <2>5. RunEnd(b, i, Letters \cup Digits) = e
      BY <1>1, <2>2, <2>4, RunEnds
    <2> QED BY <1>2, <1>4, <2>1, <2>5 DEF TokenEnd, QuoteAt
  <1>5. CASE Char(b, i) \in Digits
    <2>1. Char(b, i) \notin Letters
      BY <1>5, Apart
    <2>2. \A k \in i .. e : Char(b, k) \in Digits
      BY <1>1, <1>2, <1>3, <1>5, <2>1 DEF Lexeme, Quoted, QuoteAt
    <2>3. ASSUME NEW j \in i .. n, j > e PROVE \E k \in i .. j : Char(b, k) \notin Digits
      BY <2>3 DEF Longs, Lexeme
    <2>4. Char(b, e + 1) \notin Digits
      BY <1>1, <2>2, <2>3, RunStops
    <2>5. RunEnd(b, i, Digits) = e
      BY <1>1, <2>2, <2>4, RunEnds
    <2> QED BY <1>2, <1>5, <2>1, <2>5 DEF TokenEnd, QuoteAt
  <1> QED BY <1>4, <1>5

LEMMA OtherEnds ==
    ASSUME NEW b, NEW n, Lined(b, n), NEW i \in 1 .. n, NEW e, Longs(b, n, i, e),
           ~BlankAt(b, i), Pair(b, i) \notin Double, ~QuoteAt(b, i),
           Char(b, i) \notin Letters \cup Digits
    PROVE  TokenEnd(b, i) = e /\ e = i
  <1>1. n \in Nat /\ e \in i .. n /\ i \in Nat /\ Lexeme(b, i, e) /\ i \in i .. e
    BY DEF Lined, Longs
  <1>2. TokenEnd(b, i) = i
    BY DEF TokenEnd, QuoteAt
  <1>3. e = i
    BY <1>1 DEF Lexeme, Quoted, QuoteAt, BlankAt
  <1> QED BY <1>2, <1>3

LEMMA EndAgrees ==
    ASSUME NEW b, NEW n, Lined(b, n), NEW i \in 1 .. n, NEW e, Longs(b, n, i, e),
           ~BlankAt(b, i), Fits(Text(b, i, e))
    PROVE  TokenEnd(b, i) = e
  BY DoubleEnd, StringEnds, WordEnds, OtherEnds

\* A word that begins like an operator of two characters is one.
LEMMA PairTaken ==
    ASSUME NEW b, NEW n, Lined(b, n), NEW i \in 1 .. n, NEW e, Longs(b, n, i, e),
           Pair(b, i) \in Double
    PROVE  Text(b, i, e) \in Double
  <1>1. n \in Nat /\ e \in i .. n /\ i \in Nat
    BY DEF Lined, Longs
  <1>2. TokenEnd(b, i) = e
    BY DoubleEnd
  <1>3. /\ Char(b, i) \in {"=", "!", "<", ">", "|", "&"}
        /\ ~Ends(Char(b, i)) /\ ~Ends(Char(b, i + 1))
    BY DoubleOK
  <1>4. Char(b, i) \notin Letters \cup Digits \cup {"\"", "/"} \cup Space
    BY <1>3, Apart DEF Single, Space
  <1>5. TokenEnd(b, i) = i + 1
    BY <1>4 DEF TokenEnd
  <1> QED BY <1>1, <1>2, <1>5, DoubleWord

LEMMA KeywordOK ==
    ASSUME NEW b, NEW n, Lined(b, n), NEW i \in 1 .. n, NEW e \in i .. n
    PROVE  Text(b, i, e) \in Keywords => Char(b, i) \in Letters \cup Digits
  <1>1. DOMAIN Text(b, i, e) = 1 .. e - i + 1 /\ Text(b, i, e)[1] = Char(b, i)
    BY WordOK, HeadOK
  <1>2. n \in Nat /\ 1 \in 1 .. e - i + 1
    BY DEF Lined
  <1>3. \A K \in Keywords : K \in Seq(Letters \cup Digits)
    BY CharacterAssumption
  <1> QED BY <1>1, <1>2, <1>3

\* A token has the type of its word.
LEMMA TypeAgrees ==
    ASSUME NEW b, NEW n, Lined(b, n), NEW i \in 1 .. n, NEW e, Longs(b, n, i, e),
           ~BlankAt(b, i), Fits(Text(b, i, e)), NEW old
    PROVE  TypeOf(b, i, e, old) = KindOf(Text(b, i, e))
  <1>1. n \in Nat /\ e \in i .. n /\ i \in Nat
    BY DEF Lined, Longs
  <1>2. PICK w : w = Text(b, i, e)
    OBVIOUS
  <1>3. PICK c : c = Char(b, i)
    OBVIOUS
  <1>4. w[1] = c /\ (Len(w) = 1 <=> i = e)
    BY <1>1, <1>2, <1>3, HeadOK
  <1>5. c # NUL /\ c \notin Space
    BY <1>3 DEF Lined, BlankAt
  <1>6. w \in Double => c \in {"=", "!", "<", ">", "|", "&"}
    BY <1>4 DEF Double
  <1>7. w \in Keywords => c \in Letters \cup Digits
    BY <1>1, <1>2, <1>3, KeywordOK
  <1>8. c \in Letters \cup Digits => c \notin Single /\ c \notin {"|", "&", "\"", NUL}
    BY Apart
  <1>9. c \in Letters => c \notin Digits
    BY Apart
  <1>10. IsString(w) => c = "\""
    BY <1>4 DEF IsString
  <1>11. w \notin Double /\ c \in Single \cup {"|", "&"} => e = i
    <2> SUFFICES ASSUME w \notin Double, c \in Single \cup {"|", "&"} PROVE e = i
      OBVIOUS
    <2>1. Pair(b, i) \notin Double
      BY <1>2, PairTaken
    <2>2. ~QuoteAt(b, i) /\ c \notin Letters \cup Digits
      BY <1>3, <1>8 DEF QuoteAt, Single
    <2> QED BY <1>3, <2>1, <2>2, OtherEnds
  <1>12. e = i => w = <<c>>
    <2> SUFFICES ASSUME e = i PROVE w = <<c>>
      OBVIOUS
    <2>1. i - i + 1 = 1 /\ \A k \in 1 .. 1 : i + k - 1 = i
      BY <1>1
    <2>2. Text(b, i, i) = [k \in 1 .. 1 |-> Char(b, i)]
      BY <2>1 DEF Text
    <2>3. Text(b, i, i) = <<Char(b, i)>>
      BY <2>2
    <2> QED BY <1>2, <1>3, <2>3
  <1>13. TypeOf(b, i, e, old) =
            CASE w \in Double \cup Keywords            -> w
              [] w \notin Double /\ c \in Single       -> <<c>>
              [] w \notin Double /\ c \in {"|", "&"}   -> old
              [] c = "\""                              -> STRING_
              [] w \notin Keywords /\ c \in Letters    -> IDENT
              [] w \notin Keywords /\ c \in Digits     -> INT
              [] c = NUL                               -> END
              [] OTHER                                 -> ILLEGAL
    BY <1>2, <1>3 DEF TypeOf
  <1>14. CASE w \in Double
    <2>1. c \notin Letters \cup Digits /\ w \notin Keywords /\ c # "\""
      BY <1>6, <1>7, <1>8, <1>14 DEF Single
    <2>2. KindOf(w) = w
      BY <1>4, <1>10, <1>14, <2>1 DEF KindOf
    <2>3. TypeOf(b, i, e, old) = w
      BY <1>5, <1>13, <1>14, <2>1
    <2> QED BY <1>2, <2>2, <2>3
  <1>15. CASE w \in Keywords
    <2>1. c \in Letters \cup Digits /\ c \notin Single /\ c \notin {"|", "&", "\"", NUL} /\ w \notin Double
      BY <1>6, <1>7, <1>8, <1>15 DEF Single
    <2>2. KindOf(w) = w
      BY <1>4, <1>10, <1>15, <2>1 DEF KindOf
    <2>3. TypeOf(b, i, e, old) = w
      BY <1>13, <1>15, <2>1
    <2> QED BY <1>2, <2>2, <2>3
  <1>16. CASE w \notin Double \cup Keywords /\ c \in Single
    <2>1. c \notin Letters \cup Digits /\ c \notin {"|", "&", "\"", NUL}
      BY <1>8, <1>16 DEF Single, NUL
    <2>2. w = <<c>> /\ Len(w) = 1
      BY <1>4, <1>11, <1>12, <1>16
    <2>3. KindOf(w) = w
      BY <1>4, <1>10, <1>16, <2>1, <2>2 DEF KindOf
    <2>4. TypeOf(b, i, e, old) = <<c>>
      BY <1>13, <1>16, <2>1
    <2> QED BY <1>2, <2>2, <2>3, <2>4
  <1>17. CASE w \notin Double \cup Keywords /\ c \in {"|", "&"}
    <2>1. w = <<c>>
      BY <1>11, <1>12, <1>17
    <2> QED BY <1>2, <1>17, <2>1 DEF Fits
  <1>18. CASE w \notin Double \cup Keywords /\ c = "\""
    <2>1. c \notin Letters \cup Digits /\ c \notin Single /\ c \notin {"|", "&", NUL}
      BY <1>8, <1>18 DEF Single, NUL
    <2>2. QuoteAt(b, i)
      BY <1>3, <1>18 DEF QuoteAt
    <2>3. IsString(w)
      BY <1>1, <1>2, <2>2, StringEnds, StringOK
    <2>4. KindOf(w) = STRING_
      BY <1>4, <1>18, <2>1, <2>3 DEF KindOf
    <2>5. TypeOf(b, i, e, old) = STRING_
      BY <1>13, <1>18, <2>1
    <2> QED BY <1>2, <2>4, <2>5
  <1>19. CASE w \notin Double \cup Keywords /\ c \in Letters
    <2>1. KindOf(w) = IDENT
      BY <1>4, <1>8, <1>9, <1>10, <1>19 DEF KindOf
    <2>2. TypeOf(b, i, e, old) = IDENT
      BY <1>8, <1>9, <1>13, <1>19
    <2> QED BY <1>2, <2>1, <2>2
  <1>20. CASE w \notin Double \cup Keywords /\ c \in Digits
    <2>1. KindOf(w) = INT
      BY <1>4, <1>8, <1>9, <1>10, <1>20 DEF KindOf
    <2>2. TypeOf(b, i, e, old) = INT
      BY <1>8, <1>9, <1>13, <1>20
    <2> QED BY <1>2, <2>1, <2>2
  <1>21. CASE /\ w \notin Double \cup Keywords
              /\ c \notin Single \cup {"|", "&", "\""} \cup Letters \cup Digits
    <2>1. KindOf(w) = ILLEGAL
      BY <1>4, <1>10, <1>21 DEF KindOf
    <2>2. TypeOf(b, i, e, old) = ILLEGAL
      BY <1>5, <1>13, <1>21
    <2> QED BY <1>2, <2>1, <2>2
  <1> QED BY <1>14, <1>15, <1>16, <1>17, <1>18, <1>19, <1>20, <1>21

----------------------------------------------------------------------------
(***************************************************************************)
(* The cut of a line                                                       *)
(***************************************************************************)

\* A function on 1 .. n + 1 that is defined at each i < n + 1 by its value at a later place,
\* J[i] + 1: there is one.
CutFrom(n, m, H, J, f) ==
    f = [i \in m .. n + 1 |-> IF i = n + 1 THEN << >> ELSE H[i] \o f[J[i] + 1]]

LEMMA CutExists ==
    ASSUME NEW n \in Nat, NEW H, NEW J, \A i \in 1 .. n : J[i] \in i .. n
    PROVE  \E f : CutFrom(n, 1, H, J, f)
  <1> DEFINE Bad == {m \in 0 .. n : ~\E f : CutFrom(n, n + 1 - m, H, J, f)}
  <1> SUFFICES ASSUME ~\E f : CutFrom(n, 1, H, J, f) PROVE FALSE
    OBVIOUS
  <1>1. n \in 0 .. n /\ n + 1 - n = 1
    OBVIOUS
  <1>2. n \in Bad /\ Bad \in SUBSET Nat
    BY <1>1
  <1>3. \A m \in Bad : m \in 0 .. n /\ ~\E f : CutFrom(n, n + 1 - m, H, J, f)
    OBVIOUS
  <1>4. \A m \in 0 .. n : m \notin Bad => \E f : CutFrom(n, n + 1 - m, H, J, f)
    OBVIOUS
  <1> HIDE DEF Bad
  <1>5. PICK m : m = Min(Bad)
    OBVIOUS
  <1>6. m \in Bad /\ \A k \in Bad : m <= k
    BY <1>2, <1>5, MinOK
  <1>7. m \in 0 .. n /\ ~\E f : CutFrom(n, n + 1 - m, H, J, f)
    BY <1>3, <1>6
  <1>8. CASE m = 0
    <2> DEFINE f == [i \in n + 1 .. n + 1 |-> << >>]
    <2>1. \A i \in n + 1 .. n + 1 : i = n + 1
      OBVIOUS
    <2>2. f = [i \in n + 1 .. n + 1 |-> IF i = n + 1 THEN << >> ELSE H[i] \o f[J[i] + 1]]
      BY <2>1
    <2>3. CutFrom(n, n + 1, H, J, f)
      BY <2>2 DEF CutFrom
    <2>4. n + 1 - m = n + 1
      BY <1>8
    <2> QED BY <1>7, <2>3, <2>4
  <1>9. CASE m # 0
    <2>1. m - 1 \in 0 .. n /\ ~(m <= m - 1)
      BY <1>7, <1>9
    <2>2. m - 1 \notin Bad
      BY <1>6, <2>1
    <2>3. PICK a : a = n + 1 - m
      OBVIOUS
    <2>4. a \in 1 .. n /\ n + 1 - (m - 1) = a + 1
      BY <1>7, <1>9, <2>3
    <2>5. PICK g : CutFrom(n, a + 1, H, J, g)
      BY <1>4, <2>1, <2>2, <2>4
    <2> DEFINE f == [i \in a .. n + 1 |-> IF i = a THEN H[a] \o g[J[a] + 1] ELSE g[i]]
    <2>6. \A i \in a + 1 .. n + 1 : g[i] = IF i = n + 1 THEN << >> ELSE H[i] \o g[J[i] + 1]
      BY <2>5 DEF CutFrom
    <2>7. \A i \in a .. n : J[i] + 1 \in a .. n + 1 /\ J[i] + 1 # a
      <3>1. \A i \in a .. n : i \in 1 .. n
        BY <2>4
      <3>2. \A i \in a .. n : J[i] \in i .. n
        BY <3>1
      <3> QED BY <2>4, <3>2
    <2>8. \A i \in a .. n : f[J[i] + 1] = g[J[i] + 1]
      BY <2>7
    <2>9. \A i \in a .. n + 1 : /\ (i = a => i # n + 1 /\ i \in a .. n)
                                /\ (i # a => i \in a + 1 .. n + 1)
                                /\ (i # n + 1 => i \in a .. n)
      BY <2>4
    <2>10. \A i \in a .. n + 1 : f[i] = IF i = n + 1 THEN << >> ELSE H[i] \o f[J[i] + 1]
      <3> SUFFICES ASSUME NEW i \in a .. n + 1
                   PROVE  f[i] = IF i = n + 1 THEN << >> ELSE H[i] \o f[J[i] + 1]
        OBVIOUS
      <3>1. f[i] = IF i = a THEN H[a] \o g[J[a] + 1] ELSE g[i]
        OBVIOUS
      <3> HIDE DEF f
      <3>2. CASE i = a
        BY <2>8, <2>9, <3>1, <3>2
      <3>3. CASE i # a
        BY <2>6, <2>8, <2>9, <3>1, <3>3
      <3> QED BY <3>2, <3>3
    <2>11. f = [i \in a .. n + 1 |-> f[i]]
      OBVIOUS
    <2> HIDE DEF f
    <2>12. f = [i \in a .. n + 1 |-> IF i = n + 1 THEN << >> ELSE H[i] \o f[J[i] + 1]]
      BY <2>10, <2>11
    <2>13. CutFrom(n, a, H, J, f)
      BY <2>12 DEF CutFrom
    <2> QED BY <1>7, <2>3, <2>13
  <1> QED BY <1>8, <1>9

\* The lexeme at i, none if it is blank, and the lexemes behind it.
Piece(s, i) == LET w == SubSeq(s, i, Longest(s, i))
               IN  IF IsBlank(w) THEN << >>
                   ELSE <<[from |-> i, to |-> Longest(s, i), type |-> KindOf(w)]>>
CutOf(s, n, f) == /\ f[n + 1] = << >>
                  /\ \A i \in 1 .. n : f[i] = Piece(s, i) \o f[Longest(s, i) + 1]

LEMMA LexemesOK ==
    ASSUME NEW b, NEW n, Lined(b, n)
    PROVE  CutOf(SubSeq(b, 1, n), n, Lexemes(SubSeq(b, 1, n)))
  <1>1. PICK s : s = SubSeq(b, 1, n)
    OBVIOUS
  <1>2. Len(s) = n /\ n \in Nat
    BY <1>1, LinedOK DEF Lined
  <1> DEFINE H == [i \in 1 .. n |-> Piece(s, i)]
             J == [i \in 1 .. n |-> Longest(s, i)]
  <1>3. /\ \A i \in 1 .. n : J[i] \in i .. n
        /\ \A i \in 1 .. n : J[i] = Longest(s, i) /\ H[i] = Piece(s, i)
    <2>1. \A i \in 1 .. n : Longest(s, i) \in i .. n
      BY <1>1, LongestOK
    <2> QED BY <2>1
  <1> HIDE DEF H, J
  <1>4. PICK f : CutFrom(n, 1, H, J, f)
    BY <1>2, <1>3, CutExists
  <1>5. \A i \in 1 .. n + 1 : i # n + 1 => i \in 1 .. n
    BY <1>2
  <1>6. \A g : (g = [i \in 1 .. n + 1 |-> IF i = n + 1 THEN << >> ELSE H[i] \o g[J[i] + 1]])
               <=> g = [i \in 1 .. n + 1 |-> IF i = n + 1 THEN << >>
                                             ELSE Piece(s, i) \o g[Longest(s, i) + 1]]
    <2> SUFFICES ASSUME NEW g
                 PROVE  [i \in 1 .. n + 1 |-> IF i = n + 1 THEN << >> ELSE H[i] \o g[J[i] + 1]]
                         = [i \in 1 .. n + 1 |-> IF i = n + 1 THEN << >>
                                                 ELSE Piece(s, i) \o g[Longest(s, i) + 1]]
      OBVIOUS
    <2> QED BY <1>3, <1>5
  <1>7. f = [i \in 1 .. n + 1 |-> IF i = n + 1 THEN << >>
                                  ELSE Piece(s, i) \o f[Longest(s, i) + 1]]
    BY <1>4, <1>6 DEF CutFrom
  <1>8. Lexemes(s) = CHOOSE g : g = [i \in 1 .. n + 1 |-> IF i = n + 1 THEN << >>
                                          ELSE Piece(s, i) \o g[Longest(s, i) + 1]]
    BY <1>2 DEF Lexemes, Piece
  <1>9. PICK c : c = Lexemes(s)
    OBVIOUS
  <1>10. c = [i \in 1 .. n + 1 |-> IF i = n + 1 THEN << >>
                                   ELSE Piece(s, i) \o c[Longest(s, i) + 1]]
    BY <1>7, <1>8, <1>9
  <1>11. n + 1 \in 1 .. n + 1 /\ \A i \in 1 .. n : i \in 1 .. n + 1 /\ i # n + 1
    BY <1>2
  <1>12. CutOf(s, n, c)
    BY <1>10, <1>11 DEF CutOf
  <1> QED BY <1>1, <1>9, <1>12

LEMMA CutTyped ==
    ASSUME NEW n \in Nat, NEW s, NEW f, CutOf(s, n, f), \A i \in 1 .. n : Longest(s, i) \in i .. n
    PROVE  \E T : \A i \in 1 .. n + 1 : f[i] \in Seq(T)
  <1> DEFINE T == {[from |-> i, to |-> Longest(s, i),
                    type |-> KindOf(SubSeq(s, i, Longest(s, i)))] : i \in 1 .. n}
             Bad == {i \in 1 .. n + 1 : f[i] \notin Seq(T)}
  <1>1. \A i \in 1 .. n : Piece(s, i) \in Seq(T)
    <2> SUFFICES ASSUME NEW i \in 1 .. n PROVE Piece(s, i) \in Seq(T)
      OBVIOUS
    <2>1. PICK x : x = [from |-> i, to |-> Longest(s, i),
                        type |-> KindOf(SubSeq(s, i, Longest(s, i)))]
      OBVIOUS
    <2>2. x \in T
      BY <2>1
    <2>3. Piece(s, i) = << >> \/ Piece(s, i) = <<x>>
      BY <2>1 DEF Piece
    <2> HIDE DEF T
    <2>4. << >> \in Seq(T) /\ <<x>> \in Seq(T)
      BY <2>2, EmptySeq
    <2> QED BY <2>3, <2>4
  <1> HIDE DEF T
  <1> SUFFICES ASSUME Bad # {} PROVE FALSE
    OBVIOUS
  <1>2. Bad \in SUBSET (0 .. n + 1) /\ \A i \in 1 .. n + 1 : i \notin Bad => f[i] \in Seq(T)
    OBVIOUS
  <1>3. \A i \in Bad : i \in 1 .. n + 1 /\ f[i] \notin Seq(T)
    OBVIOUS
  <1> HIDE DEF Bad
  <1>4. PICK m : m = Max(Bad)
    OBVIOUS
  <1>5. n + 1 \in Nat
    OBVIOUS
  <1>6. m \in Bad /\ \A i \in Bad : i <= m
    BY <1>2, <1>4, <1>5, MaxOK
  <1>7. m \in 1 .. n + 1 /\ f[m] \notin Seq(T)
    BY <1>3, <1>6
  <1>8. m # n + 1
    <2>1. << >> \in Seq(T)
      BY EmptySeq
    <2>2. f[n + 1] = << >>
      BY DEF CutOf
    <2> QED BY <1>7, <2>1, <2>2
  <1>9. m \in 1 .. n
    BY <1>7, <1>8
  <1>10. Longest(s, m) + 1 \in 1 .. n + 1 /\ ~(Longest(s, m) + 1 <= m)
    <2>1. Longest(s, m) \in m .. n
      BY <1>9
    <2> QED BY <1>9, <2>1
  <1>11. f[Longest(s, m) + 1] \in Seq(T)
    BY <1>2, <1>6, <1>10
  <1>12. f[m] = Piece(s, m) \o f[Longest(s, m) + 1]
    BY <1>9 DEF CutOf
  <1>13. f[m] \in Seq(T)
    BY <1>1, <1>9, <1>11, <1>12, ConcatProperties
  <1> QED BY <1>7, <1>13

\* The lexeme x is at i, it ends at e and what the cut has from i on is x and what it has
\* behind x.
Cuts(b, n, f, i, e, x) ==
    /\ e \in i .. n /\ Longs(b, n, i, e)
    /\ x = [from |-> i, to |-> e, type |-> KindOf(Text(b, i, e))]
    /\ f[i] = <<x>> \o f[e + 1]

LEMMA CutStep ==
    ASSUME NEW b, NEW n, Lined(b, n), NEW f, f = Lexemes(SubSeq(b, 1, n)), NEW i \in 1 .. n
    PROVE  /\ BlankAt(b, i) => \E e \in i .. n : /\ f[i] = f[e + 1]
                                                 /\ TokenStart(b, i) = TokenStart(b, e + 1)
           /\ ~BlankAt(b, i) => \E e, x : Cuts(b, n, f, i, e, x)
  <1>1. PICK s : s = SubSeq(b, 1, n)
    OBVIOUS
  <1>2. PICK e : e = Longest(s, i)
    OBVIOUS
  <1>3. e \in i .. n /\ Longs(b, n, i, e)
    BY <1>1, <1>2, LongestOK DEF Longs
  <1>4. SubSeq(s, i, e) = Text(b, i, e)
    BY <1>1, <1>3, WordOK
  <1>5. n \in Nat /\ e + 1 \in 1 .. n + 1 /\ e + 1 \in i .. n + 1
    <2>1. n \in Nat
      BY DEF Lined
    <2> QED BY <1>3, <2>1
  <1>6. f[i] = Piece(s, i) \o f[e + 1]
    <2>1. CutOf(s, n, f)
      BY <1>1, LexemesOK
    <2> QED BY <1>2, <2>1 DEF CutOf
  <1>7. \E T : f[e + 1] \in Seq(T)
    <2>1. CutOf(s, n, f)
      BY <1>1, LexemesOK
    <2>2. \A k \in 1 .. n : Longest(s, k) \in k .. n
      BY <1>1, LongestOK
    <2>3. PICK T : \A k \in 1 .. n + 1 : f[k] \in Seq(T)
      BY <1>5, <2>1, <2>2, CutTyped
    <2> QED BY <1>5, <2>3
  <1>8. ASSUME BlankAt(b, i) PROVE f[i] = f[e + 1] /\ TokenStart(b, i) = TokenStart(b, e + 1)
    <2>1. Skips(b, i, e + 1) /\ IsBlank(Text(b, i, e))
      BY <1>3, <1>8, SpaceSkipped, CommentSkipped DEF BlankAt
    <2>2. TokenStart(b, i) = TokenStart(b, e + 1)
      BY <1>5, <2>1, StartKept
    <2>3. Piece(s, i) = << >>
      BY <1>2, <1>4, <2>1 DEF Piece
    <2>4. << >> \o f[e + 1] = f[e + 1]
      BY <1>7, ConcatEmptySeq
    <2> QED BY <1>6, <2>2, <2>3, <2>4
  <1>9. ASSUME ~BlankAt(b, i) PROVE \E x : Cuts(b, n, f, i, e, x)
    <2>1. ~IsBlank(Text(b, i, e))
      BY <1>3, <1>9, NotSkipped
    <2>2. PICK x : x = [from |-> i, to |-> e, type |-> KindOf(Text(b, i, e))]
      OBVIOUS
    <2>3. Piece(s, i) = <<x>>
      BY <1>2, <1>4, <2>1, <2>2 DEF Piece
    <2>4. Cuts(b, n, f, i, e, x)
      BY <1>3, <1>6, <2>2, <2>3 DEF Cuts
    <2> QED BY <2>4
  <1> QED BY <1>3, <1>8, <1>9

\* What is skipped has no part in the cut.
LEMMA CutSkips ==
    ASSUME NEW b, NEW n, Lined(b, n), NEW f, f = Lexemes(SubSeq(b, 1, n)), NEW p \in 1 .. n + 1
    PROVE  f[p] = f[TokenStart(b, p)]
  <1>1. n \in Nat /\ n + 1 \in Nat
    BY DEF Lined
  <1> DEFINE Bad == {i \in 1 .. n + 1 : f[i] # f[TokenStart(b, i)]}
  <1> SUFFICES ASSUME Bad # {} PROVE FALSE
    OBVIOUS
  <1>2. Bad \in SUBSET (0 .. n + 1)
        /\ \A i \in 1 .. n + 1 : i \notin Bad => f[i] = f[TokenStart(b, i)]
    OBVIOUS
  <1>3. \A i \in Bad : i \in 1 .. n + 1 /\ f[i] # f[TokenStart(b, i)]
    OBVIOUS
  <1> HIDE DEF Bad
  <1>4. PICK m : m = Max(Bad)
    OBVIOUS
  <1>5. m \in Bad /\ \A i \in Bad : i <= m
    BY <1>1, <1>2, <1>4, MaxOK
  <1>6. m \in 1 .. n + 1 /\ f[m] # f[TokenStart(b, m)]
    BY <1>3, <1>5
  <1>7. TokenStart(b, m) # m
    BY <1>6
  <1>8. m # n + 1
    <2> SUFFICES ASSUME m = n + 1 PROVE TokenStart(b, m) = m
      BY <1>7
    <2>1. TokenStart(b, m) \in m .. n + 1
      BY <1>6, BeginOK
    <2> QED BY <1>1, <2>1
  <1>9. m \in 1 .. n
    BY <1>1, <1>6, <1>8
  <1>10. BlankAt(b, m)
    <2>1. m \in m .. n
      BY <1>1, <1>9
    <2> QED BY <1>7, <1>9, <2>1, NotSkipped
  <1>11. PICK e \in m .. n : f[m] = f[e + 1] /\ TokenStart(b, m) = TokenStart(b, e + 1)
    BY <1>9, <1>10, CutStep
  <1>12. e + 1 \in 1 .. n + 1 /\ ~(e + 1 <= m)
    BY <1>1, <1>9
  <1>13. f[e + 1] = f[TokenStart(b, e + 1)]
    BY <1>2, <1>5, <1>12
  <1> QED BY <1>6, <1>11, <1>13

----------------------------------------------------------------------------
(***************************************************************************)
(* One lexeme after the other                                              *)
(***************************************************************************)

\* A token shows a lexeme; a sequence is what another one has behind its first m elements.
Shows(t, x) == t.from = x.from /\ t.to = x.to /\ t.type = x.type
Behind(r, all, m) == /\ Len(all) = m + Len(r)
                     /\ \A i \in 1 .. Len(r) : all[m + i] = r[i]

LEMMA BehindOne ==
    ASSUME NEW T, NEW r \in Seq(T), NEW all, NEW m \in Nat, NEW x, Behind(<<x>> \o r, all, m)
    PROVE  m + 1 <= Len(all) /\ all[m + 1] = x /\ Behind(r, all, m + 1)
  <1> DEFINE S == T \cup {x}
             w == <<x>> \o r
  <1>1. <<x>> \in Seq(S) /\ r \in Seq(S) /\ Len(<<x>>) = 1 /\ <<x>>[1] = x
    OBVIOUS
  <1> HIDE DEF S
  <1>2. /\ Len(w) = Len(<<x>>) + Len(r)
        /\ \A i \in 1 .. Len(<<x>>) + Len(r) :
              w[i] = IF i <= Len(<<x>>) THEN <<x>>[i] ELSE r[i - Len(<<x>>)]
    BY <1>1, ConcatProperties
  <1>3. PICK k : k = Len(r)
    OBVIOUS
  <1>4. k \in Nat
    BY <1>3, LenProperties
  <1>5. /\ Len(w) = k + 1
        /\ \A i \in 1 .. k + 1 : w[i] = IF i <= 1 THEN <<x>>[i] ELSE r[i - 1]
    BY <1>1, <1>2, <1>3, <1>4
  <1>6. w[1] = x
    <2>1. 1 \in 1 .. k + 1
      BY <1>4
    <2> QED BY <1>1, <1>5, <2>1
  <1>7. \A i \in 1 .. k : w[i + 1] = r[i]
    <2>1. \A i \in 1 .. k : i + 1 \in 1 .. k + 1 /\ ~(i + 1 <= 1) /\ i + 1 - 1 = i
      BY <1>4
    <2> QED BY <1>5, <2>1
  <1>8. Len(all) = m + (k + 1) /\ \A i \in 1 .. k + 1 : all[m + i] = w[i]
    BY <1>5 DEF Behind
  <1> HIDE DEF w
  <1>9. all[m + 1] = x
    <2>1. 1 \in 1 .. k + 1
      BY <1>4
    <2> QED BY <1>6, <1>8, <2>1
  <1>10. \A i \in 1 .. k : all[m + 1 + i] = r[i]
    <2>1. \A i \in 1 .. k : i + 1 \in 1 .. k + 1 /\ m + (i + 1) = m + 1 + i
      BY <1>4
    <2> QED BY <1>7, <1>8, <2>1
  <1>11. m + 1 <= Len(all) /\ Len(all) = m + 1 + k
    BY <1>4, <1>8
  <1> QED BY <1>3, <1>9, <1>10, <1>11 DEF Behind

\* What gettoken() finds at p of a line of n characters, whose lexemes from p on are the
\* ones in all behind the first m: the next one, and where it ends, or the end of the line.
NextShown(b, n, all, m, t, k) ==
    /\ t.type = END => Len(all) = m
    /\ t.type # END => /\ m + 1 <= Len(all) /\ Shows(t, all[m + 1])
                       /\ k.pos \in 1 .. n + 1
                       /\ Behind(Lexemes(SubSeq(b, 1, n))[k.pos], all, m + 1)
ClosedLine(b, n, all) ==
    \A i \in 1 .. Len(all) : Fits(SubSeq(SubSeq(b, 1, n), all[i].from, all[i].to))

LEMMA NextOK ==
    ASSUME NEW b, NEW n, Lined(b, n), NEW all, ClosedLine(b, n, all), NEW m \in Nat,
           NEW l, l.pos \in 1 .. n + 1, Behind(Lexemes(SubSeq(b, 1, n))[l.pos], all, m),
           NEW old, old.type \in Types, old.type # END
    PROVE  NextShown(b, n, all, m, GetToken(b, l, old).t, GetToken(b, l, old).l)
  <1>1. PICK f : f = Lexemes(SubSeq(b, 1, n))
    OBVIOUS
  <1>2. n \in Nat /\ Filled(b) /\ Len(b) \in Nat /\ n < Len(b) /\ l.pos \in 1 .. Len(b) + 1
    BY CharOK DEF Lined
  <1>3. PICK i : i = TokenStart(b, l.pos)
    OBVIOUS
  <1>4. i \in 1 .. n + 1 /\ ~BlankAt(b, i) /\ f[l.pos] = f[i]
    <2>1. i \in l.pos .. n + 1 /\ ~BlankAt(b, i)
      BY <1>3, BeginOK
    <2>2. f[l.pos] = f[i]
      BY <1>1, <1>3, CutSkips
    <2> QED BY <1>2, <2>1, <2>2
  <1>5. PICK t : t = GetToken(b, l, old).t
    OBVIOUS
  <1>6. PICK k : k = GetToken(b, l, old).l
    OBVIOUS
  <1>7. /\ t.from = i /\ t.to = TokenEnd(b, i) /\ k.pos = TokenEnd(b, i) + 1
        /\ t.type = TypeOf(b, i, TokenEnd(b, i), old.type)
    BY <1>3, <1>5, <1>6 DEF GetToken
  <1>8. t.type = END <=> Char(b, i) = NUL
    <2>1. Finds(b, l, t, k) /\ Sorts(b, t, old)
      BY <1>2, <1>5, <1>6, GetTokenOK
    <2> QED BY <1>7, <2>1 DEF Sorts
  <1>9. Behind(f[i], all, m)
    BY <1>1, <1>4
  <1>10. CASE i = n + 1
    <2>1. Char(b, i) = NUL
      BY <1>10 DEF Lined
    <2>2. f[i] = << >> /\ Len(<< >>) = 0
      BY <1>1, <1>10, LexemesOK DEF CutOf
    <2>3. Len(all) = m
      BY <1>9, <2>2 DEF Behind
    <2> QED BY <1>5, <1>6, <1>8, <2>1, <2>3 DEF NextShown
  <1>11. CASE i # n + 1
    <2>1. i \in 1 .. n
      BY <1>2, <1>4, <1>11
    <2>2. Char(b, i) # NUL
      BY <2>1 DEF Lined
    <2>3. PICK e, x : Cuts(b, n, f, i, e, x)
      BY <1>1, <1>4, <2>1, CutStep
    <2>4. e \in i .. n /\ Longs(b, n, i, e) /\ e + 1 \in 1 .. n + 1
      BY <1>2, <2>1, <2>3 DEF Cuts
    <2>5. PICK T : f[e + 1] \in Seq(T)
      <3>1. PICK s : s = SubSeq(b, 1, n)
        OBVIOUS
      <3>2. CutOf(s, n, f) /\ \A q \in 1 .. n : Longest(s, q) \in q .. n
        BY <1>1, <3>1, LexemesOK, LongestOK
      <3>3. PICK T : \A q \in 1 .. n + 1 : f[q] \in Seq(T)
        BY <1>2, <3>2, CutTyped
      <3> QED BY <2>4, <3>3
    <2>6. m + 1 <= Len(all) /\ all[m + 1] = x /\ Behind(f[e + 1], all, m + 1)
      <3>1. Behind(<<x>> \o f[e + 1], all, m)
        BY <1>9, <2>3 DEF Cuts
      <3> QED BY <2>5, <3>1, BehindOne
    <2>7. Fits(Text(b, i, e))
      <3>1. m + 1 \in 1 .. Len(all)
        <4>1. Len(all) = m + Len(f[l.pos]) /\ Len(all) = m + 1 + Len(f[e + 1])
          BY <1>1, <2>6 DEF Behind
        <4>2. Len(f[e + 1]) \in Nat
          BY <2>5, LenProperties
        <4> QED BY <2>6, <4>1, <4>2
      <3>2. Fits(SubSeq(SubSeq(b, 1, n), x.from, x.to))
        BY <2>6, <3>1 DEF ClosedLine
      <3>3. x.from = i /\ x.to = e
        BY <2>3 DEF Cuts
      <3>4. SubSeq(SubSeq(b, 1, n), i, e) = Text(b, i, e)
        BY <2>1, <2>4, WordOK
      <3> QED BY <3>2, <3>3, <3>4
    <2>8. TokenEnd(b, i) = e /\ TypeOf(b, i, e, old.type) = KindOf(Text(b, i, e))
      BY <1>4, <2>1, <2>4, <2>7, EndAgrees, TypeAgrees
    <2>9. Shows(t, x) /\ k.pos = e + 1
      BY <1>7, <2>3, <2>8 DEF Shows, Cuts
    <2> QED BY <1>1, <1>5, <1>6, <1>8, <2>2, <2>4, <2>6, <2>9 DEF NextShown
  <1> QED BY <1>10, <1>11

LEMMA WholeCut ==
    ASSUME NEW b, NEW n, Lined(b, n), NEW all, all = Lexemes(SubSeq(b, 1, n))[1]
    PROVE  /\ Len(all) \in Nat /\ DOMAIN all = 1 .. Len(all)
           /\ Behind(all, all, 0)
  <1>1. PICK s : s = SubSeq(b, 1, n)
    OBVIOUS
  <1>2. PICK f : f = Lexemes(s)
    OBVIOUS
  <1>3. CutOf(s, n, f) /\ \A q \in 1 .. n : Longest(s, q) \in q .. n
    BY <1>1, <1>2, LexemesOK, LongestOK
  <1>4. n \in Nat /\ 1 \in 1 .. n + 1
    BY DEF Lined
  <1>5. PICK T : \A q \in 1 .. n + 1 : f[q] \in Seq(T)
    BY <1>3, <1>4, CutTyped
  <1>6. all \in Seq(T)
    BY <1>1, <1>2, <1>4, <1>5
  <1>7. PICK k : k = Len(all)
    OBVIOUS
  <1>8. k \in Nat /\ DOMAIN all = 1 .. k
    BY <1>6, <1>7, LenProperties
  <1>9. k = 0 + k /\ \A i \in 1 .. k : 0 + i = i
    BY <1>8
  <1>10. Behind(all, all, 0)
    BY <1>7, <1>9 DEF Behind
  <1> QED BY <1>7, <1>8, <1>10

\* The tokens the parser has taken are the first lexemes of the line, the one ahead of it is
\* the next, and the lexer stands where the rest begins.
Taking(all) ==
    /\ current.type = END => /\ Len(taken) = Len(all) + 1
                             /\ \A i \in 1 .. Len(all) : Shows(taken[i], all[i])
    /\ current.type # END => /\ Len(taken) <= Len(all)
                             /\ \A i \in 1 .. Len(taken) : Shows(taken[i], all[i])
                             /\ NextShown(buffer, length, all, Len(taken), next, lexer)
Listing ==
    taken # << >> => /\ Lined(buffer, length)
                     /\ LET all == Lexemes(Line)[1]
                        IN  ClosedLine(buffer, length, all) => Taking(all)

LEMMA ReadLineLined == Inv /\ ReadLine => Lined(buffer', length')
  <1> SUFFICES ASSUME Inv, ReadLine PROVE Lined(buffer', length')
    OBVIOUS
  <1>1. PICK b : b = buffer'
    OBVIOUS
  <1>2. lines \in Seq(Seq(Characters)) /\ lines # << >> /\ (buffer = << >> \/ Filled(buffer))
    BY DEF Inv, Stored, ReadLine
  <1>3. PICK h \in Seq(Characters) : h = Head(lines)
    BY <1>2
  <1>4. b = h \o <<NUL>> \o SubSeq(buffer, Len(h) + 2, Len(buffer)) /\ length' = Len(h)
    BY <1>1, <1>3 DEF ReadLine
  <1>5. Filled(b) /\ Len(h) \in Nat /\ Len(h) < Len(b) /\ Char(b, Len(h) + 1) = NUL
    BY <1>2, <1>4, BufferFilled
  <1>6. PICK S : S = Characters \cup {NUL}
    OBVIOUS
  <1>7. h \in Seq(S) /\ <<NUL>> \in Seq(S) /\ Len(<<NUL>>) = 1
    BY <1>6
  <1>8. SubSeq(buffer, Len(h) + 2, Len(buffer)) \in Seq(S)
    <2>1. << >> \in Seq(S) /\ (Filled(buffer) => buffer \in Seq(S))
      BY <1>6 DEF Filled
    <2>2. buffer \in Seq(S)
      BY <1>2, <2>1
    <2>3. Len(buffer) \in Nat /\ DOMAIN buffer = 1 .. Len(buffer)
      BY <2>2, LenProperties
    <2>4. \A i \in Len(h) + 2 .. Len(buffer) : i \in 1 .. Len(buffer)
      BY <1>5, <2>3
    <2>5. \A i \in Len(h) + 2 .. Len(buffer) : buffer[i] \in S
      BY <2>2, <2>3, <2>4, ElementOfSeq
    <2> QED BY <1>5, <2>3, <2>5, SubSeqProperties
  <1>9. PICK d : d = h \o <<NUL>>
    OBVIOUS
  <1>10. PICK r : r = SubSeq(buffer, Len(h) + 2, Len(buffer))
    OBVIOUS
  <1>11. PICK m : m = Len(h)
    OBVIOUS
  <1>12. d \in Seq(S) /\ Len(d) = m + 1 /\ \A i \in 1 .. m : d[i] = h[i]
    <2>1. /\ h \o <<NUL>> \in Seq(S) /\ Len(h \o <<NUL>>) = Len(h) + Len(<<NUL>>)
          /\ \A i \in 1 .. Len(h) + Len(<<NUL>>) :
                (h \o <<NUL>>)[i] = IF i <= Len(h) THEN h[i] ELSE <<NUL>>[i - Len(h)]
      BY <1>7, ConcatProperties
    <2>2. /\ d \in Seq(S) /\ Len(d) = m + 1
          /\ \A i \in 1 .. m + 1 : d[i] = IF i <= m THEN h[i] ELSE <<NUL>>[i - m]
      BY <1>7, <1>9, <1>11, <2>1
    <2>3. \A i \in 1 .. m : i \in 1 .. m + 1 /\ i <= m
      BY <1>5, <1>11
    <2> QED BY <2>2, <2>3
  <1>13. \A i \in 1 .. m : b[i] = h[i] /\ i <= Len(b)
    <2>1. r \in Seq(S) /\ Len(r) \in Nat
      BY <1>8, <1>10, LenProperties
    <2>2. \A i \in 1 .. Len(d) + Len(r) :
              (d \o r)[i] = IF i <= Len(d) THEN d[i] ELSE r[i - Len(d)]
      BY <1>12, <2>1, ConcatProperties
    <2>3. b = d \o r
      BY <1>4, <1>9, <1>10
    <2>4. \A i \in 1 .. m : i \in 1 .. Len(d) + Len(r) /\ i <= Len(d)
      BY <1>5, <1>11, <1>12, <2>1
    <2>5. \A i \in 1 .. m : i <= Len(b)
      BY <1>5, <1>11, CharOK
    <2> QED BY <1>12, <2>2, <2>3, <2>4, <2>5
  <1>14. \A i \in 1 .. m : h[i] # NUL
    <2>1. \A i \in 1 .. m : h[i] \in Characters
      BY <1>11, ElementOfSeq
    <2>2. NUL \notin Characters
      BY CharacterAssumption DEF Names
    <2> QED BY <2>1, <2>2
  <1>15. \A i \in 1 .. m : Char(b, i) # NUL
    BY <1>13, <1>14 DEF Char
  <1> QED BY <1>1, <1>4, <1>5, <1>11, <1>15 DEF Lined

LEMMA ReadLineListing == Inv /\ ReadLine => Listing'
  <1> SUFFICES ASSUME Inv, ReadLine PROVE Listing'
    OBVIOUS
  <1>1. PICK b : b = buffer'
    OBVIOUS
  <1>2. PICK n : n = length'
    OBVIOUS
  <1>3. Lined(b, n)
    BY <1>1, <1>2, ReadLineLined
  <1>4. PICK all : all = Lexemes(SubSeq(b, 1, n))[1]
    OBVIOUS
  <1>5. Len(all) \in Nat /\ Behind(all, all, 0)
    BY <1>3, <1>4, WholeCut
  <1> SUFFICES ASSUME ClosedLine(b, n, all) PROVE Taking(all)'
    BY <1>1, <1>2, <1>3, <1>4 DEF Listing, Line
  <1>6. PICK old : old = NoToken
    OBVIOUS
  <1>7. old.type \in Types /\ old.type # END
    BY <1>6 DEF NoToken, Types, END, ILLEGAL
  <1>8. PICK l : l = NewLexer
    OBVIOUS
  <1>9. l.pos = 1 /\ l.pos \in 1 .. n + 1
    BY <1>3, <1>8 DEF NewLexer, Lined
  <1>10. PICK f : f = GetToken(b, l, old).t
    OBVIOUS
  <1>11. PICK k : k = GetToken(b, l, old).l
    OBVIOUS
  <1>12. NextShown(b, n, all, 0, f, k)
    <2>1. Behind(Lexemes(SubSeq(b, 1, n))[l.pos], all, 0)
      BY <1>4, <1>5, <1>9
    <2>2. 0 \in Nat
      OBVIOUS
    <2> QED BY <1>3, <1>7, <1>9, <1>10, <1>11, <2>1, <2>2, NextOK
  <1>13. PICK s : s = GetToken(b, k, old).t
    OBVIOUS
  <1>14. PICK m : m = GetToken(b, k, old).l
    OBVIOUS
  <1>15. current' = f /\ next' = s /\ lexer' = m /\ taken' = <<f>>
    BY <1>1, <1>6, <1>8, <1>10, <1>11, <1>13, <1>14 DEF ReadLine
  <1>16. Len(taken') = 1 /\ taken'[1] = f
    BY <1>15
  <1>17. CASE f.type = END
    <2>1. Len(all) = 0
      BY <1>12, <1>17 DEF NextShown
    <2>2. Len(taken') = Len(all) + 1 /\ \A i \in 1 .. Len(all) : FALSE
      BY <1>16, <2>1
    <2> QED BY <1>15, <1>17, <2>2 DEF Taking
  <1>18. CASE f.type # END
    <2>1. /\ 0 + 1 <= Len(all) /\ Shows(f, all[0 + 1]) /\ k.pos \in 1 .. n + 1
          /\ Behind(Lexemes(SubSeq(b, 1, n))[k.pos], all, 0 + 1)
      BY <1>12, <1>18 DEF NextShown
    <2>2. /\ 1 <= Len(all) /\ Shows(f, all[1]) /\ k.pos \in 1 .. n + 1
          /\ Behind(Lexemes(SubSeq(b, 1, n))[k.pos], all, 1)
      <3>1. 0 + 1 = 1
        OBVIOUS
      <3> QED BY <2>1, <3>1
    <2>3. NextShown(b, n, all, 1, s, m)
      <3>1. 1 \in Nat
        OBVIOUS
      <3> QED BY <1>3, <1>7, <1>13, <1>14, <2>2, <3>1, NextOK
    <2>4. \A i \in 1 .. Len(taken') : i = 1
      BY <1>16
    <2>5. \A i \in 1 .. Len(taken') : Shows(taken'[i], all[i])
      BY <1>16, <2>2, <2>4
    <2>6. Len(taken') <= Len(all) /\ NextShown(b, n, all, Len(taken'), s, m)
      BY <1>16, <2>2, <2>3
    <2> QED BY <1>1, <1>2, <1>15, <1>18, <2>5, <2>6 DEF Taking
  <1> QED BY <1>17, <1>18

LEMMA NextTokenListing == Inv /\ Listing /\ NextToken => Listing'
  <1> SUFFICES ASSUME Inv, Listing, NextToken PROVE Listing'
    OBVIOUS
  <1>1. /\ current.type # END /\ current' = next /\ taken' = Append(taken, next)
        /\ lines' = lines /\ buffer' = buffer /\ length' = length
    BY DEF NextToken
  <1>2. taken # << >> /\ next.type \in Types
    BY <1>1 DEF Inv, Placed, IsToken
  <1>3. PICK b : b = buffer
    OBVIOUS
  <1>4. PICK n : n = length
    OBVIOUS
  <1>5. PICK all : all = Lexemes(SubSeq(b, 1, n))[1]
    OBVIOUS
  <1>6. Lined(b, n) /\ (ClosedLine(b, n, all) => Taking(all))
    BY <1>2, <1>3, <1>4, <1>5 DEF Listing, Line
  <1> SUFFICES ASSUME ClosedLine(b, n, all) PROVE Taking(all)'
    BY <1>1, <1>3, <1>4, <1>5, <1>6 DEF Listing, Line
  <1>7. PICK m : m = Len(taken)
    OBVIOUS
  <1>8. /\ m <= Len(all) /\ \A i \in 1 .. m : Shows(taken[i], all[i])
        /\ NextShown(b, n, all, m, next, lexer)
    BY <1>1, <1>3, <1>4, <1>6, <1>7 DEF Taking
  <1>9. /\ m \in Nat /\ Len(taken') = m + 1 /\ taken'[m + 1] = next
        /\ \A i \in 1 .. m : taken'[i] = taken[i]
    <2>1. PICK S : taken \in Seq(S)
      BY DEF Inv, Stored
    <2>2. taken \in Seq(S \cup {next}) /\ next \in S \cup {next}
      BY <2>1
    <2>3. /\ Len(taken') = Len(taken) + 1
          /\ \A i \in 1 .. Len(taken) : taken'[i] = taken[i]
          /\ taken'[Len(taken) + 1] = next
      BY <1>1, <2>2, AppendProperties
    <2> QED BY <1>7, <2>1, <2>3, LenProperties
  <1>10. Len(all) \in Nat
    BY <1>5, <1>6, WholeCut
  <1>11. CASE next.type = END
    <2>1. Len(all) = m
      BY <1>8, <1>11 DEF NextShown
    <2>2. /\ Len(taken') = Len(all) + 1
          /\ \A i \in 1 .. Len(all) : Shows(taken'[i], all[i])
      BY <1>8, <1>9, <2>1
    <2> QED BY <1>1, <1>11, <2>2 DEF Taking
  <1>12. CASE next.type # END
    <2>1. /\ m + 1 <= Len(all) /\ Shows(next, all[m + 1]) /\ lexer.pos \in 1 .. n + 1
          /\ Behind(Lexemes(SubSeq(b, 1, n))[lexer.pos], all, m + 1)
      BY <1>8, <1>12 DEF NextShown
    <2>2. PICK t : t = GetToken(b, lexer, next).t
      OBVIOUS
    <2>3. PICK k : k = GetToken(b, lexer, next).l
      OBVIOUS
    <2>4. next' = t /\ lexer' = k
      BY <1>3, <1>12, <2>2, <2>3 DEF NextToken
    <2>5. m + 1 \in Nat
      BY <1>9
    <2>6. NextShown(b, n, all, m + 1, t, k)
      BY <1>2, <1>6, <1>12, <2>1, <2>2, <2>3, <2>5, NextOK
    <2>7. \A i \in 1 .. m + 1 : i \in 1 .. m \/ i = m + 1
      BY <1>9
    <2>8. \A i \in 1 .. m + 1 : Shows(taken'[i], all[i])
      BY <1>8, <1>9, <2>1, <2>7
    <2>9. /\ Len(taken') <= Len(all) /\ \A i \in 1 .. Len(taken') : Shows(taken'[i], all[i])
          /\ NextShown(b, n, all, Len(taken'), t, k)
      BY <1>9, <2>1, <2>6, <2>8
    <2> QED BY <1>1, <1>3, <1>4, <1>12, <2>4, <2>9 DEF Taking
  <1> QED BY <1>11, <1>12

LEMMA ListingHolds == Spec => []Listing
  <1>1. Init => Listing
    BY DEF Init, Listing
  <1>2. Inv /\ Listing /\ [Next]_vars => Listing'
    <2>1. Listing /\ UNCHANGED vars => Listing'
      BY DEF vars, Listing, Taking, Line
    <2> QED BY <2>1, ReadLineListing, NextTokenListing DEF Next
  <1> QED BY <1>1, <1>2, Invariance, PTL DEF Spec

----------------------------------------------------------------------------
(***************************************************************************)
(* The theorems                                                            *)
(***************************************************************************)

\* Every state of the lexer is well typed: positions stay within one of the end of what
\* fgets() has ever written, lines and columns are natural numbers, a token has a type of
\* the language.
THEOREM LexerTyped == Spec => []TypeOK
  <1>1. Inv => TypeOK
    <2> SUFFICES ASSUME Inv PROVE TypeOK
      OBVIOUS
    <2>1. lexer.pos \in 1 .. Len(buffer) + 2 /\ IsToken(current) /\ IsToken(next)
      BY DEF Inv, Placed
    <2>2. length <= Len(buffer)
      BY DEF Inv, Stored
    <2> QED BY <2>1, <2>2 DEF TypeOK
  <1> QED BY <1>1, Invariance, PTL

\* Whatever the lines of a session, the parser never stands on what an earlier, longer line
\* has left behind the end of the current one, as long as no string was left open.
THEOREM NothingStale == Spec => []ReadsOwnLine
  <1>1. Inv => ReadsOwnLine
    BY DEF Inv, Inside, ReadsOwnLine
  <1> QED BY <1>1, Invariance, PTL

\* The line and the column of a token count the newlines and the characters before it,
\* whatever the line, until a string with a newline in it has been read.
THEOREM PlacesTrue == Spec => []PositionsTrueOnOneLine
  <1>1. Inv => PositionsTrueOnOneLine
    <2> SUFFICES ASSUME Inv, taken # << >>, \A i \in DOMAIN taken : ~Folded(taken[i])
                 PROVE  InPlace(current)
      BY DEF PositionsTrueOnOneLine
    <2>1. At(buffer, current)
      BY DEF Inv, Located
    <2> QED BY <2>1 DEF At, InPlace, Above, LastLine
  <1> QED BY <1>1, Invariance, PTL

\* parse_string_literal() stops at the end of its string for every string there can be: no
\* escape straddles the closing quote, not even when a lone | or & makes the parser copy an
\* older string once more.
THEOREM CopyingStops == Spec => []LiteralsStop
  <1>1. Inv => LiteralsStop
    <2> SUFFICES ASSUME Inv, current.type = STRING_
                 PROVE  \A i \in Walk(buffer, current.body.start, current.body.end) :
                            i <= current.body.end
      BY DEF LiteralsStop
    <2>1. PICK s : s = current.body.start
      OBVIOUS
    <2>2. PICK e : e = current.body.end
      OBVIOUS
    <2>3. Quotes(buffer, s, e)
      BY <2>1, <2>2 DEF Inv, Bodied
    <2>4. Filled(buffer)
      <3>1. STRING_ # END
        BY DEF STRING_, END
      <3> QED BY <3>1 DEF Inv, Placed, Stored
    <2>5. \A i \in Walk(buffer, s, e) : i <= e
      BY <2>3, <2>4, WalkStops
    <2> QED BY <2>1, <2>2, <2>5
  <1> QED BY <1>1, Invariance, PTL

\* Whatever the lines of a session, the parser is handed the longest lexemes of each, in
\* order, comments left out, each with its own type, and then the end of the line: nothing
\* is lost between two tokens and nothing read twice (lexer.c:52).
THEOREM LongestTaken == Spec => []LongestLexemes
  <1>1. Listing => LongestLexemes
    <2> SUFFICES ASSUME Listing, current.type = END, taken # << >>, Closed PROVE
               LET all == Lexemes(Line)[1]
               IN  /\ Len(taken) = Len(all) + 1
                   /\ \A i \in DOMAIN all : /\ taken[i].from = all[i].from
                                            /\ taken[i].to = all[i].to
                                            /\ taken[i].type = all[i].type
      BY DEF LongestLexemes
    <2>1. PICK all : all = Lexemes(Line)[1]
      OBVIOUS
    <2>2. Lined(buffer, length) /\ (ClosedLine(buffer, length, all) => Taking(all))
      BY <2>1 DEF Listing
    <2>3. DOMAIN all = 1 .. Len(all)
      BY <2>1, <2>2, WholeCut DEF Line
    <2>4. ClosedLine(buffer, length, all)
      BY <2>1, <2>3 DEF Closed, ClosedLine, Line
    <2>5. Len(taken) = Len(all) + 1 /\ \A i \in DOMAIN all : Shows(taken[i], all[i])
      BY <2>2, <2>3, <2>4 DEF Taking
    <2> QED BY <2>1, <2>5 DEF Shows
  <1> QED BY <1>1, ListingHolds, PTL
=============================================================================
