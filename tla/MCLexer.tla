------------------------------ MODULE MCLexer ------------------------------
(***************************************************************************)
(* Lines for Lexer: every short text over an alphabet in which characters  *)
(* of all kinds meet, short lines after longer ones, and a string before   *)
(* all that repeats its token.                                             *)
(***************************************************************************)
EXTENDS Lexemes

MCLetters  == {"a", "n"}
MCDigits   == {"1"}
MCKeywords == {<<"a", "n">>}

Texts(S, n) == UNION {[1 .. k -> S] : k \in 0 .. n}

Mixed   == {"a", "1", "=", "!", "/", "&", "|", " ", "\n", "?"}
Quoted  == {"\"", "\\", "n", " ", "\n", "/", "="}
Wordy   == {"a", "n", "1", "<"}
Longer  == {<<"a", "=", "1", ";", "n">>, <<"\"", "n", "\"", "=", "=", "a">>}
String  == <<"n", "\"", "\\", "n", "\"">>

MCCharacters == Mixed \cup Quoted \cup Wordy \cup {";"}
MCHistories  == {<<s>> : s \in Texts(Mixed, 4) \cup Texts(Quoted, 5) \cup Texts(Wordy, 5)}
                \cup {<<String \o s>> : s \in Texts({"|", "a", "\"", "\n"}, 3)}
                \cup {<<s, t>> : s \in Longer, t \in Texts({"a", "\"", "|", ";", "\n"}, 3)}
=============================================================================
