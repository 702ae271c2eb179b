------------------------------ MODULE Grammar ------------------------------
(***************************************************************************)
(* How the programs of the language are written: the tokens of a syntax    *)
(* tree, with parentheses where the precedence of the operators asks for   *)
(* them and nowhere else.  It is the reference for Parser, which it knows  *)
(* nothing of: operators of one level associate to the left, an assignment *)
(* binds loosest, and a sign or a negation tighter than the operators      *)
(* between two operands but looser than a call and an index.               *)
(***************************************************************************)
EXTENDS Syntax, Integers, SequencesExt, TLC

CONSTANT Spelling        \* integer -> its literal

Operators == << {}, {"assign"}, {"OR"}, {"AND"}, {"EQUAL", "NOT_EQUAL"},
                {"LESS_THAN", "LESS_THAN_OR_EQUALS", "GREATER_THAN", "GREATER_THAN_OR_EQUALS"},
                {"ADD", "SUBTRACT", "postfix"}, {"MULTIPLY", "DIVIDE", "MODULO"},
                {"MINUS", "BANG"}, {"call", "INDEX_GET", "SLICE"} >>
Atom == 11
Sign == [ADD |-> "+", SUBTRACT |-> "-", MULTIPLY |-> "*", DIVIDE |-> "/", MODULO |-> "%",
         EQUAL |-> "==", NOT_EQUAL |-> "!=", LESS_THAN |-> "<", LESS_THAN_OR_EQUALS |-> "<=",
         GREATER_THAN |-> ">", GREATER_THAN_OR_EQUALS |-> ">=", AND |-> "&&", OR |-> "||",
         MINUS |-> "-", BANG |-> "!"]

\* What follows an "else if" would belong to the if after the else: it is written like
\* an assignment.
IsElseIf(e) == /\ e.node = "if" /\ e.else.node = "block" /\ Len(e.else.stmts) = 1
               /\ e.else.stmts[1].stmt = "expr" /\ e.else.stmts[1].value.node = "if"
Kind(e)  == IF e.node = "op" THEN e.op ELSE IF IsElseIf(e) THEN "assign" ELSE e.node
Level(e) == IF \E k \in DOMAIN Operators : Kind(e) \in Operators[k]
            THEN CHOOSE k \in DOMAIN Operators : Kind(e) \in Operators[k] ELSE Atom

Paren(ts)       == <<"(">> \o ts \o <<")">>
Separated(tss)  == IF tss = << >> THEN << >>
                   ELSE FoldLeft(LAMBDA a, ts : a \o <<",">> \o ts, Head(tss), Tail(tss))
Written(es, W(_)) == [i \in DOMAIN es |-> W(es[i])]

RECURSIVE Write(_), WriteStatement(_)

\* An operand of an operator of the given level, which must bind tighter.
Operand(e, level) == IF Level(e) > level THEN Write(e) ELSE Paren(Write(e))
List(es)          == Separated(Written(es, LAMBDA e : Write(e)))
WriteBlock(b)     == <<"{">> \o FlattenSeq(Written(b.stmts, LAMBDA s : WriteStatement(s) \o <<";">>))
                     \o <<"}">>

\* a - -b reads as a-- and b, and so does a + with a sign: a name keeps its distance.
WriteInfix(e) ==
    LET left  == Operand(e.args[1], Level(e) - 1)
        right == Operand(e.args[2], Level(e))
        sign  == Sign[e.op]
    IN  left \o <<sign>> \o (IF e.args[1].node = "ident" /\ sign = "-" /\ right[1] = "-"
                             THEN Paren(right) ELSE right)
WriteOp(e) ==
    CASE e.op = "ARRAY"             -> <<"[">> \o List(e.args) \o <<"]">>
      [] e.op = "INDEX_GET"         -> Operand(e.args[1], Level(e) - 1)
                                       \o <<"[">> \o Write(e.args[2]) \o <<"]">>
      [] e.op = "SLICE"             -> Operand(e.args[1], Level(e) - 1) \o <<"[">>
                                       \o Write(e.args[2]) \o <<":">> \o Write(e.args[3]) \o <<"]">>
      [] e.op \in {"MINUS", "BANG"} -> <<Sign[e.op]>> \o Operand(e.args[1], Level(e) - 1)
      [] OTHER                      -> WriteInfix(e)

Write(e) ==
    CASE e.node = "absent"   -> << >>
      [] e.node = "const"    -> <<Spelling[e.value]>>
      [] e.node = "bool"     -> <<IF e.truth THEN "true" ELSE "false">>
      [] e.node = "string"   -> <<e.text>>
      [] e.node = "ident"    -> <<e.name>>
      [] e.node = "op"       -> WriteOp(e)
      [] e.node = "postfix"  -> <<e.name, Sign[e.op], Sign[e.op]>>
      [] e.node = "assign"   -> Write(e.target) \o <<"=">> \o Operand(e.value, Level(e))
      [] e.node = "call"     -> Operand(e.function, Level(e) - 1) \o Paren(List(e.args))
      [] e.node = "function" -> <<"fn">> \o Paren(Separated(Written(e.params, LAMBDA n : <<n>>)))
                                \o WriteBlock(e.body)
      [] e.node = "while"    -> <<"while">> \o Paren(Write(e.cond)) \o WriteBlock(e.body)
      [] e.node = "for"      -> <<"for">> \o Paren(WriteStatement(e.init) \o <<";">> \o Write(e.cond)
                                                   \o <<";">> \o WriteStatement(e.inc))
                                \o WriteBlock(e.body)
      [] e.node = "if"       -> <<"if">> \o Paren(Write(e.cond)) \o WriteBlock(e.then)
                                \o (IF e.else = Absent THEN << >>
                                    ELSE IF IsElseIf(e) THEN <<"else">> \o Write(e.else.stmts[1].value)
                                    ELSE <<"else">> \o WriteBlock(e.else))

WriteStatement(s) ==
    CASE s.stmt = "expr"   -> Write(s.value)
      [] s.stmt = "let"    -> <<"let", s.name>> \o (IF s.value = Absent THEN << >>
                                                    ELSE <<"=">> \o Write(s.value))
      [] s.stmt = "return" -> <<"return">> \o Write(s.value)
      [] OTHER             -> <<s.stmt>>

WriteProgram(ss) == FlattenSeq(Written(ss, LAMBDA s : WriteStatement(s) \o <<";">>))
=============================================================================
