------------------------------- MODULE Values -------------------------------
(***************************************************************************)
(* The values of a Pepper program (struct object) and what the operators   *)
(* compute from them (vm.c), as far as its control depends on them.        *)
(***************************************************************************)
EXTENDS Integers, Sequences, SequencesExt, TLC

Null   == [type |-> "NULL"]
Number(i) == [type |-> "INT", int |-> i]
Truth(b) == [type |-> "BOOL", bool |-> b]
Error  == [type |-> "ERROR"]
Stale  == [type |-> "STALE"]       \* a slot of the new machine, not written yet

\* What instructions push: true, false and null, and the constants; a function among those
\* is a pointer to its code.
Literal == [TRUE |-> Truth(TRUE), FALSE |-> Truth(FALSE), NULL |-> Null]
Loaded(fs, i) == IF fs[i].type = "FUNCTION" THEN [type |-> "FUNCTION", fn |-> i] ELSE fs[i]

\* What the operators compute, for operands of the types they are meant for.
Falsy(v) == v = Null \/ v = Truth(FALSE)

\* build_slice(): a missing bound is null, a negative one counts from the end, and so
\* does an end of zero.
Bounds(v) == \A b \in {v[2], v[3]} : b.type \in {"INT", "NULL"}
Start(v)  == IF v[2] = Null THEN 0
             ELSE IF v[2].int < 0 THEN Len(v[1].items) + v[2].int ELSE v[2].int
Stop(v)   == IF v[3] = Null THEN Len(v[1].items)
             ELSE IF v[3].int <= 0 THEN Len(v[1].items) + v[3].int ELSE v[3].int
SliceOf(v) ==
    IF Bounds(v) /\ v[1].type = "ARRAY"
    THEN [type |-> "ARRAY", items |-> SubSeq(v[1].items, Start(v) + 1,
                                IF Stop(v) > Len(v[1].items) THEN Len(v[1].items) ELSE Stop(v))]
    ELSE Error

ElementOf(v) ==
    LET size == Len(v[1].items)
        i    == IF v[2].int < 0 THEN size + v[2].int ELSE v[2].int
    IN  IF v[2].type = "INT" /\ v[1].type = "ARRAY" /\ i \in 0 .. size - 1
        THEN v[1].items[i + 1] ELSE Error

\* Division as C has it, towards zero.
Magnitude(n)   == IF n < 0 THEN - n ELSE n
Quotient(m, n) == LET q == Magnitude(m) \div Magnitude(n)
                  IN  IF (m < 0) = (n < 0) THEN q ELSE - q

Apply(op, v) ==
    CASE op = "ADD"       -> Number(v[1].int + v[2].int)
      [] op = "SUBTRACT"  -> Number(v[1].int - v[2].int)
      [] op = "MULTIPLY"  -> Number(v[1].int * v[2].int)
      [] op = "DIVIDE"    -> IF v[2].int = 0 THEN Error ELSE Number(Quotient(v[1].int, v[2].int))
      [] op = "MODULO"    -> IF v[2].int = 0 THEN Error
                             ELSE Number(v[1].int - v[2].int * Quotient(v[1].int, v[2].int))
      [] op = "AND"       -> Truth(v[1].bool /\ v[2].bool)
      [] op = "OR"        -> Truth(v[1].bool \/ v[2].bool)
      [] op = "EQUAL"     -> Truth(v[1] = v[2])
      [] op = "NOT_EQUAL" -> Truth(v[1] # v[2])
      [] op = "LESS_THAN"              -> Truth(v[1].int < v[2].int)
      [] op = "LESS_THAN_OR_EQUALS"    -> Truth(v[1].int <= v[2].int)
      [] op = "GREATER_THAN"           -> Truth(v[1].int > v[2].int)
      [] op = "GREATER_THAN_OR_EQUALS" -> Truth(v[1].int >= v[2].int)
      [] op = "MINUS"     -> Number(- v[1].int)
      [] op = "BANG"      -> Truth(Falsy(v[1]) \/ (v[1].type = "INT" /\ v[1].int <= 0))
      [] op = "ARRAY"     -> [type |-> "ARRAY", items |-> v]
      [] op = "SLICE"     -> SliceOf(v)
      [] op = "INDEX_GET" -> ElementOf(v)

\* The operands assert() and the switches of the operators let through; a slice that
\* is not empty and starts before the array has no defined result.
Typed(v, t) == \A i \in DOMAIN v : v[i].type = t
Logical  == {"AND", "OR"}
Equality == {"EQUAL", "NOT_EQUAL"}
Binary   == {"ADD", "SUBTRACT", "MULTIPLY", "DIVIDE", "MODULO", "LESS_THAN", "LESS_THAN_OR_EQUALS",
             "GREATER_THAN", "GREATER_THAN_OR_EQUALS"} \cup Logical \cup Equality
Takes(op, v) ==
    /\ op \in Logical  => Typed(v, "BOOL")
    /\ op \in Equality => Typed(v, "INT") \/ Typed(v, "BOOL")
    /\ op \in (Binary \ (Logical \cup Equality)) \cup {"MINUS"} => Typed(v, "INT")
    /\ op = "SLICE" /\ Bounds(v) /\ v[1].type = "ARRAY" => Start(v) >= 0 \/ Stop(v) <= Start(v)
Arity == [op \in Binary \cup {"MINUS", "BANG", "SLICE", "INDEX_GET"} |->
             CASE op \in {"MINUS", "BANG"} -> 1 [] op = "SLICE" -> 3 [] OTHER -> 2]
=============================================================================
