--------------------------- MODULE ExecutionProofs ---------------------------
(***************************************************************************)
(* Proofs about the machine on verified code, for stacks and numbers of    *)
(* frames of any size: it never leaves the code, its stack has one height  *)
(* at each instruction, and it takes temporaries for operands only.  The   *)
(* limits of stack and frames are guards of Machine; the code has none.    *)
(***************************************************************************)
EXTENDS Execution, FiniteSetTheorems, SequenceTheorems, TLAPS

----------------------------------------------------------------------------
(***************************************************************************)
(* The verifier                                                            *)
(***************************************************************************)

LEMMA ArityOK ==
    /\ DOMAIN Arity = Binary \cup {"MINUS", "BANG", "SLICE", "INDEX_GET"}
    /\ \A op \in DOMAIN Arity : Arity[op] \in 1 .. 3
  BY DEF Arity

\* Operands and results of an instruction.
LEMMA PopsOK ==
    ASSUME NEW i, i.op \in Opcodes, i.arg \in Nat
    PROVE  /\ Pops(i) \in Nat /\ Pushes(i) \in {0, 1}
           /\ i.op \in DOMAIN Arity => Pops(i) = Arity[i.op] /\ Pushes(i) = 1
           /\ i.op \in {"CONST", "TRUE", "FALSE", "NULL", "GET_BUILTIN", "GET_GLOBAL", "GET_LOCAL"}
                => Pops(i) = 0 /\ Pushes(i) = 1
           /\ i.op = "ARRAY" => Pops(i) = i.arg /\ Pushes(i) = 1
           /\ i.op = "CALL" => Pops(i) = i.arg + 1 /\ Pushes(i) = 1
           /\ i.op \in Popping => Pops(i) = 1 /\ Pushes(i) = 0
           /\ i.op = "JUMP" => Pops(i) = 0 /\ Pushes(i) = 0
  <1>1. \A op \in DOMAIN Arity : Arity[op] \in Nat
    BY ArityOK
  <1>2. \A op \in DOMAIN Arity : op \notin {"CONST", "TRUE", "FALSE", "NULL", "GET_BUILTIN", "GET_GLOBAL",
                                           "GET_LOCAL", "ARRAY", "CALL", "JUMP"} \cup Popping
    BY ArityOK DEF Binary, Logical, Equality, Popping
  <1>3. /\ i.op \in DOMAIN Arity => Pops(i) = Arity[i.op] /\ Pushes(i) = 1
        /\ i.op \notin DOMAIN Arity => Pushes(i) = IF i.op \in Pushing THEN 1 ELSE 0
        /\ i.op = "ARRAY" => Pops(i) = i.arg
        /\ i.op = "CALL" => Pops(i) = i.arg + 1
    <2>1. i.op \in DOMAIN Arity => i.op # "ARRAY" /\ i.op # "CALL" /\ i.op \notin Popping
      BY <1>2
    <2>2. CASE i.op \in DOMAIN Arity
      <3>1. Pops(i) = Arity[i.op]
        BY <2>1, <2>2 DEF Pops
      <3> QED BY <2>1, <2>2, <3>1 DEF Pushes
    <2>3. CASE i.op \notin DOMAIN Arity
      <3>1. i.op = "ARRAY" => Pops(i) = i.arg
        BY <2>3 DEF Pops, Popping
      <3>2. i.op = "CALL" => Pops(i) = i.arg + 1
        BY <2>3 DEF Pops, Popping
      <3> QED BY <2>3, <3>1, <3>2 DEF Pushes
    <2> QED BY <2>2, <2>3
  <1>4. i.op \in Popping => Pops(i) = 1
    BY <1>2 DEF Pops, Popping
  <1>5. i.op \notin DOMAIN Arity \cup {"ARRAY", "CALL"} \cup Popping => Pops(i) = 0
    BY DEF Pops
  <1>6. Pops(i) \in Nat /\ Pushes(i) \in {0, 1}
    BY <1>1, <1>3, <1>4, <1>5
  <1>7. Pushing \cap Popping = {} /\ "JUMP" \notin Pushing \cup Popping
    BY DEF Pushing, Popping
  <1> QED BY <1>2, <1>3, <1>4, <1>5, <1>6, <1>7 DEF Pushing, Popping

LEMMA GoesOK ==
    ASSUME NEW i, NEW p
    PROVE  /\ i.op = "JUMP" => Goes(i, p) = {i.arg}
           /\ i.op = "JUMP_NOT_TRUE" => Goes(i, p) = {i.arg, p + 1}
           /\ i.op \notin {"JUMP", "JUMP_NOT_TRUE"} \cup Ending => Goes(i, p) = {p + 1}
  BY DEF Goes, Ending

\* What is known of an instruction at a point, and of where control goes from there.
PointFacts(fs, f, p, h, i) ==
    /\ p \in 0 .. Len(fs[f].ins) - 1 /\ Len(fs[f].ins) \in Nat
    /\ fs[f].locals \in Nat
    /\ i.op \in Opcodes /\ i.arg \in Nat
    /\ h >= fs[f].locals + Pops(i)
    /\ i.op \in {"GET_LOCAL", "SET_LOCAL"} => i.arg < fs[f].locals
    /\ i.op \in {"RETURN_VALUE", "RETURN"} => f # 1
    /\ i.op = "HALT" => f = 1 /\ h = 0
    /\ \A q \in Goes(i, p) : <<f, q, h - Pops(i) + Pushes(i)>> \in Points(fs)
    /\ \A k : <<f, p, k>> \in Points(fs) => k = h

LEMMA PointOK ==
    ASSUME NEW fs, Verified(fs), NEW f \in Procedures(fs), NEW p, NEW h, <<f, p, h>> \in Points(fs)
    PROVE  PointFacts(fs, f, p, h, fs[f].ins[p + 1])
  <1>1. PICK P : P = Points(fs)
    OBVIOUS
  <1>2. PICK t : t = <<f, p, h>>
    OBVIOUS
  <1>3. t \in P /\ t[1] = f /\ t[2] = p /\ t[3] = h
    BY <1>1, <1>2
  <1>4. PICK i : i = fs[f].ins[p + 1]
    OBVIOUS
  <1>5. Ins(fs, t) = i
    BY <1>3, <1>4 DEF Ins
  <1>6. Within(fs, t) /\ Allowed(fs, t) /\ After(fs, t) \subseteq P
    BY <1>1, <1>3 DEF Verified, Certifies
  <1>7. /\ p \in 0 .. Len(fs[f].ins) - 1
        /\ i.op \in Opcodes /\ i.arg \in Nat
        /\ h >= fs[f].locals + Pops(i)
        /\ i.op \in {"GET_LOCAL", "SET_LOCAL"} => i.arg < fs[f].locals
        /\ i.op \in {"RETURN_VALUE", "RETURN"} => f # 1
        /\ i.op = "HALT" => f = 1 /\ h = 0
    BY <1>3, <1>5, <1>6 DEF Within, Allowed
  <1>8. Len(fs[f].ins) \in Nat /\ fs[f].locals \in Nat
    BY DEF Verified, IsLoadable
  <1>9. ASSUME NEW q \in Goes(i, p) PROVE <<f, q, h - Pops(i) + Pushes(i)>> \in P
    BY <1>3, <1>5, <1>6, <1>9 DEF After
  <1>10. ASSUME NEW k, <<f, p, k>> \in P PROVE k = h
    <2>1. \A a, b \in P : a[1] = b[1] /\ a[2] = b[2] => a[3] = b[3]
      BY <1>1 DEF Verified, Certifies
    <2>2. PICK u : u = <<f, p, k>>
      OBVIOUS
    <2>3. u \in P /\ u[1] = f /\ u[2] = p /\ u[3] = k
      BY <1>10, <2>2
    <2> QED BY <1>3, <2>1, <2>3
  <1>11. PointFacts(fs, f, p, h, i)
    BY <1>1, <1>7, <1>8, <1>9, <1>10 DEF PointFacts
  <1> QED BY <1>4, <1>11

LEMMA EntryOK ==
    ASSUME NEW fs, Verified(fs), NEW f \in Procedures(fs)
    PROVE  <<f, 0, fs[f].locals>> \in Points(fs)
  BY DEF Verified, Certifies, Entries

----------------------------------------------------------------------------
(***************************************************************************)
(* Frames: each active call stands at a point of the verifier.  The height *)
(* of one that waits for another is that before it pushed the arguments.   *)
(***************************************************************************)
Calls == [fn : Nat, ip : Nat, base : Nat]

Current(fs, c) == fs[c.fn].ins[c.ip + 1]
Level(fs, fr, s, i) ==
    IF i = Len(fr) THEN s - fr[i].base
    ELSE fr[i + 1].base + Current(fs, fr[i]).arg - fr[i].base

Stacked(fs, fr, s) ==
    /\ fr \in Seq(Calls) /\ Len(fr) \in 1 .. FramesSize /\ s \in Nat
    /\ \A i \in 1 .. Len(fr) : fr[i].fn \in Procedures(fs) /\ (fr[i].fn = 1 <=> i = 1)
    /\ fr[1].base = 0
    /\ \A i, j \in 1 .. Len(fr) : i < j => fr[i].base < fr[j].base
Pointed(fs, fr, s) ==
    /\ \A i \in 1 .. Len(fr) : <<fr[i].fn, fr[i].ip, Level(fs, fr, s, i)>> \in Points(fs)
    /\ \A i \in 1 .. Len(fr) : i # Len(fr) => Current(fs, fr[i]).op = "CALL"

LEMMA StackedOK ==
    ASSUME NEW fs, NEW fr, NEW s, Stacked(fs, fr, s)
    PROVE  /\ Len(fr) \in Nat /\ Len(fr) >= 1 /\ s \in Nat
           /\ \A i \in 1 .. Len(fr) : fr[i] \in Calls /\ fr[i].base \in Nat /\ fr[i].ip \in Nat
                                      /\ fr[i].fn \in Procedures(fs)
  <1>1. FramesSize \in Nat
    BY SizesAssumption
  <1>2. fr \in Seq(Calls) /\ Len(fr) \in 1 .. FramesSize /\ s \in Nat
    BY DEF Stacked
  <1>3. \A i \in 1 .. Len(fr) : fr[i] \in Calls
    BY <1>2
  <1>4. \A i \in 1 .. Len(fr) : fr[i].base \in Nat /\ fr[i].ip \in Nat
    BY <1>3 DEF Calls
  <1> QED BY <1>1, <1>2, <1>3, <1>4 DEF Stacked

\* The topmost frame.
LEMMA TopOK ==
    ASSUME NEW fs, Verified(fs), NEW fr, NEW s, Stacked(fs, fr, s), Pointed(fs, fr, s),
           NEW t, t = fr[Len(fr)]
    PROVE  /\ t.fn \in Procedures(fs) /\ t.ip \in Nat /\ t.base \in Nat /\ t \in Calls
           /\ <<t.fn, t.ip, s - t.base>> \in Points(fs)
           /\ PointFacts(fs, t.fn, t.ip, s - t.base, Current(fs, t))
           /\ t.base + fs[t.fn].locals + Pops(Current(fs, t)) <= s
           /\ Pops(Current(fs, t)) \in Nat /\ fs[t.fn].locals \in Nat
  <1>1. PICK n : n = Len(fr)
    OBVIOUS
  <1>2. /\ n \in 1 .. Len(fr) /\ t = fr[n] /\ s \in Nat
        /\ t.fn \in Procedures(fs) /\ t.ip \in Nat /\ t.base \in Nat /\ t \in Calls
    BY <1>1, StackedOK
  <1>3. Level(fs, fr, s, n) = s - t.base
    BY <1>1, <1>2 DEF Level
  <1>4. <<t.fn, t.ip, s - t.base>> \in Points(fs)
    BY <1>2, <1>3 DEF Pointed
  <1>5. PointFacts(fs, t.fn, t.ip, s - t.base, Current(fs, t))
    <2>1. PICK h : h = s - t.base
      OBVIOUS
    <2>2. PointFacts(fs, t.fn, t.ip, h, fs[t.fn].ins[t.ip + 1])
      BY <1>2, <1>4, <2>1, PointOK
    <2> QED BY <2>1, <2>2 DEF Current
  <1>6. Pops(Current(fs, t)) \in Nat
    <2>1. Current(fs, t).op \in Opcodes /\ Current(fs, t).arg \in Nat
      BY <1>5 DEF PointFacts
    <2> QED BY <2>1, PopsOK
  <1>7. fs[t.fn].locals \in Nat /\ s - t.base >= fs[t.fn].locals + Pops(Current(fs, t))
    BY <1>5 DEF PointFacts
  <1>8. t.base + fs[t.fn].locals + Pops(Current(fs, t)) <= s
    BY <1>2, <1>6, <1>7
  <1> QED BY <1>2, <1>4, <1>5, <1>6, <1>7, <1>8

\* An instruction that goes on within its function.
Turned(fr, n, q, g) == g = [fr EXCEPT ![n] = [fr[n] EXCEPT !.ip = q]]

LEMMA Advances ==
    ASSUME NEW fr \in Seq(Calls), NEW n \in 1 .. Len(fr), NEW q \in Nat, NEW g, Turned(fr, n, q, g)
    PROVE  /\ g \in Seq(Calls) /\ Len(g) = Len(fr)
           /\ g[n].fn = fr[n].fn /\ g[n].ip = q /\ g[n].base = fr[n].base
           /\ \A i \in 1 .. Len(fr) : i # n => g[i] = fr[i]
           /\ \A i \in 1 .. Len(fr) : g[i].fn = fr[i].fn /\ g[i].base = fr[i].base
  <1>1. PICK t \in Calls : t = fr[n]
    OBVIOUS
  <1>2. PICK e : e = [t EXCEPT !.ip = q]
    OBVIOUS
  <1>3. e \in Calls /\ e.fn = t.fn /\ e.ip = q /\ e.base = t.base
    BY <1>2 DEF Calls
  <1>4. g = [fr EXCEPT ![n] = e]
    BY <1>1, <1>2 DEF Turned
  <1>5. g \in Seq(Calls) /\ Len(g) = Len(fr) /\ g[n] = e
        /\ \A i \in 1 .. Len(fr) : i # n => g[i] = fr[i]
    BY <1>3, <1>4
  <1> QED BY <1>1, <1>3, <1>5

Moves(fs, fr, s, g, z) ==
    LET t == fr[Len(fr)]
        i == Current(fs, t)
    IN  /\ z = s - Pops(i) + Pushes(i)
        /\ \E q \in Goes(i, t.ip) : g = [fr EXCEPT ![Len(fr)] = [t EXCEPT !.ip = q]]

LEMMA StraightOK ==
    ASSUME NEW fs, Verified(fs), NEW fr, NEW s, Stacked(fs, fr, s), Pointed(fs, fr, s),
           NEW g, NEW z, Moves(fs, fr, s, g, z)
    PROVE  Stacked(fs, g, z) /\ Pointed(fs, g, z)
  <1>0. PICK n, t, i : n = Len(fr) /\ t = fr[n] /\ i = Current(fs, t)
    OBVIOUS
  <1>1. /\ n = Len(fr) /\ t = fr[n] /\ i = Current(fs, t) /\ z = s - Pops(i) + Pushes(i)
        /\ \E q \in Goes(i, t.ip) : g = [fr EXCEPT ![n] = [t EXCEPT !.ip = q]]
    BY <1>0 DEF Moves
  <1>1a. PICK q \in Goes(i, t.ip) : g = [fr EXCEPT ![n] = [t EXCEPT !.ip = q]]
    BY <1>1
  <1>2. /\ t.fn \in Procedures(fs) /\ t.ip \in Nat /\ t.base \in Nat
        /\ PointFacts(fs, t.fn, t.ip, s - t.base, i)
        /\ t.base + fs[t.fn].locals + Pops(i) <= s
        /\ Pops(i) \in Nat /\ fs[t.fn].locals \in Nat
    BY <1>1, TopOK
  <1>3. n \in 1 .. Len(fr) /\ n \in Nat /\ s \in Nat
    BY <1>1, StackedOK
  <1>3a. n = Len(fr)
    BY <1>1
  <1> USE <1>3a
  <1>4. Pushes(i) \in {0, 1}
    BY DEF Pushes
  <1>5. z - t.base = s - t.base - Pops(i) + Pushes(i) /\ z \in Nat
    <2>1. PICK b \in Nat, p \in Nat, u \in Nat, l \in Nat :
             b = t.base /\ p = Pops(i) /\ u = Pushes(i) /\ l = fs[t.fn].locals
      BY <1>2, <1>4
    <2>2. z = s - p + u /\ b + l + p <= s
      BY <1>1, <1>2, <2>1
    <2>3. s \in Nat
      BY <1>3
    <2>4. z - b = s - b - p + u /\ z \in Nat
      BY <2>2, <2>3
    <2> QED BY <2>1, <2>4
  <1>6. <<t.fn, q, z - t.base>> \in Points(fs)
    BY <1>1, <1>2, <1>5 DEF PointFacts
  <1>7. q \in Nat
    <2>1. PICK h : h = z - t.base
      OBVIOUS
    <2>2. PointFacts(fs, t.fn, q, h, fs[t.fn].ins[q + 1])
      BY <1>2, <1>6, <2>1, PointOK
    <2>3. q \in 0 .. Len(fs[t.fn].ins) - 1 /\ Len(fs[t.fn].ins) \in Nat
      BY <2>2 DEF PointFacts
    <2> QED BY <2>3
  <1>8. /\ g \in Seq(Calls) /\ Len(g) = n
        /\ g[n].fn = t.fn /\ g[n].ip = q /\ g[n].base = t.base
        /\ \A k \in 1 .. n : k # n => g[k] = fr[k]
        /\ \A k \in 1 .. n : g[k].fn = fr[k].fn /\ g[k].base = fr[k].base
    <2>1. fr \in Seq(Calls) /\ n \in 1 .. Len(fr) /\ q \in Nat /\ t = fr[n]
      BY <1>1, <1>3, <1>7 DEF Stacked
    <2>2. Turned(fr, n, q, g)
      BY <1>1, <1>1a DEF Turned
    <2>3. /\ g \in Seq(Calls) /\ Len(g) = Len(fr)
          /\ g[n].fn = fr[n].fn /\ g[n].ip = q /\ g[n].base = fr[n].base
          /\ \A k \in 1 .. Len(fr) : k # n => g[k] = fr[k]
          /\ \A k \in 1 .. Len(fr) : g[k].fn = fr[k].fn /\ g[k].base = fr[k].base
      BY <2>1, <2>2, Advances
    <2> QED BY <2>1, <2>3
  <1>9. Stacked(fs, g, z)
    <2>1. z \in Nat /\ 1 \in 1 .. n
      BY <1>3, <1>5
    <2> QED BY <1>8, <2>1 DEF Stacked
  <1>10. ASSUME NEW k \in 1 .. n, k # n
         PROVE  Level(fs, g, z, k) = Level(fs, fr, s, k) /\ Current(fs, g[k]) = Current(fs, fr[k])
    <2>1. k + 1 \in 1 .. n
      BY <1>3, <1>10
    <2> QED BY <1>8, <1>10, <2>1 DEF Level
  <1>11. Level(fs, g, z, n) = z - t.base
    BY <1>8 DEF Level
  <1>12. \A k \in 1 .. n : <<g[k].fn, g[k].ip, Level(fs, g, z, k)>> \in Points(fs)
    <2> TAKE k \in 1 .. n
    <2>1. CASE k = n
      BY <1>6, <1>8, <1>11, <2>1
    <2>2. CASE k # n
      BY <1>8, <1>10, <2>2 DEF Pointed
    <2> QED BY <2>1, <2>2
  <1>13. \A k \in 1 .. n : k # n => Current(fs, g[k]).op = "CALL"
    BY <1>10 DEF Pointed
  <1> QED BY <1>8, <1>9, <1>12, <1>13 DEF Pointed

LEMMA CallOK ==
    ASSUME NEW fs, Verified(fs), NEW fr, NEW s, Stacked(fs, fr, s), Pointed(fs, fr, s),
           NEW n, n = Len(fr), n < FramesSize, NEW i, i = Current(fs, fr[n]), i.op = "CALL",
           NEW f \in Procedures(fs), f # 1,
           NEW c, c = [fn |-> f, ip |-> 0, base |-> s - i.arg],
           NEW z, z = s - i.arg + fs[f].locals,
           NEW g, g = Append(fr, c)
    PROVE  Stacked(fs, g, z) /\ Pointed(fs, g, z)
  <1>1. PICK t : t = fr[n]
    OBVIOUS
  <1>2. /\ t.base \in Nat
        /\ PointFacts(fs, t.fn, t.ip, s - t.base, i)
        /\ t.base + fs[t.fn].locals + Pops(i) <= s
        /\ fs[t.fn].locals \in Nat /\ <<t.fn, t.ip, s - t.base>> \in Points(fs)
    BY <1>1, TopOK
  <1>3. n \in 1 .. Len(fr) /\ n \in Nat /\ s \in Nat
    BY StackedOK
  <1>4. i.arg \in Nat /\ Pops(i) = i.arg + 1
    <2>1. i.op \in Opcodes /\ i.arg \in Nat
      BY <1>2 DEF PointFacts
    <2> QED BY <2>1, PopsOK
  <1>5. PICK b : b = s - i.arg
    OBVIOUS
  <1>6. b \in Nat /\ t.base < b
    <2>1. PICK a \in Nat : a = i.arg
      BY <1>4
    <2>2. PICK l \in Nat : l = fs[t.fn].locals
      BY <1>2
    <2>3. t.base + l + (a + 1) <= s /\ b = s - a /\ t.base \in Nat
      BY <1>2, <1>4, <1>5, <2>1, <2>2
    <2> QED BY <1>3, <2>3
  <1>7. fs[f].locals \in Nat /\ f \in Nat
    <2>1. DOMAIN fs = 1 .. Len(fs) /\ Len(fs) \in Nat
      BY DEF Verified, IsLoadable
    <2>2. f \in 1 .. Len(fs)
      BY <2>1 DEF Procedures
    <2> QED BY <2>1, <2>2 DEF Verified, IsLoadable
  <1>8. c = [fn |-> f, ip |-> 0, base |-> b] /\ c \in Calls /\ c.fn = f /\ c.ip = 0 /\ c.base = b
    BY <1>5, <1>6, <1>7 DEF Calls
  <1>9. g \in Seq(Calls) /\ Len(g) = n + 1 /\ g[n + 1] = c /\ \A k \in 1 .. n : g[k] = fr[k]
    <2>1. fr \in Seq(Calls)
      BY DEF Stacked
    <2> HIDE DEF Calls
    <2> QED BY <1>8, <2>1, AppendProperties
  <1>10. \A k \in 1 .. n + 1 : k \in 1 .. n \/ k = n + 1
    BY <1>3
  <1>11. z = b + fs[f].locals /\ z \in Nat
    BY <1>5, <1>6, <1>7
  <1>12. \A k \in 1 .. n : fr[k].base \in Nat /\ fr[k].base < b
    <2> TAKE k \in 1 .. n
    <2>1. fr[k].base \in Nat
      BY StackedOK
    <2>2. k # n => k < n
      BY <1>3
    <2>3. k # n => fr[k].base < t.base
      BY <1>1, <1>3, <2>2 DEF Stacked
    <2>4. k = n => fr[k].base = t.base
      BY <1>1
    <2> QED BY <1>2, <1>6, <2>1, <2>3, <2>4
  <1>13. Stacked(fs, g, z)
    <2>1. Len(g) \in 1 .. FramesSize /\ z \in Nat /\ 1 \in 1 .. n
      BY <1>3, <1>9, <1>11, SizesAssumption
    <2>2. \A k \in 1 .. n + 1 : g[k].fn \in Procedures(fs) /\ (g[k].fn = 1 <=> k = 1)
      <3> TAKE k \in 1 .. n + 1
      <3>1. CASE k \in 1 .. n
        BY <1>9, <3>1 DEF Stacked
      <3>2. CASE k = n + 1
        <4>1. k # 1
          BY <1>3, <3>2
        <4> QED BY <1>8, <1>9, <3>2, <4>1
      <3> QED BY <1>10, <3>1, <3>2
    <2>3. \A k, j \in 1 .. n + 1 : k < j => g[k].base < g[j].base
      <3> TAKE k, j \in 1 .. n + 1
      <3> HAVE k < j
      <3>1. k \in 1 .. n
        BY <1>3
      <3>2. CASE j \in 1 .. n
        BY <1>9, <3>1, <3>2 DEF Stacked
      <3>3. CASE j = n + 1
        BY <1>8, <1>9, <1>12, <3>1, <3>3
      <3> QED BY <1>10, <3>2, <3>3
    <2>4. g[1].base = 0
      BY <1>9, <2>1 DEF Stacked
    <2> QED BY <1>9, <2>1, <2>2, <2>3, <2>4 DEF Stacked
  <1>14. Level(fs, g, z, n + 1) = fs[f].locals
    BY <1>6, <1>7, <1>8, <1>9, <1>11 DEF Level
  <1>15. Level(fs, g, z, n) = s - t.base
    <2>1. n # n + 1
      BY <1>3
    <2>2. Level(fs, g, z, n) = g[n + 1].base + Current(fs, g[n]).arg - g[n].base
      BY <1>9, <2>1 DEF Level
    <2>3. g[n + 1].base = b /\ g[n] = t /\ Current(fs, g[n]) = i
      BY <1>1, <1>3, <1>8, <1>9
    <2>4. PICK a \in Nat, d \in Nat : a = i.arg /\ d = t.base
      BY <1>2, <1>4
    <2>5. b = s - a /\ s \in Nat /\ b \in Nat
      BY <1>3, <1>5, <1>6, <2>4
    <2>6. b + a - d = s - d
      BY <2>5
    <2> QED BY <2>2, <2>3, <2>4, <2>6
  <1>16. ASSUME NEW k \in 1 .. n, k # n
         PROVE  Level(fs, g, z, k) = Level(fs, fr, s, k)
    <2>1. k + 1 \in 1 .. n /\ k # n + 1
      BY <1>3, <1>16
    <2> QED BY <1>9, <1>16, <2>1 DEF Level
  <1>17. \A k \in 1 .. n + 1 : <<g[k].fn, g[k].ip, Level(fs, g, z, k)>> \in Points(fs)
    <2> TAKE k \in 1 .. n + 1
    <2>1. CASE k = n + 1
      <3>1. <<f, 0, fs[f].locals>> \in Points(fs)
        BY EntryOK
      <3> QED BY <1>8, <1>9, <1>14, <2>1, <3>1
    <2>2. CASE k = n
      BY <1>1, <1>2, <1>3, <1>9, <1>15, <2>2
    <2>3. CASE k \in 1 .. n /\ k # n
      BY <1>9, <1>16, <2>3 DEF Pointed
    <2> QED BY <1>10, <2>1, <2>2, <2>3
  <1>18. \A k \in 1 .. n + 1 : k # n + 1 => Current(fs, g[k]).op = "CALL"
    <2> TAKE k \in 1 .. n + 1
    <2> HAVE k # n + 1
    <2>1. CASE k = n
      BY <1>9, <1>10, <2>1
    <2>2. CASE k # n
      BY <1>9, <1>10, <2>2 DEF Pointed
    <2> QED BY <2>1, <2>2
  <1> QED BY <1>9, <1>13, <1>17, <1>18 DEF Pointed

\* A call that returns leaves the frames as they would be if its instruction had put the
\* value in the place of the callee and the arguments.
LEMMA ReturnOK ==
    ASSUME NEW fs, Verified(fs), NEW fr, NEW s, Stacked(fs, fr, s), Pointed(fs, fr, s),
           NEW n, n = Len(fr), n > 1,
           NEW g, g = [Front(fr) EXCEPT ![n - 1].ip = @ + 1]
    PROVE  Stacked(fs, g, fr[n].base) /\ Pointed(fs, g, fr[n].base)
  <1>1. PICK m : m = n - 1
    OBVIOUS
  <1>2. n \in Nat /\ m \in Nat /\ n = m + 1 /\ m \in 1 .. n /\ n \in 1 .. n /\ m # n /\ m < n
    BY <1>1, StackedOK
  <1>3. PICK h : h = Front(fr)
    OBVIOUS
  <1>4. h \in Seq(Calls) /\ Len(h) = m /\ \A k \in 1 .. m : h[k] = fr[k]
    <2>1. fr \in Seq(Calls)
      BY DEF Stacked
    <2>2. h = SubSeq(fr, 1, m)
      BY <1>1, <1>3 DEF Front
    <2>3. \A k \in 1 .. m : fr[k] \in Calls
      <3>1. \A k \in 1 .. m : k \in 1 .. n
        BY <1>2
      <3> QED BY <3>1, StackedOK
    <2>4. h = [k \in 1 .. m |-> fr[k]]
      BY <1>2, <2>1, <2>2
    <2> QED BY <1>2, <2>3, <2>4
  <1>5. PICK t : t = fr[m]
    OBVIOUS
  <1>6. PICK i : i = Current(fs, t)
    OBVIOUS
  <1>7. i.op = "CALL"
    BY <1>2, <1>5, <1>6 DEF Pointed
  <1>8. t.base \in Nat /\ fr[n].base \in Nat /\ t.base < fr[n].base /\ t.fn \in Procedures(fs) /\ t.ip \in Nat
    BY <1>2, <1>5, StackedOK DEF Stacked
  <1>9. <<t.fn, t.ip, Level(fs, fr, s, m)>> \in Points(fs)
    BY <1>2, <1>5 DEF Pointed
  <1>10. i.op \in Opcodes /\ i.arg \in Nat
    <2>1. PICK l : l = Level(fs, fr, s, m)
      OBVIOUS
    <2>2. PointFacts(fs, t.fn, t.ip, l, fs[t.fn].ins[t.ip + 1])
      BY <1>8, <1>9, <2>1, PointOK
    <2> QED BY <1>6, <2>2 DEF PointFacts, Current
  <1>11. Pops(i) = i.arg + 1 /\ Pushes(i) = 1
    BY <1>7, <1>10, PopsOK
  <1>12. PICK u : u = fr[n].base + i.arg
    OBVIOUS
  <1>13. u \in Nat /\ u - Pops(i) + Pushes(i) = fr[n].base
    <2>1. PICK a \in Nat, d \in Nat : a = i.arg /\ d = fr[n].base
      BY <1>8, <1>10
    <2>2. u = d + a /\ Pops(i) = a + 1 /\ Pushes(i) = 1
      BY <1>11, <1>12, <2>1
    <2>3. u \in Nat /\ u - Pops(i) + Pushes(i) = d
      BY <2>2
    <2> QED BY <2>1, <2>3
  <1>14. \A k \in 1 .. m : Level(fs, h, u, k) = Level(fs, fr, s, k)
    <2> TAKE k \in 1 .. m
    <2>1. k # n /\ h[k] = fr[k]
      BY <1>2, <1>4
    <2>2. CASE k = m
      <3>1. Level(fs, fr, s, m) = fr[m + 1].base + Current(fs, fr[m]).arg - fr[m].base
        BY <1>2 DEF Level
      <3>2. PICK a \in Nat, b \in Nat, d \in Nat : a = i.arg /\ b = fr[n].base /\ d = t.base
        BY <1>8, <1>10
      <3>4. Level(fs, fr, s, m) = b + a - d
        <4>1. fr[m + 1] = fr[n] /\ Current(fs, fr[m]) = i /\ fr[m] = t
          BY <1>2, <1>5, <1>6
        <4> QED BY <3>1, <3>2, <4>1
      <3>5. u = b + a
        BY <1>12, <3>2
      <3>3. Level(fs, h, u, m) = u - t.base
        BY <1>4, <1>5, <2>1, <2>2 DEF Level
      <3> QED BY <2>2, <3>2, <3>3, <3>4, <3>5
    <2>3. CASE k # m
      <3>1. k + 1 \in 1 .. m
        BY <1>2, <2>3
      <3> QED BY <1>4, <2>1, <2>3, <3>1 DEF Level
    <2> QED BY <2>2, <2>3
  <1>15. 1 .. m \subseteq 1 .. n /\ \A k \in 1 .. m : k # n
    BY <1>2
  <1>16. Stacked(fs, h, u)
    <2>1. Len(h) \in 1 .. FramesSize /\ 1 \in 1 .. m
      BY <1>2, <1>4, SizesAssumption DEF Stacked
    <2> QED BY <1>4, <1>13, <1>15, <2>1 DEF Stacked
  <1>17. Pointed(fs, h, u)
    BY <1>4, <1>14, <1>15 DEF Pointed
  <1>18. t.ip + 1 \in Goes(i, t.ip)
    <2>1. i.op \notin {"JUMP", "JUMP_NOT_TRUE"} \cup Ending
      BY <1>7 DEF Ending
    <2> QED BY <2>1, GoesOK
  <1>19. m = Len(h) /\ h[m] = t
    BY <1>2, <1>4, <1>5
  <1>20. g = [h EXCEPT ![m] = [t EXCEPT !.ip = t.ip + 1]]
    BY <1>1, <1>3, <1>19
  <1>21. Moves(fs, h, u, g, fr[n].base)
    BY <1>6, <1>13, <1>18, <1>19, <1>20 DEF Moves
  <1> QED BY <1>16, <1>17, <1>21, StraightOK

----------------------------------------------------------------------------
(***************************************************************************)
(* Values: none of those a program can get at is its own main program,     *)
(* integers are integers, and the elements of arrays are values again.     *)
(***************************************************************************)
Fits(W, v) ==
    /\ v.type = "FUNCTION" => v.fn # 1
    /\ v.type = "INT"      => v.int \in Int
    /\ v.type = "NULL"     => v = Null
    /\ v.type = "ARRAY"    => v.items \in Seq(W)
Harmless(W) == \A v \in W : Fits(W, v)

LEMMA Grows ==
    ASSUME NEW W, Harmless(W), NEW v, Fits(W, v)
    PROVE  Harmless(W \cup {v})
  <1>1. ASSUME NEW s, s \in Seq(W) PROVE s \in Seq(W \cup {v})
    BY <1>1
  <1>2. ASSUME NEW u, Fits(W, u) PROVE Fits(W \cup {v}, u)
    BY <1>1, <1>2 DEF Fits
  <1> QED BY <1>2 DEF Harmless

LEMMA SliceFits ==
    ASSUME NEW W, Harmless(W), NEW v \in Seq(W), Len(v) = 3, Takes("SLICE", v)
    PROVE  Fits(W, SliceOf(v))
  <1>1. CASE Bounds(v) /\ v[1].type = "ARRAY"
    <2>1. Fits(W, v[1]) /\ Fits(W, v[2]) /\ Fits(W, v[3])
      <3>1. v[1] \in W /\ v[2] \in W /\ v[3] \in W
        <4>1. 1 \in 1 .. Len(v) /\ 2 \in 1 .. Len(v) /\ 3 \in 1 .. Len(v)
          OBVIOUS
        <4>2. \A i \in 1 .. Len(v) : v[i] \in W
          OBVIOUS
        <4> QED BY <4>1, <4>2
      <3> QED BY <3>1 DEF Harmless
    <2>2. PICK s \in Seq(W) : s = v[1].items
      BY <1>1, <2>1 DEF Fits
    <2>3. PICK a \in Int : a = Start(v)
      <3>1. v[2] # Null => v[2].int \in Int
        BY <1>1, <2>1 DEF Bounds, Fits
      <3> QED BY <2>2, <3>1 DEF Start
    <2>4. PICK b \in Int : b = Stop(v)
      <3>1. v[3] # Null => v[3].int \in Int
        BY <1>1, <2>1 DEF Bounds, Fits
      <3> QED BY <2>2, <3>1 DEF Stop
    <2>5. a >= 0 \/ b <= a
      BY <1>1, <2>3, <2>4 DEF Takes
    <2>6. PICK e \in Int : e = IF b > Len(s) THEN Len(s) ELSE b
      BY <2>2
    <2>7. SliceOf(v) = [type |-> "ARRAY", items |-> SubSeq(s, a + 1, e)]
      BY <1>1, <2>2, <2>3, <2>4, <2>6 DEF SliceOf
    <2>8. SubSeq(s, a + 1, e) \in Seq(W)
      <3>1. CASE a >= 0 /\ a + 1 <= e
        <4>1. e <= Len(s) /\ Len(s) \in Nat
          BY <2>2, <2>6
        <4> QED BY <3>1, <4>1, SubSeqProperties
      <3>2. CASE ~ (a + 1 <= e)
        BY <3>2
      <3>3. a < 0 => ~ (a + 1 <= e)
        <4>1. e <= b /\ Len(s) \in Nat
          BY <2>2, <2>6
        <4> QED BY <2>5, <4>1
      <3> QED BY <3>1, <3>2, <3>3
    <2>9. PICK w : w = SubSeq(s, a + 1, e)
      OBVIOUS
    <2> QED BY <2>7, <2>8, <2>9 DEF Fits
  <1>2. CASE ~ (Bounds(v) /\ v[1].type = "ARRAY")
    BY <1>2 DEF SliceOf, Error, Fits
  <1> QED BY <1>1, <1>2

LEMMA ElementFits ==
    ASSUME NEW W, Harmless(W), NEW v \in Seq(W), Len(v) = 2
    PROVE  Fits(W, ElementOf(v))
  <1>1. PICK s, i : s = v[1].items /\ i = IF v[2].int < 0 THEN Len(s) + v[2].int ELSE v[2].int
    OBVIOUS
  <1>2. CASE v[1].type = "ARRAY" /\ i \in 0 .. Len(s) - 1
    <2>1. s \in Seq(W)
      <3>1. v[1] \in W
        OBVIOUS
      <3>2. Fits(W, v[1])
        BY <3>1 DEF Harmless
      <3> QED BY <1>1, <1>2, <3>2 DEF Fits
    <2>2. s[i + 1] \in W
      BY <1>2, <2>1
    <2>3. ElementOf(v) = s[i + 1] \/ ElementOf(v) = Error
      BY <1>1 DEF ElementOf
    <2> QED BY <2>2, <2>3 DEF Harmless, Fits, Error
  <1>3. CASE ~ (v[1].type = "ARRAY" /\ i \in 0 .. Len(s) - 1)
    BY <1>1, <1>3 DEF ElementOf, Error, Fits
  <1> QED BY <1>2, <1>3

LEMMA QuotientOK ==
    ASSUME NEW m \in Int, NEW n \in Int, n # 0
    PROVE  Quotient(m, n) \in Int
  <1>1. PICK a \in Int, b \in Int : a = Magnitude(m) /\ b = Magnitude(n) /\ b > 0
    BY DEF Magnitude
  <1>2. a \div b \in Int
    BY <1>1
  <1> QED BY <1>1, <1>2 DEF Quotient

\* What an operator computes, of operands it takes.
LEMMA ApplyFits ==
    ASSUME NEW W, Harmless(W), NEW op \in DOMAIN Arity, NEW v \in Seq(W), Len(v) = Arity[op], Takes(op, v)
    PROVE  Fits(W, Apply(op, v))
  <1>1. ASSUME NEW i \in Int PROVE Fits(W, Number(i))
    BY DEF Fits, Number
  <1>2. ASSUME NEW b PROVE Fits(W, Truth(b))
    BY DEF Fits, Truth
  <1>3. Fits(W, Error)
    BY DEF Fits, Error
  <1>4. op \in Binary \cup {"MINUS", "BANG", "SLICE", "INDEX_GET"}
    BY ArityOK
  <1>5. ASSUME op \in {"ADD", "SUBTRACT", "MULTIPLY", "DIVIDE", "MODULO", "MINUS"}
        PROVE  /\ v[1].int \in Int
               /\ op # "MINUS" => v[2].int \in Int
    <2>1. op \in (Binary \ (Logical \cup Equality)) \cup {"MINUS"}
      BY <1>5 DEF Binary, Logical, Equality
    <2>2. Typed(v, "INT")
      BY <2>1 DEF Takes
    <2>3. Arity[op] = IF op = "MINUS" THEN 1 ELSE 2
      BY <1>5 DEF Arity
    <2>4. 1 \in DOMAIN v /\ (op # "MINUS" => 2 \in DOMAIN v)
      BY <2>3
    <2>5. \A i \in DOMAIN v : v[i] \in W /\ v[i].type = "INT"
      BY <2>2 DEF Typed
    <2> QED BY <2>4, <2>5 DEF Harmless, Fits
  <1>6. CASE op \in {"ADD", "SUBTRACT", "MULTIPLY", "MINUS"}
    <2>1. PICK i \in Int : Apply(op, v) = Number(i)
      BY <1>5, <1>6 DEF Apply
    <2> QED BY <1>1, <2>1
  <1>7. CASE op \in {"DIVIDE", "MODULO"}
    <2>1. PICK m \in Int, n \in Int : m = v[1].int /\ n = v[2].int
      BY <1>5, <1>7
    <2>2. CASE n = 0
      <3>1. Apply(op, v) = Error
        BY <1>7, <2>1, <2>2 DEF Apply
      <3> QED BY <1>3, <3>1
    <2>3. CASE n # 0
      <3>1. PICK q \in Int : q = Quotient(m, n)
        BY <2>3, QuotientOK
      <3>2. n * q \in Int
        OBVIOUS
      <3>3. Apply(op, v) = Number(q) \/ Apply(op, v) = Number(m - n * q)
        BY <1>7, <2>1, <2>3, <3>1 DEF Apply
      <3> QED BY <1>1, <3>2, <3>3
    <2> QED BY <2>2, <2>3
  <1>8. CASE op \in {"AND", "OR", "EQUAL", "NOT_EQUAL", "LESS_THAN", "LESS_THAN_OR_EQUALS",
                     "GREATER_THAN", "GREATER_THAN_OR_EQUALS", "BANG"}
    <2>1. PICK b : Apply(op, v) = Truth(b)
      BY <1>8 DEF Apply
    <2> QED BY <1>2, <2>1
  <1>9. CASE op = "SLICE"
    <2>1. Arity["SLICE"] = 3 /\ Apply("SLICE", v) = SliceOf(v)
      BY DEF Arity, Apply
    <2> QED BY <1>9, <2>1, SliceFits
  <1>10. CASE op = "INDEX_GET"
    <2>1. Arity["INDEX_GET"] = 2 /\ Apply("INDEX_GET", v) = ElementOf(v)
      BY DEF Arity, Apply
    <2> QED BY <1>10, <2>1, ElementFits
  <1> QED BY <1>4, <1>6, <1>7, <1>8, <1>9, <1>10 DEF Binary, Logical, Equality

----------------------------------------------------------------------------
(***************************************************************************)
(* The inductive invariant                                                 *)
(***************************************************************************)
Keeps(st, gl) ==
    \E W : /\ Harmless(W)
           /\ st \in [0 .. StackSize - 1 -> W] /\ gl \in [0 .. GlobalsSize - 1 -> W]

Placed ==
    /\ Verified(functions)
    /\ Stacked(functions, frames, sp) /\ Pointed(functions, frames, sp)
    /\ sp <= StackSize

Recorded ==
    \A k \in DOMAIN heights : \E h : heights[k] = {h} /\ <<k[1], k[2], h>> \in Points(functions)

IInv ==
    /\ Placed
    /\ Keeps(stack, globals)
    /\ Recorded
    /\ status \in {"running", "halted"}
    /\ status = "halted" => sp = 0

\* The instruction to be executed.
Now == Current(functions, Frame)

LEMMA NowOK ==
    ASSUME Placed
    PROVE  /\ Frame = frames[Len(frames)] /\ Opcode = Now.op /\ Operand = Now.arg
           /\ Len(frames) \in Nat /\ Len(frames) >= 1 /\ sp \in Nat
           /\ Frame.base \in Nat /\ Frame.ip \in Nat /\ Frame.fn \in Procedures(functions)
           /\ Opcode \in Opcodes /\ Operand \in Nat
           /\ Pops(Now) \in Nat /\ functions[Frame.fn].locals \in Nat
           /\ Frame.base + functions[Frame.fn].locals + Pops(Now) <= sp
           /\ PointFacts(functions, Frame.fn, Frame.ip, sp - Frame.base, Now)
  <1>1. Frame = frames[Len(frames)]
    BY DEF Frame, Last
  <1>2. Opcode = Now.op /\ Operand = Now.arg
    BY DEF Opcode, Operand, Now, Current, Code
  <1>3. Len(frames) \in Nat /\ Len(frames) >= 1 /\ sp \in Nat
    BY StackedOK DEF Placed
  <1>4. /\ Frame.base \in Nat /\ Frame.ip \in Nat /\ Frame.fn \in Procedures(functions)
        /\ Pops(Now) \in Nat /\ functions[Frame.fn].locals \in Nat
        /\ Frame.base + functions[Frame.fn].locals + Pops(Now) <= sp
        /\ PointFacts(functions, Frame.fn, Frame.ip, sp - Frame.base, Now)
    BY <1>1, TopOK DEF Placed, Now
  <1>5. Opcode \in Opcodes /\ Operand \in Nat
    BY <1>2, <1>4 DEF PointFacts
  <1> QED BY <1>1, <1>2, <1>3, <1>4, <1>5

\* Control goes on within the function.
LEMMA GoesOn ==
    ASSUME Placed, NEW q \in Goes(Now, Frame.ip), functions' = functions,
           frames' = [frames EXCEPT ![Len(frames)].ip = q],
           sp' = sp - Pops(Now) + Pushes(Now), sp' <= StackSize
    PROVE  Placed'
  <1>1. Frame = frames[Len(frames)]
    BY NowOK
  <1>2. frames' = [frames EXCEPT ![Len(frames)] = [Frame EXCEPT !.ip = q]]
    BY <1>1
  <1>3. Moves(functions, frames, sp, frames', sp')
    BY <1>1, <1>2 DEF Moves, Now
  <1>4. Stacked(functions, frames', sp') /\ Pointed(functions, frames', sp')
    BY <1>3, StraightOK DEF Placed
  <1> QED BY <1>4 DEF Placed

LEMMA FallsThrough ==
    ASSUME Placed, Advance, functions' = functions, Opcode \notin {"JUMP", "JUMP_NOT_TRUE"} \cup Ending,
           sp' = sp - Pops(Now) + Pushes(Now), sp' <= StackSize
    PROVE  Placed'
  <1>1. Frame = frames[Len(frames)] /\ Opcode = Now.op
    BY NowOK
  <1>2. PICK q : q = Frame.ip + 1
    OBVIOUS
  <1>3. q \in Goes(Now, Frame.ip)
    BY <1>1, <1>2, GoesOK
  <1>4. frames' = [frames EXCEPT ![Len(frames)].ip = q]
    BY <1>1, <1>2 DEF Advance
  <1> QED BY <1>3, <1>4, GoesOn

LEMMA PushPlaced ==
    ASSUME Placed, Advance, functions' = functions, Opcode \in Pushing \cup DOMAIN Arity,
           NEW n, n = Pops(Now), NEW v, Push(n, v)
    PROVE  Placed'
  <1>1. sp \in Nat /\ n \in Nat /\ Opcode = Now.op
    BY NowOK
  <1>2. Opcode \notin {"JUMP", "JUMP_NOT_TRUE"} \cup Ending
    BY ArityOK DEF Pushing, Ending, Binary, Logical, Equality
  <1>3. Pushes(Now) = 1
    BY <1>1 DEF Pushes
  <1>4. sp' = sp - n + 1 /\ sp - n < StackSize
    BY DEF Push
  <1>5. sp' = sp - n + Pushes(Now) /\ sp' <= StackSize
    BY <1>1, <1>3, <1>4, SizesAssumption
  <1> QED BY <1>2, <1>5, FallsThrough

\* Each instruction that pushes its result.
LEMMA PushingPlaced ==
    ASSUME Placed, \/ LoadConst \/ LoadLiteral \/ GetBuiltin \/ GetGlobal \/ GetLocal
                   \/ Operate \/ BuildArray \/ CallPrint
    PROVE  Placed'
  <1>1. Opcode = Now.op /\ Operand = Now.arg /\ Opcode \in Opcodes /\ Operand \in Nat
    BY NowOK
  <1>2. Advance /\ functions' = functions
    BY DEF LoadConst, LoadLiteral, GetBuiltin, GetGlobal, GetLocal, Operate, BuildArray, CallPrint
  <1>3. CASE LoadConst \/ LoadLiteral \/ GetBuiltin \/ GetGlobal \/ GetLocal
    <2>1. Opcode \in {"CONST", "TRUE", "FALSE", "NULL", "GET_BUILTIN", "GET_GLOBAL", "GET_LOCAL"}
      BY <1>3 DEF LoadConst, LoadLiteral, GetBuiltin, GetGlobal, GetLocal, Executes, Literal
    <2>2. Pops(Now) = 0 /\ Opcode \in Pushing
      BY <1>1, <2>1, PopsOK DEF Pushing
    <2>3. PICK v : Push(0, v)
      BY <1>3 DEF LoadConst, LoadLiteral, GetBuiltin, GetGlobal, GetLocal
    <2> QED BY <1>2, <2>2, <2>3, PushPlaced
  <1>4. CASE Operate
    <2>1. Opcode \in DOMAIN Arity
      BY <1>4 DEF Operate, Executes
    <2>2. PICK n : n = Arity[Opcode]
      OBVIOUS
    <2>3. n = Pops(Now)
      BY <1>1, <2>1, <2>2, PopsOK
    <2>4. PICK v : Push(n, v)
      BY <1>4, <2>2 DEF Operate
    <2> QED BY <1>2, <2>1, <2>3, <2>4, PushPlaced
  <1>5. CASE BuildArray
    <2>1. Opcode = "ARRAY"
      BY <1>5 DEF BuildArray, Executes
    <2>2. Pops(Now) = Operand /\ Opcode \in Pushing
      BY <1>1, <2>1, PopsOK DEF Pushing
    <2>3. PICK v : Push(Operand, v)
      BY <1>5 DEF BuildArray
    <2> QED BY <1>2, <2>2, <2>3, PushPlaced
  <1>6. CASE CallPrint
    <2>1. Opcode = "CALL"
      BY <1>6 DEF CallPrint, Executes
    <2>2. PICK n : n = Operand + 1
      OBVIOUS
    <2>3. n = Pops(Now) /\ Opcode \in Pushing
      BY <1>1, <2>1, <2>2, PopsOK DEF Pushing
    <2>4. PICK v : Push(n, v)
      BY <1>6, <2>2 DEF CallPrint
    <2> QED BY <1>2, <2>3, <2>4, PushPlaced
  <1> QED BY <1>3, <1>4, <1>5, <1>6

\* Each instruction that only pops, and the jumps.
LEMMA PoppingPlaced ==
    ASSUME Placed, Pop \/ SetGlobal \/ SetLocal \/ Jump \/ JumpNotTrue
    PROVE  Placed'
  <1>1. /\ Opcode = Now.op /\ Operand = Now.arg /\ Opcode \in Opcodes /\ Operand \in Nat
        /\ sp \in Nat /\ Frame = frames[Len(frames)] /\ Frame.ip \in Nat
    BY NowOK
  <1>2. functions' = functions
    BY DEF Pop, SetGlobal, SetLocal, Jump, JumpNotTrue
  <1>3. sp <= StackSize /\ StackSize \in Nat
    BY SizesAssumption DEF Placed
  <1>4. Opcode \in Popping => Pops(Now) = 1 /\ Pushes(Now) = 0
    BY <1>1, PopsOK
  <1>5. CASE Pop \/ SetGlobal \/ SetLocal
    <2>1. Opcode \in {"POP", "SET_GLOBAL", "SET_LOCAL"} /\ Advance /\ sp' = sp - 1
      BY <1>5 DEF Pop, SetGlobal, SetLocal, Executes
    <2>2. Opcode \notin {"JUMP", "JUMP_NOT_TRUE"} \cup Ending
      BY <2>1 DEF Ending
    <2>3. sp' = sp - Pops(Now) + Pushes(Now) /\ sp' <= StackSize
      BY <1>1, <1>3, <1>4, <2>1 DEF Popping
    <2> QED BY <1>2, <2>1, <2>2, <2>3, FallsThrough
  <1>6. CASE Jump
    <2>1. Opcode = "JUMP" /\ frames' = [frames EXCEPT ![Len(frames)].ip = Operand] /\ sp' = sp
      BY <1>6 DEF Jump, Executes
    <2>2. Operand \in Goes(Now, Frame.ip)
      <3>1. Goes(Now, Frame.ip) = {Now.arg}
        BY <1>1, <2>1, GoesOK
      <3> QED BY <1>1, <3>1
    <2>3. Pops(Now) = 0 /\ Pushes(Now) = 0
      BY <1>1, <2>1, PopsOK
    <2>4. sp' = sp - Pops(Now) + Pushes(Now) /\ sp' <= StackSize
      BY <1>1, <1>3, <2>1, <2>3
    <2> QED BY <1>2, <2>1, <2>2, <2>4, GoesOn
  <1>7. CASE JumpNotTrue
    <2>1. PICK q : q = IF Falsy(stack[sp - 1]) THEN Operand ELSE Frame.ip + 1
      OBVIOUS
    <2>2. /\ Opcode = "JUMP_NOT_TRUE" /\ sp' = sp - 1
          /\ frames' = [frames EXCEPT ![Len(frames)].ip = q]
      BY <1>1, <1>7, <2>1 DEF JumpNotTrue, Executes
    <2>3. q \in Goes(Now, Frame.ip)
      <3>1. Goes(Now, Frame.ip) = {Operand, Frame.ip + 1}
        BY <1>1, <2>2, GoesOK
      <3> QED BY <2>1, <3>1
    <2>4. sp' = sp - Pops(Now) + Pushes(Now) /\ sp' <= StackSize
      BY <1>1, <1>3, <1>4, <2>2 DEF Popping
    <2> QED BY <1>2, <2>2, <2>3, <2>4, GoesOn
  <1> QED BY <1>5, <1>6, <1>7

\* The callee lies within the stack, and is not the main program.
LEMMA CallPlaced ==
    ASSUME Placed, Keeps(stack, globals), CallFunction
    PROVE  Placed'
  <1>1. /\ Opcode = Now.op /\ Operand = Now.arg /\ Opcode \in Opcodes /\ Operand \in Nat
        /\ sp \in Nat /\ Frame = frames[Len(frames)]
        /\ Frame.base + functions[Frame.fn].locals + Pops(Now) <= sp
        /\ Frame.base \in Nat /\ functions[Frame.fn].locals \in Nat
    BY NowOK
  <1>2. Opcode = "CALL" /\ IsFunction(Callee) /\ Len(frames) < FramesSize /\ functions' = functions
    BY DEF CallFunction, Executes
  <1>3. PICK f : f = Callee.fn
    OBVIOUS
  <1>4. f \in Procedures(functions)
    BY <1>2, <1>3 DEF IsFunction, Procedures
  <1>5. f # 1
    <2>1. PICK W : Harmless(W) /\ stack \in [0 .. StackSize - 1 -> W]
      BY DEF Keeps
    <2>2. sp - Operand - 1 \in 0 .. StackSize - 1
      <3>1. sp <= StackSize /\ StackSize \in Nat
        BY SizesAssumption DEF Placed
      <3>2. Operand + 1 <= sp
        BY DEF CallFunction, Holds
      <3> QED BY <1>1, <3>1, <3>2
    <2>3. Callee \in W
      BY <2>1, <2>2 DEF Callee
    <2>4. Callee.type = "FUNCTION"
      BY <1>2 DEF IsFunction
    <2> QED BY <1>3, <2>1, <2>3, <2>4 DEF Harmless, Fits
  <1>6. PICK i, t, n, c : i = Now /\ t = Frame /\ n = Len(frames) /\ c = [fn |-> f, ip |-> 0, base |-> sp - Operand]
    OBVIOUS
  <1>7. t = frames[n] /\ i = Current(functions, t) /\ i.op = "CALL" /\ i.arg = Operand /\ n < FramesSize
    BY <1>1, <1>2, <1>6 DEF Now
  <1>8. PICK g, z : g = frames' /\ z = sp'
    OBVIOUS
  <1>9. /\ g = Append(frames, c) /\ c = [fn |-> f, ip |-> 0, base |-> sp - i.arg]
        /\ z = sp - i.arg + functions[f].locals /\ z <= StackSize
    BY <1>3, <1>6, <1>7, <1>8 DEF CallFunction
  <1>10. Stacked(functions, g, z) /\ Pointed(functions, g, z)
    BY <1>4, <1>5, <1>6, <1>7, <1>9, CallOK DEF Placed
  <1> QED BY <1>2, <1>8, <1>9, <1>10 DEF Placed

LEMMA ReturnPlaced ==
    ASSUME Placed, NEW v, ReturnWith(v)
    PROVE  Placed'
  <1>1. /\ Frame = frames[Len(frames)] /\ Len(frames) \in Nat /\ sp \in Nat
        /\ Frame.base + functions[Frame.fn].locals + Pops(Now) <= sp
        /\ Frame.base \in Nat /\ functions[Frame.fn].locals \in Nat /\ Pops(Now) \in Nat
    BY NowOK
  <1>2. /\ Len(frames) > 1 /\ functions' = functions /\ sp' = frames[Len(frames)].base
        /\ frames' = [Front(frames) EXCEPT ![Len(frames) - 1].ip = @ + 1]
    BY <1>1 DEF ReturnWith
  <1>3. Stacked(functions, frames', sp') /\ Pointed(functions, frames', sp')
    BY <1>2, ReturnOK DEF Placed
  <1>4. sp' <= StackSize
    <2>1. sp <= StackSize /\ StackSize \in Nat
      BY SizesAssumption DEF Placed
    <2>2. Frame.base <= sp
      BY <1>1
    <2> QED BY <1>1, <1>2, <2>1, <2>2
  <1> QED BY <1>2, <1>3, <1>4 DEF Placed

LEMMA StepPlaced ==
    ASSUME Placed, Keeps(stack, globals), Step
    PROVE  Placed'
  <1>1. CASE \/ LoadConst \/ LoadLiteral \/ GetBuiltin \/ GetGlobal \/ GetLocal
             \/ Operate \/ BuildArray \/ CallPrint
    BY <1>1, PushingPlaced
  <1>2. CASE Pop \/ SetGlobal \/ SetLocal \/ Jump \/ JumpNotTrue
    BY <1>2, PoppingPlaced
  <1>3. CASE CallFunction
    BY <1>3, CallPlaced
  <1>4. CASE ReturnValue \/ ReturnNull
    BY <1>4, ReturnPlaced DEF ReturnValue, ReturnNull
  <1>5. CASE Halt
    BY <1>5 DEF Halt, Placed
  <1> QED BY <1>1, <1>2, <1>3, <1>4, <1>5 DEF Step

----------------------------------------------------------------------------
LEMMA Writes ==
    ASSUME NEW W, Harmless(W), NEW st \in [0 .. StackSize - 1 -> W], NEW gl \in [0 .. GlobalsSize - 1 -> W],
           NEW v, Fits(W, v), NEW k
    PROVE  Keeps([st EXCEPT ![k] = v], gl) /\ Keeps(st, [gl EXCEPT ![k] = v])
  <1>1. PICK U : U = W \cup {v}
    OBVIOUS
  <1>2. Harmless(U)
    BY <1>1, Grows
  <1>3. st \in [0 .. StackSize - 1 -> U] /\ gl \in [0 .. GlobalsSize - 1 -> U] /\ v \in U
    BY <1>1
  <1>4. [st EXCEPT ![k] = v] \in [0 .. StackSize - 1 -> U] /\ [gl EXCEPT ![k] = v] \in [0 .. GlobalsSize - 1 -> U]
    BY <1>3
  <1> QED BY <1>2, <1>3, <1>4 DEF Keeps

\* The operands of an instruction are values.
LEMMA TopFits ==
    ASSUME Placed, NEW W, stack \in [0 .. StackSize - 1 -> W], NEW n \in Nat, Holds(n)
    PROVE  Top(n) \in Seq(W) /\ Len(Top(n)) = n /\ (n > 0 => stack[sp - 1] \in W)
  <1>1. sp \in Nat /\ sp <= StackSize /\ StackSize \in Nat /\ n <= sp
    BY NowOK, SizesAssumption DEF Placed, Holds
  <1>2. \A i \in 1 .. n : sp - n + i - 1 \in 0 .. StackSize - 1
    BY <1>1
  <1>3. \A i \in 1 .. n : stack[sp - n + i - 1] \in W
    BY <1>2
  <1>4. n > 0 => sp - 1 \in 0 .. StackSize - 1
    BY <1>1
  <1>5. n > 0 => stack[sp - 1] \in W
    BY <1>4
  <1> QED BY <1>3, <1>5 DEF Top

\* Every value that is pushed or stored is one of those the program had, or a new one
\* that is none of its main program.
LEMMA StepKeeps ==
    ASSUME Placed, Keeps(stack, globals), Step
    PROVE  Keeps(stack', globals')
  <1>1. PICK W : Harmless(W) /\ stack \in [0 .. StackSize - 1 -> W] /\ globals \in [0 .. GlobalsSize - 1 -> W]
    BY DEF Keeps
  <1>2. /\ Opcode \in Opcodes /\ Operand \in Nat /\ Frame.base \in Nat /\ sp \in Nat
        /\ sp <= StackSize /\ StackSize \in Nat /\ GlobalsSize \in Nat
    BY NowOK, SizesAssumption DEF Placed
  <1>3. ASSUME NEW n, NEW v, Push(n, v), Fits(W, v), globals' = globals
        PROVE  Keeps(stack', globals')
    <2>1. stack' = [stack EXCEPT ![sp - n] = v]
      BY <1>3 DEF Push
    <2> QED BY <1>1, <1>3, <2>1, Writes
  <1>4. Fits(W, Null) /\ \A b : Fits(W, Truth(b)) /\ \A i : Fits(W, [type |-> "BUILTIN", index |-> i])
    BY DEF Fits, Null, Truth
  <1>5. \A u \in W : Fits(W, u)
    BY <1>1 DEF Harmless
  <1>6. CASE LoadConst
    <2>1. PICK k : k = Operand + 2
      OBVIOUS
    <2>2. k \in DOMAIN functions /\ k # 1 /\ Push(0, Loaded(functions, k)) /\ globals' = globals
      BY <1>2, <1>6, <2>1 DEF LoadConst
    <2>3. /\ functions[k].type \in {"FUNCTION", "INT", "STRING"}
          /\ functions[k].type = "INT" => functions[k].int \in Int
      BY <2>2 DEF Placed, Verified, IsLoadable
    <2>4. Fits(W, Loaded(functions, k))
      BY <2>2, <2>3 DEF Loaded, Fits
    <2> QED BY <1>3, <2>2, <2>4
  <1>7. CASE LoadLiteral
    <2>1. PICK v : v = Literal[Opcode]
      OBVIOUS
    <2>2. Push(0, v) /\ globals' = globals /\ Opcode \in {"TRUE", "FALSE", "NULL"}
      BY <1>7, <2>1 DEF LoadLiteral, Executes, Literal
    <2>3. Literal["TRUE"] = Truth(TRUE) /\ Literal["FALSE"] = Truth(FALSE) /\ Literal["NULL"] = Null
      BY DEF Literal
    <2>4. v = Null \/ v = Truth(TRUE) \/ v = Truth(FALSE)
      BY <2>1, <2>2, <2>3
    <2>5. Fits(W, v)
      BY <1>4, <2>4
    <2> QED BY <1>3, <2>2, <2>5
  <1>8. CASE GetBuiltin
    BY <1>3, <1>4, <1>8 DEF GetBuiltin
  <1>9. CASE GetGlobal
    <2>1. Operand \in DOMAIN globals /\ Push(0, globals[Operand]) /\ globals' = globals
      BY <1>9 DEF GetGlobal
    <2>2. globals[Operand] \in W
      BY <1>1, <2>1
    <2> QED BY <1>3, <1>5, <2>1, <2>2
  <1>10. CASE GetLocal
    <2>1. PICK k : k = Frame.base + Operand
      OBVIOUS
    <2>2. k \in 0 .. StackSize - 1 /\ Push(0, stack[k]) /\ globals' = globals
      BY <1>2, <1>10, <2>1 DEF GetLocal
    <2>3. stack[k] \in W
      BY <1>1, <2>2
    <2> QED BY <1>3, <1>5, <2>2, <2>3
  <1>11. CASE Operate
    <2>1. PICK v : v = Top(Arity[Opcode])
      OBVIOUS
    <2>2. Opcode \in DOMAIN Arity /\ Arity[Opcode] \in Nat
      BY <1>11, ArityOK DEF Operate, Executes
    <2>3. Holds(Arity[Opcode]) /\ Takes(Opcode, v) /\ Push(Arity[Opcode], Apply(Opcode, v)) /\ globals' = globals
      BY <1>11, <2>1 DEF Operate
    <2>4. v \in Seq(W) /\ Len(v) = Arity[Opcode]
      BY <1>1, <2>1, <2>2, <2>3, TopFits
    <2>5. Fits(W, Apply(Opcode, v))
      BY <1>1, <2>2, <2>3, <2>4, ApplyFits
    <2> QED BY <1>3, <2>3, <2>5
  <1>12. CASE BuildArray
    <2>1. PICK v : v = Top(Operand)
      OBVIOUS
    <2>2. Holds(Operand) /\ Push(Operand, Apply("ARRAY", v)) /\ globals' = globals
      BY <1>12, <2>1 DEF BuildArray
    <2>3. v \in Seq(W)
      BY <1>1, <1>2, <2>1, <2>2, TopFits
    <2>4. Apply("ARRAY", v) = [type |-> "ARRAY", items |-> v]
      BY DEF Apply
    <2>5. Fits(W, Apply("ARRAY", v))
      BY <2>3, <2>4 DEF Fits
    <2> QED BY <1>3, <2>2, <2>5
  <1>13. CASE CallPrint
    BY <1>3, <1>4, <1>13 DEF CallPrint
  <1>14. CASE SetGlobal \/ SetLocal \/ ReturnValue
    <2>1. PICK v : v = stack[sp - 1]
      OBVIOUS
    <2>2. Holds(1)
      BY <1>14 DEF SetGlobal, SetLocal, ReturnValue
    <2>3. Fits(W, v)
      BY <1>1, <1>5, <2>1, <2>2, TopFits
    <2>4. PICK k : \/ stack' = [stack EXCEPT ![k] = v] /\ globals' = globals
                   \/ globals' = [globals EXCEPT ![k] = v] /\ stack' = stack
      BY <1>14, <2>1 DEF SetGlobal, SetLocal, ReturnValue, ReturnWith
    <2>5. CASE stack' = [stack EXCEPT ![k] = v] /\ globals' = globals
      <3>1. Keeps([stack EXCEPT ![k] = v], globals)
        BY <1>1, <2>3, Writes
      <3> QED BY <2>5, <3>1
    <2>6. CASE globals' = [globals EXCEPT ![k] = v] /\ stack' = stack
      <3>1. Keeps(stack, [globals EXCEPT ![k] = v])
        BY <1>1, <2>3, Writes
      <3> QED BY <2>6, <3>1
    <2> QED BY <2>4, <2>5, <2>6
  <1>15. CASE ReturnNull
    <2>1. PICK k : stack' = [stack EXCEPT ![k] = Null] /\ globals' = globals
      BY <1>15 DEF ReturnNull, ReturnWith
    <2> QED BY <1>1, <1>4, <2>1, Writes
  <1>16. CASE Pop \/ Jump \/ JumpNotTrue \/ CallFunction \/ Halt
    <2>1. stack' = stack /\ globals' = globals
      BY <1>16 DEF Pop, Jump, JumpNotTrue, CallFunction, Halt
    <2> QED BY <2>1
  <1> QED BY <1>6, <1>7, <1>8, <1>9, <1>10, <1>11, <1>12, <1>13, <1>14, <1>15, <1>16 DEF Step

----------------------------------------------------------------------------
\* The heights at an instruction are that of its one point.
LEMMA AtPoint ==
    ASSUME NEW fs, NEW fr, NEW s, Stacked(fs, fr, s), Pointed(fs, fr, s), NEW t, t = fr[Len(fr)]
    PROVE  <<t.fn, t.ip, s - t.base>> \in Points(fs) /\ t.fn \in Procedures(fs)
  <1>1. PICK n : n = Len(fr)
    OBVIOUS
  <1>2. n \in 1 .. Len(fr) /\ t = fr[n]
    BY <1>1, StackedOK
  <1>3. Level(fs, fr, s, n) = s - t.base
    BY <1>1, <1>2 DEF Level
  <1> QED BY <1>2, <1>3, StackedOK DEF Pointed

LEMMA RunRecorded ==
    ASSUME Recorded, Placed', Run
    PROVE  Recorded'
  <1>1. functions' = functions
    BY DEF Run, Step, LoadConst, LoadLiteral, GetBuiltin, GetGlobal, GetLocal, Operate, BuildArray,
           CallPrint, Pop, SetGlobal, SetLocal, Jump, JumpNotTrue, CallFunction, ReturnValue,
           ReturnNull, ReturnWith, Halt
  <1>2. PICK a, h : a = At(frames') /\ h = Height(frames', sp')
    OBVIOUS
  <1>3. <<a[1], a[2], h>> \in Points(functions) /\ a[1] \in Procedures(functions)
    <2>1. Stacked(functions, frames', sp') /\ Pointed(functions, frames', sp')
      BY <1>1 DEF Placed
    <2>2. PICK t : t = frames'[Len(frames')]
      OBVIOUS
    <2>3. a = <<t.fn, t.ip>> /\ h = sp' - t.base
      BY <1>2, <2>2 DEF At, Height
    <2>4. a[1] = t.fn /\ a[2] = t.ip
      BY <2>3
    <2>5. <<t.fn, t.ip, sp' - t.base>> \in Points(functions) /\ t.fn \in Procedures(functions)
      BY <2>1, <2>2, AtPoint
    <2> QED BY <2>3, <2>4, <2>5
  <1>4. \A k : <<a[1], a[2], k>> \in Points(functions) => k = h
    <2>1. Verified(functions)
      BY <1>1 DEF Placed
    <2>2. PICK f, p : f = a[1] /\ p = a[2]
      OBVIOUS
    <2>3. PointFacts(functions, f, p, h, functions[f].ins[p + 1])
      BY <1>3, <2>1, <2>2, PointOK
    <2> QED BY <2>2, <2>3 DEF PointFacts
  <1>5. Seen(heights, a) \cup {h} = {h}
    <2>1. CASE a \in DOMAIN heights
      <3>1. PICK g : heights[a] = {g} /\ <<a[1], a[2], g>> \in Points(functions)
        BY <2>1 DEF Recorded
      <3>2. g = h
        BY <1>4, <3>1
      <3> QED BY <2>1, <3>1, <3>2 DEF Seen
    <2>2. CASE a \notin DOMAIN heights
      BY <2>2 DEF Seen
    <2> QED BY <2>1, <2>2
  <1>6. heights' = [k \in DOMAIN heights \cup {a} |-> IF k = a THEN {h} ELSE heights[k]]
    BY <1>2, <1>5 DEF Run
  <1>7. ASSUME NEW k \in DOMAIN heights'
        PROVE  \E g : heights'[k] = {g} /\ <<k[1], k[2], g>> \in Points(functions)
    <2>1. CASE k = a
      BY <1>3, <1>6, <2>1
    <2>2. CASE k # a
      <3>1. k \in DOMAIN heights /\ heights'[k] = heights[k]
        BY <1>6, <2>2
      <3> QED BY <3>1 DEF Recorded
    <2> QED BY <2>1, <2>2
  <1> QED BY <1>1, <1>7 DEF Recorded

\* The program ends in its first frame, at the height it began with.
LEMMA StepStatus ==
    ASSUME Placed, status \in {"running", "halted"}, status = "halted" => sp = 0, Step
    PROVE  (status \in {"running", "halted"} /\ (status = "halted" => sp = 0))'
  <1>1. CASE Halt
    <2>1. Opcode = "HALT" /\ status' = "halted" /\ sp' = sp
      BY <1>1 DEF Halt, Executes
    <2>2. /\ Opcode = Now.op /\ Frame = frames[Len(frames)] /\ sp \in Nat
          /\ PointFacts(functions, Frame.fn, Frame.ip, sp - Frame.base, Now)
      BY NowOK
    <2>3. Frame.fn = 1 /\ sp - Frame.base = 0
      BY <2>1, <2>2 DEF PointFacts
    <2>4. Frame.base = 0
      <3>1. PICK n : n = Len(frames)
        OBVIOUS
      <3>2. n \in 1 .. Len(frames) /\ frames[n].fn = 1
        BY <2>2, <2>3, <3>1, StackedOK DEF Placed
      <3>3. n = 1
        BY <3>2 DEF Placed, Stacked
      <3> QED BY <2>2, <3>1, <3>3 DEF Placed, Stacked
    <2> QED BY <2>1, <2>2, <2>3, <2>4
  <1>2. CASE ~ Halt
    <2>1. status = "running" /\ status' = status
      BY <1>2 DEF Step, LoadConst, LoadLiteral, GetBuiltin, GetGlobal, GetLocal, Operate, BuildArray,
           CallPrint, Pop, SetGlobal, SetLocal, Jump, JumpNotTrue, CallFunction, ReturnValue,
           ReturnNull, ReturnWith, Executes
    <2> QED BY <2>1
  <1> QED BY <1>1, <1>2

LEMMA LaunchHolds ==
    ASSUME Launch
    PROVE  IInv
  <1>1. /\ status = "running" /\ Verified(functions) /\ IsLoadable(functions)
        /\ sp = 0 /\ frames = <<[fn |-> 1, ip |-> 0, base |-> 0]>>
        /\ stack = [i \in 0 .. StackSize - 1 |-> Stale] /\ globals = [i \in 0 .. GlobalsSize - 1 |-> Null]
        /\ heights = [k \in {<<1, 0>>} |-> {0}]
    BY DEF Launch, NewMachine, Verified
  <1>2. PICK c : c = [fn |-> 1, ip |-> 0, base |-> 0]
    OBVIOUS
  <1>3. c \in Calls /\ c.fn = 1 /\ c.ip = 0 /\ c.base = 0
    BY <1>2 DEF Calls
  <1>4. frames = <<c>> /\ frames \in Seq(Calls) /\ Len(frames) = 1 /\ frames[1] = c /\ 1 .. 1 = {1}
    BY <1>1, <1>2, <1>3
  <1>5. 1 \in Procedures(functions) /\ functions[1].locals = 0
    BY <1>1 DEF IsLoadable, Procedures
  <1>6. <<1, 0, 0>> \in Points(functions)
    BY <1>1, <1>5, EntryOK
  <1>7. Placed
    <2>1. 1 \in 1 .. FramesSize /\ 0 <= StackSize
      BY SizesAssumption
    <2>2. Stacked(functions, frames, sp)
      BY <1>1, <1>3, <1>4, <1>5, <2>1 DEF Stacked
    <2>3. Level(functions, frames, sp, 1) = 0
      BY <1>1, <1>3, <1>4 DEF Level
    <2>4. Pointed(functions, frames, sp)
      BY <1>3, <1>4, <1>6, <2>3 DEF Pointed
    <2> QED BY <1>1, <2>1, <2>2, <2>4 DEF Placed
  <1>8. Keeps(stack, globals)
    <2>1. Harmless({Stale, Null})
      BY DEF Harmless, Fits, Stale, Null
    <2> QED BY <1>1, <2>1 DEF Keeps
  <1>9. Recorded
    <2>1. PICK k : k = <<1, 0>>
      OBVIOUS
    <2>2. DOMAIN heights = {k} /\ heights[k] = {0} /\ k[1] = 1 /\ k[2] = 0
      BY <1>1, <2>1
    <2> QED BY <1>6, <2>2 DEF Recorded
  <1> QED BY <1>1, <1>7, <1>8, <1>9 DEF IInv

LEMMA RunKeeps ==
    ASSUME IInv, [Run]_executionVars
    PROVE  IInv'
  <1>1. CASE Run
    <2>1. Step
      BY <1>1 DEF Run
    <2>2. Placed'
      BY <2>1, StepPlaced DEF IInv
    <2>3. Keeps(stack, globals)'
      <3>1. Keeps(stack', globals')
        BY <2>1, StepKeeps DEF IInv
      <3> QED BY <3>1 DEF Keeps
    <2>4. Recorded'
      BY <1>1, <2>2, RunRecorded DEF IInv
    <2>5. (status \in {"running", "halted"} /\ (status = "halted" => sp = 0))'
      BY <2>1, StepStatus DEF IInv
    <2> QED BY <2>2, <2>3, <2>4, <2>5 DEF IInv
  <1>2. CASE UNCHANGED executionVars
    BY <1>2 DEF executionVars, machineVars, IInv, Placed, Keeps, Recorded
  <1> QED BY <1>1, <1>2

LEMMA Inductive == Execution => []IInv
  BY LaunchHolds, RunKeeps, PTL DEF Execution

----------------------------------------------------------------------------
(***************************************************************************)
(* The results                                                             *)
(***************************************************************************)

\* No frame begins below the one that called it, and none above the stack pointer.
LEMMA FramesTyped ==
    ASSUME Placed, NEW i \in DOMAIN frames
    PROVE  /\ frames[i].fn \in DOMAIN functions /\ functions[frames[i].fn].type = "FUNCTION"
           /\ frames[i].ip \in 0 .. Len(functions[frames[i].fn].ins) - 1
           /\ i > 1 => frames[i].base \in frames[i - 1].base + 1 .. sp
  <1>1. PICK n : n = Len(frames)
    OBVIOUS
  <1>2. i \in 1 .. n /\ DOMAIN frames = 1 .. n /\ n \in Nat
    BY <1>1, StackedOK DEF Placed, Stacked
  <1>3. frames[i].fn \in Procedures(functions) /\ frames[i].base \in Nat
    BY <1>1, <1>2, StackedOK DEF Placed
  <1>4. frames[i].ip \in 0 .. Len(functions[frames[i].fn].ins) - 1
    <2>1. PICK f, p, h : f = frames[i].fn /\ p = frames[i].ip /\ h = Level(functions, frames, sp, i)
      OBVIOUS
    <2>2. <<f, p, h>> \in Points(functions)
      BY <1>1, <1>2, <2>1 DEF Placed, Pointed
    <2>3. PointFacts(functions, f, p, h, functions[f].ins[p + 1])
      BY <1>3, <2>1, <2>2, PointOK DEF Placed
    <2> QED BY <2>1, <2>3 DEF PointFacts
  <1>5. frames[i].base <= sp
    <2>1. Frame = frames[n] /\ Frame.base \in Nat /\ Frame.base <= sp /\ sp \in Nat
      BY <1>1, NowOK
    <2>2. n \in 1 .. n
      BY <1>2
    <2>3. i # n => frames[i].base < frames[n].base
      BY <1>1, <1>2, <2>2 DEF Placed, Stacked
    <2> QED BY <1>3, <2>1, <2>3
  <1>6. ASSUME i > 1 PROVE frames[i].base \in frames[i - 1].base + 1 .. sp
    <2>1. i - 1 \in 1 .. n /\ i - 1 < i
      BY <1>2, <1>6
    <2>2. frames[i - 1].base < frames[i].base
      BY <1>1, <1>2, <2>1 DEF Placed, Stacked
    <2>3. PICK a \in Nat, b \in Nat : a = frames[i - 1].base /\ b = frames[i].base
      BY <1>1, <1>3, <2>1, StackedOK DEF Placed
    <2>4. sp \in Nat
      BY NowOK
    <2> QED BY <1>5, <2>2, <2>3, <2>4
  <1> QED BY <1>3, <1>4, <1>6 DEF Procedures

\* On verified code vm_run() stays at instructions of the code, and every frame begins above
\* the one of its caller, whatever the sizes of stack and frames.  That sp and the frames
\* stay below these sizes is by the guards of Machine: vm_run() has none.
THEOREM ExecutionTyped == Execution => []TypeOK
  <1>1. IInv => TypeOK
    <2> SUFFICES ASSUME IInv PROVE TypeOK
      OBVIOUS
    <2>1. sp \in 0 .. StackSize
      BY NowOK, SizesAssumption DEF IInv, Placed
    <2>2. DOMAIN stack = 0 .. StackSize - 1
      BY DEF IInv, Keeps
    <2>3. Len(frames) \in 1 .. FramesSize
      BY DEF IInv, Placed, Stacked
    <2> QED BY <2>1, <2>2, <2>3, FramesTyped DEF IInv, TypeOK
  <1> QED BY <1>1, Inductive, PTL

\* The stack has one height at each instruction of verified code, on every path control
\* takes there and in every call, and nothing is left of it at the end (vm_run()).
THEOREM HeightsFixed == Execution => []HeightFixed
  <1>1. IInv => HeightFixed
    <2> SUFFICES ASSUME IInv PROVE HeightFixed
      OBVIOUS
    <2>1. ASSUME NEW k \in DOMAIN heights PROVE Cardinality(heights[k]) = 1
      BY FS_Singleton DEF IInv, Recorded
    <2> QED BY <2>1 DEF IInv, HeightFixed
  <1> QED BY <1>1, Inductive, PTL

\* No instruction of verified code takes a local variable, or a slot of the caller, for an
\* operand: binary operators, calls, arrays and assignments pop what their own call pushed.
THEOREM OperandsOwn == Execution => []TakesTemporaries
  <1>1. IInv => TakesTemporaries
    <2> SUFFICES ASSUME IInv PROVE TakesTemporaries
      OBVIOUS
    <2>1. Code[Frame.ip + 1] = Now
      BY DEF Code, Now, Current
    <2>2. /\ Frame.base \in Nat /\ functions[Frame.fn].locals \in Nat /\ Pops(Now) \in Nat /\ sp \in Nat
          /\ Frame.base + functions[Frame.fn].locals + Pops(Now) <= sp
      BY NowOK DEF IInv
    <2>3. PICK b \in Nat, l \in Nat, p \in Nat :
             b = Frame.base /\ l = functions[Frame.fn].locals /\ p = Pops(Now)
      BY <2>2
    <2>4. b + l + p <= sp /\ sp \in Nat
      BY <2>2, <2>3
    <2>5. sp - p >= b + l
      BY <2>4
    <2> QED BY <2>1, <2>3, <2>5 DEF TakesTemporaries
  <1> QED BY <1>1, Inductive, PTL

\* What a loop pops at the start of a turn is the value of the turn before, never a local
\* variable of its function (compile_while_expression(), OP_POP).
THEOREM LoopsPopOwn == Execution => []PopsLastTurn
  <1>1. IInv => PopsLastTurn
    <2> SUFFICES ASSUME IInv, status = "running", Opcode = "POP"
                 PROVE  sp > Frame.base + functions[Frame.fn].locals
      BY DEF PopsLastTurn
    <2>1. /\ Frame.base \in Nat /\ functions[Frame.fn].locals \in Nat /\ sp \in Nat
          /\ Frame.base + functions[Frame.fn].locals + Pops(Now) <= sp
          /\ Opcode = Now.op /\ Operand = Now.arg /\ Opcode \in Opcodes /\ Operand \in Nat
      BY NowOK DEF IInv
    <2>2. Pops(Now) = 1
      BY <2>1, PopsOK DEF Popping
    <2> QED BY <2>1, <2>2
  <1> QED BY <1>1, Inductive, PTL
=============================================================================
