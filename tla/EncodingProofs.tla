--------------------------- MODULE EncodingProofs ---------------------------
(***************************************************************************)
(* Proofs about the bytes of a scope's code, for bytes of any base, every  *)
(* set of opcodes and every bound on the size of the code: the buffer is   *)
(* never overrun, and as long as no position equals a mark of a break or a *)
(* continue, the bytes are the code the compiler means.                    *)
(***************************************************************************)
EXTENDS Encoding, SequenceTheorems, TLAPS

----------------------------------------------------------------------------
(***************************************************************************)
(* Bytes                                                                   *)
(***************************************************************************)

\* A byte of the code is a byte of a buffer that holds it.
LEMMA Inside == ASSUME NEW s \in Nat, NEW c \in Nat, NEW d \in Nat, s <= c, c <= d, NEW j \in 0 .. s - 1
                PROVE  j \in 0 .. c - 1 /\ j \in 0 .. d - 1 /\ j # s /\ j < s /\ j < c
  OBVIOUS

\* The two digits of an operand of two bytes.
LEMMA Digits == ASSUME NEW x \in Nat, x < Base * Base
                PROVE  /\ High(x) \in 0 .. Base - 1 /\ Low(x) \in 0 .. Base - 1
                       /\ High(x) * Base + Low(x) = x
  <1>1. Base \in Nat /\ Base > 1
    BY EncodingAssumption
  <1>2. /\ x \div Base \in Nat /\ x % Base \in 0 .. Base - 1
        /\ x = Base * (x \div Base) + (x % Base)
    BY <1>1
  <1>3. ASSUME NEW q \in Nat, NEW r \in Nat, Base * q + r < Base * Base PROVE q < Base
    BY <1>1, <1>3
  <1>4. x \div Base < Base
    BY <1>2, <1>3
  <1>5. ASSUME NEW q \in Nat, q < Base PROVE q % Base = q
    BY <1>1, <1>5
  <1>6. (x \div Base) % Base = x \div Base
    BY <1>2, <1>4, <1>5
  <1>7. Base * (x \div Base) = (x \div Base) * Base
    BY <1>1, <1>2
  <1> QED
    BY <1>1, <1>2, <1>4, <1>6, <1>7 DEF High, Low

\* What fits into a byte.
LEMMA Bytes == ASSUME NEW x \in Nat
               PROVE  High(x) \in 0 .. Base - 1 /\ Low(x) \in 0 .. Base - 1
  <1>1. Base \in Nat /\ Base > 1
    BY EncodingAssumption
  <1>2. x \div Base \in Nat
    BY <1>1
  <1>3. \A y \in Nat : y % Base \in 0 .. Base - 1
    BY <1>1
  <1> QED
    BY <1>2, <1>3 DEF High, Low

\* What it means that c is the buffer b, of n bytes, with the operand x written after pos.
OperandIn(c, b, n, pos, width, x) ==
    /\ c \in [0 .. n - 1 -> 0 .. Base - 1]
    /\ \A i \in 0 .. n - 1 : i <= pos \/ i > pos + width => c[i] = b[i]
    /\ width > 0 /\ pos + width < n => c[pos + width] = Low(x)
    /\ width = 2 /\ pos + 2 < n => c[pos + 1] = High(x)

\* Writing an operand leaves the other bytes alone.
LEMMA WrittenOK ==
    \A n, pos, x \in Nat, width \in 0 .. 2 : \A b \in [0 .. n - 1 -> 0 .. Base - 1] :
        OperandIn(Written(b, pos, width, x), b, n, pos, width, x)
  <1> TAKE n, pos, x \in Nat, width \in 0 .. 2
  <1> TAKE b \in [0 .. n - 1 -> 0 .. Base - 1]
  <1> DEFINE w == Written(b, pos, width, x)
  <1>1. High(x) \in 0 .. Base - 1 /\ Low(x) \in 0 .. Base - 1
    BY Bytes
  <1>2. /\ DOMAIN w = 0 .. n - 1
        /\ \A i \in 0 .. n - 1 :
             w[i] = IF width = 2 /\ i = pos + 1 THEN High(x)
                    ELSE IF width > 0 /\ i = pos + width THEN Low(x) ELSE b[i]
        /\ w = [i \in 0 .. n - 1 |-> w[i]]
    BY DEF Written
  <1> HIDE DEF w
  <1>3. \A i \in 0 .. n - 1 : w[i] \in 0 .. Base - 1
    BY <1>1, <1>2
  <1>4. w \in [0 .. n - 1 -> 0 .. Base - 1]
    BY <1>2, <1>3
  <1>5. \A i \in 0 .. n - 1 : i <= pos \/ i > pos + width => w[i] = b[i]
    BY <1>2
  <1>6. width > 0 /\ pos + width < n => w[pos + width] = Low(x)
    BY <1>2
  <1>7. width = 2 /\ pos + 2 < n => w[pos + 1] = High(x)
    BY <1>2
  <1> QED
    BY <1>4, <1>5, <1>6, <1>7 DEF w, OperandIn

\* The buffer holds an opcode with its operand, at whatever size it has.
LEMMA GrownOK == ASSUME size \in Nat, cap \in Nat, cap > 3, size <= cap, NEW w \in 0 .. 2
                 PROVE  /\ Grown(w) \in Nat /\ Grown(w) > 3 /\ cap <= Grown(w)
                        /\ size + 1 + w <= Grown(w)
  BY DEF Grown

\* Opcodes are bytes, with operands of at most two.
LEMMA Opcodes == /\ Ops \subseteq 0 .. Base - 1 /\ JUMP \in Ops /\ POP \in Ops /\ RETURN_VALUE \in Ops
                 /\ Width[JUMP] = 2 /\ Width[POP] = 0 /\ Width[RETURN_VALUE] = 0
                 /\ \A op \in Ops : Width[op] \in 0 .. 2
  BY EncodingAssumption

----------------------------------------------------------------------------
(***************************************************************************)
(* The types, and the room in the buffer                                   *)
(***************************************************************************)

Instr  == [op : Ops, arg : Nat, at : Nat, kind : Kinds]
Marks  == {BreakMark, ContinueMark}

\* The instructions lie behind each other, and so do those further apart.
Ordered == /\ \A i \in DOMAIN code : End(code[i]) <= size
           /\ \A i, j \in DOMAIN code : i < j => End(code[i]) <= code[j].at

\* The instruction before the last one, as long as nothing has been taken back.
PreviousTrue ==
    code # << >> /\ previous.pos < last.pos =>
        /\ Len(code) > 1
        /\ previous = [op |-> code[Len(code) - 1].op, pos |-> code[Len(code) - 1].at]

\* A walk is at an instruction, and only breaks and continues are without a target there.
WalkOK == Walking =>
    /\ walk.at < walk.end /\ walk.end <= size /\ walk.value <= size /\ walk.mark \in Marks
    /\ \E i \in DOMAIN code :
         /\ code[i].at = walk.at
         /\ \A j \in DOMAIN code : j >= i => code[j].kind # "forward"

\* The layout of the code, which does not depend on the operands.
Layout == /\ TypeOK /\ Fits /\ cap > 3
          /\ Contiguous /\ Ordered /\ LastTrue /\ PreviousTrue
          /\ \A i \in DOMAIN code : bytes[code[i].at] = code[i].op
          /\ WalkOK

\* Initially there are no instructions.
LEMMA InitLayout == Init => Layout
  <1> SUFFICES ASSUME Init PROVE Layout
    OBVIOUS
  <1> USE DEF Init
  <1>1. TypeOK /\ Fits /\ cap > 3
    BY EncodingAssumption, Opcodes DEF TypeOK, Fits, NoWalk
  <1> QED
    BY <1>1 DEF Layout, Contiguous, Ordered, LastTrue, PreviousTrue, WalkOK, Walking, NoWalk

\* An instruction is emitted where the code ends.
LEMMA EmitLayout == ASSUME Layout, NEW op \in Ops, NEW arg \in Nat, NEW kind \in Kinds,
                           Emit(op, arg, kind)
                    PROVE  /\ Layout'
                           /\ code' = Append(code, [op |-> op, arg |-> arg, at |-> size, kind |-> kind])
                           /\ \A i \in 0 .. size - 1 : bytes'[i] = bytes[i]
                           /\ Width[op] > 0 => bytes'[size + Width[op]] = Low(arg)
                           /\ Width[op] = 2 => bytes'[size + 1] = High(arg)
  <1> DEFINE new == [op |-> op, arg |-> arg, at |-> size, kind |-> kind]
             b   == [i \in 0 .. cap' - 1 |-> IF i = size THEN op
                                             ELSE IF i < cap THEN bytes[i] ELSE 0]
  <1> HIDE DEF new, b
  <1>1. /\ ~Walking /\ size + 1 + Width[op] <= MaxSize /\ cap' = Grown(Width[op])
        /\ size' = size + 1 + Width[op]
    BY DEF Emit
  <1>2. /\ bytes' = Written(b, size, Width[op], arg)
        /\ last' = [op |-> op, pos |-> size] /\ previous' = last
        /\ code' = Append(code, new) /\ walk' = walk
    BY DEF Emit, new, b
  <1>3. /\ Width[op] \in 0 .. 2 /\ op \in 0 .. Base - 1 /\ size \in Nat /\ cap \in Nat
        /\ cap > 3 /\ size <= cap /\ MaxSize \in Nat /\ Base \in Nat /\ Base > 1
    BY Opcodes, EncodingAssumption DEF Layout, TypeOK, Fits
  <1>4. /\ bytes \in [0 .. cap - 1 -> 0 .. Base - 1] /\ code \in Seq(Instr) /\ new \in Instr
    BY <1>3 DEF Layout, TypeOK, Instr, new
  <1>5. cap' \in Nat /\ cap' > 3 /\ size' \in Nat /\ size' <= cap' /\ size' <= MaxSize /\ cap <= cap'
    BY <1>1, <1>3, GrownOK
  <1>6. /\ b \in [0 .. cap' - 1 -> 0 .. Base - 1]
        /\ b[size] = op /\ \A i \in 0 .. size - 1 : b[i] = bytes[i]
    <2>1. \A i \in 0 .. cap' - 1 : b[i] = IF i = size THEN op ELSE IF i < cap THEN bytes[i] ELSE 0
      BY DEF b
    <2>2. \A i \in 0 .. cap - 1 : bytes[i] \in 0 .. Base - 1
      BY <1>4
    <2>3. ASSUME NEW i \in 0 .. cap' - 1 PROVE b[i] \in 0 .. Base - 1
      <3>1. CASE i < cap
        <4>1. i \in 0 .. cap - 1
          BY <1>3, <1>5, <3>1
        <4> QED
          BY <1>3, <2>1, <2>2, <3>1, <4>1
      <3>2. CASE ~(i < cap)
        <4>1. 0 \in 0 .. Base - 1
          BY <1>3
        <4> QED
          BY <1>3, <2>1, <3>2, <4>1
      <3> QED
        BY <3>1, <3>2
    <2>4. b \in [0 .. cap' - 1 -> 0 .. Base - 1]
      BY <2>3 DEF b
    <2>5. b[size] = op
      BY <1>1, <1>3, <1>5, <2>1
    <2>6. ASSUME NEW i \in 0 .. size - 1 PROVE b[i] = bytes[i]
      <3>1. i \in 0 .. cap' - 1 /\ i # size /\ i < cap
        <4>1. size \in Nat /\ cap \in Nat /\ cap' \in Nat /\ size <= cap /\ cap <= cap'
          BY <1>3, <1>5
        <4> QED
          BY <4>1, Inside
      <3> QED
        BY <2>1, <3>1
    <2> QED
      BY <2>4, <2>5, <2>6
  <1>7. /\ bytes' \in [0 .. cap' - 1 -> 0 .. Base - 1]
        /\ \A i \in 0 .. cap' - 1 : i <= size \/ i > size + Width[op] => bytes'[i] = b[i]
        /\ Width[op] > 0 => bytes'[size + Width[op]] = Low(arg)
        /\ Width[op] = 2 => bytes'[size + 1] = High(arg)
    <2>1. size + Width[op] < cap' /\ (Width[op] = 2 => size + 2 < cap')
      BY <1>1, <1>3, <1>5
    <2>2. bytes' = Written(b, size, Width[op], arg)
      BY <1>2
    <2>3. size \in Nat /\ cap' \in Nat /\ Width[op] \in 0 .. 2
      BY <1>3, <1>5
    <2>4. b \in [0 .. cap' - 1 -> 0 .. Base - 1]
      BY <1>6
    <2>5. OperandIn(bytes', b, cap', size, Width[op], arg)
      BY <2>2, <2>3, <2>4, WrittenOK
    <2> QED
      BY <2>1, <2>5 DEF OperandIn
  <1>8. bytes'[size] = op /\ \A i \in 0 .. size - 1 : bytes'[i] = bytes[i]
    BY <1>1, <1>3, <1>5, <1>6, <1>7
  <1>9. /\ code' \in Seq(Instr) /\ Len(code') = Len(code) + 1 /\ code'[Len(code) + 1] = new
        /\ \A i \in 1 .. Len(code) : code'[i] = code[i] /\ code[i] \in Instr
        /\ DOMAIN code = 1 .. Len(code) /\ Len(code) \in Nat /\ DOMAIN code' = 1 .. Len(code) + 1
        /\ code' # << >> /\ (code # << >> => Len(code) > 0)
    BY <1>2, <1>4
  <1>10. /\ new.at = size /\ new.op = op /\ End(new) = size'
    BY <1>1, <1>3 DEF new, End
  <1>11. \A i \in 1 .. Len(code) : /\ code[i].at \in Nat /\ Width[code[i].op] \in 0 .. 2
                                  /\ End(code[i]) = code[i].at + 1 + Width[code[i].op]
    BY <1>9, Opcodes DEF Instr, End
  <1>12. \A i \in 1 .. Len(code) : /\ End(code[i]) \in Nat /\ End(code[i]) <= size
                                  /\ code[i].at < size
    <2>1. \A i \in 1 .. Len(code) : End(code[i]) <= size
      BY <1>9 DEF Layout, Ordered
    <2>2. ASSUME NEW i \in 1 .. Len(code)
          PROVE  End(code[i]) \in Nat /\ End(code[i]) <= size /\ code[i].at < size
      <3>1. /\ code[i].at \in Nat /\ Width[code[i].op] \in 0 .. 2 /\ End(code[i]) <= size
            /\ End(code[i]) = code[i].at + 1 + Width[code[i].op]
        BY <1>11, <2>1
      <3>2. \A a, z, m \in Nat, w \in 0 .. 2 :
              m = a + 1 + w /\ m <= z => a < z
        OBVIOUS
      <3>3. \A a \in Nat, w \in 0 .. 2 : a + 1 + w \in Nat
        OBVIOUS
      <3>4. End(code[i]) \in Nat
        BY <3>1, <3>3
      <3>5. size \in Nat
        BY <1>3
      <3> QED
        BY <3>1, <3>2, <3>4, <3>5
    <2> QED
      BY <2>2
  <1>13. TypeOK' /\ Fits'
    <2>1. last' \in [op : Ops, pos : Nat] /\ previous' \in [op : Ops, pos : Nat]
          /\ walk' \in [at : Nat, end : Nat, mark : Nat, value : Nat]
      BY <1>2, <1>3 DEF Layout, TypeOK
    <2> QED
      BY <1>5, <1>7, <1>9, <2>1 DEF TypeOK, Fits, Instr
  <1>14. Contiguous'
    <2>1. code'[1].at = 0
      BY <1>3, <1>9, <1>10 DEF Layout, Contiguous
    <2>2. ASSUME NEW i \in 1 .. Len(code) PROVE code'[i + 1].at = End(code'[i])
      <3>1. CASE i = Len(code)
        BY <1>9, <1>10, <3>1 DEF Layout, Contiguous
      <3>2. CASE i # Len(code)
        <4>1. \A k \in 1 .. Len(code) - 1 : code[k + 1].at = End(code[k])
          BY DEF Layout, Contiguous
        <4>2. i \in 1 .. Len(code) - 1 /\ i + 1 \in 1 .. Len(code)
          <5>1. Len(code) \in Nat
            BY <1>9
          <5> QED
            BY <5>1, <3>2
        <4> QED
          BY <1>9, <4>1, <4>2
      <3> QED
        BY <3>1, <3>2
    <2> QED
      BY <1>9, <1>10, <2>1, <2>2 DEF Contiguous, End
  <1>15. Ordered'
    <2>1. ASSUME NEW i \in DOMAIN code' PROVE End(code'[i]) <= size'
      <3>1. CASE i \in 1 .. Len(code)
        <4>1. code'[i] = code[i] /\ End(code[i]) \in Nat /\ End(code[i]) <= size
          BY <1>9, <1>12, <3>1
        <4>2. size <= size'
          BY <1>1, <1>3
        <4> QED
          BY <1>3, <1>5, <4>1, <4>2
      <3>2. CASE i = Len(code) + 1
        BY <1>5, <1>9, <1>10, <3>2
      <3> QED
        BY <1>9, <3>1, <3>2
    <2>2. ASSUME NEW i \in DOMAIN code', NEW j \in DOMAIN code', i < j
          PROVE  End(code'[i]) <= code'[j].at
      <3>1. i \in 1 .. Len(code) /\ code'[i] = code[i]
        BY <1>9, <2>2
      <3>2. CASE j = Len(code) + 1
        BY <1>9, <1>10, <1>12, <3>1, <3>2
      <3>3. CASE j # Len(code) + 1
        BY <1>9, <2>2, <3>1, <3>3 DEF Layout, Ordered
      <3> QED
        BY <3>2, <3>3
    <2> QED
      BY <2>1, <2>2 DEF Ordered, End
  <1>16. LastTrue'
    BY <1>2, <1>9, <1>10 DEF LastTrue
  <1>17. PreviousTrue'
    <2>1. CASE code = << >>
      <3>1. size = 0 /\ last.pos \in Nat
        BY <2>1 DEF Layout, Contiguous, TypeOK
      <3> QED
        BY <1>2, <3>1 DEF PreviousTrue
    <2>2. CASE code # << >>
      <3>1. last = [op |-> code[Len(code)].op, pos |-> code[Len(code)].at]
        BY <2>2 DEF Layout, LastTrue
      <3>2. Len(code) > 0 /\ Len(code) \in Nat /\ Len(code') = Len(code) + 1
            /\ code'[Len(code)] = code[Len(code)]
        BY <1>9, <2>2
      <3>3. Len(code') > 1 /\ Len(code') - 1 = Len(code)
        BY <3>2
      <3> QED
        BY <1>2, <3>1, <3>2, <3>3 DEF PreviousTrue
    <2> QED
      BY <2>1, <2>2
  <1>18. \A i \in DOMAIN code' : bytes'[code'[i].at] = code'[i].op
    <2>1. \A i \in 1 .. Len(code) : bytes'[code[i].at] = code[i].op
      <3>1. \A i \in 1 .. Len(code) : bytes[code[i].at] = code[i].op
        BY <1>9 DEF Layout
      <3>2. \A i \in 1 .. Len(code) : code[i].at \in 0 .. size - 1
        BY <1>3, <1>11, <1>12
      <3> QED
        BY <1>8, <3>1, <3>2
    <2> QED
      BY <1>8, <1>9, <1>10, <2>1
  <1>19. WalkOK'
    BY <1>1, <1>2 DEF WalkOK, Walking
  <1> QED
    BY <1>2, <1>5, <1>7, <1>8, <1>13, <1>14, <1>15, <1>16, <1>17, <1>18, <1>19 DEF Layout, new

\* What the layout says of one instruction, and of two.
LEMMA Placed == ASSUME Layout
                PROVE  /\ code \in Seq(Instr) /\ Len(code) \in Nat /\ DOMAIN code = 1 .. Len(code)
                       /\ size \in Nat /\ cap \in Nat /\ size <= cap /\ size <= MaxSize
                       /\ \A i \in DOMAIN code :
                            /\ code[i] \in Instr /\ code[i].op \in Ops /\ Width[code[i].op] \in 0 .. 2
                            /\ code[i].at \in Nat /\ code[i].arg \in Nat /\ code[i].kind \in Kinds
                            /\ End(code[i]) = code[i].at + 1 + Width[code[i].op]
                            /\ End(code[i]) <= size /\ bytes[code[i].at] = code[i].op
                       /\ \A i, j \in DOMAIN code : i < j => End(code[i]) <= code[j].at
  <1>1. code \in Seq(Instr) /\ size \in Nat /\ cap \in Nat /\ size <= cap /\ size <= MaxSize
    BY DEF Layout, TypeOK, Fits, Instr
  <1>2. Len(code) \in Nat /\ DOMAIN code = 1 .. Len(code) /\ \A i \in DOMAIN code : code[i] \in Instr
    BY <1>1
  <1>3. \A c \in Instr : /\ c.op \in Ops /\ c.at \in Nat /\ c.arg \in Nat /\ c.kind \in Kinds
                         /\ Width[c.op] \in 0 .. 2 /\ End(c) = c.at + 1 + Width[c.op]
    BY Opcodes DEF Instr, End
  <1>4. /\ \A i \in DOMAIN code : End(code[i]) <= size /\ bytes[code[i].at] = code[i].op
        /\ \A i, j \in DOMAIN code : i < j => End(code[i]) <= code[j].at
    BY DEF Layout, Ordered
  <1> QED
    BY <1>1, <1>2, <1>3, <1>4

\* Different instructions have no byte in common.
LEMMA Apart == ASSUME Layout, NEW i \in DOMAIN code, NEW k \in DOMAIN code, i # k,
                      NEW j \in code[i].at .. End(code[i]) - 1
               PROVE  /\ j \in 0 .. cap - 1
                      /\ j < code[k].at \/ j > code[k].at + Width[code[k].op]
  <1>1. ASSUME NEW s \in Nat, NEW c \in Nat, NEW a \in Nat, NEW w \in 0 .. 2, s <= c, a + 1 + w <= s,
               NEW d \in Nat, NEW v \in 0 .. 2, NEW l \in a .. (a + 1 + w) - 1,
               a + 1 + w <= d \/ d + 1 + v <= a
        PROVE  l \in 0 .. c - 1 /\ (l < d \/ l > d + v)
    BY <1>1
  <1>2. i < k \/ k < i
    BY Placed
  <1> DEFINE a == code[i].at
             w == Width[code[i].op]
             d == code[k].at
             v == Width[code[k].op]
  <1>3. /\ size \in Nat /\ cap \in Nat /\ size <= cap /\ a \in Nat /\ w \in 0 .. 2 /\ d \in Nat
        /\ v \in 0 .. 2 /\ End(code[i]) = a + 1 + w /\ End(code[k]) = d + 1 + v
        /\ a + 1 + w <= size /\ (a + 1 + w <= d \/ d + 1 + v <= a)
    BY Placed, <1>2
  <1>4. j \in a .. (a + 1 + w) - 1
    BY <1>3
  <1> HIDE DEF a, w, d, v
  <1>5. j \in 0 .. cap - 1 /\ (j < d \/ j > d + v)
    BY <1>1, <1>3, <1>4
  <1> QED
    BY <1>5 DEF d, v

\* A patch changes the operand of one instruction and nothing else.
LEMMA Patched ==
    ASSUME Layout, NEW k \in DOMAIN code, NEW x \in Nat, NEW b,
           b = Written(bytes, code[k].at, Width[code[k].op], x)
    PROVE  /\ b \in [0 .. cap - 1 -> 0 .. Base - 1]
           /\ \A i \in DOMAIN code : b[code[i].at] = bytes[code[i].at]
           /\ \A i \in DOMAIN code : i # k =>
                \A j \in code[i].at .. End(code[i]) - 1 : b[j] = bytes[j]
           /\ Width[code[k].op] > 0 => b[code[k].at + Width[code[k].op]] = Low(x)
           /\ Width[code[k].op] = 2 => b[code[k].at + 1] = High(x)
  <1> DEFINE at == code[k].at
             w  == Width[code[k].op]
  <1>1. /\ at \in Nat /\ w \in 0 .. 2 /\ cap \in Nat /\ size \in Nat /\ size <= cap /\ at + 1 + w <= size
        /\ bytes \in [0 .. cap - 1 -> 0 .. Base - 1]
    BY Placed DEF Layout, TypeOK
  <1>2. at + w < cap /\ at \in 0 .. cap - 1 /\ (w = 2 => at + 2 < cap)
    <2>1. ASSUME NEW s \in Nat, NEW c \in Nat, NEW a \in Nat, NEW v \in 0 .. 2, s <= c, a + 1 + v <= s
          PROVE  a + v < c /\ a \in 0 .. c - 1 /\ (v = 2 => a + 2 < c)
      BY <2>1
    <2> HIDE DEF at, w
    <2> QED
      BY <1>1, <2>1
  <1>3. b = Written(bytes, at, w, x)
    OBVIOUS
  <1> HIDE DEF at, w
  <1>4. OperandIn(b, bytes, cap, at, w, x)
    <2>1. cap \in Nat /\ at \in Nat /\ x \in Nat /\ w \in 0 .. 2
      BY <1>1
    <2>2. bytes \in [0 .. cap - 1 -> 0 .. Base - 1]
      BY <1>1
    <2> QED
      BY <1>3, <2>1, <2>2, WrittenOK
  <1>5. /\ b \in [0 .. cap - 1 -> 0 .. Base - 1]
        /\ \A i \in 0 .. cap - 1 : i <= at \/ i > at + w => b[i] = bytes[i]
        /\ w > 0 => b[at + w] = Low(x)
        /\ w = 2 => b[at + 1] = High(x)
    BY <1>2, <1>4 DEF OperandIn
  <1>6. ASSUME NEW i \in DOMAIN code, i # k, NEW j \in code[i].at .. End(code[i]) - 1
        PROVE  b[j] = bytes[j]
    <2>1. j \in 0 .. cap - 1 /\ (j < at \/ j > at + w)
      BY <1>6, Apart DEF at, w
    <2>2. j \in Int /\ at \in Int
      BY <1>1, <2>1
    <2> QED
      BY <1>5, <2>1, <2>2
  <1>7. ASSUME NEW i \in DOMAIN code PROVE b[code[i].at] = bytes[code[i].at]
    <2>1. CASE i = k
      <3>1. at <= at /\ at \in 0 .. cap - 1
        BY <1>1, <1>2
      <3>2. b[at] = bytes[at]
        BY <1>5, <3>1, ZenonT(30)
      <3> QED
        BY <2>1, <3>2, ZenonT(30) DEF at
    <2>2. CASE i # k
      <3>1. /\ code[i].at \in Nat /\ Width[code[i].op] \in 0 .. 2
            /\ End(code[i]) = code[i].at + 1 + Width[code[i].op]
        BY Placed
      <3>2. \A a \in Nat, v \in 0 .. 2 : a \in a .. (a + 1 + v) - 1
        OBVIOUS
      <3>3. code[i].at \in code[i].at .. End(code[i]) - 1
        BY <3>1, <3>2
      <3> QED
        BY <1>6, <2>2, <3>3
    <2> QED
      BY <2>1, <2>2
  <1> QED
    BY <1>5, <1>6, <1>7 DEF at, w

\* The layout depends on the opcodes and their places alone.
LEMMA SameLayout ==
    ASSUME Layout, size' = size, cap' = cap, last' = last, previous' = previous,
           code' \in Seq(Instr), Len(code') = Len(code),
           \A i \in DOMAIN code : code'[i].op = code[i].op /\ code'[i].at = code[i].at,
           bytes' \in [0 .. cap - 1 -> 0 .. Base - 1],
           \A i \in DOMAIN code : bytes'[code[i].at] = bytes[code[i].at],
           walk' \in [at : Nat, end : Nat, mark : Nat, value : Nat], WalkOK'
    PROVE  Layout'
  <1>1. DOMAIN code' = DOMAIN code /\ DOMAIN code = 1 .. Len(code) /\ Len(code) \in Nat
    BY Placed
  <1>2. \A i \in DOMAIN code : End(code'[i]) = End(code[i])
    BY DEF End
  <1>3. TypeOK' /\ Fits' /\ cap' > 3
    BY DEF Layout, TypeOK, Fits, Instr
  <1>4. code' = << >> <=> code = << >>
    BY <1>1
  <1>5. Contiguous'
    <2>1. code = << >> => size = 0
      BY DEF Layout, Contiguous
    <2>2. code # << >> => code[1].at = 0 /\ End(code[Len(code)]) = size
      BY DEF Layout, Contiguous
    <2>3. \A i \in 1 .. Len(code) - 1 : code[i + 1].at = End(code[i])
      BY DEF Layout, Contiguous
    <2>4. code' # << >> => code'[1].at = 0 /\ End(code'[Len(code')]) = size'
      <3>1. code # << >> => 1 \in DOMAIN code /\ Len(code) \in DOMAIN code
        BY <1>1
      <3> QED
        BY <1>2, <1>4, <2>2, <3>1
    <2>5. ASSUME NEW i \in 1 .. Len(code') - 1 PROVE code'[i + 1].at = End(code'[i])
      <3>1. i \in DOMAIN code /\ i + 1 \in DOMAIN code /\ i \in 1 .. Len(code) - 1
        BY <1>1
      <3> QED
        BY <1>2, <2>3, <3>1
    <2> QED
      BY <1>4, <2>1, <2>4, <2>5 DEF Contiguous, End
  <1>6. Ordered'
    <2>1. \A i \in DOMAIN code' : End(code'[i]) <= size'
      BY <1>1, <1>2 DEF Layout, Ordered
    <2>2. \A i, j \in DOMAIN code' : i < j => End(code'[i]) <= code'[j].at
      BY <1>1, <1>2 DEF Layout, Ordered
    <2> QED
      BY <2>1, <2>2 DEF Ordered, End
  <1>7. LastTrue'
    <2>1. code # << >> => Len(code) \in DOMAIN code
      BY <1>1
    <2> QED
      BY <1>4, <2>1 DEF Layout, LastTrue
  <1>8. PreviousTrue'
    <2>1. Len(code) > 1 => Len(code) - 1 \in DOMAIN code
      BY <1>1
    <2> QED
      BY <1>4, <2>1 DEF Layout, PreviousTrue
  <1>9. \A i \in DOMAIN code' : bytes'[code'[i].at] = code'[i].op
    BY <1>1 DEF Layout
  <1> QED
    BY <1>3, <1>5, <1>6, <1>7, <1>8, <1>9 DEF Layout

\* The last instruction is taken back; the one before it is the last one again.
LEMMA RemoveLayout == ASSUME Layout, RemoveLast
                      PROVE  /\ Layout' /\ bytes' = bytes
                             /\ Len(code') = Len(code) - 1 /\ Len(code) > 1
                             /\ \A i \in DOMAIN code' : i \in DOMAIN code /\ code'[i] = code[i]
  <1>1. /\ ~Walking /\ size > 0 /\ last.op = POP /\ previous.pos < last.pos
        /\ size' = last.pos /\ last' = previous /\ code' = SubSeq(code, 1, Len(code) - 1)
        /\ bytes' = bytes /\ cap' = cap /\ previous' = previous /\ walk' = walk
    BY DEF RemoveLast
  <1>2. code # << >>
    BY <1>1 DEF Layout, Contiguous
  <1>3. /\ last = [op |-> code[Len(code)].op, pos |-> code[Len(code)].at]
        /\ Len(code) > 1
        /\ previous = [op |-> code[Len(code) - 1].op, pos |-> code[Len(code) - 1].at]
    BY <1>1, <1>2 DEF Layout, LastTrue, PreviousTrue
  <1> DEFINE n == Len(code)
  <1>4. /\ code \in Seq(Instr) /\ n \in Nat /\ DOMAIN code = 1 .. n /\ n > 1
    BY <1>3, Placed
  <1>5. /\ code' \in Seq(Instr) /\ Len(code') = n - 1 /\ DOMAIN code' = 1 .. n - 1
        /\ \A i \in 1 .. n - 1 : code'[i] = code[i]
    BY <1>1, <1>4
  <1> HIDE DEF n
  <1>6. \A i \in 1 .. n - 1 : i \in 1 .. n /\ i < n
    BY <1>4
  <1>7. n \in DOMAIN code /\ n - 1 \in DOMAIN code /\ n - 1 \in 1 .. n - 1 /\ code' # << >>
        /\ (n - 1) + 1 = n /\ 1 \in 1 .. n - 1
    BY <1>4, <1>5
  <1>8. End(code[n - 1]) = code[n].at /\ size' = code[n].at
    <2>1. \A i \in 1 .. n - 1 : code[i + 1].at = End(code[i])
      BY DEF Layout, Contiguous, n
    <2>2. code[(n - 1) + 1].at = End(code[n - 1])
      BY <1>7, <2>1
    <2> QED
      BY <1>1, <1>3, <1>7, <2>2 DEF n
  <1>9. size' \in Nat /\ size' <= size
    <2>1. \A a, e, s \in Nat, w \in 0 .. 2 : e = a + 1 + w /\ e <= s => a <= s
      OBVIOUS
    <2>2. /\ code[n].at \in Nat /\ size \in Nat /\ Width[code[n].op] \in 0 .. 2
          /\ End(code[n]) = code[n].at + 1 + Width[code[n].op] /\ End(code[n]) <= size
      BY <1>7, Placed
    <2> QED
      BY <1>8, <2>1, <2>2
  <1>10. TypeOK' /\ Fits' /\ cap' > 3
    <2>1. size' <= cap' /\ size' <= MaxSize
      <3>1. \A a, s, c, m \in Nat : a <= s /\ s <= c /\ s <= m => a <= c /\ a <= m
        OBVIOUS
      <3> QED
        BY <1>1, <1>9, <3>1, Placed, EncodingAssumption
    <2> QED
      BY <1>1, <1>5, <1>9, <2>1 DEF Layout, TypeOK, Fits, Instr
  <1>11. Contiguous'
    <2>1. code'[1].at = 0
      BY <1>4, <1>5, <1>7 DEF Layout, Contiguous
    <2>2. End(code'[Len(code')]) = size'
      BY <1>5, <1>7, <1>8
    <2>3. ASSUME NEW i \in 1 .. Len(code') - 1 PROVE code'[i + 1].at = End(code'[i])
      <3>1. i \in 1 .. n - 1 /\ i + 1 \in 1 .. n - 1
        BY <1>4, <1>5
      <3>2. \A k \in 1 .. n - 1 : code[k + 1].at = End(code[k])
        BY DEF Layout, Contiguous, n
      <3> QED
        BY <1>5, <3>1, <3>2
    <2> QED
      BY <1>7, <2>1, <2>2, <2>3 DEF Contiguous, End
  <1>12. Ordered'
    <2>1. \A i, j \in DOMAIN code' : i < j => End(code'[i]) <= code'[j].at
      BY <1>4, <1>5, <1>6 DEF Layout, Ordered
    <2>2. \A i \in DOMAIN code' : End(code'[i]) <= size'
      BY <1>4, <1>5, <1>6, <1>7, <1>8 DEF Layout, Ordered
    <2> QED
      BY <2>1, <2>2 DEF Ordered, End
  <1>13. LastTrue'
    BY <1>1, <1>3, <1>5, <1>7 DEF LastTrue, n
  <1>14. PreviousTrue'
    <2>1. previous.pos \in Nat
      BY DEF Layout, TypeOK
    <2> QED
      BY <1>1, <2>1 DEF PreviousTrue
  <1>15. \A i \in DOMAIN code' : bytes'[code'[i].at] = code'[i].op
    BY <1>1, <1>4, <1>5, <1>6 DEF Layout
  <1>16. WalkOK'
    BY <1>1 DEF WalkOK, Walking
  <1> QED
    BY <1>1, <1>4, <1>5, <1>6, <1>10, <1>11, <1>12, <1>13, <1>14, <1>15, <1>16 DEF Layout, n

\* A POP at the end becomes a RETURN_VALUE.
LEMMA ReplaceLayout ==
    ASSUME Layout, ReplaceLast
    PROVE  /\ Layout' /\ size' = size /\ Len(code') = Len(code) /\ code # << >>
           /\ code[Len(code)].op = POP /\ code'[Len(code)] = [code[Len(code)] EXCEPT !.op = RETURN_VALUE]
           /\ \A i \in DOMAIN code : i # Len(code) => code'[i] = code[i]
           /\ \A j \in 0 .. cap - 1 : j # code[Len(code)].at => bytes'[j] = bytes[j]
  <1>1. /\ ~Walking /\ size > 0 /\ last.op = POP
        /\ bytes' = [bytes EXCEPT ![last.pos] = RETURN_VALUE]
        /\ last' = [last EXCEPT !.op = RETURN_VALUE] /\ previous' = last
        /\ code' = [code EXCEPT ![Len(code)].op = RETURN_VALUE]
        /\ size' = size /\ cap' = cap /\ walk' = walk
    BY DEF ReplaceLast
  <1>2. code # << >>
    BY <1>1 DEF Layout, Contiguous
  <1>3. last = [op |-> code[Len(code)].op, pos |-> code[Len(code)].at]
    BY <1>2 DEF Layout, LastTrue
  <1> DEFINE n == Len(code)
             new == [code[n] EXCEPT !.op = RETURN_VALUE]
  <1>4. /\ code \in Seq(Instr) /\ n \in Nat /\ DOMAIN code = 1 .. n /\ n \in DOMAIN code
        /\ code[n] \in Instr /\ code[n].at \in Nat /\ code[n].op = POP
    BY <1>1, <1>2, <1>3, Placed
  <1>5. /\ new \in Instr /\ new.at = code[n].at /\ new.op = RETURN_VALUE
    BY <1>4, Opcodes DEF Instr
  <1>6. code' = [code EXCEPT ![n] = new]
    BY <1>1
  <1> HIDE DEF n, new
  <1>7. /\ code' \in Seq(Instr) /\ Len(code') = n /\ DOMAIN code' = DOMAIN code
        /\ code'[n] = new /\ \A i \in DOMAIN code : i # n => code'[i] = code[i]
    BY <1>4, <1>5, <1>6
  <1>8. \A i \in DOMAIN code : code'[i].at = code[i].at /\ End(code'[i]) = End(code[i])
    BY <1>4, <1>5, <1>7, Opcodes DEF End
  <1>9. /\ bytes' \in [0 .. cap - 1 -> 0 .. Base - 1] /\ code[n].at \in 0 .. cap - 1
        /\ bytes'[code[n].at] = RETURN_VALUE
        /\ \A j \in 0 .. cap - 1 : j # code[n].at => bytes'[j] = bytes[j]
    <2>1. bytes \in [0 .. cap - 1 -> 0 .. Base - 1] /\ RETURN_VALUE \in 0 .. Base - 1
      BY Opcodes DEF Layout, TypeOK
    <2>2. code[n].at \in 0 .. cap - 1
      <3>1. \A a, e, s, c \in Nat, w \in 0 .. 2 :
               e = a + 1 + w /\ e <= s /\ s <= c => a \in 0 .. c - 1
        OBVIOUS
      <3>2. /\ code[n].at \in Nat /\ Width[code[n].op] \in 0 .. 2 /\ size \in Nat /\ cap \in Nat
            /\ End(code[n]) = code[n].at + 1 + Width[code[n].op] /\ End(code[n]) <= size /\ size <= cap
        BY <1>4, Placed
      <3>3. End(code[n]) \in Nat
        BY <3>2
      <3> QED
        BY <3>1, <3>2, <3>3
    <2>3. last.pos = code[n].at
      BY <1>3 DEF n
    <2> QED
      BY <1>1, <2>1, <2>2, <2>3
  <1>10. TypeOK' /\ Fits' /\ cap' > 3
    <2>1. last' \in [op : Ops, pos : Nat] /\ previous' \in [op : Ops, pos : Nat]
      BY <1>1, Opcodes DEF Layout, TypeOK
    <2> QED
      BY <1>1, <1>7, <1>9, <2>1 DEF Layout, TypeOK, Fits, Instr
  <1>11. Contiguous'
    <2>1. code[1].at = 0 /\ End(code[n]) = size
      BY <1>2 DEF Layout, Contiguous, n
    <2>2. code' # << >> /\ code'[1].at = 0 /\ End(code'[Len(code')]) = size'
      BY <1>1, <1>4, <1>7, <1>8, <2>1
    <2>3. ASSUME NEW i \in 1 .. Len(code') - 1 PROVE code'[i + 1].at = End(code'[i])
      <3>1. i \in DOMAIN code /\ i + 1 \in DOMAIN code /\ i \in 1 .. n - 1
        BY <1>4, <1>7
      <3>2. \A k \in 1 .. n - 1 : code[k + 1].at = End(code[k])
        BY DEF Layout, Contiguous, n
      <3> QED
        BY <1>8, <3>1, <3>2
    <2> QED
      BY <2>2, <2>3 DEF Contiguous, End
  <1>12. Ordered'
    <2>1. \A i \in DOMAIN code' : End(code'[i]) <= size'
      BY <1>1, <1>7, <1>8 DEF Layout, Ordered
    <2>2. \A i, j \in DOMAIN code' : i < j => End(code'[i]) <= code'[j].at
      BY <1>7, <1>8 DEF Layout, Ordered
    <2> QED
      BY <2>1, <2>2 DEF Ordered, End
  <1>13. LastTrue'
    BY <1>1, <1>3, <1>5, <1>7 DEF LastTrue, n
  <1>14. PreviousTrue'
    <2>1. previous'.pos = last'.pos /\ last'.pos \in Nat
      BY <1>1, <1>3, <1>4 DEF n
    <2> QED
      BY <2>1 DEF PreviousTrue
  <1>15. \A i \in DOMAIN code' : bytes'[code'[i].at] = code'[i].op
    <2>1. ASSUME NEW i \in DOMAIN code, i # n PROVE bytes'[code'[i].at] = code'[i].op
      <3>1. /\ code[i].at \in Nat /\ Width[code[i].op] \in 0 .. 2 /\ code[n].at \in Nat
            /\ End(code[i]) = code[i].at + 1 + Width[code[i].op] /\ bytes[code[i].at] = code[i].op
        BY <1>4, Placed
      <3>2. \A a \in Nat, v \in 0 .. 2 : a \in a .. (a + 1 + v) - 1
        OBVIOUS
      <3>3. code[i].at \in code[i].at .. End(code[i]) - 1
        BY <3>1, <3>2
      <3>4. /\ code[i].at \in 0 .. cap - 1
            /\ code[i].at < code[n].at \/ code[i].at > code[n].at + Width[code[n].op]
        BY <1>4, <2>1, <3>3, Apart
      <3>5. \A a, b \in Nat, v \in 0 .. 2 : a < b \/ a > b + v => a # b
        OBVIOUS
      <3>6. code[i].at # code[n].at
        BY <1>4, <3>1, <3>4, <3>5, Placed
      <3> QED
        BY <1>7, <1>9, <2>1, <3>1, <3>4, <3>6
    <2> QED
      BY <1>4, <1>5, <1>7, <1>9, <2>1
  <1>16. WalkOK'
    BY <1>1 DEF WalkOK, Walking
  <1> QED
    BY <1>1, <1>2, <1>4, <1>7, <1>9, <1>10, <1>11, <1>12, <1>13, <1>14, <1>15, <1>16 DEF Layout, n, new

\* An instruction is replaced by another.
LEMMA Replaced == ASSUME NEW s \in Seq(Instr), NEW k \in DOMAIN s, NEW e \in Instr,
                         NEW t, t = [s EXCEPT ![k] = e]
                  PROVE  /\ t \in Seq(Instr) /\ Len(t) = Len(s) /\ t[k] = e
                         /\ \A i \in DOMAIN s : i # k => t[i] = s[i]
  OBVIOUS

\* ChangeOperand of one jump.
ChangeAt(k) ==
    /\ ~Walking /\ k \in DOMAIN code /\ code[k].kind = "forward"
    /\ bytes' = Written(bytes, code[k].at, Width[bytes[code[k].at]], size)
    /\ code' = [code EXCEPT ![k].arg = size, ![k].kind = "target"]
    /\ UNCHANGED <<size, cap, last, previous, walk>>

\* The jump over what has been compiled since gets its target, the end of the code.
LEMMA ChangeLayout ==
    ASSUME Layout, NEW k \in DOMAIN code, ChangeAt(k)
    PROVE  /\ Layout' /\ Len(code') = Len(code) /\ size' = size
           /\ code'[k] = [code[k] EXCEPT !.arg = size, !.kind = "target"]
           /\ \A i \in DOMAIN code : i # k => /\ code'[i] = code[i]
                                             /\ \A j \in code[i].at .. End(code[i]) - 1 : bytes'[j] = bytes[j]
           /\ bytes'[code[k].at] = bytes[code[k].at]
           /\ Width[code[k].op] > 0 => bytes'[code[k].at + Width[code[k].op]] = Low(size)
           /\ Width[code[k].op] = 2 => bytes'[code[k].at + 1] = High(size)
  <1> DEFINE new == [code[k] EXCEPT !.arg = size, !.kind = "target"]
  <1>1. /\ code \in Seq(Instr) /\ DOMAIN code = 1 .. Len(code) /\ Len(code) \in Nat /\ size \in Nat
        /\ code[k] \in Instr /\ bytes[code[k].at] = code[k].op
    BY Placed
  <1>2. new \in Instr /\ new.op = code[k].op /\ new.at = code[k].at
    BY <1>1 DEF Instr, Kinds
  <1>3. code' = [code EXCEPT ![k] = new]
    BY DEF ChangeAt
  <1> HIDE DEF new
  <1>4. /\ code' \in Seq(Instr) /\ Len(code') = Len(code) /\ code'[k] = new
        /\ \A i \in DOMAIN code : i # k => code'[i] = code[i]
    BY <1>1, <1>2, <1>3, Replaced
  <1>5. bytes' = Written(bytes, code[k].at, Width[code[k].op], size)
    BY <1>1 DEF ChangeAt
  <1>6. /\ bytes' \in [0 .. cap - 1 -> 0 .. Base - 1]
        /\ \A i \in DOMAIN code : bytes'[code[i].at] = bytes[code[i].at]
        /\ \A i \in DOMAIN code : i # k =>
             \A j \in code[i].at .. End(code[i]) - 1 : bytes'[j] = bytes[j]
        /\ Width[code[k].op] > 0 => bytes'[code[k].at + Width[code[k].op]] = Low(size)
        /\ Width[code[k].op] = 2 => bytes'[code[k].at + 1] = High(size)
    BY <1>1, <1>5, Patched
  <1>7. WalkOK' /\ walk' \in [at : Nat, end : Nat, mark : Nat, value : Nat]
    BY DEF Layout, TypeOK, WalkOK, Walking, ChangeAt
  <1>8. \A i \in DOMAIN code : code'[i].op = code[i].op /\ code'[i].at = code[i].at
    BY <1>2, <1>4
  <1>9. Layout'
    BY <1>4, <1>6, <1>7, <1>8, SameLayout DEF ChangeAt
  <1> QED
    BY <1>4, <1>6, <1>9 DEF new, ChangeAt

\* A walk begins at an instruction.
LEMMA StartLayout == ASSUME Layout, StartWalk
                     PROVE  Layout' /\ code' = code /\ bytes' = bytes /\ size' = size
  <1>1. PICK i \in DOMAIN code, end \in 1 .. size, mark \in Marks,
             value \in {size} \cup {code[j].at : j \in DOMAIN code} :
             /\ code[i].at < end
             /\ \A j \in DOMAIN code : code[j].at >= code[i].at => code[j].kind # "forward"
             /\ walk' = [at |-> code[i].at, end |-> end, mark |-> mark, value |-> value]
    BY DEF StartWalk, Marks
  <1>2. UNCHANGED <<bytes, size, cap, last, previous, code>>
    BY DEF StartWalk
  <1>3. \A a, e, s \in Nat, w \in 0 .. 2 : e = a + 1 + w /\ e <= s => a <= s
    OBVIOUS
  <1>4. \A j \in DOMAIN code : code[j].at \in Nat /\ code[j].at <= size
    <2> TAKE j \in DOMAIN code
    <2>1. /\ code[j].at \in Nat /\ size \in Nat /\ Width[code[j].op] \in 0 .. 2
          /\ End(code[j]) = code[j].at + 1 + Width[code[j].op] /\ End(code[j]) <= size
      BY Placed
    <2> QED
      BY <1>3, <2>1
  <1>5. /\ size \in Nat /\ value \in Nat /\ value <= size /\ end \in Nat /\ end <= size
        /\ mark \in Nat /\ code[i].at \in Nat
    BY <1>4, Placed, EncodingAssumption DEF Marks
  <1>6. ASSUME NEW j \in DOMAIN code, j >= i PROVE code[j].kind # "forward"
    <2>1. CASE j = i
      BY <1>1, <1>5, <2>1
    <2>2. CASE j # i
      <3>1. i < j
        BY <1>6, <2>2, Placed
      <3>2. End(code[i]) <= code[j].at
        BY <3>1, Placed
      <3>3. \A a, e, b \in Nat, w \in 0 .. 2 : e = a + 1 + w /\ e <= b => b >= a
        OBVIOUS
      <3>4. code[j].at >= code[i].at
        <4>1. /\ code[i].at \in Nat /\ code[j].at \in Nat /\ Width[code[i].op] \in 0 .. 2
              /\ End(code[i]) = code[i].at + 1 + Width[code[i].op]
          BY Placed
        <4>2. End(code[i]) \in Nat
          BY <4>1
        <4> QED
          BY <3>2, <3>3, <4>1, <4>2
      <3> QED
        BY <1>1, <3>4
    <2> QED
      BY <2>1, <2>2
  <1>7. WalkOK' /\ walk' \in [at : Nat, end : Nat, mark : Nat, value : Nat]
    BY <1>1, <1>2, <1>5, <1>6 DEF WalkOK
  <1>8. /\ code' \in Seq(Instr) /\ bytes' \in [0 .. cap - 1 -> 0 .. Base - 1]
    BY <1>2, Placed DEF Layout, TypeOK
  <1>9. Layout'
    BY <1>2, <1>7, <1>8, SameLayout
  <1> QED
    BY <1>2, <1>9

\* The walk is at one instruction; the next one is behind it.
LEMMA WalkLayout ==
    ASSUME Layout, WalkOn
    PROVE  /\ Layout' /\ size' = size /\ Len(code') = Len(code) /\ Walking
           /\ \E i \in DOMAIN code :
                /\ code[i].at = walk.at /\ code[i].kind # "forward"
                /\ code'[i] = IF Meant(code[i].kind)
                              THEN [code[i] EXCEPT !.arg = walk.value, !.kind = "target"] ELSE code[i]
                /\ bytes'[code[i].at] = bytes[code[i].at]
                /\ Found => /\ bytes'[code[i].at + 2] = Low(walk.value)
                            /\ bytes'[code[i].at + 1] = High(walk.value)
                /\ ~Found => bytes' = bytes
                /\ \A j \in DOMAIN code : j # i =>
                     /\ code'[j] = code[j]
                     /\ \A l \in code[j].at .. End(code[j]) - 1 : bytes'[l] = bytes[l]
  <1>1. /\ Walking
        /\ bytes' = IF Found THEN Written(bytes, walk.at, 2, walk.value) ELSE bytes
        /\ walk' = IF Following(walk.at) < walk.end
                   THEN [walk EXCEPT !.at = Following(walk.at)] ELSE NoWalk
        /\ code' = [i \in DOMAIN code |->
                      IF code[i].at = walk.at /\ Meant(code[i].kind)
                      THEN [code[i] EXCEPT !.arg = walk.value, !.kind = "target"] ELSE code[i]]
        /\ UNCHANGED <<size, cap, last, previous>>
    BY DEF WalkOn
  <1>2. /\ walk.at < walk.end /\ walk.end <= size /\ walk.value <= size /\ walk.mark \in Marks
        /\ walk \in [at : Nat, end : Nat, mark : Nat, value : Nat]
    BY <1>1 DEF Layout, WalkOK, TypeOK
  <1>3. PICK k \in DOMAIN code : /\ code[k].at = walk.at
                                 /\ \A j \in DOMAIN code : j >= k => code[j].kind # "forward"
    BY <1>1 DEF Layout, WalkOK
  <1>4. /\ code \in Seq(Instr) /\ DOMAIN code = 1 .. Len(code) /\ Len(code) \in Nat /\ size \in Nat
        /\ code[k] \in Instr /\ bytes[code[k].at] = code[k].op /\ k \in Nat
        /\ code[k].at \in Nat /\ walk.value \in Nat /\ Width[code[k].op] \in 0 .. 2
        /\ End(code[k]) = code[k].at + 1 + Width[code[k].op]
    BY <1>2, <1>3, Placed
  <1>5. code[k].kind # "forward"
    BY <1>3, <1>4
  <1>6. \A j \in DOMAIN code : j # k => code[j].at # walk.at
    <2> TAKE j \in DOMAIN code
    <2> HAVE j # k
    <2>1. j < k \/ k < j
      BY <1>4
    <2>2. \A a, b \in Nat, v, w \in 0 .. 2 :
            a + 1 + v <= b \/ b + 1 + w <= a => a # b
      OBVIOUS
    <2>3. /\ code[j].at \in Nat /\ Width[code[j].op] \in 0 .. 2
          /\ code[j].at + 1 + Width[code[j].op] <= code[k].at
             \/ code[k].at + 1 + Width[code[k].op] <= code[j].at
      BY <2>1, Placed
    <2> QED
      BY <1>3, <1>4, <2>2, <2>3
  <1> DEFINE new == IF Meant(code[k].kind)
                    THEN [code[k] EXCEPT !.arg = walk.value, !.kind = "target"] ELSE code[k]
  <1>7. new \in Instr /\ new.op = code[k].op /\ new.at = code[k].at
    BY <1>4 DEF Instr, Kinds
  <1>8. code'[k] = new
    BY <1>1, <1>3
  <1>9. \A j \in DOMAIN code : j # k => code'[j] = code[j]
    BY <1>1, <1>6
  <1> HIDE DEF new
  <1>10. code' \in Seq(Instr) /\ Len(code') = Len(code)
    <2>1. \A j \in DOMAIN code : code'[j] \in Instr
      BY <1>4, <1>7, <1>8, <1>9, Placed
    <2>2. code' = [j \in 1 .. Len(code) |-> code'[j]]
      BY <1>1, <1>4
    <2> QED
      BY <1>4, <2>1, <2>2
  <1>11. /\ bytes' \in [0 .. cap - 1 -> 0 .. Base - 1]
         /\ \A i \in DOMAIN code : bytes'[code[i].at] = bytes[code[i].at]
         /\ \A i \in DOMAIN code : i # k =>
              \A j \in code[i].at .. End(code[i]) - 1 : bytes'[j] = bytes[j]
         /\ Found => /\ bytes'[code[k].at + 2] = Low(walk.value)
                     /\ bytes'[code[k].at + 1] = High(walk.value)
         /\ ~Found => bytes' = bytes
    <2>1. CASE Found
      <3>1. Width[code[k].op] = 2
        BY <1>3, <1>4, <2>1, Opcodes DEF Found
      <3>2. bytes' = Written(bytes, code[k].at, Width[code[k].op], walk.value)
        BY <1>1, <1>3, <2>1, <3>1
      <3> QED
        <4>1. /\ bytes' \in [0 .. cap - 1 -> 0 .. Base - 1]
              /\ \A i \in DOMAIN code : bytes'[code[i].at] = bytes[code[i].at]
              /\ \A i \in DOMAIN code : i # k =>
                   \A j \in code[i].at .. End(code[i]) - 1 : bytes'[j] = bytes[j]
              /\ Width[code[k].op] > 0 => bytes'[code[k].at + Width[code[k].op]] = Low(walk.value)
              /\ Width[code[k].op] = 2 => bytes'[code[k].at + 1] = High(walk.value)
          BY <1>4, <3>2, Patched
        <4> QED
          BY <2>1, <3>1, <4>1
    <2>2. CASE ~Found
      BY <1>1, <2>2 DEF Layout, TypeOK
    <2> QED
      BY <2>1, <2>2
  <1>12. Following(walk.at) = End(code[k]) /\ Following(walk.at) \in Nat
    BY <1>3, <1>4 DEF Following
  <1>13. walk' \in [at : Nat, end : Nat, mark : Nat, value : Nat]
    BY <1>1, <1>2, <1>12 DEF NoWalk
  <1>14. WalkOK'
    <2>1. CASE Following(walk.at) < walk.end
      <3>1. End(code[k]) < size
        <4>1. \A a, e, s \in Nat : a < e /\ e <= s => a < s
          OBVIOUS
        <4> QED
          BY <1>2, <1>4, <1>12, <2>1, <4>1
      <3>2. k + 1 \in DOMAIN code /\ code[k + 1].at = End(code[k])
        <4>1. code # << >> => End(code[Len(code)]) = size
          BY DEF Layout, Contiguous
        <4>2. code # << >> /\ k # Len(code)
          BY <1>4, <1>12, <3>1, <4>1
        <4>3. \A j \in 1 .. Len(code) - 1 : code[j + 1].at = End(code[j])
          BY DEF Layout, Contiguous
        <4>4. k \in 1 .. Len(code) - 1 /\ k + 1 \in 1 .. Len(code)
          BY <1>4, <4>2
        <4> QED
          BY <1>4, <4>3, <4>4
      <3>3. code'[k + 1].at = walk'.at
        <4>1. walk'.at = Following(walk.at)
          BY <1>1, <1>2, <2>1
        <4>2. k + 1 # k
          BY <1>4
        <4> QED
          BY <1>9, <1>12, <3>2, <4>1, <4>2
      <3>4. \A j \in DOMAIN code : j >= k + 1 => code'[j].kind # "forward"
        <4> TAKE j \in DOMAIN code
        <4> HAVE j >= k + 1
        <4>1. j >= k /\ j # k
          BY <1>4
        <4> QED
          BY <1>3, <1>9, <4>1
      <3>5. DOMAIN code' = DOMAIN code
        BY <1>1
      <3>6. /\ walk'.at < walk'.end /\ walk'.end <= size' /\ walk'.value <= size'
            /\ walk'.mark \in Marks
        BY <1>1, <1>2, <2>1
      <3> QED
        BY <3>2, <3>3, <3>4, <3>5, <3>6 DEF WalkOK, Marks
    <2>2. CASE ~(Following(walk.at) < walk.end)
      <3>1. walk'.end = 0
        BY <1>1, <2>2 DEF NoWalk
      <3> QED
        BY <3>1 DEF WalkOK, Walking
    <2> QED
      BY <2>1, <2>2
  <1>15. \A i \in DOMAIN code : code'[i].op = code[i].op /\ code'[i].at = code[i].at
    BY <1>7, <1>8, <1>9
  <1>16. Layout'
    BY <1>1, <1>10, <1>11, <1>13, <1>14, <1>15, SameLayout
  <1> QED
    BY <1>1, <1>3, <1>5, <1>8, <1>9, <1>10, <1>11, <1>16 DEF new

----------------------------------------------------------------------------
(***************************************************************************)
(* Every step keeps the layout                                             *)
(***************************************************************************)

\* What can be emitted.
LEMMA Emitted == ASSUME EmitPlain \/ EmitJump, Layout
                 PROVE  \E op \in Ops, arg \in Nat, kind \in Kinds :
                           /\ Emit(op, arg, kind)
                           /\ kind = "plain" <=> op # JUMP
                           /\ kind \in {"break", "forward"} => arg = BreakMark
                           /\ kind = "continue" => arg = ContinueMark
                           /\ kind = "target" => arg <= MaxSize
  <1>1. CASE EmitPlain
    <2>1. PICK op \in Ops \ {JUMP} : \E arg \in IF Width[op] = 0 THEN {0} ELSE Arguments :
                                         Emit(op, arg, "plain")
      BY <1>1 DEF EmitPlain
    <2>2. PICK arg \in Nat : Emit(op, arg, "plain")
      BY <2>1, EncodingAssumption
    <2> QED
      BY <2>2 DEF Kinds
  <1>2. CASE EmitJump
    <2>1. JUMP \in Ops /\ BreakMark \in Nat /\ ContinueMark \in Nat
      BY EncodingAssumption
    <2>2. CASE Emit(JUMP, BreakMark, "break")
      BY <2>1, <2>2 DEF Kinds
    <2>3. CASE Emit(JUMP, ContinueMark, "continue")
      BY <2>1, <2>3 DEF Kinds
    <2>4. CASE Emit(JUMP, BreakMark, "forward")
      BY <2>1, <2>4 DEF Kinds
    <2>5. CASE \E i \in DOMAIN code : Emit(JUMP, code[i].at, "target")
      <3>1. PICK i \in DOMAIN code : Emit(JUMP, code[i].at, "target")
        BY <2>5
      <3>2. /\ code[i].at \in Nat /\ Width[code[i].op] \in 0 .. 2 /\ size \in Nat
            /\ End(code[i]) = code[i].at + 1 + Width[code[i].op]
            /\ End(code[i]) <= size /\ size <= MaxSize
        BY Placed
      <3>3. \A a, e, s, m \in Nat, w \in 0 .. 2 : e = a + 1 + w /\ e <= s /\ s <= m => a <= m
        OBVIOUS
      <3>4. End(code[i]) \in Nat /\ MaxSize \in Nat
        BY <3>2, EncodingAssumption
      <3>5. code[i].at <= MaxSize
        BY <3>2, <3>3, <3>4
      <3> QED
        BY <2>1, <3>1, <3>2, <3>5 DEF Kinds
    <2> QED
      BY <1>2, <2>2, <2>3, <2>4, <2>5 DEF EmitJump
  <1> QED
    BY <1>1, <1>2

LEMMA StepLayout == ASSUME Layout, [Next]_vars PROVE Layout'
  <1>1. CASE EmitPlain \/ EmitJump
    BY <1>1, Emitted, EmitLayout
  <1>2. CASE RemoveLast
    BY <1>2, RemoveLayout
  <1>3. CASE ReplaceLast
    BY <1>3, ReplaceLayout
  <1>4. CASE ChangeOperand
    <2>1. PICK k \in DOMAIN code : ChangeAt(k)
      BY <1>4 DEF ChangeOperand, ChangeAt
    <2> QED
      BY <2>1, ChangeLayout
  <1>5. CASE StartWalk
    BY <1>5, StartLayout
  <1>6. CASE WalkOn
    BY <1>6, WalkLayout
  <1>7. CASE UNCHANGED vars
    BY <1>7 DEF vars, Layout, TypeOK, Fits, Contiguous, Ordered, LastTrue, PreviousTrue, WalkOK,
               Walking, End
  <1> QED
    BY <1>1, <1>2, <1>3, <1>4, <1>5, <1>6, <1>7 DEF Next

\* The layout of the code is an invariant, wherever its jumps go.
LEMMA LayoutInvariant == Spec => []Layout
  <1>1. Init => Layout
    BY InitLayout
  <1>2. Layout /\ [Next]_vars => Layout'
    BY StepLayout
  <1> QED
    BY <1>1, <1>2, PTL DEF Spec

\* The registers of the compiler and the bytes of the code have their types: in particular
\* every byte that is written is one, and the last instruction is an opcode at a position.
THEOREM TypeCorrect == Spec => []TypeOK
  <1>1. Layout => TypeOK
    BY DEF Layout
  <1> QED
    BY <1>1, LayoutInvariant, PTL

\* compiler_emit_va() never writes behind the buffer it has (compiler.c:145-162).
THEOREM NeverOverrun == Spec => []Fits
  <1>1. Layout => Fits
    BY DEF Layout
  <1> QED
    BY <1>1, LayoutInvariant, PTL

\* compiler_change_jump_placeholders() reads opcodes and never operands (compiler.c:264-272),
\* whether or not a jump is mistaken for a break.
THEOREM WalkAligned == Spec => []Aligned
  <1>1. Layout => Aligned
    BY DEF Layout, WalkOK, Aligned
  <1> QED
    BY <1>1, LayoutInvariant, PTL

\* The instruction that a removal cuts off is the last one (compiler.c:105-109).
THEOREM LastIsLast == Spec => []LastTrue
  <1>1. Layout => LastTrue
    BY DEF Layout
  <1> QED
    BY <1>1, LayoutInvariant, PTL

----------------------------------------------------------------------------
(***************************************************************************)
(* The operands, in code that ends before the marks                        *)
(***************************************************************************)

\* What a kind of instruction says of its operand.
KindOK(c) == /\ c.kind = "plain" <=> c.op # JUMP
             /\ c.kind \in {"break", "forward"} => c.arg = BreakMark
             /\ c.kind = "continue" => c.arg = ContinueMark
             /\ c.kind = "target" => c.arg <= MaxSize

Coded == \A i \in DOMAIN code : Held(bytes, code[i]) /\ KindOK(code[i])

\* An instruction stays as long as its bytes do.
LEMMA HeldKept == ASSUME Layout, NEW i \in DOMAIN code, Held(bytes, code[i]), NEW b,
                         \A j \in code[i].at .. End(code[i]) - 1 : b[j] = bytes[j]
                  PROVE  Held(b, code[i])
  <1> DEFINE a == code[i].at
             w == Width[code[i].op]
  <1>1. a \in Nat /\ w \in 0 .. 2 /\ End(code[i]) = a + 1 + w
    BY Placed
  <1>2. \A d \in Nat, v \in 0 .. 2 : /\ d \in d .. (d + 1 + v) - 1
                                    /\ d + v \in d .. (d + 1 + v) - 1
                                    /\ v = 2 => d + 1 \in d .. (d + 1 + v) - 1
    OBVIOUS
  <1>3. /\ a \in a .. End(code[i]) - 1 /\ a + w \in a .. End(code[i]) - 1
        /\ w = 2 => a + 1 \in a .. End(code[i]) - 1
    BY <1>1, <1>2
  <1> QED
    BY <1>3 DEF Held

\* The operand of a jump fits into two bytes.
LEMMA JumpArg == ASSUME MaxSize < ContinueMark, NEW c \in Instr, KindOK(c), c.op = JUMP
                 PROVE  c.arg \in Nat /\ c.arg < Base * Base
  <1>1. /\ ContinueMark < BreakMark /\ BreakMark < Base * Base /\ MaxSize < Base * Base
        /\ c.arg \in Nat /\ c.kind \in Kinds \ {"plain"}
    BY EncodingAssumption DEF Instr, KindOK
  <1>2. c.arg = BreakMark \/ c.arg = ContinueMark \/ c.arg <= MaxSize
    BY <1>1 DEF KindOK, Kinds
  <1>3. \A a, b, c1, m, s \in Nat : c1 < b /\ b < s /\ m < s /\ (a = b \/ a = c1 \/ a <= m) => a < s
    OBVIOUS
  <1>4. Base * Base \in Nat /\ BreakMark \in Nat /\ ContinueMark \in Nat /\ MaxSize \in Nat
    BY EncodingAssumption
  <1> QED
    BY <1>1, <1>2, <1>3, <1>4

\* A jump is patched by the walk for breaks exactly if it is a break's, and the same
\* for continues: no target is mistaken for a mark.
LEMMA FoundMeant ==
    ASSUME MaxSize < ContinueMark, Layout, Coded, Walking,
           NEW i \in DOMAIN code, code[i].at = walk.at, code[i].kind # "forward"
    PROVE  Found <=> Meant(code[i].kind)
  <1>1. /\ code[i] \in Instr /\ KindOK(code[i]) /\ Held(bytes, code[i])
        /\ walk.mark \in {BreakMark, ContinueMark} /\ code[i].arg \in Nat
    BY Placed DEF Coded, Layout, WalkOK, Marks
  <1>2. Found <=> code[i].op = JUMP /\ ReadOperand(bytes, walk.at) = walk.mark
    BY <1>1 DEF Found, Held
  <1>3. ASSUME code[i].op = JUMP PROVE ReadOperand(bytes, walk.at) = code[i].arg
    <2>1. High(code[i].arg) * Base + Low(code[i].arg) = code[i].arg
      BY <1>1, <1>3, JumpArg, Digits
    <2>2. bytes[walk.at + 1] = High(code[i].arg) /\ bytes[walk.at + 2] = Low(code[i].arg)
      BY <1>1, <1>3, Opcodes DEF Held
    <2> QED
      BY <2>1, <2>2 DEF ReadOperand
  <1>4. /\ BreakMark \in Nat /\ ContinueMark \in Nat /\ MaxSize \in Nat
        /\ ContinueMark < BreakMark /\ MaxSize < ContinueMark
    BY EncodingAssumption
  <1>5. code[i].kind \in {"plain", "break", "continue", "target"}
    BY <1>1 DEF Instr, Kinds
  <1>6. CASE code[i].kind = "plain"
    BY <1>1, <1>2, <1>6 DEF KindOK, Meant
  <1>7. CASE code[i].kind = "break"
    BY <1>1, <1>2, <1>3, <1>4, <1>7 DEF KindOK, Meant
  <1>8. CASE code[i].kind = "continue"
    BY <1>1, <1>2, <1>3, <1>4, <1>8 DEF KindOK, Meant
  <1>9. CASE code[i].kind = "target"
    <2>1. code[i].arg <= MaxSize
      BY <1>1, <1>9 DEF KindOK
    <2>2. \A a, b, c, m \in Nat : a <= m /\ m < c /\ c < b => a # b /\ a # c
      OBVIOUS
    <2>3. code[i].arg # walk.mark
      BY <1>1, <1>4, <2>1, <2>2
    <2> QED
      BY <1>2, <1>3, <1>9, <2>3 DEF Meant
  <1> QED
    BY <1>5, <1>6, <1>7, <1>8, <1>9

LEMMA StepCoded == ASSUME MaxSize < ContinueMark, Layout, Coded, [Next]_vars
                   PROVE  Coded'
  <1>0. /\ \A i \in DOMAIN code : Held(bytes, code[i]) /\ KindOK(code[i]) /\ code[i] \in Instr
        /\ DOMAIN code = 1 .. Len(code) /\ Len(code) \in Nat /\ size \in Nat /\ size <= MaxSize
        /\ Layout'
    BY Placed, StepLayout DEF Coded
  <1>00. DOMAIN code' = 1 .. Len(code')
    BY <1>0 DEF Layout, TypeOK
  <1>1. CASE EmitPlain \/ EmitJump
    <2>1. PICK op \in Ops, arg \in Nat, kind \in Kinds :
                           /\ Emit(op, arg, kind)
                           /\ kind = "plain" <=> op # JUMP
                           /\ kind \in {"break", "forward"} => arg = BreakMark
                           /\ kind = "continue" => arg = ContinueMark
                           /\ kind = "target" => arg <= MaxSize
      BY <1>1, Emitted
    <2> DEFINE new == [op |-> op, arg |-> arg, at |-> size, kind |-> kind]
    <2>2. /\ code' = Append(code, new) /\ \A j \in 0 .. size - 1 : bytes'[j] = bytes[j]
          /\ Width[op] > 0 => bytes'[size + Width[op]] = Low(arg)
          /\ Width[op] = 2 => bytes'[size + 1] = High(arg)
      BY <2>1, EmitLayout
    <2>3. /\ DOMAIN code' = 1 .. Len(code) + 1 /\ code'[Len(code) + 1] = new
          /\ \A i \in DOMAIN code : code'[i] = code[i]
      BY <2>2, Placed
    <2>4. bytes'[new.at] = new.op
      <3>1. Len(code) + 1 \in DOMAIN code'
        BY <1>0, <2>3
      <3>2. \A i \in DOMAIN code' : bytes'[code'[i].at] = code'[i].op
        BY <1>0 DEF Layout
      <3> QED
        BY <2>3, <3>1, <3>2
    <2>5. Held(bytes', new) /\ KindOK(new)
      BY <2>1, <2>2, <2>4 DEF Held, KindOK
    <2> HIDE DEF new
    <2>6. ASSUME NEW i \in DOMAIN code PROVE Held(bytes', code'[i]) /\ KindOK(code'[i])
      <3>1. \A j \in code[i].at .. End(code[i]) - 1 : bytes'[j] = bytes[j]
        <4>1. \A a, e, s \in Nat : e <= s => \A j \in a .. e - 1 : j \in 0 .. s - 1
          OBVIOUS
        <4>2. /\ code[i].at \in Nat /\ Width[code[i].op] \in 0 .. 2
              /\ End(code[i]) = code[i].at + 1 + Width[code[i].op] /\ End(code[i]) <= size
          BY Placed
        <4>3. End(code[i]) \in Nat
          BY <4>2
        <4> QED
          BY <1>0, <2>2, <4>1, <4>2, <4>3
      <3>2. Held(bytes', code[i])
        BY <1>0, <3>1, HeldKept
      <3> QED
        BY <1>0, <2>3, <3>2
    <2>7. \A i \in DOMAIN code' : i \in DOMAIN code \/ i = Len(code) + 1
      BY <1>0, <2>3
    <2>8. \A i \in DOMAIN code' : Held(bytes', code'[i]) /\ KindOK(code'[i])
      BY <2>3, <2>5, <2>6, <2>7
    <2> QED
      BY <2>8 DEF Coded, Held, KindOK
  <1>2. CASE RemoveLast
    <2>1. \A i \in DOMAIN code' : Held(bytes', code'[i]) /\ KindOK(code'[i])
      BY <1>0, <1>2, RemoveLayout
    <2> QED
      BY <2>1 DEF Coded, Held, KindOK
  <1>3. CASE ReplaceLast
    <2> DEFINE n == Len(code)
    <2>1. /\ n \in DOMAIN code /\ code[n].op = POP /\ Len(code') = n /\ DOMAIN code' = DOMAIN code
          /\ code'[n] = [code[n] EXCEPT !.op = RETURN_VALUE]
          /\ \A i \in DOMAIN code : i # n => code'[i] = code[i]
          /\ \A j \in 0 .. cap - 1 : j # code[n].at => bytes'[j] = bytes[j]
      <3>1. /\ code # << >> /\ code[n].op = POP /\ Len(code') = n
            /\ code'[n] = [code[n] EXCEPT !.op = RETURN_VALUE]
            /\ \A i \in DOMAIN code : i # n => code'[i] = code[i]
            /\ \A j \in 0 .. cap - 1 : j # code[n].at => bytes'[j] = bytes[j]
        BY <1>3, ReplaceLayout
      <3>2. n \in DOMAIN code
        BY <3>1, Placed
      <3> QED
        BY <1>0, <1>00, <3>1, <3>2
    <2>2. KindOK(code'[n]) /\ Held(bytes', code'[n])
      <3>1. POP # JUMP /\ RETURN_VALUE # JUMP
        BY Opcodes
      <3>2. code'[n].op = RETURN_VALUE /\ code'[n].kind = code[n].kind /\ code'[n].arg = code[n].arg
        BY <1>0, <2>1 DEF Instr
      <3>3. bytes'[code'[n].at] = code'[n].op
        BY <1>0, <2>1 DEF Layout
      <3> QED
        BY <1>0, <2>1, <3>1, <3>2, <3>3, Opcodes DEF KindOK, Held
    <2>3. ASSUME NEW i \in DOMAIN code, i # n PROVE KindOK(code'[i]) /\ Held(bytes', code'[i])
      <3>1. ASSUME NEW j \in code[i].at .. End(code[i]) - 1 PROVE bytes'[j] = bytes[j]
        <4>1. /\ j \in 0 .. cap - 1
              /\ j < code[n].at \/ j > code[n].at + Width[code[n].op]
          BY <2>1, <2>3, Apart
        <4>2. j \in Int /\ code[n].at \in Nat /\ Width[code[n].op] = 0
          BY <2>1, <4>1, Placed, Opcodes
        <4>3. \A l \in Int, a \in Nat : l < a \/ l > a + 0 => l # a
          OBVIOUS
        <4> QED
          BY <2>1, <4>1, <4>2, <4>3
      <3>2. Held(bytes', code[i])
        BY <1>0, <3>1, HeldKept
      <3> QED
        BY <1>0, <2>1, <2>3, <3>2
    <2> HIDE DEF n
    <2>4. \A i \in DOMAIN code' : Held(bytes', code'[i]) /\ KindOK(code'[i])
      BY <2>1, <2>2, <2>3
    <2> QED
      BY <2>4 DEF Coded, Held, KindOK
  <1>4. CASE ChangeOperand
    <2>1. PICK k \in DOMAIN code : ChangeAt(k)
      BY <1>4 DEF ChangeOperand, ChangeAt
    <2>2. code[k].kind = "forward"
      BY <2>1 DEF ChangeAt
    <2>3. /\ DOMAIN code' = DOMAIN code
          /\ code'[k] = [code[k] EXCEPT !.arg = size, !.kind = "target"]
          /\ \A i \in DOMAIN code : i # k => /\ code'[i] = code[i]
                                            /\ \A j \in code[i].at .. End(code[i]) - 1 : bytes'[j] = bytes[j]
          /\ bytes'[code[k].at] = bytes[code[k].at]
          /\ Width[code[k].op] > 0 => bytes'[code[k].at + Width[code[k].op]] = Low(size)
          /\ Width[code[k].op] = 2 => bytes'[code[k].at + 1] = High(size)
      BY <1>0, <1>00, <2>1, ChangeLayout
    <2>4. /\ code'[k].op = code[k].op /\ code'[k].at = code[k].at
          /\ code'[k].arg = size /\ code'[k].kind = "target"
      BY <1>0, <2>3 DEF Instr
    <2>5. KindOK(code'[k]) /\ Held(bytes', code'[k])
      BY <1>0, <2>2, <2>3, <2>4 DEF KindOK, Held
    <2>6. ASSUME NEW i \in DOMAIN code, i # k PROVE KindOK(code'[i]) /\ Held(bytes', code'[i])
      BY <1>0, <2>3, <2>6, HeldKept
    <2>7. \A i \in DOMAIN code' : Held(bytes', code'[i]) /\ KindOK(code'[i])
      BY <2>3, <2>5, <2>6
    <2> QED
      BY <2>7 DEF Coded, Held, KindOK
  <1>5. CASE StartWalk
    <2>1. code' = code /\ bytes' = bytes
      BY <1>5, StartLayout
    <2> QED
      BY <1>0, <2>1 DEF Coded, Held, KindOK
  <1>6. CASE WalkOn
    <2>1. PICK i \in DOMAIN code :
                /\ code[i].at = walk.at /\ code[i].kind # "forward"
                /\ code'[i] = IF Meant(code[i].kind)
                              THEN [code[i] EXCEPT !.arg = walk.value, !.kind = "target"] ELSE code[i]
                /\ bytes'[code[i].at] = bytes[code[i].at]
                /\ Found => /\ bytes'[code[i].at + 2] = Low(walk.value)
                            /\ bytes'[code[i].at + 1] = High(walk.value)
                /\ ~Found => bytes' = bytes
                /\ \A j \in DOMAIN code : j # i =>
                     /\ code'[j] = code[j]
                     /\ \A l \in code[j].at .. End(code[j]) - 1 : bytes'[l] = bytes[l]
      BY <1>6, WalkLayout
    <2>2. Walking /\ DOMAIN code' = DOMAIN code
      BY <1>0, <1>00, <1>6, WalkLayout
    <2>3. Found <=> Meant(code[i].kind)
      BY <2>1, <2>2, FoundMeant
    <2>4. KindOK(code'[i]) /\ Held(bytes', code'[i])
      <3>1. CASE Found
        <4>1. /\ code'[i].op = code[i].op /\ code'[i].at = code[i].at
              /\ code'[i].arg = walk.value /\ code'[i].kind = "target"
          BY <1>0, <2>1, <2>3, <3>1 DEF Instr
        <4>2. code[i].op = JUMP
          BY <1>0, <2>1, <3>1 DEF Found, Held
        <4>3. walk.value <= MaxSize
          <5>1. \A v, s, m \in Nat : v <= s /\ s <= m => v <= m
            OBVIOUS
          <5>2. walk.value \in Nat /\ walk.value <= size /\ MaxSize \in Nat
            BY <2>2, EncodingAssumption DEF Layout, TypeOK, WalkOK
          <5> QED
            BY <1>0, <5>1, <5>2
        <4>4. Held(bytes', code'[i])
          BY <1>0, <2>1, <3>1, <4>1, <4>2, Opcodes DEF Held
        <4>5. KindOK(code'[i])
          BY <4>1, <4>2, <4>3 DEF KindOK
        <4> QED
          BY <4>4, <4>5
      <3>2. CASE ~Found
        BY <1>0, <2>1, <2>3, <3>2
      <3> QED
        BY <3>1, <3>2
    <2>5. ASSUME NEW j \in DOMAIN code, j # i PROVE KindOK(code'[j]) /\ Held(bytes', code'[j])
      BY <1>0, <2>1, <2>5, HeldKept
    <2>6. \A j \in DOMAIN code' : Held(bytes', code'[j]) /\ KindOK(code'[j])
      BY <2>2, <2>4, <2>5
    <2> QED
      BY <2>6 DEF Coded, Held, KindOK
  <1>7. CASE UNCHANGED vars
    BY <1>0, <1>7 DEF vars, Coded, Held, KindOK
  <1> QED
    BY <1>1, <1>2, <1>3, <1>4, <1>5, <1>6, <1>7 DEF Next

\* In code that ends before the marks, every instruction the compiler emits, takes back,
\* replaces or patches is in the bytes as it is meant: its opcode and its operand, the
\* breaks and continues with the ends of their loops (compiler.c:105-166, 264-272).
THEOREM CodeIsEncoded == ASSUME MaxSize < ContinueMark PROVE Spec => []Encoded
  <1>1. Init => Layout /\ Coded
    <2>1. Init => Layout
      BY InitLayout
    <2>2. Init => Coded
      BY DEF Init, Coded
    <2> QED
      BY <2>1, <2>2
  <1>2. Layout /\ Coded /\ [Next]_vars => (Layout /\ Coded)'
    BY StepLayout, StepCoded
  <1>3. Layout /\ Coded => Encoded
    BY DEF Layout, Coded, Encoded
  <1> QED
    BY <1>1, <1>2, <1>3, PTL DEF Spec
=============================================================================
