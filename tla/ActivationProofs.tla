---------------------------- MODULE ActivationProofs ----------------------------
(***************************************************************************)
(* Proof that the machine keeps the calls apart, for all verified code and *)
(* all values of the constants: the stack the calls share and the frames   *)
(* implement Activations, where each call has variables and operands of    *)
(* its own.                                                                *)
(***************************************************************************)
EXTENDS ExecutionProofs

----------------------------------------------------------------------------
(***************************************************************************)
(* The calls as sequences                                                  *)
(***************************************************************************)

\* OwnCalls, of frames fr over stack st with s slots in use.
Own(fs, st, fr, s) == [i \in DOMAIN fr |-> Activation(fs, st, fr[i], Ceiling(fr, s, i))]

\* f is a sequence of m elements.
Listed(f, m) == f = [i \in 1 .. m |-> f[i]]

\* There is one call for every frame.
LEMMA OwnOK ==
    ASSUME NEW fs, NEW st, NEW fr, fr \in Seq(Calls), NEW s, NEW o, o = Own(fs, st, fr, s)
    PROVE  /\ Len(o) = Len(fr) /\ Listed(o, Len(fr))
           /\ \A i \in 1 .. Len(fr) : o[i] = Activation(fs, st, fr[i], Ceiling(fr, s, i))
           /\ \E S : o \in Seq(S)
  <1>2. PICK n \in Nat : n = Len(fr) /\ DOMAIN fr = 1 .. n
    OBVIOUS
  <1>3. o = [i \in 1 .. n |-> Activation(fs, st, fr[i], Ceiling(fr, s, i))]
    BY <1>2 DEF Own
  <1>4. PICK S : S = {o[i] : i \in 1 .. n}
    OBVIOUS
  <1>5. \A i \in 1 .. n : o[i] \in S
    BY <1>4
  <1>6. DOMAIN o = 1 .. n /\ Listed(o, n)
    BY <1>3 DEF Listed
  <1>7. o \in [1 .. n -> S]
    BY <1>5, <1>6 DEF Listed
  <1>8. o \in Seq(S) /\ Len(o) = n
    BY <1>6, <1>7
  <1> QED BY <1>2, <1>3, <1>6, <1>8

\* The floor of a waiting call is below the callee of the next one, and all of it below
\* the base of the topmost.
LEMMA WaitingOK ==
    ASSUME NEW fs, Verified(fs), NEW fr, NEW s, Stacked(fs, fr, s), Pointed(fs, fr, s),
           NEW n, n = Len(fr), NEW i \in 1 .. n, i # n
    PROVE  /\ i + 1 \in 1 .. n /\ fr[i].base \in Nat /\ fs[fr[i].fn].locals \in Nat /\ fr[i + 1].base \in Nat
           /\ fr[n].base \in Nat
           /\ fr[i].base + fs[fr[i].fn].locals <= fr[i + 1].base - 1
           /\ fr[i + 1].base <= fr[n].base
  <1>1. n \in Nat /\ i + 1 \in 1 .. n /\ n \in 1 .. n
    BY StackedOK
  <1>2. PICK t : t = fr[i]
    OBVIOUS
  <1>3. PICK b \in Nat, d \in Nat : b = t.base /\ d = fr[i + 1].base
    BY <1>1, <1>2, StackedOK
  <1>4. PICK h : h = Level(fs, fr, s, i)
    OBVIOUS
  <1>5. t.fn \in Procedures(fs) /\ <<t.fn, t.ip, h>> \in Points(fs)
    BY <1>2, <1>4, StackedOK DEF Pointed
  <1>6. PICK j : j = Current(fs, t)
    OBVIOUS
  <1>7. PointFacts(fs, t.fn, t.ip, h, j)
    <2>1. PointFacts(fs, t.fn, t.ip, h, fs[t.fn].ins[t.ip + 1])
      BY <1>5, PointOK
    <2> QED BY <1>6, <2>1 DEF Current
  <1>8. j.op = "CALL" /\ j.arg \in Nat /\ j.op \in Opcodes
    BY <1>2, <1>6, <1>7 DEF Pointed, PointFacts
  <1>9. PICK a \in Nat, l \in Nat : a = j.arg /\ l = fs[t.fn].locals
    BY <1>7, <1>8 DEF PointFacts
  <1>10. Pops(j) = a + 1
    BY <1>8, <1>9, PopsOK
  <1>11. h >= l + (a + 1)
    BY <1>7, <1>9, <1>10 DEF PointFacts
  <1>12. h = d + a - b
    BY <1>2, <1>3, <1>4, <1>6, <1>9 DEF Level
  <1>13. b + l <= d - 1
    BY <1>11, <1>12
  <1>14. fr[n].base \in Nat
    BY <1>1, StackedOK
  <1>15. d <= fr[n].base
    <2>1. CASE i + 1 = n
      BY <1>3, <2>1
    <2>2. CASE i + 1 < n
      BY <1>1, <1>3, <1>14, <2>2 DEF Stacked
    <2> QED BY <1>1, <2>1, <2>2
  <1> QED BY <1>1, <1>2, <1>3, <1>9, <1>13, <1>14, <1>15

\* The slots below t are left alone.
Kept(st, st2, t) == \A k \in Nat : k < t => st2[k] = st[k]

\* A call depends on the slots up to its ceiling only.
LEMMA SameActivation ==
    ASSUME NEW fs, NEW c, c.base \in Nat, fs[c.fn].locals \in Nat, NEW top \in Int,
           c.base + fs[c.fn].locals <= top,
           NEW st, NEW st2, Kept(st, st2, top)
    PROVE  Activation(fs, st2, c, top) = Activation(fs, st, c, top)
  <1>1. PICK b \in Nat, l \in Nat : b = c.base /\ l = fs[c.fn].locals
    OBVIOUS
  <1>2. [k \in 0 .. l - 1 |-> st2[b + k]] = [k \in 0 .. l - 1 |-> st[b + k]]
    <2>1. \A k \in 0 .. l - 1 : b + k \in Nat /\ b + k < top
      BY <1>1
    <2> QED BY <2>1 DEF Kept
  <1>3. [k \in 1 .. top - (b + l) |-> st2[b + l + k - 1]] = [k \in 1 .. top - (b + l) |-> st[b + l + k - 1]]
    <2>1. \A k \in 1 .. top - (b + l) : b + l + k - 1 \in Nat /\ b + l + k - 1 < top
      BY <1>1
    <2> QED BY <2>1 DEF Kept
  <1> QED BY <1>1, <1>2, <1>3 DEF Activation, Floor

\* All but the topmost call.
LEMMA FrontOK ==
    ASSUME NEW o, NEW n \in Nat, n > 0, Listed(o, n)
    PROVE  /\ Len(o) = n /\ Last(o) = o[n]
           /\ Front(o) = [i \in 1 .. n - 1 |-> o[i]]
           /\ Len(Front(o)) = n - 1
  <1>1. PICK S : S = {o[i] : i \in 1 .. n}
    OBVIOUS
  <1>2. DOMAIN o = 1 .. n /\ \A i \in 1 .. n : o[i] \in S
    BY <1>1 DEF Listed
  <1>3. o \in Seq(S) /\ Len(o) = n
    <2>1. o \in [1 .. n -> S]
      BY <1>2 DEF Listed
    <2> QED BY <1>2, <2>1
  <1>4. PICK f : f = Front(o)
    OBVIOUS
  <1>5. f = SubSeq(o, 1, n - 1)
    BY <1>3, <1>4 DEF Front
  <1>6. f = [i \in 1 .. n - 1 |-> o[i]]
    BY <1>2, <1>3, <1>5
  <1>7. Len(f) = n - 1
    <2>1. n - 1 \in Nat /\ DOMAIN f = 1 .. n - 1 /\ \A i \in 1 .. n - 1 : f[i] \in S
      BY <1>2, <1>6
    <2> QED BY <1>6, <2>1
  <1> QED BY <1>3, <1>4, <1>6, <1>7 DEF Last

\* A sequence that has one element more.
LEMMA AppendOK ==
    ASSUME NEW f, NEW m \in Nat, Listed(f, m), NEW e, NEW g,
           Listed(g, m + 1), g[m + 1] = e, \A i \in 1 .. m : g[i] = f[i]
    PROVE  g = Append(f, e)
  <1>1. PICK S : S = {f[i] : i \in 1 .. m} \cup {e}
    OBVIOUS
  <1>2. f \in Seq(S) /\ Len(f) = m /\ e \in S
    <2>1. f \in [1 .. m -> S]
      BY <1>1 DEF Listed
    <2> QED BY <1>1, <2>1
  <1>3. g \in Seq(S) /\ Len(g) = m + 1
    <2>1. \A i \in 1 .. m + 1 : i \in 1 .. m \/ i = m + 1
      OBVIOUS
    <2>2. \A i \in 1 .. m + 1 : g[i] \in S
      BY <1>1, <2>1
    <2>3. g \in [1 .. m + 1 -> S]
      BY <2>2 DEF Listed
    <2> QED BY <2>3
  <1>4. PICK h : h = Append(f, e)
    OBVIOUS
  <1>5. h \in Seq(S) /\ Len(h) = m + 1 /\ h[m + 1] = e /\ \A i \in 1 .. m : h[i] = f[i]
    BY <1>2, <1>4, AppendProperties
  <1>6. \A i \in 1 .. m + 1 : g[i] = h[i]
    <2>1. \A i \in 1 .. m + 1 : i \in 1 .. m \/ i = m + 1
      OBVIOUS
    <2> QED BY <1>5, <2>1
  <1>7. g = h
    BY <1>3, <1>5, <1>6, SeqEqual
  <1> QED BY <1>4, <1>7

----------------------------------------------------------------------------
(***************************************************************************)
(* Operands and variables on the stack                                     *)
(***************************************************************************)

\* Operands lie next to each other.
Slice(st, a, m) == [k \in 1 .. m |-> st[a + k - 1]]

\* A slice is a sequence of m elements.
LEMMA SliceOK ==
    ASSUME NEW st, NEW a, NEW m \in Nat
    PROVE  LET v == Slice(st, a, m)
           IN  /\ Len(v) = m /\ DOMAIN v = 1 .. m /\ Listed(v, m)
               /\ \A k \in 1 .. m : v[k] = st[a + k - 1]
               /\ \E S : v \in Seq(S)
               /\ m > 0 => Last(v) = st[a + m - 1]
  <1>1. PICK v : v = Slice(st, a, m)
    OBVIOUS
  <1>2. DOMAIN v = 1 .. m /\ Listed(v, m) /\ \A k \in 1 .. m : v[k] = st[a + k - 1]
    BY <1>1 DEF Slice, Listed
  <1>3. PICK S : S = {v[k] : k \in 1 .. m}
    OBVIOUS
  <1>4. \A k \in 1 .. m : v[k] \in S
    BY <1>3
  <1>5. v \in [1 .. m -> S]
    BY <1>2, <1>4 DEF Listed
  <1>6. v \in Seq(S) /\ Len(v) = m
    BY <1>2, <1>5
  <1>7. m > 0 => Last(v) = st[a + m - 1]
    BY <1>2, <1>6 DEF Last
  <1> QED BY <1>1, <1>2, <1>6, <1>7

\* SubSeq, for the provers to leave alone.
Part(v, i, j) == SubSeq(v, i, j)

\* What is below the cut of a slice is a slice.
LEMMA SliceRest ==
    ASSUME NEW st, NEW a \in Nat, NEW m \in Nat, NEW i \in Nat, i <= m, NEW v, v = Slice(st, a, m)
    PROVE  Part(v, 1, i) = Slice(st, a, i)
  <1>1. PICK S : v \in Seq(S)
    BY SliceOK
  <1>2. Len(v) = m /\ \A k \in 1 .. m : v[k] = st[a + k - 1]
    BY SliceOK
  <1>3. PICK w : w = SubSeq(v, 1, i)
    OBVIOUS
  <1>4. w = [k \in 1 .. i |-> v[k]]
    BY <1>1, <1>2, <1>3
  <1>5. \A k \in 1 .. i : v[k] = st[a + k - 1]
    BY <1>2
  <1>6. w = [k \in 1 .. i |-> st[a + k - 1]]
    BY <1>4, <1>5
  <1> QED BY <1>3, <1>6 DEF Slice, Part

\* A slice is cut in two, the upper part of n slots.
Cut(a, m, n, x, y, z) == x = m - n /\ y = m - n + 1 /\ z = a + m - n

\* And what is above it.
LEMMA SliceTop ==
    ASSUME NEW st, NEW a \in Nat, NEW m \in Nat, NEW n \in Nat, n <= m,
           NEW x, NEW y, NEW z, Cut(a, m, n, x, y, z), NEW v, v = Slice(st, a, m)
    PROVE  Part(v, y, m) = Slice(st, z, n)
  <1>1. x \in Nat /\ m = x + n /\ y = x + 1 /\ z = a + x /\ y = m - n + 1
    BY DEF Cut
  <1>2. PICK S : v \in Seq(S)
    BY <1>1, SliceOK
  <1>3. Len(v) = m /\ \A k \in 1 .. m : v[k] = st[a + k - 1]
    BY <1>1, SliceOK
  <1>4. PICK w : w = SubSeq(v, y, m)
    OBVIOUS
  <1>5. w = [k \in 1 .. n |-> v[x + k]]
    <2>1. m - y + 1 = n
      BY <1>1
    <2>2. \A k \in 1 .. n : y + k - 1 = x + k
      BY <1>1
    <2>3. y \in Nat /\ y >= 1 /\ y <= m + 1
      BY <1>1
    <2>4. w = [k \in 1 .. m - y + 1 |-> v[y + k - 1]]
      BY <1>2, <1>3, <1>4, <2>3
    <2>5. w = [k \in 1 .. n |-> v[y + k - 1]]
      BY <2>1, <2>4
    <2> QED BY <2>2, <2>5
  <1>6. \A k \in 1 .. n : v[x + k] = st[z + k - 1]
    <2> TAKE k \in 1 .. n
    <2>1. x + k \in 1 .. m /\ a + (x + k) - 1 = z + k - 1
      BY <1>1
    <2>2. v[x + k] = st[a + (x + k) - 1]
      BY <1>3, <2>1
    <2> QED BY <1>1, <2>1, <2>2
  <1>7. w = [k \in 1 .. n |-> st[z + k - 1]]
    BY <1>5, <1>6
  <1> QED BY <1>4, <1>7 DEF Slice, Part

\* The two parts of a slice.
LEMMA SliceSplit ==
    ASSUME NEW st, NEW a \in Nat, NEW m \in Nat, NEW n \in Nat, n <= m,
           NEW x, NEW y, NEW z, Cut(a, m, n, x, y, z), NEW v, v = Slice(st, a, m)
    PROVE  Part(v, 1, x) = Slice(st, a, x) /\ Part(v, y, m) = Slice(st, z, n)
  <1>1. x \in Nat /\ x <= m
    BY DEF Cut
  <1>4. Part(v, 1, x) = Slice(st, a, x)
    BY <1>1, SliceRest
  <1>5. Part(v, y, m) = Slice(st, z, n)
    BY SliceTop
  <1> QED BY <1>4, <1>5

\* The callee and its arguments: the first slot and the rest.
LEMMA SliceTail ==
    ASSUME NEW st, NEW a \in Nat, NEW i \in Nat, NEW m, m = i + 1, NEW v, v = Slice(st, a, m)
    PROVE  v[1] = st[a] /\ Tail(v) = Slice(st, a + 1, i)
  <1>1. m \in Nat /\ m > 0
    OBVIOUS
  <1>2. PICK S : v \in Seq(S)
    BY <1>1, SliceOK
  <1>3. Len(v) = m /\ \A k \in 1 .. m : v[k] = st[a + k - 1]
    BY <1>1, SliceOK
  <1>4. PICK w : w = Tail(v)
    OBVIOUS
  <1>5. w = [k \in 1 .. i |-> v[k + 1]]
    <2>1. v # << >>
      BY <1>1, <1>2, <1>3
    <2>2. w \in Seq(S) /\ Len(w) = i /\ \A k \in 1 .. i : w[k] = v[k + 1]
      BY <1>2, <1>3, <1>4, <2>1, HeadTailProperties
    <2>3. w = [k \in 1 .. i |-> w[k]]
      BY <2>2
    <2> QED BY <2>2, <2>3
  <1>6. \A k \in 1 .. i : v[k + 1] = st[(a + 1) + k - 1]
    <2> TAKE k \in 1 .. i
    <2>1. k + 1 \in 1 .. m /\ a + (k + 1) - 1 = (a + 1) + k - 1
      OBVIOUS
    <2>2. v[k + 1] = st[a + (k + 1) - 1]
      BY <1>3, <2>1
    <2> QED BY <2>1, <2>2
  <1>7. w = [k \in 1 .. i |-> st[(a + 1) + k - 1]]
    BY <1>5, <1>6
  <1>8. v[1] = st[a]
    <2>1. 1 \in 1 .. m /\ a + 1 - 1 = a
      OBVIOUS
    <2> QED BY <1>3, <2>1
  <1> QED BY <1>4, <1>7, <1>8 DEF Slice

\* v is put above m operands, and what is below is kept.
Pushed(st, st2, a, m, v) == st2[a + m] = v /\ Kept(st, st2, a + m)
Longer(st, st2, a, m, v) == Slice(st2, a, m + 1) = Append(Slice(st, a, m), v)

\* It is one operand more.
LEMMA SlicePushed ==
    ASSUME NEW st, NEW st2, NEW a \in Nat, NEW m \in Nat, NEW v, Pushed(st, st2, a, m, v)
    PROVE  Longer(st, st2, a, m, v)
  <1>1. PICK f, g : f = Slice(st, a, m) /\ g = Slice(st2, a, m + 1)
    OBVIOUS
  <1>2. Listed(f, m) /\ \A k \in 1 .. m : f[k] = st[a + k - 1]
    BY <1>1, SliceOK
  <1>3. Listed(g, m + 1) /\ \A k \in 1 .. m + 1 : g[k] = st2[a + k - 1]
    <2>1. m + 1 \in Nat
      OBVIOUS
    <2> QED BY <1>1, <2>1, SliceOK
  <1>4. g[m + 1] = v
    <2>1. m + 1 \in 1 .. m + 1 /\ a + (m + 1) - 1 = a + m
      OBVIOUS
    <2> QED BY <1>3, <2>1 DEF Pushed
  <1>5. \A k \in 1 .. m : g[k] = f[k]
    <2> TAKE k \in 1 .. m
    <2>1. k \in 1 .. m + 1 /\ a + k - 1 \in Nat /\ a + k - 1 < a + m
      OBVIOUS
    <2>2. st2[a + k - 1] = st[a + k - 1]
      BY <2>1 DEF Pushed, Kept
    <2> QED BY <1>2, <1>3, <2>1, <2>2
  <1>6. g = Append(f, v)
    BY <1>2, <1>3, <1>4, <1>5, AppendOK
  <1> QED BY <1>1, <1>6 DEF Longer

\* The l variables from slot b on.
Locals(st, b, l) == [k \in 0 .. l - 1 |-> st[b + k]]

\* A call consists of its variables and the operands above them.
LEMMA Shaped ==
    ASSUME NEW fs, NEW st, NEW c, NEW top
    PROVE  Activation(fs, st, c, top) =
               [fn |-> c.fn, ip |-> c.ip, locals |-> Locals(st, c.base, fs[c.fn].locals),
                operands |-> Slice(st, Floor(fs, c), top - Floor(fs, c))]
  BY DEF Activation, Locals, Slice

----------------------------------------------------------------------------
(***************************************************************************)
(* What becomes of the calls when frames and stack change                  *)
(***************************************************************************)

\* An instruction that goes on within its function works on the topmost call.
LEMMA TurnApart ==
    ASSUME NEW fs, Verified(fs), NEW fr, NEW s, Stacked(fs, fr, s), Pointed(fs, fr, s),
           NEW n, n = Len(fr), NEW c, c = fr[n], NEW q \in Nat,
           NEW g, Turned(fr, n, q, g), NEW z, NEW st, NEW st2,
           Kept(st, st2, c.base), NEW e, e = [c EXCEPT !.ip = q]
    PROVE  Own(fs, st2, g, z) = Append(Front(Own(fs, st, fr, s)), Activation(fs, st2, e, z))
  <1>1. n \in Nat /\ n > 0 /\ n \in 1 .. n /\ fr \in Seq(Calls) /\ c \in Calls /\ c.base \in Nat
    <2>1. fr \in Seq(Calls)
      BY DEF Stacked
    <2>2. n \in Nat /\ n > 0 /\ n \in 1 .. n
      BY StackedOK
    <2> QED BY <2>1, <2>2, StackedOK
  <1>4. /\ g \in Seq(Calls) /\ Len(g) = n
        /\ \A i \in 1 .. n : i # n => g[i] = fr[i]
        /\ \A i \in 1 .. n : g[i].base = fr[i].base
    <2>1. n \in 1 .. Len(fr)
      BY <1>1
    <2>2. /\ g \in Seq(Calls) /\ Len(g) = Len(fr)
          /\ \A i \in 1 .. Len(fr) : i # n => g[i] = fr[i]
          /\ \A i \in 1 .. Len(fr) : g[i].fn = fr[i].fn /\ g[i].base = fr[i].base
      BY <1>1, <2>1, Advances
    <2> QED BY <2>2
  <1>5. g[n] = e
    BY <1>1 DEF Turned
  <1>6. PICK o, p : o = Own(fs, st, fr, s) /\ p = Own(fs, st2, g, z)
    OBVIOUS
  <1>7. /\ Listed(o, n)
        /\ \A i \in 1 .. n : o[i] = Activation(fs, st, fr[i], Ceiling(fr, s, i))
    BY <1>1, <1>6, OwnOK
  <1>8. /\ Listed(p, n)
        /\ \A i \in 1 .. n : p[i] = Activation(fs, st2, g[i], Ceiling(g, z, i))
    <2>1. /\ Listed(p, Len(g))
          /\ \A i \in 1 .. Len(g) : p[i] = Activation(fs, st2, g[i], Ceiling(g, z, i))
      <3>1. g \in Seq(Calls)
        BY <1>4
      <3> QED BY <1>6, <3>1, OwnOK
    <2> QED BY <1>4, <2>1
  <1>9. p[n] = Activation(fs, st2, e, z)
    BY <1>1, <1>4, <1>5, <1>8 DEF Ceiling
  <1>10. ASSUME NEW i \in 1 .. n, i # n PROVE p[i] = o[i]
    <2>1. PICK d, b : d = fr[i] /\ b = fr[i + 1].base
      OBVIOUS
    <2>2. /\ i + 1 \in 1 .. n /\ d.base \in Nat /\ fs[d.fn].locals \in Nat /\ b \in Nat
          /\ d.base + fs[d.fn].locals <= b - 1 /\ b <= c.base
      BY <1>10, <2>1, WaitingOK
    <2>3. o[i] = Activation(fs, st, d, b - 1)
      BY <1>7, <1>10, <2>1 DEF Ceiling
    <2>4. p[i] = Activation(fs, st2, d, b - 1)
      <3>1. Ceiling(g, z, i) = b - 1
        BY <1>4, <1>10, <2>1, <2>2 DEF Ceiling
      <3>2. g[i] = d
        BY <1>4, <1>10, <2>1
      <3> QED BY <1>8, <3>1, <3>2
    <2>5. Kept(st, st2, b - 1)
      <3>1. \A k \in Nat : k < b - 1 => k < c.base
        BY <1>1, <2>2
      <3> QED BY <3>1 DEF Kept
    <2>6. PICK t \in Int : t = b - 1
      BY <2>2
    <2> QED BY <2>2, <2>3, <2>4, <2>5, <2>6, SameActivation
  <1>11. PICK f, m : f = Front(o) /\ m = n - 1
    OBVIOUS
  <1>12. f = [i \in 1 .. m |-> o[i]] /\ m \in Nat /\ n = m + 1
    BY <1>1, <1>7, <1>11, FrontOK
  <1>13. Listed(f, m) /\ \A i \in 1 .. m : p[i] = f[i]
    <2>1. \A i \in 1 .. m : i \in 1 .. n /\ i # n
      BY <1>12
    <2>2. \A i \in 1 .. m : f[i] = o[i]
      BY <1>12
    <2>3. Listed(f, m)
      BY <1>12 DEF Listed
    <2> QED BY <1>10, <2>1, <2>2, <2>3
  <1>14. p = Append(f, p[n])
    <2>1. Listed(p, m + 1) /\ p[m + 1] = p[n]
      BY <1>8, <1>12
    <2> QED BY <1>12, <1>13, <2>1, AppendOK
  <1> QED BY <1>6, <1>9, <1>11, <1>14

\* A sequence that has two elements more.
LEMMA TwoMore ==
    ASSUME NEW f, NEW m \in Nat, Listed(f, m), NEW d, NEW e, NEW g, Listed(g, m + 2),
           g[m + 1] = d, g[m + 2] = e, \A i \in 1 .. m : g[i] = f[i]
    PROVE  g = f \o <<d, e>>
  <1>1. PICK S : S = {f[i] : i \in 1 .. m} \cup {d, e}
    OBVIOUS
  <1>2. f \in Seq(S) /\ Len(f) = m
    <2>1. f \in [1 .. m -> S]
      BY <1>1 DEF Listed
    <2> QED BY <1>1, <2>1
  <1>3. PICK t : t = <<d, e>>
    OBVIOUS
  <1>4. t \in Seq(S) /\ Len(t) = 2 /\ t[1] = d /\ t[2] = e
    BY <1>1, <1>3
  <1>5. \A i \in 1 .. m + 2 : i \in 1 .. m \/ i = m + 1 \/ i = m + 2
    OBVIOUS
  <1>6. g \in Seq(S) /\ Len(g) = m + 2
    <2>1. \A i \in 1 .. m + 2 : g[i] \in S
      BY <1>1, <1>5
    <2>2. g \in [1 .. m + 2 -> S]
      BY <2>1 DEF Listed
    <2> QED BY <2>2
  <1>7. PICK h : h = f \o t
    OBVIOUS
  <1>8. /\ h \in Seq(S) /\ Len(h) = m + 2
        /\ \A i \in 1 .. m + 2 : h[i] = IF i <= m THEN f[i] ELSE t[i - m]
    <2>1. /\ f \o t \in Seq(S) /\ Len(f \o t) = Len(f) + Len(t)
          /\ \A i \in 1 .. Len(f) + Len(t) : (f \o t)[i] = IF i <= Len(f) THEN f[i] ELSE t[i - Len(f)]
      BY <1>2, <1>4, ConcatProperties
    <2> QED BY <1>2, <1>4, <1>7, <2>1
  <1>9. \A i \in 1 .. m + 2 : g[i] = h[i]
    <2> TAKE i \in 1 .. m + 2
    <2>1. CASE i \in 1 .. m
      BY <1>8, <2>1
    <2>2. CASE i = m + 1
      <3>1. ~ (i <= m) /\ i - m = 1
        BY <2>2
      <3> QED BY <1>4, <1>8, <2>2, <3>1
    <2>3. CASE i = m + 2
      <3>1. ~ (i <= m) /\ i - m = 2
        BY <2>3
      <3> QED BY <1>4, <1>8, <2>3, <3>1
    <2> QED BY <1>5, <2>1, <2>2, <2>3
  <1>10. g = h
    BY <1>6, <1>8, <1>9, SeqEqual
  <1> QED BY <1>3, <1>7, <1>10

\* A frame is pushed.
Called(fr, e, g) == g = Append(fr, e)

\* A call leaves the caller waiting without the callee and the arguments: it ends below
\* the base of the callee.
LEMMA CallApart ==
    ASSUME NEW fs, Verified(fs), NEW fr, NEW s, Stacked(fs, fr, s), Pointed(fs, fr, s),
           NEW n, n = Len(fr), NEW c, c = fr[n], NEW e \in Calls, NEW g, Called(fr, e, g),
           NEW st, NEW z
    PROVE  /\ Own(fs, st, g, z) =
                  Front(Own(fs, st, fr, s)) \o <<Activation(fs, st, c, e.base - 1), Activation(fs, st, e, z)>>
           /\ Last(Own(fs, st, g, z)) = Activation(fs, st, e, z)
  <1>1. n \in Nat /\ n > 0 /\ n \in 1 .. n /\ fr \in Seq(Calls)
    <2>1. fr \in Seq(Calls)
      BY DEF Stacked
    <2>2. n \in Nat /\ n > 0 /\ n \in 1 .. n
      BY StackedOK
    <2> QED BY <2>1, <2>2
  <1>2. g \in Seq(Calls) /\ Len(g) = n + 1 /\ g[n + 1] = e /\ \A i \in 1 .. n : g[i] = fr[i]
    <2> HIDE DEF Calls
    <2> QED BY <1>1, AppendProperties DEF Called
  <1>3. PICK h : h = g
    OBVIOUS
  <1>4. h \in Seq(Calls) /\ Len(h) = n + 1 /\ h[n + 1] = e /\ \A i \in 1 .. n : h[i] = fr[i]
    BY <1>2, <1>3
  <1>5. PICK o : o = Own(fs, st, fr, s)
    OBVIOUS
  <1>6. PICK p : p = Own(fs, st, h, z)
    OBVIOUS
  <1>7. /\ Listed(o, n)
        /\ \A i \in 1 .. n : o[i] = Activation(fs, st, fr[i], Ceiling(fr, s, i))
    BY <1>1, <1>5, OwnOK
  <1>8. /\ Listed(p, n + 1)
        /\ \A i \in 1 .. n + 1 : p[i] = Activation(fs, st, h[i], Ceiling(h, z, i))
    <2>1. /\ Listed(p, Len(h))
          /\ \A i \in 1 .. Len(h) : p[i] = Activation(fs, st, h[i], Ceiling(h, z, i))
      BY <1>4, <1>6, OwnOK
    <2> QED BY <1>4, <2>1
  <1>9. p[n + 1] = Activation(fs, st, e, z)
    <2>1. n + 1 \in 1 .. n + 1 /\ Ceiling(h, z, n + 1) = z
      BY <1>1, <1>4 DEF Ceiling
    <2> QED BY <1>4, <1>8, <2>1
  <1>10. p[n] = Activation(fs, st, c, e.base - 1)
    <2>1. n \in 1 .. n + 1 /\ n # n + 1
      BY <1>1
    <2>2. Ceiling(h, z, n) = e.base - 1
      BY <1>4, <2>1 DEF Ceiling
    <2> QED BY <1>1, <1>4, <1>8, <2>1, <2>2
  <1>11. ASSUME NEW i \in 1 .. n, i # n PROVE p[i] = o[i]
    <2>1. i \in 1 .. n + 1 /\ i + 1 \in 1 .. n /\ i # n + 1
      BY <1>1, <1>11
    <2>2. Ceiling(h, z, i) = Ceiling(fr, s, i)
      BY <1>4, <1>11, <2>1 DEF Ceiling
    <2> QED BY <1>4, <1>7, <1>8, <2>1, <2>2
  <1>12. PICK f, m : f = Front(o) /\ m = n - 1
    OBVIOUS
  <1>13. f = [i \in 1 .. m |-> o[i]] /\ m \in Nat /\ n = m + 1 /\ n + 1 = m + 2
    BY <1>1, <1>7, <1>12, FrontOK
  <1>14. Listed(f, m) /\ \A i \in 1 .. m : p[i] = f[i]
    <2>1. \A i \in 1 .. m : i \in 1 .. n /\ i # n
      BY <1>13
    <2>2. \A i \in 1 .. m : f[i] = o[i]
      BY <1>13
    <2>3. Listed(f, m)
      BY <1>13 DEF Listed
    <2> QED BY <1>11, <2>1, <2>2, <2>3
  <1>15. p = f \o <<p[n], p[n + 1]>>
    <2>1. PICK a, b : a = p[n] /\ b = p[n + 1]
      OBVIOUS
    <2>2. Listed(p, m + 2) /\ p[m + 1] = a /\ p[m + 2] = b
      BY <1>8, <1>13, <2>1
    <2>3. m \in Nat
      BY <1>13
    <2>4. p = f \o <<a, b>>
      BY <1>14, <2>2, <2>3, TwoMore
    <2> QED BY <2>1, <2>4
  <1>16. Last(p) = p[n + 1]
    <2>1. n + 1 \in Nat /\ n + 1 > 0 /\ Listed(p, n + 1)
      BY <1>1, <1>8
    <2> QED BY <2>1, FrontOK
  <1> QED BY <1>3, <1>5, <1>6, <1>9, <1>10, <1>12, <1>15, <1>16

\* The topmost frame is removed, and the one below goes on.
Returned(fr, n, g) == g = [Front(fr) EXCEPT ![n - 1].ip = @ + 1]

TopTwo(fr, n, c, d) == n = Len(fr) /\ n > 1 /\ c = fr[n] /\ d = fr[n - 1]
Stepped(d, e) == e = [d EXCEPT !.ip = @ + 1]
Owned(o, fs, st, fr, s) == o = Own(fs, st, fr, s)

\* c returns to d, which becomes e, and no slot below the callee is touched.
Returning(fs, fr, s, n, c, d, g, st, st2, o, e) ==
    /\ Verified(fs) /\ Stacked(fs, fr, s) /\ Pointed(fs, fr, s)
    /\ TopTwo(fr, n, c, d) /\ Returned(fr, n, g) /\ Kept(st, st2, c.base - 1)
    /\ Owned(o, fs, st, fr, s) /\ Stepped(d, e)

\* The calls below d are what they were, and z slots are in use.
Resumed(fs, st, st2, n, c, d, g, z, o, e) ==
    /\ Len(o) = n /\ Last(Front(o)) = Activation(fs, st, d, c.base - 1)
    /\ Own(fs, st2, g, z) = Append(Front(Front(o)), Activation(fs, st2, e, z))

\* A return removes the topmost call and works on its caller.
LEMMA ReturnApart ==
    ASSUME NEW fs, NEW fr, NEW s, NEW n, NEW c, NEW d, NEW g, NEW z, NEW st, NEW st2, NEW o, NEW e,
           Returning(fs, fr, s, n, c, d, g, st, st2, o, e)
    PROVE  Resumed(fs, st, st2, n, c, d, g, z, o, e)
  <1>0. /\ Verified(fs) /\ Stacked(fs, fr, s) /\ Pointed(fs, fr, s) /\ Returned(fr, n, g)
        /\ TopTwo(fr, n, c, d) /\ Kept(st, st2, c.base - 1) /\ Owned(o, fs, st, fr, s) /\ Stepped(d, e)
    BY DEF Returning
  <1>25. n = Len(fr) /\ n > 1 /\ c = fr[n] /\ d = fr[n - 1]
    BY <1>0 DEF TopTwo
  <1> USE <1>25, <1>0
  <1>1. PICK m : m = n - 1
    OBVIOUS
  <1>2. n \in Nat /\ m \in Nat /\ m > 0 /\ n = m + 1 /\ m \in 1 .. m /\ m \in 1 .. n /\ n \in 1 .. n /\ m # n
    BY <1>1, StackedOK
  <1>3. fr \in Seq(Calls) /\ d \in Calls /\ c \in Calls /\ c.base \in Nat /\ d.ip \in Nat
    <2>1. fr \in Seq(Calls)
      BY DEF Stacked
    <2> QED BY <1>1, <1>2, <2>1, StackedOK
  <1>4. PICK h : h = Front(fr)
    OBVIOUS
  <1>5. h \in Seq(Calls) /\ Len(h) = m /\ \A i \in 1 .. m : h[i] = fr[i]
    <2>1. h = SubSeq(fr, 1, m)
      BY <1>1, <1>4 DEF Front
    <2>2. \A k \in 1 .. m : fr[k] \in Calls
      <3>1. \A k \in 1 .. m : k \in 1 .. n
        BY <1>2
      <3> QED BY <3>1, StackedOK
    <2>3. h = [k \in 1 .. m |-> fr[k]]
      BY <1>2, <1>3, <2>1
    <2> QED BY <1>2, <2>2, <2>3
  <1>7. PICK q \in Nat : q = d.ip + 1
    BY <1>3
  <1>8. Turned(h, m, q, g)
    <2>1. h[m] = d
      BY <1>1, <1>2, <1>5
    <2> QED BY <1>1, <1>4, <1>7, <2>1 DEF Turned, Returned
  <1>9. /\ g \in Seq(Calls) /\ Len(g) = m
        /\ \A i \in 1 .. m : i # m => g[i] = h[i]
        /\ \A i \in 1 .. m : g[i].base = h[i].base
    <2>1. m \in 1 .. Len(h)
      BY <1>2, <1>5
    <2>2. /\ g \in Seq(Calls) /\ Len(g) = Len(h)
          /\ \A i \in 1 .. Len(h) : i # m => g[i] = h[i]
          /\ \A i \in 1 .. Len(h) : g[i].fn = h[i].fn /\ g[i].base = h[i].base
      <3>1. h \in Seq(Calls) /\ q \in Nat
        BY <1>5, <1>7
      <3> HIDE DEF Calls
      <3> QED BY <1>8, <2>1, <3>1, Advances
    <2>3. Len(h) = m
      BY <1>5
    <2> QED BY <2>2, <2>3
  <1>10. g[m] = e
    <2>1. h[m] = d
      BY <1>1, <1>2, <1>5
    <2>2. g[m] = [d EXCEPT !.ip = q]
      <3>1. PICK t : t = [d EXCEPT !.ip = q]
        OBVIOUS
      <3>2. g = [h EXCEPT ![m] = t]
        BY <1>8, <2>1, <3>1 DEF Turned
      <3>3. m \in DOMAIN h
        BY <1>2, <1>5
      <3> QED BY <3>1, <3>2, <3>3
    <2>3. e = [d EXCEPT !.ip = q]
      BY <1>7 DEF Stepped
    <2> QED BY <2>2, <2>3
  <1>11. PICK p : p = Own(fs, st2, g, z)
    OBVIOUS
  <1>12. /\ Listed(o, n) /\ Len(o) = n
         /\ \A i \in 1 .. n : o[i] = Activation(fs, st, fr[i], Ceiling(fr, s, i))
    BY <1>3, OwnOK DEF Owned
  <1>13. /\ Listed(p, m)
         /\ \A i \in 1 .. m : p[i] = Activation(fs, st2, g[i], Ceiling(g, z, i))
    <2>1. /\ Listed(p, Len(g))
          /\ \A i \in 1 .. Len(g) : p[i] = Activation(fs, st2, g[i], Ceiling(g, z, i))
      BY <1>9, <1>11, OwnOK
    <2> QED BY <1>9, <2>1
  <1>14. p[m] = Activation(fs, st2, e, z)
    BY <1>2, <1>9, <1>10, <1>13 DEF Ceiling
  <1>15. o[m] = Activation(fs, st, d, c.base - 1)
    <2>1. Ceiling(fr, s, m) = c.base - 1
      BY <1>2 DEF Ceiling
    <2> QED BY <1>1, <1>2, <1>12, <2>1
  <1>16. ASSUME NEW i \in 1 .. m, i # m PROVE p[i] = o[i]
    <2>1. PICK t, b : t = fr[i] /\ b = fr[i + 1].base
      OBVIOUS
    <2>2. i \in 1 .. n /\ i # n /\ i + 1 \in 1 .. m
      BY <1>2, <1>16
    <2>3. /\ t.base \in Nat /\ fs[t.fn].locals \in Nat /\ b \in Nat
          /\ t.base + fs[t.fn].locals <= b - 1 /\ b <= c.base
      BY <2>1, <2>2, WaitingOK
    <2>4. o[i] = Activation(fs, st, t, b - 1)
      BY <1>12, <2>1, <2>2 DEF Ceiling
    <2>5. p[i] = Activation(fs, st2, t, b - 1)
      <3>1. Ceiling(g, z, i) = b - 1
        BY <1>5, <1>9, <1>16, <2>1, <2>2 DEF Ceiling
      <3>2. g[i] = t
        BY <1>5, <1>9, <1>16, <2>1
      <3> QED BY <1>13, <3>1, <3>2
    <2>6. Kept(st, st2, b - 1)
      <3>1. \A k \in Nat : k < b - 1 => k < c.base - 1
        BY <1>3, <2>3
      <3> QED BY <3>1 DEF Kept
    <2>7. PICK u \in Int : u = b - 1
      BY <2>3
    <2>8. Kept(st, st2, u) /\ t.base + fs[t.fn].locals <= u
      BY <2>3, <2>6, <2>7
    <2>9. Activation(fs, st2, t, u) = Activation(fs, st, t, u)
      BY <2>3, <2>7, <2>8, SameActivation
    <2> QED BY <2>4, <2>5, <2>7, <2>9
  <1>17. PICK f : f = Front(o)
    OBVIOUS
  <1>18. f = [i \in 1 .. m |-> o[i]]
    BY <1>1, <1>2, <1>12, <1>17, FrontOK
  <1>19. Listed(f, m) /\ \A i \in 1 .. m : f[i] = o[i]
    <2>1. \A i \in 1 .. m : f[i] = o[i]
      BY <1>18
    <2> QED BY <1>18, <2>1 DEF Listed
  <1>20. PICK r, l : r = Front(f) /\ l = m - 1
    OBVIOUS
  <1>21. r = [i \in 1 .. l |-> f[i]] /\ l \in Nat /\ m = l + 1 /\ Last(f) = f[m]
    BY <1>2, <1>19, <1>20, FrontOK
  <1>22. Listed(r, l) /\ \A i \in 1 .. l : p[i] = r[i]
    <2>1. \A i \in 1 .. l : i \in 1 .. m /\ i # m
      BY <1>21
    <2>2. \A i \in 1 .. l : r[i] = f[i]
      BY <1>21
    <2>3. Listed(r, l)
      BY <1>21 DEF Listed
    <2> QED BY <1>16, <1>19, <2>1, <2>2, <2>3
  <1>23. p = Append(r, p[m])
    <2>1. PICK w : w = p[m]
      OBVIOUS
    <2>2. Listed(p, l + 1) /\ p[l + 1] = w
      BY <1>13, <1>21, <2>1
    <2>3. l \in Nat
      BY <1>21
    <2>4. p = Append(r, w)
      BY <1>22, <2>2, <2>3, AppendOK
    <2> QED BY <2>1, <2>4
  <1>24. Last(f) = Activation(fs, st, d, c.base - 1)
    BY <1>2, <1>15, <1>19, <1>21
  <1> QED BY <1>11, <1>12, <1>14, <1>17, <1>20, <1>23, <1>24 DEF Resumed

----------------------------------------------------------------------------
(***************************************************************************)
(* Instructions of the machine as instructions of the topmost call         *)
(***************************************************************************)

\* The topmost call, with l variables from slot b on and m operands above them.
Topmost(b, l, m) ==
    /\ b = Frame.base /\ l = functions[Frame.fn].locals /\ sp = b + l + m
    /\ Pops(Now) <= m /\ sp <= StackSize /\ StackSize \in Nat
    /\ DOMAIN stack = 0 .. StackSize - 1
    /\ Apart!Active = [fn |-> Frame.fn, ip |-> Frame.ip, locals |-> Locals(stack, b, l),
                       operands |-> Slice(stack, b + l, m)]
    /\ Apart!Instr = Now

\* The topmost call has the operands its next instruction takes.
LEMMA TopmostOK ==
    ASSUME Placed, Keeps(stack, globals)
    PROVE  \E b, l, m \in Nat : Topmost(b, l, m)
  <1>1. /\ Frame = frames[Len(frames)] /\ Len(frames) \in Nat /\ Len(frames) >= 1 /\ sp \in Nat
        /\ Frame.base \in Nat /\ Pops(Now) \in Nat /\ functions[Frame.fn].locals \in Nat
        /\ Frame.base + functions[Frame.fn].locals + Pops(Now) <= sp
    BY NowOK
  <1>2. PICK b \in Nat, l \in Nat, p \in Nat :
           b = Frame.base /\ l = functions[Frame.fn].locals /\ p = Pops(Now)
    BY <1>1
  <1>3. PICK m \in Nat : sp = b + l + m /\ p <= m
    <2>1. b + l + p <= sp
      BY <1>1, <1>2
    <2>2. sp - (b + l) \in Nat /\ sp = b + l + (sp - (b + l)) /\ p <= sp - (b + l)
      BY <1>1, <2>1
    <2> QED BY <2>2
  <1>4. PICK n \in Nat : n = Len(frames) /\ n > 0
    BY <1>1
  <1>5. PICK o : o = OwnCalls
    OBVIOUS
  <1>6. Listed(o, n) /\ o[n] = Activation(functions, stack, Frame, sp)
    <2>1. frames \in Seq(Calls)
      BY DEF Placed, Stacked
    <2>2. o = Own(functions, stack, frames, sp)
      BY <1>5 DEF OwnCalls, Own
    <2>3. /\ Listed(o, n)
          /\ \A i \in 1 .. n : o[i] = Activation(functions, stack, frames[i], Ceiling(frames, sp, i))
      BY <1>4, <2>1, <2>2, OwnOK
    <2>4. n \in 1 .. n /\ Ceiling(frames, sp, n) = sp
      BY <1>4 DEF Ceiling
    <2> QED BY <1>1, <1>4, <2>3, <2>4
  <1>7. Apart!Active = o[n]
    <2>1. Last(o) = o[n]
      BY <1>4, <1>6, FrontOK
    <2> QED BY <1>5, <2>1 DEF Apart!Active, Apart!Last, Last
  <1>8. Apart!Active = [fn |-> Frame.fn, ip |-> Frame.ip, locals |-> Locals(stack, b, l),
                        operands |-> Slice(stack, b + l, m)]
    <2>1. Floor(functions, Frame) = b + l /\ sp - (b + l) = m
      BY <1>2, <1>3 DEF Floor
    <2> QED BY <1>2, <1>6, <1>7, <2>1, Shaped
  <1>9. Apart!Instr = Now
    BY <1>8 DEF Apart!Instr, Now, Current
  <1>10. DOMAIN stack = 0 .. StackSize - 1 /\ sp <= StackSize /\ StackSize \in Nat
    BY SizesAssumption DEF Keeps, Placed
  <1>11. Topmost(b, l, m)
    BY <1>2, <1>3, <1>8, <1>9, <1>10 DEF Topmost
  <1> QED BY <1>11

\* An instruction of the machine runs as one of the calls.
LEMMA RunsOK ==
    ASSUME Placed, NEW b, NEW l, NEW m, Topmost(b, l, m), NEW S, Executes(S)
    PROVE  /\ Apart!Runs(S) /\ Apart!Instr.op = Opcode /\ Apart!Instr.arg = Operand
           /\ Apart!Active.ip = Frame.ip /\ Apart!Active.locals = Locals(stack, b, l)
           /\ Apart!Active.operands = Slice(stack, b + l, m)
  <1>1. Opcode = Now.op /\ Operand = Now.arg
    BY NowOK
  <1>2. /\ Apart!Instr = Now /\ Apart!Active.ip = Frame.ip /\ Apart!Active.locals = Locals(stack, b, l)
        /\ Apart!Active.operands = Slice(stack, b + l, m)
    BY DEF Topmost
  <1> QED BY <1>1, <1>2 DEF Executes, Apart!Runs

\* Its topmost operands lie at the end of the stack.
LEMMA OperandsOK ==
    ASSUME NEW b \in Nat, NEW l \in Nat, NEW m \in Nat, Topmost(b, l, m), NEW n \in Nat, n <= m
    PROVE  /\ Apart!Has(n)
           /\ Apart!Rest(n) = Slice(stack, b + l, m - n)
           /\ Apart!Operands(n) = Slice(stack, sp - n, n)
           /\ n > 0 => Last(Apart!Active.operands) = stack[sp - 1]
  <1>0. PICK a \in Nat : a = b + l
    OBVIOUS
  <1>1. PICK v : v = Slice(stack, a, m)
    OBVIOUS
  <1>2. Apart!Active.operands = v /\ sp = a + m
    BY <1>0, <1>1 DEF Topmost
  <1>3. Len(v) = m /\ (m > 0 => Last(v) = stack[a + m - 1])
    BY <1>0, <1>1, SliceOK
  <1>4. Part(v, 1, m - n) = Slice(stack, a, m - n) /\ Part(v, m - n + 1, m) = Slice(stack, a + m - n, n)
    <2>1. PICK x, y, z : Cut(a, m, n, x, y, z)
      BY DEF Cut
    <2>2. Part(v, 1, x) = Slice(stack, a, x) /\ Part(v, y, m) = Slice(stack, z, n)
      BY <1>0, <1>1, <2>1, SliceSplit
    <2> QED BY <2>1, <2>2 DEF Cut
  <1>5. n > 0 => Last(v) = stack[sp - 1]
    BY <1>1, <1>2, <1>3
  <1>6. Apart!Has(n) /\ Apart!Rest(n) = Slice(stack, a, m - n) /\ Apart!Operands(n) = Slice(stack, a + m - n, n)
    BY <1>2, <1>3, <1>4 DEF Apart!Has, Apart!Rest, Apart!Operands, Part
  <1> QED BY <1>0, <1>2, <1>5, <1>6

\* The instruction leaves j operands, and control goes on at q.
Turning(b, l, j, q) ==
    /\ frames' = [frames EXCEPT ![Len(frames)].ip = q] /\ functions' = functions
    /\ Kept(stack, stack', b)
    /\ sp' = b + l + j

\* Then the call goes on as the frame does.
LEMMA GoesOnOK ==
    ASSUME Placed, NEW b \in Nat, NEW l \in Nat, NEW m \in Nat, Topmost(b, l, m), NEW q \in Nat,
           NEW j \in Nat, Turning(b, l, j, q),
           NEW ls, ls = Locals(stack', b, l), NEW ops, ops = Slice(stack', b + l, j)
    PROVE  Apart!GoesOn(ls, ops, q)
  <1>1. b = Frame.base /\ l = functions[Frame.fn].locals
    BY DEF Topmost
  <1>2. Frame = frames[Len(frames)] /\ Frame \in Calls
    <2>1. Frame = frames[Len(frames)]
      BY NowOK
    <2> QED BY <2>1, TopOK DEF Placed
  <1>3. PICK fs, fr, s, st, c : fs = functions /\ fr = frames /\ s = sp /\ st = stack /\ c = Frame
    OBVIOUS
  <1>4. PICK g, z, st2 : g = frames' /\ z = sp' /\ st2 = stack'
    OBVIOUS
  <1>5. PICK n : n = Len(fr)
    OBVIOUS
  <1>11. PICK e : e = [c EXCEPT !.ip = q]
    OBVIOUS
  <1>6. Own(fs, st2, g, z) = Append(Front(Own(fs, st, fr, s)), Activation(fs, st2, e, z))
    <2>1. Verified(fs) /\ Stacked(fs, fr, s) /\ Pointed(fs, fr, s)
      BY <1>3 DEF Placed
    <2>2. Turned(fr, n, q, g)
      BY <1>3, <1>4, <1>5 DEF Turned, Turning
    <2>3. Kept(st, st2, c.base)
      BY <1>1, <1>3, <1>4 DEF Turning
    <2>4. c = fr[n]
      BY <1>2, <1>3, <1>5
    <2> QED BY <1>5, <1>11, <2>1, <2>2, <2>3, <2>4, TurnApart
  <1>7. OwnCalls = Own(fs, st, fr, s) /\ OwnCalls' = Own(fs, st2, g, z)
    BY <1>3, <1>4 DEF OwnCalls, Own, Turning
  <1>8. Activation(fs, st2, e, z) =
            [fn |-> Apart!Active.fn, ip |-> q, locals |-> ls, operands |-> ops]
    <2>2. e.fn = c.fn /\ e.ip = q /\ e.base = b
      BY <1>1, <1>2, <1>3, <1>11 DEF Calls
    <2>3. Floor(fs, e) = b + l /\ fs[e.fn].locals = l
      BY <1>1, <1>3, <2>2 DEF Floor
    <2>4. z - (b + l) = j
      BY <1>4 DEF Turning
    <2>5. Activation(fs, st2, e, z) = [fn |-> c.fn, ip |-> q, locals |-> ls, operands |-> ops]
      BY <1>4, <2>2, <2>3, <2>4, Shaped
    <2>6. Apart!Active.fn = c.fn
      BY <1>3 DEF Topmost
    <2> QED BY <2>5, <2>6
  <1>9. PICK x, y, z1 : x = OwnCalls /\ y = OwnCalls' /\ z1 = [fn |-> Apart!Active.fn, ip |-> q, locals |-> ls, operands |-> ops]
    OBVIOUS
  <1>10. y = Append(Front(x), z1)
    BY <1>6, <1>7, <1>8, <1>9
  <1> QED BY <1>9, <1>10 DEF Apart!GoesOn, Apart!Front, Front

\* Variables depend on their slots only.
LEMMA LocalsKept ==
    ASSUME NEW st, NEW st2, NEW b \in Nat, NEW l \in Nat, Kept(st, st2, b + l)
    PROVE  Locals(st2, b, l) = Locals(st, b, l)
  <1>1. \A k \in 0 .. l - 1 : b + k \in Nat /\ b + k < b + l
    OBVIOUS
  <1>2. \A k \in 0 .. l - 1 : st2[b + k] = st[b + k]
    BY <1>1 DEF Kept
  <1> QED BY <1>2 DEF Locals

\* A stack of N slots, and one that differs from it in slot a.
Slots(st, N) == N \in Nat /\ DOMAIN st = 0 .. N - 1
Written(st, a, v, st2) == st2 = [st EXCEPT ![a] = v]

\* A slot is written, and those below it are kept.
LEMMA WriteKeeps ==
    ASSUME NEW st, NEW N, Slots(st, N), NEW a \in Nat, a < N, NEW v, NEW st2, Written(st, a, v, st2)
    PROVE  st2[a] = v /\ Kept(st, st2, a)
  <1>1. a \in DOMAIN st /\ \A k \in Nat : k < a => k \in DOMAIN st /\ k # a
    BY DEF Slots
  <1>2. \A k \in Nat : k < a => st2[k] = st[k]
    BY <1>1 DEF Written
  <1> QED BY <1>1, <1>2 DEF Kept, Written

\* What is kept up to a is kept up to any lower slot.
LEMMA KeptBelow ==
    ASSUME NEW st, NEW st2, NEW a \in Nat, NEW c \in Nat, c <= a, Kept(st, st2, a)
    PROVE  Kept(st, st2, c)
  BY DEF Kept

\* Each instruction that puts its value in the place of its operands.
LEMMA YieldsOK ==
    ASSUME Placed, NEW b \in Nat, NEW l \in Nat, NEW m \in Nat, Topmost(b, l, m),
           NEW n \in Nat, n = Pops(Now), Advance, functions' = functions, NEW v, Push(n, v)
    PROVE  Apart!Yields(n, v)
  <1>1. n <= m /\ sp = b + l + m /\ Slots(stack, StackSize)
    BY DEF Topmost, Slots
  <1>2. PICK j \in Nat : j = m - n
    BY <1>1
  <1>3. PICK a \in Nat : a = b + l
    OBVIOUS
  <1>4. PICK e \in Nat : e = a + j
    OBVIOUS
  <1>5. e < StackSize /\ Written(stack, e, v, stack') /\ sp' = e + 1
    <2>1. sp - n = e
      BY <1>1, <1>2, <1>3, <1>4
    <2>2. sp - n < StackSize /\ Written(stack, sp - n, v, stack') /\ sp' = sp - n + 1
      BY DEF Push, Written
    <2> QED BY <2>1, <2>2
  <1>6. stack'[e] = v /\ Kept(stack, stack', e)
    BY <1>1, <1>4, <1>5, WriteKeeps
  <1>7. Kept(stack, stack', a) /\ Kept(stack, stack', b)
    BY <1>3, <1>4, <1>6, KeptBelow
  <1>8. Locals(stack', b, l) = Locals(stack, b, l)
    BY <1>3, <1>7, LocalsKept
  <1>9. Slice(stack', a, j + 1) = Append(Slice(stack, a, j), v)
    <2>1. Pushed(stack, stack', a, j, v)
      BY <1>4, <1>6 DEF Pushed
    <2>2. j \in Nat /\ a \in Nat
      BY <1>2, <1>3
    <2>3. Longer(stack, stack', a, j, v)
      BY <2>1, <2>2, SlicePushed
    <2> QED BY <2>3 DEF Longer
  <1>10. PICK q \in Nat, i \in Nat : q = Frame.ip + 1 /\ i = j + 1
    <2>1. Frame.ip \in Nat
      BY NowOK
    <2>2. j + 1 \in Nat
      BY <1>2
    <2> QED BY <2>1, <2>2
  <1>11. frames' = [frames EXCEPT ![Len(frames)].ip = q]
    <2>1. Frame = frames[Len(frames)]
      BY NowOK
    <2> QED BY <1>10, <2>1 DEF Advance
  <1>12. Turning(b, l, i, q)
    BY <1>2, <1>3, <1>4, <1>5, <1>7, <1>10, <1>11 DEF Turning
  <1>13. PICK ls, ops : ls = Locals(stack', b, l) /\ ops = Slice(stack', b + l, i)
    OBVIOUS
  <1>14. Apart!GoesOn(ls, ops, q)
    BY <1>10, <1>12, <1>13, GoesOnOK
  <1>15. Apart!Active.locals = Locals(stack, b, l) /\ Apart!Active.ip = Frame.ip
    BY DEF Topmost
  <1>16. Apart!Has(n) /\ Apart!Rest(n) = Slice(stack, a, j)
    BY <1>1, <1>2, <1>3, OperandsOK
  <1>17. ls = Apart!Active.locals /\ ops = Append(Apart!Rest(n), v) /\ q = Apart!Active.ip + 1
    BY <1>3, <1>8, <1>9, <1>10, <1>13, <1>15, <1>16
  <1> QED BY <1>14, <1>16, <1>17 DEF Apart!Yields

\* Each instruction that only takes operands away.
LEMMA LeavesOK ==
    ASSUME Placed, NEW b \in Nat, NEW l \in Nat, NEW m \in Nat, Topmost(b, l, m),
           NEW n \in Nat, n <= m, NEW q \in Nat, frames' = [frames EXCEPT ![Len(frames)].ip = q],
           functions' = functions, stack' = stack, sp' = sp - n
    PROVE  Apart!GoesOn(Apart!Active.locals, Apart!Rest(n), q)
  <1>1. sp = b + l + m
    BY DEF Topmost
  <1>2. PICK j \in Nat : j = m - n
    OBVIOUS
  <1>3. Kept(stack, stack', b)
    BY DEF Kept
  <1>4. Turning(b, l, j, q)
    BY <1>1, <1>2, <1>3 DEF Turning
  <1>5. PICK ls, ops : ls = Locals(stack', b, l) /\ ops = Slice(stack', b + l, j)
    OBVIOUS
  <1>6. Apart!GoesOn(ls, ops, q)
    BY <1>2, <1>4, <1>5, GoesOnOK
  <1>7. Apart!Active.locals = Locals(stack, b, l)
    BY DEF Topmost
  <1>8. Apart!Rest(n) = Slice(stack, b + l, j)
    BY <1>2, OperandsOK
  <1> QED BY <1>5, <1>6, <1>7, <1>8

----------------------------------------------------------------------------
(***************************************************************************)
(* The instructions                                                        *)
(***************************************************************************)

\* Values are the same for both.
LEMMA SameValues ==
    /\ Apart!Null = Null /\ Apart!Literal = Literal /\ Apart!Arity = Arity
    /\ \A v : Apart!Falsy(v) <=> Falsy(v)
    /\ \A fs, i : Apart!Loaded(fs, i) = Loaded(fs, i)
    /\ \A op, v : Apart!Apply(op, v) = Apply(op, v)
  <1>1. Apart!Null = Null /\ Apart!Literal = Literal /\ \A v : Apart!Falsy(v) <=> Falsy(v)
    BY DEF Apart!Null, Null, Apart!Literal, Literal, Apart!Truth, Truth, Apart!Falsy, Falsy
  <1>2. Apart!Arity = Arity
    BY DEF Apart!Arity, Arity, Apart!Binary, Binary, Apart!Logical, Logical, Apart!Equality, Equality
  <1>3. \A fs, i : Apart!Loaded(fs, i) = Loaded(fs, i)
    BY DEF Apart!Loaded, Loaded
  <1>4. \A op, v : Apart!Apply(op, v) = Apply(op, v)
    BY <1>1 DEF Apart!Apply, Apply, Apart!Number, Number, Apart!Truth, Truth, Apart!Error, Error,
                Apart!Quotient, Quotient, Apart!SliceOf, SliceOf, Apart!Bounds, Bounds,
                Apart!Start, Start, Apart!Stop, Stop, Apart!ElementOf, ElementOf, Apart!Magnitude,
                Magnitude, Apart!Falsy, Falsy
  <1> QED BY <1>1, <1>2, <1>3, <1>4

\* Each instruction that computes a value.
LEMMA ComputesApart ==
    ASSUME Placed, Keeps(stack, globals),
           \/ LoadConst \/ LoadLiteral \/ GetBuiltin \/ GetGlobal \/ GetLocal \/ Operate \/ BuildArray
    PROVE  Apart!Compute
  <1>1. PICK b \in Nat, l \in Nat, m \in Nat : Topmost(b, l, m)
    BY TopmostOK
  <1>2. /\ Opcode = Now.op /\ Operand = Now.arg /\ Opcode \in Opcodes /\ Operand \in Nat
        /\ PointFacts(functions, Frame.fn, Frame.ip, sp - Frame.base, Now)
    BY NowOK
  <1>3. /\ Advance /\ functions' = functions /\ globals' = globals /\ out' = out /\ status' = status
    BY DEF LoadConst, LoadLiteral, GetBuiltin, GetGlobal, GetLocal, Operate, BuildArray
  <1>4. ASSUME NEW n \in Nat, n = Pops(Now), NEW v, Push(n, v) PROVE Apart!Yields(n, v)
    BY <1>1, <1>3, <1>4, YieldsOK
  <1>5. ASSUME NEW S, Executes(S) PROVE Apart!Runs(S)
    BY <1>1, <1>5, RunsOK
  <1>6. /\ Apart!Instr.op = Opcode /\ Apart!Instr.arg = Operand /\ b = Frame.base
        /\ l = functions[Frame.fn].locals /\ Pops(Now) <= m
        /\ Apart!Active.locals = Locals(stack, b, l)
    BY <1>1, <1>2 DEF Topmost
  <1>7. CASE LoadConst
    <2>1. PICK v : v = Loaded(functions, Operand + 2)
      OBVIOUS
    <2>2. Executes({"CONST"}) /\ Push(0, v)
      BY <1>7, <2>1 DEF LoadConst
    <2>3. Pops(Now) = 0
      BY <1>2, <2>2, PopsOK DEF Executes
    <2>4. Apart!Yields(0, v)
      BY <1>4, <2>2, <2>3
    <2>5. Apart!Runs({"CONST"})
      BY <1>5, <2>2
    <2>6. v = Apart!Loaded(functions, Apart!Instr.arg + 2)
      BY <1>6, <2>1, SameValues
    <2> QED BY <1>3, <2>4, <2>5, <2>6 DEF Apart!Compute
  <1>8. CASE LoadLiteral
    <2>1. PICK v : v = Literal[Opcode]
      OBVIOUS
    <2>2. Executes(DOMAIN Literal) /\ Push(0, v)
      BY <1>8, <2>1 DEF LoadLiteral
    <2>3. Pops(Now) = 0
      BY <1>2, <2>2, PopsOK DEF Executes, Literal
    <2>4. Apart!Yields(0, v)
      BY <1>4, <2>2, <2>3
    <2>5. Apart!Runs(DOMAIN Literal)
      BY <1>5, <2>2
    <2>6. v = Apart!Literal[Apart!Instr.op]
      BY <1>6, <2>1, SameValues
    <2> QED BY <1>3, <2>4, <2>5, <2>6, SameValues DEF Apart!Compute
  <1>9. CASE GetBuiltin
    <2>1. PICK v : v = [type |-> "BUILTIN", index |-> Operand]
      OBVIOUS
    <2>2. Executes({"GET_BUILTIN"}) /\ Push(0, v)
      BY <1>9, <2>1 DEF GetBuiltin
    <2>3. Pops(Now) = 0
      BY <1>2, <2>2, PopsOK DEF Executes, Literal
    <2>4. Apart!Yields(0, v)
      BY <1>4, <2>2, <2>3
    <2>5. Apart!Runs({"GET_BUILTIN"})
      BY <1>5, <2>2
    <2>6. v = [type |-> "BUILTIN", index |-> Apart!Instr.arg]
      BY <1>6, <2>1, SameValues
    <2> QED BY <1>3, <2>4, <2>5, <2>6 DEF Apart!Compute
  <1>10. CASE GetGlobal
    <2>1. PICK v : v = globals[Operand]
      OBVIOUS
    <2>2. Executes({"GET_GLOBAL"}) /\ Push(0, v)
      BY <1>10, <2>1 DEF GetGlobal
    <2>3. Pops(Now) = 0
      BY <1>2, <2>2, PopsOK DEF Executes, Literal
    <2>4. Apart!Yields(0, v)
      BY <1>4, <2>2, <2>3
    <2>5. Apart!Runs({"GET_GLOBAL"})
      BY <1>5, <2>2
    <2>6. v = globals[Apart!Instr.arg]
      BY <1>6, <2>1, SameValues
    <2> QED BY <1>3, <2>4, <2>5, <2>6 DEF Apart!Compute
  <1>11. CASE GetLocal
    <2>1. PICK v : v = stack[Frame.base + Operand]
      OBVIOUS
    <2>2. Executes({"GET_LOCAL"}) /\ Push(0, v)
      BY <1>11, <2>1 DEF GetLocal
    <2>3. Pops(Now) = 0
      BY <1>2, <2>2, PopsOK DEF Executes
    <2>4. Apart!Yields(0, v)
      BY <1>4, <2>2, <2>3
    <2>5. Apart!Runs({"GET_LOCAL"})
      BY <1>5, <2>2
    <2>6. Operand \in 0 .. l - 1
      BY <1>1, <1>2, <1>6, <2>2 DEF Executes, PointFacts
    <2>7. Apart!Instr.arg \in DOMAIN Apart!Active.locals /\ v = Apart!Active.locals[Apart!Instr.arg]
      BY <1>6, <2>1, <2>6 DEF Locals
    <2> QED BY <1>3, <2>4, <2>5, <2>7 DEF Apart!Compute
  <1>12. ASSUME NEW n \in Nat, n = Pops(Now) PROVE Apart!Operands(n) = Top(n)
    <2>1. Apart!Operands(n) = Slice(stack, sp - n, n)
      BY <1>1, <1>6, <1>12, OperandsOK
    <2> QED BY <2>1 DEF Slice, Top
  <1>13. CASE Operate
    <2>1. PICK n : n = Arity[Opcode]
      OBVIOUS
    <2>2. PICK v : v = Apply(Opcode, Top(n))
      OBVIOUS
    <2>3. Executes(DOMAIN Arity) /\ Push(n, v)
      BY <1>13, <2>1, <2>2 DEF Operate
    <2>4. n = Pops(Now) /\ n \in Nat
      BY <1>2, <2>1, <2>3, PopsOK DEF Executes
    <2>5. Apart!Yields(n, v)
      BY <1>4, <2>3, <2>4
    <2>6. Apart!Runs(DOMAIN Arity)
      BY <1>5, <2>3
    <2>7. Apart!Operands(n) = Top(n)
      BY <1>12, <2>4
    <2>8. n = Apart!Arity[Apart!Instr.op]
      BY <1>6, <2>1, SameValues
    <2>9. v = Apart!Apply(Apart!Instr.op, Apart!Operands(n))
      BY <1>6, <2>2, <2>7, SameValues
    <2>10. Apart!Runs(DOMAIN Apart!Arity)
      BY <2>6, SameValues
    <2> QED BY <1>3, <2>5, <2>8, <2>9, <2>10 DEF Apart!Compute
  <1>14. CASE BuildArray
    <2>1. PICK v : v = Apply("ARRAY", Top(Operand))
      OBVIOUS
    <2>2. Executes({"ARRAY"}) /\ Push(Operand, v)
      BY <1>14, <2>1 DEF BuildArray
    <2>3. Operand = Pops(Now)
      BY <1>2, <2>2, PopsOK DEF Executes
    <2>4. Apart!Yields(Operand, v)
      BY <1>2, <1>4, <2>2, <2>3
    <2>5. Apart!Runs({"ARRAY"})
      BY <1>5, <2>2
    <2>6. Apart!Operands(Operand) = Top(Operand)
      BY <1>2, <1>12, <2>3
    <2>7. v = Apart!Apply("ARRAY", Apart!Operands(Apart!Instr.arg))
      BY <1>6, <2>1, <2>6, SameValues
    <2>8. Apart!Yields(Apart!Instr.arg, v)
      BY <1>6, <2>4
    <2> QED BY <1>3, <2>5, <2>7, <2>8 DEF Apart!Compute
  <1> QED BY <1>7, <1>8, <1>9, <1>10, <1>11, <1>13, <1>14

\* Slot a of a stack of N is variable k.
Variable(b, l, m, k, a, N) == k \in 0 .. l - 1 /\ a = b + k /\ b + l + m <= N

\* A variable is assigned: the operands are not, but for the one that is taken.
LEMMA Assigned ==
    ASSUME NEW st, NEW N, Slots(st, N), NEW b \in Nat, NEW l \in Nat, NEW m \in Nat, NEW k,
           NEW a, Variable(b, l, m, k, a, N), NEW v, NEW st2, Written(st, a, v, st2)
    PROVE  /\ Locals(st2, b, l) = [Locals(st, b, l) EXCEPT ![k] = v]
           /\ Slice(st2, b + l, m) = Slice(st, b + l, m)
           /\ Kept(st, st2, b)
  <1>1. a \in DOMAIN st /\ a \in Nat
    BY DEF Slots, Variable
  <1>2. st2[a] = v /\ \A i \in DOMAIN st : i # a => st2[i] = st[i]
    BY <1>1 DEF Written
  <1>3. Locals(st2, b, l) = [Locals(st, b, l) EXCEPT ![k] = v]
    <2>1. \A i \in 0 .. l - 1 : b + i \in DOMAIN st /\ (b + i = a <=> i = k)
      BY DEF Slots, Variable
    <2>2. \A i \in 0 .. l - 1 : st2[b + i] = IF i = k THEN v ELSE st[b + i]
      BY <1>2, <2>1
    <2> QED BY <2>2 DEF Locals
  <1>4. Slice(st2, b + l, m) = Slice(st, b + l, m)
    <2>1. \A i \in 1 .. m : b + l + i - 1 \in DOMAIN st /\ b + l + i - 1 # a
      BY DEF Slots, Variable
    <2>2. \A i \in 1 .. m : st2[b + l + i - 1] = st[b + l + i - 1]
      BY <1>2, <2>1
    <2> QED BY <2>2 DEF Slice
  <1>5. Kept(st, st2, b)
    <2>1. \A i \in Nat : i < b => i \in DOMAIN st /\ i # a
      BY DEF Slots, Variable
    <2> QED BY <1>2, <2>1 DEF Kept
  <1> QED BY <1>3, <1>4, <1>5

\* Each instruction that only takes an operand, and the jumps.
LEMMA TakesApart ==
    ASSUME Placed, Keeps(stack, globals), Pop \/ SetGlobal \/ Jump \/ JumpNotTrue
    PROVE  Apart!Discard \/ Apart!StoreGlobal \/ Apart!Branch
  <1>1. PICK b \in Nat, l \in Nat, m \in Nat : Topmost(b, l, m)
    BY TopmostOK
  <1>2. /\ Opcode = Now.op /\ Operand = Now.arg /\ Opcode \in Opcodes /\ Operand \in Nat
        /\ Frame = frames[Len(frames)] /\ Frame.ip \in Nat
    BY NowOK
  <1>3. /\ Apart!Instr.op = Opcode /\ Apart!Instr.arg = Operand /\ Pops(Now) <= m
        /\ Apart!Active.ip = Frame.ip /\ Apart!Active.operands = Slice(stack, b + l, m)
    BY <1>1, <1>2 DEF Topmost
  <1>4. ASSUME NEW S, Executes(S) PROVE Apart!Runs(S)
    BY <1>1, <1>4, RunsOK
  <1>5. ASSUME NEW n \in Nat, n = Pops(Now), NEW q \in Nat, frames' = [frames EXCEPT ![Len(frames)].ip = q],
               functions' = functions, stack' = stack, sp' = sp - n
        PROVE  Apart!GoesOn(Apart!Active.locals, Apart!Rest(n), q)
    BY <1>1, <1>3, <1>5, LeavesOK
  <1>6. Opcode \in Popping => Pops(Now) = 1 /\ Apart!Has(1) /\ Apart!Last(Apart!Active.operands) = stack[sp - 1]
    <2>1. SUFFICES ASSUME Opcode \in Popping
                   PROVE  Pops(Now) = 1 /\ Apart!Has(1) /\ Apart!Last(Apart!Active.operands) = stack[sp - 1]
      OBVIOUS
    <2>2. Pops(Now) = 1
      BY <1>2, <2>1, PopsOK
    <2>3. 1 <= m
      BY <1>3, <2>2
    <2>4. Apart!Has(1) /\ Last(Apart!Active.operands) = stack[sp - 1]
      BY <1>1, <2>3, OperandsOK
    <2> QED BY <2>2, <2>4 DEF Apart!Last, Last
  <1>7. PICK q \in Nat : q = Frame.ip + 1
    BY <1>2
  <1>8. Advance => frames' = [frames EXCEPT ![Len(frames)].ip = q]
    BY <1>2, <1>7 DEF Advance
  <1>9. CASE Pop
    <2>1. Executes({"POP"}) /\ Advance /\ sp' = sp - 1 /\ UNCHANGED <<functions, stack, globals, out, status>>
      BY <1>9 DEF Pop
    <2>2. Opcode \in Popping
      BY <2>1 DEF Executes, Popping
    <2>3. Apart!GoesOn(Apart!Active.locals, Apart!Rest(1), q)
      BY <1>5, <1>6, <1>8, <2>1, <2>2
    <2>4. Apart!Runs({"POP"})
      BY <1>4, <2>1
    <2> QED BY <1>3, <1>6, <1>7, <2>1, <2>2, <2>3, <2>4 DEF Apart!Discard
  <1>10. CASE SetGlobal
    <2>1. /\ Executes({"SET_GLOBAL"}) /\ Advance /\ sp' = sp - 1 /\ UNCHANGED <<functions, stack, out, status>>
          /\ globals' = [globals EXCEPT ![Operand] = stack[sp - 1]]
      BY <1>10 DEF SetGlobal
    <2>2. Opcode \in Popping
      BY <2>1 DEF Executes, Popping
    <2>3. Apart!GoesOn(Apart!Active.locals, Apart!Rest(1), q)
      BY <1>5, <1>6, <1>8, <2>1, <2>2
    <2>4. Apart!Runs({"SET_GLOBAL"})
      BY <1>4, <2>1
    <2>5. globals' = [globals EXCEPT ![Apart!Instr.arg] = Apart!Last(Apart!Active.operands)]
      BY <1>3, <1>6, <2>1, <2>2
    <2> QED BY <1>3, <1>6, <1>7, <2>1, <2>2, <2>3, <2>4, <2>5 DEF Apart!StoreGlobal
  <1>11. CASE Jump
    <2>1. /\ Executes({"JUMP"}) /\ UNCHANGED <<functions, stack, sp, globals, out, status>>
          /\ frames' = [frames EXCEPT ![Len(frames)].ip = Operand]
      BY <1>11 DEF Jump
    <2>2. Pops(Now) = 0
      BY <1>2, <2>1, PopsOK DEF Executes
    <2>3. PICK n \in Nat : n = 0 /\ n = Pops(Now) /\ sp' = sp - n
      <3>1. sp \in Nat
        BY NowOK
      <3> QED BY <2>1, <2>2, <3>1
    <2>4. Apart!GoesOn(Apart!Active.locals, Apart!Rest(n), Operand)
      <3>1. functions' = functions /\ stack' = stack
        BY <2>1
      <3> QED BY <1>2, <1>5, <2>1, <2>3, <3>1
    <2>5. Apart!Rest(n) = Apart!Active.operands
      <3>1. n <= m /\ m - n = m
        BY <1>1, <2>3
      <3>2. Apart!Rest(n) = Slice(stack, b + l, m - n)
        BY <1>1, <2>3, <3>1, OperandsOK
      <3> QED BY <1>3, <3>1, <3>2
    <2>6. Apart!Runs({"JUMP"})
      BY <1>4, <2>1
    <2> QED BY <1>3, <2>1, <2>4, <2>5, <2>6 DEF Apart!Branch
  <1>12. CASE JumpNotTrue
    <2>1. PICK r : r = IF Falsy(stack[sp - 1]) THEN Operand ELSE Frame.ip + 1
      OBVIOUS
    <2>2. /\ Executes({"JUMP_NOT_TRUE"}) /\ UNCHANGED <<functions, stack, globals, out, status>>
          /\ frames' = [frames EXCEPT ![Len(frames)].ip = r] /\ sp' = sp - 1
      BY <1>2, <1>12, <2>1 DEF JumpNotTrue
    <2>3. Opcode \in Popping
      BY <2>2 DEF Executes, Popping
    <2>4. r \in Nat
      BY <1>2, <2>1
    <2>5. Apart!GoesOn(Apart!Active.locals, Apart!Rest(1), r)
      BY <1>5, <1>6, <2>2, <2>3, <2>4
    <2>6. r = IF Apart!Falsy(Apart!Last(Apart!Active.operands)) THEN Apart!Instr.arg ELSE Apart!Active.ip + 1
      BY <1>3, <1>6, <2>1, <2>3, SameValues
    <2>7. Apart!Runs({"JUMP_NOT_TRUE"})
      BY <1>4, <2>2
    <2> QED BY <1>6, <2>2, <2>3, <2>5, <2>6, <2>7 DEF Apart!Branch
  <1> QED BY <1>9, <1>10, <1>11, <1>12

\* An assignment to a local variable of the topmost call.
LEMMA StoresApart ==
    ASSUME Placed, Keeps(stack, globals), SetLocal
    PROVE  Apart!StoreLocal
  <1>1. PICK b \in Nat, l \in Nat, m \in Nat : Topmost(b, l, m)
    BY TopmostOK
  <1>2. /\ Opcode = Now.op /\ Operand = Now.arg /\ Opcode \in Opcodes /\ Operand \in Nat
        /\ PointFacts(functions, Frame.fn, Frame.ip, sp - Frame.base, Now)
        /\ Frame = frames[Len(frames)] /\ Frame.ip \in Nat
    BY NowOK
  <1>3. /\ Apart!Instr.op = Opcode /\ Apart!Instr.arg = Operand /\ Pops(Now) <= m
        /\ b = Frame.base /\ l = functions[Frame.fn].locals /\ sp = b + l + m /\ sp <= StackSize
        /\ Apart!Active.ip = Frame.ip /\ Apart!Active.locals = Locals(stack, b, l)
        /\ Apart!Active.operands = Slice(stack, b + l, m)
        /\ Slots(stack, StackSize)
    BY <1>1, <1>2 DEF Topmost, Slots
  <1>4. PICK v, a : v = stack[sp - 1] /\ a = b + Operand
    OBVIOUS
  <1>5. /\ Executes({"SET_LOCAL"}) /\ Advance /\ sp' = sp - 1 /\ UNCHANGED <<functions, globals, out, status>>
        /\ Written(stack, a, v, stack')
    <2>1. PICK e : e = Frame.base + Operand
      OBVIOUS
    <2>2. /\ Executes({"SET_LOCAL"}) /\ Advance /\ sp' = sp - 1
          /\ UNCHANGED <<functions, globals, out, status>> /\ Written(stack, e, v, stack')
      BY <1>4, <2>1 DEF SetLocal, Written
    <2>3. e = a
      BY <1>3, <1>4, <2>1
    <2> QED BY <2>2, <2>3
  <1>6. Operand \in 0 .. l - 1
    <2>1. Now.op = "SET_LOCAL" /\ Now.arg = Operand
      BY <1>2, <1>5 DEF Executes
    <2>2. Now.arg < functions[Frame.fn].locals
      BY <1>2, <2>1 DEF PointFacts
    <2>3. PICK o \in Nat : o = Operand
      BY <1>2
    <2>4. o < l
      BY <1>3, <2>1, <2>2, <2>3
    <2>5. o \in 0 .. l - 1
      BY <1>1, <2>4
    <2> QED BY <2>3, <2>5
  <1>7. Pops(Now) = 1
    BY <1>2, <1>5, PopsOK DEF Executes, Popping
  <1>8. PICK j \in Nat : j = m - 1 /\ b + l + j <= StackSize /\ m >= 1
    <2>1. StackSize \in Nat
      BY <1>3 DEF Slots
    <2> QED BY <1>3, <1>7, <2>1
  <1>9. /\ Locals(stack', b, l) = [Locals(stack, b, l) EXCEPT ![Operand] = v]
        /\ Slice(stack', b + l, j) = Slice(stack, b + l, j)
        /\ Kept(stack, stack', b)
    <2>1. Variable(b, l, j, Operand, a, StackSize)
      BY <1>4, <1>6, <1>8 DEF Variable
    <2>2. b \in Nat /\ l \in Nat /\ j \in Nat
      BY <1>1, <1>8
    <2>3. Slots(stack, StackSize) /\ Written(stack, a, v, stack')
      BY <1>3, <1>5
    <2> QED BY <2>1, <2>2, <2>3, Assigned
  <1>10. PICK q \in Nat : q = Frame.ip + 1
    BY <1>2
  <1>11. Turning(b, l, j, q)
    <2>1. frames' = [frames EXCEPT ![Len(frames)].ip = q]
      BY <1>2, <1>5, <1>10 DEF Advance
    <2>2. sp' = b + l + j
      BY <1>3, <1>5, <1>8
    <2> QED BY <1>5, <1>9, <2>1, <2>2 DEF Turning
  <1>12. PICK ls, ops : ls = Locals(stack', b, l) /\ ops = Slice(stack', b + l, j)
    OBVIOUS
  <1>13. Apart!GoesOn(ls, ops, q)
    BY <1>1, <1>8, <1>10, <1>11, <1>12, GoesOnOK
  <1>14. Apart!Has(1) /\ Last(Apart!Active.operands) = stack[sp - 1] /\ Apart!Rest(1) = Slice(stack, b + l, j)
    BY <1>1, <1>8, OperandsOK
  <1>15. Apart!Last(Apart!Active.operands) = v
    BY <1>4, <1>14 DEF Apart!Last, Last
  <1>16. /\ ls = [Apart!Active.locals EXCEPT ![Apart!Instr.arg] = Apart!Last(Apart!Active.operands)]
         /\ ops = Apart!Rest(1) /\ q = Apart!Active.ip + 1
    BY <1>3, <1>9, <1>10, <1>12, <1>14, <1>15
  <1>17. Apart!Runs({"SET_LOCAL"})
    BY <1>1, <1>5, RunsOK
  <1>18. Apart!Instr.arg \in DOMAIN Apart!Active.locals
    BY <1>3, <1>6 DEF Locals
  <1> QED BY <1>5, <1>13, <1>14, <1>16, <1>17, <1>18 DEF Apart!StoreLocal

\* The callee lies below its arguments.
LEMMA CalleeOK ==
    ASSUME Placed, NEW b \in Nat, NEW l \in Nat, NEW m \in Nat, Topmost(b, l, m), Executes({"CALL"})
    PROVE  /\ Apart!Has(Apart!Instr.arg + 1) /\ Apart!Callee = Callee /\ Apart!Arguments = Top(Operand)
           /\ Operand + 1 = Pops(Now) /\ Operand + 1 <= m /\ Operand \in Nat
  <1>1. Opcode = Now.op /\ Operand = Now.arg /\ Opcode \in Opcodes /\ Operand \in Nat
    BY NowOK
  <1>2. Apart!Instr.arg = Operand /\ Pops(Now) <= m /\ sp = b + l + m
    BY <1>1 DEF Topmost
  <1>3. PICK i \in Nat, n \in Nat : i = Operand /\ n = i + 1
    BY <1>1
  <1>4. Pops(Now) = n
    BY <1>1, <1>3, PopsOK DEF Executes
  <1>5. n <= m
    BY <1>2, <1>4
  <1>6. PICK a : a = sp - n
    OBVIOUS
  <1>7. a \in Nat /\ a = sp - Operand - 1 /\ a + 1 = sp - Operand
    BY <1>2, <1>3, <1>5, <1>6
  <1>8. Apart!Has(n) /\ Apart!Operands(n) = Slice(stack, sp - n, n)
    BY <1>3, <1>5, OperandsOK
  <1>9. PICK v : v = Apart!Operands(n)
    OBVIOUS
  <1>10. v = Slice(stack, a, n)
    BY <1>6, <1>8, <1>9
  <1>11. v[1] = stack[a] /\ Tail(v) = Slice(stack, a + 1, i)
    BY <1>3, <1>7, <1>10, SliceTail
  <1>12. Slice(stack, a + 1, i) = Top(Operand)
    BY <1>3, <1>7 DEF Slice, Top
  <1>13. Apart!Instr.arg + 1 = n
    BY <1>2, <1>3
  <1>14. Apart!Callee = v[1] /\ Apart!Arguments = Tail(v)
    BY <1>9, <1>13 DEF Apart!Callee, Apart!Arguments
  <1>15. stack[a] = Callee
    BY <1>7 DEF Callee
  <1> QED BY <1>1, <1>3, <1>4, <1>5, <1>8, <1>11, <1>12, <1>13, <1>14, <1>15

\* print() takes its operands and leaves null.
LEMMA PrintsApart ==
    ASSUME Placed, Keeps(stack, globals), CallPrint
    PROVE  Apart!CallPrint
  <1>1. PICK b \in Nat, l \in Nat, m \in Nat : Topmost(b, l, m)
    BY TopmostOK
  <1>2. /\ Executes({"CALL"}) /\ Callee = [type |-> "BUILTIN", index |-> PrintIndex]
        /\ out' = out \o Top(Operand) /\ Push(Operand + 1, Null) /\ Advance
        /\ UNCHANGED <<functions, globals, status>>
    BY DEF CallPrint
  <1>3. /\ Apart!Callee = Callee /\ Apart!Arguments = Top(Operand)
        /\ Operand + 1 = Pops(Now) /\ Operand \in Nat
    BY <1>1, <1>2, CalleeOK
  <1>4. PICK n \in Nat : n = Operand + 1
    BY <1>3
  <1>5. Push(n, Null) /\ n = Pops(Now)
    BY <1>2, <1>3, <1>4
  <1>6. Apart!Yields(n, Null)
    BY <1>1, <1>2, <1>5, YieldsOK
  <1>7. Apart!Runs({"CALL"}) /\ Apart!Instr.arg = Operand
    BY <1>1, <1>2, RunsOK
  <1>8. Apart!Yields(Apart!Instr.arg + 1, Apart!Null)
    BY <1>4, <1>6, <1>7, SameValues
  <1> QED BY <1>2, <1>3, <1>7, <1>8 DEF Apart!CallPrint

\* The program's own code runs in its first call only, and at its end nothing is left.
LEMMA HaltsApart ==
    ASSUME Placed, Keeps(stack, globals), Halt
    PROVE  Apart!Halt
  <1>1. PICK b \in Nat, l \in Nat, m \in Nat : Topmost(b, l, m)
    BY TopmostOK
  <1>2. /\ Executes({"HALT"}) /\ status' = "halted"
        /\ UNCHANGED <<functions, stack, sp, frames, globals, out>>
    BY DEF Halt
  <1>3. /\ Opcode = "HALT" /\ Opcode = Now.op /\ Frame = frames[Len(frames)] /\ sp \in Nat
        /\ PointFacts(functions, Frame.fn, Frame.ip, sp - Frame.base, Now)
    BY <1>2, NowOK DEF Executes
  <1>4. Frame.fn = 1 /\ sp - Frame.base = 0
    BY <1>3 DEF PointFacts
  <1>5. PICK n : n = Len(frames)
    OBVIOUS
  <1>6. n = 1
    <2>1. n \in 1 .. Len(frames) /\ frames[n].fn = 1
      BY <1>3, <1>4, <1>5, StackedOK DEF Placed
    <2> QED BY <2>1 DEF Placed, Stacked
  <1>7. Len(OwnCalls) = 1
    <2>1. frames \in Seq(Calls)
      BY DEF Placed, Stacked
    <2>2. PICK o : o = Own(functions, stack, frames, sp)
      OBVIOUS
    <2>3. Len(o) = Len(frames)
      BY <2>1, <2>2, OwnOK
    <2> QED BY <1>5, <1>6, <2>2, <2>3 DEF OwnCalls, Own
  <1>8. m = 0 /\ Apart!Active.operands = Slice(stack, b + l, m)
    <2>1. b = Frame.base /\ sp = b + l + m /\ Apart!Active.operands = Slice(stack, b + l, m)
      BY <1>1 DEF Topmost
    <2> QED BY <1>1, <1>3, <1>4, <2>1
  <1>9. Apart!Active.operands = << >>
    BY <1>8 DEF Slice
  <1>10. Apart!Runs({"HALT"})
    BY <1>1, <1>2, RunsOK
  <1>11. OwnCalls' = OwnCalls
    BY <1>2 DEF OwnCalls
  <1> QED BY <1>2, <1>7, <1>9, <1>10, <1>11 DEF Apart!Halt

\* A function is called: the caller waits without the callee and the arguments.
LEMMA CallsApartly ==
    ASSUME Placed, Keeps(stack, globals), CallFunction
    PROVE  Apart!CallFunction
  <1>1. PICK b \in Nat, l \in Nat, m \in Nat : Topmost(b, l, m)
    BY TopmostOK
  <1>2. /\ Executes({"CALL"}) /\ IsFunction(Callee) /\ UNCHANGED <<functions, stack, globals, out, status>>
        /\ frames' = Append(frames, [fn |-> Callee.fn, ip |-> 0, base |-> sp - Operand])
        /\ sp' = sp - Operand + functions[Callee.fn].locals
    BY DEF CallFunction
  <1>3. /\ Apart!Has(Apart!Instr.arg + 1) /\ Apart!Callee = Callee /\ Apart!Arguments = Top(Operand)
        /\ Operand + 1 = Pops(Now) /\ Operand + 1 <= m /\ Operand \in Nat
    BY <1>1, <1>2, CalleeOK
  <1>4. Apart!Runs({"CALL"}) /\ Apart!Instr.arg = Operand
    BY <1>1, <1>2, RunsOK
  <1>5. PICK i \in Nat, j \in Nat, a \in Nat : i = Operand /\ j = m - (i + 1) /\ a = sp - i /\ a - 1 = b + l + j
    <2>1. sp = b + l + m
      BY <1>1 DEF Topmost
    <2> QED BY <1>1, <1>3, <2>1
  <1>6. PICK f, k : f = Callee.fn /\ k = functions[f].locals
    OBVIOUS
  <1>7. f \in Procedures(functions) /\ f \in Nat /\ k \in Nat
    <2>1. f \in Procedures(functions)
      BY <1>2, <1>6 DEF IsFunction, Procedures
    <2>2. IsLoadable(functions)
      BY DEF Placed, Verified
    <2> QED BY <1>6, <2>1, <2>2 DEF IsLoadable, Procedures
  <1>8. PICK e : e = [fn |-> f, ip |-> 0, base |-> a]
    OBVIOUS
  <1>9. e \in Calls /\ e.fn = f /\ e.ip = 0 /\ e.base = a
    BY <1>5, <1>7, <1>8 DEF Calls
  <1>10. PICK fs, fr, s, st, c : fs = functions /\ fr = frames /\ s = sp /\ st = stack /\ c = Frame
    OBVIOUS
  <1>11. PICK g, z, n : g = frames' /\ z = sp' /\ n = Len(fr)
    OBVIOUS
  <1>12. Called(fr, e, g) /\ z = a + k
    BY <1>2, <1>5, <1>6, <1>8, <1>10, <1>11 DEF Called
  <1>13. PICK o : o = Own(fs, st, fr, s)
    OBVIOUS
  <1>14. PICK y : y = Own(fs, st, g, z)
    OBVIOUS
  <1>15. /\ y = Front(o) \o <<Activation(fs, st, c, a - 1), Activation(fs, st, e, z)>>
         /\ Last(y) = Activation(fs, st, e, z)
    <2>1. Verified(fs) /\ Stacked(fs, fr, s) /\ Pointed(fs, fr, s)
      BY <1>10 DEF Placed
    <2>2. c = fr[n]
      BY <1>10, <1>11, NowOK
    <2>3. e \in Calls
      BY <1>9
    <2>4. n = Len(fr) /\ Called(fr, e, g)
      BY <1>11, <1>12
    <2>5. /\ Own(fs, st, g, z) =
                 Front(Own(fs, st, fr, s)) \o <<Activation(fs, st, c, e.base - 1), Activation(fs, st, e, z)>>
          /\ Last(Own(fs, st, g, z)) = Activation(fs, st, e, z)
      BY <2>1, <2>2, <2>3, <2>4, CallApart
    <2> QED BY <1>9, <1>13, <1>14, <2>5
  <1>16. OwnCalls' = y /\ OwnCalls = o
    BY <1>2, <1>10, <1>11, <1>13, <1>14 DEF OwnCalls, Own
  <1>17. Activation(fs, st, c, a - 1) = [Apart!Active EXCEPT !.operands = Apart!Rest(Apart!Instr.arg + 1)]
    <2>1. Floor(fs, c) = b + l /\ c.base = b /\ fs[c.fn].locals = l
      BY <1>1, <1>10 DEF Topmost, Floor
    <2>2. (a - 1) - (b + l) = j
      BY <1>1, <1>5
    <2>3. Activation(fs, st, c, a - 1) =
             [fn |-> c.fn, ip |-> c.ip, locals |-> Locals(st, b, l), operands |-> Slice(st, b + l, j)]
      BY <2>1, <2>2, Shaped
    <2>4. PICK q : q = Operand + 1
      OBVIOUS
    <2>5. q \in Nat /\ q <= m /\ m - q = j /\ Apart!Instr.arg + 1 = q
      BY <1>3, <1>4, <1>5, <2>4
    <2>6. Apart!Rest(q) = Slice(stack, b + l, m - q)
      BY <1>1, <2>5, OperandsOK
    <2>7. PICK u, v, r : u = Apart!Active /\ v = Slice(stack, b + l, m) /\ r = Slice(st, b + l, j)
      OBVIOUS
    <2>8. u = [fn |-> c.fn, ip |-> c.ip, locals |-> Locals(st, b, l), operands |-> v]
      BY <1>1, <1>10, <2>7 DEF Topmost
    <2>9. [u EXCEPT !.operands = r] = [fn |-> c.fn, ip |-> c.ip, locals |-> Locals(st, b, l), operands |-> r]
      BY <2>8
    <2>10. Apart!Rest(Apart!Instr.arg + 1) = r
      BY <1>10, <2>5, <2>6, <2>7
    <2> QED BY <2>3, <2>7, <2>9, <2>10
  <1>18. PICK w : w = Activation(fs, st, e, z)
    OBVIOUS
  <1>19. w = [fn |-> f, ip |-> 0, locals |-> Locals(st, a, k), operands |-> << >>]
    <2>1. Floor(fs, e) = a + k /\ fs[e.fn].locals = k
      BY <1>6, <1>9, <1>10 DEF Floor
    <2>2. z - (a + k) = 0
      BY <1>5, <1>7, <1>12
    <2>3. Slice(st, a + k, 0) = << >>
      BY DEF Slice
    <2> QED BY <1>9, <1>18, <2>1, <2>2, <2>3, Shaped
  <1>20. Apart!Entered(w, Apart!Callee.fn, Apart!Arguments)
    <2>1. w.fn = f /\ w.ip = 0 /\ w.operands = << >> /\ w.locals = Locals(st, a, k)
      BY <1>19
    <2>2. PICK v : v = Top(Operand)
      OBVIOUS
    <2>3. Len(v) = i /\ \A h \in 1 .. i : v[h] = stack[a + h - 1]
      <3>1. v = Slice(stack, a, i)
        BY <1>5, <2>2 DEF Slice, Top
      <3> QED BY <1>5, <3>1, SliceOK
    <2>4. \A h \in 0 .. k - 1 : h < Len(v) => Locals(st, a, k)[h] = v[h + 1]
      <3> SUFFICES ASSUME NEW h \in 0 .. k - 1, h < i PROVE Locals(st, a, k)[h] = v[h + 1]
        BY <2>3
      <3>1. Locals(st, a, k)[h] = st[a + h]
        BY DEF Locals
      <3>2. h + 1 \in 1 .. i /\ a + (h + 1) - 1 = a + h
        BY <1>5, <1>7
      <3>3. v[h + 1] = stack[a + (h + 1) - 1]
        BY <2>3, <3>2
      <3> QED BY <1>10, <3>1, <3>2, <3>3
    <2>5. DOMAIN Locals(st, a, k) = 0 .. k - 1
      BY DEF Locals
    <2> QED BY <1>3, <1>6, <2>1, <2>2, <2>4, <2>5 DEF Apart!Entered
  <1>21. Apart!Last(OwnCalls') = w /\ Apart!Front(OwnCalls) = Front(o)
    BY <1>15, <1>16, <1>18 DEF Apart!Last, Last, Apart!Front, Front
  <1>22. OwnCalls' = Apart!Front(OwnCalls) \o
                         <<[Apart!Active EXCEPT !.operands = Apart!Rest(Apart!Instr.arg + 1)], w>>
    BY <1>15, <1>16, <1>17, <1>18, <1>21
  <1>23. Apart!Callee.type = "FUNCTION"
    BY <1>2, <1>3 DEF IsFunction
  <1> QED BY <1>2, <1>3, <1>4, <1>20, <1>21, <1>22, <1>23 DEF Apart!CallFunction

\* A return: the caller goes on with what it has and the value.
LEMMA ResumesOK ==
    ASSUME Placed, Keeps(stack, globals), NEW v, ReturnWith(v)
    PROVE  Apart!Resumes(v)
  <1>1. /\ Len(frames) > 1 /\ stack' = [stack EXCEPT ![Frame.base - 1] = v] /\ sp' = Frame.base
        /\ frames' = [Front(frames) EXCEPT ![Len(frames) - 1].ip = @ + 1]
        /\ UNCHANGED <<functions, globals, out, status>>
    BY DEF ReturnWith
  <1>2. PICK fs, fr, s, st, c : fs = functions /\ fr = frames /\ s = sp /\ st = stack /\ c = Frame
    OBVIOUS
  <1>3. PICK g, z, st2, n : g = frames' /\ z = sp' /\ st2 = stack' /\ n = Len(fr)
    OBVIOUS
  <1>4. PICK d : d = fr[n - 1]
    OBVIOUS
  <1>5. Verified(fs) /\ Stacked(fs, fr, s) /\ Pointed(fs, fr, s)
    BY <1>2 DEF Placed
  <1>6. c = fr[n] /\ n = Len(fr) /\ n > 1 /\ n \in Nat
    BY <1>1, <1>2, <1>3, NowOK
  <1>7. PICK i \in Nat : i = n - 1 /\ i \in 1 .. n /\ i # n /\ i + 1 = n
    BY <1>6
  <1>8. /\ d.base \in Nat /\ fs[d.fn].locals \in Nat /\ c.base \in Nat
        /\ d.base + fs[d.fn].locals <= c.base - 1
    <2>1. PICK t, b : t = fr[i] /\ b = fr[i + 1].base
      OBVIOUS
    <2>2. /\ t.base \in Nat /\ fs[t.fn].locals \in Nat /\ b \in Nat
          /\ t.base + fs[t.fn].locals <= b - 1
      BY <1>5, <1>6, <1>7, <2>1, WaitingOK
    <2>3. t = d /\ b = c.base
      BY <1>4, <1>6, <1>7, <2>1
    <2> QED BY <2>2, <2>3
  <1>9. PICK b \in Nat, l \in Nat : b = d.base /\ l = fs[d.fn].locals
    BY <1>8
  <1>10. PICK a \in Nat, e \in Nat, m \in Nat : a = b + l /\ e = c.base - 1 /\ e = a + m
    BY <1>8, <1>9
  <1>11. c.base = e + 1 /\ e < StackSize /\ Slots(st, StackSize)
    <2>1. /\ DOMAIN stack = 0 .. StackSize - 1 /\ sp <= StackSize /\ StackSize \in Nat
      BY SizesAssumption DEF Keeps, Placed
    <2>2. Frame.base <= sp /\ sp \in Nat
      BY NowOK
    <2>3. c.base = e + 1
      BY <1>8, <1>10
    <2> QED BY <1>2, <1>10, <2>1, <2>2, <2>3 DEF Slots
  <1>12. Written(st, e, v, st2)
    BY <1>1, <1>2, <1>3, <1>10 DEF Written
  <1>13. st2[e] = v /\ Kept(st, st2, e)
    BY <1>10, <1>11, <1>12, WriteKeeps
  <1>14. Kept(st, st2, c.base - 1) /\ Returned(fr, n, g)
    BY <1>1, <1>2, <1>3, <1>10, <1>13 DEF Returned
  <1>15. PICK o, y : o = Own(fs, st, fr, s) /\ y = Own(fs, st2, g, z)
    OBVIOUS
  <1>16. PICK h : h = [d EXCEPT !.ip = @ + 1]
    OBVIOUS
  <1>17. /\ Len(o) = n /\ Last(Front(o)) = Activation(fs, st, d, c.base - 1)
         /\ y = Append(Front(Front(o)), Activation(fs, st2, h, z))
    <2>1. Stepped(d, h) /\ Owned(o, fs, st, fr, s) /\ TopTwo(fr, n, c, d)
      BY <1>4, <1>6, <1>15, <1>16 DEF Stepped, Owned, TopTwo
    <2>2. Returning(fs, fr, s, n, c, d, g, st, st2, o, h)
      BY <1>5, <1>14, <2>1 DEF Returning
    <2>3. Resumed(fs, st, st2, n, c, d, g, z, o, h)
      BY <2>2, ReturnApart
    <2> QED BY <1>15, <2>3 DEF Resumed
  <1>18. OwnCalls = o /\ OwnCalls' = y
    BY <1>1, <1>2, <1>3, <1>15 DEF OwnCalls, Own
  <1>19. Apart!Waiting = Activation(fs, st, d, c.base - 1)
    BY <1>17, <1>18 DEF Apart!Waiting, Apart!Last, Last, Apart!Front, Front
  <1>20. Activation(fs, st, d, c.base - 1) =
             [fn |-> d.fn, ip |-> d.ip, locals |-> Locals(st, b, l), operands |-> Slice(st, a, m)]
    <2>1. Floor(fs, d) = a /\ (c.base - 1) - a = m
      BY <1>9, <1>10 DEF Floor
    <2> QED BY <1>9, <2>1, Shaped
  <1>21. Activation(fs, st2, h, z) =
             [fn |-> d.fn, ip |-> d.ip + 1, locals |-> Locals(st2, b, l), operands |-> Slice(st2, a, m + 1)]
    <2>1. d \in Calls
      BY <1>4, <1>5, <1>6, <1>7, StackedOK
    <2>2. h.fn = d.fn /\ h.ip = d.ip + 1 /\ h.base = b
      BY <1>9, <1>16, <2>1 DEF Calls
    <2>3. z = e + 1
      BY <1>1, <1>2, <1>3, <1>11
    <2>4. Floor(fs, h) = a /\ z - a = m + 1 /\ fs[h.fn].locals = l
      BY <1>9, <1>10, <2>2, <2>3 DEF Floor
    <2> QED BY <2>2, <2>4, Shaped
  <1>22. Locals(st2, b, l) = Locals(st, b, l)
    <2>1. a <= e
      BY <1>10
    <2>2. Kept(st, st2, a)
      BY <1>10, <1>13, <2>1, KeptBelow
    <2> QED BY <1>9, <1>10, <2>2, LocalsKept
  <1>23. Slice(st2, a, m + 1) = Append(Slice(st, a, m), v)
    <2>1. Pushed(st, st2, a, m, v) /\ a \in Nat /\ m \in Nat
      BY <1>10, <1>13 DEF Pushed
    <2> QED BY <2>1, SlicePushed DEF Longer
  <1>24. PICK w : w = Apart!Waiting
    OBVIOUS
  <1>25. w.fn = d.fn /\ w.ip = d.ip /\ w.locals = Locals(st, b, l) /\ w.operands = Slice(st, a, m)
    BY <1>19, <1>20, <1>24
  <1>26. Activation(fs, st2, h, z) =
             [fn |-> w.fn, ip |-> w.ip + 1, locals |-> w.locals, operands |-> Append(w.operands, v)]
    BY <1>21, <1>22, <1>23, <1>25
  <1>27. Len(OwnCalls) > 1 /\ Apart!Front(Apart!Front(OwnCalls)) = Front(Front(o))
    BY <1>6, <1>17, <1>18 DEF Apart!Front, Front
  <1>28. OwnCalls' = Append(Apart!Front(Apart!Front(OwnCalls)),
                           [fn |-> Apart!Waiting.fn, ip |-> Apart!Waiting.ip + 1,
                            locals |-> Apart!Waiting.locals, operands |-> Append(Apart!Waiting.operands, v)])
    BY <1>17, <1>18, <1>24, <1>26, <1>27
  <1> QED BY <1>1, <1>27, <1>28 DEF Apart!Resumes

\* With the value that is on top, or null.
LEMMA ReturnsApart ==
    ASSUME Placed, Keeps(stack, globals), ReturnValue \/ ReturnNull
    PROVE  Apart!Return
  <1>1. PICK b \in Nat, l \in Nat, m \in Nat : Topmost(b, l, m)
    BY TopmostOK
  <1>2. CASE ReturnNull
    <2>1. Executes({"RETURN"}) /\ ReturnWith(Null)
      BY <1>2 DEF ReturnNull
    <2>2. Apart!Runs({"RETURN"}) /\ Apart!Resumes(Null)
      BY <1>1, <2>1, RunsOK, ResumesOK
    <2> QED BY <2>2, SameValues DEF Apart!Return
  <1>3. CASE ReturnValue
    <2>1. PICK v : v = stack[sp - 1]
      OBVIOUS
    <2>2. Executes({"RETURN_VALUE"}) /\ ReturnWith(v)
      BY <1>3, <2>1 DEF ReturnValue
    <2>3. Apart!Runs({"RETURN_VALUE"}) /\ Apart!Resumes(v)
      BY <1>1, <2>2, RunsOK, ResumesOK
    <2>4. 1 <= m
      <3>1. /\ Opcode = Now.op /\ Opcode = "RETURN_VALUE" /\ Operand = Now.arg /\ Opcode \in Opcodes
            /\ Operand \in Nat
        BY <2>2, NowOK DEF Executes
      <3>2. Pops(Now) = 1
        BY <3>1, PopsOK DEF Popping
      <3> QED BY <1>1, <3>2 DEF Topmost
    <2>5. Apart!Has(1) /\ Last(Apart!Active.operands) = stack[sp - 1]
      BY <1>1, <2>4, OperandsOK
    <2>6. Apart!Last(Apart!Active.operands) = v
      BY <2>1, <2>5 DEF Apart!Last, Last
    <2> QED BY <2>3, <2>5, <2>6 DEF Apart!Return
  <1> QED BY <1>2, <1>3

----------------------------------------------------------------------------
(***************************************************************************)
(* The refinement                                                          *)
(***************************************************************************)

\* Every instruction of the machine is one of Activations.
LEMMA StepApart ==
    ASSUME Placed, Keeps(stack, globals), Step
    PROVE  Apart!Next
  <1>1. CASE \/ LoadConst \/ LoadLiteral \/ GetBuiltin \/ GetGlobal \/ GetLocal \/ Operate \/ BuildArray
    BY <1>1, ComputesApart DEF Apart!Next
  <1>2. CASE Pop \/ SetGlobal \/ Jump \/ JumpNotTrue
    BY <1>2, TakesApart DEF Apart!Next
  <1>3. CASE SetLocal
    BY <1>3, StoresApart DEF Apart!Next
  <1>4. CASE CallPrint
    BY <1>4, PrintsApart DEF Apart!Next
  <1>5. CASE CallFunction
    BY <1>5, CallsApartly DEF Apart!Next
  <1>6. CASE ReturnValue \/ ReturnNull
    BY <1>6, ReturnsApart DEF Apart!Next
  <1>7. CASE Halt
    BY <1>7, HaltsApart DEF Apart!Next
  <1> QED BY <1>1, <1>2, <1>3, <1>4, <1>5, <1>6, <1>7 DEF Step

\* A new machine has one call with nothing.
LEMMA LaunchApart ==
    ASSUME Launch
    PROVE  Apart!Init
  <1>1. /\ Verified(functions) /\ IsLoadable(functions) /\ sp = 0 /\ out = << >>
        /\ frames = <<[fn |-> 1, ip |-> 0, base |-> 0]>>
    BY DEF Launch, NewMachine, Verified
  <1>2. functions[1].locals = 0
    BY <1>1 DEF IsLoadable
  <1>3. PICK c : c = [fn |-> 1, ip |-> 0, base |-> 0]
    OBVIOUS
  <1>4. c \in Calls /\ c.fn = 1 /\ c.ip = 0 /\ c.base = 0 /\ frames = <<c>>
    BY <1>1, <1>3 DEF Calls
  <1>5. frames \in Seq(Calls) /\ Len(frames) = 1 /\ frames[1] = c
    BY <1>4
  <1>6. PICK o : o = OwnCalls
    OBVIOUS
  <1>7. Len(o) = 1 /\ o[1] = Activation(functions, stack, c, 0)
    <2>1. o = Own(functions, stack, frames, sp)
      BY <1>6 DEF OwnCalls, Own
    <2>2. /\ Len(o) = Len(frames)
          /\ \A i \in 1 .. Len(frames) : o[i] = Activation(functions, stack, frames[i], Ceiling(frames, sp, i))
      BY <1>5, <2>1, OwnOK
    <2> QED BY <1>1, <1>5, <2>2 DEF Ceiling
  <1>8. PICK w : w = o[1]
    OBVIOUS
  <1>9. w = [fn |-> 1, ip |-> 0, locals |-> Locals(stack, 0, 0), operands |-> << >>]
    <2>1. Floor(functions, c) = 0 /\ functions[c.fn].locals = 0
      BY <1>2, <1>4 DEF Floor
    <2>2. Slice(stack, 0, 0) = << >>
      BY DEF Slice
    <2> QED BY <1>4, <1>7, <1>8, <2>1, <2>2, Shaped
  <1>10. Apart!Entered(w, 1, << >>)
    <2>1. w.fn = 1 /\ w.ip = 0 /\ w.operands = << >> /\ w.locals = Locals(stack, 0, 0)
      BY <1>9
    <2>2. DOMAIN w.locals = 0 .. functions[1].locals - 1
      BY <1>2, <2>1 DEF Locals
    <2>3. \A k \in DOMAIN w.locals : FALSE
      BY <1>2, <2>2
    <2> QED BY <2>1, <2>2, <2>3 DEF Apart!Entered
  <1> QED BY <1>1, <1>6, <1>7, <1>8, <1>10 DEF Apart!Init

\* Every active call has its variables and operands to itself (vm_run(), vm_do_call(),
\* OP_RETURN): the machine of verified code, on one stack of any size for all calls, does what
\* a machine that gives each call its own would do.
THEOREM CallsKeptApart == Execution => CallsApart
  <1>1. Launch => Apart!Init
    BY LaunchApart
  <1>2. IInv /\ [Run]_executionVars => [Apart!Next]_(Apart!vars)
    <2>1. CASE Run
      BY <2>1, StepApart DEF IInv, Run
    <2>2. CASE UNCHANGED executionVars
      BY <2>2 DEF executionVars, machineVars, Apart!vars, OwnCalls
    <2> QED BY <2>1, <2>2
  <1> QED BY <1>1, <1>2, Inductive, PTL DEF Execution, CallsApart, Apart!Spec
=============================================================================
