---------------------------- MODULE VmHeapProofs ----------------------------
(***************************************************************************)
(* Proofs about the memory of the virtual machine, for every program and   *)
(* all values of the constants: the types of its registers and memory, the *)
(* ownership of registered objects, the absence of cyclic arrays, and of   *)
(* the collector what the marks say and when the heap list grows.          *)
(***************************************************************************)
EXTENDS VmHeap, SequenceTheorems, TLAPS

----------------------------------------------------------------------------
(***************************************************************************)
(* Objects, trees and copies                                               *)
(***************************************************************************)

\* An object points to an address or has no pointer at all.
LEMMA ObjectAt == ASSUME NEW v \in Object
                  PROVE  /\ v.at \in Addr \cup {None}
                         /\ IsPtr(v) <=> v.at \in Addr
                         /\ IsPtr(v) <=> v \in Pointers
                         /\ IsPtr(v) => v.type \in {"error", "string", "array", "function"}
  BY AddrAssumption DEF Object, Pointers, Null, Prim, Wild, IsPtr

\* The object of a type at an address.
LEMMA ObjOK == ASSUME NEW k \in {"error", "string", "array", "function"}, NEW a \in Addr
               PROVE  /\ Obj(k, a) \in Pointers /\ Obj(k, a) \in Object
                      /\ Obj(k, a).at = a /\ IsPtr(Obj(k, a))
  BY AddrAssumption DEF Object, Pointers, Obj, IsPtr

\* The objects without a pointer.
LEMMA PlainOK == /\ Null \in Object /\ Prim \in Object /\ Wild \in Object
                 /\ ~IsPtr(Null) /\ ~IsPtr(Prim) /\ ~IsPtr(Wild)
                 /\ Null \notin Pointers
  BY AddrAssumption DEF Object, Pointers, Null, Prim, Wild, IsPtr

\* Ats collects the addresses of a family of objects.
LEMMA AtsOK == ASSUME NEW D, NEW vs \in [D -> Object]
               PROVE  /\ Ats(vs) \subseteq Addr
                      /\ \A i \in D : IsPtr(vs[i]) => vs[i].at \in Ats(vs)
                      /\ \A a \in Ats(vs) : \E i \in D : vs[i].at = a /\ IsPtr(vs[i])
  BY ObjectAt DEF Ats, IsPtr

LEMMA AtsSeq == ASSUME NEW vs \in Seq(Object)
                PROVE  /\ Ats(vs) \subseteq Addr
                       /\ \A i \in DOMAIN vs : IsPtr(vs[i]) => vs[i].at \in Ats(vs)
                       /\ \A a \in Ats(vs) : \E i \in DOMAIN vs : vs[i].at = a /\ IsPtr(vs[i])
  <1>1. vs \in [1 .. Len(vs) -> Object]
    OBVIOUS
  <1> QED BY <1>1, AtsOK

\* Elements are addresses, and hold the elements of every array.
LEMMA ElementsOK == ASSUME elems \in [Addr -> Seq(Object)]
                    PROVE  /\ Elements \subseteq Addr
                           /\ \A a \in Addr : Ats(elems[a]) \subseteq Elements
  <1>1. \A a \in Addr : Ats(elems[a]) \subseteq Addr
    BY AtsSeq
  <1> QED BY <1>1 DEF Elements

\* Below(a) contains the elements of a and is closed; it is the least such set.
LEMMA BelowOK == ASSUME elems \in [Addr -> Seq(Object)], NEW a \in Addr
                 PROVE  /\ Below(a) \subseteq Elements
                        /\ Ats(elems[a]) \subseteq Below(a)
                        /\ Closed(Below(a))
                        /\ \A S \in SUBSET Elements :
                              Ats(elems[a]) \subseteq S /\ Closed(S) => Below(a) \subseteq S
  <1>1. Below(a) \subseteq Elements /\ Below(a) \subseteq Addr
    BY ElementsOK DEF Below
  <1>2. Ats(elems[a]) \subseteq Below(a)
    BY ElementsOK DEF Below
  <1>3. ASSUME NEW x \in Below(a) PROVE Ats(elems[x]) \subseteq Below(a)
    <2>1. Ats(elems[x]) \subseteq Elements
      BY <1>1, ElementsOK
    <2>2. ASSUME NEW S \in SUBSET Elements, Ats(elems[a]) \subseteq S, Closed(S)
          PROVE  Ats(elems[x]) \subseteq S
      BY <2>2 DEF Closed, Below
    <2> QED BY <2>1, <2>2 DEF Below
  <1>4. \A S \in SUBSET Elements : Ats(elems[a]) \subseteq S /\ Closed(S) => Below(a) \subseteq S
    BY DEF Below
  <1> QED BY <1>1, <1>2, <1>3, <1>4 DEF Closed

\* A tree consists of its root and of elements, and contains the elements of its members.
LEMMA TreeOK == ASSUME elems \in [Addr -> Seq(Object)], NEW v \in Object
                PROVE  /\ Tree(v) \subseteq Addr
                       /\ IsPtr(v) => v.at \in Tree(v)
                       /\ ~IsPtr(v) => Tree(v) = {}
                       /\ \A x \in Tree(v) : x = v.at \/ x \in Below(v.at)
                       /\ \A x \in Tree(v) : x = v.at \/ x \in Elements
                       /\ \A x \in Tree(v) : Ats(elems[x]) \subseteq Tree(v)
                       /\ \A x \in Tree(v) : Ats(elems[x]) \subseteq Below(v.at)
  <1>1. CASE ~IsPtr(v)
    BY <1>1 DEF Tree
  <1>2. CASE IsPtr(v)
    BY <1>2, ObjectAt, ElementsOK, BelowOK DEF Tree, Closed
  <1> QED BY <1>1, <1>2

\* The inductive form of NoCycles: the elements among any set of addresses include one
\* none of whose own elements is in the set.
Acyclic == \A S \in SUBSET Elements :
    S # {} => \E x \in S : Ats(elems[x]) \cap S = {}

\* Acyclic implies NoCycles: the elements that reach r would have no such member.
LEMMA NoSelf == ASSUME elems \in [Addr -> Seq(Object)], Acyclic, NEW r \in Addr
                PROVE  r \notin Below(r)
  <1> SUFFICES ASSUME r \in Below(r) PROVE FALSE
    OBVIOUS
  <1> DEFINE S == {z \in Elements : r \in Below(z)}
             G == Elements \ S
  <1>1. Elements \subseteq Addr
    BY ElementsOK
  <1>2. r \in S
    BY BelowOK
  <1>3. PICK z \in S : Ats(elems[z]) \cap S = {}
    BY <1>2 DEF Acyclic
  <1>4. Ats(elems[z]) \subseteq G
    BY <1>1, <1>3, ElementsOK
  <1>5. ASSUME NEW y \in G PROVE Ats(elems[y]) \subseteq G
    <2> SUFFICES ASSUME NEW w \in Ats(elems[y]) PROVE w \in G
      OBVIOUS
    <2>1. y \in Addr /\ r \notin Below(y)
      BY <1>1
    <2>2. w \in Below(y) /\ w \in Elements /\ w \in Addr
      BY <2>1, <1>1, BelowOK
    <2>3. Below(w) \subseteq Below(y)
      BY <2>1, <2>2, BelowOK DEF Closed
    <2> QED BY <2>1, <2>2, <2>3
  <1>6. Closed(G)
    BY <1>5 DEF Closed
  <1>7. Below(z) \subseteq G
    <2>1. z \in Addr /\ G \in SUBSET Elements
      BY <1>1
    <2> HIDE DEF G
    <2> QED BY <2>1, <1>4, <1>6, BelowOK
  <1>8. r \in Below(z)
    OBVIOUS
  <1> QED BY <1>2, <1>7, <1>8

\* The addresses malloc() returns are free, and nothing in the machine points to them.
LEMMA FreshOK == ASSUME TypeOK, NEW a \in Fresh
                 PROVE  /\ a \in HeapAddr /\ a \in Addr /\ a \notin live
                        /\ a \notin Elements /\ a \notin Ats(heap) /\ a # pending.obj.at
  BY DEF Fresh, Held, Addr

\* What copy_object() makes of the objects of vs: objects whose roots are fresh, and
\* arrays whose elements are old elements or other copies, and never their own roots.
LEMMA CopiesOK ==
    ASSUME TypeOK, NEW vs \in Seq(Object), NEW m \in Copies(vs)
    PROVE  /\ Range(m) \subseteq Fresh
           /\ \A i \in DOMAIN vs : /\ Copy(m, i, vs[i]) \in Object
                                   /\ IsPtr(Copy(m, i, vs[i])) <=> IsPtr(vs[i])
                                   /\ IsPtr(vs[i]) => Copy(m, i, vs[i]).at \in Range(m)
           /\ ElemsWith(m) \in [Addr -> Seq(Object)]
           /\ \A a \in Addr \ Range(m) : ElemsWith(m)[a] = elems[a]
           /\ \A a \in Range(m) : Ats(ElemsWith(m)[a]) \subseteq Range(m)
  <1> DEFINE D == {p \in (DOMAIN vs) \X Addr : p[2] \in Tree(vs[p[1]])}
  <1>1. m \in [D -> Fresh] /\ Range(m) = {m[p] : p \in D}
    BY DEF Copies, Injection, Range
  <1>2. Fresh \subseteq Addr
    BY FreshOK
  <1>3. \A i \in DOMAIN vs : vs[i] \in Object
    OBVIOUS
  <1>4. elems \in [Addr -> Seq(Object)]
    BY DEF TypeOK
  <1>5. ASSUME NEW i \in DOMAIN vs, NEW x \in Tree(vs[i])
        PROVE  <<i, x>> \in D /\ m[<<i, x>>] \in Range(m) /\ m[<<i, x>>] \in Addr
    <2>1. x \in Addr
      BY <1>3, <1>4, TreeOK
    <2>2. <<i, x>> \in D
      BY <2>1
    <2> QED BY <2>2, <1>1, <1>2
  <1>6. ASSUME NEW i \in DOMAIN vs, NEW v \in Object, IsPtr(v) => v.at \in Tree(vs[i])
        PROVE  /\ Copy(m, i, v) \in Object
               /\ IsPtr(Copy(m, i, v)) <=> IsPtr(v)
               /\ IsPtr(v) => Copy(m, i, v).at = m[<<i, v.at>>]
    <2>1. CASE ~IsPtr(v)
      BY <2>1 DEF Copy
    <2>2. CASE IsPtr(v)
      <3>1. Copy(m, i, v) = Obj(v.type, m[<<i, v.at>>])
        BY <2>2 DEF Copy
      <3>2. m[<<i, v.at>>] \in Addr
        BY <2>2, <1>5, <1>6
      <3>3. v.type \in {"error", "string", "array", "function"}
        BY <2>2, ObjectAt
      <3> QED BY <2>2, <3>1, <3>2, <3>3, ObjOK
    <2> QED BY <2>1, <2>2
  <1>7. ASSUME NEW i \in DOMAIN vs
        PROVE  /\ Copy(m, i, vs[i]) \in Object
               /\ IsPtr(Copy(m, i, vs[i])) <=> IsPtr(vs[i])
               /\ IsPtr(vs[i]) => Copy(m, i, vs[i]).at \in Range(m)
    <2>1. IsPtr(vs[i]) => vs[i].at \in Tree(vs[i])
      BY <1>3, <1>4, TreeOK
    <2> QED BY <2>1, <1>3, <1>5, <1>6
  <1>8. ASSUME NEW a \in Range(m)
        PROVE  ElemsWith(m)[a] \in Seq(Object) /\ Ats(ElemsWith(m)[a]) \subseteq Range(m)
    <2> DEFINE p == CopiedBy(m, a)
    <2>1. p \in D /\ m[p] = a
      BY <1>1 DEF CopiedBy
    <2>2. p[1] \in DOMAIN vs /\ p[2] \in Tree(vs[p[1]]) /\ p[2] \in Addr
      BY <2>1
    <2> DEFINE es == elems[p[2]]
    <2>3. es \in Seq(Object)
      BY <2>2, <1>4
    <2>4. a \in Addr /\ ElemsWith(m)[a] = [j \in DOMAIN es |-> Copy(m, p[1], es[j])]
      BY <1>1, <1>2 DEF ElemsWith
    <2> HIDE DEF p, D
    <2>5. ASSUME NEW j \in DOMAIN es
          PROVE  /\ Copy(m, p[1], es[j]) \in Object
                 /\ IsPtr(Copy(m, p[1], es[j])) => Copy(m, p[1], es[j]).at \in Range(m)
      <3>1. es[j] \in Object
        BY <2>3
      <3>2. IsPtr(es[j]) => es[j].at \in Tree(vs[p[1]])
        <4>1. Ats(es) \subseteq Tree(vs[p[1]])
          BY <2>2, <1>3, <1>4, TreeOK
        <4> QED BY <4>1, <2>3, AtsSeq
      <3>3. /\ Copy(m, p[1], es[j]) \in Object
            /\ IsPtr(Copy(m, p[1], es[j])) <=> IsPtr(es[j])
            /\ IsPtr(es[j]) => Copy(m, p[1], es[j]).at = m[<<p[1], es[j].at>>]
        BY <3>1, <3>2, <2>2, <1>6
      <3> QED BY <3>2, <3>3, <2>2, <1>5
    <2>6. ElemsWith(m)[a] \in Seq(Object)
      <3>1. DOMAIN es = 1 .. Len(es) /\ Len(es) \in Nat
        BY <2>3
      <3>2. ElemsWith(m)[a] \in [1 .. Len(es) -> Object]
        BY <3>1, <2>4, <2>5
      <3> QED BY <3>1, <3>2, SeqDef
    <2>7. ASSUME NEW b \in Ats(ElemsWith(m)[a]) PROVE b \in Range(m)
      <3>1. PICK j \in DOMAIN es : Copy(m, p[1], es[j]).at = b /\ IsPtr(Copy(m, p[1], es[j]))
        BY <2>4, <2>6, <2>7, AtsSeq
      <3> QED BY <3>1, <2>5
    <2> QED BY <2>6, <2>7
  <1>9. \A a \in Addr \ Range(m) : ElemsWith(m)[a] = elems[a]
    BY DEF ElemsWith
  <1>10. ElemsWith(m) \in [Addr -> Seq(Object)]
    <2>1. \A a \in Addr : ElemsWith(m)[a] \in Seq(Object)
      BY <1>4, <1>8, <1>9
    <2>2. ElemsWith(m) = [a \in Addr |-> ElemsWith(m)[a]]
      BY DEF ElemsWith
    <2> QED BY <2>1, <2>2
  <1> HIDE DEF D
  <1> QED BY <1>1, <1>7, <1>8, <1>9, <1>10

\* What a copy of an array points to: the copies, made for the same object, of what the
\* array pointed to.
LEMMA CopyElems ==
    ASSUME TypeOK, NEW vs \in Seq(Object), NEW m \in Copies(vs),
           NEW i \in DOMAIN vs, NEW x \in Tree(vs[i])
    PROVE  /\ m[<<i, x>>] \in Range(m)
           /\ \A c \in Ats(ElemsWith(m)[m[<<i, x>>]]) :
                 \E y \in Ats(elems[x]) : c = m[<<i, y>>]
  <1> DEFINE D == {p \in (DOMAIN vs) \X Addr : p[2] \in Tree(vs[p[1]])}
             b == m[<<i, x>>]
             es == elems[x]
  <1>1. m \in [D -> Fresh] /\ Range(m) = {m[p] : p \in D}
    BY DEF Copies, Injection, Range
  <1>2. \A p, q \in D : m[p] = m[q] => p = q
    BY <1>1 DEF Copies, Injection, IsInjective
  <1>3. elems \in [Addr -> Seq(Object)] /\ vs[i] \in Object
    BY DEF TypeOK
  <1>4. x \in Addr
    BY <1>3, TreeOK
  <1>5. <<i, x>> \in D
    BY <1>4
  <1>6. b \in Range(m) /\ b \in Addr
    BY <1>5, <1>1, FreshOK
  <1>7. CopiedBy(m, b) = <<i, x>>
    BY <1>1, <1>2, <1>5 DEF CopiedBy
  <1> HIDE DEF D
  <1>8. ElemsWith(m)[b] = [j \in DOMAIN es |-> Copy(m, i, es[j])]
    <2> DEFINE p == CopiedBy(m, b)
    <2>1. ElemsWith(m)[b] = [j \in DOMAIN elems[p[2]] |-> Copy(m, p[1], elems[p[2]][j])]
      BY <1>6 DEF ElemsWith
    <2>2. p[1] = i /\ p[2] = x
      BY <1>7
    <2> HIDE DEF p
    <2> QED BY <2>1, <2>2
  <1>9. es \in Seq(Object)
    BY <1>3, <1>4
  <1>10. ElemsWith(m)[b] \in Seq(Object)
    BY <1>6, CopiesOK
  <1>11. ASSUME NEW c \in Ats(ElemsWith(m)[b])
         PROVE  \E y \in Ats(es) : c = m[<<i, y>>]
    <2>1. PICK j \in DOMAIN es : Copy(m, i, es[j]).at = c /\ IsPtr(Copy(m, i, es[j]))
      BY <1>8, <1>10, AtsSeq
    <2>2. es[j] \in Object
      BY <1>9
    <2>3. IsPtr(es[j])
      BY <2>1 DEF Copy
    <2>4. Copy(m, i, es[j]) = Obj(es[j].type, m[<<i, es[j].at>>])
      BY <2>3 DEF Copy
    <2>5. c = m[<<i, es[j].at>>]
      BY <2>1, <2>4 DEF Obj
    <2>6. es[j].at \in Ats(es)
      BY <2>3, <1>9, AtsSeq
    <2> QED BY <2>5, <2>6
  <1> QED BY <1>6, <1>11

\* Copies are as acyclic as what they are copies of.
LEMMA CopiesAcyclic ==
    ASSUME TypeOK, Acyclic, NEW vs \in Seq(Object), NEW m \in Copies(vs),
           NEW S \in SUBSET Range(m), S # {}
    PROVE  \E b \in S : Ats(ElemsWith(m)[b]) \cap S = {}
  <1> DEFINE D == {p \in (DOMAIN vs) \X Addr : p[2] \in Tree(vs[p[1]])}
  <1>1. DOMAIN m = D /\ Range(m) = {m[p] : p \in D}
    BY DEF Copies, Injection, Range
  <1>2. elems \in [Addr -> Seq(Object)]
    BY DEF TypeOK
  <1>3. PICK i \in DOMAIN vs : \E a \in Tree(vs[i]) : m[<<i, a>>] \in S
    <2>1. PICK s \in S : TRUE
      OBVIOUS
    <2>2. PICK p \in D : m[p] = s
      BY <1>1, <2>1
    <2>3. p = <<p[1], p[2]>> /\ p[1] \in DOMAIN vs /\ p[2] \in Tree(vs[p[1]])
      OBVIOUS
    <2> QED BY <2>2, <2>3
  <1> DEFINE P == {x \in Tree(vs[i]) : m[<<i, x>>] \in S}
  <1>4. vs[i] \in Object
    OBVIOUS
  <1>5. PICK x \in P : Ats(elems[x]) \cap P = {}
    <2>1. \A x \in P : Ats(elems[x]) \subseteq Elements
      BY <1>2, <1>4, TreeOK, ElementsOK
    <2>2. CASE P \cap Elements = {}
      BY <2>1, <2>2, <1>3
    <2>3. CASE P \cap Elements # {}
      <3>1. PICK x \in P \cap Elements : Ats(elems[x]) \cap (P \cap Elements) = {}
        BY <2>3 DEF Acyclic
      <3> QED BY <3>1, <2>1
    <2> QED BY <2>2, <2>3
  <1>6. \A c \in Ats(ElemsWith(m)[m[<<i, x>>]]) :
           \E y \in Ats(elems[x]) : c = m[<<i, y>>]
    BY CopyElems
  <1>7. Ats(elems[x]) \subseteq Tree(vs[i])
    BY <1>2, <1>4, TreeOK
  <1>8. \A y \in Ats(elems[x]) : m[<<i, y>>] \notin S
    BY <1>5, <1>7
  <1>9. m[<<i, x>>] \in S
    OBVIOUS
  <1> HIDE DEF P, D
  <1>10. Ats(ElemsWith(m)[m[<<i, x>>]]) \cap S = {}
    BY <1>6, <1>8
  <1> QED BY <1>9, <1>10

\* The copy of the object itself is no element of any array.
LEMMA CopyRoot ==
    ASSUME TypeOK, Acyclic, NEW vs \in Seq(Object), NEW m \in Copies(vs),
           NEW i \in DOMAIN vs, IsPtr(vs[i]), \A j \in DOMAIN vs : j = i
    PROVE  \A a \in Addr : Copy(m, i, vs[i]).at \notin Ats(ElemsWith(m)[a])
  <1> DEFINE D == {p \in (DOMAIN vs) \X Addr : p[2] \in Tree(vs[p[1]])}
             v == vs[i]
             r == m[<<i, v.at>>]
  <1>1. m \in [D -> Fresh] /\ Range(m) = {m[p] : p \in D}
    BY DEF Copies, Injection, Range
  <1>2. \A p, q \in D : m[p] = m[q] => p = q
    BY <1>1 DEF Copies, Injection, IsInjective
  <1>3. elems \in [Addr -> Seq(Object)] /\ v \in Object
    BY DEF TypeOK
  <1>4. v.at \in Addr /\ v.at \in Tree(v)
    BY <1>3, TreeOK
  <1>5. Copy(m, i, v).at = r
    BY DEF Copy, Obj
  <1>6. <<i, v.at>> \in D
    BY <1>4
  <1>7. r \in Fresh
    BY <1>1, <1>6
  <1>8. v.at \notin Below(v.at)
    BY <1>3, <1>4, NoSelf
  <1>9. ASSUME NEW a \in Addr \ Range(m) PROVE r \notin Ats(ElemsWith(m)[a])
    BY <1>3, <1>7, CopiesOK, FreshOK, ElementsOK
  <1>10. ASSUME NEW a \in Range(m) PROVE r \notin Ats(ElemsWith(m)[a])
    <2>1. PICK p \in D : m[p] = a
      BY <1>1
    <2> DEFINE x == p[2]
    <2>2. p[1] = i /\ p = <<i, x>> /\ x \in Tree(v)
      OBVIOUS
    <2>3. \A c \in Ats(ElemsWith(m)[a]) : \E y \in Ats(elems[x]) : c = m[<<i, y>>]
      <3>1. a = m[<<i, x>>]
        BY <2>1, <2>2
      <3>2. x \in Tree(vs[i])
        BY <2>2
      <3> HIDE DEF x, D
      <3>3. \A c \in Ats(ElemsWith(m)[m[<<i, x>>]]) : \E y \in Ats(elems[x]) : c = m[<<i, y>>]
        BY <3>2, CopyElems
      <3> QED BY <3>1, <3>3
    <2>4. Ats(elems[x]) \subseteq Tree(v) /\ Ats(elems[x]) \subseteq Below(v.at)
      BY <2>2, <1>3, TreeOK
    <2>5. ASSUME NEW y \in Ats(elems[x]) PROVE m[<<i, y>>] # r
      <3>1. y # v.at /\ y \in Tree(v)
        BY <2>4, <1>8
      <3>2. y \in Addr
        BY <3>1, <1>3, TreeOK
      <3>3. <<i, y>> \in D /\ <<i, y>> # <<i, v.at>>
        BY <3>1, <3>2
      <3> HIDE DEF D
      <3> QED BY <3>3, <1>2, <1>6
    <2> QED BY <2>3, <2>5
  <1> QED BY <1>5, <1>9, <1>10

----------------------------------------------------------------------------
(***************************************************************************)
(* The inductive invariant: registers, memory and the register of objects  *)
(***************************************************************************)

Regs ==
    /\ stack \in [0 .. StackSize - 1 -> Object] /\ sp \in 0 .. StackSize
    /\ globals \in [0 .. GlobalsSize - 1 -> Object]
    /\ frames \in Seq([fn : Pointers \cup {Null}, base : Nat, floor : Nat])
    /\ FramesOK

Memory ==
    /\ live \subseteq Addr
    /\ elems \in [Addr -> Seq(Object)]
    /\ Elements \subseteq HeapAddr
    /\ Acyclic

Registry ==
    /\ marked \in [Addr -> BOOLEAN]
    /\ heap \in Seq(Pointers) /\ cap \in Nat \ {0}
    /\ pc \in {"run", "sweep", "freed", "fault", "overrun"}
    /\ at \in Nat
    /\ pending \in [obj : Pointers \cup {Null}, push : BOOLEAN]
    /\ CtlOK /\ HeapOwned

Inv == Regs /\ Memory /\ Registry

\* The invariant contains the type invariant.
LEMMA InvTypes == Inv => TypeOK
  BY DEF Inv, Regs, Memory, Registry, TypeOK

\* Copies C, acyclic themselves and pointing to copies only, may become elements of old
\* arrays, and old elements keep what they point to or lose some of it.
LEMMA AcyclicStep ==
    ASSUME Acyclic, NEW C,
           \A a \in Elements' \ C : /\ a \in Elements
                                    /\ Ats(elems'[a]) \subseteq Ats(elems[a]) \cup C,
           \A a \in C : Ats(elems'[a]) \subseteq C,
           \A S \in SUBSET C : S # {} => \E b \in S : Ats(elems'[b]) \cap S = {}
    PROVE  Acyclic'
  <1> SUFFICES ASSUME NEW S \in SUBSET Elements', S # {}
               PROVE  \E x \in S : Ats(elems'[x]) \cap S = {}
    BY DEF Acyclic, Ats
  <1>1. CASE S \cap C = {}
    <2>1. S \in SUBSET Elements
      BY <1>1
    <2>2. PICK x \in S : Ats(elems[x]) \cap S = {}
      BY <2>1 DEF Acyclic
    <2> QED BY <1>1, <2>2
  <1>2. CASE S \cap C # {}
    <2>1. PICK x \in S \cap C : Ats(elems'[x]) \cap (S \cap C) = {}
      BY <1>2
    <2> QED BY <2>1
  <1> QED BY <1>1, <1>2

LEMMA SameAcyclic ==
    ASSUME Acyclic, elems' = elems, Elements' = Elements
    PROVE  Acyclic'
  <1> SUFFICES ASSUME NEW S \in SUBSET Elements', S # {}
               PROVE  \E x \in S : Ats(elems'[x]) \cap S = {}
    BY DEF Acyclic, Ats
  <1> QED BY DEF Acyclic

\* Allocating fresh addresses and linking them in.
LEMMA Grows ==
    ASSUME Inv, NEW new \in SUBSET Fresh, NEW C,
           live' = live \cup new,
           elems' \in [Addr -> Seq(Object)],
           Elements' \subseteq Elements \cup new,
           \A a \in Elements' \ C : /\ a \in Elements
                                    /\ Ats(elems'[a]) \subseteq Ats(elems[a]) \cup C,
           \A a \in C : Ats(elems'[a]) \subseteq C,
           \A S \in SUBSET C : S # {} => \E b \in S : Ats(elems'[b]) \cap S = {}
    PROVE  Memory'
  <1>1. Acyclic'
    BY AcyclicStep DEF Inv, Memory
  <1>2. new \subseteq HeapAddr /\ new \subseteq Addr
    BY InvTypes, FreshOK
  <1> QED BY <1>1, <1>2 DEF Inv, Memory

\* A handler that registers nothing.
LEMMA Unregistered ==
    ASSUME Inv, pc = "run", Regs', Memory',
           NEW new \in SUBSET Fresh,
           live' = live \cup new, Elements' \subseteq Elements \cup new,
           marked' \in [Addr -> BOOLEAN],
           UNCHANGED <<list, ctl>>
    PROVE  Inv'
  <1>1. \A a \in new : a \notin Ats(heap)
    BY InvTypes, FreshOK
  <1>2. pending' = pending /\ heap' = heap /\ pc' = pc /\ at' = at /\ cap' = cap
    BY DEF list, ctl
  <1>3. pending = Idle /\ ~IsPtr(pending.obj)
    BY PlainOK DEF Inv, Registry, CtlOK, Idle
  <1>4. CtlOK'
    BY <1>2, <1>3 DEF CtlOK
  <1>5. HeapOwned'
    <2>1. Ats(heap)' = Ats(heap)
      BY <1>2 DEF Ats
    <2>2. ~IsPtr(pending'.obj)
      BY <1>2, <1>3
    <2>3. \A i, j \in DOMAIN heap' : i # j => heap'[i].at # heap'[j].at
      BY <1>2 DEF Inv, Registry, HeapOwned
    <2>4. Ats(heap)' \subseteq live' /\ Ats(heap)' \cap Elements' = {}
          /\ Ats(heap)' \cup Elements' \subseteq HeapAddr
      BY <2>1, <1>1 DEF Inv, Registry, HeapOwned, Memory
    <2> QED BY <2>2, <2>3, <2>4 DEF HeapOwned, IsPtr
  <1> QED BY <1>2, <1>4, <1>5 DEF Inv, Registry

\* A handler that leaves memory alone.
LEMMA Quiet ==
    ASSUME Inv, pc = "run", Regs', UNCHANGED <<store, marked, list, ctl>>
    PROVE  Inv'
  <1>1. live' = live /\ elems' = elems /\ marked' = marked
    BY DEF store
  <1>2. Elements' = Elements
    BY <1>1 DEF Elements, Ats
  <1>3. Memory'
    <2>1. Acyclic'
      BY <1>1, <1>2, SameAcyclic DEF Inv, Memory
    <2> QED BY <1>1, <1>2, <2>1 DEF Inv, Memory
  <1>4. marked' \in [Addr -> BOOLEAN]
    BY <1>1 DEF Inv, Registry
  <1>5. {} \in SUBSET Fresh /\ live' = live \cup {} /\ Elements' \subseteq Elements \cup {}
    BY <1>1, <1>2
  <1> QED BY <1>3, <1>4, <1>5, Unregistered

\* Undefined behaviour stops the machine as it is.
LEMMA FaultKeeps == ASSUME Inv, Fault \/ Overrun PROVE Inv'
  <1>1. /\ pc' \in {"fault", "overrun"}
        /\ UNCHANGED <<live, elems, marked, heap, cap, stack, sp, globals, frames, at, pending>>
    BY DEF Fault, Overrun, store, list, regs
  <1>2. Regs'
    BY <1>1 DEF Regs, FramesOK, Inv
  <1>3. Elements' = Elements /\ Ats(heap)' = Ats(heap)
    BY <1>1 DEF Elements, Ats
  <1>4. Acyclic'
    BY <1>1, <1>3, SameAcyclic DEF Inv, Memory
  <1>5. CtlOK'
    BY <1>1 DEF CtlOK
  <1>6. HeapOwned'
    BY <1>1, <1>3 DEF HeapOwned, IsPtr, Inv, Registry
  <1> QED BY <1>1, <1>2, <1>3, <1>4, <1>5, <1>6 DEF Inv, Memory, Registry

\* Appending an object to the heap list.
LEMMA Appended ==
    ASSUME NEW h \in Seq(Pointers), NEW v \in Pointers,
           \A i, j \in DOMAIN h : i # j => h[i].at # h[j].at, v.at \notin Ats(h)
    PROVE  /\ Append(h, v) \in Seq(Pointers)
           /\ Ats(Append(h, v)) = Ats(h) \cup {v.at}
           /\ \A i, j \in DOMAIN Append(h, v) : i # j => Append(h, v)[i].at # Append(h, v)[j].at
  <1>1. \A i \in DOMAIN h : h[i] \in Pointers
    OBVIOUS
  <1>2. \A p \in Pointers : p.at # None
    BY AddrAssumption DEF Pointers
  <1>3. \A i \in DOMAIN h : h[i].at \in Ats(h)
    BY <1>1, <1>2 DEF Ats
  <1>4. /\ Append(h, v) \in Seq(Pointers)
        /\ DOMAIN Append(h, v) = DOMAIN h \cup {Len(h) + 1}
        /\ \A i \in DOMAIN h : Append(h, v)[i] = h[i] /\ i # Len(h) + 1
        /\ Append(h, v)[Len(h) + 1] = v
    OBVIOUS
  <1>5. Ats(Append(h, v)) = Ats(h) \cup {v.at}
    BY <1>2, <1>4 DEF Ats
  <1>6. ASSUME NEW i \in DOMAIN Append(h, v), NEW j \in DOMAIN Append(h, v), i # j
        PROVE  Append(h, v)[i].at # Append(h, v)[j].at
    BY <1>3, <1>4, <1>6
  <1> QED BY <1>4, <1>5, <1>6

\* gc_add() of a new object, whether it collects, appends at once or faults.
LEMMA GcAddKeeps ==
    ASSUME Inv, pc = "run", Regs', Memory',
           NEW new \in SUBSET Fresh,
           live' = live \cup new, Elements' \subseteq Elements \cup new,
           NEW v \in Pointers, v.at \in new, v.at \notin Elements',
           NEW push \in BOOLEAN, Due /\ push => sp' < StackSize,
           GcAdd(new, v, push)
    PROVE  Inv'
  <1>1. pending = Idle /\ ~IsPtr(pending.obj)
    BY PlainOK DEF Inv, Registry, CtlOK, Idle
  <1>2. v \in Object /\ IsPtr(v) /\ v.at \in HeapAddr /\ v.at \notin Ats(heap) /\ v.at \in live'
    <2>1. v \in Object
      BY DEF Object
    <2> QED BY <2>1, ObjectAt, InvTypes, FreshOK
  <1>3. \A a \in new : a \notin Ats(heap)
    BY InvTypes, FreshOK
  <1>4. /\ Ats(heap) \subseteq live' /\ Ats(heap) \cap Elements' = {}
        /\ Ats(heap) \cup Elements' \subseteq HeapAddr
    BY <1>3 DEF Inv, Registry, HeapOwned, Memory
  <1>5. marked \in [Addr -> BOOLEAN] /\ Unmarked(new) \in [Addr -> BOOLEAN]
    BY DEF Inv, Registry, Unmarked
  <1>6. heap \in Seq(Pointers) /\ cap \in Nat \ {0} /\ at \in Nat /\ Len(heap) \in Nat
    BY DEF Inv, Registry
  <1>7. CASE ~Due /\ AppendHeap(v) /\ marked' = Unmarked(new) /\ UNCHANGED ctl
    <2>1. pc' = "run" /\ at' = at /\ pending' = pending
      BY <1>7 DEF ctl
    <2>2. heap' = Append(heap, v) /\ cap' \in Nat \ {0}
      BY <1>6, <1>7 DEF AppendHeap
    <2>3. \A i, j \in DOMAIN heap : i # j => heap[i].at # heap[j].at
      BY DEF Inv, Registry, HeapOwned
    <2>4. /\ heap' \in Seq(Pointers)
          /\ Ats(heap)' = Ats(heap) \cup {v.at}
          /\ \A i, j \in DOMAIN heap' : i # j => heap'[i].at # heap'[j].at
      <3>1. Ats(heap)' = Ats(Append(heap, v))
        BY <2>2 DEF Ats
      <3> QED BY <1>2, <1>6, <2>2, <2>3, <3>1, Appended
    <2>5. HeapOwned'
      BY <1>1, <1>2, <1>4, <2>1, <2>4 DEF HeapOwned, IsPtr
    <2>6. CtlOK'
      BY <1>1, <2>1 DEF CtlOK
    <2>7. pending' \in [obj : Pointers \cup {Null}, push : BOOLEAN]
      BY <2>1 DEF Inv, Registry
    <2> QED BY <1>5, <1>6, <1>7, <2>1, <2>2, <2>4, <2>5, <2>6, <2>7 DEF Inv, Registry
  <1>8. CASE /\ Due /\ marked' \in [Addr -> BOOLEAN]
             /\ pc' = "sweep" /\ at' = Len(heap)
             /\ pending' = [obj |-> v, push |-> push]
             /\ UNCHANGED list
    <2>1. heap' = heap /\ cap' = cap
      BY <1>8 DEF list
    <2>2. Ats(heap)' = Ats(heap)
      BY <2>1 DEF Ats
    <2>3. HeapOwned'
      BY <1>2, <1>4, <1>8, <2>1, <2>2 DEF HeapOwned, IsPtr, Inv, Registry
    <2>4. CtlOK'
      BY <1>2, <1>6, <1>8, <2>1 DEF CtlOK, IsPtr
    <2> QED BY <1>6, <1>8, <2>1, <2>3, <2>4 DEF Inv, Registry
  <1>9. CASE pc' = "fault" /\ UNCHANGED <<marked, list, at, pending>>
    <2>1. heap' = heap /\ cap' = cap /\ at' = at /\ pending' = pending /\ marked' = marked
      BY <1>9 DEF list
    <2>2. Ats(heap)' = Ats(heap)
      BY <2>1 DEF Ats
    <2>3. HeapOwned'
      BY <1>1, <1>4, <2>1, <2>2 DEF HeapOwned, IsPtr, Inv, Registry
    <2>4. CtlOK'
      BY <1>9 DEF CtlOK
    <2> QED BY <1>9, <2>1, <2>3, <2>4 DEF Inv, Registry
  <1>10. marked' = [a \in Addr |-> a \in {r.at : r \in Followed(Roots(stack', sp', globals'))}
                                      \/ Unmarked(new)[a]]
         => marked' \in [Addr -> BOOLEAN]
    BY <1>5
  <1>11. \/ ~Due /\ AppendHeap(v) /\ marked' = Unmarked(new) /\ UNCHANGED ctl
         \/ /\ Due
            /\ marked' = [a \in Addr |-> a \in {r.at : r \in Followed(Roots(stack', sp', globals'))}
                                            \/ Unmarked(new)[a]]
            /\ pc' = "sweep" /\ at' = Len(heap)
            /\ pending' = [obj |-> v, push |-> push] /\ UNCHANGED list
         \/ pc' = "fault" /\ UNCHANGED <<marked, list, at, pending>>
    BY DEF GcAdd
  <1> QED BY <1>7, <1>8, <1>9, <1>10, <1>11

----------------------------------------------------------------------------
(***************************************************************************)
(* Operands and results                                                    *)
(***************************************************************************)

\* The current frame.
LEMMA FrameOK == ASSUME Regs
                 PROVE  /\ Len(frames) \in Nat \ {0} /\ Frame.fn \in Object
                        /\ Frame.base \in Nat /\ Frame.floor \in Nat
                        /\ Frame.base <= Frame.floor /\ Frame.floor <= StackSize
                        /\ Len(frames) > 1 => Frame.base > 0
  <1>1. Len(frames) \in DOMAIN frames /\ Len(frames) \in Nat \ {0}
    BY DEF Regs, FramesOK
  <1> DEFINE R == [fn : Pointers \cup {Null}, base : Nat, floor : Nat]
  <1>2. Frame \in R
    <2>1. frames \in Seq(R)
      BY DEF Regs
    <2> HIDE DEF R
    <2> QED BY <1>1, <2>1 DEF Frame
  <1> QED BY <1>1, <1>2 DEF Regs, FramesOK, Frame, Object

\* The operands an instruction finds above the locals are objects on the stack.
LEMMA OperandsOK ==
    ASSUME Regs, NEW n \in Nat, Operands(n)
    PROVE  /\ pc = "run" /\ sp \in Nat /\ sp - n \in Nat /\ sp - n <= StackSize
           /\ Frame.floor <= sp - n
           /\ \A k \in 1 .. n : /\ sp - k \in 0 .. StackSize - 1
                                /\ Top(k) \in Object
           /\ Args(n) \in Seq(Object) /\ DOMAIN Args(n) = 1 .. n
           /\ \A k \in 1 .. n : Args(n)[k] = Top(n + 1 - k)
  <1>1. sp \in 0 .. StackSize /\ StackSize \in Nat
    BY SizeAssumption DEF Regs
  <1>2. pc = "run" /\ sp - n >= Frame.floor /\ Frame.floor \in Nat
    BY FrameOK DEF Operands, Running
  <1>3. \A k \in 1 .. n : sp - k \in 0 .. StackSize - 1
    BY <1>1, <1>2
  <1>4. \A k \in 1 .. n : Top(k) \in Object
    BY <1>3 DEF Top, Regs
  <1>5. Args(n) \in [1 .. n -> Object]
    <2>1. \A k \in 1 .. n : n + 1 - k \in 1 .. n
      OBVIOUS
    <2> QED BY <1>4, <2>1 DEF Args
  <1> HIDE DEF Regs
  <1>6. Args(n) \in Seq(Object) /\ DOMAIN Args(n) = 1 .. n
    BY <1>5, SeqDef
  <1>7. \A k \in 1 .. n : Args(n)[k] = Top(n + 1 - k)
    BY DEF Args
  <1> QED BY <1>1, <1>2, <1>3, <1>4, <1>6, <1>7

LEMMA CutOK == ASSUME NEW st \in [0 .. StackSize - 1 -> Object], NEW top
               PROVE  Cut(st, top) \in [0 .. StackSize - 1 -> Object]
  BY PlainOK DEF Cut

\* Popping n operands and pushing an object.
LEMMA ResultOK ==
    ASSUME Regs, NEW n \in Nat, sp - n \in 0 .. StackSize - 1, NEW v \in Object, Result(n, v)
    PROVE  /\ stack' \in [0 .. StackSize - 1 -> Object] /\ sp' \in 0 .. StackSize
  <1>1. sp \in 0 .. StackSize /\ StackSize \in Nat /\ sp - n \in 0 .. StackSize - 1
    BY SizeAssumption DEF Regs
  <1>2. [stack EXCEPT ![sp - n] = v] \in [0 .. StackSize - 1 -> Object]
    BY DEF Regs
  <1>3. stack' \in [0 .. StackSize - 1 -> Object]
    BY <1>2, CutOK DEF Result
  <1>4. sp' = sp - n + 1
    BY DEF Result
  <1> QED BY <1>1, <1>3, <1>4

LEMMA ResultRegs ==
    ASSUME Regs, NEW n \in Nat, sp - n \in 0 .. StackSize - 1, NEW v \in Object, Result(n, v),
           UNCHANGED <<globals, frames>>
    PROVE  Regs'
  BY ResultOK DEF Regs, FramesOK

LEMMA PoppedOK ==
    ASSUME Regs, Operands(1), Popped
    PROVE  /\ stack' \in [0 .. StackSize - 1 -> Object] /\ sp' \in 0 .. StackSize
  <1>1. sp \in 0 .. StackSize /\ StackSize \in Nat /\ sp - 1 \in Nat
    BY OperandsOK, SizeAssumption DEF Regs
  <1>2. stack' \in [0 .. StackSize - 1 -> Object]
    BY CutOK DEF Popped, Regs
  <1>3. sp' = sp - 1
    BY DEF Popped
  <1> QED BY <1>1, <1>2, <1>3

----------------------------------------------------------------------------
(***************************************************************************)
(* The instructions that register nothing                                  *)
(***************************************************************************)

\* Plain results.
LEMMA PlainKeeps ==
    ASSUME Inv, pc = "run", NEW n \in Nat, sp - n \in 0 .. StackSize - 1,
           NEW v \in Object, Plain(n, v)
    PROVE  Inv'
  <1>1. Regs /\ Result(n, v)
    BY DEF Inv, Plain
  <1>2. Regs'
    BY <1>1, ResultRegs DEF Plain
  <1> QED BY <1>2, Quiet DEF Plain

\* There is room to push: the slot above the stack.
LEMMA RoomOK == ASSUME Regs, Running, Room
                PROVE  pc = "run" /\ 0 \in Nat /\ sp - 0 \in 0 .. StackSize - 1
  BY SizeAssumption DEF Regs, Running, Room

LEMMA PushKeeps == ASSUME Inv, Push PROVE Inv'
  <1>1. Regs
    BY DEF Inv
  <1>2. \A v \in Object : Running /\ Room /\ Plain(0, v) => Inv'
    BY <1>1, RoomOK, PlainKeeps
  <1>3. CASE Const
    <2>1. Constants \subseteq Object
      BY ObjOK DEF Constants, Addr
    <2> QED BY <1>2, <1>3, <2>1 DEF Const
  <1>4. CASE Immediate
    BY <1>2, <1>4, PlainOK DEF Immediate
  <1>5. CASE GetGlobal
    <2>1. \A i \in DOMAIN globals : globals[i] \in Object
      BY <1>1 DEF Regs
    <2> QED BY <1>2, <1>5, <2>1 DEF GetGlobal
  <1>6. CASE GetLocal
    <2>1. \A i \in Frame.base .. Frame.floor - 1 : stack[i] \in Object
      BY <1>1, FrameOK, SizeAssumption DEF Regs
    <2> QED BY <1>2, <1>6, <2>1 DEF GetLocal
  <1> QED BY <1>3, <1>4, <1>5, <1>6 DEF Push

LEMMA StoreKeeps == ASSUME Inv, Store PROVE Inv'
  <1>1. Regs
    BY DEF Inv
  <1>2. Operands(1) => /\ pc = "run" /\ Top(1) \in Object
                       /\ sp \in Nat /\ sp - 1 \in Nat /\ sp - 1 \in 0 .. StackSize
    <2>1. 1 \in Nat /\ 1 \in 1 .. 1
      OBVIOUS
    <2> QED BY <1>1, <2>1, OperandsOK, SizeAssumption
  <1>3. CASE SetGlobal
    <2>1. Operands(1) /\ Popped
      BY <1>3 DEF SetGlobal
    <2>2. globals' \in [0 .. GlobalsSize - 1 -> Object]
      BY <1>1, <1>2, <1>3 DEF SetGlobal, Regs
    <2>3. frames' = frames
      BY <1>3 DEF SetGlobal
    <2>4. Regs'
      BY <1>1, <2>1, <2>2, <2>3, PoppedOK DEF Regs, FramesOK
    <2> QED BY <1>2, <1>3, <2>1, <2>4, Quiet DEF SetGlobal
  <1>4. CASE SetLocal
    <2>1. PICK i \in Frame.base .. Frame.floor - 1 :
             stack' = Cut([stack EXCEPT ![i] = Top(1)], sp - 1)
      BY <1>4 DEF SetLocal
    <2>2. stack' \in [0 .. StackSize - 1 -> Object]
      <3>1. [stack EXCEPT ![i] = Top(1)] \in [0 .. StackSize - 1 -> Object]
        BY <1>1, <1>2, <1>4 DEF Regs, SetLocal
      <3> QED BY <2>1, <3>1, CutOK
    <2>3. Regs'
      BY <1>1, <1>2, <1>4, <2>2 DEF Regs, FramesOK, SetLocal
    <2> QED BY <1>2, <1>4, <2>3, Quiet DEF SetLocal
  <1>5. CASE Pop
    <2>1. Regs'
      BY <1>1, <1>5, PoppedOK DEF Regs, FramesOK, Pop
    <2> QED BY <1>2, <1>5, <2>1, Quiet DEF Pop
  <1> QED BY <1>3, <1>4, <1>5 DEF Store

LEMMA CallFunctionKeeps == ASSUME Inv, CallFunction PROVE Inv'
  <1>1. Regs
    BY DEF Inv
  <1>2. PICK args \in 0 .. MaxLocals, locals \in 0 .. MaxLocals :
          /\ Operands(args + 1)
          /\ Is(Top(args + 1), "function")
          /\ sp - args + locals <= StackSize
          /\ IF Dead(Top(args + 1)) THEN Fault ELSE
             LET base == sp - args
             IN  /\ frames' = Append(frames, [fn |-> Top(args + 1), base |-> base,
                                              floor |-> base + locals])
                 /\ stack' = Cut(stack, base + locals) /\ sp' = base + locals
                 /\ UNCHANGED <<store, marked, list, globals, ctl>>
    BY <1>1 DEF CallFunction
  <1> DEFINE callee == Top(args + 1)
             base == sp - args
             R == [fn : Pointers \cup {Null}, base : Nat, floor : Nat]
             f == [fn |-> callee, base |-> base, floor |-> base + locals]
  <1>3. args \in Nat /\ locals \in Nat /\ args + 1 \in Nat /\ args + 1 \in 1 .. args + 1
    BY SizeAssumption
  <1>4. /\ pc = "run" /\ callee \in Object /\ base \in Nat /\ base > 0
        /\ base <= StackSize
    BY <1>1, <1>2, <1>3, OperandsOK, SizeAssumption
  <1>5. CASE Dead(callee)
    BY <1>2, <1>5, FaultKeeps
  <1>6. CASE ~Dead(callee)
    <2>1. /\ frames' = Append(frames, f)
          /\ stack' = Cut(stack, base + locals) /\ sp' = base + locals
          /\ UNCHANGED <<store, marked, list, globals, ctl>>
      BY <1>2, <1>6
    <2>2. callee \in Pointers
      <3>1. callee.type = "function"
        BY <1>2, <1>6 DEF Is, Dead
      <3> QED BY <1>4, <3>1 DEF Object, Pointers, Null, Prim, Wild
    <2>3. f \in R
      BY <1>3, <1>4, <2>2
    <2>4. base + locals \in 0 .. StackSize
      BY <1>2, <1>3, <1>4, SizeAssumption
    <2>5. stack' \in [0 .. StackSize - 1 -> Object]
      BY <1>1, <2>1, CutOK DEF Regs
    <2>6. frames \in Seq(R) /\ FramesOK
      BY <1>1 DEF Regs
    <2>7. f.base = base /\ f.floor = base + locals
      OBVIOUS
    <2> HIDE DEF f, R, base
    <2>8. frames' \in Seq(R) /\ FramesOK'
      <3>1. /\ frames' \in Seq(R) /\ frames' # << >>
            /\ DOMAIN frames' = DOMAIN frames \cup {Len(frames) + 1}
            /\ \A i \in DOMAIN frames : frames'[i] = frames[i]
            /\ frames'[Len(frames) + 1] = f
        BY <2>1, <2>3, <2>6
      <3>2. f.base <= f.floor /\ f.floor <= StackSize /\ f.base > 0
        BY <1>3, <1>4, <2>4, <2>7
      <3> QED BY <3>1, <3>2, <2>6 DEF FramesOK
    <2>9. globals' = globals
      BY <2>1
    <2>10. Regs'
      BY <1>1, <2>1, <2>4, <2>5, <2>8, <2>9 DEF Regs, R
    <2> QED BY <1>4, <2>1, <2>10, Quiet
  <1> QED BY <1>5, <1>6

LEMMA ReturnKeeps == ASSUME Inv, Running, NEW v \in Object, Return(v) PROVE Inv'
  <1>1. Regs /\ pc = "run"
    BY DEF Inv, Running
  <1> DEFINE R == [fn : Pointers \cup {Null}, base : Nat, floor : Nat]
  <1>2. /\ Len(frames) > 1 /\ sp' = Frame.base
        /\ stack' = Cut([stack EXCEPT ![Frame.base - 1] = v], Frame.base)
        /\ frames' = SubSeq(frames, 1, Len(frames) - 1)
        /\ UNCHANGED <<store, marked, list, globals, ctl>>
    BY DEF Return
  <1>3. stack' \in [0 .. StackSize - 1 -> Object] /\ sp' \in 0 .. StackSize
    <2>1. [stack EXCEPT ![Frame.base - 1] = v] \in [0 .. StackSize - 1 -> Object]
      BY <1>1 DEF Regs
    <2>2. Frame.base \in 0 .. StackSize
      BY <1>1, FrameOK, SizeAssumption
    <2> QED BY <1>2, <2>1, <2>2, CutOK
  <1>4. frames \in Seq(R) /\ FramesOK
    BY <1>1 DEF Regs
  <1> HIDE DEF R
  <1>5. frames' \in Seq(R) /\ FramesOK'
    <2>1. /\ frames' \in Seq(R) /\ frames' # << >>
          /\ DOMAIN frames' \subseteq DOMAIN frames
          /\ \A i \in DOMAIN frames' : frames'[i] = frames[i]
      <3> DEFINE n == Len(frames) - 1
      <3>1. Len(frames) \in Nat /\ n \in Nat \ {0} /\ n <= Len(frames)
        BY <1>2, <1>4
      <3>2. frames' = SubSeq(frames, 1, n)
        BY <1>2
      <3> HIDE DEF n
      <3>3. frames' \in Seq(R) /\ Len(frames') = n /\ \A i \in 1 .. n : frames'[i] = frames[i]
        BY <1>4, <3>1, <3>2
      <3> QED BY <1>4, <3>1, <3>3
    <2> QED BY <1>4, <2>1 DEF FramesOK
  <1>6. Regs'
    BY <1>1, <1>2, <1>3, <1>5 DEF Regs, R
  <1> QED BY <1>1, <1>2, <1>6, Quiet

\* Freeing addresses: elements disappear, none is added.
LEMMA Shrinks ==
    ASSUME Memory, NEW T, FreeTree(T)
    PROVE  Memory' /\ Elements' \subseteq Elements
  <1>1. \A a \in Addr : elems'[a] = IF a \in T THEN << >> ELSE elems[a]
    BY DEF FreeTree
  <1>2. elems' \in [Addr -> Seq(Object)]
    BY DEF FreeTree, Memory
  <1>3. \A a \in Addr : Ats(elems'[a]) \subseteq Ats(elems[a])
    BY <1>1 DEF Ats
  <1>4. Elements' \subseteq Elements
    <2>1. Elements' = UNION {Ats(elems'[a]) : a \in Addr}
      BY DEF Elements, Ats
    <2> QED BY <1>3, <2>1 DEF Elements
  <1>5. Elements \subseteq Addr
    BY ElementsOK DEF Memory
  <1>6. Acyclic'
    <2>1. \A a \in Elements' \ {} : a \in Elements /\ Ats(elems'[a]) \subseteq Ats(elems[a]) \cup {}
      BY <1>3, <1>4, <1>5
    <2>2. \A a \in {} : Ats(elems'[a]) \subseteq {}
      OBVIOUS
    <2>3. \A S \in SUBSET {} : S # {} => \E b \in S : Ats(elems'[b]) \cap S = {}
      OBVIOUS
    <2>4. Acyclic
      BY DEF Memory
    <2> QED BY <2>1, <2>2, <2>3, <2>4, AcyclicStep
  <1> QED BY <1>2, <1>4, <1>6 DEF Memory, FreeTree

LEMMA VmFreeKeeps == ASSUME Inv, VmFree PROVE Inv'
  <1>1. CASE Fault
    BY <1>1, FaultKeeps
  <1>2. CASE /\ FreeTree(Trees(heap)) /\ heap' = << >> /\ pc' = "freed"
             /\ UNCHANGED <<cap, regs, at, pending>>
    <2>1. Memory' /\ Elements' \subseteq Elements
      BY <1>2, Shrinks DEF Inv
    <2>2. Regs'
      BY <1>2 DEF Inv, Regs, FramesOK, regs
    <2>3. pending' = pending /\ ~IsPtr(pending.obj)
      BY <1>2, PlainOK DEF VmFree, Running, Inv, Registry, CtlOK, Idle
    <2>4. Ats(heap)' = {}
      BY <1>2 DEF Ats
    <2>5. HeapOwned'
      BY <1>2, <2>1, <2>3, <2>4 DEF HeapOwned, IsPtr, Memory
    <2>6. CtlOK'
      BY <1>2 DEF CtlOK
    <2>7. marked' \in [Addr -> BOOLEAN]
      BY <1>2 DEF FreeTree, Unmarked, Inv, Registry
    <2> QED BY <1>2, <2>1, <2>2, <2>5, <2>6, <2>7 DEF Inv, Registry
  <1> QED BY <1>1, <1>2 DEF VmFree

LEMMA FlowKeeps == ASSUME Inv, Flow PROVE Inv'
  <1>1. CASE ReturnValue
    <2>1. Top(1) \in Object /\ Running
      BY <1>1, OperandsOK DEF Inv, ReturnValue, Operands
    <2> QED BY <1>1, <2>1, ReturnKeeps DEF ReturnValue
  <1>2. CASE ReturnNull
    BY <1>2, PlainOK, ReturnKeeps DEF ReturnNull
  <1>3. CASE FetchFault
    BY <1>3, FaultKeeps DEF FetchFault
  <1> QED BY <1>1, <1>2, <1>3, CallFunctionKeeps, VmFreeKeeps DEF Flow

----------------------------------------------------------------------------
(***************************************************************************)
(* The instructions that allocate                                          *)
(***************************************************************************)

\* A new object without copies, whose elements are none or elements already.
LEMMA MakeKeeps ==
    ASSUME Inv, NEW a \in Fresh, NEW es \in Seq(Object), Ats(es) \subseteq Elements,
           Make(NoCopies, a, es)
    PROVE  /\ Memory' /\ live' = live \cup {a}
           /\ Elements' \subseteq Elements \cup {a} /\ a \notin Elements'
  <1>1. a \in Addr /\ a \notin Elements /\ elems \in [Addr -> Seq(Object)]
    BY InvTypes, FreshOK DEF Inv, Memory
  <1>2. Range(NoCopies) = {}
    BY DEF NoCopies, Range
  <1>3. ElemsWith(NoCopies) = elems
    BY <1>1, <1>2 DEF ElemsWith
  <1>4. elems' = [elems EXCEPT ![a] = es] /\ live' = live \cup {a}
    BY <1>2, <1>3 DEF Make
  <1>5. /\ elems' \in [Addr -> Seq(Object)]
        /\ \A x \in Addr : elems'[x] = IF x = a THEN es ELSE elems[x]
    BY <1>1, <1>4
  <1>6. Elements' \subseteq Elements
    <2>1. Elements' = UNION {Ats(elems'[x]) : x \in Addr}
      BY DEF Elements, Ats
    <2>2. \A x \in Addr : Ats(elems'[x]) \subseteq Elements
      BY <1>1, <1>5, ElementsOK
    <2> QED BY <2>1, <2>2
  <1>7. Elements \subseteq Addr
    BY <1>1, ElementsOK
  <1>8. \A x \in Elements' \ {} : x \in Elements /\ Ats(elems'[x]) \subseteq Ats(elems[x]) \cup {}
    BY <1>1, <1>5, <1>6, <1>7
  <1>9. Memory'
    <2>1. {a} \in SUBSET Fresh /\ Elements' \subseteq Elements \cup {a}
      BY <1>6
    <2>2. \A x \in {} : Ats(elems'[x]) \subseteq {}
      OBVIOUS
    <2>3. \A S \in SUBSET {} : S # {} => \E b \in S : Ats(elems'[b]) \cap S = {}
      OBVIOUS
    <2> QED BY <1>4, <1>5, <1>8, <2>1, <2>2, <2>3, Grows
  <1> QED BY <1>1, <1>4, <1>6, <1>9

\* An operand count and the slot its result goes to.
LEMMA ResultSlot == ASSUME Regs, NEW n \in Nat \ {0}, Operands(n)
                    PROVE  pc = "run" /\ n \in Nat /\ sp - n \in 0 .. StackSize - 1
  <1>1. n \in 1 .. n
    OBVIOUS
  <1> QED BY <1>1, OperandsOK

LEMMA NewKeeps ==
    ASSUME Inv, NEW n \in Nat \ {0}, Operands(n), NEW k \in {"string", "error"}, New(n, k)
    PROVE  Inv'
  <1>1. PICK a \in Fresh : /\ Make(NoCopies, a, << >>)
                           /\ Result(n, Obj(k, a))
                           /\ UNCHANGED <<globals, frames>>
                           /\ GcAdd({a}, Obj(k, a), FALSE)
    BY DEF New
  <1>2. a \in Addr
    BY InvTypes, FreshOK
  <1>3. Obj(k, a) \in Pointers /\ Obj(k, a) \in Object /\ Obj(k, a).at = a
    BY <1>2, ObjOK
  <1>4. /\ Memory' /\ live' = live \cup {a}
        /\ Elements' \subseteq Elements \cup {a} /\ a \notin Elements'
    <2>1. << >> \in Seq(Object) /\ Ats(<< >>) \subseteq Elements
      BY DEF Ats
    <2> QED BY <1>1, <2>1, MakeKeeps
  <1>5. Regs /\ pc = "run" /\ n \in Nat /\ sp - n \in 0 .. StackSize - 1
    BY ResultSlot DEF Inv
  <1>6. Regs'
    BY <1>1, <1>3, <1>5, ResultRegs
  <1>7. {a} \in SUBSET Fresh /\ a \in {a} /\ FALSE \in BOOLEAN
    OBVIOUS
  <1> QED BY <1>1, <1>3, <1>4, <1>5, <1>6, <1>7, GcAddKeeps

LEMMA OperateKeeps == ASSUME Inv, Operate PROVE Inv'
  <1>1. Regs /\ 1 \in Nat \ {0} /\ 2 \in Nat \ {0} /\ 1 \in 1 .. 1
    BY DEF Inv
  <1>2. \A v \in Object : Operands(1) /\ Plain(1, v) => Inv'
    BY <1>1, ResultSlot, PlainKeeps
  <1>3. \A v \in Object : Operands(2) /\ Plain(2, v) => Inv'
    BY <1>1, ResultSlot, PlainKeeps
  <1>4. \A k \in {"string", "error"} : Operands(2) /\ New(2, k) => Inv'
    BY <1>1, NewKeeps
  <1>5. CASE BinaryPrim
    BY <1>3, <1>5, PlainOK DEF BinaryPrim
  <1>6. CASE DivideByZero
    BY <1>4, <1>6 DEF DivideByZero
  <1>7. CASE CompareStrings
    BY <1>3, <1>7, PlainOK, FaultKeeps DEF CompareStrings
  <1>8. CASE Concat
    BY <1>4, <1>8, FaultKeeps DEF Concat
  <1>9. CASE Bang
    BY <1>2, <1>9, PlainOK DEF Bang
  <1>10. CASE Minus
    <2>1. Top(1) \in Object
      BY <1>1, <1>10, OperandsOK DEF Minus
    <2> QED BY <1>2, <1>10, <2>1, PlainOK DEF Minus
  <1> QED BY <1>5, <1>6, <1>7, <1>8, <1>9, <1>10 DEF Operate

\* Copies that get into an array which is allocated and is no copy.
LEMMA StoreCopies ==
    ASSUME Inv, NEW vs \in Seq(Object), NEW m \in Copies(vs), NEW t \in live,
           NEW es \in Seq(Object), Ats(es) \subseteq Ats(elems[t]) \cup Range(m),
           MakeCopies(m), elems' = [ElemsWith(m) EXCEPT ![t] = es]
    PROVE  /\ Memory' /\ Range(m) \in SUBSET Fresh /\ live' = live \cup Range(m)
           /\ Elements' \subseteq Elements \cup Range(m)
           /\ \A a \in Addr \ {t} : elems'[a] = ElemsWith(m)[a]
           /\ elems'[t] = es
  <1>1. TypeOK /\ elems \in [Addr -> Seq(Object)] /\ t \in Addr /\ Acyclic
    BY InvTypes DEF Inv, Memory
  <1>2. /\ Range(m) \subseteq Fresh
        /\ ElemsWith(m) \in [Addr -> Seq(Object)]
        /\ \A a \in Addr \ Range(m) : ElemsWith(m)[a] = elems[a]
        /\ \A a \in Range(m) : Ats(ElemsWith(m)[a]) \subseteq Range(m)
    BY <1>1, CopiesOK
  <1>3. t \notin Range(m) /\ Range(m) \subseteq Addr
    BY <1>1, <1>2, FreshOK
  <1>4. /\ elems' \in [Addr -> Seq(Object)] /\ elems'[t] = es
        /\ \A a \in Addr \ {t} : elems'[a] = ElemsWith(m)[a]
    BY <1>1, <1>2
  <1>5. \A a \in Addr \ Range(m) : Ats(elems'[a]) \subseteq Ats(elems[a]) \cup Range(m)
    BY <1>2, <1>4
  <1>6. \A a \in Range(m) : elems'[a] = ElemsWith(m)[a]
    BY <1>3, <1>4
  <1>7. \A a \in Range(m) : Ats(elems'[a]) \subseteq Range(m)
    BY <1>2, <1>6
  <1>8. Elements' \subseteq Elements \cup Range(m)
    <2>1. Elements' = UNION {Ats(elems'[x]) : x \in Addr}
      BY DEF Elements, Ats
    <2>2. \A x \in Addr : Ats(elems'[x]) \subseteq Elements \cup Range(m)
      BY <1>1, <1>5, <1>7, ElementsOK
    <2> QED BY <2>1, <2>2
  <1>9. \A a \in Elements' \ Range(m) :
           a \in Elements /\ Ats(elems'[a]) \subseteq Ats(elems[a]) \cup Range(m)
    BY <1>1, <1>5, <1>8, ElementsOK
  <1>10. \A S \in SUBSET Range(m) : S # {} => \E b \in S : Ats(elems'[b]) \cap S = {}
    <2> SUFFICES ASSUME NEW S \in SUBSET Range(m), S # {}
                 PROVE  \E b \in S : Ats(elems'[b]) \cap S = {}
      OBVIOUS
    <2>1. PICK b \in S : Ats(ElemsWith(m)[b]) \cap S = {}
      BY <1>1, CopiesAcyclic
    <2> QED BY <2>1, <1>6
  <1>11. live' = live \cup Range(m)
    BY DEF MakeCopies
  <1>12. Range(m) \in SUBSET Fresh
    BY <1>2
  <1>13. Memory'
    <2> DEFINE C == Range(m)
    <2>1. /\ C \in SUBSET Fresh /\ live' = live \cup C /\ elems' \in [Addr -> Seq(Object)]
          /\ Elements' \subseteq Elements \cup C
      BY <1>4, <1>8, <1>11, <1>12
    <2>2. /\ \A a \in Elements' \ C : a \in Elements /\ Ats(elems'[a]) \subseteq Ats(elems[a]) \cup C
          /\ \A a \in C : Ats(elems'[a]) \subseteq C
          /\ \A S \in SUBSET C : S # {} => \E b \in S : Ats(elems'[b]) \cap S = {}
      BY <1>7, <1>9, <1>10
    <2> HIDE DEF C
    <2> QED BY <2>1, <2>2, Grows
  <1> QED BY <1>4, <1>8, <1>11, <1>12, <1>13

\* The single object of a list.
LEMMA OneCopy ==
    ASSUME TypeOK, NEW v \in Object, NEW m \in Copies(<<v>>)
    PROVE  /\ <<v>> \in Seq(Object) /\ Copy(m, 1, v) \in Object
           /\ IsPtr(Copy(m, 1, v)) <=> IsPtr(v)
           /\ IsPtr(v) => Copy(m, 1, v).at \in Range(m)
  <1>1. <<v>> \in Seq(Object) /\ 1 \in DOMAIN <<v>> /\ <<v>>[1] = v
    OBVIOUS
  <1> QED BY <1>1, CopiesOK

\* A new array of copies.
LEMMA MakeCopiesKeeps ==
    ASSUME Inv, NEW vs \in Seq(Object), NEW m \in Copies(vs), NEW a \in Fresh \ Range(m),
           NEW es \in Seq(Object), Ats(es) \subseteq Range(m), Make(m, a, es)
    PROVE  /\ Memory' /\ Range(m) \cup {a} \in SUBSET Fresh
           /\ live' = live \cup (Range(m) \cup {a})
           /\ Elements' \subseteq Elements \cup (Range(m) \cup {a}) /\ a \notin Elements'
  <1> DEFINE C == Range(m)
  <1>1. TypeOK /\ elems \in [Addr -> Seq(Object)] /\ Acyclic
    BY InvTypes DEF Inv, Memory
  <1>2. a \in Addr /\ a \notin Elements
    BY <1>1, FreshOK
  <1>3. /\ C \subseteq Fresh
        /\ ElemsWith(m) \in [Addr -> Seq(Object)]
        /\ \A x \in Addr \ C : ElemsWith(m)[x] = elems[x]
        /\ \A x \in C : Ats(ElemsWith(m)[x]) \subseteq C
    BY <1>1, CopiesOK
  <1>4. C \subseteq Addr
    BY <1>1, <1>3, FreshOK
  <1>5. elems' = [ElemsWith(m) EXCEPT ![a] = es] /\ live' = live \cup (C \cup {a})
    BY DEF Make
  <1>6. /\ elems' \in [Addr -> Seq(Object)] /\ elems'[a] = es
        /\ \A x \in Addr \ {a} : elems'[x] = ElemsWith(m)[x]
    BY <1>2, <1>3, <1>5
  <1>7. \A x \in Addr : Ats(elems'[x]) \subseteq Elements \cup C
    BY <1>1, <1>3, <1>6, ElementsOK
  <1>8. Elements' \subseteq Elements \cup C
    <2>1. Elements' = UNION {Ats(elems'[x]) : x \in Addr}
      BY DEF Elements, Ats
    <2> QED BY <1>7, <2>1
  <1>9. a \notin Elements'
    BY <1>2, <1>8
  <1>10. \A x \in C : elems'[x] = ElemsWith(m)[x]
    BY <1>4, <1>6
  <1>11. \A x \in Elements' \ C : x \in Elements /\ Ats(elems'[x]) \subseteq Ats(elems[x]) \cup C
    BY <1>1, <1>3, <1>6, <1>8, <1>9, ElementsOK
  <1>12. \A x \in C : Ats(elems'[x]) \subseteq C
    BY <1>3, <1>10
  <1>13. ASSUME NEW S \in SUBSET C, S # {} PROVE \E b \in S : Ats(elems'[b]) \cap S = {}
    <2>1. PICK b \in S : Ats(ElemsWith(m)[b]) \cap S = {}
      BY <1>1, <1>13, CopiesAcyclic
    <2> QED BY <2>1, <1>10
  <1> DEFINE new == C \cup {a}
  <1>14. /\ new \in SUBSET Fresh /\ live' = live \cup new
         /\ Elements' \subseteq Elements \cup new
    BY <1>3, <1>5, <1>8
  <1>15. Memory'
    <2>1. \A S \in SUBSET C : S # {} => \E b \in S : Ats(elems'[b]) \cap S = {}
      BY <1>13
    <2> HIDE DEF C, new
    <2> QED BY <1>6, <1>11, <1>12, <1>14, <2>1, Grows
  <1> QED BY <1>9, <1>14, <1>15

LEMMA ArrayKeeps == ASSUME Inv, Array PROVE Inv'
  <1>1. PICK n \in 0 .. MaxElems :
          /\ Operands(n) /\ (n > 0 \/ Room)
          /\ IF DeadTree(Args(n)) THEN Fault
             ELSE \E m \in Copies(Args(n)) : \E a \in Fresh \ Range(m) :
                /\ Make(m, a, [i \in 1 .. n |-> Copy(m, i, Args(n)[i])])
                /\ Result(n, Obj("array", a))
                /\ UNCHANGED <<globals, frames>>
                /\ GcAdd(Range(m) \cup {a}, Obj("array", a), FALSE)
    BY DEF Array
  <1>2. CASE DeadTree(Args(n))
    BY <1>1, <1>2, FaultKeeps
  <1>3. CASE ~DeadTree(Args(n))
    <2>1. PICK m \in Copies(Args(n)) : \E a \in Fresh \ Range(m) :
                /\ Make(m, a, [i \in 1 .. n |-> Copy(m, i, Args(n)[i])])
                /\ Result(n, Obj("array", a))
                /\ UNCHANGED <<globals, frames>>
                /\ GcAdd(Range(m) \cup {a}, Obj("array", a), FALSE)
      BY <1>1, <1>3
    <2>2. PICK a \in Fresh \ Range(m) :
                /\ Make(m, a, [i \in 1 .. n |-> Copy(m, i, Args(n)[i])])
                /\ Result(n, Obj("array", a))
                /\ UNCHANGED <<globals, frames>>
                /\ GcAdd(Range(m) \cup {a}, Obj("array", a), FALSE)
      BY <2>1
    <2> DEFINE es == [i \in 1 .. n |-> Copy(m, i, Args(n)[i])]
               new == Range(m) \cup {a}
               v == Obj("array", a)
    <2>3. n \in Nat /\ Regs /\ TypeOK
      BY SizeAssumption, InvTypes DEF Inv
    <2>4. /\ pc = "run" /\ Args(n) \in Seq(Object) /\ DOMAIN Args(n) = 1 .. n
          /\ sp - n \in 0 .. StackSize - 1
      <3>1. CASE n > 0
        BY <1>1, <2>3, <3>1, OperandsOK, ResultSlot
      <3>2. CASE n = 0
        BY <1>1, <2>3, <3>2, OperandsOK, RoomOK DEF Operands
      <3> QED BY <2>3, <3>1, <3>2
    <2>5. \A i \in 1 .. n : /\ Copy(m, i, Args(n)[i]) \in Object
                            /\ IsPtr(Copy(m, i, Args(n)[i])) <=> IsPtr(Args(n)[i])
                            /\ IsPtr(Args(n)[i]) => Copy(m, i, Args(n)[i]).at \in Range(m)
      BY <2>3, <2>4, CopiesOK
    <2>6. es \in [1 .. n -> Object]
      BY <2>5
    <2>7. es \in Seq(Object)
      BY <2>3, <2>6, SeqDef
    <2>8. Ats(es) \subseteq Range(m)
      <3> SUFFICES ASSUME NEW b \in Ats(es) PROVE b \in Range(m)
        OBVIOUS
      <3>1. PICK i \in 1 .. n : es[i].at = b /\ IsPtr(es[i])
        BY <2>6, AtsOK
      <3> QED BY <2>5, <3>1
    <2>9. Make(m, a, es) /\ Result(n, v) /\ GcAdd(new, v, FALSE) /\ UNCHANGED <<globals, frames>>
      BY <2>2
    <2> HIDE DEF es
    <2>10. /\ Memory' /\ new \in SUBSET Fresh
           /\ live' = live \cup new
           /\ Elements' \subseteq Elements \cup new /\ a \notin Elements'
      BY <2>4, <2>7, <2>8, <2>9, MakeCopiesKeeps
    <2>11. v \in Pointers /\ v \in Object /\ v.at = a /\ a \in new
      BY <2>3, FreshOK, ObjOK
    <2> HIDE DEF v, new
    <2>12. Regs'
      BY <2>3, <2>4, <2>9, <2>11, ResultRegs
    <2> QED BY <2>4, <2>9, <2>10, <2>11, <2>12, GcAddKeeps
  <1> QED BY <1>2, <1>3

\* Slicing pops before gc_add() and pushes after it.
LEMMA SliceKeeps ==
    ASSUME Inv, Operands(3), NEW k \in {"array", "string", "error"},
           NEW es \in Seq(Object), Ats(es) \subseteq Elements, Slice(k, es)
    PROVE  Inv'
  <1>1. PICK a \in Fresh :
          /\ Make(NoCopies, a, es)
          /\ IF Due THEN stack' = Cut(stack, sp - 3) /\ sp' = sp - 3
                    ELSE Result(3, Obj(k, a))
          /\ UNCHANGED <<globals, frames>>
          /\ GcAdd({a}, Obj(k, a), TRUE)
    BY DEF Slice
  <1>2. Obj(k, a) \in Pointers /\ Obj(k, a) \in Object /\ Obj(k, a).at = a
    BY InvTypes, FreshOK, ObjOK
  <1>3. /\ Memory' /\ live' = live \cup {a}
        /\ Elements' \subseteq Elements \cup {a} /\ a \notin Elements'
    BY <1>1, MakeKeeps
  <1>4. 3 \in Nat \ {0} /\ 3 \in Nat /\ Regs
    BY DEF Inv
  <1>5. pc = "run" /\ sp - 3 \in 0 .. StackSize - 1
    BY <1>4, ResultSlot
  <1>6. Regs' /\ (Due => sp' < StackSize)
    <2>1. CASE Due
      <3>1. stack' \in [0 .. StackSize - 1 -> Object]
        BY <1>1, <1>4, <2>1, CutOK DEF Regs
      <3>2. sp' \in 0 .. StackSize /\ sp' < StackSize
        BY <1>1, <1>5, <2>1, SizeAssumption
      <3> QED BY <1>1, <1>4, <3>1, <3>2 DEF Regs, FramesOK
    <2>2. CASE ~Due
      <3>1. Result(3, Obj(k, a)) /\ UNCHANGED <<globals, frames>>
        BY <1>1, <2>2
      <3> QED BY <1>2, <1>4, <1>5, <2>2, <3>1, ResultRegs
    <2> QED BY <2>1, <2>2
  <1>7. {a} \in SUBSET Fresh /\ a \in {a} /\ TRUE \in BOOLEAN
    OBVIOUS
  <1> QED BY <1>1, <1>2, <1>3, <1>5, <1>6, <1>7, GcAddKeeps

LEMMA SlicesKeep == ASSUME Inv, SliceArray \/ SliceString \/ SliceError PROVE Inv'
  <1>1. << >> \in Seq(Object) /\ Ats(<< >>) \subseteq Elements
    BY DEF Ats
  <1>2. CASE SliceString
    BY <1>1, <1>2, FaultKeeps, SliceKeeps DEF SliceString
  <1>3. CASE SliceError
    BY <1>1, <1>3, SliceKeeps DEF SliceError
  <1>4. CASE SliceArray
    <2>1. Operands(3) /\ Is(Top(3), "array")
      BY <1>4 DEF SliceArray
    <2>2. Top(3) \in Object
      <3>1. 3 \in Nat /\ 3 \in 1 .. 3
        OBVIOUS
      <3> QED BY <2>1, <3>1, OperandsOK DEF Inv
    <2>3. CASE Dead(Top(3))
      BY <1>4, <2>3, FaultKeeps DEF SliceArray
    <2>4. CASE ~Dead(Top(3))
      <3> DEFINE es == elems[Top(3).at]
      <3>1. Top(3).at \in Addr
        BY <2>1, <2>2, <2>4 DEF Is, Dead, Object, Pointers, Null, Prim, Wild
      <3>2. es \in Seq(Object) /\ Ats(es) \subseteq Elements
        BY <3>1, ElementsOK DEF Inv, Memory
      <3>3. PICK i \in 1 .. Len(es) + 1, j \in Int :
                j \in i - 1 .. Len(es) /\ Slice("array", SubSeq(es, i, j))
        BY <1>4, <2>4, <3>2 DEF SliceArray
      <3> HIDE DEF es
      <3> DEFINE part == SubSeq(es, i, j)
      <3>4. \A x \in i .. j : x \in DOMAIN es /\ es[x] \in Object
        BY <3>2, <3>3
      <3>5. part \in Seq(Object)
        BY <3>3, <3>4, SubSeqProperties
      <3>6. Ats(part) \subseteq Elements
        <4>1. \A y \in DOMAIN part : \E x \in DOMAIN es : part[y] = es[x]
          BY <3>2, <3>3, <3>4, <3>5, SubSeqProperties
        <4> HIDE DEF part
        <4> QED BY <3>2, <4>1 DEF Ats
      <3> HIDE DEF part
      <3> QED BY <2>1, <3>3, <3>5, <3>6, SliceKeeps DEF part
    <2> QED BY <2>3, <2>4
  <1> QED BY <1>2, <1>3, <1>4

\* An array operand whose memory is allocated.
LEMMA ArrayOperand ==
    ASSUME Inv, NEW v \in Object, Is(v, "array"), ~Dead(v)
    PROVE  /\ v.at \in live /\ v.at \in Addr /\ IsPtr(v)
           /\ elems[v.at] \in Seq(Object)
           /\ \A i \in DOMAIN elems[v.at] : elems[v.at][i] \in Object
  <1>1. v.at \in Addr /\ IsPtr(v) /\ v.at \in live
    BY AddrAssumption DEF Is, Dead, Object, Pointers, Null, Prim, Wild, IsPtr
  <1> QED BY <1>1 DEF Inv, Memory

LEMMA IndexGetKeeps == ASSUME Inv, IndexGet \/ IndexGetChar \/ IndexGetError PROVE Inv'
  <1>1. Regs /\ 2 \in Nat \ {0} /\ 2 \in Nat /\ 2 \in 1 .. 2
    BY DEF Inv
  <1>2. CASE IndexGet
    <2>1. Operands(2) /\ Top(2) \in Object /\ Is(Top(2), "array")
      BY <1>1, <1>2, OperandsOK DEF IndexGet
    <2>2. CASE Dead(Top(2))
      BY <1>2, <2>2, FaultKeeps DEF IndexGet
    <2>3. CASE ~Dead(Top(2))
      <3>1. PICK i \in DOMAIN elems[Top(2).at] : Plain(2, elems[Top(2).at][i])
        BY <1>2, <2>3 DEF IndexGet
      <3>2. elems[Top(2).at][i] \in Object
        BY <2>1, <2>3, ArrayOperand
      <3> QED BY <1>1, <2>1, <3>1, <3>2, ResultSlot, PlainKeeps
    <2> QED BY <2>2, <2>3
  <1>3. CASE IndexGetChar
    BY <1>1, <1>3, FaultKeeps, NewKeeps DEF IndexGetChar
  <1>4. CASE IndexGetError
    BY <1>1, <1>4, NewKeeps DEF IndexGetError
  <1> QED BY <1>2, <1>3, <1>4

\* An object of a sequence is copied into the place of another, or appended.
LEMMA PutCopy ==
    ASSUME Inv, NEW v \in Object, NEW m \in Copies(<<v>>), NEW t \in live,
           NEW es \in Seq(Object),
           \A i \in DOMAIN es : es[i] = Copy(m, 1, v)
                                \/ \E j \in DOMAIN elems[t] : es[i] = elems[t][j]
    PROVE  Ats(es) \subseteq Ats(elems[t]) \cup Range(m)
  <1>1. /\ IsPtr(Copy(m, 1, v)) <=> IsPtr(v)
        /\ IsPtr(v) => Copy(m, 1, v).at \in Range(m)
    BY InvTypes, OneCopy
  <1> SUFFICES ASSUME NEW b \in Ats(es) PROVE b \in Ats(elems[t]) \cup Range(m)
    OBVIOUS
  <1>2. PICK i \in DOMAIN es : es[i].at = b /\ IsPtr(es[i])
    BY AtsSeq
  <1>3. CASE es[i] = Copy(m, 1, v)
    BY <1>1, <1>2, <1>3
  <1>4. CASE \E j \in DOMAIN elems[t] : es[i] = elems[t][j]
    BY <1>2, <1>4 DEF Ats, IsPtr
  <1> QED BY <1>3, <1>4

\* Storing a copy in an array registers nothing.
LEMMA StoreKeepsAll ==
    ASSUME Inv, pc = "run", Regs', NEW v \in Object, NEW m \in Copies(<<v>>),
           NEW t \in live, NEW es \in Seq(Object),
           \A i \in DOMAIN es : es[i] = Copy(m, 1, v)
                                \/ \E j \in DOMAIN elems[t] : es[i] = elems[t][j],
           MakeCopies(m), marked' = Unmarked(Range(m)),
           elems' = [ElemsWith(m) EXCEPT ![t] = es],
           UNCHANGED <<list, ctl>>
    PROVE  Inv'
  <1>1. <<v>> \in Seq(Object)
    OBVIOUS
  <1>2. Ats(es) \subseteq Ats(elems[t]) \cup Range(m)
    BY PutCopy
  <1>3. /\ Memory' /\ Range(m) \in SUBSET Fresh /\ live' = live \cup Range(m)
        /\ Elements' \subseteq Elements \cup Range(m)
    BY <1>1, <1>2, StoreCopies
  <1>4. marked' \in [Addr -> BOOLEAN]
    BY DEF Unmarked, Inv, Registry
  <1> QED BY <1>3, <1>4, Unregistered

LEMMA IndexSetKeeps == ASSUME Inv, IndexSet PROVE Inv'
  <1>1. Operands(3) /\ Is(Top(3), "array") /\ Regs
    BY DEF IndexSet, Inv
  <1>2. 3 \in Nat \ {0} /\ 3 \in Nat /\ 3 \in 1 .. 3 /\ 1 \in 1 .. 3
    OBVIOUS
  <1>3. /\ pc = "run" /\ sp - 3 \in 0 .. StackSize - 1
        /\ Top(1) \in Object /\ Top(3) \in Object
    BY <1>1, <1>2, OperandsOK, ResultSlot
  <1> DEFINE v == Top(1)
             t == Top(3).at
  <1>4. CASE Dead(Top(3)) \/ DeadTree(<<v>>)
    BY <1>4, FaultKeeps DEF IndexSet
  <1>5. CASE ~(Dead(Top(3)) \/ DeadTree(<<v>>))
    <2>1. PICK i \in DOMAIN elems[t] : \E m \in Copies(<<v>>) :
            /\ MakeCopies(m) /\ marked' = Unmarked(Range(m))
            /\ elems' = [ElemsWith(m) EXCEPT ![t][i] = Copy(m, 1, v)]
            /\ Result(3, v)
            /\ UNCHANGED <<list, globals, frames, ctl>>
      BY <1>5 DEF IndexSet
    <2>2. PICK m \in Copies(<<v>>) :
            /\ MakeCopies(m) /\ marked' = Unmarked(Range(m))
            /\ elems' = [ElemsWith(m) EXCEPT ![t][i] = Copy(m, 1, v)]
            /\ Result(3, v)
            /\ UNCHANGED <<list, globals, frames, ctl>>
      BY <2>1
    <2>3. t \in live /\ t \in Addr /\ elems[t] \in Seq(Object)
      BY <1>1, <1>3, <1>5, ArrayOperand
    <2>4. TypeOK /\ <<v>> \in Seq(Object)
      BY <1>3, InvTypes
    <2>5. ElemsWith(m)[t] = elems[t] /\ ElemsWith(m) \in [Addr -> Seq(Object)]
      <3>1. t \notin Range(m)
        BY <2>3, <2>4, CopiesOK, FreshOK
      <3> QED BY <2>3, <2>4, <3>1, CopiesOK
    <2> DEFINE es == [elems[t] EXCEPT ![i] = Copy(m, 1, v)]
    <2>6. elems' = [ElemsWith(m) EXCEPT ![t] = es]
      BY <2>2, <2>5
    <2>7. Copy(m, 1, v) \in Object
      BY <1>3, <2>4, OneCopy
    <2>8. es \in Seq(Object)
      BY <2>3, <2>7
    <2>9. \A j \in DOMAIN es : es[j] = Copy(m, 1, v)
                               \/ \E k \in DOMAIN elems[t] : es[j] = elems[t][k]
      OBVIOUS
    <2>10. Regs'
      BY <1>1, <1>2, <1>3, <2>2, ResultRegs
    <2>11. /\ pc = "run" /\ v \in Object /\ m \in Copies(<<v>>)
           /\ MakeCopies(m) /\ marked' = Unmarked(Range(m)) /\ UNCHANGED <<list, ctl>>
      BY <1>3, <2>2
    <2> HIDE DEF es, t, v
    <2> QED BY <2>3, <2>6, <2>8, <2>9, <2>10, <2>11, StoreKeepsAll
  <1> QED BY <1>4, <1>5

LEMMA IndexKeeps == ASSUME Inv, Index PROVE Inv'
  <1>1. CASE IndexSetError
    <2>1. 3 \in Nat \ {0}
      OBVIOUS
    <2> QED BY <1>1, <2>1, NewKeeps DEF IndexSetError
  <1> QED BY <1>1, ArrayKeeps, SlicesKeep, IndexGetKeeps, IndexSetKeeps DEF Index

----------------------------------------------------------------------------
(***************************************************************************)
(* Built-in functions                                                      *)
(***************************************************************************)

LEMMA ArrayPushKeeps == ASSUME Inv, ArrayPush PROVE Inv'
  <1>1. Operands(3) /\ Is(Top(2), "array") /\ Regs
    BY DEF ArrayPush, Builtin, Inv
  <1>2. 3 \in Nat \ {0} /\ 3 \in Nat /\ 2 \in 1 .. 3 /\ 1 \in 1 .. 3
    OBVIOUS
  <1>3. /\ pc = "run" /\ sp - 3 \in 0 .. StackSize - 1
        /\ Top(1) \in Object /\ Top(2) \in Object
    BY <1>1, <1>2, OperandsOK, ResultSlot
  <1> DEFINE v == Top(1)
             t == Top(2).at
  <1>4. CASE Dead(Top(2)) \/ DeadTree(<<v>>)
    BY <1>4, FaultKeeps DEF ArrayPush
  <1>5. CASE ~(Dead(Top(2)) \/ DeadTree(<<v>>))
    <2>1. PICK m \in Copies(<<v>>) :
            /\ MakeCopies(m) /\ marked' = Unmarked(Range(m))
            /\ elems' = [ElemsWith(m) EXCEPT ![t] = Append(elems[t], Copy(m, 1, v))]
            /\ Result(3, Prim)
            /\ UNCHANGED <<list, globals, frames, ctl>>
      BY <1>5 DEF ArrayPush
    <2>2. t \in live /\ t \in Addr /\ elems[t] \in Seq(Object)
      BY <1>1, <1>3, <1>5, ArrayOperand
    <2> DEFINE es == Append(elems[t], Copy(m, 1, v))
    <2>3. Copy(m, 1, v) \in Object
      BY <1>3, InvTypes, OneCopy
    <2>4. es \in Seq(Object)
      BY <2>2, <2>3
    <2>5. \A j \in DOMAIN es : es[j] = Copy(m, 1, v)
                               \/ \E k \in DOMAIN elems[t] : es[j] = elems[t][k]
      BY <2>2
    <2>6. Regs'
      BY <1>1, <1>2, <1>3, <2>1, PlainOK, ResultRegs
    <2>7. elems' = [ElemsWith(m) EXCEPT ![t] = es]
      BY <2>1
    <2>8. /\ pc = "run" /\ v \in Object /\ m \in Copies(<<v>>)
          /\ MakeCopies(m) /\ marked' = Unmarked(Range(m)) /\ UNCHANGED <<list, ctl>>
      BY <1>3, <2>1
    <2> HIDE DEF es, t, v
    <2> QED BY <2>2, <2>4, <2>5, <2>6, <2>7, <2>8, StoreKeepsAll
  <1> QED BY <1>4, <1>5

LEMMA ArrayPopKeeps == ASSUME Inv, ArrayPop PROVE Inv'
  <1>1. Operands(2) /\ Is(Top(1), "array") /\ Regs
    BY DEF ArrayPop, Builtin, Inv
  <1>2. 2 \in Nat \ {0} /\ 2 \in Nat /\ 1 \in 1 .. 2
    OBVIOUS
  <1>3. pc = "run" /\ sp - 2 \in 0 .. StackSize - 1 /\ Top(1) \in Object
    BY <1>1, <1>2, OperandsOK, ResultSlot
  <1> DEFINE t  == Top(1).at
             vs == elems[t]
             v  == vs[Len(vs)]
             es == SubSeq(vs, 1, Len(vs) - 1)
  <1>4. CASE Dead(Top(1)) \/ DeadTree(<<v>>)
    BY <1>4, FaultKeeps DEF ArrayPop
  <1>5. CASE ~(Dead(Top(1)) \/ DeadTree(<<v>>))
    <2>1. /\ vs # << >>
          /\ \E m \in Copies(<<v>>) :
               /\ MakeCopies(m)
               /\ elems' = [ElemsWith(m) EXCEPT ![t] = es]
               /\ Result(2, Copy(m, 1, v))
               /\ UNCHANGED <<globals, frames>>
               /\ IF IsPtr(v) THEN GcAdd(Range(m), Copy(m, 1, v), FALSE)
                  ELSE UNCHANGED <<marked, list, ctl>>
      BY <1>5 DEF ArrayPop
    <2>2. PICK m \in Copies(<<v>>) :
               /\ MakeCopies(m)
               /\ elems' = [ElemsWith(m) EXCEPT ![t] = es]
               /\ Result(2, Copy(m, 1, v))
               /\ UNCHANGED <<globals, frames>>
               /\ IF IsPtr(v) THEN GcAdd(Range(m), Copy(m, 1, v), FALSE)
                  ELSE UNCHANGED <<marked, list, ctl>>
      BY <2>1
    <2>3. t \in live /\ t \in Addr /\ vs \in Seq(Object)
      BY <1>1, <1>3, <1>5, ArrayOperand
    <2> DEFINE n == Len(vs) - 1
    <2>4. n \in Nat /\ Len(vs) \in DOMAIN vs /\ v \in Object
      BY <2>1, <2>3
    <2>5. es \in Seq(Object) /\ \A i \in DOMAIN es : \E j \in DOMAIN vs : es[i] = vs[j]
      <3>1. es = SubSeq(vs, 1, n)
        OBVIOUS
      <3> HIDE DEF vs, n
      <3>2. \A i \in 1 .. n : i \in DOMAIN vs /\ vs[i] \in Object
        BY <2>3, <2>4 DEF n
      <3>3. es \in Seq(Object) /\ DOMAIN es = 1 .. n /\ \A i \in 1 .. n : es[i] = vs[i]
        BY <2>3, <2>4, <3>1, <3>2, SubSeqProperties
      <3> QED BY <3>2, <3>3
    <2> DEFINE c == Copy(m, 1, v)
    <2>6. TypeOK /\ Acyclic /\ c \in Object /\ <<v>> \in Seq(Object)
          /\ (IsPtr(c) <=> IsPtr(v)) /\ (IsPtr(v) => c.at \in Range(m))
      <3>1. TypeOK /\ Acyclic
        BY InvTypes DEF Inv, Memory
      <3> HIDE DEF v
      <3> QED BY <2>4, <3>1, OneCopy
    <2>7. Regs'
      <3> HIDE DEF c
      <3> QED BY <1>1, <1>2, <1>3, <2>2, <2>6, ResultRegs DEF c
    <2>8. /\ Memory' /\ Range(m) \in SUBSET Fresh /\ live' = live \cup Range(m)
          /\ Elements' \subseteq Elements \cup Range(m)
          /\ \A a \in Addr \ {t} : elems'[a] = ElemsWith(m)[a]
          /\ elems'[t] = es
      <3>1. Ats(es) \subseteq Ats(elems[t]) \cup Range(m)
        <4>1. \A i \in DOMAIN es : es[i] = Copy(m, 1, v)
                                   \/ \E j \in DOMAIN elems[t] : es[i] = elems[t][j]
          BY <2>5
        <4> HIDE DEF es, v, t
        <4> QED BY <2>3, <2>4, <2>5, <4>1, PutCopy
      <3>2. /\ m \in Copies(<<v>>) /\ MakeCopies(m)
            /\ elems' = [ElemsWith(m) EXCEPT ![t] = es]
        BY <2>2
      <3>3. t \in live /\ es \in Seq(Object) /\ <<v>> \in Seq(Object)
        BY <2>3, <2>5, <2>6
      <3> HIDE DEF es, v, t
      <3> QED BY <3>1, <3>2, <3>3, StoreCopies
    <2>9. CASE ~IsPtr(v)
      <3>1. UNCHANGED <<marked, list, ctl>>
        BY <2>2, <2>9
      <3>2. marked' \in [Addr -> BOOLEAN]
        BY <3>1 DEF Inv, Registry
      <3> QED BY <1>3, <2>7, <2>8, <3>1, <3>2, Unregistered
    <2>10. CASE IsPtr(v)
      <3>1. GcAdd(Range(m), c, FALSE)
        BY <2>2, <2>10
      <3>2. c \in Pointers
        BY <2>6, <2>10, ObjectAt
      <3>3. c.at \notin Elements'
        <4>1. \A a \in Addr : c.at \notin Ats(ElemsWith(m)[a])
          <5>1. 1 \in DOMAIN <<v>> /\ <<v>>[1] = v /\ \A j \in DOMAIN <<v>> : j = 1
            OBVIOUS
          <5> HIDE DEF v
          <5> QED BY <2>6, <2>10, <5>1, CopyRoot
        <4>2. c.at \notin Ats(es)
          <5>1. c.at \notin Elements
            BY <2>6, <2>8, <2>10, FreshOK
          <5>2. Ats(vs) \subseteq Elements
            BY <2>3, ElementsOK DEF Inv, Memory
          <5>3. Ats(es) \subseteq Ats(vs)
            <6> HIDE DEF es, vs
            <6> QED BY <2>5 DEF Ats
          <5> QED BY <5>1, <5>2, <5>3
        <4>3. Elements' = UNION {Ats(elems'[x]) : x \in Addr}
          BY DEF Elements, Ats
        <4> HIDE DEF c, es, t
        <4> QED BY <2>8, <4>1, <4>2, <4>3
      <3>4. FALSE \in BOOLEAN /\ c.at \in Range(m)
        BY <2>6, <2>10
      <3> HIDE DEF c
      <3> QED BY <1>3, <2>7, <2>8, <3>1, <3>2, <3>3, <3>4, GcAddKeeps
    <2> QED BY <2>9, <2>10
  <1> QED BY <1>4, <1>5

LEMMA StrSplitKeeps == ASSUME Inv, StrSplit PROVE Inv'
  <1>1. CASE Fault
    BY <1>1, FaultKeeps
  <1>2. ASSUME NEW n \in 1 .. MaxElems, NEW m \in Injection(1 .. n, Fresh),
               NEW a \in Fresh \ Range(m), Operands(3),
               live' = live \cup Range(m) \cup {a},
               elems' = [x \in Addr |->
                   IF x = a THEN [i \in 1 .. n |-> Obj("string", m[i])]
                   ELSE IF x \in Range(m) THEN << >> ELSE elems[x]],
               Result(3, Obj("array", a)), UNCHANGED <<globals, frames>>,
               GcAdd(Range(m) \cup {a}, Obj("array", a), FALSE)
        PROVE  Inv'
    <2> DEFINE C == Range(m)
               new == C \cup {a}
               es == [i \in 1 .. n |-> Obj("string", m[i])]
               v == Obj("array", a)
    <2>1. /\ TypeOK /\ Regs /\ elems \in [Addr -> Seq(Object)] /\ n \in Nat
          /\ 3 \in Nat \ {0} /\ 3 \in Nat
      BY InvTypes, SizeAssumption DEF Inv, Memory
    <2>2. m \in [1 .. n -> Fresh] /\ C = {m[i] : i \in 1 .. n} /\ C \subseteq Fresh
      BY DEF Injection, Range
    <2>3. C \subseteq Addr /\ a \in Addr /\ a \notin Elements /\ a \notin C
      BY <2>1, <2>2, FreshOK
    <2>4. \A i \in 1 .. n : /\ m[i] \in C
                            /\ es[i] \in Object /\ es[i].at = m[i] /\ IsPtr(es[i])
      BY <2>2, <2>3, ObjOK
    <2>5. es \in [1 .. n -> Object] /\ es \in Seq(Object)
      <3>1. es \in [1 .. n -> Object]
        BY <2>4
      <3> HIDE DEF es
      <3> QED BY <2>1, <3>1, SeqDef
    <2>6. Ats(es) \subseteq C
      <3> HIDE DEF es
      <3> QED BY <2>4, <2>5, AtsOK
    <2> HIDE DEF es
    <2>7. /\ elems' \in [Addr -> Seq(Object)] /\ elems'[a] = es
          /\ \A x \in C : elems'[x] = << >>
          /\ \A x \in Addr \ new : elems'[x] = elems[x]
      <3>1. elems' = [x \in Addr |-> IF x = a THEN es ELSE IF x \in C THEN << >> ELSE elems[x]]
        BY <1>2 DEF es
      <3> HIDE DEF C
      <3> QED BY <2>1, <2>3, <2>5, <3>1
    <2>8. Elements' \subseteq Elements \cup C
      <3>1. Elements' = UNION {Ats(elems'[x]) : x \in Addr}
        BY DEF Elements, Ats
      <3>2. Ats(<< >>) = {}
        BY DEF Ats
      <3>3. \A x \in Addr : Ats(elems'[x]) \subseteq Elements \cup C
        BY <2>1, <2>6, <2>7, <3>2, ElementsOK
      <3> QED BY <3>1, <3>3
    <2>9. \A x \in C : Ats(elems'[x]) = {}
      BY <2>7 DEF Ats
    <2>10. a \notin Elements'
      BY <2>3, <2>8
    <2>11. \A x \in Elements' \ C : x \in Elements /\ Ats(elems'[x]) \subseteq Ats(elems[x]) \cup C
      BY <2>1, <2>7, <2>8, <2>10, ElementsOK
    <2>12. \A S \in SUBSET C : S # {} => \E b \in S : Ats(elems'[b]) \cap S = {}
      BY <2>9
    <2>13. /\ new \in SUBSET Fresh /\ live' = live \cup new
           /\ Elements' \subseteq Elements \cup new
           /\ \A x \in C : Ats(elems'[x]) \subseteq C
      BY <1>2, <2>2, <2>8, <2>9
    <2>14. v \in Pointers /\ v \in Object /\ v.at = a /\ a \in new
      BY <2>3, ObjOK
    <2>15. GcAdd(new, v, FALSE) /\ Result(3, v) /\ UNCHANGED <<globals, frames>>
      BY <1>2
    <2>16. pc = "run" /\ sp - 3 \in 0 .. StackSize - 1
      BY <1>2, <2>1, ResultSlot
    <2> HIDE DEF C, new, v
    <2>17. Memory'
      BY <2>7, <2>11, <2>12, <2>13, Grows
    <2>18. Regs'
      BY <2>1, <2>14, <2>15, <2>16, ResultRegs
    <2> QED BY <2>10, <2>13, <2>14, <2>15, <2>16, <2>17, <2>18, GcAddKeeps
  <1>3. Operands(3)
    <2>1. Operands(2 + 1) /\ 2 + 1 = 3
      BY DEF StrSplit, Builtin
    <2> QED BY <2>1
  <1>4. Fault \/ (\E n \in 1 .. MaxElems : \E m \in Injection(1 .. n, Fresh) :
            \E a \in Fresh \ Range(m) :
                /\ live' = live \cup Range(m) \cup {a}
                /\ elems' = [x \in Addr |->
                       IF x = a THEN [i \in 1 .. n |-> Obj("string", m[i])]
                       ELSE IF x \in Range(m) THEN << >> ELSE elems[x]]
                /\ Result(3, Obj("array", a))
                /\ UNCHANGED <<globals, frames>>
                /\ GcAdd(Range(m) \cup {a}, Obj("array", a), FALSE))
    BY Zenon DEF StrSplit
  <1> QED BY <1>1, <1>2, <1>3, <1>4

LEMMA CallKeeps == ASSUME Inv, Call PROVE Inv'
  <1>1. CASE BuiltinPlain
    <2>1. PICK n \in 0 .. MaxLocals :
            /\ Operands(n + 1)
            /\ Fault \/ \E v \in {Prim, Null} : Plain(n + 1, v)
      BY <1>1 DEF BuiltinPlain, Builtin
    <2>2. n + 1 \in Nat \ {0} /\ n + 1 \in Nat /\ Regs
      BY SizeAssumption DEF Inv
    <2> QED BY <2>1, <2>2, PlainOK, FaultKeeps, ResultSlot, PlainKeeps
  <1>2. CASE BuiltinNew
    <2>1. PICK n \in 0 .. MaxLocals, k \in {"string", "error"} :
            Operands(n + 1) /\ New(n + 1, k)
      BY <1>2 DEF BuiltinNew, Builtin
    <2>2. n + 1 \in Nat \ {0}
      BY SizeAssumption
    <2> QED BY <2>1, <2>2, NewKeeps
  <1> QED BY <1>1, <1>2, StrSplitKeeps, ArrayPopKeeps, ArrayPushKeeps DEF Call

----------------------------------------------------------------------------
(***************************************************************************)
(* The collector                                                           *)
(***************************************************************************)

\* A step of the sweep that leaves memory, heap list and registers alone.
LEMMA SweepOn ==
    ASSUME Inv, Sweeping, at' = at - 1, marked' \in [Addr -> BOOLEAN],
           UNCHANGED <<store, list, regs, pc, pending>>
    PROVE  Inv'
  <1>1. /\ live' = live /\ elems' = elems /\ heap' = heap /\ cap' = cap
        /\ stack' = stack /\ sp' = sp /\ globals' = globals /\ frames' = frames
        /\ pc' = pc /\ pending' = pending
    BY DEF store, list, regs
  <1>2. Elements' = Elements /\ Ats(heap)' = Ats(heap)
    BY <1>1 DEF Elements, Ats
  <1>3. Memory'
    BY <1>1, <1>2, SameAcyclic DEF Inv, Memory
  <1>4. Regs'
    BY <1>1 DEF Inv, Regs, FramesOK
  <1>5. HeapOwned'
    BY <1>1, <1>2 DEF HeapOwned, IsPtr, Inv, Registry
  <1>6. at' \in Nat /\ at' <= at /\ at <= Len(heap) /\ Len(heap) \in Nat
    BY DEF Sweeping, Inv, Registry, CtlOK
  <1>7. CtlOK'
    BY <1>1, <1>6 DEF CtlOK, IsPtr, Inv, Registry
  <1> QED BY <1>1, <1>3, <1>4, <1>5, <1>6, <1>7 DEF Inv, Registry

\* Swapping the last entry into the place of one that is removed.
LEMMA SwapRemoveOK ==
    ASSUME NEW h \in Seq(Pointers), NEW i \in 1 .. Len(h),
           \A x, y \in DOMAIN h : x # y => h[x].at # h[y].at
    PROVE  /\ SwapRemove(h, i) \in Seq(Pointers)
           /\ Len(SwapRemove(h, i)) = Len(h) - 1
           /\ Ats(SwapRemove(h, i)) \subseteq Ats(h) \ {h[i].at}
           /\ \A x, y \in DOMAIN SwapRemove(h, i) :
                 x # y => SwapRemove(h, i)[x].at # SwapRemove(h, i)[y].at
  <1> DEFINE n == Len(h)
             r == SwapRemove(h, i)
             old == [j \in 1 .. n - 1 |-> IF j = i THEN n ELSE j]
  <1>1. n \in Nat \ {0} /\ DOMAIN h = 1 .. n /\ \A x \in 1 .. n : h[x] \in Pointers
    OBVIOUS
  <1>2. r = [j \in 1 .. n - 1 |-> h[old[j]]]
    BY DEF SwapRemove
  <1>3. \A j \in 1 .. n - 1 : old[j] \in 1 .. n /\ old[j] # i
    <2>1. i \in 1 .. n
      OBVIOUS
    <2> HIDE DEF n
    <2> QED BY <1>1, <2>1
  <1>4. \A x, y \in 1 .. n - 1 : x # y => old[x] # old[y]
    BY <1>1
  <1> HIDE DEF old, r
  <1>5. DOMAIN r = 1 .. n - 1 /\ \A j \in 1 .. n - 1 : r[j] = h[old[j]]
    BY <1>2
  <1>6. r \in [1 .. n - 1 -> Pointers] /\ n - 1 \in Nat
    BY <1>1, <1>2, <1>3
  <1>7. r \in Seq(Pointers) /\ Len(r) = n - 1
    <2> HIDE DEF n
    <2> QED BY <1>6, SeqDef
  <1>8. \A x, y \in DOMAIN r : x # y => r[x].at # r[y].at
    BY <1>1, <1>3, <1>4, <1>5
  <1>9. Ats(r) \subseteq Ats(h) \ {h[i].at}
    BY <1>1, <1>3, <1>5 DEF Ats
  <1> QED BY <1>7, <1>8, <1>9 DEF r, n

LEMMA ReclaimKeeps == ASSUME Inv, Reclaim PROVE Inv'
  <1>1. /\ heap \in Seq(Pointers) /\ at \in 1 .. Len(heap) /\ Entry \in Pointers
        /\ \A x, y \in DOMAIN heap : x # y => heap[x].at # heap[y].at
    BY DEF Reclaim, Sweeping, Entry, Inv, Registry, CtlOK, HeapOwned
  <1> DEFINE T == Tree(Entry)
  <1>2. /\ FreeTree(T) /\ heap' = SwapRemove(heap, at) /\ at' = at - 1
        /\ UNCHANGED <<cap, regs, pc, pending>> /\ pc = "sweep"
    BY DEF Reclaim, Sweeping
  <1>3. Memory' /\ Elements' \subseteq Elements
    BY <1>2, Shrinks DEF Inv
  <1>4. T \subseteq {Entry.at} \cup Elements
    <2>1. Entry \in Object
      BY <1>1 DEF Object
    <2> QED BY <2>1, TreeOK DEF Inv, Memory
  <1>5. /\ heap' \in Seq(Pointers) /\ Len(heap') = Len(heap) - 1
        /\ Ats(heap)' \subseteq Ats(heap) \ {Entry.at}
        /\ \A x, y \in DOMAIN heap' : x # y => heap'[x].at # heap'[y].at
    <2>1. Ats(heap)' = Ats(SwapRemove(heap, at))
      BY <1>2 DEF Ats
    <2> QED BY <1>1, <1>2, <2>1, SwapRemoveOK DEF Entry
  <1>6. Entry.at \in Ats(heap)
    <2>1. \A p \in Pointers : p.at # None
      BY AddrAssumption DEF Pointers
    <2> QED BY <1>1, <2>1 DEF Ats, Entry
  <1>7. pending' = pending /\ cap' = cap /\ pc' = pc /\ live' = live \ T
    BY <1>2 DEF FreeTree
  <1>8. HeapOwned'
    <2>1. /\ Ats(heap) \subseteq live /\ Ats(heap) \cap Elements = {}
          /\ Ats(heap) \cup Elements \subseteq HeapAddr
          /\ IsPtr(pending.obj) => /\ pending.obj.at \in live \cap HeapAddr
                                   /\ pending.obj.at \notin Ats(heap) \cup Elements
      BY DEF Inv, Registry, HeapOwned
    <2>2. /\ Ats(heap)' \subseteq live' /\ Ats(heap)' \cap Elements' = {}
          /\ Ats(heap)' \cup Elements' \subseteq HeapAddr
      BY <1>3, <1>4, <1>5, <1>7, <2>1
    <2>3. IsPtr(pending.obj) => /\ pending.obj.at \in live' \cap HeapAddr
                                /\ pending.obj.at \notin Ats(heap)' \cup Elements'
      BY <1>3, <1>4, <1>5, <1>6, <1>7, <2>1
    <2> QED BY <1>5, <1>7, <2>2, <2>3 DEF HeapOwned, IsPtr
  <1>9. Regs'
    BY <1>2 DEF Inv, Regs, FramesOK, regs
  <1>10. at' \in Nat /\ at' <= Len(heap')
    BY <1>1, <1>2, <1>5
  <1>11. CtlOK'
    BY <1>2, <1>7, <1>10 DEF CtlOK, IsPtr, regs, Inv, Registry
  <1>12. marked' \in [Addr -> BOOLEAN]
    BY <1>2 DEF FreeTree, Unmarked, Inv, Registry
  <1> QED BY <1>3, <1>5, <1>7, <1>8, <1>9, <1>10, <1>11, <1>12 DEF Inv, Registry

LEMMA RegisterKeeps == ASSUME Inv, Register PROVE Inv'
  <1>1. /\ pc = "sweep" /\ AppendHeap(pending.obj) /\ pc' = "run" /\ pending' = Idle
        /\ UNCHANGED <<live, elems, marked, globals, frames, at>>
        /\ IF pending.push
           THEN stack' = [stack EXCEPT ![sp] = pending.obj] /\ sp' = sp + 1
           ELSE UNCHANGED <<stack, sp>>
    BY DEF Register, store
  <1>2. /\ IsPtr(pending.obj) /\ pending.push \in BOOLEAN
        /\ pending.push => sp < StackSize
        /\ pending.obj \in Pointers /\ pending.obj \in Object
    <2>1. /\ pending \in [obj : Pointers \cup {Null}, push : BOOLEAN]
          /\ IsPtr(pending.obj) /\ (pending.push => sp < StackSize)
      BY <1>1 DEF Inv, Registry, CtlOK
    <2> QED BY <2>1, PlainOK DEF Object
  <1>3. Regs'
    <2>1. stack' \in [0 .. StackSize - 1 -> Object] /\ sp' \in 0 .. StackSize
      <3>1. stack \in [0 .. StackSize - 1 -> Object] /\ sp \in 0 .. StackSize
        BY DEF Inv, Regs
      <3>2. CASE pending.push
        BY <1>1, <1>2, <3>1, <3>2, SizeAssumption
      <3>3. CASE ~pending.push
        BY <1>1, <3>1, <3>3
      <3> QED BY <3>2, <3>3
    <2> QED BY <1>1, <2>1 DEF Inv, Regs, FramesOK
  <1>4. Elements' = Elements
    BY <1>1 DEF Elements, Ats
  <1>5. Memory'
    BY <1>1, <1>4, SameAcyclic DEF Inv, Memory
  <1>6. heap' = Append(heap, pending.obj) /\ cap' \in Nat \ {0}
    <2>1. cap \in Nat \ {0}
      BY DEF Inv, Registry
    <2> QED BY <1>1, <2>1 DEF AppendHeap
  <1>7. /\ Ats(heap) \subseteq live /\ Ats(heap) \cap Elements = {}
        /\ Ats(heap) \cup Elements \subseteq HeapAddr
        /\ pending.obj.at \in live \cap HeapAddr
        /\ pending.obj.at \notin Ats(heap) \cup Elements
        /\ heap \in Seq(Pointers)
        /\ \A x, y \in DOMAIN heap : x # y => heap[x].at # heap[y].at
    BY <1>2 DEF Inv, Registry, HeapOwned
  <1>8. /\ heap' \in Seq(Pointers)
        /\ Ats(heap)' = Ats(heap) \cup {pending.obj.at}
        /\ \A x, y \in DOMAIN heap' : x # y => heap'[x].at # heap'[y].at
    <2>1. Ats(heap)' = Ats(Append(heap, pending.obj))
      BY <1>6 DEF Ats
    <2> QED BY <1>2, <1>6, <1>7, <2>1, Appended
  <1>9. ~IsPtr(pending'.obj) /\ pending' \in [obj : Pointers \cup {Null}, push : BOOLEAN]
    BY <1>1, PlainOK DEF Idle
  <1>10. HeapOwned'
    BY <1>1, <1>4, <1>7, <1>8, <1>9 DEF HeapOwned, IsPtr
  <1>11. CtlOK'
    BY <1>1 DEF CtlOK
  <1> QED BY <1>1, <1>3, <1>5, <1>6, <1>8, <1>9, <1>10, <1>11 DEF Inv, Registry

LEMMA CollectKeeps == ASSUME Inv, Collect PROVE Inv'
  <1>1. CASE SkipError
    <2>1. marked' \in [Addr -> BOOLEAN]
      BY <1>1 DEF SkipError, Inv, Registry
    <2> QED BY <1>1, <2>1, SweepOn DEF SkipError
  <1>2. CASE Unmark
    <2>1. marked' \in [Addr -> BOOLEAN]
      BY <1>2 DEF Unmark, Inv, Registry
    <2> QED BY <1>2, <2>1, SweepOn DEF Unmark
  <1>3. CASE SweepFault
    BY <1>3, FaultKeeps DEF SweepFault
  <1> QED BY <1>1, <1>2, <1>3, ReclaimKeeps, RegisterKeeps DEF Collect

----------------------------------------------------------------------------
(***************************************************************************)
(* The theorems                                                            *)
(***************************************************************************)

LEMMA InitInv == Init => Inv
  <1> SUFFICES ASSUME Init PROVE Inv
    OBVIOUS
  <1>1. Elements = {}
    <2>1. \A a \in Addr : Ats(elems[a]) = {}
      BY DEF Init, Ats
    <2> QED BY <2>1 DEF Elements
  <1>2. Memory
    <2>1. elems \in [Addr -> Seq(Object)]
      BY DEF Init
    <2>2. live \subseteq Addr
      BY DEF Init, Addr
    <2> QED BY <1>1, <2>1, <2>2 DEF Memory, Acyclic
  <1>3. Regs
    <2>1. stack \in [0 .. StackSize - 1 -> Object]
      <3>1. PICK v \in {Wild, Null} : stack = Cut([i \in 0 .. StackSize - 1 |-> v], 0)
        BY DEF Init
      <3>2. [i \in 0 .. StackSize - 1 |-> v] \in [0 .. StackSize - 1 -> Object]
        BY PlainOK
      <3> QED BY <3>1, <3>2, CutOK
    <2>2. sp \in 0 .. StackSize
      BY SizeAssumption DEF Init
    <2>3. globals \in [0 .. GlobalsSize - 1 -> Object]
      BY PlainOK DEF Init
    <2>4. /\ frames \in Seq([fn : Pointers \cup {Null}, base : Nat, floor : Nat])
          /\ FramesOK
      <3>1. frames = <<[fn |-> Null, base |-> 0, floor |-> 0]>>
        BY DEF Init
      <3>2. frames \in Seq([fn : Pointers \cup {Null}, base : Nat, floor : Nat])
        BY <3>1
      <3>3. FramesOK
        BY <3>1, SizeAssumption DEF FramesOK
      <3> QED BY <3>2, <3>3
    <2> QED BY <2>1, <2>2, <2>3, <2>4 DEF Regs
  <1>4. Registry
    <2>1. Ats(heap) = {} /\ heap \in Seq(Pointers)
      BY DEF Init, Ats
    <2>2. pending = Idle /\ ~IsPtr(pending.obj)
          /\ pending \in [obj : Pointers \cup {Null}, push : BOOLEAN]
      BY PlainOK DEF Init, Idle
    <2>3. HeapOwned
      BY <1>1, <2>1, <2>2 DEF HeapOwned, Init
    <2>4. CtlOK
      BY <2>2 DEF CtlOK, Init
    <2> QED BY <2>1, <2>2, <2>3, <2>4, SizeAssumption DEF Registry, Init
  <1> QED BY <1>2, <1>3, <1>4 DEF Inv

\* Leaving the bounds of an object stops the machine, and only an instruction does.
LEMMA BeyondStops == Beyond => pc = "run" /\ Overrun
  BY DEF Beyond, SliceUnderrun, CopyOverrun, NameOverrun, Builtin, Operands, Running

\* Every step of the machine, whatever program it runs, preserves the invariant.
LEMMA NextInv == Inv /\ [Next]_vars => Inv'
  <1> SUFFICES ASSUME Inv, [Next]_vars PROVE Inv'
    OBVIOUS
  <1>1. CASE UNCHANGED vars
    <2>1. UNCHANGED <<live, elems, marked, heap, cap, stack, sp, globals, frames, pc, at, pending>>
      BY <1>1 DEF vars
    <2>2. Elements' = Elements /\ Ats(heap)' = Ats(heap)
      BY <2>1 DEF Elements, Ats
    <2>3. Memory'
      BY <2>1, <2>2, SameAcyclic DEF Inv, Memory
    <2>4. Regs'
      BY <2>1 DEF Inv, Regs, FramesOK
    <2>5. HeapOwned' /\ CtlOK'
      BY <2>1, <2>2 DEF HeapOwned, CtlOK, IsPtr, Inv, Registry
    <2> QED BY <2>1, <2>3, <2>4, <2>5 DEF Inv, Registry
  <1>2. CASE Next
    BY <1>2, PushKeeps, StoreKeeps, FlowKeeps, OperateKeeps, IndexKeeps, CallKeeps,
       CollectKeeps, BeyondStops, FaultKeeps DEF Next
  <1> QED BY <1>1, <1>2

LEMMA Invariance == Spec => []Inv
  BY InitInv, NextInv, PTL DEF Spec

\* The registers, the memory and the heap list keep their types: the stack pointer stays
\* within the stack although no handler checks STACK_SIZE, given the room the bounds name.
THEOREM TypesHold == Spec => []TypeOK
  BY Invariance, InvTypes, PTL

\* The heap list owns its objects: they are distinct and allocated, and no array holds
\* one, whatever the program does with slices and borrowed elements (gc.c, object.c).
THEOREM RegisteredOwned == Spec => []HeapOwned
  <1>1. Inv => HeapOwned
    BY DEF Inv, Registry
  <1> QED BY <1>1, Invariance, PTL

\* No program builds an array that contains itself (INDEX_SET and array_push copy): the
\* recursions of free_object(), copy_object() and print_object() end.
THEOREM NoCyclicArrays == Spec => []NoCycles
  <1>1. Inv => NoCycles
    BY NoSelf, ElementsOK DEF Inv, Memory, NoCycles
  <1> QED BY <1>1, Invariance, PTL

----------------------------------------------------------------------------
(***************************************************************************)
(* What the instructions do to marks and heap list                         *)
(***************************************************************************)

\* A handler that registers nothing: it may have allocated new, whose marks are clear.
Leaves(new) == marked' = Unmarked(new) /\ UNCHANGED <<list, ctl>>

\* A handler that registers a new object.
Adds(new, v) == v.at \in new /\ \E push \in BOOLEAN : GcAdd(new, v, push)

\* The effect of any instruction on marks, heap list and control.
Effect == /\ pc = "run"
          /\ \/ Fault \/ Overrun
             \/ \E new \in SUBSET Fresh : Leaves(new)
             \/ \E new \in SUBSET Fresh, v \in Pointers : Adds(new, v)
             \/ heap' = << >> /\ cap' = cap /\ pc' = "freed"

\* Leaving the marks alone is clearing the marks of no address.
LEMMA NothingNew ==
    ASSUME Inv, pc = "run", UNCHANGED <<marked, list, ctl>>
    PROVE  Effect
  <1>1. marked' = Unmarked({})
    <2>1. marked \in [Addr -> BOOLEAN]
      BY DEF Inv, Registry
    <2>2. Unmarked({}) = [a \in Addr |-> marked[a]]
      <3>1. \A a \in Addr : (marked[a] /\ a \notin {}) = marked[a]
        BY <2>1, Zenon
      <3> QED BY <3>1, Zenon DEF Unmarked
    <2> QED BY <2>1, <2>2
  <1>2. Leaves({})
    BY <1>1 DEF Leaves
  <1> QED BY <1>2 DEF Effect

\* A handler that allocates what its copies need and registers nothing.
LEMMA CopiesLeft ==
    ASSUME Inv, pc = "run", NEW vs \in Seq(Object), NEW m \in Copies(vs),
           marked' = Unmarked(Range(m)), UNCHANGED <<list, ctl>>
    PROVE  Effect
  <1>1. Range(m) \in SUBSET Fresh
    BY InvTypes, CopiesOK
  <1>2. Leaves(Range(m))
    BY DEF Leaves
  <1> QED BY <1>1, <1>2 DEF Effect

\* A handler that registers the object it allocated.
LEMMA Added ==
    ASSUME pc = "run", NEW new \in SUBSET Fresh, NEW v \in Pointers, v.at \in new,
           NEW push \in BOOLEAN, GcAdd(new, v, push)
    PROVE  Effect
  BY DEF Effect, Adds

LEMMA NewEffect ==
    ASSUME Inv, pc = "run", NEW n, NEW k \in {"string", "error"}, New(n, k)
    PROVE  Effect
  <1>1. PICK a \in Fresh : GcAdd({a}, Obj(k, a), FALSE)
    BY DEF New
  <1>2. Obj(k, a) \in Pointers /\ Obj(k, a).at \in {a}
    BY InvTypes, FreshOK, ObjOK
  <1>3. {a} \in SUBSET Fresh /\ FALSE \in BOOLEAN
    OBVIOUS
  <1> QED BY <1>1, <1>2, <1>3, Added

LEMMA SliceEffect ==
    ASSUME Inv, pc = "run", NEW k \in {"array", "string", "error"}, NEW es, Slice(k, es)
    PROVE  Effect
  <1>1. PICK a \in Fresh : GcAdd({a}, Obj(k, a), TRUE)
    BY DEF Slice
  <1>2. Obj(k, a) \in Pointers /\ Obj(k, a).at \in {a}
    BY InvTypes, FreshOK, ObjOK
  <1>3. {a} \in SUBSET Fresh /\ TRUE \in BOOLEAN
    OBVIOUS
  <1> QED BY <1>1, <1>2, <1>3, Added

LEMMA PlainEffect == ASSUME Inv, pc = "run", NEW n, NEW v, Plain(n, v)
                     PROVE  Effect
  BY NothingNew DEF Plain

\* The machine is running whenever an instruction executes.
LEMMA RunningNow == \A n : Operands(n) => pc = "run"
  BY DEF Operands, Running

LEMMA PushEffect == ASSUME Inv, Push PROVE Effect
  <1>1. pc = "run"
    BY DEF Push, Const, Immediate, GetGlobal, GetLocal, Running
  <1>2. \E v : Plain(0, v)
    BY DEF Push, Const, Immediate, GetGlobal, GetLocal
  <1> QED BY <1>1, <1>2, PlainEffect

LEMMA StoreEffect == ASSUME Inv, Store PROVE Effect
  <1>1. Operands(1) /\ UNCHANGED <<marked, list, ctl>>
    BY DEF Store, SetGlobal, SetLocal, Pop
  <1> QED BY <1>1, RunningNow, NothingNew

LEMMA FlowEffect == ASSUME Inv, Flow PROVE Effect
  <1>1. CASE CallFunction
    <2>1. pc = "run" /\ (Fault \/ UNCHANGED <<marked, list, ctl>>)
      BY <1>1, RunningNow DEF CallFunction
    <2> QED BY <2>1, NothingNew DEF Effect
  <1>2. CASE ReturnValue \/ ReturnNull
    <2>1. pc = "run" /\ UNCHANGED <<marked, list, ctl>>
      BY <1>2 DEF ReturnValue, ReturnNull, Return, Operands, Running
    <2> QED BY <2>1, NothingNew
  <1>3. CASE FetchFault
    BY <1>3 DEF FetchFault, Effect
  <1>4. CASE VmFree
    BY <1>4 DEF VmFree, Running, Effect
  <1> QED BY <1>1, <1>2, <1>3, <1>4 DEF Flow

LEMMA OperateEffect == ASSUME Inv, Operate PROVE Effect
  <1>1. pc = "run"
    BY RunningNow
    DEF Operate, BinaryPrim, DivideByZero, CompareStrings, Concat, Bang, Minus
  <1>2. \/ Fault
        \/ \E n, v : Plain(n, v)
        \/ \E n : \E k \in {"string", "error"} : New(n, k)
    BY DEF Operate, BinaryPrim, DivideByZero, CompareStrings, Concat, Bang, Minus
  <1>3. Fault => Effect
    BY <1>1 DEF Effect
  <1> QED BY <1>1, <1>2, <1>3, PlainEffect, NewEffect

LEMMA ArrayEffect == ASSUME Inv, Array PROVE Effect
  <1>1. pc = "run"
    BY RunningNow DEF Array
  <1>2. Fault => Effect
    BY <1>1 DEF Effect
  <1>3. ASSUME NEW n \in 0 .. MaxElems, Operands(n), NEW m \in Copies(Args(n)), NEW a \in Fresh,
               GcAdd(Range(m) \cup {a}, Obj("array", a), FALSE)
        PROVE  Effect
    <2>1. Args(n) \in Seq(Object) /\ TypeOK
      BY <1>3, OperandsOK, SizeAssumption, InvTypes DEF Inv
    <2>2. Range(m) \cup {a} \in SUBSET Fresh /\ FALSE \in BOOLEAN
      BY <2>1, CopiesOK
    <2>3. Obj("array", a) \in Pointers /\ Obj("array", a).at \in Range(m) \cup {a}
      BY <2>1, FreshOK, ObjOK
    <2> QED BY <1>1, <1>3, <2>2, <2>3, Added
  <1> QED BY <1>2, <1>3 DEF Array

LEMMA IndexEffect == ASSUME Inv, Index PROVE Effect
  <1>1. CASE SliceArray \/ SliceString \/ SliceError
    <2>1. pc = "run"
      BY <1>1, RunningNow DEF SliceArray, SliceString, SliceError
    <2>2. Fault \/ \E k \in {"array", "string", "error"} : \E es : Slice(k, es)
      BY <1>1 DEF SliceArray, SliceString, SliceError
    <2>3. Fault => Effect
      BY <2>1 DEF Effect
    <2> QED BY <2>1, <2>2, <2>3, SliceEffect
  <1>2. CASE IndexGet \/ IndexGetChar \/ IndexGetError \/ IndexSetError
    <2>1. pc = "run"
      BY <1>2, RunningNow DEF IndexGet, IndexGetChar, IndexGetError, IndexSetError
    <2>2. \/ Fault
          \/ \E n, v : Plain(n, v)
          \/ \E n : \E k \in {"string", "error"} : New(n, k)
      BY <1>2 DEF IndexGet, IndexGetChar, IndexGetError, IndexSetError
    <2>3. Fault => Effect
      BY <2>1 DEF Effect
    <2> QED BY <2>1, <2>2, <2>3, PlainEffect, NewEffect
  <1>3. CASE IndexSet
    <2>1. Operands(3) /\ pc = "run" /\ 3 \in Nat /\ 1 \in 1 .. 3
      BY <1>3, RunningNow DEF IndexSet
    <2>2. <<Top(1)>> \in Seq(Object)
      <3>1. Top(1) \in Object
        BY <2>1, OperandsOK DEF Inv
      <3> QED BY <3>1
    <2>3. Fault => Effect
      BY <2>1 DEF Effect
    <2>4. Fault \/ \E m \in Copies(<<Top(1)>>) :
                      marked' = Unmarked(Range(m)) /\ UNCHANGED <<list, ctl>>
      BY <1>3 DEF IndexSet
    <2> QED BY <2>1, <2>2, <2>3, <2>4, CopiesLeft
  <1> QED BY <1>1, <1>2, <1>3, ArrayEffect DEF Index

LEMMA CallEffect == ASSUME Inv, Call PROVE Effect
  <1>1. pc = "run"
    BY RunningNow
    DEF Call, BuiltinPlain, BuiltinNew, StrSplit, ArrayPop, ArrayPush, Builtin
  <1>2. Fault => Effect
    BY <1>1 DEF Effect
  <1>3. CASE BuiltinPlain
    BY <1>1, <1>2, <1>3, PlainEffect DEF BuiltinPlain
  <1>4. CASE BuiltinNew
    BY <1>1, <1>4, NewEffect DEF BuiltinNew
  <1>5. CASE StrSplit
    <2>1. \/ Fault
          \/ \E n \in 1 .. MaxElems : \E m \in Injection(1 .. n, Fresh) : \E a \in Fresh :
                GcAdd(Range(m) \cup {a}, Obj("array", a), FALSE)
      BY <1>5, Zenon DEF StrSplit
    <2>2. ASSUME NEW n \in 1 .. MaxElems, NEW m \in Injection(1 .. n, Fresh), NEW a \in Fresh,
                 GcAdd(Range(m) \cup {a}, Obj("array", a), FALSE)
          PROVE  Effect
      <3>1. Range(m) \cup {a} \in SUBSET Fresh /\ FALSE \in BOOLEAN
        BY DEF Injection, Range
      <3>2. Obj("array", a) \in Pointers /\ Obj("array", a).at \in Range(m) \cup {a}
        BY InvTypes, FreshOK, ObjOK
      <3> QED BY <1>1, <2>2, <3>1, <3>2, Added
    <2> QED BY <1>2, <2>1, <2>2
  <1>6. CASE ArrayPop
    <2>1. Operands(2) /\ 2 \in Nat /\ 1 \in 1 .. 2 /\ Is(Top(1), "array")
      BY <1>6 DEF ArrayPop, Builtin
    <2>2. Top(1) \in Object
      BY <2>1, OperandsOK DEF Inv
    <2> DEFINE vs == elems[Top(1).at]
               v  == vs[Len(vs)]
    <2>3. CASE Fault
      BY <1>2, <2>3
    <2>4. CASE ~Fault
      <3>1. /\ ~Dead(Top(1)) /\ vs # << >>
            /\ \E m \in Copies(<<v>>) :
                  IF IsPtr(v) THEN GcAdd(Range(m), Copy(m, 1, v), FALSE)
                  ELSE UNCHANGED <<marked, list, ctl>>
        BY <1>6, <2>4 DEF ArrayPop
      <3>2. v \in Object
        <4>1. vs \in Seq(Object)
          BY <2>1, <2>2, <3>1, ArrayOperand
        <4> HIDE DEF vs
        <4> QED BY <3>1, <4>1
      <3> HIDE DEF v
      <3>3. PICK m \in Copies(<<v>>) :
                  IF IsPtr(v) THEN GcAdd(Range(m), Copy(m, 1, v), FALSE)
                  ELSE UNCHANGED <<marked, list, ctl>>
        BY <3>1
      <3>4. CASE ~IsPtr(v)
        BY <1>1, <3>3, <3>4, NothingNew
      <3>5. CASE IsPtr(v)
        <4>1. TypeOK /\ <<v>> \in Seq(Object) /\ FALSE \in BOOLEAN
          BY <3>2, InvTypes
        <4>2. /\ Copy(m, 1, v) \in Object /\ IsPtr(Copy(m, 1, v))
              /\ Copy(m, 1, v).at \in Range(m)
          BY <3>2, <3>5, <4>1, OneCopy
        <4>3. Copy(m, 1, v) \in Pointers
          BY <4>2, ObjectAt
        <4>4. Range(m) \in SUBSET Fresh
          BY <4>1, CopiesOK
        <4> QED BY <1>1, <3>3, <3>5, <4>1, <4>2, <4>3, <4>4, Added
      <3> QED BY <3>4, <3>5
    <2> QED BY <2>3, <2>4
  <1>7. CASE ArrayPush
    <2>1. Operands(3) /\ 3 \in Nat /\ 1 \in 1 .. 3
      BY <1>7 DEF ArrayPush, Builtin
    <2>2. <<Top(1)>> \in Seq(Object)
      <3>1. Top(1) \in Object
        BY <2>1, OperandsOK DEF Inv
      <3> QED BY <3>1
    <2>3. Fault \/ \E m \in Copies(<<Top(1)>>) :
                      marked' = Unmarked(Range(m)) /\ UNCHANGED <<list, ctl>>
      BY <1>7 DEF ArrayPush
    <2> QED BY <1>1, <1>2, <2>2, <2>3, CopiesLeft
  <1> QED BY <1>3, <1>4, <1>5, <1>6, <1>7 DEF Call

\* An instruction of the program, or a step of the collection it started.
LEMMA StepKinds == ASSUME Inv, Next PROVE Effect \/ Collect
  <1>1. Beyond => Effect
    BY BeyondStops DEF Effect
  <1> QED BY <1>1, PushEffect, StoreEffect, FlowEffect, OperateEffect, IndexEffect, CallEffect
          DEF Next

----------------------------------------------------------------------------
(***************************************************************************)
(* The marks                                                               *)
(***************************************************************************)

\* The addresses of the heap list are distinct addresses.
LEMMA Listed == ASSUME Inv
                PROVE  /\ heap \in Seq(Pointers) /\ Len(heap) \in Nat /\ DOMAIN heap = 1 .. Len(heap)
                       /\ \A i \in 1 .. Len(heap) :
                             /\ heap[i] \in Pointers /\ heap[i].at \in Ats(heap)
                             /\ heap[i].at \in Addr /\ heap[i].at \in live
                             /\ heap[i].at \in HeapAddr /\ heap[i].at \notin Elements
                       /\ \A i, j \in 1 .. Len(heap) : heap[i].at = heap[j].at => i = j
  <1>1. heap \in Seq(Pointers)
    BY DEF Inv, Registry
  <1>2. \A p \in Pointers : p.at # None /\ p.at \in Addr
    BY AddrAssumption DEF Pointers
  <1>3. Len(heap) \in Nat /\ DOMAIN heap = 1 .. Len(heap)
    BY <1>1
  <1>4. \A i \in 1 .. Len(heap) : heap[i] \in Pointers /\ heap[i].at \in Ats(heap)
    BY <1>1, <1>2, <1>3 DEF Ats
  <1> QED BY <1>1, <1>2, <1>3, <1>4 DEF Inv, Registry, HeapOwned

\* Appending a new object, whose mark is clear, or any object once all marks are clear.
LEMMA AppendMarks ==
    ASSUME Inv, NEW v, heap' = Append(heap, v), pc' = "run",
           \A a \in Addr : marked'[a] => marked[a],
           \/ OneStaleMark /\ pc = "run" /\ ~marked'[v.at]
           \/ \A i \in 1 .. Len(heap) : heap[i].type = "error" \/ ~marked[heap[i].at]
    PROVE  Marks'
  <1> DEFINE n == Len(heap)
  <1>1. /\ n \in Nat /\ DOMAIN heap = 1 .. n
        /\ \A i \in 1 .. n : heap[i].at \in Addr
    BY Listed
  <1>2. /\ DOMAIN heap' = 1 .. n + 1 /\ heap'[n + 1] = v
        /\ \A i \in 1 .. n : heap'[i] = heap[i]
    <2>1. heap \in Seq(Pointers)
      BY Listed
    <2> QED BY <2>1
  <1>3. \A i \in 1 .. n + 1 : i \in 1 .. n \/ i = n + 1
    BY <1>1
  <1> HIDE DEF n
  <1>4. OneStaleMark'
    <2> SUFFICES ASSUME NEW i \in 1 .. n + 1, NEW j \in 1 .. n + 1,
                        heap'[i].type # "error", heap'[j].type # "error",
                        marked'[heap'[i].at], marked'[heap'[j].at]
                 PROVE  i = j
      BY <1>2 DEF OneStaleMark
    <2>1. CASE OneStaleMark /\ pc = "run" /\ ~marked'[v.at]
      BY <1>1, <1>2, <1>3, <2>1 DEF OneStaleMark
    <2>2. CASE \A k \in 1 .. n : heap[k].type = "error" \/ ~marked[heap[k].at]
      BY <1>1, <1>2, <1>3, <2>2
    <2> QED BY <2>1, <2>2 DEF n
  <1>5. SweptUnmarked'
    BY DEF SweptUnmarked
  <1> QED BY <1>4, <1>5 DEF Marks

LEMMA EffectMarks == ASSUME Inv, Marks, Effect PROVE Marks'
  <1>1. pc = "run" /\ OneStaleMark
    BY DEF Effect, Marks
  <1>2. CASE Fault \/ Overrun
    BY <1>2 DEF Fault, Overrun, Marks, SweptUnmarked, OneStaleMark
  <1>3. ASSUME NEW new \in SUBSET Fresh, Leaves(new) PROVE Marks'
    <2>1. heap' = heap /\ pc' = pc /\ marked' = Unmarked(new)
      BY <1>3 DEF Leaves, list, ctl
    <2>2. \A a \in Addr : marked'[a] => marked[a]
      BY <2>1 DEF Unmarked
    <2>3. \A i \in DOMAIN heap : heap[i].at \in Addr
      BY Listed
    <2>4. OneStaleMark'
      BY <1>1, <2>1, <2>2, <2>3 DEF OneStaleMark
    <2> QED BY <1>1, <2>1, <2>4 DEF Marks, SweptUnmarked
  <1>4. ASSUME NEW new \in SUBSET Fresh, NEW v \in Pointers, Adds(new, v) PROVE Marks'
    <2>1. v.at \in new /\ v.at \in Addr
      BY <1>4 DEF Adds, Pointers
    <2>2. CASE AppendHeap(v) /\ marked' = Unmarked(new) /\ UNCHANGED ctl
      <3>1. heap' = Append(heap, v) /\ pc' = "run"
        BY <1>1, <2>2 DEF AppendHeap, ctl
      <3>2. (\A a \in Addr : marked'[a] => marked[a]) /\ ~marked'[v.at]
        BY <2>1, <2>2 DEF Unmarked
      <3> QED BY <1>1, <3>1, <3>2, AppendMarks
    <2>3. CASE pc' = "sweep" /\ at' = Len(heap) /\ UNCHANGED list
      <3>1. heap' = heap /\ Len(heap) \in Nat
        BY <2>3, Listed DEF list
      <3>2. \A i \in at' + 1 .. Len(heap') : FALSE
        BY <2>3, <3>1
      <3> QED BY <2>3, <3>2 DEF Marks, SweptUnmarked, OneStaleMark
    <2>4. CASE pc' = "fault"
      BY <2>4 DEF Marks, SweptUnmarked, OneStaleMark
    <2> QED BY <1>4, <2>2, <2>3, <2>4 DEF Adds, GcAdd
  <1>5. CASE heap' = << >> /\ pc' = "freed"
    BY <1>5 DEF Marks, SweptUnmarked, OneStaleMark
  <1> QED BY <1>2, <1>3, <1>4, <1>5 DEF Effect

\* A step of the sweep that goes down past the entry it examined.
LEMMA DownMarks ==
    ASSUME Inv, Marks, Sweeping, Len(heap') \in Nat, Len(heap') <= Len(heap),
           pc' = "sweep", at' = at - 1,
           \A a \in Addr : marked'[a] => marked[a],
           \A i \in at + 1 .. Len(heap') : heap'[i] = heap[i],
           at <= Len(heap') =>
              \/ heap'[at].type = "error" \/ ~marked'[heap'[at].at]
              \/ \E j \in at + 1 .. Len(heap) : heap'[at] = heap[j]
    PROVE  Marks'
  <1>1. at \in Nat /\ Len(heap) \in Nat
    BY Listed DEF Inv, Registry
  <1>2. \A i \in at + 1 .. Len(heap) : heap[i].type = "error" \/ ~marked[heap[i].at]
    BY DEF Marks, SweptUnmarked, Sweeping
  <1>3. \A i \in at + 1 .. Len(heap) : heap[i].at \in Addr
    BY <1>1, Listed
  <1>4. ASSUME NEW i \in at' + 1 .. Len(heap')
        PROVE  heap'[i].type = "error" \/ ~marked'[heap'[i].at]
    <2>1. i = at \/ i \in at + 1 .. Len(heap')
      BY <1>1
    <2>2. \A k \in at + 1 .. Len(heap') : k \in at + 1 .. Len(heap)
      BY <1>1
    <2>3. i = at => at <= Len(heap')
      BY <1>1
    <2>4. CASE i = at
      <3>1. \A j \in at + 1 .. Len(heap) : heap[j].type = "error" \/ ~marked'[heap[j].at]
        BY <1>2, <1>3
      <3>2. \/ heap'[i].type = "error" \/ ~marked'[heap'[i].at]
            \/ \E j \in at + 1 .. Len(heap) : heap'[i] = heap[j]
        BY <2>3, <2>4
      <3> QED BY <3>1, <3>2
    <2>5. CASE i \in at + 1 .. Len(heap')
      <3>1. heap'[i] = heap[i] /\ i \in at + 1 .. Len(heap)
        BY <2>2, <2>5
      <3> QED BY <1>2, <1>3, <3>1
    <2> QED BY <2>1, <2>4, <2>5
  <1> QED BY <1>4 DEF Marks, SweptUnmarked, OneStaleMark

LEMMA CollectMarks == ASSUME Inv, Marks, Collect PROVE Marks'
  <1>1. /\ heap \in Seq(Pointers) /\ Len(heap) \in Nat /\ at \in Nat
        /\ marked \in [Addr -> BOOLEAN]
        /\ Sweeping => at \in 1 .. Len(heap) /\ Entry.at \in Addr /\ pc = "sweep"
    <2>1. Sweeping => at \in 1 .. Len(heap) /\ pc = "sweep"
      BY Listed DEF Inv, Registry, CtlOK, Sweeping
    <2> QED BY <2>1, Listed DEF Inv, Registry, Entry
  <1>2. CASE SkipError
    <2>1. Sweeping /\ heap' = heap /\ pc' = pc /\ marked' = marked /\ at' = at - 1
          /\ Entry.type = "error"
      BY <1>2 DEF SkipError, list
    <2> QED BY <1>1, <2>1, DownMarks DEF Entry
  <1>3. CASE Unmark
    <2>1. /\ Sweeping /\ heap' = heap /\ pc' = pc /\ at' = at - 1
          /\ marked' = [marked EXCEPT ![Entry.at] = FALSE]
      BY <1>3 DEF Unmark, list
    <2>2. (\A a \in Addr : marked'[a] => marked[a]) /\ ~marked'[Entry.at]
      BY <1>1, <2>1
    <2> QED BY <1>1, <2>1, <2>2, DownMarks DEF Entry
  <1>4. CASE Reclaim
    <2>1. /\ Sweeping /\ heap' = SwapRemove(heap, at) /\ pc' = pc /\ at' = at - 1
          /\ marked' = Unmarked(Tree(Entry))
      BY <1>4 DEF Reclaim, FreeTree
    <2>2. \A a \in Addr : marked'[a] => marked[a]
      BY <2>1 DEF Unmarked
    <2> DEFINE n == Len(heap)
    <2>3. Len(heap') = n - 1 /\ n - 1 \in Nat
          /\ \A j \in 1 .. n - 1 : heap'[j] = IF j = at THEN heap[n] ELSE heap[j]
      <3>1. \A x, y \in DOMAIN heap : x # y => heap[x].at # heap[y].at
        BY Listed
      <3>2. Len(heap') = n - 1
        BY <1>1, <2>1, <3>1, SwapRemoveOK
      <3>3. n - 1 \in Nat
        BY <1>1, <2>1
      <3> QED BY <2>1, <3>2, <3>3 DEF SwapRemove
    <2>4. \A i \in at + 1 .. n - 1 : i \in 1 .. n - 1 /\ i # at
      BY <1>1
    <2>5. at <= n - 1 => n \in at + 1 .. n /\ at \in 1 .. n - 1
      BY <1>1, <2>1
    <2>6. Len(heap') \in Nat /\ Len(heap') <= n
      BY <1>1, <2>3
    <2>7. \A i \in at + 1 .. Len(heap') : heap'[i] = heap[i]
      BY <2>3, <2>4
    <2>8. at <= Len(heap') => \E j \in at + 1 .. n : heap'[at] = heap[j]
      BY <2>3, <2>5
    <2> QED BY <1>1, <2>1, <2>2, <2>6, <2>7, <2>8, DownMarks
  <1>5. CASE SweepFault
    BY <1>5 DEF SweepFault, Fault, Marks, SweptUnmarked, OneStaleMark
  <1>6. CASE Register
    <2>1. /\ pc = "sweep" /\ at = 0 /\ heap' = Append(heap, pending.obj) /\ pc' = "run"
          /\ marked' = marked
      BY <1>6 DEF Register, AppendHeap
    <2>2. \A i \in 1 .. Len(heap) : heap[i].type = "error" \/ ~marked[heap[i].at]
      BY <2>1 DEF Marks, SweptUnmarked
    <2> QED BY <2>1, <2>2, AppendMarks
  <1> QED BY <1>2, <1>3, <1>4, <1>5, <1>6 DEF Collect

LEMMA NextMarks == Inv /\ Marks /\ [Next]_vars => Marks'
  <1> SUFFICES ASSUME Inv, Marks, [Next]_vars PROVE Marks'
    OBVIOUS
  <1>1. CASE UNCHANGED vars
    BY <1>1 DEF vars, Marks, SweptUnmarked, OneStaleMark
  <1>2. CASE Next
    BY <1>2, StepKinds, EffectMarks, CollectMarks
  <1> QED BY <1>1, <1>2

----------------------------------------------------------------------------
(***************************************************************************)
(* The theorems                                                            *)
(***************************************************************************)

\* What the sweep has passed carries no mark, although SwapRemove moves entries over the
\* place of the one it frees (gc_sweep() in gc.c), and between two instructions at most one
\* registered object still carries the mark of an earlier collection (gc_add() in gc.c marks
\* the new object before it is registered).
THEOREM MarksTakenBack == Spec => []Marks
  <1>1. Init => Marks
    BY DEF Init, Marks, SweptUnmarked, OneStaleMark
  <1> QED BY <1>1, Invariance, NextMarks, PTL DEF Spec

\* Below its threshold of 80% the heap list never is full: it is a collection that lets
\* its capacity grow (gc_add(), append_to_object_list() in gc.c and object.c).
THEOREM GrowsOnlyAfterSweep == Spec => GrowsAfterSweep
  <1>1. ASSUME Inv, [Next]_vars, cap' # cap PROVE pc = "sweep"
    <2>1. \A n \in Nat, c \in Nat \ {0} : ~(5 * n >= 4 * c) => n # c
      OBVIOUS
    <2>2. Len(heap) \in Nat /\ cap \in Nat \ {0}
      <3>1. Len(heap) \in Nat
        BY <1>1, Listed
      <3> QED BY <1>1, <3>1 DEF Inv, Registry
    <2>3. \A v : ~Due /\ AppendHeap(v) => cap' = cap
      BY <2>1, <2>2 DEF Due, AppendHeap
    <2>4. CASE Effect
      <3>1. \/ Fault \/ Overrun \/ cap' = cap
            \/ \E new \in SUBSET Fresh : Leaves(new)
            \/ \E new \in SUBSET Fresh, v \in Pointers : Adds(new, v)
        BY <2>4 DEF Effect
      <3>2. Fault \/ Overrun => cap' = cap
        BY DEF Fault, Overrun, list
      <3>3. ASSUME NEW new, Leaves(new) PROVE cap' = cap
        BY <3>3 DEF Leaves, list
      <3>4. ASSUME NEW new, NEW v, Adds(new, v) PROVE cap' = cap
        BY <2>3, <3>4 DEF Adds, GcAdd, list
      <3> QED BY <1>1, <3>1, <3>2, <3>3, <3>4
    <2>5. CASE Collect
      BY <1>1, <2>5 DEF Collect, SkipError, Unmark, Reclaim, SweepFault, Register, Sweeping,
         Fault, list
    <2>6. CASE UNCHANGED vars
      BY <1>1, <2>6 DEF vars
    <2> QED BY <1>1, <2>4, <2>5, <2>6, StepKinds
  <1>2. Inv /\ [Next]_vars => [cap' # cap => pc = "sweep"]_vars
    BY <1>1
  <1> QED BY <1>2, Invariance, PTL DEF Spec, GrowsAfterSweep
=============================================================================
