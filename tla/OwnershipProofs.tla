---------------------------- MODULE OwnershipProofs ----------------------------
(***************************************************************************)
(* Proofs about who owns what in the memory of the virtual machine, for    *)
(* every program that slices no array of heap objects and all values of    *)
(* the constants: every element belongs to one array only, because all     *)
(* that builds or extends an array copies (object.c, vm.c, builtins.c).    *)
(***************************************************************************)
EXTENDS VmHeapProofs

----------------------------------------------------------------------------
(***************************************************************************)
(* Trees, as functions of the table E of the elements of each address      *)
(***************************************************************************)

Tables == [Addr -> Seq(Object)]

Elts(E)        == UNION {Ats(E[a]) : a \in Addr}
ClosedIn(E, S) == \A x \in S : Ats(E[x]) \subseteq S
BelowIn(E, a)  == {x \in Elts(E) : Ats(E[a]) # {} /\
                     \A S \in SUBSET Elts(E) : Ats(E[a]) \subseteq S /\ ClosedIn(E, S) => x \in S}
ReachIn(E, a)  == {a} \cup BelowIn(E, a)

\* An address is in one slot of one array at most.
OneSlot(E) == \A a, b \in Addr : \A i \in DOMAIN E[a], j \in DOMAIN E[b] :
    IsPtr(E[a][i]) /\ E[a][i].at = E[b][j].at => a = b /\ i = j

\* The trees of the machine, before and after a step.
LEMMA TreesNow ==
    /\ Elements = Elts(elems) /\ Elements' = Elts(elems')
    /\ \A a : Below(a) = BelowIn(elems, a)
    /\ \A a : Below(a)' = BelowIn(elems', a)
    /\ \A v : IsPtr(v) => Tree(v) = ReachIn(elems, v.at)
    /\ \A v : IsPtr(v) => Tree(v)' = ReachIn(elems', v.at)
    /\ \A v : ~IsPtr(v) => Tree(v) = {} /\ Tree(v)' = {}
  <1>1. Elements = Elts(elems) /\ Elements' = Elts(elems')
    BY DEF Elements, Elts, Ats
  <1>2. \A a : Below(a) = BelowIn(elems, a)
    BY <1>1 DEF Below, BelowIn, Closed, ClosedIn
  <1>3. \A a : Below(a)' = BelowIn(elems', a)
    BY <1>1 DEF Below, BelowIn, Closed, ClosedIn, Ats
  <1>4. \A v : IsPtr(v) => Tree(v) = ReachIn(elems, v.at)
    BY <1>2 DEF Tree, ReachIn
  <1>5. \A v : IsPtr(v) => Tree(v)' = ReachIn(elems', v.at)
    BY <1>3 DEF Tree, ReachIn, IsPtr
  <1>6. \A v : ~IsPtr(v) => Tree(v) = {} /\ Tree(v)' = {}
    BY DEF Tree, IsPtr
  <1> QED BY <1>1, <1>2, <1>3, <1>4, <1>5, <1>6

\* Elements are addresses, and hold the elements of every array.
LEMMA EltsOK == ASSUME NEW E \in Tables
                PROVE  /\ Elts(E) \subseteq Addr
                       /\ \A a \in Addr : Ats(E[a]) \subseteq Elts(E)
  <1>1. \A a \in Addr : Ats(E[a]) \subseteq Addr
    BY AtsSeq DEF Tables
  <1> QED BY <1>1 DEF Elts

\* What an array owns is the least set that contains its elements and is closed.
LEMMA BelowLeast == ASSUME NEW E \in Tables, NEW a \in Addr
                    PROVE  /\ BelowIn(E, a) \subseteq Elts(E) /\ BelowIn(E, a) \subseteq Addr
                           /\ Ats(E[a]) \subseteq BelowIn(E, a)
                           /\ ClosedIn(E, BelowIn(E, a))
                           /\ \A S : Ats(E[a]) \subseteq S /\ ClosedIn(E, S)
                                     => BelowIn(E, a) \subseteq S
  <1>1. BelowIn(E, a) \subseteq Elts(E) /\ BelowIn(E, a) \subseteq Addr
    BY EltsOK DEF BelowIn
  <1>2. Ats(E[a]) \subseteq BelowIn(E, a)
    BY EltsOK DEF BelowIn
  <1>3. ASSUME NEW x \in BelowIn(E, a) PROVE Ats(E[x]) \subseteq BelowIn(E, a)
    <2>1. Ats(E[x]) \subseteq Elts(E) /\ Ats(E[a]) # {}
      BY <1>1, EltsOK DEF BelowIn
    <2>2. ASSUME NEW S \in SUBSET Elts(E), Ats(E[a]) \subseteq S, ClosedIn(E, S)
          PROVE  Ats(E[x]) \subseteq S
      BY <2>2 DEF ClosedIn, BelowIn
    <2> QED BY <2>1, <2>2 DEF BelowIn
  <1>4. ASSUME NEW S, Ats(E[a]) \subseteq S, ClosedIn(E, S)
        PROVE  BelowIn(E, a) \subseteq S
    <2> DEFINE R == S \cap Elts(E)
    <2>1. R \in SUBSET Elts(E) /\ Ats(E[a]) \subseteq R
      BY <1>4, EltsOK
    <2>2. ClosedIn(E, R)
      BY <1>4, EltsOK DEF ClosedIn
    <2>3. BelowIn(E, a) \subseteq R
      <3> HIDE DEF R
      <3> QED BY <2>1, <2>2 DEF BelowIn
    <2> QED BY <2>3
  <1>5. ClosedIn(E, BelowIn(E, a))
    BY <1>3 DEF ClosedIn
  <1> QED BY <1>1, <1>2, <1>4, <1>5

\* A tree contains the elements of its members.
LEMMA ReachClosed == ASSUME NEW E \in Tables, NEW a \in Addr
                     PROVE  /\ ReachIn(E, a) \subseteq Addr /\ a \in ReachIn(E, a)
                            /\ \A x \in ReachIn(E, a) : Ats(E[x]) \subseteq BelowIn(E, a)
                            /\ BelowIn(E, a) \subseteq ReachIn(E, a)
  BY BelowLeast DEF ReachIn, ClosedIn

\* What an array owns is an element of the array or of something it owns.
LEMMA Parent == ASSUME NEW E \in Tables, NEW a \in Addr, NEW y \in BelowIn(E, a)
                PROVE  \E x \in ReachIn(E, a) : y \in Ats(E[x])
  <1> SUFFICES ASSUME \A x \in ReachIn(E, a) : y \notin Ats(E[x]) PROVE FALSE
    OBVIOUS
  <1> DEFINE S == BelowIn(E, a) \ {y}
  <1>1. Ats(E[a]) \subseteq S
    BY ReachClosed
  <1>2. ClosedIn(E, S)
    <2>1. \A x \in S : x \in ReachIn(E, a)
      BY ReachClosed
    <2> QED BY <2>1, ReachClosed DEF ClosedIn
  <1>3. BelowIn(E, a) \subseteq S
    <2> HIDE DEF S
    <2> QED BY <1>1, <1>2, BelowLeast
  <1> QED BY <1>3

\* In a table with one slot per address an element has one parent.
LEMMA OneParent == ASSUME NEW E \in Tables, OneSlot(E), NEW x \in Addr, NEW z \in Addr,
                          NEW y \in Ats(E[x]), y \in Ats(E[z])
                   PROVE  x = z
  <1>1. E[x] \in Seq(Object) /\ E[z] \in Seq(Object)
    BY DEF Tables
  <1>2. PICK i \in DOMAIN E[x] : E[x][i].at = y /\ IsPtr(E[x][i])
    BY <1>1, AtsSeq
  <1>3. PICK j \in DOMAIN E[z] : E[z][j].at = y
    BY <1>1, AtsSeq
  <1> QED BY <1>2, <1>3 DEF OneSlot

\* Trees of different objects that are no elements do not meet.
LEMMA DisjointTrees ==
    ASSUME NEW E \in Tables, OneSlot(E), NEW a \in Addr \ Elts(E), NEW b \in Addr \ Elts(E),
           a # b
    PROVE  ReachIn(E, a) \cap ReachIn(E, b) = {}
  <1> DEFINE S == BelowIn(E, a) \ BelowIn(E, b)
  <1>1. /\ BelowIn(E, a) \subseteq Elts(E) /\ BelowIn(E, b) \subseteq Elts(E)
        /\ ReachIn(E, a) \subseteq Addr /\ ReachIn(E, b) \subseteq Addr
    BY BelowLeast, ReachClosed
  <1>2. ASSUME NEW x \in {a} \cup S, NEW y \in Ats(E[x]) PROVE y \in S
    <2>1. x \in ReachIn(E, a) /\ x \in Addr
      BY <1>1 DEF ReachIn
    <2>2. y \in BelowIn(E, a)
      BY <2>1, ReachClosed
    <2>3. x \notin ReachIn(E, b)
      BY <1>1 DEF ReachIn
    <2>4. ASSUME y \in BelowIn(E, b) PROVE FALSE
      <3>1. PICK z \in ReachIn(E, b) : y \in Ats(E[z])
        BY <2>4, Parent
      <3>2. z \in Addr
        BY <1>1
      <3>3. z = x
        BY <2>1, <3>1, <3>2, OneParent
      <3> QED BY <2>3, <3>3
    <2> QED BY <2>2, <2>4
  <1>3. Ats(E[a]) \subseteq S /\ ClosedIn(E, S)
    BY <1>2 DEF ClosedIn
  <1>4. BelowIn(E, a) \subseteq S
    <2> HIDE DEF S
    <2> QED BY <1>3, BelowLeast
  <1> QED BY <1>1, <1>4 DEF ReachIn

\* A tree of which nothing gains an element does not grow.
LEMMA TreeShrinks ==
    ASSUME NEW E \in Tables, NEW F \in Tables, NEW a \in Addr,
           \A x \in ReachIn(E, a) : Ats(F[x]) \subseteq Ats(E[x])
    PROVE  BelowIn(F, a) \subseteq BelowIn(E, a)
  <1>1. Ats(F[a]) \subseteq BelowIn(E, a)
    BY ReachClosed
  <1>2. ClosedIn(F, BelowIn(E, a))
    BY ReachClosed DEF ClosedIn
  <1> QED BY <1>1, <1>2, BelowLeast

\* A tree of which nothing loses an element does not shrink.
LEMMA TreeGrows ==
    ASSUME NEW E \in Tables, NEW F \in Tables, NEW a \in Addr,
           \A x \in ReachIn(E, a) : Ats(E[x]) \subseteq Ats(F[x])
    PROVE  BelowIn(E, a) \subseteq BelowIn(F, a)
  <1> DEFINE S == BelowIn(E, a) \cap BelowIn(F, a)
  <1>1. Ats(E[a]) \subseteq S
    BY ReachClosed
  <1>2. ClosedIn(E, S)
    <2> SUFFICES ASSUME NEW x \in S PROVE Ats(E[x]) \subseteq S
      BY DEF ClosedIn
    <2>1. x \in ReachIn(E, a) /\ x \in ReachIn(F, a)
      BY ReachClosed
    <2> QED BY <2>1, ReachClosed
  <1>3. BelowIn(E, a) \subseteq S
    <2> HIDE DEF S
    <2> QED BY <1>1, <1>2, BelowLeast
  <1> QED BY <1>3

\* Linking the addresses of C into trees adds addresses of C to them, and nothing else.
LEMMA TreeLinks ==
    ASSUME NEW E \in Tables, NEW F \in Tables, NEW C,
           \A x \in Addr \ C : Ats(F[x]) \subseteq Ats(E[x]) \cup C,
           \A x \in C : Ats(F[x]) \subseteq C,
           NEW a \in Addr
    PROVE  /\ BelowIn(F, a) \subseteq BelowIn(E, a) \cup C
           /\ a \in C => BelowIn(F, a) \subseteq C
  <1>1. ASSUME a \notin C PROVE BelowIn(F, a) \subseteq BelowIn(E, a) \cup C
    <2> DEFINE S == BelowIn(E, a) \cup C
    <2>1. Ats(F[a]) \subseteq S
      BY <1>1, ReachClosed
    <2>2. ClosedIn(F, S)
      <3> SUFFICES ASSUME NEW x \in S PROVE Ats(F[x]) \subseteq S
        BY DEF ClosedIn
      <3>1. CASE x \in C
        BY <3>1
      <3>2. CASE x \notin C
        <4>1. x \in ReachIn(E, a) /\ x \in Addr
          BY <3>2, ReachClosed
        <4> QED BY <3>2, <4>1, ReachClosed
      <3> QED BY <3>1, <3>2
    <2> HIDE DEF S
    <2>3. BelowIn(F, a) \subseteq S
      BY <2>1, <2>2, BelowLeast
    <2> QED BY <2>3 DEF S
  <1>2. ASSUME a \in C PROVE BelowIn(F, a) \subseteq C
    <2>1. Ats(F[a]) \subseteq C /\ ClosedIn(F, C)
      BY <1>2 DEF ClosedIn
    <2> QED BY <2>1, BelowLeast
  <1> QED BY <1>1, <1>2

\* What is allocated with all its elements is allocated with its tree.
LEMMA TreeWithin ==
    ASSUME NEW E \in Tables, NEW a \in Addr, NEW S, ClosedIn(E, S), a \in S
    PROVE  ReachIn(E, a) \subseteq S
  BY BelowLeast DEF ReachIn, ClosedIn

----------------------------------------------------------------------------
(***************************************************************************)
(* The inductive invariant, and how memory grows and shrinks               *)
(***************************************************************************)

\* SoleOwner, at every moment and of all addresses: what is not allocated owns nothing.
Own == /\ \A a \in live : Ats(elems[a]) \subseteq live
       /\ \A a \in Addr \ live : elems[a] = << >>
       /\ OneSlot(elems)

\* A handler allocates the addresses C, linked to each other, and puts some of them into
\* slots of arrays: a slot holds what it held, no pointer, or an address of C that no
\* other slot holds.
Links(C) ==
    /\ C \in SUBSET Fresh /\ live' = live \cup C /\ elems' \in Tables
    /\ \A a \in C : Ats(elems'[a]) \subseteq C
    /\ \A a \in Addr \ C : \A i \in DOMAIN elems'[a] :
          \/ i \in DOMAIN elems[a] /\ elems'[a][i] = elems[a][i]
          \/ elems'[a][i].at \in C \cup {None}
    /\ \A a \in Addr \ (C \cup live) : elems'[a] = elems[a]
    /\ \A a, b \in Addr : \A i \in DOMAIN elems'[a], j \in DOMAIN elems'[b] :
          elems'[a][i].at \in C /\ elems'[a][i].at = elems'[b][j].at => a = b /\ i = j

LEMMA TablesNow == Inv => elems \in Tables
  BY DEF Inv, Memory, Tables

\* What the fresh addresses are not.
LEMMA FreshApart == ASSUME Inv
                    PROVE  /\ Fresh \subseteq Addr /\ Fresh \subseteq HeapAddr
                           /\ Fresh \cap live = {} /\ Fresh \cap Elements = {}
  BY InvTypes, FreshOK

LEMMA LinksOwn == ASSUME Inv, Own, NEW C, Links(C) PROVE Own'
  <1>1. /\ elems \in Tables /\ elems' \in Tables /\ live' = live \cup C /\ C \subseteq Fresh
        /\ live \subseteq Addr
    BY TablesNow DEF Links, Inv, Memory
  <1>2. /\ C \cap live = {} /\ C \subseteq Addr /\ None \notin C
        /\ \A a \in Addr : C \cap Ats(elems[a]) = {}
    <2>1. \A a \in Addr : Ats(elems[a]) \subseteq Elements
      BY <1>1, EltsOK, TreesNow
    <2> QED BY <1>1, <2>1, FreshApart, AddrAssumption
  <1>3. ASSUME NEW a \in Addr, NEW i \in DOMAIN elems[a]
        PROVE  IsPtr(elems[a][i]) => elems[a][i].at \in Ats(elems[a])
    BY <1>1, AtsSeq DEF Tables
  <1>4. ASSUME NEW a \in Addr, NEW i \in DOMAIN elems'[a]
        PROVE  IsPtr(elems'[a][i]) => elems'[a][i].at \in Ats(elems'[a])
    BY <1>1, AtsSeq DEF Tables
  \* A slot that points to something else than a copy is a slot of before.
  <1>5. ASSUME NEW a \in Addr, NEW i \in DOMAIN elems'[a], IsPtr(elems'[a][i]),
               elems'[a][i].at \notin C
        PROVE  a \notin C /\ i \in DOMAIN elems[a] /\ elems'[a][i] = elems[a][i]
    <2>1. a \notin C
      BY <1>4, <1>5 DEF Links
    <2> QED BY <1>5, <2>1 DEF Links, IsPtr
  <1>6. ASSUME NEW a \in live' PROVE Ats(elems'[a]) \subseteq live'
    <2> SUFFICES ASSUME NEW y \in Ats(elems'[a]), y \notin C PROVE y \in live
      BY <1>1
    <2>1. a \in Addr
      BY <1>1, <1>2
    <2>2. PICK i \in DOMAIN elems'[a] : elems'[a][i].at = y /\ IsPtr(elems'[a][i])
      BY <1>1, <2>1, AtsSeq DEF Tables
    <2>3. a \notin C /\ i \in DOMAIN elems[a] /\ elems'[a][i] = elems[a][i]
      BY <1>5, <2>1, <2>2
    <2> QED BY <1>1, <1>3, <2>1, <2>2, <2>3 DEF Own
  <1>7. \A a \in Addr \ live' : elems'[a] = << >>
    BY <1>1 DEF Links, Own
  <1>8. ASSUME NEW a \in Addr, NEW b \in Addr, NEW i \in DOMAIN elems'[a],
               NEW j \in DOMAIN elems'[b],
               IsPtr(elems'[a][i]), elems'[a][i].at = elems'[b][j].at
        PROVE  a = b /\ i = j
    <2>1. CASE elems'[a][i].at \in C
      BY <1>8, <2>1 DEF Links
    <2>2. CASE elems'[a][i].at \notin C
      <3>1. i \in DOMAIN elems[a] /\ elems'[a][i] = elems[a][i]
        BY <1>5, <1>8, <2>2
      <3>2. IsPtr(elems'[b][j])
        BY <1>8 DEF IsPtr
      <3>3. j \in DOMAIN elems[b] /\ elems'[b][j] = elems[b][j]
        BY <1>5, <1>8, <2>2, <3>2
      <3>4. IsPtr(elems[a][i]) /\ elems[a][i].at = elems[b][j].at
        BY <1>8, <3>1, <3>3
      <3> QED BY <3>1, <3>3, <3>4 DEF Own, OneSlot
    <2> QED BY <2>1, <2>2
  <1> QED BY <1>6, <1>7, <1>8 DEF Own, OneSlot

\* Freeing a set that contains the parent of each of its elements.
LEMMA FreesOwn ==
    ASSUME Inv, Own, NEW T, FreeTree(T),
           \A y \in T \cap Elements : \E x \in T \cap Addr : y \in Ats(elems[x])
    PROVE  Own'
  <1>1. elems \in Tables /\ live' = live \ T /\ live \subseteq Addr /\ OneSlot(elems)
    BY TablesNow DEF FreeTree, Inv, Memory, Own
  <1>2. \A a \in Addr : elems'[a] = IF a \in T THEN << >> ELSE elems[a]
    BY DEF FreeTree
  <1>3. ASSUME NEW a \in live' PROVE Ats(elems'[a]) \subseteq live'
    <2> SUFFICES ASSUME NEW y \in Ats(elems[a]) PROVE y \in live /\ y \notin T
      BY <1>1, <1>2, <1>3
    <2>1. y \in live /\ a \in Addr /\ a \notin T /\ y \in Elements
      BY <1>1, <1>3, EltsOK, TreesNow DEF Own
    <2>2. ASSUME y \in T PROVE FALSE
      <3>1. PICK x \in T \cap Addr : y \in Ats(elems[x])
        BY <2>1, <2>2
      <3>2. x = a
        BY <1>1, <2>1, <3>1, OneParent
      <3> QED BY <2>1, <3>2
    <2> QED BY <2>1, <2>2
  <1>4. \A a \in Addr \ live' : elems'[a] = << >>
    BY <1>1, <1>2 DEF Own
  <1>5. OneSlot(elems')
    <2>1. \A a \in Addr : \A i \in DOMAIN elems'[a] : i \in DOMAIN elems[a] /\ elems'[a][i] = elems[a][i]
      BY <1>2
    <2> QED BY <1>1, <2>1 DEF OneSlot
  <1> QED BY <1>3, <1>4, <1>5 DEF Own

\* The trees of objects that are no elements are such sets.
LEMMA TreesOwn ==
    ASSUME Inv, Own, NEW vs, NEW D, vs \in [D -> Pointers],
           \A i \in D : vs[i].at \notin Elements,
           FreeTree(UNION {Tree(vs[i]) : i \in D})
    PROVE  Own'
  <1> DEFINE T == UNION {Tree(vs[i]) : i \in D}
  <1>1. elems \in Tables
    BY TablesNow
  <1>2. \A i \in D : IsPtr(vs[i]) /\ vs[i].at \in Addr
    BY AddrAssumption DEF Pointers, IsPtr
  <1>3. ASSUME NEW y \in T \cap Elements PROVE \E x \in T \cap Addr : y \in Ats(elems[x])
    <2>1. PICK i \in D : y \in Tree(vs[i])
      OBVIOUS
    <2>2. Tree(vs[i]) = ReachIn(elems, vs[i].at)
      BY <1>2, TreesNow
    <2>3. y \in BelowIn(elems, vs[i].at)
      BY <2>1, <2>2 DEF ReachIn
    <2>4. PICK x \in ReachIn(elems, vs[i].at) : y \in Ats(elems[x])
      BY <1>1, <1>2, <2>3, Parent
    <2>5. x \in Addr /\ x \in Tree(vs[i])
      BY <1>1, <1>2, <2>2, <2>4, ReachClosed
    <2> QED BY <2>4, <2>5
  <1> QED BY <1>3, FreesOwn

\* Memory that a step leaves alone.
LEMMA SameOwn == ASSUME Own, UNCHANGED store PROVE Own'
  BY DEF Own, OneSlot, store

----------------------------------------------------------------------------
(***************************************************************************)
(* Copies                                                                  *)
(***************************************************************************)

\* The copies m of vs: one for each object and each address of its tree.
Mapped(vs, m) ==
    /\ Range(m) \subseteq Fresh
    /\ \A i \in DOMAIN vs : \A x \in Tree(vs[i]) : m[<<i, x>>] \in Range(m)
    /\ \A c \in Range(m) : \E i \in DOMAIN vs : \E x \in Tree(vs[i]) : c = m[<<i, x>>]
    /\ \A i, k \in DOMAIN vs : \A x \in Tree(vs[i]), y \in Tree(vs[k]) :
          m[<<i, x>>] = m[<<k, y>>] => i = k /\ x = y
    /\ \A i \in DOMAIN vs :
          IsPtr(vs[i]) => /\ vs[i].at \in Tree(vs[i]) /\ vs[i].at \in Addr
                          /\ Copy(m, i, vs[i]).at = m[<<i, vs[i].at>>]

LEMMA CopyMap == ASSUME Inv, NEW vs \in Seq(Object), NEW m \in Copies(vs)
                 PROVE  Mapped(vs, m)
  <1> DEFINE D == {p \in (DOMAIN vs) \X Addr : p[2] \in Tree(vs[p[1]])}
  <1>1. m \in [D -> Fresh] /\ Range(m) = {m[p] : p \in D}
    BY DEF Copies, Injection, Range
  <1>2. \A p, q \in D : m[p] = m[q] => p = q
    BY <1>1 DEF Copies, Injection, IsInjective
  <1>3. elems \in [Addr -> Seq(Object)] /\ \A i \in DOMAIN vs : vs[i] \in Object
    BY DEF Inv, Memory
  <1>4. ASSUME NEW i \in DOMAIN vs, NEW x \in Tree(vs[i]) PROVE <<i, x>> \in D
    <2>1. x \in Addr
      BY <1>3, TreeOK
    <2> QED BY <2>1
  <1>5. ASSUME NEW c \in Range(m)
        PROVE  \E i \in DOMAIN vs : \E x \in Tree(vs[i]) : c = m[<<i, x>>]
    <2>1. PICK p \in D : c = m[p]
      BY <1>1
    <2>2. p = <<p[1], p[2]>> /\ p[1] \in DOMAIN vs /\ p[2] \in Tree(vs[p[1]])
      OBVIOUS
    <2> QED BY <2>1, <2>2
  <1>6. ASSUME NEW i \in DOMAIN vs, NEW k \in DOMAIN vs, NEW x \in Tree(vs[i]),
               NEW y \in Tree(vs[k]), m[<<i, x>>] = m[<<k, y>>]
        PROVE  i = k /\ x = y
    <2>1. <<i, x>> \in D /\ <<k, y>> \in D
      BY <1>4
    <2> HIDE DEF D
    <2>2. <<i, x>> = <<k, y>>
      BY <1>2, <1>6, <2>1
    <2> QED BY <2>2
  <1>7. ASSUME NEW i \in DOMAIN vs, IsPtr(vs[i])
        PROVE  /\ vs[i].at \in Tree(vs[i]) /\ vs[i].at \in Addr
               /\ Copy(m, i, vs[i]).at = m[<<i, vs[i].at>>]
    BY <1>3, <1>7, TreeOK, ObjectAt DEF Copy, Obj
  <1>8. \A i \in DOMAIN vs : \A x \in Tree(vs[i]) : m[<<i, x>>] \in Range(m)
    <2> HIDE DEF D
    <2> QED BY <1>1, <1>4
  <1>9. Range(m) \subseteq Fresh
    BY <1>1
  <1> HIDE DEF D
  <1> QED BY <1>5, <1>6, <1>7, <1>8, <1>9 DEF Mapped

\* The array at a copy holds the copies of what the array copied holds.
LEMMA CopyTable ==
    ASSUME Inv, NEW vs \in Seq(Object), NEW m \in Copies(vs),
           NEW i \in DOMAIN vs, NEW x \in Tree(vs[i])
    PROVE  ElemsWith(m)[m[<<i, x>>]] = [j \in DOMAIN elems[x] |-> Copy(m, i, elems[x][j])]
  <1> DEFINE D == {p \in (DOMAIN vs) \X Addr : p[2] \in Tree(vs[p[1]])}
             b == m[<<i, x>>]
  <1>1. m \in [D -> Fresh] /\ Range(m) = {m[p] : p \in D}
    BY DEF Copies, Injection, Range
  <1>2. \A p, q \in D : m[p] = m[q] => p = q
    BY <1>1 DEF Copies, Injection, IsInjective
  <1>3. elems \in [Addr -> Seq(Object)] /\ vs[i] \in Object
    BY DEF Inv, Memory
  <1>4. x \in Addr
    BY <1>3, TreeOK
  <1>5. <<i, x>> \in D
    BY <1>4
  <1>6. b \in Range(m) /\ b \in Addr
    BY <1>1, <1>5, FreshApart
  <1>7. CopiedBy(m, b) = <<i, x>>
    BY <1>1, <1>2, <1>5 DEF CopiedBy
  <1> HIDE DEF D
  <1> DEFINE p == CopiedBy(m, b)
  <1>8. ElemsWith(m)[b] = [j \in DOMAIN elems[p[2]] |-> Copy(m, p[1], elems[p[2]][j])]
    BY <1>6 DEF ElemsWith
  <1>9. p[1] = i /\ p[2] = x
    BY <1>7
  <1> HIDE DEF p
  <1> QED BY <1>8, <1>9

\* A slot of a copy points to the copy of what the slot copied points to, never to the
\* copy of the root.
LEMMA CopySlots ==
    ASSUME Inv, NEW vs \in Seq(Object), NEW m \in Copies(vs),
           NEW c \in Range(m), NEW j \in DOMAIN ElemsWith(m)[c], IsPtr(ElemsWith(m)[c][j])
    PROVE  \E i \in DOMAIN vs : \E x \in Tree(vs[i]) :
              /\ c = m[<<i, x>>] /\ x \in Addr
              /\ j \in DOMAIN elems[x] /\ IsPtr(elems[x][j])
              /\ elems[x][j].at \in Tree(vs[i]) /\ elems[x][j].at # vs[i].at
              /\ ElemsWith(m)[c][j].at = m[<<i, elems[x][j].at>>]
  <1>1. PICK i \in DOMAIN vs : \E x \in Tree(vs[i]) : c = m[<<i, x>>]
    <2>1. Mapped(vs, m)
      BY CopyMap
    <2> QED BY <2>1 DEF Mapped
  <1>2. PICK x \in Tree(vs[i]) : c = m[<<i, x>>]
    BY <1>1
  <1>3. ElemsWith(m)[c] = [k \in DOMAIN elems[x] |-> Copy(m, i, elems[x][k])]
    BY <1>2, CopyTable
  <1>4. j \in DOMAIN elems[x] /\ ElemsWith(m)[c][j] = Copy(m, i, elems[x][j])
    BY <1>3
  <1> DEFINE e == elems[x][j]
  <1>5. IsPtr(e)
    <2> HIDE DEF e
    <2> QED BY <1>4 DEF Copy, e
  <1>6. Copy(m, i, e).at = m[<<i, e.at>>]
    <2> HIDE DEF e
    <2> QED BY <1>5 DEF Copy, Obj
  <1>7. elems \in [Addr -> Seq(Object)] /\ vs[i] \in Object
    BY DEF Inv, Memory
  <1>8. x \in Addr
    BY <1>7, TreeOK
  <1>9. e.at \in Ats(elems[x])
    BY <1>4, <1>5, <1>7, <1>8, AtsSeq
  <1>10. e.at \in Tree(vs[i]) /\ e.at \in Below(vs[i].at)
    BY <1>7, <1>9, TreeOK
  <1>11. e.at # vs[i].at
    <2>1. Acyclic
      BY DEF Inv, Memory
    <2>2. IsPtr(vs[i]) /\ vs[i].at \in Addr
      BY <1>7, TreeOK, ObjectAt
    <2> QED BY <1>7, <1>10, <2>1, <2>2, NoSelf
  <1> QED BY <1>2, <1>4, <1>5, <1>6, <1>8, <1>10, <1>11

\* The slots of copies and the copies of the roots are all different.
LEMMA CopiesUnique ==
    ASSUME Inv, Own, NEW vs \in Seq(Object), NEW m \in Copies(vs)
    PROVE  /\ \A c, d \in Range(m) :
                \A j \in DOMAIN ElemsWith(m)[c], k \in DOMAIN ElemsWith(m)[d] :
                   IsPtr(ElemsWith(m)[c][j]) /\ ElemsWith(m)[c][j].at = ElemsWith(m)[d][k].at
                      => c = d /\ j = k
           /\ \A c \in Range(m) : \A j \in DOMAIN ElemsWith(m)[c] :
                IsPtr(ElemsWith(m)[c][j]) =>
                   \A i \in DOMAIN vs : IsPtr(vs[i]) =>
                      ElemsWith(m)[c][j].at # Copy(m, i, vs[i]).at
           /\ \A i, k \in DOMAIN vs :
                IsPtr(vs[i]) /\ IsPtr(vs[k]) /\ Copy(m, i, vs[i]).at = Copy(m, k, vs[k]).at
                   => i = k
  <1>0. Mapped(vs, m)
    BY CopyMap
  <1>1. ASSUME NEW c \in Range(m), NEW d \in Range(m), NEW j \in DOMAIN ElemsWith(m)[c],
               NEW k \in DOMAIN ElemsWith(m)[d], IsPtr(ElemsWith(m)[c][j]),
               ElemsWith(m)[c][j].at = ElemsWith(m)[d][k].at
        PROVE  c = d /\ j = k
    <2>1. IsPtr(ElemsWith(m)[d][k])
      BY <1>1 DEF IsPtr
    <2>2. PICK i \in DOMAIN vs : \E x \in Tree(vs[i]) :
              /\ c = m[<<i, x>>] /\ x \in Addr
              /\ j \in DOMAIN elems[x] /\ IsPtr(elems[x][j])
              /\ elems[x][j].at \in Tree(vs[i])
              /\ ElemsWith(m)[c][j].at = m[<<i, elems[x][j].at>>]
      BY <1>1, CopySlots
    <2>3. PICK x \in Tree(vs[i]) :
              /\ c = m[<<i, x>>] /\ x \in Addr
              /\ j \in DOMAIN elems[x] /\ IsPtr(elems[x][j])
              /\ elems[x][j].at \in Tree(vs[i])
              /\ ElemsWith(m)[c][j].at = m[<<i, elems[x][j].at>>]
      BY <2>2
    <2>4. PICK h \in DOMAIN vs : \E y \in Tree(vs[h]) :
              /\ d = m[<<h, y>>] /\ y \in Addr
              /\ k \in DOMAIN elems[y]
              /\ elems[y][k].at \in Tree(vs[h])
              /\ ElemsWith(m)[d][k].at = m[<<h, elems[y][k].at>>]
      BY <2>1, CopySlots
    <2>5. PICK y \in Tree(vs[h]) :
              /\ d = m[<<h, y>>] /\ y \in Addr
              /\ k \in DOMAIN elems[y]
              /\ elems[y][k].at \in Tree(vs[h])
              /\ ElemsWith(m)[d][k].at = m[<<h, elems[y][k].at>>]
      BY <2>4
    <2>6. i = h /\ elems[x][j].at = elems[y][k].at
      BY <1>0, <1>1, <2>3, <2>5 DEF Mapped
    <2>7. x = y /\ j = k
      BY <2>3, <2>5, <2>6 DEF Own, OneSlot
    <2> QED BY <2>3, <2>5, <2>6, <2>7
  <1>2. ASSUME NEW c \in Range(m), NEW j \in DOMAIN ElemsWith(m)[c],
               IsPtr(ElemsWith(m)[c][j]), NEW i \in DOMAIN vs, IsPtr(vs[i])
        PROVE  ElemsWith(m)[c][j].at # Copy(m, i, vs[i]).at
    <2>1. PICK h \in DOMAIN vs : \E x \in Tree(vs[h]) :
              /\ c = m[<<h, x>>] /\ x \in Addr
              /\ j \in DOMAIN elems[x] /\ IsPtr(elems[x][j])
              /\ elems[x][j].at \in Tree(vs[h]) /\ elems[x][j].at # vs[h].at
              /\ ElemsWith(m)[c][j].at = m[<<h, elems[x][j].at>>]
      BY <1>2, CopySlots
    <2>2. PICK y \in Tree(vs[h]) : y # vs[h].at /\ ElemsWith(m)[c][j].at = m[<<h, y>>]
      BY <2>1
    <2>3. Copy(m, i, vs[i]).at = m[<<i, vs[i].at>>] /\ vs[i].at \in Tree(vs[i])
      BY <1>0, <1>2 DEF Mapped
    <2> QED BY <1>0, <2>2, <2>3 DEF Mapped
  <1>3. ASSUME NEW i \in DOMAIN vs, NEW k \in DOMAIN vs, IsPtr(vs[i]), IsPtr(vs[k]),
               Copy(m, i, vs[i]).at = Copy(m, k, vs[k]).at
        PROVE  i = k
    <2>1. /\ vs[i].at \in Tree(vs[i]) /\ Copy(m, i, vs[i]).at = m[<<i, vs[i].at>>]
          /\ vs[k].at \in Tree(vs[k]) /\ Copy(m, k, vs[k]).at = m[<<k, vs[k].at>>]
      BY <1>0, <1>3 DEF Mapped
    <2>2. m[<<i, vs[i].at>>] = m[<<k, vs[k].at>>]
      BY <1>3, <2>1
    <2> QED BY <1>0, <2>1, <2>2 DEF Mapped
  <1> QED BY <1>1, <1>2, <1>3

----------------------------------------------------------------------------
(***************************************************************************)
(* What the handlers link                                                  *)
(***************************************************************************)

\* A new array, or an object without elements, of plain objects.
LEMMA PlainLinks ==
    ASSUME Inv, NEW a \in Fresh, NEW es \in Seq(Object), Ats(es) = {}, Make(NoCopies, a, es)
    PROVE  Links({a})
  <1>1. a \in Addr /\ elems \in Tables
    BY FreshApart, TablesNow
  <1>2. Range(NoCopies) = {}
    BY DEF NoCopies, Range
  <1>3. ElemsWith(NoCopies) = elems
    <2>1. elems = [x \in Addr |-> elems[x]]
      BY <1>1 DEF Tables
    <2> QED BY <1>2, <2>1 DEF ElemsWith
  <1>4. elems' = [elems EXCEPT ![a] = es] /\ live' = live \cup {a}
    BY <1>2, <1>3 DEF Make
  <1>5. /\ elems' \in Tables
        /\ \A x \in Addr : elems'[x] = IF x = a THEN es ELSE elems[x]
    BY <1>1, <1>4 DEF Tables
  <1>6. \A x \in Addr : \A i : i \in DOMAIN elems'[x] => elems'[x][i].at # a
    <2> SUFFICES ASSUME NEW x \in Addr, NEW i \in DOMAIN elems'[x], elems'[x][i].at = a
                 PROVE  FALSE
      OBVIOUS
    <2>1. IsPtr(elems'[x][i])
      BY <1>1, AddrAssumption DEF IsPtr
    <2>2. a \in Ats(elems'[x])
      BY <1>5, <2>1, AtsSeq DEF Tables
    <2>3. Ats(elems'[x]) \subseteq Elements
      BY <1>1, <1>5, EltsOK, TreesNow
    <2> QED BY <2>2, <2>3, FreshApart
  <1>7. Ats(elems'[a]) \subseteq {a}
    BY <1>1, <1>5
  <1> QED BY <1>4, <1>5, <1>6, <1>7 DEF Links

\* A new array of copies.
LEMMA ArrayLinks ==
    ASSUME Inv, Own, NEW vs \in Seq(Object), NEW m \in Copies(vs), NEW a \in Fresh \ Range(m),
           NEW es \in Seq(Object), DOMAIN es = DOMAIN vs,
           \A i \in DOMAIN vs : es[i] = Copy(m, i, vs[i]),
           Make(m, a, es)
    PROVE  Links(Range(m) \cup {a})
  <1> DEFINE M == Range(m)
             C == M \cup {a}
  <1>1. TypeOK /\ elems \in Tables /\ a \in Addr /\ M \subseteq Fresh
    BY InvTypes, FreshApart, TablesNow, CopyMap DEF Mapped
  <1>2. /\ ElemsWith(m) \in Tables
        /\ \A x \in Addr \ M : ElemsWith(m)[x] = elems[x]
        /\ \A x \in M : Ats(ElemsWith(m)[x]) \subseteq M
        /\ \A i \in DOMAIN vs : /\ IsPtr(Copy(m, i, vs[i])) <=> IsPtr(vs[i])
                                /\ IsPtr(vs[i]) => Copy(m, i, vs[i]).at \in M
    BY <1>1, CopiesOK DEF Tables
  <1>3. elems' = [ElemsWith(m) EXCEPT ![a] = es] /\ live' = live \cup C
    BY DEF Make
  <1>4. /\ elems' \in Tables
        /\ elems'[a] = es
        /\ \A x \in M : elems'[x] = ElemsWith(m)[x]
        /\ \A x \in Addr \ C : elems'[x] = elems[x]
    <2>1. elems' \in Tables /\ elems'[a] = es /\ \A x \in Addr \ {a} : elems'[x] = ElemsWith(m)[x]
      BY <1>1, <1>2, <1>3 DEF Tables
    <2> QED BY <1>1, <1>2, <2>1, FreshApart
  <1>5. Ats(es) \subseteq M
    <2> SUFFICES ASSUME NEW y \in Ats(es) PROVE y \in M
      OBVIOUS
    <2>1. PICK i \in DOMAIN es : es[i].at = y /\ IsPtr(es[i])
      BY AtsSeq
    <2> QED BY <1>2, <2>1
  <1>6. C \in SUBSET Fresh /\ C \subseteq Addr /\ None \notin C
        /\ \A x \in Addr : C \cap Ats(elems[x]) = {}
    <2>1. \A x \in Addr : Ats(elems[x]) \subseteq Elements
      BY <1>1, EltsOK, TreesNow
    <2> QED BY <1>1, <2>1, FreshApart, AddrAssumption
  \* Where the slots that point to new addresses are.
  <1>7. ASSUME NEW x \in Addr, NEW i \in DOMAIN elems'[x], elems'[x][i].at \in C
        PROVE  x \in C /\ IsPtr(elems'[x][i]) /\ elems'[x][i].at \in M
    <2>1. IsPtr(elems'[x][i])
      BY <1>6, <1>7 DEF IsPtr
    <2>2. elems'[x][i].at \in Ats(elems'[x])
      BY <1>4, <2>1, AtsSeq DEF Tables
    <2>3. x \in C
      BY <1>4, <1>6, <1>7, <2>2
    <2> HIDE DEF M
    <2>4. elems'[x][i].at \in M
      BY <1>2, <1>4, <1>5, <2>2, <2>3
    <2> QED BY <2>1, <2>3, <2>4
  <1>8. ASSUME NEW x \in Addr, NEW y \in Addr, NEW i \in DOMAIN elems'[x],
               NEW j \in DOMAIN elems'[y],
               elems'[x][i].at \in C, elems'[x][i].at = elems'[y][j].at
        PROVE  x = y /\ i = j
    <2>1. x \in C /\ y \in C /\ IsPtr(elems'[x][i]) /\ IsPtr(elems'[y][j])
      BY <1>7, <1>8
    <2>2. CASE x = a /\ y = a
      BY <1>2, <1>4, <1>8, <2>1, <2>2, CopiesUnique
    <2>3. CASE x # a /\ y # a
      BY <1>4, <1>8, <2>1, <2>3, CopiesUnique
    <2>4. CASE x = a /\ y # a
      <3>1. y \in M /\ elems'[y] = ElemsWith(m)[y] /\ i \in DOMAIN vs /\ elems'[x][i] = Copy(m, i, vs[i])
        BY <1>4, <2>1, <2>4
      <3> QED BY <1>2, <1>8, <2>1, <3>1, CopiesUnique
    <2>5. CASE x # a /\ y = a
      <3>1. x \in M /\ elems'[x] = ElemsWith(m)[x] /\ j \in DOMAIN vs /\ elems'[y][j] = Copy(m, j, vs[j])
        BY <1>4, <2>1, <2>5
      <3> QED BY <1>2, <1>8, <2>1, <3>1, CopiesUnique
    <2> QED BY <2>2, <2>3, <2>4, <2>5
  <1>9. \A x \in C : Ats(elems'[x]) \subseteq C
    BY <1>2, <1>4, <1>5
  <1> HIDE DEF C
  <1>10. Links(C)
    BY <1>3, <1>4, <1>6, <1>8, <1>9 DEF Links
  <1> QED BY <1>10 DEF C

\* Copies m are allocated, and the array at t gets the elements es.
Stores(m, t, es) == MakeCopies(m) /\ elems' = [ElemsWith(m) EXCEPT ![t] = es]

\* Slot p takes the copy of v, if there is such a slot; the others keep what they hold.
OneNew(p, v, m, t, es) ==
    \A i \in DOMAIN es : \/ i \in DOMAIN elems[t] /\ es[i] = elems[t][i]
                         \/ i = p /\ es[i] = Copy(m, 1, v)

\* A copy that is put into a slot of an allocated array, or into none.
LEMMA StoreLinks ==
    ASSUME Inv, Own, NEW v \in Object, NEW m \in Copies(<<v>>), NEW t \in live,
           NEW es \in Seq(Object), NEW p, OneNew(p, v, m, t, es),
           Stores(m, t, es)
    PROVE  Links(Range(m))
  <1> USE DEF OneNew
  <1> DEFINE C == Range(m)
             vs == <<v>>
  <1>1. /\ TypeOK /\ elems \in Tables /\ t \in Addr /\ live \subseteq Addr
        /\ vs \in Seq(Object) /\ m \in Copies(vs) /\ 1 \in DOMAIN vs /\ vs[1] = v
    BY InvTypes, TablesNow DEF Inv, Memory
  <1>2. C \in SUBSET Fresh /\ C \subseteq Addr /\ None \notin C /\ t \notin C
        /\ C \cap live = {} /\ \A x \in Addr : C \cap Ats(elems[x]) = {}
    <2>1. C \subseteq Fresh
      BY <1>1, CopiesOK
    <2>2. \A x \in Addr : Ats(elems[x]) \subseteq Elements
      BY <1>1, EltsOK, TreesNow
    <2> QED BY <2>1, <2>2, FreshApart, AddrAssumption
  <1>3. /\ ElemsWith(m) \in Tables
        /\ \A x \in Addr \ C : ElemsWith(m)[x] = elems[x]
        /\ \A x \in C : Ats(ElemsWith(m)[x]) \subseteq C
    BY <1>1, CopiesOK DEF Tables
  <1>4. /\ (IsPtr(Copy(m, 1, v)) <=> IsPtr(v)) /\ (IsPtr(v) => Copy(m, 1, v).at \in C)
        /\ Copy(m, 1, v) \in Object
    BY <1>1, OneCopy
  <1>5. /\ elems' \in Tables /\ elems'[t] = es /\ live' = live \cup C
        /\ \A x \in C : elems'[x] = ElemsWith(m)[x]
        /\ \A x \in Addr \ (C \cup {t}) : elems'[x] = elems[x]
    <2>1. elems' \in Tables /\ elems'[t] = es /\ \A x \in Addr \ {t} : elems'[x] = ElemsWith(m)[x]
      BY <1>1, <1>3 DEF Tables, Stores
    <2> QED BY <1>2, <1>3, <2>1 DEF Stores, MakeCopies
  <1>6. Copy(m, 1, v).at \in C \cup {None}
    BY <1>4 DEF IsPtr
  <1>7. \A x \in Addr \ C : \A i \in DOMAIN elems'[x] :
          \/ i \in DOMAIN elems[x] /\ elems'[x][i] = elems[x][i]
          \/ elems'[x][i].at \in C \cup {None}
    BY <1>5, <1>6
  <1>8. \A x \in Addr \ (C \cup live) : elems'[x] = elems[x]
    BY <1>5
  \* The slots that point to new addresses: those of copies, and the slot p of t.
  <1>9. ASSUME NEW x \in Addr, NEW i \in DOMAIN elems'[x], elems'[x][i].at \in C
        PROVE  /\ IsPtr(elems'[x][i])
               /\ x \notin C => x = t /\ i = p /\ elems'[x][i] = Copy(m, 1, v) /\ IsPtr(v)
    <2>1. IsPtr(elems'[x][i])
      BY <1>2, <1>9 DEF IsPtr
    <2>2. ASSUME x \notin C, i \in DOMAIN elems[x], elems'[x][i] = elems[x][i] PROVE FALSE
      <3>1. elems[x][i].at \in Ats(elems[x])
        BY <1>1, <2>1, <2>2, AtsSeq DEF Tables
      <3> QED BY <1>2, <1>9, <2>2, <3>1
    <2>3. x \notin C /\ x # t => i \in DOMAIN elems[x] /\ elems'[x][i] = elems[x][i]
      BY <1>5
    <2>4. x = t => \/ i \in DOMAIN elems[x] /\ elems'[x][i] = elems[x][i]
                   \/ i = p /\ elems'[x][i] = Copy(m, 1, v)
      BY <1>5
    <2>5. ASSUME x \notin C PROVE x = t /\ i = p /\ elems'[x][i] = Copy(m, 1, v)
      BY <2>2, <2>3, <2>4, <2>5
    <2>6. x \notin C => IsPtr(Copy(m, 1, v))
      BY <2>1, <2>5
    <2> HIDE DEF C
    <2> QED BY <1>4, <2>1, <2>5, <2>6
  <1>10. ASSUME NEW x \in Addr, NEW y \in Addr, NEW i \in DOMAIN elems'[x],
                NEW j \in DOMAIN elems'[y],
                elems'[x][i].at \in C, elems'[x][i].at = elems'[y][j].at
         PROVE  x = y /\ i = j
    <2>1. /\ IsPtr(elems'[x][i])
          /\ x \notin C => x = t /\ i = p /\ elems'[x][i] = Copy(m, 1, v) /\ IsPtr(v)
      BY <1>9, <1>10
    <2>2. /\ IsPtr(elems'[y][j])
          /\ y \notin C => y = t /\ j = p /\ elems'[y][j] = Copy(m, 1, v) /\ IsPtr(v)
      BY <1>9, <1>10
    <2> HIDE DEF C
    <2>3. CASE x \in C /\ y \in C
      <3>1. elems'[x] = ElemsWith(m)[x] /\ elems'[y] = ElemsWith(m)[y]
        BY <1>5, <2>3
      <3>2. /\ i \in DOMAIN ElemsWith(m)[x] /\ j \in DOMAIN ElemsWith(m)[y]
            /\ IsPtr(ElemsWith(m)[x][i]) /\ ElemsWith(m)[x][i].at = ElemsWith(m)[y][j].at
        BY <1>10, <2>1, <3>1
      <3> HIDE DEF vs
      <3> QED BY <1>1, <2>3, <3>2, CopiesUnique DEF C
    <2>4. CASE x \in C /\ y \notin C
      <3>1. /\ elems'[x] = ElemsWith(m)[x]
            /\ elems'[x][i].at = Copy(m, 1, vs[1]).at /\ IsPtr(vs[1])
        BY <1>1, <1>5, <1>10, <2>2, <2>4
      <3> HIDE DEF vs
      <3> QED BY <1>1, <2>1, <2>4, <3>1, CopiesUnique DEF C
    <2>5. CASE x \notin C /\ y \in C
      <3>1. /\ elems'[y] = ElemsWith(m)[y]
            /\ elems'[y][j].at = Copy(m, 1, vs[1]).at /\ IsPtr(vs[1])
        BY <1>1, <1>5, <1>10, <2>1, <2>5
      <3> HIDE DEF vs
      <3> QED BY <1>1, <2>2, <2>5, <3>1, CopiesUnique DEF C
    <2>6. CASE x \notin C /\ y \notin C
      BY <2>1, <2>2, <2>6
    <2> QED BY <2>3, <2>4, <2>5, <2>6
  <1>11. \A x \in C : Ats(elems'[x]) \subseteq C
    BY <1>3, <1>5
  <1> HIDE DEF C
  <1>12. Links(C)
    BY <1>2, <1>5, <1>7, <1>8, <1>10, <1>11 DEF Links
  <1> QED BY <1>12 DEF C

\* New addresses that only new addresses point to.
LEMMA NewLinks ==
    ASSUME NEW C \in SUBSET Fresh, live' = live \cup C, elems' \in Tables,
           \A x \in C : Ats(elems'[x]) \subseteq C,
           \A x \in Addr \ C : elems'[x] = elems[x],
           \A x, y \in Addr : \A i \in DOMAIN elems'[x], j \in DOMAIN elems'[y] :
              elems'[x][i].at \in C /\ elems'[x][i].at = elems'[y][j].at => x = y /\ i = j
    PROVE  Links(C)
  BY DEF Links

\* A new array of new strings.
Splits(n, m, a) ==
    /\ live' = live \cup Range(m) \cup {a}
    /\ elems' = [x \in Addr |->
           IF x = a THEN [i \in 1 .. n |-> Obj("string", m[i])]
           ELSE IF x \in Range(m) THEN << >> ELSE elems[x]]

LEMMA SplitLinks ==
    ASSUME Inv, NEW n \in Nat, NEW m \in Injection(1 .. n, Fresh), NEW a \in Fresh \ Range(m),
           Splits(n, m, a)
    PROVE  Links(Range(m) \cup {a})
  <1> DEFINE M == Range(m)
             C == M \cup {a}
             es == [i \in 1 .. n |-> Obj("string", m[i])]
  <1>1. /\ m \in [1 .. n -> Fresh] /\ M = {m[i] : i \in 1 .. n}
        /\ \A i, j \in 1 .. n : m[i] = m[j] => i = j
    BY DEF Injection, Range, IsInjective
  <1>2. /\ elems \in Tables /\ C \in SUBSET Fresh /\ C \subseteq Addr /\ None \notin C
        /\ \A x \in Addr : C \cap Ats(elems[x]) = {}
    <2>1. elems \in Tables /\ C \subseteq Fresh
      BY <1>1, TablesNow
    <2>2. \A x \in Addr : Ats(elems[x]) \subseteq Elements
      BY <2>1, EltsOK, TreesNow
    <2> QED BY <2>1, <2>2, FreshApart, AddrAssumption
  <1>3. \A i \in 1 .. n : es[i] \in Object /\ es[i].at = m[i] /\ m[i] \in M
    BY <1>1, FreshApart, ObjOK
  <1>4. es \in Seq(Object) /\ DOMAIN es = 1 .. n
    <2>1. es \in [1 .. n -> Object]
      BY <1>3
    <2> HIDE DEF es
    <2> QED BY <2>1, SeqDef
  <1> HIDE DEF es
  <1>5. /\ elems' \in Tables
        /\ \A x \in Addr : elems'[x] = IF x = a THEN es ELSE IF x \in M THEN << >> ELSE elems[x]
    <2>1. elems' = [x \in Addr |-> IF x = a THEN es ELSE IF x \in M THEN << >> ELSE elems[x]]
      BY DEF es, Splits
    <2> HIDE DEF M
    <2> QED BY <1>2, <1>4, <2>1 DEF Tables
  <1>6. Ats(es) \subseteq M
    <2> SUFFICES ASSUME NEW y \in Ats(es) PROVE y \in M
      OBVIOUS
    <2>1. PICK i \in DOMAIN es : es[i].at = y
      BY <1>4, AtsSeq
    <2> QED BY <1>3, <1>4, <2>1
  <1>7. \A x \in C : Ats(elems'[x]) \subseteq C
    <2>1. Ats(<< >>) = {}
      BY DEF Ats
    <2> QED BY <1>2, <1>5, <1>6, <2>1
  <1>8. ASSUME NEW x \in Addr, NEW i \in DOMAIN elems'[x], elems'[x][i].at \in C
        PROVE  x = a
    <2>1. IsPtr(elems'[x][i])
      BY <1>2, <1>8 DEF IsPtr
    <2>2. elems'[x][i].at \in Ats(elems'[x])
      BY <1>5, <2>1, AtsSeq DEF Tables
    <2>3. Ats(<< >>) = {}
      BY DEF Ats
    <2> HIDE DEF M
    <2> QED BY <1>2, <1>5, <1>8, <2>2, <2>3
  <1>9. ASSUME NEW x \in Addr, NEW y \in Addr, NEW i \in DOMAIN elems'[x],
               NEW j \in DOMAIN elems'[y],
               elems'[x][i].at \in C, elems'[x][i].at = elems'[y][j].at
        PROVE  x = y /\ i = j
    <2>1. x = a /\ y = a
      BY <1>8, <1>9
    <2>2. elems'[a] = es /\ i \in 1 .. n /\ j \in 1 .. n
      BY <1>4, <1>5, <2>1
    <2> QED BY <1>1, <1>3, <1>9, <2>1, <2>2
  <1>10. \A x \in Addr \ C : elems'[x] = elems[x]
    BY <1>5
  <1>11. live' = live \cup C
    BY DEF Splits
  <1> HIDE DEF C
  <1>12. Links(C)
    BY <1>2, <1>5, <1>7, <1>9, <1>10, <1>11, NewLinks
  <1> QED BY <1>12 DEF C

----------------------------------------------------------------------------
(***************************************************************************)
(* The handlers that write to arrays                                       *)
(***************************************************************************)

\* A copy of v goes into the array at t, or is only made; without "drop" the array keeps
\* every address it holds.
Puts(v, m, t, es) ==
    /\ v \in Object /\ m \in Copies(<<v>>) /\ t \in live /\ t \in Addr /\ es \in Seq(Object)
    /\ Stores(m, t, es)
    /\ \E p : OneNew(p, v, m, t, es)
    /\ "drop" \notin Features => Ats(elems[t]) \subseteq Ats(es)

\* OPCODE_INDEX_SET and array_push().
PutsCopy(v, t) == \E m \in Copies(<<v>>) : \E es \in Seq(Object) :
    /\ Puts(v, m, t, es)
    /\ \E i \in DOMAIN es : es[i] = Copy(m, 1, v)
    /\ marked' = Unmarked(Range(m))
    /\ UNCHANGED <<list, globals, frames, ctl>>

LEMMA PutsLinks == ASSUME Inv, Own, NEW v, NEW m, NEW t, NEW es, Puts(v, m, t, es)
                   PROVE  Links(Range(m))
  <1>1. /\ v \in Object /\ m \in Copies(<<v>>) /\ t \in live /\ es \in Seq(Object)
        /\ Stores(m, t, es)
    BY DEF Puts
  <1>2. PICK p : OneNew(p, v, m, t, es)
    BY DEF Puts
  <1> QED BY <1>1, <1>2, StoreLinks

LEMMA IndexSetPuts == ASSUME Inv, IndexSet, ~Fault
                      PROVE  /\ Operands(3) /\ Top(1) \in Object /\ Result(3, Top(1))
                             /\ PutsCopy(Top(1), Top(3).at)
  <1>1. Operands(3) /\ Is(Top(3), "array") /\ Regs /\ 3 \in Nat /\ 3 \in 1 .. 3 /\ 1 \in 1 .. 3
    BY DEF IndexSet, Inv
  <1>2. Top(1) \in Object /\ Top(3) \in Object
    BY <1>1, OperandsOK
  <1> DEFINE v == Top(1)
             t == Top(3).at
  <1>3. /\ ~Dead(Top(3))
        /\ \E i \in DOMAIN elems[t] : \E m \in Copies(<<v>>) :
             /\ "drop" \in Features \/ ~IsPtr(elems[t][i])
             /\ MakeCopies(m) /\ marked' = Unmarked(Range(m))
             /\ elems' = [ElemsWith(m) EXCEPT ![t][i] = Copy(m, 1, v)]
             /\ Result(3, v)
             /\ UNCHANGED <<list, globals, frames, ctl>>
    BY DEF IndexSet
  <1>4. PICK i \in DOMAIN elems[t], m \in Copies(<<v>>) :
             /\ "drop" \in Features \/ ~IsPtr(elems[t][i])
             /\ MakeCopies(m) /\ marked' = Unmarked(Range(m))
             /\ elems' = [ElemsWith(m) EXCEPT ![t][i] = Copy(m, 1, v)]
             /\ Result(3, v)
             /\ UNCHANGED <<list, globals, frames, ctl>>
    BY <1>3
  <1>5. t \in live /\ t \in Addr /\ elems[t] \in Seq(Object)
    BY <1>1, <1>2, <1>3, ArrayOperand
  <1>6. TypeOK /\ <<v>> \in Seq(Object)
    BY <1>2, InvTypes
  <1>7. ElemsWith(m)[t] = elems[t] /\ ElemsWith(m) \in [Addr -> Seq(Object)]
    <2>1. t \notin Range(m)
      BY <1>5, <1>6, CopiesOK, FreshOK
    <2> QED BY <1>5, <1>6, <2>1, CopiesOK
  <1> DEFINE es == [elems[t] EXCEPT ![i] = Copy(m, 1, v)]
  <1>8. elems' = [ElemsWith(m) EXCEPT ![t] = es]
    BY <1>4, <1>7
  <1>9. Copy(m, 1, v) \in Object
    BY <1>2, <1>6, OneCopy
  <1>10. es \in Seq(Object) /\ DOMAIN es = DOMAIN elems[t] /\ es[i] = Copy(m, 1, v)
         /\ \A j \in DOMAIN es : j # i => es[j] = elems[t][j]
    BY <1>5, <1>9
  <1>11. ~IsPtr(elems[t][i]) => Ats(elems[t]) \subseteq Ats(es)
    <2> SUFFICES ASSUME ~IsPtr(elems[t][i]), NEW y \in Ats(elems[t]) PROVE y \in Ats(es)
      OBVIOUS
    <2>1. PICK j \in DOMAIN elems[t] : elems[t][j].at = y /\ IsPtr(elems[t][j])
      BY <1>5, AtsSeq
    <2>2. j # i
      BY <2>1
    <2> HIDE DEF es, t
    <2>3. es[j].at = y /\ IsPtr(es[j]) /\ j \in DOMAIN es
      BY <1>10, <2>1, <2>2
    <2> QED BY <1>10, <2>3, AtsSeq
  <1> HIDE DEF es
  <1>12. \A j \in DOMAIN es : \/ j \in DOMAIN elems[t] /\ es[j] = elems[t][j]
                              \/ j = i /\ es[j] = Copy(m, 1, v)
    BY <1>10
  <1>13. Puts(v, m, t, es)
    BY <1>2, <1>4, <1>5, <1>8, <1>10, <1>11, <1>12 DEF Puts, Stores, OneNew
  <1>14. PutsCopy(v, t)
    BY <1>4, <1>10, <1>13 DEF PutsCopy
  <1> QED BY <1>1, <1>2, <1>4, <1>14

LEMMA ArrayPushPuts == ASSUME Inv, ArrayPush, ~Fault
                       PROVE  /\ Operands(3) /\ Top(1) \in Object /\ Result(3, Prim)
                              /\ PutsCopy(Top(1), Top(2).at)
  <1>1. /\ Operands(3) /\ Is(Top(2), "array") /\ Regs
        /\ 3 \in Nat /\ 2 \in 1 .. 3 /\ 1 \in 1 .. 3
    BY DEF ArrayPush, Builtin, Inv
  <1>2. Top(1) \in Object /\ Top(2) \in Object
    BY <1>1, OperandsOK
  <1> DEFINE v == Top(1)
             t == Top(2).at
  <1>3. /\ ~Dead(Top(2))
        /\ \E m \in Copies(<<v>>) :
            /\ MakeCopies(m) /\ marked' = Unmarked(Range(m))
            /\ elems' = [ElemsWith(m) EXCEPT ![t] = Append(elems[t], Copy(m, 1, v))]
            /\ Result(3, Prim)
            /\ UNCHANGED <<list, globals, frames, ctl>>
    BY DEF ArrayPush
  <1>4. PICK m \in Copies(<<v>>) :
            /\ MakeCopies(m) /\ marked' = Unmarked(Range(m))
            /\ elems' = [ElemsWith(m) EXCEPT ![t] = Append(elems[t], Copy(m, 1, v))]
            /\ Result(3, Prim)
            /\ UNCHANGED <<list, globals, frames, ctl>>
    BY <1>3
  <1>5. t \in live /\ t \in Addr /\ elems[t] \in Seq(Object)
    BY <1>1, <1>2, <1>3, ArrayOperand
  <1> DEFINE es == Append(elems[t], Copy(m, 1, v))
  <1>6. Copy(m, 1, v) \in Object
    BY <1>2, InvTypes, OneCopy
  <1>7. /\ es \in Seq(Object) /\ DOMAIN es = DOMAIN elems[t] \cup {Len(elems[t]) + 1}
        /\ es[Len(elems[t]) + 1] = Copy(m, 1, v)
        /\ \A j \in DOMAIN elems[t] : es[j] = elems[t][j]
    BY <1>5, <1>6
  <1> HIDE DEF es
  <1>8. Ats(elems[t]) \subseteq Ats(es)
    <2> SUFFICES ASSUME NEW y \in Ats(elems[t]) PROVE y \in Ats(es)
      OBVIOUS
    <2>1. PICK j \in DOMAIN elems[t] : elems[t][j].at = y /\ IsPtr(elems[t][j])
      BY <1>5, AtsSeq
    <2>2. es[j].at = y /\ IsPtr(es[j]) /\ j \in DOMAIN es
      BY <1>7, <2>1
    <2> QED BY <1>7, <2>2, AtsSeq
  <1>9. \A j \in DOMAIN es : \/ j \in DOMAIN elems[t] /\ es[j] = elems[t][j]
                             \/ j = Len(elems[t]) + 1 /\ es[j] = Copy(m, 1, v)
    BY <1>7
  <1>10. Puts(v, m, t, es)
    BY <1>2, <1>4, <1>5, <1>7, <1>8, <1>9 DEF Puts, Stores, OneNew, es
  <1>11. PutsCopy(v, t)
    BY <1>4, <1>7, <1>10 DEF PutsCopy
  <1> QED BY <1>1, <1>2, <1>4, <1>11

\* What is left of a sequence without its end.
LEMMA Prefix == ASSUME NEW S, NEW s \in Seq(S), NEW n \in Nat, n <= Len(s)
                PROVE  /\ SubSeq(s, 1, n) \in Seq(S) /\ DOMAIN SubSeq(s, 1, n) = 1 .. n
                       /\ \A i \in 1 .. n : SubSeq(s, 1, n)[i] = s[i]
  <1>1. 1 \in Int /\ n \in Int /\ \A i \in 1 .. n : s[i] \in S
    OBVIOUS
  <1> DEFINE r == SubSeq(s, 1, n)
  <1>2. /\ r \in Seq(S) /\ Len(r) = (IF 1 <= n THEN n - 1 + 1 ELSE 0)
        /\ \A i \in 1 .. n - 1 + 1 : r[i] = s[1 + i - 1]
    BY <1>1, SubSeqProperties
  <1>3. Len(r) = n /\ \A i \in 1 .. n : r[i] = s[i]
    BY <1>2
  <1> HIDE DEF r
  <1>4. DOMAIN r = 1 .. n
    BY <1>2, <1>3
  <1> QED BY <1>2, <1>3, <1>4 DEF r

\* array_pop() makes a copy of the last element, which it then drops.
PopsLast(v, m, t, es) ==
    /\ Puts(v, m, t, es)
    /\ \E j \in DOMAIN elems[t] : v = elems[t][j]
    /\ Result(2, Copy(m, 1, v))
    /\ UNCHANGED <<globals, frames>>
    /\ IF IsPtr(v) THEN GcAdd(Range(m), Copy(m, 1, v), FALSE)
       ELSE UNCHANGED <<marked, list, ctl>>

LEMMA ArrayPopPuts == ASSUME Inv, ArrayPop, ~Fault
                      PROVE  /\ Operands(2)
                             /\ \E v, m, t, es : PopsLast(v, m, t, es)
  <1>1. Operands(2) /\ Is(Top(1), "array") /\ Regs /\ 2 \in Nat /\ 1 \in 1 .. 2
    BY DEF ArrayPop, Builtin, Inv
  <1>2. Top(1) \in Object
    BY <1>1, OperandsOK
  <1> DEFINE t  == Top(1).at
             vs == elems[t]
             v  == vs[Len(vs)]
             es == SubSeq(vs, 1, Len(vs) - 1)
  <1>3. /\ ~Dead(Top(1)) /\ vs # << >>
        /\ "drop" \in Features \/ ~IsPtr(v)
        /\ \E m \in Copies(<<v>>) :
             /\ MakeCopies(m)
             /\ elems' = [ElemsWith(m) EXCEPT ![t] = es]
             /\ Result(2, Copy(m, 1, v))
             /\ UNCHANGED <<globals, frames>>
             /\ IF IsPtr(v) THEN GcAdd(Range(m), Copy(m, 1, v), FALSE)
                ELSE UNCHANGED <<marked, list, ctl>>
    BY DEF ArrayPop
  <1>4. PICK m \in Copies(<<v>>) :
             /\ MakeCopies(m)
             /\ elems' = [ElemsWith(m) EXCEPT ![t] = es]
             /\ Result(2, Copy(m, 1, v))
             /\ UNCHANGED <<globals, frames>>
             /\ IF IsPtr(v) THEN GcAdd(Range(m), Copy(m, 1, v), FALSE)
                ELSE UNCHANGED <<marked, list, ctl>>
    BY <1>3
  <1>5. t \in live /\ t \in Addr /\ vs \in Seq(Object)
    BY <1>1, <1>2, <1>3, ArrayOperand
  <1> DEFINE n == Len(vs) - 1
  <1>6. n \in Nat /\ Len(vs) \in DOMAIN vs /\ v \in Object /\ DOMAIN vs = 1 .. Len(vs)
    BY <1>3, <1>5
  <1>7. es \in Seq(Object) /\ DOMAIN es = 1 .. n /\ \A i \in 1 .. n : i \in DOMAIN vs /\ es[i] = vs[i]
    <2>1. es = SubSeq(vs, 1, n)
      OBVIOUS
    <2> HIDE DEF vs, n
    <2>2. \A i \in 1 .. n : i \in DOMAIN vs /\ vs[i] \in Object
      BY <1>5, <1>6 DEF n
    <2>3. n <= Len(vs)
      BY <1>5 DEF n
    <2> QED BY <1>5, <1>6, <2>1, <2>2, <2>3, Prefix
  <1>8. \A i \in DOMAIN vs : i \in 1 .. n \/ i = Len(vs)
    BY <1>5, <1>6
  <1> HIDE DEF es, n
  <1>9. ~IsPtr(v) => Ats(vs) \subseteq Ats(es)
    <2> SUFFICES ASSUME ~IsPtr(v), NEW y \in Ats(vs) PROVE y \in Ats(es)
      OBVIOUS
    <2>1. PICK j \in DOMAIN vs : vs[j].at = y /\ IsPtr(vs[j])
      BY <1>5, AtsSeq
    <2>2. j \in 1 .. n
      BY <1>8, <2>1
    <2> HIDE DEF vs
    <2>3. es[j].at = y /\ IsPtr(es[j]) /\ j \in DOMAIN es
      BY <1>7, <2>1, <2>2
    <2> QED BY <1>7, <2>3, AtsSeq
  <1>10. \A i \in DOMAIN es : \/ i \in DOMAIN elems[t] /\ es[i] = elems[t][i]
                              \/ i = 0 /\ es[i] = Copy(m, 1, v)
    BY <1>7
  <1>11. v = elems[t][Len(vs)] /\ Len(vs) \in DOMAIN elems[t]
    BY <1>6
  <1> HIDE DEF v, t
  <1>12. Puts(v, m, t, es)
    BY <1>3, <1>4, <1>5, <1>6, <1>7, <1>9, <1>10 DEF Puts, Stores, OneNew
  <1>13. PopsLast(v, m, t, es)
    BY <1>4, <1>11, <1>12 DEF PopsLast
  <1> QED BY <1>1, <1>13
----------------------------------------------------------------------------
(***************************************************************************)
(* What an instruction that allocates does                                 *)
(***************************************************************************)

\* No slot of an array is wild.
Tame == \A a \in Addr : \A i \in DOMAIN elems[a] : elems[a][i] # Wild

\* A handler of n operands allocates C.  What it puts into slots it takes from operands
\* and slots; without "drop" no array loses an address.
Allots(n, C) ==
    /\ n \in Nat /\ Operands(n) /\ sp - n \in 0 .. StackSize - 1
    /\ Links(C) /\ UNCHANGED <<globals, frames>>
    /\ (Tame /\ \A k \in 1 .. n : Top(k) # Wild) => Tame'
    /\ "drop" \notin Features => \A a \in Addr : Ats(elems[a]) \subseteq Ats(elems'[a])

\* It makes a new object v, which owns all it allocates, and hands it to gc_add(): v is
\* on the stack already, or a slice that is pushed after the collection.
Registers(n, C, v, push) ==
    /\ Allots(n, C) /\ v \in Pointers /\ v.at \in C /\ C \subseteq ReachIn(elems', v.at)
    /\ push \in BOOLEAN /\ GcAdd(C, v, push)
    /\ \/ Result(n, v)
       \/ push /\ Due /\ stack' = Cut(stack, sp - n) /\ sp' = sp - n

\* It puts a copy into an array, or takes an element off it that is no heap object: an
\* array among the operands owns all it allocates.
Rewrites(n, C, v) ==
    /\ Allots(n, C) /\ Result(n, v) /\ UNCHANGED <<list, ctl>>
    /\ \/ v = Prim
       \/ \E k \in 1 .. n : v = Top(k)
       \/ ~IsPtr(v) /\ \E a \in Addr : \E j \in DOMAIN elems[a] : v = elems[a][j]
    /\ \E k \in 1 .. n : Is(Top(k), "array") /\ C \subseteq ReachIn(elems', Top(k).at)

Registering == \E n, C, v, push : Registers(n, C, v, push)
Rewriting   == \E n, C, v : Rewrites(n, C, v)

\* copy_object() makes no wild object out of others.
LEMMA CopyTame == ASSUME NEW v \in Object, v # Wild, NEW m, NEW i
                  PROVE  Copy(m, i, v) # Wild
  <1>1. v.type # "wild"
    BY DEF Object, Pointers, Null, Prim, Wild
  <1>2. CASE IsPtr(v)
    BY <1>1, <1>2 DEF Copy, Obj, Wild
  <1>3. CASE ~IsPtr(v)
    BY <1>3 DEF Copy
  <1> QED BY <1>2, <1>3

LEMMA CopiesTame == ASSUME Inv, Tame, NEW vs \in Seq(Object), NEW m \in Copies(vs),
                           NEW a \in Addr, NEW j \in DOMAIN ElemsWith(m)[a]
                    PROVE  ElemsWith(m)[a][j] # Wild
  <1>1. elems \in [Addr -> Seq(Object)] /\ Mapped(vs, m)
    BY CopyMap DEF Inv, Memory
  <1>2. CASE a \notin Range(m)
    BY <1>2 DEF ElemsWith, Tame
  <1>3. CASE a \in Range(m)
    <2>1. PICK i \in DOMAIN vs : \E x \in Tree(vs[i]) : a = m[<<i, x>>]
      BY <1>1, <1>3 DEF Mapped
    <2>2. PICK x \in Tree(vs[i]) : a = m[<<i, x>>]
      BY <2>1
    <2>3. ElemsWith(m)[a] = [k \in DOMAIN elems[x] |-> Copy(m, i, elems[x][k])]
      BY <2>2, CopyTable
    <2>4. j \in DOMAIN elems[x] /\ ElemsWith(m)[a][j] = Copy(m, i, elems[x][j])
      BY <2>3
    <2>5. x \in Addr
      <3>1. vs[i] \in Object
        OBVIOUS
      <3> QED BY <1>1, <3>1, TreeOK
    <2>6. elems[x][j] \in Object /\ elems[x][j] # Wild
      BY <1>1, <2>4, <2>5 DEF Tame
    <2> QED BY <2>4, <2>6, CopyTame
  <1> QED BY <1>2, <1>3

\* What holds the copies of the roots owns all copies.
LEMMA CopiesReached ==
    ASSUME Inv, NEW vs \in Seq(Object), NEW m \in Copies(vs), NEW F \in Tables, NEW r \in Addr,
           \A c \in Range(m) : F[c] = ElemsWith(m)[c],
           \A i \in DOMAIN vs : IsPtr(vs[i]) => Copy(m, i, vs[i]).at \in ReachIn(F, r)
    PROVE  Range(m) \subseteq ReachIn(F, r)
  <1> SUFFICES ASSUME NEW c \in Range(m) PROVE c \in ReachIn(F, r)
    OBVIOUS
  <1>1. elems \in Tables /\ elems \in [Addr -> Seq(Object)] /\ Mapped(vs, m)
    BY CopyMap DEF Inv, Memory, Tables
  <1>2. PICK i \in DOMAIN vs : \E x \in Tree(vs[i]) : c = m[<<i, x>>]
    BY <1>1 DEF Mapped
  <1>3. PICK x \in Tree(vs[i]) : c = m[<<i, x>>]
    BY <1>2
  <1> DEFINE u == vs[i]
             S == {y \in Tree(u) : m[<<i, y>>] \in ReachIn(F, r)}
  <1>4. u \in Object
    OBVIOUS
  <1>5. IsPtr(u) /\ u.at \in Addr /\ Tree(u) = ReachIn(elems, u.at)
    BY <1>4, TreesNow, ObjectAt
  <1>6. u.at \in S
    BY <1>1, <1>5 DEF Mapped
  <1>7. ASSUME NEW y \in S, NEW z \in Ats(elems[y]) PROVE z \in S
    <2>1. y \in Addr /\ z \in Tree(u) /\ m[<<i, y>>] \in Range(m)
      BY <1>1, <1>5, ReachClosed DEF Mapped
    <2>2. PICK j \in DOMAIN elems[y] : elems[y][j].at = z /\ IsPtr(elems[y][j])
      <3>1. elems[y] \in Seq(Object)
        BY <1>1, <2>1
      <3> QED BY <3>1, AtsSeq
    <2> DEFINE d == m[<<i, y>>]
    <2>3. F[d] = [k \in DOMAIN elems[y] |-> Copy(m, i, elems[y][k])]
      BY <2>1, CopyTable
    <2>4. j \in DOMAIN F[d] /\ F[d][j] = Copy(m, i, elems[y][j])
      BY <2>2, <2>3
    <2>5. F[d][j].at = m[<<i, z>>]
      BY <2>2, <2>4 DEF Copy, Obj
    <2>6. m[<<i, z>>] \in Range(m) /\ Range(m) \subseteq Fresh
      BY <1>1, <2>1 DEF Mapped
    <2>7. m[<<i, z>>] \in Ats(F[d])
      <3>1. m[<<i, z>>] # None /\ d \in Addr
        BY <2>1, <2>6, FreshApart, AddrAssumption
      <3>2. IsPtr(F[d][j])
        BY <2>5, <3>1 DEF IsPtr
      <3>3. F[d] \in Seq(Object)
        BY <3>1 DEF Tables
      <3> QED BY <2>4, <2>5, <3>2, <3>3, AtsSeq
    <2>8. d \in ReachIn(F, r)
      OBVIOUS
    <2> HIDE DEF d
    <2>9. m[<<i, z>>] \in ReachIn(F, r)
      BY <2>7, <2>8, ReachClosed
    <2> QED BY <2>1, <2>9
  <1>8. Tree(u) \subseteq S
    <2>1. ClosedIn(elems, S)
      BY <1>7 DEF ClosedIn
    <2> HIDE DEF S, u
    <2> QED BY <1>1, <1>5, <1>6, <2>1, TreeWithin
  <1> QED BY <1>3, <1>8

\* An array that drops no address, all the others being left alone.
LEMMA AllotsMake ==
    ASSUME Inv, Own, NEW n \in Nat, Operands(n), sp - n \in 0 .. StackSize - 1,
           NEW C, Links(C), UNCHANGED <<globals, frames>>,
           (Tame /\ \A k \in 1 .. n : Top(k) # Wild) => Tame',
           "drop" \notin Features =>
              \A x \in Addr \ C : Ats(elems[x]) \subseteq Ats(elems'[x])
    PROVE  Allots(n, C)
  <1>1. \A x \in C : x \in Addr /\ x \notin live
    BY FreshApart DEF Links
  <1>2. \A x \in C : Ats(elems[x]) = {}
    BY <1>1 DEF Own, Ats
  <1>3. "drop" \notin Features => \A x \in Addr : Ats(elems[x]) \subseteq Ats(elems'[x])
    BY <1>2
  <1> QED BY <1>3 DEF Allots

\* A new object whose elements, if any, are no heap objects.
LEMMA MakeRegisters ==
    ASSUME Inv, Own, NEW n \in Nat, Operands(n), sp - n \in 0 .. StackSize - 1,
           NEW a \in Fresh, NEW k \in {"error", "string", "array", "function"},
           NEW es \in Seq(Object), Ats(es) = {}, Tame => \A i \in DOMAIN es : es[i] # Wild,
           Make(NoCopies, a, es), UNCHANGED <<globals, frames>>,
           NEW push \in BOOLEAN, GcAdd({a}, Obj(k, a), push),
           \/ Result(n, Obj(k, a))
           \/ push /\ Due /\ stack' = Cut(stack, sp - n) /\ sp' = sp - n
    PROVE  Registering
  <1>1. a \in Addr /\ elems \in Tables
    BY FreshApart, TablesNow
  <1>2. Range(NoCopies) = {}
    BY DEF NoCopies, Range
  <1>3. ElemsWith(NoCopies) = elems
    <2>1. elems = [x \in Addr |-> elems[x]]
      BY <1>1 DEF Tables
    <2> QED BY <1>2, <2>1 DEF ElemsWith
  <1>4. elems' \in Tables /\ \A x \in Addr : elems'[x] = IF x = a THEN es ELSE elems[x]
    BY <1>1, <1>3 DEF Make, Tables
  <1>5. Tame => Tame'
    BY <1>1, <1>4 DEF Tame
  <1>6. Links({a})
    BY PlainLinks
  <1>7. \A x \in Addr \ {a} : Ats(elems[x]) \subseteq Ats(elems'[x])
    BY <1>4
  <1>8. Allots(n, {a})
    BY <1>5, <1>6, <1>7, AllotsMake
  <1>9. Obj(k, a) \in Pointers /\ Obj(k, a).at = a
    BY <1>1, ObjOK
  <1>10. a \in ReachIn(elems', a)
    BY DEF ReachIn
  <1>11. Registers(n, {a}, Obj(k, a), push)
    BY <1>8, <1>9, <1>10 DEF Registers
  <1> QED BY <1>11 DEF Registering

LEMMA NewRegisters ==
    ASSUME Inv, Own, NEW n \in Nat \ {0}, Operands(n), NEW k \in {"string", "error"}, New(n, k)
    PROVE  Registering
  <1>1. PICK a \in Fresh : /\ Make(NoCopies, a, << >>)
                           /\ Result(n, Obj(k, a))
                           /\ UNCHANGED <<globals, frames>>
                           /\ GcAdd({a}, Obj(k, a), FALSE)
    BY DEF New
  <1>2. n \in Nat /\ sp - n \in 0 .. StackSize - 1
    BY ResultSlot DEF Inv
  <1>3. << >> \in Seq(Object) /\ Ats(<< >>) = {} /\ \A i \in DOMAIN << >> : << >>[i] # Wild
    BY DEF Ats
  <1>4. FALSE \in BOOLEAN
    OBVIOUS
  <1> QED BY <1>1, <1>2, <1>3, <1>4, MakeRegisters

LEMMA SliceRegisters ==
    ASSUME Inv, Own, Operands(3), NEW k \in {"array", "string", "error"},
           NEW es \in Seq(Object), Ats(es) = {}, Tame => \A i \in DOMAIN es : es[i] # Wild,
           Slice(k, es)
    PROVE  Registering
  <1>1. PICK a \in Fresh :
          /\ Make(NoCopies, a, es)
          /\ IF Due THEN stack' = Cut(stack, sp - 3) /\ sp' = sp - 3
                    ELSE Result(3, Obj(k, a))
          /\ UNCHANGED <<globals, frames>>
          /\ GcAdd({a}, Obj(k, a), TRUE)
    BY DEF Slice
  <1>2. 3 \in Nat /\ 3 \in Nat \ {0} /\ TRUE \in BOOLEAN
    OBVIOUS
  <1>3. sp - 3 \in 0 .. StackSize - 1
    BY <1>2, ResultSlot DEF Inv
  <1>4. \/ Result(3, Obj(k, a))
        \/ TRUE /\ Due /\ stack' = Cut(stack, sp - 3) /\ sp' = sp - 3
    BY <1>1
  <1> QED BY <1>1, <1>2, <1>3, <1>4, MakeRegisters

\* build_slice_from_array() of an array that holds no heap object.
LEMMA SlicesRegister ==
    ASSUME Inv, Own, "alias" \notin Features, SliceArray \/ SliceString \/ SliceError, ~Fault
    PROVE  Registering
  <1>1. << >> \in Seq(Object) /\ Ats(<< >>) = {} /\ \A i \in DOMAIN << >> : << >>[i] # Wild
    BY DEF Ats
  <1>2. CASE SliceString
    BY <1>1, <1>2, SliceRegisters DEF SliceString
  <1>3. CASE SliceError
    BY <1>1, <1>3, SliceRegisters DEF SliceError
  <1>4. CASE SliceArray
    <2>1. Operands(3) /\ Is(Top(3), "array") /\ ~Dead(Top(3))
      BY <1>4 DEF SliceArray
    <2>2. Top(3) \in Object
      <3>1. 3 \in Nat /\ 3 \in 1 .. 3
        OBVIOUS
      <3> QED BY <2>1, <3>1, OperandsOK DEF Inv
    <2> DEFINE es == elems[Top(3).at]
    <2>3. Top(3).at \in Addr /\ es \in Seq(Object)
      BY <2>1, <2>2, ArrayOperand
    <2>4. Ats(es) = {}
      BY <1>4, <2>1 DEF SliceArray
    <2>5. PICK i \in 1 .. Len(es) + 1, j \in Int :
              j \in i - 1 .. Len(es) /\ Slice("array", SubSeq(es, i, j))
      BY <1>4, <2>1, <2>3 DEF SliceArray
    <2>6. Tame => \A x \in DOMAIN es : es[x] # Wild
      BY <2>3 DEF Tame
    <2> HIDE DEF es
    <2> DEFINE part == SubSeq(es, i, j)
    <2>7. \A x \in i .. j : x \in DOMAIN es /\ es[x] \in Object
      BY <2>3, <2>5
    <2>8. part \in Seq(Object)
      BY <2>5, <2>7, SubSeqProperties
    <2>9. \A y \in DOMAIN part : \E x \in DOMAIN es : part[y] = es[x]
      BY <2>3, <2>5, <2>7, <2>8, SubSeqProperties
    <2> HIDE DEF part
    <2>10. Ats(part) = {}
      BY <2>4, <2>9 DEF Ats
    <2>11. Tame => \A y \in DOMAIN part : part[y] # Wild
      BY <2>6, <2>9
    <2>12. Slice("array", part)
      BY <2>5 DEF part
    <2> QED BY <2>1, <2>8, <2>10, <2>11, <2>12, SliceRegisters
  <1> QED BY <1>2, <1>3, <1>4

\* vm_build_array(): a new array of copies of the operands.
LEMMA ArrayRegisters == ASSUME Inv, Own, Array, ~Fault PROVE Registering
  <1>1. PICK n \in 0 .. MaxElems :
          /\ Operands(n) /\ (n > 0 \/ Room)
          /\ \E m \in Copies(Args(n)) : \E a \in Fresh \ Range(m) :
                /\ Make(m, a, [i \in 1 .. n |-> Copy(m, i, Args(n)[i])])
                /\ Result(n, Obj("array", a))
                /\ UNCHANGED <<globals, frames>>
                /\ GcAdd(Range(m) \cup {a}, Obj("array", a), FALSE)
    BY DEF Array
  <1> DEFINE vs == Args(n)
  <1>2. PICK m \in Copies(vs) : \E a \in Fresh \ Range(m) :
                /\ Make(m, a, [i \in 1 .. n |-> Copy(m, i, vs[i])])
                /\ Result(n, Obj("array", a))
                /\ UNCHANGED <<globals, frames>>
                /\ GcAdd(Range(m) \cup {a}, Obj("array", a), FALSE)
    BY <1>1
  <1>3. PICK a \in Fresh \ Range(m) :
                /\ Make(m, a, [i \in 1 .. n |-> Copy(m, i, vs[i])])
                /\ Result(n, Obj("array", a))
                /\ UNCHANGED <<globals, frames>>
                /\ GcAdd(Range(m) \cup {a}, Obj("array", a), FALSE)
    BY <1>2
  <1> DEFINE es == [i \in 1 .. n |-> Copy(m, i, vs[i])]
             C  == Range(m) \cup {a}
             v  == Obj("array", a)
  <1>4. n \in Nat /\ Regs /\ TypeOK /\ elems \in Tables
    BY SizeAssumption, InvTypes, TablesNow DEF Inv
  <1>5. /\ vs \in Seq(Object) /\ DOMAIN vs = 1 .. n
        /\ \A k \in 1 .. n : vs[k] = Top(n + 1 - k)
        /\ sp - n \in 0 .. StackSize - 1
    <2>1. CASE n > 0
      BY <1>1, <1>4, <2>1, OperandsOK, ResultSlot
    <2>2. CASE n = 0
      BY <1>1, <1>4, <2>2, OperandsOK, RoomOK DEF Operands
    <2> QED BY <1>4, <2>1, <2>2
  <1> HIDE DEF vs
  <1>6. \A i \in 1 .. n : Copy(m, i, vs[i]) \in Object
    BY <1>4, <1>5, CopiesOK
  <1>7. es \in Seq(Object) /\ DOMAIN es = 1 .. n /\ \A i \in 1 .. n : es[i] = Copy(m, i, vs[i])
    <2>1. es \in [1 .. n -> Object]
      BY <1>6
    <2> QED BY <1>4, <2>1, SeqDef
  <1>8. Make(m, a, es) /\ Result(n, v) /\ GcAdd(C, v, FALSE) /\ UNCHANGED <<globals, frames>>
    BY <1>3
  <1>9. Operands(n)
    BY <1>1
  <1> HIDE DEF es
  <1>10. Links(C)
    BY <1>5, <1>7, <1>8, ArrayLinks
  <1>11. /\ Range(m) \subseteq Fresh /\ a \in Addr /\ Range(m) \subseteq Addr
         /\ ElemsWith(m) \in Tables
         /\ \A x \in Addr \ Range(m) : ElemsWith(m)[x] = elems[x]
    BY <1>4, <1>5, CopiesOK, FreshApart DEF Tables
  <1>12. /\ elems' \in Tables /\ elems'[a] = es
         /\ \A x \in Addr \ {a} : elems'[x] = ElemsWith(m)[x]
    BY <1>7, <1>8, <1>11 DEF Make, Tables
  <1>13. ASSUME Tame, \A k \in 1 .. n : Top(k) # Wild PROVE Tame'
    <2>1. \A i \in 1 .. n : vs[i] \in Object /\ vs[i] # Wild
      <3>1. \A i \in 1 .. n : n + 1 - i \in 1 .. n
        BY <1>4
      <3> QED BY <1>5, <1>13, <3>1
    <2>2. \A i \in DOMAIN es : es[i] # Wild
      BY <1>7, <2>1, CopyTame
    <2>3. \A x \in Addr \ {a} : \A j \in DOMAIN elems'[x] : elems'[x][j] # Wild
      BY <1>5, <1>12, <1>13, CopiesTame
    <2> QED BY <1>12, <2>2, <2>3 DEF Tame
  <1>14. \A x \in Addr \ C : Ats(elems[x]) \subseteq Ats(elems'[x])
    BY <1>11, <1>12
  <1>15. Allots(n, C)
    <2> HIDE DEF C
    <2> QED BY <1>4, <1>5, <1>8, <1>9, <1>10, <1>13, <1>14, AllotsMake
  <1>16. v \in Pointers /\ v.at = a /\ a \in C
    BY <1>11, ObjOK
  <1>17. C \subseteq ReachIn(elems', a)
    <2>1. ASSUME NEW i \in DOMAIN vs, IsPtr(vs[i])
          PROVE  Copy(m, i, vs[i]).at \in ReachIn(elems', a)
      <3>1. IsPtr(Copy(m, i, vs[i])) /\ es[i] = Copy(m, i, vs[i]) /\ i \in DOMAIN es
        BY <1>4, <1>5, <1>7, <2>1, CopiesOK
      <3>2. Copy(m, i, vs[i]).at \in Ats(elems'[a])
        BY <1>7, <1>12, <3>1, AtsSeq
      <3> QED BY <1>11, <1>12, <3>2, ReachClosed
    <2>2. \A c \in Range(m) : elems'[c] = ElemsWith(m)[c]
      BY <1>11, <1>12
    <2>3. Range(m) \subseteq ReachIn(elems', a)
      BY <1>5, <1>11, <1>12, <2>1, <2>2, CopiesReached
    <2> QED BY <2>3 DEF ReachIn
  <1> HIDE DEF C, v
  <1>18. Registers(n, C, v, FALSE)
    BY <1>8, <1>15, <1>16, <1>17 DEF Registers
  <1> QED BY <1>18 DEF Registering

\* str_split(): a new array of new strings.
LEMMA SplitRegisters == ASSUME Inv, Own, StrSplit, ~Fault PROVE Registering
  <1>1. \E n \in 1 .. MaxElems : \E m \in Injection(1 .. n, Fresh) : \E a \in Fresh \ Range(m) :
            /\ Splits(n, m, a) /\ Result(3, Obj("array", a)) /\ UNCHANGED <<globals, frames>>
            /\ GcAdd(Range(m) \cup {a}, Obj("array", a), FALSE)
    BY Zenon DEF StrSplit, Splits
  <1>2. PICK n \in 1 .. MaxElems : \E m \in Injection(1 .. n, Fresh) : \E a \in Fresh \ Range(m) :
            /\ Splits(n, m, a) /\ Result(3, Obj("array", a)) /\ UNCHANGED <<globals, frames>>
            /\ GcAdd(Range(m) \cup {a}, Obj("array", a), FALSE)
    BY <1>1
  <1>3. PICK m \in Injection(1 .. n, Fresh) : \E a \in Fresh \ Range(m) :
            /\ Splits(n, m, a) /\ Result(3, Obj("array", a)) /\ UNCHANGED <<globals, frames>>
            /\ GcAdd(Range(m) \cup {a}, Obj("array", a), FALSE)
    BY <1>2
  <1>4. PICK a \in Fresh \ Range(m) :
            /\ Splits(n, m, a) /\ Result(3, Obj("array", a)) /\ UNCHANGED <<globals, frames>>
            /\ GcAdd(Range(m) \cup {a}, Obj("array", a), FALSE)
    BY <1>3
  <1> DEFINE M == Range(m)
             C == M \cup {a}
             es == [i \in 1 .. n |-> Obj("string", m[i])]
             v == Obj("array", a)
  <1>5. n \in Nat /\ 3 \in Nat /\ 3 \in Nat \ {0} /\ elems \in Tables
    BY SizeAssumption, TablesNow
  <1>6. m \in [1 .. n -> Fresh] /\ M = {m[i] : i \in 1 .. n} /\ M \subseteq Fresh
    BY DEF Injection, Range
  <1>7. M \subseteq Addr /\ a \in Addr /\ a \notin M
    BY <1>6, FreshApart
  <1>8. Operands(3) /\ sp - 3 \in 0 .. StackSize - 1
    <2>1. Operands(2 + 1) /\ 2 + 1 = 3
      BY DEF StrSplit, Builtin
    <2> QED BY <1>5, <2>1, ResultSlot DEF Inv
  <1>9. Links(C)
    BY <1>4, <1>5, SplitLinks
  <1>10. /\ elems'[a] = es
         /\ \A x \in M : elems'[x] = << >>
         /\ \A x \in Addr \ C : elems'[x] = elems[x]
         /\ elems' \in Tables
    <2>1. elems' = [x \in Addr |-> IF x = a THEN es ELSE IF x \in M THEN << >> ELSE elems[x]]
      BY <1>4 DEF Splits
    <2>2. elems' \in Tables
      BY <1>9 DEF Links
    <2> HIDE DEF es, M
    <2> QED BY <1>7, <2>1, <2>2
  <1>11. DOMAIN es = 1 .. n /\ \A i \in 1 .. n : es[i].at = m[i] /\ IsPtr(es[i]) /\ es[i] # Wild
    <2>1. \A i \in 1 .. n : m[i] \in Addr
      BY <1>6, <1>7
    <2> QED BY <2>1, ObjOK DEF Obj, Wild
  <1> HIDE DEF es
  <1>12. ASSUME Tame PROVE Tame'
    <2>1. \A j \in DOMAIN elems'[a] : elems'[a][j] # Wild
      BY <1>10, <1>11
    <2>2. \A x \in M : \A j \in DOMAIN elems'[x] : elems'[x][j] # Wild
      BY <1>10
    <2>3. \A x \in Addr \ C : \A j \in DOMAIN elems'[x] : elems'[x][j] # Wild
      BY <1>10, <1>12 DEF Tame
    <2> QED BY <2>1, <2>2, <2>3 DEF Tame
  <1>13. \A x \in Addr \ C : Ats(elems[x]) \subseteq Ats(elems'[x])
    BY <1>10
  <1>14. C \subseteq ReachIn(elems', a)
    <2>1. es \in Seq(Object)
      BY <1>7, <1>10 DEF Tables
    <2>2. \A i \in 1 .. n : m[i] \in Ats(elems'[a])
      BY <1>10, <1>11, <2>1, AtsSeq
    <2>3. M \subseteq ReachIn(elems', a)
      BY <1>6, <1>7, <1>10, <2>2, ReachClosed
    <2> QED BY <2>3 DEF ReachIn
  <1>15. v \in Pointers /\ v.at = a /\ a \in C
    BY <1>7, ObjOK
  <1>16. GcAdd(C, v, FALSE) /\ Result(3, v) /\ UNCHANGED <<globals, frames>>
    BY <1>4
  <1> HIDE DEF C, v
  <1>17. Allots(3, C)
    BY <1>5, <1>8, <1>9, <1>12, <1>13, <1>16, AllotsMake
  <1>18. Registers(3, C, v, FALSE)
    BY <1>14, <1>15, <1>16, <1>17 DEF Registers
  <1> QED BY <1>18 DEF Registering

\* What a write to an array allocates, keeps and drops.
LEMMA PutsAllots ==
    ASSUME Inv, Own, NEW n \in Nat, Operands(n), sp - n \in 0 .. StackSize - 1,
           NEW v, NEW m, NEW t, NEW es, Puts(v, m, t, es), UNCHANGED <<globals, frames>>,
           (Tame /\ \A k \in 1 .. n : Top(k) # Wild) => v # Wild
    PROVE  /\ Allots(n, Range(m)) /\ elems' \in Tables /\ t \in Addr /\ elems'[t] = es
           /\ v \in Object /\ m \in Copies(<<v>>) /\ Range(m) \subseteq Addr
           /\ \A c \in Range(m) : elems'[c] = ElemsWith(m)[c]
  <1> DEFINE C == Range(m)
  <1>1. /\ v \in Object /\ m \in Copies(<<v>>) /\ t \in live /\ t \in Addr /\ es \in Seq(Object)
        /\ elems' = [ElemsWith(m) EXCEPT ![t] = es]
    BY DEF Puts, Stores
  <1>2. PICK p : \A i \in DOMAIN es : \/ i \in DOMAIN elems[t] /\ es[i] = elems[t][i]
                                      \/ i = p /\ es[i] = Copy(m, 1, v)
    BY DEF Puts, OneNew
  <1>3. "drop" \notin Features => Ats(elems[t]) \subseteq Ats(es)
    BY DEF Puts
  <1>4. TypeOK /\ elems \in Tables /\ <<v>> \in Seq(Object)
    BY <1>1, InvTypes, TablesNow
  <1>5. /\ C \subseteq Fresh /\ ElemsWith(m) \in Tables
        /\ \A x \in Addr \ C : ElemsWith(m)[x] = elems[x]
    BY <1>1, <1>4, CopiesOK DEF Tables
  <1>6. C \subseteq Addr /\ t \notin C
    BY <1>1, <1>5, FreshApart
  <1>7. /\ elems' \in Tables /\ elems'[t] = es
        /\ \A x \in Addr \ {t} : elems'[x] = ElemsWith(m)[x]
    BY <1>1, <1>5 DEF Tables
  <1>8. Links(C)
    BY PutsLinks
  <1>9. ASSUME Tame, \A k \in 1 .. n : Top(k) # Wild PROVE Tame'
    <2>1. v # Wild
      BY <1>9
    <2>2. Copy(m, 1, v) # Wild
      BY <1>1, <2>1, CopyTame
    <2>3. \A i \in DOMAIN es : es[i] # Wild
      BY <1>1, <1>2, <1>9, <2>2 DEF Tame
    <2>4. \A x \in Addr : \A j \in DOMAIN ElemsWith(m)[x] : ElemsWith(m)[x][j] # Wild
      BY <1>1, <1>4, <1>9, CopiesTame
    <2> QED BY <1>7, <2>3, <2>4 DEF Tame
  <1>10. "drop" \notin Features => \A x \in Addr \ C : Ats(elems[x]) \subseteq Ats(elems'[x])
    BY <1>3, <1>5, <1>7
  <1>11. Allots(n, C)
    <2> HIDE DEF C
    <2> QED BY <1>8, <1>9, <1>10, AllotsMake
  <1>12. \A c \in C : elems'[c] = ElemsWith(m)[c]
    BY <1>6, <1>7
  <1> QED BY <1>1, <1>6, <1>7, <1>11, <1>12

\* OPCODE_INDEX_SET and array_push().
LEMMA PutsRewrite ==
    ASSUME Inv, Own, Operands(3), Top(1) \in Object, NEW k \in 1 .. 3, Is(Top(k), "array"),
           PutsCopy(Top(1), Top(k).at), NEW v, Result(3, v), v = Prim \/ v = Top(1)
    PROVE  Rewriting
  <1> DEFINE u == Top(1)
             t == Top(k).at
  <1>1. PICK m \in Copies(<<u>>) : \E es \in Seq(Object) :
            /\ Puts(u, m, t, es)
            /\ \E i \in DOMAIN es : es[i] = Copy(m, 1, u)
            /\ UNCHANGED <<list, globals, frames, ctl>>
    BY DEF PutsCopy
  <1>2. PICK es \in Seq(Object) :
            /\ Puts(u, m, t, es)
            /\ \E i \in DOMAIN es : es[i] = Copy(m, 1, u)
            /\ UNCHANGED <<list, globals, frames, ctl>>
    BY <1>1
  <1>3. 3 \in Nat /\ 3 \in Nat \ {0} /\ 1 \in 1 .. 3
    OBVIOUS
  <1>4. sp - 3 \in 0 .. StackSize - 1
    BY <1>3, ResultSlot DEF Inv
  <1>5. (Tame /\ \A j \in 1 .. 3 : Top(j) # Wild) => u # Wild
    BY <1>3
  <1>6. /\ Puts(u, m, t, es) /\ UNCHANGED <<globals, frames>> /\ UNCHANGED <<list, ctl>>
    BY <1>2
  <1> HIDE DEF u, t
  <1>7. /\ Allots(3, Range(m)) /\ elems' \in Tables /\ t \in Addr /\ elems'[t] = es
        /\ u \in Object /\ \A c \in Range(m) : elems'[c] = ElemsWith(m)[c]
    BY <1>3, <1>4, <1>5, <1>6, PutsAllots
  <1>8. <<u>> \in Seq(Object) /\ DOMAIN <<u>> = {1} /\ <<u>>[1] = u
    BY <1>7
  <1>9. IsPtr(u) => Copy(m, 1, u).at \in ReachIn(elems', t)
    <2> SUFFICES ASSUME IsPtr(u) PROVE Copy(m, 1, u).at \in ReachIn(elems', t)
      OBVIOUS
    <2>1. IsPtr(Copy(m, 1, u))
      BY <1>7, InvTypes, OneCopy
    <2>2. Copy(m, 1, u).at \in Ats(elems'[t])
      BY <1>2, <1>7, <2>1, AtsSeq
    <2> QED BY <1>7, <2>2, ReachClosed
  <1>10. Range(m) \subseteq ReachIn(elems', t)
    <2> DEFINE vs == <<u>>
    <2>1. vs \in Seq(Object) /\ m \in Copies(vs)
      BY <1>8 DEF u
    <2>2. \A i \in DOMAIN vs : IsPtr(vs[i]) => Copy(m, i, vs[i]).at \in ReachIn(elems', t)
      BY <1>8, <1>9
    <2> HIDE DEF vs
    <2> QED BY <1>7, <2>1, <2>2, CopiesReached
  <1>11. Rewrites(3, Range(m), v)
    <2>1. \/ v = Prim \/ \E j \in 1 .. 3 : v = Top(j)
      BY <1>3
    <2>2. \E j \in 1 .. 3 : Is(Top(j), "array") /\ Range(m) \subseteq ReachIn(elems', Top(j).at)
      BY <1>10 DEF t
    <2> QED BY <1>6, <1>7, <2>1, <2>2 DEF Rewrites
  <1> QED BY <1>11 DEF Rewriting

LEMMA IndexSetRewrites == ASSUME Inv, Own, IndexSet, ~Fault PROVE Rewriting
  <1>1. /\ Operands(3) /\ Top(1) \in Object /\ Result(3, Top(1))
        /\ PutsCopy(Top(1), Top(3).at)
    BY IndexSetPuts
  <1>2. Is(Top(3), "array") /\ 3 \in 1 .. 3
    BY DEF IndexSet
  <1> QED BY <1>1, <1>2, PutsRewrite

LEMMA ArrayPushRewrites == ASSUME Inv, Own, ArrayPush, ~Fault PROVE Rewriting
  <1>1. /\ Operands(3) /\ Top(1) \in Object /\ Result(3, Prim)
        /\ PutsCopy(Top(1), Top(2).at)
    BY ArrayPushPuts
  <1>2. Is(Top(2), "array") /\ 2 \in 1 .. 3
    BY DEF ArrayPush
  <1> QED BY <1>1, <1>2, PutsRewrite

\* array_pop() registers the copy of a heap object.
LEMMA ArrayPopSteps == ASSUME Inv, Own, ArrayPop, ~Fault PROVE Registering \/ Rewriting
  <1>1. PICK v, m, t, es : PopsLast(v, m, t, es)
    BY ArrayPopPuts
  <1>2. Operands(2) /\ Is(Top(1), "array") /\ 2 \in Nat /\ 2 \in Nat \ {0} /\ 1 \in 1 .. 2
    <2>1. Operands(2)
      BY ArrayPopPuts
    <2> QED BY <2>1 DEF ArrayPop
  <1>3. sp - 2 \in 0 .. StackSize - 1
    BY <1>2, ResultSlot DEF Inv
  <1> DEFINE c == Copy(m, 1, v)
  <1>4. /\ Puts(v, m, t, es) /\ Result(2, c) /\ UNCHANGED <<globals, frames>>
        /\ IF IsPtr(v) THEN GcAdd(Range(m), c, FALSE) ELSE UNCHANGED <<marked, list, ctl>>
    BY <1>1 DEF PopsLast
  <1>5. PICK j \in DOMAIN elems[t] : v = elems[t][j]
    BY <1>1 DEF PopsLast
  <1>6. (Tame /\ \A k \in 1 .. 2 : Top(k) # Wild) => v # Wild
    <2>1. t \in Addr
      BY <1>4 DEF Puts
    <2> QED BY <1>5, <2>1 DEF Tame
  <1> HIDE DEF c
  <1>7. /\ Allots(2, Range(m)) /\ elems' \in Tables /\ t \in Addr
        /\ v \in Object /\ m \in Copies(<<v>>) /\ Range(m) \subseteq Addr
        /\ \A d \in Range(m) : elems'[d] = ElemsWith(m)[d]
    BY <1>2, <1>3, <1>4, <1>6, PutsAllots
  <1>8. <<v>> \in Seq(Object) /\ DOMAIN <<v>> = {1} /\ <<v>>[1] = v
    BY <1>7
  <1>9. CASE IsPtr(v)
    <2>1. c \in Object /\ IsPtr(c) /\ c.at \in Range(m) /\ c \in Pointers /\ c.at \in Addr
      <3>1. c \in Object /\ IsPtr(c) /\ c.at \in Range(m)
        BY <1>7, <1>9, InvTypes, OneCopy DEF c
      <3> QED BY <3>1, ObjectAt
    <2>2. Copy(m, 1, v).at \in ReachIn(elems', c.at)
      BY DEF ReachIn, c
    <2>3. Range(m) \subseteq ReachIn(elems', c.at)
      BY <1>7, <1>8, <2>1, <2>2, CopiesReached
    <2>4. GcAdd(Range(m), c, FALSE) /\ FALSE \in BOOLEAN
      BY <1>4, <1>9
    <2>5. Registers(2, Range(m), c, FALSE)
      BY <1>4, <1>7, <2>1, <2>3, <2>4 DEF Registers
    <2> QED BY <2>5 DEF Registering
  <1>10. CASE ~IsPtr(v)
    <2>1. Mapped(<<v>>, m) /\ Tree(v) = {}
      BY <1>7, <1>8, <1>10, CopyMap, TreesNow
    <2>2. Range(m) = {}
      BY <1>8, <2>1 DEF Mapped
    <2>3. c = v
      BY <1>10 DEF c, Copy
    <2>4. Rewrites(2, Range(m), v)
      <3>1. ~IsPtr(v) /\ \E a \in Addr : \E i \in DOMAIN elems[a] : v = elems[a][i]
        BY <1>5, <1>7, <1>10
      <3>2. \E k \in 1 .. 2 : Is(Top(k), "array") /\ Range(m) \subseteq ReachIn(elems', Top(k).at)
        BY <1>2, <2>2
      <3>3. UNCHANGED <<list, ctl>> /\ Result(2, v)
        BY <1>4, <1>10, <2>3
      <3> QED BY <1>7, <3>1, <3>2, <3>3 DEF Rewrites
    <2> QED BY <2>4 DEF Rewriting
  <1> QED BY <1>9, <1>10

----------------------------------------------------------------------------
(***************************************************************************)
(* Ownership is invariant                                                  *)
(***************************************************************************)

\* What a step does to memory.
Shape == Registering \/ Rewriting \/ VmFree \/ Reclaim \/ UNCHANGED store

LEMMA FaultShape == Fault => Shape
  BY DEF Fault, Shape, store

LEMMA OperateShape == ASSUME Inv, Own, Operate PROVE Shape
  <1>1. CASE DivideByZero \/ Concat
    <2>1. Operands(2) /\ 2 \in Nat \ {0}
      BY <1>1 DEF DivideByZero, Concat
    <2>2. Fault \/ New(2, "error") \/ New(2, "string")
      BY <1>1 DEF DivideByZero, Concat
    <2> QED BY <2>1, <2>2, FaultShape, NewRegisters DEF Shape
  <1>2. CASE BinaryPrim \/ CompareStrings \/ Bang \/ Minus
    <2>1. Fault \/ \E n, v : Plain(n, v)
      BY <1>2 DEF BinaryPrim, CompareStrings, Bang, Minus
    <2> QED BY <2>1, FaultShape DEF Shape, Plain
  <1> QED BY <1>1, <1>2 DEF Operate

LEMMA IndexShape == ASSUME Inv, Own, "alias" \notin Features, Index PROVE Shape
  <1>1. CASE Fault
    BY <1>1, FaultShape
  <1>2. CASE ~Fault
    <2>1. CASE IndexGet
      BY <1>2, <2>1 DEF IndexGet, Plain, Shape
    <2>2. CASE IndexGetChar \/ IndexGetError
      <3>1. Operands(2) /\ 2 \in Nat \ {0} /\ (New(2, "string") \/ New(2, "error"))
        BY <1>2, <2>2 DEF IndexGetChar, IndexGetError
      <3> QED BY <3>1, NewRegisters DEF Shape
    <2>3. CASE IndexSetError
      <3>1. Operands(3) /\ 3 \in Nat \ {0} /\ New(3, "error")
        BY <2>3 DEF IndexSetError
      <3> QED BY <3>1, NewRegisters DEF Shape
    <2>4. CASE Array
      BY <1>2, <2>4, ArrayRegisters DEF Shape
    <2>5. CASE SliceArray \/ SliceString \/ SliceError
      BY <1>2, <2>5, SlicesRegister DEF Shape
    <2>6. CASE IndexSet
      BY <1>2, <2>6, IndexSetRewrites DEF Shape
    <2> QED BY <2>1, <2>2, <2>3, <2>4, <2>5, <2>6 DEF Index
  <1> QED BY <1>1, <1>2

LEMMA CallShape == ASSUME Inv, Own, Call PROVE Shape
  <1>1. CASE Fault
    BY <1>1, FaultShape
  <1>2. CASE ~Fault
    <2>1. CASE BuiltinPlain
      BY <1>2, <2>1 DEF BuiltinPlain, Plain, Shape
    <2>2. CASE BuiltinNew
      <3>1. PICK n \in 0 .. MaxLocals, k \in {"string", "error"} :
              Operands(n + 1) /\ New(n + 1, k)
        BY <2>2 DEF BuiltinNew, Builtin
      <3>2. n + 1 \in Nat \ {0}
        BY SizeAssumption
      <3> QED BY <3>1, <3>2, NewRegisters DEF Shape
    <2>3. CASE StrSplit
      BY <1>2, <2>3, SplitRegisters DEF Shape
    <2>4. CASE ArrayPop
      BY <1>2, <2>4, ArrayPopSteps DEF Shape
    <2>5. CASE ArrayPush
      BY <1>2, <2>5, ArrayPushRewrites DEF Shape
    <2> QED BY <2>1, <2>2, <2>3, <2>4, <2>5 DEF Call
  <1> QED BY <1>1, <1>2

LEMMA Shapes == ASSUME Inv, Own, "alias" \notin Features, Next PROVE Shape
  <1>1. CASE Push
    BY <1>1 DEF Push, Const, Immediate, GetGlobal, GetLocal, Plain, Shape
  <1>2. CASE Store
    BY <1>2 DEF Store, SetGlobal, SetLocal, Pop, Shape
  <1>3. CASE Flow
    BY <1>3, FaultShape
    DEF Flow, CallFunction, ReturnValue, ReturnNull, Return, FetchFault, Shape
  <1>4. CASE Collect
    BY <1>4, FaultShape DEF Collect, SkipError, Unmark, SweepFault, Register, Shape
  <1>5. CASE Beyond
    BY <1>5, BeyondStops DEF Overrun, Shape
  <1> QED BY <1>1, <1>2, <1>3, <1>4, <1>5, OperateShape, IndexShape, CallShape DEF Next

LEMMA InitOwn == Init => Own
  <1> SUFFICES ASSUME Init PROVE Own
    OBVIOUS
  <1>1. \A a \in Addr : elems[a] = << >> /\ DOMAIN elems[a] = {}
    BY DEF Init
  <1>2. live \subseteq Addr
    BY DEF Init, Addr
  <1> QED BY <1>1, <1>2 DEF Own, OneSlot, Ats

\* gc_sweep() and vm_free() free the elements of what they free along with it.
LEMMA ReclaimOwn == ASSUME Inv, Own, Reclaim PROVE Own'
  <1>1. /\ heap \in Seq(Pointers) /\ at \in DOMAIN heap /\ Entry \in Pointers
        /\ Entry.at \in Ats(heap) /\ FreeTree(Tree(Entry))
    <2>1. heap \in Seq(Pointers) /\ at \in DOMAIN heap /\ Entry \in Pointers
      BY DEF Reclaim, Sweeping, Entry, Inv, Registry, CtlOK
    <2>2. \A p \in Pointers : p.at # None
      BY AddrAssumption DEF Pointers
    <2> QED BY <2>1, <2>2 DEF Ats, Entry, Reclaim
  <1>2. Entry.at \notin Elements
    BY <1>1 DEF Inv, Registry, HeapOwned
  <1> DEFINE vs == [i \in {1} |-> Entry]
  <1>3. vs \in [{1} -> Pointers] /\ \A i \in {1} : vs[i].at \notin Elements
    BY <1>1, <1>2
  <1>4. UNION {Tree(vs[i]) : i \in {1}} = Tree(Entry)
    OBVIOUS
  <1> HIDE DEF vs
  <1> QED BY <1>1, <1>3, <1>4, TreesOwn

LEMMA VmFreeOwn == ASSUME Inv, Own, VmFree PROVE Own'
  <1>1. CASE Fault
    BY <1>1, SameOwn DEF Fault
  <1>2. CASE FreeTree(Trees(heap))
    <2>1. heap \in [DOMAIN heap -> Pointers] /\ Ats(heap) \cap Elements = {}
      BY DEF Inv, Registry, HeapOwned
    <2>2. \A p \in Pointers : p.at # None
      BY AddrAssumption DEF Pointers
    <2>3. \A i \in DOMAIN heap : heap[i].at \notin Elements
      BY <2>1, <2>2 DEF Ats
    <2>4. FreeTree(UNION {Tree(heap[i]) : i \in DOMAIN heap})
      BY <1>2 DEF Trees
    <2> QED BY <2>1, <2>3, <2>4, TreesOwn
  <1> QED BY <1>1, <1>2 DEF VmFree

LEMMA ShapeOwn == ASSUME Inv, Own, Shape PROVE Own'
  <1>1. CASE Registering
    <2>1. \E C : Links(C)
      BY <1>1 DEF Registering, Registers, Allots
    <2> QED BY <2>1, LinksOwn
  <1>2. CASE Rewriting
    <2>1. \E C : Links(C)
      BY <1>2 DEF Rewriting, Rewrites, Allots
    <2> QED BY <2>1, LinksOwn
  <1> QED BY <1>1, <1>2, ReclaimOwn, VmFreeOwn, SameOwn DEF Shape

LEMMA NextOwn == ASSUME "alias" \notin Features, Inv, Own, [Next]_vars PROVE Own'
  <1>1. CASE Next
    BY <1>1, Shapes, ShapeOwn
  <1>2. CASE UNCHANGED vars
    BY <1>2, SameOwn DEF vars, store
  <1> QED BY <1>1, <1>2

LEMMA OwnInvariance == ASSUME "alias" \notin Features PROVE Spec => [](Inv /\ Own)
  <1>1. Init => Inv /\ Own
    BY InitInv, InitOwn
  <1>2. Inv /\ Own /\ [Next]_vars => (Inv /\ Own)'
    BY NextInv, NextOwn
  <1> QED BY <1>1, <1>2, PTL DEF Spec

\* In every program that slices no array of heap objects, whatever else it does, each
\* element of an array is allocated and belongs to that array alone: all that builds or
\* extends an array copies (vm_build_array(), array_push(), OPCODE_INDEX_SET), and what
\* frees an array frees what it owns along with it.
THEOREM ElementsSolelyOwned == ASSUME "alias" \notin Features PROVE Spec => []SoleOwner
  <1>1. Inv /\ Own => SoleOwner
    <2> SUFFICES ASSUME Inv, Own PROVE SoleOwner
      OBVIOUS
    <2>1. live \subseteq Addr
      BY DEF Inv, Memory
    <2> QED BY <2>1 DEF Own, OneSlot, SoleOwner
  <1> QED BY <1>1, OwnInvariance, PTL
=============================================================================
