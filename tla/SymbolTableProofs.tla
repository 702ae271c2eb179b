------------------------- MODULE SymbolTableProofs -------------------------
(***************************************************************************)
(* Proofs about the symbol tables, for any names, any hash function, any   *)
(* built-ins and any number of scopes: tables keep their types, slots are  *)
(* dense, bindings are stable, and the tables implement lexical scoping.   *)
(***************************************************************************)
EXTENDS SymbolTable, WellFoundedInduction, SequenceTheorems, TLAPS

----------------------------------------------------------------------------
(***************************************************************************)
(* Chains                                                                  *)
(***************************************************************************)

\* A set of natural numbers has a least member.
LEMMA Least == ASSUME NEW S \in SUBSET Nat, S # {}
               PROVE  \E i \in S : \A j \in S : i <= j
  <1> DEFINE R == OpToRel(<, Nat)
  <1>1. IsWellFoundedOn(R, Nat)
    BY NatLessThanWellFounded
  <1>2. R = {p \in Nat \X Nat : p[1] < p[2]}
    BY DEF OpToRel
  <1> HIDE DEF R
  <1>3. \A x, y \in Nat : <<x, y>> \in R <=> x < y
    BY <1>2
  <1>4. PICK i \in S : \A j \in S : ~ (<<j, i>> \in R)
    BY <1>1, WFMin
  <1>5. \A j \in S : ~ (j < i) /\ i \in Nat /\ j \in Nat
    BY <1>3, <1>4
  <1> QED BY <1>5

\* strcmp() finds the first of the nodes with a key, when there are any.
LEMMA FirstMatchOK ==
    ASSUME NEW chain \in Seq(Node), NEW n, Matches(chain, n) # {}
    PROVE  /\ FirstMatch(chain, n) \in DOMAIN chain
           /\ chain[FirstMatch(chain, n)].key = n
           /\ FirstMatch(chain, n) \in 1 .. Len(chain)
  <1>1. Matches(chain, n) \subseteq Nat
    BY DEF Matches
  <1>2. \E i \in Matches(chain, n) : \A j \in Matches(chain, n) : i <= j
    BY <1>1, Least
  <1>3. FirstMatch(chain, n) \in Matches(chain, n)
    BY <1>2 DEF FirstMatch
  <1> QED BY <1>3 DEF Matches

\* What a chain says of a name.
Value(chain, n) == IF Matches(chain, n) = {} THEN None
                   ELSE chain[FirstMatch(chain, n)].value

\* A chain has a symbol for a name or none.
LEMMA ValueType == ASSUME NEW chain \in Seq(Node), NEW n
                   PROVE  Value(chain, n) \in Symbol \cup {None}
  <1>1. CASE Matches(chain, n) = {}
    BY <1>1 DEF Value
  <1>2. CASE Matches(chain, n) # {}
    <2>1. chain[FirstMatch(chain, n)] \in Node
      BY <1>2, FirstMatchOK, ElementOfSeq
    <2> QED BY <1>2, <2>1 DEF Value, Node
  <1> QED BY <1>1, <1>2

\* hashmap_insert() on a chain that has the key: only the value of that node changes.
LEMMA OverwriteOK ==
    ASSUME NEW chain \in Seq(Node), NEW n \in Names, NEW s \in Symbol,
           Matches(chain, n) # {}
    PROVE  /\ InsertIn(chain, n, s) \in Seq(Node)
           /\ \A m \in Names : Value(InsertIn(chain, n, s), m) =
                                   IF m = n THEN s ELSE Value(chain, m)
  <1> DEFINE i == FirstMatch(chain, n)
             new == [chain EXCEPT ![i].value = s]
  <1>1. i \in DOMAIN chain /\ chain[i].key = n /\ i \in 1 .. Len(chain) /\ chain[i] \in Node
    BY FirstMatchOK, ElementOfSeq
  <1>2. [chain[i] EXCEPT !.value = s] \in Node
    BY <1>1 DEF Node
  <1>3. new = [chain EXCEPT ![i] = [chain[i] EXCEPT !.value = s]]
    OBVIOUS
  <1>4. new \in Seq(Node)
    BY <1>1, <1>2, <1>3, ExceptSeq
  <1>5. /\ DOMAIN new = DOMAIN chain
        /\ new[i].value = s
        /\ \A j \in DOMAIN chain : new[j].key = chain[j].key
        /\ \A j \in DOMAIN chain \ {i} : new[j] = chain[j]
    BY <1>1 DEF Node
  <1> HIDE DEF new
  <1>6. \A m : Matches(new, m) = Matches(chain, m) /\ FirstMatch(new, m) = FirstMatch(chain, m)
    <2>1. \A m : Matches(new, m) = Matches(chain, m)
      BY <1>5 DEF Matches
    <2> QED BY <2>1 DEF FirstMatch
  <1>7. ASSUME NEW m \in Names
        PROVE  Value(new, m) = IF m = n THEN s ELSE Value(chain, m)
    <2>1. CASE m = n
      BY <2>1, <1>5, <1>6 DEF Value
    <2>2. CASE m # n /\ Matches(chain, m) = {}
      BY <2>2, <1>6 DEF Value
    <2>3. CASE m # n /\ Matches(chain, m) # {}
      <3>1. FirstMatch(chain, m) \in DOMAIN chain \ {i}
        BY <2>3, <1>1, FirstMatchOK
      <3> QED BY <2>3, <3>1, <1>5, <1>6 DEF Value
    <2> QED BY <2>1, <2>2, <2>3
  <1>8. InsertIn(chain, n, s) = new
    BY DEF InsertIn, new
  <1> QED BY <1>4, <1>7, <1>8

\* hashmap_insert() on a chain that does not have the key: the new node goes first.
LEMMA PrependOK ==
    ASSUME NEW chain \in Seq(Node), NEW n \in Names, NEW s \in Symbol,
           Matches(chain, n) = {}
    PROVE  /\ InsertIn(chain, n, s) \in Seq(Node)
           /\ \A m \in Names : Value(InsertIn(chain, n, s), m) =
                                   IF m = n THEN s ELSE Value(chain, m)
  <1> DEFINE node == [key |-> n, value |-> s]
             new  == <<node>> \o chain
  <1>1. <<node>> \in Seq(Node) /\ Len(<<node>>) = 1
    BY DEF Node
  <1>2. /\ new \in Seq(Node) /\ Len(new) = Len(chain) + 1
        /\ new[1] = node
        /\ \A j \in 1 .. Len(chain) : new[j + 1] = chain[j]
    BY <1>1, ConcatProperties
  <1>3. DOMAIN new = 1 .. Len(chain) + 1 /\ DOMAIN chain = 1 .. Len(chain)
        /\ Len(chain) \in Nat
    BY <1>2
  <1> HIDE DEF new
  <1>4. Value(new, n) = s
    <2>1. 1 \in Matches(new, n)
      BY <1>2, <1>3 DEF Matches
    <2>2. \A j \in Matches(new, n) : 1 <= j
      BY <1>3 DEF Matches
    <2>3. FirstMatch(new, n) = 1
      <3>1. \A i \in Matches(new, n) : (\A j \in Matches(new, n) : i <= j) <=> i = 1
        BY <2>1, <2>2, <1>3 DEF Matches
      <3> QED BY <2>1, <3>1 DEF FirstMatch
    <2> QED BY <2>1, <2>3, <1>2 DEF Value
  <1>5. ASSUME NEW m \in Names, m # n
        PROVE  Value(new, m) = Value(chain, m)
    <2>1. \A j \in 1 .. Len(chain) : j \in Matches(chain, m) <=> j + 1 \in Matches(new, m)
      BY <1>2, <1>3 DEF Matches
    <2>2. 1 \notin Matches(new, m)
      BY <1>2, <1>5 DEF Matches
    <2>3. \A j \in Matches(new, m) : j - 1 \in Matches(chain, m) /\ j \in 2 .. Len(chain) + 1
      BY <2>1, <2>2, <1>3 DEF Matches
    <2>4. CASE Matches(chain, m) = {}
      BY <2>3, <2>4 DEF Value
    <2>5. CASE Matches(chain, m) # {}
      <3> DEFINE i == FirstMatch(chain, m)
      <3>1. Matches(chain, m) \subseteq 1 .. Len(chain)
        BY <1>3 DEF Matches
      <3>2. i \in Matches(chain, m) /\ \A j \in Matches(chain, m) : i <= j
        <4>1. \E k \in Matches(chain, m) : \A j \in Matches(chain, m) : k <= j
          BY <3>1, <2>5, Least
        <4> QED BY <4>1 DEF FirstMatch
      <3> HIDE DEF i
      <3>3. i + 1 \in Matches(new, m)
        BY <3>1, <3>2, <2>1
      <3>4. \A j \in Matches(new, m) : i + 1 <= j
        BY <3>1, <3>2, <2>3
      <3>5. \A k \in Matches(new, m) : (\A j \in Matches(new, m) : k <= j) <=> k = i + 1
        BY <3>1, <3>2, <3>3, <3>4, <2>3
      <3>6. FirstMatch(new, m) = i + 1
        BY <3>3, <3>5 DEF FirstMatch
      <3> QED BY <3>1, <3>2, <3>3, <3>6, <2>5, <1>2 DEF Value, i
    <2> QED BY <2>4, <2>5
  <1>6. InsertIn(chain, n, s) = new
    BY DEF InsertIn, new
  <1> QED BY <1>2, <1>4, <1>5, <1>6

----------------------------------------------------------------------------
(***************************************************************************)
(* Tables                                                                  *)
(***************************************************************************)

LEMMA GetType == ASSUME NEW t \in Table, NEW n \in Names
                 PROVE  Get(t, n) \in Symbol \cup {None}
  <1>1. t.store[Hash[n]] \in Seq(Node)
    BY NamesAssumption DEF Table
  <1> QED BY <1>1, ValueType DEF Get, Value

\* hashmap_insert() changes what hashmap_get() finds for that name only.
LEMMA GetInsert ==
    ASSUME NEW t \in Table, NEW n \in Names, NEW s \in Symbol
    PROVE  /\ Insert(t, n, s) \in Table
           /\ Insert(t, n, s).size = t.size
           /\ \A m \in Names : Get(Insert(t, n, s), m) = IF m = n THEN s ELSE Get(t, m)
  <1> DEFINE new == InsertIn(t.store[Hash[n]], n, s)
  <1>1. Hash \in [Names -> Buckets]
    BY NamesAssumption
  <1>2. t.store \in [Buckets -> Seq(Node)] /\ t.store[Hash[n]] \in Seq(Node)
    BY <1>1 DEF Table
  <1>3. /\ new \in Seq(Node)
        /\ \A m \in Names : Value(new, m) = IF m = n THEN s ELSE Value(t.store[Hash[n]], m)
    BY <1>2, OverwriteOK, PrependOK
  <1> HIDE DEF new
  <1>4. Insert(t, n, s) = [t EXCEPT !.store = [t.store EXCEPT ![Hash[n]] = new]]
    BY DEF Insert, new
  <1>5. /\ Insert(t, n, s) \in Table
        /\ Insert(t, n, s).size = t.size
        /\ Insert(t, n, s).store = [t.store EXCEPT ![Hash[n]] = new]
    BY <1>2, <1>3, <1>4 DEF Table
  <1>6. ASSUME NEW m \in Names
        PROVE  Get(Insert(t, n, s), m) = IF m = n THEN s ELSE Get(t, m)
    <2>1. Get(Insert(t, n, s), m) = Value(Insert(t, n, s).store[Hash[m]], m)
          /\ Get(t, m) = Value(t.store[Hash[m]], m)
      BY DEF Get, Value
    <2>2. CASE Hash[m] = Hash[n]
      BY <2>1, <2>2, <1>1, <1>2, <1>3, <1>5
    <2>3. CASE Hash[m] # Hash[n]
      BY <2>1, <2>3, <1>1, <1>2, <1>5
    <2> QED BY <2>2, <2>3
  <1> QED BY <1>5, <1>6

LEMMA NewTableOK == /\ NewTable \in Table /\ NewTable.size = 0
                    /\ \A n \in Names : Get(NewTable, n) = None
  <1>1. NewTable \in Table /\ NewTable.size = 0
    BY DEF NewTable, Table
  <1>2. ASSUME NEW n \in Names PROVE Get(NewTable, n) = None
    <2>1. NewTable.store[Hash[n]] = << >>
      BY NamesAssumption DEF NewTable
    <2> QED BY <2>1 DEF Get, Matches
  <1> QED BY <1>1, <1>2

----------------------------------------------------------------------------
(***************************************************************************)
(* The inductive invariant                                                 *)
(***************************************************************************)

\* DenseIndices of one table.
Own(t) == {n \in Names : Get(t, n) # None /\ Get(t, n).scope # "builtin"}
Dense(t, kind) ==
    /\ {Get(t, n).index : n \in Own(t)} = 0 .. t.size - 1
    /\ \A m, n \in Own(t) : Get(t, m).index = Get(t, n).index => m = n
    /\ \A n \in Own(t) : Get(t, n).scope = kind
KindOf(k) == IF k = 1 THEN "global" ELSE "local"

\* Built-ins have their own symbol in the outermost table from the first line on, so
\* that defining them again changes nothing.
BuiltinSymbol(i) == [scope |-> "builtin", index |-> i - 1]
Provided == \A i \in DOMAIN Builtins :
    /\ Get(tables[1], Builtins[i]) \in {None, BuiltinSymbol(i)}
    /\ i < boot => Get(tables[1], Builtins[i]) = BuiltinSymbol(i)

Inv ==
    /\ TypeOK
    /\ \A k \in DOMAIN tables : Dense(tables[k], KindOf(k))
    /\ Provided

LEMMA InvDense == Inv => DenseIndices
  BY DEF Inv, DenseIndices, Dense, Own, KindOf

\* Whether a table is dense depends on its names and its size only.
LEMMA SameDense ==
    ASSUME NEW t, NEW u, NEW kind, Dense(t, kind), u.size = t.size,
           \A n \in Names : \/ Get(u, n) = Get(t, n)
                            \/ n \notin Own(t) /\ n \notin Own(u)
    PROVE  Dense(u, kind)
  <1>1. Own(u) = Own(t) /\ \A n \in Own(t) : Get(u, n) = Get(t, n)
    BY DEF Own
  <1>2. {Get(u, n).index : n \in Own(u)} = {Get(t, n).index : n \in Own(t)}
    BY <1>1
  <1> QED BY <1>1, <1>2 DEF Dense

LEMMA NewTableDense == ASSUME NEW kind PROVE Dense(NewTable, kind)
  <1>1. Own(NewTable) = {} /\ 0 .. NewTable.size - 1 = {}
    BY NewTableOK DEF Own
  <1> QED BY <1>1 DEF Dense

\* The outermost table and the current one.
LEMMA Ends == ASSUME TypeOK
              PROVE  /\ Len(tables) \in Nat \ {0} /\ DOMAIN tables = 1 .. Len(tables)
                     /\ tables[1] \in Table /\ Current \in Table
  <1>1. tables \in Seq(Table) /\ tables # << >>
    BY DEF TypeOK
  <1> QED BY <1>1, ElementOfSeq, EmptySeq DEF Current

LEMMA InitInv == Init => Inv
  <1> SUFFICES ASSUME Init PROVE Inv
    OBVIOUS
  <1>1. tables = <<NewTable>> /\ boot = 1
    BY DEF Init
  <1>2. tables \in Seq(Table) /\ Len(tables) = 1 /\ tables[1] = NewTable /\ DOMAIN tables = {1}
    BY <1>1, NewTableOK
  <1>3. Builtins \in Seq(Names) /\ Len(Builtins) \in Nat /\ DOMAIN Builtins = 1 .. Len(Builtins)
    BY NamesAssumption
  <1>4. TypeOK
    BY <1>1, <1>2, <1>3, EmptySeq DEF TypeOK, Ready
  <1>5. Provided
    BY <1>1, <1>2, <1>3, NewTableOK DEF Provided
  <1> QED BY <1>2, <1>4, <1>5, NewTableDense DEF Inv

\* What an iteration of define_builtins() does to the outermost table.
LEMMA DefineBuiltinOK ==
    ASSUME Inv, DefineBuiltin
    PROVE  /\ tables' \in Seq(Table) /\ Len(tables') = 1 /\ DOMAIN tables' = {1}
           /\ Len(tables) = 1 /\ boot' = boot + 1 /\ boot \in DOMAIN Builtins
           /\ tables'[1].size = tables[1].size
           /\ \A n \in Names : Get(tables'[1], n) =
                  IF n = Builtins[boot] THEN BuiltinSymbol(boot) ELSE Get(tables[1], n)
  <1>1. /\ Builtins \in Seq(Names) /\ Len(Builtins) \in Nat
        /\ DOMAIN Builtins = 1 .. Len(Builtins)
    BY NamesAssumption
  <1>2. boot \in DOMAIN Builtins /\ Len(tables) = 1 /\ tables[1] \in Table
    BY <1>1, Ends DEF Inv, TypeOK, DefineBuiltin, Ready
  <1>3. Builtins[boot] \in Names /\ BuiltinSymbol(boot) \in Symbol
    BY <1>1, <1>2, ElementOfSeq DEF Symbol, BuiltinSymbol
  <1>4. tables' = <<Insert(tables[1], Builtins[boot], BuiltinSymbol(boot))>>
    BY DEF DefineBuiltin, BuiltinSymbol
  <1>5. Insert(tables[1], Builtins[boot], BuiltinSymbol(boot)) \in Table
    BY <1>2, <1>3, GetInsert
  <1>6. tables' \in Seq(Table) /\ Len(tables') = 1 /\ DOMAIN tables' = {1}
    BY <1>4, <1>5
  <1> QED BY <1>2, <1>3, <1>4, <1>6, GetInsert DEF DefineBuiltin

LEMMA DefineBuiltinKeeps == ASSUME Inv, DefineBuiltin PROVE Inv'
  <1>1. TypeOK'
    BY DefineBuiltinOK, EmptySeq, NamesAssumption DEF TypeOK, Ready, Inv
  <1>2. Get(tables[1], Builtins[boot]) \in {None, BuiltinSymbol(boot)}
        /\ Dense(tables[1], KindOf(1))
    BY DefineBuiltinOK DEF Inv, Provided
  <1>3. Dense(tables'[1], KindOf(1))
    <2>1. \A n \in Names : \/ Get(tables'[1], n) = Get(tables[1], n)
                           \/ n \notin Own(tables[1]) /\ n \notin Own(tables'[1])
      BY <1>2, DefineBuiltinOK DEF Own, BuiltinSymbol
    <2> QED BY <1>2, <2>1, DefineBuiltinOK, SameDense
  <1>4. Provided'
    <2> SUFFICES ASSUME NEW i \in DOMAIN Builtins
                 PROVE  /\ Get(tables'[1], Builtins[i]) \in {None, BuiltinSymbol(i)}
                        /\ i < boot' => Get(tables'[1], Builtins[i]) = BuiltinSymbol(i)
      BY DEF Provided, BuiltinSymbol
    <2>1. Builtins[i] \in Names /\ (Builtins[i] = Builtins[boot] => i = boot)
          /\ DOMAIN Builtins \subseteq Nat
      BY NamesAssumption, DefineBuiltinOK, ElementOfSeq
    <2> QED BY <2>1, DefineBuiltinOK DEF Inv, Provided
  <1> QED BY <1>1, <1>3, <1>4, DefineBuiltinOK DEF Inv, KindOf, Dense, Own

\* What symbol_table_define() does to the current table.
LEMMA DefineOK ==
    ASSUME Inv, NEW n \in Names, Get(Current, n) = None,
           tables' = [tables EXCEPT ![Len(tables)] =
               [Insert(Current, n, [scope |-> Scope, index |-> Current.size])
                   EXCEPT !.size = @ + 1]]
    PROVE  /\ tables' \in Seq(Table) /\ Len(tables') = Len(tables)
           /\ \A k \in 1 .. Len(tables) - 1 : tables'[k] = tables[k]
           /\ tables'[Len(tables)].size = Current.size + 1
           /\ \A m \in Names : Get(tables'[Len(tables)], m) =
                  IF m = n THEN [scope |-> Scope, index |-> Current.size] ELSE Get(Current, m)
  <1> DEFINE s == [scope |-> Scope, index |-> Current.size]
             t == Insert(Current, n, s)
             u == [t EXCEPT !.size = @ + 1]
  <1>1. TypeOK /\ tables \in Seq(Table) /\ Len(tables) \in 1 .. Len(tables) /\ Current \in Table
    BY Ends DEF Inv, TypeOK
  <1>2. s \in Symbol
    BY <1>1 DEF Symbol, Table, Scope
  <1>3. /\ t \in Table /\ t.size = Current.size
        /\ \A m \in Names : Get(t, m) = IF m = n THEN s ELSE Get(Current, m)
    BY <1>1, <1>2, GetInsert
  <1> HIDE DEF t
  <1>4. u \in Table /\ u.size = Current.size + 1 /\ u.store = t.store
    BY <1>3 DEF Table
  <1>5. \A m \in Names : Get(u, m) = Get(t, m)
    BY <1>4 DEF Get
  <1>6. tables' = [tables EXCEPT ![Len(tables)] = u]
    BY DEF u, t, s
  <1> HIDE DEF u
  <1>7. tables' \in Seq(Table) /\ Len(tables') = Len(tables)
        /\ \A j \in 1 .. Len(tables) : tables'[j] = IF j = Len(tables) THEN u ELSE tables[j]
    <2>1. Len(tables) \in 1 .. Len(tables) /\ Len(tables) \in Nat \ {0}
      BY <1>1
    <2>2. [tables EXCEPT ![Len(tables)] = u] \in Seq(Table)
          /\ Len([tables EXCEPT ![Len(tables)] = u]) = Len(tables)
          /\ \A j \in 1 .. Len(tables) : [tables EXCEPT ![Len(tables)] = u][j] =
                 IF j = Len(tables) THEN u ELSE tables[j]
      BY <2>1, <1>1, <1>4, ExceptSeq
    <2> QED BY <2>2, <1>6
  <1>8. Len(tables) \in Nat \ {0}
    BY <1>1
  <1>9. tables'[Len(tables)] = u /\ \A k \in 1 .. Len(tables) - 1 : tables'[k] = tables[k]
    BY <1>7, <1>8
  <1> QED BY <1>3, <1>4, <1>5, <1>7, <1>9

LEMMA DefineKeeps == ASSUME Inv, Define PROVE Inv' /\ UNCHANGED boot
  <1>1. PICK n \in Names :
            /\ Ready /\ Get(Current, n) = None
            /\ tables' = [tables EXCEPT ![Len(tables)] =
                   [Insert(Current, n, [scope |-> Scope, index |-> Current.size])
                       EXCEPT !.size = @ + 1]]
            /\ UNCHANGED boot
    BY DEF Define
  <1> DEFINE last == Len(tables)
             s == [scope |-> Scope, index |-> Current.size]
             u == tables'[last]
  <1>2. /\ tables \in Seq(Table) /\ last \in Nat \ {0} /\ DOMAIN tables = 1 .. last
        /\ Current = tables[last] /\ Current \in Table /\ Current.size \in Nat
    BY Ends DEF Inv, TypeOK, Current, Table
  <1>3. /\ tables' \in Seq(Table) /\ Len(tables') = last
        /\ \A k \in 1 .. last - 1 : tables'[k] = tables[k]
        /\ u.size = Current.size + 1
        /\ \A m \in Names : Get(u, m) = IF m = n THEN s ELSE Get(Current, m)
    BY <1>1, DefineOK
  <1>4. DOMAIN tables' = 1 .. last /\ tables' # << >>
    BY <1>2, <1>3, EmptySeq
  <1>5. TypeOK'
    BY <1>1, <1>3, <1>4 DEF Inv, TypeOK, Ready
  <1>6. Scope = KindOf(last) /\ s.scope = Scope /\ s.index = Current.size /\ s \in Symbol
        /\ Scope # "builtin"
    BY <1>2 DEF Scope, KindOf, Symbol
  <1> HIDE DEF last, u, s
  <1>7. Dense(u, KindOf(last))
    <2>1. Dense(Current, KindOf(last))
      BY <1>2 DEF Inv
    <2>2. s # None
      BY <1>6, NamesAssumption
    <2>3. n \notin Own(Current) /\ Own(u) = Own(Current) \cup {n}
      BY <1>1, <1>3, <1>6, <2>2 DEF Own
    <2>4. \A m \in Own(Current) : Get(u, m) = Get(Current, m) /\ m \in Names
      BY <1>3, <2>3 DEF Own
    <2>5. Get(u, n) = s
      BY <1>3
    <2>6. {Get(u, m).index : m \in Own(u)}
              = {Get(Current, m).index : m \in Own(Current)} \cup {Current.size}
      BY <2>3, <2>4, <2>5, <1>6
    <2>7. {Get(u, m).index : m \in Own(u)} = 0 .. u.size - 1
      <3>1. {Get(u, m).index : m \in Own(u)} = (0 .. Current.size - 1) \cup {Current.size}
        BY <2>1, <2>6 DEF Dense
      <3>2. (0 .. Current.size - 1) \cup {Current.size} = 0 .. u.size - 1
        BY <1>2, <1>3
      <3> QED BY <3>1, <3>2
    <2>8. \A m \in Own(Current) : Get(Current, m).index # Current.size
      <3>1. \A m \in Own(Current) : Get(Current, m).index \in 0 .. Current.size - 1
        BY <2>1 DEF Dense
      <3> QED BY <3>1, <1>2
    <2>9. \A l, m \in Own(u) : Get(u, l).index = Get(u, m).index => l = m
      BY <2>1, <2>3, <2>4, <2>5, <2>8, <1>6 DEF Dense
    <2>10. \A m \in Own(u) : Get(u, m).scope = KindOf(last)
      BY <2>1, <2>3, <2>4, <2>5, <1>6 DEF Dense
    <2> QED BY <2>7, <2>9, <2>10 DEF Dense
  <1>8. \A k \in 1 .. last : Dense(tables'[k], KindOf(k))
    <2> SUFFICES ASSUME NEW k \in 1 .. last PROVE Dense(tables'[k], KindOf(k))
      OBVIOUS
    <2>1. CASE k = last
      BY <2>1, <1>7 DEF u
    <2>2. CASE k # last
      <3>1. tables'[k] = tables[k]
        BY <2>2, <1>2, <1>3
      <3>2. Dense(tables[k], KindOf(k))
        BY <1>2 DEF Inv
      <3> QED BY <3>1, <3>2
    <2> QED BY <2>1, <2>2
  <1>9. Provided'
    <2> SUFFICES ASSUME NEW i \in DOMAIN Builtins
                 PROVE  Get(tables'[1], Builtins[i]) = Get(tables[1], Builtins[i])
      BY <1>1 DEF Inv, Provided, BuiltinSymbol
    <2>1. Builtins[i] \in Names
      BY NamesAssumption, ElementOfSeq
    <2>2. CASE last # 1
      BY <2>2, <1>2, <1>3
    <2>3. CASE last = 1
      <3>1. Get(tables[1], Builtins[i]) = BuiltinSymbol(i)
        <4>1. i < boot
          BY <1>1, NamesAssumption DEF Ready, Inv, TypeOK
        <4> QED BY <4>1 DEF Inv, Provided
      <3>2. BuiltinSymbol(i) \in Symbol
        BY NamesAssumption DEF BuiltinSymbol, Symbol
      <3>3. Builtins[i] # n
        BY <2>3, <3>1, <3>2, <1>1, <1>2, NamesAssumption
      <3> QED BY <2>1, <2>3, <3>3, <1>2, <1>3 DEF u
    <2> QED BY <2>2, <2>3
  <1> QED BY <1>1, <1>4, <1>5, <1>8, <1>9 DEF Inv, KindOf, Dense, Own

\* The scopes that stay open keep their tables when one is entered or left, or when a
\* new line begins.
LEMMA ScopesKeep ==
    ASSUME Inv, Ready, NEW d \in Nat \ {0}, tables' \in Seq(Table), Len(tables') = d,
           tables'[1] = tables[1],
           \A k \in 1 .. d : tables'[k] = NewTable \/ (k \in DOMAIN tables /\ tables'[k] = tables[k]),
           \/ UNCHANGED boot
           \/ boot' = 1 /\ d = 1
    PROVE  Inv'
  <1>1. DOMAIN tables' = 1 .. d /\ tables' # << >>
    BY EmptySeq
  <1>2. boot \in 1 .. Len(Builtins) + 1 /\ Len(Builtins) \in Nat
        /\ DOMAIN Builtins = 1 .. Len(Builtins)
    BY NamesAssumption DEF Inv, TypeOK
  <1>3. TypeOK'
    BY <1>1, <1>2 DEF TypeOK, Ready
  <1>4. \A k \in 1 .. d : Dense(tables'[k], KindOf(k))
    BY NewTableDense DEF Inv
  <1>5. Provided'
    <2> SUFFICES ASSUME NEW i \in DOMAIN Builtins
                 PROVE  Get(tables'[1], Builtins[i]) = BuiltinSymbol(i)
      BY DEF Provided, BuiltinSymbol
    <2>1. i < boot
      BY <1>2 DEF Ready
    <2> QED BY <2>1 DEF Inv, Provided
  <1> QED BY <1>1, <1>3, <1>4, <1>5 DEF Inv, KindOf, Dense, Own

LEMMA EnterKeeps == ASSUME Inv, Enter PROVE Inv'
  <1>1. tables \in Seq(Table) /\ Len(tables) \in Nat \ {0} /\ DOMAIN tables = 1 .. Len(tables)
    BY Ends DEF Inv, TypeOK
  <1>2. /\ tables' \in Seq(Table) /\ Len(tables') = Len(tables) + 1
        /\ \A k \in 1 .. Len(tables) : tables'[k] = tables[k]
        /\ tables'[Len(tables) + 1] = NewTable
    BY <1>1, NewTableOK, AppendProperties DEF Enter
  <1>3. Len(tables) + 1 \in Nat \ {0} /\ tables'[1] = tables[1]
    BY <1>1, <1>2
  <1>4. \A k \in 1 .. Len(tables) + 1 :
            tables'[k] = NewTable \/ (k \in DOMAIN tables /\ tables'[k] = tables[k])
    BY <1>1, <1>2
  <1> QED BY <1>2, <1>3, <1>4, ScopesKeep DEF Enter

LEMMA LeaveKeeps == ASSUME Inv, Leave PROVE Inv'
  <1>1. tables \in Seq(Table) /\ Len(tables) \in Nat \ {0, 1} /\ DOMAIN tables = 1 .. Len(tables)
    BY Ends DEF Inv, TypeOK, Leave
  <1>2. /\ tables' \in Seq(Table) /\ Len(tables') = Len(tables) - 1
        /\ \A k \in 1 .. Len(tables) - 1 : tables'[k] = tables[k]
    BY <1>1, SubSeqProperties DEF Leave
  <1>3. Len(tables) - 1 \in Nat \ {0} /\ tables'[1] = tables[1]
    BY <1>1, <1>2
  <1>4. \A k \in 1 .. Len(tables) - 1 : k \in DOMAIN tables /\ tables'[k] = tables[k]
    BY <1>1, <1>2
  <1>5. Ready /\ UNCHANGED boot
    BY DEF Leave
  <1> QED BY <1>2, <1>3, <1>4, <1>5, ScopesKeep

LEMMA NewLineKeeps == ASSUME Inv, NewLine PROVE Inv'
  <1>1. tables[1] \in Table /\ 1 \in DOMAIN tables
    BY Ends DEF Inv
  <1>2. tables' = <<tables[1]>> /\ boot' = 1 /\ Ready
    BY DEF NewLine
  <1>3. tables' \in Seq(Table) /\ Len(tables') = 1 /\ tables'[1] = tables[1]
    BY <1>1, <1>2
  <1> QED BY <1>1, <1>2, <1>3, ScopesKeep

LEMMA NextInv == Inv /\ [Next]_vars => Inv'
  <1> SUFFICES ASSUME Inv, [Next]_vars PROVE Inv'
    OBVIOUS
  <1>1. CASE Next
    BY <1>1, DefineBuiltinKeeps, DefineKeeps, EnterKeeps, LeaveKeeps, NewLineKeeps DEF Next
  <1>2. CASE UNCHANGED vars
    BY <1>2 DEF vars, Inv, TypeOK, Ready, Dense, Own, Provided
  <1> QED BY <1>1, <1>2

LEMMA Invariance == Spec => []Inv
  BY InitInv, NextInv, PTL DEF Spec

----------------------------------------------------------------------------
\* Every chain holds nodes and the tables are one per open scope, for every program and
\* every line of the REPL: what struct hashmap and c->symbol_table are declared to be.
THEOREM TablesTyped == Spec => []TypeOK
  <1>1. Inv => TypeOK
    BY DEF Inv
  <1> QED BY <1>1, Invariance, PTL

\* A scope's slots are the numbers below its size, one per name: what the VM reserves for
\* a function's locals is what symbol_table_define() handed out.
THEOREM SlotsDense == Spec => []DenseIndices
  BY InvDense, Invariance, PTL

\* A step changes the symbol of no name that a scope, open before and after, already has.
LEMMA StepStable ==
    ASSUME Inv, [Next]_vars
    PROVE  [\A n \in Names :
              /\ Get(tables[1], n) # None => Get(tables'[1], n) = Get(tables[1], n)
              /\ \A k \in DOMAIN tables \cap DOMAIN tables' :
                   Get(tables[k], n) # None => Get(tables'[k], n) = Get(tables[k], n)]_vars
  <1> SUFFICES ASSUME NEW n \in Names, NEW k \in DOMAIN tables \cap DOMAIN tables', Next,
                      Get(tables[k], n) # None
               PROVE  Get(tables'[k], n) = Get(tables[k], n)
    <2>1. 1 \in DOMAIN tables /\ 1 \in DOMAIN tables'
      <3>1. Inv'
        BY NextInv
      <3>2. tables \in Seq(Table) /\ tables # << >> /\ tables' \in Seq(Table) /\ tables' # << >>
        BY <3>1 DEF Inv, TypeOK
      <3> QED BY <3>2, EmptySeq
    <2> QED BY <2>1
  <1>1. tables \in Seq(Table) /\ Len(tables) \in Nat \ {0} /\ DOMAIN tables = 1 .. Len(tables)
    BY Ends DEF Inv, TypeOK
  <1>2. CASE DefineBuiltin
    <2>1. k = 1 /\ Get(tables[1], Builtins[boot]) \in {None, BuiltinSymbol(boot)}
      BY <1>2, DefineBuiltinOK DEF Inv, Provided
    <2> QED BY <1>2, <2>1, DefineBuiltinOK
  <1>3. CASE Define
    <2>1. PICK m \in Names :
              /\ Get(Current, m) = None
              /\ tables' = [tables EXCEPT ![Len(tables)] =
                     [Insert(Current, m, [scope |-> Scope, index |-> Current.size])
                         EXCEPT !.size = @ + 1]]
      BY <1>3 DEF Define
    <2>2. CASE k = Len(tables)
      BY <2>1, <2>2, DefineOK DEF Current
    <2>3. CASE k # Len(tables)
      BY <2>1, <2>3, <1>1, DefineOK
    <2> QED BY <2>2, <2>3
  <1>4. CASE Enter
    BY <1>1, <1>4, NewTableOK, AppendProperties DEF Enter
  <1>5. CASE Leave
    <2>1. /\ tables' \in Seq(Table) /\ Len(tables') = Len(tables) - 1
          /\ \A j \in 1 .. Len(tables) - 1 : tables'[j] = tables[j]
      BY <1>1, <1>5, SubSeqProperties DEF Leave
    <2> QED BY <1>1, <2>1
  <1>6. CASE NewLine
    BY <1>6 DEF NewLine
  <1> QED BY <1>2, <1>3, <1>4, <1>5, <1>6 DEF Next

\* Code compiled on one line keeps its meaning on the next: no step, of a built-in's
\* second definition least of all, gives another symbol to a name that has one.
THEOREM BindingsKept == Spec => BindingsStable
  BY StepStable, Invariance, PTL DEF Spec, BindingsStable

----------------------------------------------------------------------------
(***************************************************************************)
(* Hash chains and the walk outwards implement lexical scoping             *)
(***************************************************************************)

\* A non-empty set of numbers up to k has a greatest member.
LEMMA Greatest == ASSUME NEW k \in Nat, NEW S \in SUBSET (1 .. k), S # {}
                  PROVE  \E i \in S : \A j \in S : j <= i
  <1> DEFINE T == {k - i : i \in S}
  <1>1. T \in SUBSET Nat /\ T # {}
    <2>1. \A i \in S : k - i \in Nat
      OBVIOUS
    <2>2. PICK i \in S : TRUE
      OBVIOUS
    <2>3. k - i \in T
      BY <2>2
    <2> QED BY <2>1, <2>3
  <1>2. PICK d \in T : \A e \in T : d <= e
    BY <1>1, Least
  <1>3. PICK i \in S : d = k - i
    OBVIOUS
  <1>4. ASSUME NEW j \in S PROVE j <= i
    <2>1. k - i <= k - j
      BY <1>2, <1>3
    <2>2. i \in Nat /\ j \in Nat
      OBVIOUS
    <2> QED BY <2>1, <2>2
  <1> QED BY <1>4

\* symbol_table_resolve(): the symbol of the scope itself, or what the next one says.
LEMMA ResolveStep ==
    \A k \in Nat \ {0}, n \in Names :
        Resolve(k, n) = IF Get(tables[k], n) # None THEN Get(tables[k], n)
                        ELSE Resolve(k - 1, n)
  <1> SUFFICES ASSUME NEW k \in Nat \ {0}, NEW n \in Names
               PROVE  Resolve(k, n) = IF Get(tables[k], n) # None THEN Get(tables[k], n)
                                      ELSE Resolve(k - 1, n)
    OBVIOUS
  <1> DEFINE H(d) == {i \in 1 .. d : Get(tables[i], n) # None}
             M(S) == CHOOSE i \in S : \A j \in S : j <= i
  <1>1. \A d : Resolve(d, n) = IF H(d) = {} THEN None ELSE Get(tables[M(H(d))], n)
    BY DEF Resolve
  <1>2. CASE Get(tables[k], n) # None
    <2>1. k \in H(k) /\ \A j \in H(k) : j <= k
      BY <1>2
    <2>2. \A i \in H(k) : (\A j \in H(k) : j <= i) <=> i = k
      BY <2>1
    <2>3. M(H(k)) = k
      BY <2>1, <2>2
    <2> HIDE DEF H, M
    <2> QED BY <1>1, <1>2, <2>1, <2>3
  <1>3. CASE Get(tables[k], n) = None
    <2>1. H(k) = H(k - 1)
      BY <1>3
    <2> HIDE DEF H, M
    <2> QED BY <1>1, <1>3, <2>1
  <1> QED BY <1>2, <1>3

\* What a name resolves to depends on the scopes from there outwards.
LEMMA SameResolve ==
    ASSUME NEW k \in Nat, NEW n \in Names,
           \A j \in 1 .. k : Get(tables'[j], n) = Get(tables[j], n)
    PROVE  Resolve(k, n)' = Resolve(k, n)
  <1> DEFINE H == {i \in 1 .. k : Get(tables[i], n) # None}
             G == {i \in 1 .. k : Get(tables'[i], n) # None}
             i == CHOOSE i \in H : \A j \in H : j <= i
  <1>1. H = G
    OBVIOUS
  <1>2. Resolve(k, n) = IF H = {} THEN None ELSE Get(tables[i], n)
    BY DEF Resolve
  <1>3. Resolve(k, n)' = IF H = {} THEN None ELSE Get(tables'[i], n)
    <2>1. Resolve(k, n)' = IF G = {} THEN None
                           ELSE Get(tables'[CHOOSE m \in G : \A j \in G : j <= m], n)
      BY DEF Resolve
    <2> HIDE DEF G, H
    <2> QED BY <1>1, <2>1
  <1>4. H # {} => i \in 1 .. k
    <2> SUFFICES ASSUME H # {} PROVE i \in H
      OBVIOUS
    <2>1. \E m \in H : \A j \in H : j <= m
      BY Greatest
    <2> QED BY <2>1
  <1> HIDE DEF H, i
  <1> QED BY <1>2, <1>3, <1>4

\* The view of a scope whose names, and those of the scopes around it, stay.
LEMMA SameView ==
    ASSUME NEW k \in Nat, tables'[k].size = tables[k].size,
           \A n \in Names, j \in 1 .. k : Get(tables'[j], n) = Get(tables[j], n), k > 0
    PROVE  View(k)' = View(k)
  <1>1. \A n \in Names : Resolve(k, n)' = Resolve(k, n)
    BY SameResolve
  <1>2. OwnNames(k)' = OwnNames(k)
    BY DEF OwnNames
  <1> QED BY <1>1, <1>2 DEF View

\* The views are a sequence as long as that of the tables.
LEMMA ViewsOK == TypeOK => /\ Views \in Seq({View(k) : k \in DOMAIN tables})
                           /\ Len(Views) = Len(tables) /\ DOMAIN Views = 1 .. Len(tables)
                           /\ \A k \in 1 .. Len(tables) : Views[k] = View(k)
  <1> SUFFICES ASSUME TypeOK
               PROVE  /\ Views \in Seq({View(k) : k \in DOMAIN tables})
                      /\ Len(Views) = Len(tables) /\ DOMAIN Views = 1 .. Len(tables)
                      /\ \A k \in 1 .. Len(tables) : Views[k] = View(k)
    OBVIOUS
  <1>1. DOMAIN tables = 1 .. Len(tables) /\ Len(tables) \in Nat
    BY Ends
  <1>2. Views \in [1 .. Len(tables) -> {View(k) : k \in DOMAIN tables}]
    BY <1>1 DEF Views
  <1> QED BY <1>1, <1>2, IsASeq DEF Views

\* The names of a table are numbered by their slots.
LEMMA OwnNamesOK ==
    ASSUME NEW k \in DOMAIN tables, NEW kind, Dense(tables[k], kind), tables[k].size \in Nat
    PROVE  /\ OwnNames(k) \in Seq(Names) /\ Len(OwnNames(k)) = tables[k].size
           /\ \A s \in 1 .. tables[k].size :
                /\ OwnNames(k)[s] \in Own(tables[k])
                /\ Get(tables[k], OwnNames(k)[s]).index = s - 1
  <1>1. ASSUME NEW s \in 1 .. tables[k].size
        PROVE  /\ OwnNames(k)[s] \in Own(tables[k])
               /\ Get(tables[k], OwnNames(k)[s]).index = s - 1
    <2>1. s - 1 \in 0 .. tables[k].size - 1
      OBVIOUS
    <2>2. \E n \in Own(tables[k]) : Get(tables[k], n).index = s - 1
      BY <2>1 DEF Dense
    <2>3. OwnNames(k)[s] = CHOOSE n \in Names : /\ Get(tables[k], n) # None
                                                /\ Get(tables[k], n).scope # "builtin"
                                                /\ Get(tables[k], n).index = s - 1
      BY DEF OwnNames
    <2> QED BY <2>2, <2>3 DEF Own
  <1>2. OwnNames(k) \in [1 .. tables[k].size -> Names]
    <2>1. DOMAIN OwnNames(k) = 1 .. tables[k].size
          /\ OwnNames(k) = [s \in 1 .. tables[k].size |-> OwnNames(k)[s]]
      BY DEF OwnNames
    <2> QED BY <1>1, <2>1 DEF Own
  <1> QED BY <1>1, <1>2, IsASeq

\* Sequences with the same members are the same.
LEMMA SeqSame == ASSUME NEW S, NEW T, NEW s \in Seq(S), NEW t \in Seq(T), Len(s) = Len(t),
                        \A i \in 1 .. Len(s) : s[i] = t[i]
                 PROVE  s = t
  <1>1. s \in Seq(S \cup T) /\ t \in Seq(S \cup T)
    BY SeqMonotonic
  <1> QED BY <1>1, SeqEqual

\* Outside the outermost scope there is no name.
LEMMA ResolveZero == \A n \in Names : Resolve(0, n) = None
  BY DEF Resolve

\* The same in the next state.
LEMMA ResolveNext ==
    (/\ \A n \in Names : Resolve(0, n) = None
     /\ \A k \in Nat \ {0}, n \in Names :
          Resolve(k, n) = IF Get(tables[k], n) # None THEN Get(tables[k], n)
                          ELSE Resolve(k - 1, n))'
  BY ResolveZero, ResolveStep, PTL

\* A new scope sees what the scope around it sees and has no names of its own.
LEMMA NewView == \A k \in Nat \ {0} : tables[k] = NewTable =>
                     View(k) = [env |-> [n \in Names |-> Resolve(k - 1, n)], own |-> << >>]
  <1> SUFFICES ASSUME NEW k \in Nat \ {0}, tables[k] = NewTable
               PROVE  View(k) = [env |-> [n \in Names |-> Resolve(k - 1, n)], own |-> << >>]
    OBVIOUS
  <1>1. \A n \in Names : Resolve(k, n) = Resolve(k - 1, n)
    BY ResolveStep, NewTableOK
  <1>2. OwnNames(k) = << >>
    <2>1. 1 .. tables[k].size = {}
      BY NewTableOK
    <2> QED BY <2>1 DEF OwnNames
  <1> QED BY <1>1, <1>2 DEF View

LEMMA NewViewNext ==
    (\A k \in Nat \ {0} : tables[k] = NewTable =>
        View(k) = [env |-> [n \in Names |-> Resolve(k - 1, n)], own |-> << >>])'
  BY NewView, PTL

\* compiler_new() begins with one scope without names.
LEMMA InitRefines == Init => Lexical!Init
  <1> SUFFICES ASSUME Init PROVE Lexical!Init
    OBVIOUS
  <1>1. Len(tables) = 1 /\ tables[1] = NewTable /\ TypeOK
    BY InitInv DEF Init, Inv
  <1>2. View(1) = [env |-> [n \in Names |-> Resolve(0, n)], own |-> << >>]
    BY <1>1, NewView
  <1>3. View(1) = [env |-> [n \in Names |-> None], own |-> << >>]
    BY <1>2, ResolveZero
  <1>4. /\ Views \in Seq({View(k) : k \in DOMAIN tables})
        /\ Len(Views) = 1 /\ Views[1] = View(1)
    BY <1>1, ViewsOK
  <1>5. Views = <<View(1)>>
    BY <1>4
  <1> QED BY <1>3, <1>5 DEF Lexical!Init

\* The views before and after a step that keeps the invariant.
LEMMA BothViews ==
    ASSUME Inv, [Next]_vars
    PROVE  /\ Views \in Seq({View(k) : k \in DOMAIN tables})
           /\ Len(Views) = Len(tables) /\ DOMAIN Views = 1 .. Len(tables)
           /\ \A k \in 1 .. Len(tables) : Views[k] = View(k)
           /\ Views' \in Seq({View(k)' : k \in DOMAIN tables'})
           /\ Len(Views') = Len(tables') /\ DOMAIN Views' = 1 .. Len(tables')
           /\ \A k \in 1 .. Len(tables') : Views'[k] = View(k)'
           /\ Len(tables) \in Nat \ {0} /\ Len(tables') \in Nat \ {0}
           /\ Inv'
  <1>1. Inv' /\ TypeOK /\ TypeOK'
    BY NextInv DEF Inv
  <1>2. Len(tables) \in Nat \ {0}
    BY <1>1, Ends
  <1>3. Len(tables') \in Nat \ {0}
    BY <1>1, EmptySeq DEF TypeOK
  <1>4. (TypeOK => /\ Views \in Seq({View(k) : k \in DOMAIN tables})
                   /\ Len(Views) = Len(tables) /\ DOMAIN Views = 1 .. Len(tables)
                   /\ \A k \in 1 .. Len(tables) : Views[k] = View(k))'
    BY ViewsOK, PTL
  <1> QED BY <1>1, <1>2, <1>3, <1>4, ViewsOK

LEMMA DefineBuiltinRefines == ASSUME Inv, DefineBuiltin PROVE Lexical!Provide
  <1> DEFINE b == Builtins[boot]
  <1>1. /\ Len(Views) = 1 /\ Views[1] = View(1)
        /\ Len(Views') = 1 /\ Views'[1] = View(1)'
        /\ Views' \in Seq({View(k)' : k \in DOMAIN tables'})
    <2>1. [Next]_vars
      BY DEF Next
    <2>2. Len(tables) = 1 /\ Len(tables') = 1
      BY DefineBuiltinOK
    <2> QED BY <2>1, <2>2, BothViews
  <1>2. Views' = <<View(1)'>>
    BY <1>1
  <1>3. b \in Names /\ Get(tables[1], b) \in {None, BuiltinSymbol(boot)}
    BY DefineBuiltinOK, NamesAssumption, ElementOfSeq DEF Inv, Provided
  <1>4. \A n \in Names : Resolve(1, n) = Get(tables[1], n)
    BY ResolveStep, ResolveZero
  <1>5. \A n \in Names : Resolve(1, n)' = Get(tables'[1], n)
    BY ResolveNext
  <1>6. OwnNames(1)' = OwnNames(1)
    <2>1. \A n \in Names, s \in Nat :
              (/\ Get(tables[1], n) # None
               /\ Get(tables[1], n).scope # "builtin"
               /\ Get(tables[1], n).index = s - 1)
              <=> (/\ Get(tables'[1], n) # None
                   /\ Get(tables'[1], n).scope # "builtin"
                   /\ Get(tables'[1], n).index = s - 1)
      BY <1>3, DefineBuiltinOK DEF BuiltinSymbol
    <2>2. 1 .. tables[1].size \subseteq Nat /\ tables'[1].size = tables[1].size
      BY DefineBuiltinOK
    <2> QED BY <2>1, <2>2 DEF OwnNames
  <1>7. View(1)' = [View(1) EXCEPT !.env[b] = BuiltinSymbol(boot)]
    <2>1. [n \in Names |-> Resolve(1, n)'] =
              [[n \in Names |-> Resolve(1, n)] EXCEPT ![b] = BuiltinSymbol(boot)]
      BY <1>3, <1>4, <1>5, DefineBuiltinOK
    <2>2. View(1) = [env |-> [n \in Names |-> Resolve(1, n)], own |-> OwnNames(1)]
      BY DEF View
    <2>3. View(1)' = [env |-> [n \in Names |-> Resolve(1, n)'], own |-> OwnNames(1)']
      BY DEF View
    <2> HIDE DEF b
    <2> QED BY <2>1, <2>2, <2>3, <1>6
  <1>8. boot \in DOMAIN Builtins
    BY DefineBuiltinOK
  <1> QED BY <1>1, <1>2, <1>7, <1>8 DEF Lexical!Provide, BuiltinSymbol

LEMMA EnterRefines == ASSUME Inv, Enter PROVE Lexical!Open
  <1>1. [Next]_vars
    BY DEF Next
  <1>2. PICK d \in Nat : d = Len(tables)
    BY Ends DEF Inv
  <1>3a. /\ d \in Nat \ {0} /\ Len(tables') = d + 1
        /\ \A k \in 1 .. d : tables'[k] = tables[k]
        /\ tables'[d + 1] = NewTable
    BY <1>2, Ends, NewTableOK, AppendProperties DEF Enter, Inv, TypeOK
  <1>3. \A k \in 1 .. d : View(k)' = View(k)
    BY <1>2, <1>3a, SameView
  <1>4. View(d + 1)' = [env |-> View(d).env, own |-> << >>]
    <2>2. d + 1 \in Nat \ {0} /\ (d + 1) - 1 = d
      BY <1>2, <1>3a
    <2>4. View(d + 1)' = [env |-> [n \in Names |-> Resolve(d, n)'], own |-> << >>]
      BY <2>2, <1>2, <1>3a, NewViewNext
    <2>3. \A n \in Names : Resolve(d, n)' = Resolve(d, n)
      <3> SUFFICES ASSUME NEW n \in Names PROVE Resolve(d, n)' = Resolve(d, n)
        OBVIOUS
      <3>1. \A j \in 1 .. d : Get(tables'[j], n) = Get(tables[j], n)
        BY <1>2, <1>3a
      <3>2. d \in Nat
        BY <1>2, <1>3a
      <3> QED BY <3>1, <3>2, SameResolve
    <2> QED BY <2>3, <2>4 DEF View
  <1>5. Lexical!Inner = View(d)
    BY <1>1, <1>2, <1>3a, BothViews DEF Lexical!Inner
  <1> DEFINE S == {View(k) : k \in DOMAIN tables} \cup {[env |-> View(d).env, own |-> << >>]}
             w == Append(Views, [env |-> View(d).env, own |-> << >>])
  <1>6. /\ Views \in Seq(S) /\ Len(Views) = d /\ \A k \in 1 .. d : Views[k] = View(k)
        /\ Views' \in Seq({View(k)' : k \in DOMAIN tables'}) /\ Len(Views') = d + 1
        /\ \A k \in 1 .. d + 1 : Views'[k] = View(k)'
    BY <1>1, <1>2, <1>3a, BothViews, SeqMonotonic
  <1>7. /\ w \in Seq(S) /\ Len(w) = d + 1
        /\ \A k \in 1 .. d : w[k] = View(k)
        /\ w[d + 1] = [env |-> View(d).env, own |-> << >>]
    BY <1>6, <1>2, <1>3a, AppendProperties
  <1> HIDE DEF S, w
  <1>8. \A k \in 1 .. d + 1 : Views'[k] = w[k]
    <2> SUFFICES ASSUME NEW k \in 1 .. d + 1 PROVE Views'[k] = w[k]
      OBVIOUS
    <2>1. CASE k = d + 1
      <3>1. d + 1 \in 1 .. d + 1
        BY <1>3a
      <3>2. Views'[d + 1] = View(d + 1)'
        BY <3>1, <1>6
      <3> QED BY <2>1, <3>2, <1>4, <1>7
    <2>2. CASE k # d + 1
      <3>1. k \in 1 .. d
        BY <2>2, <1>2
      <3> QED BY <3>1, <1>3, <1>6, <1>7
    <2> QED BY <2>1, <2>2
  <1>9. Views' = w
    BY <1>6, <1>7, <1>8, SeqSame
  <1> QED BY <1>5, <1>9 DEF Lexical!Open, w

\* Scopes that are left disappear, one by one or down to the outermost.
LEMMA Outwards ==
    ASSUME Inv, [Next]_vars, NEW d \in 1 .. Len(tables), tables' = SubSeq(tables, 1, d)
    PROVE  Views' = SubSeq(Views, 1, d)
  <1>1. /\ tables \in Seq(Table) /\ Len(tables) \in Nat \ {0} /\ d \in Nat \ {0}
        /\ Len(tables') = d /\ \A k \in 1 .. d : tables'[k] = tables[k]
    BY Ends, SubSeqProperties DEF Inv, TypeOK
  <1>2. \A k \in 1 .. d : View(k)' = View(k)
    BY <1>1, SameView
  <1> DEFINE S == {View(k) : k \in DOMAIN tables}
  <1>3. /\ Views \in Seq(S) /\ Len(Views) = Len(tables)
        /\ \A k \in 1 .. Len(tables) : Views[k] = View(k)
        /\ Views' \in Seq({View(k)' : k \in DOMAIN tables'}) /\ Len(Views') = d
        /\ \A k \in 1 .. d : Views'[k] = View(k)'
    BY <1>1, BothViews
  <1> HIDE DEF S
  <1>4. /\ SubSeq(Views, 1, d) \in Seq(S) /\ Len(SubSeq(Views, 1, d)) = d
        /\ \A k \in 1 .. d : SubSeq(Views, 1, d)[k] = View(k)
    BY <1>1, <1>3, SubSeqProperties
  <1> QED BY <1>1, <1>2, <1>3, <1>4, SeqSame

LEMMA LeaveRefines == ASSUME Inv, Leave PROVE Lexical!Close
  <1>1. [Next]_vars /\ tables' = SubSeq(tables, 1, Len(tables) - 1) /\ Len(tables) > 1
    BY DEF Next, Leave
  <1>2. Len(Views) = Len(tables) /\ Len(tables) \in Nat
    BY <1>1, BothViews
  <1> QED BY <1>1, <1>2, Outwards DEF Lexical!Close

LEMMA NewLineRefines == ASSUME Inv, NewLine PROVE Lexical!Abandon
  <1>1. [Next]_vars /\ tables' = <<tables[1]>>
    BY DEF Next, NewLine
  <1>2. tables \in Seq(Table) /\ Len(tables) \in Nat \ {0} /\ tables[1] \in Table
    BY Ends DEF Inv, TypeOK
  <1>3. SubSeq(tables, 1, 1) = <<tables[1]>>
    <2>1. /\ SubSeq(tables, 1, 1) \in Seq(Table) /\ Len(SubSeq(tables, 1, 1)) = 1
          /\ SubSeq(tables, 1, 1)[1] = tables[1]
      BY <1>2, SubSeqProperties
    <2>2. <<tables[1]>> \in Seq(Table) /\ Len(<<tables[1]>>) = 1 /\ <<tables[1]>>[1] = tables[1]
      BY <1>2
    <2>3. \A i \in 1 .. 1 : SubSeq(tables, 1, 1)[i] = <<tables[1]>>[i]
      BY <2>1, <2>2
    <2> QED BY <2>1, <2>2, <2>3, SeqSame
  <1> QED BY <1>1, <1>2, <1>3, Outwards DEF Lexical!Abandon

LEMMA DefineRefines == ASSUME Inv, Define PROVE Lexical!Declare
  <1>1. PICK n \in Names :
            /\ Get(Current, n) = None
            /\ tables' = [tables EXCEPT ![Len(tables)] =
                   [Insert(Current, n, [scope |-> Scope, index |-> Current.size])
                       EXCEPT !.size = @ + 1]]
    BY DEF Define
  <1>0. PICK d \in Nat : d = Len(tables)
    BY Ends DEF Inv
  <1> DEFINE z == Current.size
             s == [scope |-> Scope, index |-> z]
             u == tables'[d]
  <1>2. /\ d \in Nat \ {0} /\ Current = tables[d] /\ z \in Nat /\ d \in DOMAIN tables
        /\ [Next]_vars
    BY <1>0, Ends DEF Inv, TypeOK, Current, Table, Next
  <1>3. /\ Len(tables') = d
        /\ \A k \in 1 .. d - 1 : tables'[k] = tables[k]
        /\ u.size = z + 1
        /\ \A m \in Names : Get(u, m) = IF m = n THEN s ELSE Get(tables[d], m)
    BY <1>0, <1>1, <1>2, DefineOK
  <1>4. /\ Len(Views) = d /\ \A k \in 1 .. d : Views[k] = View(k)
        /\ Views \in Seq({View(k) : k \in DOMAIN tables})
        /\ Len(Views') = d /\ \A k \in 1 .. d : Views'[k] = View(k)'
        /\ Views' \in Seq({View(k)' : k \in DOMAIN tables'})
        /\ Inv'
    BY <1>0, <1>2, <1>3, BothViews
  <1> HIDE DEF z, u
  <1>5. s # None /\ s.scope # "builtin" /\ s.scope = KindOf(d) /\ s.index = z
    <2>1. s \in Symbol /\ s.scope = Scope
      BY <1>2 DEF Symbol, Scope
    <2> QED BY <1>0, <1>2, <2>1, NamesAssumption DEF Scope, KindOf
  <1> HIDE DEF s
  <1>6. \A m \in Names : Resolve(d, m)' = IF m = n THEN s ELSE Resolve(d, m)
    <2> SUFFICES ASSUME NEW m \in Names
                 PROVE  Resolve(d, m)' = IF m = n THEN s ELSE Resolve(d, m)
      OBVIOUS
    <2>1. CASE m # n
      <3>1. \A j \in 1 .. d : Get(tables'[j], m) = Get(tables[j], m)
        BY <2>1, <1>2, <1>3 DEF u
      <3>2. d \in Nat
        BY <1>2
      <3> QED BY <2>1, <3>1, <3>2, SameResolve
    <2>2. CASE m = n
      <3>1. Get(tables'[d], n) = s
        BY <1>3 DEF u
      <3> QED BY <2>2, <3>1, <1>2, <1>5, ResolveNext
    <2> QED BY <2>1, <2>2
  <1>7. Dense(tables[d], KindOf(d)) /\ Dense(u, KindOf(d))
    <2>1. (\A k \in DOMAIN tables : Dense(tables[k], KindOf(k)))'
      BY <1>4 DEF Inv
    <2>2. \A k \in DOMAIN tables' : Dense(tables'[k], KindOf(k))
      BY <2>1 DEF Dense, Own, KindOf
    <2>3. d \in DOMAIN tables'
      BY <1>2, <1>3, <1>4 DEF Inv, TypeOK
    <2> QED BY <2>2, <2>3, <1>2 DEF Inv, u
  <1>8. /\ OwnNames(d) \in Seq(Names) /\ Len(OwnNames(d)) = z
        /\ \A i \in 1 .. z : /\ OwnNames(d)[i] \in Own(tables[d])
                             /\ Get(tables[d], OwnNames(d)[i]).index = i - 1
    BY <1>2, <1>7, OwnNamesOK DEF z
  <1>9. n \notin Own(tables[d]) /\ Own(u) = Own(tables[d]) \cup {n}
    BY <1>1, <1>2, <1>3, <1>5 DEF Own
  <1>10. /\ OwnNames(d)' \in Seq(Names) /\ Len(OwnNames(d)') = z + 1
         /\ \A i \in 1 .. z + 1 : /\ OwnNames(d)'[i] \in Own(u)
                                  /\ Get(u, OwnNames(d)'[i]).index = i - 1
    <2>1. \A i \in 1 .. z + 1 : \E m \in Own(u) : Get(u, m).index = i - 1
      <3> SUFFICES ASSUME NEW i \in 1 .. z + 1 PROVE \E m \in Own(u) : Get(u, m).index = i - 1
        OBVIOUS
      <3>1. i - 1 \in 0 .. u.size - 1
        BY <1>2, <1>3
      <3> QED BY <3>1, <1>7 DEF Dense
    <2>2. OwnNames(d)' = [i \in 1 .. z + 1 |-> CHOOSE m \in Names :
                             /\ Get(u, m) # None
                             /\ Get(u, m).scope # "builtin"
                             /\ Get(u, m).index = i - 1]
      BY <1>3 DEF OwnNames, u
    <2>3. \A i \in 1 .. z + 1 : /\ OwnNames(d)'[i] \in Own(u)
                                /\ Get(u, OwnNames(d)'[i]).index = i - 1
      <3> SUFFICES ASSUME NEW i \in 1 .. z + 1
                   PROVE  /\ OwnNames(d)'[i] \in Own(u)
                          /\ Get(u, OwnNames(d)'[i]).index = i - 1
        OBVIOUS
      <3>1. OwnNames(d)'[i] = CHOOSE m \in Names : /\ Get(u, m) # None
                                                   /\ Get(u, m).scope # "builtin"
                                                   /\ Get(u, m).index = i - 1
        BY <2>2
      <3> QED BY <2>1, <3>1 DEF Own
    <2>4. OwnNames(d)' \in [1 .. z + 1 -> Names]
      BY <2>2, <2>3 DEF Own
    <2> QED BY <2>3, <2>4, <1>2
  <1>11. OwnNames(d)' = Append(OwnNames(d), n)
    <2>1. /\ Append(OwnNames(d), n) \in Seq(Names) /\ Len(Append(OwnNames(d), n)) = z + 1
          /\ \A i \in 1 .. z : Append(OwnNames(d), n)[i] = OwnNames(d)[i]
          /\ Append(OwnNames(d), n)[z + 1] = n
      BY <1>8, AppendProperties
    <2>2. \A i \in 1 .. z + 1 : OwnNames(d)'[i] = Append(OwnNames(d), n)[i]
      <3> SUFFICES ASSUME NEW i \in 1 .. z + 1
                   PROVE  OwnNames(d)'[i] = Append(OwnNames(d), n)[i]
        OBVIOUS
      <3>1. \A l, m \in Own(u) : Get(u, l).index = Get(u, m).index => l = m
        BY <1>7 DEF Dense
      <3>2. Append(OwnNames(d), n)[i] \in Own(u) /\ Get(u, Append(OwnNames(d), n)[i]).index = i - 1
        <4>1. CASE i = z + 1
          BY <4>1, <2>1, <1>2, <1>3, <1>5, <1>9
        <4>2. CASE i # z + 1
          <5>1. i \in 1 .. z
            BY <4>2, <1>2
          <5>2. OwnNames(d)[i] \in Own(tables[d]) /\ OwnNames(d)[i] # n
                /\ Get(tables[d], OwnNames(d)[i]).index = i - 1
            BY <5>1, <1>8, <1>9
          <5> QED BY <5>1, <5>2, <2>1, <1>3, <1>9 DEF Own
        <4> QED BY <4>1, <4>2
      <3> QED BY <3>1, <3>2, <1>10
    <2> QED BY <2>1, <2>2, <1>10, SeqSame
  <1>12. View(d) = [env |-> [m \in Names |-> Resolve(d, m)], own |-> OwnNames(d)]
    BY DEF View
  <1>13. View(d)' = [env |-> [View(d).env EXCEPT ![n] = s], own |-> Append(View(d).own, n)]
    <2>1. View(d)' = [env |-> [m \in Names |-> Resolve(d, m)'], own |-> OwnNames(d)']
      BY DEF View
    <2>2. [m \in Names |-> Resolve(d, m)'] = [[m \in Names |-> Resolve(d, m)] EXCEPT ![n] = s]
      BY <1>6
    <2>3. View(d).env = [m \in Names |-> Resolve(d, m)] /\ View(d).own = OwnNames(d)
      BY <1>12
    <2> QED BY <2>1, <2>2, <2>3, <1>11
  <1>14. \A k \in 1 .. d - 1 : View(k)' = View(k)
    <2> SUFFICES ASSUME NEW k \in 1 .. d - 1 PROVE View(k)' = View(k)
      OBVIOUS
    <2>1. k \in Nat /\ k > 0 /\ \A j \in 1 .. k : tables'[j] = tables[j]
      BY <1>2, <1>3
    <2>2. tables'[k] = tables[k]
      BY <1>3
    <2> QED BY <2>1, <2>2, SameView
  <1>15. Lexical!Inner = View(d)
    BY <1>2, <1>4 DEF Lexical!Inner
  <1>16. s = [scope |-> Lexical!Kind, index |-> Len(View(d).own)]
    <2>1. Lexical!Kind = Scope
      BY <1>0, <1>2, <1>4 DEF Lexical!Kind, Scope
    <2> QED BY <2>1, <1>8, <1>12 DEF s
  <1>17. Views' = [Views EXCEPT ![d] = View(d)']
    <2>1. Views' \in [1 .. d -> {View(k)' : k \in DOMAIN tables'}]
          /\ Views \in [1 .. d -> {View(k) : k \in DOMAIN tables}]
      BY <1>4
    <2>2. \A k \in 1 .. d : Views'[k] = IF k = d THEN View(d)' ELSE Views[k]
      <3> SUFFICES ASSUME NEW k \in 1 .. d
                   PROVE  Views'[k] = IF k = d THEN View(d)' ELSE Views[k]
        OBVIOUS
      <3>1. CASE k = d
        BY <3>1, <1>4
      <3>2. CASE k # d
        <4>1. k \in 1 .. d - 1
          BY <3>2, <1>2
        <4> QED BY <3>2, <4>1, <1>4, <1>14
      <3> QED BY <3>1, <3>2
    <2> QED BY <2>1, <2>2
  <1>18. \A i \in DOMAIN View(d).own : View(d).own[i] # n
    BY <1>8, <1>9, <1>12
  <1> QED BY <1>4, <1>13, <1>15, <1>16, <1>17, <1>18 DEF Lexical!Declare

LEMMA NextRefines == Inv /\ [Next]_vars => [Lexical!Next]_Views
  <1> SUFFICES ASSUME Inv, [Next]_vars PROVE [Lexical!Next]_Views
    OBVIOUS
  <1>1. CASE Next
    BY <1>1, DefineBuiltinRefines, DefineRefines, EnterRefines, LeaveRefines,
       NewLineRefines DEF Next, Lexical!Next
  <1>2. CASE UNCHANGED vars
    BY <1>2 DEF vars, Views, View, OwnNames, Resolve, Get
  <1> QED BY <1>1, <1>2

\* The symbol tables implement lexical scoping for any names, any hash function and any
\* depth: chains, overwriting and the walk along t->outer find for every name the slot
\* its innermost declaration got, across leaves, errors and lines of the REPL.
THEOREM ScopingImplemented == Spec => ResolvesLexically
  BY InitRefines, NextRefines, Invariance, PTL DEF Spec, ResolvesLexically, Lexical!Spec
=============================================================================
