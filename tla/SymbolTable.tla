---------------------------- MODULE SymbolTable ----------------------------
(***************************************************************************)
(* The symbol tables of the compiler (symbol_table.c): one table for each  *)
(* scope being compiled, hash tables with chained nodes that name the slot *)
(* of a variable, and what compiler.c and pepper.c do with them: define    *)
(* the built-ins (builtins.c), define names in the current scope, enter    *)
(* and leave the scope of a function, and start over with the table of the *)
(* outermost scope for every line of the REPL.                             *)
(*                                                                         *)
(* Names are those that begin with a lower-case letter: for any other the  *)
(* hash is no index of the table.                                          *)
(***************************************************************************)
EXTENDS Naturals, Sequences, FiniteSets

CONSTANTS
    Names,        \* identifiers
    Buckets,      \* indices of the hash table, 26 of them
    Hash,         \* name -> bucket, the macro hash()
    Builtins,     \* the names in builtin_functions[], in order
    None,         \* no symbol
    MaxScopes,    \* bound on nested functions, below the 64 of struct compiler
    MaxSize       \* bound on the names of a scope, below the 64 global variables

Symbol == [scope : {"global", "local", "builtin"}, index : Nat]
Node   == [key : Names, value : Symbol]
Table  == [size : Nat, store : [Buckets -> Seq(Node)]]

ASSUME NamesAssumption ==
    /\ Hash \in [Names -> Buckets]
    /\ Builtins \in Seq(Names)
    /\ \A i, j \in DOMAIN Builtins : Builtins[i] = Builtins[j] => i = j
    /\ None \notin Symbol
    /\ MaxScopes \in Nat /\ MaxSize \in Nat

VARIABLES
    tables,    \* the tables of the scopes, from the outermost to the current one
    boot       \* next built-in define_builtins() defines

vars == <<tables, boot>>

----------------------------------------------------------------------------
\* The node of a chain that strcmp() finds first.
Matches(chain, n)    == {i \in DOMAIN chain : chain[i].key = n}
FirstMatch(chain, n) == CHOOSE i \in Matches(chain, n) :
                            \A j \in Matches(chain, n) : i <= j

GetHead(t, n) ==      \* mutant of Get: the keys are not compared
    LET chain == t.store[Hash[n]]
    IN  IF chain = << >> THEN None ELSE chain[1].value
Get(t, n) ==
    LET chain == t.store[Hash[n]]
    IN  IF Matches(chain, n) = {} THEN None ELSE chain[FirstMatch(chain, n)].value

\* hashmap_insert(): a node with that key gets the new value, else a new node goes first.
InsertIn(chain, n, s) ==
    IF Matches(chain, n) # {} THEN [chain EXCEPT ![FirstMatch(chain, n)].value = s]
    ELSE <<[key |-> n, value |-> s]>> \o chain
Insert(t, n, s) == [t EXCEPT !.store[Hash[n]] = InsertIn(@, n, s)]

NewTable == [size |-> 0, store |-> [b \in Buckets |-> << >>]]

\* symbol_table_resolve() from the k-th scope: the innermost scope that has the name.
Resolve(k, n) ==
    LET having == {i \in 1 .. k : Get(tables[i], n) # None}
    IN  IF having = {} THEN None
        ELSE Get(tables[CHOOSE i \in having : \A j \in having : j <= i], n)

----------------------------------------------------------------------------
Init == tables = <<NewTable>> /\ boot = 1

\* One iteration of define_builtins(), on the table of the outermost scope.
DefineBuiltinTwo ==      \* mutant of DefineBuiltin: the index is one too low
    /\ boot <= Len(Builtins)
    /\ tables' = <<Insert(tables[1], Builtins[boot],
                          [scope |-> "builtin", index |-> boot - 2])>>
    /\ boot' = boot + 1
DefineBuiltin ==
    /\ boot <= Len(Builtins)
    /\ tables' = <<Insert(tables[1], Builtins[boot],
                          [scope |-> "builtin", index |-> boot - 1])>>
    /\ boot' = boot + 1

Ready   == boot > Len(Builtins)
Current == tables[Len(tables)]
Scope   == IF Len(tables) > 1 THEN "local" ELSE "global"

\* symbol_table_define() of a name the current scope does not have; it returns the
\* symbol of one it has, a built-in of the outermost scope included.
DefineUncounted == \E n \in Names :      \* mutant of Define: size is not incremented
    /\ Ready /\ Get(Current, n) = None /\ Current.size < MaxSize
    /\ tables' = [tables EXCEPT ![Len(tables)] =
           Insert(Current, n, [scope |-> Scope, index |-> Current.size])]
    /\ UNCHANGED boot
Define == \E n \in Names :
    /\ Ready /\ Get(Current, n) = None /\ Current.size < MaxSize
    /\ tables' = [tables EXCEPT ![Len(tables)] =
           [Insert(Current, n, [scope |-> Scope, index |-> Current.size])
               EXCEPT !.size = @ + 1]]
    /\ UNCHANGED boot

\* compiler_enter_scope() and compiler_leave_scope().
Enter ==
    /\ Ready /\ Len(tables) < MaxScopes
    /\ tables' = Append(tables, NewTable)
    /\ UNCHANGED boot
Leave ==
    /\ Ready /\ Len(tables) > 1
    /\ tables' = SubSeq(tables, 1, Len(tables) - 1)
    /\ UNCHANGED boot

\* compiler_new_with_state() for the next line of the REPL, when the last one compiled
\* or failed to, at whatever depth: the table of the outermost scope is kept.
NewLineFresh == Ready /\ tables' = <<NewTable>> /\ boot' = 1      \* mutant of NewLine
NewLine == Ready /\ tables' = <<tables[1]>> /\ boot' = 1

Next == DefineBuiltin \/ Define \/ Enter \/ Leave \/ NewLine
Spec == Init /\ [][Next]_vars

----------------------------------------------------------------------------
TypeOK ==
    /\ tables \in Seq(Table) /\ tables # << >>
    /\ boot \in 1 .. Len(Builtins) + 1
    /\ ~Ready => Len(tables) = 1

\* The variables of a scope and its size belong together: the names it has, built-ins
\* aside, have distinct slots, and those slots are the numbers below its size.  The VM
\* reserves size slots for the locals of a function.
DenseIndices == \A k \in DOMAIN tables :
    LET own == {n \in Names : /\ Get(tables[k], n) # None
                              /\ Get(tables[k], n).scope # "builtin"}
    IN  /\ {Get(tables[k], n).index : n \in own} = 0 .. tables[k].size - 1
        /\ \A m, n \in own :
             Get(tables[k], m).index = Get(tables[k], n).index => m = n
        /\ \A n \in own :
             Get(tables[k], n).scope = IF k = 1 THEN "global" ELSE "local"

\* Code compiled on an earlier line addresses globals and built-ins by slot: a name of the
\* outermost scope keeps its symbol for good, the other names for as long as their scope
\* is open, although define_builtins() runs again on every line.
BindingsStable == [][\A n \in Names :
    /\ Get(tables[1], n) # None => Get(tables'[1], n) = Get(tables[1], n)
    /\ \A k \in DOMAIN tables \cap DOMAIN tables' :
         Get(tables[k], n) # None => Get(tables'[k], n) = Get(tables[k], n)]_vars

\* The names a scope declared, in the order of their slots.
OwnNames(k) == [s \in 1 .. tables[k].size |->
    CHOOSE n \in Names : /\ Get(tables[k], n) # None
                         /\ Get(tables[k], n).scope # "builtin"
                         /\ Get(tables[k], n).index = s - 1]

\* A scope as its code sees it: what names resolve to, and the names it declared.
View(k) == [env |-> [n \in Names |-> Resolve(k, n)], own |-> OwnNames(k)]
Views   == [k \in DOMAIN tables |-> View(k)]

Lexical == INSTANCE LexicalScopes WITH scopes <- Views

\* Hash chains and the walk along t->outer implement lexical scoping: a name resolves
\* to the slot its innermost declaration got, on every line and at every depth.
ResolvesLexically == Lexical!Spec
=============================================================================
