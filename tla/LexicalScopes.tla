--------------------------- MODULE LexicalScopes ---------------------------
(***************************************************************************)
(* What a compiler needs of its symbol table: every scope sees the names   *)
(* around it as they were when it was entered, its own declarations hide   *)
(* them, leaving the scope brings them back, and the k-th name a scope     *)
(* declares gets slot k - 1, counted from zero.                            *)
(***************************************************************************)
EXTENDS Naturals, Sequences

CONSTANTS Names, Builtins, None

VARIABLE scopes      \* from the outermost to the current one: [env, own]

Inner == scopes[Len(scopes)]
Kind  == IF Len(scopes) = 1 THEN "global" ELSE "local"

Init == scopes = <<[env |-> [n \in Names |-> None], own |-> << >>]>>

\* Built-ins are names of the outermost scope that take none of its slots.
Provide == \E i \in DOMAIN Builtins :
    /\ Len(scopes) = 1
    /\ scopes' = <<[scopes[1] EXCEPT
                       !.env[Builtins[i]] = [scope |-> "builtin", index |-> i - 1]]>>

Declare == \E n \in Names :
    /\ \A i \in DOMAIN Inner.own : Inner.own[i] # n
    /\ scopes' = [scopes EXCEPT ![Len(scopes)] =
           [env |-> [Inner.env EXCEPT ![n] = [scope |-> Kind, index |-> Len(Inner.own)]],
            own |-> Append(Inner.own, n)]]

Open  == scopes' = Append(scopes, [env |-> Inner.env, own |-> << >>])
Close == Len(scopes) > 1 /\ scopes' = SubSeq(scopes, 1, Len(scopes) - 1)

\* All open scopes are given up at once when the program has an error.
Abandon == scopes' = SubSeq(scopes, 1, 1)

Next == Provide \/ Declare \/ Open \/ Close \/ Abandon
Spec == Init /\ [][Next]_scopes
=============================================================================
