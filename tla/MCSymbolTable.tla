--------------------------- MODULE MCSymbolTable ---------------------------
EXTENDS SymbolTable, TLC

CONSTANTS a, b, len, type

\* a and len share a chain, b and type another, as names with the same first letter do.
MCNames    == {a, b, len, type}
MCHash     == (a :> 1) @@ (len :> 1) @@ (b :> 2) @@ (type :> 2)
MCBuiltins == <<len, type>>
=============================================================================
