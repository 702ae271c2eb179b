CONSTANTS
    a = a
    b = b
    len = len
    type = type
    Names <- MCNames
    Buckets = {1, 2}
    Hash <- MCHash
    Builtins <- MCBuiltins
    None = None
    MaxScopes = 3
    MaxSize = 3
SPECIFICATION Spec
INVARIANTS TypeOK DenseIndices
PROPERTIES BindingsStable ResolvesLexically
