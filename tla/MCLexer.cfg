CONSTANTS
    Characters <- MCCharacters
    Letters <- MCLetters
    Digits <- MCDigits
    Keywords <- MCKeywords
    MaxIdent = 4
    Histories <- MCHistories
SPECIFICATION Spec
INVARIANTS TypeOK LongestLexemes ReadsOwnLine PositionsTrueOnOneLine LiteralsStop
CHECK_DEADLOCK FALSE
