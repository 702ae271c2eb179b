CONSTANTS
    Characters <- MCCharacters
    Letters <- MCLetters
    Digits <- MCDigits
    Keywords <- MCKeywords
    MaxIdent = 4
    Histories <- MCHistories
SPECIFICATION Spec
INVARIANT PositionsTrue
CHECK_DEADLOCK FALSE
