CONSTANTS
    Names <- MCNames
    Numerals <- MCNumerals
    Strings <- MCStrings
    Spelling <- MCSpelling
    Trees <- MCTrees
    Inputs <- MCInputs
SPECIFICATION Spec
INVARIANT CompilesWhatIsClean
CHECK_DEADLOCK FALSE
