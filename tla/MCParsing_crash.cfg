CONSTANTS
    Names <- MCNames
    Numerals <- MCNumerals
    Strings <- MCStrings
    Spelling <- MCSpelling
    Trees <- MCTrees
    Inputs <- MCInputs
SPECIFICATION Spec
INVARIANT NeverCrashes
CHECK_DEADLOCK FALSE
