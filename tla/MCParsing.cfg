CONSTANTS
    Names <- MCNames
    Numerals <- MCNumerals
    Strings <- MCStrings
    Spelling <- MCSpelling
    Trees <- MCTrees
    Inputs <- MCInputs
SPECIFICATION Spec
INVARIANTS TypeOK RoundTrip WholeTree FaultsReported Recovers EachTurnConsumes
CHECK_DEADLOCK FALSE
