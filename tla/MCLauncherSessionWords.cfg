SPECIFICATION Spec
CONSTANTS
    Char <- MCChar
    Texts <- MCSpacedTexts
    MaxQuery = 3
    Lists <- MCSpacedLists
    VisibleRows = 2
    Search <- RankedSearch
    ScrollSteps <- MCScrollSteps
INVARIANT
    MatchesAreRanked
