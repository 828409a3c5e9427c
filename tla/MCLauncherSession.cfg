SPECIFICATION Spec
CONSTANTS
    Char <- MCChar
    Texts <- MCTexts
    MaxQuery = 3
    Lists <- MCLists
    VisibleRows = 2
    Search <- RankedSearch
    ScrollSteps <- MCScrollSteps
INVARIANTS
    TypeOK
    SelectionVisible
    WindowFull
    MatchesAreRanked
PROPERTIES
    ChoiceWasVisible
    RedrawIffChanged
