SPECIFICATION Spec
CONSTANTS
    Capacity = 2
    History <- MCHistory
    Labels <- MCLabels
    Image <- MCImage
INVARIANTS
    OutputIsWhole
    CleanExitMeansWhole
PROPERTY HelpersEnd
