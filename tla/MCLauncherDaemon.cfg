SPECIFICATION Spec
CONSTANTS
    e1 = e1
    e2 = e2
    e3 = e3
    Char <- MCChar
    Texts <- MCTexts
    MaxQuery = 1
    Lists <- MCLists
    VisibleRows = 2
    Search <- RankedSearch
    Clients = {c1, c2}
    Entries = {e1, e2, e3}
    EntryName <- MCEntryName
    Catalogs <- MCCatalogs
    Menus <- MCMenus
    Surfaces = {s1, s2}
    NoSurface = NoSurface
SYMMETRY MCSymmetry
INVARIANTS
    TypeOK
    ViewHasSurface
    LauncherExcludesFeedback
    HeldIsShown
    IndexedLikeChoices
    ScreenCurrent
PROPERTIES
    PickWasOnScreen
    DmenuPromise
