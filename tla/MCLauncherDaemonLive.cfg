SPECIFICATION Spec
CONSTANTS
    e1 = e1
    e2 = e2
    e3 = e3
    Char <- MCChar
    Texts <- MCTexts
    MaxQuery = 1
    Lists <- MCOneList
    VisibleRows = 1
    Search <- RankedSearch
    Clients = {c1, c2}
    Entries = {e1, e2, e3}
    EntryName <- MCEntryName
    Catalogs <- MCOneCatalog
    Menus <- MCOneMenu
    Surfaces = {s1, s2}
    NoSurface = NoSurface
PROPERTIES
    RequestsAreHandled
    ViewsGetConfigured
