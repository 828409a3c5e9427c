SPECIFICATION Spec
CONSTANTS
    Nodes = {event0, event1}
    Applications = Applications
INVARIANTS
    TypeOK
    ReadOnce
    DevicesAreOpened
    CatalogIsDue
PROPERTIES
    CatalogCatchesUp
