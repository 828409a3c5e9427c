SPECIFICATION Spec
CONSTANTS
    Nodes = {event0, event1}
    Applications = Applications
INVARIANT
    ReplugReopens
