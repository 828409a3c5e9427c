SPECIFICATION Spec
CONSTANTS
    keyboard = keyboard
    mouse = mouse
    Devices = {keyboard, mouse}
    NoDevice = NoDevice
    CodesOf <- MCCodesOf
    TapWindow = 1
    MaxTime = 2
    MaxUnread = 2
INVARIANTS
    TypeOK
    GuardIsRecorded
    SuspendedIsSilent
PROPERTIES
    TapsAreShortAndLone
