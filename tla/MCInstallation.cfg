SPECIFICATION Spec
CONSTANT Machines <- MCMachines
INVARIANTS
    TypeOK
    RunsCanBeRepeated
    FinishedIsSettled
    Unlockable
    PassphraseIsReplaced
PROPERTY ErasedAsReported
