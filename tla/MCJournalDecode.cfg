SPECIFICATION Spec
CONSTANTS
    Journal <- MCJournal
    Output <- MCOutput
    FieldLen = 2
    WordMax <- Huge
    ByteMax = 1
    UsizeMax = 30
    MaxIndex = 1
INVARIANTS
    TypeOK
    NoUncheckedOverflow
    WorkBounded
    AcceptedHasLayout
    RejectedHasNoEntry
    DecodesOutputs
PROPERTIES
    Termination
CHECK_DEADLOCK FALSE
