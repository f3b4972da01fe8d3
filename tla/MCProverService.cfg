SPECIFICATION Spec
CONSTANTS
    p1 = p1
    p2 = p2
    j1 = j1
    j2 = j2
    i1 = i1
    i2 = i2
    Proof = {p1, p2}
    Request = {r1}
    Missing = Missing
    Torn = Torn
    Cut = Cut
    NoSeal = NoSeal
    CircuitImage = i1
    JournalOf <- MCJournalOf
    ImageOf <- MCImageOf
CHECK_DEADLOCK FALSE
INVARIANTS
    TypeOK
    AnswerIsAttested
    FilesSealedTogether
    PassIsIntact
PROPERTIES
    EveryRequestAnswered
