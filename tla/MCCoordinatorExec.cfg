SPECIFICATION ExecSpec
CONSTANTS
    good = good
    n1 = n1
    n2 = n2
    jPair = jPair
    jAgain = jAgain
    jLarge = jLarge
    User = {u1, u2}
    Program = {consumer, foreign}
    Consumer = consumer
    Selector = {s1}
    Image = {good}
    Journal = {jPair, jAgain, jLarge}
    Digest = {1, 2, 3}
    Sha256 <- MCSha256
    Small = {jPair, jAgain}
    Nullifier = {n1, n2}
    NoNullifier = NoNullifier
    MaxIndex = 1
    Decode <- MCDecode
    Outputs <- MCOutputs
    NoAccount = NoAccount
    CountMax = 2
    MaxCalls = 1
INVARIANTS
    SpentIsVerified
    NoLostRecord
    ViewIsCurrent
PROPERTIES
    ImplementsCoordinator
CHECK_DEADLOCK FALSE
