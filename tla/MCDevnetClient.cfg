SPECIFICATION ClientSpec
CONSTANTS
    good = good
    other = other
    n1 = n1
    n2 = n2
    jGood = jGood
    jOther = jOther
    User = {payer, rival}
    Program = {consumer}
    Consumer = consumer
    Selector = {s1}
    Image = {good, other}
    Journal = {jGood, jOther}
    Digest = {1, 2}
    Sha256 <- MCSha256
    Small = {}
    Nullifier = {n1, n2}
    NoNullifier = NoNullifier
    MaxIndex = 0
    Decode <- MCDecode
    Outputs <- MCOutputs
    NoAccount = NoAccount
    CountMax = 1
    MaxCalls = 0
    Payer = payer
    CapturedDigest = 1
    CapturedNullifier = n1
    NoResponse = NoResponse
    Lifetime = 1
    MaxPending = 2
CHECK_DEADLOCK FALSE
INVARIANTS
    ClientTypeOK
    SaidIsTrue
    SetUpOnce
PROPERTIES
    RunEnds
