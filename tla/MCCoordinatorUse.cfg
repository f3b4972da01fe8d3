SPECIFICATION Spec
CONSTANTS
    good = good
    other = other
    n1 = n1
    n2 = n2
    n3 = n3
    jPair = jPair
    jAgain = jAgain
    jForeign = jForeign
    jLarge = jLarge
    User = {u1}
    Program = {consumer, foreign}
    Consumer = consumer
    Selector = {s1}
    Image <- MCImage
    Journal <- MCJournal
    Digest <- MCDigest
    Sha256 <- MCSha256
    Small <- MCSmall
    Nullifier <- MCNullifier
    NoNullifier = NoNullifier
    MaxIndex <- MCMaxIndex
    Decode <- MCDecode
    Outputs <- MCOutputs
    NoAccount = NoAccount
    CountMax = 1
    MaxCalls = 1
INVARIANTS
    OneProofOneUse
CHECK_DEADLOCK FALSE
