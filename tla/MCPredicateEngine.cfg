SPECIFICATION EngineSpec
CONSTANTS
    circuit = circuit
    n1 = n1
    n2 = n2
    jRich = jRich
    jPoor = jPoor
    rich = rich
    poor = poor
    User = {u1}
    Program = {consumer}
    Consumer = consumer
    Selector = {s1}
    Image = {circuit}
    Journal = {jRich, jPoor}
    Digest = {1, 2}
    Sha256 <- MCSha256
    Small = {jRich, jPoor}
    Nullifier = {n1, n2}
    NoNullifier = NoNullifier
    MaxIndex = 0
    Decode <- MCDecode
    Outputs <- MCOutputs
    NoAccount = NoAccount
    CountMax = 2
    MaxCalls = 0
    LezProgram = {predicate, another}
    PredicateProgram = predicate
    CircuitImage = circuit
    Note = {rich, poor}
    Balance <- MCBalance
    Threshold = {1000}
    OutputOf <- MCOutputOf
CHECK_DEADLOCK FALSE
INVARIANTS
    VerifiedIsPredicate
