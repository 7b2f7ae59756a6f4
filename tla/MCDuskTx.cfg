SPECIFICATION Spec
CONSTANTS
    Processes = {p1, p2}
    i1 = i1
    i2 = i2
    i3 = i3
    Intents = {i1, i2, i3}
    command <- MCCommand
    amount <- MCAmount
    Malformed = {i3}
    Home = home
    Chains = {home, other}
    Fees = {1, 2, 3}
    MaxNonce = 2
    MaxAmount = 3
    Rounds = 2
    NoTx = none
INVARIANTS
    LiveIsKnown
    KeysForPinnedChain
PROPERTIES
    PromiseKept
    InvocationEnds
