SPECIFICATION Spec
CONSTANTS
    Home = home
    b1 = b1
    b2 = b2
    Synthetics = {b1, b2}
    a1 = a1
    c1 = c1
    Accounts = {a1}
    Contracts = {c1}
    Amounts = {1}
    Named = {c1}
    Start <- MCStart
    Route = route
    Stranger = stranger
    MaxU64 = 2
    MaxNonce = 2
    MaxMessages = 3
    Pairs <- MCPairs
INVARIANTS
    Conserved
    NoneRefused
PROPERTIES
    RemittanceKept
    TransfersArrive
