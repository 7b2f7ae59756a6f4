SPECIFICATION ValidatorsSpec
CONSTANTS
    EthAddresses = {1, 2, 3}
    Stranger = 99
    Owners = {o1}
    NoOwner = none
    Callers = {o1, x1}
    d1 = d1
    id1 = id1
    id2 = id2
    Messages <- MCMessages
    Checkpoints = {c1}
    MaxValidators = 3
    MaxSignatures = 3
    Validators = {v1, v2, v3, v4}
    Locations = {l1, l2, long}
    Storable = {l1, l2}
    Domains = {1}
    Mailboxes = {m1, m2}
    ZeroContract = zero
    LocationLimit = 1
    QueryLimit = 2
INVARIANTS
    QuorumSigned
    QuorumAccepted
    NeverLockedOut
    WalkComplete
PROPERTY WalkEnds
