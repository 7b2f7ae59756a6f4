SPECIFICATION Spec
CONSTANTS
    Accounts = {a1}
    Contracts = {c1}
    Owners = {c1}
    Domains = {d1}
    Routers = {r1}
    NoRouter = NoRouter
    HookIds = {NoRouter}
    IsmIds = {NoRouter}
    Amounts = {1, 2}
    Fees = {0, 1}
    MaxU64 = 2
    MaxTaken = 2
    MaxCredit = 1
    MaxDepth = 2
INVARIANTS
    Backed
    PendingTotalIsSum
    PaidOnce
    TakenIsSent
PROPERTIES
    StandingCreditKept
