SPECIFICATION Spec
CONSTANTS
    Accounts = {a1}
    Contracts = {c1}
    Owners = {c1}
    Domains = {d1}
    Routers = {r1}
    NoRouter = NoRouter
    HookIds = {NoRouter}
    IsmIds = {NoRouter}
    Amounts = {1}
    Fees = {0}
    MaxU64 = 2
    MaxTaken = 2
    MaxCredit = 0
    MaxDepth = 2
    Self = Self
    StartTokens = 1
    Inexact = TRUE
    MaxReceived = 3
INVARIANTS
    Backed
    TakenIsSent
