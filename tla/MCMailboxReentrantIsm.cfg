SPECIFICATION Spec
CONSTANTS
  Accounts = {a1}
  Contracts = {c1}
  Hooks = {h1, h2}
  Isms = {i1}
  NoContract = NoContract
  NoOwner = NoOwner
  NoMessage = NoMessage
  Owners = {a1}
  Inbound <- MCInbound
  Version = 3
  LocalDomain = 7
  Amounts = {}
  Fees = {0}
  MaxU64 = 0
  MaxNonce = 1
  MaxDepth = 3
  ReentrantIsmQuery = TRUE
INVARIANT DeliveredOnce
