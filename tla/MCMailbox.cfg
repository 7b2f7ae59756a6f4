SPECIFICATION Spec
CONSTANTS
  Accounts = {a1}
  Contracts = {c1}
  Hooks = {h1, h2, h3}
  Isms = {i1}
  NoContract = NoContract
  NoOwner = NoOwner
  NoMessage = NoMessage
  Owners = {a1, c1}
  Inbound <- MCInbound
  Version = 3
  LocalDomain = 7
  Amounts = {2}
  Fees = {0, 1}
  MaxU64 = 2
  MaxNonce = 2
  MaxDepth = 3
  ReentrantIsmQuery = FALSE
SYMMETRY HookSymmetry
CONSTRAINT ContractOwnedBound
INVARIANTS DispatchLog GuardTracksDispatch RequiredHookOrder Solvent PaidAsQuoted DeliveredOnce DeliveredMeansHandled
