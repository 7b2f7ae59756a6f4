SPECIFICATION HooksSpec
CONSTANTS
  Accounts = {a1}
  Contracts = {}
  Hooks = {agg, pay, cust}
  Isms = {i1}
  NoContract = NoContract
  NoOwner = NoOwner
  NoMessage = NoMessage
  Owners = {a1}
  Inbound = {}
  Version = 3
  LocalDomain = 7
  Amounts = {}
  Fees = {0}
  MaxU64 = 7
  MaxNonce = 0
  MaxDepth = 1
  ReentrantIsmQuery = FALSE
  Aggregation = agg
  Paymaster = pay
  Custom = cust
  MerkleTree = tree
  FlatFee = flat
  HookOwners = {a1}
  ProtocolFees = {0}
  MaxProtocolFee = 0
  Domains = {d1}
  GasLimits = {0, 1, 4, 5}
  Destination <- MCDestination
  GasLimit <- MCGasLimit
  GasConfigs <- MCConfigs
  NoConfig = NoConfig
  MaxGasLimit = 4
  Scale = 4
  MaxU128 = 55
  NoPayment = NoPayment
  TreeDepth = 4
  Elements = {e1, e2}
INVARIANTS
  RootIsReference
  EveryLimitQuotable
