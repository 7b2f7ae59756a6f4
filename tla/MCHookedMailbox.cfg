SPECIFICATION HookedSpec
CONSTANTS
  Accounts = {a1}
  Contracts = {c1}
  Hooks = {agg, pay, cust}
  Isms = {i1}
  NoContract = NoContract
  NoOwner = NoOwner
  NoMessage = NoMessage
  Owners = {a1}
  Inbound = {}
  Version = 3
  LocalDomain = 7
  Amounts = {3}
  Fees = {0, 1}
  MaxU64 = 3
  MaxNonce = 2
  MaxDepth = 2
  ReentrantIsmQuery = FALSE
  Aggregation = agg
  Paymaster = pay
  Custom = cust
  MerkleTree = tree
  FlatFee = flat
  HookOwners = {c1}
  ProtocolFees = {0, 1}
  MaxProtocolFee = 1
  Domains = {d1}
  GasLimits = {1, 2, 3}
  Destination <- MCDestination
  GasLimit <- MCGasLimit
  GasConfigs <- MCGasConfigs
  NoConfig = NoConfig
  MaxGasLimit = 2
  Scale = 1
  MaxU128 = 9
  NoPayment = NoPayment
INVARIANTS NothingPending FeesBacked CheckpointsMirrorLog GasRecordsMatch
