SPECIFICATION DeploySpec
CONSTANTS
    Runs = {p1, p2}
    Requests = {"plain", "secured", "rebuilt", "full", "explicit",
                "threshold", "none", "many", "twice", "nobody",
                "gas", "gastwice", "gasfree", "gasrate", "gasnothing",
                "gasdear", "gasoverflow", "unwrapped", "missing", "notoken"}
    options <- MCOptions
    Tokens <- MCTokens
    LastNonce = 13
    MaxOthers = 1
    MaxValidators = 2
    MaxGasLimit = 4
    Scale = 4
    MaxU64 = 8
    MaxU128 = 40
SYMMETRY RunSymmetry
INVARIANTS
    Wired
    NothingOverwritten
    InitsAccepted
CHECK_DEADLOCK FALSE
