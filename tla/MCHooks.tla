------------------------------- MODULE MCHooks -------------------------------
(* Two of the hooks by themselves, the Mailbox at rest, each to the limits of *)
(* its integers: the prices of the InterchainGasPaymaster, with integers so   *)
(* narrow that every way one can overflow, exceed the payment's width or      *)
(* round to nothing occurs, and the tree of the MerkleTreeHook up to the last *)
(* leaf it takes.  They share nothing, so a behaviour of the instance is a    *)
(* behaviour of one of them.                                                  *)
EXTENDS HookedMailbox

CONSTANTS TreeDepth, Elements

ASSUME MerkleAssumption == TreeDepth \in Nat \ {0}

VARIABLES
    branch, count, leaves,
    alone                   \* the hook that runs: "igp" or "tree"

Tree == INSTANCE IncrementalMerkle

tree == <<branch, count, leaves>>
rest == <<vars, protocol, pending_payments, inserted_message_ids, inserted_roots,
          gas_bought, repriced, saved>>

MCConfigs == [gas_overhead : {0, 1, 6}, token_exchange_rate : {0, 1, 3, 4}, gas_price : 0..2]

MCDestination == [m \in Outbound |-> CHOOSE d \in Domains : TRUE]
MCGasLimit == [m \in Outbound |-> CHOOSE g \in GasLimits : TRUE]

HooksInit ==
    /\ HookedInit /\ Tree!Init
    /\ alone \in {"igp", "tree"}
    /\ alone = "tree" => \A d \in Domains : igp.domain_gas_configs[d] = NoConfig

HooksNext ==
    /\ \/ alone = "igp" /\ IGP!Next /\ UNCHANGED tree
       \/ alone = "tree" /\ Tree!Next /\ UNCHANGED igp
    /\ UNCHANGED <<rest, alone>>

HooksSpec == HooksInit /\ [][HooksNext]_<<rest, igp, tree, alone>>

RootIsReference == Tree!RootIsReference
=============================================================================
