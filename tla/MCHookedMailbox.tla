--------------------------- MODULE MCHookedMailbox ---------------------------
(* A small instance of HookedMailbox with two gas prices; each message asks  *)
(* for one unit of gas more than the one before.                             *)
EXTENDS HookedMailbox

MCGasConfigs == {[gas_overhead |-> 0, token_exchange_rate |-> 1, gas_price |-> 1],
                 [gas_overhead |-> 1, token_exchange_rate |-> 1, gas_price |-> 1]}

MCDestination == [m \in Outbound |-> CHOOSE d \in Domains : TRUE]
MCGasLimit == [m \in Outbound |-> m.nonce + 1]
=============================================================================
