--------------------------- MODULE MCDeployHyperlane ---------------------------
(* Command lines for DeployHyperlane: complete ones that differ in what a     *)
(* second run would change, and ones with one mistake each.                   *)
EXTENDS DeployHyperlane, TLC

Foreign(name, k) == [contract |-> name, build |-> 0, nonce |-> k]

MCTokens == {Foreign("token", 0), Foreign("other", 0)}

\* DOMAIN:GAS_OVERHEAD:TOKEN_EXCHANGE_RATE:GAS_PRICE
Gas(d, overhead, rate, price) ==
    [domain |-> d, config |-> [gas_overhead |-> overhead, token_exchange_rate |-> rate,
                               gas_price |-> price]]

\* Every contract and route
Full ==
    [domain |-> 1, build |-> [c \in Contracts |-> 0],
     default_ism |-> "messageIdMultisig",
     multisig_validators |-> <<2, 1>>, multisig_threshold |-> 2,
     igp_domain_configs |-> <<Gas(9, 0, 4, 2), Gas(8, 3, 2, 1)>>, warp_drc20 |-> TRUE, warp_native |-> TRUE,
     warp_collateral |-> "warp-drc20", token |-> Foreign("token", 0)]

\* As few as possible, for another domain
Plain ==
    [Full EXCEPT !.domain = 2, !.default_ism = "testMock", !.warp_drc20 = FALSE,
                 !.warp_native = FALSE, !.warp_collateral = "none"]

\* The same with validators of its own
Secured == [Plain EXCEPT !.domain = 4, !.default_ism = "messageIdMultisig"]

\* The first contract has been rebuilt since.
Rebuilt == [Plain EXCEPT !.build["TestMock"] = 1, !.domain = 3]

\* A token of someone else's
Explicit == [Plain EXCEPT !.warp_collateral = "explicit"]

\* Complete ones, and one mistake each
MCOptions ==
    [plain |-> Plain, secured |-> Secured, rebuilt |-> Rebuilt,
     full |-> Full, explicit |-> Explicit,
     threshold |-> [Full EXCEPT !.multisig_threshold = 3],
     none |-> [Full EXCEPT !.multisig_threshold = 0],
     many |-> [Full EXCEPT !.multisig_validators = <<3, 2, 1>>],
     twice |-> [Full EXCEPT !.multisig_validators = <<1, 1>>],
     nobody |-> [Full EXCEPT !.multisig_validators = <<>>],
     gas |-> [Full EXCEPT !.igp_domain_configs = <<>>],
     gastwice |-> [Full EXCEPT !.igp_domain_configs = <<Gas(8, 0, 4, 2), Gas(8, 3, 2, 1)>>],
     gasfree |-> [Full EXCEPT !.igp_domain_configs = <<Gas(9, 0, 4, 2), Gas(8, 3, 2, 0)>>],
     gasrate |-> [Full EXCEPT !.igp_domain_configs = <<Gas(8, 3, 0, 2)>>],
     gasnothing |-> [Full EXCEPT !.igp_domain_configs = <<Gas(8, 0, 1, 3)>>],
     gasdear |-> [Full EXCEPT !.igp_domain_configs = <<Gas(9, 0, 4, 2), Gas(8, 2, 6, 1)>>],
     gasoverflow |-> [Full EXCEPT !.igp_domain_configs = <<Gas(8, 2, 4, 2)>>],
     unwrapped |-> [Plain EXCEPT !.warp_collateral = "warp-drc20"],
     missing |-> [Explicit EXCEPT !.token = Foreign("token", 7)],
     notoken |-> [Explicit EXCEPT !.token = Foreign("other", 0)]]

RunSymmetry == Permutations(Runs)
=============================================================================
