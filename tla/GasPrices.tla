------------------------------- MODULE GasPrices -------------------------------
(***************************************************************************)
(* What the gas of a delivery costs under a destination's configuration,   *)
(* and which configurations have a price for every gas limit               *)
(* (contracts/igp/src/lib.rs).  The widths of the integers matter: prices  *)
(* are products of numbers an owner or an operator chooses.                *)
(***************************************************************************)
EXTENDS Integers

CONSTANTS
    MaxGasLimit,        \* MAX_GAS_LIMIT
    Scale,              \* TOKEN_EXCHANGE_RATE_SCALE
    MaxU64,             \* u64::MAX
    MaxU128             \* u128::MAX

DomainGasConfig == [gas_overhead : 0..MaxU64,
                    token_exchange_rate : 0..MaxU64,
                    gas_price : 0..MaxU64]

\* What the modules that use this one assume.
GasPricesAssumption ==
    /\ MaxU64 \in Nat
    /\ MaxU128 \in Nat
    /\ MaxGasLimit \in 1..MaxU64
    /\ Scale \in Nat \ {0}

\* (gas_limit + gas_overhead) * gas_price, and times the exchange rate: the two
\* products quote_gas_payment checks for overflow.
GasPrice(c, gas_limit) == (gas_limit + c.gas_overhead) * c.gas_price
Cost(c, gas_limit) == GasPrice(c, gas_limit) * c.token_exchange_rate

Payment(c, gas_limit) == Cost(c, gas_limit) \div Scale

\* The products fit u128.
Computable(c, gas_limit) ==
    /\ GasPrice(c, gas_limit) <= MaxU128
    /\ Cost(c, gas_limit) <= MaxU128

\* quote_gas_payment answers instead of panicking.
Quotable(c, gas_limit) ==
    /\ Computable(c, gas_limit)
    /\ Payment(c, gas_limit) <= MaxU64
    /\ Payment(c, gas_limit) > 0

\* Mutant: the largest gas limit is not checked against u64.
ValidConfigUnbounded(c) ==
    /\ c.gas_price > 0
    /\ c.token_exchange_rate > 0
    /\ Computable(c, 1)
    /\ Payment(c, 1) > 0
    /\ Computable(c, MaxGasLimit)

\* validate_domain_gas_config looks at the smallest and the largest gas limit.
ValidConfig(c) ==
    /\ c.gas_price > 0
    /\ c.token_exchange_rate > 0
    /\ Computable(c, 1)
    /\ Payment(c, 1) > 0
    /\ Computable(c, MaxGasLimit)
    /\ Payment(c, MaxGasLimit) <= MaxU64
=============================================================================
