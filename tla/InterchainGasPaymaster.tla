------------------------ MODULE InterchainGasPaymaster ------------------------
(***************************************************************************)
(* The InterchainGasPaymaster hook (contracts/igp/src/lib.rs).  It prices  *)
(* the gas of a delivery from the destination's configuration.  As in      *)
(* ProtocolFee, post_dispatch announces the payment that receive_payment   *)
(* then takes.                                                             *)
(***************************************************************************)
EXTENDS GasPrices, Sequences

CONSTANTS
    Accounts,           \* Moonlight accounts: only they can claim
    Identities,         \* accounts and contracts
    Domains,            \* destination domains
    GasLimits,          \* gas limits dispatchers ask for, bad ones included
    Messages,           \* dispatched messages
    Configs,            \* configurations the owner may submit
    NoConfig,           \* a destination that is not configured
    NoPayment           \* pending_payment = None

VARIABLE
    igp                 \* the contract's storage, and its balance

\* What a module that instantiates this one assumes.
PaymasterAssumption ==
    /\ GasPricesAssumption
    /\ Configs \subseteq DomainGasConfig
    /\ NoConfig \notin DomainGasConfig

-----------------------------------------------------------------------------
(* Calls.  A delivery is a destination and a gas limit.                     *)

Init ==
    \E configs \in [Domains -> {c \in Configs : ValidConfig(c)} \cup {NoConfig}],
       beneficiary \in Accounts, owner \in Identities :
        igp = [owner |-> owner, beneficiary |-> beneficiary,
               domain_gas_configs |-> configs,
               total_gas_payments |-> 0, gas_payments |-> <<>>,
               claimable_fees |-> 0, pending_payment |-> NoPayment, balance |-> 0]

CanQuote(domain, gas_limit) ==
    /\ gas_limit \in 1..MaxGasLimit
    /\ igp.domain_gas_configs[domain] # NoConfig
    /\ Quotable(igp.domain_gas_configs[domain], gas_limit)

QuoteGasPayment(domain, gas_limit) ==
    Payment(igp.domain_gas_configs[domain], gas_limit)

\* InterchainGasPaymaster::post_dispatch, called by the Mailbox.  A quote is
\* never 0, so there is always a payment to wait for.
PostDispatch(message, domain, gas_limit) ==
    /\ igp.pending_payment = NoPayment
    /\ CanQuote(domain, gas_limit)
    /\ igp' = [igp EXCEPT !.pending_payment =
                  [message |-> message, destination |-> domain, gas_limit |-> gas_limit,
                   payment |-> QuoteGasPayment(domain, gas_limit)]]

\* Mutant: the payment is counted but its record is lost.
ReceivePaymentUnrecorded(amount) ==
    /\ igp.pending_payment # NoPayment
    /\ amount = igp.pending_payment.payment
    /\ igp.total_gas_payments + amount <= MaxU64
    /\ igp.claimable_fees + amount <= MaxU64
    /\ igp' = [igp EXCEPT !.pending_payment = NoPayment,
                          !.total_gas_payments = @ + amount,
                          !.claimable_fees = @ + amount,
                          !.balance = @ + amount]

\* InterchainGasPaymaster::receive_payment, called back for a transfer from the
\* Mailbox.
ReceivePayment(amount) ==
    /\ igp.pending_payment # NoPayment
    /\ amount = igp.pending_payment.payment
    /\ igp.total_gas_payments + amount <= MaxU64
    /\ igp.claimable_fees + amount <= MaxU64
    /\ igp' = [igp EXCEPT !.pending_payment = NoPayment,
                          !.total_gas_payments = @ + amount,
                          !.claimable_fees = @ + amount,
                          !.gas_payments = Append(@, igp.pending_payment),
                          !.balance = @ + amount]

\* InterchainGasPaymaster::claim, a root call of the beneficiary's account.
Claim(caller) ==
    /\ caller \in Accounts
    /\ caller = igp.beneficiary
    /\ igp.claimable_fees > 0
    /\ igp.balance >= igp.claimable_fees
    /\ igp' = [igp EXCEPT !.claimable_fees = 0, !.balance = @ - igp.claimable_fees]

OnlyOwner(caller) == caller = igp.owner

\* set_domain_gas_configs takes several at once and stores all or none.
SetDomainGasConfigs(caller, configs) ==
    /\ OnlyOwner(caller)
    /\ \A d \in DOMAIN configs : ValidConfig(configs[d])
    /\ igp' = [igp EXCEPT !.domain_gas_configs =
                  [d \in Domains |-> IF d \in DOMAIN configs THEN configs[d] ELSE @[d]]]

SetDomainGasConfig(caller, domain, config) ==
    SetDomainGasConfigs(caller, [d \in {domain} |-> config])

SetBeneficiary(caller, beneficiary) ==
    /\ OnlyOwner(caller)
    /\ igp' = [igp EXCEPT !.beneficiary = beneficiary]

TransferOwnership(caller, new_owner) ==
    /\ OnlyOwner(caller)
    /\ igp' = [igp EXCEPT !.owner = new_owner]

\* What an owner may do.
Admin(caller) ==
    \/ \E ds \in SUBSET Domains : \E configs \in [ds -> Configs] :
          SetDomainGasConfigs(caller, configs)
    \/ \E domain \in Domains, config \in Configs : SetDomainGasConfig(caller, domain, config)
    \/ \E beneficiary \in Accounts : SetBeneficiary(caller, beneficiary)
    \/ \E new_owner \in Identities : TransferOwnership(caller, new_owner)

\* Calls in any order: the Mailbox, which keeps to one payment for each
\* post_dispatch, is a component of its own.
Next ==
    \/ \E m \in Messages, d \in Domains, gas_limit \in GasLimits : PostDispatch(m, d, gas_limit)
    \/ \E amount \in 1..MaxU64 : ReceivePayment(amount)
    \/ \E caller \in Identities : Claim(caller) \/ Admin(caller)

Spec == Init /\ [][Next]_igp

-----------------------------------------------------------------------------
\* Every unit the contract holds is claimable, and nothing else is.
Backed ==
    /\ igp.balance = igp.claimable_fees
    /\ igp.claimable_fees \in 0..igp.total_gas_payments

\* "Prove that every valid input from 1 through MAX_GAS_LIMIT is executable
\* when the config is accepted" (validate_domain_gas_config): checking the two
\* ends is enough for every gas limit between them.
EveryLimitQuotable ==
    \A d \in Domains :
        igp.domain_gas_configs[d] # NoConfig =>
            \A gas_limit \in 1..MaxGasLimit : CanQuote(d, gas_limit)
=============================================================================
