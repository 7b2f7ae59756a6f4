----------------------------- MODULE ProtocolFee -----------------------------
(***************************************************************************)
(* The ProtocolFee hook (contracts/protocol-fee/src/lib.rs): a flat fee    *)
(* for each dispatch.  post_dispatch only announces the payment; the DUSK  *)
(* itself arrives with a transfer whose callback is receive_payment.  The  *)
(* contract's storage is one record; a failing call leaves it as it was.   *)
(***************************************************************************)
EXTENDS Integers

CONSTANTS
    Accounts,           \* Moonlight accounts: only they can claim
    Identities,         \* accounts and contracts
    Fees,               \* fees the owner may set
    MaxProtocolFee,     \* max_protocol_fee, fixed by init
    MaxU64,             \* u64::MAX
    NoPayment           \* pending_payment = None

VARIABLE
    protocol            \* the contract's storage, and its balance

\* ProtocolFee::init, which the VM runs at deployment.
Init ==
    \E fee \in 0..MaxProtocolFee, beneficiary \in Accounts, owner \in Identities :
        protocol = [protocol_fee |-> fee, beneficiary |-> beneficiary, owner |-> owner,
                    collected_fees |-> 0, claimable_fees |-> 0,
                    pending_payment |-> NoPayment, balance |-> 0]

Quote == protocol.protocol_fee

\* ProtocolFee::post_dispatch, called by its Mailbox.
PostDispatch(sender) ==
    /\ protocol.pending_payment = NoPayment
    /\ protocol' = IF protocol.protocol_fee = 0
                   THEN protocol
                   ELSE [protocol EXCEPT !.pending_payment =
                            [payer |-> sender, fee |-> protocol.protocol_fee]]

\* ProtocolFee::receive_payment, called back for a transfer from its Mailbox.
ReceivePayment(amount) ==
    /\ protocol.pending_payment # NoPayment
    /\ amount = protocol.pending_payment.fee
    /\ protocol.collected_fees + amount <= MaxU64
    /\ protocol.claimable_fees + amount <= MaxU64
    /\ protocol' = [protocol EXCEPT !.pending_payment = NoPayment,
                                    !.collected_fees = @ + amount,
                                    !.claimable_fees = @ + amount,
                                    !.balance = @ + amount]

\* Mutant: a claim that is paid without settling what is owed.
ClaimUnsettled(caller) ==
    /\ caller \in Accounts
    /\ caller = protocol.beneficiary
    /\ protocol.claimable_fees > 0
    /\ protocol.balance >= protocol.claimable_fees
    /\ protocol' = [protocol EXCEPT !.balance = @ - protocol.claimable_fees]

\* ProtocolFee::claim, a root call of the beneficiary's account.
Claim(caller) ==
    /\ caller \in Accounts
    /\ caller = protocol.beneficiary
    /\ protocol.claimable_fees > 0
    /\ protocol.balance >= protocol.claimable_fees
    /\ protocol' = [protocol EXCEPT !.claimable_fees = 0,
                                    !.balance = @ - protocol.claimable_fees]

OnlyOwner(caller) == caller = protocol.owner

SetProtocolFee(caller, fee) ==
    /\ OnlyOwner(caller)
    /\ fee <= MaxProtocolFee
    /\ protocol' = [protocol EXCEPT !.protocol_fee = fee]

SetBeneficiary(caller, beneficiary) ==
    /\ OnlyOwner(caller)
    /\ protocol' = [protocol EXCEPT !.beneficiary = beneficiary]

TransferOwnership(caller, new_owner) ==
    /\ OnlyOwner(caller)
    /\ protocol' = [protocol EXCEPT !.owner = new_owner]

\* What an owner may do.
Admin(caller) ==
    \/ \E fee \in Fees : SetProtocolFee(caller, fee)
    \/ \E beneficiary \in Accounts : SetBeneficiary(caller, beneficiary)
    \/ \E new_owner \in Identities : TransferOwnership(caller, new_owner)

-----------------------------------------------------------------------------
\* Every unit the contract holds is claimable, and nothing else is: the
\* beneficiary can be paid in full whenever it claims (lines 160-193, 253-272).
Backed ==
    /\ protocol.balance = protocol.claimable_fees
    /\ protocol.claimable_fees \in 0..protocol.collected_fees
=============================================================================
