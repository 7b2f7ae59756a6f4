-------------------------------- MODULE Bridge --------------------------------
(***************************************************************************)
(* Chains joined by warp routes: DUSK is locked in the native route of one *)
(* of them and exists as synthetic tokens on the others.  Mailboxes log    *)
(* messages, relayers submit them: in any order, repeatedly, several at    *)
(* once, after losing what they knew.                                      *)
(*                                                                         *)
(* An action is a transaction as a whole.  What happens within one, when   *)
(* others call in or it fails, is the subject of Mailbox and of the        *)
(* routes' modules: it has its effects on all of them, or on none.  Fees   *)
(* and the verification of messages (MultisigIsm) are left out.            *)
(***************************************************************************)
EXTENDS Integers, FiniteSets, Functions

CONSTANTS
    Home,           \* the chain whose native route locks DUSK
    Synthetics,     \* chains whose route mints and burns
    Accounts, Contracts,    \* who sends and receives; contracts do not register
    Amounts,
    Start,          \* DUSK each of them has at first
    Named,          \* bound: the recipients strangers' messages name
    Route, Stranger,\* senders of messages: the origin's route, or anybody else
    MaxU64,         \* u64::MAX
    MaxNonce,       \* u32::MAX, the messages a Mailbox takes
    MaxMessages,    \* bound on the messages of all Mailboxes in a behaviour
    Pairs           \* <<c, d>> when the owner of c's route means to enroll d's

Chains == {Home} \cup Synthetics
People == Accounts \cup Contracts

ASSUME BridgeAssumption ==
    /\ Home \notin Synthetics
    /\ IsFiniteSet(Synthetics) /\ IsFiniteSet(People)     \* u32 domains and 32-byte ids
    /\ Accounts \cap Contracts = {}
    /\ Amounts \subseteq 1..MaxU64 /\ Named \subseteq People
    /\ Start \in [People -> 0..MaxU64]
    /\ SumFunction(Start) <= MaxU64     \* DUSK itself is counted in a u64
    /\ Route # Stranger
    /\ Pairs \subseteq Chains \X Chains
    /\ MaxU64 \in Nat /\ MaxNonce \in Nat /\ MaxMessages \in Nat

VARIABLES
    enrolled,           \* per chain, the chains whose route it has enrolled
    registered_accounts, pending_transfers, pending_total,  \* per chain
    holdings,           \* per chain: DUSK at home, the synthetic token elsewhere
    custody,            \* DUSK the native route holds
    total_supply,       \* per synthetic token
    dispatched,         \* what the Mailboxes have logged
    delivered           \* what the Mailboxes have recorded as delivered

config == <<enrolled, registered_accounts>>
pending == <<pending_transfers, pending_total>>
value == <<holdings, custody, total_supply>>
messages == <<dispatched, delivered>>
vars == <<config, pending, value, messages>>

Nonce(c) == Cardinality({m \in dispatched : m.origin = c})

Messages ==
    [origin : Chains, nonce : 0..(MaxNonce - 1), destination : Chains,
     sender : {Route, Stranger}, recipient : People, amount : Amounts]

Init ==
    /\ enrolled = [c \in Chains |-> {}]
    /\ registered_accounts = [c \in Chains |-> {}]
    /\ pending_transfers = [c \in Chains |-> [p \in People |-> 0]]
    /\ pending_total = [c \in Chains |-> 0]
    /\ holdings = [c \in Chains |-> IF c = Home THEN Start ELSE [p \in People |-> 0]]
    /\ custody = 0
    /\ total_supply = [c \in Synthetics |-> 0]
    /\ dispatched = {} /\ delivered = {}

-----------------------------------------------------------------------------
(* Configuration.                                                           *)

\* The owners enroll each other's routes one by one, in any order; a route can
\* be replaced but not be removed, and the ones enrolled here are the right ones.
EnrollRemoteRouter(c, d) ==
    /\ enrolled' = [enrolled EXCEPT ![c] = @ \cup {d}]
    /\ UNCHANGED <<registered_accounts, pending, value, messages>>

RegisterAccount(c, a) ==
    /\ registered_accounts' = [registered_accounts EXCEPT ![c] = @ \cup {a}]
    /\ UNCHANGED <<enrolled, pending, value, messages>>

-----------------------------------------------------------------------------
(* Sending.                                                                 *)

\* Mailbox::dispatch
Post(c, d, sender, recipient, amount) ==
    /\ Nonce(c) < MaxNonce /\ Cardinality(dispatched) < MaxMessages
    /\ dispatched' = dispatched \cup
           {[origin |-> c, nonce |-> Nonce(c), destination |-> d, sender |-> sender,
             recipient |-> recipient, amount |-> amount]}
    /\ UNCHANGED delivered

\* The deposit of a native transfer
Lock(p, amount) ==
    /\ holdings[Home][p] >= amount
    /\ holdings' = [holdings EXCEPT ![Home][p] = @ - amount]
    /\ custody' = custody + amount
    /\ UNCHANGED total_supply

\* Mutant: the tokens are taken from the supply and not from the sender.
BurnSupply(c, p, amount) ==
    /\ holdings[c][p] >= amount /\ total_supply[c] >= amount
    /\ total_supply' = [total_supply EXCEPT ![c] = @ - amount]
    /\ UNCHANGED <<holdings, custody>>

\* WarpDrc20::burn
Burn(c, p, amount) ==
    /\ holdings[c][p] >= amount /\ total_supply[c] >= amount
    /\ holdings' = [holdings EXCEPT ![c][p] = @ - amount]
    /\ total_supply' = [total_supply EXCEPT ![c] = @ - amount]
    /\ UNCHANGED custody

\* transfer_remote of either route
TransferRemote(c, d, p, recipient, amount) ==
    /\ d \in enrolled[c]
    /\ IF c = Home THEN Lock(p, amount) ELSE Burn(c, p, amount)
    /\ Post(c, d, Route, recipient, amount)
    /\ UNCHANGED <<config, pending>>

\* Anybody may dispatch to a route the same message a route would.
DispatchOther(c, d, recipient, amount) ==
    /\ c # d
    /\ Post(c, d, Stranger, recipient, amount)
    /\ UNCHANGED <<config, pending, value>>

\* A synthetic token changes hands, or DUSK does.
Transfer(c, p, q, amount) ==
    /\ p # q /\ holdings[c][p] >= amount
    /\ holdings' = [holdings EXCEPT ![c][p] = @ - amount, ![c][q] = @ + amount]
    /\ UNCHANGED <<config, pending, custody, total_supply, messages>>

-----------------------------------------------------------------------------
(* Receiving.                                                               *)

\* Mutant: any sender passes for the router of its chain.
FromAnyone(m) == m.origin \in enrolled[m.destination]

FromEnrolledRouter(m) ==
    m.origin \in enrolled[m.destination] /\ m.sender = Route

\* assert_unreserved_dusk
Unreserved(amount) == custody - pending_total[Home] >= amount

\* ensure_mint_capacity
MintCapacity(c, amount) == total_supply[c] + pending_total[c] + amount <= MaxU64

\* contract_to_account, or mint
Pay(c, p, amount) ==
    /\ holdings' = [holdings EXCEPT ![c][p] = @ + amount]
    /\ IF c = Home
       THEN custody >= amount /\ custody' = custody - amount /\ UNCHANGED total_supply
       ELSE /\ total_supply[c] + amount <= MaxU64
            /\ total_supply' = [total_supply EXCEPT ![c] = @ + amount]
            /\ UNCHANGED custody

Owe(c, p, amount) ==
    /\ pending_total[c] + amount <= MaxU64
    /\ pending_transfers' = [pending_transfers EXCEPT ![c][p] = @ + amount]
    /\ pending_total' = [pending_total EXCEPT ![c] = @ + amount]

\* handle of either route
Handle(m) ==
    LET c == m.destination
    IN  /\ FromEnrolledRouter(m)
        /\ IF c = Home THEN Unreserved(m.amount) ELSE MintCapacity(c, m.amount)
        /\ \/ /\ m.recipient \in registered_accounts[c]
              /\ Pay(c, m.recipient, m.amount)
              /\ UNCHANGED pending
           \/ /\ m.recipient \notin registered_accounts[c]
              /\ Owe(c, m.recipient, m.amount)
              /\ UNCHANGED value

\* Mutant: the delivered check is left to the relayers.
ProcessAgain(m) ==
    /\ m \in dispatched
    /\ Handle(m)
    /\ delivered' = delivered \cup {m}
    /\ UNCHANGED <<config, dispatched>>

\* Mutant: a Mailbox takes the messages of an origin in the order of their nonces.
ProcessInOrder(m) ==
    /\ m \in dispatched \ delivered
    /\ \A n \in dispatched \ delivered :
        n.origin = m.origin /\ n.destination = m.destination => n.nonce >= m.nonce
    /\ Handle(m)
    /\ delivered' = delivered \cup {m}
    /\ UNCHANGED <<config, dispatched>>

\* Mailbox::process of the destination; what handle refuses stays undelivered.
Process(m) ==
    /\ m \in dispatched \ delivered
    /\ Handle(m)
    /\ delivered' = delivered \cup {m}
    /\ UNCHANGED <<config, dispatched>>

\* claim_pending and claim_pending_contract of either route
ClaimPending(c, p) ==
    LET amount == pending_transfers[c][p]
    IN  /\ amount > 0 /\ pending_total[c] >= amount
        /\ pending_transfers' = [pending_transfers EXCEPT ![c][p] = 0]
        /\ pending_total' = [pending_total EXCEPT ![c] = @ - amount]
        /\ Pay(c, p, amount)
        /\ UNCHANGED <<config, messages>>

-----------------------------------------------------------------------------
Next ==
    \/ \E pair \in Pairs : EnrollRemoteRouter(pair[1], pair[2])
    \/ \E c \in Chains, a \in Accounts : RegisterAccount(c, a)
    \/ \E c, d \in Chains, p, r \in People, amount \in Amounts :
          TransferRemote(c, d, p, r, amount)
    \/ \E c, d \in Chains, r \in Named, amount \in Amounts : DispatchOther(c, d, r, amount)
    \/ \E c \in Chains, p, q \in People, amount \in Amounts : Transfer(c, p, q, amount)
    \/ \E m \in dispatched : Process(m)
    \/ \E c \in Chains, p \in People : ClaimPending(c, p)

\* A relayer's work on one message
Relay(c, n) == \E m \in dispatched : m.origin = c /\ m.nonce = n /\ Process(m)

\* Some relayer keeps submitting each message it finds; relayers come and go.
Spec ==
    /\ Init /\ [][Next]_vars
    /\ \A c \in Chains, n \in 0..(MaxNonce - 1) : WF_vars(Relay(c, n))

-----------------------------------------------------------------------------
(* Properties.                                                              *)

\* Custody, supplies, promises and purses are u64 values, and nothing is delivered
\* that was not dispatched.
TypeOK ==
    /\ enrolled \in [Chains -> SUBSET Chains]
    /\ registered_accounts \in [Chains -> SUBSET Accounts]
    /\ pending_transfers \in [Chains -> [People -> 0..MaxU64]]
    /\ pending_total \in [Chains -> 0..MaxU64]
    /\ holdings \in [Chains -> [People -> 0..MaxU64]]
    /\ custody \in 0..MaxU64
    /\ total_supply \in [Synthetics -> 0..MaxU64]
    /\ dispatched \subseteq Messages /\ delivered \subseteq dispatched

InFlight == {m \in dispatched \ delivered : m.sender = Route}

Carried(ms) == SumFunction([m \in ms |-> m.amount])

\* At any moment the native route holds what it owes at home, what exists and is
\* owed on all other chains, and what is on its way: none of it twice.  No figure
\* leaves its integer's range.
Conserved ==
    /\ TypeOK
    /\ custody = pending_total[Home] + SumFunction(total_supply)
                 + SumFunction([c \in Synthetics |-> pending_total[c]])
                 + Carried(InFlight)

\* A transfer that is on its way can be handled now: there is custody or
\* capacity for it, and for all of them together, in whatever order they come
\* and whatever is claimed and sent in between.
NoneRefused ==
    /\ Carried({m \in InFlight : m.destination = Home}) <= custody - pending_total[Home]
    /\ \A c \in Synthetics :
        total_supply[c] + pending_total[c]
          + Carried({m \in InFlight : m.destination = c}) <= MaxU64

\* People's purses: what they hold on every chain and what they can claim there.
Purse == [p \in People |->
    SumFunction([c \in Chains |-> holdings[c][p] + pending_transfers[c][p]])]

Promise == INSTANCE Remittance WITH
    purse <- Purse,
    sent <- {m \in dispatched : m.sender = Route},
    arrived <- delivered

\* The routes keep the promise of Remittance: whoever sends parts with exactly the
\* amount, and it reaches exactly its recipient, once, to hold or to claim.
RemittanceKept == Promise!Spec

\* Every transfer between routes that have enrolled each other arrives as long as
\* relayers keep trying, whatever happens to other messages.
TransfersArrive ==
    \A c \in Chains, n \in 0..(MaxNonce - 1) :
        (\E m \in InFlight : m.origin = c /\ m.nonce = n /\ c \in enrolled[m.destination])
            ~> (\E m \in delivered : m.origin = c /\ m.nonce = n)
=============================================================================
