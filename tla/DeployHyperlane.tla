---------------------------- MODULE DeployHyperlane ----------------------------
(***************************************************************************)
(* The deploy-hyperlane command of dusk-tx (dusk-tx/src/main.rs).  The     *)
(* contracts name each other at initialization, so their ids are computed  *)
(* beforehand from code, deployer and a counter; then they are deployed    *)
(* one transaction after another.  Runs share the deployer's key with each *)
(* other and with whatever else the operator signs; any of them may stop   *)
(* anywhere.  How a single transaction is submitted is DuskTx; here it is  *)
(* sent, and its outcome is read from the ledger or remains unknown.       *)
(***************************************************************************)
EXTENDS GasPrices, Sequences, SequencesExt, FiniteSets

CONSTANTS
    Runs,           \* times the command is run, possibly at once
    Requests,       \* command lines
    options,        \* their options
    Tokens,         \* contracts that are there from the start
    LastNonce,      \* u64::MAX
    MaxOthers,      \* bound on what else is signed with the key
    MaxValidators   \* MAX_MULTISIG_VALIDATORS

VARIABLES
    deployed,   \* contracts on chain: from an id to what it was initialized with
    executed,   \* transactions executed for the key, one per nonce
    pending,    \* transactions that may yet be executed
    run,        \* how far each run is
    reported    \* requests for which success has been printed

dvars == <<deployed, executed, pending, run, reported>>

Contracts ==
    {"TestMock", "TestRecipient", "MerkleTreeHook", "IsmMultisig", "ProtocolFee",
     "AggregationHook", "Mailbox", "ValidatorAnnounce", "IGP", "WarpDrc20",
     "WarpNative", "WarpCollateral"}

\* An id stands for what it is hashed from: code, of whatever build, and counter.
\* Contracts of others are a DRC20 token, or something else.
ContractIds == [contract : Contracts \cup {"token", "other"}, build : Nat, nonce : Nat]

ASSUME DeployAssumption ==
    /\ options \in [Requests ->
           [domain : Nat, build : [Contracts -> Nat],
            default_ism : {"testMock", "messageIdMultisig"},
            multisig_validators : Seq(Nat), multisig_threshold : Nat,
            igp_domain_configs : Seq([domain : Nat, config : DomainGasConfig]),
            warp_drc20 : BOOLEAN, warp_native : BOOLEAN,
            warp_collateral : {"none", "warp-drc20", "explicit"}, token : ContractIds]]
    /\ Tokens \subseteq ContractIds
    /\ LastNonce \in Nat /\ MaxOthers \in Nat /\ MaxValidators \in Nat \ {0}
    /\ GasPricesAssumption

-----------------------------------------------------------------------------
(* Arguments.                                                               *)

NoneTwice(s) == IsInjective(s)

\* parse_eth_addresses, and the limits of deploy-hyperlane itself
ValidMultisig(o) ==
    /\ NoneTwice(o.multisig_validators)
    /\ Len(o.multisig_validators) \in 1..MaxValidators
    /\ o.multisig_threshold \in 1..Len(o.multisig_validators)

\* validate_igp_domain_config: the client's own computation of the smallest and the
\* largest price.
ConfigPriced(c) ==
    /\ Computable(c, 1) /\ Payment(c, 1) # 0
    /\ Computable(c, MaxGasLimit) /\ Payment(c, MaxGasLimit) \in 0..MaxU64

\* Mutant: validate_igp_domain_config is not called.
ConfigArgumentUnpriced(c) == c.token_exchange_rate # 0 /\ c.gas_price # 0

\* What is required of each configuration that parses
ConfigArgument(c) ==
    /\ c.token_exchange_rate # 0 /\ c.gas_price # 0
    /\ ConfigPriced(c)

DomainsOf(configs) == [i \in DOMAIN configs |-> configs[i].domain]

\* parse_igp_domain_configs
ValidGasConfigs(o) ==
    /\ o.igp_domain_configs # <<>>
    /\ \A i \in DOMAIN o.igp_domain_configs : ConfigArgument(o.igp_domain_configs[i].config)
    /\ NoneTwice(DomainsOf(o.igp_domain_configs))

WrapsDeployed(o) == o.warp_collateral = "warp-drc20"

ValidArguments(o) ==
    /\ ValidGasConfigs(o)
    /\ o.default_ism = "messageIdMultisig" => ValidMultisig(o)
    /\ WrapsDeployed(o) => o.warp_drc20

-----------------------------------------------------------------------------
(* Contract ids.                                                            *)

Option(chosen, name) == IF chosen THEN <<name>> ELSE <<>>

IsmOf(o) == Option(o.default_ism = "messageIdMultisig", "IsmMultisig")

Routes(o) ==
    Option(o.warp_drc20, "WarpDrc20") \o Option(o.warp_native, "WarpNative")
    \o Option(o.warp_collateral # "none", "WarpCollateral")

\* Mutant: the counter is not advanced for the ISM.
PrecomputedNoIsm(o) ==
    <<"TestMock", "TestRecipient", "MerkleTreeHook",
      "ProtocolFee", "AggregationHook", "Mailbox", "ValidatorAnnounce", "IGP">>
    \o Routes(o) \o IsmOf(o)

\* The order in which nonce_counter runs over the contracts
Precomputed(o) ==
    <<"TestMock", "TestRecipient", "MerkleTreeHook">> \o IsmOf(o) \o
    <<"ProtocolFee", "AggregationHook", "Mailbox", "ValidatorAnnounce", "IGP">>
    \o Routes(o)

\* The order of the deploy_one calls
DeployOrder(o) ==
    <<"TestMock", "TestRecipient", "MerkleTreeHook">> \o IsmOf(o) \o
    <<"ProtocolFee", "AggregationHook", "Mailbox", "ValidatorAnnounce", "IGP">>
    \o Routes(o)

\* Mutant: the first contract is taken to stand for all.
CheckOrderFirst(o) == <<"TestMock">>

\* The order in which the ids are looked up
CheckOrder(o) ==
    <<"TestMock", "TestRecipient", "MerkleTreeHook">> \o IsmOf(o) \o
    <<"Mailbox", "ValidatorAnnounce", "ProtocolFee", "AggregationHook", "IGP">>
    \o Routes(o)

\* gen_contract_id; there is one deployer.
ContractId(o, name, deploy_nonce) ==
    [contract |-> name, build |-> o.build[name], nonce |-> deploy_nonce]

Id(o, name) ==
    ContractId(o, name, (CHOOSE k \in DOMAIN Precomputed(o) : Precomputed(o)[k] = name) - 1)

CollateralToken(o) ==
    IF WrapsDeployed(o) THEN Id(o, "WarpDrc20") ELSE o.token

-----------------------------------------------------------------------------
(* Initialization.                                                          *)

\* Mutant: in the order they were written.
SortedAsGiven(s) == s

\* In ascending order; nothing occurs twice in what is sorted here.
Sorted(s) ==
    CHOOSE t \in [DOMAIN s -> ToSet(s)] :
        \A i, j \in DOMAIN s : i < j => t[i] < t[j]

SortedByDomain(configs) ==
    LET domains == Sorted(DomainsOf(configs))
    IN  [i \in DOMAIN configs |-> CHOOSE c \in ToSet(configs) : c.domain = domains[i]]

\* The deployer owns every contract, the routes are given no routers, and fees are
\* in millions.
InitArgs(o, name) ==
    CASE name \in {"TestMock", "TestRecipient"} -> <<>>
      [] name = "IsmMultisig" ->
            [validators |-> Sorted(o.multisig_validators), threshold |-> o.multisig_threshold]
      [] name = "MerkleTreeHook" -> [mailbox |-> Id(o, "AggregationHook")]
      [] name = "ProtocolFee" ->
            [protocol_fee |-> 1, max_protocol_fee |-> 100,
             mailbox |-> Id(o, "AggregationHook")]
      [] name = "AggregationHook" ->
            [mailbox |-> Id(o, "Mailbox"),
             hooks |-> <<Id(o, "MerkleTreeHook"), Id(o, "ProtocolFee")>>]
      [] name = "Mailbox" ->
            [local_domain |-> o.domain,
             default_ism |-> IF IsmOf(o) # <<>> THEN Id(o, "IsmMultisig")
                                                ELSE Id(o, "TestMock"),
             default_hook |-> Id(o, "IGP"), required_hook |-> Id(o, "AggregationHook")]
      [] name = "ValidatorAnnounce" ->
            [local_domain |-> o.domain, mailbox |-> Id(o, "Mailbox")]
      [] name = "IGP" ->
            [mailbox |-> Id(o, "Mailbox"),
             initial_configs |-> SortedByDomain(o.igp_domain_configs)]
      [] name \in {"WarpDrc20", "WarpNative"} -> [mailbox |-> Id(o, "Mailbox")]
      [] name = "WarpCollateral" ->
            [mailbox |-> Id(o, "Mailbox"), wrapped_token |-> CollateralToken(o)]

\* What the init functions assert.  They also refuse a second call, which a
\* contract that is not there yet has not had, and an owner, beneficiary or id that
\* is zero, which no hash is.  The other contracts' assert nothing else.
MultisigInitAccepts(args) ==
    /\ Len(args.validators) \in 1..MaxValidators
    /\ args.threshold \in 1..Len(args.validators)
    /\ \A i \in 2..Len(args.validators) : args.validators[i - 1] < args.validators[i]

FeeInitAccepts(args) == args.protocol_fee <= args.max_protocol_fee

AggregationInitAccepts(args) == args.hooks # <<>>

MailboxInitAccepts(args) == args.default_hook # args.required_hook

PaymasterInitAccepts(args) ==
    \A i \in DOMAIN args.initial_configs : ValidConfig(args.initial_configs[i].config)

InitAccepts(name, args) ==
    CASE name = "IsmMultisig" -> MultisigInitAccepts(args)
      [] name = "ProtocolFee" -> FeeInitAccepts(args)
      [] name = "AggregationHook" -> AggregationInitAccepts(args)
      [] name = "Mailbox" -> MailboxInitAccepts(args)
      [] name = "IGP" -> PaymasterInitAccepts(args)
      [] OTHER -> TRUE

-----------------------------------------------------------------------------
(* State.                                                                   *)

NotStarted == [pc |-> "new"]
Ended == [pc |-> "ended"]

\* mn and dn are the nonces of the last transaction and of the next contract.
Run(r) == [pc |-> "start", request |-> r, mn |-> 0, dn |-> 0, checked |-> 0]

DeployInit ==
    /\ deployed = [t \in Tokens |-> <<>>]
    /\ executed = <<>>
    /\ pending = {}
    /\ run = [p \in Runs |-> NotStarted]
    /\ reported = {}

Opts(p) == options[run[p].request]

onchain == <<deployed, executed>>

-----------------------------------------------------------------------------
(* A run.                                                                   *)

StartRun(p, r) ==
    /\ run[p] = NotStarted
    /\ run' = [run EXCEPT ![p] = Run(r)]
    /\ UNCHANGED <<onchain, pending, reported>>

\* The run ends without success: arguments are refused, a request fails, the
\* account has no balance, an outcome is failure or unknown, the process dies.
Stop(p) ==
    /\ run[p] \notin {NotStarted, Ended}
    /\ run' = [run EXCEPT ![p] = Ended]
    /\ UNCHANGED <<onchain, pending, reported>>

\* Arguments are parsed and the nonce is read before anything is looked up.
ReadNonce(p) ==
    /\ run[p].pc = "start" /\ ValidArguments(Opts(p))
    /\ run' = [run EXCEPT ![p].pc = "token", ![p].mn = Len(executed)]
    /\ UNCHANGED <<onchain, pending, reported>>

\* An explicit collateral token must exist and answer balance_of.
CheckToken(p) ==
    /\ run[p].pc = "token"
    /\ Opts(p).warp_collateral = "explicit" =>
        /\ Opts(p).token \in DOMAIN deployed
        /\ Opts(p).token.contract \in {"token", "WarpDrc20"}
    /\ run' = [run EXCEPT ![p].pc = "fresh"]
    /\ UNCHANGED <<onchain, pending, reported>>

\* contract_exists, for one id after the other.  One that exists is kept for the
\* message of the refusal, which is then certain.
CheckExists(p) ==
    /\ run[p].pc = "fresh" /\ run[p].checked < Len(CheckOrder(Opts(p)))
    /\ Id(Opts(p), CheckOrder(Opts(p))[run[p].checked + 1]) \notin DOMAIN deployed
    /\ run' = [run EXCEPT ![p].checked = @ + 1]
    /\ UNCHANGED <<onchain, pending, reported>>

\* Mutant: the nonce is read again when everything has been looked up.
BeginDeployAfresh(p) ==
    /\ run[p].pc = "fresh" /\ run[p].checked = Len(CheckOrder(Opts(p)))
    /\ run' = [run EXCEPT ![p].pc = "deploy", ![p].mn = Len(executed)]
    /\ UNCHANGED <<onchain, pending, reported>>

BeginDeploy(p) ==
    /\ run[p].pc = "fresh" /\ run[p].checked = Len(CheckOrder(Opts(p)))
    /\ run' = [run EXCEPT ![p].pc = "deploy"]
    /\ UNCHANGED <<onchain, pending, reported>>

Deployment(p) ==
    LET name == DeployOrder(Opts(p))[run[p].dn + 1]
    IN  [nonce |-> run[p].mn + 1, id |-> ContractId(Opts(p), name, run[p].dn),
         init |-> InitArgs(Opts(p), name)]

\* deploy_one, up to the request that propagates the transaction
DeployOne(p) ==
    /\ run[p].pc = "deploy" /\ run[p].dn < Len(DeployOrder(Opts(p)))
    /\ run[p].mn < LastNonce
    /\ pending' = pending \cup {Deployment(p)}
    /\ run' = [run EXCEPT ![p].pc = "wait"]
    /\ UNCHANGED <<onchain, reported>>

\* deploy_one, when the transaction has been executed.  Only success goes on.
Confirmed(p) ==
    /\ run[p].pc = "wait"
    /\ Len(executed) > run[p].mn
    /\ executed[run[p].mn + 1] = [tx |-> Deployment(p), ok |-> TRUE]
    /\ run' = [run EXCEPT ![p].pc = "deploy", ![p].mn = @ + 1, ![p].dn = @ + 1]
    /\ UNCHANGED <<onchain, pending, reported>>

\* "success": true, with the precomputed ids
ReportSuccess(p) ==
    /\ run[p].pc = "deploy" /\ run[p].dn = Len(DeployOrder(Opts(p)))
    /\ reported' = reported \cup {run[p].request}
    /\ run' = [run EXCEPT ![p] = Ended]
    /\ UNCHANGED <<onchain, pending>>

-----------------------------------------------------------------------------
(* The node.                                                                *)

\* A transaction that has arrived is executed when its nonce is next, and takes
\* the nonce either way; others with that nonce are void.  One that deploys over a
\* contract leaves that contract as it was, and may yet count as executed.
ExecuteDeployment(tx) ==
    /\ tx \in pending /\ tx.nonce = Len(executed) + 1
    /\ \E ok \in IF InitAccepts(tx.id.contract, tx.init) THEN BOOLEAN ELSE {FALSE} :
        /\ executed' = Append(executed, [tx |-> tx, ok |-> ok])
        /\ deployed' = IF ok /\ tx.id \notin DOMAIN deployed
                       THEN [id \in DOMAIN deployed \cup {tx.id} |->
                                IF id = tx.id THEN tx.init ELSE deployed[id]]
                       ELSE deployed
    /\ pending' = {t \in pending : t.nonce > tx.nonce}
    /\ UNCHANGED <<run, reported>>

\* The key signs something else.
OtherCall ==
    /\ Len(executed) < LastNonce
    /\ Cardinality({n \in DOMAIN executed : executed[n].tx.id.contract = "other"}) < MaxOthers
    /\ executed' = Append(executed,
           [tx |-> [nonce |-> Len(executed) + 1, init |-> <<>>,
                    id |-> [contract |-> "other", build |-> 0, nonce |-> 0]],
            ok |-> TRUE])
    /\ pending' = {t \in pending : t.nonce > Len(executed) + 1}
    /\ UNCHANGED <<deployed, run, reported>>

-----------------------------------------------------------------------------
RunStep(p) ==
    \/ ReadNonce(p) \/ CheckToken(p) \/ CheckExists(p) \/ BeginDeploy(p)
    \/ DeployOne(p) \/ Confirmed(p) \/ ReportSuccess(p) \/ Stop(p)

DeployNext ==
    \/ \E p \in Runs : RunStep(p) \/ \E r \in Requests : StartRun(p, r)
    \/ \E tx \in pending : ExecuteDeployment(tx)
    \/ OtherCall

DeploySpec == DeployInit /\ [][DeployNext]_dvars

-----------------------------------------------------------------------------
(* Properties.                                                              *)

\* Ids, nonces and the counters of the runs stay in their ranges.
DeployTypeOK ==
    /\ DOMAIN deployed \subseteq ContractIds
    /\ Len(executed) <= LastNonce
    /\ \A n \in DOMAIN executed : executed[n].tx.nonce = n /\ executed[n].ok \in BOOLEAN
    /\ \A tx \in pending : tx.nonce \in 1..LastNonce /\ tx.id \in ContractIds
    /\ \A p \in Runs :
        \/ run[p] \in {NotStarted, Ended}
        \/ /\ run[p].pc \in {"start", "token", "fresh", "deploy", "wait"}
           /\ run[p].request \in Requests
           /\ run[p].mn \in 0..LastNonce /\ run[p].dn \in 0..12
           /\ run[p].checked \in 0..12
    /\ reported \subseteq Requests

\* Whatever runs at the same time or before: when success is reported the whole
\* system is on chain with this run's settings, at the ids printed, and each
\* contract names contracts that exist, run the right code and name it back.
Wired ==
    /\ DeployTypeOK
    /\ \A r \in reported :
        LET o == options[r]
            mailbox == Id(o, "Mailbox")
            Is(id, name) == id \in DOMAIN deployed /\ id.contract = name
            Serves(name) ==
                Is(Id(o, name), name) /\ deployed[Id(o, name)].mailbox = mailbox
        IN  /\ Is(mailbox, "Mailbox") /\ deployed[mailbox].local_domain = o.domain
            /\ LET required == deployed[mailbox].required_hook
               IN  /\ Is(required, "AggregationHook")
                   /\ deployed[required].mailbox = mailbox
                   /\ \A k \in DOMAIN deployed[required].hooks :
                        /\ Is(deployed[required].hooks[k], <<"MerkleTreeHook", "ProtocolFee">>[k])
                        /\ deployed[deployed[required].hooks[k]].mailbox = required
            /\ deployed[mailbox].default_hook = Id(o, "IGP") /\ Serves("IGP")
            /\ ToSet(deployed[Id(o, "IGP")].initial_configs) = ToSet(o.igp_domain_configs)
            /\ LET ism == deployed[mailbox].default_ism
               IN  IF o.default_ism = "testMock" THEN Is(ism, "TestMock")
                   ELSE /\ Is(ism, "IsmMultisig")
                        /\ ToSet(deployed[ism].validators) = ToSet(o.multisig_validators)
                        /\ deployed[ism].threshold = o.multisig_threshold
            /\ Serves("ValidatorAnnounce")
            /\ deployed[Id(o, "ValidatorAnnounce")].local_domain = o.domain
            /\ o.warp_drc20 => Serves("WarpDrc20")
            /\ o.warp_native => Serves("WarpNative")
            /\ o.warp_collateral # "none" =>
                /\ Serves("WarpCollateral")
                /\ deployed[Id(o, "WarpCollateral")].wrapped_token \in DOMAIN deployed

\* No transaction that was executed deployed over a contract: a second run, with
\* the same key or rebuilt code, never mixes its contracts with those of a first.
NothingOverwritten ==
    \A m, n \in DOMAIN executed :
        m < n /\ executed[m].ok /\ executed[n].ok /\ executed[n].tx.id.contract # "other"
            => executed[m].tx.id # executed[n].tx.id

\* No deployment is doomed when it is sent: what the command line lets through,
\* validators and gas configurations above all, the contracts' init functions
\* accept.  A deployment that fails midway would leave ids taken that this key can
\* never deploy to again.
InitsAccepted == \A tx \in pending : InitAccepts(tx.id.contract, tx.init)
=============================================================================
