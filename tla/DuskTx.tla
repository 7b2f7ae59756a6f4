-------------------------------- MODULE DuskTx --------------------------------
(***************************************************************************)
(* The operator's client (dusk-tx/src/main.rs, rues.rs): processes that    *)
(* each sign and submit one transaction with the same key, over a network  *)
(* that loses and delays, to a node that may not answer.  An action is one *)
(* request of a process, or a step of the network, the node or the         *)
(* operator in between.                                                    *)
(***************************************************************************)
EXTENDS Naturals, Sequences

CONSTANTS
    Processes,      \* places dusk-tx can run at the same time
    Intents,        \* things the operator wants done once each
    command,        \* the subcommand each of them is run with
    amount,         \* and its amount
    Malformed,      \* those whose arguments do not parse
    Home,           \* the chain the operator means
    Chains,         \* chains an endpoint may turn out to serve
    Fees,           \* dispatch fees a route may quote
    MaxNonce,       \* u64::MAX, as a nonce
    MaxAmount,      \* u64::MAX, as an amount
    Rounds,         \* status queries, one each poll interval, until the deadline
    NoTx            \* no hash printed

VARIABLES
    ledger,     \* what the node has executed for the key: one entry per nonce
    fee,        \* the fee routes quote now
    sent,       \* transactions that left in a propagate request
    proc,       \* per process, the invocation it runs
    told,       \* per intent, what the operator has been told
    prepared    \* per intent, the transaction whose hash was printed last

chain == <<ledger, fee>>
vars == <<ledger, fee, sent, proc, told, prepared>>

-----------------------------------------------------------------------------
(* Subcommands: the function called, what is deposited with the call,       *)
(* whether the operator pins the chain, and the steps up to the signature   *)
(* in their order.                                                          *)

FundDispatch ==
    [fn |-> "fund_dispatch", deposit |-> "amount", pinned |-> FALSE,
     steps |-> <<"parse", "chain", "keys", "account">>]

\* Mutant: the key is read, and the account asked for, on any endpoint.
WithdrawDispatchUnpinned ==
    [fn |-> "withdraw_dispatch_credit", deposit |-> "none", pinned |-> TRUE,
     steps |-> <<"parse", "keys", "chain", "account">>]

WithdrawDispatch ==
    [fn |-> "withdraw_dispatch_credit", deposit |-> "none", pinned |-> TRUE,
     steps |-> <<"parse", "chain", "keys", "account">>]

\* With --expected-chain-id, as agents call it
Call ==
    [fn |-> "any", deposit |-> "none", pinned |-> TRUE,
     steps |-> <<"parse", "chain", "keys", "account">>]

Dispatch ==
    [fn |-> "dispatch_message", deposit |-> "none", pinned |-> FALSE,
     steps |-> <<"parse", "chain", "keys", "account">>]

Process ==
    [fn |-> "process", deposit |-> "none", pinned |-> FALSE,
     steps |-> <<"parse", "keys", "chain", "account">>]

EnrollRouter ==
    [fn |-> "enroll_remote_router", deposit |-> "none", pinned |-> FALSE,
     steps |-> <<"keys", "parse", "chain", "account">>]

RegisterAccount ==
    [fn |-> "register_account", deposit |-> "none", pinned |-> FALSE,
     steps |-> <<"keys", "parse", "chain", "account">>]

Drc20Approve ==
    [fn |-> "approve", deposit |-> "none", pinned |-> FALSE,
     steps |-> <<"parse", "chain", "keys", "account">>]

TransferRemote ==
    [fn |-> "transfer_remote", deposit |-> "fee", pinned |-> FALSE,
     steps |-> <<"parse", "quote", "keys", "chain", "account">>]

TransferRemoteNative ==
    [TransferRemote EXCEPT !.deposit = "amount and fee"]

Commands ==
    [FundDispatch |-> FundDispatch, WithdrawDispatch |-> WithdrawDispatch,
     Call |-> Call, Dispatch |-> Dispatch, Process |-> Process,
     EnrollRouter |-> EnrollRouter, RegisterAccount |-> RegisterAccount,
     Drc20Approve |-> Drc20Approve, TransferRemote |-> TransferRemote,
     TransferRemoteNative |-> TransferRemoteNative]

CommandOf(i) == Commands[command[i]]

ASSUME ClientAssumption ==
    /\ command \in [Intents -> DOMAIN Commands]
    /\ amount \in [Intents -> 0..MaxAmount]
    /\ Malformed \subseteq Intents
    /\ Home \in Chains
    /\ Fees \subseteq 0..MaxAmount
    /\ MaxNonce \in Nat /\ MaxAmount \in Nat /\ Rounds \in Nat \ {0}

\* What goes into the transaction's value, given the fee the route quoted
Deposit(i, quoted) ==
    CASE CommandOf(i).deposit = "amount"         -> amount[i]
      [] CommandOf(i).deposit = "fee"            -> quoted
      [] CommandOf(i).deposit = "amount and fee" -> amount[i] + quoted
      [] OTHER                                   -> 0

-----------------------------------------------------------------------------
(* State.                                                                   *)

\* The same call signed with the same nonce is the same transaction, and has
\* the same hash.
Transactions == [intent : Intents, nonce : 1..MaxNonce, deposit : 0..MaxAmount]

Idle == [pc |-> "idle"]

\* `keys` says whether the secret key has been read, `observed` which chain the
\* endpoint serves.
Invocation(i) ==
    [pc |-> "steps", intent |-> i, step |-> 1, keys |-> FALSE,
     observed |-> {}, quoted |-> 0, nonce |-> 0, rounds |-> 0]

Init ==
    /\ ledger = <<>>
    /\ fee \in Fees
    /\ sent = {}
    /\ proc = [p \in Processes |-> Idle]
    /\ told = [i \in Intents |-> "new"]
    /\ prepared = [i \in Intents |-> NoTx]

Running(p) == proc[p].pc # "idle"

\* The invocation ends and leaves the operator with an outcome.
Report(p, outcome) ==
    /\ told' = [told EXCEPT ![proc[p].intent] = outcome]
    /\ proc' = [proc EXCEPT ![p] = Idle]

Tx(p) ==
    [intent |-> proc[p].intent, nonce |-> proc[p].nonce,
     deposit |-> Deposit(proc[p].intent, proc[p].quoted)]

-----------------------------------------------------------------------------
(* Up to the signature.                                                     *)

\* The operator asks for something new, or again for what failed.
Start(p, i) ==
    /\ ~Running(p)
    /\ told[i] \in {"new", "failure"}
    /\ proc' = [proc EXCEPT ![p] = Invocation(i)]
    /\ told' = [told EXCEPT ![i] = "running"]
    /\ UNCHANGED <<chain, sent, prepared>>

AtStep(p, step) ==
    /\ proc[p].pc = "steps"
    /\ CommandOf(proc[p].intent).steps[proc[p].step] = step

Done(p, changed) == proc' = [proc EXCEPT ![p] = [changed EXCEPT !.step = @ + 1]]

\* Any step may fail: bad arguments, no usable key, a request without an answer
\* within its timeout, a response that does not decode.  Nothing has been sent.
Refuse(p) ==
    /\ proc[p].pc = "steps"
    /\ Report(p, "failure")
    /\ UNCHANGED <<chain, sent, prepared>>

\* parse_bytes32 and the like; amounts of dispatch credit are positive.
ParseArguments(p) ==
    /\ AtStep(p, "parse")
    /\ proc[p].intent \notin Malformed
    /\ CommandOf(proc[p].intent).fn \in {"fund_dispatch", "withdraw_dispatch_credit"}
        => amount[proc[p].intent] > 0
    /\ Done(p, proc[p])
    /\ UNCHANGED <<chain, sent, told, prepared>>

\* query_chain_id and resolve_signing_chain_id.  Where the operator pins no
\* chain, the endpoint is taken to be the right one.
QueryChainId(p) ==
    /\ AtStep(p, "chain")
    /\ \E observed \in IF CommandOf(proc[p].intent).pinned THEN Chains ELSE {Home} :
        IF observed = Home
        THEN /\ Done(p, [proc[p] EXCEPT !.observed = {observed}])
             /\ UNCHANGED <<chain, sent, told, prepared>>
        ELSE Refuse(p)

LoadKeys(p) ==
    /\ AtStep(p, "keys")
    /\ Done(p, [proc[p] EXCEPT !.keys = TRUE])
    /\ UNCHANGED <<chain, sent, told, prepared>>

\* The route's quote; the sum that will be deposited must fit.
QueryQuote(p) ==
    /\ AtStep(p, "quote")
    /\ Deposit(proc[p].intent, fee) <= MaxAmount
    /\ Done(p, [proc[p] EXCEPT !.quoted = fee])
    /\ UNCHANGED <<chain, sent, told, prepared>>

\* Mutant: the hash is left for the end.
QueryAccountUnprinted(p) ==
    /\ AtStep(p, "account")
    /\ Len(ledger) < MaxNonce
    /\ proc' = [proc EXCEPT ![p].nonce = Len(ledger) + 1, ![p].pc = "preverify"]
    /\ UNCHANGED <<chain, sent, told, prepared>>

\* query_account, next_moonlight_nonce, the signature, and the line that prints
\* the hash before anything is sent.
QueryAccount(p) ==
    /\ AtStep(p, "account")
    /\ Len(ledger) < MaxNonce
    /\ LET signing == [proc[p] EXCEPT !.nonce = Len(ledger) + 1, !.pc = "preverify"]
       IN  /\ proc' = [proc EXCEPT ![p] = signing]
           /\ prepared' = [prepared EXCEPT ![signing.intent] =
                  [intent |-> signing.intent, nonce |-> signing.nonce,
                   deposit |-> Deposit(signing.intent, signing.quoted)]]
    /\ UNCHANGED <<chain, sent, told>>

-----------------------------------------------------------------------------
(* propagate_tx.                                                            *)

Preverify(p) ==
    /\ proc[p].pc = "preverify"
    /\ \/ /\ proc' = [proc EXCEPT ![p].pc = "propagate"]
          /\ UNCHANGED told
       \/ Report(p, "failure")      \* failed or rejected before propagation
    /\ UNCHANGED <<chain, sent, prepared>>

\* From here on the request may arrive, whatever becomes of its response.
SendPropagate(p) ==
    /\ proc[p].pc = "propagate"
    /\ sent' = sent \cup {Tx(p)}
    /\ proc' = [proc EXCEPT ![p].pc = "answer"]
    /\ UNCHANGED <<chain, told, prepared>>

\* Only a success status goes on to wait; no response, an unreadable one and
\* every error status leave the outcome unknown.
PropagateAnswered(p) ==
    /\ proc[p].pc = "answer"
    /\ \/ /\ proc' = [proc EXCEPT ![p].pc = "status", ![p].rounds = Rounds]
          /\ UNCHANGED told
       \/ Report(p, "unknown")
    /\ UNCHANGED <<chain, sent, prepared>>

-----------------------------------------------------------------------------
(* wait_for_transaction.                                                    *)

Executed(tx, ok) == \E n \in DOMAIN ledger : ledger[n] = [tx |-> tx, ok |-> ok]

\* Mutant: a nonce that has advanced is taken for success.
StatusesByNonce(tx) ==
    {"NotFound", "Retryable", "Terminal"}
        \cup (IF tx.nonce <= Len(ledger) THEN {"Executed"} ELSE {})

\* What query_transaction_status can return: the persisted result of the exact
\* hash; nothing, when there is none yet or the archive lags; an error worth
\* another try (transport, server, too many requests); an incompatible response.
Statuses(tx) ==
    {"NotFound", "Retryable", "Terminal"}
        \cup (IF Executed(tx, TRUE) THEN {"Executed"} ELSE {})
        \cup (IF Executed(tx, FALSE) THEN {"Failed"} ELSE {})

\* Mutant: every query starts the wait anew.
PollAgainForever(p) ==
    /\ proc' = [proc EXCEPT ![p].rounds = IF @ > 1 THEN @ - 1 ELSE Rounds]
    /\ UNCHANGED told

\* Another round after the poll interval, until the deadline: whatever the query
\* is doing then, and whatever it has answered, the outcome is unknown.
PollAgain(p) ==
    IF proc[p].rounds > 1
    THEN /\ proc' = [proc EXCEPT ![p].rounds = @ - 1]
         /\ UNCHANGED told
    ELSE Report(p, "unknown")

QueryStatus(p) ==
    /\ proc[p].pc = "status"
    /\ \E status \in Statuses(Tx(p)) :
        CASE status = "Executed" -> Report(p, "success")
          [] status = "Failed"   -> Report(p, "failure")
          [] status = "Terminal" -> Report(p, "unknown")
          [] OTHER               -> PollAgain(p)
    /\ UNCHANGED <<chain, sent, prepared>>

-----------------------------------------------------------------------------
(* Around the client.                                                       *)

\* The process is killed.  Before it has printed a hash it has sent nothing.
Crash(p) ==
    /\ Running(p)
    /\ Report(p, IF proc[p].pc = "steps" THEN "failure" ELSE "unknown")
    /\ UNCHANGED <<chain, sent, prepared>>

\* What a contract requires to be deposited with the call now
Due(i) == Deposit(i, fee)

\* A transaction that has arrived is executed when its nonce is next.  Whether
\* or not the call succeeds it takes the nonce; with a wrong deposit it fails.
Execute(tx) ==
    /\ tx \in sent
    /\ tx.nonce = Len(ledger) + 1
    /\ \E ok \in IF tx.deposit = Due(tx.intent) THEN BOOLEAN ELSE {FALSE} :
        ledger' = Append(ledger, [tx |-> tx, ok |-> ok])
    /\ UNCHANGED <<fee, sent, proc, told, prepared>>

SetFee(f) ==
    /\ f # fee
    /\ fee' = f
    /\ UNCHANGED <<ledger, sent, proc, told, prepared>>

\* The operator looks an unknown hash up in the ledger; what is not found stays
\* unknown.
Reconcile(i) ==
    /\ told[i] = "unknown"
    /\ \E ok \in BOOLEAN :
        /\ Executed(prepared[i], ok)
        /\ told' = [told EXCEPT ![i] = IF ok THEN "success" ELSE "failure"]
    /\ UNCHANGED <<chain, sent, proc, prepared>>

-----------------------------------------------------------------------------
ClientStep(p) ==
    \/ ParseArguments(p) \/ QueryChainId(p) \/ LoadKeys(p) \/ QueryQuote(p)
    \/ QueryAccount(p) \/ Refuse(p)
    \/ Preverify(p) \/ SendPropagate(p) \/ PropagateAnswered(p)
    \/ QueryStatus(p)

Next ==
    \/ \E p \in Processes :
        \/ \E i \in Intents : Start(p, i)
        \/ ClientStep(p)
        \/ Crash(p)
    \/ \E tx \in sent : Execute(tx)
    \/ \E f \in Fees : SetFee(f)
    \/ \E i \in Intents : Reconcile(i)

\* A process that runs gets its turns: every request has a timeout and every
\* wait a timer.  Nothing is asked of network, node or operator.
Spec ==
    /\ Init /\ [][Next]_vars
    /\ \A p \in Processes : WF_vars(ClientStep(p))

-----------------------------------------------------------------------------
(* Properties.                                                              *)

\* What the node, the processes and the operator know is well-formed.
TypeOK ==
    /\ ledger \in Seq([tx : Transactions, ok : BOOLEAN]) /\ Len(ledger) <= MaxNonce
    /\ fee \in Fees
    /\ sent \subseteq Transactions
    /\ \A p \in Processes :
        \/ proc[p] = Idle
        \/ /\ proc[p].pc \in {"steps", "preverify", "propagate", "answer", "status"}
           /\ proc[p].intent \in Intents
           /\ proc[p].step \in DOMAIN CommandOf(proc[p].intent).steps
           /\ proc[p].keys \in BOOLEAN /\ proc[p].observed \subseteq Chains
           /\ proc[p].quoted \in 0..MaxAmount /\ proc[p].nonce \in 0..MaxNonce
           /\ proc[p].rounds \in 0..Rounds
    /\ told \in [Intents -> {"new", "running", "unknown", "success", "failure"}]
    /\ prepared \in [Intents -> Transactions \cup {NoTx}]

\* As long as a transaction may still be executed, the operator holds its exact
\* hash and has not been told that it may ask again.
LiveIsKnown ==
    \A tx \in sent :
        tx.nonce > Len(ledger) =>
            /\ told[tx.intent] \in {"running", "unknown"}
            /\ prepared[tx.intent] = tx

\* Where the operator has named a chain, no key is read for another one: not
\* before the endpoint has been seen to serve it.
KeysForPinnedChain ==
    \A p \in Processes :
        Running(p) /\ CommandOf(proc[p].intent).pinned /\ proc[p].keys
            => proc[p].observed = {Home}

\* The client keeps its promise, whatever it loses, however often it crashes,
\* and with as many processes at once as share the key.
applied == {i \in Intents : \E n \in DOMAIN ledger :
                ledger[n].ok /\ ledger[n].tx.intent = i}

Promise == INSTANCE SubmissionPromise

PromiseKept == Promise!Spec

\* Every invocation ends, also when the node never answers.
InvocationEnds == \A p \in Processes : Running(p) ~> ~Running(p)
=============================================================================
