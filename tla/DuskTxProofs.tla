----------------------------- MODULE DuskTxProofs ------------------------------
(***************************************************************************)
(* The client keeps its promise for any number of processes, intents and   *)
(* commands.  What makes it so is one fact about each intent: at most one  *)
(* of its transactions can still be executed, it is the one whose hash was *)
(* printed last, and as long as that is so nobody has been told that the   *)
(* intent may be asked for again.                                          *)
(*                                                                         *)
(* deploy-hyperlane, in the second half, deploys what it says, however     *)
(* many runs share the key.  A run looks its ids up after it has read its  *)
(* nonce, and contracts appear with executed transactions only, so the ids *)
(* were free at that nonce; a transaction executed in its place takes the  *)
(* nonce, and the run's own is void.                                       *)
(***************************************************************************)
EXTENDS DuskTx, DeployHyperlane, SequenceTheorems, FiniteSetTheorems,
    FunctionTheorems, TLAPS

USE DEF chain

Pcs == {"steps", "preverify", "propagate", "answer", "status"}

Invocations ==
    [pc : Pcs, intent : Intents, step : 1..5, keys : BOOLEAN, observed : SUBSET Chains,
     quoted : 0..MaxAmount, nonce : 0..MaxNonce, rounds : 0..Rounds]

Entries == [tx : Transactions, ok : BOOLEAN]

TypeInv ==
    /\ ledger \in Seq(Entries) /\ Len(ledger) <= MaxNonce
    /\ fee \in Fees
    /\ sent \subseteq Transactions
    /\ proc \in [Processes -> {Idle} \cup Invocations]
    /\ told \in [Intents -> {"new", "running", "unknown", "success", "failure"}]
    /\ prepared \in [Intents -> Transactions \cup {NoTx}]

\* A process stands at a step of its command, has a quote it can pay and, once it
\* has signed, a nonce.
ProcInv ==
    \A p \in Processes : Running(p) =>
        /\ proc[p].step \in DOMAIN CommandOf(proc[p].intent).steps
        /\ Deposit(proc[p].intent, proc[p].quoted) \in 0..MaxAmount
        /\ proc[p].pc # "steps" => proc[p].nonce # 0

LedgerInv == \A n \in DOMAIN ledger : ledger[n].tx.nonce = n

\* An intent that a process runs is told to be running, and no other process runs it.
RunnerInv ==
    /\ \A p \in Processes : Running(p) => told[proc[p].intent] = "running"
    /\ \A p, q \in Processes :
        Running(p) /\ Running(q) /\ proc[p].intent = proc[q].intent => p = q

SignedInv ==
    \A p \in Processes :
        Running(p) /\ proc[p].pc # "steps" => prepared[proc[p].intent] = Tx(p)

Dead(i) == \A tx \in sent : tx.intent = i => tx.nonce <= Len(ledger)

\* Before a process propagates, what was sent for its intent earlier can no longer
\* be executed and has not succeeded.
UnsentInv ==
    \A p \in Processes :
        Running(p) /\ proc[p].pc \in {"steps", "preverify", "propagate"}
            => Dead(proc[p].intent) /\ proc[p].intent \notin applied

\* What has succeeded is the transaction whose hash was printed last.
AppliedInv ==
    \A n \in DOMAIN ledger :
        ledger[n].ok =>
            /\ told[ledger[n].tx.intent] \in {"running", "unknown", "success"}
            /\ prepared[ledger[n].tx.intent] = ledger[n].tx

\* What has become unknown has a transaction of its own on record.
RecordInv == \A i \in Intents : told[i] = "unknown" => prepared[i].intent = i

\* Where a chain is pinned, it has been looked at before the step after it.
PinnedInv ==
    \A p \in Processes :
        Running(p) /\ CommandOf(proc[p].intent).pinned =>
            /\ proc[p].keys => proc[p].observed = {Home}
            /\ proc[p].pc = "steps" /\ proc[p].step > 2 => proc[p].observed = {Home}

Inv ==
    /\ TypeInv /\ ProcInv /\ LedgerInv /\ RunnerInv /\ SignedInv /\ UnsentInv
    /\ LiveIsKnown /\ AppliedInv /\ RecordInv

-----------------------------------------------------------------------------
(* Commands, transactions and what is true of the processes one by one.     *)

\* A command asks for the account last, and the pinned ones look at the chain
\* before they read keys.
LEMMA CommandFacts ==
    ASSUME NEW i \in Intents
    PROVE  LET s == CommandOf(i).steps
           IN  /\ \E n \in 4..5 : /\ DOMAIN s = 1..n
                                  /\ \A k \in 1..n : s[k] = "account" <=> k = n
               /\ CommandOf(i).pinned => s = <<"parse", "chain", "keys", "account">>
<1>1. command[i] \in DOMAIN Commands
    BY ClientAssumption
<1>2. \/ command[i] = "FundDispatch" \/ command[i] = "WithdrawDispatch"
      \/ command[i] = "Call" \/ command[i] = "Dispatch" \/ command[i] = "Process"
      \/ command[i] = "EnrollRouter" \/ command[i] = "RegisterAccount"
      \/ command[i] = "Drc20Approve" \/ command[i] = "TransferRemote"
      \/ command[i] = "TransferRemoteNative"
    BY <1>1 DEF Commands
<1> DEFINE s == CommandOf(i).steps
<1>3. CommandOf(i) \in {FundDispatch, WithdrawDispatch, Call, Dispatch, Process, EnrollRouter,
                        RegisterAccount, Drc20Approve, TransferRemote, TransferRemoteNative}
    BY <1>2 DEF CommandOf, Commands
<1>4. CASE CommandOf(i) \in {TransferRemote, TransferRemoteNative}
    <2> DEFINE r == TransferRemote
    <2>1. r = [fn |-> r.fn, deposit |-> r.deposit, pinned |-> r.pinned, steps |-> r.steps]
        BY DEF TransferRemote
    <2>2. r.steps = <<"parse", "quote", "keys", "chain", "account">> /\ r.pinned = FALSE
        BY DEF TransferRemote
    <2> HIDE DEF r
    <2>3. TransferRemoteNative = [r EXCEPT !.deposit = "amount and fee"]
        BY DEF TransferRemoteNative, r
    <2>4. TransferRemoteNative.steps = r.steps /\ TransferRemoteNative.pinned = r.pinned
        BY <2>1, <2>3
    <2>5. /\ s = <<"parse", "quote", "keys", "chain", "account">>
          /\ CommandOf(i).pinned = FALSE
        BY <1>4, <2>2, <2>4 DEF r
    <2> HIDE DEF s
    <2>6. DOMAIN s = 1..5 /\ \A k \in 1..5 : s[k] = "account" <=> k = 5
        BY <2>5
    <2>7. QED
        BY <2>5, <2>6 DEF s
<1>5. CASE CommandOf(i) \in {FundDispatch, WithdrawDispatch, Call, Dispatch, Drc20Approve}
    <2>1. s = <<"parse", "chain", "keys", "account">>
        BY <1>5 DEF FundDispatch, WithdrawDispatch, Call, Dispatch, Drc20Approve
    <2>2. DOMAIN s = 1..4 /\ \A k \in 1..4 : s[k] = "account" <=> k = 4
        BY <2>1
    <2>3. QED
        BY <2>1, <2>2
<1>6. CASE CommandOf(i) \in {Process, EnrollRouter, RegisterAccount}
    <2>1. /\ \/ s = <<"parse", "keys", "chain", "account">>
             \/ s = <<"keys", "parse", "chain", "account">>
          /\ CommandOf(i).pinned = FALSE
        BY <1>6 DEF Process, EnrollRouter, RegisterAccount
    <2>2. DOMAIN s = 1..4 /\ \A k \in 1..4 : s[k] = "account" <=> k = 4
        BY <2>1
    <2>3. QED
        BY <2>1, <2>2
<1>7. QED
    BY <1>3, <1>4, <1>5, <1>6

LEMMA DepositFacts ==
    ASSUME NEW i \in Intents
    PROVE  Deposit(i, 0) \in 0..MaxAmount
<1>1. amount[i] \in 0..MaxAmount /\ MaxAmount \in Nat
    BY ClientAssumption
<1>2. Deposit(i, 0) = amount[i] \/ Deposit(i, 0) = 0 \/ Deposit(i, 0) = amount[i] + 0
    BY DEF Deposit
<1>3. QED
    BY <1>1, <1>2

TxOf(q) == [intent |-> q.intent, nonce |-> q.nonce, deposit |-> Deposit(q.intent, q.quoted)]

Preparing == {"steps", "preverify", "propagate"}

\* A process that runs stands at an invocation of one of the intents.
LEMMA RunningFacts ==
    ASSUME TypeInv, NEW p \in Processes
    PROVE  /\ Running(p) => proc[p] \in Invocations
           /\ Running(p) <=> proc[p] # Idle
           /\ Tx(p) = TxOf(proc[p])
<1>1. proc[p] = Idle \/ proc[p] \in Invocations
    BY DEF TypeInv
<1>2. Idle.pc = "idle"
    BY DEF Idle
<1>3. \A q \in Invocations : q.pc # "idle"
    BY DEF Invocations, Pcs
<1>4. QED
    BY <1>1, <1>2, <1>3 DEF Running, Tx, TxOf

\* What is signed can be executed: with a nonce from 1, and a value that fits.
LEMMA SignedFacts ==
    ASSUME TypeInv, ProcInv, NEW p \in Processes, Running(p), proc[p].pc # "steps"
    PROVE  Tx(p) \in Transactions /\ Tx(p).intent = proc[p].intent
<1>1. proc[p].intent \in Intents /\ proc[p].nonce \in 0..MaxNonce
    BY RunningFacts DEF Invocations
<1>2. proc[p].nonce # 0 /\ Deposit(proc[p].intent, proc[p].quoted) \in 0..MaxAmount
    BY DEF ProcInv
<1>3. proc[p].nonce \in 1..MaxNonce
    BY <1>1, <1>2, ClientAssumption
<1>4. QED
    BY <1>1, <1>2, <1>3 DEF Tx, Transactions

\* A transaction in the ledger stands where its nonce says, so the last one an
\* intent has signed settles it.
LEMMA ExecutedSettles ==
    ASSUME Inv, NEW i \in Intents, NEW ok \in BOOLEAN, Executed(prepared[i], ok),
           prepared[i].intent = i
    PROVE  /\ Dead(i)
           /\ ok = TRUE => i \in applied
           /\ ok = FALSE => i \notin applied
<1>1. PICK n \in DOMAIN ledger : ledger[n] = [tx |-> prepared[i], ok |-> ok]
    BY DEF Executed
<1>2. ledger \in Seq(Entries) /\ DOMAIN ledger = 1..Len(ledger) /\ Len(ledger) \in Nat
    BY LenProperties DEF Inv, TypeInv
<1>3. prepared[i].nonce = n /\ n <= Len(ledger)
    BY <1>1, <1>2 DEF Inv, LedgerInv
<1>4. Dead(i)
    <2>1. ASSUME NEW tx \in sent, tx.intent = i, ~(tx.nonce <= Len(ledger)) PROVE FALSE
        <3>1. tx \in Transactions
            BY DEF Inv, TypeInv
        <3>2. tx.nonce > Len(ledger)
            BY <1>2, <2>1, <3>1, ClientAssumption DEF Transactions
        <3>3. prepared[i] = tx
            BY <2>1, <3>2 DEF Inv, LiveIsKnown
        <3>4. QED
            BY <1>3, <2>1, <3>3
    <2>2. QED
        BY <2>1 DEF Dead
<1>5. ok = TRUE => i \in applied
    <2>1. ASSUME ok = TRUE PROVE ledger[n].ok /\ ledger[n].tx.intent = i
        BY <1>1, <2>1
    <2>2. QED
        BY <2>1 DEF applied
<1>6. ok = FALSE => i \notin applied
    <2>1. SUFFICES ASSUME ok = FALSE, NEW k \in DOMAIN ledger, ledger[k].ok,
                          ledger[k].tx.intent = i
                   PROVE  FALSE
        BY DEF applied
    <2>2. prepared[i] = ledger[k].tx
        BY <2>1 DEF Inv, AppliedInv
    <2>3. k = n
        BY <1>3, <2>2 DEF Inv, LedgerInv
    <2>4. QED
        BY <1>1, <2>1, <2>3
<1>7. QED
    BY <1>4, <1>5, <1>6

-----------------------------------------------------------------------------
(* What a step of a process does to the invariant.                          *)

\* An invocation goes on without a word to the operator.
LEMMA AdvanceKeeps ==
    ASSUME Inv, NEW p \in Processes, Running(p),
           NEW q \in Invocations, proc' = [proc EXCEPT ![p] = q],
           UNCHANGED <<chain, sent, told, prepared>>,
           q.intent = proc[p].intent,
           q.step \in DOMAIN CommandOf(q.intent).steps,
           Deposit(q.intent, q.quoted) \in 0..MaxAmount,
           q.pc # "steps" => q.nonce # 0 /\ prepared[q.intent] = TxOf(q),
           q.pc \in Preparing => proc[p].pc \in Preparing
    PROVE  Inv'
<1>1. \A r \in Processes : proc'[r] = IF r = p THEN q ELSE proc[r]
    BY DEF Inv, TypeInv
<1>2. TypeInv'
    BY DEF Inv, TypeInv
<1>3. ProcInv'
    BY <1>1 DEF Inv, ProcInv, Running
<1>4. LedgerInv' /\ LiveIsKnown' /\ AppliedInv' /\ RecordInv'
    BY DEF Inv, LedgerInv, LiveIsKnown, AppliedInv, RecordInv
<1>5. RunnerInv'
    BY <1>1 DEF Inv, RunnerInv, Running
<1>6. SignedInv'
    BY <1>1 DEF Inv, SignedInv, Running, Tx, TxOf
<1>7. UnsentInv'
    <2>1. applied' = applied /\ \A i : Dead(i)' <=> Dead(i)
        BY DEF applied, Dead
    <2>2. QED
        BY <1>1, <2>1 DEF Inv, UnsentInv, Running, Preparing
<1>8. QED
    BY <1>2, <1>3, <1>4, <1>5, <1>6, <1>7 DEF Inv

\* An invocation ends.  Unless the outcome is left open, nothing sent for the
\* intent may still be executed; and what has succeeded did not fail.
LEMMA ReportKeeps ==
    ASSUME Inv, NEW p \in Processes, Running(p),
           NEW outcome \in {"unknown", "success", "failure"}, Report(p, outcome),
           UNCHANGED <<chain, sent, prepared>>,
           outcome = "unknown" => proc[p].pc # "steps",
           outcome # "unknown" => Dead(proc[p].intent),
           outcome = "failure" => proc[p].intent \notin applied
    PROVE  Inv'
<1> DEFINE i == proc[p].intent
<1>1. i \in Intents
    BY RunningFacts DEF Inv, Invocations
<1>2. \A r \in Processes : proc'[r] = IF r = p THEN Idle ELSE proc[r]
    BY DEF Inv, TypeInv, Report
<1>3. \A j \in Intents : told'[j] = IF j = i THEN outcome ELSE told[j]
    BY DEF Inv, TypeInv, Report
<1>4. \A r \in Processes : Running(r)' => r # p /\ Running(r) /\ proc'[r] = proc[r]
    BY <1>2 DEF Running, Idle
<1>5. \A r \in Processes : Running(r)' => proc[r].intent \in Intents /\ proc[r].intent # i
    BY <1>4, RunningFacts DEF Inv, RunnerInv, Invocations
<1>6. TypeInv'
    BY DEF Inv, TypeInv, Report
<1>7. ProcInv' /\ LedgerInv' /\ SignedInv'
    BY <1>4 DEF Inv, ProcInv, LedgerInv, SignedInv, Tx
<1>8. RunnerInv'
    BY <1>3, <1>4, <1>5 DEF Inv, RunnerInv
<1>9. UnsentInv'
    <2>1. applied' = applied /\ \A j : Dead(j)' <=> Dead(j)
        BY DEF applied, Dead
    <2>2. QED
        BY <1>4, <2>1 DEF Inv, UnsentInv
<1>10. LiveIsKnown'
    <2>1. SUFFICES ASSUME NEW tx \in sent, tx.nonce > Len(ledger)
                   PROVE  /\ told'[tx.intent] \in {"running", "unknown"}
                          /\ prepared[tx.intent] = tx
        BY DEF LiveIsKnown
    <2>2. /\ told[tx.intent] \in {"running", "unknown"}
          /\ prepared[tx.intent] = tx
        BY <2>1 DEF Inv, LiveIsKnown
    <2>3. tx \in Transactions /\ Len(ledger) \in Nat
        BY <2>1, LenProperties DEF Inv, TypeInv
    <2>4. tx.intent \in Intents /\ ~(tx.nonce <= Len(ledger))
        BY <2>1, <2>3, ClientAssumption DEF Transactions
    <2>5. tx.intent = i => outcome = "unknown"
        BY <2>4 DEF Dead
    <2>6. QED
        BY <1>3, <2>2, <2>4, <2>5
<1>11. AppliedInv'
    <2>1. SUFFICES ASSUME NEW n \in DOMAIN ledger, ledger[n].ok
                   PROVE  /\ told'[ledger[n].tx.intent] \in {"running", "unknown", "success"}
                          /\ prepared[ledger[n].tx.intent] = ledger[n].tx
        BY DEF AppliedInv
    <2>2. ledger[n] \in Entries
        BY LenProperties DEF Inv, TypeInv
    <2>3. ledger[n].tx.intent \in applied /\ ledger[n].tx.intent \in Intents
        BY <2>1, <2>2 DEF applied, Entries, Transactions
    <2>4. QED
        BY <1>3, <2>1, <2>3 DEF Inv, AppliedInv
<1>12. RecordInv'
    <2>1. outcome = "unknown" => prepared[i].intent = i
        BY SignedFacts DEF Inv, SignedInv
    <2>2. QED
        BY <1>3, <2>1 DEF Inv, RecordInv
<1>13. QED
    BY <1>6, <1>7, <1>8, <1>9, <1>10, <1>11, <1>12 DEF Inv

\* A step that is done is followed by another: only the account is last.
LEMMA DoneKeeps ==
    ASSUME Inv, NEW p \in Processes, NEW step, AtStep(p, step), step # "account",
           NEW c \in Invocations, Done(p, c),
           c.intent = proc[p].intent, c.step = proc[p].step, c.pc = "steps",
           Deposit(c.intent, c.quoted) \in 0..MaxAmount,
           UNCHANGED <<chain, sent, told, prepared>>
    PROVE  Inv'
<1>1. Running(p) /\ proc[p].pc = "steps"
    BY DEF AtStep, Running
<1>2. c.intent \in Intents
    BY DEF Invocations
<1> DEFINE s == CommandOf(c.intent).steps
           q == [c EXCEPT !.step = @ + 1]
<1>3. PICK n \in 4..5 : DOMAIN s = 1..n /\ \A k \in 1..n : s[k] = "account" <=> k = n
    BY <1>2, CommandFacts
<1>4. c.step \in 1..n /\ c.step # n
    BY <1>1, <1>3 DEF Inv, ProcInv, AtStep
<1>5. c.step + 1 \in 1..n /\ c.step + 1 \in 1..5
    BY <1>4
<1>6. /\ q \in Invocations
      /\ q.intent = c.intent /\ q.step = c.step + 1 /\ q.pc = "steps"
      /\ q.quoted = c.quoted
    BY <1>5 DEF Invocations
<1>7. proc' = [proc EXCEPT ![p] = q]
    BY DEF Done
<1> HIDE DEF q
<1>8. QED
    BY <1>1, <1>3, <1>5, <1>6, <1>7, AdvanceKeeps DEF Preparing

LEMMA StepFacts ==
    ASSUME Inv, NEW p \in Processes, proc[p].pc = "steps"
    PROVE  /\ Running(p) /\ proc[p] \in Invocations
           /\ proc[p].intent \in Intents
           /\ Deposit(proc[p].intent, proc[p].quoted) \in 0..MaxAmount
<1>1. Running(p)
    BY DEF Running
<1>2. QED
    BY <1>1, RunningFacts DEF Inv, ProcInv, Invocations

LEMMA ParseArgumentsKeeps ==
    ASSUME Inv, NEW p \in Processes, ParseArguments(p)
    PROVE  Inv'
<1>1. AtStep(p, "parse") /\ proc[p].pc = "steps"
    BY DEF ParseArguments, AtStep
<1>2. QED
    BY <1>1, StepFacts, DoneKeeps DEF ParseArguments

LEMMA LoadKeysKeeps ==
    ASSUME Inv, NEW p \in Processes, LoadKeys(p)
    PROVE  Inv'
<1> DEFINE c == [proc[p] EXCEPT !.keys = TRUE]
<1>1. AtStep(p, "keys") /\ proc[p].pc = "steps" /\ Done(p, c)
    BY DEF LoadKeys, AtStep
<1>2. /\ c \in Invocations /\ c.intent = proc[p].intent /\ c.step = proc[p].step
      /\ c.pc = "steps" /\ c.quoted = proc[p].quoted
    BY <1>1, StepFacts DEF Invocations
<1> HIDE DEF c
<1>3. QED
    BY <1>1, <1>2, StepFacts, DoneKeeps DEF LoadKeys

LEMMA RefuseKeeps ==
    ASSUME Inv, NEW p \in Processes, Refuse(p)
    PROVE  Inv'
<1>1. proc[p].pc = "steps" /\ Report(p, "failure")
    BY DEF Refuse
<1>2. Running(p) /\ Dead(proc[p].intent) /\ proc[p].intent \notin applied
    BY <1>1, StepFacts DEF Inv, UnsentInv
<1>3. QED
    BY <1>1, <1>2, ReportKeeps DEF Refuse

LEMMA QueryChainIdKeeps ==
    ASSUME Inv, NEW p \in Processes, QueryChainId(p)
    PROVE  Inv'
<1>1. AtStep(p, "chain") /\ proc[p].pc = "steps"
    BY DEF QueryChainId, AtStep
<1>2. PICK observed \in Chains :
        IF observed = Home
        THEN /\ Done(p, [proc[p] EXCEPT !.observed = {observed}])
             /\ UNCHANGED <<chain, sent, told, prepared>>
        ELSE Refuse(p)
    BY ClientAssumption DEF QueryChainId
<1>3. CASE observed = Home
    <2> DEFINE c == [proc[p] EXCEPT !.observed = {observed}]
    <2>1. /\ c \in Invocations /\ c.intent = proc[p].intent /\ c.step = proc[p].step
          /\ c.pc = "steps" /\ c.quoted = proc[p].quoted
        BY <1>1, StepFacts DEF Invocations
    <2>2. Done(p, c) /\ UNCHANGED <<chain, sent, told, prepared>>
        BY <1>2, <1>3
    <2> HIDE DEF c
    <2>3. QED
        BY <1>1, <2>1, <2>2, StepFacts, DoneKeeps
<1>4. CASE observed # Home
    BY <1>2, <1>4, RefuseKeeps
<1>5. QED
    BY <1>3, <1>4

LEMMA QueryQuoteKeeps ==
    ASSUME Inv, NEW p \in Processes, QueryQuote(p)
    PROVE  Inv'
<1> DEFINE c == [proc[p] EXCEPT !.quoted = fee]
<1>1. AtStep(p, "quote") /\ proc[p].pc = "steps" /\ Done(p, c)
    BY DEF QueryQuote, AtStep
<1>2. fee \in 0..MaxAmount
    BY ClientAssumption DEF Inv, TypeInv
<1>3. /\ c \in Invocations /\ c.intent = proc[p].intent /\ c.step = proc[p].step
      /\ c.pc = "steps" /\ c.quoted = fee
    BY <1>1, <1>2, StepFacts DEF Invocations
<1> HIDE DEF c
<1>4. Deposit(c.intent, c.quoted) \in 0..MaxAmount
    <2>1. amount[proc[p].intent] \in 0..MaxAmount /\ MaxAmount \in Nat
        BY <1>1, StepFacts, ClientAssumption
    <2>2. Deposit(proc[p].intent, fee) \in {amount[proc[p].intent], fee, 0,
                                            amount[proc[p].intent] + fee}
        BY DEF Deposit
    <2>3. Deposit(proc[p].intent, fee) \in Nat
        BY <1>2, <2>1, <2>2
    <2>4. Deposit(proc[p].intent, fee) <= MaxAmount
        BY DEF QueryQuote
    <2>5. QED
        BY <1>3, <2>1, <2>3, <2>4
<1>5. QED
    BY <1>1, <1>3, <1>4, DoneKeeps DEF QueryQuote

\* The hash on record is replaced only while nothing signed earlier can still be
\* executed.
LEMMA QueryAccountKeeps ==
    ASSUME Inv, NEW p \in Processes, QueryAccount(p)
    PROVE  Inv'
<1> DEFINE i == proc[p].intent
           q == [proc[p] EXCEPT !.nonce = Len(ledger) + 1, !.pc = "preverify"]
<1>1. proc[p].pc = "steps" /\ proc' = [proc EXCEPT ![p] = q]
    BY DEF QueryAccount, AtStep
<1>2. Len(ledger) + 1 \in 1..MaxNonce
    BY ClientAssumption, LenProperties DEF QueryAccount, Inv, TypeInv
<1>3. /\ q \in Invocations
      /\ q.intent = i /\ q.step = proc[p].step /\ q.pc = "preverify"
      /\ q.quoted = proc[p].quoted /\ q.nonce = Len(ledger) + 1
    <2>1. Len(ledger) + 1 \in 0..MaxNonce /\ "preverify" \in Pcs
        BY <1>2, ClientAssumption DEF Pcs
    <2>2. proc[p] \in Invocations
        BY <1>1, StepFacts
    <2>3. QED
        BY <2>1, <2>2 DEF Invocations
<1>4. prepared' = [prepared EXCEPT ![i] = TxOf(q)]
    BY <1>3 DEF QueryAccount, TxOf
<1> HIDE DEF q
<1>5. /\ Running(p) /\ i \in Intents
      /\ Deposit(i, proc[p].quoted) \in 0..MaxAmount
    BY <1>1, StepFacts
<1>6. TxOf(q) \in Transactions
    BY <1>2, <1>3, <1>5 DEF TxOf, Transactions
<1>7. \A r \in Processes : proc'[r] = IF r = p THEN q ELSE proc[r]
    BY <1>1 DEF Inv, TypeInv
<1>8. \A j \in Intents : prepared'[j] = IF j = i THEN TxOf(q) ELSE prepared[j]
    BY <1>4 DEF Inv, TypeInv
<1>9. Dead(i) /\ i \notin applied
    BY <1>1, <1>5 DEF Inv, UnsentInv
<1>10. TypeInv'
    BY <1>1, <1>3, <1>4, <1>6 DEF Inv, TypeInv, QueryAccount
<1>11. ProcInv'
    BY <1>2, <1>3, <1>5, <1>7 DEF Inv, ProcInv, Running
<1>12. LedgerInv'
    BY DEF Inv, LedgerInv, QueryAccount
<1>13. RunnerInv'
    BY <1>3, <1>5, <1>7 DEF Inv, RunnerInv, Running, QueryAccount
<1>14. SignedInv'
    <2>1. SUFFICES ASSUME NEW r \in Processes, Running(r)', proc'[r].pc # "steps"
                   PROVE  prepared'[proc'[r].intent] = TxOf(proc'[r])
        BY DEF SignedInv, Tx, TxOf
    <2>2. CASE r = p
        BY <1>3, <1>5, <1>7, <1>8, <2>2
    <2>3. CASE r # p
        <3>1. Running(r) /\ proc'[r] = proc[r]
            BY <1>7, <2>1, <2>3 DEF Running
        <3>2. proc[r].intent \in Intents /\ proc[r].intent # i
            BY <1>5, <2>3, <3>1, RunningFacts DEF Inv, RunnerInv, Invocations
        <3>3. prepared[proc[r].intent] = TxOf(proc[r])
            BY <2>1, <3>1 DEF Inv, SignedInv, Tx, TxOf
        <3>4. QED
            BY <1>8, <3>1, <3>2, <3>3
    <2>4. QED
        BY <2>2, <2>3
<1>15. UnsentInv'
    <2>1. applied' = applied /\ \A j : Dead(j)' <=> Dead(j)
        BY DEF applied, Dead, QueryAccount
    <2>2. QED
        BY <1>3, <1>5, <1>7, <1>9, <2>1 DEF Inv, UnsentInv, Running
<1>16. LiveIsKnown'
    <2>1. SUFFICES ASSUME NEW tx \in sent, tx.nonce > Len(ledger)
                   PROVE  /\ told[tx.intent] \in {"running", "unknown"}
                          /\ prepared'[tx.intent] = tx
        BY DEF LiveIsKnown, QueryAccount
    <2>2. tx.intent \in Intents /\ ~(tx.nonce <= Len(ledger))
        BY <2>1, ClientAssumption, LenProperties DEF Inv, TypeInv, Transactions
    <2>3. tx.intent # i
        BY <1>9, <2>2 DEF Dead
    <2>4. QED
        BY <1>8, <2>1, <2>2, <2>3 DEF Inv, LiveIsKnown
<1>17. AppliedInv'
    <2>1. SUFFICES ASSUME NEW n \in DOMAIN ledger, ledger[n].ok
                   PROVE  /\ told[ledger[n].tx.intent] \in {"running", "unknown", "success"}
                          /\ prepared'[ledger[n].tx.intent] = ledger[n].tx
        BY DEF AppliedInv, QueryAccount
    <2>2. ledger[n] \in Entries
        BY LenProperties DEF Inv, TypeInv
    <2>3. ledger[n].tx.intent \in applied /\ ledger[n].tx.intent \in Intents
        BY <2>1, <2>2 DEF applied, Entries, Transactions
    <2>4. QED
        BY <1>8, <1>9, <2>1, <2>3 DEF Inv, AppliedInv
<1>18. RecordInv'
    BY <1>3, <1>8 DEF Inv, RecordInv, TxOf, QueryAccount
<1>19. QED
    BY <1>10, <1>11, <1>12, <1>13, <1>14, <1>15, <1>16, <1>17, <1>18 DEF Inv

LEMMA PreverifyKeeps ==
    ASSUME Inv, NEW p \in Processes, Preverify(p)
    PROVE  Inv'
<1>1. proc[p].pc = "preverify" /\ Running(p) /\ proc[p] \in Invocations
    BY RunningFacts DEF Preverify, Inv, Running
<1>2. CASE proc' = [proc EXCEPT ![p].pc = "propagate"] /\ UNCHANGED told
    <2> DEFINE q == [proc[p] EXCEPT !.pc = "propagate"]
    <2>1. /\ q \in Invocations /\ q.pc = "propagate" /\ q.intent = proc[p].intent
          /\ q.step = proc[p].step /\ q.quoted = proc[p].quoted /\ q.nonce = proc[p].nonce
        BY <1>1 DEF Invocations, Pcs
    <2>2. proc' = [proc EXCEPT ![p] = q]
        BY <1>2
    <2> HIDE DEF q
    <2>3. /\ q.step \in DOMAIN CommandOf(q.intent).steps /\ q.nonce # 0
          /\ Deposit(q.intent, q.quoted) \in 0..MaxAmount
        BY <1>1, <2>1 DEF Inv, ProcInv
    <2>4. prepared[q.intent] = TxOf(q)
        BY <1>1, <2>1 DEF Inv, SignedInv, Tx, TxOf
    <2>5. QED
        BY <1>1, <1>2, <2>1, <2>2, <2>3, <2>4, AdvanceKeeps DEF Preparing, Preverify
<1>3. CASE Report(p, "failure")
    <2>1. Dead(proc[p].intent) /\ proc[p].intent \notin applied
        BY <1>1 DEF Inv, UnsentInv
    <2>2. QED
        BY <1>1, <1>3, <2>1, ReportKeeps DEF Preverify
<1>4. QED
    BY <1>2, <1>3 DEF Preverify

LEMMA PropagateAnsweredKeeps ==
    ASSUME Inv, NEW p \in Processes, PropagateAnswered(p)
    PROVE  Inv'
<1>1. proc[p].pc = "answer" /\ Running(p) /\ proc[p] \in Invocations
    BY RunningFacts DEF PropagateAnswered, Inv, Running
<1>2. CASE proc' = [proc EXCEPT ![p].pc = "status", ![p].rounds = Rounds] /\ UNCHANGED told
    <2> DEFINE q == [proc[p] EXCEPT !.pc = "status", !.rounds = Rounds]
    <2>1. /\ q \in Invocations /\ q.pc = "status" /\ q.intent = proc[p].intent
          /\ q.step = proc[p].step /\ q.quoted = proc[p].quoted /\ q.nonce = proc[p].nonce
        <3>1. Rounds \in 0..Rounds /\ "status" \in Pcs
            BY ClientAssumption DEF Pcs
        <3>2. QED
            BY <1>1, <3>1 DEF Invocations
    <2>2. proc' = [proc EXCEPT ![p] = q]
        BY <1>1, <1>2 DEF Inv, TypeInv
    <2> HIDE DEF q
    <2>3. /\ q.step \in DOMAIN CommandOf(q.intent).steps /\ q.nonce # 0
          /\ Deposit(q.intent, q.quoted) \in 0..MaxAmount
        BY <1>1, <2>1 DEF Inv, ProcInv
    <2>4. prepared[q.intent] = TxOf(q)
        BY <1>1, <2>1 DEF Inv, SignedInv, Tx, TxOf
    <2>5. QED
        BY <1>1, <1>2, <2>1, <2>2, <2>3, <2>4, AdvanceKeeps DEF Preparing, PropagateAnswered
<1>3. CASE Report(p, "unknown")
    BY <1>1, <1>3, ReportKeeps DEF PropagateAnswered
<1>4. QED
    BY <1>2, <1>3 DEF PropagateAnswered

LEMMA CrashKeeps ==
    ASSUME Inv, NEW p \in Processes, Crash(p)
    PROVE  Inv'
<1>1. CASE proc[p].pc = "steps"
    <2>1. Running(p) /\ Dead(proc[p].intent) /\ proc[p].intent \notin applied
        BY <1>1, StepFacts DEF Inv, UnsentInv
    <2>2. QED
        BY <1>1, <2>1, ReportKeeps DEF Crash
<1>2. CASE proc[p].pc # "steps"
    BY <1>2, ReportKeeps DEF Crash
<1>3. QED
    BY <1>1, <1>2

\* From here on the transaction is live, and it is the one on record.
LEMMA SendPropagateKeeps ==
    ASSUME Inv, NEW p \in Processes, SendPropagate(p)
    PROVE  Inv'
<1> DEFINE i == proc[p].intent
           q == [proc[p] EXCEPT !.pc = "answer"]
<1>1. proc[p].pc = "propagate" /\ Running(p) /\ proc[p] \in Invocations
    BY RunningFacts DEF SendPropagate, Inv, Running
<1>2. /\ q \in Invocations /\ q.pc = "answer" /\ q.intent = i
      /\ q.step = proc[p].step /\ q.quoted = proc[p].quoted /\ q.nonce = proc[p].nonce
    BY <1>1 DEF Invocations, Pcs
<1>3. proc' = [proc EXCEPT ![p] = q]
    BY DEF SendPropagate
<1> HIDE DEF q
<1>4. Tx(p) \in Transactions /\ Tx(p).intent = i /\ Tx(p) = TxOf(proc[p])
    BY <1>1, SignedFacts, RunningFacts DEF Inv
<1>5. \A r \in Processes : proc'[r] = IF r = p THEN q ELSE proc[r]
    BY <1>3 DEF Inv, TypeInv
<1>6. \A r \in Processes : /\ Running(r)' <=> Running(r)
                           /\ proc'[r].intent = proc[r].intent
                           /\ TxOf(proc'[r]) = TxOf(proc[r])
    BY <1>1, <1>2, <1>5 DEF Running, TxOf
<1>7. UNCHANGED <<ledger, fee, told, prepared>> /\ sent' = sent \cup {Tx(p)}
    BY DEF SendPropagate
<1>8. TypeInv'
    BY <1>2, <1>3, <1>4, <1>7 DEF Inv, TypeInv
<1>9. ProcInv'
    BY <1>1, <1>2, <1>5, <1>6 DEF Inv, ProcInv
<1>10. LedgerInv' /\ RunnerInv' /\ AppliedInv' /\ RecordInv'
    BY <1>6, <1>7 DEF Inv, LedgerInv, RunnerInv, AppliedInv, RecordInv
<1>11. SignedInv'
    BY <1>1, <1>2, <1>5, <1>6, <1>7 DEF Inv, SignedInv, Tx, TxOf
<1>12. UnsentInv'
    <2>1. SUFFICES ASSUME NEW r \in Processes, Running(r)',
                          proc'[r].pc \in {"steps", "preverify", "propagate"}
                   PROVE  /\ \A tx \in sent' :
                                tx.intent = proc'[r].intent => tx.nonce <= Len(ledger')
                          /\ proc'[r].intent \notin applied'
        BY DEF UnsentInv, Dead
    <2>2. r # p /\ proc'[r] = proc[r] /\ Running(r)
        BY <1>2, <1>5, <1>6, <2>1
    <2>3. proc[r].intent # i
        BY <1>1, <2>2 DEF Inv, RunnerInv
    <2>4. Dead(proc[r].intent) /\ proc[r].intent \notin applied
        BY <2>1, <2>2 DEF Inv, UnsentInv
    <2>5. applied' = applied
        BY <1>7 DEF applied
    <2>6. \A tx \in sent' : tx.intent = proc[r].intent => tx.nonce <= Len(ledger')
        BY <1>4, <1>7, <2>3, <2>4 DEF Dead
    <2>7. QED
        BY <2>2, <2>4, <2>5, <2>6
<1>13. LiveIsKnown'
    <2>1. told[i] = "running" /\ prepared[i] = Tx(p)
        BY <1>1 DEF Inv, RunnerInv, SignedInv
    <2>2. QED
        BY <1>4, <1>7, <2>1 DEF Inv, LiveIsKnown
<1>14. QED
    BY <1>8, <1>9, <1>10, <1>11, <1>12, <1>13 DEF Inv

\* A final status is about the exact transaction this process has signed.
LEMMA QueryStatusReports ==
    ASSUME Inv, NEW p \in Processes, QueryStatus(p)
    PROVE  /\ UNCHANGED <<chain, sent, prepared>> /\ Running(p) /\ proc[p] \in Invocations
           /\ proc[p].pc = "status"
           /\ \/ Report(p, "success") /\ Dead(proc[p].intent) /\ proc[p].intent \in applied
              \/ Report(p, "failure") /\ Dead(proc[p].intent) /\ proc[p].intent \notin applied
              \/ Report(p, "unknown")
              \/ /\ proc' = [proc EXCEPT ![p].rounds = @ - 1] /\ UNCHANGED told
                 /\ proc[p].rounds > 1
<1>1. proc[p].pc = "status" /\ Running(p) /\ proc[p] \in Invocations
    BY RunningFacts DEF QueryStatus, Inv, Running
<1>2. proc[p].intent \in Intents
    BY <1>1 DEF Invocations
<1>3. prepared[proc[p].intent] = Tx(p) /\ Tx(p).intent = proc[p].intent
    BY <1>1, SignedFacts DEF Inv, SignedInv
<1>4. PICK status \in Statuses(Tx(p)) :
        CASE status = "Executed" -> Report(p, "success")
          [] status = "Failed"   -> Report(p, "failure")
          [] status = "Terminal" -> Report(p, "unknown")
          [] OTHER               -> PollAgain(p)
    BY DEF QueryStatus
<1>5. CASE status = "Executed"
    <2>1. Executed(Tx(p), TRUE)
        BY <1>4, <1>5 DEF Statuses
    <2>2. Dead(proc[p].intent) /\ proc[p].intent \in applied
        BY <1>2, <1>3, <2>1, ExecutedSettles
    <2>3. QED
        BY <1>1, <1>4, <1>5, <2>2 DEF QueryStatus
<1>6. CASE status = "Failed"
    <2>1. Executed(Tx(p), FALSE)
        BY <1>4, <1>6 DEF Statuses
    <2>2. Dead(proc[p].intent) /\ proc[p].intent \notin applied
        BY <1>2, <1>3, <2>1, ExecutedSettles
    <2>3. QED
        BY <1>1, <1>4, <1>6, <2>2 DEF QueryStatus
<1>7. CASE status = "Terminal"
    BY <1>1, <1>4, <1>7 DEF QueryStatus
<1>8. CASE status \notin {"Executed", "Failed", "Terminal"}
    BY <1>1, <1>4, <1>8 DEF QueryStatus, PollAgain
<1>9. QED
    BY <1>5, <1>6, <1>7, <1>8

LEMMA QueryStatusKeeps ==
    ASSUME Inv, NEW p \in Processes, QueryStatus(p)
    PROVE  Inv'
<1>1. /\ UNCHANGED <<chain, sent, prepared>> /\ Running(p) /\ proc[p] \in Invocations
      /\ proc[p].pc = "status"
    BY QueryStatusReports
<1>2. CASE Report(p, "success") /\ Dead(proc[p].intent)
    BY <1>1, <1>2, ReportKeeps
<1>3. CASE Report(p, "failure") /\ Dead(proc[p].intent) /\ proc[p].intent \notin applied
    BY <1>1, <1>3, ReportKeeps
<1>4. CASE Report(p, "unknown")
    BY <1>1, <1>4, ReportKeeps
<1>5. CASE /\ proc' = [proc EXCEPT ![p].rounds = @ - 1] /\ UNCHANGED told
           /\ proc[p].rounds > 1
    <2> DEFINE q == [proc[p] EXCEPT !.rounds = @ - 1]
    <2>1. proc[p].rounds - 1 \in 0..Rounds
        BY <1>1, <1>5, ClientAssumption DEF Invocations
    <2>2. /\ q \in Invocations /\ q.pc = proc[p].pc /\ q.intent = proc[p].intent
          /\ q.step = proc[p].step /\ q.quoted = proc[p].quoted /\ q.nonce = proc[p].nonce
        BY <1>1, <2>1 DEF Invocations
    <2>3. proc' = [proc EXCEPT ![p] = q]
        BY <1>5
    <2> HIDE DEF q
    <2>4. /\ q.step \in DOMAIN CommandOf(q.intent).steps
          /\ Deposit(q.intent, q.quoted) \in 0..MaxAmount
          /\ q.pc # "steps" => q.nonce # 0
        BY <1>1, <2>2 DEF Inv, ProcInv
    <2>5. q.pc # "steps" => prepared[q.intent] = TxOf(q)
        BY <1>1, <2>2 DEF Inv, SignedInv, Tx, TxOf
    <2>6. QED
        BY <1>1, <1>5, <2>2, <2>3, <2>4, <2>5, AdvanceKeeps
<1>6. QED
    BY <1>2, <1>3, <1>4, <1>5, QueryStatusReports

-----------------------------------------------------------------------------
(* What the operator, the node and the routes do to the invariant.          *)

\* What may be asked for has nothing left that could still be executed.
LEMMA AskableSettled ==
    ASSUME Inv, NEW i \in Intents, told[i] \in {"new", "failure"}
    PROVE  Dead(i) /\ i \notin applied
<1>1. ASSUME NEW tx \in sent, tx.intent = i, ~(tx.nonce <= Len(ledger)) PROVE FALSE
    <2>1. tx.nonce > Len(ledger)
        BY <1>1, ClientAssumption, LenProperties DEF Inv, TypeInv, Transactions
    <2>2. QED
        BY <1>1, <2>1 DEF Inv, LiveIsKnown
<1>2. i \notin applied
    BY DEF applied, Inv, AppliedInv
<1>3. QED
    BY <1>1, <1>2 DEF Dead

LEMMA StartKeeps ==
    ASSUME Inv, NEW p \in Processes, NEW i \in Intents, Start(p, i)
    PROVE  Inv'
<1> DEFINE q == Invocation(i)
<1>1. ~Running(p) /\ told[i] \in {"new", "failure"} /\ UNCHANGED <<ledger, fee, sent, prepared>>
    BY DEF Start
<1>2. Dead(i) /\ i \notin applied
    BY <1>1, AskableSettled
<1>3. /\ q \in Invocations /\ q.pc = "steps" /\ q.intent = i /\ q.step = 1 /\ q.quoted = 0
    <2>1. 0 \in 0..MaxAmount /\ 0 \in 0..MaxNonce /\ 0 \in 0..Rounds /\ 1 \in 1..5
        BY ClientAssumption
    <2>2. QED
        BY <2>1 DEF Invocation, Invocations, Pcs
<1>4. proc' = [proc EXCEPT ![p] = q] /\ told' = [told EXCEPT ![i] = "running"]
    BY DEF Start
<1> HIDE DEF q
<1>5. \A r \in Processes : proc'[r] = IF r = p THEN q ELSE proc[r]
    BY <1>4 DEF Inv, TypeInv
<1>6. \A j \in Intents : told'[j] = IF j = i THEN "running" ELSE told[j]
    BY <1>4 DEF Inv, TypeInv
<1>7. \A r \in Processes : r # p /\ Running(r) => proc[r].intent \in Intents /\ proc[r].intent # i
    BY <1>1, RunningFacts DEF Inv, RunnerInv, Invocations
<1>8. \A r \in Processes : Running(r)' <=> r = p \/ Running(r)
    BY <1>3, <1>5 DEF Running
<1>9. TypeInv'
    BY <1>1, <1>3, <1>4 DEF Inv, TypeInv
<1>10. ProcInv'
    <2>1. Deposit(i, 0) \in 0..MaxAmount
        BY DepositFacts
    <2>2. 1 \in DOMAIN CommandOf(i).steps
        BY CommandFacts
    <2>3. QED
        BY <1>3, <1>5, <1>8, <2>1, <2>2 DEF Inv, ProcInv
<1>11. LedgerInv'
    BY <1>1 DEF Inv, LedgerInv
<1>12. RunnerInv'
    BY <1>1, <1>3, <1>5, <1>6, <1>7, <1>8 DEF Inv, RunnerInv
<1>13. SignedInv'
    BY <1>1, <1>3, <1>5, <1>8 DEF Inv, SignedInv, Tx
<1>14. UnsentInv'
    <2>1. applied' = applied /\ \A j : Dead(j)' <=> Dead(j)
        BY <1>1 DEF applied, Dead
    <2>2. QED
        BY <1>2, <1>3, <1>5, <1>8, <2>1 DEF Inv, UnsentInv
<1>15. LiveIsKnown'
    <2>1. SUFFICES ASSUME NEW tx \in sent, tx.nonce > Len(ledger)
                   PROVE  /\ told'[tx.intent] \in {"running", "unknown"}
                          /\ prepared[tx.intent] = tx
        BY <1>1 DEF LiveIsKnown
    <2>2. tx.intent \in Intents
        BY <2>1 DEF Inv, TypeInv, Transactions
    <2>3. QED
        BY <1>6, <2>1, <2>2 DEF Inv, LiveIsKnown
<1>16. AppliedInv'
    <2>1. SUFFICES ASSUME NEW n \in DOMAIN ledger, ledger[n].ok
                   PROVE  /\ told'[ledger[n].tx.intent] \in {"running", "unknown", "success"}
                          /\ prepared[ledger[n].tx.intent] = ledger[n].tx
        BY <1>1 DEF AppliedInv
    <2>2. ledger[n] \in Entries
        BY LenProperties DEF Inv, TypeInv
    <2>3. ledger[n].tx.intent \in Intents
        BY <2>1, <2>2 DEF Entries, Transactions
    <2>4. QED
        BY <1>6, <2>1, <2>3 DEF Inv, AppliedInv
<1>17. RecordInv'
    BY <1>1, <1>6 DEF Inv, RecordInv
<1>18. QED
    BY <1>9, <1>10, <1>11, <1>12, <1>13, <1>14, <1>15, <1>16, <1>17 DEF Inv

\* What the ledger holds after a transaction has been executed.
LEMMA ExecuteAppends ==
    ASSUME Inv, NEW tx \in sent, Execute(tx)
    PROVE  \E ok \in BOOLEAN :
              /\ ledger' = Append(ledger, [tx |-> tx, ok |-> ok])
              /\ tx \in Transactions /\ tx.nonce = Len(ledger) + 1
              /\ Len(ledger') = Len(ledger) + 1 /\ Len(ledger) \in Nat
              /\ DOMAIN ledger = 1..Len(ledger)
              /\ DOMAIN ledger' = 1..(Len(ledger) + 1)
              /\ \A n \in 1..Len(ledger) : ledger'[n] = ledger[n]
              /\ ledger'[Len(ledger) + 1] = [tx |-> tx, ok |-> ok]
              /\ ledger' \in Seq(Entries)
              /\ told[tx.intent] \in {"running", "unknown"} /\ prepared[tx.intent] = tx
              /\ tx.intent \notin applied
<1>1. PICK ok \in BOOLEAN : ledger' = Append(ledger, [tx |-> tx, ok |-> ok])
    BY DEF Execute
<1>2. tx \in Transactions /\ tx.nonce = Len(ledger) + 1
    BY DEF Inv, TypeInv, Execute
<1>3. ledger \in Seq(Entries) /\ [tx |-> tx, ok |-> ok] \in Entries
    BY <1>2 DEF Inv, TypeInv, Entries
<1>4. /\ Len(ledger') = Len(ledger) + 1 /\ Len(ledger) \in Nat
      /\ DOMAIN ledger = 1..Len(ledger)
      /\ DOMAIN ledger' = 1..(Len(ledger) + 1)
      /\ \A n \in 1..Len(ledger) : ledger'[n] = ledger[n]
      /\ ledger'[Len(ledger) + 1] = [tx |-> tx, ok |-> ok]
      /\ ledger' \in Seq(Entries)
    BY <1>1, <1>3, AppendProperties, LenProperties
<1>5. told[tx.intent] \in {"running", "unknown"} /\ prepared[tx.intent] = tx
    BY <1>2, <1>4 DEF Inv, LiveIsKnown
<1>6. tx.intent \notin applied
    <2>1. SUFFICES ASSUME NEW n \in DOMAIN ledger, ledger[n].ok, ledger[n].tx.intent = tx.intent
                   PROVE  FALSE
        BY DEF applied
    <2>2. ledger[n].tx = tx
        BY <1>5, <2>1 DEF Inv, AppliedInv
    <2>3. QED
        BY <1>2, <1>4, <2>2 DEF Inv, LedgerInv
<1>7. QED
    BY <1>1, <1>2, <1>4, <1>5, <1>6

LEMMA ExecuteKeeps ==
    ASSUME Inv, NEW tx \in sent, Execute(tx)
    PROVE  Inv'
<1>1. PICK ok \in BOOLEAN :
        /\ ledger' = Append(ledger, [tx |-> tx, ok |-> ok])
        /\ tx \in Transactions /\ tx.nonce = Len(ledger) + 1
        /\ Len(ledger') = Len(ledger) + 1 /\ Len(ledger) \in Nat
        /\ DOMAIN ledger = 1..Len(ledger)
        /\ DOMAIN ledger' = 1..(Len(ledger) + 1)
        /\ \A n \in 1..Len(ledger) : ledger'[n] = ledger[n]
        /\ ledger'[Len(ledger) + 1] = [tx |-> tx, ok |-> ok]
        /\ ledger' \in Seq(Entries)
        /\ told[tx.intent] \in {"running", "unknown"} /\ prepared[tx.intent] = tx
        /\ tx.intent \notin applied
    BY ExecuteAppends
<1>2. UNCHANGED <<fee, sent, proc, told, prepared>>
    BY DEF Execute
<1>3. Len(ledger') <= MaxNonce
    BY <1>1, ClientAssumption DEF Transactions
<1>4. TypeInv'
    BY <1>1, <1>2, <1>3 DEF Inv, TypeInv
<1>5. ProcInv' /\ RunnerInv' /\ SignedInv' /\ RecordInv'
    BY <1>2 DEF Inv, ProcInv, RunnerInv, SignedInv, RecordInv, Running, Tx
<1>6. \A n \in DOMAIN ledger' : n \in DOMAIN ledger \/ n = Len(ledger) + 1
    BY <1>1
<1>7. LedgerInv'
    BY <1>1, <1>6 DEF Inv, LedgerInv
<1>8. \A t \in sent : t.nonce <= Len(ledger) => t.nonce <= Len(ledger')
    BY <1>1, ClientAssumption DEF Inv, TypeInv, Transactions
<1>9. UnsentInv'
    <2>1. SUFFICES ASSUME NEW r \in Processes, Running(r),
                          proc[r].pc \in {"steps", "preverify", "propagate"}
                   PROVE  /\ \A t \in sent : t.intent = proc[r].intent => t.nonce <= Len(ledger')
                          /\ proc[r].intent \notin applied'
        BY <1>2 DEF UnsentInv, Dead, Running
    <2>2. Dead(proc[r].intent) /\ proc[r].intent \notin applied
        BY <2>1 DEF Inv, UnsentInv
    <2>3. proc[r].intent # tx.intent
        BY <1>1, <2>2 DEF Dead
    <2>4. proc[r].intent \notin applied'
        BY <1>1, <1>6, <2>2, <2>3 DEF applied
    <2>5. QED
        BY <1>8, <2>2, <2>4 DEF Dead
<1>10. LiveIsKnown'
    <2>1. \A t \in sent : t.nonce > Len(ledger') => t.nonce > Len(ledger)
        BY <1>1, ClientAssumption DEF Inv, TypeInv, Transactions
    <2>2. QED
        BY <1>2, <2>1 DEF Inv, LiveIsKnown
<1>11. AppliedInv'
    BY <1>1, <1>2, <1>6 DEF Inv, AppliedInv
<1>12. QED
    BY <1>4, <1>5, <1>7, <1>9, <1>10, <1>11 DEF Inv

LEMMA SetFeeKeeps ==
    ASSUME Inv, NEW f \in Fees, SetFee(f)
    PROVE  Inv'
BY DEF SetFee, Inv, TypeInv, ProcInv, LedgerInv, RunnerInv, SignedInv, UnsentInv, LiveIsKnown,
       AppliedInv, RecordInv, applied, Dead, Running, Tx

\* Only what is on record is looked up, and nobody runs what is unknown.
LEMMA ReconcileSettles ==
    ASSUME Inv, NEW i \in Intents, Reconcile(i)
    PROVE  \E ok \in BOOLEAN :
              /\ told[i] = "unknown"
              /\ told' = [told EXCEPT ![i] = IF ok THEN "success" ELSE "failure"]
              /\ UNCHANGED <<ledger, fee, sent, proc, prepared>>
              /\ Dead(i)
              /\ ok = TRUE => i \in applied
              /\ ok = FALSE => i \notin applied
<1>1. PICK ok \in BOOLEAN :
        /\ Executed(prepared[i], ok)
        /\ told' = [told EXCEPT ![i] = IF ok THEN "success" ELSE "failure"]
    BY DEF Reconcile
<1>2. told[i] = "unknown" /\ prepared[i].intent = i
    BY DEF Reconcile, Inv, RecordInv
<1>3. QED
    BY <1>1, <1>2, ExecutedSettles DEF Reconcile

LEMMA ReconcileKeeps ==
    ASSUME Inv, NEW i \in Intents, Reconcile(i)
    PROVE  Inv'
<1>1. PICK ok \in BOOLEAN :
        /\ told[i] = "unknown"
        /\ told' = [told EXCEPT ![i] = IF ok THEN "success" ELSE "failure"]
        /\ UNCHANGED <<ledger, fee, sent, proc, prepared>>
        /\ Dead(i)
        /\ ok = TRUE => i \in applied
        /\ ok = FALSE => i \notin applied
    BY ReconcileSettles
<1> DEFINE outcome == IF ok THEN "success" ELSE "failure"
<1>2. /\ outcome \in {"success", "failure"}
      /\ outcome = "failure" => i \notin applied
      /\ told' = [told EXCEPT ![i] = outcome]
    BY <1>1
<1> HIDE DEF outcome
<1>3. \A j \in Intents : told'[j] = IF j = i THEN outcome ELSE told[j]
    BY <1>2 DEF Inv, TypeInv
<1>4. TypeInv'
    BY <1>1, <1>2 DEF Inv, TypeInv
<1>5. ProcInv' /\ LedgerInv' /\ SignedInv'
    BY <1>1 DEF Inv, ProcInv, LedgerInv, SignedInv, Running, Tx
<1>6. UnsentInv'
    BY <1>1 DEF Inv, UnsentInv, Running, Dead, applied
<1>7. RunnerInv'
    <2>1. \A r \in Processes : Running(r) => proc[r].intent # i /\ proc[r].intent \in Intents
        BY <1>1, RunningFacts DEF Inv, RunnerInv, Invocations
    <2>2. QED
        BY <1>1, <1>3, <2>1 DEF Inv, RunnerInv, Running
<1>8. RecordInv'
    BY <1>1, <1>2, <1>3 DEF Inv, RecordInv
<1>9. LiveIsKnown'
    <2>1. SUFFICES ASSUME NEW tx \in sent, tx.nonce > Len(ledger)
                   PROVE  /\ told'[tx.intent] \in {"running", "unknown"}
                          /\ prepared[tx.intent] = tx
        BY <1>1 DEF LiveIsKnown
    <2>2. tx.intent \in Intents /\ ~(tx.nonce <= Len(ledger))
        BY <2>1, ClientAssumption, LenProperties DEF Inv, TypeInv, Transactions
    <2>3. tx.intent # i
        BY <1>1, <2>2 DEF Dead
    <2>4. QED
        BY <1>3, <2>1, <2>2, <2>3 DEF Inv, LiveIsKnown
<1>10. AppliedInv'
    <2>1. SUFFICES ASSUME NEW n \in DOMAIN ledger, ledger[n].ok
                   PROVE  /\ told'[ledger[n].tx.intent] \in {"running", "unknown", "success"}
                          /\ prepared[ledger[n].tx.intent] = ledger[n].tx
        BY <1>1 DEF AppliedInv
    <2>2. ledger[n] \in Entries
        BY LenProperties DEF Inv, TypeInv
    <2>3. ledger[n].tx.intent \in applied /\ ledger[n].tx.intent \in Intents
        BY <2>1, <2>2 DEF applied, Entries, Transactions
    <2>4. QED
        BY <1>2, <1>3, <2>1, <2>3 DEF Inv, AppliedInv
<1>11. QED
    BY <1>4, <1>5, <1>6, <1>7, <1>8, <1>9, <1>10 DEF Inv

-----------------------------------------------------------------------------
(* The theorems.                                                            *)

LEMMA InvInit == Init => Inv
<1> SUFFICES ASSUME Init PROVE Inv
    OBVIOUS
<1>1. ledger = <<>> /\ Len(ledger) = 0 /\ ledger \in Seq(Entries) /\ DOMAIN ledger = {}
    BY EmptySeq DEF Init
<1>2. \A p \in Processes : proc[p] = Idle /\ ~Running(p)
    BY DEF Init, Idle, Running
<1>3. TypeInv
    BY <1>1, ClientAssumption DEF Init, TypeInv
<1>4. ProcInv /\ RunnerInv /\ SignedInv /\ UnsentInv
    BY <1>2 DEF ProcInv, RunnerInv, SignedInv, UnsentInv
<1>5. LedgerInv /\ AppliedInv /\ LiveIsKnown /\ RecordInv
    BY <1>1 DEF Init, LedgerInv, AppliedInv, LiveIsKnown, RecordInv
<1>6. QED
    BY <1>3, <1>4, <1>5 DEF Inv

LEMMA InvStep == Inv /\ [Next]_vars => Inv'
<1> SUFFICES ASSUME Inv, [Next]_vars PROVE Inv'
    OBVIOUS
<1>1. CASE UNCHANGED vars
    BY <1>1 DEF vars, Inv, TypeInv, ProcInv, LedgerInv, RunnerInv, SignedInv, UnsentInv,
                LiveIsKnown, AppliedInv, RecordInv, applied, Dead, Running, Tx
<1>2. ASSUME NEW p \in Processes, ClientStep(p) PROVE Inv'
    BY <1>2, ParseArgumentsKeeps, QueryChainIdKeeps, LoadKeysKeeps, QueryQuoteKeeps,
       QueryAccountKeeps, RefuseKeeps, PreverifyKeeps, SendPropagateKeeps,
       PropagateAnsweredKeeps, QueryStatusKeeps DEF ClientStep
<1>3. QED
    BY <1>1, <1>2, StartKeeps, CrashKeeps, ExecuteKeeps, SetFeeKeeps, ReconcileKeeps DEF Next

LEMMA InvCorrect == Spec => []Inv
BY InvInit, InvStep, PTL DEF Spec

\* Processes, node and operator are always in a state the program knows.
THEOREM ClientTypeCorrect == Spec => []TypeOK
<1>1. ASSUME Inv PROVE TypeOK
    <2>1. ASSUME NEW p \in Processes, Running(p)
          PROVE  /\ proc[p].pc \in {"steps", "preverify", "propagate", "answer", "status"}
                 /\ proc[p].intent \in Intents
                 /\ proc[p].step \in DOMAIN CommandOf(proc[p].intent).steps
                 /\ proc[p].keys \in BOOLEAN /\ proc[p].observed \subseteq Chains
                 /\ proc[p].quoted \in 0..MaxAmount /\ proc[p].nonce \in 0..MaxNonce
                 /\ proc[p].rounds \in 0..Rounds
        BY <1>1, <2>1, RunningFacts DEF Inv, ProcInv, Invocations, Pcs
    <2>2. \A p \in Processes : Running(p) \/ proc[p] = Idle
        BY <1>1, RunningFacts DEF Inv
    <2>3. QED
        BY <1>1, <2>1, <2>2 DEF TypeOK, Inv, TypeInv, Entries
<1>2. QED
    BY <1>1, InvCorrect, PTL

\* A transaction that may still be executed is the one whose hash the operator
\* holds, and the operator has not been told to ask again.
THEOREM LiveIsKnownCorrect == Spec => []LiveIsKnown
<1>1. Inv => LiveIsKnown
    BY DEF Inv
<1>2. QED
    BY <1>1, InvCorrect, PTL

\* A step of a pinned command that is not the second of its steps.
LEMMA PinnedDone ==
    ASSUME Inv, PinnedInv, NEW p \in Processes, NEW step, AtStep(p, step),
           NEW c \in Invocations, Done(p, c), c.intent = proc[p].intent,
           c.step = proc[p].step, c.pc = "steps",
           CommandOf(c.intent).pinned =>
              /\ c.keys => c.observed = {Home}
              /\ c.step >= 2 => c.observed = {Home}
    PROVE  PinnedInv'
<1> DEFINE q == [c EXCEPT !.step = @ + 1]
<1>1. /\ q.intent = c.intent /\ q.step = c.step + 1 /\ q.pc = "steps" /\ q.keys = c.keys
      /\ q.observed = c.observed /\ c.step \in 1..5
    BY DEF Invocations
<1>2. proc' = [proc EXCEPT ![p] = q]
    BY DEF Done
<1> HIDE DEF q
<1>3. \A r \in Processes : proc'[r] = IF r = p THEN q ELSE proc[r]
    BY <1>2 DEF Inv, TypeInv
<1>4. q.step > 2 => c.step >= 2
    BY <1>1
<1>5. QED
    BY <1>1, <1>3, <1>4 DEF PinnedInv, Running

\* A process that ends, or that only its pc, nonce or rounds change of.
LEMMA PinnedOther ==
    ASSUME Inv, PinnedInv, NEW p \in Processes,
           \A r \in Processes \ {p} : proc'[r] = proc[r],
           \/ proc'[p].pc = "idle"
           \/ /\ Running(p) /\ proc'[p].pc # "steps"
              /\ proc'[p].intent = proc[p].intent
              /\ proc'[p].keys = proc[p].keys /\ proc'[p].observed = proc[p].observed
    PROVE  PinnedInv'
BY DEF PinnedInv, Running

LEMMA ReportEnds ==
    ASSUME Inv, NEW p \in Processes, NEW outcome, Report(p, outcome)
    PROVE  /\ \A r \in Processes \ {p} : proc'[r] = proc[r]
           /\ proc'[p].pc = "idle"
BY DEF Report, Idle, Inv, TypeInv

\* Where a chain is pinned the four steps are these, in this order.
LEMMA PinnedSteps ==
    ASSUME Inv, NEW p \in Processes, NEW step, AtStep(p, step),
           CommandOf(proc[p].intent).pinned
    PROVE  /\ step = "parse" => proc[p].step = 1
           /\ step = "chain" => proc[p].step = 2
           /\ step = "keys" => proc[p].step = 3
           /\ step # "quote"
<1>1. proc[p].pc = "steps"
    BY DEF AtStep
<1>2. /\ Running(p) /\ proc[p].intent \in Intents
      /\ proc[p].step \in DOMAIN CommandOf(proc[p].intent).steps
    BY <1>1, StepFacts DEF Inv, ProcInv
<1> DEFINE s == CommandOf(proc[p].intent).steps
<1>3. s = <<"parse", "chain", "keys", "account">>
    BY <1>2, CommandFacts
<1>4. s[proc[p].step] = step
    BY DEF AtStep
<1>5. proc[p].step \in 1..4
    BY <1>2, <1>3
<1> HIDE DEF s
<1>6. QED
    BY <1>3, <1>4, <1>5

LEMMA PinnedStep == Inv /\ PinnedInv /\ [Next]_vars => PinnedInv'
<1> SUFFICES ASSUME Inv, PinnedInv, [Next]_vars PROVE PinnedInv'
    OBVIOUS
<1>1. CASE UNCHANGED proc
    BY <1>1 DEF PinnedInv, Running
<1>2. ASSUME NEW p \in Processes, NEW i \in Intents, Start(p, i) PROVE PinnedInv'
    <2>1. \A r \in Processes : proc'[r] = IF r = p THEN Invocation(i) ELSE proc[r]
        BY <1>2 DEF Start, Inv, TypeInv
    <2>2. Invocation(i).keys = FALSE /\ Invocation(i).step = 1
        BY DEF Invocation
    <2>3. QED
        BY <2>1, <2>2 DEF PinnedInv, Running
<1>3. ASSUME NEW p \in Processes, ParseArguments(p) PROVE PinnedInv'
    <2>1. AtStep(p, "parse") /\ Done(p, proc[p]) /\ proc[p].pc = "steps"
        BY <1>3 DEF ParseArguments, AtStep
    <2>2. proc[p] \in Invocations /\ Running(p)
        BY <2>1, StepFacts
    <2>3. CommandOf(proc[p].intent).pinned => proc[p].step = 1
        BY <2>1, PinnedSteps
    <2>4. QED
        BY <2>1, <2>2, <2>3, PinnedDone DEF PinnedInv
<1>4. ASSUME NEW p \in Processes, Refuse(p) PROVE PinnedInv'
    BY <1>4, ReportEnds, PinnedOther DEF Refuse
<1>5. ASSUME NEW p \in Processes, QueryChainId(p) PROVE PinnedInv'
    <2>1. PICK observed \in Chains :
            IF observed = Home
            THEN Done(p, [proc[p] EXCEPT !.observed = {observed}])
            ELSE Refuse(p)
        BY <1>5, ClientAssumption DEF QueryChainId
    <2>2. CASE observed # Home
        BY <1>4, <2>1, <2>2
    <2>3. CASE observed = Home
        <3> DEFINE c == [proc[p] EXCEPT !.observed = {observed}]
        <3>1. AtStep(p, "chain") /\ Done(p, c) /\ proc[p].pc = "steps"
            BY <1>5, <2>1, <2>3 DEF QueryChainId, AtStep
        <3>2. proc[p] \in Invocations /\ Running(p)
            BY <3>1, StepFacts
        <3>3. /\ c \in Invocations /\ c.intent = proc[p].intent /\ c.step = proc[p].step
              /\ c.pc = "steps" /\ c.observed = {Home}
            BY <2>3, <3>1, <3>2 DEF Invocations
        <3> HIDE DEF c
        <3>4. QED
            BY <3>1, <3>3, PinnedDone
    <2>4. QED
        BY <2>2, <2>3
<1>6. ASSUME NEW p \in Processes, LoadKeys(p) PROVE PinnedInv'
    <2> DEFINE c == [proc[p] EXCEPT !.keys = TRUE]
    <2>1. AtStep(p, "keys") /\ Done(p, c) /\ proc[p].pc = "steps"
        BY <1>6 DEF LoadKeys, AtStep
    <2>2. proc[p] \in Invocations /\ Running(p)
        BY <2>1, StepFacts
    <2>3. CommandOf(proc[p].intent).pinned => proc[p].step = 3
        BY <2>1, PinnedSteps
    <2>4. /\ c \in Invocations /\ c.intent = proc[p].intent /\ c.step = proc[p].step
          /\ c.pc = "steps" /\ c.observed = proc[p].observed
        BY <2>1, <2>2 DEF Invocations
    <2> HIDE DEF c
    <2>5. CommandOf(c.intent).pinned => c.observed = {Home}
        BY <2>1, <2>2, <2>3, <2>4 DEF PinnedInv
    <2>6. QED
        BY <2>1, <2>4, <2>5, PinnedDone
<1>7. ASSUME NEW p \in Processes, QueryQuote(p) PROVE PinnedInv'
    <2> DEFINE c == [proc[p] EXCEPT !.quoted = fee]
    <2>1. AtStep(p, "quote") /\ Done(p, c) /\ proc[p].pc = "steps"
        BY <1>7 DEF QueryQuote, AtStep
    <2>2. proc[p] \in Invocations /\ Running(p)
        BY <2>1, StepFacts
    <2>3. ~CommandOf(proc[p].intent).pinned
        BY <2>1, PinnedSteps
    <2>4. fee \in 0..MaxAmount
        BY ClientAssumption DEF Inv, TypeInv
    <2>5. /\ c \in Invocations /\ c.intent = proc[p].intent /\ c.step = proc[p].step
          /\ c.pc = "steps"
        BY <2>1, <2>2, <2>4 DEF Invocations
    <2> HIDE DEF c
    <2>6. QED
        BY <2>1, <2>3, <2>5, PinnedDone
<1>8. ASSUME NEW p \in Processes, Running(p), NEW q, proc' = [proc EXCEPT ![p] = q],
             q.pc # "steps", q.intent = proc[p].intent, q.keys = proc[p].keys,
             q.observed = proc[p].observed
      PROVE  PinnedInv'
    <2>1. \A r \in Processes : proc'[r] = IF r = p THEN q ELSE proc[r]
        BY <1>8 DEF Inv, TypeInv
    <2>2. QED
        BY <1>8, <2>1, PinnedOther
<1>9. ASSUME NEW p \in Processes, QueryAccount(p) PROVE PinnedInv'
    <2> DEFINE q == [proc[p] EXCEPT !.nonce = Len(ledger) + 1, !.pc = "preverify"]
    <2>1. proc[p].pc = "steps" /\ proc' = [proc EXCEPT ![p] = q]
        BY <1>9 DEF QueryAccount, AtStep
    <2>2. Running(p) /\ proc[p] \in Invocations
        BY <2>1, StepFacts
    <2>3. /\ q.pc # "steps" /\ q.intent = proc[p].intent /\ q.keys = proc[p].keys
          /\ q.observed = proc[p].observed
        BY <2>2 DEF Invocations
    <2> HIDE DEF q
    <2>4. QED
        BY <1>8, <2>1, <2>2, <2>3
<1>10. ASSUME NEW p \in Processes, Running(p), proc[p].pc # "steps",
              NEW pc, pc # "steps", NEW rounds,
              proc' = [proc EXCEPT ![p] = [proc[p] EXCEPT !.pc = pc, !.rounds = rounds]]
       PROVE  PinnedInv'
    <2> DEFINE q == [proc[p] EXCEPT !.pc = pc, !.rounds = rounds]
    <2>1. proc[p] \in Invocations
        BY <1>10, RunningFacts DEF Inv
    <2>2. /\ q.pc # "steps" /\ q.intent = proc[p].intent /\ q.keys = proc[p].keys
          /\ q.observed = proc[p].observed
        BY <1>10, <2>1 DEF Invocations
    <2>3. proc' = [proc EXCEPT ![p] = q]
        BY <1>10
    <2> HIDE DEF q
    <2>4. QED
        BY <1>8, <1>10, <2>2, <2>3
<1>11. ASSUME NEW p \in Processes, Preverify(p) \/ SendPropagate(p) \/ PropagateAnswered(p)
       PROVE  PinnedInv'
    <2>1. Running(p) /\ proc[p].pc # "steps" /\ proc[p] \in Invocations
        BY <1>11, RunningFacts DEF Preverify, SendPropagate, PropagateAnswered, Running, Inv
    <2>2. CASE \E outcome : Report(p, outcome)
        BY <2>2, ReportEnds, PinnedOther
    <2>3. CASE \E pc \in {"propagate", "answer"} : proc' = [proc EXCEPT ![p].pc = pc]
        <3>1. PICK pc \in {"propagate", "answer"} : proc' = [proc EXCEPT ![p].pc = pc]
            BY <2>3
        <3> DEFINE q == [proc[p] EXCEPT !.pc = pc]
        <3>2. /\ q.pc # "steps" /\ q.intent = proc[p].intent /\ q.keys = proc[p].keys
              /\ q.observed = proc[p].observed
            BY <2>1 DEF Invocations
        <3>3. proc' = [proc EXCEPT ![p] = q]
            BY <3>1
        <3> HIDE DEF q
        <3>4. QED
            BY <1>8, <2>1, <3>2, <3>3
    <2>4. CASE proc' = [proc EXCEPT ![p].pc = "status", ![p].rounds = Rounds]
        <3>1. proc' = [proc EXCEPT ![p] = [proc[p] EXCEPT !.pc = "status", !.rounds = Rounds]]
            BY <2>4 DEF Inv, TypeInv
        <3>2. QED
            BY <1>10, <2>1, <3>1
    <2>5. QED
        BY <1>11, <2>2, <2>3, <2>4 DEF Preverify, SendPropagate, PropagateAnswered
<1>12. ASSUME NEW p \in Processes, QueryStatus(p) PROVE PinnedInv'
    <2>1. Running(p) /\ proc[p].pc = "status" /\ proc[p] \in Invocations
        BY <1>12, QueryStatusReports
    <2>2. CASE \E outcome : Report(p, outcome)
        BY <2>2, ReportEnds, PinnedOther
    <2>3. CASE proc' = [proc EXCEPT ![p].rounds = @ - 1]
        <3> DEFINE q == [proc[p] EXCEPT !.rounds = @ - 1]
        <3>1. /\ q.pc # "steps" /\ q.intent = proc[p].intent /\ q.keys = proc[p].keys
              /\ q.observed = proc[p].observed
            BY <2>1 DEF Invocations
        <3>2. proc' = [proc EXCEPT ![p] = q]
            BY <2>3
        <3> HIDE DEF q
        <3>3. QED
            BY <1>8, <2>1, <3>1, <3>2
    <2>4. QED
        BY <1>12, <2>2, <2>3, QueryStatusReports
<1>13. ASSUME NEW p \in Processes, Crash(p) PROVE PinnedInv'
    BY <1>13, ReportEnds, PinnedOther DEF Crash
<1>14. ASSUME NEW p \in Processes, ClientStep(p) PROVE PinnedInv'
    BY <1>3, <1>4, <1>5, <1>6, <1>7, <1>9, <1>11, <1>12, <1>14 DEF ClientStep
<1>15. QED
    BY <1>1, <1>2, <1>13, <1>14 DEF Next, Execute, SetFee, Reconcile, vars

\* With a pinned chain no key is read before the endpoint is seen to serve it,
\* however many processes there are and whatever they run.
THEOREM KeysForPinnedChainCorrect == Spec => []KeysForPinnedChain
<1>1. Init => PinnedInv
    BY DEF Init, PinnedInv, Running, Idle
<1>2. PinnedInv => KeysForPinnedChain
    BY DEF PinnedInv, KeysForPinnedChain
<1>3. QED
    BY <1>1, <1>2, PinnedStep, InvCorrect, PTL DEF Spec

-----------------------------------------------------------------------------
(* The promise.  The client's steps are the promise's, or none of them.      *)

LEMMA ReportIsTold ==
    ASSUME Inv, NEW p \in Processes, Running(p),
           NEW outcome \in {"unknown", "success", "failure"}, Report(p, outcome),
           UNCHANGED <<chain, sent, prepared>>,
           outcome = "success" => proc[p].intent \in applied,
           outcome = "failure" => proc[p].intent \notin applied
    PROVE  Promise!Next
<1> DEFINE i == proc[p].intent
<1>1. i \in Intents /\ told[i] = "running"
    BY RunningFacts DEF Inv, RunnerInv, Invocations
<1>2. UNCHANGED applied /\ told' = [told EXCEPT ![i] = outcome]
    BY DEF applied, Report
<1>3. Promise!TellSuccess(i) \/ Promise!TellFailure(i) \/ Promise!TellUnknown(i)
    BY <1>1, <1>2 DEF Promise!TellSuccess, Promise!TellFailure, Promise!TellUnknown,
                      Promise!Open, Promise!Tell
<1>4. QED
    BY <1>1, <1>3 DEF Promise!Next

\* An invocation that goes on tells nothing and does nothing on chain.
LEMMA SilentStutters ==
    ASSUME UNCHANGED <<ledger, told>>
    PROVE  UNCHANGED Promise!vars
BY DEF Promise!vars, applied

LEMMA ClientStepPromised ==
    ASSUME Inv, NEW p \in Processes, ClientStep(p) \/ Crash(p)
    PROVE  Promise!Next \/ UNCHANGED Promise!vars
<1>1. CASE ParseArguments(p) \/ LoadKeys(p) \/ QueryQuote(p) \/ QueryAccount(p)
           \/ SendPropagate(p)
    BY <1>1, SilentStutters
    DEF ParseArguments, LoadKeys, QueryQuote, QueryAccount, SendPropagate
<1>2. CASE Refuse(p)
    <2>1. proc[p].pc = "steps" /\ Report(p, "failure")
        BY <1>2 DEF Refuse
    <2>2. Running(p) /\ proc[p].intent \notin applied
        BY <2>1, StepFacts DEF Inv, UnsentInv
    <2>3. QED
        BY <1>2, <2>1, <2>2, ReportIsTold DEF Refuse
<1>3. CASE QueryChainId(p)
    <2>1. Refuse(p) \/ UNCHANGED <<ledger, told>>
        BY <1>3 DEF QueryChainId
    <2>2. QED
        BY <1>2, <2>1, SilentStutters
<1>4. CASE Preverify(p)
    <2>1. Running(p) /\ proc[p].intent \notin applied
        BY <1>4 DEF Preverify, Running, Inv, UnsentInv
    <2>2. UNCHANGED <<ledger, told>> \/ (Report(p, "failure") /\ UNCHANGED <<chain, sent, prepared>>)
        BY <1>4 DEF Preverify
    <2>3. QED
        BY <2>1, <2>2, SilentStutters, ReportIsTold
<1>5. CASE PropagateAnswered(p)
    <2>1. Running(p)
        BY <1>5 DEF PropagateAnswered, Running
    <2>2. UNCHANGED <<ledger, told>> \/ (Report(p, "unknown") /\ UNCHANGED <<chain, sent, prepared>>)
        BY <1>5 DEF PropagateAnswered
    <2>3. QED
        BY <2>1, <2>2, SilentStutters, ReportIsTold
<1>6. CASE QueryStatus(p)
    <2>1. CASE UNCHANGED told
        BY <1>6, <2>1, QueryStatusReports, SilentStutters
    <2>2. CASE ~UNCHANGED told
        BY <1>6, <2>2, QueryStatusReports, ReportIsTold
    <2>3. QED
        BY <2>1, <2>2
<1>7. CASE Crash(p)
    <2>1. CASE proc[p].pc = "steps"
        <3>1. Running(p) /\ proc[p].intent \notin applied /\ Report(p, "failure")
            BY <1>7, <2>1, StepFacts DEF Inv, UnsentInv, Crash
        <3>2. QED
            BY <1>7, <3>1, ReportIsTold DEF Crash
    <2>2. CASE proc[p].pc # "steps"
        BY <1>7, <2>2, ReportIsTold DEF Crash
    <2>3. QED
        BY <2>1, <2>2
<1>8. QED
    BY <1>1, <1>2, <1>3, <1>4, <1>5, <1>6, <1>7 DEF ClientStep

LEMMA ExecutePromised ==
    ASSUME Inv, NEW tx \in sent, Execute(tx)
    PROVE  Promise!Next \/ UNCHANGED Promise!vars
<1>1. PICK ok \in BOOLEAN :
        /\ tx \in Transactions
        /\ Len(ledger) \in Nat
        /\ DOMAIN ledger = 1..Len(ledger)
        /\ DOMAIN ledger' = 1..(Len(ledger) + 1)
        /\ \A n \in 1..Len(ledger) : ledger'[n] = ledger[n]
        /\ ledger'[Len(ledger) + 1] = [tx |-> tx, ok |-> ok]
        /\ told[tx.intent] \in {"running", "unknown"}
        /\ tx.intent \notin applied
    BY ExecuteAppends
<1>2. /\ \A n \in DOMAIN ledger : n \in DOMAIN ledger' /\ ledger'[n] = ledger[n]
      /\ \A n \in DOMAIN ledger' : n \in DOMAIN ledger \/ n = Len(ledger) + 1
      /\ Len(ledger) + 1 \in DOMAIN ledger'
    BY <1>1
<1>3. UNCHANGED told
    BY DEF Execute
<1>4. tx.intent \in Intents
    BY <1>1 DEF Transactions
<1>5. CASE ok = TRUE
    <2>1. ledger'[Len(ledger) + 1].ok /\ ledger'[Len(ledger) + 1].tx.intent = tx.intent
        BY <1>1, <1>5
    <2>2. \A i \in Intents : i \in applied' <=> i \in applied \/ i = tx.intent
        BY <1>2, <2>1 DEF applied
    <2>3. applied' = applied \cup {tx.intent}
        BY <1>4, <2>2 DEF applied
    <2>4. Promise!Apply(tx.intent)
        BY <1>1, <1>3, <2>3 DEF Promise!Apply, Promise!Open
    <2>5. QED
        BY <1>4, <2>4 DEF Promise!Next
<1>6. CASE ok = FALSE
    <2>1. ~ledger'[Len(ledger) + 1].ok
        BY <1>1, <1>6
    <2>2. applied' = applied
        BY <1>2, <2>1 DEF applied
    <2>3. QED
        BY <1>3, <2>2 DEF Promise!vars
<1>7. QED
    BY <1>5, <1>6

\* The client keeps what it promises for any number of processes that share a
\* key, whatever is lost, refused, late or killed: no intent happens twice,
\* success and failure are never claimed wrongly.
THEOREM PromiseCorrect == Spec => PromiseKept
<1>1. Init => Promise!Init
    <2>1. SUFFICES ASSUME Init PROVE applied = {} /\ told = [i \in Intents |-> "new"]
        BY DEF Promise!Init
    <2>2. DOMAIN ledger = {}
        BY <2>1 DEF Init
    <2>3. QED
        BY <2>1, <2>2 DEF Init, applied
<1>2. Inv /\ [Next]_vars => [Promise!Next]_(Promise!vars)
    <2> SUFFICES ASSUME Inv, [Next]_vars PROVE Promise!Next \/ UNCHANGED Promise!vars
        OBVIOUS
    <2>1. CASE UNCHANGED vars
        BY <2>1, SilentStutters DEF vars
    <2>2. ASSUME NEW p \in Processes, NEW i \in Intents, Start(p, i)
          PROVE  Promise!Next
        <3>1. Promise!Ask(i)
            BY <2>2 DEF Start, Promise!Ask, Promise!Tell, applied
        <3>2. QED
            BY <3>1 DEF Promise!Next
    <2>3. ASSUME NEW i \in Intents, Reconcile(i)
          PROVE  Promise!Next
        <3>1. PICK ok \in BOOLEAN :
                /\ told[i] = "unknown"
                /\ told' = [told EXCEPT ![i] = IF ok THEN "success" ELSE "failure"]
                /\ UNCHANGED ledger
                /\ ok = TRUE => i \in applied
                /\ ok = FALSE => i \notin applied
            BY <2>3, ReconcileSettles
        <3>2. UNCHANGED applied
            BY <3>1 DEF applied
        <3>3. Promise!TellSuccess(i) \/ Promise!TellFailure(i)
            BY <3>1, <3>2 DEF Promise!TellSuccess, Promise!TellFailure, Promise!Open, Promise!Tell
        <3>4. QED
            BY <3>3 DEF Promise!Next
    <2>4. ASSUME NEW f \in Fees, SetFee(f)
          PROVE  UNCHANGED Promise!vars
        BY <2>4, SilentStutters DEF SetFee
    <2>5. QED
        BY <2>1, <2>2, <2>3, <2>4, ClientStepPromised, ExecutePromised DEF Next
<1>3. QED
    BY <1>1, <1>2, InvCorrect, PTL DEF Spec, PromiseKept, Promise!Spec


-----------------------------------------------------------------------------
(* deploy-hyperlane: the lists of contracts.                                *)

\* s lists the contracts of T, n in all, each once.
Lists(s, n, T) ==
    /\ s \in Seq(Contracts) /\ Len(s) = n
    /\ ToSet(s) = T
    /\ \A i, j \in 1..n : s[i] = s[j] => i = j

LEMMA ListsJoin ==
    ASSUME NEW s, NEW t, NEW m, NEW n, NEW T, NEW U,
           Lists(s, m, T), Lists(t, n, U), T \cap U = {}
    PROVE  Lists(s \o t, m + n, T \cup U)
<1> DEFINE st == s \o t
<1>1. s \in Seq(Contracts) /\ t \in Seq(Contracts) /\ Len(s) = m /\ Len(t) = n
      /\ m \in Nat /\ n \in Nat
    BY DEF Lists
<1>2. st \in Seq(Contracts) /\ Len(st) = m + n /\ DOMAIN st = 1..(m + n)
    BY <1>1
<1>3. \A i \in 1..m : st[i] = s[i] /\ s[i] \in T
    BY <1>1 DEF Lists, ToSet
<1>4. \A i \in 1..n : st[m + i] = t[i] /\ t[i] \in U
    BY <1>1 DEF Lists, ToSet
<1>5. \A i \in 1..(m + n) : i \in 1..m \/ (i - m \in 1..n /\ i = m + (i - m))
    BY <1>1
<1>6. \A i \in 1..n : m + i \in 1..(m + n)
    BY <1>1
<1>7. \A i \in 1..m : i \in 1..(m + n)
    BY <1>1
<1>8. DOMAIN s = 1..m /\ DOMAIN t = 1..n
    BY <1>1
<1> HIDE DEF st
<1>11. ASSUME NEW i \in 1..(m + n), i - m \in 1..n PROVE st[i] = t[i - m] /\ st[i] \in U
    <2> DEFINE k == i - m
    <2>1. i = m + k /\ k \in 1..n
        BY <1>1, <1>11
    <2> HIDE DEF k
    <2>2. st[i] = t[k] /\ t[k] \in U
        BY <2>1, <1>4
    <2> QED
        BY <2>2 DEF k
<1>9. ToSet(st) = T \cup U
    <2>1. T = {s[i] : i \in 1..m} /\ U = {t[i] : i \in 1..n} /\ ToSet(st) = {st[i] : i \in 1..(m + n)}
        BY <1>2, <1>8 DEF Lists, ToSet
    <2>2. ToSet(st) \subseteq T \cup U
        BY <2>1, <1>3, <1>4, <1>5
    <2>3. T \cup U \subseteq ToSet(st)
        BY <2>1, <1>3, <1>4, <1>6, <1>7
    <2> QED
        BY <2>2, <2>3
<1>10. ASSUME NEW i \in 1..(m + n), NEW j \in 1..(m + n), st[i] = st[j] PROVE i = j
    <2>1. CASE i \in 1..m /\ j \in 1..m
        BY <2>1, <1>3, <1>10, <1>1 DEF Lists
    <2>2. CASE i - m \in 1..n /\ j - m \in 1..n
        <3>1. st[i] = t[i - m] /\ st[j] = t[j - m]
            BY <2>2, <1>11
        <3>2. i - m = j - m
            BY <2>2, <3>1, <1>10 DEF Lists
        <3> QED
            BY <3>2, <1>1
    <2>3. CASE i \in 1..m /\ j - m \in 1..n
        <3>1. st[i] \in T /\ st[j] \in U
            BY <2>3, <1>3, <1>11
        <3> QED
            BY <3>1, <1>10
    <2>4. CASE j \in 1..m /\ i - m \in 1..n
        <3>1. st[j] \in T /\ st[i] \in U
            BY <2>4, <1>3, <1>11
        <3> QED
            BY <3>1, <1>10
    <2> QED
        BY <2>1, <2>2, <2>3, <2>4, <1>5
<1> QED
    BY <1>2, <1>9, <1>10 DEF Lists, st

Chosen(chosen, name) == IF chosen THEN {name} ELSE {}
OneIf(chosen) == IF chosen THEN 1 ELSE 0

LEMMA OptionLists ==
    ASSUME NEW b \in BOOLEAN, NEW name \in Contracts
    PROVE  Lists(Option(b, name), OneIf(b), Chosen(b, name))
BY DEF Lists, Option, OneIf, Chosen, ToSet

LEMMA First ==
    Lists(<<"TestMock", "TestRecipient", "MerkleTreeHook">>, 3,
          {"TestMock", "TestRecipient", "MerkleTreeHook"})
BY DEF Lists, ToSet, Contracts

LEMMA Middle ==
    Lists(<<"ProtocolFee", "AggregationHook", "Mailbox", "ValidatorAnnounce", "IGP">>, 5,
          {"ProtocolFee", "AggregationHook", "Mailbox", "ValidatorAnnounce", "IGP"})
BY DEF Lists, ToSet, Contracts

LEMMA MiddleChecked ==
    Lists(<<"Mailbox", "ValidatorAnnounce", "ProtocolFee", "AggregationHook", "IGP">>, 5,
          {"ProtocolFee", "AggregationHook", "Mailbox", "ValidatorAnnounce", "IGP"})
BY DEF Lists, ToSet, Contracts

LEMMA RankedIsSorted ==
    ASSUME NEW s \in Seq(Nat), IsInjective(s)
    PROVE  /\ Sorted(s) \in [DOMAIN s -> ToSet(s)]
           /\ \A i, j \in DOMAIN s : i < j => Sorted(s)[i] < Sorted(s)[j]
<1> DEFINE n == Len(s)
           S == ToSet(s)
<1>1. n \in Nat /\ DOMAIN s = 1..n /\ S \subseteq Nat
    BY DEF ToSet
<1>2. IsFiniteSet(S) /\ Cardinality(S) = n
    <2>1. ExistsBijection(1..n, S)
        <3>1. s \in [1..n -> S] /\ \A y \in S : \E i \in 1..n : s[i] = y
            BY <1>1 DEF ToSet
        <3>2. \A i, j \in 1..n : s[i] = s[j] => i = j
            BY <1>1 DEF IsInjective
        <3> QED
            BY <3>1, <3>2, Fun_IsBij DEF ExistsBijection
    <2>2. IsFiniteSet(1..n) /\ Cardinality(1..n) = n
        BY <1>1, FS_Interval
    <2> QED
        BY <2>1, <2>2, FS_Bijection
<1> DEFINE Below(x) == {y \in S : y <= x}
           rank == [x \in S |-> Cardinality(Below(x))]
<1> HIDE DEF S, n
<1>3. \A x \in S : Below(x) \in SUBSET S /\ x \in Below(x)
    BY <1>1
<1>4. \A x \in S : IsFiniteSet(Below(x)) /\ Cardinality(Below(x)) \in 1..n
    <2> SUFFICES ASSUME NEW x \in S
                 PROVE  IsFiniteSet(Below(x)) /\ Cardinality(Below(x)) \in 1..n
        OBVIOUS
    <2>1. IsFiniteSet(Below(x)) /\ Cardinality(Below(x)) <= n
        BY <1>2, <1>3, FS_Subset
    <2>2. Cardinality(Below(x)) \in Nat
        BY <2>1, FS_CardinalityType
    <2>3. Cardinality(Below(x)) # 0
        BY <2>1, <1>3, FS_EmptySet
    <2> QED
        BY <1>1, <2>1, <2>2, <2>3
<1>5. ASSUME NEW x \in S, NEW y \in S, x < y PROVE rank[x] < rank[y]
    <2>1. Below(x) \in SUBSET Below(y) /\ y \notin Below(x) /\ y \in Below(y)
        <3>1. x \in Nat /\ y \in Nat
            BY <1>1
        <3>2. \A z \in S : z \in Nat /\ (z <= x => z <= y)
            BY <1>1, <1>5, <3>1
        <3>3. ~(y <= x) /\ y <= y
            BY <1>5, <3>1
        <3> QED
            BY <3>2, <3>3
    <2>2. Cardinality(Below(x)) <= Cardinality(Below(y))
          /\ Cardinality(Below(x)) # Cardinality(Below(y))
        BY <2>1, <1>4, FS_Subset
    <2>3. Cardinality(Below(x)) \in Nat /\ Cardinality(Below(y)) \in Nat
        BY <1>4, FS_CardinalityType
    <2> HIDE DEF Below
    <2> QED
        BY <2>2, <2>3
<1>6. rank \in [S -> 1..n]
    BY <1>4
<1> HIDE DEF rank
<1>7. \A x, y \in S : rank[x] = rank[y] => x = y
    <2> SUFFICES ASSUME NEW x \in S, NEW y \in S, rank[x] = rank[y], x # y PROVE FALSE
        OBVIOUS
    <2>1. x < y \/ y < x
        BY <1>1
    <2>2. rank[x] \in Nat
        BY <1>1, <1>6
    <2> QED
        BY <1>5, <2>1, <2>2
<1>8. rank \in Surjection(S, 1..n)
    <2>1. rank \in Injection(S, 1..n)
        BY <1>6, <1>7, Fun_IsInj
    <2>2. IsFiniteSet(1..n) /\ Cardinality(1..n) = n
        BY <1>1, FS_Interval
    <2> QED
        BY <1>2, <2>1, <2>2, FS_Injection
<1>9. \A i \in 1..n : \E x \in S : rank[x] = i
    BY <1>8, Fun_SurjectionProperties
<1> DEFINE t == [i \in 1..n |-> CHOOSE x \in S : rank[x] = i]
<1>10. \A i \in 1..n : t[i] \in S /\ rank[t[i]] = i
    BY <1>9
<1>11. t \in [1..n -> S]
    BY <1>10
<1> HIDE DEF t
<1>12. \A i, j \in 1..n : i < j => t[i] < t[j]
    <2> SUFFICES ASSUME NEW i \in 1..n, NEW j \in 1..n, i < j, ~(t[i] < t[j]) PROVE FALSE
        OBVIOUS
    <2>1. t[i] \in Nat /\ t[j] \in Nat /\ i \in Nat /\ j \in Nat
        <3>1. t[i] \in S /\ t[j] \in S
            BY <1>10
        <3>2. t[i] \in Nat /\ t[j] \in Nat
            BY <1>1, <3>1
        <3>3. i \in Nat /\ j \in Nat
            BY <1>1
        <3> QED
            BY <3>2, <3>3
    <2>2. t[j] < t[i] \/ t[j] = t[i]
        BY <2>1
    <2>3. rank[t[i]] = i /\ rank[t[j]] = j
        BY <1>10
    <2>4. t[j] < t[i] => j < i
        BY <1>5, <1>10, <2>3
    <2> QED
        BY <2>1, <2>2, <2>3, <2>4
<1>13. \E u \in [DOMAIN s -> ToSet(s)] : \A i, j \in DOMAIN s : i < j => u[i] < u[j]
    BY <1>1, <1>11, <1>12 DEF S
<1> QED
    BY <1>13 DEF Sorted

\* Sorting keeps the length and the members.
LEMMA SortedKeeps ==
    ASSUME NEW s \in Seq(Nat), IsInjective(s)
    PROVE  /\ Sorted(s) \in Seq(Nat)
           /\ Len(Sorted(s)) = Len(s)
           /\ ToSet(Sorted(s)) = ToSet(s)
           /\ \A i \in 2..Len(s) : Sorted(s)[i - 1] < Sorted(s)[i]
<1> DEFINE n == Len(s)
           S == ToSet(s)
           t == Sorted(s)
<1>1. n \in Nat /\ DOMAIN s = 1..n /\ S \subseteq Nat
    BY DEF ToSet
<1>2. t \in [1..n -> S] /\ \A i, j \in 1..n : i < j => t[i] < t[j]
    BY <1>1, RankedIsSorted
<1> HIDE DEF t
<1>3. t \in Seq(Nat) /\ Len(t) = n /\ DOMAIN t = 1..n
    BY <1>1, <1>2
<1>4. IsFiniteSet(1..n) /\ Cardinality(1..n) = n
    BY <1>1, FS_Interval
<1>5. IsFiniteSet(S) /\ Cardinality(S) = n
    <2>1. ExistsBijection(1..n, S)
        <3>1. s \in [1..n -> S] /\ \A y \in S : \E i \in 1..n : s[i] = y
            BY <1>1 DEF ToSet
        <3>2. \A i, j \in 1..n : s[i] = s[j] => i = j
            BY <1>1 DEF IsInjective
        <3> QED
            BY <3>1, <3>2, Fun_IsBij DEF ExistsBijection
    <2> QED
        BY <2>1, <1>4, FS_Bijection
<1>6. t \in Injection(1..n, S)
    <2>1. \A i, j \in 1..n : t[i] = t[j] => i = j
        <3> SUFFICES ASSUME NEW i \in 1..n, NEW j \in 1..n, t[i] = t[j], i # j PROVE FALSE
            OBVIOUS
        <3>1. t[i] \in Nat /\ t[j] \in Nat
            BY <1>1, <1>2
        <3>2. i < j \/ j < i
            OBVIOUS
        <3> QED
            BY <3>1, <3>2, <1>2
    <2> QED
        BY <2>1, <1>2, Fun_IsInj
<1>7. t \in Surjection(1..n, S)
    BY <1>4, <1>5, <1>6, FS_Injection
<1>8. ToSet(t) = S
    <2>1. \A y \in S : \E i \in 1..n : t[i] = y
        BY <1>7, Fun_SurjectionProperties
    <2> QED
        BY <1>2, <1>3, <2>1 DEF ToSet
<1>9. \A i \in 2..n : i - 1 \in 1..n /\ i \in 1..n /\ i - 1 < i
    BY <1>1
<1> QED
    BY <1>2, <1>3, <1>8, <1>9 DEF t


\* The contracts a run deploys.
Names(o) ==
    {"TestMock", "TestRecipient", "MerkleTreeHook"}
    \cup Chosen(o.default_ism = "messageIdMultisig", "IsmMultisig")
    \cup {"ProtocolFee", "AggregationHook", "Mailbox", "ValidatorAnnounce", "IGP"}
    \cup Chosen(o.warp_drc20, "WarpDrc20")
    \cup Chosen(o.warp_native, "WarpNative")
    \cup Chosen(o.warp_collateral # "none", "WarpCollateral")

Count(o) ==
    3 + OneIf(o.default_ism = "messageIdMultisig") + 5
    + (OneIf(o.warp_drc20) + OneIf(o.warp_native) + OneIf(o.warp_collateral # "none"))

RouteNames(o) ==
    Chosen(o.warp_drc20, "WarpDrc20")
    \cup Chosen(o.warp_native, "WarpNative")
    \cup Chosen(o.warp_collateral # "none", "WarpCollateral")

GasArguments == [domain : Nat, config : DomainGasConfig]

LEMMA OptionTypes ==
    ASSUME NEW r \in Requests
    PROVE  /\ options[r].domain \in Nat
           /\ options[r].warp_drc20 \in BOOLEAN /\ options[r].warp_native \in BOOLEAN
           /\ options[r].default_ism \in {"testMock", "messageIdMultisig"}
           /\ options[r].multisig_validators \in Seq(Nat)
           /\ options[r].igp_domain_configs \in Seq(GasArguments)
           /\ options[r].multisig_threshold \in Nat
           /\ options[r].token \in ContractIds
           /\ options[r].build \in [Contracts -> Nat]
           /\ options[r].warp_collateral \in {"none", "warp-drc20", "explicit"}
BY DeployAssumption DEF GasArguments

LEMMA RoutesListed ==
    ASSUME NEW r \in Requests
    PROVE  LET o == options[r]
           IN  Lists(Routes(o), OneIf(o.warp_drc20) + OneIf(o.warp_native)
                                + OneIf(o.warp_collateral # "none"), RouteNames(o))
<1> DEFINE o == options[r]
<1>1. o.warp_drc20 \in BOOLEAN /\ o.warp_native \in BOOLEAN
    BY OptionTypes
<1> HIDE DEF o
<1>2. Lists(Option(o.warp_drc20, "WarpDrc20"), OneIf(o.warp_drc20),
            Chosen(o.warp_drc20, "WarpDrc20"))
    BY <1>1, OptionLists DEF Contracts
<1>3. Lists(Option(o.warp_native, "WarpNative"), OneIf(o.warp_native),
            Chosen(o.warp_native, "WarpNative"))
    BY <1>1, OptionLists DEF Contracts
<1>4. Lists(Option(o.warp_collateral # "none", "WarpCollateral"),
            OneIf(o.warp_collateral # "none"), Chosen(o.warp_collateral # "none", "WarpCollateral"))
    BY OptionLists DEF Contracts
<1>5. Chosen(o.warp_drc20, "WarpDrc20") \cap Chosen(o.warp_native, "WarpNative") = {}
    BY DEF Chosen
<1>6. Lists(Option(o.warp_drc20, "WarpDrc20") \o Option(o.warp_native, "WarpNative"),
            OneIf(o.warp_drc20) + OneIf(o.warp_native),
            Chosen(o.warp_drc20, "WarpDrc20") \cup Chosen(o.warp_native, "WarpNative"))
    BY <1>2, <1>3, <1>5, ListsJoin
<1>7. (Chosen(o.warp_drc20, "WarpDrc20") \cup Chosen(o.warp_native, "WarpNative"))
      \cap Chosen(o.warp_collateral # "none", "WarpCollateral") = {}
    BY DEF Chosen
<1> QED
    BY <1>4, <1>6, <1>7, ListsJoin DEF Routes, RouteNames, o

LEMMA OrderListed ==
    ASSUME NEW r \in Requests, NEW mid,
           Lists(mid, 5, {"ProtocolFee", "AggregationHook", "Mailbox", "ValidatorAnnounce", "IGP"})
    PROVE  LET o == options[r]
           IN  Lists(<<"TestMock", "TestRecipient", "MerkleTreeHook">> \o IsmOf(o) \o mid \o Routes(o),
                     Count(o), Names(o))
<1> DEFINE o == options[r]
           ism == o.default_ism = "messageIdMultisig"
           three == {"TestMock", "TestRecipient", "MerkleTreeHook"}
           five == {"ProtocolFee", "AggregationHook", "Mailbox", "ValidatorAnnounce", "IGP"}
<1> HIDE DEF o
<1>1. Lists(IsmOf(o), OneIf(ism), Chosen(ism, "IsmMultisig"))
    BY OptionLists DEF IsmOf, Contracts
<1>2. three \cap Chosen(ism, "IsmMultisig") = {}
    BY DEF Chosen
<1>3. Lists(<<"TestMock", "TestRecipient", "MerkleTreeHook">> \o IsmOf(o), 3 + OneIf(ism),
            three \cup Chosen(ism, "IsmMultisig"))
    BY <1>1, <1>2, First, ListsJoin
<1>4. (three \cup Chosen(ism, "IsmMultisig")) \cap five = {}
    BY DEF Chosen
<1>5. Lists(<<"TestMock", "TestRecipient", "MerkleTreeHook">> \o IsmOf(o) \o mid,
            3 + OneIf(ism) + 5, three \cup Chosen(ism, "IsmMultisig") \cup five)
    BY <1>3, <1>4, ListsJoin
<1>6. (three \cup Chosen(ism, "IsmMultisig") \cup five) \cap RouteNames(o) = {}
    BY DEF Chosen, RouteNames
<1>7. Lists(Routes(o), OneIf(o.warp_drc20) + OneIf(o.warp_native)
                       + OneIf(o.warp_collateral # "none"), RouteNames(o))
    BY RoutesListed DEF o
<1>8. Lists(<<"TestMock", "TestRecipient", "MerkleTreeHook">> \o IsmOf(o) \o mid \o Routes(o),
            3 + OneIf(ism) + 5
            + (OneIf(o.warp_drc20) + OneIf(o.warp_native) + OneIf(o.warp_collateral # "none")),
            (three \cup Chosen(ism, "IsmMultisig") \cup five) \cup RouteNames(o))
    BY <1>5, <1>6, <1>7, ListsJoin
<1>9. Names(o) = (three \cup Chosen(ism, "IsmMultisig") \cup five) \cup RouteNames(o)
    BY DEF Names, RouteNames
<1> QED
    BY <1>8, <1>9 DEF Count, o

\* What is deployed, numbered and looked up are the same contracts, each once.
LEMMA Orders ==
    ASSUME NEW r \in Requests
    PROVE  /\ Lists(DeployOrder(options[r]), Count(options[r]), Names(options[r]))
           /\ Lists(CheckOrder(options[r]), Count(options[r]), Names(options[r]))
           /\ Precomputed(options[r]) = DeployOrder(options[r])
           /\ Count(options[r]) \in 0..12
<1>1. Count(options[r]) \in 0..12
    BY DEF Count, OneIf
<1>2. Precomputed(options[r]) = DeployOrder(options[r])
    BY DEF Precomputed, DeployOrder
<1> QED
    BY <1>1, <1>2, Middle, MiddleChecked, OrderListed DEF DeployOrder, CheckOrder

LEMMA OrderFacts ==
    ASSUME NEW r \in Requests
    PROVE  LET o == options[r]
           IN  /\ Len(DeployOrder(o)) \in 0..12 /\ Len(CheckOrder(o)) \in 0..12
               /\ \A k \in 1..Len(DeployOrder(o)) :
                     DeployOrder(o)[k] \in Names(o) /\ DeployOrder(o)[k] \in Contracts
               /\ \A name \in Names(o) :
                     /\ \E k \in 1..Len(DeployOrder(o)) : DeployOrder(o)[k] = name
                     /\ \E k \in 1..Len(CheckOrder(o)) : CheckOrder(o)[k] = name
               /\ \A j, k \in 1..Len(DeployOrder(o)) :
                     DeployOrder(o)[j] = DeployOrder(o)[k] => j = k
<1> DEFINE o == options[r]
           s == DeployOrder(o)
           t == CheckOrder(o)
<1>1. Lists(s, Count(o), Names(o)) /\ Lists(t, Count(o), Names(o)) /\ Count(o) \in 0..12
    BY Orders
<1> HIDE DEF s, t, o
<1>2. s \in Seq(Contracts) /\ t \in Seq(Contracts) /\ Len(s) = Count(o) /\ Len(t) = Count(o)
      /\ Names(o) = ToSet(s) /\ Names(o) = ToSet(t)
    BY <1>1 DEF Lists
<1>3. DOMAIN s = 1..Len(s) /\ DOMAIN t = 1..Len(t)
    BY <1>2
<1>4. Names(o) = {s[i] : i \in 1..Len(s)} /\ Names(o) = {t[i] : i \in 1..Len(t)}
    BY <1>2, <1>3 DEF ToSet
<1>5. \A k \in 1..Len(s) : s[k] \in Contracts
    BY <1>2
<1>6. \A j, k \in 1..Len(s) : s[j] = s[k] => j = k
    BY <1>1, <1>2 DEF Lists
<1>7. Len(s) \in 0..12 /\ Len(t) \in 0..12
    BY <1>1, <1>2
<1> QED
    BY <1>4, <1>5, <1>6, <1>7 DEF s, t, o

\* The k-th contract deployed gets the id computed for it beforehand.
LEMMA IdComputed ==
    ASSUME NEW r \in Requests, NEW k \in 1..Len(DeployOrder(options[r]))
    PROVE  ContractId(options[r], DeployOrder(options[r])[k], k - 1)
               = Id(options[r], DeployOrder(options[r])[k])
<1> DEFINE o == options[r]
           s == DeployOrder(o)
<1>1. Precomputed(o) = s /\ DOMAIN s = 1..Len(s)
    BY Orders DEF Lists
<1>2. \A j \in 1..Len(s) : s[j] = s[k] => j = k
    BY OrderFacts
<1>3. (CHOOSE j \in DOMAIN Precomputed(o) : Precomputed(o)[j] = s[k]) = k
    BY <1>1, <1>2
<1> QED
    BY <1>3 DEF Id

LEMMA IdTypes ==
    ASSUME NEW r \in Requests, NEW name \in Names(options[r])
    PROVE  /\ Id(options[r], name) \in ContractIds
           /\ Id(options[r], name).contract = name
           /\ name # "other" /\ name # "token"
<1> DEFINE o == options[r]
<1>1. PICK k \in 1..Len(DeployOrder(o)) : DeployOrder(o)[k] = name
    BY OrderFacts
<1>2. Id(o, name) = ContractId(o, name, k - 1)
    BY <1>1, IdComputed
<1>3. name \in Contracts
    BY <1>1, OrderFacts
<1>4. o.build[name] \in Nat /\ k - 1 \in Nat
    BY <1>3, OptionTypes
<1> QED
    BY <1>2, <1>3, <1>4 DEF ContractId, ContractIds, Contracts


-----------------------------------------------------------------------------
(* deploy-hyperlane: gas configurations.                                    *)

LEMMA PaymentsAreNumbers ==
    ASSUME NEW c \in DomainGasConfig, NEW g \in Nat
    PROVE  Payment(c, g) \in Nat
<1>1. c.gas_overhead \in Nat /\ c.token_exchange_rate \in Nat /\ c.gas_price \in Nat
    BY DeployAssumption DEF GasPricesAssumption, DomainGasConfig
<1>2. \A a, b \in Nat : a * b \in Nat
    OBVIOUS
<1>3. g + c.gas_overhead \in Nat
    BY <1>1
<1>4. GasPrice(c, g) \in Nat
    BY <1>1, <1>2, <1>3 DEF GasPrice
<1>5. Cost(c, g) \in Nat
    BY <1>1, <1>2, <1>4 DEF Cost
<1> QED
    BY <1>5, DeployAssumption DEF GasPricesAssumption, Payment

\* deploy-hyperlane (parse_igp_domain_configs) and the paymaster (its init and
\* set_domain_gas_config) agree on what a configuration is, though they divide and
\* compare differently.
THEOREM SameConfigs ==
    ASSUME NEW c \in DomainGasConfig
    PROVE  ConfigArgument(c) <=> ValidConfig(c)
<1>1. 1 \in Nat /\ MaxGasLimit \in Nat /\ MaxU64 \in Nat
    BY DeployAssumption DEF GasPricesAssumption
<1>2. Payment(c, 1) \in Nat /\ Payment(c, MaxGasLimit) \in Nat
    BY <1>1, PaymentsAreNumbers
<1>3. c.token_exchange_rate \in Nat /\ c.gas_price \in Nat
    BY DeployAssumption DEF GasPricesAssumption, DomainGasConfig
<1> QED
    BY <1>1, <1>2, <1>3 DEF ConfigArgument, ConfigPriced, ValidConfig

\* Sorting by domain keeps the configurations.
LEMMA SortedConfigsKeep ==
    ASSUME NEW s \in Seq(GasArguments), IsInjective(DomainsOf(s))
    PROVE  /\ DOMAIN SortedByDomain(s) = DOMAIN s
           /\ ToSet(SortedByDomain(s)) = ToSet(s)
<1> DEFINE d == DomainsOf(s)
           e == Sorted(d)
           t == SortedByDomain(s)
<1>1. \A i \in DOMAIN s : s[i].domain \in Nat
    <2> SUFFICES ASSUME NEW i \in DOMAIN s PROVE s[i].domain \in Nat
        OBVIOUS
    <2>1. s[i] \in GasArguments
        OBVIOUS
    <2> QED
        BY <2>1 DEF GasArguments
<1>2. DOMAIN d = DOMAIN s /\ \A i \in DOMAIN s : d[i] = s[i].domain
    BY DEF DomainsOf
<1>3. d \in Seq(Nat) /\ Len(d) = Len(s) /\ DOMAIN s = 1..Len(s)
    BY <1>1 DEF DomainsOf
<1>4. e \in Seq(Nat) /\ Len(e) = Len(d) /\ ToSet(e) = ToSet(d)
    BY <1>3, SortedKeeps
<1>5. \A i, j \in DOMAIN s : d[i] = d[j] => i = j
    BY <1>2 DEF IsInjective
<1>6. DOMAIN t = DOMAIN s
      /\ \A i \in DOMAIN s : t[i] = CHOOSE c \in ToSet(s) : c.domain = e[i]
    BY DEF SortedByDomain
<1> HIDE DEF d, e, t
<1>7. DOMAIN e = DOMAIN s
    BY <1>3, <1>4
<1>8. ASSUME NEW i \in DOMAIN s
      PROVE  t[i] \in ToSet(s) /\ t[i].domain = e[i]
    <2>1. e[i] \in ToSet(d)
        BY <1>4, <1>7 DEF ToSet
    <2>2. PICK k \in DOMAIN s : d[k] = e[i]
        BY <2>1, <1>2 DEF ToSet
    <2>3. s[k] \in ToSet(s) /\ s[k].domain = e[i]
        BY <1>2, <2>2 DEF ToSet
    <2>4. \E c \in ToSet(s) : c.domain = e[i]
        BY <2>3
    <2> QED
        BY <1>6, <2>4
<1>9. ASSUME NEW k \in DOMAIN s
      PROVE  \E i \in DOMAIN t : t[i] = s[k]
    <2>1. d[k] \in ToSet(e)
        BY <1>2, <1>4 DEF ToSet
    <2>2. PICK i \in DOMAIN s : e[i] = d[k]
        BY <2>1, <1>7 DEF ToSet
    <2>3. PICK j \in DOMAIN s : t[i] = s[j]
        BY <1>8 DEF ToSet
    <2>4. d[j] = d[k]
        BY <1>2, <1>8, <2>2, <2>3
    <2> QED
        BY <1>5, <1>6, <2>3, <2>4
<1>10. ToSet(t) = ToSet(s)
    BY <1>6, <1>8, <1>9 DEF ToSet
<1> QED
    BY <1>6, <1>10 DEF t

-----------------------------------------------------------------------------
(* deploy-hyperlane: what the contracts are initialized with.               *)

LEMMA InitArgsOf ==
    ASSUME NEW o
    PROVE  /\ InitArgs(o, "IsmMultisig") =
                 [validators |-> Sorted(o.multisig_validators), threshold |-> o.multisig_threshold]
           /\ InitArgs(o, "MerkleTreeHook") = [mailbox |-> Id(o, "AggregationHook")]
           /\ InitArgs(o, "ProtocolFee") =
                 [protocol_fee |-> 1, max_protocol_fee |-> 100,
                  mailbox |-> Id(o, "AggregationHook")]
           /\ InitArgs(o, "AggregationHook") =
                 [mailbox |-> Id(o, "Mailbox"),
                  hooks |-> <<Id(o, "MerkleTreeHook"), Id(o, "ProtocolFee")>>]
           /\ InitArgs(o, "Mailbox") =
                 [local_domain |-> o.domain,
                  default_ism |-> IF IsmOf(o) # <<>> THEN Id(o, "IsmMultisig")
                                                     ELSE Id(o, "TestMock"),
                  default_hook |-> Id(o, "IGP"), required_hook |-> Id(o, "AggregationHook")]
           /\ InitArgs(o, "ValidatorAnnounce") =
                 [local_domain |-> o.domain, mailbox |-> Id(o, "Mailbox")]
           /\ InitArgs(o, "IGP") =
                 [mailbox |-> Id(o, "Mailbox"),
                  initial_configs |-> SortedByDomain(o.igp_domain_configs)]
           /\ InitArgs(o, "WarpDrc20") = [mailbox |-> Id(o, "Mailbox")]
           /\ InitArgs(o, "WarpNative") = [mailbox |-> Id(o, "Mailbox")]
           /\ InitArgs(o, "WarpCollateral") =
                 [mailbox |-> Id(o, "Mailbox"), wrapped_token |-> CollateralToken(o)]
<1>1. InitArgs(o, "IsmMultisig") =
          [validators |-> Sorted(o.multisig_validators), threshold |-> o.multisig_threshold]
    BY DEF InitArgs
<1>2. InitArgs(o, "MerkleTreeHook") = [mailbox |-> Id(o, "AggregationHook")]
      /\ InitArgs(o, "ProtocolFee") =
            [protocol_fee |-> 1, max_protocol_fee |-> 100,
             mailbox |-> Id(o, "AggregationHook")]
    BY DEF InitArgs
<1>3. InitArgs(o, "AggregationHook") =
          [mailbox |-> Id(o, "Mailbox"),
           hooks |-> <<Id(o, "MerkleTreeHook"), Id(o, "ProtocolFee")>>]
    BY DEF InitArgs
<1>4. InitArgs(o, "Mailbox") =
          [local_domain |-> o.domain,
           default_ism |-> IF IsmOf(o) # <<>> THEN Id(o, "IsmMultisig") ELSE Id(o, "TestMock"),
           default_hook |-> Id(o, "IGP"), required_hook |-> Id(o, "AggregationHook")]
    BY DEF InitArgs
<1>5. InitArgs(o, "ValidatorAnnounce") = [local_domain |-> o.domain, mailbox |-> Id(o, "Mailbox")]
    BY DEF InitArgs
<1>6. InitArgs(o, "IGP") =
          [mailbox |-> Id(o, "Mailbox"), initial_configs |-> SortedByDomain(o.igp_domain_configs)]
    BY DEF InitArgs
<1>7. InitArgs(o, "WarpDrc20") = [mailbox |-> Id(o, "Mailbox")]
      /\ InitArgs(o, "WarpNative") = [mailbox |-> Id(o, "Mailbox")]
    BY DEF InitArgs
<1>8. InitArgs(o, "WarpCollateral") =
          [mailbox |-> Id(o, "Mailbox"), wrapped_token |-> CollateralToken(o)]
    BY DEF InitArgs
<1> QED
    BY <1>1, <1>2, <1>3, <1>4, <1>5, <1>6, <1>7, <1>8

\* Which contract's init asserts what
LEMMA AcceptedBy ==
    ASSUME NEW args
    PROVE  /\ MultisigInitAccepts(args) => InitAccepts("IsmMultisig", args)
           /\ FeeInitAccepts(args) => InitAccepts("ProtocolFee", args)
           /\ AggregationInitAccepts(args) => InitAccepts("AggregationHook", args)
           /\ MailboxInitAccepts(args) => InitAccepts("Mailbox", args)
           /\ PaymasterInitAccepts(args) => InitAccepts("IGP", args)
           /\ \A name : name \notin {"IsmMultisig", "ProtocolFee", "AggregationHook", "Mailbox", "IGP"}
                 => InitAccepts(name, args)
<1>1. MultisigInitAccepts(args) => InitAccepts("IsmMultisig", args)
    BY DEF InitAccepts
<1>2. FeeInitAccepts(args) => InitAccepts("ProtocolFee", args)
    BY DEF InitAccepts
<1>3. AggregationInitAccepts(args) => InitAccepts("AggregationHook", args)
    BY DEF InitAccepts
<1>4. MailboxInitAccepts(args) => InitAccepts("Mailbox", args)
    BY DEF InitAccepts
<1>5. PaymasterInitAccepts(args) => InitAccepts("IGP", args)
    BY DEF InitAccepts
<1>6. \A name : name \notin {"IsmMultisig", "ProtocolFee", "AggregationHook", "Mailbox", "IGP"}
          => InitAccepts(name, args)
    BY DEF InitAccepts
<1> QED
    BY <1>1, <1>2, <1>3, <1>4, <1>5, <1>6

\* The command line checks, and what a contract's init asserts, agree.
LEMMA ArgumentsAccepted ==
    ASSUME NEW r \in Requests, ValidArguments(options[r]), NEW name \in Names(options[r])
    PROVE  InitAccepts(name, InitArgs(options[r], name))
<1> DEFINE o == options[r]
<1>1. CASE name = "IsmMultisig"
    <2>1. o.default_ism = "messageIdMultisig"
        BY <1>1 DEF Names, Chosen
    <2>2. /\ IsInjective(o.multisig_validators)
          /\ Len(o.multisig_validators) \in 1..MaxValidators
          /\ o.multisig_threshold \in 1..Len(o.multisig_validators)
        BY <2>1 DEF ValidArguments, ValidMultisig, NoneTwice
    <2>3. o.multisig_validators \in Seq(Nat)
        BY OptionTypes
    <2> DEFINE v == Sorted(o.multisig_validators)
    <2>4. Len(v) = Len(o.multisig_validators)
          /\ \A i \in 2..Len(o.multisig_validators) : v[i - 1] < v[i]
        BY <2>2, <2>3, SortedKeeps
    <2> HIDE DEF v
    <2>5. InitArgs(o, "IsmMultisig") = [validators |-> v, threshold |-> o.multisig_threshold]
        BY InitArgsOf DEF v
    <2> DEFINE args == InitArgs(o, "IsmMultisig")
    <2>6. args.validators = v /\ args.threshold = o.multisig_threshold
        BY <2>5
    <2>7. /\ Len(args.validators) \in 1..MaxValidators
          /\ args.threshold \in 1..Len(args.validators)
          /\ \A i \in 2..Len(args.validators) : args.validators[i - 1] < args.validators[i]
        BY <2>2, <2>4, <2>6
    <2> HIDE DEF args
    <2>8. InitAccepts("IsmMultisig", args)
        BY <2>7, AcceptedBy DEF MultisigInitAccepts
    <2> QED
        BY <1>1, <2>8 DEF args
<1>2. CASE name = "AggregationHook"
    <2>1. InitArgs(o, name).hooks # <<>>
        <3>1. InitArgs(o, "AggregationHook") =
                  [mailbox |-> Id(o, "Mailbox"),
                   hooks |-> <<Id(o, "MerkleTreeHook"), Id(o, "ProtocolFee")>>]
            BY InitArgsOf
        <3>2. InitArgs(o, "AggregationHook").hooks =
                  <<Id(o, "MerkleTreeHook"), Id(o, "ProtocolFee")>>
            BY <3>1
        <3>3. \A a, b : <<a, b>> # <<>>
            OBVIOUS
        <3> QED
            BY <1>2, <3>2, <3>3
    <2> QED
        BY <1>2, <2>1, AcceptedBy DEF AggregationInitAccepts
<1>3. CASE name = "Mailbox"
    <2>1. "IGP" \in Names(o) /\ "AggregationHook" \in Names(o)
        BY DEF Names
    <2>2. Id(o, "IGP") # Id(o, "AggregationHook")
        BY <2>1, IdTypes
    <2>3. InitArgs(o, name).default_hook # InitArgs(o, name).required_hook
        <3>1. InitArgs(o, "Mailbox") =
                  [local_domain |-> o.domain,
                   default_ism |-> IF IsmOf(o) # <<>> THEN Id(o, "IsmMultisig")
                                                      ELSE Id(o, "TestMock"),
                   default_hook |-> Id(o, "IGP"), required_hook |-> Id(o, "AggregationHook")]
            BY InitArgsOf
        <3>2. InitArgs(o, "Mailbox").default_hook = Id(o, "IGP")
              /\ InitArgs(o, "Mailbox").required_hook = Id(o, "AggregationHook")
            BY <3>1
        <3> QED
            BY <1>3, <2>2, <3>2
    <2> QED
        BY <1>3, <2>3, AcceptedBy DEF MailboxInitAccepts
<1>4. CASE name = "ProtocolFee"
    <2>1. InitArgs(o, "ProtocolFee") =
              [protocol_fee |-> 1, max_protocol_fee |-> 100,
               mailbox |-> Id(o, "AggregationHook")]
        BY InitArgsOf
    <2>2. InitArgs(o, name).protocol_fee <= InitArgs(o, name).max_protocol_fee
        BY <1>4, <2>1
    <2> QED
        BY <1>4, <2>2, AcceptedBy DEF FeeInitAccepts
<1>5. CASE name = "IGP"
    <2> DEFINE configs == o.igp_domain_configs
               args == InitArgs(o, "IGP")
    <2>1. /\ configs \in Seq(GasArguments)
          /\ IsInjective(DomainsOf(configs))
          /\ \A i \in DOMAIN configs : ConfigArgument(configs[i].config)
        BY OptionTypes DEF ValidArguments, ValidGasConfigs, NoneTwice
    <2>2. args = [mailbox |-> Id(o, "Mailbox"), initial_configs |-> SortedByDomain(configs)]
        BY InitArgsOf
    <2>3. args.initial_configs = SortedByDomain(configs)
        BY <2>2
    <2> HIDE DEF args, configs
    <2>4. \A i \in DOMAIN args.initial_configs : args.initial_configs[i] \in ToSet(configs)
        BY <2>1, <2>3, SortedConfigsKeep DEF ToSet
    <2>5. \A c \in ToSet(configs) : ValidConfig(c.config)
        <3> SUFFICES ASSUME NEW i \in DOMAIN configs PROVE ValidConfig(configs[i].config)
            BY DEF ToSet
        <3>1. configs[i] \in GasArguments
            BY <2>1
        <3>2. configs[i].config \in DomainGasConfig
            BY <3>1 DEF GasArguments
        <3> QED
            BY <2>1, <3>2, SameConfigs
    <2>6. PaymasterInitAccepts(args)
        BY <2>4, <2>5 DEF PaymasterInitAccepts
    <2>7. InitAccepts("IGP", args)
        BY <2>6, AcceptedBy
    <2> QED
        BY <1>5, <2>7 DEF args
<1>6. CASE name \notin {"IsmMultisig", "AggregationHook", "Mailbox", "ProtocolFee", "IGP"}
    BY <1>6, AcceptedBy
<1> QED
    BY <1>1, <1>2, <1>3, <1>4, <1>5, <1>6

-----------------------------------------------------------------------------
(* deploy-hyperlane: the invariant.  Contracts appear with the transactions *)
(* that deploy them, so the ids taken before a nonce are in the ledger and  *)
(* stay what they are; a run holds on to ids that were free at its nonce.   *)

Deploys(entry) == entry.ok = TRUE /\ entry.tx.id.contract # "other"

\* The ids on chain when the first n transactions of l had been executed.
Taken(l, n) == Tokens \cup {l[m].tx.id : m \in {k \in 1..n : Deploys(l[k])}}

ChainInv(l, d) ==
    /\ \E S : l \in Seq(S)
    /\ Len(l) <= LastNonce
    /\ DOMAIN d = Taken(l, Len(l)) /\ DOMAIN d \subseteq ContractIds
    /\ \A n \in 1..Len(l) : l[n].tx.nonce = n /\ l[n].ok \in BOOLEAN
    /\ \A n \in 1..Len(l) :
          Deploys(l[n]) => l[n].tx.id \notin Taken(l, n - 1) /\ d[l[n].tx.id] = l[n].tx.init

\* The k-th deployment of a run with these options
Transaction(o, nonce, k) ==
    [nonce |-> nonce, id |-> ContractId(o, DeployOrder(o)[k], k - 1),
     init |-> InitArgs(o, DeployOrder(o)[k])]

PendingInv(tx, l) ==
    /\ tx.nonce \in 1..LastNonce /\ tx.nonce <= Len(l) + 1
    /\ tx.id \notin Taken(l, tx.nonce - 1)
    /\ \E r \in Requests : ValidArguments(options[r]) /\
          \E k \in 1..Len(DeployOrder(options[r])) : tx = Transaction(options[r], tx.nonce, k)

\* The contract is on chain, with this run's settings.
Up(o, name, d) == Id(o, name) \in DOMAIN d /\ d[Id(o, name)] = InitArgs(o, name)

TokenThere(o, d) == o.warp_collateral = "explicit" => o.token \in DOMAIN d

\* The contracts a run has found free and not deployed yet.
Claimed(o, x) ==
    IF x.pc \in {"deploy", "wait"}
    THEN {DeployOrder(o)[k] : k \in (x.dn + 1)..Len(DeployOrder(o))}
    ELSE {CheckOrder(o)[k] : k \in 1..x.checked}

RunRecord == [pc : {"start", "token", "fresh", "deploy", "wait"}, request : Requests,
              mn : 0..LastNonce, dn : 0..12, checked : 0..12]

RunInv(x, l, d) ==
    \/ x \in {NotStarted, Ended}
    \/ /\ x \in RunRecord
       /\ x.mn <= Len(l)
       /\ x.pc # "start" => ValidArguments(options[x.request])
       /\ x.pc \in {"start", "token"} => x.checked = 0
       /\ x.pc \in {"start", "token", "fresh"} => x.dn = 0
       /\ x.pc = "fresh" => x.checked <= Len(CheckOrder(options[x.request]))
       /\ x.pc \in {"fresh", "deploy", "wait"} => TokenThere(options[x.request], d)
       /\ x.dn <= Len(DeployOrder(options[x.request]))
       /\ x.pc = "wait" => x.dn < Len(DeployOrder(options[x.request]))
       /\ \A k \in 1..x.dn : Up(options[x.request], DeployOrder(options[x.request])[k], d)
       /\ \A name \in Claimed(options[x.request], x) :
             Id(options[x.request], name) \notin Taken(l, x.mn)

ReportedInv(r, d) ==
    /\ r \in Requests
    /\ ValidArguments(options[r])
    /\ TokenThere(options[r], d)
    /\ \A name \in Names(options[r]) : Up(options[r], name, d)

DeployInv ==
    /\ ChainInv(executed, deployed)
    /\ \A tx \in pending : PendingInv(tx, executed)
    /\ run = [p \in Runs |-> run[p]]
    /\ \A p \in Runs : RunInv(run[p], executed, deployed)
    /\ \A r \in reported : ReportedInv(r, deployed)


LEMMA TakenStays ==
    ASSUME NEW l, NEW S, l \in Seq(S), NEW e, NEW n \in 0..Len(l)
    PROVE  Taken(Append(l, e), n) = Taken(l, n)
<1>1. \A k \in 1..n : Append(l, e)[k] = l[k]
    OBVIOUS
<1> QED
    BY <1>1 DEF Taken

LEMMA TakenNext ==
    ASSUME NEW l, NEW n \in Nat
    PROVE  Taken(l, n + 1) = Taken(l, n) \cup (IF Deploys(l[n + 1]) THEN {l[n + 1].tx.id} ELSE {})
<1>1. 1..(n + 1) = (1..n) \cup {n + 1}
    OBVIOUS
<1> QED
    BY <1>1 DEF Taken

LEMMA TakenGrows ==
    ASSUME NEW l, NEW m \in Nat, NEW n \in Nat, m <= n
    PROVE  Taken(l, m) \subseteq Taken(l, n)
<1>1. 1..m \subseteq 1..n
    OBVIOUS
<1> QED
    BY <1>1 DEF Taken

\* The chain grows: entries and contracts stay.
Grows(l, d, l2, d2) ==
    /\ Len(l) \in Nat /\ Len(l2) \in Nat /\ Len(l) <= Len(l2)
    /\ \A n \in 0..Len(l) : Taken(l2, n) = Taken(l, n)
    /\ \A id \in DOMAIN d : id \in DOMAIN d2 /\ d2[id] = d[id]

LEMMA UpStays ==
    ASSUME NEW l, NEW d, NEW l2, NEW d2, Grows(l, d, l2, d2)
    PROVE  /\ \A o, name : Up(o, name, d) => Up(o, name, d2)
           /\ \A o : TokenThere(o, d) => TokenThere(o, d2)
BY DEF Grows, Up, TokenThere

LEMMA RunStays ==
    ASSUME NEW l, NEW d, NEW l2, NEW d2, Grows(l, d, l2, d2), NEW x, RunInv(x, l, d)
    PROVE  RunInv(x, l2, d2)
<1>1. CASE x \in {NotStarted, Ended}
    BY <1>1 DEF RunInv
<1>2. CASE x \notin {NotStarted, Ended}
    <2>1. x.mn \in Nat /\ x.mn <= Len(l) /\ Len(l) \in Nat /\ Len(l2) \in Nat /\ Len(l) <= Len(l2)
        BY <1>2 DEF RunInv, RunRecord, Grows
    <2>2. x.mn <= Len(l2) /\ Taken(l2, x.mn) = Taken(l, x.mn)
        BY <2>1 DEF Grows
    <2>3. /\ \A o, name : Up(o, name, d) => Up(o, name, d2)
          /\ \A o : TokenThere(o, d) => TokenThere(o, d2)
        BY UpStays
    <2> QED
        BY <1>2, <2>2, <2>3 DEF RunInv
<1> QED
    BY <1>1, <1>2

LEMMA ReportedStays ==
    ASSUME NEW l, NEW d, NEW l2, NEW d2, Grows(l, d, l2, d2), NEW r, ReportedInv(r, d)
    PROVE  ReportedInv(r, d2)
BY UpStays DEF ReportedInv

\* What a transaction does to the chain, its id being free.
LEMMA ChainAppends ==
    ASSUME NEW l, NEW d, ChainInv(l, d), NEW e,
           e.tx.nonce = Len(l) + 1, e.ok \in BOOLEAN, Len(l) < LastNonce,
           Deploys(e) => e.tx.id \notin Taken(l, Len(l)) /\ e.tx.id \in ContractIds,
           NEW d2,
           d2 = IF Deploys(e)
                THEN [id \in DOMAIN d \cup {e.tx.id} |->
                         IF id = e.tx.id THEN e.tx.init ELSE d[id]]
                ELSE d
    PROVE  ChainInv(Append(l, e), d2) /\ Grows(l, d, Append(l, e), d2)
<1> DEFINE l2 == Append(l, e)
           n == Len(l)
<1>1. PICK S : l \in Seq(S)
    BY DEF ChainInv
<1>2. /\ n \in Nat /\ l2 \in Seq(S \cup {e}) /\ Len(l2) = n + 1
      /\ l2[n + 1] = e /\ \A k \in 1..n : l2[k] = l[k]
    <2>1. l \in Seq(S \cup {e})
        BY <1>1
    <2> QED
        BY <1>1, <2>1
<1>3. \A k \in 0..n : Taken(l2, k) = Taken(l, k)
    BY <1>1, TakenStays
<1> HIDE DEF l2, n
<1>4. Taken(l2, n + 1) = Taken(l, n) \cup (IF Deploys(e) THEN {e.tx.id} ELSE {})
    BY <1>2, <1>3, TakenNext
<1>5. DOMAIN d = Taken(l, n) /\ DOMAIN d \subseteq ContractIds
    BY DEF ChainInv, n
<1>6. DOMAIN d2 = Taken(l2, n + 1) /\ DOMAIN d2 \subseteq ContractIds
    BY <1>4, <1>5 DEF n
<1>7. \A id \in DOMAIN d : id \in DOMAIN d2 /\ d2[id] = d[id]
    BY <1>5 DEF n
<1>8. Deploys(e) => d2[e.tx.id] = e.tx.init
    OBVIOUS
<1>9. Grows(l, d, l2, d2)
    BY <1>2, <1>3, <1>7 DEF Grows, n
<1>10. ASSUME NEW k \in 1..(n + 1)
       PROVE  /\ l2[k].tx.nonce = k /\ l2[k].ok \in BOOLEAN
              /\ Deploys(l2[k]) => l2[k].tx.id \notin Taken(l2, k - 1)
                                   /\ d2[l2[k].tx.id] = l2[k].tx.init
    <2>1. CASE k = n + 1
        <3>1. Taken(l2, n) = Taken(l, n) /\ k - 1 = n
            BY <1>2, <1>3, <2>1
        <3> QED
            BY <2>1, <3>1, <1>2, <1>8 DEF n
    <2>2. CASE k # n + 1
        <3>1. k \in 1..n /\ k - 1 \in 0..n
            BY <1>2, <2>2
        <3>2. l2[k] = l[k] /\ Taken(l2, k - 1) = Taken(l, k - 1)
            BY <1>2, <1>3, <3>1
        <3>3. /\ l[k].tx.nonce = k /\ l[k].ok \in BOOLEAN
              /\ Deploys(l[k]) => l[k].tx.id \notin Taken(l, k - 1)
                                  /\ d[l[k].tx.id] = l[k].tx.init
            BY <3>1 DEF ChainInv, n
        <3>4. Deploys(l[k]) => l[k].tx.id \in DOMAIN d
            BY <1>5, <3>1 DEF Taken
        <3> QED
            BY <3>2, <3>3, <3>4, <1>7
    <2> QED
        BY <2>1, <2>2
<1>11. n + 1 <= LastNonce
    BY <1>2, DeployAssumption DEF n
<1>12. ChainInv(l2, d2)
    BY <1>2, <1>6, <1>10, <1>11 DEF ChainInv
<1> QED
    BY <1>9, <1>12 DEF l2


-----------------------------------------------------------------------------
(* deploy-hyperlane: the steps of a run.                                    *)

\* A step that moves one run on, or the reports, and leaves the chain alone.
LEMMA RunMoves ==
    ASSUME DeployInv, NEW p \in Runs, NEW x, RunInv(x, executed, deployed),
           run' = [run EXCEPT ![p] = x],
           UNCHANGED onchain,
           \A tx \in pending' : tx \in pending \/ PendingInv(tx, executed),
           \A r \in reported' : r \in reported \/ ReportedInv(r, deployed)
    PROVE  DeployInv'
<1>1. executed' = executed /\ deployed' = deployed
    BY DEF onchain
<1>2. run' = [q \in Runs |-> IF q = p THEN x ELSE run[q]]
    BY DEF DeployInv
<1>3. run' = [q \in Runs |-> run'[q]] /\ \A q \in Runs : RunInv(run'[q], executed, deployed)
    BY <1>2 DEF DeployInv
<1>4. \A tx \in pending' : PendingInv(tx, executed)
    BY DEF DeployInv
<1>5. \A r \in reported' : ReportedInv(r, deployed)
    BY DEF DeployInv
<1>6. ChainInv(executed, deployed)
    BY DEF DeployInv
<1> QED
    BY <1>1, <1>3, <1>4, <1>5, <1>6 DEF DeployInv

LEMMA ChainLength ==
    ASSUME NEW l, NEW d, ChainInv(l, d)
    PROVE  Len(l) \in 0..LastNonce /\ Len(l) \in Nat /\ LastNonce \in Nat
BY DeployAssumption DEF ChainInv

LEMMA RunNumbers ==
    ASSUME NEW x \in RunRecord
    PROVE  /\ x.dn \in 0..12 /\ x.mn \in 0..LastNonce /\ x.checked \in 0..12
           /\ x.dn \in Nat /\ x.mn \in Nat /\ x.checked \in Nat
<1>1. x.dn \in 0..12 /\ x.mn \in 0..LastNonce /\ x.checked \in 0..12
    BY DEF RunRecord
<1>2. LastNonce \in Nat
    BY DeployAssumption
<1>3. \A i \in 0..12 : i \in Nat
    OBVIOUS
<1>4. \A i \in 0..LastNonce : i \in Nat
    BY <1>2
<1> QED
    BY <1>1, <1>3, <1>4

\* A run that is neither new nor over is a record of its own.
LEMMA RunIs ==
    ASSUME DeployInv, NEW p \in Runs,
           run[p].pc \in {"start", "token", "fresh", "deploy", "wait"}
    PROVE  /\ run[p] \in RunRecord
           /\ run[p].request \in Requests
           /\ Opts(p) = options[run[p].request]
           /\ run[p].mn <= Len(executed)
           /\ run[p].pc # "start" => ValidArguments(Opts(p))
           /\ run[p].pc \in {"start", "token"} => run[p].checked = 0
           /\ run[p].pc \in {"start", "token", "fresh"} => run[p].dn = 0
           /\ run[p].pc = "fresh" => run[p].checked <= Len(CheckOrder(Opts(p)))
           /\ run[p].pc \in {"fresh", "deploy", "wait"} => TokenThere(Opts(p), deployed)
           /\ run[p].dn <= Len(DeployOrder(Opts(p)))
           /\ run[p].pc = "wait" => run[p].dn < Len(DeployOrder(Opts(p)))
           /\ \A k \in 1..run[p].dn : Up(Opts(p), DeployOrder(Opts(p))[k], deployed)
           /\ \A name \in Claimed(Opts(p), run[p]) :
                 Id(Opts(p), name) \notin Taken(executed, run[p].mn)
<1>1. run[p] \notin {NotStarted, Ended}
    BY DEF NotStarted, Ended
<1>2. RunInv(run[p], executed, deployed)
    BY DEF DeployInv
<1>3. run[p].request \in Requests
    BY <1>1, <1>2 DEF RunInv, RunRecord
<1> QED
    BY <1>1, <1>2, <1>3 DEF RunInv, Opts

LEMMA StartsRun ==
    ASSUME DeployInv, NEW p \in Runs, NEW r \in Requests, StartRun(p, r)
    PROVE  DeployInv'
<1> DEFINE x == Run(r)
<1>1. ChainInv(executed, deployed)
    BY DEF DeployInv
<1>2. Len(executed) \in Nat /\ LastNonce \in Nat
    BY <1>1, ChainLength
<1>3. x = [pc |-> "start", request |-> r, mn |-> 0, dn |-> 0, checked |-> 0]
    BY DEF Run
<1>4. x \in RunRecord
    BY <1>2, <1>3 DEF RunRecord
<1>5. Claimed(options[r], x) = {}
    BY <1>3 DEF Claimed
<1>6. Len(DeployOrder(options[r])) \in 0..12
    BY OrderFacts
<1>7. RunInv(x, executed, deployed)
    BY <1>2, <1>3, <1>4, <1>5, <1>6 DEF RunInv
<1> HIDE DEF x
<1>8. run' = [run EXCEPT ![p] = x] /\ UNCHANGED <<onchain, pending, reported>>
    BY DEF StartRun, x
<1> QED
    BY <1>7, <1>8, RunMoves

LEMMA StopsRun ==
    ASSUME DeployInv, NEW p \in Runs, Stop(p)
    PROVE  DeployInv'
<1>1. RunInv(Ended, executed, deployed)
    BY DEF RunInv
<1> QED
    BY <1>1, RunMoves DEF Stop

LEMMA ReadsNonce ==
    ASSUME DeployInv, NEW p \in Runs, ReadNonce(p)
    PROVE  DeployInv'
<1> DEFINE x == [run[p] EXCEPT !.pc = "token", !.mn = Len(executed)]
           o == options[run[p].request]
<1>1. Len(executed) \in 0..LastNonce /\ Len(executed) \in Nat
    BY ChainLength DEF DeployInv
<1>2. run[p].pc = "start" /\ ValidArguments(Opts(p))
    BY DEF ReadNonce
<1>3. /\ run[p] \in RunRecord /\ run[p].request \in Requests /\ Opts(p) = o
      /\ run[p].checked = 0 /\ run[p].dn = 0
    BY <1>2, RunIs
<1>4. x \in RunRecord /\ x.request = run[p].request /\ x.pc = "token" /\ x.mn = Len(executed)
      /\ x.checked = 0 /\ x.dn = 0
    BY <1>1, <1>3 DEF RunRecord
<1> HIDE DEF x
<1>5. Claimed(o, x) = {}
    BY <1>4 DEF Claimed
<1>6. Len(DeployOrder(o)) \in 0..12
    BY <1>3, OrderFacts
<1>7. RunInv(x, executed, deployed)
    BY <1>1, <1>2, <1>3, <1>4, <1>5, <1>6 DEF RunInv
<1>8. run' = [run EXCEPT ![p] = x] /\ UNCHANGED <<onchain, pending, reported>>
    BY DEF ReadNonce, x, DeployInv
<1> QED
    BY <1>7, <1>8, RunMoves

LEMMA ChecksToken ==
    ASSUME DeployInv, NEW p \in Runs, CheckToken(p)
    PROVE  DeployInv'
<1> DEFINE x == [run[p] EXCEPT !.pc = "fresh"]
           o == options[run[p].request]
<1>1. Len(executed) \in Nat
    BY ChainLength DEF DeployInv
<1>2. run[p].pc = "token" /\ TokenThere(Opts(p), deployed)
    BY DEF CheckToken, TokenThere
<1>3. /\ run[p] \in RunRecord /\ run[p].request \in Requests /\ Opts(p) = o
      /\ run[p].checked = 0 /\ run[p].dn = 0 /\ run[p].mn <= Len(executed)
      /\ ValidArguments(o)
    BY <1>2, RunIs
<1>4. x \in RunRecord /\ x.request = run[p].request /\ x.pc = "fresh" /\ x.mn = run[p].mn
      /\ x.checked = 0 /\ x.dn = 0
    BY <1>1, <1>3 DEF RunRecord
<1> HIDE DEF x
<1>5. Claimed(o, x) = {}
    BY <1>4 DEF Claimed
<1>6. Len(DeployOrder(o)) \in 0..12 /\ Len(CheckOrder(o)) \in 0..12
    BY <1>3, OrderFacts
<1>7. RunInv(x, executed, deployed)
    BY <1>1, <1>2, <1>3, <1>4, <1>5, <1>6 DEF RunInv
<1>8. run' = [run EXCEPT ![p] = x] /\ UNCHANGED <<onchain, pending, reported>>
    BY DEF CheckToken, x, DeployInv
<1> QED
    BY <1>7, <1>8, RunMoves

LEMMA ChecksExists ==
    ASSUME DeployInv, NEW p \in Runs, CheckExists(p)
    PROVE  DeployInv'
<1> DEFINE x == [run[p] EXCEPT !.checked = run[p].checked + 1]
           o == options[run[p].request]
<1>1. Len(executed) \in Nat /\ ChainInv(executed, deployed)
    BY ChainLength DEF DeployInv
<1>2. run[p].pc = "fresh" /\ run[p].checked < Len(CheckOrder(Opts(p)))
      /\ Id(Opts(p), CheckOrder(Opts(p))[run[p].checked + 1]) \notin DOMAIN deployed
    BY DEF CheckExists
<1>3. /\ run[p] \in RunRecord /\ run[p].request \in Requests /\ Opts(p) = o
      /\ run[p].dn = 0 /\ run[p].mn <= Len(executed)
      /\ ValidArguments(o) /\ TokenThere(o, deployed)
      /\ \A name \in Claimed(o, run[p]) : Id(o, name) \notin Taken(executed, run[p].mn)
    BY <1>2, RunIs
<1>4. Len(DeployOrder(o)) \in 0..12 /\ Len(CheckOrder(o)) \in 0..12
    BY <1>3, OrderFacts
<1>5. run[p].checked \in Nat /\ run[p].checked + 1 \in 0..12 /\ run[p].mn \in Nat
    <2>1. run[p].checked \in Nat /\ run[p].mn \in Nat
        BY <1>3, RunNumbers
    <2>2. run[p].checked < Len(CheckOrder(o))
        BY <1>2, <1>3
    <2>3. \A i \in Nat : \A n \in 0..12 : i < n => i + 1 \in 0..12
        OBVIOUS
    <2> QED
        BY <2>1, <2>2, <2>3, <1>4
<1>6. x \in RunRecord /\ x.request = run[p].request /\ x.pc = "fresh" /\ x.mn = run[p].mn
      /\ x.checked = run[p].checked + 1 /\ x.dn = 0
    BY <1>2, <1>3, <1>5 DEF RunRecord
<1> HIDE DEF x
<1>7. \A name \in Claimed(o, x) : Id(o, name) \notin Taken(executed, x.mn)
    <2> SUFFICES ASSUME NEW k \in 1..x.checked
                 PROVE  Id(o, CheckOrder(o)[k]) \notin Taken(executed, x.mn)
        BY <1>6 DEF Claimed
    <2>1. CASE k \in 1..run[p].checked
        <3>1. CheckOrder(o)[k] \in Claimed(o, run[p])
            BY <1>2, <2>1 DEF Claimed
        <3> QED
            BY <3>1, <1>3, <1>6
    <2>2. CASE k = run[p].checked + 1
        <3>1. Taken(executed, run[p].mn) \subseteq Taken(executed, Len(executed))
            BY <1>1, <1>3, <1>5, TakenGrows
        <3>2. DOMAIN deployed = Taken(executed, Len(executed))
            BY <1>1 DEF ChainInv
        <3> QED
            BY <1>2, <1>3, <1>6, <2>2, <3>1, <3>2
    <2> QED
        BY <2>1, <2>2, <1>5, <1>6
<1>8. x.checked <= Len(CheckOrder(o)) /\ x.dn <= Len(DeployOrder(o))
    BY <1>2, <1>3, <1>4, <1>5, <1>6
<1>9. RunInv(x, executed, deployed)
    BY <1>3, <1>6, <1>7, <1>8 DEF RunInv
<1>10. run' = [run EXCEPT ![p] = x] /\ UNCHANGED <<onchain, pending, reported>>
    BY DEF CheckExists, x, DeployInv
<1> QED
    BY <1>9, <1>10, RunMoves

LEMMA BeginsDeploy ==
    ASSUME DeployInv, NEW p \in Runs, BeginDeploy(p)
    PROVE  DeployInv'
<1> DEFINE x == [run[p] EXCEPT !.pc = "deploy"]
           o == options[run[p].request]
<1>1. run[p].pc = "fresh" /\ run[p].checked = Len(CheckOrder(Opts(p)))
    BY DEF BeginDeploy
<1>2. /\ run[p] \in RunRecord /\ run[p].request \in Requests /\ Opts(p) = o
      /\ run[p].dn = 0 /\ run[p].mn <= Len(executed)
      /\ ValidArguments(o) /\ TokenThere(o, deployed)
      /\ \A name \in Claimed(o, run[p]) : Id(o, name) \notin Taken(executed, run[p].mn)
    BY <1>1, RunIs
<1>3. x \in RunRecord /\ x.request = run[p].request /\ x.pc = "deploy" /\ x.mn = run[p].mn
      /\ x.dn = 0
    BY <1>2 DEF RunRecord
<1> HIDE DEF x
<1>4. Claimed(o, x) \subseteq Claimed(o, run[p])
    <2>3. x.dn + 1 = 1
        BY <1>3
    <2>4. Claimed(o, x) = {DeployOrder(o)[k] : k \in 1..Len(DeployOrder(o))}
        BY <1>3, <2>3 DEF Claimed
    <2> SUFFICES ASSUME NEW k \in 1..Len(DeployOrder(o))
                 PROVE  DeployOrder(o)[k] \in Claimed(o, run[p])
        BY <2>4
    <2>1. DeployOrder(o)[k] \in Names(o)
        BY <1>2, OrderFacts
    <2>2. \E j \in 1..Len(CheckOrder(o)) : CheckOrder(o)[j] = DeployOrder(o)[k]
        <3>1. \A name \in Names(o) : \E j \in 1..Len(CheckOrder(o)) : CheckOrder(o)[j] = name
            BY <1>2, OrderFacts
        <3> QED
            BY <2>1, <3>1
    <2> QED
        BY <2>2, <1>1, <1>2 DEF Claimed
<1>5. Len(DeployOrder(o)) \in 0..12
    BY <1>2, OrderFacts
<1>6. RunInv(x, executed, deployed)
    BY <1>2, <1>3, <1>4, <1>5 DEF RunInv
<1>7. run' = [run EXCEPT ![p] = x] /\ UNCHANGED <<onchain, pending, reported>>
    BY DEF BeginDeploy, x, DeployInv
<1> QED
    BY <1>6, <1>7, RunMoves


LEMMA DeploysOne ==
    ASSUME DeployInv, NEW p \in Runs, DeployOne(p)
    PROVE  DeployInv'
<1> DEFINE x == [run[p] EXCEPT !.pc = "wait"]
           o == options[run[p].request]
           k == run[p].dn + 1
           tx == Deployment(p)
<1>1. run[p].pc = "deploy" /\ run[p].dn < Len(DeployOrder(Opts(p))) /\ run[p].mn < LastNonce
    BY DEF DeployOne
<1>2. /\ run[p] \in RunRecord /\ run[p].request \in Requests /\ Opts(p) = o
      /\ run[p].mn <= Len(executed)
      /\ ValidArguments(o) /\ TokenThere(o, deployed)
      /\ \A j \in 1..run[p].dn : Up(o, DeployOrder(o)[j], deployed)
      /\ \A name \in Claimed(o, run[p]) : Id(o, name) \notin Taken(executed, run[p].mn)
    BY <1>1, RunIs
<1>3. x \in RunRecord /\ x.request = run[p].request /\ x.pc = "wait" /\ x.mn = run[p].mn
      /\ x.dn = run[p].dn
    BY <1>2 DEF RunRecord
<1> HIDE DEF x
<1>4. Claimed(o, x) = Claimed(o, run[p])
    BY <1>1, <1>3 DEF Claimed
<1>5. Len(DeployOrder(o)) \in 0..12 /\ run[p].dn < Len(DeployOrder(o))
    BY <1>1, <1>2, OrderFacts
<1>6. run[p].dn \in Nat /\ run[p].mn \in Nat /\ Len(executed) \in Nat /\ LastNonce \in Nat
    BY <1>2, ChainLength, RunNumbers DEF DeployInv
<1>7. RunInv(x, executed, deployed)
    BY <1>2, <1>3, <1>4, <1>5, <1>6 DEF RunInv
<1>8. k \in 1..Len(DeployOrder(o)) /\ k - 1 = run[p].dn
    BY <1>5, <1>6
<1>9. tx = [nonce |-> run[p].mn + 1, id |-> ContractId(o, DeployOrder(o)[k], k - 1),
            init |-> InitArgs(o, DeployOrder(o)[k])]
    BY <1>2, <1>8 DEF Deployment
<1> HIDE DEF tx, k
<1>10. tx.nonce = run[p].mn + 1 /\ tx.id = ContractId(o, DeployOrder(o)[k], k - 1)
       /\ tx = Transaction(o, tx.nonce, k)
    BY <1>9 DEF Transaction
<1>11. tx.nonce \in 1..LastNonce /\ tx.nonce <= Len(executed) + 1 /\ tx.nonce - 1 = run[p].mn
    <2>1. \A m, n, l \in Nat : m < n /\ m <= l =>
              m + 1 \in 1..n /\ m + 1 <= l + 1 /\ (m + 1) - 1 = m
        OBVIOUS
    <2>2. run[p].mn < LastNonce /\ run[p].mn <= Len(executed)
        BY <1>1, <1>2
    <2>3. /\ run[p].mn + 1 \in 1..LastNonce /\ run[p].mn + 1 <= Len(executed) + 1
          /\ (run[p].mn + 1) - 1 = run[p].mn
        BY <1>6, <2>1, <2>2
    <2> QED
        BY <1>10, <2>3
<1>12. tx.id \notin Taken(executed, tx.nonce - 1)
    <2>1. tx.id = Id(o, DeployOrder(o)[k])
        BY <1>2, <1>8, <1>10, IdComputed
    <2>2. DeployOrder(o)[k] \in Claimed(o, run[p])
        <3>1. k \in (run[p].dn + 1)..Len(DeployOrder(o))
            BY <1>5, <1>6, <1>8 DEF k
        <3> QED
            BY <1>1, <3>1 DEF Claimed
    <2> QED
        BY <1>2, <1>11, <2>1, <2>2
<1>13. PendingInv(tx, executed)
    BY <1>2, <1>8, <1>10, <1>11, <1>12 DEF PendingInv
<1>14. run' = [run EXCEPT ![p] = x] /\ UNCHANGED <<onchain, reported>>
       /\ pending' = pending \cup {tx}
    BY DEF DeployOne, x, tx, DeployInv
<1> QED
    BY <1>7, <1>13, <1>14, RunMoves

LEMMA Confirms ==
    ASSUME DeployInv, NEW p \in Runs, Confirmed(p)
    PROVE  DeployInv'
<1> DEFINE x == [run[p] EXCEPT !.pc = "deploy", !.mn = run[p].mn + 1, !.dn = run[p].dn + 1]
           o == options[run[p].request]
           k == run[p].dn + 1
           tx == Deployment(p)
           name == DeployOrder(o)[k]
<1>1. run[p].pc = "wait" /\ Len(executed) > run[p].mn
      /\ executed[run[p].mn + 1] = [tx |-> tx, ok |-> TRUE]
    BY DEF Confirmed
<1>2. /\ run[p] \in RunRecord /\ run[p].request \in Requests /\ Opts(p) = o
      /\ run[p].mn <= Len(executed) /\ run[p].dn < Len(DeployOrder(o))
      /\ ValidArguments(o) /\ TokenThere(o, deployed)
      /\ \A j \in 1..run[p].dn : Up(o, DeployOrder(o)[j], deployed)
      /\ \A n \in Claimed(o, run[p]) : Id(o, n) \notin Taken(executed, run[p].mn)
    BY <1>1, RunIs
<1>3. Len(DeployOrder(o)) \in 0..12
    BY <1>2, OrderFacts
<1>4. run[p].dn \in Nat /\ run[p].mn \in Nat
      /\ Len(executed) \in 0..LastNonce /\ LastNonce \in Nat /\ ChainInv(executed, deployed)
      /\ Len(executed) \in Nat /\ run[p].dn \in 0..12
    BY <1>2, ChainLength, RunNumbers DEF DeployInv
<1>5. run[p].mn + 1 \in 0..LastNonce /\ run[p].mn + 1 <= Len(executed)
      /\ run[p].mn + 1 \in 1..Len(executed) /\ run[p].dn + 1 \in 0..12
      /\ run[p].dn + 1 <= Len(DeployOrder(o))
    <2>1. \A m, n \in Nat : \A l \in 0..n :
              m < l => m + 1 \in 0..n /\ m + 1 <= l /\ m + 1 \in 1..l
        OBVIOUS
    <2>2. run[p].mn < Len(executed)
        BY <1>1, <1>4
    <2>3. run[p].dn < Len(DeployOrder(o))
        BY <1>2
    <2> HIDE DEF o
    <2>4. 12 \in Nat
        OBVIOUS
    <2> QED
        BY <1>3, <1>4, <2>1, <2>2, <2>3, <2>4
<1>6. x \in RunRecord /\ x.request = run[p].request /\ x.pc = "deploy" /\ x.mn = run[p].mn + 1
      /\ x.dn = run[p].dn + 1
    BY <1>2, <1>5 DEF RunRecord
<1> HIDE DEF x
<1>7. k \in 1..Len(DeployOrder(o)) /\ k - 1 = run[p].dn
    BY <1>4, <1>5
<1>8. tx = [nonce |-> run[p].mn + 1, id |-> ContractId(o, name, k - 1), init |-> InitArgs(o, name)]
    BY <1>2, <1>7 DEF Deployment
<1>9. name \in Names(o)
    <2>1. \A j \in 1..Len(DeployOrder(o)) : DeployOrder(o)[j] \in Names(o)
        BY <1>2, OrderFacts
    <2> HIDE DEF k, o
    <2> QED
        BY <1>7, <2>1
<1>10. ContractId(o, name, k - 1) = Id(o, name)
    BY <1>2, <1>7, IdComputed
<1> HIDE DEF tx
<1>11. tx.id = Id(o, name) /\ tx.init = InitArgs(o, name) /\ tx.id.contract # "other"
    <2>1. tx.id = ContractId(o, name, k - 1) /\ tx.init = InitArgs(o, name)
        BY <1>8
    <2>2. Id(o, name).contract = name /\ name # "other"
        BY <1>2, <1>9, IdTypes
    <2> HIDE DEF name, k, o
    <2> QED
        BY <1>10, <2>1, <2>2
<1> DEFINE e == executed[run[p].mn + 1]
<1>12. Deploys(e) /\ e.tx = tx
    BY <1>1, <1>11 DEF Deploys
<1>13. deployed[tx.id] = tx.init
    BY <1>4, <1>5, <1>12 DEF ChainInv
<1>14. Taken(executed, run[p].mn + 1) = Taken(executed, run[p].mn) \cup {tx.id}
    BY <1>4, <1>12, TakenNext
<1>15. Taken(executed, run[p].mn + 1) \subseteq DOMAIN deployed
    <2>1. Taken(executed, run[p].mn + 1) \subseteq Taken(executed, Len(executed))
        BY <1>4, <1>5, TakenGrows
    <2> QED
        BY <1>4, <2>1 DEF ChainInv
<1>16. Up(o, name, deployed)
    BY <1>11, <1>13, <1>14, <1>15 DEF Up
<1>17. \A j \in 1..x.dn : Up(o, DeployOrder(o)[j], deployed)
    <2>1. \A j \in 1..(run[p].dn + 1) : j \in 1..run[p].dn \/ j = run[p].dn + 1
        BY <1>4
    <2> QED
        BY <1>2, <1>6, <1>16, <2>1
<1>18. \A n \in Claimed(o, x) : Id(o, n) \notin Taken(executed, x.mn)
    <2> SUFFICES ASSUME NEW j \in (x.dn + 1)..Len(DeployOrder(o))
                 PROVE  Id(o, DeployOrder(o)[j]) \notin Taken(executed, x.mn)
        BY <1>6 DEF Claimed
    <2>1. j \in (run[p].dn + 1)..Len(DeployOrder(o)) /\ j \in 1..Len(DeployOrder(o)) /\ j # k
        BY <1>3, <1>4, <1>6
    <2>2. DeployOrder(o)[j] \in Claimed(o, run[p])
        BY <1>1, <2>1 DEF Claimed
    <2>3. Id(o, DeployOrder(o)[j]) \notin Taken(executed, run[p].mn)
        BY <1>2, <2>2
    <2>4. DeployOrder(o)[j] # name /\ DeployOrder(o)[j] \in Names(o)
        BY <1>2, <1>7, <2>1, OrderFacts
    <2>5. Id(o, DeployOrder(o)[j]) # Id(o, name)
        BY <1>2, <1>9, <2>4, IdTypes
    <2> QED
        BY <1>6, <1>11, <1>14, <2>3, <2>5
<1>19. RunInv(x, executed, deployed)
    BY <1>2, <1>5, <1>6, <1>17, <1>18 DEF RunInv
<1>20. run' = [run EXCEPT ![p] = x] /\ UNCHANGED <<onchain, pending, reported>>
    BY DEF Confirmed, x, DeployInv
<1> QED
    BY <1>19, <1>20, RunMoves

LEMMA ReportsSuccess ==
    ASSUME DeployInv, NEW p \in Runs, ReportSuccess(p)
    PROVE  DeployInv'
<1> DEFINE r == run[p].request
           o == options[r]
<1>1. run[p].pc = "deploy" /\ run[p].dn = Len(DeployOrder(Opts(p)))
    BY DEF ReportSuccess
<1>2. /\ r \in Requests /\ Opts(p) = o
      /\ ValidArguments(o) /\ TokenThere(o, deployed)
      /\ \A j \in 1..run[p].dn : Up(o, DeployOrder(o)[j], deployed)
    BY <1>1, RunIs
<1>3. \A name \in Names(o) : \E j \in 1..Len(DeployOrder(o)) : DeployOrder(o)[j] = name
    BY <1>2, OrderFacts
<1>4. ReportedInv(r, deployed)
    BY <1>1, <1>2, <1>3 DEF ReportedInv
<1>5. RunInv(Ended, executed, deployed)
    BY DEF RunInv
<1>6. run' = [run EXCEPT ![p] = Ended] /\ UNCHANGED <<onchain, pending>>
      /\ reported' = reported \cup {r}
    BY DEF ReportSuccess
<1> QED
    BY <1>4, <1>5, <1>6, RunMoves


-----------------------------------------------------------------------------
(* deploy-hyperlane: the steps of the node.                                 *)

\* What may yet be executed has the next nonce at most, and is void once that
\* is taken.
LEMMA ChainMoves ==
    ASSUME DeployInv, ChainInv(executed', deployed'),
           Grows(executed, deployed, executed', deployed'),
           pending' = {t \in pending : t.nonce > Len(executed) + 1},
           UNCHANGED <<run, reported>>
    PROVE  DeployInv'
<1>1. pending' = {}
    <2> SUFFICES ASSUME NEW t \in pending, t.nonce > Len(executed) + 1 PROVE FALSE
        OBVIOUS
    <2>1. t.nonce \in 1..LastNonce /\ t.nonce <= Len(executed) + 1
        BY DEF DeployInv, PendingInv
    <2>2. Len(executed) \in Nat /\ LastNonce \in Nat
        BY ChainLength DEF DeployInv
    <2> QED
        BY <2>1, <2>2
<1>2. \A p \in Runs : RunInv(run[p], executed', deployed')
    BY RunStays DEF DeployInv
<1>3. \A r \in reported : ReportedInv(r, deployed')
    BY ReportedStays DEF DeployInv
<1>4. run' = run /\ reported' = reported /\ run = [p \in Runs |-> run[p]]
    BY DEF DeployInv
<1> QED
    BY <1>1, <1>2, <1>3, <1>4 DEF DeployInv

LEMMA TransactionId ==
    ASSUME NEW tx, NEW l, PendingInv(tx, l)
    PROVE  tx.id \in ContractIds /\ tx.id.contract # "other"
<1>1. PICK r \in Requests : \E k \in 1..Len(DeployOrder(options[r])) :
                                tx = Transaction(options[r], tx.nonce, k)
    BY DEF PendingInv
<1>2. PICK k \in 1..Len(DeployOrder(options[r])) : tx = Transaction(options[r], tx.nonce, k)
    BY <1>1
<1> DEFINE name == DeployOrder(options[r])[k]
<1>3. tx.id = ContractId(options[r], name, k - 1)
    BY <1>2 DEF Transaction
<1>4. tx.id = Id(options[r], name)
    BY <1>3, IdComputed
<1>5. name \in Names(options[r])
    BY OrderFacts
<1> HIDE DEF name
<1> QED
    BY <1>4, <1>5, IdTypes

LEMMA Executes ==
    ASSUME DeployInv, NEW tx \in pending, ExecuteDeployment(tx)
    PROVE  DeployInv'
<1>1. PendingInv(tx, executed) /\ ChainInv(executed, deployed)
    BY DEF DeployInv
<1>2. tx.nonce = Len(executed) + 1 /\ tx.nonce \in 1..LastNonce
      /\ tx.id \notin Taken(executed, tx.nonce - 1)
    BY <1>1 DEF ExecuteDeployment, PendingInv
<1>3. Len(executed) \in Nat /\ LastNonce \in Nat
    BY <1>1, ChainLength
<1>4. Len(executed) < LastNonce /\ tx.nonce - 1 = Len(executed)
    BY <1>2, <1>3
<1>5. tx.id \notin Taken(executed, Len(executed)) /\ DOMAIN deployed = Taken(executed, Len(executed))
    BY <1>1, <1>2, <1>4 DEF ChainInv
<1>6. tx.id \in ContractIds /\ tx.id.contract # "other"
    BY <1>1, TransactionId
<1>7. PICK ok \in BOOLEAN :
          /\ executed' = Append(executed, [tx |-> tx, ok |-> ok])
          /\ deployed' = IF ok /\ tx.id \notin DOMAIN deployed
                         THEN [id \in DOMAIN deployed \cup {tx.id} |->
                                  IF id = tx.id THEN tx.init ELSE deployed[id]]
                         ELSE deployed
    BY DEF ExecuteDeployment
<1> DEFINE e == [tx |-> tx, ok |-> ok]
<1>8. e.tx = tx /\ e.ok = ok /\ (Deploys(e) <=> ok)
    BY <1>6, <1>7 DEF Deploys
<1> HIDE DEF e
<1>9. /\ executed' = Append(executed, e)
      /\ deployed' = IF Deploys(e)
                     THEN [id \in DOMAIN deployed \cup {e.tx.id} |->
                              IF id = e.tx.id THEN e.tx.init ELSE deployed[id]]
                     ELSE deployed
    <2>1. executed' = Append(executed, e)
        BY <1>7 DEF e
    <2>2. deployed' = IF ok THEN [id \in DOMAIN deployed \cup {tx.id} |->
                                     IF id = tx.id THEN tx.init ELSE deployed[id]]
                            ELSE deployed
        BY <1>5, <1>7
    <2> QED
        BY <2>1, <2>2, <1>8
<1>10. /\ e.tx.nonce = Len(executed) + 1 /\ e.ok \in BOOLEAN
       /\ Deploys(e) => e.tx.id \notin Taken(executed, Len(executed)) /\ e.tx.id \in ContractIds
    BY <1>2, <1>5, <1>6, <1>8
<1>11. ChainInv(executed', deployed') /\ Grows(executed, deployed, executed', deployed')
    BY <1>1, <1>4, <1>9, <1>10, ChainAppends
<1>12. pending' = {t \in pending : t.nonce > Len(executed) + 1} /\ UNCHANGED <<run, reported>>
    BY <1>2 DEF ExecuteDeployment
<1> QED
    BY <1>11, <1>12, ChainMoves

LEMMA CallsOther ==
    ASSUME DeployInv, OtherCall
    PROVE  DeployInv'
<1> DEFINE e == [tx |-> [nonce |-> Len(executed) + 1, init |-> <<>>,
                         id |-> [contract |-> "other", build |-> 0, nonce |-> 0]],
                 ok |-> TRUE]
<1>1. ChainInv(executed, deployed)
    BY DEF DeployInv
<1>2. e.tx.nonce = Len(executed) + 1 /\ e.ok \in BOOLEAN /\ ~Deploys(e)
    BY DEF Deploys
<1>3. executed' = Append(executed, e) /\ deployed' = deployed /\ Len(executed) < LastNonce
    BY DEF OtherCall
<1> HIDE DEF e
<1>4. ChainInv(executed', deployed') /\ Grows(executed, deployed, executed', deployed')
    BY <1>1, <1>2, <1>3, ChainAppends
<1>5. pending' = {t \in pending : t.nonce > Len(executed) + 1} /\ UNCHANGED <<run, reported>>
    BY DEF OtherCall
<1> QED
    BY <1>4, <1>5, ChainMoves

-----------------------------------------------------------------------------
(* deploy-hyperlane: the theorems.                                          *)

LEMMA DeployStarts == DeployInit => DeployInv
<1> SUFFICES ASSUME DeployInit PROVE DeployInv
    OBVIOUS
<1>1. /\ deployed = [t \in Tokens |-> <<>>] /\ executed = <<>> /\ pending = {}
      /\ run = [p \in Runs |-> NotStarted] /\ reported = {}
    BY DEF DeployInit
<1>2. Taken(executed, 0) = Tokens
    BY DEF Taken
<1>3. Len(executed) = 0 /\ executed \in Seq({}) /\ LastNonce \in Nat /\ Tokens \subseteq ContractIds
    BY <1>1, DeployAssumption
<1>4. ChainInv(executed, deployed)
    BY <1>1, <1>2, <1>3 DEF ChainInv
<1>5. run = [p \in Runs |-> run[p]] /\ \A p \in Runs : RunInv(run[p], executed, deployed)
    BY <1>1 DEF RunInv
<1> QED
    BY <1>1, <1>4, <1>5 DEF DeployInv

\* The invariant of deployments: whatever is on chain came with a transaction that
\* found its id free, what is on the way has an id no earlier nonce took, and each
\* run has found the ids it still needs free at the nonce it has got to.
THEOREM DeployCorrect == DeploySpec => []DeployInv
<1>1. DeployInit => DeployInv
    BY DeployStarts
<1>2. DeployInv /\ [DeployNext]_dvars => DeployInv'
    <2> SUFFICES ASSUME DeployInv, [DeployNext]_dvars PROVE DeployInv'
        OBVIOUS
    <2>1. ASSUME NEW p \in Runs, RunStep(p) PROVE DeployInv'
        BY <2>1, ReadsNonce, ChecksToken, ChecksExists, BeginsDeploy, DeploysOne,
           Confirms, ReportsSuccess, StopsRun DEF RunStep
    <2>2. ASSUME NEW p \in Runs, NEW r \in Requests, StartRun(p, r) PROVE DeployInv'
        BY <2>2, StartsRun
    <2>3. ASSUME NEW tx \in pending, ExecuteDeployment(tx) PROVE DeployInv'
        BY <2>3, Executes
    <2>4. CASE OtherCall
        BY <2>4, CallsOther
    <2>5. CASE UNCHANGED dvars
        BY <2>5 DEF dvars, DeployInv
    <2> QED
        BY <2>1, <2>2, <2>3, <2>4, <2>5 DEF DeployNext
<1> QED
    BY <1>1, <1>2, PTL DEF DeploySpec

LEMMA DeployTypes ==
    ASSUME DeployInv
    PROVE  DeployTypeOK
<1>1. ChainInv(executed, deployed)
    BY DEF DeployInv
<1>2. PICK S : executed \in Seq(S)
    BY <1>1 DEF ChainInv
<1>3. DOMAIN executed = 1..Len(executed)
    BY <1>2
<1>4. /\ DOMAIN deployed \subseteq ContractIds
      /\ Len(executed) <= LastNonce
      /\ \A n \in DOMAIN executed : executed[n].tx.nonce = n /\ executed[n].ok \in BOOLEAN
    BY <1>1, <1>3 DEF ChainInv
<1>5. \A tx \in pending : tx.nonce \in 1..LastNonce /\ tx.id \in ContractIds
    <2> SUFFICES ASSUME NEW tx \in pending
                 PROVE  tx.nonce \in 1..LastNonce /\ tx.id \in ContractIds
        OBVIOUS
    <2>1. PendingInv(tx, executed)
        BY DEF DeployInv
    <2> QED
        BY <2>1, TransactionId DEF PendingInv
<1>6. ASSUME NEW p \in Runs, run[p] \notin {NotStarted, Ended}
      PROVE  /\ run[p].pc \in {"start", "token", "fresh", "deploy", "wait"}
             /\ run[p].request \in Requests
             /\ run[p].mn \in 0..LastNonce /\ run[p].dn \in 0..12
             /\ run[p].checked \in 0..12
    <2>1. RunInv(run[p], executed, deployed)
        BY DEF DeployInv
    <2>2. run[p] \in RunRecord
        BY <1>6, <2>1 DEF RunInv
    <2> QED
        BY <2>2 DEF RunRecord
<1>7. reported \subseteq Requests
    BY DEF DeployInv, ReportedInv
<1> QED
    BY <1>4, <1>5, <1>6, <1>7 DEF DeployTypeOK

\* No transaction that was executed deployed over a contract.
THEOREM NothingOverwrittenCorrect == DeploySpec => []NothingOverwritten
<1>1. DeployInv => NothingOverwritten
    <2> SUFFICES ASSUME DeployInv, NEW m \in DOMAIN executed, NEW n \in DOMAIN executed,
                        m < n, executed[m].ok, executed[n].ok,
                        executed[n].tx.id.contract # "other",
                        executed[m].tx.id = executed[n].tx.id
                 PROVE  FALSE
        BY DEF NothingOverwritten
    <2>1. ChainInv(executed, deployed)
        BY DEF DeployInv
    <2>2. PICK S : executed \in Seq(S)
        BY <2>1 DEF ChainInv
    <2>3. m \in 1..Len(executed) /\ n \in 1..Len(executed) /\ m \in 1..(n - 1)
        BY <2>2
    <2>4. executed[m].ok \in BOOLEAN /\ executed[n].ok \in BOOLEAN
        BY <2>1, <2>3 DEF ChainInv
    <2>5. Deploys(executed[m]) /\ Deploys(executed[n])
        BY <2>4 DEF Deploys
    <2>6. executed[n].tx.id \notin Taken(executed, n - 1)
        BY <2>1, <2>3, <2>5 DEF ChainInv
    <2> QED
        BY <2>3, <2>5, <2>6 DEF Taken
<1> QED
    BY <1>1, DeployCorrect, PTL

\* What the command line lets through, the contracts' init functions accept: for
\* every command line, gas configuration and set of validators.
THEOREM InitsAcceptedCorrect == DeploySpec => []InitsAccepted
<1>1. DeployInv => InitsAccepted
    <2> SUFFICES ASSUME DeployInv, NEW tx \in pending
                 PROVE  InitAccepts(tx.id.contract, tx.init)
        BY DEF InitsAccepted
    <2>1. PendingInv(tx, executed)
        BY DEF DeployInv
    <2>2. PICK r \in Requests :
              ValidArguments(options[r]) /\
              \E k \in 1..Len(DeployOrder(options[r])) : tx = Transaction(options[r], tx.nonce, k)
        BY <2>1 DEF PendingInv
    <2>3. PICK k \in 1..Len(DeployOrder(options[r])) : tx = Transaction(options[r], tx.nonce, k)
        BY <2>2
    <2> DEFINE name == DeployOrder(options[r])[k]
    <2>4. tx.id = ContractId(options[r], name, k - 1) /\ tx.init = InitArgs(options[r], name)
        BY <2>3 DEF Transaction
    <2>5. name \in Names(options[r])
        BY OrderFacts
    <2> HIDE DEF name
    <2>6. tx.id.contract = name
        BY <2>4 DEF ContractId
    <2> QED
        BY <2>2, <2>4, <2>5, <2>6, ArgumentsAccepted
<1> QED
    BY <1>1, DeployCorrect, PTL


\* Which contracts a contract names
LEMMA InitArgsName ==
    ASSUME NEW o
    PROVE  /\ InitArgs(o, "Mailbox").local_domain = o.domain
           /\ InitArgs(o, "Mailbox").default_hook = Id(o, "IGP")
           /\ InitArgs(o, "Mailbox").required_hook = Id(o, "AggregationHook")
           /\ InitArgs(o, "Mailbox").default_ism =
                 IF IsmOf(o) # <<>> THEN Id(o, "IsmMultisig") ELSE Id(o, "TestMock")
           /\ InitArgs(o, "MerkleTreeHook").mailbox = Id(o, "AggregationHook")
           /\ InitArgs(o, "ProtocolFee").mailbox = Id(o, "AggregationHook")
           /\ InitArgs(o, "ValidatorAnnounce").local_domain = o.domain
           /\ \A name \in {"IGP", "ValidatorAnnounce", "WarpDrc20", "WarpNative",
                           "WarpCollateral"} :
                 InitArgs(o, name).mailbox = Id(o, "Mailbox")
<1>1. InitArgs(o, "Mailbox") =
          [local_domain |-> o.domain,
           default_ism |-> IF IsmOf(o) # <<>> THEN Id(o, "IsmMultisig") ELSE Id(o, "TestMock"),
           default_hook |-> Id(o, "IGP"), required_hook |-> Id(o, "AggregationHook")]
    BY InitArgsOf
<1>2. /\ InitArgs(o, "Mailbox").local_domain = o.domain
      /\ InitArgs(o, "Mailbox").default_hook = Id(o, "IGP")
      /\ InitArgs(o, "Mailbox").required_hook = Id(o, "AggregationHook")
      /\ InitArgs(o, "Mailbox").default_ism =
            IF IsmOf(o) # <<>> THEN Id(o, "IsmMultisig") ELSE Id(o, "TestMock")
    BY <1>1
<1>3. /\ InitArgs(o, "MerkleTreeHook") = [mailbox |-> Id(o, "AggregationHook")]
      /\ InitArgs(o, "ProtocolFee") =
            [protocol_fee |-> 1, max_protocol_fee |-> 100,
             mailbox |-> Id(o, "AggregationHook")]
    BY InitArgsOf
<1>4. /\ InitArgs(o, "MerkleTreeHook").mailbox = Id(o, "AggregationHook")
      /\ InitArgs(o, "ProtocolFee").mailbox = Id(o, "AggregationHook")
    BY <1>3
<1>5. InitArgs(o, "ValidatorAnnounce") =
          [local_domain |-> o.domain, mailbox |-> Id(o, "Mailbox")]
    BY InitArgsOf
<1>6. /\ InitArgs(o, "ValidatorAnnounce").local_domain = o.domain
      /\ InitArgs(o, "ValidatorAnnounce").mailbox = Id(o, "Mailbox")
    BY <1>5
<1>7. InitArgs(o, "IGP") =
          [mailbox |-> Id(o, "Mailbox"), initial_configs |-> SortedByDomain(o.igp_domain_configs)]
    BY InitArgsOf
<1>8. InitArgs(o, "IGP").mailbox = Id(o, "Mailbox")
    BY <1>7
<1>9. /\ InitArgs(o, "WarpDrc20") = [mailbox |-> Id(o, "Mailbox")]
      /\ InitArgs(o, "WarpNative") = [mailbox |-> Id(o, "Mailbox")]
    BY InitArgsOf
<1>10. /\ InitArgs(o, "WarpDrc20").mailbox = Id(o, "Mailbox")
       /\ InitArgs(o, "WarpNative").mailbox = Id(o, "Mailbox")
    BY <1>9
<1>11. InitArgs(o, "WarpCollateral") =
           [mailbox |-> Id(o, "Mailbox"), wrapped_token |-> CollateralToken(o)]
    BY InitArgsOf
<1>12. InitArgs(o, "WarpCollateral").mailbox = Id(o, "Mailbox")
    BY <1>11
<1> QED
    BY <1>2, <1>4, <1>6, <1>8, <1>10, <1>12

\* A contract of a reported system: on chain, of the right code, as it was asked for.
LEMMA ReportedContract ==
    ASSUME NEW d, NEW r, ReportedInv(r, d), NEW name \in Names(options[r])
    PROVE  /\ Id(options[r], name) \in DOMAIN d
           /\ Id(options[r], name).contract = name
           /\ d[Id(options[r], name)] = InitArgs(options[r], name)
<1>1. Id(options[r], name).contract = name
    BY IdTypes DEF ReportedInv
<1> QED
    BY <1>1 DEF ReportedInv, Up

LEMMA ReportedToken ==
    ASSUME NEW d, NEW r, ReportedInv(r, d), options[r].warp_collateral # "none"
    PROVE  CollateralToken(options[r]) \in DOMAIN d
<1> DEFINE o == options[r]
<1>1. r \in Requests /\ ValidArguments(o) /\ TokenThere(o, d)
    BY DEF ReportedInv
<1>2. o.warp_collateral \in {"warp-drc20", "explicit"}
    BY <1>1, OptionTypes
<1>3. CASE o.warp_collateral = "warp-drc20"
    <2>1. WrapsDeployed(o) /\ o.warp_drc20
        BY <1>1, <1>3 DEF ValidArguments, WrapsDeployed
    <2>2. "WarpDrc20" \in Names(o)
        BY <2>1 DEF Names, Chosen
    <2>3. Id(o, "WarpDrc20") \in DOMAIN d
        BY <2>2, ReportedContract
    <2> QED
        BY <2>1, <2>3 DEF CollateralToken
<1>4. CASE o.warp_collateral = "explicit"
    BY <1>1, <1>4 DEF TokenThere, CollateralToken, WrapsDeployed
<1> QED
    BY <1>2, <1>3, <1>4

LEMMA ReportedIsm ==
    ASSUME NEW d, NEW r, ReportedInv(r, d)
    PROVE  LET o == options[r]
               ism == d[Id(o, "Mailbox")].default_ism
           IN  IF o.default_ism = "testMock"
               THEN ism \in DOMAIN d /\ ism.contract = "TestMock"
               ELSE /\ ism \in DOMAIN d /\ ism.contract = "IsmMultisig"
                    /\ ToSet(d[ism].validators) = ToSet(o.multisig_validators)
                    /\ d[ism].threshold = o.multisig_threshold
<1> DEFINE o == options[r]
           ism == d[Id(o, "Mailbox")].default_ism
<1>1. r \in Requests /\ ValidArguments(o)
    BY DEF ReportedInv
<1>2. "Mailbox" \in Names(o) /\ "TestMock" \in Names(o)
    BY DEF Names
<1>3. d[Id(o, "Mailbox")] = InitArgs(o, "Mailbox")
    BY <1>2, ReportedContract
<1>4. ism = IF IsmOf(o) # <<>> THEN Id(o, "IsmMultisig") ELSE Id(o, "TestMock")
    BY <1>3, InitArgsName
<1> HIDE DEF ism
<1>5. CASE o.default_ism = "testMock"
    <2>1. ism = Id(o, "TestMock")
        BY <1>4, <1>5 DEF IsmOf, Option
    <2>2. Id(o, "TestMock") \in DOMAIN d /\ Id(o, "TestMock").contract = "TestMock"
        BY <1>2, ReportedContract
    <2> QED
        BY <2>1, <2>2, <1>5 DEF ism
<1>6. CASE o.default_ism # "testMock"
    <2>1. o.default_ism = "messageIdMultisig"
        BY <1>1, <1>6, OptionTypes
    <2>2. "IsmMultisig" \in Names(o)
        BY <2>1 DEF Names, Chosen
    <2>3. IsmOf(o) = <<"IsmMultisig">>
        BY <2>1 DEF IsmOf, Option
    <2>4. \A a : <<a>> # <<>>
        OBVIOUS
    <2>5. ism = Id(o, "IsmMultisig")
        BY <1>4, <2>3, <2>4
    <2>6. ism \in DOMAIN d /\ ism.contract = "IsmMultisig" /\ d[ism] = InitArgs(o, "IsmMultisig")
        BY <2>2, <2>5, ReportedContract
    <2>7. InitArgs(o, "IsmMultisig") =
              [validators |-> Sorted(o.multisig_validators), threshold |-> o.multisig_threshold]
        BY InitArgsOf
    <2>8. d[ism].validators = Sorted(o.multisig_validators)
          /\ d[ism].threshold = o.multisig_threshold
        BY <2>6, <2>7
    <2>9. IsInjective(o.multisig_validators) /\ o.multisig_validators \in Seq(Nat)
        BY <1>1, <2>1, OptionTypes DEF ValidArguments, ValidMultisig, NoneTwice
    <2>10. ToSet(Sorted(o.multisig_validators)) = ToSet(o.multisig_validators)
        BY <2>9, SortedKeeps
    <2> QED
        BY <1>6, <2>6, <2>8, <2>10 DEF ism
<1> QED
    BY <1>5, <1>6

LEMMA ReportedHooks ==
    ASSUME NEW d, NEW r, ReportedInv(r, d)
    PROVE  LET o == options[r]
               required == d[Id(o, "Mailbox")].required_hook
           IN  /\ required \in DOMAIN d /\ required.contract = "AggregationHook"
               /\ d[required].mailbox = Id(o, "Mailbox")
               /\ \A k \in DOMAIN d[required].hooks :
                    LET hook == d[required].hooks[k]
                    IN  /\ hook \in DOMAIN d
                        /\ hook.contract = <<"MerkleTreeHook", "ProtocolFee">>[k]
                        /\ d[hook].mailbox = required
<1> DEFINE o == options[r]
           required == Id(o, "AggregationHook")
           log == Id(o, "MerkleTreeHook")
           charge == Id(o, "ProtocolFee")
<1>1. "Mailbox" \in Names(o) /\ "AggregationHook" \in Names(o)
      /\ "MerkleTreeHook" \in Names(o) /\ "ProtocolFee" \in Names(o)
    BY DEF Names
<1>2. d[Id(o, "Mailbox")] = InitArgs(o, "Mailbox")
    BY <1>1, ReportedContract
<1>3. d[Id(o, "Mailbox")].required_hook = required
    BY <1>2, InitArgsName
<1>4. /\ required \in DOMAIN d /\ required.contract = "AggregationHook"
      /\ d[required] = InitArgs(o, "AggregationHook")
    BY <1>1, ReportedContract
<1>5. /\ log \in DOMAIN d /\ log.contract = "MerkleTreeHook"
      /\ d[log] = InitArgs(o, "MerkleTreeHook")
    BY <1>1, ReportedContract
<1>6. /\ charge \in DOMAIN d /\ charge.contract = "ProtocolFee"
      /\ d[charge] = InitArgs(o, "ProtocolFee")
    BY <1>1, ReportedContract
<1>7. InitArgs(o, "AggregationHook") = [mailbox |-> Id(o, "Mailbox"), hooks |-> <<log, charge>>]
    BY InitArgsOf
<1>8. d[log].mailbox = required /\ d[charge].mailbox = required
    BY <1>5, <1>6, InitArgsName
<1> HIDE DEF required, log, charge
<1>9. d[required].mailbox = Id(o, "Mailbox") /\ d[required].hooks = <<log, charge>>
    BY <1>4, <1>7
<1>10. DOMAIN <<log, charge>> = {1, 2} /\ <<log, charge>>[1] = log /\ <<log, charge>>[2] = charge
    OBVIOUS
<1>11. ASSUME NEW k \in DOMAIN d[required].hooks
       PROVE  LET hook == d[required].hooks[k]
              IN  /\ hook \in DOMAIN d
                  /\ hook.contract = <<"MerkleTreeHook", "ProtocolFee">>[k]
                  /\ d[hook].mailbox = required
    <2>1. k = 1 \/ k = 2
        BY <1>9, <1>10
    <2>2. CASE k = 1
        <3>1. d[required].hooks[k] = log
            BY <1>9, <1>10, <2>2
        <3>2. <<"MerkleTreeHook", "ProtocolFee">>[k] = "MerkleTreeHook"
            BY <2>2
        <3> QED
            BY <3>1, <3>2, <1>5, <1>8
    <2>3. CASE k = 2
        <3>1. d[required].hooks[k] = charge
            BY <1>9, <1>10, <2>3
        <3>2. <<"MerkleTreeHook", "ProtocolFee">>[k] = "ProtocolFee"
            BY <2>3
        <3> QED
            BY <3>1, <3>2, <1>6, <1>8
    <2> QED
        BY <2>1, <2>2, <2>3
<1> QED
    BY <1>3, <1>4, <1>9, <1>11

\* A contract that serves the Mailbox names it.
LEMMA ReportedServes ==
    ASSUME NEW d, NEW r, ReportedInv(r, d), NEW name \in Names(options[r]),
           name \in {"IGP", "ValidatorAnnounce", "WarpDrc20", "WarpNative", "WarpCollateral"}
    PROVE  /\ Id(options[r], name) \in DOMAIN d
           /\ Id(options[r], name).contract = name
           /\ d[Id(options[r], name)].mailbox = Id(options[r], "Mailbox")
<1> DEFINE o == options[r]
<1>1. /\ Id(o, name) \in DOMAIN d /\ Id(o, name).contract = name
      /\ d[Id(o, name)] = InitArgs(o, name)
    BY ReportedContract
<1>2. InitArgs(o, name).mailbox = Id(o, "Mailbox")
    BY InitArgsName
<1> QED
    BY <1>1, <1>2

\* When success is reported the whole system is on chain with this run's settings,
\* at the ids printed, and each contract names the others rightly.
THEOREM WiredCorrect == DeploySpec => []Wired
<1>1. DeployInv => Wired
    <2> SUFFICES ASSUME DeployInv PROVE Wired
        OBVIOUS
    <2>1. DeployTypeOK
        BY DeployTypes
    <2>2. ASSUME NEW r \in reported
          PROVE  LET o == options[r]
                     mailbox == Id(o, "Mailbox")
                     Is(id, name) == id \in DOMAIN deployed /\ id.contract = name
                     Serves(name) ==
                         Is(Id(o, name), name) /\ deployed[Id(o, name)].mailbox = mailbox
                 IN  /\ Is(mailbox, "Mailbox") /\ deployed[mailbox].local_domain = o.domain
                     /\ deployed[mailbox].default_hook = Id(o, "IGP") /\ Serves("IGP")
                     /\ ToSet(deployed[Id(o, "IGP")].initial_configs) = ToSet(o.igp_domain_configs)
                     /\ Serves("ValidatorAnnounce")
                     /\ deployed[Id(o, "ValidatorAnnounce")].local_domain = o.domain
                     /\ o.warp_drc20 => Serves("WarpDrc20")
                     /\ o.warp_native => Serves("WarpNative")
                     /\ o.warp_collateral # "none" =>
                         /\ Serves("WarpCollateral")
                         /\ deployed[Id(o, "WarpCollateral")].wrapped_token \in DOMAIN deployed
        <3> DEFINE o == options[r]
        <3>1. ReportedInv(r, deployed)
            BY DEF DeployInv
        <3>2. "Mailbox" \in Names(o) /\ "IGP" \in Names(o) /\ "ValidatorAnnounce" \in Names(o)
            BY DEF Names
        <3>3. /\ Id(o, "Mailbox") \in DOMAIN deployed /\ Id(o, "Mailbox").contract = "Mailbox"
              /\ deployed[Id(o, "Mailbox")] = InitArgs(o, "Mailbox")
            BY <3>1, <3>2, ReportedContract
        <3>4. /\ deployed[Id(o, "Mailbox")].local_domain = o.domain
              /\ deployed[Id(o, "Mailbox")].default_hook = Id(o, "IGP")
            BY <3>3, InitArgsName
        <3>5. deployed[Id(o, "ValidatorAnnounce")] = InitArgs(o, "ValidatorAnnounce")
            BY <3>1, <3>2, ReportedContract
        <3>6. deployed[Id(o, "ValidatorAnnounce")].local_domain = o.domain
            BY <3>5, InitArgsName
        <3>7. ASSUME o.warp_collateral # "none"
              PROVE  deployed[Id(o, "WarpCollateral")].wrapped_token \in DOMAIN deployed
            <4>1. "WarpCollateral" \in Names(o)
                BY <3>7 DEF Names, Chosen
            <4>2. deployed[Id(o, "WarpCollateral")] = InitArgs(o, "WarpCollateral")
                BY <3>1, <4>1, ReportedContract
            <4>3. deployed[Id(o, "WarpCollateral")].wrapped_token = CollateralToken(o)
                BY <4>2, InitArgsOf
            <4> QED
                BY <3>1, <3>7, <4>3, ReportedToken
        <3>8. /\ o.warp_drc20 => "WarpDrc20" \in Names(o)
              /\ o.warp_native => "WarpNative" \in Names(o)
              /\ o.warp_collateral # "none" => "WarpCollateral" \in Names(o)
            BY DEF Names, Chosen
        <3>9. \A name \in Names(o) :
                  name \in {"IGP", "ValidatorAnnounce", "WarpDrc20", "WarpNative",
                            "WarpCollateral"}
                  => /\ Id(o, name) \in DOMAIN deployed /\ Id(o, name).contract = name
                     /\ deployed[Id(o, name)].mailbox = Id(o, "Mailbox")
            BY <3>1, ReportedServes
        <3>10. ToSet(deployed[Id(o, "IGP")].initial_configs) = ToSet(o.igp_domain_configs)
            <4>1. deployed[Id(o, "IGP")] = InitArgs(o, "IGP")
                BY <3>1, <3>2, ReportedContract
            <4>2. deployed[Id(o, "IGP")].initial_configs = SortedByDomain(o.igp_domain_configs)
                <5>1. InitArgs(o, "IGP") =
                          [mailbox |-> Id(o, "Mailbox"),
                           initial_configs |-> SortedByDomain(o.igp_domain_configs)]
                    BY InitArgsOf
                <5>2. InitArgs(o, "IGP").initial_configs = SortedByDomain(o.igp_domain_configs)
                    BY <5>1
                <5> QED
                    BY <4>1, <5>2
            <4>3. r \in Requests /\ ValidArguments(o)
                BY <3>1 DEF ReportedInv
            <4>4. /\ o.igp_domain_configs \in Seq(GasArguments)
                  /\ IsInjective(DomainsOf(o.igp_domain_configs))
                BY <4>3, OptionTypes DEF ValidArguments, ValidGasConfigs, NoneTwice
            <4> QED
                BY <4>2, <4>4, SortedConfigsKeep
        <3> QED
            BY <3>2, <3>3, <3>4, <3>6, <3>7, <3>8, <3>9, <3>10
    <2>3. ASSUME NEW r \in reported PROVE ReportedInv(r, deployed)
        BY DEF DeployInv
    <2> QED
        BY <2>1, <2>2, <2>3, ReportedHooks, ReportedIsm DEF Wired
<1> QED
    BY <1>1, DeployCorrect, PTL
=============================================================================
