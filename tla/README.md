# hyperlane-dusk in TLA+

A verification project for the Hyperlane implementation on Dusk: TLA+ modules
translated from the Rust contracts, small instances TLC checks, and theorems
TLAPS proves for every value of the constants. Paths below are relative to the
repository; line numbers of each definition are in `PROJECT.json` under `map`.

## 1. The system

A Dusk chain runs the contracts in the Piecrust VM. Other chains, validators and
relayers are outside the repository. Calls between contracts (`abi::call`) are
synchronous, a callee may call back into a contract that is still executing, and
a failing call undoes everything since it began unless the caller handles the
error (SECURITY_REVIEW.md, "Synchronous reentrancy is supported"). So the
system's concurrency is not threads: it is *who runs between two calls of a
contract*, and *what a failure takes back*.

| component | state | operations | talks to |
|---|---|---|---|
| Mailbox | owner, default ISM, default and required hook, nonce, `dispatching`, message log, delivery records and index, fee credits | init, dispatch, process, fund / receive / withdraw credit, administration | hooks (quote, post, pay), ISM, recipients, transfer contract |
| ProtocolFee | fee, beneficiary, pending payment, collected fees | quote, post, receive payment, claim, administration | called by Mailbox or AggregationHook |
| InterchainGasPaymaster | gas configurations, beneficiary, pending payment, gas records, collected fees | quote, post, receive payment, claim, administration | called by Mailbox |
| AggregationHook | children, pending payments | quote (sum), post (forward), receive payment (split) | called by Mailbox, calls its children |
| MerkleTreeHook | tree, inserted ids and roots | post (insert) | called through the aggregation; read by validators |
| WarpNative | owner, hook, ISM, routers, registered accounts, pending claims and their sum, DUSK custody | register, transfer_remote, handle, two claims, administration | Mailbox, transfer contract, claiming contracts |
| WarpDrc20 | the same, and a DRC20 token | the same, and transfer, approve, transfer_from | Mailbox |
| WarpDrc20Collateral | the same, and custody of a wrapped token | the same | Mailbox, wrapped token |
| MessageIdMultisigISM | validators, threshold, owner | verify, administration | called by Mailbox |
| ValidatorAnnounce | locations, replay ids | announce | read by agents |
| Incremental Merkle tree | branch, count | insert, root, checkpoint | library of MerkleTreeHook |
| dusk-tx | what one run has read and signed: observed chain, quote, account and deployment nonces, printed hash | sign one transaction, propagate it and wait for its outcome; deploy and wire all contracts | a Rusk node over HTTP, which loses and delays; other runs with the same key |
| other types, data driver, WASM and TypeScript bindings | none | encodings | everyone |
| e2e, demo, scripts, test contracts | none | testing and release | |

How they interact:

- *Outbound.* Somebody funds credit; a route or account calls `dispatch`, which
  quotes both hooks, takes the sum from the sender's credit, logs the message,
  calls and pays the required hook and then the selected hook. Each of these is a
  call that may come back into the Mailbox.
- *Inbound.* A relayer calls `process`: the recipient is asked for its ISM, the
  delivery is recorded, the ISM verifies, the recipient handles.
- *Between chains.* A message logged on one chain is submitted on another by
  relayers, who may come in any number, forget and repeat; the route at the other
  end handles what its owner has enrolled.
- *Operators* act through dusk-tx, several at once with one key if they like.
- *Routes* are clients of the Mailbox on both paths: they take value before
  `dispatch` and give it in `handle`, or promise it (`pending_transfers`) when the
  recipient is not a registered account.

What is hard in it: state read before a call and used after it (quotes, the
required hook, the delivered check); announcements that a later call must settle
(`pending_payment`); failures after value has moved; custody that several claims
compete for; sums kept beside the entries they sum; products of narrow integers;
two cursors that must agree; pages read while the list grows; an outcome the
client could not learn, and a second run beside the first.
`PROJECT.json` lists these hazards with their lines and the properties aimed at
them, and says of the two no run checks why.

What makes each component correct:

- Mailbox: the log is gapless and in nonce order, the required hook sees it in
  that order, the guard is never left stuck, each message is handled at most once
  and recorded exactly when it is handled, credits are backed unit for unit.
- Fee hooks: no announcement outlives its dispatch, fees owed are fees held, a
  stored gas configuration prices every supported limit, each gas record names
  the message that paid for it, the Merkle tree follows the log.
- Routes: promises are backed (custody, or supply capacity), nobody is paid twice
  or more than its messages carried, value is taken exactly when a message says
  so, a transfer leaves the credit the owner funded alone.
- MultisigISM: what is accepted has a quorum of different signers, and a quorum
  is never refused. ValidatorAnnounce: nobody is locked out or overlooked.
- Client: nothing is executed twice, no reported outcome is untrue, every run
  ends; a deployment that reports success is complete and mutually wired.
- The bridge as a whole: value is neither duplicated nor lost between chains, and
  a transfer arrives as long as relayers try.

## 2. Modules

| module | models | run | proofs |
|---|---|---|---|
| `Mailbox` | contracts/mailbox | `mailbox`, `mailbox_reentrant_ism` | `MailboxProofs` |
| `ProtocolFee`, `AggregationHook`, `MerkleTreeHook` | the hooks of these names | in the composition | `MailboxProofs` |
| `GasPrices` | the price of a delivery and the configurations that have one (contracts/igp) | through the two that extend it | `MailboxProofs`, `DuskTxProofs` |
| `InterchainGasPaymaster` | contracts/igp | `hooks_alone` and in the composition | `MailboxProofs` |
| `IncrementalMerkle` | types/src/merkle.rs | `hooks_alone` | `MailboxProofs` |
| `HookedMailbox` | Mailbox composed with the hooks as dusk-tx deploys them | `hooked_mailbox` | `MailboxProofs` |
| `WarpRoute` | what the three routes have in common | through each route | `WarpRouteProofs` (lemmas) |
| `WarpNative` | contracts/warp-native | `warp_native`, `warp_native_claim` | `WarpNativeProofs` |
| `WarpDrc20` | contracts/warp-drc20 | `warp_drc20` | `WarpDrc20Proofs` |
| `WarpDrc20Collateral` | contracts/warp-drc20-collateral | `warp_collateral` | `WarpDrc20CollateralProofs` |
| `MultisigIsm` | contracts/ism-multisig | `validators` | `ValidatorsProofs` |
| `ValidatorAnnounce` | contracts/validator-announce, and an agent that reads it | `validators` | `ValidatorsProofs` |
| `DuskTx` | one transaction of dusk-tx, from arguments to outcome | `dusk_tx` | `DuskTxProofs` |
| `SubmissionPromise` | what dusk-tx promises its operator (abstract) | implemented by `DuskTx` | `DuskTxProofs` |
| `DeployHyperlane` | `deploy-hyperlane` of dusk-tx | `deploy_hyperlane` | `DuskTxProofs` |
| `Bridge` | routes of several chains, Mailboxes and relayers | `bridge` | `BridgeProofs` |
| `Remittance` | what a bridge promises its users (abstract) | implemented by `Bridge` | `BridgeProofs` |

`MC*` modules and `MC*.cfg` files are the instances. Where a module needs no
definitions for its instance, the `.cfg` is run on the module itself. `MCHooks`
and `MCValidators` each run two components that share no state; a behaviour of
the instance is a behaviour of one of the two. `MCHooks` does so beside a Mailbox
at rest, so that `MailboxProofs`, which extends it, can speak of all three. Operators whose comment begins
with "Mutant" are not part of a specification: each is a plausible bug in place
of the definition that follows it, and shows that a property would notice.

### Calls, re-entrancy and failure

`Mailbox` and `WarpRoute` share one idea. A handler is cut at the calls it makes;
a step is the code between two calls. `stack` holds one frame per call in
progress, with the local variables the code keeps across calls (`required_fee`,
`credit_before`, ...), where the code waits (`pc`), and `saved`, the storage at
entry. Whoever is on the other side of the top frame's call may

- return: the step for the frame's `pc`,
- call back: any entry point, as a contract (`Callers` is every identity at the
  root and only contracts inside a call, as `caller::effective_caller` has it),
- fail: `Abort` restores `saved` and drops the frame. The frame below then sees a
  failed call and, unless the code handles it, can itself only be aborted; since
  the environment is free to abort it at that point or not, the model allows a
  caller to handle the error, which some callers of these contracts do.

The one error a contract handles is the Mailbox's, when a recipient's ISM query
fails: `ResolveIsmFails` undoes what the query did and goes on with the default.

History variables (`posted`, `handled`, `gas_bought`, the `ledger` of a route
except its `credit`) record what happened for the properties; they are
restored by failures like storage.

### Mailbox

`Dispatch`, `QuoteRequired`, `QuoteHook`, `PostRequired`, `PayRequired`,
`PostHook`, `FinishDispatch` are `dispatch` and `call_hook_with_payment`;
`Process`, `ResolveIsm`/`ResolveIsmFails`, `Verified`, `FinishProcess` are
`process` and `resolve_recipient_ism`; `FundDispatch` stands for both ways to
fund. A message stands for its encoding and its id (keccak256 is taken to be
injective). `init` runs when the VM deploys the contract; no call comes before it.
The per-message block heights are left out.

### Hooks and their composition

`HookedMailbox` extends `Mailbox` and replaces its hook steps by steps in which
the called hook does its part; `saved` restores hook storage with each Mailbox
frame. The required hook is the aggregation of the tree and the protocol fee, the
default is the paymaster (cmd_deploy_hyperlane), and a dispatch may select a
`Custom` hook that may call back. The deployed hooks make no callbacks (their
code calls only quotes and transfers), so each is one step. Destination and gas limit
are functions of the message. The composition leaves process and Mailbox
administration to `Mailbox`, and includes the hooks' own administration and claims.

`GasPrices` keeps the widths of the integers of `quote_gas_payment` (`MaxU128` for
the two products, `MaxU64` for the payment), because the property is about them.
`InterchainGasPaymaster` and `DeployHyperlane`, whose command line computes the same
price in code of its own, extend it. In the composition a Merkle root stands for the sequence of leaves
under it. That it may is the subject of `IncrementalMerkle`, which has the branch
algorithm over symbolic hashes (a hash is the pair of its inputs) and compares its
root with that of the complete tree padded with zeros, up to the last leaf.

### Warp routes

`TransferRemote` runs up to the quote; `Quoted` takes the value (`WarpNative`: the
deposit; `WarpDrc20`: the burn; `WarpDrc20Collateral`: the lock with its check) and
forwards the fee; `MailboxCharges` is what `dispatch` does to this route's credit,
at a price quoted *again*; `FinishTransfer` is the comparison with
`credit_before`. `Handle` is the delivery, which the Mailbox makes; `Settle` is the
common part of the claims. In `WarpNative` a contract's claim calls
`receive_native_pending` before it returns, so `ClaimPendingContract` and
`FinishClaim` are two steps with anything between them.

`MaxDepth` bounds the calls of a route in progress. `WarpDrc20` is run with 1: while
it waits on a call, its other entry points need no frame of their own (token
operations, handling, claims) and the Mailbox refuses a dispatch inside another.
The theorems hold for every depth.

A deposit is paid by the transaction, and the environment decides whether it is
there; that lets a transaction deposit more than once, which only adds
behaviours. In `WarpDrc20Collateral` the wrapped token is not this repository's
code: it moves what it is asked to, or, with `Inexact`, a unit less or more, and
its holders may send tokens to the route. It makes no callbacks; a token that did
is a hazard listed as not covered. `register_account` and `claim_pending` use the
account of the transaction at any call depth (`abi::public_sender`).

### MessageIdMultisigISM and ValidatorAnnounce

In `MultisigIsm` the loop of `verify` is one action per move of a cursor, so that
its invariant can be stated; nothing else runs until it answers. A signature is a
signer and a digest, and a digest is the tuple of what is hashed; recovering a
signature of something else yields `Stranger`. Validators may have signed
anything, metadata may carry any signatures in any order, repetitions included.

In `ValidatorAnnounce` refusals after the first write are panics, which undo the
call, so `Announce` is guarded by all of them. `BeginWalk`, `ReadPage`, `EndWalk` are an
agent that reads the announcements the way the query's `start` and `limit` are
made for, while validators announce; the agent itself is not in the repository.

### The client

`DuskTx`: a process runs one subcommand. `Commands` has for each subcommand that
sends a transaction the order in which it parses, reads keys, asks for the chain,
the quote and the account, which differs between them. An action is one request
or one such step. `prepared` is the hash printed before propagation. A transaction
in `sent` may be executed at any later time or never; `Execute` is the node, which
takes one transaction per nonce. `PropagateAnswered` and `Statuses` are the answers
the client must cope with, most of which say nothing; `Rounds` counts polls up to
the deadline. `Crash` kills a process anywhere. `Start` asks again only for what was
reported to have failed, which is what the client's messages tell the operator to
do; `Reconcile` is the operator looking up an unknown hash later.

`DuskTx` implements `SubmissionPromise` with `applied` = the intents of successful
ledger entries and `told` as it is.

`DeployHyperlane`: contract ids are computed from code, deployer and a counter
before the first transaction, in one order (`Precomputed`), looked up in another
(`CheckOrder`) and deployed in a third piece of code (`DeployOrder`). Runs share the
key, hence the account nonce, with each other and with other calls; any of them
stops anywhere, and a failing transaction takes its nonce. How a single
transaction is sent is `DuskTx`; here it is sent, and its outcome is read or not.

`ValidArguments` is what the command line lets through. `ConfigArgument` is its own
check of a gas configuration, computed by the client (`validate_igp_domain_config`)
before anything is deployed; `InitArgs` are the arguments each contract is then
initialized with, the paymaster's configurations sorted by domain among them; and
`InitAccepts` is what the contracts' `init` functions assert of these, one operator
for each contract that asserts anything but non-zero ids. The paymaster's is
`ValidConfig`, the contract's own check of each configuration.

### The bridge

In `Bridge` an action is a whole transaction: what happens inside one is the subject
of the modules above, and it takes effect on all contracts or none. Left out are
fees (so a transfer moves its amount only) and verification (a dispatched message
can be delivered; that others cannot is `MultisigIsm`). What remains is what no
single chain shows: one native and several synthetic routes, routers enrolled by
different owners at different times, messages of strangers, relayers.

`Bridge` implements `Remittance`, which knows only people's purses and
the remittances sent and arrived: a purse is what somebody holds on every chain
plus what they can claim there. Routes, custody, supplies, claims and enrollments
are invisible to it.

## 3. Runs

All runs are exhaustive. All but `deploy_hyperlane` check for deadlock; there the
runs of the command are one-shot, and when they are over the system may stop.
States are distinct states.

| run | states | what it shows |
|---|---|---|
| `mailbox` | 1.8M | `DispatchLog`: slot n of the log holds nonce n and the latest id is the last slot's; `GuardTracksDispatch`: the guard is set exactly while one dispatch runs; `RequiredHookOrder`; `Solvent`: custody is credits plus what a running dispatch still owes its hooks; `PaidAsQuoted`: the required hook that is paid is the one quoted, unless a contract owned the Mailbox when the dispatch began; `DeliveredOnce`, `DeliveredMeansHandled`, with ISM queries that are views |
| `mailbox_reentrant_ism` | violation | `DeliveredOnce` fails when the ISM query re-enters `process` with the same message: the delivered check comes before the query, the record after it |
| `hooks_alone` | 235k | `RootIsReference`: after any insertions the root is that of the complete tree; `EveryLimitQuotable`: checking a configuration at limits 1 and the maximum is enough for every limit between |
| `hooked_mailbox` | 403k | `NothingPending`: no dispatch leaves a hook waiting for a payment unless a price changed under it; `FeesBacked`, `CheckpointsMirrorLog`, `GasRecordsMatch`, prices changing in the middle of dispatches included |
| `warp_native` | 846k | `Backed`: custody covers the promises and beyond them is what came in less what went out; `PendingTotalIsSum`; `PaidOnce`; `TakenIsSent`; `StandingCreditKept` |
| `warp_native_claim` | violation | `PaidAreRegistered`, which a comment states, fails: claims do not look at the registry |
| `warp_drc20` | 761k | `SupplyIsSum` with allowances and self transfers; `Conserved`: supply and promises are what came in less what went out and fit a u64; `ClaimsSucceed`: every promise can be minted; `TakenIsSent` |
| `warp_collateral` | 1.0M | `Backed`, `TakenIsSent` with an inexact token |
| `validators` | 397k | `QuorumSigned`: an accepted message has `threshold` different registered signers of its checkpoint; `QuorumAccepted`: signatures of that many in order are accepted; `NeverLockedOut`; `WalkComplete`; liveness `WalkEnds` |
| `dusk_tx` | 187k | `LiveIsKnown`: while a transaction may be executed the operator holds its hash and is not told to ask again; `KeysForPinnedChain`; refinement `PromiseKept`; liveness `InvocationEnds` |
| `deploy_hyperlane` | 327k | `Wired`: what is reported as deployed is complete and names each other; `NothingOverwritten`; `InitsAccepted`: what the command line lets through, gas configurations and validators included, no contract refuses |
| `bridge` | 88k | `Conserved`: custody is what exists elsewhere, is owed and is on its way; `NoneRefused`: there is custody or capacity for all transfers in flight together; refinement `RemittanceKept`; liveness `TransfersArrive` |

Bounds, and why the interesting cases occur within them:

- `MaxDepth` is the number of calls of the modelled contract in progress (3 for
  the Mailbox, 2 for the composition and two routes, 1 for `WarpDrc20`, see
  section 2): a callback inside a call, and for the Mailbox a callback inside
  that. It stands for the VM's call depth and gas.
- `MaxU64` is 2 or 3, with amounts up to it, so that overflow, exact fits and
  refusals all happen; the theorems hold for every value. In `hooks_alone` the
  integers are narrow enough (7 and 55) that each product overflows for some
  configuration and each rounding to zero occurs.
- `MaxNonce` is 2 for Mailboxes: the log, order and tree properties need two
  messages.
- `TreeDepth` is 4: sixteen slots, every pattern of carries, and the last leaf the
  tree takes. `EveryLimitQuotable` uses limits below, at and above the maximum.
- `MaxTaken`, `MaxCredit`, `MaxReceived` bound what enters a route from outside.
  In the routes' own runs, deliveries are bounded by custody or supply, not by the
  Mailbox: a route is checked against *any* deliveries an enrolled router's
  messages can cause. `bridge` has the peers.
- One or two accounts and contracts: properties relate one recipient to the route
  or two recipients competing for custody, which an account and a contract are.
- Hooks are symmetric in `mailbox`, runs in `deploy_hyperlane` (told apart only by
  equality). No run with symmetry checks liveness.
- Owners in `mailbox` are an account and a contract. A contract that owns the Mailbox
  may administer it whenever it is called back, and every property of the run is
  checked with one that does. That multiplies the states, so `ContractOwnedBound`
  bounds what is reached with such an owner: calls nested twice, which is what an
  administration inside a dispatch takes, and no deliveries; delivery reads no
  setting but the default ISM, and any ISM is in the bounds anyway.
  `PaidAsQuoted` alone asks who owned the Mailbox when the dispatch was entered: a
  contract that did can change the required hook between a quote and its use, and
  no document says that it may not. In `hooked_mailbox` and the routes' runs the
  owner is a contract as well, and `NothingPending` says what still holds: the flag
  `repriced` remembers a price changed during a dispatch.
- In `hooked_mailbox` one child of the aggregation charges, as deployed: a failure
  between the payments of two charging children is not in its bounds. A failure
  after the required hook has been paid is.
- `validators`: three keys, up to three signatures, all thresholds and sets of
  validators, two messages (so that signatures for the other message exist); four
  announcers, pages of one or two, a location limit of one, a location that is too
  long and signatures for another mailbox.
- `dusk_tx`: two processes; three intents with the three orders of steps,
  one of them malformed and one pinned to a chain; two nonces, so that two
  transactions compete for one and one waits behind another; three fees of which
  one overflows the deposit; two polls.
- `deploy_hyperlane`: two runs; twenty command lines, five complete ones (nearly
  nothing, validators added, rebuilt code, everything, somebody else's token) and
  fifteen with one mistake each, five of them in a gas configuration: a price or a
  rate of zero, a price that rounds to zero, one that exceeds u64 at the largest limit
  and one whose product overflows, with integers as narrow (8 and 40) as needed
  for that; nonces for both a full and a second run to be
  interrupted; one other call of the key.
- `bridge`: three chains in a line with home at one end, so that transfers pass
  through a chain that both mints and forwards; one account that owns all DUSK
  (2, the most that fits) and one contract; three messages. The owners enroll both
  directions, as the demo does (REASSESSMENT_2026-07-20.md:158), at any time.

**Fairness.** The contracts' specifications assume none: a transaction runs to its
end or is undone, and nothing in the contracts waits. Where something waits:

- `WF(ClientStep(p))` in `DuskTx`: every request has a timeout and the wait for the
  outcome a deadline, so a process always gets its turn (rues.rs and
  `wait_for_transaction`). Nothing is assumed of node, network or operator:
  `InvocationEnds` holds when nobody ever answers.
- `WF(ReadPage)` in `ValidatorAnnounce`: an agent goes on with a walk it has begun.
  Nobody has to announce, and nobody has to stop.
- `WF(Relay(c, n))` in `Bridge`: some relayer keeps submitting each message that can
  be handled. Relayers may restart and duplicate, which e2e scripts of the
  repository exercise (`e2e-relayer-restart-stress.sh`,
  `e2e-duplicate-relayer-attempt.sh`, demo/README.md); that one keeps trying is what
  running a relayer means. No fairness for sending, enrolling or claiming.

What the abstract promises say is taken from what the repository's documents say
of the code, then checked against the code: PRODUCTION_REVIEW_DECISIONS.md:107-131,
CLOSURE_REASSESSMENT_DECISIONS_2026-07-20.md:124-134,
FINAL_RED_TEAM_DECISIONS_2026-07-21.md:41-50 and demo/README.md:239-243 on the
client, REASSESSMENT_2026-07-20.md and SECURITY_REVIEW.md on the routes.

## 4. Proofs

Every invariant, action property and refinement that a passing run checks is a
theorem for all values of the constants. The provers' assumptions are the named
`ASSUME`s of the modules on their constants (disjoint identities, amounts within
the integer width, ...), which TLC evaluates on every run, and the hypotheses
written in a theorem's own statement; those are named below.

Most arguments here have one shape. A call may fail at any point and put back what
was there when it began, so no statement about the current state alone is
inductive: the invariant is about *levels*, the current state and the one each
frame would restore. `Abort` then moves to a state the invariant already speaks of.

*Mailbox* (`MailboxProofs`). `TypeCorrect` is `TypeOK`. Over the levels:

- `LogInv` says that log, guard and required hook agree, and how levels nest: a
  frame below a running dispatch was saved with the guard as the frames under it
  imply. `DispatchLogCorrect`, `GuardCorrect` and `HookOrderCorrect` follow.
- `BalancedInv`: what a level's custody holds beyond its credits is exactly what the
  dispatch around it has reserved for its hooks. `SolventCorrect` is its top level,
  for a finite set of identities; the sum of the credits is the number of units they
  consist of.
- `SettledInv`: every level above a frame has the settings the frame was entered with,
  unless a contract owned the Mailbox then, because only the owner changes them and
  nobody but a contract calls inside a call. Hence `PaidCorrect`, which needs no
  hypothesis about owners: the case it leaves out, in which it would be false, is in
  the property, frame by frame.
- `RecordedInv`: at each level the delivery records, the index and what was handed
  over agree, but for the messages whose frames are between the record and the
  recipient. `DeliveryCorrect` needs no hypothesis. `OnceInv` adds that these
  messages are all different, which takes ISM queries that do not call back:
  `DeliveredOnceCorrect`, under `~ReentrantIsmQuery`. With callbacks it is false
  (section 7).
- `RenouncedCorrect` (an owner once given up is never regained, an action property
  proved only): once the lowest level, what is committed, is renounced, all are. A
  renouncement inside a transaction that fails is undone with it.

*Mailbox with its hooks* (`MailboxProofs`). The deployed hooks answer at once and a
second dispatch is refused, so there is at most one frame: `HookedInv` says the system
is idle, or one dispatch is at some `pc` with precisely the announcements, records
and payments that belong to it, and the hooks' saved storage is that of an idle
system. `NothingPendingCorrect`, `FeesBackedCorrect`, `CheckpointsCorrect` and
`GasRecordsCorrect` read their parts off it, with owners that reprice during a
dispatch. `HookedRefines`: the composition implements the Mailbox whose hooks may
answer any fee, so hooks add nothing a bare Mailbox could not meet.

*Paymaster* (`MailboxProofs`). `ValidConfigQuotable`: the payment is monotone in the
gas limit, so the checks at both ends of the range bound every limit between.
`PricesCorrect` lifts it to every configuration the paymaster alone can reach, and
`HookedPricesCorrect` to the composition.

*Merkle tree* (`MailboxProofs`). `BranchInv`: on each level where the count has its bit
set, the branch holds the node of the complete tree just left of the path to the
first free place. `Insert` stores a node exactly where the carry of the count ends,
and that node is complete (`CarriedIsNode`, `InsertKeepsTree`); nodes that no leaf
has reached are those of `ZERO_HASHES` (`EmptyNodes`). `RootOfTable` then climbs the
path. `RootCorrect` holds for every depth and number of leaves. Definitions by
recursion over the levels are functions here, and induction over the levels is
`LevelByLevel`, stated for a set of levels and proved from the least missing one.
Hashes are terms, so no hypothesis about them is needed.

*Routes.* `WarpRouteProofs` proves once what each common step does to a set of
"sound" states the frames may save; the route's module then says what sound
means and proves its own steps keep it. For `WarpNative`, sound is `Balanced` (custody
covers promises, and the rest is taken less received), `PaidUp` (paid plus
pending is credited, for each recipient) and that the reserve is the sum of the
entries: `NativeBacked`, `NativePaidOnce`, `NativePendingTotal`. For `WarpDrc20`, sound
relates supply instead of custody, and supply is the sum of the balances:
`SyntheticConserved`, `SyntheticPaidOnce`, `SyntheticPendingTotal`, `SyntheticSupply`,
and from both sums `SyntheticClaimsSucceed`. For `WarpDrc20Collateral`, custody is at
least promises and what is locked, because the token's holders may add to it and the
checks around each transfer keep the token from taking more: `CollateralBacked`,
`CollateralPaidOnce`, `CollateralPendingTotal`. The theorems about sums are for a
finite set of identities. The library's fold is known to the provers only by its
recursion; a sum is shown to be the cardinality of the set of units it counts, by
taking a least set of indices where the two differ.

`Books`, in `WarpRouteProofs`, is about the calls in progress of any route: at most
one of them dispatches, what it has taken and not sent is the difference between
taken and sent at every level above it, and no level has lowered the standing
credit except through the charge that `FinishTransfer` must find made good. It gives
`TakenIsSent` and `StandingCreditKept` for each route.

*MessageIdMultisigISM* (`ValidatorsProofs`). `TypeCorrect` and `ConfigCorrect`
(validators are ascending and distinct, the threshold is between one and their
number, always). The loop's invariant says which signers the cursors have matched:
strictly ascending validators, one for each signature counted. `QuorumSignedCorrect`
counts them as a set; `QuorumAcceptedCorrect` says the validators' cursor has never
passed the next signer of a well-ordered quorum.

*ValidatorAnnounce* (`ValidatorsProofs`). `AnnounceInv`: the order of announcements,
the locations and the replay ids are three records of one history. A validator can
only be refused for what is recorded, and only what was accepted is recorded:
`NeverLockedOutCorrect`. A walk has read the first k validators, each one's
locations as far as they went then; as the list only grows at its end, this gives
`WalkCompleteCorrect`, for every page size.

*Client* (`DuskTxProofs`). The invariant `Inv` says that an intent has at most one
transaction that may still be executed, that it is the one whose hash was printed
last, that nobody has been told to ask again while there is one, and that a
process which has not propagated leaves nothing behind; `LedgerInv`, that an entry's
nonce is its position. From it `LiveIsKnownCorrect`, `KeysForPinnedChainCorrect` and
the refinement `PromiseCorrect`: `Spec => PromiseKept`, for any number of processes,
intents, chains, fees and nonces.

*deploy-hyperlane* (`DuskTxProofs`). `DeployInv`: the ids on chain are those the executed
transactions deployed, each free when its transaction came. A run reads its nonce
*before* it looks its ids up, so what it finds free was free at that nonce; if
another transaction deploys there since, it has taken the nonce, and the run's own
can no longer be executed. This gives `NothingOverwrittenCorrect` and `WiredCorrect`, for any
number of runs. `SameConfigs`: what the command line computes about a gas configuration
and what the paymaster asserts agree, though they compare differently.
`InitsAcceptedCorrect`: the checks of the command line imply every assertion of the
contracts' `init` on the arguments it is given, whichever command line it is. Sorting
keeps the configurations and makes the validators ascending as the ISM compares
them; that ids are not zero is the hash's.

*The bridge* (`BridgeProofs`). `BridgeInv` has five parts: `Shape`; `Holdings` (what
people hold is custody or supply); `Promises` (each reserve is the sum of its
entries); `Backed` (custody is what is owed, exists elsewhere or is in flight);
`Numbered` (nonces given out are below the next). Sums are over any finite set of
chains, people and messages, and proved to change with their summands as for the
routes. `BridgeConserves`; `BridgeRefusesNone`, since what is in flight is a part of
what `Backed` sums and the whole fits the integers; and `BridgeKeepsPromise`, the
refinement of `Remittance`: a send takes from one purse, a delivery gives to one, and
every other step moves value between pockets of the same purse.

## 5. Checked but not proved

- Liveness, `InvocationEnds`, `WalkEnds` and `TransfersArrive`: proofs need `ENABLED`,
  which is beyond the installed provers. These three stay with TLC, on instances.
- `DeliveredOnce` with re-entrant ISM queries and `PaidAreRegistered` are false and
  shown to be by TLC (section 7).
- The library's induction theorems take an operator as parameter, which the
  installed provers cannot instantiate. Where a proof needs induction, over levels
  of the tree, summands of a sum or positions in a list, it takes a minimal
  counterexample in a well-founded set instead (`WFMin`).

A theorem is about the model. Between model and code stand the abstractions of
section 2 (hashes that do not collide, transactions that take effect whole or
not at all, callbacks only where the code calls).

## 6. Plan

Done: every contract, the Mailbox composed with its hooks, the client and its
deployment, and the bridge; refinement and liveness for the last two and for the
client; a theorem for every safety property and refinement the runs check. What
would add most next:

1. *A wrapped token that calls back* during `pay_collateral`
   (warp-drc20-collateral/src/lib.rs:366): another frame in `WarpDrc20Collateral`.
2. *An abstract Mailbox*: an append-only log, a once-only inbox and a solvent ledger,
   implemented under the mapping to the state of the outermost frame.
3. *Fees in the bridge*: the composition of a route with `HookedMailbox`.

Not modelled, and why:

- key management and query subcommands of dusk-tx, which send nothing: the client
  is listed as partly modelled;
- the wire formats, events, data driver, WASM and TypeScript bindings: stateless
  conversions, where a model would only repeat the layout;
- the end-to-end harness, demo and release scripts: they orchestrate tests and
  releases and are no part of the running system;
- the test contracts, whose behaviour (call back, accept, refuse) is among what
  the models let any contract do;
- block heights kept with messages, which nothing here reads;
- DUSK sent to a contract unasked: custody in the models is what the contracts'
  entry points take and give; where a property says that custody equals what is
  owed, such a gift would leave it above that, never below;
- two processes of the client that submit byte-identical calls with the same nonce:
  in `DuskTx` a transaction belongs to the process that signed it;
- an `init` of ValidatorAnnounce with a zero Mailbox, which its code does not refuse
  and `deploy-hyperlane` never sends;
- limits written down twice, in the client and in a contract (the gas limit and
  scale of the paymaster, the number of validators; main.rs:34-43): one constant
  stands for both, so the models do not see them drift apart.

## 7. Disagreements with the repository's words

- *Reentrant ISM query* (`mailbox_reentrant_ism`). `process` checks `delivered` before
  asking the recipient for its ISM and records the delivery after. A recipient
  whose query calls `process` with the same message is handed the message twice.
  It can only affect the recipient that does so.
- *Claims and registration* (`warp_native_claim`). The comment on `claim_pending` makes
  `register_account` a precondition; the code pays the transaction's account
  whether or not it is registered.

## 8. Running

    tlc -workers 2 -config MCWarpNative.cfg WarpNative
    tlc -workers 2 -config MCBridge.cfg MCBridge
    tlapm WarpNativeProofs.tla

The module of each configuration is in `PROJECT.json` under `runs`; every run ends
within about two minutes on two cores.
