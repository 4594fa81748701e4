# A TLA+ development of the Dhives node

The repository is a Cosmos SDK chain with an Ethereum virtual machine (a fork of
Evmos). This directory holds TLA+ models of its stateful parts, the TLC
configurations that check them on small instances, and TLAPS proofs of the main
safety properties for every value of the constants.

Contents: [inventory](#inventory), [modules](#modules-and-what-they-model),
[runs](#runs), [bounds](#bounds), [fairness](#fairness), [proofs](#proofs),
[findings](#where-the-code-and-its-comments-disagree),
[what is not modelled](#not-modelled), [plan](#plan).

To check a run: `tlc -config MCStateDB_reverts.cfg MCStateDB`. To check the proofs of
a module: `tlapm StateDBTheorems.tla`.

## Inventory

The parts of the system, the state each owns, what changes it, what it talks to,
and where it is hard. `PROJECT.json` lists the same parts with their files, and
the hazards with their lines.

| Part | State | Operations | Hard behaviours |
|---|---|---|---|
| StateDB (`x/evm/statedb`, keeper `statedb.go`) | cached state objects, journal with dirty counts, revisions, access list, refund, logs; underneath accounts, storage and code of the keeper | every setter and caching getter, Snapshot, RevertToSnapshot, Commit | nested reverts across creation, reset and destruction; order of undo; skipped writes; a commit that fails half way |
| Epochs (`x/epochs`) | an epoch info per identifier | BeginBlocker | catching up after a halt; start times before and after genesis |
| Inflation (`x/inflation/v1`) | period, skipped epochs, parameters, module balance | the AfterEpochEnd hook, mint, allocation, UpdateParams | off-by-one of epoch number, period and skipped count; switching off and on; truncation; a panic in BeginBlock |
| Fee market (`x/feemarket`) | parameters with the base fee, stored and transient gas wanted | BeginBlock, EndBlock, AddTransientGasWanted, UpdateParams | two integer divisions; overflow and early returns; governance between two blocks |
| Ethereum ante handler (`app/ante/evm`) | balances, nonces, fee collector, gas wanted | MonoDecorator | all messages charged before one runs; a late refusal |
| EVM state transition (`x/evm/keeper`) | the same, transient gas used | ApplyTransaction, hooks, RefundGas | one message of several failing; failing hooks; block gas running out; locked coins |
| Revenue (`x/revenue/v1`) | registrations and two indexes | Register, Update, CancelRevenue, the EVM hook | three stores kept in step by hand |
| Vesting (`x/vesting`) | clawback accounts, lockup and vesting schedules, delegation tracking, proposal marks | create, fund, clawback, convert, governance hooks | merged schedules, inclusive ends, slashing and unbonding under the tracking, two proposals on one account |
| ERC20 pairs (`x/erc20`) | pairs and two indexes, escrow, supply in contracts | register, toggle, convert both ways, IBC callbacks | two ledgers, contracts that destroy themselves |
| IBC wrapper (`x/ibc/transfer`, `ibc`) | none of its own | Transfer with conversion | conversion undone on a failed packet |
| RPC filters, event bus, websockets (`rpc/.../filters`, `rpc/ethereum/pubsub`, `rpc/websockets.go`) | topics, subscribers, filters | subscribe, uninstall, publish | closed channels, copied topic lists, lock held over a channel |
| Indexer (`indexer`, `server/indexer_*`) | key-value index by hash and by block | service loop, forward and backward commands | stop and restart, failed writes, an unsynchronised height, events of failed transactions |
| Cosmos ante and post handlers (`app/ante/cosmos`, `app/post`) | balances, rewards, supply | fee deduction, authz limits, burn | claimed rewards, a fee burned that is not the one deducted |
| Precompiles (`precompiles`) | grants, and the SDK modules' stores below a StateDB | run, approve, transfer, delegate | two views of one balance, gas hand-over |
| RPC backend | none that lasts | queries | counting pending transactions |
| Transaction types, EIP-712, keys, commands, wiring, migrations | none at run time | conversions, start-up | outside what a model shows |

How they interact. In BeginBlock `app.go` runs epochs (whose hook is inflation),
then the fee market, then distribution, which empties the fee collector. A
transaction passes the ante handler, which reads the base fee, charges the sender
into the fee collector, advances the nonce and reserves gas wanted; then the state
transition runs the EVM over a StateDB, commits it to the keeper, runs the hooks
(revenue pays out of the fee collector) and refunds. EndBlock runs governance
first, then the fee market, which turns gas wanted into what the next BeginBlock
computes the base fee from.

What each part should guarantee:

- StateDB: a snapshot behaves as a copy of the world, undo never fails, a commit
  is all of what the interpreter saw or nothing.
- Epochs: epochs stay on the grid of their start time and none is lost.
- Inflation: a period is a fixed number of minting epochs; all minted coins are
  allocated; the curve never rises.
- Fee market: the base fee follows the demand, respects its floor and settles; its
  computation stops the chain under two parameter values only.
- Transactions: no coin is made or lost, nobody is overdrawn or pays more than they
  signed, every refund is covered, nonces count accepted messages; Cosmos
  transactions in the same blocks keep all this.
- Revenue: the three stores agree; a contract belongs to its deployer.
- Vesting: however grants are joined, the schedules read as granted; vesting coins
  stay; a clawback keeps what was earned; a vote is shielded from the funder.
- ERC20: the stores agree; what circulates in one ledger is escrowed in the other;
  no value is lost; a failed transfer is refunded.
- Event system: no channel is closed twice, offered topics are fed, calls return, an
  uninstalled filter leaves nothing behind.
- Indexer: the tables agree with each other and with the events; no block between
  the first and the last indexed one is missing; the service catches up.

## Modules and what they model

`PROJECT.json` maps every definition to its source lines. Definitions whose
comment starts with "Fault:" are wrong variants of the definition that follows
them. No specification uses them; substituting one shows that a property notices
the mistake.

### StateDB

`StateDB` models `x/evm/statedb` over the keeper. The variables carry the names of
the Go fields: `stateObjects`, `journal`, `dirties`, `validRevisions`, `refund`,
`logs`, `addresses` and `slots` (the access list). `accounts`, `storage` and
`codes` are the keeper's stores. The interpreter, which is external, appears only
as a stack of call frames (`frames`), each holding the snapshot id it would
revert to, and in guards that say which calls it makes (a balance is checked
before it is subtracted, code is set once, only contracts write storage). Nonces are
set to any value, as `ApplyMessageWithConfig` also sets them back.

An entry is counted when it is appended (`Counted`) and uncounted when it is undone
(`Uncounted`), both by `Dirtied`, as in `journal.append` and `journal.Revert`.

There is one action per method. `journal.Revert` and `Commit` are loops and take
one step per entry and per account (`pc`, `target`, `pending`); nothing interleaves
with them, but invariants can then speak about their intermediate states. A
`CommitError` may come before any account; the caller drops the store's branch.
A code hash and its code are one value. `CreateContract` covers `CreateAccount`
with the `SetNonce(1)` that always follows it in `evm.create`.

`StateDBHistory` adds history variables that no step reads: `hist`, the world the
interpreter saw before each journal entry, `marks`, the world of each revision, and
`final`, the world when Commit began. The properties are stated over them.
`StateDBSpec` is the promise without journal, caches or dirty marks: a snapshot is a
copy of the world, an operation changes one account (`Becomes`), a counter, the logs
or the access list. `StateDBRefinement` has the refinement mapping
(`ImplementsStateDBSpec`): a revert is the step that starts the undo loop, a commit
the one that ends it.

### Epochs, inflation, mint curve

`Epochs` walks the epoch infos as `BeginBlocker` does, one per step, because the
hook of an ended epoch runs inside the walk. `Inflation` extends it: `EndOfEpoch`
is the walk's step together with the whole hook, one disjunct per way through
`AfterEpochEnd` (disabled, other identifier, no provision, mint, failing
allocation). `MintProvision` is the curve; `Dec` the decimals of the SDK's math
library at an arbitrary scale `One` (external, from how the code uses them), with
half-even rounding in `DecMul` and `DecQuo` and the repeated rounding of `Power`.

A behaviour begins with a new chain: no epoch started, period and skipped epochs zero.
`InitGenesis` of both modules also accepts what a running chain exported. It stores
that unchanged, so such a chain begins in a state that the modelled one reaches.

### Fee market

`FeeMarket` has the block as phases: `BeginBlock` computes the base fee (or
`BeginBlockPanics`), transactions add to the transient and the metered gas,
`UpdateParams` is governance in EndBlock, `EndBlock` stores the gas wanted.
`MaxUint64` and `MaxInt64` are constants, so the wrap of the counter and the
early returns of EndBlock happen in small instances. A transaction is abstracted
to its gas limit, gas used and number of messages.

### Ethereum transactions

`EthTx` composes the ante handler, the state transition, the revenue hook and the
fee market. `StartTx`, `AnteMsg` (one turn of the loop over messages), `EndAnte` and
`Refuse` are the mono decorator; `MsgSucceeds`, `HookReverts`, `MsgReverts`,
`FailTx` and `EndTx` are the ways through `ApplyTransaction`. `checkpoint` is the
store's branch a failure falls back to: the state before the transaction in the
ante handler, the state after the ante handler in the messages. The EVM is its gas,
refund counter, verdict and the transfer of the message's value.
`ImplementsFeeMarket` (in `FeeMarketRefinement`) shows that every transaction is a transaction of
`FeeMarket`, so what is shown of the fee market holds under the real ante handler.

The hook pays the developer share to the withdrawer of a registered contract, or to
the community pool (`distributed`) when the callee is an active precompile. Whether an
account is a clawback vesting account (`Clawback`) is apart from whether it has locked
coins: one that has unlocked all is still checked. A creation gives the new contract
the nonce 1, so `NonceCounts` is about the other accounts.

Two facts about messages are assumptions (`EthTxAssumption`). A sender is not a contract:
`06_account_verification.go` refuses one before anything is written. A gas limit fits an
int64, so that the conversions at `state_transition.go:434` do not fail: no block has
more gas.

`EthTx` leaves out the panic of BeginBlock: its parameter sets have an elasticity
for which `FeeMarketProofs!PanicNeedsElasticity` excludes it.

`CosmosTx` adds Cosmos transactions to the same blocks. The ante handler checks the
minimum price, computes the effective fee, claims staking rewards delegation by
delegation if the balance is short, deducts, advances the sequence and reserves gas
wanted; the post handler burns the declared fee. `CosmosTxSucceeds`, `CosmosTxFails`
and `RefuseCosmosTx` are the ways through. The messages themselves do nothing here.

### Revenue

`Revenue` has the three stores and the messages; contracts are created and
destroyed underneath, and `Origin` says from whose nonces an address derives.
The code compares addresses as bech32 texts, which exist in lower and in upper case,
and keys its indexes by what they decode to; the model keeps texts and addresses apart.
The fee distribution hook is part of `EthTx`.

### Vesting

`Schedules` has the algorithms of `schedule.go` (reading, joining by maximum and by
minimum, aligning), `ClawbackAccount` the account's arithmetic, `Vesting` the life of
one account: created, funded by several grants, spending, delegating, unbonding and
slashed, converted, clawed back by its funder or by governance. One action is one
message, hook or proposal outcome. Bank, staking and governance are external and
appear as far as the module uses them: locked coins do not leave, delegations call
the tracking functions, a proposal's deposit and voting periods end. `grants` is a
history variable: the schedules as they were granted, against which the merged
account is read.

### ERC20 and IBC transfers

`ERC20` has the registry's three stores, the four conversions, the wrapper of
ICS-20 transfers that converts missing coins first, and the callbacks for packets
received, acknowledged and timed out. A pair is named once. One holder converts and
transfers; `channel` is what ICS-20 holds in custody. An external contract may
deliver less than asked, or destroy itself, upon which the next conversion
deletes the pair.

### Event system

`Events` has the goroutines: calls that create filters or subscriptions (holding the
API's mutex), the event loop, the consumer of node events, one publisher per topic of
the bus, one goroutine per filter. A step is what runs between two points where
another goroutine can get in: a channel operation, a lock, a copy that is used
later. `api` chooses the HTTP filters or the websocket server, which have an event
system each.

### Indexer

`TxEvents` is what a block says about its Ethereum transactions: the events emitted
for each way a transaction ends, `ParseTxResult` over them, the searches of the
backend, and what `IndexBlock` writes. `Indexer` is the database, the service's two
goroutines and the two commands; `Stop` ends a process between any two steps, a
block can fail to be fetched, a batch to be written.

## Runs

| Run | Checks | Shows |
|---|---|---|
| `statedb_reverts` | `RevertRestores` `UndoSafe` `DirtyTracked` `CommitPersists` | two nested snapshots over every object operation and access list addition, on a deployed contract and an absent address; one commit |
| `statedb_commit` | `ImplementsStateDBSpec` | two transactions with logs, refunds, commits and commit errors over one keeper; the journalled StateDB implements copy-and-restore |
| `inflation` | `EpochAligned` `EveryEpochCounted` `PeriodCountsMints` `MintedIsAllocated` `CatchesUp` | the epoch clock under late and stalled blocks with start times on both sides of genesis; periods and allocation while governance switches inflation off, on and changes the curve; zero provisions and a zero staking share |
| `provision_curve` | `ProvisionBounded` `ProvisionDecays` | the mint curve over its parameters, periods and bonded ratios |
| `feemarket` | `PanicsOnlyOnElasticity` `FloorKept` `FollowsDemand` `Settles` | the base fee under changing demand and governance, with narrow integers: wrap, overflow returns, panics |
| `ethtx` | `Solvent` `Conservation` `NonceCounts` `NoOvercharge` `ImplementsFeeMarket` | transactions of one or two messages of two senders: calls, creations, reverts, failing hooks, a precompile, locked coins, blocks running out of gas; Cosmos transactions in between |
| `revenue_maps` | `IndexesAgree` `DeployerFixed` | two contracts, two deployers, addresses in both spellings, every genesis |
| `vesting` | `ReadsAsGranted` `GrantCovered` `ClawbackKeepsEarned` `MarksFollow` `VoteShielded` | one account through grants of three shapes, staking, two funders and two proposals |
| `erc20` | `RegistryAgrees` `Backed` `ValueKept` `RefundsArrive` | a pair of each kind, two packets, toggles, a contract that vanishes or delivers short |
| `events` | `ClosedOnce` `TopicsFed` `CreationEnds` `LeavesNothing` | two subscriptions to one topic or to two, on either server, in every interleaving |
| `indexer` | `TablesAgree` `LookupsAgree` `NoGaps` `FollowsChain` | three blocks with every outcome of a transaction; service and commands stopped anywhere |

One more run, `ethtx_nonce`, shows a disagreement between the code and its comments;
see [below](#where-the-code-and-its-comments-disagree).

The type invariants are conjuncts of `Solvent` (for `FeeMarket` and `EthTx`),
`GrantCovered`, `Backed` and `TopicsFed`; those of `StateDB`, `Inflation` and `Revenue`
are part of the proved inductive invariants.

Deadlock checking is off in the StateDB runs (a run ends after `MaxTx`
transactions), in `provision_curve` (inputs end), in `inflation` and `feemarket` (a
panic stops the chain), in `vesting` (time ends) and in `events` (all subscriptions
are made and gone, or the process panicked).

## Bounds

Every bound is a named constant and appears in a guard, never in a state
constraint.

- StateDB: two addresses (a contract with storage, an absent account), two values.
  Interactions of undo entries are pairwise: an entry either concerns the same
  object as another one or it does not. In `statedb_reverts` two slots and a journal
  of `MaxJournal` 3 entries allow a creation, a change and a destruction in one
  snapshot, and an address that comes with slots, undone in every order;
  `MaxRevisions` 2 gives nested frames. `statedb_commit` trades them for a second
  transaction, with one slot, two entries and one frame. The guard is tested
  before an operation, so one that makes two entries may pass the bound. The proofs
  remove all these bounds.
- Epochs: a day of two and a week of three time units. A step of up to `MaxStep` 4
  is two days, so several epochs are owed at once; block times up to `MaxTime` 10
  leave the clock time to catch up.
- Inflation: periods of two epochs, so that the runs reach the third period;
  decimals of one digit, so that every division rounds; two
  parameter changes, which switch inflation off and on again.
- Mint curve: decimals of two digits; 864 parameter sets, each at seven bonded
  ratios and eight periods.
- Fee market: a block of three gas with targets of one and three; base fees up to
  `MaxBaseFee` 8, above which no transaction is offered (a real sender stops
  paying too); heights saturate at `MaxHeight`, past every enable height.
  Integers of three bits and their signed half make the counter wrap and EndBlock
  return early; elasticities of zero and of nine, above the gas limit, make
  BeginBlock panic.
- Transactions: two transactions per block, Cosmos ones included, up to two messages,
  blocks of eight gas that two transactions can exhaust, a minimum gas multiplier of
  0.25, a developer share of 0.5 that truncates to zero for small fees. Of the
  calls of one sender one reserves more gas than it needs and one too little. A creation
  reserves five gas, so that no transaction has another message of its sender: that
  is the disagreement `ethtx_nonce` shows. The Cosmos transaction declares more than the
  payer has and a tip that does not use it up, so it claims one or two of three
  rewards and burns more than it paid.
- Revenue: unbounded; the state space is finite. One contract derives from a deployer
  and one from none.
- Vesting: two grants, of vesting only, lockup only and both, with different starts,
  and a genesis account whose two schedules start apart; times up to `MaxTime` 5, past
  all ends; one slashed coin; two funders and two proposals, interchangeable.
- ERC20: three coins per pair, amounts of one and two, two packets: one refund can
  meet another transfer of the same coins.
- Event system: two subscriptions. A topic's channel is opened by one, used by the
  other, removed and opened again; a third would repeat the role of one of them.
- Indexer: three blocks out of five contents, so that a gap, a first and a last block
  are apart; any number of stops and restarts.

## Fairness

Six liveness properties are checked.

- `CatchesUp` (epochs) assumes that blocks keep coming and that BeginBlocker finishes
  its walk: weak fairness of `BeginBlock` and of the walk's three steps. `Settles`
  (fee market) assumes weak fairness of BeginBlock, panicking or not, and of
  EndBlock. Both are what the consensus engine does: it calls them in turn for every
  block. No fairness is assumed of transactions or governance; `Settles` says what
  happens once blocks stay empty.
- `RefundsArrive` (ERC20) assumes that a packet is answered or times out and that a
  relayer resubmits an acknowledgement until it passes: IBC relayers do, and the
  state of the packet is not cleared before.
- `CreationEnds` and `LeavesNothing` (events) assume that a goroutine that can run
  does, and strong fairness of a filter's notice that its channel is closed, because
  a Go `select` with several ready cases picks at random.
- `FollowsChain` (indexer) assumes that the goroutines of the service run and that a
  fetch that is retried for ever succeeds some time (strong fairness of `FetchBlock`).
  Stopping the process is always allowed and excuses it.

## Proofs

The proofs hold for every value of the constants that satisfies the named
assumptions of the modules (sets are sets, amounts are natural numbers, special
values are distinct, parameters pass the code's validation).

**StateDB** (`StateDBWorlds`, `StateDBReverts`, `StateDBTheorems`). Proved: `TypeOK`,
`RevertRestores`, `UndoSafe`, `DirtyTracked` and `CommitPersists`, for any number of
addresses, slots, values, nested frames and transactions. None of them is inductive:
that a revert restores the right world depends on every entry below.
The invariant `IInv` therefore says that the journal is a chain. `Undo(e, w)` is
what undoing entry `e` must make of a world `w`, and for every position `i`
the undo of entry `i` takes the world after it to `hist[i]`. With it come what
each entry relies on (`EntryOK`: the object is there, the slot set that empties is
the last one), what each world satisfies (`WorldOK`: an account without dirty
entries is as stored), the order of revisions, and that every frame's id belongs
to a revision no running revert drops.

`CommitPersists` needs a second invariant, `CInv`, about the objects themselves, the
ones that resets put away in the journal included: `originStorage` holds the
keeper's values, a slot that is dirty was read before, and a code that the code
store misses is dirty. Since a revert may bring back an object and write a slot
through it, the invariant also says that the object an entry will be undone on has
read the entry's slot. Then what Commit skips is what the keeper has already.

- `StateDBWorlds` states `IInv` and proves that a step that records undoable
  entries preserves it; refund, logs and access list operations are such steps. It
  also has what `CInv` is made of.
- `StateDBReverts` treats Snapshot, frame return and the revert: the code's undo of
  an entry is `Undo` of the world, and loses nothing that `CInv` needs.
- `StateDBTheorems` treats the operations on state objects, where a step may create
  the object first and so makes two entries, and Commit, and concludes.

**Inflation** (`RewardProofs`). The mint curve first: `ProvisionsWithinRates` and
`ProvisionsNeverGrow` are what `provision_curve` checks, for every curve that passes
the validation, every period, bonded ratio and scale of the decimals. The loop of
`Power` is a recursive function; what it computes is proved by taking the least
counter at which a claim fails. Half-even rounding is monotone, and so then is each
step of the curve. `ClockAligned` and `CoinsAreAllocated` need no hypothesis.
`PeriodsAreExact` and `EpochsAreCounted` assume that inflation follows days
(`FollowsDays`, the default), since only days are counted as skipped. An epoch whose
provision is zero is neither minted nor skipped (`NoProvision`); the properties count
it separately. The invariant is the conjunction of the properties:
`PeriodCountsMints` is inductive only with `EveryEpochCounted`, which ties the
epoch number of the hook to the minted and skipped counts.

**Fee market** (`FeeMarketProofs`). `TypeCorrect`, `StoredGasFits`, `FloorIsKept`,
`DemandIsFollowed` and `PanicNeedsElasticity`, for all parameters. The invariant adds
to types and widths what the stored gas wanted says of the block it came from
(`DemandStored`): it lies between the gas used and the gas reserved (or used, if that is more), for
the last block whose amounts fitted, whatever the transient counter's wrap did. From it
follows on which side of the target the next base fee is computed. The lemmas bound
the half-even multiplication: scaling by at most one does not increase an amount.

**Transactions** (`TxFunds`, `TxProofs`, with the lemmas on sums and on what a message
costs in `FeeMarketProofs`). For any finite set of accounts and any messages:

- `NobodyOverdrawn`. The refund and the revenue share are paid without a check. The
  invariant `FundsInv` says why they are covered: the fee collector still holds the
  fees of all messages to come, and the world a failure falls back to is funded too.
- `CoinsConserved`: the world and its checkpoint hold the same coins (`CoinInv`).
- `NobodyOvercharged`: what an account has, with the costs of the messages it signed,
  is at least what it had, with the values it has not sent yet (`ChargeInv`).
- `TransactionsImplementFeeMarket`: what the messages before have used and those to
  come may use is within the gas declared (`GasInv`), and the gas wanted is a multiple
  of it modulo the counter's width, so the last step of a transaction is one
  `DeliverTx` of the fee market and all others stutter.

**Revenue** (`RewardProofs`). `RevenueTypesHold`, `IndexesAreExact`,
`DeployerNeverChanges`. The invariant is the types and the agreement of indexes.

**ERC20 and event system** (`RegistryProofs`). `RegistryStaysInAgreement`,
`ConversionsStayBacked` and `NoValueMade`: the agreement of the stores,
with what the escrow and the ledgers of each pair hold (`PairInv`); a conversion of
one pair leaves the others alone. `ChannelsCloseOnce` and `TopicsStayFed`: who has been installed,
waits to be uninstalled or is uninstalled are disjoint (`SubscriptionsInv`), and a
topic's channel is open and read (`ChannelsInv`).

Only model-checked: the liveness properties (out of the prover's reach); the
refinement of `StateDBSpec`; `NonceCounts`, which holds only of messages that do not
follow a creation of the same sender; `Vesting`, whose schedules are `RECURSIVE`
operators, which the prover does not take; `Indexer`.

## Where the code and its comments disagree

| Run | Property | Disagreement |
|---|---|---|
| `ethtx_nonce` | `NonceCounts` | a contract creation followed by another message of the same sender puts the nonce back |

`PROJECT.json` quotes the comments.

The models follow the code in other places where a comment says something else, or
where what the code does may surprise. No run is about them; where a property has an
exception, this is why.

- `DeleteAccount` in `StateDB` keeps the code of a destroyed contract in the code
  store; the comment at `x/evm/keeper/statedb.go:182` lists its removal. Harmless.
- `VisitEnd` in `Epochs` calls the hook with the number after `EndEpoch`; the comment
  at `x/epochs/keeper/hooks.go:20` speaks of the epoch that is ending. The period
  arithmetic of inflation needs the advanced number.
- `NoProvision` in `Inflation` returns without counting the epoch; the comment at
  `x/inflation/v1/keeper/hooks.go:82` says only minting epochs count towards a period.
- `DeliverTx` and `AnteMsg` add the whole transaction's gas once per message
  (`app/ante/evm/mono.go:312`).
- `GetBaseFee` in `FeeMarket` gives the stored base fee below the enable height; the
  comment at `x/evm/keeper/keeper.go:329` says zero.
- `CheckVesting` in `EthTx` compares the value with what is spendable before the fee
  is taken, so that an accepted transaction can fail on commit (`FailTx`).
- `DividesByZero` in `FeeMarket`: an elasticity of zero passes validation, although the
  comment at `x/feemarket/keeper/eip1559.go:53` says it is checked, and one above the
  gas limit rounds the target to zero.
- `Effective` in `Revenue`: a withdraw address that spells the deployer's in the other
  case is stored, although the comment at `x/revenue/v1/keeper/msg_server.go:99` speaks of
  preventing the same address for both. The payments are the same.
- `Burn` in `CosmosTx` is of the declared fee (`app/post/burn.go:50`), while the ante
  handler deducts the effective one: a tip below what was declared, or a fee that gas
  does not divide, burns coins other transactions paid. The comment speaks of the
  transaction's fees.
- `AfterProposalVotingPeriodEnded` in `Vesting`: two proposals on one account share one
  mark, so the end of one vote unshields the other (`x/vesting/keeper/hooks.go:135`).
  `VoteShielded` excepts it (`overlap`).
- `TrackDelegation`: delegating counts as delegating vesting coins first, so unvested
  coins become spendable by delegating vested ones and a funder's clawback can
  fail for want of balance. What holds is `GrantCovered`.
- `TransferClawback`: the comment at `x/vesting/keeper/msg_server.go:438` speaks of an
  updated lockup schedule; the account becomes a plain one and the lockup is gone.
- `OnPacketFailed` in `ERC20`: while a pair is disabled the refund of a failed transfer
  is refused; `RefundsArrive` excepts it. A pair that was deleted cannot be registered
  again, since the metadata of its coin stays (`RegisterERC20`).
- `SendOnClosed` in `Events`: the consumer may send on a channel closed since it looked
  it up, which panics. `Uninstall` removes a topic with the subscription that
  installed it although others use it. `EndPublisher` may delete the name of a topic
  that was added again. The goroutine of a filter for pending transactions does not
  end when its channel closes (`ChannelClosed`), nor does that of a websocket
  subscription; `LeavesNothing` excepts them.
- `StartBackward` in `Indexer` begins below the latest block on an empty database, so
  that block is never indexed. `IndexNext` advances past a block whose batch failed to
  be written (`unwritten`). A transaction that fails to commit the StateDB is
  counted by the indexer and not by the chain, and one whose messages fail shadows the
  next in a search by index (`LookupsAgree`). On an empty database blocks received
  before the load are skipped; a block the node has pruned above the last indexed one
  would be fetched for ever.

## Not modelled

- What precompiled contracts do; of them, only the revenue hook's branch is in `EthTx`.
  They write to the stores below a StateDB and mirror the
  balance changes into it, with the message servers of staking, distribution,
  IBC transfer and vesting behind them; a faithful model needs their effects. The hazard is listed without a
  property.
- Of the Ethereum path: CheckTx and recheck, signature recovery, the claim of
  staking rewards for an Ethereum fee (the balance check before it leaves nothing to
  claim for), transfers
  inside the EVM, tracing and simulation, receipts and bloom.
- Of the Cosmos path: fee grants, the authz limiter and the decorators that only
  refuse, signatures, the effects of messages, CheckTx.
- Of the fee market: the fallback to parameters of earlier store versions.
- Of vesting and ERC20: several denominations, queries; `RegisterCoin`, which has no
  caller outside tests, and the check for Approval events, which only refuses.
- Of the event system: the buffers of polled filters and their deadlines, the filter
  cap, GetLogs, the forwarding of other requests and the JSON.
- RPC backend, EVM queries: reads of finished state.
- Transaction types, EIP-712: conversions without state, whose errors would be in
  the text a model abstracts from.
- Keys and wallets: cryptography and devices. Node start, commands, application
  wiring: process set-up. Migrations and upgrades: run once, on state written by
  releases that are not here. Incentives: removed but for its proposal types.
  Generated code.

## Plan

What could follow, most important first:

1. Precompiles over `StateDB`: mirrored balances, gas hand-over, allowances.
2. Proofs: the refinement of `StateDBSpec`; the tables of `Indexer`.
3. Fee grants and the authz limiter in `CosmosTx`.
