# Verification of the Acurast parachain pallets

TLA+ specifications of the parts of this repository that move value or hand out
work: the Hyperdrive message layer with the contract on the other chain, the
token bridge and the token conversion on top of it, the compute marketplace with
its schedules, payments and deployments, the attestation, pairing and onboarding
of processors, and compute with its metric pools, stake and delegations. The
modules are checked with TLC on small instances, and every invariant and action
property of the runs is proved with TLAPS for every instance.

## 1. The system

Acurast is a Substrate parachain. Consumers register jobs (a script, a schedule, a
reward), processors (phones with an attested key) advertise and are matched to
jobs by matchers, acknowledge, execute on schedule and report; rewards are paid
from a budget locked at registration. Hyperdrive connects the chain to proxies on
other chains: messages go out with a fee for the relayer that delivers them, and
come in with signatures of oracles.

Every extrinsic is one transaction: it runs alone and is rolled back when it
fails. The concurrency that matters is therefore between extrinsics of different
accounts in any order, with time advancing in between, and with the other chain,
where messages are delivered late, twice or never.

| Component | State | Operations | Interacts with |
|---|---|---|---|
| `pallets/hyperdrive-ibc` | oracle keys with activity windows, outgoing and incoming messages, lookups by sender and recipient, fee holds | send, confirm delivery, remove, receive, clean incoming, update oracles | called by hyperdrive-token and hyperdrive; delivers to a `MessageProcessor` |
| `pallets/hyperdrive-token` | transfer nonces, outgoing transfers, paid-in nonces, enabled flags, contract address, vault and fee vault accounts | transfer, retry, enable, receive a transfer | IBC in both directions; proxy contract |
| `pallets/hyperdrive` | proxy addresses | send to proxy, parse incoming actions | IBC, acurast and marketplace |
| `pallets/acurast` | job registrations, allowed sources, environments, attestations, revoked certificates | register, deregister, allowed sources, set environment, attest, revoke | calls the marketplace hooks |
| `pallets/marketplace` | job and execution status, advertisements, matches, assigned processors, report indices, matcher of a job, budgets, editors, deployment hashes and key ids | advertise, propose (execution) matching, acknowledge, report, cleanups, deploy, edit script, transfer editor | acurast, reward and fee managers, reputation, processor manager |
| `pallets/acurast/common` schedules | none | execution count, iteration, indices, ranges, overlap | marketplace |
| `pallets/compute` | epochs, metric pools and their ratios, metrics of processors, sums per manager, budgets; commitments, stakes, delegations, reward pools, locks | commit metrics, create and change pools, stake, delegate, cool down, redelegate, withdraw, compound, slash, start an epoch | processor manager (who manages a processor, heartbeats), balances |
| `pallets/processor-manager` with the transaction extensions of `runtime/common` | manager ids, pairings in both directions, counters, onboarding settings and funds on hold | pair from either side, remove, onboard, heartbeat, charge a fee to device, manager or held funds | attestations of acurast, compute, `CheckNonce` and fee payment |
| `pallets/token-conversion` | initiated conversions, locks, denied sources, enabled flag | convert, retry, unlock, slash, process a message | IBC on both chains |
| `hyperdrive/ink/ibc-ink` | configuration and oracle keys, outgoing and incoming messages with their indices, message counter | send, confirm, receive, clean the indices, configure | hyperdrive-ibc, through relayers and oracles |
| `pallets/token-claim` | claims, claim types, vesting schedules | claim, vest, administer claim types | stands alone |
| `hyperdrive/ink` proxy, state, validator; `hyperdrive/vara` | proxies of jobs and the same ibc contract on Vara | encode job actions; as `ibc-ink` | external to the chain |

Hard behaviours: retries after a timeout whose first attempt may still arrive;
replays after the chain forgot a message; one processor key signing several times;
matches of later executions that overwrite earlier ones still being reported;
cleanup by anyone racing a report; deregistration in any job status; fees,
matcher shares and compensation drawing on one budget; interval arithmetic at the
ends of a schedule; attestations trusted after their check; key ids that move
between deployments; delegations that outlive the commitment they were made to
while a new one takes its place; rewards and slashes that are shared lazily;
claims that divide one sliding sum by another; fees admitted on the promise of
funds that are paid only later; conversions that are burnt on one chain before
anything exists on the other; two chains that forget a message, retire a key or
advance their clocks independently.

What makes each component correct:

- **hyperdrive-ibc**: nobody is paid for a delivery that did not happen, nothing
  is received that was not sent, nothing is received twice while it is remembered,
  every held fee belongs to an outstanding message, and the lookups agree with the
  messages.
- **hyperdrive-token**: tokens are never on both sides at once, however often a
  transfer is retried or replayed, and a transfer can always be retried.
- **marketplace and acurast**: the two indices of an assignment agree, the pallet
  account covers all budgets, a processor is rewarded once for an execution and
  not more than was promised, a job that was matched can pay for its executions,
  and a job can always be deregistered when its status allows it.
- **schedules**: the count, the iterator, the index of the current execution, the
  hull and the overlap test all describe the same set of execution times.
- **deployments**: keys stay with the owner they were made for.
- **attestations**: a processor counts as verified only through a chain of its own
  that was valid and not revoked.
- **pairing and onboarding**: the two indices of a pairing agree, a consent pairs once,
  what passed validation can be paid, and the chain funds only onboardings that pair.
- **token-conversion**: burnt tokens arrive, refunds go to who paid, and what is locked
  can be unlocked.
- **ibc contract**: it is a chain such as the pallet assumes, pays only for messages the
  pallet received, and can always pay.
- **metric pools**: ratios never promise more than the whole, claims never exceed what
  was minted for their epoch.
- **compute**: locks, totals and weights are the sums they stand for, stake leaves
  only after notice, and always can.

## 2. Modules

| Module | Models | Extends |
|---|---|---|
| `Currency` | free and held balances, as `fungible` and `Currency` of Substrate (external) | |
| `Sums` | the sum of a function over a finite set | |
| `HyperdriveIbc` | `pallets/hyperdrive-ibc` | `Currency`, `Sums` |
| `InkIbc` | `hyperdrive/ink/ibc-ink`, composed with the pallet | `HyperdriveIbc` |
| `Bridge` | what the token bridge promises | |
| `HyperdriveToken` | `pallets/hyperdrive-token` on `HyperdriveIbc`, refines `Bridge` | `HyperdriveIbc` |
| `Schedule` | `Schedule` of `pallets/acurast/common` | |
| `Marketplace` | `pallets/marketplace` and the registrations of `pallets/acurast` | `Currency`, `Schedule`, `Sums` |
| `ScheduleReference` | the set of execution times that a schedule stands for | `Marketplace` |
| `Deployments` | `deploy`, `edit_script`, `transfer_editor` | |
| `Attestation` | `submit_attestation`, the revocation list, `ensure_source_verified` | |
| `ProcessorManager` | `pallets/processor-manager` and the transaction extensions built on it | `Attestation`, `Currency` |
| `TokenConversion` | `pallets/token-conversion` on both of its chains | `Currency` |
| `Buffers` | `MemoryBuffer`, `SlidingBuffer` and `ProvisionalBuffer` of `pallets/compute` | |
| `Staking` | commitments, delegations, rewards and slashes of `pallets/compute` | `Currency`, `Buffers`, `Sums` |
| `Metrics` | metric pools and compute based rewards of `pallets/compute` | `Currency`, `Buffers`, `Sums` |
| `MC...` | the constants of the runs | |
| `Balances_proofs` | lemmas about `Currency` and `Sums` that the proofs share | `Currency`, `Sums` |
| `Hyperdrive_proofs` | theorems about `HyperdriveIbc`, `InkIbc` and `HyperdriveToken` | `InkIbc`, `HyperdriveToken`, `Balances_proofs` |
| `Marketplace_proofs` | theorems about `Marketplace` and `Schedule` | `ScheduleReference`, `Balances_proofs` |
| `..._proofs` | theorems about the module of that name | |

A variable is a storage item (its comment names it), an action is an extrinsic, a
hook or the arrival of a message, and operators keep the names of the functions
they stand for. Since a failing extrinsic changes nothing, only successful calls
are actions; the guard of an action is the conjunction of all checks and checked
arithmetic on its way. `now` and `block` advance by an action of their own, up to a
bound. Definitions that begin with `Slip:` in their comment are deliberate mistakes:
put in the place of the definition they vary, each makes TLC report the property it
is paired with in PROJECT.json.

`HyperdriveIbc`. `oracles`, `outgoing`, `outgoingLookup`, `incoming` and
`incomingLookup` are the storage maps; `delivered`, `emitted`, `paid`, `accepted`
and `lastReceipt` are histories. Other chains and oracles exist through what
happened there: an honest key signs a delivery that happened or a message that was
emitted, a faulty key signs anything. A list of signatures is a sequence, so that
one key signing twice can occur. Ids are the tuples that the code hashes.

`HyperdriveToken` adds the pallet's own storage and the proxy contract's: the
nonces it has minted for and what it has burnt. The contract is external; the model
assumes of it that it mints once per nonce and burns before it emits. The composed
system implements `Bridge`, where tokens are locked once, minted at most once,
burnt and released at most once; the mapping takes the vault, the supply and the
sets of nonces.

`InkIbc` replaces the assumed other chain by the contract. The contract has a clock
(`height`), a ledger (`wallet`), keys and a configuration of its own; the pallet and the
contract share only what oracles can see of each other: what was `sent`, `emitted`,
`delivered` and, new here, `relayed` (which relayer brought a message to the pallet).
`config` includes the oracle keys, since `configure` changes both. `ContractIsRemote`
says that each step of the contract is one that `HyperdriveIbc` allows the other chain.

`Schedule` is pure. `ScheduleReference` defines the execution times as a set and compares
count, iteration, current index, hull and overlap with it, for sample schedules and start delays
(`SampleSchedules`, `SampleDelays`) and every query. In the run `market_competing` the samples are
all small schedules that can be registered; the theorems are about every such schedule (`Regular`).

`Marketplace` holds registrations, statuses, matches, budgets and the ledger. A match
is proposed as a plan (one source per slot with a price and a start delay);
`Capable` stands for the checks on reputation, versions, quota and metrics, which
no action changes. A batch of matches is the sequence of its members. The history
`rewarded` counts rewards per processor, job and execution, and `matched_as` the kinds of match
a job has had: as a whole, of single executions, or both, which nothing in the code excludes.

`Deployments` has the key ids and hashes of mutable deployments; what `deploy` does
besides is `register_for` in `Marketplace`.

`Attestation`: a chain is what validation reads of it, parsing and signatures aside.

`ProcessorManager` adds pairing and onboarding. A transaction is one action with the stages of
its extensions: all validate, then each prepares, then the call is dispatched, then the
unused fee is refunded. `onboard` of a processor that has a manager is dispatched and fails; its
fee stays paid. A consent is its signed content; a counter makes it unique. `Covered` is what
validation does not ask of a funded onboarding: that its fee fits into the funds.

`TokenConversion` has both chains in one module, since the pallet is the same on both and each
uses half of it. `hyperdrive-ibc` appears as its guarantees, which `HyperdriveIbc` checks: one
outstanding message per account with its fee on hold, replacement after the ttl, no second
receipt while the first is remembered. Remaining times and ages saturate instead of counting
blocks, so that behaviours are infinite and liveness is not an artefact of a bound.
`Accuracy` stands for the 10^18 of `Perquintill`; freezes on balances are left out; `slash` is
an action although no runtime calls it yet.

`Metrics`: `epochSum` and the pools' totals are sliding buffers, the ratios of a pool provisional
buffers. `modify_pool` is split by what it changes (`rename_pool`, `modify_pool`). The managers
back no commitment: stake-backed rewards are the subject of `Staking`. `MaxChanges` bounds the
changes of pools and pairings in a behaviour. `disturbed` records the epochs whose shares were
changed after they were earned; see section 4. `Rational` rounds the exact quotient down, while
`Perquintill::from_rational` first scales both sides down if the total exceeds its 10^18 parts; that
scaling is left out. `GenesisPools` are the pools of the chain specification; `GenesisAssumption` (their ratios
add up to at most one) is not enforced by the code, see section 4. `MaxAhead` bounds how many epochs ahead
`modify_pool` is called for; an epoch before the last one has the effect of the last one.

`Staking` threads the storage through the pallet's helpers as a record, as the code
threads it through its functions; `ok` says whether all checks so far passed. The
fields `paid`, `applied_slash` and `distributed`, which nothing reads, are left out;
the history `unrecorded` is what was transferred minus what was recorded as paid. So is
`sanitize_delegation`, a repair that never has anything to do (`RewardableWithinStakeCorrect`).
Inflation is a constant per epoch; a manager delivers the committed metric in an
epoch or nothing.

## 3. Runs

Only `conversion` assumes fairness, for its liveness property `ConversionCompletes`:

- weak fairness of `Tick`: blocks are produced;
- weak fairness of the retries on either chain: whoever has burnt tokens, or anybody else,
  calls the retry that the pallet offers as long as it is possible;
- weak fairness of `TopUpPallet`: governance funds a pallet account that is empty;
- strong fairness of `process`: messages may be lost, but relayers, who are paid per delivery,
  do not miss a message that is sent again and again.

Nothing is assumed of unlocking, slashing, cleaning or denying sources. In all other runs
whether anyone calls an extrinsic is up to users: `ExitNeverBlocked`, `RetryNeverBlocked` and
`DeregisterNeverBlocked` say instead that a call that users rely on succeeds in every state.
Deadlock is not checked where the bound on time lets a behaviour end.

| Run | What it shows | Bounds and why they suffice |
|---|---|---|
| `ibc` | the pallet and the contract exchange messages: on both sides payment only for deliveries and receipt only of sent messages, fees covered, lookups consistent, no replay within the ttl; the contract is a chain as the pallet assumes | two keys and a quorum of two, so that one key counted twice would suffice; two payloads under one nonce and ttl 0, so that a message expires and is replaced on either chain; incoming ttl 1 and four blocks, so that a message is cleaned up and comes again; keys that differ between the chains and lapse in the last block; up to three messages of the contract. A behaviour uses one direction (`OneDirection`): the directions share nothing but the clocks and the oracles |
| `token_bridge` | transfers to and from Ethereum implement `Bridge`; the vault backs the supply; a retry is never blocked | outbound: one transfer with retries before and after expiry, two fees, a ttl override, pausing, removal; inbound: one transfer emitted under two message nonces, one of another asset, one from a stranger's contract, cleanup and replay; one direction per behaviour |
| `market_whole` | jobs matched as a whole: indices, budgets, one reward per execution, solvency, deregistration | two slots, two processors and two executions, or an instant match; a job from a proxy chain; one time unit before the first and after the last window |
| `market_competing` | jobs matched as a whole, execution by execution or in both ways: the rewards of each kind of match stay within what was promised although assignments are overwritten while reports are still due; schedule operations agree with the execution times (`ExecutionsAgree`, `OverlapsExactForShortQueries`) | a competing or a single job; three executions, so that an assignment is overwritten twice; two processors; one price; schedules at both ends of the number range |
| `market_double_report` | finding 1 | competing jobs with three executions and two processors |
| `onboarding` | pairings mirror each other, consents are used once, admitted fees can be paid, funds are paid only for pairings; a verified processor has a chain of its own, usable when stored and not revoked since | two devices that share a certificate, one without money, the other one with and a manager as well, of itself or of the first; another manager who does not exist until he is funded; a fee within the funds and one beyond; counters up to two, so that a pairing is removed and made again; funds for two onboardings |
| `conversion` | locks can be lifted, refunds reach the payer, and a conversion that was initiated is processed | one account that converts, little more than the minimum, and a sponsor; two conversions of the account, so that one arrives after the lock of the other was lifted; a slash below and one above the lock; two fees |
| `deployments` | keys stay with their owner, key ids are unique, hashes follow scripts | three jobs of two owners and two scripts: enough for an original, a reuse and a third that competes for the keys |
| `staking` | total and weights are sums, cooldowns and exit | one committer, two delegators, four epochs: commit, cool down, end and commit again with a stale delegation left, a slash for two epochs at once that exceeds the stake |
| `metrics` | ratios add up to at most one, claims stay within the budget of their epoch | two processors that change between two managers; two pools of genesis and a third, for which metrics come before and after it is created; two changes, of ratios in the last epoch, in this one or in one of the next two, so that changes are pending at two different epochs; three epochs of one block with warmup and reuse |
| `staking_moves` | locks and weights when committers delegate to each other and move | two accounts that are committer and delegator, three epochs |
| `staking_double_payment` | finding 2 | as `staking` with one delegator |

Symmetry is used for payloads, processors, managers of metrics, delegators and
committers, which no constant tells apart in the runs that use it.

## 4. Findings

1. **An execution can be rewarded twice** (`market_double_report`). For a match of a
   single execution, the report of a later execution sets `NextReportIndex` back;
   a second report in the same window passes the check whose comment says "check if
   we already reported this execution." (`marketplace/src/functions.rs:96`, `:119`).
2. **A delegator is paid twice** (`staking_double_payment`). `end_delegation_for` pays the
   reward, records it in `paid` and returns it; `delegate_more_for` and `redelegate_for`
   transfer the returned amount again (`compute/src/staking.rs:885`, `:1520`), against
   "The total amount paid out or compounded." (`compute/src/types.rs:343`).

Differences between comments and code that were met while modelling and are kept in
the model as the code has them, without a run of their own:

- `marketplace/src/match_checker.rs:168`, `:230`: neither way of matching compares itself with the job's
  strategy, and a match of the whole job does not set the status of its executions. So a job
  whose strategy promises a "Single distinct processor per slot (and for all the job's executions)"
  (`marketplace/src/types.rs:494`) can be matched as a whole with one processor and execution by
  execution with another, and both are rewarded. The model does the same, `market_competing` has such jobs,
  and `RewardsBounded` counts per kind of match.
- `acurast/common/src/types.rs:448`: the example `___□□■■_□□■■_□□■■__.range(2) -> (3, 17)` begins with the
  schedule; the code (`:450`) begins with the delayed execution and gives (5, 17). The sentence above the
  example, "from first execution's start to end of last execution, respecting `start_delay`", fits the code, and so
  does its use in `overlaps()`: `OverlapsExactForShortQueries` states the range that the code has.
- `token-conversion/src/lib.rs:489`: a message is ignored only while a lock exists; `unlock` and `slash`
  remove the lock, and a message that is sent or relayed again converts again, against "we just silently ignore
  multiple conversion messages for the same account" (`:490`). No property excludes it.
- `compute/src/staking.rs:692`: a slash for several missed epochs can exceed the committer's stake; the
  stake saturates, `TotalStake` does not (`:717`), against "Tracks the total stake of all commitments."
  (`compute/src/lib.rs:334`). It can then be too small for the last exit, and an account may own less
  than is locked on it. `overslashed` records the difference: `StakesAddUp` and `LocksAreStakes` are stated up
  to it, and `ExitNeverBlocked` of the exits that take place while it is zero.
- `compute/src/functions.rs:424`: the total of an unknown pool is skipped, the manager's sum is not,
  against "unknown `pool_id`'s are silently skipped." (`:283`). If the pool is created in the same epoch, the
  sums exceed its total and the claims its share. `ClaimsWithinBudget` leaves such epochs out (`disturbed`).
- `compute/src/staking.rs:385`: rewards of an epoch are given per weight to everyone who
  delegates at the distribution, also to those who joined after that epoch.
- `compute/src/types.rs:327` says that the cooldown "is only started at next era after cooldown initiation";
  the code starts it in the block of the call (`staking.rs:1375`, `:1438`), and `ReleasedAfterCooldown` counts from there.
- `stake_more` does not check `MaxCooldownPeriod`; a stale delegation's slash still reduces
  `delegations_total_amount` of the commitment that replaced its own.
- `marketplace/src/match_checker.rs:574`: conflicting jobs can be matched to one processor,
  although "The match fails if it conflicts with the processor's schedule."
  (`marketplace/src/lib.rs:539`): the test that skips the detailed comparison uses
  `overlaps`, which is exact only for a query that does not begin before the schedule
  and is shorter than its interval (`OverlapsExactForShortQueries`), for the range of a whole
  other schedule. `:168`: the start delay of a match is not compared with
  `max_start_delay`.
- `marketplace/src/payments.rs:129`: the budget of a job whose executions are matched one by
  one can be used up before every report is rewarded. `SingleJobSolvent` and
  `DeregisterNeverBlocked` are stated for whole-job matches.
- `marketplace/src/lib.rs:961`: reusing keys hands over those of the deployment hash,
  which may come from another job of the owner than the one named.
- `acurast/src/utils.rs:57`: `ensure_source_verified` promises "valid (not expired and not
  revoked)", but `check_attestation` (`:123`) checks revocation only; the expiry is checked
  when the attestation is submitted.
- `runtime/common/src/types/transaction_charger.rs:114`: the fee of an onboarding that will be funded is
  admitted whatever it is, tip included, although nothing relates the funds to fees, and
  for a device that is its own manager it is compared with funds that `:48` does not release. Such a
  transaction passes validation and is dropped when it is applied. `ValidatedIsPayable` is stated for fees that
  fit (`Covered`), for every other call without a condition.
- `compute/src/lib.rs:195`: the genesis build only logs that `do_create_pool` failed, which inserts
  the pool (`functions.rs:230`) before it validates the ratios (`:235`); no storage layer rolls that back at
  genesis. Pools of a chain specification over the whole would stay; `GenesisAssumption` excludes them.
- `compute/src/lib.rs:631` says of `modify_pool` "to be sure no rewards
  are overwritten that still are used for calculations/claiming", but a ratio given for the
  previous epoch or earlier replaces the current one at once. `ClaimsWithinBudget` leaves out the last epoch
  then, too (`disturbed`). `reuse_metrics` renews the validity of what it
  reuses, so that `MetricValidity` bounds only the time between two heartbeats.
- `hyperdrive-ibc/src/lib.rs:308`: `remove_message` leaves the fee of a conversion's message with the
  pallet account, where a replacement would have refunded it.
- `hyperdrive/ink/ibc-ink/lib.rs:281`: the fee goes to `message.payer`, while the doc says
  "claiming the message fee" of the relayer (`:248`) and the panic "Paying fee to relayer failed";
  `vara-ibc/src/service.rs` does the same. The comment at `:256` offers an empty list of signatures
  to get the fee of an overdue message back, which `DeliveryConfirmationOverdue` precludes. The fee of
  a message that is overwritten stays with the contract. An id is in the index once per sending,
  and `clean_outgoing_index` drops it in the block of its ttl, in which it can still be
  confirmed. All callers of the contract share one space of nonces.
- `token-claim/src/lib.rs`: a remainder below the existential deposit, and a claim smaller than the
  number of blocks of its vesting, cannot be vested (`do_vest`; not modelled).

## 5. Proofs

TLAPS proves, for all values of the constants that satisfy the named assumptions. The
invariant of each module was checked with TLC on the module's run before it was proved.

**`Balances_proofs`** holds the lemmas that all others share: what holding, releasing,
transferring and depositing do to a ledger, and how `SumOver` (a sum over a finite set) changes
when a member joins, leaves or changes its value, and that it is monotone. The library's
induction rules take an operator as parameter, which the provers cannot instantiate; the facts
about sums are proved instead by a minimal counterexample: among the finitely many subsets for which
a fact fails, ordered by strict inclusion, one would be minimal, and it is not empty, so
removing a member from it gives a smaller one.

**`Hyperdrive_proofs`**, first part, on `HyperdriveIbc` (from `IbcAssumption`, `QuorumAssumption`, `NoneAssumption`,
`RemoteMessagesAssumption`): `TypeCorrect`, `PaidOnlyForDeliveryCorrect`,
`AcceptedOnlyIfEmittedCorrect`, `LookupsCorrect`, `HeldIsOwedFeesCorrect` and the action property
`NoReplayCorrect`. The heart is `QuorumAttests`: a signature list that the pallet
accepts has a valid signature of a key outside `Faulty`, since the keys are counted as
a set and fewer than a quorum are faulty. `IbcTypeOK` is inductive by itself, which
includes that no balance and no hold becomes negative. `SafetyInv` adds that messages
are stored under their own ids and that the block of the last receipt is remembered as
long as the message is: without them neither lookup nor replay is inductive. `HeldInv` says that
finitely many messages are outstanding and that the hold of every account is the sum of the
fees it owes; replacing a message is a release to one payer and a hold on another, and the
release never falls short because the replaced fee is one of the summands.

**`Hyperdrive_proofs`**, second part, on `InkIbc` (from `ContractAssumption`, `ContractQuorumAssumption`, `ContractFundedAssumption`
and the assumptions of `HyperdriveIbc`): `ChainsImplementIbc`, `ContractIsRemoteCorrect`,
`ClaimedOnlyIfRelayedCorrect`, `FeesCoveredCorrect`.
`RecoveredAttests` is the counterpart of `QuorumAttests` for a list in which every signature
must be of a known key and no key comes twice: the keys of the list are as many as its
signatures (a pigeonhole argument), so one is honest. Together with `ContractInv` (only
configurations of `Configs` are ever in force) every step of the contract is an emission or a
delivery that `HyperdriveIbc` allows, every step of the pallet is its own, and so
`ChainsSpec => IbcSpec`: all theorems of the first part hold of the two chains together.
`CoverInv` says that the contract's balance is at least its existential deposit and the pending
fees; the deposit has to be there from the start, since the first fee alone may be below it.

**`Hyperdrive_proofs`**, third part, on `HyperdriveToken` (from `TokenAssumption`, `FeeVaultAssumption`, `TransferAssumption` and the
assumptions of `HyperdriveIbc`): `TokenInvCorrect`, `ImplementsBridgeCorrect`,
`VaultBacksSupplyCorrect`, `RetryNeverBlockedCorrect`. Every step of the pallet, the message layer
and the proxy is a step of `Bridge` or leaves its variables alone. That needs to know what a
message says: `SentIsLocked` (every message announces a stored transfer with its amount and destination,
or is an enable message), `EmittedIsBurned` (a contract's message of the native asset was burned for),
with `AcceptedOnlyIfEmitted`'s argument that only such messages are received, and `NoncesInOrder` (the
next nonce is unused). `VaultBacksSupply` follows along the same steps: locking moves an amount
from an account to the sum of what is under way, minting moves it to the supply, and back.
`RetryNeverBlocked` needs `FeeVaultPays`: every message was paid by the fee vault, so the hold of
the fee vault covers the refund (`HeldInv`), and the vault keeps its deposit. The vault is endowed
with it at genesis (`node/src/chain_spec/mainnet.rs:184`, `:252`), hence `FeeVaultAssumption`. Unlike
the run, the proof covers both directions in one behaviour.

**`Marketplace_proofs`** (from `MarketAssumption`, `RegistrationAssumption`, `PalletAssumption`,
`TimeAssumption`, `SampleAssumption`): `AssignedMirrors`, `NoOrphans`, `MatchedAdvertise`, `TablesCorrect`,
`PalletBacksBudgetsCorrect`, `MarketInvCorrect`, `SingleJobSolventCorrect`,
`DeregisterNeverBlockedCorrect`, `RewardedOnceCorrect`, `RewardsBoundedCorrect`, `ExecutionsAgreeCorrect`,
`OverlapsExactCorrect`. Four invariants, one on the other:

- `MatchInv` conjoins the first three properties with the domain of `matches`: cleaning up
  follows `AssignedProcessors`, so that no match is left behind only because the mirror is exact.
- `TablesInv` adds the types of all tables, that a registered schedule has between one execution and
  the maximum, and that the pallet's account holds the sum of the budgets beside what it had at first.
  `PalletAssumption` is what the runtime provides: the pallet account signs nothing and is endowed at
  genesis.
- `MarketInv` adds, for jobs of which no single execution was ever matched, what has happened to each
  match (`WholeMatch`: rewards only before the next expected report, no more of them than reports
  met) and `Solvent`: the budget of an open job covers its total reward, that of a
  matched job covers, for each assigned processor, its fee for each execution it has not yet
  met. A report lowers the budget and what is still claimed by the same amount; the share of the
  matcher is claimed until the acknowledgement pays it.
- `BoundInv` adds, for each job however it is matched, that the rewards paid and those its matches can
  still take are together at most what was granted (`Granted`): its slots times its executions if it was
  matched as a whole, plus its slots times the executions that were matched singly or have begun. A
  report moves one from due to paid; a match of an execution adds at most the slots to what is due
  and one execution that was not counted before. That is the hard part: a match of an execution deletes the
  status of the one two before it, which then must have begun, or it could be matched and rewarded again.

`RewardedOnceCorrect` assumes that only whole jobs are proposed; for matches of single executions the
property does not hold (finding 1). `RewardsBoundedCorrect` has no such hypothesis: kinds of match and
strategies mix as the code lets them. The property itself asks that executions matched singly be
spaced (`Spaced`: `MatchingCompetingDueDelta` at most two intervals). For competing jobs
`register_hook` checks the interval against `MatchingCompetingMinInterval`, which equals the delta in all
three runtimes, so that a match is made at most one interval before its execution, when the one two before
it has begun; for single jobs with shorter intervals nothing does.

`ExecutionsAgreeCorrect` and `OverlapsExactCorrect` hold of every schedule that `register_hook` lets
through and every start delay for which no time overflows (`Regular`), hence of the samples. They need no induction:
the execution count is the one number n with (n - 1) * interval < length <= n * interval, start
times are compared as multiples of the interval, the indices are quotients with remainder, and the
started executions are counted by a bijection with an interval of numbers.

**`ProcessorManager_proofs`** (from `AttestationAssumption`, `ManagerAssumption`,
`ConsentAssumption`): `ManagerInvCorrect`, `PairingIndexesMirrorCorrect`, `ConsentUsedOnceCorrect`,
`VerifiedByOwnUnrevokedKeyCorrect`, `ValidatedIsPayableCorrect` and the action properties
`VerifiedOnlyByUsableChainCorrect`, `FundingPairsCorrect`. `ManagerInv`: ids are given out in
increasing order to one manager each; the index by manager is exactly the image of the
index by processor; the counter of a manager is the largest it has used, so the consents that paired are
as many as the pairs of manager and counter; a manager with money on hold has his deposit. Devices may be
managers, of themselves too, and fees and settings are unrelated. `ManagerAssumption` keeps only the
funds account apart, which is the pallet's own and signs nothing. `ValidatedIsPayable` follows call by call from what
validation has compared; for a funded onboarding, where it compares nothing, from `Covered`.

**`Staking_proofs`** (from `StakingAssumption`, `NoneAssumption`, `ExistentialDepositAssumption`):
`StakingInvCorrect`, `LocksAreStakesCorrect`, `StakesAddUpCorrect`, `WeightsAreSumsCorrect`,
`ExitNeverBlockedCorrect`, `RewardableWithinStakeCorrect` and the action property
`ReleasedAfterCooldownCorrect`. Since the helpers take the storage as a record and return it, the invariant is
a predicate of such a record: for each helper there is a lemma that it preserves the
invariant whenever it succeeds, and a transaction is a sequence of them. `StakingInv` has the clock,
the rewards and, of the storage:

- `Typed`, with no money on hold, and `SumsInv`: the lock of an account is its own stake and the sum of its
  delegations, and it owns that much but for `overslashed`; `TotalStake` is the sum of all.
- `WeightsInv`: the weights of a pool are the sums over its fresh delegations. A commitment that ends and
  is made again starts with no weight, and the delegations left from before become stale at
  that moment; a slash or a reward changes no weight before the delegation itself is touched.
- `CommitmentsInv` and `DelegationsInv`: the slash debt of a delegation is within what its pool has lost per
  weight, its rewardable amount and, while it is fresh, its weights follow from its amount, it is not longer
  than its commitment, and it is stale only after a cooldown of its commitment as long as its own.
  `ExitNeverBlocked` needs all of them: every subtraction on the way out is then covered by what it
  subtracts from.

`ReleasedAfterCooldownCorrect` uses that whatever does not leave keeps its cooldown or begins a new one
(`Retained`), helper by helper.

**`Metrics_proofs`** (from `MetricsAssumption`, `GenesisAssumption`): `MetricsInvCorrect`,
`RatiosAddUpCorrect`, `ClaimsWithinBudgetCorrect`. `MetricsInv` conjoins the types with

- `RatiosInv`: the ratios add up in every epoch from now on, not only in the few the property names.
  `validate_metric_pools` tests the epoch under way and those in which a ratio changes; any later
  epoch has the ratios of the last tested one before it (`Validated`).
- `SumsInv`: no buffer is ahead of the clock, and in the epoch under way and the one before it the sums
  of all managers in a pool are within the pool's total. A commit adds the same to both
  (`AddedPools`, `AddedSums`), although the two buffers slide at different times.
- `ClaimsInv`: what was granted for the last epoch is within the shares of the pairs of manager and pool whose
  buffer has moved on, and those are the ones that have claimed. A share is two quotients,
  both rounded down, so the shares of all managers in a pool are within its ratio (`SharesFit`), and by
  `RatiosInv` the claims of all pools within the reward.

**`Deployments_proofs`** (from `DeploymentAssumption`, `NoneIsNoJob`): `DeployTyped`,
`KeysStayWithOwner`, `KeyIdsUnique`, `HashesFollow`. `KeyInv` adds that job numbers in the future are
untouched, that every key id is of an existing job and that a stored hash belongs to the
owner of the job; a fresh key id is therefore different from all others.

**`TokenConversion_proofs`** (from `ExistentialDepositAssumption`, `ConversionAssumption`,
`NoneAssumption`): `LocksLiftable` and the action property `RefundsReachPayers`. `ConversionInv` is
the conjunction of the types, of `LockInv` (the hold of an account equals the amount of its lock
and leaves it its deposit) and of `PayerInv` (the recorded fee payer of a conversion is the
one who paid for its outstanding message): unlocking needs the deposit beside the hold, and a
refund goes to the recorded payer, not to the one in the message.

What is only model-checked: the liveness property `ConversionCompletes`, since liveness under fairness and
ENABLED are out of the prover's reach. The two runs that expect a violation show that their properties do
not hold. Every other property of the runs is a theorem.

## 6. Not modelled

- Reputation and average rewards (feed one check that is a constant), prices as storage,
  environments, the byte codecs of Hyperdrive actions, certificate parsing, P-256/P-384.
- Compute: backing offers and commission changes (a commitment has its manager from the start),
  several pools in `Staking`, compounding by third parties, the price estimate of pools, migrations.
- Processor manager: versions, binary hashes, update info, endpoints, migration data, which are
  records that nothing modelled reads; account nonces.
- `token-claim` (stands alone), `rewards-treasury`, `candidate-preselection`, the ink proxy, state
  and validator contracts, the Vara contracts (its ibc service repeats the ink contract),
  runtimes and node.
- Imbalances that a runtime's handler burns or redirects: the models stop at the handler.

Most lines of the repository are of kinds that a model leaves out: the field arithmetic of
P-384, ASN.1 structures, benchmarks and weights, chain specifications and runtime configuration.

## 7. Plan

1. `TokenClaim`, and backing offers in `Staking` (the manager of a commitment).
2. The proxy contracts, which turn job actions into messages and statuses, on `InkIbc`.
