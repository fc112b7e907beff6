# NARA protocol v4: specification and verification

This directory holds TLA+ specifications of the NARA v4 contracts, the TLC
configurations that check them on small instances, and TLAPS proofs of the
results that do not depend on the size of the instance. It is meant to be read
beside `contracts/v4/`, `services/` and `scripts/`; every path below is relative to the repository.

Contents: [the system](#1-the-system), [the models](#2-the-models-and-the-code),
[the runs](#3-what-the-runs-check), [bounds](#4-bounds-and-constants),
[fairness](#5-fairness), [the proofs](#6-what-is-proved),
[observations about the code](#7-what-was-found), [what is missing](#8-what-is-not-modelled),
[the plan](#9-plan).

## 1. The system

NARA v4 is a set of Solidity contracts around one time-locked staking engine, a few services, and scripts that workflows run on a schedule.
A transaction is atomic, so concurrency here means *order*: calls of different
users, of keepers and of administrators in any sequence, each finding the state
the others left, with time and epochs passing in between, and with calls between
contracts that may fail and be tolerated (`try`/`catch`). A service is an ordinary process: it waits
between its reads, crashes and restarts, and sees the chain through providers.

| Component | State it keeps | Operations | Talks to | Hard part | Correct when |
|---|---|---|---|---|---|
| Engine (`NARAEngine.sol`, accounting and model libraries) | epoch, indices per epoch, weight schedules, positions, principal, pending rewards, ETH queue, token indices, staged config | lock, extend, unlock, claim, notify, advance, configure | reserve (`try`), NARA token, ETH receivers | every call first settles up to 8 epochs; deltas in schedules; indices rounded down twice | aggregates equal what they summarise; principal only leaves when due; every reward is credited once; the ledger always catches up |
| Reward reserve | balance, allocation, total released | `availableRewards`, `releaseToEngine` | called by the engine | may be missing, mute or revert | never more than its allocation leaves |
| Position NFT and accounts | token, account, position ids; genesis metadata; closed owners | mint, transfer, extend, claim, unlock, burn | engine, genesis distributor (`try`) | three parties per close, each allowed to fail | token, account and position stay one; a closed position's rewards keep an owner |
| Genesis distributor | tracked weights, index, debts, accruals, queue, totals for two assets | notify, sync, claim, close notification | NFT (reads back weights) | its weights are a copy of the NFT's | copy agrees with the original; rewards backed and owned |
| Staking pool | shares, queue of redemptions, locked and liquid NARA, two reward indices | deposit, redeem, lock, unlock, harvest, transfer | NFT, engine (`try`) | a ready epoch computed once, kept while others queue, lock and claim | redemptions backed and paid when due; nobody gains at the expense of the holders who stay |
| Fractional positions, with their factory | who wraps which NFT; fractions, three reward indices, returned principal | create, bind, transfer, harvest, claim, unlock, redeem | NFT (`try`) | rewards and principal in one balance; shares of what remains | everything claimable is there; no share depends on the order; one wrapper per token |
| Growth vault, compounders | bindings, their staged changes and freezes, route, fees and donations; banks and positions | route, compound, split, recover, staged changes | hook, Uniswap position manager, distributor | three contracts in one call; six staged values in any order | books of all three agree; one distributor is ever paid; no change before its delay |
| Growth hook | flow and charged fee per block and side, curves, depths, staged changes | swap callbacks, staged updates | Uniswap pool manager, vault | snapshot per block, four rounded tiers | splitting a swap within a block does not change the fee |
| Liquidity maintainer (`maintainV4Liquidity.ts`) | what it read, a sent transaction | check, simulate, send, read back | vault, compounder | reads answered at different blocks; the transaction is included long after them | it pays the compounder and the position that were verified, or at least never reports success for another |
| Epoch maintainer and watchdog (`maintainV4Epochs.ts`, `dispatchV4EpochMaintainer.ts`) | a run, its transactions | look, dispatch; check, plan, send, wait, report | engine, GitHub, RPC provider | lost schedules, rival pokes, lost transactions | the ledger catches up, or an operator is told |
| Range manager | orders, active array and its index, position registry | create, settle, cancel, quarantine, pause | Uniswap position manager | removal from the middle of an array, several times in a batch | array, index, status and custody agree |
| Range settler service | a journal of one signed transaction, records of settlements | sweep, sign, broadcast, reconcile, rebroadcast | three RPC providers, range manager | crashes between disk and network, reorganisations between reads | one nonce is signed once; every settlement is recorded; no order is stuck silently |
| Bond vault and depositories | cap, net released, market; terms, treasury, quotes' nonces, queued ETH | donate, pull, return, buy, flush, rescue, staged changes | NARA token, NFT, engine, treasury (both may refuse) | a cap compared with what is out, twice; a quote that waits while terms and fee change | what is out stays within the cap; a quote is used once and on its own terms; ETH adds up |
| Ops vault, routers, lenses, renderers, launcher, SY wrapper, other scripts | little or none | forward, read, format, deploy | everything | none | - |

`PROJECT.json` has the complete list with the status of each part, and the
hazards of the code with the property that would notice each of them.

## 2. The models and the code

### 2.1 The engine

| Module | Models |
|---|---|
| `PrefixSum` | sums over numbered families, for counters that stand beside a mapping |
| `NaraAccounting` | `NARAEngineAccountingLib.sol`: accrual, settlement on extension, token accrual |
| `NaraModel` | `NARAEngineModelLib.sol`: weight and config validity |
| `NaraRewardReserve` | `NARARewardReserve.sol` as a record within the engine's state |
| `NaraEngine` | `NARAEngine.sol`, the state machine |
| `NaraEngineProperties` | its type invariant and properties |
| `PrincipalCustody` | the abstract specification: what the engine promises about principal |
| `MCNaraEngine` | constants for TLC |

Storage and variables:

| Contract storage | Model |
|---|---|
| everything `_advanceOneEpoch` writes: `_state`, config and staged config, schedules, `naraIndexAtEpoch`, `ethIndexAtEpoch`, tracked reserve, the engine's NARA balance, the reserve | the record `core` |
| `_positions` | the sequence `positions` |
| `totalLocked`, `ownerLockPositionCount`, `totalNaraDripClaimed` | variables of the same idea |
| fee settings; pending configuration and its timelock | `fees`, `pendingConfig` |
| ETH balance and held fees | `eth`, with the totals received and claimed |
| one reward token: index, checkpoint arrays, balance | `token` |
| `block.timestamp` | `now`, moved by `Tick` |

One external function is one action. Nearly all of them begin with
`_jitAdvanceFresh`, which settles up to `MaxJitAdvance` epochs and reverts if
that was not enough. So `CatchUp` is a *function* from ledgers to ledgers and an
action picks a ledger `c` from `FreshCores` and then does its own work on `c`:
a revert anywhere means that the action is not enabled. `onTransferReceived` is the
exception in the code and in the model: it does not advance, it refuses a stale ledger.

Choices worth knowing:

- The **emission curve** (`computeNextEpochSnapshot`) is any target from
  `EmissionTargets`, chosen per epoch. No property depends on its shape; the cap by
  available funds, which follows it in `_advanceOneEpoch`, is modelled exactly.
- The **reserve** has, per epoch step, a mood: it *answers*; it is *mute*
  (`availableRewards` fails and counts as nothing); or it *refuses* (announces funds and
  reverts on release). A release that succeeds is measured by the balance, as in the code.
- A step that reverts (the subtraction at `NARAEngine.sol:833`) ends the catch-up, and
  callers that need a fresh ledger are then not enabled.
- **Batches** are sets of ids, because a repeated id reverts.
- **Rounding happens.** RAY is 12 instead of 1e27, so index increments and shares lose
  fractions in nearly every behaviour.
- `rebases` and `token.notified` are auxiliary: no code reads them. The first counts the extensions of
  active positions, and the weight times elapsed epochs that extensions took away (`shed`): an extension under a
  changed configuration may lower a weight, but the epochs before it were rounded with the old one. Properties use it
  to count roundings; a bound uses the second.
- Left out: roles (any caller may try any administrative call), `minWeight` slippage checks, the
  fee receiver's refusal, and the widths of `uint128`/`uint96`.

### 2.2 Rewards of position NFTs: genesis and fractions

| Module | Models |
|---|---|
| `GenesisDistributor` | `NARAGenesisRewardDistributorV4.sol` as functions on one record `d` |
| `GenesisPositions` | `NARAPositionNFTV4.sol` from mint to burn, composed with the distributor it notifies |
| `GenesisProperties` | type invariant and properties |
| `FractionalPosition` | `NARAFractionalPositionV4.sol` and its factory |
| `PositionRewards` | the two side by side, and the properties of fractions |
| `MCGenesis`, `MCPositionRewards` | constants for TLC |

ETH and the reward token run through the same code on separate storage; they are two
`Assets`. A token, its account and its engine position are created together and closed
together, so one id stands for all three. Of the engine only the question "has this
position matured?" is visible to the NFT (`Mature`).

A close (`_unlockTo`, `_burnEternalGenesisTo`) is one action with three calls that may
fail and are tolerated: the notification `onGenesisPositionClosed` and the two claims.
The notification fails when the distributor is already entered (a claim's ETH payment
calls the receiver, who closes a position from inside it) or runs out of gas; the claims
fail when the receiver or the token refuses, and must fail when funds are missing. After a
failed notification the distributor still tracks the weight of a position that is gone, until
somebody calls `syncGenesisRewardWeight`. `closeNotifyFailed` records the event
`GenesisCloseNotifyFailed`; `allocations`, which counts notify calls that moved an index,
is auxiliary.

Not in the genesis model: extensions, routing of engine rewards through the account, the
wrapper's claim fees, sweeps and `claimClosedPosition...`.

`FractionalPosition` keeps, per contract the factory deployed, one record: the expected and the bound
token, fractions, an index, debts and accruals for NARA, USDC and ETH, what it holds of each, and the
principal that came back. A harvest tries two calls; `Answers` says which succeed together, and what a failed
call leaves stays with the position. `Returned` is what `unlockTo` sends, measured after the final harvest.
`redeemed`, the history of the claims of principal, and `rewards`, a bound, are auxiliary. A user may sell the
NFT between `create` and `bind`, and a wrapper that has not bound may be replaced. Any user may be an approved
operator of any NFT, and allowances on fractions are left out, so that any transfer can happen. NARA sent to the
contract directly is counted by no function and left out.

A genesis position cannot be wrapped (`bind` refuses it), so `PositionRewards` puts the two models side by side:
an execution is about one of them, chosen by the constant-valued variable `subject`.

### 2.3 Staking pool

| Module | Models |
|---|---|
| `StakingPool` | `NARAStakingPoolV4.sol` |
| `StakingPoolProperties` | type invariant and properties |
| `MCStakingPool` | constants for TLC |

The contract's storage is one record, `pool`, and the contract's internal functions are
functions on it, because a user's call is a chain of them: `Deposit` prices and mints on
`AutoHarvested(pool, ...)`, and each mint, burn or transfer is `Moved`, which accrues USDC and
ETH at the old balances as `_update` does. `redemptions`, the two switches, the clock and the
NFT's counter are variables of their own.

What engine and NFT keep for the pool's positions is part of the record, modelled from how the
pool calls them: `position` (principal and unlock epoch) and `earned` (what a claim would bring
now, raised by `Earn`). A harvest makes two calls per position, each under `try`; `Answers` says
which of them may succeed together. `_readyEpochForReserved` selects the earliest
unlock epoch at which liquid NARA and the positions due by then reach the target: the code walks
the positions in the order of their epochs, the model takes the least such epoch.

`maxReadyEpoch`, `minShares` and `minWeight` only let the caller refuse and are left out. So are
roles: anyone may lock or pull a switch, as long as the contract's other conditions allow it.
Engine fees in ETH pass through and leave no trace. Dead shares remain for ever after the first
deposit, so the branch that keeps rewards for a time without shares is there but is never taken:
nothing can be harvested before the first position, and that needs a deposit.

### 2.4 Range orders and their settler

| Module | Models |
|---|---|
| `RangeManager` | `NARATreasuryRangeManagerV1.sol` as functions on one record |
| `RangeOrders` | the contract as a state machine on a pool whose price moves |
| `RangeSettler` | the settler service against a chain of such records |
| `RangeSettlerProperties` | its type invariant and properties |
| `MCTreasurySales`, `MCRangeSettler` | constants for TLC |

The contract is a set of functions because it is used twice: `RangeOrders` applies them to a variable, and
in `RangeSettler` each block of `chain` holds the record after it, so that a reorganisation takes an
earlier record back. Prices and ranges are ticks. Amounts are left out: an order settles all or nothing.

A pass of the settler (`runSweepPass`, `execute`, `reconcilePending`) is a chain of steps, `pass.at`
names the next one and the other fields of `pass` are what the process holds in memory. A step is what happens
between two awaits that matter: a read of all providers, a write to disk, a broadcast. Anything may
happen between two steps. The coordinator never lets passes overlap, so there is one `pass`.

| Code | Step |
|---|---|
| sweep, load the journal | `StartPass` |
| second sweep; gas estimate and `nextWriteNonce`; sign and save; broadcast | `Check`, `ChooseNonce`, `SaveJournal`, `Broadcast` |
| `receiptConsensus`; `receiptConfirmed` | `ReadReceipt`, `Confirm` |
| `assertSettlementTransaction`, then evidence and record, or the reverted case | `RecordSettlement`, `AcceptRevert` |
| `clearAfterConfirmedReceipt` | `Clear` |
| no receipt: `terminalOutcome`, `absentTransactionDisposition`, exact simulation; rebroadcast | `CheckAbsent`, `Broadcast` |
| any error, a deadline that ends the process, a crash | `Abort` |
| a crash within a write | `TornSave`, `TornRecord` |

A provider is the height it has reached; it answers from the canonical chain up to there, so disagreement
is a difference of heights. All reads of one block of a sweep are one read. The mempool is one for all
providers; `gossiped` is what the network has ever seen, from which a transaction may `Resurface`.
`sent`, the history of the journal, is auxiliary. The checks of bindings, dependencies, balances, fees and
allowances only end a pass, like `Abort`, and are left out. The orders exist before the first block of
the model; other accounts settle and the Safe cancels, as blocks of their own.

### 2.5 The liquidity flywheel

| Module | Models |
|---|---|
| `Timelock` | the abstract specification every delayed change implements |
| `GrowthClock` | block number and time, and how a change is staged |
| `GrowthHook` | `NARALiquidityGrowthHook.sol`: block flow, cumulative fee, staged curves and depths |
| `GrowthVault` | `NARALiquidityGrowthVault.sol`: bindings, freezes, routes, keepers, bounty, genesis split |
| `LiquidityCompounder` | `NARALiquidityCompounderV4.sol`: bank, full-range position, recovery |
| `GrowthSystem` | the three in one, with the runs of `scripts/maintainV4Liquidity.ts` |
| `GrowthProperties` | properties, and six instances of `Timelock` |
| `MCGrowth` | constants for TLC |

A staged value (`PendingTarget`, `PendingFeeCurve`, ...) is a set, empty or a single `[target, eta]`. The funds
of the vault are a *purse* (balances and books), and calls that chain several transfers, like `processGenesisSplitAll`,
are functions on it, so that a revert late in the call undoes what came before. The pool is a price: what one unit of
full-range liquidity takes of each currency. The fees a position earns there are left out: an increase takes less from the bank
by as much, and what was used is measured, so the books do not notice.

A compounder spends its whole balance, whoever sent it. Anyone may therefore send tokens to the vault or to a compounder
(`Donation`), and a recovery leads to any recipient but its own compounder: to another one, whose bank it joins, back to the vault, where it is a
fee that the hook never recorded, or outside. `given` counts what a bank received other than through `compound`, `donated` what the
vault received other than as a fee, `removed` what recoveries took out; `BooksBalance` is about all three. ETH and foreign tokens never enter.

A run of the maintainer is a chain of steps, and anything may happen on the chain between two of them:

| `maintainV4Liquidity.ts` | Step |
|---|---|
| start; one answer of the `Promise.all` at 374, in any order (`batchMaxCount: 1` makes each an `eth_call` of its own, at `latest`) | `StartRun`, `Answer` |
| the comparisons at 395 to 426 | `CheckBindings` |
| the keeper's permission, `readSnapshot` and the block the deadline counts from | `Snapshot` |
| the first static call, the thresholds, the execute-mode refusals | `Simulate` |
| the second static call and the transaction; its inclusion, whatever the vault is bound to by then; its loss | `Send`; `Land`; `Lose` |
| the read-back after the receipt | `Report` |
| any refusal or error, the job's timeout, the end | `EndJob` |

`Answer` covers the four reads that any call of the owner can change after deployment; the other bindings are immutable or belong to the Safe. `Snapshot` is one step
although it is several calls: only its position and total are used later, by `Report` and the properties, and the deadline
counts from the last of them. The run lives for at most `timeout-minutes` of the workflow (`InTime`); for a run started by hand nothing limits it, and
the theorem about the maintainer does not speak of that. Two transactions of equal content are one. `frozenThen`, `raced`, `position`,
`paid` and, before it is compared, `right` are history or a summary of what was answered. The code never asks again whether the vault is still bound to the compounder it verified,
and neither does the model: `Simulated` and `Land` use the binding of their moment.

What reading the code for this model showed, and the model relies on:

- `setRouteMode` refuses the `Engine` and `Split` routes, so `setEngine`, `setSplitEngineShare`, `routeToEngine`
  and `processSplitAll` can never move anything. They are not actions.
- In the `GenesisSplit` mode, with a one-sided skim and an empty bank the compound adds nothing, its minimum of one is
  missed, and the whole call reverts: the genesis share waits for the other currency.
- A position sent to another compounder of the same code is kept but not adopted by it: `positionTokenId` is set only by a mint. The vault has no
  receiver hook, so a recovery that would send it a position reverts.
- If `executeCompounder` and `freezeCompounder` fall between the answers to `compounder()` and `compounderFrozen()`, both checks of the maintainer
  pass and its transaction compounds into the new compounder. `CompoundsVerifiedPosition` excepts exactly this case (`raced`) and says that the run
  then never reports success, because the read-back looks at the old compounder. Without the exception, TLC finds the case within the bounds of `growth`.
- The maintainer's read-back (`maintainV4Liquidity.ts:535`) reads at `latest`, not at the block of its receipt.
- `RECOVERY_DELAY` is longer than the job's timeout and the transaction's deadline together. The assumption is named
  in `GrowthSystem` (`SystemAssumption`), and without it `CompoundsVerifiedPosition` would not hold.
- The refusal of a distributor without any weight is abstracted: its queue takes the reward instead.

### 2.6 Bonds

| Module | Models |
|---|---|
| `BondVault` | `NARABondVaultV4.sol` |
| `BondDepository` | `NARABondDepositoryV4NFT.sol` on that vault |
| `BondProperties` | properties, and the instances of `Timelock` |
| `MCTreasurySales` | constants for TLC, together with the range orders |

A market is any address; the ones in `Depositories` run the depository's code, others just hold NARA. The price signer is
external and trusted: `Sign` records what it signed, and `Buy` recomputes the digest's fields. The engine shows as a lock fee
that moves (`SetLockFee`) and an answer to `notifyEthRewards`; the treasury as an answer. Recipient,
lock duration, the genesis data of the terms, roles, the signer's replacement and `sweepForeignToken` are left out.
`NARABondDepositoryV4` is the same contract without quotes.

Two things the model shows and no property forbids: `netReleased` is clamped at zero, so NARA that was given to a market and
is returned through it makes later pulls free of the cap's count; and a depository's remaining capacity
may exceed what the vault would release, in which case a purchase reverts.

### 2.7 The epoch keeper

`EpochKeeper` extends `NaraEngine` with the hourly workflow and its watchdog. A run is a chain of awaits, as in
the settler: the read-only check of the routine, the plan, a batch, the wait for its inclusion, the state after it, the report. The
engine goes on between them. `kept` says who sees to the ledger in an execution: "anyone", with all
actions of users and somebody who pokes, or "workflow", with quiet users, rival pokes, stray tokens and configuration
changes. In the second mode GitHub's schedule may never come, runs and transactions may fail or vanish, silently or with an alert, up to
`MaxFaults` times. Two refusals are by design and for an operator: a backlog above the routine's limit, and NARA the engine
holds and does not account for. Left out: `--sync-untracked-reserve`, the checks of addresses and keys, the watchdog's staleness limit (a delay
only), and reorganisations.

## 3. What the runs check

| Run | Question | Result |
|---|---|---|
| `engine_weights` | With locks, extensions, single and batch unlocks, configuration changes and token rewards, are `totalLocked`, the active weight, both schedules and the owner counters exactly what they summarise; is a staged configuration applied on time; are token rewards funded; does the engine implement `PrincipalCustody`? | holds |
| `engine_rewards` | With emission, pulls from the reserve, claims, extensions in an open epoch, unlocks and donations, or with ETH, claim fees, flat fees and withdrawals: is each unit credited exactly once, and do the books balance? | holds, up to one unit per rounding |
| `epoch_keeper` | Does every backlog clear, and every staged configuration take force, whatever the reserve answers and however epochs pass, with only a watchdog that GitHub serves badly? | holds under the fairness of section 5, or an operator is told |
| `engine_rounding` | Does the engine's NARA always cover principal and pending rewards, as the fuzzing harness states? | violated, see section 7 |
| `position_rewards` | With genesis positions sold, closed, failed notifications, failed claims and re-syncs, do the weights of NFT and distributor agree, is each reward backed, credited once, and owned by somebody? With a wrapped position, failing harvests, transfers between claims, and a wrapper replaced: is everything claimable there, is principal shared by fractions only, are there fractions only of the registered wrapper? | holds, up to one unit per notify call or redemption |
| `genesis_rounding` | Is a remainder that waits for the next notify call really not claimable yet? | violated, see section 7 |
| `pool_redemptions` | With positions locked and unlocked in any order and with a fee, two redemptions in the queue and an emergency: are the queue's books right, is the array of positions sound, is every promised ready epoch kept, is everybody paid in the end? | holds; the last under the fairness of section 5 |
| `pool_rewards` | With two holders who deposit, transfer, redeem and claim while harvests bring NARA, USDC and ETH or fail: is every reward backed, and is no call at the expense of the other holders? | holds |
| `growth` | However a block's flow is cut and curves are changed, does it pay its curve? Do the books of vault, compounders and distributors agree, is one distributor paid, do six staged values obey one timelock? Tokens may be sent to any of them, and recoveries may lead from one to another. Does a transaction of the maintainer pay the compounder and position it verified, although each read is answered on its own? | holds, the last but for one race, which a run never reports as success |
| `treasury_sales` | Bonds: with caps, markets and terms changing, NARA returned, quotes that wait, refused ETH and a moving lock fee, is the budget held, are quotes honoured, does the ETH add up, is every change announced? Range orders: with three orders on two ranges settled in batches, cancelled, and a foreign position pushed in, do the active array, its index, statuses and custody agree, and is no order born settleable? | holds |
| `range_settler` | With a crash or a lost transaction at any step, two lagging providers, rivals and a reorganisation shallower than `CONFIRMATIONS`: do nonces rise, is every settlement recorded, once and for good, and is each crossed order settled or the operator paged? | holds; the last under the fairness of section 5 |
| `settler_nonce_reuse` | Do nonces still rise when the reorganisation may fall between the reads of one pass, as the runbook says? | violated, see section 7 |

The properties, in words, stand above their definitions in
`NaraEngineProperties`, `EpochKeeper`, `GenesisProperties`, `PositionRewards`, `StakingPoolProperties`,
`GrowthProperties`, `BondProperties`, `RangeOrders` and `RangeSettlerProperties`. Some remarks on how they are stated:

- *Conservation of rewards* is two-sided. `NaraRewardsConserved` bounds what was claimed
  plus what positions could still collect from above and from below by what was
  distributed. The tolerance is counted, not guessed: a stretch of constant weight (a
  position, or a position after one more extension) rounds at its two ends, which is
  `Stretches`, and each epoch's index increment is rounded down, by less than 1/RAY for each unit of
  weight, which is `IndexDust`: the weights times the epochs they were active in, those that extensions have
  lowered since (`shed`) included. A payment made twice is noticed once it exceeds the roundings counted so far, which it does in the instance checked (the mutants pay a whole epoch twice); a single
  unit after many roundings need not.
- `RewardsBacked` and `CreditedOnce` do the same for the distributor; `CreditedOnce` is an
  action property, so it also forbids moving a reward from one token to another.
- `NaraBooksBalance` is checked with a reserve that answers. A reserve that is mute or refuses is in `epoch_keeper`, for liveness, and
  in the theorem `NaraBooksAreBalanced`.
- `WeightsAgree` makes an exception of the tokens whose close notification failed; what these go on earning is the matter of `RewardsHaveAnOwner`.
- `ShareValueKept` counts what the pool holds and has harvested. What its positions have earned and nobody has harvested is in no
  share's value, so the property does not say who shares in rewards that arrive late.
- `BooksBalance` is an equality to the last unit, on totals kept by three contracts, over plain transfers to any of them and recoveries between them.
- `LandsOnVerified` speaks of every step in which a transaction of the maintainer changes any compounder, not only its own.
- `ReadyMeansPayable` speaks of all epochs to come, not of the present one: a redemption queued
  later must not use what makes an earlier one payable, although the code stores each ready epoch
  once and never looks at it again.
- `CrossedOrdersSettled` allows the settler to stop only where the code pages: an unreadable file, the drop age, or a
  vanished transaction whose exact call can no longer succeed. Age is possible but not assumed to come, so
  the property does not hold by waiting.
- `PrincipalSharedOut` speaks of the history: each claim of principal is compared with the exact share of the
  fractions it redeemed, from both sides, however many transfers and claims came between.
- `FeeFollowsCurve` compares what a block was charged, swap by swap, with the fee of its total flow.
- The timelock properties are refinements: `ChangesAnnounced` and `BondChangesAnnounced` say that each staged value of
  six contracts implements `Timelock`, with "open" (nobody depends on it yet) and "locked" (frozen) mapped to the contract's conditions.
- `BacklogClears` does not assume that the engine's step succeeds: a step that reverts for ever satisfies
  the fairness and violates the property.
- `TypeOK` is an invariant of its own where it is proved, and otherwise a conjunct (`QueueBacked`, `NothingUnrecorded`).
- Every property has at least one *mutant* in `PROJECT.json`: a plausible slip in the code
  (a dropped guard, a schedule entry left behind, rewards paid twice on an extension) with
  which the same run finds the property violated. Mutated operators stand above their
  originals and are marked as such.

## 4. Bounds and constants

- **Engine:** two positions (three for the rounding run), two owners where the owner
  counter matters and otherwise one; locks of one to three epochs, one extension by one
  epoch at a time, four to nine seconds at one or two seconds per epoch; two
  configurations, `Steep` and `Shallow`, chosen so that an extension under the second can
  lower a weight set under the first. A position so goes through all of its life (waiting,
  active with closed epochs and one open, matured, unlocked) while a second one is at any
  other stage. `MaxJitAdvance` is 1 or 2 instead of 8, so that backlogs longer
  than a slice occur within the clock. RAY = 12 and WAD = 2 make both levels of rounding occur.
- **Reserve:** an allocation below its balance, so that either limit may bind.
- **Genesis:** two tokens, two owners, two weights (1 · 3/2 and 2 · 3/2, with the
  multiplier's floor), one unit of each asset and at most two notify calls per asset that move
  an index: one position can close, be re-synced and claim while the other is sold, and a
  queued remainder is allocated again. Owners are only compared with each other, so
  permuting them is a symmetry; no liveness property is checked with it.
- **Fractions:** one position with a principal of four, three fractions, three interchangeable holders, two wrappers, two units of
  reward, harvests that succeed or fail as a whole; RAY = 10 against three fractions rounds both the index and the shares. Three units of reward,
  and harvests that fail by half, were checked separately with the same result.
- **Growth:** two compounders and two distributors, a delay of two blocks, BPS = 4 with curves whose fees really
  round, swaps of one and three units up to a flow of six, four blocks. The search is split by topic (`OneTopic`): fees;
  routes; targets; recoveries of both compounders into each other, into the vault and outside, with donations; a run of the maintainer with the recovery of
  a compounder that is frozen; a run with the replacement of one that is not. What a topic leaves out rests in its initial state. Of the orders in which the
  four answers come, `Answered` keeps those that differ: only `compounder()` and `compounderFrozen()` can tell different stories, so these come both ways. Of a run's transactions one is in flight at a time, which may outlive its run and meet the next; the run that
  meets a replacement starts when the replacement can be executed. Distributors are only compared with each other, so permuting them is a symmetry. The proofs need no topic, no order and no such limit.
- **Bonds:** one depository and one market that is none, an allocation of four, caps of one, three and four, two
  quotes, two bonds, prices at which one unit of ETH buys one unit or one and a half, a lock fee of a quarter or a flat one, three units of time
  against delays of one. Three topics: the vault, the terms, the ETH; the proofs need no topic.
- **Epoch keeper:** five epochs, slices and batches of one, two batches per run, a limit of two on the backlog, two faults, one configuration, three moods of the reserve.
- **Pool, redemptions:** one user, whose two redemptions compete like those of two; three positions,
  of which two at a time, so that a removal moves the last one and a slot is used again; a fee of
  half the amount; five epochs. Nothing is harvested here.
- **Pool, rewards:** two interchangeable users, one position that may earn two units of NARA, USDC
  and ETH, harvests that succeed or fail as a whole, and a bounty of one half or none. RAY = 4 makes the index
  and the share price round.
- **Range orders:** three orders and one foreign position, so that a removal moves an order that is itself removed
  later; batches of up to two; ranges of width one and two.
- **Settler:** two orders on one range in one batch, which a rival can spoil by settling one of them; three
  confirmations, the default, and one reorganisation of at most two blocks (a second one could reach below, since
  both count from the tip); at most three blocks of others before the settler's; one fault out of crash, torn file,
  lost and late transaction. Two providers of the three: agreement is "all", and two can already differ. Two
  transactions are signed at most, so `MaxTxs` = 3 never binds. `settler_nonce_reuse` uses two confirmations,
  one block of reorganisation and one more block of others.
- `MaxHeight`, `MaxTxs`, `MaxOrders`, `EpochBound`, `MaxTime`, `MaxPositions`, `MaxEth`, `MaxToken`, `MaxTokens`, `MaxReceived`,
  `MaxAllocations`, `MaxRedemptions`, `MaxEpoch`, `MaxNara`, `MaxReward`, `MaxRewards`, `MaxContracts`, `MaxNow`, `MaxFlow`, `MaxTotal`,
  `MaxQuotes`, `MaxBonds` and `MaxFaults` bound the instance and appear as guards; nothing else in the modules
  is bounded. Deadlock is not checked: at the last second, with nothing left to claim, a bounded
  instance stops, and a settler with nothing to settle rests.
- The proofs of section 6 need no bound on any of these.

## 5. Fairness

`epoch_keeper` assumes (`KeeperFairness`) that time passes, that the watchdog, a process outside GitHub, looks and
dispatches, that GitHub starts a run that is pending, that a run which is not killed takes its next step, and that the chain includes a
transaction that was not dropped and does not revert. Failed runs and dropped transactions are faults, of which there are finitely many. While the
workflow keeps the ledger nothing is assumed of GitHub's own schedule, of anybody's poke, or of a user. In
executions without the workflow (`kept` = "anyone") it is assumed instead that *poke*, which is open to everybody, is called when it can settle
something.

`IncludeFairness` and `PokeFairness` are weak fairness of `Include` and `Poke` with the enabling condition written out
(`CanInclude`, `CanPoke`), because TLC otherwise computes ENABLED of an action whose next state is
chosen from a set of functions. The condition says that the call does not revert, so the
properties are not true by assumption: a ledger on which every step reverts satisfies the fairness and violates `BacklogClears`.

`pool_redemptions` assumes that epochs pass, that a matured position is unlocked by somebody
(`unlockMatured` is open to anyone and pays a bounty), and that a redeemer claims when it is possible.
Either call ends its own enabling condition, so weak fairness of it is the same as
`[]<> ~ CanUnlock(t)` and `[]<> ~ CanClaim(i)`, and is written that way. Nothing is assumed of the
locker, the depositors or the administrators: the locker may lock again whatever it is allowed to.

`range_settler` assumes that the settler goes on (timers trigger passes, the supervisor restarts the process),
that a transaction in the mempool with the next nonce is mined, that blocks go on until
receipts have their confirmations, and that providers catch up. A crash is a fault, of which there are finitely
many. Nothing is assumed of rivals, of a lost transaction's return, or of the drop age.

## 6. What is proved

All theorems are about a specification with every constant left open, within the assumptions named in the modules. For the
engine these are `RayAssumption`, `WadAssumption`, `EngineAssumption` and `ConfigAssumption`: any number of
owners, positions and epochs, any fees up to 100 %, any emission and any valid configurations. Elsewhere they are
`GenesisAssumption`, `FractionalAssumption`, `PoolAssumption`, `HookAssumption`, `VaultAssumption`,
`CompounderAssumption`, `SystemAssumption`, `BondVaultAssumption`, `DepositoryAssumption`, `RangeAssumption` and
`SettlerAssumption`: delays and scales are positive, sets that are summed over are finite, users are not contracts, and
the bounds are numbers, of any size. The proofs about the settler have, in addition, `SettlerConditions`.

| Module | Theorem | States |
|---|---|---|
| `NaraEngineProofs` | `InductiveInvariant`, `RewardsInvariant` | the two strengthenings below are inductive |
| | `TypeCorrect` | `TypeOK`: no unsigned quantity underflows, the settled epoch never passes the clock |
| | `PrincipalIsConserved`, `WeightAggregatesAreExact`, `OwnerCountIsExact`, `StagedConfigIsOnTime` | the aggregates |
| | `NaraBooksAreBalanced` | `NaraBooksBalance` |
| | `NaraRewardsAreConserved`, `EthRewardsAreConserved` | `NaraRewardsConserved`, `EthRewardsConserved`, from both sides |
| | `TokenRewardsAreFunded` | `TokenRewardsFunded` |
| | `EngineKeepsCustody` | `CustodyHeld`: the engine implements `PrincipalCustody` |
| | `EngineHoldsWhileKept`, `CustodyHoldsWhileKept` | all of these again, of `EpochKeeper` |
| `PositionRewardProofs` | `WeightsStayInStep`, `GenesisRewardsAreBacked`, `GenesisRewardsHaveAnOwner`, `RewardsAreCreditedOnce` | `WeightsAgree`, `RewardsBacked`, `RewardsHaveAnOwner`, `CreditedOnce` |
| | `FractionsAreBacked`, `PrincipalIsSharedOut`, `WrappersHoldTheirToken` | `FractionsBacked`, `PrincipalSharedOut`, `WrapperHoldsToken` |
| `StakingPoolProofs` | `QueueIsBacked`, `PositionsAreIndexed`, `ReadyIsPayable`, `RewardsAreBacked` | `QueueBacked`, `PositionsIndexed`, `ReadyMeansPayable`, `RewardsBacked` |
| | `ShareValueIsKept` | `ShareValueKept`, of each step |
| `RangeProofs` | `ActiveOrdersAreExact`, `NewOrdersDoWait` | `ActiveOrdersExact`, `NewOrdersWait` |
| | `SettlerNoncesRise`, `SettlementsAreRecorded`, `SettlerRecordsStand` | `NoncesRise`, `NothingUnrecorded`, `RecordsStand`, under `SettlerConditions` |
| `GrowthProofs` | `FeeFollowsTheCurve` | for any curves, depths and swaps |
| | `BooksAlwaysBalance`, `OneDistributorIsPaid` | `BooksBalance`, `OneDistributorPaid` |
| | `MaintainerCompoundsVerifiedPosition` | `CompoundsVerifiedPosition`: what each transaction finds when it lands, and what a run may report |
| | `GrowthImplementsTimelock` | `ChangesAnnounced`: six refinements of `Timelock` |
| `BondProofs` | `BudgetIsHeld`, `QuotesAreHonoured`, `EthIsAccounted` | `BudgetHeld`, `QuotesHonoured`, `EthAccounted` |
| | `BondsImplementTimelock` | `BondChangesAnnounced`: two refinements, and two more for each depository |

Together these state every safety and every action property of section 3.

### Sums

`PrefixSumProofs` has the facts about sums that the others rest on: how a sum over a numbered family (`SumTo`) or
over a finite set (`SumOf`) changes when one entry does, when one is appended, when two families agree or
are added, when all entries are scaled, and that sums are monotone. The induction they need is made once, on a set of
naturals instead of a predicate (`NatSetInduction`), and for finite sets through a numbering of the set.

### The engine

1. `NaraLedgerProofs`: one epoch step keeps `LedgerInv` (the types of the ledger, weights
   and schedules exact, the staged configuration on time, the books), and so, by an induction over the
   steps of the loop, does `CatchUp`. This is needed because an action acts on a ledger several steps
   after the one in the state. Appending, extending and repaying a position changes each tally
   by what the schedule changes by.
2. `NaraEngineProofs`, first half: one lemma per action, the aggregates and the books, and then, per action again, the step
   of `PrincipalCustody` it maps to (`Deposit`, `Postpone`, `Withdraw`, `Settle`).
3. `NaraEngineProofs`, second half: the rewards.

Why a strengthening is needed. An exact active weight alone is not inductive: the next epoch's
weight comes from the schedules, so these must be exact for all epochs to come, and a position's
three epochs must be ordered and within the horizon. `NaraBooksBalance`
subtracts in both directions: a claim lowers the balance and raises what was
claimed, but an epoch step moves tracked reserve to rewards, which stays balanced only because
the *pending* counter is, in addition, at least what was distributed less what was
claimed (it is clamped at zero, never below). That second inequality is the other conjunct
of `Books`.

**Rewards in NARA and ETH** (`RewardsInv`). The properties compare sums of floors with what was distributed, and floors of a
history of indices under changing weights are not additive. The invariant therefore speaks of unrounded *marks*, in units
of 1/RAY. A position has a low and a high mark (`LowMark`, `HighMark`): weight times the part of the index it has earned and not been
paid for, with the rounding of its last payment decided for it or against it. The sum of the low marks is at most, and that of
the high marks with the dust of the indices at least, RAY times what was distributed and not claimed (`Backed`). An
epoch raises all marks of active positions by weight times the increment, and the weights add up to the divisor of the
distribution (`WeightAggregatesExact`, from the first invariant), so that the sums rise by what was distributed less one
rounding; a claim lowers a mark by RAY times what it pays; an extension closes one stretch and opens the next, and adds to `rebases`. One
argument serves both assets, with the free ETH, neither fee nor queued, in the place of the NARA not claimed.

**Reward tokens** (`TokenInv`). Their index moves with notifications rather than epochs, its history is an array of
checkpoints, and a claim may come after the position is closed. `TokenMark` is RAY times what a position has earned up to its last
epoch, less what its claims took, rounded up: the first claim rounds the index it opened with *and* what it pays. The
invariant says that checkpoints grow in epoch and index and end at the live index (so that the binary search finds the last one at or
before an epoch), that a claimed position was paid no more than it had earned, that the token weight is at most the weight, and that all marks
together are at most RAY times the balance. A notification divides by the active weight, which is at least the sum of the token
weights of the active positions; a position that has ended keeps its index, because its last epoch is closed.

**The engine in the care of its keeper.** `EpochKeeper` is not an instance of the engine's `Spec`: a batch settles as many epochs as a
run once counted, which may be none of `AdvanceSteps`. `KeeperOK` says that a run never counts a negative backlog and sends only
what it counted; with it each step of the system is a step of the engine's users or settles epochs, and both keep the
engine's invariants.

### Genesis

`RewardsBacked` compares sums of *rounded* claims with what was allocated, and is not inductive: a sync may round one
token's claim down while the next notify call rounds the index down. The invariant `Backed` speaks of rewards before they are rounded:
`Earned(d, a, t)` is what a token has accrued plus the unrounded product of its weight and the index it has not been
paid for, in units of 1/RAY; the sum over tokens, with what was claimed, is at most what was allocated and less than
one unit for each notify call. A sync replaces a product by its floor and an
accrual, which can only lower the sum; a notify call raises it by weight times the index increment. This needs the total weight to be the sum of the tokens' weights
(`DistributorOK`). `TokensOK` relates NFT and distributor: unless a token's close notification failed, both
weights are equal, and the token is a genesis position, or has a recorded closed owner, or has nothing to claim.

### Fractions

`Covered` is the same kind of inequality for each wrapper: what holders have due before rounding (`Due`, in units of 1/RAY),
plus, for NARA, the principal that came back and is not yet paid, is at most what the wrapper holds. A transfer settles both
sides, a claim of principal settles before it burns, and a harvest raises the index by the floor of what came in over the fractions. For
`PrincipalSharedOut`, `SharedOut` compares what is left with the fractions that are left: it is at least their exact share,
and more by at most one unit per claim made. Each claim takes the floor of its share of *what is left*, and both follow for the next
(`RedeemedIsShared`). `WrapperHoldsToken` needs that the registry's wrapper is the only one bound and owns the token until the unlock.

### The staking pool

`PoolGood` is a condition on the record alone, so that each function of the contract (a harvest, a movement of shares, the
removal of a token) is treated once and an action is a chain of them: the array and its index are inverse and name exactly the open
positions; the locked principal is the sum of the positions and, with the liquid NARA, at least what is reserved; what
all holders have coming before rounding (`Coming`), with what waits, is at most what the pool holds; and the dead shares stay.
`QueueGood` adds the queue: the reserve is the sum of what is owed, and for *every* epoch to come, what is due by then is there by then (`FundsBy`).
Locking may use only what is liquid beyond the reserve, an unlock moves principal that counted for its epoch
to the liquid side, and a redemption gets the least epoch at which all reserves, its own included, are covered (`ReadyCovers`).
Each action is proved, in the same lemma, to keep the value of a share (`ShareKept`), a statement about products, which rounding in favour of the
pool makes true.

### Range orders and the settler

`OrdersInv` is `Consistent` of the manager's record: array and index are inverse, exactly the active orders are in it,
and each is for a token in custody that is registered for it. A batch of settlements is a fold; the proof is by an induction
over its partial results, each again consistent and with the orders still to settle untouched.

`SettlerInv` has five parts. `NoncesCount`: a block's nonce counts the settler's transactions below it. `Journaled`:
whatever was signed and is not in the journal is in a block that every provider has and no reorganisation reaches any
more (`Deep`). `Recorded`: a settlement on the chain is recorded or is still in the journal, and a record is of a deep block. `Passing`:
what the running pass has read (a nonce above all that were signed, a receipt's block) still holds at its present step. The
last one is false if a reorganisation may fall between two reads of one receipt, and deep blocks need confirmations beyond the depth
of reorganisations: these are the two `SettlerConditions`, and `settler_nonce_reuse` shows that the first of these is needed.

### Growth

`HookOK` says that a block's charged amount is the fee of its flow on the remembered curve and depth. A swap charges
the difference of two cumulative fees, clamped at zero, so the step needs the cumulative fee to be monotone (`FeeMonotone`):
this is a statement about four tiers, each rounded down on its own. `VaultOK` has the frozen distributor and the payments.
`CompoundersOK` types the rest and says that no recovery leads to its own compounder. `MaintainerOK` has a condition for each stage of a run:
what the answers so far are worth (`Reading`), what the comparison has established (`Checked`), the transaction made up, checked or in flight (`Made`,
`Prepared`, `TxOK`), and included (`Included`). Two arguments run through them. Time: a recovery announced after `pendingRecovery()` was answered
waits longer than job and deadline together, so none can be executed while the transaction can still be included. Order: a freeze is for ever, so if the compounder was
frozen when `compounder()` was answered, the binding that was compared is still the binding; if it was frozen only afterwards, the transaction is `raced`,
and either the binding is the right one, or the verified compounder is bound no more, cannot grow, and the read-back fails.

`BooksInv`, a second inductive invariant, has the totals: those of a purse (`Agrees`), which each function of the vault keeps, and those of the compounders
(`BanksAgree`). A compound moves from purse to bank exactly what the vault books; a transfer to a bank adds to `given` (`GiveAgrees`); a recovery
takes from one bank what it adds to `removed`, and, if it leads to another compounder, adds the same to that bank and to `given` (`ExecutionAgrees`, two changes of one
sum); if it leads to the vault, it adds the same to the balance and to `donated`. For the refinements, each call of the system is shown to be a
step of each timelock or to leave its variables alone.

### Bonds

`VaultOK` and `DepotOK` are the types, with the cap within the allocation; `EthOK` is the two equations about ETH; `QuotesOK`
says that a quote that carries the date of the terms in force is about these terms, which needs `DepotOK` to add that announced
terms take effect at a later date than the present ones did (the delay is positive); `BondsOK` says that the quote of a bond is used up;
`SoldOK` that what was sold is what was released. `GrossUpCovers` is the arithmetic of the lock fee: the amount rounded up for a fee leaves at least the net
amount after the fee, rounded down, is taken.

### What is only model-checked

- Liveness: `BacklogClears`, `StagedConfigResolves`, `RedemptionsPaid`, `CrossedOrdersSettled`. Their proofs would need
  fairness, ENABLED and a measure that decreases, which the installed provers do not reach.

## 7. What was found

**Rounded claims can exceed what was distributed** (`engine_rounding`). A claim pays
`floor(w * I_end) - floor(w * I_start)`, which may exceed the exact share by almost one unit.
Several positions can so collect one unit more than an epoch emitted. `_deliverNara` clamps the pending
counter at zero (`NARAEngine.sol:903`) where it would otherwise revert. While there is tracked
reserve the unit comes out of that (the next `emissionReserve` is smaller); when the reserve is
exhausted it comes out of principal, and the harness's claim "engine holds enough NARA for
principal + pending rewards" fails by one unit (one wei on chain). The last position to unlock
then waits for a single wei to be donated. `engine_rewards` shows that the excess never exceeds one unit per
stretch.

A related corner, not reached by a run: if the balance is short in this way by `D` units, and an external
reserve still holds between one and `D - 1`, the subtraction at line 833 is negative. It stands outside the
`catch`, so the epoch step reverts until somebody sends the missing units.

**A queued remainder is credited again** (`genesis_rounding`). `_notify` raises the index by
`floor(distributable * RAY / weight)`, which credits nearly all of `distributable`, but books only
`floor(delta * weight / RAY)` as allocated and queues the rest, which the next call distributes
again. With one unit and weight three, each `allocateQueuedEth` queues the unit again and raises the
index again. `RewardsBacked` shows the bound: less than one unit of the asset per call. A test
(`test/NARAPositionNFTV4.test.ts:915`) describes the queue as carrying forward what would otherwise be
stranded.

**The settler can sign a nonce twice** (`settler_nonce_reuse`). The runbook
(`docs/runbooks/NARA_V4_TREASURY_RANGE_SETTLER_RUNBOOK.md:128`) describes a durable high-water mark
below which no nonce is signed again. The service has none; it relies on the journal. For a reverted transaction the
journal is cleared on the strength of a receipt that was read before the confirmations were counted and is not read
again (`executor.ts:181` to `217`; `assertSettlementTransaction` accepts a transaction that is only
pending). If a reorganisation removes the block in between, and the network then forgets the transaction, the nonce is free
at every provider and is signed for another batch. `range_settler` shows that nothing of
the kind happens if reorganisations keep away from these reads, and the successful case reads its receipt again.
It takes several blocks within one pass, which has ninety seconds.

## 8. What is not modelled

- The routing of engine rewards through a position's account, the NFT's claim fees, sweeps and the claims of closed
  positions; the pool's SY wrapper, which forwards calls and keeps no state.
- `NARABondDepositoryV4`, the depository without quotes.
- The NARA token beyond exact transfers and its fixed supply; the ops vault (a vesting formula);
  routers and lenses (one forwarded call, or reads); renderers (formatting); launcher, deployment and verification
  scripts (one-shot operations); the web front ends and consoles under `tools/`, which only read and send single calls.
- Gas, except where running out of it is tolerated by the code; ETH forced into a bond depository by `selfdestruct`; the fees a compounder's position earns.
- The shape of the emission curve.

## 9. Plan

Order of work, most important behaviour first:

1. *Done.* Engine: modules of section 2.1, five runs, the proofs of section 6.
2. *Done.* Genesis rewards and fractions: modules of section 2.2, two runs, the proofs about genesis.
3. *Done.* `StakingPool`: modules of section 2.3, two runs.
4. *Done.* Range manager and settler: modules of section 2.4.
5. *Done.* The liquidity flywheel with its maintainer: modules of section 2.5, one run, proofs.
6. *Done.* Bonds: modules of section 2.6, one run, proofs.
7. *Done.* The epoch keeper: section 2.7, one run.
8. `PositionAccounts`: routing of NARA, ETH and token rewards through the account to the current or
   the closed owner; wrapper fees; extensions; sweeps. Composed with 2. An abstract
   specification "rewards of a token go to whoever holds it, or held it last".
9. An abstract specification of reward sharing (credit, settle, pay), which genesis rewards, fractions and pool implement,
    as all three proofs use the same inequality.
