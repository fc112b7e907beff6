------------------------------- MODULE NaraEngine -------------------------------
(* contracts/v4/NARAEngine.sol: time-locked positions, their scheduled weight, and *)
(* the NARA, ETH and token rewards distributed to them by cumulative indices.      *)
(*                                                                                 *)
(* Every external function is one action, because a transaction is atomic: it      *)
(* first catches the epoch ledger up with the clock (_jitAdvanceFresh), possibly   *)
(* several epochs, and then does its own work on the advanced ledger.  So the      *)
(* storage that _advanceOneEpoch writes is one record, core, that functions map    *)
(* from one epoch to the next; the rest of the storage has variables of its own.   *)
EXTENDS Integers, Sequences, FiniteSets, PrefixSum, NaraAccounting, NaraModel,
        NaraRewardReserve

CONSTANTS
    EpochLength, ConfigChangeDelay,       \* seconds
    MaxJitAdvance,                        \* MAX_JIT_ADVANCE, 8 on chain
    MaxPositionsPerAccount,               \* MAX_LOCK_POSITIONS_PER_ACCOUNT, 64
    MaxBatch,                             \* MAX_BATCH_POSITIONS, 64
    BPS,                                  \* 10_000, the unit of the two fee rates
    Supply,                               \* NARA's fixed supply
    Payers, Owners, Configs, NoConfig, InitialConfig,
    Amounts, Durations, Extensions,       \* arguments of lock and extend
    ProposedConfigs,                      \* arguments of proposeConfig
    Deposits, Donations,                  \* arguments of depositRewards, plain transfers
    EthRewards, TokenRewards,             \* arguments of the two notify functions
    FeeBpsChoices, FlatFeeChoices,        \* arguments of the fee setters
    EmissionTargets,                      \* what the emission curve may ask for
    ReserveMoods,                         \* how an external reserve may answer
    InitialReserve,                       \* the reserve as deployed and funded
    AdvanceSteps,                         \* arguments of advanceEpochs
    MaxTime, MaxPositions, EpochBound, MaxEth, MaxToken   \* bounds of the model

Epochs == 0 .. EpochBound

ASSUME EngineAssumption ==
    /\ EpochLength \in Nat \ {0} /\ ConfigChangeDelay \in Nat \ {0}
    /\ MaxJitAdvance \in Nat \ {0} /\ MaxBatch \in Nat \ {0}
    /\ MaxPositionsPerAccount \in Nat \ {0}
    /\ BPS \in Nat \ {0} /\ Supply \in Nat
    /\ MaxTime \in Nat /\ EpochBound \in Nat /\ MaxTime \div EpochLength <= EpochBound
    /\ MaxPositions \in Nat /\ MaxEth \in Nat /\ MaxToken \in Nat
    /\ Amounts \subseteq Nat /\ Durations \subseteq Nat /\ Extensions \subseteq Nat
    /\ Deposits \subseteq Nat \ {0} /\ Donations \subseteq Nat \ {0}
    /\ EthRewards \subseteq Nat \ {0} /\ TokenRewards \subseteq Nat \ {0}
    /\ FeeBpsChoices \subseteq 0 .. BPS /\ FlatFeeChoices \subseteq Nat
    /\ EmissionTargets \subseteq Nat
    /\ ReserveMoods \subseteq {"answers", "mute", "refuses"}
    /\ AdvanceSteps \subseteq Nat \ {0}
    /\ InitialReserve \in ReserveType
    /\ InitialReserve.totalReleased = 0 /\ InitialReserve.balance <= Supply

ConfigType == [maxLockEpochs : Nat \ {0}, activationDelayEpochs : Nat \ {0},
               durationLinearWad : Nat, durationQuadraticWad : Nat]

ASSUME ConfigAssumption ==
    /\ Configs \subseteq ConfigType /\ InitialConfig \in Configs
    /\ NoConfig \notin Configs /\ ProposedConfigs \subseteq Configs
    /\ \A c \in Configs : IsValidConfig(c)

VARIABLES
    now,                \* block.timestamp - GENESIS_TIMESTAMP
    core,               \* the storage that _advanceOneEpoch writes
    totalLocked,
    positions,          \* _positions[1 .. nextPositionId - 1]
    ownerPositionCount,
    pendingConfig,      \* [config, timestamp], timestamp 0 when there is none
    fees,               \* the four fee parameters
    eth,                \* the engine's ETH: balance, fees held, and two totals
    totalNaraDripClaimed,
    token,              \* one reward token: index, checkpoints and balance
    rebases             \* auxiliary: extensions of active positions so far (count), and
                        \* the weight times elapsed epochs that they took away (shed)

vars == <<now, core, totalLocked, positions, ownerPositionCount, pendingConfig, fees,
          eth, totalNaraDripClaimed, token, rebases>>

Ids == 1 .. Len(positions)
CurrentEpoch == now \div EpochLength
\* NARA outside the engine and the reserve: wallets, treasury, pools.
Circulating(c) == Supply - c.balance - c.reserve.balance

--------------------------------------------------------------------------------
(* Reserves and the emission of one epoch *)

\* Mutant: rewards owed to positions are taken for free balance.
Reserved_PendingIgnored(c, locked) == locked

Reserved(c, locked) == locked + c.totalPendingNaraRewards

\* _topUpEmissionReserveIfNeeded: NARA nobody accounts for becomes emission reserve.
TopUp(c, locked) ==
    [c EXCEPT !.trackedEmissionReserve =
        @ + SaturatingSub(c.balance, Reserved(c, locked) + @)]

EmissionReserve(c, locked) ==
    MinOf(SaturatingSub(c.balance, Reserved(c, locked)), c.trackedEmissionReserve)

RewardReserveAvailable(c, mood) ==
    IF c.reserve.wired /\ mood # "mute" THEN AvailableRewards(c.reserve) ELSE 0

\* What an epoch wants to distribute after the funds cap, and how much of it the
\* engine does not hold and has to pull.
Wanted(c, locked, target, mood) ==
    MinOf(target, EmissionReserve(c, locked) + RewardReserveAvailable(c, mood))
Shortfall(c, locked, target, mood) ==
    SaturatingSub(Wanted(c, locked, target, mood), EmissionReserve(c, locked))

\* Whether the release succeeds; a revert in the reserve is caught.
CanPull(c, shortfall, mood) == mood = "answers" /\ CanRelease(c.reserve, shortfall)

Pull(c, shortfall, mood) ==
    IF CanPull(c, shortfall, mood)
    THEN [c EXCEPT !.balance = @ + shortfall,
                   !.reserve = ReleaseToEngine(@, shortfall)]
    ELSE c

\* What arrived, measured by the balance.  Solidity reverts if this is negative,
\* outside the reach of the catch block that follows the call.
Arrived(pulled, locked, local) == pulled.balance - Reserved(pulled, locked) - local

\* _applyScheduledActiveWeightChanges: activations first, then deactivations.
ApplySchedule(c, epoch) ==
    [c EXCEPT !.activeTotalWeight =
                  SaturatingSub(@ + c.scheduledActivationWeight[epoch],
                                c.scheduledDeactivationWeight[epoch]),
              !.scheduledActivationWeight[epoch] = 0,
              !.scheduledDeactivationWeight[epoch] = 0]

\* Mutant: the staged epoch is not reset.
ApplyStagedConfig_NotReset(c, epoch) ==
    IF c.stagedConfigEpoch = epoch
    THEN [c EXCEPT !.config = c.stagedConfig, !.stagedConfig = NoConfig] ELSE c

ApplyStagedConfig(c, epoch) ==
    IF c.stagedConfigEpoch = epoch
    THEN [c EXCEPT !.config = c.stagedConfig, !.stagedConfig = NoConfig,
                   !.stagedConfigEpoch = 0]
    ELSE c

\* _advanceOneEpoch up to the release: reserve, configuration, weights.
OpenEpoch(c, locked) ==
    ApplySchedule(ApplyStagedConfig(TopUp(c, locked), c.epoch + 1), c.epoch + 1)

\* computeNextEpochSnapshot asks for nothing while no weight is active.
Target(c, draw) == IF c.activeTotalWeight > 0 THEN draw.target ELSE 0

CanAdvance(c, locked, draw) ==
    LET opened    == OpenEpoch(c, locked)
        shortfall == Shortfall(opened, locked, Target(opened, draw), draw.mood)
    IN  CanPull(opened, shortfall, draw.mood)
        => Arrived(Pull(opened, shortfall, draw.mood), locked,
                   EmissionReserve(opened, locked)) >= 0

\* The reserve-bounded NARA of the epoch, moved from tracked reserve to pending.
Emit(opened, locked, draw) ==
    LET target    == Target(opened, draw)
        local     == EmissionReserve(opened, locked)
        shortfall == Shortfall(opened, locked, target, draw.mood)
        pulled    == Pull(opened, shortfall, draw.mood)
        received  == IF CanPull(opened, shortfall, draw.mood)
                     THEN MinOf(shortfall, Arrived(pulled, locked, local)) ELSE 0
        emitted   == IF shortfall = 0 THEN Wanted(opened, locked, target, draw.mood)
                     ELSE local + received
    IN  [pulled EXCEPT
            !.trackedEmissionReserve = @ + received - emitted,
            !.totalPendingNaraRewards = @ + emitted,
            !.totalNaraDripPaid = @ + emitted,
            !.naraIndexRay = IF emitted > 0
                             THEN @ + MulDiv(emitted, RAY, opened.activeTotalWeight) ELSE @]

\* Mutant: ETH queued while nobody is active is burnt.
DistributeEth_Burnt(c) ==
    [c EXCEPT !.pendingEthForNextEpoch = 0,
              !.ethIndexRay = IF c.activeTotalWeight = 0 THEN @ ELSE
                  @ + MulDiv(c.pendingEthForNextEpoch, RAY, c.activeTotalWeight)]

\* All queued ETH goes to the epoch that closes, or stays queued with no weight.
DistributeEth(c) ==
    IF c.activeTotalWeight = 0 THEN c
    ELSE [c EXCEPT !.pendingEthForNextEpoch = 0,
                   !.ethIndexRay =
                       @ + MulDiv(c.pendingEthForNextEpoch, RAY, c.activeTotalWeight)]

AdvanceOneEpoch(c, locked, draw) ==
    LET next    == c.epoch + 1
        settled == DistributeEth(Emit(OpenEpoch(c, locked), locked, draw))
    IN  [settled EXCEPT !.epoch = next,
                        !.naraIndexAtEpoch[next] = settled.naraIndexRay,
                        !.ethIndexAtEpoch[next] = settled.ethIndexRay]

\* Mutant: the loop stops one epoch short of the clock.
CatchUp_OneShort(c, locked, live, draws, n) ==
    LET after[k \in 0 .. n] ==
            IF k = 0 THEN c
            ELSE LET prev == after[k - 1]
                 IN  IF prev.epoch + 1 < live
                     THEN AdvanceOneEpoch(prev, locked, draws[prev.epoch + 1]) ELSE prev
    IN  after[n]

\* The loop of _jitAdvance and advanceEpochs: at most n epochs, never past the
\* clock.  It stops where a step would revert, so a caller sees it did not arrive.
CatchUp(c, locked, live, draws, n) ==
    LET after[k \in 0 .. n] ==
            IF k = 0 THEN c
            ELSE LET prev == after[k - 1]
                     draw == draws[prev.epoch + 1]
                 IN  IF prev.epoch < live /\ CanAdvance(prev, locked, draw)
                     THEN AdvanceOneEpoch(prev, locked, draw) ELSE prev
    IN  after[n]

Draws == [target : EmissionTargets, mood : ReserveMoods]
\* The ledgers that up to n steps can lead to, one per outcome of the emission
\* curve and of the reserve at each step.
Advanced(n) ==
    {CatchUp(core, totalLocked, CurrentEpoch, draws, n) :
        draws \in [core.epoch + 1 .. MinOf(CurrentEpoch, core.epoch + n) -> Draws]}

\* _jitAdvanceFresh: EpochStale unless the ledger reaches the clock.
FreshCores == {c \in Advanced(MaxJitAdvance) : c.epoch = CurrentEpoch}

--------------------------------------------------------------------------------
(* Payments out of the engine *)

SumOver(ids, f) == SumTo([i \in Ids |-> When(i \in ids, f[i])], Len(positions))

\* _deliverNara; the token transfer reverts when the balance is short.
DeliverNara(c, amount) ==
    [c EXCEPT !.totalPendingNaraRewards = SaturatingSub(@, amount),
              !.balance = @ - amount]

ClaimFee(amount) == (amount * fees.claimFeeBps) \div BPS

\* _deliverEth for each position, with the claim fee kept by the engine.
DeliverEth(e, ids, owed) ==
    LET kept == SumOver(ids, [i \in Ids |-> ClaimFee(owed[i])])
        net  == SumOver(ids, owed) - kept
    IN  [e EXCEPT !.balance = @ - net, !.claimed = @ + net,
                  !.accumulatedTreasuryEthFees = @ + kept]

\* _collectFlatEthFee: the exact fee comes with the call.
CollectFlatEthFee(e, required) ==
    [e EXCEPT !.balance = @ + required, !.accumulatedTreasuryEthFees = @ + required]

NaraAccrual(c, i) ==
    Accrual(c.naraIndexAtEpoch, c.epoch, positions[i], positions[i].naraDebtRay)
EthAccrual(c, i) ==
    Accrual(c.ethIndexAtEpoch, c.epoch, positions[i], positions[i].ethDebtRay)
NaraOwed(c) == [i \in Ids |-> NaraAccrual(c, i).owed]
EthOwed(c)  == [i \in Ids |-> EthAccrual(c, i).owed]

\* p after positionAccrual moved its debts.
Accrued(c, i) == [positions[i] EXCEPT !.naraDebtRay = NaraAccrual(c, i).debt,
                                      !.ethDebtRay = EthAccrual(c, i).debt]

--------------------------------------------------------------------------------
(* Locking *)

\* _createPosition on ledger c.  The fee share goes straight to the treasury, so the
\* engine keeps netAmount whichever way the NARA arrived.
CreatePosition(c, payer, owner, amount, duration) ==
    LET netAmount == amount - (amount * fees.lockFeeBps) \div BPS
        weight    == ComputeWeight(c.config, netAmount, duration)
        starts    == c.epoch + c.config.activationDelayEpochs + 1
        ends      == c.epoch + duration + 1
    IN  /\ netAmount # 0 /\ weight # 0 /\ amount <= Circulating(c)
        /\ duration > c.config.activationDelayEpochs
        /\ duration <= c.config.maxLockEpochs
        /\ payer = owner => ownerPositionCount[owner] < MaxPositionsPerAccount
        /\ Len(positions) < MaxPositions /\ ends <= EpochBound
        /\ positions' = Append(positions,
              [owner |-> owner, countsOwnerCap |-> payer = owner, createdEpoch |-> c.epoch,
               amount |-> netAmount, weight |-> weight, activationEpoch |-> starts,
               unlockEpoch |-> ends, tokenWeight |-> weight,
               naraDebtRay |-> DEBT_UNINITIALISED, ethDebtRay |-> DEBT_UNINITIALISED,
               tokenDebtRay |-> 0])
        /\ ownerPositionCount' = [ownerPositionCount EXCEPT
                                      ![owner] = @ + When(payer = owner, 1)]
        /\ totalLocked' = totalLocked + netAmount
        /\ core' = [c EXCEPT !.balance = @ + netAmount,
                             !.scheduledActivationWeight[starts] = @ + weight,
                             !.scheduledDeactivationWeight[ends] = @ + weight]

\* lock, lockFor and lockWithPermit; minWeight only lets a caller refuse the result.
Lock(payer, owner, amount, duration) ==
    /\ \E c \in FreshCores : CreatePosition(c, payer, owner, amount, duration)
    /\ eth' = CollectFlatEthFee(eth, fees.lockFeeWei)
    /\ UNCHANGED <<now, pendingConfig, fees, totalNaraDripClaimed, token, rebases>>

\* The ERC-1363 callback neither advances the ledger nor can carry a flat fee.
OnTransferReceived(from, owner, amount, duration) ==
    /\ fees.lockFeeWei = 0
    /\ core.epoch = CurrentEpoch
    /\ CreatePosition(core, from, owner, amount, duration)
    /\ UNCHANGED <<now, pendingConfig, fees, eth, totalNaraDripClaimed, token, rebases>>

--------------------------------------------------------------------------------
(* Extending *)

\* Mutant: the token weight is never frozen.
TokenRewardsNotified_Never == FALSE

TokenRewardsNotified == token.checkpoints # <<>>

\* Mutant: the old unlock epoch keeps its share of the schedule.
MoveDeactivation_OldKept(c, p, newUnlock, newWeight) ==
    [c EXCEPT !.scheduledDeactivationWeight[newUnlock] = @ + newWeight]

\* The position's unlock epoch and weight move in the deactivation schedule.
MoveDeactivation(c, p, newUnlock, newWeight) ==
    [c EXCEPT !.scheduledDeactivationWeight[p.unlockEpoch] = SaturatingSub(@, p.weight),
              !.scheduledDeactivationWeight[newUnlock] = @ + newWeight]

\* Before activation only the schedules change; nothing has accrued yet.
ExtendInactive(c, i, newUnlock, newWeight) ==
    LET p == positions[i]
        moved == MoveDeactivation(c, p, newUnlock, newWeight)
    IN  /\ core' = [moved EXCEPT !.scheduledActivationWeight[p.activationEpoch] =
                        IF newWeight >= p.weight THEN @ + (newWeight - p.weight)
                        ELSE SaturatingSub(@, p.weight - newWeight)]
        /\ positions' = [positions EXCEPT ![i] =
                             [@ EXCEPT !.weight = newWeight, !.unlockEpoch = newUnlock,
                                       !.tokenWeight = newWeight,
                                       !.naraDebtRay = DEBT_UNINITIALISED,
                                       !.ethDebtRay = DEBT_UNINITIALISED]]
        /\ UNCHANGED <<eth, totalNaraDripClaimed, rebases>>

\* Auxiliary: an extension under a changed configuration may lower a weight, which the
\* epochs already elapsed were rounded with.
Rebased(c, p, newWeight) ==
    [count |-> rebases.count + 1,
     shed  |-> rebases.shed
                 + SaturatingSub(p.weight, newWeight) * (c.epoch - p.activationEpoch + 1)]

\* An active position is paid up to the live index, open epoch included, and starts
\* again from there with the new weight.
ExtendActive(c, i, newUnlock, newWeight) ==
    LET p == positions[i]
        nara == Settlement(c.naraIndexAtEpoch, c.naraIndexRay, c.epoch, p, p.naraDebtRay)
        owed == Settlement(c.ethIndexAtEpoch, c.ethIndexRay, c.epoch, p, p.ethDebtRay)
        moved == MoveDeactivation(c, p, newUnlock, newWeight)
    IN  /\ newWeight < p.weight => ~ TokenRewardsNotified
        /\ newWeight < p.weight => c.activeTotalWeight >= p.weight - newWeight
        /\ nara <= c.balance
        /\ core' = [DeliverNara(moved, nara) EXCEPT
                        !.activeTotalWeight = @ + newWeight - p.weight]
        /\ eth' = DeliverEth(eth, {i}, [j \in Ids |-> owed])
        /\ eth'.balance >= 0
        /\ totalNaraDripClaimed' = totalNaraDripClaimed + nara
        /\ positions' = [positions EXCEPT ![i] =
                             [@ EXCEPT !.weight = newWeight, !.unlockEpoch = newUnlock,
                                       !.tokenWeight = IF TokenRewardsNotified
                                                       THEN p.tokenWeight ELSE newWeight,
                                       !.naraDebtRay = MulDiv(newWeight, c.naraIndexRay, RAY),
                                       !.ethDebtRay = MulDiv(newWeight, c.ethIndexRay, RAY)]]
        /\ rebases' = Rebased(c, p, newWeight)

\* The caller owns the position; the owner is not modelled apart from that.
Extend(i, additionalEpochs) ==
    /\ positions[i].amount # 0
    /\ \E c \in FreshCores :
        LET p == positions[i]
            oldDuration == p.unlockEpoch - p.createdEpoch - 1
            newDuration == oldDuration + additionalEpochs
            newUnlock == p.unlockEpoch + additionalEpochs
            newWeight == ComputeWeight(c.config, p.amount, newDuration)
        IN  /\ c.epoch < p.unlockEpoch
            /\ newDuration <= c.config.maxLockEpochs
            /\ newWeight > ComputeWeight(c.config, p.amount, oldDuration)
            /\ newUnlock <= EpochBound
            /\ \/ c.epoch < p.activationEpoch /\ ExtendInactive(c, i, newUnlock, newWeight)
               \/ c.epoch >= p.activationEpoch /\ ExtendActive(c, i, newUnlock, newWeight)
    /\ UNCHANGED <<now, totalLocked, ownerPositionCount, pendingConfig, fees, token>>

--------------------------------------------------------------------------------
(* Unlocking and claiming; a batch is a set because a repeated id reverts *)

\* Mutant: a position opens during the epoch before its unlock epoch.
Matured_OneEarly(c, i) == c.epoch + 1 >= positions[i].unlockEpoch

Matured(c, i) == c.epoch >= positions[i].unlockEpoch

\* Mutant: a batch books the principal of one of its positions only.
Principal_OnlyOne(ids) ==
    LET last == CHOOSE i \in ids : \A j \in ids : j <= i IN positions[last].amount

Principal(ids) == SumOver(ids, [i \in Ids |-> positions[i].amount])

\* Mutants: the cap slot is never freed, or freed for positions that hold none.
CapSlots_NotFreed(ids) == 0
CapSlots_AllFreed(ids) == Cardinality(ids)

CapSlots(ids) == Cardinality({i \in ids : positions[i].countsOwnerCap})

OwnedBy(caller, ids) ==
    /\ ids # {} /\ Cardinality(ids) <= MaxBatch
    /\ \A i \in ids : positions[i].amount # 0 /\ positions[i].owner = caller

\* unlock, unlockTo, unlockBatch: last rewards and the whole principal.
Unlock(caller, ids) ==
    /\ OwnedBy(caller, ids)
    /\ \E c \in FreshCores :
        LET rewards == SumOver(ids, NaraOwed(c))
            principal == Principal(ids)
        IN  /\ \A i \in ids : Matured(c, i)
            /\ rewards + principal <= c.balance
            /\ core' = [DeliverNara(c, rewards) EXCEPT !.balance = @ - principal]
            /\ totalLocked' = totalLocked - principal
            /\ totalNaraDripClaimed' = totalNaraDripClaimed + rewards
            /\ eth' = DeliverEth(CollectFlatEthFee(eth, fees.unlockFeeWei * Cardinality(ids)),
                                 ids, EthOwed(c))
            /\ eth'.balance >= 0
            /\ positions' = [i \in Ids |-> IF i \in ids
                                           THEN [Accrued(c, i) EXCEPT !.amount = 0]
                                           ELSE positions[i]]
    /\ ownerPositionCount' = [ownerPositionCount EXCEPT ![caller] = @ - CapSlots(ids)]
    /\ UNCHANGED <<now, pendingConfig, fees, token, rebases>>

\* claimRewards and claimBatch: NothingToClaim for one position reverts them all.
Claim(caller, ids) ==
    /\ OwnedBy(caller, ids)
    /\ \E c \in FreshCores :
        LET rewards == SumOver(ids, NaraOwed(c))
        IN  /\ \A i \in ids : NaraOwed(c)[i] > 0 \/ EthOwed(c)[i] > 0
            /\ rewards <= c.balance
            /\ core' = DeliverNara(c, rewards)
            /\ totalNaraDripClaimed' = totalNaraDripClaimed + rewards
            /\ eth' = DeliverEth(eth, ids, EthOwed(c))
            /\ eth'.balance >= 0
            /\ positions' = [i \in Ids |-> IF i \in ids THEN Accrued(c, i) ELSE positions[i]]
    /\ UNCHANGED <<now, totalLocked, ownerPositionCount, pendingConfig, fees, token, rebases>>

--------------------------------------------------------------------------------
(* Reward tokens: distributed at once to the weight active now *)

\* _tokenIndexAtOrBefore: checkpoints are in epoch order, so those at or before an
\* epoch are a prefix and the binary search returns the last of them.
TokenIndexAtOrBefore(t, epoch) ==
    LET known == {k \in DOMAIN t.checkpoints : t.checkpoints[k].epoch <= epoch}
    IN  IF known = {} THEN 0 ELSE t.checkpoints[Cardinality(known)].indexRay

\* _tokenRewardEndIndex: a matured position stops at its last locked epoch.
TokenRewardEndIndex(t, epoch, p) ==
    IF epoch >= p.unlockEpoch THEN TokenIndexAtOrBefore(t, p.unlockEpoch - 1) ELSE t.indexRay

TokenOwed(t, epoch, p) ==
    TokenAccrual(p.tokenDebtRay, p.tokenWeight, TokenRewardEndIndex(t, epoch, p),
                 TokenIndexAtOrBefore(t, p.activationEpoch - 1))

\* _writeTokenIndexCheckpoint: one checkpoint per epoch, the last write wins.
WriteTokenIndexCheckpoint(checkpoints, epoch, indexRay) ==
    LET len == Len(checkpoints)
        entry == [epoch |-> epoch, indexRay |-> indexRay]
    IN  IF len # 0 /\ checkpoints[len].epoch = epoch
        THEN [checkpoints EXCEPT ![len] = entry] ELSE Append(checkpoints, entry)

NotifyTokenRewards(amount) ==
    /\ token.notified + amount <= MaxToken
    /\ \E c \in FreshCores :
        LET index == token.indexRay + MulDiv(amount, RAY, c.activeTotalWeight)
        IN  /\ c.activeTotalWeight > 0
            /\ core' = c
            /\ token' = [indexRay |-> index, balance |-> token.balance + amount,
                         notified |-> token.notified + amount,
                         checkpoints |-> WriteTokenIndexCheckpoint(
                                             token.checkpoints, c.epoch, index)]
    /\ UNCHANGED <<now, totalLocked, positions, ownerPositionCount, pendingConfig, fees,
                   eth, totalNaraDripClaimed, rebases>>

\* Open to closed positions too: an unlocked position keeps its weights.
ClaimTokenRewards(i) ==
    /\ \E c \in FreshCores :
        LET p == positions[i]
            accrual == TokenOwed(token, c.epoch, p)
        IN  /\ c.epoch >= p.activationEpoch
            /\ accrual.owed > 0 /\ accrual.owed <= token.balance
            /\ core' = c
            /\ positions' = [positions EXCEPT ![i].tokenDebtRay = accrual.debt]
            /\ token' = [token EXCEPT !.balance = @ - accrual.owed]
    /\ UNCHANGED <<now, totalLocked, ownerPositionCount, pendingConfig, fees, eth,
                   totalNaraDripClaimed, rebases>>

--------------------------------------------------------------------------------
(* Funding and the epoch clock *)

NotifyEthRewards(amount) ==
    /\ eth.received + amount <= MaxEth
    /\ \E c \in FreshCores :
        /\ c.activeTotalWeight > 0
        /\ core' = [c EXCEPT !.pendingEthForNextEpoch = @ + amount]
    /\ eth' = [eth EXCEPT !.balance = @ + amount, !.received = @ + amount]
    /\ UNCHANGED <<now, totalLocked, positions, ownerPositionCount, pendingConfig, fees,
                   totalNaraDripClaimed, token, rebases>>

OnlyCoreChanges == UNCHANGED <<now, totalLocked, positions, ownerPositionCount,
                               pendingConfig, fees, eth, totalNaraDripClaimed, token, rebases>>

DepositRewards(amount) ==
    /\ amount <= Circulating(core)
    /\ core' = [core EXCEPT !.balance = @ + amount, !.trackedEmissionReserve = @ + amount]
    /\ OnlyCoreChanges

\* A plain token transfer to the engine, which no function of it sees.
Donate(amount) ==
    /\ amount <= Circulating(core)
    /\ core' = [core EXCEPT !.balance = @ + amount]
    /\ OnlyCoreChanges

SyncEmissionReserve == core' = TopUp(core, totalLocked) /\ OnlyCoreChanges

\* A step that cannot be completed reverts the whole call.
AdvanceBy(n) ==
    /\ \E c \in Advanced(n) : /\ c.epoch = MinOf(CurrentEpoch, core.epoch + n)
                              /\ core' = c
    /\ OnlyCoreChanges

AdvanceEpochs(maxSteps) == core.epoch < CurrentEpoch /\ AdvanceBy(maxSteps)
Poke == AdvanceBy(MaxJitAdvance)

Tick == /\ now < MaxTime
        /\ now' = now + 1
        /\ UNCHANGED <<core, totalLocked, positions, ownerPositionCount, pendingConfig,
                       fees, eth, totalNaraDripClaimed, token, rebases>>

--------------------------------------------------------------------------------
(* Administration *)

SetRewardReserve ==
    /\ ~ core.reserve.wired
    /\ core' = [core EXCEPT !.reserve.wired = TRUE]
    /\ OnlyCoreChanges

ProposeConfig(c) ==
    /\ pendingConfig.timestamp = 0 /\ core.stagedConfigEpoch = 0
    /\ pendingConfig' = [config |-> c, timestamp |-> now + ConfigChangeDelay]
    /\ UNCHANGED <<now, core, totalLocked, positions, ownerPositionCount, fees, eth,
                   totalNaraDripClaimed, token, rebases>>

NothingPending == [config |-> NoConfig, timestamp |-> 0]

\* Mutant: the change is staged for the epoch that is already open.
StagedFor_Open(c) == c.epoch

\* The change takes effect when the next epoch opens.
StagedFor(c) == c.epoch + 1

ExecuteConfig ==
    /\ pendingConfig.timestamp # 0 /\ now >= pendingConfig.timestamp
    /\ \E c \in FreshCores :
        core' = [c EXCEPT !.stagedConfig = pendingConfig.config,
                          !.stagedConfigEpoch = StagedFor(c)]
    /\ pendingConfig' = NothingPending
    /\ UNCHANGED <<now, totalLocked, positions, ownerPositionCount, fees, eth,
                   totalNaraDripClaimed, token, rebases>>

CancelConfig ==
    /\ pendingConfig.timestamp # 0 \/ core.stagedConfigEpoch # 0
    /\ core' = [core EXCEPT !.stagedConfig = NoConfig, !.stagedConfigEpoch = 0]
    /\ pendingConfig' = NothingPending
    /\ UNCHANGED <<now, totalLocked, positions, ownerPositionCount, fees, eth,
                   totalNaraDripClaimed, token, rebases>>

\* setLockFee, setClaimFee, setLockEthFee, setUnlockEthFee.
SetFee ==
    /\ \/ \E f \in FeeBpsChoices : \/ fees' = [fees EXCEPT !.lockFeeBps = f]
                                   \/ fees' = [fees EXCEPT !.claimFeeBps = f]
       \/ \E f \in FlatFeeChoices : \/ fees' = [fees EXCEPT !.lockFeeWei = f]
                                    \/ fees' = [fees EXCEPT !.unlockFeeWei = f]
    /\ UNCHANGED <<now, core, totalLocked, positions, ownerPositionCount, pendingConfig,
                   eth, totalNaraDripClaimed, token, rebases>>

WithdrawTreasuryEthFees ==
    /\ eth.accumulatedTreasuryEthFees # 0
    /\ eth.balance >= eth.accumulatedTreasuryEthFees
    /\ eth' = [eth EXCEPT !.balance = @ - eth.accumulatedTreasuryEthFees,
                          !.accumulatedTreasuryEthFees = 0]
    /\ UNCHANGED <<now, core, totalLocked, positions, ownerPositionCount, pendingConfig,
                   fees, totalNaraDripClaimed, token, rebases>>

--------------------------------------------------------------------------------
EmptySchedule == [e \in Epochs |-> 0]

Init ==
    /\ now = 0
    /\ core = [epoch |-> 0, config |-> InitialConfig,
               stagedConfig |-> NoConfig, stagedConfigEpoch |-> 0,
               activeTotalWeight |-> 0,
               scheduledActivationWeight |-> EmptySchedule,
               scheduledDeactivationWeight |-> EmptySchedule,
               naraIndexRay |-> 0, ethIndexRay |-> 0,
               naraIndexAtEpoch |-> EmptySchedule, ethIndexAtEpoch |-> EmptySchedule,
               pendingEthForNextEpoch |-> 0, totalPendingNaraRewards |-> 0,
               trackedEmissionReserve |-> 0, totalNaraDripPaid |-> 0,
               balance |-> 0, reserve |-> InitialReserve]
    /\ totalLocked = 0
    /\ positions = <<>>
    /\ ownerPositionCount = [o \in Owners |-> 0]
    /\ pendingConfig = NothingPending
    /\ fees = [lockFeeBps |-> 0, claimFeeBps |-> 0, lockFeeWei |-> 0, unlockFeeWei |-> 0]
    /\ eth = [balance |-> 0, accumulatedTreasuryEthFees |-> 0, received |-> 0, claimed |-> 0]
    /\ totalNaraDripClaimed = 0
    /\ token = [indexRay |-> 0, checkpoints |-> <<>>, balance |-> 0, notified |-> 0]
    /\ rebases = [count |-> 0, shed |-> 0]

Next ==
    \/ Tick
    \/ \E payer \in Payers, owner \in Owners, a \in Amounts, d \in Durations :
          Lock(payer, owner, a, d) \/ OnTransferReceived(payer, owner, a, d)
    \/ \E i \in Ids, d \in Extensions : Extend(i, d)
    \/ \E caller \in Owners, ids \in SUBSET Ids : Unlock(caller, ids) \/ Claim(caller, ids)
    \/ \E i \in Ids : ClaimTokenRewards(i)
    \/ \E a \in EthRewards : NotifyEthRewards(a)
    \/ \E a \in TokenRewards : NotifyTokenRewards(a)
    \/ \E a \in Deposits : DepositRewards(a)
    \/ \E a \in Donations : Donate(a)
    \/ SyncEmissionReserve
    \/ \E n \in AdvanceSteps : AdvanceEpochs(n)
    \/ Poke
    \/ SetRewardReserve
    \/ \E c \in ProposedConfigs : ProposeConfig(c)
    \/ ExecuteConfig
    \/ CancelConfig
    \/ SetFee
    \/ WithdrawTreasuryEthFees

Spec == Init /\ [][Next]_vars
================================================================================
