------------------------------ MODULE GrowthSystem ------------------------------
(* The liquidity flywheel as one system: a swap's fee goes from the hook to the vault,
   from the vault to a compounder's position or to a genesis distributor, and the
   script maintainV4Liquidity.ts decides from what it read when to compound. The
   owner of the contracts is the Safe; each call is one atomic transaction.          *)
EXTENDS GrowthHook, GrowthVault, LiquidityCompounder

CONSTANTS
    V4_COMPOUNDER,      \* the compounder the maintainer is configured for
    DeadlineWindow,     \* 900 s from the block it read
    JobTimeout,         \* timeout-minutes of the workflow that runs it
    GuardBps,           \* liquidityMinimum: the share of the simulated liquidity
    MinLiquidity,       \* below this depth it does nothing
    \* Inputs and bounds
    SwapAmounts, Donations, Curves, Depths, Distributable, Bounties, Shares,
    Modes, Limit, Prices, MaxNow, MaxFlow, MaxTotal

\* A recovery takes longer than a run of the job and its transaction together.
ASSUME SystemAssumption ==
    /\ V4_COMPOUNDER \in Compounders
    /\ DeadlineWindow \in Nat /\ JobTimeout \in Nat
    /\ RECOVERY_DELAY > JobTimeout + DeadlineWindow
    /\ SwapAmounts \subseteq Nat
    /\ \A side \in Sides : Curves[side] \subseteq FeeCurve /\ Depths[side] \subseteq Nat
    /\ Modes \subseteq RouteModes
    /\ Bounties \subseteq [bps : Nat, minCompoundBase : Nat]
    /\ Limit \in [Currencies -> Nat] /\ Prices \subseteq [Currencies -> Nat \ {0}]
    /\ Donations \subseteq Nat /\ GuardBps \in 0 .. BPS

VARIABLES
    donated,    \* what reached the vault by a plain transfer
    job,        \* the maintainer's process
    txs         \* its transactions that are sent and not yet included

vars == <<now, hookVars, vaultVars, compounderVars, donated, job, txs>>

IdleJob == [step |-> "idle"]

Init ==
    /\ now = 1
    /\ HookInit /\ VaultInit /\ CompounderInit
    /\ donated = [c \in Currencies |-> 0]
    /\ job = IdleJob
    /\ txs = {}

--------------------------------------------------------------------------------
(* The pool.                                                                        *)

\* Everything that ever came to the vault, recorded or not.
Arrived(c) == books.fees[c] + donated[c]

\* _beforeSwap: the flow is recorded even when nothing is charged for it.
Swap(side, amountIn) ==
    /\ poolRegistered
    /\ RecordBlockFlow(side, amountIn)
    /\ BecomePurse(WithFee(Purse, InputCurrency(side), FeeAmount(side, amountIn)))
    /\ flow'[side].amount <= MaxFlow
    /\ Arrived(InputCurrency(side)) + FeeAmount(side, amountIn) <= MaxTotal
    /\ UNCHANGED <<now, poolRegistered, curves, pendingCurves, protocolDepth, pendingDepth,
                   vault, compounderVars, donated, job, txs>>

(* Compounding: the vault, the compounder and the pool in one transaction.           *)

ForCompound(amount) == [amount EXCEPT !["base"] = @ - Bounty(@)]

\* _compoundUnchecked on a purse; minLiquidity is the caller's bound on the outcome.
CompoundUnchecked(p, amount, minLiquidity, price) ==
    /\ minLiquidity > 0
    /\ MayCompound(p, amount)
    /\ LiquidityAdded(vault.compounder, ForCompound(amount), Limit, price) >= minLiquidity
    /\ CompoundInto(vault.compounder, ForCompound(amount), Limit, price)
    /\ BecomePurse(Compounded(p, amount))
    /\ UNCHANGED vault

\* compound() by the owner or a keeper, in the Liquidity mode, before its deadline.
Compound(amount, price) ==
    /\ vault.routeMode = "Liquidity"
    /\ CompoundUnchecked(Purse, amount, 1, price)
    /\ UNCHANGED <<now, hookVars, donated, job, txs>>

\* processGenesisSplitAll(): the genesis share first, everything else is compounded.
\* A compound that reverts takes the genesis share back with it.
ProcessGenesisSplitAll(price) ==
    LET toGenesis == (balance["base"] * vault.splitGenesisShareBps) \div BPS
        p == IF toGenesis = 0 THEN Purse ELSE RoutedToGenesis(Purse, toGenesis)
    IN  /\ vault.routeMode = "GenesisSplit"
        /\ CompoundUnchecked(p, p.balance, 1, price)
        /\ UNCHANGED <<now, hookVars, donated, job, txs>>

--------------------------------------------------------------------------------
(* maintainV4Liquidity.ts: one run of the job. Anything may happen on the chain between
   two of its answers, and between the simulation and the inclusion of its transaction.
   frozenThen, position, total, raced and paid are history for the properties; of them
   the code keeps only the position and the total it has read.                       *)

InTime == now <= job.started + JobTimeout

BindingReads == {"compounder", "compounderFrozen", "routeMode", "pendingRecovery"}

StartRun ==
    /\ job = IdleJob
    /\ job' = [step |-> "reading", started |-> now, answered |-> {}, right |-> {},
               frozenThen |-> FALSE]
    /\ UNCHANGED <<now, hookVars, vaultVars, compounderVars, donated, txs>>

AsExpected(read) ==
    \/ read = "compounder" /\ vault.compounder = V4_COMPOUNDER
    \/ read = "compounderFrozen" /\ vault.compounderFrozen
    \/ read = "routeMode" /\ vault.routeMode = "Liquidity"
    \/ read = "pendingRecovery" /\ compounders[V4_COMPOUNDER].recovery = {}

\* The reads are sent together, each an eth_call of its own, answered in any order.
Answer(read) ==
    /\ job.step = "reading" /\ InTime
    /\ read \in BindingReads \ job.answered
    /\ job' = [job EXCEPT
          !.answered = @ \cup {read},
          !.right = @ \cup {r \in {read} : AsExpected(r)},
          !.frozenThen = IF read = "compounder" THEN vault.compounderFrozen ELSE @]
    /\ UNCHANGED <<now, hookVars, vaultVars, compounderVars, donated, txs>>

\* Only when all are in are they compared; the freeze only matters in the execute mode.
CheckBindings ==
    /\ job.step = "reading"
    /\ job.answered = BindingReads
    /\ BindingReads \ {"compounderFrozen"} \subseteq job.right
    /\ job' = [step |-> "checked", started |-> job.started,
               frozen |-> "compounderFrozen" \in job.right, frozenThen |-> job.frozenThen]
    /\ UNCHANGED <<now, hookVars, vaultVars, compounderVars, donated, txs>>

\* hasCompoundableInventory: a fresh fee to move, and both sides with what is banked.
HasCompoundableInventory ==
    /\ \E c \in Currencies : balance[c] > 0
    /\ \A c \in Currencies : balance[c] + compounders[V4_COMPOUNDER].bank[c] > 0

\* The keeper's permission, the snapshot and the block that the deadline counts from.
Snapshot ==
    /\ job.step = "checked" /\ InTime
    /\ vault.keeperAllowed
    /\ HasCompoundableInventory
    /\ job' = [step |-> "ready", started |-> job.started, frozen |-> job.frozen,
               tx |-> [deadline |-> now + DeadlineWindow, minLiquidity |-> 1,
                       position |-> compounders[V4_COMPOUNDER].positionTokenId,
                       total |-> compounders[V4_COMPOUNDER].totalLiquidityAdded,
                       raced |-> job.frozen /\ ~job.frozenThen]]
    /\ UNCHANGED <<now, hookVars, vaultVars, compounderVars, donated, txs>>

\* What compoundAll would add now, in whatever compounder the vault is bound to.
Simulated(price) == LiquidityAdded(vault.compounder, ForCompound(balance), Limit, price)

\* compoundAll.staticCall does not revert.
CompoundAllReturns(tx, price) ==
    /\ now <= tx.deadline
    /\ vault.routeMode = "Liquidity"
    /\ MayCompound(Purse, balance)
    /\ Simulated(price) >= tx.minLiquidity

\* liquidityMinimum: 0 is rounded up to 1.
LiquidityMinimum(simulated) == LET guarded == (simulated * GuardBps) \div BPS
                               IN  IF guarded > 0 THEN guarded ELSE 1

\* Mutant: it goes on although the compounder was not frozen when it asked.
Simulate_NotFrozen(price) ==
    /\ job.step = "ready" /\ InTime
    /\ CompoundAllReturns(job.tx, price)
    /\ Simulated(price) >= MinLiquidity
    /\ job' = [step |-> "simulated", started |-> job.started,
               tx |-> [job.tx EXCEPT !.minLiquidity = LiquidityMinimum(Simulated(price))]]
    /\ UNCHANGED <<now, hookVars, vaultVars, compounderVars, donated, txs>>

\* Too little liquidity, or a compounder that was not frozen, ends the run.
Simulate(price) ==
    /\ job.step = "ready" /\ InTime
    /\ CompoundAllReturns(job.tx, price)
    /\ Simulated(price) >= MinLiquidity
    /\ job.frozen
    /\ job' = [step |-> "simulated", started |-> job.started,
               tx |-> [job.tx EXCEPT !.minLiquidity = LiquidityMinimum(Simulated(price))]]
    /\ UNCHANGED <<now, hookVars, vaultVars, compounderVars, donated, txs>>

\* The keeper's static call with the bound, then the transaction is signed and sent.
Send ==
    /\ job.step = "simulated" /\ InTime
    /\ vault.keeperAllowed
    /\ \E price \in Prices : CompoundAllReturns(job.tx, price)
    /\ txs' = txs \cup {job.tx}
    /\ job' = [job EXCEPT !.step = "sent"]
    /\ UNCHANGED <<now, hookVars, vaultVars, compounderVars, donated>>

\* The transaction is included: compoundAll() moves what the vault holds by then. The
\* run that sent it, if it still waits, has its receipt.
Land(tx, price) ==
    /\ now <= tx.deadline
    /\ vault.keeperAllowed
    /\ vault.routeMode = "Liquidity"
    /\ CompoundUnchecked(Purse, balance, tx.minLiquidity, price)
    /\ txs' = txs \ {tx}
    /\ job' = IF job.step = "sent" /\ job.tx = tx
              THEN [step |-> "included", started |-> job.started, tx |-> tx,
                    paid |-> vault.compounder]
              ELSE job
    /\ UNCHANGED <<now, hookVars, donated>>

\* It is dropped, or included and reverted: nothing but gas is spent.
Lose(tx) ==
    /\ txs' = txs \ {tx}
    /\ UNCHANGED <<now, hookVars, vaultVars, compounderVars, donated, job>>

\* The position is read back: it must exist and its liquidity must have grown.
Report ==
    /\ job.step = "included" /\ InTime
    /\ compounders[V4_COMPOUNDER].totalLiquidityAdded > job.tx.total
    /\ compounders[V4_COMPOUNDER].positionTokenId # 0
    /\ job' = [job EXCEPT !.step = "reported"]
    /\ UNCHANGED <<now, hookVars, vaultVars, compounderVars, donated, txs>>

\* The run is over: done, or a refusal, an error or the job's timeout has ended it. A
\* transaction it sent stays in flight.
EndJob ==
    /\ job.step # "idle"
    /\ job' = IdleJob
    /\ UNCHANGED <<now, hookVars, vaultVars, compounderVars, donated, txs>>

--------------------------------------------------------------------------------

HookGovernance ==
    /\ \/ RegisterPool(vault.hook)
       \/ \E side \in Sides :
             \/ \E c \in Curves[side] : SetFeeCurve(side, c)
             \/ ExecuteFeeCurve(side)
             \/ CancelFeeCurve(side)
             \/ \E d \in Depths[side] : SetProtocolDepth(side, d)
             \/ ExecuteProtocolDepth(side)
             \/ CancelProtocolDepth(side)
    /\ UNCHANGED <<now, vaultVars, compounderVars, donated, job, txs>>

CompounderGovernance ==
    \/ \E k \in Compounders : SetCompounder(k) \/ ProposeCompounder(k)
    \/ CancelCompounderProposal
    \/ ExecuteCompounder
    \/ FreezeCompounder

DistributorGovernance ==
    \/ \E d \in Distributors : SetGenesisRewardDistributor(d) \/ ProposeGenesisRewardDistributor(d)
    \/ CancelGenesisRewardDistributorProposal
    \/ ExecuteGenesisRewardDistributor
    \/ FreezeGenesisRewardDistributor

VaultGovernance ==
    /\ \/ SetHook
       \/ CompounderGovernance
       \/ DistributorGovernance
       \/ \E allowed \in BOOLEAN : SetCompoundKeeper(allowed)
       \/ \E mode \in Modes : SetRouteMode(mode)
       \/ \E b \in Bounties : SetKeeperBounty(b.bps, b.minCompoundBase)
       \/ \E share \in Shares : SetSplitGenesisShare(share)
       \/ \E amount \in Distributable : RouteBaseToGenesis(amount)
    /\ UNCHANGED <<now, hookVars, compounderVars, donated, job, txs>>

\* A bank recovered to the vault arrives there as a plain transfer.
RecoverTo(k, p) ==
    LET back == [c \in Currencies |-> IF p.target.to = Vault THEN Recovered(k, p)[c] ELSE 0]
    IN  /\ ExecuteRecovery(k, p)
        /\ balance' = [c \in Currencies |-> balance[c] + back[c]]
        /\ donated' = [c \in Currencies |-> donated[c] + back[c]]
        /\ UNCHANGED <<vault, books, received>>

Recovery ==
    /\ \E k \in Compounders :
          \/ /\ \/ \E kind \in RecoveryKinds, to \in Recipients : ProposeRecovery(k, kind, to)
                \/ CancelRecovery(k)
             /\ UNCHANGED <<vaultVars, donated>>
          \/ \E p \in compounders[k].recovery : RecoverTo(k, p)
    /\ UNCHANGED <<now, hookVars, job, txs>>

\* Anyone may send either token to the vault or to a compounder.
Donation ==
    /\ \E c \in Currencies, amount \in Donations :
          /\ Arrived(c) + given[c] + amount <= MaxTotal
          /\ \/ /\ Donate(c, amount)
                /\ donated' = [donated EXCEPT ![c] = @ + amount]
                /\ UNCHANGED compounderVars
             \/ /\ \E k \in Compounders :
                      Give(k, [e \in Currencies |-> IF e = c THEN amount ELSE 0])
                /\ UNCHANGED <<vaultVars, donated>>
    /\ UNCHANGED <<now, hookVars, job, txs>>

Tick == /\ now < MaxNow
        /\ NewBlock
        /\ UNCHANGED <<hookVars, vaultVars, compounderVars, donated, job, txs>>

Maintainer ==
    \/ StartRun
    \/ \E read \in BindingReads : Answer(read)
    \/ CheckBindings
    \/ Snapshot
    \/ \E price \in Prices : Simulate(price)
    \/ Send
    \/ \E tx \in txs, price \in Prices : Land(tx, price)
    \/ \E tx \in txs : Lose(tx)
    \/ Report
    \/ EndJob

Amounts == [Currencies -> 0 .. MaxTotal]

Next ==
    \/ HookGovernance
    \/ VaultGovernance
    \/ Recovery
    \/ \E side \in Sides, amount \in SwapAmounts : Swap(side, amount)
    \/ \E amount \in Amounts, price \in Prices : Compound(amount, price)
    \/ \E price \in Prices : ProcessGenesisSplitAll(price)
    \/ Donation
    \/ Maintainer
    \/ Tick

Spec == Init /\ [][Next]_vars
================================================================================
