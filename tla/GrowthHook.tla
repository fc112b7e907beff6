------------------------------- MODULE GrowthHook -------------------------------
(* NARALiquidityGrowthHook: the Uniswap v4 hook that skims every exact-input swap of
   the NARA/USDC pool. A side stands for a direction, its fee curve and its input
   currency at once: buys pay base (USDC), sells pay token (NARA). The fee follows
   the pressure of the whole block, so the hook remembers each currency's flow.     *)
EXTENDS GrowthClock

CONSTANTS
    FEE_UPDATE_DELAY,   \* the delay of a change once the pool is registered
    MIN_PROTOCOL_DEPTH, \* the least depth other than zero
    InitialCurves       \* _defaultBuyCurve and _defaultSellCurve

VARIABLES
    poolRegistered,
    curves,             \* buyCurve, sellCurve
    pendingCurves,
    protocolDepth,      \* by the side whose input it is measured in
    pendingDepth,
    flow                \* the block's flow: amount, fee charged, and the snapshot

hookVars == <<poolRegistered, curves, pendingCurves, protocolDepth, pendingDepth, flow>>

Sides == {"buy", "sell"}
InputCurrency(side) == IF side = "buy" THEN "base" ELSE "token"

FeeCurve == [mediumPressureBps : Nat, highPressureBps : Nat, extremePressureBps : Nat,
             baseFeeBps : Nat, mediumFeeBps : Nat, highFeeBps : Nat, extremeFeeBps : Nat]

\* Fees stay below MAX_POOL_FEE_BPS, half of BPS; maxFeeBps only caps at validation.
ValidCurve(c) ==
    /\ 0 < c.mediumPressureBps
    /\ c.mediumPressureBps < c.highPressureBps
    /\ c.highPressureBps < c.extremePressureBps
    /\ \A fee \in {c.baseFeeBps, c.mediumFeeBps, c.highFeeBps, c.extremeFeeBps} : 2 * fee <= BPS

ASSUME HookAssumption == /\ FEE_UPDATE_DELAY \in Nat \ {0}
                         /\ MIN_PROTOCOL_DEPTH \in Nat
                         /\ InitialCurves \in [Sides -> FeeCurve]
                         /\ \A side \in Sides : ValidCurve(InitialCurves[side])

HookInit ==
    /\ poolRegistered = FALSE
    /\ curves = InitialCurves
    /\ pendingCurves = [side \in Sides |-> {}]
    /\ protocolDepth = [side \in Sides |-> 0]
    /\ pendingDepth = [side \in Sides |-> {}]
    /\ flow = [side \in Sides |-> [block |-> 0, amount |-> 0, charged |-> 0,
                                   depth |-> 0, curve |-> InitialCurves[side]]]

--------------------------------------------------------------------------------
(* The fee of a block's flow: each tier's share is rounded down on its own.         *)

Least(a, b) == IF a <= b THEN a ELSE b

TierShare(amount, from, to, feeBps) ==
    ((Least(amount, to) - Least(amount, from)) * feeBps) \div BPS

CumulativeFee(c, amount, depth) ==
    LET at(pressureBps) == (depth * pressureBps) \div BPS
        mediumAt  == at(c.mediumPressureBps)
        highAt    == at(c.highPressureBps)
        extremeAt == at(c.extremePressureBps)
    IN  IF depth = 0
        THEN (amount * c.extremeFeeBps) \div BPS
        ELSE TierShare(amount, 0, mediumAt, c.baseFeeBps)
             + TierShare(amount, mediumAt, highAt, c.mediumFeeBps)
             + TierShare(amount, highAt, extremeAt, c.highFeeBps)
             + TierShare(amount, extremeAt, amount, c.extremeFeeBps)

\* Mutant: the block's later swaps are priced on the curve and depth of the moment.
BlockFlow_Live(side) ==
    [IF flow[side].block = now THEN flow[side] ELSE [flow[side] EXCEPT !.amount = 0, !.charged = 0]
     EXCEPT !.block = now, !.depth = protocolDepth[side], !.curve = curves[side]]

\* The first flow of a currency in a block fixes curve and depth for the whole block.
BlockFlow(side) ==
    IF flow[side].block = now
    THEN flow[side]
    ELSE [block |-> now, amount |-> 0, charged |-> 0,
          depth |-> protocolDepth[side], curve |-> curves[side]]

\* quotePoolFee and _beforeSwap charge what the block owes beyond what it has paid.
FeeAmount(side, amountIn) ==
    LET f == BlockFlow(side)
        due == CumulativeFee(f.curve, f.amount + amountIn, f.depth)
    IN  IF due > f.charged THEN due - f.charged ELSE 0

RecordBlockFlow(side, amountIn) ==
    flow' = [flow EXCEPT ![side] =
                [BlockFlow(side) EXCEPT !.amount = @ + amountIn,
                                        !.charged = @ + FeeAmount(side, amountIn)]]

--------------------------------------------------------------------------------
(* Governance: immediate until the pool is registered, staged from then on.         *)

RegisterPool(vaultHook) ==
    /\ ~poolRegistered
    /\ vaultHook                       \* the vault is bound to this hook
    /\ poolRegistered' = TRUE
    /\ UNCHANGED <<curves, pendingCurves, protocolDepth, pendingDepth, flow>>

SetFeeCurve(side, c) ==
    /\ ValidCurve(c)
    /\ IF poolRegistered
       THEN /\ pendingCurves' = [pendingCurves EXCEPT ![side] = Staged(c, FEE_UPDATE_DELAY)]
            /\ curves' = curves
       ELSE /\ curves' = [curves EXCEPT ![side] = c]
            /\ pendingCurves' = pendingCurves
    /\ UNCHANGED <<poolRegistered, protocolDepth, pendingDepth, flow>>

ExecuteFeeCurve(side) ==
    /\ \E p \in Ready(pendingCurves[side]) : curves' = [curves EXCEPT ![side] = p.target]
    /\ pendingCurves' = [pendingCurves EXCEPT ![side] = {}]
    /\ UNCHANGED <<poolRegistered, protocolDepth, pendingDepth, flow>>

CancelFeeCurve(side) ==
    /\ pendingCurves[side] # {}
    /\ pendingCurves' = [pendingCurves EXCEPT ![side] = {}]
    /\ UNCHANGED <<poolRegistered, curves, protocolDepth, pendingDepth, flow>>

SetProtocolDepth(side, depth) ==
    /\ depth = 0 \/ depth >= MIN_PROTOCOL_DEPTH
    /\ IF poolRegistered
       THEN /\ pendingDepth' = [pendingDepth EXCEPT ![side] = Staged(depth, FEE_UPDATE_DELAY)]
            /\ protocolDepth' = protocolDepth
       ELSE /\ protocolDepth' = [protocolDepth EXCEPT ![side] = depth]
            /\ pendingDepth' = pendingDepth
    /\ UNCHANGED <<poolRegistered, curves, pendingCurves, flow>>

ExecuteProtocolDepth(side) ==
    /\ \E p \in Ready(pendingDepth[side]) : protocolDepth' = [protocolDepth EXCEPT ![side] = p.target]
    /\ pendingDepth' = [pendingDepth EXCEPT ![side] = {}]
    /\ UNCHANGED <<poolRegistered, curves, pendingCurves, flow>>

CancelProtocolDepth(side) ==
    /\ pendingDepth[side] # {}
    /\ pendingDepth' = [pendingDepth EXCEPT ![side] = {}]
    /\ UNCHANGED <<poolRegistered, curves, pendingCurves, protocolDepth, flow>>
================================================================================
