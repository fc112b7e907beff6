--------------------------- MODULE LiquidityCompounder ---------------------------
(* NARALiquidityCompounderV4: it pulls what the vault spends, adds the balanced part
   of everything it holds to its full-range position, and banks the rest. The owner
   may remove the position or the bank, after an announcement of RECOVERY_DELAY.
   The pool is outside: a price says what one unit of full-range liquidity takes.    *)
EXTENDS GrowthClock

CONSTANTS
    RECOVERY_DELAY,
    Vault, Outside     \* where a recovery may lead besides another compounder

VARIABLES
    compounders,    \* each contract's bank, position and totals
    nextTokenId,    \* PositionManager.nextTokenId()
    removed,        \* what recoveries took out: banked tokens and position ids
    given           \* what reached a bank other than through compound()

compounderVars == <<compounders, nextTokenId, removed, given>>

RecoveryKinds == {"MigratePosition", "RecoverPoolTokens", "WindDown"}
Recipients == Compounders \cup {Vault, Outside}

ASSUME CompounderAssumption ==
    /\ RECOVERY_DELAY \in Nat \ {0} /\ IsFiniteSet(Compounders)
    /\ Vault \notin Compounders /\ Outside \notin Compounders /\ Vault # Outside

CompounderInit ==
    /\ compounders = [k \in Compounders |->
          [bank |-> [c \in {"token", "base"} |-> 0], added |-> [c \in {"token", "base"} |-> 0],
           totalLiquidityAdded |-> 0, positionTokenId |-> 0, recovery |-> {}]]
    /\ nextTokenId = 1
    /\ removed = [bank |-> [c \in {"token", "base"} |-> 0], positions |-> {}]
    /\ given = [c \in {"token", "base"} |-> 0]

--------------------------------------------------------------------------------

Smaller(a, b) == IF a <= b THEN a ELSE b

\* getLiquidityForAmounts over what may be used of the bank: the scarcer side decides.
LiquidityFor(bank, limit, price) ==
    LET units(c) == Smaller(bank[c], limit[c]) \div price[c]
    IN  Smaller(units("token"), units("base"))

\* compound(): pull, add what balances at the live price, keep the remainder banked.
\* Its price band and value-imbalance checks revert the whole call: no result at all.
AfterCompound(k, pulled, limit, price) ==
    LET state     == compounders[k]
        held      == [c \in {"token", "base"} |-> state.bank[c] + pulled[c]]
        liquidity == LiquidityFor(held, limit, price)
        used      == [c \in {"token", "base"} |-> liquidity * price[c]]
    IN  IF liquidity = 0
        THEN [state EXCEPT !.bank = held]
        ELSE [state EXCEPT
                !.bank = [c \in {"token", "base"} |-> held[c] - used[c]],
                !.added = [c \in {"token", "base"} |-> @[c] + used[c]],
                !.totalLiquidityAdded = @ + liquidity,
                !.positionTokenId = IF @ = 0 THEN nextTokenId ELSE @]

LiquidityAdded(k, pulled, limit, price) ==
    AfterCompound(k, pulled, limit, price).totalLiquidityAdded - compounders[k].totalLiquidityAdded

\* The vault calls compound(); the first add mints the position.
CompoundInto(k, pulled, limit, price) ==
    /\ compounders' = [compounders EXCEPT ![k] = AfterCompound(k, pulled, limit, price)]
    /\ nextTokenId' = IF compounders'[k].positionTokenId = nextTokenId
                      THEN nextTokenId + 1 ELSE nextTokenId
    /\ UNCHANGED <<removed, given>>

\* The bank is the contract's balance: a plain transfer to it is banked like a fee.
WithBank(state, amounts) ==
    [state EXCEPT !.bank = [c \in {"token", "base"} |-> @[c] + amounts[c]]]

Give(k, amounts) ==
    /\ compounders' = [compounders EXCEPT ![k] = WithBank(@, amounts)]
    /\ given' = [c \in {"token", "base"} |-> given[c] + amounts[c]]
    /\ UNCHANGED <<nextTokenId, removed>>

--------------------------------------------------------------------------------

ProposeRecovery(k, kind, to) ==
    /\ to # k
    /\ compounders' = [compounders EXCEPT
          ![k].recovery = Staged([kind |-> kind, to |-> to], RECOVERY_DELAY)]
    /\ UNCHANGED <<nextTokenId, removed, given>>

CancelRecovery(k) ==
    /\ compounders[k].recovery # {}
    /\ compounders' = [compounders EXCEPT ![k].recovery = {}]
    /\ UNCHANGED <<nextTokenId, removed, given>>

TakesPosition(k, p) ==
    p.target.kind # "RecoverPoolTokens" /\ compounders[k].positionTokenId # 0

\* The part of the bank that a recovery moves: all of it or nothing.
Recovered(k, p) ==
    [c \in {"token", "base"} |->
        IF p.target.kind = "MigratePosition" THEN 0 ELSE compounders[k].bank[c]]

\* The compounder without what the recovery takes.
Left(k, p) ==
    [compounders[k] EXCEPT
        !.recovery = {},
        !.positionTokenId = IF TakesPosition(k, p) THEN 0 ELSE @,
        !.bank = [c \in {"token", "base"} |-> @[c] - Recovered(k, p)[c]]]

\* executeRecovery: _migratePosition needs a position, _windDown takes what there is. The
\* vault refuses the NFT; another compounder keeps it, but does not take it for its own.
ExecuteRecovery(k, p) ==
    /\ p \in Ready(compounders[k].recovery)
    /\ p.target.kind = "MigratePosition" => compounders[k].positionTokenId # 0
    /\ TakesPosition(k, p) => p.target.to # Vault
    /\ compounders' = [j \in Compounders |->
          IF j = k THEN Left(k, p)
          ELSE IF j = p.target.to THEN WithBank(compounders[j], Recovered(k, p))
          ELSE compounders[j]]
    /\ removed' = [bank |-> [c \in {"token", "base"} |-> removed.bank[c] + Recovered(k, p)[c]],
                   positions |-> removed.positions \cup
                       {id \in {compounders[k].positionTokenId} : TakesPosition(k, p)}]
    /\ given' = [c \in {"token", "base"} |->
          given[c] + (IF p.target.to \in Compounders THEN Recovered(k, p)[c] ELSE 0)]
    /\ UNCHANGED nextTokenId
================================================================================
