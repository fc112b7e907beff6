------------------------------ MODULE RangeManager ------------------------------
(* NARATreasuryRangeManagerV1.sol as functions on one record m, together with what  *)
(* the PositionManager keeps for it.  A block of the chain holds one such record, so *)
(* that a reorganisation restores an earlier one.                                    *)
EXTENDS Integers, Sequences, FiniteSets, SequencesExt

CONSTANTS
    Prices,                 \* of the pool, in ticks
    Ranges,                 \* [lower, upper] ticks a strategy may ask for
    MAX_SETTLE_BATCH,       \* 16 on chain
    MaxOrders, MaxTokens    \* bounds

Sides    == {"SellNara", "BuyNara"}
Statuses == {"Active", "Settled", "Cancelled"}
OrderIds == 1 .. MaxOrders
TokenIds == 1 .. MaxTokens

ASSUME RangeAssumption ==
    /\ Prices \subseteq Nat
    /\ Ranges \subseteq [lower : Nat, upper : Nat] /\ \A r \in Ranges : r.lower < r.upper
    /\ MAX_SETTLE_BATCH \in Nat \ {0}
    /\ MaxOrders \in Nat /\ MaxTokens \in Nat

RangeOrder == [tokenId : TokenIds, side : Sides, range : Ranges, status : Statuses]

\* activeIndex is _activeIndexPlusOne; owner and nextTokenId are the PositionManager's.
Manager ==
    [orders : Seq(RangeOrder), active : Seq(OrderIds), activeIndex : [OrderIds -> Nat],
     tokenIdToOrderId : [TokenIds -> Nat], paused : BOOLEAN,
     owner : [TokenIds -> {"none", "manager", "safe"}], nextTokenId : Nat]

NewManager ==
    [orders |-> <<>>, active |-> <<>>, activeIndex |-> [i \in OrderIds |-> 0],
     tokenIdToOrderId |-> [t \in TokenIds |-> 0], paused |-> FALSE,
     owner |-> [t \in TokenIds |-> "none"], nextTokenId |-> 1]

--------------------------------------------------------------------------------
(* Creation *)

\* A sell order waits below the price, a buy order above it: nothing of it is filled yet.
CanCreate(m, price, side, range) ==
    /\ ~ m.paused
    /\ IF side = "SellNara" THEN price >= range.upper ELSE price <= range.lower
    /\ m.tokenIdToOrderId[m.nextTokenId] = 0

Created(m, side, range) ==
    LET id == Len(m.orders) + 1
    IN  [m EXCEPT
            !.orders = Append(@, [tokenId |-> m.nextTokenId, side |-> side, range |-> range,
                                  status |-> "Active"]),
            !.tokenIdToOrderId[m.nextTokenId] = id,
            !.active = Append(@, id),
            !.activeIndex[id] = Len(m.active) + 1,
            !.owner[m.nextTokenId] = "manager",
            !.nextTokenId = @ + 1]

--------------------------------------------------------------------------------
(* Settlement and cancellation *)

\* Mutant: one tick short of the far end.
TerminalAt_Early(order, price) ==
    IF order.side = "SellNara" THEN price <= order.range.lower + 1
                               ELSE price + 1 >= order.range.upper

\* The whole range has been crossed.
TerminalAt(order, price) ==
    IF order.side = "SellNara" THEN price <= order.range.lower ELSE price >= order.range.upper

IsManaged(m, id) ==
    /\ m.tokenIdToOrderId[m.orders[id].tokenId] = id
    /\ m.owner[m.orders[id].tokenId] = "manager"

\* isSettleable, and the conditions under which _settle does not revert.
IsSettleable(m, price, id) ==
    /\ m.orders[id].status = "Active"
    /\ TerminalAt(m.orders[id], price)
    /\ IsManaged(m, id)

\* Mutant: the order moved into the gap keeps its old index.
ActiveRemoved_IndexKept(m, id) ==
    LET last == m.active[Len(m.active)]
    IN  [m EXCEPT !.active = Front([@ EXCEPT ![m.activeIndex[id]] = last]),
                  !.activeIndex[id] = 0]

ActiveRemoved(m, id) ==
    LET last == m.active[Len(m.active)]
    IN  [m EXCEPT !.active = Front([@ EXCEPT ![m.activeIndex[id]] = last]),
                  !.activeIndex = [@ EXCEPT ![last] = m.activeIndex[id], ![id] = 0]]

\* The order ends, leaves the active array, and its position is burned for the Safe.
Ended(m, id, status) ==
    [ActiveRemoved(m, id) EXCEPT !.orders[id].status = status,
                                 !.owner[m.orders[id].tokenId] = "none"]

CanCancel(m, id) == m.orders[id].status = "Active" /\ IsManaged(m, id)
Cancelled(m, id) == Ended(m, id, "Cancelled")

\* settleMany is atomic: a member that is not settleable, or appears twice, reverts it all.
CanSettleMany(m, price, ids) ==
    /\ Len(ids) \in 1 .. MAX_SETTLE_BATCH /\ IsInjective(ids)
    /\ \A i \in DOMAIN ids : ids[i] \in DOMAIN m.orders /\ IsSettleable(m, price, ids[i])
\* The manager after each member of ids.
Settling(m, ids) ==
    LET after[k \in 0 .. Len(ids)] ==
            IF k = 0 THEN m ELSE Ended(after[k - 1], ids[k], "Settled")
    IN  after
SettledMany(m, ids) == Settling(m, ids)[Len(ids)]

--------------------------------------------------------------------------------
(* Other positions *)

\* Anybody may mint a position to the manager, without asking it.
Injected(m) == [m EXCEPT !.owner[m.nextTokenId] = "manager", !.nextTokenId = @ + 1]

CanQuarantine(m, t) == m.tokenIdToOrderId[t] = 0 /\ m.owner[t] = "manager"
Quarantined(m, t) == [m EXCEPT !.owner[t] = "safe"]

--------------------------------------------------------------------------------
(* What the functions above keep *)

ActiveIds(m) == {id \in DOMAIN m.orders : m.orders[id].status = "Active"}

\* _activeOrderIds and _activeIndexPlusOne are inverse to each other on the active orders.
Indexed(m) ==
    /\ \A k \in 1 .. Len(m.active) : /\ m.active[k] \in ActiveIds(m)
                                     /\ m.activeIndex[m.active[k]] = k
    /\ \A id \in OrderIds :
          IF id \in ActiveIds(m)
          THEN /\ m.activeIndex[id] \in 1 .. Len(m.active)
               /\ m.active[m.activeIndex[id]] = id
          ELSE m.activeIndex[id] = 0

\* Every order has a position of its own, in custody while the order is active.
Registered(m) ==
    /\ \A id \in 1 .. Len(m.orders) :
          /\ m.orders[id].tokenId < m.nextTokenId
          /\ m.tokenIdToOrderId[m.orders[id].tokenId] = id
          /\ m.owner[m.orders[id].tokenId] =
                IF m.orders[id].status = "Active" THEN "manager" ELSE "none"
    /\ \A t \in TokenIds : t >= m.nextTokenId => m.tokenIdToOrderId[t] = 0

Consistent(m) == /\ m \in Manager /\ Len(m.orders) <= MaxOrders
                 /\ Indexed(m) /\ Registered(m)
================================================================================
