------------------------------ MODULE RangeOrders ------------------------------
(* NARATreasuryRangeManagerV1.sol on a pool whose price moves: the Safe creates,     *)
(* cancels, pauses and quarantines, anybody settles what has been crossed.           *)
EXTENDS RangeManager

VARIABLES manager, price

orderVars == <<manager, price>>

OrdersInit == manager = NewManager /\ price \in Prices

CreateOrder(side, range) ==
    /\ Len(manager.orders) < MaxOrders /\ manager.nextTokenId \in TokenIds
    /\ CanCreate(manager, price, side, range)
    /\ manager' = Created(manager, side, range)
    /\ UNCHANGED price

\* settle is settleMany of one order.
SettleMany(ids) ==
    /\ CanSettleMany(manager, price, ids)
    /\ manager' = SettledMany(manager, ids)
    /\ UNCHANGED price

CancelOrder(id) ==
    /\ CanCancel(manager, id)
    /\ manager' = Cancelled(manager, id)
    /\ UNCHANGED price

PauseOrderCreation ==
    /\ ~ manager.paused
    /\ manager' = [manager EXCEPT !.paused = TRUE]
    /\ UNCHANGED price

UnpauseOrderCreation ==
    /\ manager.paused
    /\ manager' = [manager EXCEPT !.paused = FALSE]
    /\ UNCHANGED price

QuarantineUnregisteredPosition(t) ==
    /\ CanQuarantine(manager, t)
    /\ manager' = Quarantined(manager, t)
    /\ UNCHANGED price

InjectPosition ==
    /\ manager.nextTokenId \in TokenIds
    /\ manager' = Injected(manager)
    /\ UNCHANGED price

Swap(p) ==
    /\ p # price
    /\ price' = p
    /\ UNCHANGED manager

OrderLists == UNION {[1 .. n -> OrderIds] : n \in 1 .. MaxOrders}

OrdersNext ==
    \/ \E side \in Sides, range \in Ranges : CreateOrder(side, range)
    \/ \E ids \in OrderLists : SettleMany(ids)
    \/ \E id \in DOMAIN manager.orders : CancelOrder(id)
    \/ PauseOrderCreation
    \/ UnpauseOrderCreation
    \/ \E t \in TokenIds : QuarantineUnregisteredPosition(t)
    \/ InjectPosition
    \/ \E p \in Prices : Swap(p)

OrdersSpec == OrdersInit /\ [][OrdersNext]_orderVars

--------------------------------------------------------------------------------
(* Properties *)

\* _activeOrderIds, _activeIndexPlusOne and the orders agree, whatever was removed from
\* the middle of the array (_removeActiveOrder); an active order's position is registered
\* to it and in custody, an ended order's is burned.
ActiveOrdersExact ==
    LET Active == {id \in DOMAIN manager.orders : manager.orders[id].status = "Active"}
    IN  /\ ToSet(manager.active) = Active /\ Len(manager.active) = Cardinality(Active)
        /\ \A id \in OrderIds : manager.activeIndex[id] =
              IF id \in Active THEN CHOOSE k \in DOMAIN manager.active : manager.active[k] = id
                               ELSE 0
        /\ \A id \in DOMAIN manager.orders :
              /\ manager.tokenIdToOrderId[manager.orders[id].tokenId] = id
              /\ manager.owner[manager.orders[id].tokenId] =
                    IF id \in Active THEN "manager" ELSE "none"

\* Nobody can settle an order at the price at which it was created: it would convert
\* nothing and give the input back for the fees (_validateCreationSide against _terminalAt).
NewOrdersWait ==
    [][\A id \in DOMAIN manager'.orders \ DOMAIN manager.orders :
          ~ IsSettleable(manager', price', id)]_orderVars
================================================================================
