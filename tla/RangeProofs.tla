------------------------------ MODULE RangeProofs ------------------------------
(* For every number of orders and positions, every range and every price: the range  *)
(* manager's array of active orders is exact, whatever is removed from its middle.   *)
(* For every number of providers and transactions: the settler signs a nonce once    *)
(* and records each settlement for good, whatever crashes, lags or is reorganised.   *)
EXTENDS RangeOrders, RangeSettlerProperties, PrefixSumProofs, FiniteSetTheorems, TLAPS

--------------------------------------------------------------------------------
(* The manager, a record *)

LEMMA AppendFacts ==
  ASSUME NEW S, NEW s \in Seq(S), NEW e \in S
  PROVE  /\ Append(s, e) \in Seq(S) /\ Len(Append(s, e)) = Len(s) + 1
         /\ DOMAIN Append(s, e) = 1 .. Len(s) + 1 /\ Append(s, e)[Len(s) + 1] = e
         /\ \A i \in 1 .. Len(s) : Append(s, e)[i] = s[i]
OBVIOUS

LEMMA GoodFacts ==
  ASSUME NEW m, Consistent(m)
  PROVE  /\ m.orders \in Seq(RangeOrder) /\ m.active \in Seq(OrderIds)
         /\ m.activeIndex \in [OrderIds -> Nat] /\ m.tokenIdToOrderId \in [TokenIds -> Nat]
         /\ m.owner \in [TokenIds -> {"none", "manager", "safe"}] /\ m.nextTokenId \in Nat
         /\ m.paused \in BOOLEAN
         /\ DOMAIN m.orders = 1 .. Len(m.orders) /\ Len(m.orders) \in Nat
         /\ DOMAIN m.active = 1 .. Len(m.active) /\ Len(m.active) \in Nat
         /\ MaxOrders \in Nat /\ MaxTokens \in Nat
         /\ \A id \in 1 .. Len(m.orders) : /\ id \in OrderIds /\ m.orders[id] \in RangeOrder
                                           /\ m.orders[id].tokenId \in TokenIds
         /\ \A k \in 1 .. Len(m.active) : m.active[k] \in OrderIds
<1>1. m \in Manager /\ Len(m.orders) <= MaxOrders
  BY DEF Consistent
<1>2. /\ m.orders \in Seq(RangeOrder) /\ m.active \in Seq(OrderIds)
      /\ m.activeIndex \in [OrderIds -> Nat] /\ m.tokenIdToOrderId \in [TokenIds -> Nat]
      /\ m.owner \in [TokenIds -> {"none", "manager", "safe"}] /\ m.nextTokenId \in Nat
      /\ m.paused \in BOOLEAN
  BY <1>1 DEF Manager
<1>3. /\ DOMAIN m.orders = 1 .. Len(m.orders) /\ Len(m.orders) \in Nat
      /\ DOMAIN m.active = 1 .. Len(m.active) /\ Len(m.active) \in Nat
      /\ \A id \in 1 .. Len(m.orders) : m.orders[id] \in RangeOrder
      /\ \A k \in 1 .. Len(m.active) : m.active[k] \in OrderIds
  BY <1>2
<1>4. MaxOrders \in Nat /\ MaxTokens \in Nat
  BY RangeAssumption
<1>5. \A id \in 1 .. Len(m.orders) : id \in OrderIds /\ m.orders[id].tokenId \in TokenIds
  BY <1>1, <1>3, <1>4 DEF RangeOrder, OrderIds
<1> QED BY <1>2, <1>3, <1>4, <1>5

LEMMA NewIsGood == Consistent(NewManager)
<1>1. NewManager \in Manager /\ NewManager.orders = <<>> /\ NewManager.active = <<>>
      /\ NewManager.activeIndex = [i \in OrderIds |-> 0]
      /\ NewManager.tokenIdToOrderId = [t \in TokenIds |-> 0]
  BY DEF NewManager, Manager
<1>2. ActiveIds(NewManager) = {}
  BY <1>1 DEF ActiveIds
<1>3. Indexed(NewManager) /\ Registered(NewManager)
  BY <1>1, <1>2 DEF Indexed, Registered
<1> QED BY <1>1, <1>3, RangeAssumption DEF Consistent

\* _createOrder and _addActiveOrder.
LEMMA CreatedIsGood ==
  ASSUME NEW m, Consistent(m), Len(m.orders) < MaxOrders, m.nextTokenId \in TokenIds,
         NEW side \in Sides, NEW range \in Ranges
  PROVE  LET n == Created(m, side, range)
         IN  Consistent(n) /\ DOMAIN n.orders \ DOMAIN m.orders = {Len(m.orders) + 1}
             /\ n.orders[Len(m.orders) + 1].side = side
             /\ n.orders[Len(m.orders) + 1].range = range
<1> DEFINE n == Created(m, side, range)
           id == Len(m.orders) + 1
           o == [tokenId |-> m.nextTokenId, side |-> side, range |-> range,
                 status |-> "Active"]
           L == Len(m.active)
           t == m.nextTokenId
<1>1. /\ m.orders \in Seq(RangeOrder) /\ m.active \in Seq(OrderIds)
      /\ m.activeIndex \in [OrderIds -> Nat] /\ m.tokenIdToOrderId \in [TokenIds -> Nat]
      /\ m.owner \in [TokenIds -> {"none", "manager", "safe"}] /\ m.nextTokenId \in Nat
      /\ m.paused \in BOOLEAN
      /\ DOMAIN m.orders = 1 .. Len(m.orders) /\ Len(m.orders) \in Nat
      /\ L \in Nat /\ MaxOrders \in Nat
  BY GoodFacts
<1>2. id \in OrderIds /\ o \in RangeOrder /\ id \notin 1 .. Len(m.orders)
  BY <1>1 DEF OrderIds, RangeOrder, Statuses
<1>3. m \in Manager
  BY DEF Consistent
<1>4. /\ n.orders = Append(m.orders, o) /\ n.active = Append(m.active, id)
      /\ n.activeIndex = [m.activeIndex EXCEPT ![id] = L + 1]
      /\ n.tokenIdToOrderId = [m.tokenIdToOrderId EXCEPT ![t] = id]
      /\ n.owner = [m.owner EXCEPT ![t] = "manager"]
      /\ n.nextTokenId = t + 1 /\ n.paused = m.paused
  BY <1>3 DEF Created, Manager
<1>7. n \in Manager
  <2>1. /\ Append(m.orders, o) \in Seq(RangeOrder) /\ Append(m.active, id) \in Seq(OrderIds)
        /\ [m.activeIndex EXCEPT ![id] = L + 1] \in [OrderIds -> Nat]
        /\ [m.tokenIdToOrderId EXCEPT ![t] = id] \in [TokenIds -> Nat]
        /\ [m.owner EXCEPT ![t] = "manager"] \in [TokenIds -> {"none", "manager", "safe"}]
        /\ t + 1 \in Nat
    <3>1. L + 1 \in Nat /\ id \in Nat /\ t + 1 \in Nat
      BY <1>1
    <3>2. Append(m.orders, o) \in Seq(RangeOrder) /\ Append(m.active, id) \in Seq(OrderIds)
      BY <1>1, <1>2, AppendFacts
    <3> HIDE DEF id, L, t, o
    <3> QED BY <1>1, <3>1, <3>2
  <2> QED BY <1>3, <2>1 DEF Created, Manager
<1> HIDE DEF n
<1>5. /\ n.orders \in Seq(RangeOrder) /\ Len(n.orders) = id /\ n.orders[id] = o
      /\ \A j \in 1 .. Len(m.orders) : n.orders[j] = m.orders[j]
      /\ DOMAIN n.orders = 1 .. id
  <2>1. m.orders \in Seq(RangeOrder) /\ o \in RangeOrder /\ n.orders = Append(m.orders, o)
    BY <1>1, <1>2, <1>4
  <2> HIDE DEF o
  <2> QED BY <2>1, AppendFacts
<1>6. /\ n.active \in Seq(OrderIds) /\ Len(n.active) = L + 1 /\ n.active[L + 1] = id
      /\ \A k \in 1 .. L : n.active[k] = m.active[k]
  <2>1. m.active \in Seq(OrderIds) /\ id \in OrderIds /\ n.active = Append(m.active, id)
    BY <1>1, <1>2, <1>4
  <2> HIDE DEF id
  <2> QED BY <2>1, AppendFacts
<1>8. t \in Nat /\ id \in Nat /\ id = Len(m.orders) + 1 /\ 1 .. id = 1 .. Len(m.orders) \cup {id}
      /\ 1 .. L + 1 = 1 .. L \cup {L + 1} /\ L + 1 \in Nat /\ L + 1 \notin 1 .. L
  BY <1>1
<1>9. ActiveIds(n) = ActiveIds(m) \cup {id}
  <2>1. n.orders[id].status = "Active"
    BY <1>5
  <2> HIDE DEF id, o
  <2> QED BY <1>1, <1>5, <1>8, <2>1 DEF ActiveIds
<1>14. o.status = "Active" /\ o.tokenId = t /\ o.side = side /\ o.range = range
  OBVIOUS
<1> HIDE DEF id, o, t, L
<1>10. Indexed(n)
  <2>1. /\ \A k \in 1 .. L : m.active[k] \in ActiveIds(m) /\ m.activeIndex[m.active[k]] = k
        /\ \A j \in OrderIds :
              IF j \in ActiveIds(m)
              THEN m.activeIndex[j] \in 1 .. L /\ m.active[m.activeIndex[j]] = j
              ELSE m.activeIndex[j] = 0
    BY DEF Consistent, Indexed, L
  <2>2. id \notin ActiveIds(m) /\ ActiveIds(m) \subseteq OrderIds
    BY <1>1, <1>2, GoodFacts DEF ActiveIds
  <2>3. \A j \in OrderIds : n.activeIndex[j] = IF j = id THEN L + 1 ELSE m.activeIndex[j]
    BY <1>1, <1>4, <1>8
  <2>4. \A k \in 1 .. L + 1 : n.active[k] \in ActiveIds(n) /\ n.activeIndex[n.active[k]] = k
    <3>1. ASSUME NEW k \in 1 .. L
          PROVE  n.active[k] \in ActiveIds(n) /\ n.activeIndex[n.active[k]] = k
      BY <1>6, <1>9, <2>1, <2>2, <2>3
    <3>2. n.active[L + 1] \in ActiveIds(n) /\ n.activeIndex[n.active[L + 1]] = L + 1
      BY <1>2, <1>6, <1>9, <2>3
    <3> QED BY <1>8, <3>1, <3>2
  <2>5. ASSUME NEW j \in OrderIds
        PROVE  IF j \in ActiveIds(n)
               THEN n.activeIndex[j] \in 1 .. L + 1 /\ n.active[n.activeIndex[j]] = j
               ELSE n.activeIndex[j] = 0
    <3>1. CASE j = id
      BY <1>6, <1>8, <1>9, <2>3, <3>1
    <3>2. CASE j # id /\ j \in ActiveIds(m)
      BY <1>6, <1>8, <1>9, <2>1, <2>3, <3>2
    <3>3. CASE j # id /\ j \notin ActiveIds(m)
      BY <1>9, <2>1, <2>3, <3>3
    <3> QED BY <3>1, <3>2, <3>3
  <2> QED BY <1>6, <2>4, <2>5 DEF Indexed
<1>11. Registered(n)
  <2>1. /\ \A j \in 1 .. Len(m.orders) :
              /\ m.orders[j].tokenId < t /\ m.orders[j].tokenId \in TokenIds
              /\ m.tokenIdToOrderId[m.orders[j].tokenId] = j
              /\ m.owner[m.orders[j].tokenId] =
                    IF m.orders[j].status = "Active" THEN "manager" ELSE "none"
        /\ \A u \in TokenIds : u >= t => m.tokenIdToOrderId[u] = 0
    BY GoodFacts DEF Consistent, Registered, t
  <2>2. \A u \in TokenIds :
           /\ n.tokenIdToOrderId[u] = IF u = t THEN id ELSE m.tokenIdToOrderId[u]
           /\ n.owner[u] = IF u = t THEN "manager" ELSE m.owner[u]
    BY <1>1, <1>4
  <2>3. ASSUME NEW j \in 1 .. id
        PROVE  /\ n.orders[j].tokenId < t + 1
               /\ n.tokenIdToOrderId[n.orders[j].tokenId] = j
               /\ n.owner[n.orders[j].tokenId] =
                     IF n.orders[j].status = "Active" THEN "manager" ELSE "none"
    <3>1. CASE j = id
      <4>1. n.orders[j].tokenId = t /\ n.orders[j].status = "Active" /\ t \in TokenIds
        BY <1>5, <1>14, <3>1 DEF t
      <4> QED BY <1>8, <2>2, <3>1, <4>1
    <3>2. CASE j \in 1 .. Len(m.orders)
      <4> DEFINE u == m.orders[j].tokenId
      <4>1. u \in TokenIds /\ u \in Nat /\ u < t /\ u # t /\ n.orders[j] = m.orders[j]
        BY <1>5, <1>8, <2>1, <3>2 DEF TokenIds
      <4>2. /\ m.tokenIdToOrderId[u] = j
            /\ m.owner[u] = IF m.orders[j].status = "Active" THEN "manager" ELSE "none"
        BY <2>1, <3>2
      <4> HIDE DEF u
      <4>3. n.tokenIdToOrderId[u] = j /\ n.owner[u] = m.owner[u] /\ u < t + 1
        BY <1>8, <2>2, <4>1, <4>2
      <4> QED BY <4>1, <4>2, <4>3 DEF u
    <3> QED BY <1>8, <3>1, <3>2
  <2>4. \A u \in TokenIds : u >= t + 1 => n.tokenIdToOrderId[u] = 0
    <3>1. \A u \in TokenIds : u >= t + 1 => u >= t /\ u # t
      BY <1>8 DEF TokenIds
    <3> QED BY <2>1, <2>2, <3>1
  <2> QED BY <1>4, <1>5, <2>3, <2>4 DEF Registered
<1>12. Consistent(n)
  BY <1>1, <1>2, <1>5, <1>7, <1>10, <1>11 DEF Consistent, OrderIds
<1>13. n.orders[id].side = side /\ n.orders[id].range = range
       /\ DOMAIN n.orders \ DOMAIN m.orders = {id}
  BY <1>1, <1>2, <1>5, <1>8, <1>14
<1> QED BY <1>12, <1>13 DEF n, id
LEMMA RemovalFacts ==
  ASSUME NEW S, NEW s \in Seq(S), NEW i \in 1 .. Len(s)
  PROVE  LET r == Front([s EXCEPT ![i] = s[Len(s)]])
         IN  /\ r \in Seq(S) /\ Len(r) = Len(s) - 1
             /\ \A k \in 1 .. Len(s) - 1 : r[k] = IF k = i THEN s[Len(s)] ELSE s[k]
<1> DEFINE u == [s EXCEPT ![i] = s[Len(s)]]
           L == Len(s)
<1>1. L \in Nat /\ L >= 1 /\ s[L] \in S /\ L \in 1 .. L
  OBVIOUS
<1>2. u \in Seq(S) /\ Len(u) = L /\ \A k \in 1 .. L : u[k] = IF k = i THEN s[L] ELSE s[k]
  BY <1>1
<1> HIDE DEF u
<1>3. /\ SubSeq(u, 1, L - 1) \in Seq(S) /\ Len(SubSeq(u, 1, L - 1)) = L - 1
      /\ \A k \in 1 .. L - 1 : SubSeq(u, 1, L - 1)[k] = u[k]
  BY <1>1, <1>2
<1>4. Front(u) = SubSeq(u, 1, L - 1)
  BY <1>2 DEF Front
<1>5. \A k \in 1 .. L - 1 : k \in 1 .. L
  BY <1>1
<1> QED BY <1>2, <1>3, <1>4, <1>5 DEF u

\* _removeActiveOrder and the end of the order.
LEMMA EndedIsGood ==
  ASSUME NEW m, Consistent(m), NEW id \in ActiveIds(m), NEW status \in {"Settled", "Cancelled"}
  PROVE  LET n == Ended(m, id, status)
         IN  /\ Consistent(n) /\ n.orders \in Seq(RangeOrder) /\ Len(n.orders) = Len(m.orders)
             /\ \A j \in 1 .. Len(m.orders) : j # id =>
                   /\ n.orders[j] = m.orders[j]
                   /\ n.owner[m.orders[j].tokenId] = m.owner[m.orders[j].tokenId]
             /\ n.tokenIdToOrderId = m.tokenIdToOrderId
<1> DEFINE n == Ended(m, id, status)
           L == Len(m.active)
           last == m.active[L]
           i == m.activeIndex[id]
           r == Front([m.active EXCEPT ![i] = last])
           t == m.orders[id].tokenId
           o == [m.orders[id] EXCEPT !.status = status]
<1>1. /\ m.orders \in Seq(RangeOrder) /\ m.active \in Seq(OrderIds)
      /\ m.activeIndex \in [OrderIds -> Nat] /\ m.tokenIdToOrderId \in [TokenIds -> Nat]
      /\ m.owner \in [TokenIds -> {"none", "manager", "safe"}] /\ m.nextTokenId \in Nat
      /\ m.paused \in BOOLEAN
      /\ DOMAIN m.orders = 1 .. Len(m.orders) /\ Len(m.orders) \in Nat
      /\ L \in Nat /\ m \in Manager
  BY GoodFacts DEF Consistent
<1>2. /\ \A k \in 1 .. L : m.active[k] \in ActiveIds(m) /\ m.activeIndex[m.active[k]] = k
      /\ \A j \in OrderIds :
            IF j \in ActiveIds(m)
            THEN m.activeIndex[j] \in 1 .. L /\ m.active[m.activeIndex[j]] = j
            ELSE m.activeIndex[j] = 0
  BY DEF Consistent, Indexed
<1>3. /\ id \in 1 .. Len(m.orders) /\ id \in OrderIds /\ m.orders[id] \in RangeOrder
      /\ t \in TokenIds /\ m.orders[id].status = "Active"
  BY <1>1, GoodFacts DEF ActiveIds
<1>4. i \in 1 .. L /\ m.active[i] = id /\ L >= 1 /\ L \in 1 .. L
      /\ last \in OrderIds /\ last \in ActiveIds(m) /\ m.activeIndex[last] = L
  <2>1. i \in 1 .. L /\ m.active[i] = id
    BY <1>2, <1>3
  <2>2. L >= 1 /\ L \in 1 .. L
    BY <1>1, <2>1
  <2> QED BY <1>2, <2>1, <2>2, GoodFacts
<1>5. /\ r \in Seq(OrderIds) /\ Len(r) = L - 1
      /\ \A k \in 1 .. L - 1 : r[k] = IF k = i THEN last ELSE m.active[k]
  <2>1. m.active \in Seq(OrderIds) /\ i \in 1 .. Len(m.active)
    BY <1>1, <1>4
  <2> DEFINE s == m.active
  <2>2. s \in Seq(OrderIds) /\ i \in 1 .. Len(s)
    BY <2>1
  <2>3. r = Front([s EXCEPT ![i] = s[Len(s)]]) /\ last = s[Len(s)] /\ L = Len(s)
    OBVIOUS
  <2> HIDE DEF s, i, r, last, L
  <2>4. LET q == Front([s EXCEPT ![i] = s[Len(s)]])
        IN  /\ q \in Seq(OrderIds) /\ Len(q) = Len(s) - 1
            /\ \A k \in 1 .. Len(s) - 1 : q[k] = IF k = i THEN s[Len(s)] ELSE s[k]
    BY <2>2, RemovalFacts
  <2>5. /\ r \in Seq(OrderIds) /\ Len(r) = L - 1
        /\ \A k \in 1 .. L - 1 : r[k] = IF k = i THEN last ELSE s[k]
    BY <2>3, <2>4
  <2> QED BY <2>5 DEF s
<1>6. o \in RangeOrder /\ o.tokenId = t /\ o.status = status
  BY <1>3 DEF RangeOrder, Statuses
<1>7. /\ n.orders = [m.orders EXCEPT ![id] = o] /\ n.active = r
      /\ n.activeIndex = [m.activeIndex EXCEPT ![last] = i, ![id] = 0]
      /\ n.tokenIdToOrderId = m.tokenIdToOrderId /\ n.owner = [m.owner EXCEPT ![t] = "none"]
      /\ n.nextTokenId = m.nextTokenId /\ n.paused = m.paused
  BY <1>1 DEF Ended, ActiveRemoved, Manager
<1>8. n \in Manager
  <2>1. /\ [m.orders EXCEPT ![id] = o] \in Seq(RangeOrder)
        /\ [m.activeIndex EXCEPT ![last] = i, ![id] = 0] \in [OrderIds -> Nat]
        /\ [m.owner EXCEPT ![t] = "none"] \in [TokenIds -> {"none", "manager", "safe"}]
    <3> HIDE DEF o, last, i, t, L
    <3> QED BY <1>1, <1>3, <1>4, <1>6
  <2> HIDE DEF r
  <2> QED BY <1>1, <1>5, <2>1 DEF Ended, ActiveRemoved, Manager, r
<1> HIDE DEF n, r, o
<1>9. /\ n.orders \in Seq(RangeOrder) /\ Len(n.orders) = Len(m.orders) /\ n.orders[id] = o
      /\ DOMAIN n.orders = 1 .. Len(m.orders)
      /\ \A j \in 1 .. Len(m.orders) : j # id => n.orders[j] = m.orders[j]
  BY <1>1, <1>3, <1>6, <1>7
<1>10. ActiveIds(n) = ActiveIds(m) \ {id}
  BY <1>1, <1>3, <1>6, <1>9 DEF ActiveIds
<1>11. \A j \in OrderIds : n.activeIndex[j] =
          IF j = id THEN 0 ELSE IF j = last THEN i ELSE m.activeIndex[j]
  BY <1>1, <1>3, <1>4, <1>7
<1>12. \A u \in TokenIds : n.owner[u] = IF u = t THEN "none" ELSE m.owner[u]
  BY <1>1, <1>3, <1>7
<1>13. i # L <=> last # id
  BY <1>4
<1> HIDE DEF last, i, t
<1>14. Indexed(n)
  <2>1. ASSUME NEW k \in 1 .. L - 1
        PROVE  n.active[k] \in ActiveIds(n) /\ n.activeIndex[n.active[k]] = k
    <3>1. k \in 1 .. L /\ k # L
      BY <1>1
    <3>2. CASE k = i
      BY <1>4, <1>5, <1>7, <1>10, <1>11, <1>13, <3>1, <3>2
    <3>3. CASE k # i
      <4> DEFINE j == m.active[k]
      <4>1. j \in ActiveIds(m) /\ m.activeIndex[j] = k /\ j \in OrderIds
        BY <1>2, <3>1, GoodFacts
      <4>2. j # id /\ j # last
        BY <1>2, <1>4, <3>1, <3>3, <4>1 DEF i
      <4> QED BY <1>5, <1>7, <1>10, <1>11, <3>3, <4>1, <4>2
    <3> QED BY <3>2, <3>3
  <2>2. ASSUME NEW j \in OrderIds
        PROVE  IF j \in ActiveIds(n)
               THEN n.activeIndex[j] \in 1 .. L - 1 /\ n.active[n.activeIndex[j]] = j
               ELSE n.activeIndex[j] = 0
    <3>1. CASE j = id
      BY <1>10, <1>11, <3>1
    <3>2. CASE j = last /\ j # id
      <4>1. i \in 1 .. L - 1
        BY <1>1, <1>4, <1>13, <3>2
      <4> QED BY <1>4, <1>5, <1>7, <1>10, <1>11, <3>2, <4>1
    <3>3. CASE j # last /\ j # id /\ j \in ActiveIds(m)
      <4> DEFINE k == m.activeIndex[j]
      <4>1. k \in 1 .. L /\ m.active[k] = j
        BY <1>2, <3>3
      <4>2. k # L /\ k # i
        BY <1>4, <3>3, <4>1 DEF last
      <4>3. k \in 1 .. L - 1
        BY <1>1, <4>1, <4>2
      <4> QED BY <1>5, <1>7, <1>10, <1>11, <3>3, <4>1, <4>2, <4>3
    <3>4. CASE j # last /\ j # id /\ j \notin ActiveIds(m)
      BY <1>2, <1>10, <1>11, <3>4
    <3> QED BY <3>1, <3>2, <3>3, <3>4
  <2> QED BY <1>5, <1>7, <2>1, <2>2 DEF Indexed
<1>15. \A j \in 1 .. Len(m.orders) : j # id =>
          m.orders[j].tokenId # t /\ m.orders[j].tokenId \in TokenIds
  BY <1>3, GoodFacts DEF Consistent, Registered, t
<1>16. Registered(n)
  <2>1. ASSUME NEW j \in 1 .. Len(m.orders)
        PROVE  /\ n.orders[j].tokenId < n.nextTokenId
               /\ n.tokenIdToOrderId[n.orders[j].tokenId] = j
               /\ n.owner[n.orders[j].tokenId] =
                     IF n.orders[j].status = "Active" THEN "manager" ELSE "none"
    <3>1. /\ m.orders[j].tokenId < m.nextTokenId
          /\ m.tokenIdToOrderId[m.orders[j].tokenId] = j
          /\ m.owner[m.orders[j].tokenId] =
                IF m.orders[j].status = "Active" THEN "manager" ELSE "none"
      BY DEF Consistent, Registered
    <3>2. CASE j = id
      BY <1>3, <1>6, <1>7, <1>9, <1>12, <3>1, <3>2 DEF t
    <3>3. CASE j # id
      BY <1>7, <1>9, <1>12, <1>15, <3>1, <3>3
    <3> QED BY <3>2, <3>3
  <2>2. \A u \in TokenIds : u >= n.nextTokenId => n.tokenIdToOrderId[u] = 0
    BY <1>7 DEF Consistent, Registered
  <2> QED BY <1>9, <2>1, <2>2 DEF Registered
<1>17. Consistent(n)
  BY <1>8, <1>9, <1>14, <1>16 DEF Consistent
<1> QED BY <1>7, <1>9, <1>12, <1>15, <1>17 DEF n
--------------------------------------------------------------------------------
(* settleMany *)

Settles(s, m, ids, n) ==
    s = [k \in 0 .. n |-> IF k = 0 THEN m ELSE Ended(s[k - 1], ids[k], "Settled")]

LEMMA SettlingExists ==
  ASSUME NEW m, NEW ids, NEW N \in Nat
  PROVE  \E s : Settles(s, m, ids, N)
<1> DEFINE S == {n \in Nat : \E s : Settles(s, m, ids, n)}
<1>1. 0 \in S
  <2> DEFINE z == [k \in 0 .. 0 |-> m]
  <2>1. Settles(z, m, ids, 0)
    BY DEF Settles
  <2> QED BY <2>1
<1>2. ASSUME NEW n \in Nat, n \in S PROVE n + 1 \in S
  <2>1. PICK s : Settles(s, m, ids, n)
    BY <1>2
  <2> DEFINE E(x, k) == Ended(x, ids[k], "Settled")
             F(k) == IF k = 0 THEN m ELSE E(s[k - 1], k)
             t == [k \in 0 .. n + 1 |-> IF k = n + 1 THEN E(s[n], n + 1) ELSE s[k]]
             G(k) == IF k = 0 THEN m ELSE E(t[k - 1], k)
  <2>2. s = [k \in 0 .. n |-> F(k)]
    BY <2>1 DEF Settles
  <2> HIDE DEF E
  <2>3. \A k \in 0 .. n : s[k] = F(k)
    <3> HIDE DEF F
    <3> QED BY <2>2
  <2>4. ASSUME NEW k \in 0 .. n + 1 PROVE t[k] = G(k)
    <3>1. CASE k = 0
      BY <2>3, <3>1
    <3>2. CASE k \in 1 .. n
      BY <2>3, <3>2
    <3>3. CASE k = n + 1
      BY <3>3
    <3> QED BY <3>1, <3>2, <3>3
  <2>5. t = [k \in 0 .. n + 1 |-> G(k)]
    <3>1. t = [k \in 0 .. n + 1 |-> t[k]]
      OBVIOUS
    <3> HIDE DEF t, G
    <3> QED BY <2>4, <3>1
  <2>6. Settles(t, m, ids, n + 1)
    <3> HIDE DEF t
    <3> QED BY <2>5 DEF Settles, E
  <2> QED BY <2>6
<1> HIDE DEF S
<1>3. S \in SUBSET Nat
  BY DEF S
<1>4. S = Nat
  BY <1>1, <1>2, <1>3, NatSetInduction
<1> QED BY <1>4 DEF S

LEMMA SettlingSettles ==
  ASSUME NEW m, NEW ids, Len(ids) \in Nat
  PROVE  /\ Settling(m, ids)[0] = m
         /\ \A k \in 1 .. Len(ids) :
               Settling(m, ids)[k] = Ended(Settling(m, ids)[k - 1], ids[k], "Settled")
<1> DEFINE F(s) == [k \in 0 .. Len(ids) |->
                      IF k = 0 THEN m ELSE Ended(s[k - 1], ids[k], "Settled")]
           P == CHOOSE s : s = F(s)
<1>1. PICK s : s = F(s)
  <2>1. PICK s : Settles(s, m, ids, Len(ids))
    BY SettlingExists
  <2>2. s = F(s)
    BY <2>1 DEF Settles
  <2> QED BY <2>2
<1>2. P = F(P)
  <2> HIDE DEF F
  <2> QED BY <1>1
<1>3. Settling(m, ids) = P
  BY DEF Settling
<1> HIDE DEF P
<1> DEFINE G(k) == IF k = 0 THEN m ELSE Ended(P[k - 1], ids[k], "Settled")
<1>4. P = [k \in 0 .. Len(ids) |-> G(k)]
  BY <1>2
<1>5. \A k \in 0 .. Len(ids) : P[k] = G(k)
  <2> HIDE DEF G
  <2> QED BY <1>4
<1>6. P[0] = m
  BY <1>5
<1>7. \A k \in 1 .. Len(ids) : P[k] = Ended(P[k - 1], ids[k], "Settled")
  BY <1>5
<1> QED BY <1>3, <1>6, <1>7

\* Each member of the batch finds its order still active: settleMany never half works.
LEMMA SettledIsGood ==
  ASSUME NEW m, Consistent(m), NEW ids, Len(ids) \in Nat, DOMAIN ids = 1 .. Len(ids),
         IsInjective(ids), \A i \in DOMAIN ids : ids[i] \in ActiveIds(m)
  PROVE  LET n == SettledMany(m, ids)
         IN  Consistent(n) /\ Len(n.orders) = Len(m.orders) /\ DOMAIN n.orders = DOMAIN m.orders
<1> DEFINE s == Settling(m, ids)
           N == Len(ids)
           S == {k \in Nat : k <= N =>
                   /\ Consistent(s[k]) /\ Len(s[k].orders) = Len(m.orders)
                   /\ \A i \in 1 .. N : i > k => ids[i] \in ActiveIds(s[k])}
<1>1. s[0] = m /\ \A k \in 1 .. N : s[k] = Ended(s[k - 1], ids[k], "Settled")
  BY SettlingSettles
<1> HIDE DEF s
<1>2. 0 \in S
  BY <1>1
<1>3. ASSUME NEW k \in Nat, k \in S PROVE k + 1 \in S
  <2>1. SUFFICES ASSUME k + 1 <= N
                 PROVE  /\ Consistent(s[k + 1]) /\ Len(s[k + 1].orders) = Len(m.orders)
                        /\ \A i \in 1 .. N : i > k + 1 => ids[i] \in ActiveIds(s[k + 1])
    OBVIOUS
  <2>2. k + 1 \in 1 .. N /\ (k + 1) - 1 = k
    BY <2>1
  <2>3. /\ Consistent(s[k]) /\ Len(s[k].orders) = Len(m.orders)
        /\ \A i \in 1 .. N : i > k => ids[i] \in ActiveIds(s[k])
    BY <1>3, <2>1
  <2> DEFINE id == ids[k + 1]
             n == s[k + 1]
  <2>4. id \in ActiveIds(s[k]) /\ n = Ended(s[k], id, "Settled")
    BY <1>1, <2>2, <2>3
  <2> HIDE DEF n, id
  <2>5. /\ Consistent(n) /\ Len(n.orders) = Len(m.orders)
        /\ \A j \in 1 .. Len(m.orders) : j # id => n.orders[j] = s[k].orders[j]
    BY <2>3, <2>4, EndedIsGood
  <2>6. ASSUME NEW i \in 1 .. N, i > k + 1 PROVE ids[i] \in ActiveIds(n)
    <3>1. ids[i] \in ActiveIds(s[k]) /\ ids[i] # id
      BY <2>2, <2>3, <2>6 DEF id, IsInjective
    <3>2. ids[i] \in 1 .. Len(m.orders) /\ s[k].orders[ids[i]].status = "Active"
      BY <2>3, <3>1, GoodFacts DEF ActiveIds
    <3> QED BY <2>5, <3>1, <3>2, GoodFacts DEF ActiveIds
  <2> QED BY <2>5, <2>6 DEF n
<1>4. S \in SUBSET Nat
  OBVIOUS
<1> HIDE DEF S
<1>5. S = Nat
  BY <1>2, <1>3, <1>4, NatSetInduction
<1>6. Consistent(s[N]) /\ Len(s[N].orders) = Len(m.orders)
  BY <1>5 DEF S
<1> QED BY <1>6, GoodFacts DEF SettledMany, s
--------------------------------------------------------------------------------
(* The other functions *)

LEMMA PausedIsGood ==
  ASSUME NEW m, Consistent(m), NEW b \in BOOLEAN
  PROVE  Consistent([m EXCEPT !.paused = b]) /\ [m EXCEPT !.paused = b].orders = m.orders
<1> DEFINE n == [m EXCEPT !.paused = b]
<1>1. /\ n \in Manager /\ n.orders = m.orders /\ n.active = m.active
      /\ n.activeIndex = m.activeIndex /\ n.tokenIdToOrderId = m.tokenIdToOrderId
      /\ n.owner = m.owner /\ n.nextTokenId = m.nextTokenId
  BY DEF Consistent, Manager
<1> HIDE DEF n
<1>2. Consistent(n)
  BY <1>1 DEF Consistent, Indexed, Registered, ActiveIds
<1> QED BY <1>1, <1>2 DEF n

LEMMA QuarantinedIsGood ==
  ASSUME NEW m, Consistent(m), NEW t \in TokenIds, CanQuarantine(m, t)
  PROVE  Consistent(Quarantined(m, t)) /\ Quarantined(m, t).orders = m.orders
<1> DEFINE n == Quarantined(m, t)
<1>1. /\ n \in Manager /\ n.orders = m.orders /\ n.active = m.active
      /\ n.activeIndex = m.activeIndex /\ n.tokenIdToOrderId = m.tokenIdToOrderId
      /\ n.owner = [m.owner EXCEPT ![t] = "safe"] /\ n.nextTokenId = m.nextTokenId
  BY DEF Consistent, Manager, Quarantined
<1> HIDE DEF n
<1>2. \A id \in 1 .. Len(m.orders) : /\ m.orders[id].tokenId \in TokenIds
                                     /\ m.orders[id].tokenId # t
  BY GoodFacts DEF Consistent, Registered, CanQuarantine
<1>3. \A id \in 1 .. Len(m.orders) :
         n.owner[m.orders[id].tokenId] = m.owner[m.orders[id].tokenId]
  BY <1>1, <1>2, GoodFacts
<1>4. Indexed(n) /\ Registered(n)
  BY <1>1, <1>3 DEF Consistent, Indexed, Registered, ActiveIds
<1>5. Consistent(n)
  BY <1>1, <1>4 DEF Consistent
<1> QED BY <1>1, <1>5 DEF n

LEMMA InjectedIsGood ==
  ASSUME NEW m, Consistent(m), m.nextTokenId \in TokenIds
  PROVE  Consistent(Injected(m)) /\ Injected(m).orders = m.orders
<1> DEFINE n == Injected(m)
           t == m.nextTokenId
<1>0. t \in Nat /\ t + 1 \in Nat
  BY GoodFacts
<1>1. /\ n \in Manager /\ n.orders = m.orders /\ n.active = m.active
      /\ n.activeIndex = m.activeIndex /\ n.tokenIdToOrderId = m.tokenIdToOrderId
      /\ n.owner = [m.owner EXCEPT ![t] = "manager"] /\ n.nextTokenId = t + 1
  <2>1. n.owner = [m.owner EXCEPT ![t] = "manager"] /\ n.nextTokenId = t + 1
    BY DEF Consistent, Manager, Injected
  <2>2. /\ n.orders = m.orders /\ n.active = m.active
        /\ n.activeIndex = m.activeIndex /\ n.tokenIdToOrderId = m.tokenIdToOrderId
    BY DEF Consistent, Manager, Injected
  <2>3. [m.owner EXCEPT ![t] = "manager"] \in [TokenIds -> {"none", "manager", "safe"}]
    BY DEF Consistent, Manager
  <2>4. n \in Manager
    BY <1>0, <2>3 DEF Consistent, Manager, Injected
  <2> QED BY <2>1, <2>2, <2>4
<1> HIDE DEF n
<1>2. \A id \in 1 .. Len(m.orders) :
         /\ m.orders[id].tokenId \in TokenIds /\ m.orders[id].tokenId \in Nat
         /\ m.orders[id].tokenId < t
  BY GoodFacts DEF Consistent, Registered, TokenIds
<1>3. \A id \in 1 .. Len(m.orders) :
         /\ n.owner[m.orders[id].tokenId] = m.owner[m.orders[id].tokenId]
         /\ m.orders[id].tokenId < t + 1
  <2>1. TAKE id \in 1 .. Len(m.orders)
  <2> DEFINE x == m.orders[id].tokenId
  <2>2. x \in TokenIds /\ x \in Nat /\ x < t
    BY <1>2
  <2>3. m.owner \in [TokenIds -> {"none", "manager", "safe"}]
    BY GoodFacts
  <2> HIDE DEF x, t
  <2>4. x < t + 1 /\ x # t
    BY <1>0, <2>2
  <2>5. n.owner[x] = m.owner[x]
    BY <1>1, <2>2, <2>3, <2>4
  <2> QED BY <2>4, <2>5 DEF x
<1>4. \A u \in TokenIds : u >= t + 1 => u >= t
  BY <1>0 DEF TokenIds
<1>5. Indexed(n) /\ Registered(n)
  BY <1>1, <1>3, <1>4 DEF Consistent, Indexed, Registered, ActiveIds
<1>6. Consistent(n)
  BY <1>1, <1>5 DEF Consistent
<1> QED BY <1>1, <1>6 DEF n

--------------------------------------------------------------------------------
(* Theorems *)

OrdersInv == Consistent(manager) /\ price \in Nat

\* An order is created where nothing of it is filled.
LEMMA CreationWaits ==
  ASSUME OrdersInv, NEW side \in Sides, NEW range \in Ranges, CreateOrder(side, range)
  PROVE  /\ OrdersInv'
         /\ \A id \in DOMAIN manager'.orders \ DOMAIN manager.orders :
               ~ IsSettleable(manager', price', id)
<1> DEFINE n == Created(manager, side, range)
           id == Len(manager.orders) + 1
<1>1. /\ Consistent(n) /\ DOMAIN n.orders \ DOMAIN manager.orders = {id}
      /\ n.orders[id].side = side /\ n.orders[id].range = range
      /\ manager' = n /\ price' = price /\ CanCreate(manager, price, side, range)
  BY CreatedIsGood DEF CreateOrder, OrdersInv
<1>2. range.lower \in Nat /\ range.upper \in Nat /\ range.lower < range.upper /\ price \in Nat
  BY RangeAssumption DEF OrdersInv
<1> HIDE DEF n, id
<1>3. ~ TerminalAt(n.orders[id], price)
  BY <1>1, <1>2 DEF TerminalAt, CanCreate, Sides
<1> QED BY <1>1, <1>3 DEF OrdersInv, IsSettleable

LEMMA OrdersStep ==
  ASSUME OrdersInv, [OrdersNext]_orderVars
  PROVE  /\ OrdersInv'
         /\ \A id \in DOMAIN manager'.orders \ DOMAIN manager.orders :
               ~ IsSettleable(manager', price', id)
<1>1. CASE UNCHANGED orderVars
  BY <1>1 DEF orderVars, OrdersInv
<1>2. ASSUME NEW side \in Sides, NEW range \in Ranges, CreateOrder(side, range)
      PROVE  /\ OrdersInv'
             /\ \A id \in DOMAIN manager'.orders \ DOMAIN manager.orders :
                   ~ IsSettleable(manager', price', id)
  BY <1>2, CreationWaits
<1>3. ASSUME NEW ids \in OrderLists, SettleMany(ids)
      PROVE  OrdersInv' /\ DOMAIN manager'.orders = DOMAIN manager.orders
  <2>1. PICK n \in 1 .. MaxOrders : ids \in [1 .. n -> OrderIds]
    BY DEF OrderLists
  <2>2. n \in Nat /\ Len(ids) = n /\ DOMAIN ids = 1 .. n
    BY <2>1, RangeAssumption
  <2>3. IsInjective(ids) /\ \A i \in DOMAIN ids : ids[i] \in ActiveIds(manager)
    BY <1>3 DEF SettleMany, CanSettleMany, IsSettleable, ActiveIds
  <2> QED BY <1>3, <2>2, <2>3, SettledIsGood DEF SettleMany, OrdersInv
<1>4. ASSUME NEW id \in DOMAIN manager.orders, CancelOrder(id)
      PROVE  OrdersInv' /\ DOMAIN manager'.orders = DOMAIN manager.orders
  <2>1. id \in ActiveIds(manager)
    BY <1>4 DEF CancelOrder, CanCancel, ActiveIds
  <2>2. /\ manager' = Ended(manager, id, "Cancelled") /\ price' = price
        /\ "Cancelled" \in {"Settled", "Cancelled"} /\ Consistent(manager)
    BY <1>4 DEF CancelOrder, Cancelled, OrdersInv
  <2>3. Consistent(manager') /\ Len(manager'.orders) = Len(manager.orders)
    BY <2>1, <2>2, EndedIsGood
  <2> QED BY <2>2, <2>3, GoodFacts DEF OrdersInv
<1>5. ASSUME PauseOrderCreation \/ UnpauseOrderCreation
      PROVE  OrdersInv' /\ DOMAIN manager'.orders = DOMAIN manager.orders
  <2>1. PICK b \in BOOLEAN : manager' = [manager EXCEPT !.paused = b] /\ price' = price
    BY <1>5 DEF PauseOrderCreation, UnpauseOrderCreation
  <2> QED BY <2>1, PausedIsGood DEF OrdersInv
<1>6. ASSUME NEW t \in TokenIds, QuarantineUnregisteredPosition(t)
      PROVE  OrdersInv' /\ DOMAIN manager'.orders = DOMAIN manager.orders
  BY <1>6, QuarantinedIsGood DEF QuarantineUnregisteredPosition, OrdersInv
<1>7. ASSUME InjectPosition
      PROVE  OrdersInv' /\ DOMAIN manager'.orders = DOMAIN manager.orders
  BY <1>7, InjectedIsGood DEF InjectPosition, OrdersInv
<1>8. ASSUME NEW p \in Prices, Swap(p)
      PROVE  OrdersInv' /\ DOMAIN manager'.orders = DOMAIN manager.orders
  BY <1>8, RangeAssumption DEF Swap, OrdersInv
<1> QED BY <1>1, <1>2, <1>3, <1>4, <1>5, <1>6, <1>7, <1>8 DEF OrdersNext

THEOREM OrdersInvariant == OrdersSpec => []OrdersInv
<1>1. OrdersInit => OrdersInv
  BY NewIsGood, RangeAssumption DEF OrdersInit, OrdersInv
<1>2. OrdersInv /\ [OrdersNext]_orderVars => OrdersInv'
  BY OrdersStep
<1> QED BY <1>1, <1>2, PTL DEF OrdersSpec

\* The array of active orders of NARATreasuryRangeManagerV1, its reverse index, the orders
\* and the custody of their positions agree, however many orders are created, settled in
\* batches and cancelled from the middle, and whatever foreign positions are sent in.
THEOREM ActiveOrdersAreExact == OrdersSpec => []ActiveOrdersExact
<1>1. OrdersInv => ActiveOrdersExact
  <2> SUFFICES ASSUME Consistent(manager) PROVE ActiveOrdersExact
    BY DEF OrdersInv
  <2> DEFINE A == ActiveIds(manager)
             L == Len(manager.active)
             f == [k \in 1 .. L |-> manager.active[k]]
  <2>1. /\ \A k \in 1 .. L : /\ manager.active[k] \in A
                             /\ manager.activeIndex[manager.active[k]] = k
        /\ \A id \in OrderIds :
              IF id \in A
              THEN /\ manager.activeIndex[id] \in 1 .. L
                   /\ manager.active[manager.activeIndex[id]] = id
              ELSE manager.activeIndex[id] = 0
    BY DEF Consistent, Indexed
  <2>2. /\ L \in Nat /\ DOMAIN manager.active = 1 .. L /\ A \subseteq OrderIds
        /\ DOMAIN manager.orders = 1 .. Len(manager.orders)
    BY GoodFacts DEF ActiveIds
  <2> HIDE DEF A, L
  <2>3. ToSet(manager.active) = A
    BY <2>1, <2>2 DEF ToSet
  <2>4. L = Cardinality(A)
    <3>1. f \in Bijection(1 .. L, A)
      <4>1. \A j, k \in 1 .. L : f[j] = f[k] => j = k
        BY <2>1
      <4>2. f \in [1 .. L -> A] /\ \A a \in A : \E k \in 1 .. L : f[k] = a
        BY <2>1, <2>2
      <4> QED BY <4>1, <4>2 DEF Bijection, Injection, Surjection, IsInjective
    <3>2. ExistsBijection(1 .. L, A)
      BY <3>1 DEF ExistsBijection
    <3> QED BY <2>2, <3>2, FS_CountingElements
  <2>5. \A id \in OrderIds : manager.activeIndex[id] =
           IF id \in A THEN CHOOSE k \in DOMAIN manager.active : manager.active[k] = id ELSE 0
    <3>1. SUFFICES ASSUME NEW id \in OrderIds, id \in A
                   PROVE  manager.activeIndex[id] =
                             CHOOSE k \in DOMAIN manager.active : manager.active[k] = id
      BY <2>1
    <3>2. \A k \in 1 .. L : manager.active[k] = id <=> k = manager.activeIndex[id]
      BY <2>1, <3>1
    <3> QED BY <2>1, <2>2, <3>1, <3>2
  <2>6. \A id \in DOMAIN manager.orders :
           /\ manager.tokenIdToOrderId[manager.orders[id].tokenId] = id
           /\ manager.owner[manager.orders[id].tokenId] =
                 IF id \in A THEN "manager" ELSE "none"
    BY <2>2 DEF Consistent, Registered, A, ActiveIds
  <2> QED BY <2>3, <2>4, <2>5, <2>6 DEF ActiveOrdersExact, A, ActiveIds, L
<1> QED BY <1>1, OrdersInvariant, PTL

\* No order can be settled at the price at which it was created.
THEOREM NewOrdersDoWait == OrdersSpec => NewOrdersWait
<1>1. OrdersInv /\ [OrdersNext]_orderVars =>
        [\A id \in DOMAIN manager'.orders \ DOMAIN manager.orders :
            ~ IsSettleable(manager', price', id)]_orderVars
  BY OrdersStep
<1> QED BY <1>1, OrdersInvariant, PTL DEF OrdersSpec, NewOrdersWait
--------------------------------------------------------------------------------
(* The settler.  The rest of this module is about RangeSettler.                      *)

\* What the properties of the settler rest on, beside its code: a reorganisation is
\* shallower than the confirmations waited for, and none falls between the last reads of
\* one receipt (settler_nonce_reuse shows what happens if one does).
SettlerConditions == MaxReorgDepth < CONFIRMATIONS /\ ~ ReorgsBetweenReads

Sents == ToSet(sent)

PassType == [at : Steps, ids : Seq(OrderIds), nonce : Nat, block : Nat, ok : BOOLEAN]

SettlerTypes ==
    /\ chain \in Seq(Block) /\ Len(chain) >= 1 /\ head \in [Providers -> 1 .. Len(chain)]
    /\ \A h \in 1 .. Len(chain) : Consistent(chain[h].m)
    /\ mempool \subseteq gossiped /\ gossiped \subseteq Sents
    /\ aged \in BOOLEAN /\ records \subseteq [tx : Tx, block : Nat] /\ tornRecords \subseteq Tx
    /\ sent \in Seq(Tx) /\ reorged \in BOOLEAN /\ faults \in Nat
    /\ pass \in PassType
    /\ journal \in Sents \cup {None, Torn}

\* No reorganisation to come reaches block b, and every provider has it.
Deep(b) ==
    /\ b \in 1 .. Len(chain)
    /\ \A p \in Providers : /\ b <= head[p]
                            /\ ~ reorged => b + CONFIRMATIONS - 1 <= head[p]

\* A block counts the settler's transactions up to it.
NoncesCount ==
    /\ \A g, h \in 1 .. Len(chain) : g <= h => chain[g].nonce <= chain[h].nonce
    /\ \A h \in 1 .. Len(chain) : chain[h].tx # None =>
          /\ chain[h].tx \in Sents
          /\ chain[h].nonce = chain[h].tx.nonce + 1
          /\ \A g \in 1 .. Len(chain) : g < h => chain[g].nonce <= chain[h].tx.nonce

\* What is not in the journal is mined for good.
Journaled ==
    \A tx \in Sents : tx = journal \/ \E b \in 1 .. Len(chain) : Deep(b) /\ chain[b].tx = tx

Recorded ==
    /\ \A r \in records : Deep(r.block) /\ chain[r.block].tx = r.tx /\ chain[r.block].ok
    /\ \A h \in 1 .. Len(chain) : chain[h].tx # None /\ chain[h].ok =>
          journal = chain[h].tx \/ [tx |-> chain[h].tx, block |-> h] \in records

\* What the running pass has read still holds.
Passing ==
    /\ pass.at \in {"check", "nonce", "save"} => journal = None
    /\ pass.at \in Steps \ {"idle", "check", "nonce", "save"} => journal \in Sents
    /\ pass.at = "save" => \A tx \in Sents : tx.nonce < pass.nonce
    /\ pass.at \in {"confirm", "verify", "clear"} =>
          /\ pass.block \in 1 .. Len(chain)
          /\ chain[pass.block].tx = journal /\ chain[pass.block].ok = pass.ok
    /\ pass.at \in {"verify", "clear"} => Deep(pass.block)
    /\ pass.at = "clear" /\ pass.ok => [tx |-> journal, block |-> pass.block] \in records

SettlerInv ==
    SettlerTypes /\ NoncesCount /\ NoncesRise /\ Journaled /\ Recorded /\ Passing

LEMMA LeastOfNaturals ==
  ASSUME NEW S \in SUBSET Nat, S # {}
  PROVE  Min(S) \in S /\ \A x \in S : Min(S) <= x
<1>1. PICK x \in S : \A y \in S : ~ (<<y, x>> \in OpToRel(<, Nat))
  BY WFMin, NatLessThanWellFounded
<1>2. \A y \in S : ~ (y < x)
  BY <1>1 DEF OpToRel
<1>3. \A y \in S : x <= y
  BY <1>2
<1> QED BY <1>1, <1>3 DEF Min

\* What a sweep selects are order ids.
Sifts(s, b, ids, n) ==
    s = [k \in 0 .. n |->
           IF k = 0 THEN <<>>
           ELSE IF Settleable(b, ids[k]) THEN Append(s[k - 1], ids[k]) ELSE s[k - 1]]

LEMMA SiftingExists ==
  ASSUME NEW b, NEW ids, NEW N \in Nat
  PROVE  \E s : Sifts(s, b, ids, N)
<1> DEFINE S == {n \in Nat : \E s : Sifts(s, b, ids, n)}
<1>1. 0 \in S
  <2> DEFINE z == [k \in 0 .. 0 |-> <<>>]
  <2>1. Sifts(z, b, ids, 0)
    BY DEF Sifts
  <2> QED BY <2>1
<1>2. ASSUME NEW n \in Nat, n \in S PROVE n + 1 \in S
  <2>1. PICK s : Sifts(s, b, ids, n)
    BY <1>2
  <2> DEFINE E(x, k) == IF Settleable(b, ids[k]) THEN Append(x, ids[k]) ELSE x
             F(k) == IF k = 0 THEN <<>> ELSE E(s[k - 1], k)
             t == [k \in 0 .. n + 1 |-> IF k = n + 1 THEN E(s[n], n + 1) ELSE s[k]]
             G(k) == IF k = 0 THEN <<>> ELSE E(t[k - 1], k)
  <2>2. s = [k \in 0 .. n |-> F(k)]
    BY <2>1 DEF Sifts
  <2> HIDE DEF E
  <2>3. \A k \in 0 .. n : s[k] = F(k)
    <3> HIDE DEF F
    <3> QED BY <2>2
  <2>4. ASSUME NEW k \in 0 .. n + 1 PROVE t[k] = G(k)
    <3>1. CASE k = 0
      BY <2>3, <3>1
    <3>2. CASE k \in 1 .. n
      BY <2>3, <3>2
    <3>3. CASE k = n + 1
      BY <3>3
    <3> QED BY <3>1, <3>2, <3>3
  <2>5. t = [k \in 0 .. n + 1 |-> G(k)]
    <3>1. t = [k \in 0 .. n + 1 |-> t[k]]
      OBVIOUS
    <3> HIDE DEF t, G
    <3> QED BY <2>4, <3>1
  <2>6. Sifts(t, b, ids, n + 1)
    <3> HIDE DEF t
    <3> QED BY <2>5 DEF Sifts, E
  <2> QED BY <2>6
<1> HIDE DEF S
<1>3. S \in SUBSET Nat
  BY DEF S
<1>4. S = Nat
  BY <1>1, <1>2, <1>3, NatSetInduction
<1> QED BY <1>4 DEF S

LEMMA EligibleAreIds ==
  ASSUME NEW b, NEW T, NEW ids \in Seq(T)
  PROVE  Eligible(b, ids) \in Seq(T)
<1> DEFINE N == Len(ids)
           F(s) == [k \in 0 .. N |->
                      IF k = 0 THEN <<>>
                      ELSE IF Settleable(b, ids[k]) THEN Append(s[k - 1], ids[k])
                           ELSE s[k - 1]]
           P == CHOOSE s : s = F(s)
           S == {k \in Nat : k <= N => P[k] \in Seq(T)}
<1>0. N \in Nat /\ \A k \in 1 .. N : ids[k] \in T
  OBVIOUS
<1>1. PICK s : Sifts(s, b, ids, N)
  BY <1>0, SiftingExists
<1>2. P = F(P)
  <2>1. s = F(s)
    BY <1>1 DEF Sifts
  <2> HIDE DEF F
  <2> QED BY <2>1
<1>3. Sifted(b, ids) = P
  BY DEF Sifted
<1> HIDE DEF P
<1> DEFINE G(k) == IF k = 0 THEN <<>>
                   ELSE IF Settleable(b, ids[k]) THEN Append(P[k - 1], ids[k]) ELSE P[k - 1]
<1>4. P = [k \in 0 .. N |-> G(k)]
  BY <1>2
<1>5. \A k \in 0 .. N : P[k] = G(k)
  <2> HIDE DEF G
  <2> QED BY <1>4
<1>6. P[0] = <<>>
  BY <1>0, <1>5
<1>7. \A k \in 1 .. N : P[k] = IF Settleable(b, ids[k]) THEN Append(P[k - 1], ids[k])
                               ELSE P[k - 1]
  BY <1>0, <1>5
<1> HIDE DEF N, G
<1>8. 0 \in S
  <2>1. <<>> \in Seq(T)
    OBVIOUS
  <2> QED BY <1>6, <2>1
<1>9. ASSUME NEW k \in Nat, k \in S PROVE k + 1 \in S
  <2>1. SUFFICES ASSUME k + 1 <= N PROVE P[k + 1] \in Seq(T)
    OBVIOUS
  <2>2. k + 1 \in 1 .. N /\ (k + 1) - 1 = k /\ P[k] \in Seq(T)
    BY <1>0, <1>9, <2>1
  <2>3. P[k + 1] = IF Settleable(b, ids[k + 1]) THEN Append(P[k], ids[k + 1]) ELSE P[k]
    BY <1>7, <2>2
  <2> QED BY <1>0, <2>2, <2>3, AppendFacts
<1>10. S \in SUBSET Nat
  OBVIOUS
<1> HIDE DEF S
<1>11. S = Nat
  BY <1>8, <1>9, <1>10, NatSetInduction
<1>12. P[N] \in Seq(T)
  BY <1>0, <1>11 DEF S
<1> QED BY <1>3, <1>12 DEF Eligible, N
--------------------------------------------------------------------------------
(* What the invariant says of a state *)

LEMMA SettlerFacts ==
  ASSUME SettlerInv
  PROVE  /\ chain \in Seq(Block) /\ Len(chain) \in Nat /\ Len(chain) >= 1
         /\ DOMAIN chain = 1 .. Len(chain) /\ Len(chain) \in 1 .. Len(chain)
         /\ \A h \in 1 .. Len(chain) : /\ chain[h] \in Block /\ chain[h].nonce \in Nat
                                       /\ chain[h].tx \in Tx \cup {None}
                                       /\ chain[h].ok \in BOOLEAN /\ chain[h].m \in Manager
                                       /\ chain[h].price \in Prices /\ Consistent(chain[h].m)
         /\ Tip = chain[Len(chain)] /\ Tip \in Block
         /\ head \in [Providers -> 1 .. Len(chain)]
         /\ \A p \in Providers : head[p] \in Nat /\ head[p] <= Len(chain) /\ head[p] >= 1
         /\ Primary \in Providers /\ CONFIRMATIONS \in Nat \ {0} /\ MaxReorgDepth \in Nat
         /\ Sents \subseteq Tx /\ \A tx \in Tx : tx.nonce \in Nat /\ tx.ids \in Seq(OrderIds)
         /\ None \notin Tx /\ Torn \notin Tx /\ None # Torn
         /\ pass \in PassType
<1>1. /\ chain \in Seq(Block) /\ Len(chain) >= 1 /\ head \in [Providers -> 1 .. Len(chain)]
      /\ \A h \in 1 .. Len(chain) : Consistent(chain[h].m)
      /\ sent \in Seq(Tx) /\ pass \in PassType
  BY DEF SettlerInv, SettlerTypes
<1>2. /\ Len(chain) \in Nat /\ DOMAIN chain = 1 .. Len(chain) /\ Len(chain) \in 1 .. Len(chain)
      /\ \A h \in 1 .. Len(chain) : chain[h] \in Block
  BY <1>1
<1>3. \A b \in Block : /\ b.nonce \in Nat /\ b.tx \in Tx \cup {None} /\ b.ok \in BOOLEAN
                       /\ b.m \in Manager /\ b.price \in Prices
  BY DEF Block
<1>4. Tip = chain[Len(chain)]
  BY DEF Tip, Last
<1>5. \A p \in Providers : head[p] \in Nat /\ head[p] <= Len(chain) /\ head[p] >= 1
  BY <1>1, <1>2
<1>6. Sents \subseteq Tx
  BY <1>1 DEF Sents, ToSet
<1>7. \A tx \in Tx : tx.nonce \in Nat /\ tx.ids \in Seq(OrderIds)
  BY DEF Tx
<1> QED BY <1>1, <1>2, <1>3, <1>4, <1>5, <1>6, <1>7, SettlerAssumption

LEMMA CommonFacts ==
  ASSUME SettlerInv
  PROVE  /\ CommonHeight \in 1 .. Len(chain) /\ Common \in Block /\ Consistent(Common.m)
         /\ \A p \in Providers : CommonHeight <= head[p]
<1> DEFINE S == {head[p] : p \in Providers}
<1>1. S \in SUBSET Nat /\ S # {} /\ S \subseteq 1 .. Len(chain)
  BY SettlerFacts
<1>2. CommonHeight \in S /\ \A x \in S : CommonHeight <= x
  <2> HIDE DEF S
  <2>1. Min(S) \in S /\ \A x \in S : Min(S) <= x
    BY <1>1, LeastOfNaturals
  <2> QED BY <2>1 DEF CommonHeight, S
<1> QED BY <1>1, <1>2, SettlerFacts DEF Common

\* A transaction is mined once.
LEMMA MinedOnce ==
  ASSUME SettlerInv, NEW g \in 1 .. Len(chain), NEW h \in 1 .. Len(chain),
         chain[g].tx = chain[h].tx, chain[h].tx # None
  PROVE  g = h
<1>1. /\ chain[h].nonce = chain[h].tx.nonce + 1 /\ chain[g].nonce = chain[g].tx.nonce + 1
      /\ g < h => chain[g].nonce <= chain[h].tx.nonce
      /\ h < g => chain[h].nonce <= chain[g].tx.nonce
  BY DEF SettlerInv, NoncesCount
<1>2. g \in Nat /\ h \in Nat /\ chain[h].tx.nonce \in Nat
  BY SettlerFacts
<1> DEFINE x == chain[h].tx.nonce
<1>3. chain[h].nonce = x + 1 /\ chain[g].nonce = x + 1 /\ x \in Nat
      /\ (g < h => chain[g].nonce <= x) /\ (h < g => chain[h].nonce <= x)
  BY <1>1, <1>2
<1> HIDE DEF x
<1> QED BY <1>2, <1>3

\* What is mined for good is behind the nonce of every provider.
LEMMA NonceBehind ==
  ASSUME SettlerInv, NEW tx \in Sents, tx # journal, NEW h \in 1 .. Len(chain),
         \E p \in Providers : head[p] <= h
  PROVE  tx.nonce < chain[h].nonce
<1>1. PICK b \in 1 .. Len(chain) : Deep(b) /\ chain[b].tx = tx
  BY DEF SettlerInv, Journaled
<1>2. PICK p \in Providers : head[p] <= h
  OBVIOUS
<1>3. tx # None /\ tx.nonce \in Nat /\ b \in Nat /\ h \in Nat /\ head[p] \in Nat
  BY SettlerFacts
<1>4. b <= h
  BY <1>1, <1>2, <1>3 DEF Deep
<1>5. chain[b].nonce = tx.nonce + 1 /\ chain[b].nonce <= chain[h].nonce
  BY <1>1, <1>3, <1>4 DEF SettlerInv, NoncesCount
<1>6. chain[h].nonce \in Nat
  BY SettlerFacts
<1> QED BY <1>3, <1>5, <1>6

--------------------------------------------------------------------------------
(* Steps of the chain *)

\* A block more, empty or with the journal's transaction.
LEMMA BlockStep ==
  ASSUME SettlerInv, NEW b \in Block, Consistent(b.m), chain' = Append(chain, b),
         UNCHANGED <<head, gossiped, reorged, pass, diskVars, faults>>,
         mempool' \subseteq mempool,
         \/ b.tx = None /\ b.nonce = Tip.nonce
         \/ b.tx = journal /\ journal \in Sents /\ journal.nonce = Tip.nonce
            /\ b.nonce = Tip.nonce + 1
  PROVE  SettlerInv'
<1> DEFINE H == Len(chain)
<1>1. /\ chain' \in Seq(Block) /\ Len(chain') = H + 1 /\ chain'[H + 1] = b
      /\ \A h \in 1 .. H : chain'[h] = chain[h]
      /\ H \in Nat /\ H >= 1 /\ Tip = chain[H]
  BY SettlerFacts, AppendFacts
<1>2. Sents' = Sents /\ head' = head /\ reorged' = reorged /\ journal' = journal
      /\ pass' = pass /\ records' = records /\ sent' = sent /\ faults' = faults
      /\ aged' = aged /\ tornRecords' = tornRecords /\ gossiped' = gossiped
  BY DEF diskVars, Sents
<1> HIDE DEF H
<1>3. 1 .. H + 1 = 1 .. H \cup {H + 1} /\ H + 1 \notin 1 .. H /\ 1 .. H \subseteq 1 .. H + 1
      /\ \A h \in 1 .. H : h < H + 1 /\ h \in Nat
  BY <1>1
<1>4. \A c : Deep(c) => Deep(c)'
  BY <1>1, <1>2, <1>3 DEF Deep, H
<1>5. SettlerTypes'
  <2>1. head' \in [Providers -> 1 .. Len(chain')]
    BY <1>1, <1>2, <1>3, SettlerFacts DEF H
  <2>2. \A h \in 1 .. Len(chain') : Consistent(chain'[h].m)
    BY <1>1, <1>3, SettlerFacts DEF H
  <2>3. Len(chain') >= 1
    BY <1>1
  <2> QED BY <1>1, <1>2, <2>1, <2>2, <2>3 DEF SettlerInv, SettlerTypes
<1>6. NoncesCount'
  <2>1. b.nonce \in Nat /\ Tip.nonce \in Nat /\ Tip.nonce <= b.nonce
    <3>1. b.nonce \in Nat /\ Tip.nonce \in Nat
      BY SettlerFacts DEF Block
    <3> QED BY <3>1
  <2>2. \A h \in 1 .. H : chain[h].nonce <= Tip.nonce /\ chain[h].nonce \in Nat
    BY <1>1, SettlerFacts DEF SettlerInv, NoncesCount, H
  <2>3. ASSUME NEW g \in 1 .. H + 1, NEW h \in 1 .. H + 1, g <= h
        PROVE  chain'[g].nonce <= chain'[h].nonce
    <3>1. CASE h \in 1 .. H
      <4>1. g \in 1 .. H
        BY <1>1, <2>3, <3>1
      <4> QED BY <1>1, <2>3, <3>1, <4>1 DEF SettlerInv, NoncesCount, H
    <3>2. CASE h = H + 1 /\ g \in 1 .. H
      BY <1>1, <2>1, <2>2, <3>2
    <3>3. CASE h = H + 1 /\ g = H + 1
      BY <1>1, <2>1, <3>3
    <3> QED BY <1>3, <3>1, <3>2, <3>3
  <2>4. ASSUME NEW h \in 1 .. H + 1, chain'[h].tx # None
        PROVE  /\ chain'[h].tx \in Sents /\ chain'[h].nonce = chain'[h].tx.nonce + 1
               /\ \A g \in 1 .. H + 1 : g < h => chain'[g].nonce <= chain'[h].tx.nonce
    <3>1. CASE h \in 1 .. H
      <4>1. \A g \in 1 .. H + 1 : g < h => g \in 1 .. H
        BY <1>1, <3>1
      <4> QED BY <1>1, <2>4, <3>1, <4>1 DEF SettlerInv, NoncesCount, H
    <3>2. CASE h = H + 1
      <4>1. b.tx = journal /\ journal \in Sents /\ journal.nonce = Tip.nonce
            /\ b.nonce = Tip.nonce + 1
        BY <1>1, <2>4, <3>2
      <4>2. \A g \in 1 .. H + 1 : g < h => g \in 1 .. H
        BY <1>1, <3>2
      <4> QED BY <1>1, <2>2, <3>2, <4>1, <4>2
    <3> QED BY <1>3, <3>1, <3>2
  <2> QED BY <1>1, <1>2, <2>3, <2>4 DEF NoncesCount
<1>7. NoncesRise'
  BY <1>2 DEF SettlerInv, NoncesRise
<1>8. Journaled'
  BY <1>1, <1>2, <1>3, <1>4 DEF SettlerInv, Journaled, H
<1>9. Recorded'
  <2>1. \A r \in records : Deep(r.block)' /\ chain'[r.block].tx = r.tx /\ chain'[r.block].ok
    BY <1>1, <1>4 DEF SettlerInv, Recorded, Deep, H
  <2>2. ASSUME NEW h \in 1 .. H + 1, chain'[h].tx # None, chain'[h].ok
        PROVE  journal = chain'[h].tx \/ [tx |-> chain'[h].tx, block |-> h] \in records
    <3>1. CASE h \in 1 .. H
      BY <1>1, <2>2, <3>1 DEF SettlerInv, Recorded, H
    <3>2. CASE h = H + 1
      BY <1>1, <2>2, <3>2
    <3> QED BY <1>3, <3>1, <3>2
  <2> QED BY <1>1, <1>2, <2>1, <2>2 DEF Recorded
<1>10. Passing'
  BY <1>1, <1>2, <1>3, <1>4 DEF SettlerInv, Passing, H
<1> QED BY <1>5, <1>6, <1>7, <1>8, <1>9, <1>10 DEF SettlerInv

LEMMA ExtendedStep ==
  ASSUME SettlerInv, NEW m, Consistent(m), NEW p \in Prices, Extended(m, p)
  PROVE  SettlerInv'
<1> DEFINE b == [Tip EXCEPT !.m = m, !.price = p, !.tx = None, !.ok = FALSE]
<1>1. m \in Manager
  BY DEF Consistent
<1>2. b \in Block /\ b.m = m /\ b.tx = None /\ b.nonce = Tip.nonce
  BY <1>1, SettlerFacts DEF Block
<1>3. /\ chain' = Append(chain, b) /\ mempool' = mempool
      /\ UNCHANGED <<head, gossiped, reorged, pass, diskVars, faults>>
  BY DEF Extended
<1> HIDE DEF b
<1> QED BY <1>2, <1>3, BlockStep

LEMMA OutsideStep ==
  ASSUME SettlerInv, Outside
  PROVE  SettlerInv'
<1>1. Tip \in Block /\ Consistent(Tip.m) /\ Tip.price \in Prices
  BY SettlerFacts
<1>2. ASSUME NEW p \in Prices, Trade(p) PROVE SettlerInv'
  BY <1>1, <1>2, ExtendedStep DEF Trade
<1>3. ASSUME NEW id \in DOMAIN Tip.m.orders, Cancel(id) PROVE SettlerInv'
  <2>1. id \in ActiveIds(Tip.m)
    BY <1>3 DEF Cancel, CanCancel, ActiveIds
  <2>2. "Cancelled" \in {"Settled", "Cancelled"}
    OBVIOUS
  <2>3. Consistent(Ended(Tip.m, id, "Cancelled"))
    BY <1>1, <2>1, <2>2, EndedIsGood
  <2> QED BY <1>1, <1>3, <2>3, ExtendedStep DEF Cancel, Cancelled
<1>4. ASSUME NEW id \in DOMAIN Tip.m.orders, SettledByOther(id) PROVE SettlerInv'
  <2> DEFINE ids == <<id>>
  <2>1. Len(ids) = 1 /\ DOMAIN ids = 1 .. 1 /\ ids[1] = id
    OBVIOUS
  <2>2. CanSettleMany(Tip.m, Tip.price, ids) /\ Extended(SettledMany(Tip.m, ids), Tip.price)
    BY <1>4 DEF SettledByOther
  <2> HIDE DEF ids
  <2>3. IsInjective(ids) /\ \A i \in DOMAIN ids : ids[i] \in ActiveIds(Tip.m)
    BY <2>2 DEF CanSettleMany, IsSettleable, ActiveIds
  <2>4. Consistent(SettledMany(Tip.m, ids))
    BY <1>1, <2>1, <2>3, SettledIsGood
  <2> QED BY <1>1, <2>2, <2>4, ExtendedStep
<1> QED BY <1>2, <1>3, <1>4 DEF Outside

LEMMA EmptyBlockStep ==
  ASSUME SettlerInv, EmptyBlock
  PROVE  SettlerInv'
<1> DEFINE b == [Tip EXCEPT !.tx = None, !.ok = FALSE]
<1>2. b \in Block /\ b.m = Tip.m /\ b.tx = None /\ b.nonce = Tip.nonce
  BY SettlerFacts DEF Block
<1>3. /\ chain' = Append(chain, b) /\ mempool' = mempool
      /\ UNCHANGED <<head, gossiped, reorged, pass, diskVars, faults>>
  BY DEF EmptyBlock
<1>4. Consistent(b.m)
  BY <1>2, SettlerFacts
<1> HIDE DEF b
<1> QED BY <1>2, <1>3, <1>4, BlockStep

\* Only the transaction in the journal can be mined: the others are, for good.
LEMMA MineStep ==
  ASSUME SettlerInv, NEW tx \in mempool, Mine(tx)
  PROVE  SettlerInv'
<1> DEFINE ok == CanSettleMany(Tip.m, Tip.price, tx.ids)
           m == IF ok THEN SettledMany(Tip.m, tx.ids) ELSE Tip.m
           b == [Tip EXCEPT !.m = m, !.nonce = Tip.nonce + 1, !.tx = tx, !.ok = ok]
<1>1. tx \in Sents /\ tx \in Tx /\ tx.ids \in Seq(OrderIds) /\ tx.nonce = Tip.nonce
  BY SettlerFacts DEF SettlerInv, SettlerTypes, Mine
<1>2. tx = journal
  <2>1. \E p \in Providers : head[p] <= Len(chain)
    BY SettlerFacts
  <2>2. ~ (tx.nonce < Tip.nonce)
    BY <1>1, SettlerFacts
  <2> QED BY <1>1, <2>1, <2>2, NonceBehind, SettlerFacts
<1>3. ok \in BOOLEAN
  BY DEF CanSettleMany
<1>4. Consistent(m)
  <2>1. CASE ok
    <3>1. /\ Len(tx.ids) \in Nat /\ DOMAIN tx.ids = 1 .. Len(tx.ids)
      BY <1>1
    <3>2. IsInjective(tx.ids) /\ \A i \in DOMAIN tx.ids : tx.ids[i] \in ActiveIds(Tip.m)
      BY <2>1 DEF CanSettleMany, IsSettleable, ActiveIds
    <3>3. Consistent(Tip.m)
      BY SettlerFacts
    <3>4. Consistent(SettledMany(Tip.m, tx.ids))
      BY <3>1, <3>2, <3>3, SettledIsGood
    <3> QED BY <2>1, <3>4
  <2>2. CASE ~ ok
    <3>1. m = Tip.m
      BY <2>2
    <3> QED BY <3>1, SettlerFacts
  <2> QED BY <2>1, <2>2
<1>5. /\ chain' = Append(chain, b) /\ mempool' \subseteq mempool
      /\ UNCHANGED <<head, gossiped, reorged, pass, diskVars, faults>>
  BY DEF Mine
<1>6. m \in Manager /\ Tip.nonce \in Nat /\ Tip.nonce + 1 \in Nat
  BY <1>4, SettlerFacts DEF Consistent
<1> HIDE DEF m, ok
<1>7. b \in Block /\ b.m = m /\ b.tx = tx /\ b.nonce = Tip.nonce + 1
  BY <1>1, <1>3, <1>6, SettlerFacts DEF Block
<1> HIDE DEF b
<1> QED BY <1>1, <1>2, <1>4, <1>5, <1>7, BlockStep

LEMMA ReorganiseStep ==
  ASSUME SettlerInv, SettlerConditions, NEW d \in 1 .. MaxReorgDepth, Reorganise(d)
  PROVE  SettlerInv'
<1> DEFINE H == Len(chain)
           K == H - d
<1>0. Height = H
  BY DEF Height
<1>1. /\ H \in Nat /\ d \in Nat /\ d >= 1 /\ d < H /\ K \in Nat /\ K >= 1 /\ K < H
      /\ MaxReorgDepth \in Nat /\ CONFIRMATIONS \in Nat /\ d < CONFIRMATIONS
      /\ chain \in Seq(Block)
  BY <1>0, SettlerFacts DEF Reorganise, SettlerConditions
<1>2. /\ chain' = SubSeq(chain, 1, K) /\ reorged' = TRUE /\ ~ reorged
      /\ pass.at \notin {"confirm", "verify", "clear"}
      /\ head' = [p \in Providers |-> IF head[p] > K THEN K ELSE head[p]]
  BY <1>0 DEF Reorganise, SettlerConditions
<1> HIDE DEF H
<1>3. /\ chain' \in Seq(Block) /\ Len(chain') = K
      /\ \A h \in 1 .. K : chain'[h] = chain[h] /\ h \in 1 .. H
  <2> HIDE DEF K
  <2> QED BY <1>1, <1>2 DEF H
<1>4. Sents' = Sents /\ journal' = journal /\ mempool' = mempool
      /\ pass' = pass /\ records' = records /\ sent' = sent /\ faults' = faults
      /\ aged' = aged /\ tornRecords' = tornRecords /\ gossiped' = gossiped
  BY DEF Reorganise, diskVars, Sents
<1>5. ASSUME NEW c, Deep(c) PROVE Deep(c)' /\ c \in 1 .. K
  <2>1. c \in Nat /\ c >= 1 /\ \A p \in Providers : c + CONFIRMATIONS - 1 <= head[p] /\ c <= head[p]
    BY <1>1, <1>2, <1>5 DEF Deep, H
  <2>2. Primary \in Providers /\ head[Primary] \in Nat /\ head[Primary] <= H
    BY SettlerFacts DEF H
  <2>3. c + CONFIRMATIONS - 1 <= H
    BY <1>1, <2>1, <2>2
  <2>4. c <= K
    BY <1>1, <2>1, <2>3
  <2>5. \A p \in Providers : c <= head'[p]
    BY <1>2, <2>1, <2>4
  <2> QED BY <1>1, <1>2, <1>3, <2>1, <2>4, <2>5 DEF Deep
<1> HIDE DEF K
<1>6. SettlerTypes'
  <2>1. head' \in [Providers -> 1 .. Len(chain')]
    <3>1. \A p \in Providers : (IF head[p] > K THEN K ELSE head[p]) \in 1 .. K
      BY <1>1, SettlerFacts
    <3> QED BY <1>2, <1>3, <3>1
  <2>2. \A h \in 1 .. Len(chain') : Consistent(chain'[h].m)
    BY <1>3, SettlerFacts DEF H
  <2> QED BY <1>1, <1>2, <1>3, <1>4, <2>1, <2>2 DEF SettlerInv, SettlerTypes
<1>7. NoncesCount'
  BY <1>3, <1>4 DEF SettlerInv, NoncesCount, H
<1>8. NoncesRise'
  BY <1>4 DEF SettlerInv, NoncesRise
<1>9. Journaled'
  <2>1. ASSUME NEW tx \in Sents, tx # journal
        PROVE  \E b \in 1 .. K : Deep(b)' /\ chain'[b].tx = tx
    <3>1. PICK b \in 1 .. Len(chain) : Deep(b) /\ chain[b].tx = tx
      BY <2>1 DEF SettlerInv, Journaled
    <3> QED BY <1>3, <1>5, <3>1
  <2> QED BY <1>3, <1>4, <2>1 DEF Journaled
<1>10. Recorded'
  <2>1. \A r \in records : Deep(r.block)' /\ chain'[r.block].tx = r.tx /\ chain'[r.block].ok
    BY <1>3, <1>5 DEF SettlerInv, Recorded
  <2>2. ASSUME NEW h \in 1 .. K, chain'[h].tx # None, chain'[h].ok
        PROVE  journal = chain'[h].tx \/ [tx |-> chain'[h].tx, block |-> h] \in records
    BY <1>3, <2>2 DEF SettlerInv, Recorded, H
  <2> QED BY <1>3, <1>4, <2>1, <2>2 DEF Recorded
<1>11. Passing'
  BY <1>2, <1>4 DEF SettlerInv, Passing
<1> QED BY <1>6, <1>7, <1>8, <1>9, <1>10, <1>11 DEF SettlerInv
--------------------------------------------------------------------------------
(* Steps that leave the chain and the journal alone *)

LEMMA DeepStays ==
  ASSUME SettlerInv, chain' = chain, reorged' = reorged,
         head' \in [Providers -> 1 .. Len(chain)], \A p \in Providers : head[p] <= head'[p],
         NEW b, Deep(b)
  PROVE  Deep(b)'
<1>1. b \in 1 .. Len(chain) /\ b \in Nat /\ CONFIRMATIONS \in Nat
  BY SettlerFacts DEF Deep
<1>2. ASSUME NEW p \in Providers
      PROVE  b <= head'[p] /\ (~ reorged => b + CONFIRMATIONS - 1 <= head'[p])
  <2>1. head[p] \in Nat /\ head'[p] \in Nat /\ head[p] <= head'[p] /\ b <= head[p]
        /\ (~ reorged => b + CONFIRMATIONS - 1 <= head[p])
    BY SettlerFacts DEF Deep
  <2> QED BY <1>1, <2>1
<1> QED BY <1>1, <1>2 DEF Deep

LEMMA QuietStep ==
  ASSUME SettlerInv, chain' = chain, reorged' = reorged, journal' = journal,
         records' = records, sent' = sent,
         tornRecords' \subseteq Tx, mempool' \subseteq gossiped', gossiped' \subseteq Sents,
         aged' \in BOOLEAN, faults' \in Nat,
         head' \in [Providers -> 1 .. Len(chain)], \A p \in Providers : head[p] <= head'[p],
         pass' \in PassType, Passing'
  PROVE  SettlerInv'
<1>1. Sents' = Sents
  BY DEF Sents
<1>2. \A b : Deep(b) => Deep(b)'
  BY DeepStays
<1>3. SettlerTypes'
  BY <1>1 DEF SettlerInv, SettlerTypes
<1>4. NoncesCount' /\ NoncesRise'
  BY <1>1 DEF SettlerInv, NoncesCount, NoncesRise
<1>5. Journaled' /\ Recorded'
  BY <1>1, <1>2 DEF SettlerInv, Journaled, Recorded
<1> QED BY <1>3, <1>4, <1>5 DEF SettlerInv

\* A pass goes on with what it knows when something else happens.
LEMMA PassingStays ==
  ASSUME SettlerInv, chain' = chain, reorged' = reorged, journal' = journal,
         records' = records, sent' = sent, pass' = pass,
         head' \in [Providers -> 1 .. Len(chain)], \A p \in Providers : head[p] <= head'[p]
  PROVE  pass' \in PassType /\ Passing'
<1>1. Sents' = Sents
  BY DEF Sents
<1>2. \A b : Deep(b) => Deep(b)'
  BY DeepStays
<1> QED BY <1>1, <1>2, SettlerFacts DEF SettlerInv, Passing

LEMMA IdlePasses ==
  ASSUME pass' = Idle
  PROVE  pass' \in PassType /\ Passing'
<1>1. Idle \in PassType /\ Idle.at = "idle"
  BY DEF Idle, PassType, Steps
<1> QED BY <1>1 DEF Passing

LEMMA HeadsStay ==
  ASSUME SettlerInv, head' = head
  PROVE  head' \in [Providers -> 1 .. Len(chain)] /\ \A p \in Providers : head[p] <= head'[p]
BY SettlerFacts

LEMMA NetworkStep ==
  ASSUME SettlerInv,
         \/ \E tx \in mempool : Forget(tx)
         \/ \E tx \in gossiped : Resurface(tx)
         \/ \E p \in Providers : CatchUp(p)
         \/ Age
  PROVE  SettlerInv'
<1>0. /\ mempool \subseteq gossiped /\ gossiped \subseteq Sents /\ tornRecords \subseteq Tx
      /\ aged \in BOOLEAN /\ faults \in Nat
  BY DEF SettlerInv, SettlerTypes
<1>1. CASE \E tx \in mempool : Forget(tx)
  <2>1. PICK tx \in mempool : Forget(tx)
    BY <1>1
  <2>2. /\ mempool' \subseteq gossiped' /\ gossiped' \subseteq Sents /\ faults' \in Nat
        /\ chain' = chain /\ head' = head /\ reorged' = reorged /\ pass' = pass
        /\ journal' = journal /\ aged' = aged /\ records' = records
        /\ tornRecords' = tornRecords /\ sent' = sent
    BY <1>0, <2>1 DEF Forget, Fault, diskVars
  <2> QED BY <1>0, <2>2, HeadsStay, PassingStays, QuietStep
<1>2. CASE \E tx \in gossiped : Resurface(tx)
  <2>1. PICK tx \in gossiped : Resurface(tx)
    BY <1>2
  <2>2. /\ mempool' \subseteq gossiped' /\ gossiped' \subseteq Sents /\ faults' \in Nat
        /\ chain' = chain /\ head' = head /\ reorged' = reorged /\ pass' = pass
        /\ journal' = journal /\ aged' = aged /\ records' = records
        /\ tornRecords' = tornRecords /\ sent' = sent
    BY <1>0, <2>1 DEF Resurface, diskVars
  <2> QED BY <1>0, <2>2, HeadsStay, PassingStays, QuietStep
<1>3. CASE \E p \in Providers : CatchUp(p)
  <2>1. PICK p \in Providers : CatchUp(p)
    BY <1>3
  <2>2. /\ mempool' \subseteq gossiped' /\ gossiped' \subseteq Sents /\ faults' \in Nat
        /\ chain' = chain /\ reorged' = reorged /\ pass' = pass
        /\ journal' = journal /\ aged' = aged /\ records' = records
        /\ tornRecords' = tornRecords /\ sent' = sent
        /\ head' = [head EXCEPT ![p] = Len(chain)]
    BY <1>0, <2>1 DEF CatchUp, diskVars, Height
  <2>3. head' \in [Providers -> 1 .. Len(chain)] /\ \A q \in Providers : head[q] <= head'[q]
    BY <2>2, SettlerFacts
  <2> QED BY <1>0, <2>2, <2>3, PassingStays, QuietStep
<1>4. CASE Age
  <2>2. /\ mempool' \subseteq gossiped' /\ gossiped' \subseteq Sents /\ faults' \in Nat
        /\ chain' = chain /\ head' = head /\ reorged' = reorged /\ pass' = pass
        /\ journal' = journal /\ aged' \in BOOLEAN /\ records' = records
        /\ tornRecords' = tornRecords /\ sent' = sent
    BY <1>0, <1>4 DEF Age, chainVars
  <2> QED BY <1>0, <2>2, HeadsStay, PassingStays, QuietStep
<1> QED BY <1>1, <1>2, <1>3, <1>4

\* A pass that ends, whatever it left at the nodes or unreadable in the records.
LEMMA EndStep ==
  ASSUME SettlerInv, Abort \/ LateBroadcast \/ Broadcast \/ TornRecord
  PROVE  SettlerInv'
<1>0. /\ mempool \subseteq gossiped /\ gossiped \subseteq Sents /\ tornRecords \subseteq Tx
      /\ aged \in BOOLEAN /\ faults \in Nat /\ Sents \subseteq Tx
  BY SettlerFacts DEF SettlerInv, SettlerTypes
<1>1. pass.at \in {"broadcast", "resend", "verify"} => journal \in Sents
  BY DEF SettlerInv, Passing, Steps
<1>2. /\ mempool' \subseteq gossiped' /\ gossiped' \subseteq Sents /\ faults' \in Nat
      /\ chain' = chain /\ head' = head /\ reorged' = reorged /\ pass' = Idle
      /\ journal' = journal /\ aged' = aged /\ records' = records
      /\ tornRecords' \subseteq Tx /\ sent' = sent
  <2>1. CASE Abort
    BY <1>0, <2>1 DEF Abort, Fault, chainVars, diskVars
  <2>2. CASE LateBroadcast
    BY <1>0, <1>1, <2>2 DEF LateBroadcast, Fault, diskVars
  <2>3. CASE Broadcast
    BY <1>0, <1>1, <2>3 DEF Broadcast, diskVars
  <2>4. CASE TornRecord
    BY <1>0, <1>1, <2>4 DEF TornRecord, Fault, chainVars
  <2> QED BY <2>1, <2>2, <2>3, <2>4
<1> QED BY <1>0, <1>2, HeadsStay, IdlePasses, QuietStep

--------------------------------------------------------------------------------
(* Steps of a pass that write nothing *)

LEMMA GoesStep ==
  ASSUME SettlerInv, Goes(pass'), UNCHANGED diskVars, pass' \in PassType, Passing'
  PROVE  SettlerInv'
<1>0. /\ mempool \subseteq gossiped /\ gossiped \subseteq Sents /\ tornRecords \subseteq Tx
      /\ aged \in BOOLEAN /\ faults \in Nat
  BY DEF SettlerInv, SettlerTypes
<1>1. /\ mempool' = mempool /\ gossiped' = gossiped /\ faults' = faults
      /\ chain' = chain /\ head' = head /\ reorged' = reorged
      /\ journal' = journal /\ aged' = aged /\ records' = records
      /\ tornRecords' = tornRecords /\ sent' = sent
  BY DEF Goes, chainVars, diskVars
<1> QED BY <1>0, <1>1, HeadsStay, QuietStep
LEMMA StartPassStep ==
  ASSUME SettlerInv, StartPass
  PROVE  SettlerInv'
<1> DEFINE ids == Eligible(Common, Common.m.active)
           next == [Idle EXCEPT !.at = IF journal # None THEN "receipt" ELSE "check",
                                !.ids = IF journal # None THEN <<>> ELSE ids]
<1>1. ids \in Seq(OrderIds)
  <2>1. Common.m.active \in Seq(OrderIds)
    BY CommonFacts, GoodFacts
  <2> QED BY <2>1, EligibleAreIds
<1>2. pass' = next /\ Goes(pass') /\ UNCHANGED diskVars /\ journal # Torn
  BY DEF StartPass, Goes
<1>3. journal \in Sents \cup {None, Torn} /\ journal' = journal /\ Sents' = Sents
  BY <1>2 DEF SettlerInv, SettlerTypes, diskVars, Sents
<1> HIDE DEF ids
<1>4. /\ next \in PassType /\ next.at = IF journal # None THEN "receipt" ELSE "check"
  <2>1. <<>> \in Seq(OrderIds)
    OBVIOUS
  <2> QED BY <1>1, <2>1 DEF Idle, PassType, Steps
<1> HIDE DEF next
<1>5. Passing'
  BY <1>2, <1>3, <1>4 DEF Passing
<1> QED BY <1>2, <1>4, <1>5, GoesStep

LEMMA CheckStep ==
  ASSUME SettlerInv, Check
  PROVE  SettlerInv'
<1> DEFINE n == Min({Len(pass.ids), MaxSettlementBatch})
           batch == SubSeq(pass.ids, 1, n)
           eligible == Eligible(Common, batch)
           next == [Idle EXCEPT !.at = "nonce", !.ids = eligible]
<1>1. eligible \in Seq(OrderIds)
  <2>1. pass.ids \in Seq(OrderIds) /\ Len(pass.ids) \in Nat /\ MaxSettlementBatch \in Nat
    BY SettlerFacts, SettlerAssumption, RangeAssumption DEF PassType
  <2>2. n \in Nat /\ n <= Len(pass.ids)
    <3> DEFINE S == {Len(pass.ids), MaxSettlementBatch}
    <3>1. S \in SUBSET Nat /\ S # {} /\ Len(pass.ids) \in S
      BY <2>1
    <3> HIDE DEF S
    <3>2. Min(S) \in S /\ \A x \in S : Min(S) <= x
      BY <3>1, LeastOfNaturals
    <3>3. Min(S) \in Nat /\ Min(S) <= Len(pass.ids)
      BY <3>1, <3>2
    <3> QED BY <3>3 DEF S
  <2> HIDE DEF n
  <2>3. batch \in Seq(OrderIds)
    BY <2>1, <2>2
  <2> QED BY <2>3, EligibleAreIds
<1> HIDE DEF eligible
<1>2. /\ pass.at = "check" /\ (pass' = Idle \/ pass' = next)
      /\ Goes(pass') /\ UNCHANGED diskVars
  BY DEF Check, Goes, eligible
<1>3. journal = None /\ journal' = journal /\ Sents' = Sents
  BY <1>2 DEF SettlerInv, Passing, diskVars, Sents
<1>4. next \in PassType /\ next.at = "nonce"
  BY <1>1 DEF Idle, PassType, Steps
<1> HIDE DEF next
<1>5. pass' \in PassType /\ Passing'
  <2>1. CASE pass' = Idle
    BY <2>1, IdlePasses
  <2>2. CASE pass' = next
    BY <1>3, <1>4, <2>2 DEF Passing
  <2> QED BY <1>2, <2>1, <2>2
<1> QED BY <1>2, <1>5, GoesStep

\* The nonce chosen is above every nonce signed before: the journal is empty, so those are
\* mined where the primary sees them.
LEMMA ChooseNonceStep ==
  ASSUME SettlerInv, ChooseNonce
  PROVE  SettlerInv'
<1> DEFINE n == View(Primary).nonce
           next == [pass EXCEPT !.at = "save", !.nonce = n]
<1>1. /\ pass.at = "nonce" /\ (pass' = Idle \/ pass' = next)
      /\ Goes(pass') /\ UNCHANGED diskVars
  BY DEF ChooseNonce, Goes
<1>2. journal = None /\ journal' = journal /\ Sents' = Sents
  BY <1>1 DEF SettlerInv, Passing, diskVars, Sents
<1>3. n \in Nat /\ \A tx \in Sents : tx.nonce < n
  <2>1. head[Primary] \in 1 .. Len(chain) /\ head[Primary] <= head[Primary]
    BY SettlerFacts
  <2>2. \A tx \in Sents : tx # journal
    BY <1>2, SettlerFacts
  <2>3. \A tx \in Sents : tx.nonce < chain[head[Primary]].nonce
    BY <2>1, <2>2, NonceBehind, SettlerFacts
  <2> QED BY <2>1, <2>3, SettlerFacts DEF View
<1> HIDE DEF n
<1>4. next \in PassType /\ next.at = "save" /\ next.nonce = n
  <2>1. pass \in PassType
    BY SettlerFacts
  <2> QED BY <1>3, <2>1 DEF PassType, Steps
<1> HIDE DEF next
<1>5. pass' \in PassType /\ Passing'
  <2>1. CASE pass' = Idle
    BY <2>1, IdlePasses
  <2>2. CASE pass' = next
    BY <1>2, <1>3, <1>4, <2>2 DEF Passing
  <2> QED BY <1>1, <2>1, <2>2
<1> QED BY <1>1, <1>5, GoesStep

LEMMA ReadReceiptStep ==
  ASSUME SettlerInv, ReadReceipt
  PROVE  SettlerInv'
<1> DEFINE b == BlockOf(journal)
           confirming == [Idle EXCEPT !.at = "confirm", !.block = b, !.ok = chain[b].ok]
           missing == [Idle EXCEPT !.at = "absent"]
<1>1. /\ pass.at = "receipt" /\ Goes(pass') /\ UNCHANGED diskVars
      /\ \/ pass' = confirming /\ ReceiptAgreed(journal)
         \/ pass' = missing
         \/ pass' = Idle
  BY DEF ReadReceipt, Goes
<1>2. journal \in Sents /\ journal' = journal /\ Sents' = Sents /\ chain' = chain
  BY <1>1 DEF SettlerInv, Passing, Steps, diskVars, Sents, Goes, chainVars
<1>3. CASE pass' = confirming /\ ReceiptAgreed(journal)
  <2>1. PICK h \in 1 .. Len(chain) : chain[h].tx = journal
    <3>1. PICK h \in 1 .. head[Primary] : chain[h].tx = journal
      BY <1>3, SettlerFacts DEF ReceiptAgreed, MinedAt
    <3> QED BY <3>1, SettlerFacts
  <2>2. b \in 1 .. Len(chain) /\ chain[b].tx = journal /\ b \in Nat
    BY <2>1, SettlerFacts DEF BlockOf
  <2> HIDE DEF b
  <2>3. confirming \in PassType /\ confirming.at = "confirm" /\ confirming.block = b
        /\ confirming.ok = chain[b].ok
    <3>1. <<>> \in Seq(OrderIds) /\ chain[b].ok \in BOOLEAN
      BY <2>2, SettlerFacts
    <3> QED BY <2>2, <3>1 DEF Idle, PassType, Steps
  <2> HIDE DEF confirming
  <2>4. Passing'
    BY <1>2, <1>3, <2>2, <2>3 DEF Passing
  <2> QED BY <1>1, <1>3, <2>3, <2>4, GoesStep
<1>4. CASE pass' = missing
  <2>1. missing \in PassType /\ missing.at = "absent"
    <3>1. <<>> \in Seq(OrderIds)
      OBVIOUS
    <3> QED BY <3>1 DEF Idle, PassType, Steps
  <2> HIDE DEF missing
  <2>2. Passing'
    BY <1>2, <1>4, <2>1 DEF Passing
  <2> QED BY <1>1, <1>4, <2>1, <2>2, GoesStep
<1>5. CASE pass' = Idle
  BY <1>1, <1>5, IdlePasses, GoesStep
<1> QED BY <1>1, <1>3, <1>4, <1>5

\* A confirmed receipt is too deep for a reorganisation to come.
LEMMA ConfirmStep ==
  ASSUME SettlerInv, Confirm
  PROVE  SettlerInv'
<1> DEFINE next == [pass EXCEPT !.at = "verify"]
<1>1. /\ pass.at = "confirm" /\ Goes(pass') /\ UNCHANGED diskVars
      /\ (pass' = next /\ Confirmed(pass.block)) \/ pass' = Idle
  BY DEF Confirm, Goes
<1>2. /\ journal \in Sents /\ journal' = journal /\ Sents' = Sents
      /\ chain' = chain /\ head' = head /\ reorged' = reorged
      /\ pass.block \in 1 .. Len(chain) /\ chain[pass.block].tx = journal
      /\ chain[pass.block].ok = pass.ok
  BY <1>1 DEF SettlerInv, Passing, Steps, diskVars, Sents, Goes, chainVars
<1>3. next \in PassType /\ next.at = "verify" /\ next.block = pass.block /\ next.ok = pass.ok
  <2>1. pass \in PassType
    BY SettlerFacts
  <2> QED BY <2>1 DEF PassType, Steps
<1> HIDE DEF next
<1>4. CASE pass' = next /\ Confirmed(pass.block)
  <2>1. CommonHeight \in Nat /\ pass.block \in Nat /\ CONFIRMATIONS \in Nat \ {0}
        /\ CommonHeight >= pass.block + CONFIRMATIONS - 1
        /\ \A p \in Providers : CommonHeight <= head[p] /\ head[p] \in Nat
    BY <1>2, <1>4, CommonFacts, SettlerFacts DEF Confirmed
  <2>2. Deep(pass.block)
    BY <1>2, <2>1 DEF Deep
  <2>3. Deep(pass.block)'
    BY <1>2, <1>3, <1>4, <2>2 DEF Deep
  <2>4. Passing'
    BY <1>2, <1>3, <1>4, <2>3 DEF Passing
  <2> QED BY <1>1, <1>3, <1>4, <2>4, GoesStep
<1>5. CASE pass' = Idle
  BY <1>1, <1>5, IdlePasses, GoesStep
<1> QED BY <1>1, <1>4, <1>5

LEMMA AcceptRevertStep ==
  ASSUME SettlerInv, AcceptRevert
  PROVE  SettlerInv'
<1> DEFINE next == [pass EXCEPT !.at = "clear"]
<1>1. /\ pass.at = "verify" /\ ~ pass.ok /\ Goes(pass') /\ UNCHANGED diskVars
      /\ pass' = next \/ pass' = Idle
  BY DEF AcceptRevert, Goes
<1>2. /\ journal \in Sents /\ journal' = journal /\ Sents' = Sents
      /\ chain' = chain /\ head' = head /\ reorged' = reorged
      /\ pass.block \in 1 .. Len(chain) /\ chain[pass.block].tx = journal
      /\ chain[pass.block].ok = pass.ok /\ Deep(pass.block)
  BY <1>1 DEF SettlerInv, Passing, Steps, diskVars, Sents, Goes, chainVars
<1>3. next \in PassType /\ next.at = "clear" /\ next.block = pass.block /\ next.ok = pass.ok
  <2>1. pass \in PassType
    BY SettlerFacts
  <2> QED BY <2>1 DEF PassType, Steps
<1> HIDE DEF next
<1>4. CASE pass' = next
  <2>3. Deep(pass.block)'
    BY <1>2, <1>3, <1>4 DEF Deep
  <2>4. Passing'
    BY <1>1, <1>2, <1>3, <1>4, <2>3 DEF Passing
  <2> QED BY <1>1, <1>3, <1>4, <2>4, GoesStep
<1>5. CASE pass' = Idle
  BY <1>1, <1>5, IdlePasses, GoesStep
<1> QED BY <1>1, <1>4, <1>5

\* A transaction that vanished stays in the journal.
LEMMA CheckAbsentStep ==
  ASSUME SettlerInv, CheckAbsent
  PROVE  SettlerInv'
<1> DEFINE next == [Idle EXCEPT !.at = "resend"]
<1>1. /\ pass.at = "absent" /\ Goes(pass') /\ UNCHANGED diskVars
      /\ pass' = next \/ pass' = Idle
  BY DEF CheckAbsent, Goes, LineageKept, diskVars
<1>2. journal \in Sents /\ journal' = journal /\ Sents' = Sents
  BY <1>1 DEF SettlerInv, Passing, Steps, diskVars, Sents
<1>3. next \in PassType /\ next.at = "resend"
  <2>1. <<>> \in Seq(OrderIds)
    OBVIOUS
  <2> QED BY <2>1 DEF Idle, PassType, Steps
<1> HIDE DEF next
<1>4. CASE pass' = next
  <2>1. Passing'
    BY <1>2, <1>3, <1>4 DEF Passing
  <2> QED BY <1>1, <1>3, <1>4, <2>1, GoesStep
<1>5. CASE pass' = Idle
  BY <1>1, <1>5, IdlePasses, GoesStep
<1> QED BY <1>1, <1>4, <1>5
--------------------------------------------------------------------------------
(* Steps that write the journal or a record *)

\* Before a transaction is signed every earlier one is mined for good.
LEMMA NothingPending ==
  ASSUME SettlerInv, journal = None
  PROVE  /\ \A tx \in Sents : \E b \in 1 .. Len(chain) : Deep(b) /\ chain[b].tx = tx
         /\ \A h \in 1 .. Len(chain) : chain[h].tx # None /\ chain[h].ok =>
               [tx |-> chain[h].tx, block |-> h] \in records
<1>1. None \notin Sents
  BY SettlerFacts
<1> QED BY <1>1 DEF SettlerInv, Journaled, Recorded

LEMMA SaveJournalStep ==
  ASSUME SettlerInv, SaveJournal
  PROVE  SettlerInv'
<1> DEFINE n == Len(sent)
           tx == [id |-> n + 1, nonce |-> pass.nonce, ids |-> pass.ids]
           next == [Idle EXCEPT !.at = "broadcast"]
<1>1. /\ pass.at = "save" /\ journal = None /\ n < MaxTxs
      /\ journal' = tx /\ sent' = Append(sent, tx) /\ aged' = FALSE
      /\ pass' = next /\ records' = records /\ tornRecords' = tornRecords
      /\ chain' = chain /\ head' = head /\ gossiped' = gossiped /\ mempool' = mempool
      /\ reorged' = reorged /\ faults' = faults
  BY DEF SaveJournal, Goes, chainVars
<1>2. tx \in Tx /\ tx.nonce = pass.nonce
  <2>1. n \in Nat /\ n + 1 \in 1 .. MaxTxs
    BY <1>1, SettlerAssumption DEF SettlerInv, SettlerTypes
  <2>2. pass.nonce \in Nat /\ pass.ids \in Seq(OrderIds)
    BY SettlerFacts DEF PassType
  <2> QED BY <2>1, <2>2 DEF Tx
<1>3. sent \in Seq(Tx) /\ n \in Nat /\ DOMAIN sent = 1 .. n
  BY DEF SettlerInv, SettlerTypes
<1> HIDE DEF tx
<1>4. /\ sent' \in Seq(Tx) /\ DOMAIN sent' = 1 .. n + 1 /\ sent'[n + 1] = tx
      /\ \A i \in 1 .. n : sent'[i] = sent[i]
  BY <1>1, <1>2, <1>3, AppendFacts
<1> HIDE DEF n
<1>5. 1 .. n + 1 = 1 .. n \cup {n + 1}
  BY <1>3
<1>6. Sents' = Sents \cup {tx}
  BY <1>3, <1>4, <1>5 DEF Sents, ToSet
<1>7. next \in PassType /\ next.at = "broadcast"
  <2>1. <<>> \in Seq(OrderIds)
    OBVIOUS
  <2> QED BY <2>1 DEF Idle, PassType, Steps
<1> HIDE DEF next
<1>8. \A b : Deep(b)' <=> Deep(b)
  BY <1>1 DEF Deep
<1>9. SettlerTypes'
  BY <1>1, <1>2, <1>4, <1>6, <1>7 DEF SettlerInv, SettlerTypes
<1>10. NoncesCount'
  BY <1>1, <1>6 DEF SettlerInv, NoncesCount
<1>11. NoncesRise'
  <2>1. ASSUME NEW i \in 1 .. n + 1, NEW j \in 1 .. n + 1, i < j
        PROVE  sent'[i].nonce < sent'[j].nonce
    <3>1. i \in 1 .. n
      BY <1>3, <2>1
    <3>2. CASE j \in 1 .. n
      BY <1>3, <1>4, <2>1, <3>1, <3>2 DEF SettlerInv, NoncesRise
    <3>3. CASE j = n + 1
      <4>1. sent[i] \in Sents
        BY <1>3, <3>1 DEF Sents, ToSet
      <4>2. sent[i].nonce < pass.nonce
        BY <1>1, <4>1 DEF SettlerInv, Passing
      <4> QED BY <1>2, <1>4, <3>1, <3>3, <4>2
    <3> QED BY <1>5, <3>2, <3>3
  <2> QED BY <1>4, <2>1 DEF NoncesRise
<1>12. Journaled'
  BY <1>1, <1>6, <1>8, NothingPending DEF Journaled
<1>13. Recorded'
  <2>1. \A r \in records' : Deep(r.block)' /\ chain'[r.block].tx = r.tx /\ chain'[r.block].ok
    BY <1>1, <1>8 DEF SettlerInv, Recorded
  <2> QED BY <1>1, <2>1, NothingPending DEF Recorded
<1>14. Passing'
  BY <1>1, <1>6, <1>7 DEF Passing
<1> QED BY <1>9, <1>10, <1>11, <1>12, <1>13, <1>14 DEF SettlerInv

LEMMA TornSaveStep ==
  ASSUME SettlerInv, TornSave
  PROVE  SettlerInv'
<1>1. /\ journal = None /\ journal' = Torn /\ pass' = Idle /\ sent' = sent
      /\ records' = records /\ tornRecords' = tornRecords /\ aged' = aged
      /\ chain' = chain /\ head' = head /\ gossiped' = gossiped /\ mempool' = mempool
      /\ reorged' = reorged /\ faults' = faults + 1
  BY DEF TornSave, Fault, chainVars
<1>2. Sents' = Sents
  BY <1>1 DEF Sents
<1>3. \A b : Deep(b)' <=> Deep(b)
  BY <1>1 DEF Deep
<1>4. pass' \in PassType /\ Passing'
  BY <1>1, IdlePasses
<1>5. SettlerTypes'
  BY <1>1, <1>2, <1>4 DEF SettlerInv, SettlerTypes
<1>6. NoncesCount' /\ NoncesRise'
  BY <1>1, <1>2 DEF SettlerInv, NoncesCount, NoncesRise
<1>7. Journaled'
  BY <1>1, <1>2, <1>3, NothingPending DEF Journaled
<1>8. Recorded'
  <2>1. \A r \in records' : Deep(r.block)' /\ chain'[r.block].tx = r.tx /\ chain'[r.block].ok
    BY <1>1, <1>3 DEF SettlerInv, Recorded
  <2> QED BY <1>1, <2>1, NothingPending DEF Recorded
<1> QED BY <1>4, <1>5, <1>6, <1>7, <1>8 DEF SettlerInv

\* The receipt read again is the one that was confirmed: a transaction is mined once.
LEMMA RecordSettlementStep ==
  ASSUME SettlerInv, RecordSettlement
  PROVE  SettlerInv'
<1> DEFINE b == BlockOf(journal)
           r == [tx |-> journal, block |-> b]
           next == [pass EXCEPT !.at = "clear"]
<1>1. /\ pass.at = "verify" /\ pass.ok /\ Goes(pass')
      /\ journal' = journal /\ aged' = aged /\ tornRecords' = tornRecords /\ sent' = sent
      /\ \/ chain[b].ok /\ records' = records \cup {r} /\ pass' = next
         \/ records' = records /\ pass' = Idle
  BY DEF RecordSettlement, Goes
<1>2. /\ chain' = chain /\ head' = head /\ gossiped' = gossiped /\ mempool' = mempool
      /\ reorged' = reorged /\ faults' = faults
  BY <1>1 DEF Goes, chainVars
<1>3. CASE records' = records /\ pass' = Idle
  BY <1>1, <1>2, <1>3, IdlePasses, GoesStep DEF diskVars
<1>4. CASE chain[b].ok /\ records' = records \cup {r} /\ pass' = next
  <2>1. /\ journal \in Sents /\ pass.block \in 1 .. Len(chain)
        /\ chain[pass.block].tx = journal /\ chain[pass.block].ok = pass.ok
        /\ Deep(pass.block)
    BY <1>1 DEF SettlerInv, Passing, Steps
  <2>2. b = pass.block
    <3>1. b \in 1 .. Len(chain) /\ chain[b].tx = journal
      BY <2>1, SettlerFacts DEF BlockOf
    <3>2. journal # None
      BY <2>1, SettlerFacts
    <3> HIDE DEF b
    <3> QED BY <2>1, <3>1, <3>2, MinedOnce
  <2> HIDE DEF b
  <2>3. r \in [tx : Tx, block : Nat] /\ r.tx = journal /\ r.block = pass.block
    BY <2>1, <2>2, SettlerFacts
  <2>4. next \in PassType /\ next.at = "clear" /\ next.block = pass.block /\ next.ok = pass.ok
    <3>1. pass \in PassType
      BY SettlerFacts
    <3> QED BY <3>1 DEF PassType, Steps
  <2>0. r = [tx |-> journal, block |-> pass.block]
    BY <2>2
  <2> HIDE DEF r, next
  <2>5. Sents' = Sents /\ \A c : Deep(c)' <=> Deep(c)
    BY <1>1, <1>2 DEF Sents, Deep
  <2>6. SettlerTypes'
    BY <1>1, <1>2, <1>4, <2>3, <2>4, <2>5 DEF SettlerInv, SettlerTypes
  <2>7. NoncesCount' /\ NoncesRise'
    BY <1>1, <1>2, <2>5 DEF SettlerInv, NoncesCount, NoncesRise
  <2>8. Journaled'
    BY <1>1, <1>2, <2>5 DEF SettlerInv, Journaled
  <2>9. Recorded'
    <3>1. ASSUME NEW q \in records'
          PROVE  Deep(q.block)' /\ chain'[q.block].tx = q.tx /\ chain'[q.block].ok
      <4>1. CASE q \in records
        BY <1>2, <2>5, <4>1 DEF SettlerInv, Recorded
      <4>2. CASE q = r
        BY <1>1, <1>2, <2>1, <2>3, <2>5, <4>2
      <4> QED BY <1>4, <4>1, <4>2
    <3>2. \A h \in 1 .. Len(chain') : chain'[h].tx # None /\ chain'[h].ok =>
             journal' = chain'[h].tx \/ [tx |-> chain'[h].tx, block |-> h] \in records'
      BY <1>1, <1>2, <1>4 DEF SettlerInv, Recorded
    <3> QED BY <3>1, <3>2 DEF Recorded
  <2>10. Passing'
    <3>1. Deep(pass.block)'
      BY <1>4, <2>1, <2>4, <2>5
    <3> QED BY <1>1, <1>2, <1>4, <2>0, <2>1, <2>4, <2>5, <3>1 DEF Passing
  <2> QED BY <2>6, <2>7, <2>8, <2>9, <2>10 DEF SettlerInv
<1> QED BY <1>1, <1>3, <1>4

\* What is cleared is mined for good, and on record if it took effect.
LEMMA ClearStep ==
  ASSUME SettlerInv, Clear
  PROVE  SettlerInv'
<1>1. /\ pass.at = "clear" /\ journal' = None /\ aged' = FALSE /\ pass' = Idle
      /\ sent' = sent /\ records' = records /\ tornRecords' = tornRecords
      /\ chain' = chain /\ head' = head /\ gossiped' = gossiped /\ mempool' = mempool
      /\ reorged' = reorged /\ faults' = faults
  BY DEF Clear, Cleared, chainVars
<1>2. /\ journal \in Sents /\ pass.block \in 1 .. Len(chain) /\ Deep(pass.block)
      /\ chain[pass.block].tx = journal /\ chain[pass.block].ok = pass.ok
      /\ pass.ok => [tx |-> journal, block |-> pass.block] \in records
  BY <1>1 DEF SettlerInv, Passing, Steps
<1>3. Sents' = Sents /\ \A c : Deep(c)' <=> Deep(c)
  BY <1>1 DEF Sents, Deep
<1>4. pass' \in PassType /\ Passing'
  BY <1>1, IdlePasses
<1>5. SettlerTypes'
  BY <1>1, <1>3, <1>4 DEF SettlerInv, SettlerTypes
<1>6. NoncesCount' /\ NoncesRise'
  BY <1>1, <1>3 DEF SettlerInv, NoncesCount, NoncesRise
<1>7. Journaled'
  BY <1>1, <1>2, <1>3 DEF SettlerInv, Journaled
<1>8. Recorded'
  <2>1. \A r \in records' : Deep(r.block)' /\ chain'[r.block].tx = r.tx /\ chain'[r.block].ok
    BY <1>1, <1>3 DEF SettlerInv, Recorded
  <2>2. ASSUME NEW h \in 1 .. Len(chain), chain[h].tx # None, chain[h].ok
        PROVE  [tx |-> chain[h].tx, block |-> h] \in records
    <3>1. CASE journal = chain[h].tx
      <4>1. h = pass.block
        BY <1>2, <2>2, <3>1, MinedOnce
      <4> QED BY <1>2, <2>2, <4>1
    <3>2. CASE journal # chain[h].tx
      BY <2>2, <3>2 DEF SettlerInv, Recorded
    <3> QED BY <3>1, <3>2
  <2> QED BY <1>1, <2>1, <2>2 DEF Recorded
<1> QED BY <1>4, <1>5, <1>6, <1>7, <1>8 DEF SettlerInv

--------------------------------------------------------------------------------
(* The invariant of the settler *)

LEMMA SettlerStarts == Init => SettlerInv
<1> SUFFICES ASSUME Init PROVE SettlerInv
  OBVIOUS
<1> DEFINE b == [m |-> InitialManager, price |-> InitialPrice, nonce |-> 0, tx |-> None,
                 ok |-> FALSE]
<1>1. b \in Block /\ Consistent(b.m) /\ b.tx = None /\ b.nonce = 0 /\ ~ b.ok
  BY SettlerAssumption DEF Block, Consistent
<1>2. chain = <<b>>
  BY DEF Init
<1> HIDE DEF b
<1>3. chain \in Seq(Block) /\ Len(chain) = 1 /\ chain[1] = b /\ 1 .. Len(chain) = {1}
  BY <1>1, <1>2
<1>4. Sents = {} /\ sent \in Seq(Tx) /\ DOMAIN sent = {}
  BY DEF Init, Sents, ToSet
<1>5. pass \in PassType /\ pass.at = "idle"
  <2>1. <<>> \in Seq(OrderIds)
    OBVIOUS
  <2> QED BY <2>1 DEF Init, Idle, PassType, Steps
<1>6. head \in [Providers -> 1 .. Len(chain)]
  BY <1>3 DEF Init
<1>7. SettlerTypes
  <2>1. /\ mempool = {} /\ gossiped = {} /\ journal = None /\ aged = FALSE /\ records = {}
        /\ tornRecords = {} /\ reorged = FALSE /\ faults = 0
    BY DEF Init
  <2>2. /\ Len(chain) >= 1 /\ \A h \in 1 .. Len(chain) : Consistent(chain[h].m)
    BY <1>1, <1>3
  <2>3. mempool \subseteq gossiped /\ gossiped \subseteq Sents /\ tornRecords \subseteq Tx
        /\ records \subseteq [tx : Tx, block : Nat]
    BY <2>1
  <2> HIDE DEF b
  <2> QED BY <1>3, <1>4, <1>5, <1>6, <2>1, <2>2, <2>3 DEF SettlerTypes
<1>8. NoncesCount
  BY <1>1, <1>3 DEF NoncesCount
<1>9. NoncesRise /\ Journaled
  BY <1>4 DEF NoncesRise, Journaled
<1>10. Recorded /\ Passing
  BY <1>1, <1>3, <1>5 DEF Init, Recorded, Passing
<1> QED BY <1>7, <1>8, <1>9, <1>10 DEF SettlerInv

LEMMA SettlerStays == SettlerInv /\ UNCHANGED vars => SettlerInv'
<1> SUFFICES ASSUME SettlerInv, UNCHANGED vars PROVE SettlerInv'
  OBVIOUS
<1>1. Goes(pass') /\ UNCHANGED diskVars /\ pass' = pass
  BY DEF Goes, vars, chainVars, diskVars
<1>2. chain' = chain /\ head' = head /\ reorged' = reorged /\ journal' = journal
      /\ records' = records /\ sent' = sent
  BY DEF vars, chainVars, diskVars
<1> QED BY <1>1, <1>2, HeadsStay, PassingStays, GoesStep

LEMMA SettlerStep ==
  ASSUME SettlerConditions
  PROVE  SettlerInv /\ [Next]_vars => SettlerInv'
<1> SUFFICES ASSUME SettlerInv, [Next]_vars PROVE SettlerInv'
  OBVIOUS
<1>1. CASE UNCHANGED vars
  BY <1>1, SettlerStays
<1>2. CASE Outside
  BY <1>2, OutsideStep
<1>3. CASE MineOne
  BY <1>3, MineStep DEF MineOne
<1>4. CASE EmptyBlock
  BY <1>4, EmptyBlockStep
<1>5. ASSUME \/ \E tx \in mempool : Forget(tx)
             \/ \E tx \in gossiped : Resurface(tx)
             \/ \E p \in Providers : CatchUp(p)
             \/ Age
      PROVE  SettlerInv'
  BY <1>5, NetworkStep
<1>6. CASE \E d \in 1 .. MaxReorgDepth : Reorganise(d)
  BY <1>6, ReorganiseStep
<1>7. CASE Settler
  BY <1>7, StartPassStep, CheckStep, ChooseNonceStep, SaveJournalStep, EndStep,
     ReadReceiptStep, ConfirmStep, RecordSettlementStep, AcceptRevertStep, ClearStep,
     CheckAbsentStep DEF Settler
<1>8. ASSUME Abort \/ LateBroadcast \/ TornRecord PROVE SettlerInv'
  BY <1>8, EndStep
<1>9. CASE TornSave
  BY <1>9, TornSaveStep
<1> QED BY <1>1, <1>2, <1>3, <1>4, <1>5, <1>6, <1>7, <1>8, <1>9 DEF Next

\* As long as reorganisations stay within the confirmations and away from a receipt in use,
\* every crash, lost transaction, lagging provider and second settler leaves the journal,
\* the records and the chain in this relation.
THEOREM SettlerInvariant == SettlerConditions => (Spec => []SettlerInv)
<1> SUFFICES ASSUME SettlerConditions PROVE Spec => []SettlerInv
  OBVIOUS
<1>1. SettlerInv /\ [Next]_vars => SettlerInv'
  BY SettlerStep
<1> QED BY <1>1, SettlerStarts, PTL DEF Spec

\* A nonce is never signed twice, nor one below: what the journal was cleared of is mined
\* where the primary's count, read before the next signature, includes it.
THEOREM SettlerNoncesRise == SettlerConditions => (Spec => []NoncesRise)
<1> SUFFICES ASSUME SettlerConditions PROVE Spec => []NoncesRise
  OBVIOUS
<1>1. SettlerInv => NoncesRise
  BY DEF SettlerInv
<1> QED BY <1>1, SettlerInvariant, PTL

\* Every settlement of the settler that took effect is on record, or still in the journal.
THEOREM SettlementsAreRecorded == SettlerConditions => (Spec => []NothingUnrecorded)
<1> SUFFICES ASSUME SettlerConditions PROVE Spec => []NothingUnrecorded
  OBVIOUS
<1>1. SettlerInv => NothingUnrecorded
  <2> SUFFICES ASSUME SettlerInv PROVE NothingUnrecorded
    OBVIOUS
  <2>1. TypeOK
    BY SettlerFacts DEF SettlerInv, SettlerTypes, Passing, PassType, TypeOK, Sents
  <2>2. \A h \in DOMAIN chain : chain[h].tx # None /\ chain[h].ok =>
           journal = chain[h].tx \/ [tx |-> chain[h].tx, block |-> h] \in records
    BY SettlerFacts DEF SettlerInv, Recorded
  <2> QED BY <2>1, <2>2 DEF NothingUnrecorded
<1> QED BY <1>1, SettlerInvariant, PTL

\* What is on record stays true of the canonical chain, whatever it reorganises.
THEOREM SettlerRecordsStand == SettlerConditions => (Spec => []RecordsStand)
<1> SUFFICES ASSUME SettlerConditions PROVE Spec => []RecordsStand
  OBVIOUS
<1>1. SettlerInv => RecordsStand
  BY SettlerFacts DEF SettlerInv, Recorded, Deep, RecordsStand
<1> QED BY <1>1, SettlerInvariant, PTL
================================================================================
