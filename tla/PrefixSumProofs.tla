---------------------------- MODULE PrefixSumProofs ----------------------------
(* Lemmas about the sums of PrefixSum, for families of any length.  Induction is   *)
(* used in one place, as the fact that a set of naturals with 0 and successors is  *)
(* Nat, which well-foundedness of < gives without a predicate parameter.           *)
EXTENDS PrefixSum, WellFoundedInduction, FiniteSetTheorems, TLAPS

\* A set of naturals that holds 0 and the successor of each member is all of Nat.
LEMMA NatSetInduction ==
  ASSUME NEW S \in SUBSET Nat, 0 \in S, \A n \in Nat : n \in S => n + 1 \in S
  PROVE  S = Nat
<1>1. SUFFICES ASSUME Nat \ S # {} PROVE FALSE
  OBVIOUS
<1>2. PICK x \in Nat \ S : \A y \in Nat \ S : ~ (<<y, x>> \in OpToRel(<, Nat))
  BY <1>1, WFMin, NatLessThanWellFounded
<1>3. \A y \in Nat \ S : ~ (y < x)
  BY <1>2 DEF OpToRel
<1>4. x # 0
  OBVIOUS
<1>5. x - 1 \in Nat /\ x - 1 < x /\ (x - 1) + 1 = x
  BY <1>4
<1>6. x - 1 \in S
  BY <1>3, <1>5
<1> QED
  BY <1>5, <1>6

IsFamily(f, n) == n \in Nat /\ \A i \in 1 .. n : f[i] \in Int
IsPrefixSum(s, f, n) == /\ s \in [0 .. n -> Int]
                        /\ \A i \in 0 .. n : s[i] = IF i = 0 THEN 0 ELSE s[i - 1] + f[i]
\* The recursion of Prefix, without the range of its values.
Recurs(r, f, n) == r = [i \in 0 .. n |-> IF i = 0 THEN 0 ELSE r[i - 1] + f[i]]

\* Every family of integers has partial sums.
LEMMA PrefixExists ==
  ASSUME NEW f, NEW N, IsFamily(f, N)
  PROVE  \E s : IsPrefixSum(s, f, N)
<1> USE DEF IsFamily
<1> DEFINE S == {n \in Nat : n <= N => \E s : IsPrefixSum(s, f, n)}
<1>1. 0 \in S
  <2> DEFINE z == [i \in 0 .. 0 |-> 0]
  <2>1. IsPrefixSum(z, f, 0)
    BY DEF IsPrefixSum
  <2> QED BY <2>1
<1>2. ASSUME NEW n \in Nat, n \in S PROVE n + 1 \in S
  <2>1. SUFFICES ASSUME n + 1 <= N PROVE \E s : IsPrefixSum(s, f, n + 1)
    OBVIOUS
  <2>2. PICK s : IsPrefixSum(s, f, n)
    BY <1>2, <2>1
  <2> DEFINE t == [i \in 0 .. n + 1 |-> IF i = n + 1 THEN s[n] + f[n + 1] ELSE s[i]]
  <2>3. /\ s[n] \in Int /\ f[n + 1] \in Int /\ n \in 0 .. n /\ n + 1 \in 0 .. n + 1
        /\ \A i \in 0 .. n : s[i] \in Int
    BY <2>1, <2>2 DEF IsPrefixSum
  <2>4. /\ \A i \in 0 .. n : i # n + 1 /\ i \in 0 .. n + 1 /\ t[i] = s[i]
        /\ t[n + 1] = s[n] + f[n + 1]
    BY <2>3
  <2>5. \A i \in 0 .. n + 1 : i \in 0 .. n \/ i = n + 1
    OBVIOUS
  <2>6. t \in [0 .. n + 1 -> Int]
    BY <2>3, <2>5
  <2> HIDE DEF t
  <2>7. ASSUME NEW i \in 0 .. n + 1
        PROVE  t[i] = IF i = 0 THEN 0 ELSE t[i - 1] + f[i]
    <3>1. CASE i = n + 1
      BY <2>3, <2>4, <3>1
    <3>2. CASE i \in 0 .. n /\ i # 0
      <4>1. i - 1 \in 0 .. n
        BY <3>2
      <4> QED BY <2>2, <2>4, <3>2, <4>1 DEF IsPrefixSum
    <3>3. CASE i = 0
      BY <2>2, <2>4, <3>3 DEF IsPrefixSum
    <3> QED BY <2>5, <3>1, <3>2, <3>3
  <2>8. IsPrefixSum(t, f, n + 1)
    BY <2>6, <2>7 DEF IsPrefixSum
  <2> QED BY <2>8
<1> HIDE DEF S
<1>3. S \in SUBSET Nat
  BY DEF S
<1>4. S = Nat
  BY <1>1, <1>2, <1>3, NatSetInduction
<1> QED BY <1>4 DEF S

\* Partial sums are unique, whatever the range of the function is known to be.
LEMMA PrefixUnique ==
  ASSUME NEW f, NEW N, IsFamily(f, N), NEW s, IsPrefixSum(s, f, N), NEW r,
         Recurs(r, f, N)
  PROVE  r = s
<1> USE DEF IsFamily
<1> DEFINE S == {n \in Nat : n <= N => r[n] = s[n]}
<1>0. \A i \in 0 .. N : r[i] = IF i = 0 THEN 0 ELSE r[i - 1] + f[i]
  <2> DEFINE F(i) == IF i = 0 THEN 0 ELSE r[i - 1] + f[i]
  <2>1. r = [i \in 0 .. N |-> F(i)]
    BY DEF Recurs
  <2> HIDE DEF F
  <2>2. \A i \in 0 .. N : r[i] = F(i)
    BY <2>1
  <2> QED BY <2>2 DEF F
<1>1. 0 \in S
  BY <1>0 DEF IsPrefixSum
<1>2. ASSUME NEW n \in Nat, n \in S PROVE n + 1 \in S
  BY <1>0, <1>2 DEF IsPrefixSum
<1> HIDE DEF S
<1>3. S \in SUBSET Nat
  BY DEF S
<1>4. S = Nat
  BY <1>1, <1>2, <1>3, NatSetInduction
<1>5. \A i \in Nat : i <= N => r[i] = s[i]
  BY <1>4 DEF S
<1>6. \A i \in 0 .. N : r[i] = s[i]
  BY <1>5
<1> QED BY <1>6 DEF IsPrefixSum, Recurs

\* Prefix is what its recursive definition says.
LEMMA PrefixIsPrefix ==
  ASSUME NEW f, NEW N, IsFamily(f, N)
  PROVE  IsPrefixSum(Prefix(f, N), f, N)
<1> DEFINE F(s) == [i \in 0 .. N |-> IF i = 0 THEN 0 ELSE s[i - 1] + f[i]]
           P == CHOOSE s : s = F(s)
<1>1. PICK s : IsPrefixSum(s, f, N)
  BY PrefixExists
<1>2. s = F(s)
  BY <1>1 DEF IsPrefixSum
<1>3. P = F(P)
  <2> HIDE DEF F
  <2> QED BY <1>2
<1>4. Prefix(f, N) = P
  BY DEF Prefix
<1>5. P = s
  <2>1. Recurs(P, f, N)
    <3> HIDE DEF P
    <3> QED BY <1>3 DEF Recurs
  <2> HIDE DEF P
  <2> QED BY <1>1, <2>1, PrefixUnique
<1> QED BY <1>1, <1>4, <1>5

\* The characterisation used from here on: a prefix of f ends in the sum of f.
LEMMA SumByPrefix ==
  ASSUME NEW f, NEW N, IsFamily(f, N), NEW s, IsPrefixSum(s, f, N)
  PROVE  SumTo(f, N) = s[N]
<1>1. IsPrefixSum(Prefix(f, N), f, N)
  BY PrefixIsPrefix
<1>2. Recurs(Prefix(f, N), f, N)
  BY <1>1 DEF IsPrefixSum, Recurs
<1>3. Prefix(f, N) = s
  BY <1>2, PrefixUnique
<1> QED BY <1>3 DEF SumTo

LEMMA SumPrefix ==
  ASSUME NEW f, NEW N, IsFamily(f, N)
  PROVE  \E s : IsPrefixSum(s, f, N) /\ SumTo(f, N) = s[N]
BY PrefixExists, SumByPrefix

\* A sum of integers is an integer.
THEOREM SumIsInt ==
  ASSUME NEW f, NEW N, IsFamily(f, N)
  PROVE  SumTo(f, N) \in Int
<1>1. PICK s : IsPrefixSum(s, f, N) /\ SumTo(f, N) = s[N]
  BY SumPrefix
<1> QED BY <1>1 DEF IsPrefixSum, IsFamily

\* The sum of the pointwise sum of two families is the sum of their sums.
THEOREM SumOfSum ==
  ASSUME NEW f, NEW g, NEW h, NEW N, IsFamily(f, N), IsFamily(g, N), IsFamily(h, N),
         \A i \in 1 .. N : h[i] = f[i] + g[i]
  PROVE  SumTo(h, N) = SumTo(f, N) + SumTo(g, N)
<1>1. PICK s : IsPrefixSum(s, f, N) /\ SumTo(f, N) = s[N]
  BY SumPrefix
<1>2. PICK t : IsPrefixSum(t, g, N) /\ SumTo(g, N) = t[N]
  BY SumPrefix
<1> DEFINE u == [i \in 0 .. N |-> s[i] + t[i]]
<1>3. IsPrefixSum(u, h, N)
  <2>1. u \in [0 .. N -> Int]
    BY <1>1, <1>2 DEF IsPrefixSum
  <2>2. ASSUME NEW i \in 0 .. N
        PROVE  u[i] = IF i = 0 THEN 0 ELSE u[i - 1] + h[i]
    <3>1. CASE i = 0
      BY <3>1, <1>1, <1>2 DEF IsPrefixSum
    <3>2. CASE i # 0
      <4>1. i \in 1 .. N /\ i - 1 \in 0 .. N
        BY <3>2 DEF IsFamily
      <4>2. s[i] = s[i - 1] + f[i] /\ t[i] = t[i - 1] + g[i]
        BY <3>2, <1>1, <1>2 DEF IsPrefixSum
      <4>3. s[i - 1] \in Int /\ t[i - 1] \in Int /\ f[i] \in Int /\ g[i] \in Int
        BY <4>1, <1>1, <1>2 DEF IsPrefixSum, IsFamily
      <4> QED BY <3>2, <4>1, <4>2, <4>3
    <3> QED BY <3>1, <3>2
  <2> QED BY <2>1, <2>2 DEF IsPrefixSum
<1>4. SumTo(h, N) = u[N]
  BY <1>3, SumByPrefix
<1> QED BY <1>1, <1>2, <1>4 DEF IsPrefixSum, IsFamily

\* Families that agree have the same sum.
THEOREM SumExtensional ==
  ASSUME NEW f, NEW g, NEW N, IsFamily(f, N), \A i \in 1 .. N : g[i] = f[i]
  PROVE  SumTo(g, N) = SumTo(f, N)
<1>1. PICK s : IsPrefixSum(s, f, N) /\ SumTo(f, N) = s[N]
  BY SumPrefix
<1>2. IsFamily(g, N)
  BY DEF IsFamily
<1>3. IsPrefixSum(s, g, N)
  <2>1. \A i \in 0 .. N : i # 0 => i \in 1 .. N
    BY DEF IsFamily
  <2> QED BY <1>1, <2>1 DEF IsPrefixSum
<1> QED BY <1>1, <1>2, <1>3, SumByPrefix

\* A family of zeros sums to zero.
THEOREM SumOfZeros ==
  ASSUME NEW f, NEW N \in Nat, \A i \in 1 .. N : f[i] = 0
  PROVE  SumTo(f, N) = 0
<1> DEFINE s == [i \in 0 .. N |-> 0]
<1>1. IsPrefixSum(s, f, N) /\ IsFamily(f, N)
  BY DEF IsPrefixSum, IsFamily
<1>2. SumTo(f, N) = s[N]
  BY <1>1, SumByPrefix
<1> QED BY <1>2

\* A family that is zero except at k sums to its value at k.
THEOREM SumOfOne ==
  ASSUME NEW f, NEW N \in Nat, NEW k \in 1 .. N, f[k] \in Int,
         \A i \in 1 .. N : i # k => f[i] = 0
  PROVE  SumTo(f, N) = f[k]
<1> DEFINE s == [i \in 0 .. N |-> IF i < k THEN 0 ELSE f[k]]
<1>1. IsPrefixSum(s, f, N) /\ IsFamily(f, N)
  BY DEF IsPrefixSum, IsFamily
<1>2. SumTo(f, N) = s[N]
  BY <1>1, SumByPrefix
<1> QED BY <1>2

\* Changing one member of a family changes its sum by as much.
THEOREM SumOfUpdate ==
  ASSUME NEW f, NEW g, NEW N, IsFamily(f, N), IsFamily(g, N), NEW k \in 1 .. N,
         \A i \in 1 .. N : i # k => g[i] = f[i]
  PROVE  SumTo(g, N) = SumTo(f, N) + g[k] - f[k]
<1> DEFINE d == [i \in 1 .. N |-> IF i = k THEN g[k] - f[k] ELSE 0]
<1>1. IsFamily(d, N) /\ N \in Nat
  BY DEF IsFamily
<1>2. SumTo(d, N) = g[k] - f[k]
  <2>1. d[k] = g[k] - f[k] /\ d[k] \in Int /\ \A i \in 1 .. N : i # k => d[i] = 0
    BY DEF IsFamily
  <2> HIDE DEF d
  <2> QED BY <1>1, <2>1, SumOfOne
<1>3. \A i \in 1 .. N : g[i] = f[i] + d[i]
  BY DEF IsFamily
<1> HIDE DEF d
<1>4. SumTo(g, N) = SumTo(f, N) + SumTo(d, N)
  BY <1>1, <1>3, SumOfSum
<1>5. SumTo(f, N) \in Int /\ g[k] \in Int /\ f[k] \in Int
  BY SumIsInt DEF IsFamily
<1> QED BY <1>2, <1>4, <1>5

\* Appending a member adds it to the sum.
THEOREM SumOfAppend ==
  ASSUME NEW f, NEW g, NEW N, IsFamily(f, N), IsFamily(g, N + 1),
         \A i \in 1 .. N : g[i] = f[i]
  PROVE  SumTo(g, N + 1) = SumTo(f, N) + g[N + 1]
<1>1. PICK s : IsPrefixSum(s, f, N) /\ SumTo(f, N) = s[N]
  BY SumPrefix
<1> DEFINE t == [i \in 0 .. N + 1 |-> IF i = N + 1 THEN s[N] + g[N + 1] ELSE s[i]]
<1>2. N \in Nat
  BY DEF IsFamily
<1>3. t \in [0 .. N + 1 -> Int]
  BY <1>1, <1>2 DEF IsPrefixSum, IsFamily
<1>4. ASSUME NEW i \in 0 .. N + 1
      PROVE  t[i] = IF i = 0 THEN 0 ELSE t[i - 1] + g[i]
  <2>1. CASE i = N + 1
    BY <2>1, <1>2
  <2>2. CASE i # N + 1
    <3>1. i \in 0 .. N
      BY <2>2, <1>2
    <3>2. s[i] = IF i = 0 THEN 0 ELSE s[i - 1] + f[i]
      BY <1>1, <3>1 DEF IsPrefixSum
    <3> QED BY <3>1, <3>2, <1>2
  <2> QED BY <2>1, <2>2
<1>5. IsPrefixSum(t, g, N + 1)
  BY <1>3, <1>4 DEF IsPrefixSum
<1>6. SumTo(g, N + 1) = t[N + 1]
  BY <1>5, SumByPrefix
<1> QED BY <1>1, <1>6, <1>2

\* A sum of naturals is a natural, and no member exceeds it.
THEOREM SumIsNat ==
  ASSUME NEW f, NEW N \in Nat, \A i \in 1 .. N : f[i] \in Nat
  PROVE  SumTo(f, N) \in Nat /\ \A i \in 1 .. N : f[i] <= SumTo(f, N)
<1>1. IsFamily(f, N)
  BY DEF IsFamily
<1>2. PICK s : IsPrefixSum(s, f, N) /\ SumTo(f, N) = s[N]
  BY <1>1, SumPrefix
<1> DEFINE S == {n \in Nat : n <= N => s[n] \in Nat /\ \A i \in 1 .. n : f[i] <= s[n]}
<1>3. 0 \in S
  BY <1>2 DEF IsPrefixSum
<1>4. ASSUME NEW n \in Nat, n \in S PROVE n + 1 \in S
  <2>1. SUFFICES ASSUME n + 1 <= N
                 PROVE  s[n + 1] \in Nat /\ \A i \in 1 .. n + 1 : f[i] <= s[n + 1]
    OBVIOUS
  <2>2. s[n + 1] = s[n] + f[n + 1] /\ f[n + 1] \in Nat /\ s[n] \in Nat
    BY <1>2, <1>4, <2>1 DEF IsPrefixSum
  <2>3. \A i \in 1 .. n : f[i] <= s[n] /\ f[i] \in Nat
    BY <1>4, <2>1
  <2> QED BY <2>2, <2>3
<1> HIDE DEF S
<1>5. S \in SUBSET Nat
  BY DEF S
<1>6. S = Nat
  BY <1>3, <1>4, <1>5, NatSetInduction
<1> QED BY <1>2, <1>6 DEF S

\* Sums of ordered families are ordered.
THEOREM SumIsMonotone ==
  ASSUME NEW f, NEW g, NEW N, IsFamily(f, N), IsFamily(g, N),
         \A i \in 1 .. N : f[i] <= g[i]
  PROVE  SumTo(f, N) <= SumTo(g, N)
<1> DEFINE d == [i \in 1 .. N |-> g[i] - f[i]]
<1>1. IsFamily(d, N) /\ N \in Nat
  BY DEF IsFamily
<1>2. \A i \in 1 .. N : d[i] \in Nat /\ g[i] = f[i] + d[i]
  BY DEF IsFamily
<1> HIDE DEF d
<1>3. SumTo(d, N) \in Nat
  BY <1>1, <1>2, SumIsNat
<1>4. SumTo(g, N) = SumTo(f, N) + SumTo(d, N)
  BY <1>1, <1>2, SumOfSum
<1>5. SumTo(f, N) \in Int
  BY SumIsInt
<1> QED BY <1>3, <1>4, <1>5

\* A sum scales with its members.
THEOREM SumOfScaled ==
  ASSUME NEW f, NEW g, NEW N, IsFamily(f, N), NEW k \in Int,
         \A i \in 1 .. N : g[i] = k * f[i]
  PROVE  IsFamily(g, N) /\ SumTo(g, N) = k * SumTo(f, N)
<1>1. PICK s : IsPrefixSum(s, f, N) /\ SumTo(f, N) = s[N]
  BY SumPrefix
<1>2. N \in Nat
  BY DEF IsFamily
<1>3. IsFamily(g, N)
  <2>1. \A i \in 1 .. N : f[i] \in Int
    BY DEF IsFamily
  <2> QED BY <1>2, <2>1 DEF IsFamily
<1> DEFINE t == [i \in 0 .. N |-> k * s[i]]
<1>4. IsPrefixSum(t, g, N)
  <2>1. s \in [0 .. N -> Int]
    BY <1>1 DEF IsPrefixSum
  <2>2. t \in [0 .. N -> Int]
    BY <2>1
  <2>3. ASSUME NEW i \in 0 .. N PROVE t[i] = IF i = 0 THEN 0 ELSE t[i - 1] + g[i]
    <3>1. CASE i = 0
      BY <1>1, <1>2, <3>1 DEF IsPrefixSum
    <3>2. CASE i # 0
      <4>1. i \in 1 .. N /\ i - 1 \in 0 .. N
        BY <1>2, <3>2
      <4>2. s[i] = s[i - 1] + f[i] /\ s[i - 1] \in Int /\ f[i] \in Int
        BY <1>1, <2>1, <3>2, <4>1 DEF IsPrefixSum, IsFamily
      <4>3. k * (s[i - 1] + f[i]) = k * s[i - 1] + k * f[i]
        BY <4>2
      <4> QED BY <3>2, <4>1, <4>2, <4>3
    <3> QED BY <3>1, <3>2
  <2> QED BY <2>2, <2>3 DEF IsPrefixSum
<1>5. SumTo(g, N) = t[N]
  BY <1>3, <1>4, SumByPrefix
<1> QED BY <1>1, <1>2, <1>3, <1>5

\* A sum of equal members is a product.
THEOREM SumOfConstant ==
  ASSUME NEW N \in Nat, NEW c \in Int, NEW f, \A i \in 1 .. N : f[i] = c
  PROVE  IsFamily(f, N) /\ SumTo(f, N) = N * c
<1> DEFINE t == [i \in 0 .. N |-> i * c]
<1>1. IsFamily(f, N)
  BY DEF IsFamily
<1>2. IsPrefixSum(t, f, N)
  <2>1. ASSUME NEW i \in 0 .. N PROVE t[i] = IF i = 0 THEN 0 ELSE t[i - 1] + f[i]
    <3>1. CASE i = 0
      BY <3>1
    <3>2. CASE i # 0
      <4>1. i \in 1 .. N /\ i - 1 \in 0 .. N /\ i \in Int
        BY <3>2
      <4>2. i * c = (i - 1) * c + c
        BY <4>1
      <4> QED BY <3>2, <4>1, <4>2
    <3> QED BY <3>1, <3>2
  <2>2. t \in [0 .. N -> Int]
    OBVIOUS
  <2> QED BY <2>1, <2>2 DEF IsPrefixSum
<1>3. SumTo(f, N) = t[N]
  BY <1>1, <1>2, SumByPrefix
<1> QED BY <1>1, <1>3
--------------------------------------------------------------------------------
(* Sums over finite sets *)

LEMMA ListingLists ==
  ASSUME NEW S, IsFiniteSet(S)
  PROVE  /\ Cardinality(S) \in Nat
         /\ Listing(S) \in [1 .. Cardinality(S) -> S]
         /\ \A x \in S : \E i \in 1 .. Cardinality(S) :
               \A j \in 1 .. Cardinality(S) : Listing(S)[j] = x <=> j = i
<1> DEFINE n == Cardinality(S)
           Lists(e) == \A x \in S : \E i \in DOMAIN e : \A j \in DOMAIN e : e[j] = x <=> j = i
<1>1. n \in Nat /\ ExistsBijection(1 .. n, S)
  BY FS_CardinalityType
<1> HIDE DEF n
<1>2. PICK e : e \in Bijection(1 .. n, S)
  BY <1>1 DEF ExistsBijection
<1>3. e \in [1 .. n -> S] /\ DOMAIN e = 1 .. n
      /\ (\A i, j \in 1 .. n : e[i] = e[j] => i = j) /\ \A x \in S : \E i \in 1 .. n : e[i] = x
  BY <1>2 DEF Bijection, Injection, Surjection, IsInjective
<1>4. Lists(e)
  BY <1>3
<1>5. Listing(S) = CHOOSE l \in [1 .. n -> S] : Lists(l)
  BY DEF Listing, n
<1> HIDE DEF Lists
<1>6. Listing(S) \in [1 .. n -> S] /\ Lists(Listing(S))
  BY <1>3, <1>4, <1>5
<1>7. DOMAIN Listing(S) = 1 .. n
  BY <1>6
<1>8. \A x \in S : \E i \in 1 .. n : \A j \in 1 .. n : Listing(S)[j] = x <=> j = i
  BY <1>6, <1>7 DEF Lists
<1> QED BY <1>1, <1>6, <1>8 DEF n

Listed(S, f) == [i \in 1 .. Cardinality(S) |-> f[Listing(S)[i]]]

LEMMA ListedFacts ==
  ASSUME NEW S, IsFiniteSet(S), NEW f
  PROVE  /\ SumOf(S, f) = SumTo(Listed(S, f), Cardinality(S)) /\ Cardinality(S) \in Nat
         /\ \A i \in 1 .. Cardinality(S) : /\ Listing(S)[i] \in S
                                           /\ Listed(S, f)[i] = f[Listing(S)[i]]
         /\ (\A x \in S : f[x] \in Int) => IsFamily(Listed(S, f), Cardinality(S))
<1>1. Cardinality(S) \in Nat /\ Listing(S) \in [1 .. Cardinality(S) -> S]
  BY ListingLists
<1>2. SumOf(S, f) = SumTo(Listed(S, f), Cardinality(S))
  BY DEF SumOf, Listed
<1> DEFINE n == Cardinality(S)
           e == Listing(S)
<1>3. \A i \in 1 .. n : e[i] \in S /\ Listed(S, f)[i] = f[e[i]]
  BY <1>1 DEF Listed
<1> QED BY <1>1, <1>2, <1>3 DEF IsFamily

\* A sum of integers over a finite set is an integer.
THEOREM SetSumIsInt ==
  ASSUME NEW S, IsFiniteSet(S), NEW f, \A x \in S : f[x] \in Int
  PROVE  SumOf(S, f) \in Int
BY ListedFacts, SumIsInt

\* A sum of naturals over a finite set is a natural, and no member exceeds it.
THEOREM SetSumIsNat ==
  ASSUME NEW S, IsFiniteSet(S), NEW f, \A x \in S : f[x] \in Nat
  PROVE  SumOf(S, f) \in Nat /\ \A x \in S : f[x] <= SumOf(S, f)
<1> DEFINE n == Cardinality(S)
           g == Listed(S, f)
<1>1. n \in Nat /\ SumOf(S, f) = SumTo(g, n)
      /\ \A i \in 1 .. n : Listing(S)[i] \in S /\ g[i] = f[Listing(S)[i]]
  BY ListedFacts
<1>2. \A x \in S : \E i \in 1 .. n : Listing(S)[i] = x
  BY ListingLists
<1> HIDE DEF n, g
<1>3. \A i \in 1 .. n : g[i] \in Nat
  BY <1>1
<1>4. SumTo(g, n) \in Nat /\ \A i \in 1 .. n : g[i] <= SumTo(g, n)
  BY <1>1, <1>3, SumIsNat
<1> QED BY <1>1, <1>2, <1>4

\* Functions that agree on a finite set have the same sum over it.
THEOREM SetSumExtensional ==
  ASSUME NEW S, IsFiniteSet(S), NEW f, NEW g, \A x \in S : f[x] \in Int /\ g[x] = f[x]
  PROVE  SumOf(S, g) = SumOf(S, f)
<1> DEFINE n == Cardinality(S)
<1>1. IsFamily(Listed(S, f), n) /\ SumOf(S, f) = SumTo(Listed(S, f), n)
      /\ SumOf(S, g) = SumTo(Listed(S, g), n)
      /\ \A i \in 1 .. n : Listed(S, g)[i] = Listed(S, f)[i]
  BY ListedFacts
<1> HIDE DEF n
<1> QED BY <1>1, SumExtensional

\* Zeros over a finite set sum to zero.
THEOREM SetSumOfZeros ==
  ASSUME NEW S, IsFiniteSet(S), NEW f, \A x \in S : f[x] = 0
  PROVE  SumOf(S, f) = 0
<1> DEFINE n == Cardinality(S)
<1>1. n \in Nat /\ SumOf(S, f) = SumTo(Listed(S, f), n)
      /\ \A i \in 1 .. n : Listed(S, f)[i] = 0
  BY ListedFacts
<1> HIDE DEF n
<1> QED BY <1>1, SumOfZeros

\* Changing a function at one member of a finite set changes its sum by as much.
THEOREM SetSumOfUpdate ==
  ASSUME NEW S, IsFiniteSet(S), NEW f, NEW g, NEW y \in S,
         \A x \in S : f[x] \in Int, \A x \in S : g[x] \in Int,
         \A x \in S : x # y => g[x] = f[x]
  PROVE  SumOf(S, g) = SumOf(S, f) + g[y] - f[y]
<1> DEFINE n == Cardinality(S)
           e == Listing(S)
<1>1. IsFamily(Listed(S, f), n) /\ SumOf(S, f) = SumTo(Listed(S, f), n)
      /\ IsFamily(Listed(S, g), n) /\ SumOf(S, g) = SumTo(Listed(S, g), n)
      /\ \A i \in 1 .. n : /\ e[i] \in S /\ Listed(S, f)[i] = f[e[i]]
                           /\ Listed(S, g)[i] = g[e[i]]
  BY ListedFacts
<1>2. PICK k \in 1 .. n : \A j \in 1 .. n : e[j] = y <=> j = k
  BY ListingLists
<1> HIDE DEF n, e
<1>3. \A i \in 1 .. n : i # k => Listed(S, g)[i] = Listed(S, f)[i]
  BY <1>1, <1>2
<1>4. Listed(S, g)[k] = g[y] /\ Listed(S, f)[k] = f[y]
  BY <1>1, <1>2
<1> QED BY <1>1, <1>3, <1>4, SumOfUpdate

\* The sum of a pointwise sum over a finite set is the sum of the sums.
THEOREM SetSumOfSum ==
  ASSUME NEW S, IsFiniteSet(S), NEW f, NEW g, NEW h,
         \A x \in S : f[x] \in Int /\ g[x] \in Int /\ h[x] = f[x] + g[x]
  PROVE  SumOf(S, h) = SumOf(S, f) + SumOf(S, g)
<1> DEFINE n == Cardinality(S)
<1>1. IsFamily(Listed(S, f), n) /\ SumOf(S, f) = SumTo(Listed(S, f), n)
      /\ IsFamily(Listed(S, g), n) /\ SumOf(S, g) = SumTo(Listed(S, g), n)
      /\ IsFamily(Listed(S, h), n) /\ SumOf(S, h) = SumTo(Listed(S, h), n)
      /\ \A i \in 1 .. n : Listed(S, h)[i] = Listed(S, f)[i] + Listed(S, g)[i]
  BY ListedFacts
<1> HIDE DEF n
<1> QED BY <1>1, SumOfSum

\* Sums over a finite set are ordered as the functions are.
THEOREM SetSumIsMonotone ==
  ASSUME NEW S, IsFiniteSet(S), NEW f, NEW g,
         \A x \in S : f[x] \in Int /\ g[x] \in Int /\ f[x] <= g[x]
  PROVE  SumOf(S, f) <= SumOf(S, g)
<1> DEFINE n == Cardinality(S)
<1>1. IsFamily(Listed(S, f), n) /\ SumOf(S, f) = SumTo(Listed(S, f), n)
      /\ IsFamily(Listed(S, g), n) /\ SumOf(S, g) = SumTo(Listed(S, g), n)
      /\ \A i \in 1 .. n : Listed(S, f)[i] <= Listed(S, g)[i]
  BY ListedFacts
<1> HIDE DEF n
<1> QED BY <1>1, SumIsMonotone

\* A sum over a finite set scales with its members.
THEOREM SetSumOfScaled ==
  ASSUME NEW S, IsFiniteSet(S), NEW f, NEW g, NEW k \in Int,
         \A x \in S : f[x] \in Int /\ g[x] = k * f[x]
  PROVE  SumOf(S, g) = k * SumOf(S, f)
<1> DEFINE n == Cardinality(S)
<1>1. IsFamily(Listed(S, f), n) /\ SumOf(S, f) = SumTo(Listed(S, f), n)
      /\ SumOf(S, g) = SumTo(Listed(S, g), n)
      /\ \A i \in 1 .. n : Listed(S, g)[i] = k * Listed(S, f)[i]
  BY ListedFacts
<1> DEFINE u == Listed(S, f)
           v == Listed(S, g)
<1>2. IsFamily(u, n) /\ \A i \in 1 .. n : v[i] = k * u[i]
  BY <1>1
<1> HIDE DEF n, u, v
<1>3. SumTo(v, n) = k * SumTo(u, n)
  BY <1>2, SumOfScaled
<1> QED BY <1>1, <1>3 DEF u, v
\* A function that is zero on a finite set but at y sums to its value at y.
THEOREM SetSumOfOne ==
  ASSUME NEW S, IsFiniteSet(S), NEW f, NEW y \in S, f[y] \in Int,
         \A x \in S : x # y => f[x] = 0
  PROVE  SumOf(S, f) = f[y]
<1> DEFINE n == Cardinality(S)
           e == Listing(S)
           g == Listed(S, f)
<1>1. n \in Nat /\ SumOf(S, f) = SumTo(g, n)
      /\ \A i \in 1 .. n : e[i] \in S /\ g[i] = f[e[i]]
  BY ListedFacts
<1>2. PICK k \in 1 .. n : \A j \in 1 .. n : e[j] = y <=> j = k
  BY ListingLists
<1> HIDE DEF n, e, g
<1>3. g[k] = f[y] /\ g[k] \in Int /\ \A i \in 1 .. n : i # k => g[i] = 0
  BY <1>1, <1>2
<1> QED BY <1>1, <1>3, SumOfOne
\* A non-empty set of naturals has a least member.
LEMMA LeastExists ==
  ASSUME NEW S \in SUBSET Nat, S # {}
  PROVE  \E x \in S : \A y \in S : x <= y
<1>1. PICK x \in S : \A y \in S : ~ (<<y, x>> \in OpToRel(<, Nat))
  BY WFMin, NatLessThanWellFounded
<1>2. \A y \in S : ~ (y < x)
  BY <1>1 DEF OpToRel
<1>3. \A y \in S : x <= y
  BY <1>2
<1> QED BY <1>3
================================================================================
