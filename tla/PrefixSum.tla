------------------------------- MODULE PrefixSum -------------------------------
(* Sums over a finite family, used wherever the contracts keep an aggregate     *)
(* counter beside a mapping that Solidity cannot iterate.  The sum is            *)
(* a recursive function over 0..n (not a RECURSIVE operator), so that TLC        *)
(* evaluates it and PrefixSumProofs proves how it changes.                       *)
EXTENDS Integers, FiniteSets

Prefix(f, n) == LET s[i \in 0 .. n] == IF i = 0 THEN 0 ELSE s[i - 1] + f[i] IN s

\* f[1] + ... + f[n]
SumTo(f, n) == Prefix(f, n)[n]

\* The members of a finite set, each once, in some order.
Listing(S) ==
    CHOOSE e \in [1 .. Cardinality(S) -> S] :
        \A x \in S : \E i \in DOMAIN e : \A j \in DOMAIN e : e[j] = x <=> j = i

\* The sum of f over a finite set, such as the holders of a token.
SumOf(S, f) == SumTo([i \in 1 .. Cardinality(S) |-> f[Listing(S)[i]]], Cardinality(S))

\* The part of a sum that satisfies a condition is written with this switch.
When(condition, amount) == IF condition THEN amount ELSE 0
================================================================================
