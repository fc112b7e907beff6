------------------------------- MODULE MCGenesis -------------------------------
(* Instances of the genesis rewards for TLC. *)
EXTENDS GenesisProperties, TLC

TwoTokens == 1 .. 2

\* Owners are interchangeable: only equality of owners is ever tested.
OwnerSymmetry == Permutations(Owners)
================================================================================
