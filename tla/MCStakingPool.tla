----------------------------- MODULE MCStakingPool -----------------------------
(* Instances of the staking pool for TLC. *)
EXTENDS StakingPoolProperties, TLC

\* Users are interchangeable: only equality of holders is ever tested.
UserSymmetry == Permutations(Users)
================================================================================
