--------------------------- MODULE MCPositionRewards ---------------------------
(* An instance of the rewards of position NFTs for TLC.                             *)
EXTENDS PositionRewards, MCGenesis

NothingHarvested == {}
AllHarvested == {"claimRewards", "claimTokenRewards"}
MCAnswers == {NothingHarvested, AllHarvested}

\* Owners and holders are interchangeable: only equality is ever tested.
UserSymmetry == OwnerSymmetry \cup Permutations(Holders)
================================================================================
