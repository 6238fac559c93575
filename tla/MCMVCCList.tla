---------------------------- MODULE MCMVCCList ------------------------------
(* Instances of MVCCList.  The items of the pool are interchangeable.      *)
EXTENDS MVCCList, TLC

(* Transactions on two workers: the first on one, the rest on the other.   *)
CONSTANTS w1, w2

TwoHomes == [t \in Trx |-> IF t = MAX_TIME + 1 THEN w1 ELSE w2]

ItemSymmetry == Permutations(Item)
=============================================================================
