---------------------------- MODULE MCCityCredit ----------------------------
(* Instances of CityCredit for TLC.                                         *)
EXTENDS CityCredit, TLC

CONSTANTS r1, r2, k1, k2, s1, x1, x2

TwoSpends == {r1, r2}
OneResident == [c \in Spends |-> x1]
OwnResidents == [c \in Spends |-> IF c = r1 THEN x1 ELSE x2]
OneSite == [k \in Keys |-> s1]

WorkerSymmetry == Permutations(Workers)
=============================================================================
