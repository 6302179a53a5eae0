------------------------- MODULE MCPaymentAttempts -------------------------
(* Instances of PaymentAttempts for TLC.                                    *)
EXTENDS PaymentAttempts, TLC

CONSTANTS a1, a2, k1, s1

OneAttempt == {a1}
TwoAttempts == {a1, a2}
OneKey == [a \in Attempts |-> k1]
OneSite == [a \in Attempts |-> s1]

WorkerSymmetry == Permutations(Workers)
RaceSymmetry == Permutations(Workers) \cup Permutations(Attempts)
=============================================================================
