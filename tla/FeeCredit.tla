----------------------------- MODULE FeeCredit -----------------------------
(***************************************************************************)
(* What city fee credit promises to a resident, without leases, clocks,     *)
(* invocations or retries: a spend takes one credit out of the purse and     *)
(* holds it, and the held credit is either spent on one founded place or     *)
(* given back, once.  CityCredit implements it.                              *)
(***************************************************************************)
EXTENDS Naturals

CONSTANTS Spends, Residents, ResidentOf, Sites, None, Other

VARIABLES purse, fate, built

Init ==
  /\ purse = [x \in Residents |-> 0]
  /\ fate = [c \in Spends |-> "none"]
  /\ built = [s \in Sites |-> None]

\* The founder issues one credit.
Grant(x) ==
  /\ purse' = [purse EXCEPT ![x] = purse[x] + 1]
  /\ UNCHANGED <<fate, built>>

\* A spend is made at most once, and only with a credit in the purse.
Hold(c) ==
  /\ fate[c] = "none" /\ purse[ResidentOf[c]] > 0
  /\ purse' = [purse EXCEPT ![ResidentOf[c]] = purse[ResidentOf[c]] - 1]
  /\ fate' = [fate EXCEPT ![c] = "held"]
  /\ UNCHANGED built

\* The credit and the place change hands in one step.
Spend(c, s) ==
  /\ fate[c] = "held" /\ built[s] = None
  /\ fate' = [fate EXCEPT ![c] = "spent"]
  /\ built' = [built EXCEPT ![s] = c]
  /\ UNCHANGED purse

GiveBack(c) ==
  /\ fate[c] = "held"
  /\ fate' = [fate EXCEPT ![c] = "back"]
  /\ purse' = [purse EXCEPT ![ResidentOf[c]] = purse[ResidentOf[c]] + 1]
  /\ UNCHANGED built

\* A place that no credit paid for.
OtherBuilds(s) ==
  /\ built[s] = None
  /\ built' = [built EXCEPT ![s] = Other]
  /\ UNCHANGED <<purse, fate>>

Next ==
  \/ \E x \in Residents : Grant(x)
  \/ \E c \in Spends : Hold(c) \/ GiveBack(c) \/ \E s \in Sites : Spend(c, s)
  \/ \E s \in Sites : OtherBuilds(s)

Spec == Init /\ [][Next]_<<purse, fate, built>>

=============================================================================
