----------------------------- MODULE MCLivePost -----------------------------
(***************************************************************************)
(* Two flows at once in a world that changes once and a clock that stands  *)
(* still, and one flow in a world that changes twice while the clock runs. *)
(* Flows are interchangeable, and so are the accounts: nothing tells them  *)
(* apart in Init, and no property names one.                               *)
(***************************************************************************)
EXTENDS LivePost, FiniteSets, TLC

MCSymmetry == Permutations(Flows) \cup Permutations(Accounts)

MCBound ==
    \/ Cardinality({f \in Flows : at[f] # "idle"}) <= 1
    \/ clock = 0 /\ changes <= 1
=============================================================================
