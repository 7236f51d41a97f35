--------------------------- MODULE MCFailureLoop ---------------------------
(***************************************************************************)
(* FailureLoop for TLC: two NodeClaims, two instance types, two zones, a   *)
(* quota catalog where spot is cheaper, and escalation thresholds scaled   *)
(* down so that a type escalates on its second counted failure and a spot  *)
(* zone on its third.  Cache entries live one tick.                         *)
(***************************************************************************)
EXTENDS FailureLoop

\* Spot is cheaper than on-demand, so a mixed request launches type 1 spot
\* in z1 until that offering is blocked; then on-demand, type 1 in z1 before
\* type 2 in z2.
MCQuota ==
    {[type |-> 1, cap |-> Spot,     zone |-> "z1", price |-> 1, available |-> TRUE],
     [type |-> 1, cap |-> OnDemand, zone |-> "z1", price |-> 2, available |-> TRUE],
     [type |-> 2, cap |-> OnDemand, zone |-> "z2", price |-> 3, available |-> TRUE]}

\* NodeClaims allow both capacity types in every zone.
MCRequests == {[caps |-> {Spot, OnDemand}, zones |-> {"z1", "z2"}]}

=============================================================================
