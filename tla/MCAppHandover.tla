--------------------------- MODULE MCAppHandover ---------------------------
(* AppHandover for a machine of the App's and the App's own machine, which *)
(* are two, or one that the App knows twice.                               *)
EXTENDS AppHandover

CONSTANTS m1, m2, label, limit

TwoMachines == [i \in Items |-> IF i = Self THEN m2 ELSE m1]
OneMachine  == [i \in Items |-> m1]
OwnSettings == [i \in Items |-> IF i = Self THEN {limit} ELSE {label}]
AllSettings == [i \in Items |-> Settings]
=============================================================================
