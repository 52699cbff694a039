------------------------------- MODULE MCPanel --------------------------------
(* Panel with one machine of two devices, a page, two pushes and a call that  *)
(* can be on their way at once, and four operations. Nothing tells one device *)
(* from another, or one push or call.                                         *)
EXTENDS Panel, TLC

Symmetry ==
    Permutations(Keys) \cup Permutations(Machines)
    \cup Permutations(Pushes) \cup Permutations(Calls)
===============================================================================
