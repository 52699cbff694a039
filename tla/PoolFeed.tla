------------------------------- MODULE PoolFeed -------------------------------
(***************************************************************************)
(* What the agent's ZFS pool cache promises the rest of the program, with  *)
(* no goroutine, lock or reader mode in sight.                             *)
(*                                                                         *)
(* The feed is "pending" until a read has completed, then the list of the  *)
(* last completed read or "failed".  Reads do not overlap, and a list that *)
(* is published is the set of pools that were imported at some moment of   *)
(* the read that published it: a result is never older than its read.      *)
(***************************************************************************)
CONSTANT Pools

VARIABLES imported,   \* the pools the kernel has imported now
          reading,    \* a read is in flight
          window,     \* what "imported" has been since that read began
          feed        \* "pending", "failed", or the published list

vars == <<imported, reading, window, feed>>

Pending == [kind |-> "pending", list |-> {}]
Failed  == [kind |-> "failed", list |-> {}]
Listed(L) == [kind |-> "ok", list |-> L]

Init ==
  /\ imported \in SUBSET Pools
  /\ reading = FALSE
  /\ window = {}
  /\ feed = Pending

(* A pool is imported or exported, on the host.                            *)
ImportChanges ==
  /\ imported' \in SUBSET Pools
  /\ window' = IF reading THEN window \cup {imported'} ELSE window
  /\ UNCHANGED <<reading, feed>>

StartRead ==
  /\ ~reading
  /\ reading' = TRUE
  /\ window' = {imported}
  /\ UNCHANGED <<imported, feed>>

Publish ==
  /\ reading
  /\ feed' \in {Failed} \cup {Listed(L) : L \in window}
  /\ UNCHANGED <<imported, reading, window>>

EndRead ==
  /\ reading
  /\ reading' = FALSE
  /\ window' = {}
  /\ UNCHANGED <<imported, feed>>

Next == ImportChanges \/ StartRead \/ Publish \/ EndRead

Spec == Init /\ [][Next]_vars
===============================================================================
