------------------------------ MODULE MCEntries ------------------------------
(***************************************************************************)
(* Two agents with the drives of one machine, as a copied virtual machine  *)
(* has, and one of them asks for a password.                               *)
(***************************************************************************)
EXTENDS Entries, TLC

CONSTANTS nas, copy, i1, i2, t, d, h1, h2, s1

MCNames     == nas :> {"nas", "tower"} @@ copy :> {"copy"}
MCFirstName == nas :> "nas" @@ copy :> "copy"
MCDrives    == nas :> {d} @@ copy :> {d}
MCWants     == nas :> None @@ copy :> t
MCNets      == h1 :> "lan" @@ h2 :> "container"
MCAddresses == h1 :> 1 @@ h2 :> 2

BothIds  == nas :> i1 @@ copy :> i2
OldAgent == nas :> None @@ copy :> i2
Old      == s1 :> [uid |-> ByHost(h1), source |-> "zeroconf", title |-> "nas", host |-> h1,
                   token |-> None, name |-> None, drives |-> None, id |-> None]

MCStarts == {[at |-> << nas, copy >>, id |-> BothIds,  entries |-> << >>],
             [at |-> << nas, None >>, id |-> BothIds,  entries |-> Old],
             [at |-> << nas, None >>, id |-> OldAgent, entries |-> << >>]}

\* Flows are alike.
Symmetry == Permutations(Flows)
=============================================================================
