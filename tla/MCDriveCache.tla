----------------------------- MODULE MCDriveCache -----------------------------
(* DriveCache on small hosts.  A drive's serial is written as the drive    *)
(* itself, and the slug of a serial or a path as that serial or path: they *)
(* are all different, as they are on a real host.                          *)
EXTENDS DriveCache, TLC

CONSTANTS sda, sdb

MCPaths  == {sda, sdb}
MCIds    == Disks \cup Paths
MCSlug   == [x \in MCIds |-> x]
Itself   == [d \in Disks |-> d]

Symmetry == Permutations(Disks)

AllATA    == [p \in Paths |-> {"ata"}]
MixedScan == sda :> {"scsi"} @@ sdb :> {"ata"}

OverrideB   == <<[name |-> sdb, protocol |-> "scsi"]>>
===============================================================================
