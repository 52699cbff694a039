---------------------------- MODULE MCDriveNotices ----------------------------
(* DriveNotices for one drive: no drive's state is read for another.       *)
EXTENDS DriveNotices
===============================================================================
