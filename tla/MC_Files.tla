------------------------------ MODULE MC_Files ------------------------------
(* Model of Files for TLC: two processes, a table of four entries (three  *)
(* taken by the standard streams), two vdev_list slots.                   *)
EXTENDS Files
CONSTANTS p1, p2, OtherDev, hello, missing
MCProcs == {p1, p2}
MCDevNames == {RamDisk0, OtherDev}
MCHostNames == {hello, missing}
MCHostFiles == {hello}
=============================================================================
