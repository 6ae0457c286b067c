-------------------------------- MODULE MCScan --------------------------------
(* Instances of Scan for TLC. *)
EXTENDS Scan, TLC

CONSTANTS s1, s2, s3, master, web, l1, l2

Clean == {}
Flash(start) == {[rule |-> "general_flash", start |-> start]}
Red == {[rule |-> "red_flash", start |-> 0]}

Few == {Clean, Flash(0), Flash(1) \cup Red}

Symmetric == Permutations(Scans)
=============================================================================
