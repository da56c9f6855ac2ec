------------------------------- MODULE MCRootfs -------------------------------
(***************************************************************************)
(* Instances of Rootfs for TLC: one program, one kernel module, and two    *)
(* contents; rootfs-y names both, or in the second configuration the       *)
(* module only.                                                            *)
(***************************************************************************)
EXTENDS Rootfs

CONSTANTS prog, ko

FileNames == {prog, ko}
BothFiles == {FileNames}
OneOrBoth == {FileNames, {ko}}
=============================================================================
