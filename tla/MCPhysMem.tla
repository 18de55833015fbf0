----------------------------- MODULE MCPhysMem -----------------------------
(***************************************************************************)
(* PhysMem on a machine of seven pages: page 0 is BIOS, 1 is the kernel's, *)
(* 2 .. 5 are the user window and 6 lies above it.  The runs start from    *)
(* every one of these memories: RAM everywhere, a hole inside the window,  *)
(* and a machine whose RAM ends inside the window.                         *)
(***************************************************************************)
EXTENDS PhysMem

MCRamSets == {1 .. 6, {1, 2, 4, 5}, 1 .. 3}
MCQuotas == 0 .. 2
=============================================================================
