---------------------------- MODULE MCVirtToPhys -----------------------------
(***************************************************************************)
(* A small instance of VirtToPhys.                                         *)
(***************************************************************************)
EXTENDS VirtToPhys, TLC

CONSTANTS f1, f2, f3

ThreeFrames == {f1, f2, f3}

Symmetry == Permutations(ThreeFrames)

=============================================================================
