---------------------------- MODULE MCFencedLease ----------------------------
(***************************************************************************)
(* FencedLease for TLC: three interchangeable holders of one resource.     *)
(***************************************************************************)
EXTENDS FencedLease, TLC

HolderSymmetry == Permutations(Holder)
==============================================================================
