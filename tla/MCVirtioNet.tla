---------------------------- MODULE MCVirtioNet ----------------------------
(***************************************************************************)
(* The network driver on instances small enough to be explored completely. *)
(***************************************************************************)
EXTENDS VirtioNet, TLC

UserSymmetry == Permutations(Users)
=============================================================================
