---------------------------- MODULE MCVirtioBlk ----------------------------
(***************************************************************************)
(* The block driver on instances small enough to be explored completely:   *)
(* the ring indices wrap around as often as they can.                      *)
(***************************************************************************)
EXTENDS VirtioBlk, TLC

UserSymmetry == Permutations(Users)
=============================================================================
