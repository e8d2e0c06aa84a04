------------------------- MODULE MCVirtioNetBounded -------------------------
(***************************************************************************)
(* The network driver with a client that opens at most MaxRequests         *)
(* requests: this affords several chains at once, and requests of every    *)
(* kind.                                                                   *)
(***************************************************************************)
EXTENDS VirtioNet, TLC

CONSTANT MaxRequests  \* how many requests the client opens
VARIABLE opened       \* how many it has opened

UserSymmetry == Permutations(Users)

BoundedInit == Init /\ opened = 0

BoundedNext ==
  \/ /\ opened < MaxRequests
     /\ opened' = opened + 1
     /\ \E u \in Users, k \in Kinds : ClientSubmit(u, k)
  \/ /\ Driver \/ Device \/ KernelIrq \/ ClientNotify \/ ClientReap
     /\ UNCHANGED opened

BoundedSpec == BoundedInit /\ [][BoundedNext]_<<vars, opened>>
=============================================================================
