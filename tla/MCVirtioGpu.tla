----------------------------- MODULE MCVirtioGpu -----------------------------
(***************************************************************************)
(* The GPU driver with MaxOpened requests and calls in all: this affords   *)
(* more requests than a completion ring of one entry holds, and a          *)
(* SET_SCANOUT before, between and after them.                             *)
(***************************************************************************)
EXTENDS VirtioGpu

CONSTANT MaxOpened  \* how many requests and calls there are
VARIABLE opened     \* how many there have been

BoundedInit == Init /\ opened = 0

BoundedNext ==
  \/ /\ opened < MaxOpened
     /\ opened' = opened + 1
     /\ \/ CallFlush \/ CallScanout
        \/ \E u \in Users : ClientSubmit(u)
  \/ /\ Driver \/ SetupRing \/ Device \/ KernelIrq \/ ClientNotify \/ ClientReap
     /\ UNCHANGED opened

BoundedSpec == BoundedInit /\ [][BoundedNext]_<<vars, opened>> /\ Fairness
=============================================================================
