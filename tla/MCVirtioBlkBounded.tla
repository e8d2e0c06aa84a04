------------------------- MODULE MCVirtioBlkBounded -------------------------
(***************************************************************************)
(* The block driver with a client that opens requests, or is disturbed by  *)
(* a configuration interrupt or a spurious CQ bit, MaxRequests times in    *)
(* all: this affords queues with several requests in flight, and requests  *)
(* of every kind.                                                          *)
(***************************************************************************)
EXTENDS VirtioBlk, TLC

CONSTANT MaxRequests  \* how many requests and disturbances there are
VARIABLE opened       \* how many there have been

UserSymmetry == Permutations(Users)

BoundedInit == Init /\ opened = 0

BoundedNext ==
  \/ /\ opened < MaxRequests
     /\ opened' = opened + 1
     /\ \/ \E u \in Users, k \in Kinds : ClientSubmit(u, k)
        \/ DevConfig
        \/ ClientPoke
  \/ /\ \/ Driver \/ KernelIrq \/ ClientNotify \/ ClientReap
        \/ DevTake \/ DevSleep \/ DevRaise
        \/ \E h \in held, st \in Outcome : DevDone(h, st)
     /\ UNCHANGED opened

BoundedSpec == BoundedInit /\ [][BoundedNext]_<<vars, opened>>
=============================================================================
