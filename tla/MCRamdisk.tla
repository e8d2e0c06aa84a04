----------------------------- MODULE MCRamdisk -----------------------------
(***************************************************************************)
(* A ramdisk of one block and a buffer of two.  One user asks for requests *)
(* at, across and beyond every bound, those included whose sums overflow,  *)
(* the other for blocks; requests and stores to the buffer are MaxOpened   *)
(* in all, and none follow a request that was let through wrongly.         *)
(***************************************************************************)
EXTENDS Ramdisk

CONSTANTS Rough, Plain,  \* the two users
          MaxOpened      \* how many requests and stores there are
VARIABLE opened          \* how many there have been

Entries(u, ops, offs, lens, addrs) ==
  [user : {u}, op : ops, off : offs, len : lens, addr : addrs]

Asks == Entries(Rough, {"read", "write"}, {0, 1}, {1, 2, 4}, {3, 4, 7})
        \cup Entries(Rough, {"sync", "other"}, {0}, {0}, {4})
        \cup Entries(Rough, {"read", "write"}, {0}, {2, 4}, {14})
        \cup Entries(Rough, {"read", "write"}, {7, 8, 9}, {2}, {4})
        \cup Entries(Plain, {"read", "write"}, {0}, {2}, {6})

BoundedInit == Init /\ opened = 0

BoundedNext ==
  \/ /\ opened < MaxOpened /\ ~wrapped
     /\ opened' = opened + 1
     /\ \/ \E e \in Entry : ClientSubmit(e)
        \/ \E a \in DOMAIN buf, v \in Val : ClientFill(a, v)
  \/ /\ Driver \/ ClientNotify \/ ClientReap
     /\ UNCHANGED opened

BoundedSpec == BoundedInit /\ [][BoundedNext]_<<vars, opened>> /\ Fairness
=============================================================================
