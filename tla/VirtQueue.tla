----------------------------- MODULE VirtQueue -----------------------------
(***************************************************************************)
(* The split virtqueue of virtio/common/src/queue.rs, as operators over    *)
(* one record that holds both the shared memory (descriptor table,         *)
(* available ring, used ring) and the fields the driver keeps for itself   *)
(* (free_head, num_free, last_used_idx).  The drivers' modules keep such a *)
(* record in a variable and apply these operators to it.                   *)
(*                                                                         *)
(* A descriptor's `len` and the length of a used element are left out: no  *)
(* operation of the queue depends on them.                                 *)
(***************************************************************************)
EXTENDS Integers, FiniteSets

CONSTANTS
  Num,     \* the queue size: 128 for block and network queues, 16 for the GPU
  IdxMod   \* the ring indices are u16 and wrap: 2^16 in the code

(***************************************************************************)
(* An index and the ring slot it selects (idx % num) stay in step when the *)
(* index wraps only if Num divides IdxMod; a full ring differs from an     *)
(* empty one only if IdxMod exceeds Num.                                   *)
(***************************************************************************)
ASSUME QueueAssumption ==
  /\ Num \in Nat \ {0}
  /\ IdxMod \in Nat
  /\ IdxMod > Num
  /\ IdxMod % Num = 0

Desc == 0 .. Num - 1
Idx  == 0 .. IdxMod - 1

\* The descriptor flags DESC_F_NEXT and DESC_F_WRITE.
NEXT  == "NEXT"
WRITE == "WRITE"

\* A is the set of addresses a driver puts in its descriptors.
Queue(A) ==
  [ next          : [Desc -> Desc],
    flags         : [Desc -> SUBSET {NEXT, WRITE}],
    addr          : [Desc -> A],
    free_head     : Desc,
    num_free      : 0 .. Num,
    avail_idx     : Idx,
    avail_ring    : [Desc -> Desc],
    used_idx      : Idx,
    used_ring     : [Desc -> Desc],
    last_used_idx : Idx ]

(* VirtQueue::new: all descriptors are on the free list.  `zero` is the    *)
(* address that zeroed DMA memory holds.                                   *)
NewQueue(zero) ==
  [ next          |-> [i \in Desc |-> IF i < Num - 1 THEN i + 1 ELSE 0],
    flags         |-> [i \in Desc |-> IF i < Num - 1 THEN {NEXT} ELSE {}],
    addr          |-> [i \in Desc |-> zero],
    free_head     |-> 0,
    num_free      |-> Num,
    avail_idx     |-> 0,
    avail_ring    |-> [i \in Desc |-> 0],
    used_idx      |-> 0,
    used_ring     |-> [i \in Desc |-> 0],
    last_used_idx |-> 0 ]

-----------------------------------------------------------------------------
(* Driver side.                                                            *)

\* alloc_desc succeeds iff num_free > 0, and then hands out free_head.
CanAlloc(q) == q.num_free > 0

\* A slip to detect: num_free is not lowered.
AllocDescUncounted(q) == [q EXCEPT !.free_head = q.next[q.free_head]]

AllocDesc(q) == [q EXCEPT !.free_head = q.next[q.free_head],
                          !.num_free  = q.num_free - 1]

FreeDesc(q, id) == [q EXCEPT !.next[id]  = q.free_head,
                             !.flags[id] = {NEXT},
                             !.free_head = id,
                             !.num_free  = q.num_free + 1]

WriteDesc(q, id, a, f, n) == [q EXCEPT !.addr[id]  = a,
                                       !.flags[id] = f,
                                       !.next[id]  = n]

Submit(q, head) == [q EXCEPT !.avail_ring[q.avail_idx % Num] = head,
                             !.avail_idx = (q.avail_idx + 1) % IdxMod]

CanPop(q) == q.last_used_idx # q.used_idx

\* pop returns PopId(q) and leaves the queue as Pop(q).
PopId(q) == q.used_ring[q.last_used_idx % Num]

Pop(q) == [q EXCEPT !.last_used_idx = (q.last_used_idx + 1) % IdxMod]

-----------------------------------------------------------------------------
(* Device side (external): the device consumes the available ring from its *)
(* own index `seen` and appends to the used ring in any order it likes.    *)

DevCanTake(q, seen) == seen # q.avail_idx
DevTakeId(q, seen)  == q.avail_ring[seen % Num]

DevUse(q, id) == [q EXCEPT !.used_ring[q.used_idx % Num] = id,
                           !.used_idx = (q.used_idx + 1) % IdxMod]

-----------------------------------------------------------------------------
(* FreeList(q, F): walking the `next` fields from free_head for num_free   *)
(* descriptors visits every member of F exactly once and nothing else.     *)

IsFreeWalk(q, F, s) ==
  /\ q.num_free > 0 => s[1] = q.free_head
  /\ \A i \in 1 .. q.num_free - 1 : s[i + 1] = q.next[s[i]]
  /\ \A i, j \in 1 .. q.num_free : s[i] = s[j] => i = j
  /\ F = {s[i] : i \in 1 .. q.num_free}

FreeList(q, F) == \E s \in [1 .. q.num_free -> Desc] : IsFreeWalk(q, F, s)
=============================================================================
