--------------------------- MODULE VirtioNetProofs ---------------------------
(***************************************************************************)
(* The network driver for every queue size, every number of requests and   *)
(* every batch size: types, who owns each descriptor, that descriptors are *)
(* lost to refused requests only, and that nothing waits unannounced.      *)
(*                                                                         *)
(* The two queues do not interact, so most of the invariant is about one   *)
(* of them: a queue q and the array P that pending_rx or pending_tx is.    *)
(***************************************************************************)
EXTENDS VirtioNet, VirtQueueLemmas

-----------------------------------------------------------------------------
(* Who owns each descriptor: the free list F, one chain of exactly two per *)
(* recorded head in H, what is left of the chain being freed from W on.    *)

Heads(P)   == {h \in Desc : P[h] # None}
Pair(q, h) == {h, q.next[h]}

IsPair(q, h) ==
  /\ q.next[h] # h
  /\ NEXT \in q.flags[h] /\ NEXT \notin q.flags[q.next[h]]

Left(q, c) == IF NEXT \in q.flags[c] THEN Pair(q, c) ELSE {c}

Owners(q, H, W, F) ==
  /\ FreeList(q, F)
  /\ \A h \in H : IsPair(q, h) /\ Pair(q, h) \cap F = {}
  /\ \A g, h \in H : g # h => Pair(q, g) \cap Pair(q, h) = {}
  /\ \A c \in W : /\ NEXT \in q.flags[c] => IsPair(q, c)
                  /\ Left(q, c) \cap F = {}
                  /\ \A h \in H : Left(q, c) \cap Pair(q, h) = {}

\* The walk that frees a chain, of the queue of side s.
Walk(s) == IF drv.pc = "free" /\ drv.side = s THEN {drv.curr} ELSE {}

\* ... and how many descriptors it still has to free.
Rest(q, W) == IF W = {} THEN 0 ELSE IF \E c \in W : NEXT \in q.flags[c] THEN 2 ELSE 1

(* The owners, and how many descriptors have none: two for each of the b   *)
(* requests refused for their address, and an odd one at most.             *)
Kept(q, P, W, b) ==
  /\ \E F : Owners(q, Heads(P), W, F)
  /\ Num - q.num_free - Rest(q, W) - 2 * Cardinality(Heads(P)) - 2 * b \in {0, Num % 2}

Chains == \A s \in Side : Kept(vq[s], pending[s], Walk(s), bad[s])

-----------------------------------------------------------------------------
(* The control of the driver, and the signals.                             *)

Control ==
  /\ drv.pc = "notify" => drv.batch # << >>
  /\ drv.pc \notin {"fetch", "submit", "notify"} => drv.batch = << >>

\* An unread completion has its interrupt, or this round of handle_irq pops it.
Announced ==
  \A s \in Side : CanPop(vq[s]) =>
    \/ dev.raise \/ dev.isr
    \/ drv.pc \in {"pop", "free"} /\ (drv.side = "rx" \/ s = "tx")

\* The client will notify, or has notified, the driver of an entry.
Signal == owed \/ "SQ" \in pend

Drained ==
  /\ Len(sq) <= SqEntries
  /\ sq # << >> => Signal \/ hidden \/ drv.pc = "fetch"
  /\ drv.pc \in {"submit", "notify"} /\ sq # << >> => Signal
  /\ drv.pc = "fetch" /\ ~Signal => Len(drv.batch) + Len(sq) <= SqEntries

IInv == TypeOK /\ Control /\ Chains

-----------------------------------------------------------------------------
(* What the operations of a queue do to the owners of its descriptors.     *)

\* The same links and flags have the same owners.
LEMMA OwnersFrame ==
  ASSUME NEW q, NEW n, NEW H, NEW W, NEW F, Owners(q, H, W, F), FreeList(n, F),
         n.next = q.next, n.flags = q.flags
  PROVE  Owners(n, H, W, F)
BY DEF Owners, IsPair, Pair, Left

\* A recorded chain becomes the chain to free.
LEMMA OwnersPop ==
  ASSUME NEW q, NEW H, NEW F, NEW h \in H, Owners(q, H, {}, F)
  PROVE  Owners(q, H \ {h}, {h}, F) /\ NEXT \in q.flags[h]
<1>1. IsPair(q, h) /\ Left(q, h) = Pair(q, h)
  BY DEF Owners, IsPair, Left
<1> QED  BY <1>1 DEF Owners, IsPair

\* Where a walk that has freed c goes next, if anywhere.
After(q, c) == IF NEXT \in q.flags[c] THEN {q.next[c]} ELSE {}

\* One turn of the loop that frees a chain.
LEMMA OwnersFree ==
  ASSUME NEW q \in Queue(Addr), NEW H \in SUBSET Desc, NEW F, NEW c \in Desc,
         Owners(q, H, {c}, F)
  PROVE  /\ FreeDesc(q, c) \in Queue(Addr)
         /\ FreeDesc(q, c).num_free = q.num_free + 1
         /\ Owners(FreeDesc(q, c), H, After(q, c), F \cup {c})
         /\ \A d \in Desc : d # c => /\ FreeDesc(q, c).flags[d] = q.flags[d]
                                     /\ FreeDesc(q, c).next[d] = q.next[d]
<1> DEFINE n == FreeDesc(q, c)
           W == After(q, c)
<1>1. c \notin F /\ \A h \in H : c \notin Pair(q, h)
  BY DEF Owners, Left, Pair
<1>2. n \in Queue(Addr) /\ FreeList(n, F \cup {c})
  BY <1>1, FreeDescFree DEF Owners
<1>3. /\ \A d \in Desc : d # c => n.flags[d] = q.flags[d] /\ n.next[d] = q.next[d]
      /\ n.num_free = q.num_free + 1
  BY DEF FreeDesc, Queue
<1>4. \A d \in Desc : q.next[d] \in Desc
  BY DEF Queue
<1> HIDE DEF n
<1>5. ASSUME NEW h \in H
      PROVE  /\ IsPair(n, h) /\ Pair(n, h) = Pair(q, h)
             /\ Pair(n, h) \cap (F \cup {c}) = {}
  <2>1. h \in Desc /\ h # c /\ q.next[h] \in Desc /\ q.next[h] # c
    BY <1>1, <1>4 DEF Pair
  <2> QED  BY <1>1, <1>3, <2>1 DEF Owners, IsPair, Pair
<1>6. ASSUME NEW d \in W
      PROVE  /\ NEXT \in n.flags[d] => IsPair(n, d)
             /\ Left(n, d) \cap (F \cup {c}) = {}
             /\ \A h \in H : Left(n, d) \cap Pair(q, h) = {}
  <2>1. /\ NEXT \in q.flags[c] /\ d = q.next[c] /\ d # c /\ d \in Desc
        /\ NEXT \notin q.flags[d]
    BY <1>4 DEF After, Owners, IsPair
  <2>2. Left(n, d) = {d} /\ d \in Left(q, c) /\ NEXT \notin n.flags[d]
    BY <1>3, <2>1 DEF Left, Pair
  <2> QED  BY <2>1, <2>2 DEF Owners
<1>7. Owners(n, H, W, F \cup {c})
  <2> HIDE DEF W
  <2> QED  BY <1>2, <1>5, <1>6 DEF Owners
<1> QED  BY <1>2, <1>3, <1>7 DEF n

\* A descriptor allocated and not used is nobody's.
LEMMA OwnersAlloc ==
  ASSUME NEW q \in Queue(Addr), NEW H, NEW F, Owners(q, H, {}, F), CanAlloc(q)
  PROVE  /\ AllocDesc(q) \in Queue(Addr)
         /\ AllocDesc(q).num_free = q.num_free - 1
         /\ q.free_head \in F
         /\ Owners(AllocDesc(q), H, {}, F \ {q.free_head})
<1> DEFINE n == AllocDesc(q)
<1>1. n \in Queue(Addr) /\ FreeList(n, F \ {q.free_head}) /\ q.free_head \in F
  BY AllocDescFree DEF Owners
<1>2. n.num_free = q.num_free - 1 /\ n.next = q.next /\ n.flags = q.flags
  BY DEF AllocDesc, Queue
<1> HIDE DEF n
<1> QED  BY <1>1, <1>2 DEF Owners, IsPair, Pair, n

-----------------------------------------------------------------------------
(* The queue once a request is made available.                             *)

(* The chain of head h for u, a request of side s.                         *)
Shape(s, q, h, u) ==
  LET d2 == q.next[h]
      w  == IF s = "rx" THEN {WRITE} ELSE {}
  IN  /\ q.addr[h] = Hdr(h) /\ q.flags[h] = {NEXT} \cup w
      /\ q.addr[d2] = Data(u) /\ q.flags[d2] = w

\* n is q with a chain of its first two free descriptors for u.
Published(s, q, n, F, u) ==
  LET d1 == q.free_head
      d2 == q.next[d1]
  IN  /\ n \in Queue(Addr) /\ n.num_free = q.num_free - 2
      /\ d1 \in F /\ d2 \in F /\ d1 # d2 /\ F \subseteq Desc
      /\ FreeList(n, (F \ {d1}) \ {d2})
      /\ n.next[d1] = d2 /\ Shape(s, n, d1, u)
      /\ \A d \in Desc \ {d1, d2} : /\ n.next[d] = q.next[d] /\ n.flags[d] = q.flags[d]
                                    /\ n.addr[d] = q.addr[d]
      /\ n.avail_ring = [q.avail_ring EXCEPT ![q.avail_idx % Num] = d1]
      /\ n.avail_idx = (q.avail_idx + 1) % IdxMod
      /\ n.used_ring = q.used_ring /\ n.used_idx = q.used_idx
      /\ n.last_used_idx = q.last_used_idx

\* What submit writes is such a queue.
LEMMA PublishIs ==
  ASSUME NEW q \in Queue(Addr), NEW F, FreeList(q, F), q.num_free >= 2,
         NEW sqe \in Sqe, sqe.kind \in Side
  PROVE  Published(sqe.kind, q, Submit(WriteChain(q, sqe), q.free_head), F, sqe.user)
<1> DEFINE s  == sqe.kind
           a1 == AllocDesc(q)
           a2 == AllocDesc(a1)
           d1 == q.free_head
           d2 == q.next[d1]
           w  == IF s = "rx" THEN {WRITE} ELSE {}
           f1 == {NEXT} \cup w
           w1 == WriteDesc(a2, d1, Hdr(d1), f1, d2)
           w2 == WriteDesc(w1, d2, Data(sqe.user), w, 0)
           n  == Submit(w2, d1)
           G  == (F \ {d1}) \ {d2}
<1>0. q.num_free \in Nat
  BY QueueAssumption DEF Queue
<1>1. /\ a1 \in Queue(Addr) /\ FreeList(a1, F \ {d1}) /\ d1 \in F
      /\ a1.num_free = q.num_free - 1 /\ a1.free_head = d2
      /\ SameRings(q, a1) /\ SameChains(q, a1)
  <2>1. CanAlloc(q)
    BY <1>0 DEF CanAlloc
  <2>2. a1.num_free = q.num_free - 1 /\ a1.free_head = d2
    BY DEF AllocDesc, Queue
  <2> QED  BY <2>1, <2>2, AllocDescFree, AllocDescFields
<1> HIDE DEF a1
<1>2. /\ a2 \in Queue(Addr) /\ FreeList(a2, G) /\ d2 \in F \ {d1}
      /\ a2.num_free = q.num_free - 2
      /\ SameRings(q, a2) /\ SameChains(q, a2)
  <2>1. CanAlloc(a1)
    BY <1>0, <1>1 DEF CanAlloc
  <2>2. a2.num_free = (q.num_free - 1) - 1
    BY <1>1 DEF AllocDesc, Queue
  <2>3. a2 \in Queue(Addr) /\ FreeList(a2, (F \ {d1}) \ {d2}) /\ d2 \in F \ {d1}
    BY <1>1, <2>1, AllocDescFree
  <2>4. SameRings(a1, a2) /\ SameChains(a1, a2)
    BY <1>1, AllocDescFields
  <2> QED  BY <1>0, <1>1, <2>2, <2>3, <2>4 DEF SameRings, SameChains
<1>3. /\ d1 \in Desc /\ d2 \in Desc /\ d1 # d2 /\ F \subseteq Desc
      /\ d1 \notin G /\ d2 \notin G
  BY <1>1, <1>2, FreeListSize
<1>4. /\ Hdr(d1) \in Addr /\ Data(sqe.user) \in Addr
      /\ f1 \in SUBSET {NEXT, WRITE} /\ w \in SUBSET {NEXT, WRITE} /\ 0 \in Desc
  BY <1>3, QueueAssumption DEF Addr, Sqe, Desc
<1>5. WriteChain(q, sqe) = w2
  BY <1>1 DEF WriteChain, a1
<1> HIDE DEF a2, d1, d2, w, f1, G
<1>6. Written(Addr, a2, w1, d1, Hdr(d1), f1, d2) /\ FreeList(w1, G)
  BY <1>2, <1>3, <1>4, WriteDescFields, WriteDescFree
<1>7. w1.num_free = a2.num_free
  BY <1>2 DEF WriteDesc, Queue
<1> HIDE DEF w1
<1>8. Written(Addr, w1, w2, d2, Data(sqe.user), w, 0) /\ FreeList(w2, G)
  <2>1. w1 \in Queue(Addr)
    BY <1>6 DEF Written
  <2> QED  BY <1>3, <1>4, <1>6, <2>1, WriteDescFields, WriteDescFree
<1>9. w2.num_free = w1.num_free /\ w1 \in Queue(Addr)
  BY <1>6 DEF WriteDesc, Queue, Written
<1> HIDE DEF w2
<1>10. w2 \in Queue(Addr)
  BY <1>8 DEF Written
<1>11. n \in Queue(Addr) /\ FreeList(n, G)
  BY <1>3, <1>8, <1>10, RingsFree
<1>12. /\ n.next = w2.next /\ n.flags = w2.flags /\ n.addr = w2.addr
       /\ n.avail_ring = [w2.avail_ring EXCEPT ![w2.avail_idx % Num] = d1]
       /\ n.avail_idx = (w2.avail_idx + 1) % IdxMod
       /\ n.used_ring = w2.used_ring /\ n.used_idx = w2.used_idx
       /\ n.last_used_idx = w2.last_used_idx /\ n.num_free = w2.num_free
  BY <1>10 DEF Submit, Queue
<1> HIDE DEF n
<1>13. /\ q.next \in [Desc -> Desc] /\ q.flags \in [Desc -> SUBSET {NEXT, WRITE}]
       /\ q.addr \in [Desc -> Addr]
  BY DEF Queue
<1>14. /\ n.next = [[q.next EXCEPT ![d1] = d2] EXCEPT ![d2] = 0]
       /\ n.flags = [[q.flags EXCEPT ![d1] = f1] EXCEPT ![d2] = w]
       /\ n.addr = [[q.addr EXCEPT ![d1] = Hdr(d1)] EXCEPT ![d2] = Data(sqe.user)]
  BY <1>2, <1>6, <1>8, <1>12 DEF SameChains, Written
<1>15. n.next[d1] = d2 /\ \A d \in Desc \ {d1, d2} : n.next[d] = q.next[d]
  BY <1>3, <1>13, <1>14
<1>16. /\ n.flags[d1] = f1 /\ n.flags[d2] = w
       /\ \A d \in Desc \ {d1, d2} : n.flags[d] = q.flags[d]
  BY <1>3, <1>13, <1>14
<1>17. /\ n.addr[d1] = Hdr(d1) /\ n.addr[d2] = Data(sqe.user)
       /\ \A d \in Desc \ {d1, d2} : n.addr[d] = q.addr[d]
  BY <1>3, <1>13, <1>14
<1>18. Shape(s, n, d1, sqe.user)
  BY <1>15, <1>16, <1>17 DEF Shape, f1, w
<1>19. /\ n.avail_ring = [q.avail_ring EXCEPT ![q.avail_idx % Num] = d1]
       /\ n.avail_idx = (q.avail_idx + 1) % IdxMod
       /\ n.used_ring = q.used_ring /\ n.used_idx = q.used_idx
       /\ n.last_used_idx = q.last_used_idx
  BY <1>2, <1>6, <1>8, <1>12 DEF SameRings, Written
<1>20. n.num_free = q.num_free - 2
  BY <1>2, <1>7, <1>9, <1>12
<1>21. n = Submit(WriteChain(q, sqe), q.free_head)
  BY <1>5 DEF n, d1
<1> HIDE DEF s
<1>22. Published(s, q, n, F, sqe.user)
  BY <1>1, <1>2, <1>3, <1>11, <1>15, <1>16, <1>17, <1>18, <1>19, <1>20
     DEF Published, d1, d2, G
<1> QED  BY <1>21, <1>22 DEF s

\* The chain is one more that is owned.
LEMMA OwnersPublish ==
  ASSUME NEW s, NEW q \in Queue(Addr), NEW n, NEW H \in SUBSET Desc, NEW F,
         Owners(q, H, {}, F), NEW u, Published(s, q, n, F, u)
  PROVE  /\ q.free_head \notin H /\ q.free_head \in Desc
         /\ \E G : Owners(n, H \cup {q.free_head}, {}, G)
         /\ \A h \in H : Pair(q, h) \subseteq Desc \ {q.free_head, q.next[q.free_head]}
<1> DEFINE d1 == q.free_head
           d2 == q.next[d1]
           G  == (F \ {d1}) \ {d2}
<1>1. /\ d1 \in F /\ d2 \in F /\ d1 # d2 /\ F \subseteq Desc /\ FreeList(n, G)
      /\ n.next[d1] = d2 /\ Shape(s, n, d1, u)
      /\ \A d \in Desc \ {d1, d2} : n.next[d] = q.next[d] /\ n.flags[d] = q.flags[d]
  BY DEF Published
<1> HIDE DEF d1, d2, G
<1>2. IsPair(n, d1) /\ Pair(n, d1) = {d1, d2}
  BY <1>1 DEF IsPair, Pair, Shape, NEXT, WRITE
<1>3. \A d \in Desc : q.next[d] \in Desc
  BY DEF Queue
<1>4. ASSUME NEW h \in H
      PROVE  /\ IsPair(n, h) /\ Pair(n, h) = Pair(q, h)
             /\ Pair(q, h) \cap {d1, d2} = {} /\ Pair(q, h) \cap F = {}
             /\ h \in Desc /\ q.next[h] \in Desc
  BY <1>1, <1>3 DEF Owners, IsPair, Pair
<1>5. d1 \notin H
  BY <1>4 DEF Pair
<1>6. Owners(n, H \cup {d1}, {}, G)
  <2>1. G \subseteq F /\ d1 \notin G /\ d2 \notin G
    BY DEF G
  <2>2. ASSUME NEW h \in H \cup {d1} PROVE IsPair(n, h) /\ Pair(n, h) \cap G = {}
    BY <1>2, <1>4, <2>1
  <2>3. ASSUME NEW g \in H \cup {d1}, NEW h \in H \cup {d1}, g # h
        PROVE  Pair(n, g) \cap Pair(n, h) = {}
    <3>1. CASE g \in H /\ h \in H
      BY <1>4, <2>3, <3>1 DEF Owners
    <3>2. CASE g = d1 \/ h = d1
      BY <1>2, <1>4, <2>3, <3>2
    <3> QED  BY <3>1, <3>2
  <2> QED  BY <1>1, <2>2, <2>3 DEF Owners
<1>7. \A h \in H : Pair(q, h) \subseteq Desc \ {d1, d2}
  BY <1>4 DEF Pair
<1>8. d1 \in Desc
  BY <1>1
<1> QED  BY <1>5, <1>6, <1>7, <1>8 DEF d1, d2

-----------------------------------------------------------------------------
(* ... and to the number of descriptors that have none.                    *)

\* The recorded heads are finitely many; one more, and one less.
LEMMA HeadsCount ==
  ASSUME NEW P
  PROVE  /\ Heads(P) \in SUBSET Desc
         /\ IsFiniteSet(Heads(P)) /\ Cardinality(Heads(P)) \in Nat
<1>1. IsFiniteSet(Desc)
  BY FS_Interval, QueueAssumption DEF Desc
<1>2. Heads(P) \in SUBSET Desc
  BY DEF Heads
<1> QED  BY <1>1, <1>2, FS_Subset, FS_CardinalityType

\* Recording a chain adds its head to those recorded, and one to their number.
LEMMA HeadsPut ==
  ASSUME NEW P, DOMAIN P = Desc, NEW h \in Desc, P[h] = None, NEW u, u # None
  PROVE  /\ Heads([P EXCEPT ![h] = u]) = Heads(P) \cup {h}
         /\ Cardinality(Heads([P EXCEPT ![h] = u])) = Cardinality(Heads(P)) + 1
<1>1. Heads([P EXCEPT ![h] = u]) = Heads(P) \cup {h} /\ h \notin Heads(P)
  BY DEF Heads
<1> QED  BY <1>1, HeadsCount, FS_AddElement

\* Forgetting a chain removes its head from those recorded, and one from their number.
LEMMA HeadsTake ==
  ASSUME NEW P, DOMAIN P = Desc, NEW h \in Desc, P[h] # None
  PROVE  /\ h \in Heads(P) /\ Heads([P EXCEPT ![h] = None]) = Heads(P) \ {h}
         /\ Cardinality(Heads([P EXCEPT ![h] = None])) = Cardinality(Heads(P)) - 1
<1>1. Heads([P EXCEPT ![h] = None]) = Heads(P) \ {h} /\ h \in Heads(P)
  BY DEF Heads
<1> QED  BY <1>1, HeadsCount, FS_RemoveElement, ZenonT(30)

\* Operations that touch no descriptor.
LEMMA KeptFrame ==
  ASSUME NEW q, NEW n, NEW P, NEW W, NEW b, Kept(q, P, W, b),
         n.next = q.next, n.flags = q.flags, n.num_free = q.num_free,
         \A F : FreeList(q, F) => FreeList(n, F)
  PROVE  Kept(n, P, W, b)
<1>1. PICK F : Owners(q, Heads(P), W, F)
  BY DEF Kept
<1>2. FreeList(n, F)
  BY <1>1 DEF Owners
<1>3. Owners(n, Heads(P), W, F)
  BY <1>1, <1>2, OwnersFrame
<1>4. Rest(n, W) = Rest(q, W)
  BY DEF Rest
<1> QED  BY <1>3, <1>4 DEF Kept

\* A popped chain is next to be freed.
LEMMA KeptPop ==
  ASSUME NEW q \in Queue(Addr), NEW P, DOMAIN P = Desc, NEW b \in Nat, Kept(q, P, {}, b),
         NEW h \in Desc, P[h] # None
  PROVE  Kept(q, [P EXCEPT ![h] = None], {h}, b)
<1> DEFINE N == [P EXCEPT ![h] = None]
<1>1. PICK F : Owners(q, Heads(P), {}, F)
  BY DEF Kept
<1>2. /\ h \in Heads(P) /\ Heads(N) = Heads(P) \ {h}
      /\ Cardinality(Heads(N)) = Cardinality(Heads(P)) - 1
  BY HeadsTake
<1> HIDE DEF N
<1>3. Owners(q, Heads(N), {h}, F) /\ NEXT \in q.flags[h]
  BY <1>1, <1>2, OwnersPop
<1>4. Rest(q, {}) = 0 /\ Rest(q, {h}) = 2
  BY <1>3 DEF Rest
<1>5. Cardinality(Heads(P)) \in Nat /\ q.num_free \in Nat /\ Num \in Nat
  BY HeadsCount, QueueAssumption DEF Queue
<1>6. Num - q.num_free - 2 - 2 * Cardinality(Heads(N)) - 2 * b
        = Num - q.num_free - 0 - 2 * Cardinality(Heads(P)) - 2 * b
  BY <1>2, <1>5
<1> QED  BY <1>3, <1>4, <1>6 DEF Kept, N

\* A turn of the loop that frees it.
LEMMA KeptFree ==
  ASSUME NEW q \in Queue(Addr), NEW P, NEW b \in Nat, NEW c \in Desc, Kept(q, P, {c}, b)
  PROVE  /\ FreeDesc(q, c) \in Queue(Addr)
         /\ Kept(FreeDesc(q, c), P, After(q, c), b)
<1> DEFINE n == FreeDesc(q, c)
<1>1. PICK F : Owners(q, Heads(P), {c}, F)
  BY DEF Kept
<1>2. /\ n \in Queue(Addr) /\ n.num_free = q.num_free + 1
      /\ Owners(n, Heads(P), After(q, c), F \cup {c})
      /\ \A d \in Desc : d # c => n.flags[d] = q.flags[d]
  <2>1. Heads(P) \in SUBSET Desc
    BY HeadsCount
  <2> QED  BY <1>1, <2>1, OwnersFree, Zenon
<1> HIDE DEF n
<1>3. Rest(q, {c}) = Rest(n, After(q, c)) + 1 /\ Rest(n, After(q, c)) \in Nat
  <2>1. CASE NEXT \in q.flags[c]
    <3>1. q.next[c] \in Desc /\ q.next[c] # c /\ NEXT \notin q.flags[q.next[c]]
      BY <1>1, <2>1 DEF Owners, IsPair, Queue
    <3>2. NEXT \notin n.flags[q.next[c]]
      BY <1>2, <3>1
    <3> QED  BY <2>1, <3>2 DEF Rest, After
  <2>2. CASE NEXT \notin q.flags[c]
    BY <2>2 DEF Rest, After
  <2> QED  BY <2>1, <2>2
<1>4. Cardinality(Heads(P)) \in Nat /\ q.num_free \in Nat /\ Num \in Nat
  BY HeadsCount, QueueAssumption DEF Queue
<1>5. Num - n.num_free - Rest(n, After(q, c)) - 2 * Cardinality(Heads(P)) - 2 * b
        = Num - q.num_free - Rest(q, {c}) - 2 * Cardinality(Heads(P)) - 2 * b
  BY <1>2, <1>3, <1>4
<1> QED  BY <1>2, <1>5 DEF Kept, n

\* One more request is made available.
LEMMA KeptPublish ==
  ASSUME NEW q \in Queue(Addr), NEW P, DOMAIN P = Desc, NEW b \in Nat, Kept(q, P, {}, b),
         q.num_free >= 2, NEW sqe \in Sqe, sqe.kind \in Side, sqe.user # None
  PROVE  LET n == Submit(WriteChain(q, sqe), q.free_head)
             N == [P EXCEPT ![q.free_head] = sqe.user]
         IN  /\ n \in Queue(Addr) /\ Kept(n, N, {}, b)
             /\ q.free_head \in Desc /\ P[q.free_head] = None
             /\ \E F : Published(sqe.kind, q, n, F, sqe.user)
             /\ \A h \in Heads(P) : Pair(q, h) \subseteq Desc \ {q.free_head, q.next[q.free_head]}
<1> DEFINE n == Submit(WriteChain(q, sqe), q.free_head)
           N == [P EXCEPT ![q.free_head] = sqe.user]
<1>1. PICK F : Owners(q, Heads(P), {}, F)
  BY DEF Kept
<1>2. Published(sqe.kind, q, n, F, sqe.user)
  BY <1>1, PublishIs DEF Owners
<1> HIDE DEF n
<1>3. /\ q.free_head \notin Heads(P) /\ q.free_head \in Desc
      /\ \E G : Owners(n, Heads(P) \cup {q.free_head}, {}, G)
      /\ \A h \in Heads(P) : Pair(q, h) \subseteq Desc \ {q.free_head, q.next[q.free_head]}
  BY <1>1, <1>2, HeadsCount, OwnersPublish
<1>4. P[q.free_head] = None
  BY <1>3 DEF Heads
<1>5. /\ Heads(N) = Heads(P) \cup {q.free_head}
      /\ Cardinality(Heads(N)) = Cardinality(Heads(P)) + 1
  BY <1>3, <1>4, HeadsPut
<1> HIDE DEF N
<1>6. n \in Queue(Addr) /\ n.num_free = q.num_free - 2
  BY <1>2 DEF Published
<1>7. Cardinality(Heads(P)) \in Nat /\ q.num_free \in Nat /\ Num \in Nat
  BY HeadsCount, QueueAssumption DEF Queue
<1>8. Rest(n, {}) = 0 /\ Rest(q, {}) = 0
  BY DEF Rest
<1>9. Num - n.num_free - 0 - 2 * Cardinality(Heads(N)) - 2 * b
        = Num - q.num_free - 0 - 2 * Cardinality(Heads(P)) - 2 * b
  BY <1>5, <1>6, <1>7
<1>10. Kept(n, N, {}, b)
  BY <1>3, <1>5, <1>8, <1>9 DEF Kept
<1> QED  BY <1>2, <1>3, <1>4, <1>6, <1>10 DEF n, N

\* The arithmetic of losing the last descriptor of a queue.
LEMMA OddOne ==
  ASSUME NEW n \in Nat, NEW k \in Nat, NEW b \in Nat, n - 1 - 0 - 2 * k - 2 * b \in {0, n % 2}
  PROVE  n - 0 - 0 - 2 * k - 2 * b \in {0, n % 2}
BY Z3

\* A request finds fewer than two descriptors ...
LEMMA KeptRefuse ==
  ASSUME NEW q \in Queue(Addr), NEW P, NEW b \in Nat, Kept(q, P, {}, b), q.num_free < 2
  PROVE  LET n == IF CanAlloc(q) THEN AllocDesc(q) ELSE q
         IN  n \in Queue(Addr) /\ Kept(n, P, {}, b)
<1>1. PICK F : Owners(q, Heads(P), {}, F)
  BY DEF Kept
<1>2. Cardinality(Heads(P)) \in Nat /\ q.num_free \in Nat /\ Num \in Nat
  BY HeadsCount, QueueAssumption DEF Queue
<1>3. CASE ~CanAlloc(q)
  BY <1>3
<1>4. CASE CanAlloc(q)
  <2> DEFINE n == AllocDesc(q)
  <2>1. q.num_free = 1
    BY <1>2, <1>4 DEF CanAlloc
  <2>2. /\ n \in Queue(Addr) /\ n.num_free = q.num_free - 1
        /\ Owners(n, Heads(P), {}, F \ {q.free_head})
    BY <1>1, <1>4, OwnersAlloc
  <2> HIDE DEF n
  <2>3. Rest(n, {}) = 0 /\ Rest(q, {}) = 0
    BY DEF Rest
  <2>4. n.num_free = 0
    BY <2>1, <2>2
  <2>5. Num - 1 - 0 - 2 * Cardinality(Heads(P)) - 2 * b \in {0, Num % 2}
    BY <2>1, <2>3 DEF Kept
  <2>6. Num - 0 - 0 - 2 * Cardinality(Heads(P)) - 2 * b \in {0, Num % 2}
    BY <1>2, <2>5, OddOne
  <2>7. Kept(n, P, {}, b)
    BY <2>2, <2>3, <2>4, <2>6 DEF Kept
  <2> QED  BY <1>4, <2>2, <2>7 DEF n
<1> QED  BY <1>3, <1>4

\* ... or finds them, and then has an address that is refused.
LEMMA KeptLose ==
  ASSUME NEW q \in Queue(Addr), NEW P, NEW b \in Nat, Kept(q, P, {}, b), q.num_free >= 2
  PROVE  LET n == AllocDesc(AllocDesc(q))
         IN  n \in Queue(Addr) /\ Kept(n, P, {}, b + 1)
<1>1. PICK F : Owners(q, Heads(P), {}, F)
  BY DEF Kept
<1>2. Cardinality(Heads(P)) \in Nat /\ q.num_free \in Nat /\ Num \in Nat
  BY HeadsCount, QueueAssumption DEF Queue
<1> DEFINE a == AllocDesc(q)
           n == AllocDesc(a)
<1>3. /\ a \in Queue(Addr) /\ a.num_free = q.num_free - 1
      /\ \E G : Owners(a, Heads(P), {}, G)
  <2>1. CanAlloc(q)
    BY <1>2 DEF CanAlloc
  <2> QED  BY <1>1, <2>1, OwnersAlloc
<1> HIDE DEF a
<1>4. /\ n \in Queue(Addr) /\ n.num_free = q.num_free - 2
      /\ \E G : Owners(n, Heads(P), {}, G)
  <2>1. CanAlloc(a)
    BY <1>2, <1>3 DEF CanAlloc
  <2>2. PICK G : Owners(a, Heads(P), {}, G)
    BY <1>3
  <2>3. /\ n \in Queue(Addr) /\ n.num_free = a.num_free - 1
        /\ Owners(n, Heads(P), {}, G \ {a.free_head})
    BY <1>3, <2>1, <2>2, OwnersAlloc
  <2> QED  BY <1>2, <1>3, <2>3
<1> HIDE DEF n
<1>5. Rest(n, {}) = 0 /\ Rest(q, {}) = 0
  BY DEF Rest
<1>6. Num - n.num_free - 0 - 2 * Cardinality(Heads(P)) - 2 * (b + 1)
        = Num - q.num_free - 0 - 2 * Cardinality(Heads(P)) - 2 * b
  BY <1>2, <1>4
<1>7. Kept(n, P, {}, b + 1)
  BY <1>4, <1>5, <1>6 DEF Kept
<1> QED  BY <1>4, <1>7 DEF n, a

-----------------------------------------------------------------------------
(* The variables by who writes them, and the actions by what they do to    *)
(* the driver's and the device's registers.                                *)

VqType  == /\ vq \in [Side -> Queue(Addr)]
           /\ pending \in [Side -> [Desc -> Users \cup {None}]]
           /\ bad \in [Side -> Nat]
DrvType == drv \in [pc : {"idle", "irq", "ack", "pop", "free", "fetch", "submit", "notify"},
                    side : Side, curr : Desc, batch : Seq(Sqe)]
Cqe     == [user : Users, res : {Answer("rx", n) : n \in Lens} \cup {0, -1}]
RingType == /\ sq \in Seq(Sqe) /\ cq \in Seq(Cqe)
            /\ exec \in [Users -> Done \cup {None}]
            /\ ask \in [Users -> Kinds \cup {None}] /\ owed \in BOOLEAN
DevType == /\ pend \subseteq {"IRQ", "SQ"} /\ masked \in BOOLEAN
           /\ dev \in [kick : SUBSET Side, seen : [Side -> Idx], held : [Side -> SUBSET Desc],
                       raise : BOOLEAN, isr : BOOLEAN]
           /\ rxlen \in [Desc -> Lens \cup {0}] /\ hidden \in BOOLEAN

\* TypeOK is the types of the queues, the driver, the rings and the device.
LEMMA TypeParts == TypeOK <=> VqType /\ DrvType /\ RingType /\ DevType
BY Zenon DEF TypeOK, VqType, DrvType, RingType, DevType, Cqe

\* The fields of drv that a step leaves alone.
SameWalk  == drv'.side = drv.side /\ drv'.curr = drv.curr
SameBatch == drv'.batch = drv.batch

\* Where each step of the driver takes it, and which touch the walk and the batch.
LEMMA Moves ==
  ASSUME DrvType
  PROVE  /\ RecvIrq => drv'.pc = "irq" /\ SameWalk /\ SameBatch
         /\ RecvRing => drv'.pc = "fetch" /\ SameWalk /\ SameBatch
         /\ IrqRead => drv'.pc = (IF dev.isr THEN "ack" ELSE "idle") /\ SameWalk /\ SameBatch
         /\ IrqAck => drv'.pc = "pop" /\ drv'.side = "rx" /\ drv'.curr = drv.curr /\ SameBatch
         /\ PopNone => /\ drv'.curr = drv.curr /\ SameBatch
                       /\ \/ drv.side = "rx" /\ drv'.side = "tx" /\ drv'.pc = "pop"
                          \/ drv.side = "tx" /\ drv'.side = "tx" /\ drv'.pc = "idle"
         /\ Fetch => drv'.pc = "fetch" /\ SameWalk /\ drv'.batch = Append(drv.batch, Head(sq))
         /\ FetchDone => drv'.pc = "submit" /\ SameWalk /\ SameBatch
         /\ RefuseOp \/ RefuseNoDesc \/ RefuseAddr =>
              drv'.pc = "submit" /\ SameWalk /\ drv'.batch = Tail(drv.batch)
         /\ Publish => drv'.pc = "notify" /\ SameWalk /\ SameBatch
         /\ Notify => drv'.pc = "submit" /\ SameWalk /\ drv'.batch = Tail(drv.batch)
         /\ SubmitDone => drv'.pc = "idle" /\ SameWalk /\ SameBatch
<1> USE DEF DrvType, SameWalk, SameBatch
<1>1. PopNone => /\ drv'.curr = drv.curr /\ SameBatch
                 /\ \/ drv.side = "rx" /\ drv'.side = "tx" /\ drv'.pc = "pop"
                    \/ drv.side = "tx" /\ drv'.side = "tx" /\ drv'.pc = "idle"
  <2>1. drv.side = "rx" \/ drv.side = "tx"
    BY DEF Side
  <2>2. CASE drv.side = "rx"
    BY <2>2 DEF PopNone
  <2>3. CASE drv.side = "tx"
    BY <2>3 DEF PopNone
  <2> QED  BY <2>1, <2>2, <2>3
<1>2. RefuseOp \/ RefuseNoDesc \/ RefuseAddr =>
        drv'.pc = "submit" /\ SameWalk /\ drv'.batch = Tail(drv.batch)
  BY DEF RefuseOp, RefuseNoDesc, RefuseAddr, Refuse, Submitting
<1>3. /\ RecvIrq => drv'.pc = "irq" /\ SameWalk /\ SameBatch
      /\ RecvRing => drv'.pc = "fetch" /\ SameWalk /\ SameBatch
      /\ IrqRead => drv'.pc = (IF dev.isr THEN "ack" ELSE "idle") /\ SameWalk /\ SameBatch
      /\ IrqAck => drv'.pc = "pop" /\ drv'.side = "rx" /\ drv'.curr = drv.curr /\ SameBatch
  BY DEF RecvIrq, RecvRing, IrqRead, IrqAck
<1>4. /\ Fetch => drv'.pc = "fetch" /\ SameWalk /\ drv'.batch = Append(drv.batch, Head(sq))
      /\ FetchDone => drv'.pc = "submit" /\ SameWalk /\ SameBatch
      /\ Publish => drv'.pc = "notify" /\ SameWalk /\ SameBatch
      /\ Notify => drv'.pc = "submit" /\ SameWalk /\ drv'.batch = Tail(drv.batch)
      /\ SubmitDone => drv'.pc = "idle" /\ SameWalk /\ SameBatch
  BY DEF Fetch, FetchDone, Publish, Notify, SubmitDone
<1> QED  BY <1>1, <1>2, <1>3, <1>4

\* The two steps of the loop over the used ring.
LEMMA WalkMoves ==
  ASSUME DrvType
  PROVE  /\ PopOne => /\ drv'.side = drv.side /\ SameBatch /\ drv.pc = "pop"
                      /\ \/ pending[drv.side][PopId(vq[drv.side])] = None /\ drv' = drv
                         \/ /\ pending[drv.side][PopId(vq[drv.side])] # None
                            /\ drv'.pc = "free" /\ drv'.curr = PopId(vq[drv.side])
         /\ FreeOne => /\ drv'.side = drv.side /\ SameBatch /\ drv.pc = "free"
                       /\ \/ NEXT \in vq[drv.side].flags[drv.curr]
                             /\ drv'.pc = "free" /\ drv'.curr = vq[drv.side].next[drv.curr]
                          \/ NEXT \notin vq[drv.side].flags[drv.curr]
                             /\ drv'.pc = "pop" /\ drv'.curr = drv.curr
<1> USE DEF DrvType, SameBatch
<1>1. ASSUME PopOne
      PROVE  /\ drv'.side = drv.side /\ SameBatch /\ drv.pc = "pop"
             /\ \/ pending[drv.side][PopId(vq[drv.side])] = None /\ drv' = drv
                \/ /\ pending[drv.side][PopId(vq[drv.side])] # None
                   /\ drv'.pc = "free" /\ drv'.curr = PopId(vq[drv.side])
  BY <1>1 DEF PopOne
<1>2. ASSUME FreeOne
      PROVE  /\ drv'.side = drv.side /\ SameBatch /\ drv.pc = "free"
             /\ \/ NEXT \in vq[drv.side].flags[drv.curr]
                   /\ drv'.pc = "free" /\ drv'.curr = vq[drv.side].next[drv.curr]
                \/ NEXT \notin vq[drv.side].flags[drv.curr]
                   /\ drv'.pc = "pop" /\ drv'.curr = drv.curr
  <2>1. CASE NEXT \in vq[drv.side].flags[drv.curr]
    <3>1. drv' = [drv EXCEPT !.curr = vq[drv.side].next[drv.curr]] /\ drv.pc = "free"
      BY <1>2, <2>1 DEF FreeOne
    <3> QED  BY <2>1, <3>1
  <2>2. CASE NEXT \notin vq[drv.side].flags[drv.curr]
    <3>1. drv' = [drv EXCEPT !.pc = "pop"] /\ drv.pc = "free"
      BY <1>2, <2>2 DEF FreeOne
    <3> QED  BY <2>2, <3>1
  <2> QED  BY <2>1, <2>2
<1> QED  BY <1>1, <1>2

\* Steps of the others, and stuttering.
DevGives == \E s \in Side : \E h \in dev.held[s], n \in IF s = "rx" THEN Lens ELSE {Sent} : DevDone(s, h, n)
DevLooks == \E s \in Side : DevTake(s) \/ DevSleep(s)
Elsewhere == DevLooks \/ DevGives \/ DevRaise \/ KernelIrq \/ Client \/ UNCHANGED vars

\* What the device, the kernel and the client do leaves the driver where it is.
LEMMA ElsewhereDrv == ASSUME Elsewhere PROVE drv' = drv
<1> USE DEF vars
<1>1. CASE DevLooks \/ DevRaise \/ DevGives
  BY <1>1 DEF DevLooks, DevTake, DevSleep, DevRaise, DevGives, DevDone
<1>2. CASE KernelIrq \/ Client \/ UNCHANGED vars
  BY <1>2 DEF KernelIrq, Client, ClientNotify, ClientReap, ClientSubmit
<1> QED  BY <1>1, <1>2 DEF Elsewhere

\* Every step is one of the driver's, or happens elsewhere.
LEMMA NextIs ==
  ASSUME [Next]_vars
  PROVE  \/ RecvIrq \/ RecvRing \/ IrqRead \/ IrqAck \/ PopOne \/ PopNone \/ FreeOne
         \/ Fetch \/ FetchDone \/ RefuseOp \/ RefuseNoDesc \/ RefuseAddr
         \/ Publish \/ Notify \/ SubmitDone \/ Elsewhere
BY DEF Next, Driver, Device, Elsewhere, DevLooks, DevGives

-----------------------------------------------------------------------------
(* Every step keeps the owners of the descriptors.                         *)

VqInv == VqType /\ Chains

\* Steps that leave both queues alone, and steps of one of them.
LEMMA VqQuiet ==
  ASSUME VqInv, UNCHANGED <<vq, pending, bad>>, \A s \in Side : Walk(s)' = Walk(s)
  PROVE  VqInv'
BY DEF VqInv, VqType, Chains

\* A step that changes one queue is right when that queue is, the other being as it was.
LEMMA VqOne ==
  ASSUME VqInv, NEW s \in Side, NEW n \in Queue(Addr), NEW P \in [Desc -> Users \cup {None}],
         NEW b \in Nat, Kept(n, P, Walk(s)', b),
         vq' = [vq EXCEPT ![s] = n], pending' = [pending EXCEPT ![s] = P],
         bad' = [bad EXCEPT ![s] = b],
         \A t \in Side : t # s => Walk(t)' = Walk(t)
  PROVE  VqInv'
<1>1. VqType'
  BY DEF VqInv, VqType
<1>2. ASSUME NEW t \in Side PROVE Kept(vq'[t], pending'[t], Walk(t)', bad'[t])
  <2>1. CASE t = s
    <3>1. vq'[t] = n /\ pending'[t] = P /\ bad'[t] = b
      BY <2>1 DEF VqInv, VqType
    <3> QED  BY <2>1, <3>1
  <2>2. CASE t # s
    <3>1. vq'[t] = vq[t] /\ pending'[t] = pending[t] /\ bad'[t] = bad[t]
      BY <2>2 DEF VqInv, VqType
    <3>2. Kept(vq[t], pending[t], Walk(t), bad[t])
      BY DEF VqInv, Chains
    <3> QED  BY <2>2, <3>1, <3>2
  <2> QED  BY <2>1, <2>2
<1> QED  BY <1>1, <1>2 DEF VqInv, Chains

\* What is known of the queue of a side.
LEMMA VqIs ==
  ASSUME VqInv, NEW s \in Side
  PROVE  /\ vq[s] \in Queue(Addr) /\ pending[s] \in [Desc -> Users \cup {None}]
         /\ DOMAIN pending[s] = Desc /\ bad[s] \in Nat
         /\ Kept(vq[s], pending[s], Walk(s), bad[s])
         /\ [pending EXCEPT ![s] = pending[s]] = pending
         /\ [bad EXCEPT ![s] = bad[s]] = bad
         /\ \A F : FreeList(vq[s], F) =>
              \A id \in Desc : /\ Pop(vq[s]) \in Queue(Addr) /\ FreeList(Pop(vq[s]), F)
                               /\ DevUse(vq[s], id) \in Queue(Addr) /\ FreeList(DevUse(vq[s], id), F)
<1>1. vq[s] \in Queue(Addr)
  BY DEF VqInv, VqType
<1>2. \A F : FreeList(vq[s], F) =>
        \A id \in Desc : /\ Pop(vq[s]) \in Queue(Addr) /\ FreeList(Pop(vq[s]), F)
                         /\ DevUse(vq[s], id) \in Queue(Addr) /\ FreeList(DevUse(vq[s], id), F)
  BY <1>1, RingsFree
<1> QED  BY <1>1, <1>2 DEF VqInv, VqType, Chains

\* There is always a free list, be it empty.
LEMMA ListIs ==
  ASSUME VqInv, NEW s \in Side
  PROVE  \E F : FreeList(vq[s], F)
BY VqIs DEF Kept, Owners

\* Popping a completion turns its recorded chain into the one being freed.
LEMMA VqPopOne ==
  ASSUME VqInv, DrvType, PopOne
  PROVE  VqInv'
<1>0. PICK s \in Side : s = drv.side
  BY DEF DrvType
<1> DEFINE q == vq[s]
           n == Pop(q)
           h == PopId(q)
<1>1. s \in Side /\ drv.pc = "pop" /\ vq' = [vq EXCEPT ![s] = n] /\ bad' = bad
  BY <1>0 DEF PopOne, histVars
<1>2. /\ q \in Queue(Addr) /\ pending[s] \in [Desc -> Users \cup {None}] /\ bad[s] \in Nat
      /\ DOMAIN pending[s] = Desc
      /\ Kept(q, pending[s], Walk(s), bad[s]) /\ bad' = [bad EXCEPT ![s] = bad[s]]
      /\ pending = [pending EXCEPT ![s] = pending[s]]
  BY <1>1, VqIs
<1>3. n \in Queue(Addr) /\ \A F : FreeList(q, F) => FreeList(n, F)
  <2>1. 0 \in Desc
    BY QueueAssumption DEF Desc
  <2> QED  BY <1>1, <2>1, VqIs, ListIs
<1>4. /\ n.next = q.next /\ n.flags = q.flags /\ n.num_free = q.num_free
      /\ h \in Desc
  <2>1. n.num_free = q.num_free
    BY <1>2 DEF Pop, Queue
  <2>2. h \in Desc
    BY <1>2, RingIndex DEF PopId, Queue
  <2> QED  BY <1>2, <2>1, <2>2, PopFields DEF SameChains
<1>5. Walk(s) = {} /\ \A t \in Side : t # s => Walk(t)' = Walk(t)
  BY <1>0, <1>1, WalkMoves DEF Walk
<1>6. CASE pending[s][h] = None
  <2>1. UNCHANGED <<pending, drv>>
    BY <1>0, <1>6 DEF PopOne
  <2>2. Kept(n, pending[s], Walk(s)', bad[s])
    <3>1. Walk(s)' = Walk(s)
      BY <2>1 DEF Walk
    <3> HIDE DEF n, q
    <3> QED  BY <1>2, <1>3, <1>4, <3>1, KeptFrame
  <2> HIDE DEF n, q, h
  <2> QED  BY <1>1, <1>2, <1>3, <1>5, <2>1, <2>2, VqOne
<1>7. CASE pending[s][h] # None
  <2> DEFINE P == [pending[s] EXCEPT ![h] = None]
  <2>1. pending' = [pending EXCEPT ![s] = P]
    BY <1>0, <1>2, <1>7 DEF PopOne, VqInv, VqType
  <2>2. Walk(s)' = {h}
    BY <1>0, <1>1, <1>7, WalkMoves DEF Walk
  <2>3. Kept(n, P, {h}, bad[s])
    <3> HIDE DEF n, q, h
    <3>1. Kept(q, P, {h}, bad[s])
      BY <1>2, <1>4, <1>5, <1>7, KeptPop
    <3> HIDE DEF P
    <3> QED  BY <1>3, <1>4, <3>1, KeptFrame
  <2>4. P \in [Desc -> Users \cup {None}]
    BY <1>2
  <2> HIDE DEF n, q, h, P
  <2>5. n \in Queue(Addr) /\ bad[s] \in Nat /\ Kept(n, P, Walk(s)', bad[s])
    BY <1>2, <1>3, <2>2, <2>3
  <2>6. vq' = [vq EXCEPT ![s] = n] /\ bad' = [bad EXCEPT ![s] = bad[s]]
    BY <1>1, <1>2
  <2>7. \A t \in Side : t # s => Walk(t)' = Walk(t)
    BY <1>5
  <2> QED  BY <2>1, <2>4, <2>5, <2>6, <2>7, VqOne
<1> QED  BY <1>6, <1>7

\* Freeing one descriptor of the walk moves it to the free list, and the walk on.
LEMMA VqFreeOne ==
  ASSUME VqInv, DrvType, FreeOne
  PROVE  VqInv'
<1>0. PICK s \in Side, c \in Desc : s = drv.side /\ c = drv.curr
  BY DEF DrvType
<1> DEFINE q == vq[s]
           n == FreeDesc(q, c)
<1>1. /\ s \in Side /\ c \in Desc /\ drv.pc = "free" /\ vq' = [vq EXCEPT ![s] = n]
      /\ bad' = bad /\ pending' = pending
  BY <1>0 DEF FreeOne, histVars
<1>2. /\ q \in Queue(Addr) /\ pending[s] \in [Desc -> Users \cup {None}] /\ bad[s] \in Nat
      /\ Kept(q, pending[s], Walk(s), bad[s]) /\ bad' = [bad EXCEPT ![s] = bad[s]]
      /\ pending' = [pending EXCEPT ![s] = pending[s]]
  BY <1>1, VqIs
<1>3. Walk(s) = {c} /\ \A t \in Side : t # s => Walk(t)' = Walk(t)
  BY <1>0, <1>1, WalkMoves DEF Walk
<1>4. Walk(s)' = After(q, c)
  BY <1>0, <1>1, WalkMoves DEF Walk, After
<1>5. n \in Queue(Addr) /\ Kept(n, pending[s], After(q, c), bad[s])
  <2> HIDE DEF q
  <2> QED  BY <1>1, <1>2, <1>3, KeptFree
<1> HIDE DEF n, q
<1>6. n \in Queue(Addr) /\ bad[s] \in Nat /\ Kept(n, pending[s], Walk(s)', bad[s])
  BY <1>2, <1>4, <1>5
<1>7. pending[s] \in [Desc -> Users \cup {None}] /\ vq' = [vq EXCEPT ![s] = n]
  BY <1>1, <1>2
<1>8. pending' = [pending EXCEPT ![s] = pending[s]] /\ bad' = [bad EXCEPT ![s] = bad[s]]
  BY <1>2
<1>9. \A t \in Side : t # s => Walk(t)' = Walk(t)
  BY <1>3
<1> QED  BY <1>6, <1>7, <1>8, <1>9, VqOne

\* The entry that is being submitted, and its side.
LEMMA SubIs ==
  ASSUME DrvType, drv.batch # << >>
  PROVE  /\ Sub \in Sqe /\ Sub.user \in Users /\ Sub.kind \in Kinds /\ SubSide \in Side
         /\ Sub.user # None /\ Tail(drv.batch) \in Seq(Sqe)
         /\ Sub.kind \in Side => SubSide = Sub.kind
<1>1. drv.batch \in Seq(Sqe)
  BY DEF DrvType
<1>2. Sub \in Sqe /\ Tail(drv.batch) \in Seq(Sqe)
  BY <1>1 DEF Sub
<1>3. Sub.user \in Users /\ Sub.kind \in Kinds
  BY <1>2 DEF Sqe
<1> QED  BY <1>2, <1>3, NetAssumption DEF SubSide, SideOf, Side

\* A refused request loses the descriptors it took, and no more than are counted.
LEMMA VqRefuse ==
  ASSUME VqInv, DrvType, RefuseNoDesc \/ RefuseAddr
  PROVE  VqInv'
<1>1. /\ drv.pc = "submit" /\ drv.batch # << >> /\ pending' = pending
  BY DEF RefuseNoDesc, RefuseAddr, Refuse, Submitting
<1>2. PICK s \in Side : s = SubSide
  BY <1>1, SubIs
<1> DEFINE q == vq[s]
<1>3. /\ q \in Queue(Addr) /\ pending[s] \in [Desc -> Users \cup {None}] /\ bad[s] \in Nat
      /\ Kept(q, pending[s], Walk(s), bad[s]) /\ bad = [bad EXCEPT ![s] = bad[s]]
      /\ pending' = [pending EXCEPT ![s] = pending[s]]
  BY <1>1, <1>2, VqIs
<1>4. Walk(s) = {} /\ Walk(s)' = {} /\ \A t \in Side : t # s => Walk(t)' = Walk(t)
  BY <1>1, Moves DEF Walk
<1>5. CASE RefuseNoDesc
  <2> DEFINE n == IF CanAlloc(q) THEN AllocDesc(q) ELSE q
  <2>1. vq' = [vq EXCEPT ![s] = n] /\ bad' = bad /\ q.num_free < 2
    BY <1>2, <1>5 DEF RefuseNoDesc, SubQueue
  <2>2. n \in Queue(Addr) /\ Kept(n, pending[s], {}, bad[s])
    <3> HIDE DEF q
    <3> QED  BY <1>3, <1>4, <2>1, KeptRefuse
  <2> HIDE DEF n, q
  <2>3. bad' = [bad EXCEPT ![s] = bad[s]] /\ Kept(n, pending[s], Walk(s)', bad[s])
    BY <1>3, <1>4, <2>1, <2>2
  <2> QED  BY <1>3, <1>4, <2>1, <2>2, <2>3, VqOne
<1>6. CASE RefuseAddr
  <2> DEFINE n == AllocDesc(AllocDesc(q))
             b == bad[s] + 1
  <2>1. vq' = [vq EXCEPT ![s] = n] /\ bad' = [bad EXCEPT ![s] = b] /\ q.num_free >= 2
    BY <1>2, <1>6 DEF RefuseAddr, SubQueue
  <2>2. n \in Queue(Addr) /\ Kept(n, pending[s], {}, b) /\ b \in Nat
    <3> HIDE DEF q
    <3> QED  BY <1>3, <1>4, <2>1, KeptLose
  <2> HIDE DEF n, q, b
  <2> QED  BY <1>2, <1>3, <1>4, <2>1, <2>2, VqOne
<1> QED  BY <1>5, <1>6

\* The fields of the queue a request is made available on.
LEMMA PublishedIs ==
  ASSUME VqInv, DrvType, Publish
  PROVE  LET s == SubSide
             h == vq[s].free_head
             n == Submit(WriteChain(vq[s], Sub), h)
             P == [pending[s] EXCEPT ![h] = Sub.user]
         IN  /\ s \in Side /\ Sub.kind = s /\ drv.batch # << >> /\ drv.pc = "submit"
             /\ Sub \in Sqe /\ Sub.user \in Users
             /\ vq' = [vq EXCEPT ![s] = n] /\ pending' = [pending EXCEPT ![s] = P] /\ bad' = bad
             /\ n \in Queue(Addr) /\ Kept(n, P, {}, bad[s]) /\ P \in [Desc -> Users \cup {None}]
             /\ h \in Desc /\ pending[s][h] = None
             /\ \E F : Published(s, vq[s], n, F, Sub.user)
             /\ \A g \in Heads(pending[s]) : Pair(vq[s], g) \subseteq Desc \ {h, vq[s].next[h]}
<1> DEFINE s == SubSide
           q == vq[s]
           h == q.free_head
           n == Submit(WriteChain(q, Sub), h)
           P == [pending[s] EXCEPT ![h] = Sub.user]
<1>1. /\ drv.pc = "submit" /\ drv.batch # << >> /\ bad' = bad /\ Sub.kind \in Side
      /\ q.num_free >= 2
  BY DEF Publish, Submitting, histVars, SubQueue
<1>2. s \in Side /\ Sub.kind = s /\ Sub \in Sqe /\ Sub.user \in Users /\ Sub.user # None
  BY <1>1, SubIs
<1>3. /\ q \in Queue(Addr) /\ pending[s] \in [Desc -> Users \cup {None}] /\ bad[s] \in Nat
      /\ DOMAIN pending[s] = Desc /\ Kept(q, pending[s], Walk(s), bad[s])
  BY <1>2, VqIs
<1>4. Walk(s) = {}
  BY <1>1 DEF Walk
<1>5. vq' = [vq EXCEPT ![s] = n] /\ pending' = [pending EXCEPT ![s] = P]
  <2>1. /\ pending' = [pending EXCEPT ![SubSide][SubQueue.free_head] = Sub.user]
        /\ vq' = [vq EXCEPT ![SubSide] = Submit(WriteChain(@, Sub), SubQueue.free_head)]
    BY DEF Publish
  <2> QED  BY <1>2, <2>1 DEF SubQueue, VqInv, VqType
<1>6. P \in [Desc -> Users \cup {None}]
  BY <1>2, <1>3
<1>7. /\ n \in Queue(Addr) /\ Kept(n, P, {}, bad[s])
      /\ h \in Desc /\ pending[s][h] = None
      /\ \E F : Published(Sub.kind, q, n, F, Sub.user)
      /\ \A g \in Heads(pending[s]) : Pair(q, g) \subseteq Desc \ {h, q.next[h]}
  <2>1. Sub.kind \in Side
    BY <1>2
  <2> HIDE DEF q, s
  <2> QED  BY <1>1, <1>2, <1>3, <1>4, <2>1, KeptPublish
<1> QED  BY <1>1, <1>2, <1>5, <1>6, <1>7

\* A published request takes two free descriptors and is recorded under the first.
LEMMA VqPublish ==
  ASSUME VqInv, DrvType, Publish
  PROVE  VqInv'
<1>0. PICK s \in Side : s = SubSide
  BY PublishedIs
<1> DEFINE h == vq[s].free_head
           n == Submit(WriteChain(vq[s], Sub), h)
           P == [pending[s] EXCEPT ![h] = Sub.user]
<1>1. /\ drv.pc = "submit"
      /\ vq' = [vq EXCEPT ![s] = n] /\ pending' = [pending EXCEPT ![s] = P] /\ bad' = bad
      /\ n \in Queue(Addr) /\ Kept(n, P, {}, bad[s]) /\ P \in [Desc -> Users \cup {None}]
  BY <1>0, PublishedIs
<1>2. bad[s] \in Nat /\ bad' = [bad EXCEPT ![s] = bad[s]]
  BY <1>1, VqIs
<1>3. Walk(s)' = {} /\ \A t \in Side : t # s => Walk(t)' = Walk(t)
  BY <1>1, Moves DEF Walk
<1> HIDE DEF n, P, h
<1> QED  BY <1>1, <1>2, <1>3, VqOne

\* The device giving a chain back changes the owner of no descriptor.
LEMMA VqDevDone ==
  ASSUME VqInv, DevType, NEW s \in Side, NEW h \in dev.held[s], NEW x, DevDone(s, h, x)
  PROVE  VqInv'
<1> DEFINE q == vq[s]
           n == DevUse(q, h)
<1>1. h \in Desc /\ vq' = [vq EXCEPT ![s] = n] /\ UNCHANGED <<pending, bad, drv>>
  BY DEF DevDone, DevType, histVars
<1>2. /\ q \in Queue(Addr) /\ pending[s] \in [Desc -> Users \cup {None}] /\ bad[s] \in Nat
      /\ Kept(q, pending[s], Walk(s), bad[s]) /\ bad = [bad EXCEPT ![s] = bad[s]]
      /\ pending = [pending EXCEPT ![s] = pending[s]]
  BY VqIs
<1>3. n \in Queue(Addr) /\ \A F : FreeList(q, F) => FreeList(n, F)
  BY <1>1, VqIs, ListIs
<1>4. n.next = q.next /\ n.flags = q.flags /\ n.num_free = q.num_free
  <2>1. n.num_free = q.num_free
    BY <1>2 DEF DevUse, Queue
  <2> QED  BY <1>1, <1>2, <2>1, DevUseFields, ZenonT(30) DEF SameChains
<1>5. \A t \in Side : Walk(t)' = Walk(t)
  BY <1>1 DEF Walk
<1> HIDE DEF n, q
<1>6. Kept(n, pending[s], Walk(s)', bad[s])
  BY <1>2, <1>3, <1>4, <1>5, KeptFrame
<1> QED  BY <1>1, <1>2, <1>3, <1>5, <1>6, VqOne

\* Every step keeps every descriptor owned once, or counted as lost.
LEMMA VqStep ==
  ASSUME VqInv, DrvType, DevType, [Next]_vars
  PROVE  VqInv'
<1>1. CASE RecvIrq \/ RecvRing \/ IrqRead \/ IrqAck \/ PopNone
  <2>1. UNCHANGED <<vq, pending, bad>>
    BY <1>1 DEF RecvIrq, RecvRing, IrqRead, IrqAck, PopNone, histVars
  <2>2. drv.pc # "free" /\ drv'.pc # "free"
    BY <1>1, Moves DEF RecvIrq, RecvRing, IrqRead, IrqAck, PopNone
  <2> QED  BY <2>1, <2>2, VqQuiet DEF Walk
<1>2. CASE Fetch \/ FetchDone \/ RefuseOp \/ Notify \/ SubmitDone
  <2>1. UNCHANGED <<vq, pending, bad>>
    BY <1>2 DEF Fetch, FetchDone, RefuseOp, Refuse, Notify, SubmitDone, histVars
  <2>2. drv.pc # "free" /\ drv'.pc # "free"
    BY <1>2, Moves DEF Fetch, FetchDone, RefuseOp, Submitting, Notify, SubmitDone
  <2> QED  BY <2>1, <2>2, VqQuiet DEF Walk
<1>3. CASE DevLooks \/ DevRaise \/ KernelIrq \/ Client \/ UNCHANGED vars
  <2>1. UNCHANGED <<vq, pending, bad, drv>>
    BY <1>3 DEF DevLooks, DevTake, DevSleep, DevRaise, KernelIrq, Client, ClientNotify,
                ClientReap, ClientSubmit, histVars, vars
  <2> QED  BY <2>1, VqQuiet DEF Walk
<1>4. CASE DevGives
  BY <1>4, VqDevDone DEF DevGives
<1> QED  BY <1>1, <1>2, <1>3, <1>4, VqPopOne, VqFreeOne, VqRefuse, VqPublish, NextIs DEF Elsewhere

-----------------------------------------------------------------------------
(* Every step keeps the types and the control of the driver.               *)

\* LeakExact follows from who owns the descriptors.
LEMMA LeakIs == ASSUME Chains PROVE LeakExact
<1> SUFFICES ASSUME NEW s \in Side PROVE Lost(s) - 2 * bad[s] \in {0, Num % 2}
  BY DEF LeakExact
<1>1. Kept(vq[s], pending[s], Walk(s), bad[s])
  BY DEF Chains
<1>2. Rest(vq[s], Walk(s)) = ChainLeft(s)
  BY DEF Rest, Walk, ChainLeft
<1> QED  BY <1>1, <1>2 DEF Kept, Lost, Heads

\* The registers of the driver keep their types.
LEMMA DrvStep ==
  ASSUME VqType, DrvType, RingType, Control, [Next]_vars
  PROVE  DrvType'
<1> DEFINE R == [pc : {"idle", "irq", "ack", "pop", "free", "fetch", "submit", "notify"},
                 side : Side, curr : Desc, batch : Seq(Sqe)]
<1>1. drv \in R /\ sq \in Seq(Sqe)
  BY DEF DrvType, RingType
<1>2. CASE RecvIrq \/ RecvRing \/ IrqRead \/ IrqAck \/ PopNone
  BY <1>1, <1>2 DEF RecvIrq, RecvRing, IrqRead, IrqAck, PopNone, Side, DrvType
<1>3. CASE Fetch
  <2>1. Head(sq) \in Sqe /\ drv.batch \in Seq(Sqe)
    BY <1>1, <1>3 DEF Fetch
  <2>2. Append(drv.batch, Head(sq)) \in Seq(Sqe)
    BY <2>1
  <2> QED  BY <1>1, <1>3, <2>2 DEF Fetch, DrvType
<1>4. CASE RefuseOp \/ RefuseNoDesc \/ RefuseAddr \/ Notify
  <2>1. drv.batch # << >> => Tail(drv.batch) \in Seq(Sqe)
    BY <1>1
  <2>2. CASE RefuseOp \/ RefuseNoDesc \/ RefuseAddr
    BY <1>1, <2>1, <2>2 DEF RefuseOp, RefuseNoDesc, RefuseAddr, Refuse, Submitting, DrvType
  <2>3. CASE Notify
    <3>1. Tail(drv.batch) \in Seq(Sqe)
      BY <1>1, <2>1, <2>3 DEF Notify, Control
    <3> QED  BY <1>1, <2>3, <3>1 DEF Notify, DrvType
  <2> QED  BY <1>4, <2>2, <2>3
<1>5. CASE FetchDone \/ Publish \/ SubmitDone
  BY <1>1, <1>5 DEF FetchDone, Publish, SubmitDone, DrvType
<1>6. CASE PopOne
  <2>1. PopId(vq[drv.side]) \in Desc
    BY <1>1, RingIndex DEF PopId, Queue, VqType
  <2> QED  BY <1>1, <1>6, <2>1 DEF PopOne, DrvType
<1>7. CASE FreeOne
  <2>1. vq[drv.side].next[drv.curr] \in Desc
    BY <1>1 DEF Queue, VqType
  <2> QED  BY <1>1, <1>7, <2>1 DEF FreeOne, DrvType
<1>8. CASE Elsewhere
  BY <1>8, ElsewhereDrv DEF DrvType
<1> QED  BY <1>2, <1>3, <1>4, <1>5, <1>6, <1>7, <1>8, NextIs

\* A batch is only held while it is being fetched and submitted.
LEMMA ControlStep ==
  ASSUME DrvType, Control, [Next]_vars
  PROVE  Control'
<1> USE DEF Control, SameBatch
<1>1. CASE RecvIrq \/ RecvRing \/ IrqRead \/ IrqAck \/ PopNone
  BY <1>1, Moves DEF RecvIrq, RecvRing, IrqRead, IrqAck, PopNone
<1>2. CASE Fetch \/ FetchDone \/ RefuseOp \/ RefuseNoDesc \/ RefuseAddr \/ Notify
  BY <1>2, Moves
<1>3. CASE Publish \/ SubmitDone
  BY <1>3, Moves DEF Publish, Submitting, SubmitDone
<1>4. CASE PopOne \/ FreeOne
  BY <1>4, WalkMoves
<1>5. CASE Elsewhere
  BY <1>5, ElsewhereDrv
<1> QED  BY <1>1, <1>2, <1>3, <1>4, <1>5, NextIs

\* The answer to a request fits the completion ring.
LEMMA PopCqe ==
  ASSUME VqType, DrvType, DevType, PopOne
  PROVE  LET s == drv.side
             h == PopId(vq[s])
             e == [user |-> pending[s][h], res |-> Answer(s, rxlen[vq[s].last_used_idx % Num])]
         IN  \/ pending[s][h] = None /\ cq' = cq
             \/ pending[s][h] # None /\ e \in Cqe /\ cq' = Append(cq, e)
<1>0. PICK s \in Side : s = drv.side
  BY DEF DrvType
<1> DEFINE h == PopId(vq[s])
           n == rxlen[vq[s].last_used_idx % Num]
<1>1. h \in Desc /\ n \in Lens \cup {0}
  BY RingIndex DEF PopId, Queue, VqType, DevType
<1>2. Answer(s, n) \in {Answer("rx", m) : m \in Lens} \cup {0, -1}
  <2>1. CASE n \in Lens
    BY <2>1 DEF Answer, Side
  <2>2. CASE n = 0
    BY <2>2, NetAssumption DEF Answer
  <2> QED  BY <1>1, <2>1, <2>2
<1>3. pending[s][h] \in Users \cup {None}
  BY <1>1 DEF VqType
<1> HIDE DEF h, n
<1>4. pending[s][h] # None => [user |-> pending[s][h], res |-> Answer(s, n)] \in Cqe
  BY <1>2, <1>3 DEF Cqe
<1>5. \/ pending[s][h] = None /\ cq' = cq
      \/ /\ pending[s][h] # None
         /\ cq' = Append(cq, [user |-> pending[s][h], res |-> Answer(s, n)])
  BY <1>0 DEF PopOne, h, n
<1> QED  BY <1>0, <1>4, <1>5 DEF h, n

\* Every action by what it does to memory shared with the client.
LEMMA RingStep ==
  ASSUME VqType, DrvType, RingType, DevType, [Next]_vars
  PROVE  RingType'
<1>1. /\ sq \in Seq(Sqe) /\ cq \in Seq(Cqe) /\ exec \in [Users -> Done \cup {None}]
      /\ ask \in [Users -> Kinds \cup {None}] /\ owed \in BOOLEAN
  BY DEF RingType
<1>2. CASE RecvIrq \/ RecvRing \/ IrqRead \/ IrqAck \/ PopNone \/ FreeOne
  <2>1. UNCHANGED <<sq, cq, exec, ask, owed>>
    BY <1>2 DEF RecvIrq, RecvRing, IrqRead, IrqAck, PopNone, FreeOne, ringVars, deviceVars, clientVars
  <2> QED  BY <1>1, <2>1 DEF RingType
<1>3. CASE FetchDone \/ Publish \/ Notify \/ SubmitDone
  <2>1. UNCHANGED <<sq, cq, exec, ask, owed>>
    BY <1>3 DEF FetchDone, Publish, Notify, SubmitDone, ringVars, deviceVars, clientVars
  <2> QED  BY <1>1, <2>1 DEF RingType
<1>4. CASE DevLooks \/ DevRaise \/ KernelIrq \/ UNCHANGED vars
  <2>1. UNCHANGED <<sq, cq, exec, ask, owed>>
    BY <1>4 DEF DevLooks, DevTake, DevSleep, DevRaise, KernelIrq, ringVars, deviceVars, clientVars, vars
  <2> QED  BY <1>1, <2>1 DEF RingType
<1>5. CASE RefuseOp \/ RefuseNoDesc \/ RefuseAddr
  <2>1. /\ cq' = Append(cq, [user |-> Sub.user, res |-> -1]) /\ drv.batch # << >>
        /\ UNCHANGED <<sq, exec, ask, owed>>
    BY <1>5 DEF RefuseOp, RefuseNoDesc, RefuseAddr, Submitting, Refuse, deviceVars, clientVars
  <2>2. [user |-> Sub.user, res |-> -1] \in Cqe
    BY <2>1, SubIs DEF Cqe
  <2>3. cq' \in Seq(Cqe)
    <3>1. PICK e \in Cqe : e = [user |-> Sub.user, res |-> -1]
      BY <2>2
    <3>2. cq \in Seq(Cqe)
      BY <1>1
    <3>3. cq' = Append(cq, e)
      BY <2>1, <3>1
    <3> QED  BY <3>2, <3>3
  <2> QED  BY <1>1, <2>1, <2>3 DEF RingType
<1>6. CASE Fetch
  <2>1. sq' = Tail(sq) /\ sq # << >> /\ UNCHANGED <<cq, exec, ask, owed>>
    BY <1>6 DEF Fetch, deviceVars, clientVars
  <2>2. sq' \in Seq(Sqe)
    BY <1>1, <2>1
  <2> QED  BY <1>1, <2>1, <2>2 DEF RingType
<1>7. CASE PopOne
  <2>1. UNCHANGED <<sq, exec, ask, owed>>
    BY <1>7 DEF PopOne, deviceVars, clientVars
  <2>2. cq' = cq \/ \E e \in Cqe : cq' = Append(cq, e)
    BY <1>7, PopCqe
  <2>3. cq' \in Seq(Cqe)
    <3>1. cq \in Seq(Cqe)
      BY <1>1
    <3>2. CASE cq' = cq
      BY <3>1, <3>2
    <3>3. ASSUME NEW e \in Cqe, cq' = Append(cq, e)  PROVE cq' \in Seq(Cqe)
      BY <3>1, <3>3
    <3> QED  BY <2>2, <3>2, <3>3
  <2> QED  BY <1>1, <2>1, <2>3 DEF RingType
<1>8. CASE DevGives
  <2>0. PICK s \in Side :
           \E h \in dev.held[s], n \in IF s = "rx" THEN Lens ELSE {Sent} : DevDone(s, h, n)
    BY <1>8 DEF DevGives
  <2>1. PICK h \in dev.held[s], n \in IF s = "rx" THEN Lens ELSE {Sent} : DevDone(s, h, n)
    BY <2>0
  <2>2. /\ UNCHANGED <<sq, cq, ask, owed>>
        /\ vq[s].addr[vq[s].next[h]].area = "data"
        /\ exec' = [exec EXCEPT ![vq[s].addr[vq[s].next[h]].at] = [op |-> s, st |-> n]]
    BY <2>1 DEF DevDone, ringVars, clientVars
  <2>3. h \in Desc
    BY DEF DevType
  <2>4. vq[s].addr[vq[s].next[h]] \in Addr
    BY <2>3 DEF VqType, Queue
  <2>5. vq[s].addr[vq[s].next[h]].at \in Users
    <3>1. \A a \in Addr : a.area = "data" => a.at \in Users
      BY DEF Addr, Hdr, Data, Zero
    <3> QED  BY <2>2, <2>4, <3>1
  <2>6. [op |-> s, st |-> n] \in Done
    BY DEF Done, Side
  <2>7. exec' \in [Users -> Done \cup {None}]
    BY <1>1, <2>2, <2>5, <2>6
  <2> QED  BY <1>1, <2>2, <2>7 DEF RingType
<1>9. CASE Client
  <2>1. CASE ClientNotify
    BY <1>1, <2>1 DEF ClientNotify, ringVars, deviceVars, RingType
  <2>2. CASE ClientReap
    <3>1. /\ cq # << >> /\ cq' = Tail(cq) /\ UNCHANGED <<sq, owed>>
          /\ ask' = [ask EXCEPT ![Head(cq).user] = None]
          /\ exec' = [exec EXCEPT ![Head(cq).user] = None]
      BY <2>2 DEF ClientReap
    <3>2. cq' \in Seq(Cqe) /\ Head(cq) \in Cqe
      BY <1>1, <3>1
    <3>3. ask' \in [Users -> Kinds \cup {None}] /\ exec' \in [Users -> Done \cup {None}]
      BY <1>1, <3>1
    <3> QED  BY <1>1, <3>1, <3>2, <3>3 DEF RingType
  <2>3. CASE \E u \in Users, k \in Kinds : ClientSubmit(u, k)
    <3>1. PICK u \in Users, k \in Kinds : ClientSubmit(u, k)
      BY <2>3
    <3>2. /\ ask' = [ask EXCEPT ![u] = k] /\ owed' = TRUE /\ UNCHANGED <<cq, exec>>
          /\ sq' = Append(sq, [user |-> u, kind |-> k])
      BY <3>1 DEF ClientSubmit, deviceVars
    <3>3. [user |-> u, kind |-> k] \in Sqe
      BY DEF Sqe
    <3>4. sq' \in Seq(Sqe)
      BY <1>1, <3>2, <3>3
    <3>5. ask' \in [Users -> Kinds \cup {None}]
      BY <1>1, <3>2
    <3> QED  BY <1>1, <3>2, <3>4, <3>5 DEF RingType
  <2> QED  BY <1>9, <2>1, <2>2, <2>3 DEF Client
<1> QED  BY <1>2, <1>3, <1>4, <1>5, <1>6, <1>7, <1>8, <1>9, NextIs DEF Elsewhere

\* The device's registers and the kernel's keep their types.
LEMMA DevStep ==
  ASSUME VqType, DrvType, DevType, [Next]_vars
  PROVE  DevType'
<1> DEFINE D == [kick : SUBSET Side, seen : [Side -> Idx], held : [Side -> SUBSET Desc],
                 raise : BOOLEAN, isr : BOOLEAN]
<1>1. /\ pend \subseteq {"IRQ", "SQ"} /\ masked \in BOOLEAN /\ dev \in D
      /\ rxlen \in [Desc -> Lens \cup {0}] /\ hidden \in BOOLEAN
  BY DEF DevType
<1>2. CASE RecvIrq \/ RecvRing \/ KernelIrq
  BY <1>1, <1>2, NetAssumption DEF RecvIrq, RecvRing, KernelIrq, deviceVars, histVars, DevType
<1>3. CASE IrqRead \/ PopOne \/ PopNone \/ FreeOne \/ Fetch \/ FetchDone
  <2>1. UNCHANGED <<pend, masked, dev, rxlen, hidden>>
    BY <1>3 DEF IrqRead, PopOne, PopNone, FreeOne, Fetch, FetchDone, kernelVars, deviceVars, histVars
  <2> QED  BY <1>1, <2>1 DEF DevType
<1>4. CASE RefuseOp \/ RefuseNoDesc \/ RefuseAddr \/ Publish \/ SubmitDone \/ UNCHANGED vars
  <2>1. UNCHANGED <<pend, masked, dev, rxlen, hidden>>
    BY <1>4 DEF RefuseOp, RefuseNoDesc, RefuseAddr, Refuse, Publish, SubmitDone, kernelVars,
                deviceVars, histVars, vars
  <2> QED  BY <1>1, <2>1 DEF DevType
<1>5. CASE IrqAck \/ DevRaise
  <2>1. UNCHANGED <<pend, masked, rxlen, hidden>> /\ dev' \in D
    BY <1>1, <1>5 DEF IrqAck, DevRaise, kernelVars, histVars
  <2> QED  BY <1>1, <2>1 DEF DevType
<1>6. CASE Notify
  <2>1. UNCHANGED <<pend, masked, rxlen, hidden>>
    BY <1>6 DEF Notify, kernelVars, histVars
  <2>2. SubSide \in Side
    BY DEF SubSide, SideOf, Side
  <2>3. dev' \in D
    BY <1>1, <1>6, <2>2 DEF Notify
  <2> QED  BY <1>1, <2>1, <2>3 DEF DevType
<1>7. CASE DevLooks
  <2>1. PICK s \in Side : DevTake(s) \/ DevSleep(s)
    BY <1>7 DEF DevLooks
  <2>2. UNCHANGED <<pend, masked, rxlen, hidden>>
    BY <2>1 DEF DevTake, DevSleep, kernelVars, histVars
  <2>3. /\ DevTakeId(vq[s], dev.seen[s]) \in Desc /\ (dev.seen[s] + 1) % IdxMod \in Idx
        /\ dev.held[s] \in SUBSET Desc /\ dev.seen \in [Side -> Idx]
        /\ dev.held \in [Side -> SUBSET Desc]
    BY <1>1, RingIndex DEF DevTakeId, VqType, Queue
  <2> DEFINE H == [dev.held EXCEPT ![s] = dev.held[s] \cup {DevTakeId(vq[s], dev.seen[s])}]
             S == [dev.seen EXCEPT ![s] = (dev.seen[s] + 1) % IdxMod]
  <2>4. H \in [Side -> SUBSET Desc] /\ S \in [Side -> Idx]
    BY <2>3
  <2>5. DevTake(s) => dev' = [dev EXCEPT !.held = H, !.seen = S]
    BY DEF DevTake
  <2>6. DevSleep(s) => dev' = [dev EXCEPT !.kick = @ \ {s}]
    BY DEF DevSleep
  <2> HIDE DEF H, S
  <2>7. dev' \in D
    BY <1>1, <2>1, <2>4, <2>5, <2>6
  <2> QED  BY <1>1, <2>2, <2>7 DEF DevType
<1>8. CASE DevGives
  <2>0. PICK s \in Side :
           \E h \in dev.held[s], n \in IF s = "rx" THEN Lens ELSE {Sent} : DevDone(s, h, n)
    BY <1>8 DEF DevGives
  <2>1. PICK h \in dev.held[s], n \in IF s = "rx" THEN Lens ELSE {Sent} : DevDone(s, h, n)
    BY <2>0
  <2>2. /\ UNCHANGED <<pend, masked, hidden>>
        /\ rxlen' = IF s = "rx" THEN [rxlen EXCEPT ![vq[s].used_idx % Num] = n] ELSE rxlen
        /\ dev' = [dev EXCEPT !.held[s] = @ \ {h}, !.raise = TRUE]
    BY <2>1 DEF DevDone, kernelVars, histVars
  <2>3. rxlen' \in [Desc -> Lens \cup {0}]
    BY <1>1, <2>2
  <2>4. dev' \in D
    BY <1>1, <2>2
  <2> QED  BY <1>1, <2>2, <2>3, <2>4 DEF DevType
<1>9. CASE Client
  <2>1. pend' \in {pend, pend \cup {"SQ"}} /\ UNCHANGED <<masked, dev, rxlen, hidden>>
    BY <1>9 DEF Client, ClientNotify, ClientReap, ClientSubmit, kernelVars, deviceVars, histVars
  <2> QED  BY <1>1, <2>1 DEF DevType
<1> QED  BY <1>2, <1>3, <1>4, <1>5, <1>6, <1>7, <1>8, <1>9, NextIs DEF Elsewhere

\* The invariant holds initially.
LEMMA InitIInv == Init => IInv
<1> SUFFICES ASSUME Init PROVE IInv
  OBVIOUS
<1>0. Zero \in Addr /\ 0 \in Desc /\ 0 \in Idx
  BY QueueAssumption DEF Addr, Desc, Idx
<1>1. NewQueue(Zero) \in Queue(Addr) /\ FreeList(NewQueue(Zero), Desc)
  BY <1>0, NewQueueFree
<1>2. VqType
  BY <1>1 DEF Init, VqType
<1>3. DrvType /\ RingType /\ Control
  BY <1>0 DEF Init, DrvType, RingType, Control, Side
<1>4. DevType
  BY <1>0 DEF Init, DevType
<1>5. Chains
  <2>1. SUFFICES ASSUME NEW s \in Side PROVE Kept(vq[s], pending[s], Walk(s), bad[s])
    BY DEF Chains
  <2> DEFINE q == NewQueue(Zero)
             P == [d \in Desc |-> None]
  <2>2. vq[s] = q /\ pending[s] = P /\ bad[s] = 0 /\ Walk(s) = {}
    BY DEF Init, Walk
  <2>3. Heads(P) = {} /\ q.num_free = Num /\ Rest(q, {}) = 0
    BY DEF Heads, NewQueue, Rest
  <2>4. Cardinality({}) = 0
    BY FS_EmptySet
  <2> HIDE DEF q, P
  <2>5. Owners(q, {}, {}, Desc)
    BY <1>1 DEF Owners, q
  <2>6. Kept(q, P, {}, 0)
    BY <2>3, <2>4, <2>5, QueueAssumption DEF Kept
  <2> QED  BY <2>2, <2>6
<1> QED  BY <1>2, <1>3, <1>4, <1>5, TypeParts DEF IInv

\* Every step keeps the invariant.
LEMMA NextIInv == IInv /\ [Next]_vars => IInv'
<1> SUFFICES ASSUME IInv, [Next]_vars PROVE IInv'
  OBVIOUS
<1>1. VqInv /\ VqType /\ DrvType /\ RingType /\ DevType /\ Control
  BY TypeParts DEF IInv, VqInv
<1>2. VqInv' /\ DrvType' /\ RingType' /\ DevType' /\ Control'
  BY <1>1, VqStep, DrvStep, RingStep, DevStep, ControlStep
<1>3. TypeOK'
  BY <1>2 DEF TypeOK, VqInv, VqType, DrvType, RingType, DevType, Cqe
<1> QED  BY <1>2, <1>3 DEF IInv, VqInv

\* The invariant holds of every behaviour.
LEMMA Invariance == Spec => []IInv
BY InitIInv, NextIInv, PTL DEF Spec

(* Every variable keeps its type in every run of the driver: the indices   *)
(* stay in 16 bits, a popped head and a link are descriptors, and what the *)
(* completion ring says is a length or an error.                           *)
THEOREM TypeCorrect == Spec => []TypeOK
BY Invariance, PTL DEF IInv

-----------------------------------------------------------------------------
(* The steps by what they do to the rings of the two queues.               *)

\* The queue of a side that a step replaces, and the other one.
LEMMA OnlySide ==
  ASSUME VqType, NEW s \in Side, NEW n, vq' = [vq EXCEPT ![s] = n]
  PROVE  /\ vq'[s] = n /\ \A t \in Side : t # s => vq'[t] = vq[t]
         /\ \A t \in Side : SameRings(vq[t], vq[t])
BY DEF VqType, SameRings

\* The steps that touch no ring.
Refused == RefuseNoDesc \/ RefuseAddr
Calm == \/ RecvIrq \/ RecvRing \/ IrqRead \/ IrqAck \/ PopNone \/ FreeOne
        \/ Fetch \/ FetchDone \/ RefuseOp \/ Refused \/ Notify \/ SubmitDone
        \/ DevLooks \/ DevRaise \/ KernelIrq \/ Client \/ UNCHANGED vars

\* Every step leaves the rings alone, or pops, publishes or gives back.
LEMMA NextCalm ==
  ASSUME [Next]_vars
  PROVE  Calm \/ PopOne \/ Publish \/ DevGives
BY NextIs DEF Calm, Refused, Elsewhere

\* A refused request costs its queue descriptors, not entries of a ring.
LEMMA RefusedIs ==
  ASSUME VqType, DrvType, Refused, NEW t \in Side
  PROVE  SameRings(vq[t], vq'[t]) /\ SameChains(vq[t], vq'[t])
<1>1. drv.batch # << >>
  BY DEF Refused, RefuseNoDesc, RefuseAddr, Submitting
<1>2. PICK s \in Side : s = SubSide
  BY <1>1, SubIs
<1> DEFINE q == vq[s]
           a == AllocDesc(q)
<1>3. q \in Queue(Addr) /\ vq[t] \in Queue(Addr) /\ SameRings(q, q) /\ SameChains(q, q)
  BY DEF VqType, SameRings, SameChains
<1>4. SameRings(q, a) /\ SameChains(q, a)
  BY <1>3, AllocDescFields
<1>5. SameRings(q, AllocDesc(a)) /\ SameChains(q, AllocDesc(a))
  BY <1>3 DEF AllocDesc, Queue, SameRings, SameChains
<1>6. \E n \in {q, a, AllocDesc(a)} : vq' = [vq EXCEPT ![s] = n]
  BY <1>2 DEF Refused, RefuseNoDesc, RefuseAddr
<1> HIDE DEF a
<1>7. (vq'[t] = vq[t]) \/ (t = s /\ vq'[t] \in {q, a, AllocDesc(a)})
  BY <1>6 DEF VqType
<1> QED  BY <1>3, <1>4, <1>5, <1>7 DEF SameRings, SameChains

\* Freeing a descriptor changes its own link and flags.
LEMMA FreedIs ==
  ASSUME VqType, DrvType, FreeOne, NEW t \in Side
  PROVE  /\ SameRings(vq[t], vq'[t]) /\ vq'[t].addr = vq[t].addr
         /\ \A d \in Desc : t # drv.side \/ d # drv.curr =>
              vq'[t].next[d] = vq[t].next[d] /\ vq'[t].flags[d] = vq[t].flags[d]
<1>1. PICK s \in Side, c \in Desc : s = drv.side /\ c = drv.curr
  BY DEF DrvType
<1>2. vq' = [vq EXCEPT ![s] = FreeDesc(vq[s], c)] /\ vq[s] \in Queue(Addr)
  BY <1>1 DEF FreeOne, VqType
<1>3. t = s => vq'[t] = FreeDesc(vq[s], c)
  BY <1>2 DEF VqType
<1>4. t # s => vq'[t] = vq[t]
  BY <1>2 DEF VqType
<1>5. SameRings(vq[t], vq[t])
  BY DEF SameRings
<1> QED  BY <1>1, <1>2, <1>3, <1>4, <1>5, FreeDescFields

\* A calm step leaves both rings of both queues as they were.
LEMMA CalmRings ==
  ASSUME VqType, DrvType, Calm, NEW t \in Side
  PROVE  SameRings(vq[t], vq'[t])
<1>1. CASE RecvIrq \/ RecvRing \/ IrqRead \/ IrqAck \/ PopNone \/ Fetch \/ FetchDone
  BY <1>1 DEF RecvIrq, RecvRing, IrqRead, IrqAck, PopNone, Fetch, FetchDone, SameRings
<1>2. CASE RefuseOp \/ Notify \/ SubmitDone \/ DevLooks \/ DevRaise \/ KernelIrq \/ Client
           \/ UNCHANGED vars
  BY <1>2 DEF RefuseOp, Notify, SubmitDone, DevLooks, DevTake, DevSleep, DevRaise, KernelIrq,
              Client, ClientNotify, ClientReap, ClientSubmit, vars, SameRings
<1> QED  BY <1>1, <1>2, RefusedIs, FreedIs DEF Calm

\* Popping, making available and using touch one ring of one queue.
LEMMA PopRings ==
  ASSUME VqType, DrvType, PopOne
  PROVE  /\ CanPop(vq[drv.side])
         /\ \A t \in Side :
              /\ vq'[t].avail_ring = vq[t].avail_ring /\ vq'[t].avail_idx = vq[t].avail_idx
              /\ vq'[t].used_ring = vq[t].used_ring /\ vq'[t].used_idx = vq[t].used_idx
              /\ SameChains(vq[t], vq'[t])
              /\ vq'[t].last_used_idx = IF t = drv.side THEN (vq[t].last_used_idx + 1) % IdxMod
                                                        ELSE vq[t].last_used_idx
<1>1. PICK s \in Side : s = drv.side
  BY DEF DrvType
<1>2. vq' = [vq EXCEPT ![s] = Pop(vq[s])] /\ vq[s] \in Queue(Addr) /\ CanPop(vq[s])
  BY <1>1 DEF PopOne, VqType
<1>3. \A t \in Side : (t = s => vq'[t] = Pop(vq[s])) /\ (t # s => vq'[t] = vq[t])
  BY <1>2 DEF VqType
<1>4. \A t \in Side : SameChains(vq[t], vq[t])
  BY DEF SameChains
<1> QED  BY <1>1, <1>2, <1>3, <1>4, PopFields

\* Publishing writes the next slot of one available ring and nothing else of a ring.
LEMMA PublishRings ==
  ASSUME VqInv, DrvType, Publish
  PROVE  LET h == vq[SubSide].free_head IN
         \A t \in Side :
           /\ vq'[t].used_ring = vq[t].used_ring /\ vq'[t].used_idx = vq[t].used_idx
           /\ vq'[t].last_used_idx = vq[t].last_used_idx
           /\ t # SubSide => vq'[t] = vq[t]
           /\ t = SubSide =>
                /\ vq'[t].avail_ring = [vq[t].avail_ring EXCEPT ![vq[t].avail_idx % Num] = h]
                /\ vq'[t].avail_idx = (vq[t].avail_idx + 1) % IdxMod
<1>1. PICK s \in Side : s = SubSide
  BY PublishedIs
<1> DEFINE n == Submit(WriteChain(vq[s], Sub), vq[s].free_head)
<1>2. vq' = [vq EXCEPT ![s] = n] /\ \E F : Published(s, vq[s], n, F, Sub.user)
  BY <1>1, PublishedIs
<1> HIDE DEF n
<1>3. \A t \in Side : (t = s => vq'[t] = n) /\ (t # s => vq'[t] = vq[t])
  BY <1>2 DEF VqInv, VqType
<1> QED  BY <1>1, <1>2, <1>3 DEF Published

\* Giving a chain back writes the next slot of one used ring and nothing else.
LEMMA GiveRings ==
  ASSUME VqType, DevType, NEW s \in Side, NEW h \in dev.held[s], NEW x, DevDone(s, h, x)
  PROVE  /\ h \in Desc
         /\ \A t \in Side :
              /\ SameChains(vq[t], vq'[t])
              /\ vq'[t].avail_ring = vq[t].avail_ring /\ vq'[t].avail_idx = vq[t].avail_idx
              /\ vq'[t].last_used_idx = vq[t].last_used_idx
              /\ t # s => vq'[t] = vq[t]
              /\ t = s =>
                   /\ vq'[t].used_ring = [vq[t].used_ring EXCEPT ![vq[t].used_idx % Num] = h]
                   /\ vq'[t].used_idx = (vq[t].used_idx + 1) % IdxMod
<1>1. h \in Desc /\ vq[s] \in Queue(Addr) /\ vq' = [vq EXCEPT ![s] = DevUse(vq[s], h)]
  BY DEF DevDone, VqType, DevType
<1>2. \A t \in Side : (t = s => vq'[t] = DevUse(vq[s], h)) /\ (t # s => vq'[t] = vq[t])
  BY <1>1 DEF VqType
<1>3. \A t \in Side : SameChains(vq[t], vq[t])
  BY DEF SameChains
<1> QED  BY <1>1, <1>2, <1>3, DevUseFields

-----------------------------------------------------------------------------
(* Nothing waits unannounced.                                              *)

\* The device is woken for every chain made available.
LEMMA KickStep ==
  ASSUME VqInv, DrvType, DevType, NoLostKick, [Next]_vars
  PROVE  NoLostKick'
<1> USE DEF NoLostKick, DevCanTake
<1>0. VqType
  BY DEF VqInv
<1>1. CASE RecvIrq \/ RecvRing \/ IrqRead \/ IrqAck \/ PopNone \/ FreeOne
  <2>1. dev'.seen = dev.seen /\ dev'.kick = dev.kick /\ drv.pc # "notify"
    BY <1>1 DEF RecvIrq, RecvRing, IrqRead, IrqAck, PopNone, FreeOne, deviceVars, DevType
  <2>2. \A t \in Side : vq'[t].avail_idx = vq[t].avail_idx
    BY <1>0, <1>1, CalmRings DEF Calm, SameRings
  <2> QED  BY <2>1, <2>2
<1>2. CASE Fetch \/ FetchDone \/ RefuseOp \/ Refused \/ SubmitDone
  <2>1. dev'.seen = dev.seen /\ dev'.kick = dev.kick /\ drv.pc # "notify"
    BY <1>2 DEF Fetch, FetchDone, RefuseOp, Refused, RefuseNoDesc, RefuseAddr, Refuse, Submitting,
                SubmitDone, deviceVars
  <2>2. \A t \in Side : vq'[t].avail_idx = vq[t].avail_idx
    BY <1>0, <1>2, CalmRings DEF Calm, SameRings
  <2> QED  BY <2>1, <2>2
<1>3. CASE DevRaise \/ KernelIrq \/ Client \/ UNCHANGED vars
  <2>1. dev'.seen = dev.seen /\ dev'.kick = dev.kick /\ drv' = drv
    BY <1>3 DEF DevRaise, KernelIrq, Client, ClientNotify, ClientReap, ClientSubmit, vars,
                deviceVars, DevType
  <2>2. \A t \in Side : vq'[t].avail_idx = vq[t].avail_idx
    BY <1>0, <1>3, CalmRings DEF Calm, SameRings
  <2> QED  BY <2>1, <2>2 DEF SubSide, Sub
<1>4. CASE Notify
  <2>1. dev'.seen = dev.seen /\ dev'.kick = dev.kick \cup {SubSide}
    BY <1>4 DEF Notify, DevType
  <2>2. \A t \in Side : vq'[t].avail_idx = vq[t].avail_idx
    BY <1>0, <1>4, CalmRings DEF Calm, SameRings
  <2> QED  BY <2>1, <2>2
<1>5. CASE DevLooks
  <2>1. PICK s \in Side : DevTake(s) \/ DevSleep(s)
    BY <1>5 DEF DevLooks
  <2>2. drv' = drv /\ vq' = vq
    BY <2>1 DEF DevTake, DevSleep
  <2>3. CASE DevTake(s)
    <3>1. s \in dev.kick /\ dev'.kick = dev.kick /\ \A t \in Side : t # s => dev'.seen[t] = dev.seen[t]
      BY <2>3 DEF DevTake, DevType
    <3> QED  BY <2>2, <3>1 DEF SubSide, Sub
  <2>4. CASE DevSleep(s)
    <3>1. /\ ~DevCanTake(vq[s], dev.seen[s]) /\ dev'.kick = dev.kick \ {s}
          /\ dev'.seen = dev.seen
      BY <2>4 DEF DevSleep, DevType
    <3> QED  BY <2>2, <3>1 DEF SubSide, Sub
  <2> QED  BY <2>1, <2>3, <2>4
<1>6. CASE PopOne
  <2>1. dev' = dev /\ drv.pc # "notify"
    BY <1>6 DEF PopOne, deviceVars
  <2>2. \A t \in Side : vq'[t].avail_idx = vq[t].avail_idx
    BY <1>0, <1>6, PopRings
  <2> QED  BY <2>1, <2>2
<1>7. CASE Publish
  <2>1. /\ dev' = dev /\ drv.pc = "submit" /\ drv'.pc = "notify" /\ drv'.batch = drv.batch
    BY <1>7, Moves DEF Publish, Submitting, deviceVars, SameBatch
  <2>2. SubSide' = SubSide
    BY <2>1 DEF SubSide, Sub
  <2>3. \A t \in Side : t # SubSide => vq'[t] = vq[t]
    BY <1>7, PublishRings
  <2> QED  BY <2>1, <2>2, <2>3
<1>8. CASE DevGives
  <2>0. PICK s \in Side :
           \E h \in dev.held[s], n \in IF s = "rx" THEN Lens ELSE {Sent} : DevDone(s, h, n)
    BY <1>8 DEF DevGives
  <2>1. PICK h \in dev.held[s], n \in IF s = "rx" THEN Lens ELSE {Sent} : DevDone(s, h, n)
    BY <2>0
  <2>2. drv' = drv /\ dev'.kick = dev.kick /\ dev'.seen = dev.seen
    BY <2>1 DEF DevDone, DevType
  <2>3. \A t \in Side : vq'[t].avail_idx = vq[t].avail_idx
    BY <1>0, <2>1, GiveRings
  <2> QED  BY <2>2, <2>3 DEF SubSide, Sub
<1> QED  BY <1>1, <1>2, <1>3, <1>4, <1>5, <1>6, <1>7, <1>8, NextCalm DEF Calm

\* A completion is popped in the round of handle_irq that acknowledged it.
LEMMA AnnounceStep ==
  ASSUME VqInv, DrvType, DevType, Announced, [Next]_vars
  PROVE  Announced'
<1> USE DEF Announced, CanPop
<1>0. VqType
  BY DEF VqInv
<1>1. CASE RecvIrq \/ RecvRing \/ IrqRead \/ Fetch \/ FetchDone \/ SubmitDone
  <2>1. vq' = vq /\ dev' = dev /\ drv.pc \notin {"pop", "free"}
    BY <1>1 DEF RecvIrq, RecvRing, IrqRead, Fetch, FetchDone, SubmitDone, deviceVars
  <2> QED  BY <2>1
<1>2. CASE RefuseOp \/ Refused \/ Notify
  <2>1. dev'.raise = dev.raise /\ dev'.isr = dev.isr /\ drv.pc \notin {"pop", "free"}
    BY <1>2 DEF RefuseOp, Refused, RefuseNoDesc, RefuseAddr, Refuse, Submitting, Notify, deviceVars,
                DevType
  <2>2. \A t \in Side : vq'[t].last_used_idx = vq[t].last_used_idx /\ vq'[t].used_idx = vq[t].used_idx
    BY <1>0, <1>2, CalmRings DEF Calm, SameRings
  <2> QED  BY <2>1, <2>2
<1>3. CASE DevLooks \/ DevRaise \/ KernelIrq \/ Client \/ UNCHANGED vars
  <2>1. (dev.raise \/ dev.isr => dev'.raise \/ dev'.isr) /\ drv' = drv /\ vq' = vq
    BY <1>3 DEF DevLooks, DevTake, DevSleep, DevRaise, KernelIrq, Client, ClientNotify, ClientReap,
                ClientSubmit, vars, deviceVars, DevType
  <2> QED  BY <2>1
<1>4. CASE IrqAck
  <2>1. drv'.pc = "pop" /\ drv'.side = "rx"
    BY <1>4, Moves
  <2> QED  BY <2>1
<1>5. CASE PopNone
  <2>1. vq' = vq /\ dev' = dev /\ drv.pc = "pop" /\ ~CanPop(vq[drv.side])
    BY <1>5 DEF PopNone, deviceVars
  <2>2. \/ drv.side = "rx" /\ drv'.side = "tx" /\ drv'.pc = "pop"
        \/ drv.side = "tx" /\ drv'.side = "tx" /\ drv'.pc = "idle"
    BY <1>5, Moves
  <2> QED  BY <2>1, <2>2 DEF Side
<1>6. CASE FreeOne
  <2>1. dev' = dev /\ drv'.side = drv.side /\ drv.pc = "free" /\ drv'.pc \in {"pop", "free"}
    BY <1>6, WalkMoves DEF FreeOne, deviceVars
  <2>2. \A t \in Side : vq'[t].last_used_idx = vq[t].last_used_idx /\ vq'[t].used_idx = vq[t].used_idx
    BY <1>0, <1>6, CalmRings DEF Calm, SameRings
  <2> QED  BY <2>1, <2>2
<1>7. CASE PopOne
  <2>1. dev' = dev /\ drv'.side = drv.side /\ drv.pc = "pop" /\ drv'.pc \in {"pop", "free"}
    BY <1>7, WalkMoves DEF PopOne, deviceVars
  <2>2. \A t \in Side : t # drv.side =>
          vq'[t].last_used_idx = vq[t].last_used_idx /\ vq'[t].used_idx = vq[t].used_idx
    BY <1>0, <1>7, PopRings
  <2> QED  BY <2>1, <2>2 DEF Side, DrvType
<1>8. CASE Publish
  <2>1. dev' = dev /\ drv.pc = "submit"
    BY <1>8 DEF Publish, Submitting, deviceVars
  <2>2. \A t \in Side : vq'[t].last_used_idx = vq[t].last_used_idx /\ vq'[t].used_idx = vq[t].used_idx
    BY <1>8, PublishRings
  <2> QED  BY <2>1, <2>2
<1>9. CASE DevGives
  <2>1. dev'.raise
    BY <1>9 DEF DevGives, DevDone, DevType
  <2> QED  BY <2>1
<1> QED  BY <1>1, <1>2, <1>3, <1>4, <1>5, <1>6, <1>7, <1>8, <1>9, NextCalm DEF Calm

(* Nothing waits unannounced between driver and device: a chain the device *)
(* has not seen is one it was notified of or is about to be, on the queue  *)
(* that was filled (submit, notify_queue), and while the driver waits the  *)
(* interrupt of an unread completion, of either queue, is still to come.   *)
THEOREM SignalledTheorem == Spec => []Signalled
<1>1. Init => NoLostKick /\ Announced
  BY DEF Init, NoLostKick, Announced, DevCanTake, CanPop, NewQueue, Side
<1>2. IInv /\ NoLostKick /\ Announced /\ [Next]_vars => NoLostKick' /\ Announced'
  <2>1. IInv => VqInv /\ DrvType /\ DevType
    BY TypeParts DEF IInv, VqInv
  <2> QED  BY <2>1, KickStep, AnnounceStep
<1>3. NoLostKick /\ Announced => Signalled
  BY DEF Announced, Signalled, CompletionSignalled
<1> QED  BY Invariance, <1>1, <1>2, <1>3, PTL DEF Spec

-----------------------------------------------------------------------------
(* No entry of the submission ring is left without an announcement.        *)

\* When the ring fits in a batch, every step keeps what is queued signalled or being fetched.
LEMMA DrainedStep ==
  ASSUME SqEntries <= Batch, DrvType, RingType, Control, Drained, [Next]_vars
  PROVE  Drained'
<1> USE DEF Drained, Signal
<1>0. /\ sq \in Seq(Sqe) /\ drv.batch \in Seq(Sqe) /\ Len(sq) \in Nat /\ Len(drv.batch) \in Nat
      /\ SqEntries \in Nat /\ Batch \in Nat
  BY NetAssumption DEF RingType, DrvType
<1>1. ASSUME UNCHANGED <<sq, owed, pend, hidden>>,
             drv'.pc = "fetch" => drv.pc = "fetch" /\ drv'.batch = drv.batch,
             drv.pc = "fetch" => drv'.pc = "fetch",
             drv'.pc \in {"submit", "notify"} => drv.pc \in {"submit", "notify"}
      PROVE  Drained'
  BY <1>1
<1>2. CASE IrqRead \/ IrqAck \/ PopNone
  BY <1>2, <1>1, Moves DEF IrqRead, IrqAck, PopNone, ringVars, kernelVars, clientVars, histVars
<1>3. CASE PopOne \/ FreeOne
  <2>1. UNCHANGED <<sq, owed, pend, hidden>>
    BY <1>3 DEF PopOne, FreeOne, ringVars, kernelVars, clientVars, histVars
  <2>2. drv.pc \in {"pop", "free"} /\ drv'.pc \in {"pop", "free"}
    BY <1>3, WalkMoves
  <2> QED  BY <2>1, <2>2, <1>1
<1>4. CASE RefuseOp \/ RefuseNoDesc \/ RefuseAddr \/ Publish \/ Notify
  <2>1. UNCHANGED <<sq, owed, pend, hidden>>
    BY <1>4 DEF RefuseOp, RefuseNoDesc, RefuseAddr, Refuse, Publish, Notify, ringVars, kernelVars,
                clientVars, histVars
  <2>2. drv.pc \in {"submit", "notify"} /\ drv'.pc \in {"submit", "notify"}
    BY <1>4, Moves DEF RefuseOp, RefuseNoDesc, RefuseAddr, Publish, Notify, Submitting
  <2> QED  BY <2>1, <2>2, <1>1
<1>5. CASE DevLooks \/ DevGives \/ DevRaise \/ ClientReap \/ UNCHANGED vars
  <2>1. UNCHANGED <<sq, owed, pend, hidden, drv>>
    BY <1>5, ZenonT(30) DEF DevLooks, DevTake, DevSleep, DevGives, DevDone, DevRaise, ClientReap, vars,
                ringVars, kernelVars, clientVars, histVars
  <2> QED  BY <2>1, <1>1
<1>6. CASE KernelIrq \/ ClientNotify
  <2>1. UNCHANGED <<sq, hidden, drv>>
    BY <1>6 DEF KernelIrq, ClientNotify, ringVars, histVars
  <2>2. Signal => Signal'
    BY <1>6 DEF KernelIrq, ClientNotify, clientVars
  <2> QED  BY <2>1, <2>2
<1>7. CASE \E u \in Users, k \in Kinds : ClientSubmit(u, k)
  <2>1. PICK u \in Users, k \in Kinds : ClientSubmit(u, k)
    BY <1>7
  <2>2. /\ owed' = TRUE /\ UNCHANGED <<drv, hidden>> /\ Len(sq) < SqEntries
        /\ sq' = Append(sq, [user |-> u, kind |-> k])
    BY <2>1 DEF ClientSubmit, histVars
  <2>3. Len(sq') = Len(sq) + 1
    BY <1>0, <2>2
  <2> QED  BY <1>0, <2>2, <2>3
<1>8. CASE RecvIrq \/ RecvRing
  <2>1. CASE RecvIrq
    <3>1. /\ drv.pc = "idle" /\ drv'.pc = "irq" /\ UNCHANGED <<sq, owed>>
          /\ hidden' = (hidden \/ "SQ" \in pend)
      BY <2>1, Moves DEF RecvIrq, ringVars, clientVars
    <3> QED  BY <3>1
  <2>2. CASE RecvRing
    <3>1. /\ drv.pc = "idle" /\ drv'.pc = "fetch" /\ UNCHANGED <<sq, owed>> /\ drv'.batch = << >>
      BY <2>2, Moves DEF RecvRing, ringVars, clientVars, Control, SameBatch
    <3>2. Len(drv'.batch) = 0
      BY <3>1
    <3> QED  BY <1>0, <3>1, <3>2
  <2> QED  BY <1>8, <2>1, <2>2
<1>9. CASE Fetch
  <2>1. /\ drv.pc = "fetch" /\ drv'.pc = "fetch" /\ UNCHANGED <<owed, pend, hidden>>
        /\ sq # << >> /\ sq' = Tail(sq) /\ drv'.batch = Append(drv.batch, Head(sq))
    BY <1>9, Moves DEF Fetch, kernelVars, clientVars, histVars
  <2>2. Len(sq') = Len(sq) - 1 /\ Len(drv'.batch) = Len(drv.batch) + 1
    BY <1>0, <2>1
  <2> QED  BY <1>0, <2>1, <2>2
<1>10. CASE FetchDone
  <2>1. /\ drv.pc = "fetch" /\ drv'.pc = "submit" /\ UNCHANGED <<sq, owed, pend, hidden>>
        /\ Len(drv.batch) = Batch \/ sq = << >>
    BY <1>10, Moves DEF FetchDone, ringVars, kernelVars, clientVars, histVars
  <2>2. sq # << >> => Len(sq) > 0
    BY <1>0
  <2> QED  BY <1>0, <2>1, <2>2
<1>11. CASE SubmitDone
  <2>1. /\ drv.pc = "submit" /\ drv'.pc = "idle" /\ UNCHANGED <<sq, owed, pend, hidden>>
    BY <1>11, Moves DEF SubmitDone, ringVars, kernelVars, clientVars, histVars
  <2> QED  BY <2>1
<1> QED  BY <1>2, <1>3, <1>4, <1>5, <1>6, <1>7, <1>8, <1>9, <1>10, <1>11, NextIs DEF Elsewhere, Client

(* With a submission ring of no more entries than one call of handle_ring  *)
(* takes, an entry is never left behind when the driver waits, unless its  *)
(* announcement came together with an interrupt, which dispatch prefers.   *)
THEOREM SubmissionTheorem ==
  ASSUME SqEntries <= Batch
  PROVE  Spec => []SubmissionSignalled
<1>1. Init => Drained
  BY NetAssumption DEF Init, Drained
<1>2. IInv /\ Drained /\ [Next]_vars => Drained'
  <2>1. IInv => DrvType /\ RingType /\ Control
    BY TypeParts DEF IInv
  <2> QED  BY <2>1, DrainedStep
<1>3. Drained => SubmissionSignalled
  BY DEF Drained, SubmissionSignalled, Signal
<1> QED  BY Invariance, <1>1, <1>2, <1>3, PTL DEF Spec

-----------------------------------------------------------------------------
(***************************************************************************)
(* The requests of the network driver, for every queue size, number of     *)
(* requests and batch size: a request is in one place, what the device may *)
(* use is left alone, and the driver with its device and its client        *)
(* implements IoContract.                                                  *)
(*                                                                         *)
(* As above most of the invariant is about one queue q: the array P that   *)
(* pending_rx or pending_tx is, the index `seen` up to which the device    *)
(* has read the available ring, and the heads it holds.                    *)
(***************************************************************************)

(* Where a request is: in the submission ring, with the driver, recorded   *)
(* with a chain, or in the completion ring.                                *)

Flight(P, u) == {x \in Side \X Desc : P[x[1]][x[2]] = u}
Flying(P, u) == Cardinality(Flight(P, u))
One(v, u)    == IF v = u THEN 1 ELSE 0
Homes(u)     == Occurs(sq, u) + Occurs(ToDo, u) + Occurs(cq, u) + Flying(pending, u)
IsOpen(u)    == IF ask[u] = None THEN 0 ELSE 1

\* The sum that OneHome is about.
LEMMA HomesIs == OneHome <=> \A u \in Users : Homes(u) = IsOpen(u)
BY DEF OneHome, Homes, IsOpen, Flying, Flight, Named, Occurs, At

\* A step that keeps each user's sum in step with its request keeps OneHome.
LEMMA HomeBy ==
  ASSUME OneHome,
         \A u \in Users : Homes(u) = IsOpen(u) => Homes(u)' = IsOpen(u)'
  PROVE  OneHome'
<1>1. \A u \in Users : Homes(u)' = IsOpen(u)'
  BY HomesIs
<1>2. OneHome' <=> \A u \in Users : Homes(u)' = IsOpen(u)'
  BY DEF OneHome, Homes, IsOpen, Flying, Flight, Named, Occurs, At
<1> QED  BY <1>1, <1>2

Put(A, s, h, v) == [A EXCEPT ![s] = [A[s] EXCEPT ![h] = v]]

\* Replacing one entry of the arrays that record the requests.
LEMMA FlightPut ==
  ASSUME NEW A \in [Side -> [Desc -> Users \cup {None}]], NEW u \in Users,
         NEW s \in Side, NEW h \in Desc, NEW v \in Users \cup {None}
  PROVE  /\ Flying(A, u) \in Nat /\ Flying(Put(A, s, h, v), u) \in Nat
         /\ Flying(Put(A, s, h, v), u) + One(A[s][h], u) = Flying(A, u) + One(v, u)
<1> DEFINE B == Put(A, s, h, v)
           x == <<s, h>>
<1>1. IsFiniteSet(Side \X Desc)
  <2>1. IsFiniteSet(Side)
    <3>1. IsFiniteSet({"rx"}) /\ Side = {"rx"} \cup {"tx"}
      BY FS_Singleton DEF Side
    <3> QED  BY <3>1, FS_AddElement
  <2>2. IsFiniteSet(Desc)
    BY FS_Interval, QueueAssumption DEF Desc
  <2> QED  BY <2>1, <2>2, FS_Product
<1>2. ASSUME NEW F, F \subseteq Side \X Desc
      PROVE  /\ Cardinality(F) \in Nat /\ Cardinality(F \ {x}) \in Nat
             /\ Cardinality(F) = Cardinality(F \ {x}) + (IF x \in F THEN 1 ELSE 0)
  <2>1. IsFiniteSet(F)
    BY <1>1, <1>2, FS_Subset
  <2>2. IsFiniteSet(F \ {x})
    BY <2>1, FS_Subset
  <2>3. Cardinality(F) \in Nat /\ Cardinality(F \ {x}) \in Nat
    BY <2>1, <2>2, FS_CardinalityType
  <2>4. x \in F => Cardinality(F \ {x}) = Cardinality(F) - 1
    BY <2>1, FS_RemoveElement
  <2>5. x \notin F => F \ {x} = F
    OBVIOUS
  <2>6. Cardinality(F) = Cardinality(F \ {x}) + (IF x \in F THEN 1 ELSE 0)
    <3> DEFINE G == F \ {x}
    <3>1. x \in F => Cardinality(F) = Cardinality(G) + 1
      BY <2>3, <2>4
    <3>2. x \notin F => Cardinality(F) = Cardinality(G)
      BY <2>5
    <3>3. Cardinality(F) \in Nat /\ Cardinality(G) \in Nat
      BY <2>3
    <3> HIDE DEF G, x
    <3> QED  BY <3>1, <3>2, <3>3 DEF G
  <2> QED  BY <2>3, <2>6
<1>3. /\ Flight(A, u) \subseteq Side \X Desc /\ Flight(B, u) \subseteq Side \X Desc
      /\ x \in Flight(A, u) <=> A[s][h] = u
      /\ x \in Flight(B, u) <=> v = u
  BY DEF Flight, Put
<1>4. Flight(A, u) \ {x} = Flight(B, u) \ {x}
  <2>1. \A t \in Side, d \in Desc : <<t, d>> # x => B[t][d] = A[t][d]
    BY DEF Put
  <2> HIDE DEF B, x
  <2> QED  BY <2>1 DEF Flight
<1> HIDE DEF B, x
<1>5. /\ Cardinality(Flight(A, u)) \in Nat
      /\ Cardinality(Flight(A, u) \ {x}) \in Nat
      /\ Cardinality(Flight(A, u)) = Cardinality(Flight(A, u) \ {x})
                                       + (IF x \in Flight(A, u) THEN 1 ELSE 0)
  BY <1>2, <1>3
<1>6. /\ Cardinality(Flight(B, u)) \in Nat
      /\ Cardinality(Flight(B, u)) = Cardinality(Flight(B, u) \ {x})
                                       + (IF x \in Flight(B, u) THEN 1 ELSE 0)
  BY <1>2, <1>3
<1>7. Cardinality(Flight(B, u)) + (IF A[s][h] = u THEN 1 ELSE 0)
        = Cardinality(Flight(A, u)) + (IF v = u THEN 1 ELSE 0)
  <2> DEFINE f == Cardinality(Flight(A, u))
             g == Cardinality(Flight(B, u))
             r == Cardinality(Flight(A, u) \ {x})
  <2>1. f = r + (IF A[s][h] = u THEN 1 ELSE 0) /\ g = r + (IF v = u THEN 1 ELSE 0) /\ r \in Nat
    BY <1>3, <1>4, <1>5, <1>6
  <2> HIDE DEF f, g, r
  <2> QED  BY <2>1 DEF f, g
<1> QED  BY <1>5, <1>6, <1>7 DEF Flying, One, B

-----------------------------------------------------------------------------
(* The actions by what they do to the places of the requests.              *)

Places == <<sq, cq, pending, ask>>

\* The sequences that name requests.
LEMMA PlaceTypes ==
  ASSUME IInv
  PROVE  /\ sq \in Seq(Sqe) /\ ToDo \in Seq(Sqe) /\ cq \in Seq(Cqe) /\ drv.batch \in Seq(Sqe)
         /\ pending \in [Side -> [Desc -> Users \cup {None}]]
         /\ ask \in [Users -> Kinds \cup {None}] /\ None \notin Kinds \cup Users
         /\ exec \in [Users -> Done \cup {None}] /\ rxlen \in [Desc -> Lens \cup {0}]
         /\ VqType /\ DrvType /\ RingType /\ DevType /\ VqInv /\ Control /\ Chains
<1>1. VqType /\ DrvType /\ RingType /\ DevType /\ VqInv /\ Control /\ Chains
  BY TypeParts DEF IInv, VqInv
<1>2. sq \in Seq(Sqe) /\ cq \in Seq(Cqe) /\ drv.batch \in Seq(Sqe)
  BY <1>1 DEF RingType, DrvType
<1>3. ToDo \in Seq(Sqe)
  BY <1>1, <1>2 DEF ToDo, Control
<1> QED  BY <1>1, <1>2, <1>3, NetAssumption DEF VqType, RingType, DevType

\* Steps that move no request.
Still == \/ RecvIrq \/ RecvRing \/ IrqRead \/ IrqAck \/ PopNone \/ FreeOne
         \/ FetchDone \/ Notify \/ SubmitDone
         \/ DevLooks \/ DevGives \/ DevRaise \/ KernelIrq \/ ClientNotify \/ UNCHANGED vars

\* A step that moves no request leaves every place it may be in.
LEMMA StillIs ==
  ASSUME IInv, Still
  PROVE  UNCHANGED Places /\ ToDo' = ToDo
<1> USE DEF Places, ringVars, clientVars
<1>0. DrvType /\ Control
  BY PlaceTypes
<1>1. CASE RecvIrq \/ RecvRing \/ IrqRead \/ IrqAck \/ PopNone
  <2>1. UNCHANGED Places
    BY <1>1 DEF RecvIrq, RecvRing, IrqRead, IrqAck, PopNone
  <2>2. drv.pc # "notify" /\ drv'.pc # "notify" /\ drv'.batch = drv.batch
    BY <1>0, <1>1, Moves DEF RecvIrq, RecvRing, IrqRead, IrqAck, PopNone, SameBatch
  <2> QED  BY <2>1, <2>2 DEF ToDo
<1>2. CASE FreeOne
  <2>1. UNCHANGED Places
    BY <1>2 DEF FreeOne
  <2>2. drv.pc # "notify" /\ drv'.pc # "notify" /\ drv'.batch = drv.batch
    BY <1>0, <1>2, WalkMoves DEF SameBatch
  <2> QED  BY <2>1, <2>2 DEF ToDo
<1>3. CASE FetchDone \/ SubmitDone
  <2>1. UNCHANGED Places
    BY <1>3 DEF FetchDone, SubmitDone
  <2>2. drv.pc # "notify" /\ drv'.pc # "notify" /\ drv'.batch = drv.batch
    BY <1>0, <1>3, Moves DEF FetchDone, SubmitDone, SameBatch
  <2> QED  BY <2>1, <2>2 DEF ToDo
<1>4. CASE Notify
  <2>1. UNCHANGED Places /\ drv.pc = "notify"
    BY <1>4 DEF Notify
  <2>2. drv'.pc = "submit" /\ drv'.batch = Tail(drv.batch)
    BY <1>0, <1>4, Moves
  <2> QED  BY <2>1, <2>2 DEF ToDo
<1>5. CASE DevLooks \/ DevGives \/ DevRaise \/ KernelIrq \/ ClientNotify \/ UNCHANGED vars
  <2>1. UNCHANGED Places /\ drv' = drv
    BY <1>5 DEF DevLooks, DevTake, DevSleep, DevGives, DevDone, DevRaise, KernelIrq, ClientNotify,
                vars
  <2> QED  BY <2>1 DEF ToDo
<1> QED  BY <1>1, <1>2, <1>3, <1>4, <1>5 DEF Still

\* The others.
Refuses == RefuseOp \/ Refused
Opens   == \E u \in Users, k \in Kinds : ClientSubmit(u, k)

\* Every step moves no request, or is one of six that do.
LEMMA NextStill ==
  ASSUME [Next]_vars
  PROVE  Still \/ Fetch \/ Refuses \/ Publish \/ PopOne \/ Opens \/ ClientReap
BY NextIs DEF Still, Refuses, Refused, Opens, Elsewhere, Client

\* The driver takes an entry of the submission ring.
LEMMA FetchIs ==
  ASSUME IInv, Fetch
  PROVE  /\ sq # << >> /\ Head(sq) \in Sqe /\ sq' = Tail(sq) /\ sq' \in Seq(Sqe)
         /\ ToDo' = Append(ToDo, Head(sq))
         /\ UNCHANGED <<vq, cq, pending, ask, exec, dev, rxlen>>
<1>1. drv.pc = "fetch" /\ drv'.pc = "fetch" /\ drv'.batch = Append(drv.batch, Head(sq))
  BY PlaceTypes, Moves DEF Fetch
<1>2. ToDo = drv.batch /\ ToDo' = drv'.batch
  BY <1>1 DEF ToDo
<1> QED  BY <1>1, <1>2, PlaceTypes DEF Fetch, clientVars, deviceVars

\* The driver refuses the entry it is at.
LEMMA RefusesIs ==
  ASSUME IInv, Refuses
  PROVE  /\ ToDo # << >> /\ Head(ToDo) = Sub /\ Sub \in Sqe /\ Sub.user \in Users
         /\ ToDo' = Tail(ToDo) /\ ToDo' \in Seq(Sqe)
         /\ [user |-> Sub.user, res |-> -1] \in Cqe
         /\ cq' = Append(cq, [user |-> Sub.user, res |-> -1])
         /\ UNCHANGED <<sq, pending, ask, exec, dev, rxlen>>
<1>1. /\ drv.pc = "submit" /\ drv.batch # << >> /\ UNCHANGED <<sq, pending, ask, exec, dev, rxlen>>
      /\ cq' = Append(cq, [user |-> Sub.user, res |-> -1])
  BY DEF Refuses, RefuseOp, Refused, RefuseNoDesc, RefuseAddr, Refuse, Submitting, clientVars,
         deviceVars
<1>2. drv'.pc = "submit" /\ drv'.batch = Tail(drv.batch)
  BY PlaceTypes, Moves DEF Refuses, Refused
<1>3. ToDo = drv.batch /\ ToDo' = drv'.batch
  BY <1>1, <1>2 DEF ToDo
<1>4. /\ Sub \in Sqe /\ Sub.user \in Users /\ Tail(drv.batch) \in Seq(Sqe)
      /\ [user |-> Sub.user, res |-> -1] \in Cqe
  BY <1>1, SubIs, PlaceTypes DEF Cqe
<1> QED  BY <1>1, <1>2, <1>3, <1>4 DEF Sub

\* The driver makes the entry it is at available to the device.
LEMMA PublishMoves ==
  ASSUME IInv, Publish
  PROVE  /\ ToDo # << >> /\ Head(ToDo) = Sub /\ ToDo' = Tail(ToDo)
         /\ UNCHANGED <<sq, cq, ask, exec, dev, rxlen>>
<1>1. drv.pc = "submit" /\ drv.batch # << >> /\ UNCHANGED <<sq, cq, ask, exec, dev, rxlen>>
  BY DEF Publish, Submitting, ringVars, clientVars, deviceVars
<1>2. drv'.pc = "notify" /\ drv'.batch = drv.batch
  BY PlaceTypes, Moves DEF SameBatch
<1> QED  BY <1>1, <1>2 DEF ToDo, Sub

\* The driver answers a request whose chain came back, if it is recorded.
LEMMA PopMoves ==
  ASSUME IInv, PopOne, NEW s \in Side, s = drv.side
  PROVE  /\ UNCHANGED <<sq, ask, exec, dev, rxlen>> /\ ToDo' = ToDo
         /\ PopId(vq[s]) \in Desc
         /\ LET h == PopId(vq[s])
                e == [user |-> pending[s][h], res |-> Answer(s, rxlen[vq[s].last_used_idx % Num])]
            IN  \/ pending[s][h] = None /\ pending' = pending /\ cq' = cq
                \/ /\ pending[s][h] # None /\ pending[s][h] \in Users /\ e \in Cqe
                   /\ pending' = [pending EXCEPT ![s] = [pending[s] EXCEPT ![h] = None]]
                   /\ cq' = Append(cq, e)
<1> DEFINE h == PopId(vq[s])
           e == [user |-> pending[s][h], res |-> Answer(s, rxlen[vq[s].last_used_idx % Num])]
<1>1. VqType /\ DrvType /\ DevType
  BY PlaceTypes
<1>2. UNCHANGED <<sq, ask, exec, dev, rxlen>> /\ drv.pc = "pop"
  BY DEF PopOne, clientVars, deviceVars
<1>3. drv'.batch = drv.batch /\ drv'.pc \in {"pop", "free"}
  BY <1>1, <1>2, WalkMoves DEF SameBatch
<1>4. ToDo' = ToDo
  BY <1>2, <1>3 DEF ToDo
<1>5. h \in Desc
  BY <1>1, RingIndex DEF PopId, Queue, VqType
<1>6. \/ pending[s][h] = None /\ cq' = cq
      \/ pending[s][h] # None /\ e \in Cqe /\ cq' = Append(cq, e)
  BY <1>1, PopCqe
<1>7. \/ pending[s][h] = None /\ pending' = pending
      \/ /\ pending[s][h] # None
         /\ pending' = [pending EXCEPT ![s] = [pending[s] EXCEPT ![h] = None]]
  <2>1. \/ pending[s][h] = None /\ UNCHANGED pending
        \/ pending[s][h] # None /\ pending' = [pending EXCEPT ![s][h] = None]
    BY DEF PopOne
  <2> QED  BY <1>5, <2>1, PlaceTypes
<1>8. pending[s][h] \in Users \cup {None}
  BY <1>5, PlaceTypes
<1> QED  BY <1>2, <1>4, <1>5, <1>6, <1>7, <1>8

-----------------------------------------------------------------------------
(* A request is in exactly one place.                                      *)

\* What the sequences hold, before and after an entry moves.
LEMMA CountTail ==
  ASSUME NEW S, NEW t \in Seq(S), t # << >>, NEW u
  PROVE  /\ Occurs(Tail(t), u) \in Nat /\ Occurs(t, u) \in Nat /\ Head(t) \in S
         /\ Occurs(t, u) = Occurs(Tail(t), u) + (IF Head(t).user = u THEN 1 ELSE 0)
<1>1. Tail(t) \in Seq(S) /\ Head(t) \in S
  OBVIOUS
<1> QED  BY <1>1, OccursTail, OccursType

\* The entries of a user are counted up by an append that names it.
LEMMA CountAppend ==
  ASSUME NEW S, NEW t \in Seq(S), NEW e \in S, NEW u
  PROVE  /\ Occurs(t, u) \in Nat /\ Occurs(Append(t, e), u) \in Nat
         /\ Occurs(Append(t, e), u) = Occurs(t, u) + (IF e.user = u THEN 1 ELSE 0)
<1>1. Append(t, e) \in Seq(S)
  OBVIOUS
<1> QED  BY <1>1, OccursAppend, OccursType

\* Each count is a number.
LEMMA HomesType ==
  ASSUME IInv, NEW u \in Users
  PROVE  /\ Occurs(sq, u) \in Nat /\ Occurs(ToDo, u) \in Nat /\ Occurs(cq, u) \in Nat
         /\ Flying(pending, u) \in Nat /\ IsOpen(u) \in 0 .. 1
<1>1. Occurs(sq, u) \in Nat /\ Occurs(ToDo, u) \in Nat
  BY PlaceTypes, OccursType
<1>2. Occurs(cq, u) \in Nat
  BY PlaceTypes, OccursType
<1>3. Flying(pending, u) \in Nat
  <2>1. 0 \in Desc /\ "rx" \in Side /\ None \in Users \cup {None}
    BY QueueAssumption DEF Desc, Side
  <2> QED  BY <2>1, FlightPut, PlaceTypes
<1> QED  BY <1>1, <1>2, <1>3 DEF IsOpen

\* Fetching moves an entry from the ring to the batch.
LEMMA HomeFetch ==
  ASSUME IInv, OneHome, Fetch
  PROVE  OneHome'
<1>1. /\ sq # << >> /\ Head(sq) \in Sqe /\ sq' = Tail(sq) /\ ToDo' = Append(ToDo, Head(sq))
      /\ UNCHANGED <<cq, pending, ask>>
  BY FetchIs
<1>2. ASSUME NEW u \in Users PROVE Homes(u)' = Homes(u) /\ IsOpen(u)' = IsOpen(u)
  <2> DEFINE d == IF Head(sq).user = u THEN 1 ELSE 0
  <2>1. Occurs(sq, u) = Occurs(sq', u) + d /\ Occurs(sq', u) \in Nat
    BY <1>1, CountTail, PlaceTypes
  <2>2. Occurs(ToDo', u) = Occurs(ToDo, u) + d /\ Occurs(ToDo', u) \in Nat
    BY <1>1, CountAppend, PlaceTypes
  <2>3. d \in 0 .. 1
    OBVIOUS
  <2> HIDE DEF d
  <2> QED  BY <1>1, <2>1, <2>2, <2>3, HomesType DEF Homes, IsOpen
<1> QED  BY <1>2, HomeBy

\* Refusing moves an entry from the batch to the completion ring.
LEMMA HomeRefuse ==
  ASSUME IInv, OneHome, Refuses
  PROVE  OneHome'
<1> DEFINE e == [user |-> Sub.user, res |-> -1]
<1>1. /\ ToDo # << >> /\ Head(ToDo) = Sub /\ ToDo' = Tail(ToDo) /\ cq' = Append(cq, e) /\ e \in Cqe
      /\ UNCHANGED <<sq, pending, ask>> /\ e.user = Sub.user
  BY RefusesIs
<1> HIDE DEF e
<1>2. ASSUME NEW u \in Users PROVE Homes(u)' = Homes(u) /\ IsOpen(u)' = IsOpen(u)
  <2> DEFINE d == IF Sub.user = u THEN 1 ELSE 0
  <2>1. Occurs(ToDo, u) = Occurs(ToDo', u) + d /\ Occurs(ToDo', u) \in Nat
    BY <1>1, CountTail, PlaceTypes
  <2>2. Occurs(cq', u) = Occurs(cq, u) + d /\ Occurs(cq', u) \in Nat
    BY <1>1, CountAppend, PlaceTypes
  <2>3. d \in 0 .. 1
    OBVIOUS
  <2> HIDE DEF d
  <2> QED  BY <1>1, <2>1, <2>2, <2>3, HomesType DEF Homes, IsOpen
<1> QED  BY <1>2, HomeBy

\* Publishing moves a request from the batch to the array of its queue.
LEMMA HomePublish ==
  ASSUME IInv, OneHome, Publish
  PROVE  OneHome'
<1>1. /\ ToDo # << >> /\ Head(ToDo) = Sub /\ ToDo' = Tail(ToDo) /\ UNCHANGED <<sq, cq, ask>>
  BY PublishMoves
<1>2. PICK s \in Side, h \in Desc, v \in Users :
        /\ pending[s][h] = None /\ v = Sub.user
        /\ pending' = [pending EXCEPT ![s] = [pending[s] EXCEPT ![h] = v]]
  BY PublishedIs, PlaceTypes
<1>3. ASSUME NEW u \in Users PROVE Homes(u)' = Homes(u) /\ IsOpen(u)' = IsOpen(u)
  <2> DEFINE d == One(v, u)
             f == Flying(pending, u)
             g == Flying(pending', u)
  <2>1. Occurs(ToDo, u) = Occurs(ToDo', u) + d /\ Occurs(ToDo', u) \in Nat
    BY <1>1, <1>2, CountTail, PlaceTypes DEF One
  <2>2. g = f + d /\ g \in Nat /\ f \in Nat
    <3>1. pending[s][h] # u /\ v \in Users \cup {None}
      BY <1>2, PlaceTypes
    <3>2. g \in Nat /\ f \in Nat /\ g + One(pending[s][h], u) = f + d
      <4>1. pending' = Put(pending, s, h, v)
        BY <1>2 DEF Put
      <4>2. pending \in [Side -> [Desc -> Users \cup {None}]]
        BY PlaceTypes
      <4>3. /\ Flying(pending, u) \in Nat /\ Flying(Put(pending, s, h, v), u) \in Nat
            /\ Flying(Put(pending, s, h, v), u) + One(pending[s][h], u)
                 = Flying(pending, u) + One(v, u)
        BY <3>1, <4>2, FlightPut
      <4> QED  BY <4>1, <4>3
    <3> HIDE DEF f, g, d
    <3> QED  BY <3>1, <3>2 DEF One
  <2>3. d \in 0 .. 1
    BY DEF One
  <2>4. Homes(u)' = Occurs(sq, u) + Occurs(ToDo', u) + Occurs(cq, u) + g
    BY <1>1 DEF Homes
  <2>5. Homes(u) = Occurs(sq, u) + Occurs(ToDo, u) + Occurs(cq, u) + f
    BY DEF Homes
  <2> HIDE DEF d, f, g
  <2> QED  BY <1>1, <2>1, <2>2, <2>3, <2>4, <2>5, HomesType, SMTT(20) DEF IsOpen
<1> QED  BY <1>3, HomeBy

\* Popping moves a request from the array of its queue to the completion ring.
LEMMA HomePop ==
  ASSUME IInv, OneHome, PopOne
  PROVE  OneHome'
<1>1. PICK s \in Side : s = drv.side
  BY PlaceTypes DEF DrvType
<1> DEFINE h == PopId(vq[s])
           e == [user |-> pending[s][h], res |-> Answer(s, rxlen[vq[s].last_used_idx % Num])]
<1>2. /\ UNCHANGED <<sq, ask>> /\ ToDo' = ToDo /\ h \in Desc /\ e.user = pending[s][h]
      /\ \/ pending[s][h] = None /\ pending' = pending /\ cq' = cq
         \/ /\ pending[s][h] # None /\ pending[s][h] \in Users /\ e \in Cqe
            /\ pending' = [pending EXCEPT ![s] = [pending[s] EXCEPT ![h] = None]]
            /\ cq' = Append(cq, e)
  BY <1>1, PopMoves
<1> HIDE DEF h, e
<1>3. ASSUME NEW u \in Users PROVE Homes(u)' = Homes(u) /\ IsOpen(u)' = IsOpen(u)
  <2>1. CASE pending[s][h] = None
    BY <1>2, <2>1 DEF Homes, IsOpen
  <2>2. CASE pending[s][h] # None
    <3> DEFINE d == One(pending[s][h], u)
               f == Flying(pending, u)
               g == Flying(pending', u)
    <3>1. Occurs(cq', u) = Occurs(cq, u) + d /\ Occurs(cq', u) \in Nat
      <4>1. cq' = Append(cq, e) /\ e \in Cqe /\ e.user = pending[s][h]
        BY <1>2, <2>2
      <4>2. Occurs(Append(cq, e), u) = Occurs(cq, u) + (IF e.user = u THEN 1 ELSE 0)
        BY <4>1, CountAppend, PlaceTypes
      <4>3. Occurs(Append(cq, e), u) \in Nat
        BY <4>1, CountAppend, PlaceTypes
      <4> QED  BY <4>1, <4>2, <4>3 DEF One
    <3>2. g + d = f /\ g \in Nat /\ f \in Nat
      <4>1. None # u /\ None \in Users \cup {None}
        BY PlaceTypes
      <4>2. g \in Nat /\ f \in Nat /\ g + d = f + One(None, u)
        <5>1. pending' = Put(pending, s, h, None)
          BY <1>2, <2>2 DEF Put
        <5> QED  BY <1>2, <4>1, <5>1, FlightPut, PlaceTypes
      <4> HIDE DEF f, g, d
      <4> QED  BY <4>1, <4>2 DEF One
    <3>3. d \in 0 .. 1
      BY DEF One
    <3>4. Homes(u)' = Occurs(sq, u) + Occurs(ToDo, u) + Occurs(cq', u) + g
      BY <1>2 DEF Homes
    <3>5. Homes(u) = Occurs(sq, u) + Occurs(ToDo, u) + Occurs(cq, u) + f
      BY DEF Homes
    <3> HIDE DEF d, f, g
    <3> QED  BY <1>2, <3>1, <3>2, <3>3, <3>4, <3>5, HomesType, SMTT(20) DEF IsOpen
  <2> QED  BY <2>1, <2>2
<1> QED  BY <1>3, HomeBy

\* Submitting opens a request and gives it its one home.
LEMMA HomeOpen ==
  ASSUME IInv, OneHome, Opens
  PROVE  OneHome'
<1>1. PICK v \in Users, k \in Kinds : ClientSubmit(v, k)
  BY DEF Opens
<1> DEFINE e == [user |-> v, kind |-> k]
<1>2. /\ ask[v] = None /\ ask' = [ask EXCEPT ![v] = k] /\ sq' = Append(sq, e)
      /\ UNCHANGED <<drv, cq, pending>> /\ e.user = v /\ e \in Sqe
  BY <1>1 DEF ClientSubmit, Sqe
<1> HIDE DEF e
<1>3. ASSUME NEW u \in Users, Homes(u) = IsOpen(u) PROVE Homes(u)' = IsOpen(u)'
  <2> DEFINE d == IF v = u THEN 1 ELSE 0
  <2>1. Occurs(sq', u) = Occurs(sq, u) + d /\ Occurs(sq', u) \in Nat
    BY <1>2, CountAppend, PlaceTypes
  <2>2. IsOpen(u)' = IsOpen(u) + d
    BY <1>2, PlaceTypes DEF IsOpen
  <2>3. d \in 0 .. 1
    OBVIOUS
  <2>4. ToDo' = ToDo
    BY <1>2 DEF ToDo
  <2>5. Homes(u)' = Occurs(sq', u) + Occurs(ToDo, u) + Occurs(cq, u) + Flying(pending, u)
    BY <1>2, <2>4 DEF Homes
  <2>6. IsOpen(u) = Occurs(sq, u) + Occurs(ToDo, u) + Occurs(cq, u) + Flying(pending, u)
    BY <1>3 DEF Homes
  <2> HIDE DEF d
  <2> QED  BY <2>1, <2>2, <2>3, <2>5, <2>6, HomesType
<1> QED  BY <1>3, HomeBy

\* Reaping a completion closes the request and removes its one home.
LEMMA HomeReap ==
  ASSUME IInv, OneHome, ClientReap
  PROVE  OneHome'
<1> DEFINE v == Head(cq).user
<1>1. /\ ask' = [ask EXCEPT ![v] = None] /\ cq' = Tail(cq) /\ cq # << >>
      /\ UNCHANGED <<drv, sq, pending>>
  BY DEF ClientReap
<1>2. ASSUME NEW u \in Users, Homes(u) = IsOpen(u) PROVE Homes(u)' = IsOpen(u)'
  <2> DEFINE d == IF v = u THEN 1 ELSE 0
  <2>1. Occurs(cq, u) = Occurs(cq', u) + d /\ Occurs(cq', u) \in Nat
    BY <1>1, CountTail, PlaceTypes
  <2>2. IsOpen(u)' = IF v = u THEN 0 ELSE IsOpen(u)
    BY <1>1, PlaceTypes DEF IsOpen
  <2>3. ToDo' = ToDo
    BY <1>1 DEF ToDo
  <2>4. Homes(u)' = Occurs(sq, u) + Occurs(ToDo, u) + Occurs(cq', u) + Flying(pending, u)
    BY <1>1, <2>3 DEF Homes
  <2>5. IsOpen(u) = Occurs(sq, u) + Occurs(ToDo, u) + Occurs(cq, u) + Flying(pending, u)
    BY <1>2 DEF Homes
  <2> QED  BY <2>1, <2>2, <2>4, <2>5, HomesType
<1> QED  BY <1>2, HomeBy

\* Every step keeps each open request in exactly one place, and a closed one in none.
LEMMA HomeStep ==
  ASSUME IInv, OneHome, [Next]_vars
  PROVE  OneHome'
<1>1. CASE Still
  <2>1. UNCHANGED Places /\ ToDo' = ToDo
    BY <1>1, StillIs
  <2> QED  BY <2>1, HomeBy DEF Homes, IsOpen, Places
<1> QED  BY <1>1, HomeFetch, HomeRefuse, HomePublish, HomePop, HomeOpen, HomeReap, NextStill

\* No request is open initially, and none is anywhere.
LEMMA HomeInit == Init => OneHome
<1> SUFFICES ASSUME Init PROVE OneHome
  OBVIOUS
<1>1. ASSUME NEW u \in Users PROVE Homes(u) = IsOpen(u)
  <2>1. At(sq, u) = {} /\ At(ToDo, u) = {} /\ At(cq, u) = {}
    BY DEF Init, At, ToDo
  <2>2. Flight(pending, u) = {}
    BY NetAssumption DEF Init, Flight
  <2>3. Cardinality({}) = 0
    BY FS_EmptySet
  <2>4. Homes(u) = 0
    BY <2>1, <2>2, <2>3 DEF Homes, Occurs, Flying
  <2> QED  BY <2>4 DEF Init, IsOpen
<1> QED  BY <1>1, HomesIs

(* A request is in exactly one place, and a name that is free is in none:  *)
(* each submission entry ends as exactly one completion entry.             *)
THEOREM HomeTheorem == Spec => []OneHome
<1>1. IInv /\ OneHome /\ [Next]_vars => OneHome'
  BY HomeStep
<1> QED  BY HomeInit, Invariance, <1>1, PTL DEF Spec

-----------------------------------------------------------------------------
(* The rings of a queue: which heads are on the available ring and not     *)
(* taken, and which on the used ring and not popped.                       *)

Avail(q, seen) == Between(q.avail_ring, seen, q.avail_idx)
Unread(q)      == Between(q.used_ring, q.last_used_idx, q.used_idx)

\* No head is twice on a ring, or with two parties, and each is recorded.
Rings(q, P, seen, held) ==
  /\ Distinct(q.avail_ring, seen, q.avail_idx)
  /\ Distinct(q.used_ring, q.last_used_idx, q.used_idx)
  /\ Avail(q, seen) \cap held = {}
  /\ Unread(q) \cap (Avail(q, seen) \cup held) = {}
  /\ Heads(P) = Avail(q, seen) \cup held \cup Unread(q)

\* The slots of the used ring that have not been popped.
Slots(q) == Between([d \in Desc |-> d], q.last_used_idx, q.used_idx)

-----------------------------------------------------------------------------
(* What memory holds for the requests of a queue.                          *)

(* A chain in flight is the request's; one the device has was not executed *)
(* and one that came back was, with the length the ring says.              *)
Made(s, q, P, a) == \A h \in Heads(P) : a[P[h]] = s /\ Shape(s, q, h, P[h])
Open(P, own, e)  == \A h \in own : e[P[h]] = None
Used(s, q, P, e, len) ==
  \A k \in Slots(q) :
    /\ e[P[q.used_ring[k]]] \in Done
    /\ e[P[q.used_ring[k]]] = [op |-> s, st |-> IF s = "rx" THEN len[k] ELSE Sent]

Memory(s, q, P, seen, held, a, e, len) ==
  /\ Rings(q, P, seen, held) /\ Made(s, q, P, a)
  /\ Open(P, Avail(q, seen) \cup held, e) /\ Used(s, q, P, e, len)

InMemory(s) == Memory(s, vq[s], pending[s], dev.seen[s], dev.held[s], ask, exec, rxlen)

\* The entries of t have not been acted on, those of c say what was done.
Waits(t, a, e) == \A i \in 1 .. Len(t) : a[t[i].user] = t[i].kind /\ e[t[i].user] = None
Reply(d)       == IF d = None THEN -1 ELSE Answer(d.op, d.st)
Answers(c, e)  == \A i \in 1 .. Len(c) : c[i].res = Reply(e[c[i].user])
Closed         == \A u \in Users : ask[u] = None => exec[u] = None

Requests ==
  /\ \A s \in Side : InMemory(s)
  /\ Waits(sq, ask, exec) /\ Waits(ToDo, ask, exec) /\ Answers(cq, exec) /\ Closed

-----------------------------------------------------------------------------
(* What the steps do to the rings of a queue.                              *)

\* The identity on slots, of which Slots is a part.
Itself == [d \in Desc |-> d]

\* Every index selects a slot.
LEMMA SlotType ==
  ASSUME NEW a \in Int, NEW i \in Int
  PROVE  (a + i) % Num \in Desc
<1>1. a + i \in Int /\ Num \in Nat \ {0}
  BY QueueAssumption
<1> QED  BY <1>1, ModSplit DEF Desc

\* The unread entries are what the unread slots hold, each slot another one.
LEMMA SlotsAre ==
  ASSUME NEW q \in Queue(Addr),
         Distinct(q.used_ring, q.last_used_idx, q.used_idx)
  PROVE  /\ Slots(q) \subseteq Desc
         /\ \A k \in Slots(q) : q.used_ring[k] \in Unread(q)
         /\ Distinct(Itself, q.last_used_idx, q.used_idx)
         /\ q.last_used_idx \in Idx /\ q.used_idx \in Idx /\ Itself \in [Desc -> Desc]
<1> DEFINE a == q.last_used_idx
           N == Count(a, q.used_idx)
           x(i) == (a + i) % Num
<1>1. /\ a \in Idx /\ q.used_idx \in Idx /\ q.used_ring \in [Desc -> Desc]
      /\ Itself \in [Desc -> Desc] /\ a \in Int
  BY DEF Queue, Itself, Idx
<1>2. N \in Nat
  <2>1. PICK from \in Idx, to \in Idx : from = a /\ to = q.used_idx
    BY <1>1
  <2>2. Count(from, to) \in 0 .. IdxMod - 1
    BY CountIs
  <2>3. IdxMod \in Nat
    BY QueueAssumption
  <2>4. Count(from, to) \in Nat
    BY <2>2, <2>3
  <2> QED  BY <2>1, <2>4, Zenon
<1> HIDE DEF a, N
<1>3. \A i \in 0 .. N - 1 : x(i) \in Desc
  <2>1. \A i \in 0 .. N - 1 : i \in Int
    BY <1>2
  <2> QED  BY <1>1, <2>1, SlotType DEF a
<1>4. Slots(q) = {Itself[x(i)] : i \in 0 .. N - 1}
  BY DEF Slots, Between, Itself, a, N
<1>5. Unread(q) = {q.used_ring[x(i)] : i \in 0 .. N - 1}
  BY DEF Unread, Between, a, N
<1> HIDE DEF x
<1>6. \A i \in 0 .. N - 1 : Itself[x(i)] = x(i)
  BY <1>3 DEF Itself
<1>7. \A i, j \in 0 .. N - 1 : q.used_ring[x(i)] = q.used_ring[x(j)] => i = j
  BY DEF Distinct, x, a, N
<1>8. \A i, j \in 0 .. N - 1 : Itself[x(i)] = Itself[x(j)] => i = j
  BY <1>6, <1>7
<1>9. Distinct(Itself, a, q.used_idx)
  BY <1>8 DEF Distinct, x, N
<1> QED  BY <1>1, <1>3, <1>4, <1>5, <1>6, <1>9 DEF a

\* One more used entry is one more slot.
LEMMA ItselfPush ==
  ASSUME NEW from \in Idx, NEW to \in Idx, Distinct(Itself, from, to),
         to % Num \notin Between(Itself, from, to)
  PROVE  Between(Itself, from, (to + 1) % IdxMod) = Between(Itself, from, to) \cup {to % Num}
<1>1. to % Num \in Desc
  BY RingIndex
<1>2. PICK q : q.ring = Itself
  <2> DEFINE q == [ring |-> Itself]
  <2>1. q.ring = Itself
    OBVIOUS
  <2> QED  BY <2>1
<1>3. PICK d \in Desc : d = to % Num
  BY <1>1
<1>4. /\ q.ring \in [Desc -> Desc]
      /\ Distinct(q.ring, from, to) /\ d \notin Between(q.ring, from, to)
  BY <1>2, <1>3 DEF Itself
<1> DEFINE R == [q.ring EXCEPT ![to % Num] = d]
           e == (to + 1) % IdxMod
<1>5. Distinct(R, from, e) /\ Between(R, from, e) = Between(q.ring, from, to) \cup {d}
  BY <1>4, BetweenPush
<1>6. R = Itself
  BY <1>2, <1>3 DEF Itself
<1> HIDE DEF R
<1> QED  BY <1>2, <1>3, <1>5, <1>6

\* A step that leaves the rings alone.
LEMMA RingsSame ==
  ASSUME NEW q, NEW n, SameRings(q, n), NEW P, NEW seen, NEW held, Rings(q, P, seen, held)
  PROVE  /\ Rings(n, P, seen, held)
         /\ Avail(n, seen) = Avail(q, seen) /\ Unread(n) = Unread(q) /\ Slots(n) = Slots(q)
BY DEF SameRings, Rings, Avail, Unread, Slots

\* The array P once v is recorded for head h; the slot the device fills next.
Record(P, h, v) == [P EXCEPT ![h] = v]
UsedSlot(q)     == q.used_idx % Num

\* n is q with head h added to the available ring, or to the used ring.
Offers(q, n, h) ==
  /\ n.avail_ring = [q.avail_ring EXCEPT ![q.avail_idx % Num] = h]
  /\ n.avail_idx = (q.avail_idx + 1) % IdxMod
  /\ n.used_ring = q.used_ring /\ n.used_idx = q.used_idx /\ n.last_used_idx = q.last_used_idx

Returns(q, n, h) ==
  /\ n.avail_ring = q.avail_ring /\ n.avail_idx = q.avail_idx
  /\ n.last_used_idx = q.last_used_idx
  /\ n.used_ring = [q.used_ring EXCEPT ![q.used_idx % Num] = h]
  /\ n.used_idx = (q.used_idx + 1) % IdxMod

\* A request is recorded and its chain made available.
LEMMA RingsPublish ==
  ASSUME NEW q \in Queue(Addr), NEW P \in [Desc -> Users \cup {None}], NEW seen \in Idx,
         NEW held, Rings(q, P, seen, held),
         NEW h \in Desc, P[h] = None, NEW u, u # None, NEW n, Offers(q, n, h),
         NEW N, N = Record(P, h, u)
  PROVE  /\ Rings(n, N, seen, held)
         /\ Avail(n, seen) = Avail(q, seen) \cup {h}
         /\ Unread(n) = Unread(q) /\ Slots(n) = Slots(q)
         /\ Heads(N) = Heads(P) \cup {h} /\ h \notin Heads(P)
<1>1. Heads(N) = Heads(P) \cup {h} /\ h \notin Heads(P)
  BY DEF Heads, Record
<1>2. h \notin Avail(q, seen) /\ h \notin held /\ h \notin Unread(q)
  BY <1>1 DEF Rings
<1>3. Unread(n) = Unread(q) /\ Slots(n) = Slots(q)
  BY DEF Unread, Slots, Offers
<1>4. Avail(n, seen) = Avail(q, seen) \cup {h} /\ Distinct(n.avail_ring, seen, n.avail_idx)
  <2>1. /\ q.avail_idx \in Idx /\ q.avail_ring \in [Desc -> Desc]
        /\ Distinct(q.avail_ring, seen, q.avail_idx)
        /\ h \notin Between(q.avail_ring, seen, q.avail_idx)
    BY <1>2 DEF Queue, Rings, Avail
  <2> QED  BY <2>1, BetweenPush DEF Avail, Offers
<1> QED  BY <1>1, <1>2, <1>3, <1>4 DEF Rings, Offers

\* The device takes a chain.
LEMMA RingsTake ==
  ASSUME NEW q \in Queue(Addr), NEW P, NEW seen \in Idx, NEW held,
         Rings(q, P, seen, held), DevCanTake(q, seen)
  PROVE  LET h == DevTakeId(q, seen)
             m == (seen + 1) % IdxMod
         IN  /\ Rings(q, P, m, held \cup {h})
             /\ Avail(q, m) \cup (held \cup {h}) = Avail(q, seen) \cup held
<1> DEFINE h == DevTakeId(q, seen)
           m == (seen + 1) % IdxMod
<1>1. /\ q.avail_idx \in Idx /\ q.avail_ring \in [Desc -> Desc] /\ seen # q.avail_idx
      /\ Distinct(q.avail_ring, seen, q.avail_idx)
  BY DEF Queue, Rings, DevCanTake
<1>2. /\ h \in Avail(q, seen) /\ Avail(q, m) = Avail(q, seen) \ {h}
      /\ Distinct(q.avail_ring, m, q.avail_idx)
  BY <1>1, BetweenPop DEF Avail, DevTakeId
<1> HIDE DEF h, m
<1>3. Avail(q, m) \cup (held \cup {h}) = Avail(q, seen) \cup held
  BY <1>2
<1>4. Rings(q, P, m, held \cup {h})
  BY <1>2, <1>3 DEF Rings
<1> QED  BY <1>3, <1>4 DEF h, m

\* The device gives a chain back.
LEMMA RingsUse ==
  ASSUME NEW q \in Queue(Addr), NEW P \in [Desc -> Users \cup {None}], NEW seen,
         NEW held \in SUBSET Desc, Rings(q, P, seen, held), NEW h \in held, NEW n,
         Returns(q, n, h), NEW k, k = UsedSlot(q),
         NEW rest, rest = held \ {h}
  PROVE  /\ Rings(n, P, seen, rest)
         /\ Avail(n, seen) = Avail(q, seen)
         /\ k \in Desc /\ Slots(n) = Slots(q) \cup {k} /\ k \notin Slots(q)
         /\ \A j \in Slots(q) : n.used_ring[j] = q.used_ring[j] /\ q.used_ring[j] # h
         /\ n.used_ring[k] = h
<1>0. k = q.used_idx % Num
  BY DEF UsedSlot
<1>1. /\ q.last_used_idx \in Idx /\ q.used_idx \in Idx /\ q.used_ring \in [Desc -> Desc]
      /\ Distinct(q.used_ring, q.last_used_idx, q.used_idx) /\ h \in Desc
  BY DEF Queue, Rings
<1>2. h \notin Unread(q) /\ h \notin Avail(q, seen)
  BY DEF Rings
<1>3. Unread(n) = Unread(q) \cup {h} /\ Distinct(n.used_ring, n.last_used_idx, n.used_idx)
  BY <1>1, <1>2, BetweenPush DEF Unread, Returns
<1>4. Avail(n, seen) = Avail(q, seen) /\ Distinct(n.avail_ring, seen, n.avail_idx)
  BY DEF Avail, Rings, Returns
<1>5. Rings(n, P, seen, rest)
  BY <1>2, <1>3, <1>4 DEF Rings, Returns
<1>6. k \in Desc
  BY <1>0, <1>1, RingIndex
<1>7. k \notin Slots(q)
  <2> DEFINE a == q.last_used_idx
             N == Count(a, q.used_idx)
  <2>1. N < Num
    BY <1>1, <1>2, CountBound DEF Unread
  <2>2. N \in Nat /\ (a + N) % Num = k /\ a \in Int
    BY <1>0, <1>1, CountIs DEF Idx
  <2>3. Slots(q) = {Itself[(a + i) % Num] : i \in 0 .. N - 1}
    BY DEF Slots, Between, Itself
  <2> HIDE DEF a, N
  <2>4. \A i \in 0 .. N - 1 : (a + i) % Num \in Desc
    <3>1. \A i \in 0 .. N - 1 : i \in Int
      BY <2>2
    <3> QED  BY <2>2, <3>1, SlotType
  <2>5. ASSUME NEW i \in 0 .. N - 1 PROVE (a + i) % Num # k
    <3>1. i \in Nat /\ i < N /\ N - i < Num
      BY <2>1, <2>2, QueueAssumption
    <3> QED  BY <2>2, <3>1, SlotsApart
  <2> QED  BY <2>3, <2>4, <2>5 DEF Itself
<1>8. Slots(n) = Slots(q) \cup {k}
  <2>1. Slots(n) = Between(Itself, n.last_used_idx, n.used_idx)
    BY DEF Slots, Itself
  <2>2. Slots(q) = Between(Itself, q.last_used_idx, q.used_idx)
    BY DEF Slots, Itself
  <2>3. q.last_used_idx \in Idx /\ q.used_idx \in Idx
        /\ Distinct(Itself, q.last_used_idx, q.used_idx)
    BY <1>1, SlotsAre
  <2> QED  BY <1>7, <2>1, <2>2, <2>3, <1>0, ItselfPush DEF Returns
<1>9. \A j \in Slots(q) : q.used_ring[j] \in Unread(q) /\ j \in Desc
  BY <1>1, SlotsAre
<1>10. \A j \in Slots(q) : n.used_ring[j] = q.used_ring[j] /\ q.used_ring[j] # h
  <2>1. n.used_ring = [q.used_ring EXCEPT ![k] = h]
    BY <1>0 DEF Returns
  <2> QED  BY <1>1, <1>2, <1>7, <1>9, <2>1
<1>11. n.used_ring[k] = h
  BY <1>0, <1>1, <1>6 DEF Returns
<1> QED  BY <1>4, <1>5, <1>6, <1>7, <1>8, <1>10, <1>11

\* The driver pops a chain and takes its request from the array.
LEMMA RingsPop ==
  ASSUME NEW q \in Queue(Addr), NEW P \in [Desc -> Users \cup {None}], NEW seen, NEW held,
         Rings(q, P, seen, held), CanPop(q), NEW n,
         n.avail_ring = q.avail_ring, n.avail_idx = q.avail_idx,
         n.used_ring = q.used_ring, n.used_idx = q.used_idx,
         n.last_used_idx = (q.last_used_idx + 1) % IdxMod
  PROVE  LET h == PopId(q)
         IN  /\ h \in Heads(P) /\ q.last_used_idx % Num \in Slots(q)
             /\ Rings(n, [P EXCEPT ![h] = None], seen, held)
             /\ Avail(n, seen) = Avail(q, seen) /\ h \notin Avail(q, seen) \cup held
             /\ Heads([P EXCEPT ![h] = None]) = Heads(P) \ {h}
             /\ Slots(n) \subseteq Slots(q) /\ \A k \in Slots(n) : q.used_ring[k] # h
<1> DEFINE h == PopId(q)
           m == (q.last_used_idx + 1) % IdxMod
<1>1. /\ q.last_used_idx \in Idx /\ q.used_idx \in Idx /\ q.used_ring \in [Desc -> Desc]
      /\ q.last_used_idx # q.used_idx
      /\ Distinct(q.used_ring, q.last_used_idx, q.used_idx)
  BY DEF Queue, Rings, CanPop
<1>2. /\ h \in Unread(q) /\ Unread(n) = Unread(q) \ {h}
      /\ Distinct(n.used_ring, n.last_used_idx, n.used_idx)
  BY <1>1, BetweenPop DEF Unread, PopId
<1>3. /\ q.last_used_idx % Num \in Slots(q) /\ Slots(n) = Slots(q) \ {q.last_used_idx % Num}
  <2>1. Distinct(Itself, q.last_used_idx, q.used_idx) /\ Itself \in [Desc -> Desc]
    BY <1>1, SlotsAre
  <2>2. /\ Itself[q.last_used_idx % Num] \in Between(Itself, q.last_used_idx, q.used_idx)
        /\ Between(Itself, m, q.used_idx)
             = Between(Itself, q.last_used_idx, q.used_idx) \ {Itself[q.last_used_idx % Num]}
    BY <1>1, <2>1, BetweenPop
  <2>3. Itself[q.last_used_idx % Num] = q.last_used_idx % Num
    BY <1>1, RingIndex DEF Itself
  <2> QED  BY <2>2, <2>3 DEF Slots, Itself
<1>4. Avail(n, seen) = Avail(q, seen) /\ Distinct(n.avail_ring, seen, n.avail_idx)
  BY DEF Avail, Rings
<1>5. h \in Heads(P) /\ h \notin Avail(q, seen) \cup held
  BY <1>2 DEF Rings
<1>6. Heads([P EXCEPT ![h] = None]) = Heads(P) \ {h}
  BY DEF Heads
<1>7. Rings(n, [P EXCEPT ![h] = None], seen, held)
  BY <1>2, <1>4, <1>5, <1>6 DEF Rings
<1>8. ASSUME NEW k \in Slots(n) PROVE q.used_ring[k] # h
  <2>1. k \in Between(Itself, n.last_used_idx, n.used_idx)
    BY DEF Slots, Itself
  <2>3. PICK i \in 0 .. Count(m, q.used_idx) - 1 : k = Itself[(m + i) % Num]
    BY <2>1 DEF Between
  <2>4. m \in Idx
    BY <1>1, RingIndex
  <2>5. (m + i) % Num \in Desc
    <3>1. Count(m, q.used_idx) \in Int
      BY <1>1, <2>4, CountIs DEF Idx
    <3>2. m \in Int /\ i \in Int
      BY <2>4, <3>1 DEF Idx
    <3> HIDE DEF m
    <3> QED  BY <3>2, SlotType
  <2>6. q.used_ring[k] \in Unread(n)
    BY <2>3, <2>5 DEF Unread, Between, Itself
  <2> QED  BY <1>2, <2>6
<1> HIDE DEF h
<1> QED  BY <1>3, <1>4, <1>5, <1>6, <1>7, <1>8 DEF h

-----------------------------------------------------------------------------
(* What the steps do to the memory of a queue.                             *)

\* The heads and the requests of a queue whose rings are as they should be.
LEMMA HeadsAre ==
  ASSUME NEW q \in Queue(Addr), NEW P \in [Desc -> Users \cup {None}], NEW seen, NEW held,
         Rings(q, P, seen, held)
  PROVE  /\ \A h \in Avail(q, seen) \cup held : h \in Heads(P)
         /\ \A k \in Slots(q) : k \in Desc /\ q.used_ring[k] \in Heads(P)
         /\ \A h \in Heads(P) : h \in Desc /\ P[h] \in Users
<1>1. Heads(P) = Avail(q, seen) \cup held \cup Unread(q)
  BY DEF Rings
<1>2. \A k \in Slots(q) : k \in Desc /\ q.used_ring[k] \in Unread(q)
  BY SlotsAre DEF Rings
<1>3. \A h \in Heads(P) : h \in Desc /\ P[h] \in Users
  BY DEF Heads
<1> QED  BY <1>1, <1>2, <1>3

\* A chain whose descriptors are left alone keeps its shape.
LEMMA ShapeKept ==
  ASSUME NEW s, NEW q, NEW n, NEW h, NEW u, Shape(s, q, h, u),
         \A d \in Pair(q, h) : /\ n.next[d] = q.next[d] /\ n.flags[d] = q.flags[d]
                               /\ n.addr[d] = q.addr[d]
  PROVE  Shape(s, n, h, u)
BY DEF Shape, Pair

\* A step that leaves alone the rings, the chains and the requests recorded.
LEMMA MemoryKept ==
  ASSUME NEW s \in Side, NEW q \in Queue(Addr), NEW n, SameRings(q, n),
         NEW P \in [Desc -> Users \cup {None}], NEW seen, NEW held, NEW a, NEW e, NEW len,
         Memory(s, q, P, seen, held, a, e, len), NEW b, NEW f, NEW m,
         s = "rx" => m = len,
         \A h \in Heads(P) : b[P[h]] = a[P[h]] /\ f[P[h]] = e[P[h]],
         \A h \in Heads(P) : \A d \in Pair(q, h) :
           n.next[d] = q.next[d] /\ n.flags[d] = q.flags[d] /\ n.addr[d] = q.addr[d]
  PROVE  Memory(s, n, P, seen, held, b, f, m)
<1>1. /\ Rings(q, P, seen, held) /\ Made(s, q, P, a)
      /\ Open(P, Avail(q, seen) \cup held, e) /\ Used(s, q, P, e, len)
  BY DEF Memory
<1>2. /\ Rings(n, P, seen, held)
      /\ Avail(n, seen) = Avail(q, seen) /\ Unread(n) = Unread(q) /\ Slots(n) = Slots(q)
  BY <1>1, RingsSame
<1>3. /\ \A h \in Avail(q, seen) \cup held : h \in Heads(P)
      /\ \A k \in Slots(q) : q.used_ring[k] \in Heads(P)
  BY <1>1, HeadsAre
<1>4. Made(s, n, P, b)
  <2>1. ASSUME NEW h \in Heads(P) PROVE b[P[h]] = s /\ Shape(s, n, h, P[h])
    <3>1. a[P[h]] = s /\ Shape(s, q, h, P[h])
      BY <1>1 DEF Made
    <3> QED  BY <3>1, ShapeKept
  <2> QED  BY <2>1 DEF Made
<1>5. Open(P, Avail(n, seen) \cup held, f)
  BY <1>1, <1>2, <1>3 DEF Open
<1>6. Used(s, n, P, f, m)
  <2>1. n.used_ring = q.used_ring
    BY DEF SameRings
  <2>2. ASSUME NEW k \in Slots(n)
        PROVE  /\ f[P[n.used_ring[k]]] \in Done
               /\ f[P[n.used_ring[k]]] = [op |-> s, st |-> IF s = "rx" THEN m[k] ELSE Sent]
    <3>1. f[P[n.used_ring[k]]] = e[P[q.used_ring[k]]]
      BY <1>2, <1>3, <2>1
    <3>2. /\ e[P[q.used_ring[k]]] \in Done
          /\ e[P[q.used_ring[k]]] = [op |-> s, st |-> IF s = "rx" THEN len[k] ELSE Sent]
      BY <1>1, <1>2 DEF Used
    <3> QED  BY <3>1, <3>2
  <2> QED  BY <2>2 DEF Used
<1> QED  BY <1>2, <1>4, <1>5, <1>6 DEF Memory

\* A request that has not been executed is made available.
LEMMA MemoryPublish ==
  ASSUME NEW s \in Side, NEW q \in Queue(Addr), NEW n, NEW P \in [Desc -> Users \cup {None}],
         NEW seen \in Idx, NEW held, NEW a, NEW e, NEW len,
         Memory(s, q, P, seen, held, a, e, len),
         NEW h \in Desc, h = q.free_head, P[h] = None,
         NEW u \in Users, u # None, a[u] = s, e[u] = None,
         NEW F, Published(s, q, n, F, u),
         \A g \in Heads(P) : Pair(q, g) \subseteq Desc \ {h, q.next[h]}
  PROVE  Memory(s, n, Record(P, h, u), seen, held, a, e, len)
<1>0. PICK N : N = Record(P, h, u)
  OBVIOUS
<1>1. /\ Rings(q, P, seen, held) /\ Made(s, q, P, a)
      /\ Open(P, Avail(q, seen) \cup held, e) /\ Used(s, q, P, e, len)
  BY DEF Memory
<1>2. /\ Shape(s, n, h, u)
      /\ \A d \in Desc \ {h, q.next[h]} : /\ n.next[d] = q.next[d] /\ n.flags[d] = q.flags[d]
                                          /\ n.addr[d] = q.addr[d]
      /\ Offers(q, n, h) /\ n.used_ring = q.used_ring
  BY DEF Published, Offers
<1>3. /\ Rings(n, N, seen, held)
      /\ Avail(n, seen) = Avail(q, seen) \cup {h}
      /\ Unread(n) = Unread(q) /\ Slots(n) = Slots(q)
      /\ Heads(N) = Heads(P) \cup {h} /\ h \notin Heads(P)
  BY <1>0, <1>1, <1>2, RingsPublish
<1>4. /\ \A g \in Avail(q, seen) \cup held : g \in Heads(P)
      /\ \A k \in Slots(q) : q.used_ring[k] \in Heads(P)
  BY <1>1, HeadsAre
<1>5. N[h] = u /\ \A g \in Heads(P) : N[g] = P[g]
  BY <1>0, <1>3 DEF Heads, Record
<1>6. Made(s, n, N, a)
  <2>1. ASSUME NEW g \in Heads(P) PROVE a[P[g]] = s /\ Shape(s, n, g, P[g])
    <3>1. a[P[g]] = s /\ Shape(s, q, g, P[g])
      BY <1>1 DEF Made
    <3>2. \A d \in Pair(q, g) : /\ n.next[d] = q.next[d] /\ n.flags[d] = q.flags[d]
                                /\ n.addr[d] = q.addr[d]
      BY <1>2
    <3> QED  BY <3>1, <3>2, ShapeKept
  <2> QED  BY <1>2, <1>3, <1>5, <2>1 DEF Made
<1>7. Open(N, Avail(n, seen) \cup held, e)
  BY <1>1, <1>3, <1>4, <1>5 DEF Open
<1>8. Used(s, n, N, e, len)
  BY <1>1, <1>2, <1>3, <1>4, <1>5 DEF Used
<1> QED  BY <1>0, <1>3, <1>6, <1>7, <1>8 DEF Memory

\* The device takes a chain.
LEMMA MemoryTake ==
  ASSUME NEW s \in Side, NEW q \in Queue(Addr), NEW P, NEW seen \in Idx, NEW held,
         NEW a, NEW e, NEW len, Memory(s, q, P, seen, held, a, e, len), DevCanTake(q, seen)
  PROVE  Memory(s, q, P, (seen + 1) % IdxMod, held \cup {DevTakeId(q, seen)}, a, e, len)
<1> DEFINE h == DevTakeId(q, seen)
           m == (seen + 1) % IdxMod
<1>1. Rings(q, P, m, held \cup {h}) /\ Avail(q, m) \cup (held \cup {h}) = Avail(q, seen) \cup held
  BY RingsTake DEF Memory
<1> HIDE DEF h, m
<1>2. Memory(s, q, P, m, held \cup {h}, a, e, len)
  BY <1>1 DEF Memory
<1> QED  BY <1>2 DEF h, m

\* The device gives a chain back, with what it did and the length written.
LEMMA MemoryUse ==
  ASSUME NEW s \in Side, NEW q \in Queue(Addr), NEW n, NEW P \in [Desc -> Users \cup {None}],
         NEW seen, NEW held \in SUBSET Desc, NEW a, NEW e, DOMAIN e = Users,
         NEW len, DOMAIN len = Desc, NEW m, NEW x,
         Memory(s, q, P, seen, held, a, e, len), NEW h \in held,
         \A g \in Heads(P) : P[g] = P[h] => g = h,
         SameChains(q, n), Returns(q, n, h),
         s = "rx" => m = Record(len, UsedSlot(q), x),
         s # "rx" => x = Sent, [op |-> s, st |-> x] \in Done
  PROVE  Memory(s, n, P, seen, held \ {h}, a, [e EXCEPT ![P[h]] = [op |-> s, st |-> x]], m)
<1>0. PICK k : k = UsedSlot(q)
  OBVIOUS
<1>00. PICK rest : rest = held \ {h}
  OBVIOUS
<1> DEFINE u == P[h]
           d == [op |-> s, st |-> x]
           f == [e EXCEPT ![u] = d]
<1>1. /\ Rings(q, P, seen, held) /\ Made(s, q, P, a)
      /\ Open(P, Avail(q, seen) \cup held, e) /\ Used(s, q, P, e, len)
  BY DEF Memory
<1>2. /\ Rings(n, P, seen, rest)
      /\ Avail(n, seen) = Avail(q, seen)
      /\ k \in Desc /\ Slots(n) = Slots(q) \cup {k} /\ k \notin Slots(q)
      /\ \A j \in Slots(q) : n.used_ring[j] = q.used_ring[j] /\ q.used_ring[j] # h
      /\ n.used_ring[k] = h
  BY <1>0, <1>00, <1>1, RingsUse, SMTT(20)
<1>3. /\ \A g \in Avail(q, seen) \cup held : g \in Heads(P)
      /\ \A j \in Slots(q) : j \in Desc /\ q.used_ring[j] \in Heads(P)
      /\ \A g \in Heads(P) : P[g] \in Users
  BY <1>1, HeadsAre
<1>4. u \in Users /\ h \notin Avail(q, seen)
  BY <1>1, <1>3 DEF Rings
<1>5. f[u] = d /\ \A g \in Heads(P) : g # h => f[P[g]] = e[P[g]]
  BY <1>3, <1>4
<1>6. s = "rx" => m[k] = x /\ \A j \in Slots(q) : m[j] = len[j]
  BY <1>0, <1>2, <1>3 DEF Record
<1> HIDE DEF u, f
<1>7. Made(s, n, P, a)
  <2>1. ASSUME NEW g \in Heads(P) PROVE a[P[g]] = s /\ Shape(s, n, g, P[g])
    BY <1>1, ShapeKept DEF Made, SameChains
  <2> QED  BY <2>1 DEF Made
<1>8. Open(P, Avail(n, seen) \cup rest, f)
  BY <1>00, <1>1, <1>2, <1>3, <1>4, <1>5 DEF Open
<1>9. Used(s, n, P, f, m)
  <2>1. /\ f[P[n.used_ring[k]]] \in Done
        /\ f[P[n.used_ring[k]]] = [op |-> s, st |-> IF s = "rx" THEN m[k] ELSE Sent]
    BY <1>2, <1>5, <1>6 DEF u
  <2>2. ASSUME NEW j \in Slots(q)
        PROVE  /\ f[P[n.used_ring[j]]] \in Done
               /\ f[P[n.used_ring[j]]] = [op |-> s, st |-> IF s = "rx" THEN m[j] ELSE Sent]
    <3>1. f[P[n.used_ring[j]]] = e[P[q.used_ring[j]]]
      BY <1>2, <1>3, <1>5
    <3>2. /\ e[P[q.used_ring[j]]] \in Done
          /\ e[P[q.used_ring[j]]] = [op |-> s, st |-> IF s = "rx" THEN len[j] ELSE Sent]
      BY <1>1 DEF Used
    <3> QED  BY <1>6, <3>1, <3>2
  <2> QED  BY <1>2, <2>1, <2>2 DEF Used
<1>10. Memory(s, n, P, seen, rest, a, f, m)
  BY <1>2, <1>7, <1>8, <1>9 DEF Memory
<1> QED  BY <1>00, <1>10 DEF f, u

\* The driver pops a chain: its request was executed, with the length read.
LEMMA MemoryPop ==
  ASSUME NEW s \in Side, NEW q \in Queue(Addr), NEW n, NEW P \in [Desc -> Users \cup {None}],
         NEW seen, NEW held, NEW a, NEW e, NEW len,
         Memory(s, q, P, seen, held, a, e, len), CanPop(q), SameChains(q, n),
         n.avail_ring = q.avail_ring, n.avail_idx = q.avail_idx,
         n.used_ring = q.used_ring, n.used_idx = q.used_idx,
         n.last_used_idx = (q.last_used_idx + 1) % IdxMod
  PROVE  LET h == PopId(q)
             k == q.last_used_idx % Num
         IN  /\ h \in Heads(P)
             /\ e[P[h]] \in Done
             /\ e[P[h]] = [op |-> s, st |-> IF s = "rx" THEN len[k] ELSE Sent]
             /\ Memory(s, n, [P EXCEPT ![h] = None], seen, held, a, e, len)
<1> DEFINE h == PopId(q)
           k == q.last_used_idx % Num
           N == [P EXCEPT ![h] = None]
<1>1. /\ Rings(q, P, seen, held) /\ Made(s, q, P, a)
      /\ Open(P, Avail(q, seen) \cup held, e) /\ Used(s, q, P, e, len)
  BY DEF Memory
<1>2. /\ h \in Heads(P) /\ k \in Slots(q)
      /\ Rings(n, N, seen, held)
      /\ Avail(n, seen) = Avail(q, seen) /\ h \notin Avail(q, seen) \cup held
      /\ Heads(N) = Heads(P) \ {h}
      /\ Slots(n) \subseteq Slots(q) /\ \A j \in Slots(n) : q.used_ring[j] # h
  BY <1>1, RingsPop
<1>3. q.used_ring[k] = h
  BY DEF PopId
<1>4. \A g \in Heads(P) : g # h => N[g] = P[g]
  BY DEF Heads
<1>5. /\ \A g \in Avail(q, seen) \cup held : g \in Heads(P)
      /\ \A j \in Slots(q) : q.used_ring[j] \in Heads(P)
  BY <1>1, HeadsAre
<1> HIDE DEF h, k, N
<1>6. e[P[h]] \in Done /\ e[P[h]] = [op |-> s, st |-> IF s = "rx" THEN len[k] ELSE Sent]
  BY <1>1, <1>2, <1>3 DEF Used
<1>7. Made(s, n, N, a)
  <2>1. ASSUME NEW g \in Heads(P) PROVE a[P[g]] = s /\ Shape(s, n, g, P[g])
    BY <1>1, ShapeKept DEF Made, SameChains
  <2> QED  BY <1>2, <1>4, <2>1 DEF Made
<1>8. Open(N, Avail(n, seen) \cup held, e)
  BY <1>1, <1>2, <1>4, <1>5 DEF Open
<1>9. Used(s, n, N, e, len)
  BY <1>1, <1>2, <1>4, <1>5 DEF Used
<1>10. Memory(s, n, N, seen, held, a, e, len)
  BY <1>2, <1>7, <1>8, <1>9 DEF Memory
<1> QED  BY <1>2, <1>6, <1>10 DEF h, k, N

-----------------------------------------------------------------------------
(* The places exclude one another.                                         *)

Queued(u) == \E i \in 1 .. Len(sq) : sq[i].user = u
Taken(u)  == \E i \in 1 .. Len(ToDo) : ToDo[i].user = u
Told(u)   == \E i \in 1 .. Len(cq) : cq[i].user = u
Flies(u)  == \E s \in Side, h \in Desc : pending[s][h] = u

\* A set of one pair has one pair.
LEMMA OneFlight ==
  ASSUME NEW P, NEW u, Flying(P, u) \in Nat
  PROVE  /\ (\E s \in Side, h \in Desc : P[s][h] = u) => Flying(P, u) # 0
         /\ Flying(P, u) = 1 =>
              \A s, t \in Side : \A g, h \in Desc : P[s][g] = u /\ P[t][h] = u => s = t /\ g = h
<1> DEFINE S == Flight(P, u)
<1>1. \A s \in Side, h \in Desc : P[s][h] = u => <<s, h>> \in S
  BY DEF Flight
<1>2. IsFiniteSet(S)
  <2>1. IsFiniteSet(Side)
    <3>1. IsFiniteSet({"rx"}) /\ Side = {"rx"} \cup {"tx"}
      BY FS_Singleton DEF Side
    <3> QED  BY <3>1, FS_AddElement
  <2>2. IsFiniteSet(Desc)
    BY FS_Interval, QueueAssumption DEF Desc
  <2>3. IsFiniteSet(Side \X Desc)
    BY <2>1, <2>2, FS_Product
  <2> QED  BY <2>3, FS_Subset DEF Flight
<1>3. Flying(P, u) = Cardinality(S)
  BY DEF Flying
<1> HIDE DEF S
<1>4. Cardinality(S) = 0 <=> S = {}
  BY <1>2, FS_EmptySet
<1>5. Cardinality(S) = 1 => \E x : S = {x}
  BY <1>2, FS_Singleton
<1>6. ASSUME NEW s \in Side, NEW t \in Side, NEW g \in Desc, NEW h \in Desc,
             Flying(P, u) = 1, P[s][g] = u, P[t][h] = u
      PROVE  s = t /\ g = h
  <2>1. PICK x : S = {x}
    BY <1>3, <1>5, <1>6
  <2>2. <<s, g>> \in S /\ <<t, h>> \in S
    BY <1>1, <1>6
  <2>3. <<s, g>> = <<t, h>>
    BY <2>1, <2>2
  <2> QED  BY <2>3
<1> QED  BY <1>1, <1>3, <1>4, <1>6, ZenonT(30)

\* A request that is in one of the places is in none of the others, and there only once.
LEMMA Where ==
  ASSUME IInv, OneHome, NEW u \in Users
  PROVE  /\ ask[u] = None => ~Queued(u) /\ ~Taken(u) /\ ~Told(u) /\ ~Flies(u)
         /\ Queued(u) => ~Taken(u) /\ ~Told(u) /\ ~Flies(u)
         /\ Taken(u) => ~Told(u) /\ ~Flies(u)
         /\ Told(u) => ~Flies(u)
         /\ \A i, j \in 1 .. Len(cq) : cq[i].user = u /\ cq[j].user = u => i = j
         /\ \A s, t \in Side : \A g, h \in Desc :
              pending[s][g] = u /\ pending[t][h] = u => s = t /\ g = h
<1> DEFINE a == Occurs(sq, u)
           b == Occurs(ToDo, u)
           c == Occurs(cq, u)
           f == Flying(pending, u)
<1>1. a + b + c + f = IsOpen(u)
  BY HomesIs DEF Homes
<1>2. a \in Nat /\ b \in Nat /\ c \in Nat /\ f \in Nat /\ IsOpen(u) \in 0 .. 1
  BY HomesType
<1>3. sq \in Seq(Sqe) /\ ToDo \in Seq(Sqe) /\ cq \in Seq(Cqe)
  BY PlaceTypes
<1>4. (Queued(u) <=> a # 0) /\ (Taken(u) <=> b # 0)
  BY <1>3, OccursType DEF Queued, Taken
<1>5. /\ Told(u) <=> c # 0
      /\ c = 1 => \A i, j \in 1 .. Len(cq) : cq[i].user = u /\ cq[j].user = u => i = j
  BY <1>3, OccursType DEF Told
<1>6. /\ Flies(u) => f # 0
      /\ f = 1 => \A s, t \in Side : \A g, h \in Desc :
                    pending[s][g] = u /\ pending[t][h] = u => s = t /\ g = h
  BY <1>2, OneFlight DEF Flies
<1> HIDE DEF a, b, c, f
<1>7. ask[u] = None => IsOpen(u) = 0
  BY DEF IsOpen
<1>8. (c # 0 => c = 1) /\ (f # 0 => f = 1)
  BY <1>1, <1>2
<1>9. \A i, j \in 1 .. Len(cq) : cq[i].user = u /\ cq[j].user = u => i = j
  BY <1>5, <1>8 DEF Told
<1>10. \A s, t \in Side : \A g, h \in Desc :
         pending[s][g] = u /\ pending[t][h] = u => s = t /\ g = h
  BY <1>6, <1>8 DEF Flies
<1>11. /\ ask[u] = None => a = 0 /\ b = 0 /\ c = 0 /\ f = 0
       /\ a # 0 => b = 0 /\ c = 0 /\ f = 0
       /\ b # 0 => c = 0 /\ f = 0
       /\ c # 0 => f = 0
  BY <1>1, <1>2, <1>7
<1> QED  BY <1>4, <1>5, <1>6, <1>9, <1>10, <1>11

\* Two heads of which requests are recorded record different ones.
LEMMA FlightsApart ==
  ASSUME IInv, OneHome, NEW s \in Side, NEW t \in Side,
         NEW g \in Heads(pending[s]), NEW h \in Heads(pending[t]),
         pending[s][g] = pending[t][h]
  PROVE  s = t /\ g = h
<1>1. g \in Desc /\ h \in Desc /\ pending[s][g] \in Users
  BY PlaceTypes DEF Heads
<1> QED  BY <1>1, Where

-----------------------------------------------------------------------------
(* What the steps do to the entries of the sequences.                      *)

\* Every entry of the rings and of the batch names a user.
LEMMA EntryUsers ==
  ASSUME IInv
  PROVE  /\ \A i \in 1 .. Len(sq) : sq[i].user \in Users
         /\ \A i \in 1 .. Len(ToDo) : ToDo[i].user \in Users
         /\ \A i \in 1 .. Len(cq) : cq[i].user \in Users
<1>1. /\ \A i \in 1 .. Len(sq) : sq[i] \in Sqe
      /\ \A i \in 1 .. Len(ToDo) : ToDo[i] \in Sqe
      /\ \A i \in 1 .. Len(cq) : cq[i] \in Cqe
  BY PlaceTypes
<1> QED  BY <1>1 DEF Sqe, Cqe

\* Entries go on waiting when nothing is changed for the users they name.
LEMMA WaitsKept ==
  ASSUME NEW t, NEW a, NEW e, NEW b, NEW f, Waits(t, a, e),
         \A i \in 1 .. Len(t) : b[t[i].user] = a[t[i].user] /\ f[t[i].user] = e[t[i].user]
  PROVE  Waits(t, b, f)
BY DEF Waits

\* An entry put behind waiting ones waits if its user asked for it and has no result.
LEMMA WaitsAppend ==
  ASSUME NEW t \in Seq(Sqe), NEW a, NEW e, Waits(t, a, e),
         NEW x \in Sqe, a[x.user] = x.kind, e[x.user] = None
  PROVE  Waits(Append(t, x), a, e)
<1>1. /\ Len(Append(t, x)) = Len(t) + 1 /\ Append(t, x)[Len(t) + 1] = x /\ Len(t) \in Nat
      /\ \A i \in 1 .. Len(t) : Append(t, x)[i] = t[i]
  OBVIOUS
<1>2. \A i \in 1 .. Len(t) + 1 : i = Len(t) + 1 \/ i \in 1 .. Len(t)
  BY <1>1
<1> QED  BY <1>1, <1>2 DEF Waits

\* All but the first entry go on waiting, and the first one waits too.
LEMMA WaitsTail ==
  ASSUME NEW t \in Seq(Sqe), t # << >>, NEW a, NEW e, Waits(t, a, e)
  PROVE  /\ Waits(Tail(t), a, e) /\ Tail(t) \in Seq(Sqe)
         /\ Head(t) \in Sqe /\ a[Head(t).user] = Head(t).kind /\ e[Head(t).user] = None
         /\ Head(t) = t[1] /\ 1 \in 1 .. Len(t)
<1>1. /\ Len(Tail(t)) = Len(t) - 1 /\ Len(t) \in Nat \ {0} /\ Head(t) = t[1]
      /\ \A i \in 1 .. Len(Tail(t)) : i + 1 \in 1 .. Len(t) /\ Tail(t)[i] = t[i + 1]
      /\ Tail(t) \in Seq(Sqe) /\ t[1] \in Sqe
  OBVIOUS
<1>2. 1 \in 1 .. Len(t)
  BY <1>1
<1> QED  BY <1>1, <1>2 DEF Waits

\* Completions stay true when the results of the users they name are kept.
LEMMA AnswersKept ==
  ASSUME NEW c, NEW e, NEW f, Answers(c, e),
         \A i \in 1 .. Len(c) : f[c[i].user] = e[c[i].user]
  PROVE  Answers(c, f)
BY DEF Answers

\* A completion that tells a user's result may be put behind true ones.
LEMMA AnswersAppend ==
  ASSUME NEW c \in Seq(Cqe), NEW e, Answers(c, e), NEW x \in Cqe, x.res = Reply(e[x.user])
  PROVE  Answers(Append(c, x), e)
<1>1. /\ Len(Append(c, x)) = Len(c) + 1 /\ Append(c, x)[Len(c) + 1] = x /\ Len(c) \in Nat
      /\ \A i \in 1 .. Len(c) : Append(c, x)[i] = c[i]
  OBVIOUS
<1>2. \A i \in 1 .. Len(c) + 1 : i = Len(c) + 1 \/ i \in 1 .. Len(c)
  BY <1>1
<1> QED  BY <1>1, <1>2 DEF Answers

-----------------------------------------------------------------------------
(* The requests of the two queues, step by step.                           *)

\* The types of one queue and of what the device knows of it.
LEMMA QueueTypes ==
  ASSUME IInv, NEW s \in Side
  PROVE  /\ vq[s] \in Queue(Addr) /\ pending[s] \in [Desc -> Users \cup {None}]
         /\ dev.seen[s] \in Idx /\ dev.held[s] \in SUBSET Desc
         /\ DOMAIN exec = Users /\ DOMAIN rxlen = Desc
BY PlaceTypes DEF VqType, DevType

\* A queue the step does not touch.
LEMMA SideSame ==
  ASSUME Requests, NEW s \in Side, vq'[s] = vq[s], pending'[s] = pending[s],
         dev'.seen[s] = dev.seen[s], dev'.held[s] = dev.held[s],
         UNCHANGED <<ask, exec, rxlen>>
  PROVE  InMemory(s)'
<1>1. InMemory(s)
  BY DEF Requests
<1> QED  BY <1>1 DEF InMemory

\* A queue of which the step leaves alone the rings and the chains in use.
LEMMA SideKept ==
  ASSUME IInv, Requests, NEW s \in Side, SameRings(vq[s], vq'[s]), pending'[s] = pending[s],
         dev'.seen[s] = dev.seen[s], dev'.held[s] = dev.held[s],
         s = "rx" => rxlen' = rxlen,
         \A h \in Heads(pending[s]) : /\ ask'[pending[s][h]] = ask[pending[s][h]]
                                      /\ exec'[pending[s][h]] = exec[pending[s][h]],
         \A h \in Heads(pending[s]) : \A d \in Pair(vq[s], h) :
           /\ vq'[s].next[d] = vq[s].next[d] /\ vq'[s].flags[d] = vq[s].flags[d]
           /\ vq'[s].addr[d] = vq[s].addr[d]
  PROVE  InMemory(s)'
<1>1. InMemory(s)
  BY DEF Requests
<1>2. vq[s] \in Queue(Addr) /\ pending[s] \in [Desc -> Users \cup {None}]
  BY QueueTypes
<1>3. Memory(s, vq'[s], pending[s], dev.seen[s], dev.held[s], ask', exec', rxlen')
  BY <1>1, <1>2, MemoryKept DEF InMemory
<1> QED  BY <1>3 DEF InMemory

\* Steps that change nothing of what the requests are about.
Resting == \/ RecvIrq \/ RecvRing \/ IrqRead \/ IrqAck \/ PopNone \/ FetchDone \/ Notify
           \/ SubmitDone \/ (\E s \in Side : DevSleep(s)) \/ DevRaise \/ KernelIrq
           \/ ClientNotify \/ UNCHANGED vars
Takes   == \E s \in Side : DevTake(s)

\* A step that moves no request rests, frees, or is one of the device's.
LEMMA StillParts == Still => Resting \/ FreeOne \/ Takes \/ DevGives
BY DEF Still, Resting, Takes, DevLooks

\* A resting step leaves everything the requests are about.
LEMMA RestingIs ==
  ASSUME IInv, Resting
  PROVE  /\ UNCHANGED <<vq, pending, ask, exec, rxlen, sq, cq>>
         /\ dev'.seen = dev.seen /\ dev'.held = dev.held /\ ToDo' = ToDo
<1> USE DEF vars, ringVars, kernelVars, deviceVars, clientVars, histVars
<1>1. DevType
  BY PlaceTypes
<1>2. Still
  BY DEF Resting, Still, DevLooks
<1>3. ToDo' = ToDo
  BY <1>2, StillIs
<1>4. CASE RecvIrq \/ RecvRing \/ IrqRead \/ PopNone \/ FetchDone \/ SubmitDone
           \/ KernelIrq \/ ClientNotify \/ UNCHANGED vars
  BY <1>3, <1>4 DEF RecvIrq, RecvRing, IrqRead, PopNone, FetchDone, SubmitDone, KernelIrq,
                    ClientNotify
<1>5. CASE IrqAck \/ Notify \/ DevRaise
  <2>1. UNCHANGED <<vq, pending, ask, exec, rxlen, sq, cq>>
    BY <1>5 DEF IrqAck, Notify, DevRaise
  <2>2. dev'.seen = dev.seen /\ dev'.held = dev.held
    BY <1>1, <1>5 DEF IrqAck, Notify, DevRaise, DevType
  <2> QED  BY <1>3, <2>1, <2>2
<1>6. CASE \E s \in Side : DevSleep(s)
  <2>1. PICK s \in Side : DevSleep(s)
    BY <1>6
  <2>2. dev'.seen = dev.seen /\ dev'.held = dev.held
    BY <1>1, <2>1 DEF DevSleep, DevType
  <2> QED  BY <1>3, <2>1, <2>2 DEF DevSleep
<1> QED  BY <1>4, <1>5, <1>6 DEF Resting

\* A resting step keeps the requests.
LEMMA RequestsRest ==
  ASSUME IInv, Requests, Resting
  PROVE  Requests'
<1>1. /\ UNCHANGED <<vq, pending, ask, exec, rxlen, sq, cq>>
      /\ dev'.seen = dev.seen /\ dev'.held = dev.held /\ ToDo' = ToDo
  BY RestingIs
<1>2. \A s \in Side : InMemory(s)'
  BY <1>1, SideSame
<1>3. /\ Waits(sq', ask', exec') /\ Waits(ToDo', ask', exec') /\ Answers(cq', exec') /\ Closed'
  BY <1>1 DEF Requests, Closed
<1> QED  BY <1>2, <1>3 DEF Requests

\* A descriptor that is freed is in no chain of a request.
LEMMA RequestsFree ==
  ASSUME IInv, Requests, FreeOne
  PROVE  Requests'
<1> USE DEF ringVars, deviceVars, clientVars
<1>1. UNCHANGED <<pending, dev, ask, exec, rxlen, sq, cq>> /\ drv.pc = "free"
  BY DEF FreeOne
<1>2. ToDo' = ToDo
  BY StillIs DEF Still
<1>3. VqType /\ DrvType /\ Chains
  BY PlaceTypes
<1>4. ASSUME NEW s \in Side PROVE InMemory(s)'
  <2>1. /\ SameRings(vq[s], vq'[s]) /\ vq'[s].addr = vq[s].addr
        /\ \A d \in Desc : s # drv.side \/ d # drv.curr =>
             vq'[s].next[d] = vq[s].next[d] /\ vq'[s].flags[d] = vq[s].flags[d]
    BY <1>3, FreedIs
  <2>2. ASSUME NEW h \in Heads(pending[s])
        PROVE  /\ Pair(vq[s], h) \subseteq Desc
               /\ s = drv.side => drv.curr \notin Pair(vq[s], h)
    <3>1. vq[s] \in Queue(Addr) /\ h \in Desc
      BY QueueTypes DEF Heads
    <3>2. Pair(vq[s], h) \subseteq Desc
      BY <3>1 DEF Queue, Pair
    <3>3. PICK F : Owners(vq[s], Heads(pending[s]), Walk(s), F)
      BY <1>3 DEF Chains, Kept
    <3>4. s = drv.side => drv.curr \in Walk(s)
      BY <1>1 DEF Walk
    <3>5. drv.curr \in Left(vq[s], drv.curr)
      BY DEF Left, Pair
    <3> QED  BY <3>2, <3>3, <3>4, <3>5 DEF Owners
  <2>3. ASSUME NEW h \in Heads(pending[s]), NEW d \in Pair(vq[s], h)
        PROVE  /\ vq'[s].next[d] = vq[s].next[d] /\ vq'[s].flags[d] = vq[s].flags[d]
               /\ vq'[s].addr[d] = vq[s].addr[d]
    BY <2>1, <2>2
  <2> QED  BY <1>1, <2>1, <2>3, SideKept
<1>5. Waits(sq', ask', exec') /\ Waits(ToDo', ask', exec') /\ Answers(cq', exec') /\ Closed'
  BY <1>1, <1>2 DEF Requests, Closed
<1> QED  BY <1>4, <1>5 DEF Requests

\* A chain the device takes is one that was published, and it holds it alone.
LEMMA RequestsTake ==
  ASSUME IInv, Requests, Takes
  PROVE  Requests'
<1> USE DEF ringVars, deviceVars, clientVars
<1>1. PICK s \in Side : DevTake(s)
  BY DEF Takes
<1>2. UNCHANGED <<vq, pending, ask, exec, rxlen, sq, cq>> /\ DevCanTake(vq[s], dev.seen[s])
  BY <1>1 DEF DevTake
<1>3. ToDo' = ToDo
  BY <1>1, StillIs DEF Still, DevLooks
<1>4. /\ dev'.seen[s] = (dev.seen[s] + 1) % IdxMod
      /\ dev'.held[s] = dev.held[s] \cup {DevTakeId(vq[s], dev.seen[s])}
      /\ \A t \in Side : t # s => dev'.seen[t] = dev.seen[t] /\ dev'.held[t] = dev.held[t]
  <2>1. DevType
    BY PlaceTypes
  <2> QED  BY <1>1, <2>1 DEF DevTake, DevType
<1>5. ASSUME NEW t \in Side PROVE InMemory(t)'
  <2>1. CASE t = s
    <3>1. Memory(s, vq[s], pending[s], dev'.seen[s], dev'.held[s], ask, exec, rxlen)
      BY <1>2, <1>4, QueueTypes, MemoryTake DEF Requests, InMemory
    <3> QED  BY <1>2, <2>1, <3>1 DEF InMemory
  <2>2. CASE t # s
    BY <1>2, <1>4, <2>2, SideSame
  <2> QED  BY <2>1, <2>2
<1>6. Waits(sq', ask', exec') /\ Waits(ToDo', ask', exec') /\ Answers(cq', exec') /\ Closed'
  BY <1>2, <1>3 DEF Requests, Closed
<1> QED  BY <1>5, <1>6 DEF Requests

\* Fetching moves an entry from the ring to the batch, still waiting.
LEMMA RequestsFetch ==
  ASSUME IInv, Requests, Fetch
  PROVE  Requests'
<1>1. /\ sq # << >> /\ sq' = Tail(sq) /\ ToDo' = Append(ToDo, Head(sq))
      /\ UNCHANGED <<vq, cq, pending, ask, exec, dev, rxlen>>
  BY FetchIs
<1>2. sq \in Seq(Sqe) /\ ToDo \in Seq(Sqe)
  BY PlaceTypes
<1>3. /\ Waits(Tail(sq), ask, exec) /\ Head(sq) \in Sqe
      /\ ask[Head(sq).user] = Head(sq).kind /\ exec[Head(sq).user] = None
  BY <1>1, <1>2, WaitsTail DEF Requests
<1>4. Waits(Append(ToDo, Head(sq)), ask, exec)
  BY <1>2, <1>3, WaitsAppend DEF Requests
<1>5. Waits(sq', ask', exec') /\ Waits(ToDo', ask', exec')
  BY <1>1, <1>3, <1>4
<1>6. \A s \in Side : InMemory(s)'
  BY <1>1, SideSame
<1> QED  BY <1>1, <1>5, <1>6 DEF Requests, Closed

\* A refusal writes no descriptor.
LEMMA RequestsRefuse ==
  ASSUME IInv, Requests, Refuses
  PROVE  Requests'
<1> DEFINE x == [user |-> Sub.user, res |-> -1]
<1>1. /\ ToDo # << >> /\ Head(ToDo) = Sub /\ Sub \in Sqe /\ Sub.user \in Users
      /\ ToDo' = Tail(ToDo) /\ x \in Cqe /\ cq' = Append(cq, x)
      /\ UNCHANGED <<sq, pending, ask, exec, dev, rxlen>>
  BY RefusesIs
<1>2. ToDo \in Seq(Sqe) /\ cq \in Seq(Cqe) /\ VqType /\ DrvType
  BY PlaceTypes
<1>3. Waits(Tail(ToDo), ask, exec) /\ exec[Sub.user] = None
  BY <1>1, <1>2, WaitsTail DEF Requests
<1>4. x.res = Reply(exec[x.user])
  BY <1>3 DEF Reply
<1> HIDE DEF x
<1>5. Answers(Append(cq, x), exec)
  BY <1>1, <1>2, <1>4, AnswersAppend DEF Requests
<1>6. ASSUME NEW s \in Side PROVE InMemory(s)'
  <2>1. SameRings(vq[s], vq'[s]) /\ SameChains(vq[s], vq'[s])
    <3>1. CASE RefuseOp
      BY <3>1 DEF RefuseOp, SameRings, SameChains
    <3>2. CASE Refused
      BY <1>2, <3>2, RefusedIs
    <3> QED  BY <3>1, <3>2 DEF Refuses, Refused
  <2> QED  BY <1>1, <2>1, SideKept DEF SameChains
<1>7. Waits(sq', ask', exec') /\ Waits(ToDo', ask', exec') /\ Answers(cq', exec') /\ Closed'
  BY <1>1, <1>3, <1>5 DEF Requests, Closed
<1> QED  BY <1>6, <1>7 DEF Requests

\* A published request is in memory as its user asked, and unread.
LEMMA RequestsPublish ==
  ASSUME IInv, OneHome, Requests, Publish
  PROVE  Requests'
<1>1. /\ ToDo # << >> /\ Head(ToDo) = Sub /\ ToDo' = Tail(ToDo)
      /\ UNCHANGED <<sq, cq, ask, exec, dev, rxlen>>
  BY PublishMoves
<1>2. ToDo \in Seq(Sqe) /\ VqInv /\ DrvType /\ None \notin Users
  BY PlaceTypes
<1>3. PICK s \in Side : s = SubSide
  BY <1>2, PublishedIs
<1>4. PICK h \in Desc : h = vq[s].free_head
  BY <1>3, QueueTypes DEF Queue
<1>5. PICK n : n = Submit(WriteChain(vq[s], Sub), h)
  OBVIOUS
<1>6. /\ Sub.kind = s /\ Sub \in Sqe /\ Sub.user \in Users
      /\ vq' = [vq EXCEPT ![s] = n]
      /\ pending' = [pending EXCEPT ![s] = [pending[s] EXCEPT ![h] = Sub.user]]
      /\ pending[s][h] = None
      /\ \E F : Published(s, vq[s], n, F, Sub.user)
      /\ \A g \in Heads(pending[s]) : Pair(vq[s], g) \subseteq Desc \ {h, vq[s].next[h]}
  BY <1>2, <1>3, <1>4, <1>5, PublishedIs
<1>7. /\ Waits(Tail(ToDo), ask, exec)
      /\ ask[Sub.user] = Sub.kind /\ exec[Sub.user] = None
  BY <1>1, <1>2, WaitsTail DEF Requests
<1>8. VqType
  BY PlaceTypes
<1>9. /\ vq'[s] = n /\ pending'[s] = Record(pending[s], h, Sub.user)
      /\ \A t \in Side : t # s => vq'[t] = vq[t] /\ pending'[t] = pending[t]
  BY <1>6, <1>8 DEF VqType, Record
<1>10. PICK u \in Users : u = Sub.user /\ u # None
  BY <1>2, <1>6
<1>11. ASSUME NEW t \in Side PROVE InMemory(t)'
  <2>1. CASE t = s
    <3>1. InMemory(s)
      BY DEF Requests
    <3>2. /\ vq[s] \in Queue(Addr) /\ pending[s] \in [Desc -> Users \cup {None}]
          /\ dev.seen[s] \in Idx
      BY QueueTypes
    <3>3. PICK F : Published(s, vq[s], n, F, u)
      BY <1>6, <1>10
    <3>4. Memory(s, vq[s], pending[s], dev.seen[s], dev.held[s], ask, exec, rxlen)
      BY <3>1 DEF InMemory
    <3>5. /\ h = vq[s].free_head /\ pending[s][h] = None /\ ask[u] = s /\ exec[u] = None
          /\ \A g \in Heads(pending[s]) : Pair(vq[s], g) \subseteq Desc \ {h, vq[s].next[h]}
      BY <1>4, <1>6, <1>7, <1>10
    <3>6. Memory(s, n, Record(pending[s], h, u), dev.seen[s], dev.held[s], ask, exec, rxlen)
      BY <1>10, <3>2, <3>3, <3>4, <3>5, MemoryPublish
    <3> QED  BY <1>1, <1>9, <1>10, <2>1, <3>6 DEF InMemory
  <2>2. CASE t # s
    BY <1>1, <1>9, <2>2, SideSame
  <2> QED  BY <2>1, <2>2
<1>12. Waits(sq', ask', exec') /\ Waits(ToDo', ask', exec') /\ Answers(cq', exec') /\ Closed'
  BY <1>1, <1>7 DEF Requests, Closed
<1> QED  BY <1>11, <1>12 DEF Requests

\* A popped chain was executed, and the answer is the length it was given.
LEMMA PopIs ==
  ASSUME IInv, Requests, PopOne, NEW s \in Side, s = drv.side
  PROVE  LET h == PopId(vq[s])
             e == [user |-> pending[s][h], res |-> Answer(s, rxlen[vq[s].last_used_idx % Num])]
         IN  /\ h \in Heads(pending[s]) /\ pending[s][h] \in Users /\ e \in Cqe
             /\ exec[pending[s][h]] \in Done
             /\ e.res = Reply(exec[pending[s][h]])
             /\ pending' = [pending EXCEPT ![s] = [pending[s] EXCEPT ![h] = None]]
             /\ cq' = Append(cq, e)
             /\ InMemory(s)'
<1> DEFINE h == PopId(vq[s])
           k == vq[s].last_used_idx % Num
           e == [user |-> pending[s][h], res |-> Answer(s, rxlen[k])]
<1>1. VqType /\ DrvType
  BY PlaceTypes
<1>2. /\ vq[s] \in Queue(Addr) /\ pending[s] \in [Desc -> Users \cup {None}]
  BY QueueTypes
<1>3. /\ CanPop(vq[s]) /\ SameChains(vq[s], vq'[s])
      /\ vq'[s].avail_ring = vq[s].avail_ring /\ vq'[s].avail_idx = vq[s].avail_idx
      /\ vq'[s].used_ring = vq[s].used_ring /\ vq'[s].used_idx = vq[s].used_idx
      /\ vq'[s].last_used_idx = (vq[s].last_used_idx + 1) % IdxMod
  BY <1>1, PopRings
<1>4. Memory(s, vq[s], pending[s], dev.seen[s], dev.held[s], ask, exec, rxlen)
  BY DEF Requests, InMemory
<1>5. /\ h \in Heads(pending[s])
      /\ exec[pending[s][h]] \in Done
      /\ exec[pending[s][h]] = [op |-> s, st |-> IF s = "rx" THEN rxlen[k] ELSE Sent]
      /\ Memory(s, vq'[s], [pending[s] EXCEPT ![h] = None], dev.seen[s], dev.held[s],
                ask, exec, rxlen)
  BY <1>2, <1>3, <1>4, MemoryPop
<1>6. pending[s][h] # None
  BY <1>5 DEF Heads
<1>7. /\ UNCHANGED <<sq, ask, exec, dev, rxlen>> /\ ToDo' = ToDo
      /\ pending[s][h] \in Users /\ e \in Cqe
      /\ pending' = [pending EXCEPT ![s] = [pending[s] EXCEPT ![h] = None]]
      /\ cq' = Append(cq, e)
  BY <1>6, PopMoves
<1>8. pending'[s] = [pending[s] EXCEPT ![h] = None]
  BY <1>1, <1>7 DEF VqType
<1> HIDE DEF h, k
<1>9. e.res = Reply(exec[pending[s][h]])
  <2>1. e.res = Answer(s, rxlen[k])
    OBVIOUS
  <2>2. exec[pending[s][h]] # None
    BY <1>5, NetAssumption
  <2>3. Reply(exec[pending[s][h]]) = Answer(s, IF s = "rx" THEN rxlen[k] ELSE Sent)
    BY <1>5, <2>2 DEF Reply
  <2>4. s # "rx" => Answer(s, rxlen[k]) = 0 /\ Answer(s, Sent) = 0
    BY DEF Answer
  <2> QED  BY <2>1, <2>3, <2>4
<1>10. InMemory(s)'
  BY <1>5, <1>7, <1>8 DEF InMemory
<1> QED  BY <1>5, <1>7, <1>9, <1>10 DEF h, k

\* What is popped is the chain given back longest ago, and it tells its true length.
LEMMA RequestsPop ==
  ASSUME IInv, Requests, PopOne
  PROVE  Requests'
<1>1. PICK s \in Side : s = drv.side
  BY PlaceTypes DEF DrvType
<1>2. UNCHANGED <<sq, ask, exec, dev, rxlen>> /\ ToDo' = ToDo
  BY <1>1, PopMoves
<1> DEFINE h == PopId(vq[s])
           e == [user |-> pending[s][h], res |-> Answer(s, rxlen[vq[s].last_used_idx % Num])]
<1>3. /\ e \in Cqe /\ e.user = pending[s][h] /\ e.res = Reply(exec[pending[s][h]])
      /\ pending' = [pending EXCEPT ![s] = [pending[s] EXCEPT ![h] = None]]
      /\ cq' = Append(cq, e)
      /\ InMemory(s)'
  BY <1>1, PopIs
<1>4. VqType
  BY PlaceTypes
<1>5. \A t \in Side : t # s => vq'[t] = vq[t] /\ pending'[t] = pending[t]
  <2>1. vq' = [vq EXCEPT ![s] = Pop(vq[s])]
    BY <1>1 DEF PopOne
  <2> QED  BY <1>3, <1>4, <2>1 DEF VqType
<1> HIDE DEF e, h
<1>6. Answers(Append(cq, e), exec)
  BY <1>3, AnswersAppend, PlaceTypes DEF Requests
<1>7. ASSUME NEW t \in Side PROVE InMemory(t)'
  <2>1. CASE t = s
    BY <1>3, <2>1
  <2>2. CASE t # s
    BY <1>2, <1>5, <2>2, SideSame
  <2> QED  BY <2>1, <2>2
<1>8. Waits(sq', ask', exec') /\ Waits(ToDo', ask', exec') /\ Answers(cq', exec') /\ Closed'
  BY <1>2, <1>3, <1>6 DEF Requests, Closed
<1> QED  BY <1>7, <1>8 DEF Requests

\* What the device does is one request's: the one that named the chain.
LEMMA GiveIs ==
  ASSUME IInv, OneHome, Requests, NEW s \in Side, NEW h \in dev.held[s],
         NEW x \in IF s = "rx" THEN Lens ELSE {Sent}, DevDone(s, h, x)
  PROVE  LET u == pending[s][h]
             d == [op |-> s, st |-> x]
         IN  /\ h \in Heads(pending[s]) /\ u \in Users /\ u # None
             /\ ask[u] = s /\ exec[u] = None /\ d \in Done
             /\ exec' = [exec EXCEPT ![u] = d]
<1> DEFINE u == pending[s][h]
           d == [op |-> s, st |-> x]
<1>1. Memory(s, vq[s], pending[s], dev.seen[s], dev.held[s], ask, exec, rxlen)
  BY DEF Requests, InMemory
<1>2. /\ Rings(vq[s], pending[s], dev.seen[s], dev.held[s])
      /\ Made(s, vq[s], pending[s], ask)
      /\ Open(pending[s], Avail(vq[s], dev.seen[s]) \cup dev.held[s], exec)
  BY <1>1 DEF Memory
<1>3. h \in Heads(pending[s]) /\ u \in Users
  BY <1>2, QueueTypes, HeadsAre
<1>4. u # None
  BY <1>3, PlaceTypes
<1>5. ask[u] = s /\ Shape(s, vq[s], h, u) /\ exec[u] = None
  BY <1>2, <1>3 DEF Made, Open
<1>6. vq[s].addr[vq[s].next[h]].at = u
  BY <1>5 DEF Shape, Data
<1>7. exec' = [exec EXCEPT ![u] = d]
  BY <1>6 DEF DevDone
<1>8. d \in Done
  BY DEF Done, Side
<1> QED  BY <1>3, <1>4, <1>5, <1>7, <1>8

\* The device executes the request whose chain it held, once.
LEMMA RequestsGive ==
  ASSUME IInv, OneHome, Requests, DevGives
  PROVE  Requests'
<1> USE DEF ringVars, clientVars
<1>1. PICK s \in Side : \E h \in dev.held[s], x \in IF s = "rx" THEN Lens ELSE {Sent} : DevDone(s, h, x)
  BY DEF DevGives
<1>2. PICK h \in dev.held[s], x \in IF s = "rx" THEN Lens ELSE {Sent} : DevDone(s, h, x)
  BY <1>1
<1>3. PICK u : u = pending[s][h]
  OBVIOUS
<1>4. PICK d : d = [op |-> s, st |-> x]
  OBVIOUS
<1>5. /\ h \in Heads(pending[s]) /\ u \in Users /\ u # None
      /\ ask[u] = s /\ exec[u] = None /\ d \in Done
      /\ exec' = [exec EXCEPT ![u] = d]
  BY <1>2, <1>3, <1>4, GiveIs
<1>6. UNCHANGED <<pending, ask, sq, cq>>
  BY <1>2 DEF DevDone
<1>7. ToDo' = ToDo
  BY StillIs DEF Still
<1>8. VqType /\ DevType /\ h \in Desc
  BY PlaceTypes, QueueTypes, <1>2
<1>9. /\ SameChains(vq[s], vq'[s]) /\ Returns(vq[s], vq'[s], h)
      /\ \A t \in Side : t # s => vq'[t] = vq[t]
  BY <1>2, <1>8, GiveRings, ZenonT(30) DEF Returns
<1>10. /\ dev'.seen = dev.seen /\ dev'.held[s] = dev.held[s] \ {h}
       /\ \A t \in Side : t # s => dev'.held[t] = dev.held[t]
  BY <1>2, <1>8 DEF DevDone, DevType
<1>11. /\ s = "rx" => rxlen' = Record(rxlen, UsedSlot(vq[s]), x)
       /\ s # "rx" => rxlen' = rxlen /\ x = Sent
  BY <1>2 DEF DevDone, Record, UsedSlot
<1>12. /\ DOMAIN exec = Users
       /\ \A v \in Users : v # u => exec'[v] = exec[v]
  BY <1>5, QueueTypes
<1>13. ASSUME NEW t \in Side PROVE InMemory(t)'
  <2>1. CASE t = s
    <3>1. Memory(s, vq[s], pending[s], dev.seen[s], dev.held[s], ask, exec, rxlen)
      BY DEF Requests, InMemory
    <3>2. \A g \in Heads(pending[s]) : pending[s][g] = pending[s][h] => g = h
      BY <1>5, FlightsApart
    <3>3. /\ vq[s] \in Queue(Addr) /\ pending[s] \in [Desc -> Users \cup {None}]
          /\ dev.held[s] \in SUBSET Desc /\ DOMAIN exec = Users /\ DOMAIN rxlen = Desc
          /\ h \in dev.held[s] /\ [op |-> s, st |-> x] \in Done
      BY <1>2, <1>4, <1>5, QueueTypes
    <3>4. Memory(s, vq'[s], pending[s], dev.seen[s], dev.held[s] \ {h}, ask,
                 [exec EXCEPT ![pending[s][h]] = [op |-> s, st |-> x]], rxlen')
      BY <1>9, <1>11, <3>1, <3>2, <3>3, MemoryUse
    <3>5. exec' = [exec EXCEPT ![pending[s][h]] = [op |-> s, st |-> x]]
      BY <1>3, <1>4, <1>5
    <3> QED  BY <1>6, <1>10, <2>1, <3>4, <3>5 DEF InMemory
  <2>2. CASE t # s
    <3>1. ASSUME NEW g \in Heads(pending[t]) PROVE exec'[pending[t][g]] = exec[pending[t][g]]
      <4>1. pending[t][g] # u
        BY <1>3, <1>5, <2>2, FlightsApart
      <4>2. pending[t][g] \in Users
        BY QueueTypes DEF Heads
      <4> QED  BY <1>12, <4>1, <4>2
    <3>2. t = "rx" => rxlen' = rxlen
      BY <1>11, <2>2
    <3>3. SameRings(vq[t], vq'[t]) /\ vq'[t] = vq[t]
      BY <1>9, <2>2 DEF SameRings
    <3> QED  BY <1>6, <1>10, <2>2, <3>1, <3>2, <3>3, SideKept
  <2> QED  BY <2>1, <2>2
<1>14. ~Queued(u) /\ ~Taken(u) /\ ~Told(u)
  <2>1. Flies(u)
    BY <1>3, <1>5 DEF Flies, Heads
  <2> QED  BY <1>5, <2>1, Where
<1>15. /\ \A i \in 1 .. Len(sq) : exec'[sq[i].user] = exec[sq[i].user]
       /\ \A i \in 1 .. Len(ToDo) : exec'[ToDo[i].user] = exec[ToDo[i].user]
       /\ \A i \in 1 .. Len(cq) : exec'[cq[i].user] = exec[cq[i].user]
  BY <1>12, <1>14, EntryUsers DEF Queued, Taken, Told
<1>16. Waits(sq, ask, exec') /\ Waits(ToDo, ask, exec') /\ Answers(cq, exec')
  BY <1>15, WaitsKept, AnswersKept DEF Requests
<1>17. Waits(sq', ask', exec') /\ Waits(ToDo', ask', exec') /\ Answers(cq', exec')
  BY <1>6, <1>7, <1>16
<1>18. Closed'
  <2>1. ask[u] # None
    BY <1>5, NetAssumption DEF Kind
  <2> QED  BY <1>6, <1>12, <2>1 DEF Requests, Closed
<1> QED  BY <1>13, <1>17, <1>18 DEF Requests

\* A submitted entry waits.
LEMMA RequestsOpen ==
  ASSUME IInv, OneHome, Requests, Opens
  PROVE  Requests'
<1> USE DEF deviceVars
<1>1. PICK u \in Users, k \in Kinds : ClientSubmit(u, k)
  BY DEF Opens
<1> DEFINE x == [user |-> u, kind |-> k]
<1>2. /\ ask[u] = None /\ ask' = [ask EXCEPT ![u] = k] /\ sq' = Append(sq, x)
      /\ UNCHANGED <<vq, pending, drv, dev, exec, rxlen, cq>>
  BY <1>1 DEF ClientSubmit
<1>3. ToDo' = ToDo
  BY <1>2 DEF ToDo
<1>4. ask \in [Users -> Kinds \cup {None}] /\ None \notin Kinds /\ sq \in Seq(Sqe)
  BY PlaceTypes
<1>5. ask'[u] = k /\ \A v \in Users : v # u => ask'[v] = ask[v]
  BY <1>2, <1>4
<1>6. ~Queued(u) /\ ~Taken(u) /\ ~Told(u) /\ ~Flies(u) /\ exec[u] = None
  BY <1>2, Where DEF Requests, Closed
<1>7. x \in Sqe /\ x.user = u /\ x.kind = k
  BY DEF Sqe
<1> HIDE DEF x
<1>8. ASSUME NEW s \in Side PROVE InMemory(s)'
  <2>1. ASSUME NEW h \in Heads(pending[s]) PROVE ask'[pending[s][h]] = ask[pending[s][h]]
    <3>1. pending[s][h] \in Users /\ h \in Desc
      BY QueueTypes DEF Heads
    <3> QED  BY <1>5, <1>6, <3>1 DEF Flies
  <2>2. SameRings(vq[s], vq'[s])
    BY <1>2 DEF SameRings
  <2> QED  BY <1>2, <2>1, <2>2, SideKept
<1>9. Waits(sq, ask', exec)
  <2>1. \A i \in 1 .. Len(sq) : ask'[sq[i].user] = ask[sq[i].user]
    BY <1>5, <1>6, EntryUsers DEF Queued
  <2> QED  BY <2>1, WaitsKept DEF Requests
<1>10. Waits(Append(sq, x), ask', exec)
  BY <1>4, <1>5, <1>6, <1>7, <1>9, WaitsAppend
<1>11. Waits(ToDo, ask', exec)
  <2>1. \A i \in 1 .. Len(ToDo) : ask'[ToDo[i].user] = ask[ToDo[i].user]
    BY <1>5, <1>6, EntryUsers DEF Taken
  <2> QED  BY <2>1, WaitsKept DEF Requests
<1>12. Waits(sq', ask', exec') /\ Waits(ToDo', ask', exec') /\ Answers(cq', exec')
  BY <1>2, <1>3, <1>10, <1>11 DEF Requests
<1>13. Closed'
  BY <1>2, <1>5, <1>6 DEF Requests, Closed
<1> QED  BY <1>8, <1>12, <1>13 DEF Requests

\* The entry the client reads is the only one that names its request.
LEMMA ReapIs ==
  ASSUME IInv, OneHome, ClientReap
  PROVE  LET u == Head(cq).user
         IN  /\ cq # << >> /\ cq' = Tail(cq) /\ u \in Users /\ Told(u)
             /\ ~Queued(u) /\ ~Taken(u) /\ ~Flies(u)
             /\ ask' = [ask EXCEPT ![u] = None] /\ exec' = [exec EXCEPT ![u] = None]
             /\ ToDo' = ToDo
             /\ UNCHANGED <<vq, pending, sq, dev, rxlen>>
             /\ Len(cq') = Len(cq) - 1 /\ Len(cq) \in Nat \ {0} /\ cq[1].user = u
             /\ \A i \in 1 .. Len(cq') : /\ i + 1 \in 1 .. Len(cq) /\ cq'[i] = cq[i + 1]
                                        /\ cq'[i].user # u /\ cq'[i].user \in Users
<1> DEFINE u == Head(cq).user
<1>1. /\ cq # << >> /\ cq' = Tail(cq) /\ UNCHANGED <<vq, pending, drv, sq, dev, rxlen>>
      /\ ask' = [ask EXCEPT ![u] = None] /\ exec' = [exec EXCEPT ![u] = None]
  BY DEF ClientReap
<1>2. cq \in Seq(Cqe)
  BY PlaceTypes
<1>3. /\ Len(Tail(cq)) = Len(cq) - 1 /\ Len(cq) \in Nat \ {0} /\ Head(cq) = cq[1]
      /\ \A i \in 1 .. Len(Tail(cq)) : i + 1 \in 1 .. Len(cq) /\ Tail(cq)[i] = cq[i + 1]
  BY <1>1, <1>2
<1>4. 1 \in 1 .. Len(cq) /\ \A i \in 1 .. Len(Tail(cq)) : i + 1 # 1
  BY <1>3
<1>5. u = cq[1].user /\ u \in Users /\ Told(u)
  BY <1>3, <1>4, EntryUsers DEF Told
<1> HIDE DEF u
<1>6. ~Queued(u) /\ ~Taken(u) /\ ~Flies(u)
  BY <1>5, Where
<1>7. ASSUME NEW i \in 1 .. Len(Tail(cq))
      PROVE  Tail(cq)[i].user # u /\ Tail(cq)[i].user \in Users
  BY <1>3, <1>4, <1>5, EntryUsers, Where
<1>8. ToDo' = ToDo
  BY <1>1 DEF ToDo
<1> QED  BY <1>1, <1>3, <1>5, <1>6, <1>7, <1>8 DEF u

\* Reaping leaves the other completions true.
LEMMA RequestsReap ==
  ASSUME IInv, OneHome, Requests, ClientReap
  PROVE  Requests'
<1> DEFINE u == Head(cq).user
<1>1. /\ u \in Users /\ ~Queued(u) /\ ~Taken(u) /\ ~Flies(u)
      /\ ask' = [ask EXCEPT ![u] = None] /\ exec' = [exec EXCEPT ![u] = None]
      /\ ToDo' = ToDo
      /\ UNCHANGED <<vq, pending, sq, dev, rxlen>>
      /\ \A i \in 1 .. Len(cq') : /\ i + 1 \in 1 .. Len(cq) /\ cq'[i] = cq[i + 1]
                                 /\ cq'[i].user # u /\ cq'[i].user \in Users
  BY ReapIs
<1> HIDE DEF u
<1>2. ask \in [Users -> Kinds \cup {None}] /\ exec \in [Users -> Done \cup {None}]
  BY PlaceTypes
<1>3. /\ ask'[u] = None /\ exec'[u] = None
      /\ \A v \in Users : v # u => ask'[v] = ask[v] /\ exec'[v] = exec[v]
  BY <1>1, <1>2
<1>4. ASSUME NEW s \in Side PROVE InMemory(s)'
  <2>1. ASSUME NEW h \in Heads(pending[s])
        PROVE  /\ ask'[pending[s][h]] = ask[pending[s][h]]
               /\ exec'[pending[s][h]] = exec[pending[s][h]]
    <3>1. pending[s][h] \in Users /\ h \in Desc
      BY QueueTypes DEF Heads
    <3> QED  BY <1>1, <1>3, <3>1 DEF Flies
  <2>2. SameRings(vq[s], vq'[s])
    BY <1>1 DEF SameRings
  <2> QED  BY <1>1, <2>1, <2>2, SideKept
<1>5. Waits(sq, ask', exec') /\ Waits(ToDo, ask', exec')
  <2>1. /\ \A i \in 1 .. Len(sq) : /\ ask'[sq[i].user] = ask[sq[i].user]
                                   /\ exec'[sq[i].user] = exec[sq[i].user]
        /\ \A i \in 1 .. Len(ToDo) : /\ ask'[ToDo[i].user] = ask[ToDo[i].user]
                                     /\ exec'[ToDo[i].user] = exec[ToDo[i].user]
    BY <1>1, <1>3, EntryUsers DEF Queued, Taken
  <2> QED  BY <2>1, WaitsKept DEF Requests
<1>6. Waits(sq', ask', exec') /\ Waits(ToDo', ask', exec')
  BY <1>1, <1>5
<1>7. Answers(cq', exec')
  <2>1. ASSUME NEW i \in 1 .. Len(cq') PROVE cq'[i].res = Reply(exec'[cq'[i].user])
    <3>1. cq'[i].res = Reply(exec[cq'[i].user])
      BY <1>1 DEF Requests, Answers
    <3> QED  BY <1>1, <1>3, <3>1
  <2> QED  BY <2>1 DEF Answers
<1>8. Closed'
  BY <1>3 DEF Requests, Closed
<1> QED  BY <1>4, <1>6, <1>7, <1>8 DEF Requests

\* Every step keeps the requests intact in memory, waiting or truly answered.
LEMMA RequestsStep ==
  ASSUME IInv, OneHome, Requests, [Next]_vars
  PROVE  Requests'
BY NextStill, StillParts, RequestsRest, RequestsFree, RequestsTake, RequestsFetch,
   RequestsRefuse, RequestsPublish, RequestsPop, RequestsGive, RequestsOpen, RequestsReap

\* Initially nothing is in memory or waits.
LEMMA RequestsInit == Init => Requests
<1> SUFFICES ASSUME Init PROVE Requests
  OBVIOUS
<1>1. 0 \in Idx
  BY QueueAssumption DEF Idx
<1>2. ASSUME NEW s \in Side PROVE InMemory(s)
  <2>1. /\ vq[s].avail_idx = 0 /\ vq[s].used_idx = 0 /\ vq[s].last_used_idx = 0
        /\ dev.seen[s] = 0 /\ dev.held[s] = {} /\ Heads(pending[s]) = {}
    BY DEF Init, NewQueue, Heads
  <2>2. /\ Distinct(vq[s].avail_ring, 0, 0) /\ Distinct(vq[s].used_ring, 0, 0)
        /\ Avail(vq[s], 0) = {} /\ Unread(vq[s]) = {} /\ Slots(vq[s]) = {}
    BY <1>1, <2>1, BetweenSame DEF Avail, Unread, Slots
  <2>3. Rings(vq[s], pending[s], dev.seen[s], dev.held[s])
    BY <2>1, <2>2 DEF Rings
  <2> QED  BY <2>1, <2>2, <2>3 DEF InMemory, Memory, Made, Open, Used
<1>3. /\ Waits(sq, ask, exec) /\ Waits(ToDo, ask, exec) /\ Answers(cq, exec) /\ Closed
  BY DEF Init, ToDo, Waits, Answers, Closed
<1> QED  BY <1>2, <1>3 DEF Requests

\* The three invariants together.
AllInv == IInv /\ OneHome /\ Requests

\* The invariant of places and memory holds of every behaviour.
LEMMA AllInvariant == Spec => []AllInv
<1>1. Init => AllInv
  BY InitIInv, HomeInit, RequestsInit DEF AllInv
<1>2. AllInv /\ [Next]_vars => AllInv'
  BY NextIInv, HomeStep, RequestsStep DEF AllInv
<1> QED  BY <1>1, <1>2, PTL DEF Spec

(* Descriptors and requests are where they belong (net.rs, submit and      *)
(* handle_irq): what the device may use is the memory of one open request, *)
(* a request is in one place, and no descriptor is lost but those of the   *)
(* requests refused for their address.                                     *)
THEOREM ChainsTheorem == Spec => []ChainsKept
<1>1. AllInv => DeviceMemoryStable
  <2> SUFFICES ASSUME AllInv, NEW s \in Side, NEW h \in Owned(s)
               PROVE  LET q  == vq[s]
                          d2 == q.next[h]
                          u  == pending[s][h]
                          w  == IF s = "rx" THEN {WRITE} ELSE {}
                      IN  /\ u # None /\ ask[u] = s
                          /\ q.addr[h] = Hdr(h) /\ q.flags[h] = {NEXT} \cup w
                          /\ q.addr[d2] = Data(u) /\ q.flags[d2] = w
                          /\ \A g \in Desc \ {h} : pending[s][g] # None =>
                               {g, q.next[g]} \cap {h, d2} = {}
    BY DEF DeviceMemoryStable
  <2>1. Memory(s, vq[s], pending[s], dev.seen[s], dev.held[s], ask, exec, rxlen)
    BY DEF AllInv, Requests, InMemory
  <2>2. Owned(s) = Avail(vq[s], dev.seen[s]) \cup dev.held[s]
    BY DEF Owned, Avail, Between, Count
  <2>3. h \in Heads(pending[s])
    BY <2>1, <2>2 DEF Memory, Rings
  <2>4. ask[pending[s][h]] = s /\ Shape(s, vq[s], h, pending[s][h]) /\ pending[s][h] # None
    BY <2>1, <2>3 DEF Memory, Made, Heads
  <2>5. ASSUME NEW g \in Desc \ {h}, pending[s][g] # None
        PROVE  {g, vq[s].next[g]} \cap {h, vq[s].next[h]} = {}
    <3>1. g \in Heads(pending[s]) /\ g # h
      BY <2>5 DEF Heads
    <3>2. PICK F : Owners(vq[s], Heads(pending[s]), Walk(s), F)
      BY PlaceTypes DEF AllInv, Chains, Kept
    <3>3. Pair(vq[s], g) \cap Pair(vq[s], h) = {}
      BY <2>3, <3>1, <3>2 DEF Owners
    <3> QED  BY <3>3 DEF Pair
  <2> QED  BY <2>4, <2>5 DEF Shape
<1>2. AllInv => ChainsKept
  BY <1>1, LeakIs DEF AllInv, IInv, ChainsKept
<1> QED  BY <1>2, AllInvariant, PTL

-----------------------------------------------------------------------------
(* The driver implements the contract.                                     *)

\* The result of what was done, as the contract's constant Result has it.
LEMMA ResultIs ==
  ASSUME NEW d \in Done
  PROVE  /\ [x \in Done |-> IF x.op = "rx" /\ x.st >= HdrLen THEN x.st - HdrLen ELSE 0][d] = Reply(d)
         /\ Reply(d) \in Nat
<1>1. d # None /\ d.st \in Nat /\ HdrLen \in Nat
  <2>1. d # None /\ Lens \subseteq Nat /\ HdrLen \in Nat
    BY NetAssumption
  <2>2. d.st \in Lens \/ d.st = Sent
    BY DEF Done
  <2>3. Sent \in Nat
    BY DEF Sent
  <2>4. d.st \in Nat
    BY <2>1, <2>2, <2>3, Zenon
  <2> QED  BY <2>1, <2>4, Zenon
<1>2. Reply(d) = Answer(d.op, d.st)
  BY <1>1 DEF Reply
<1>3. Answer(d.op, d.st) = IF d.op = "rx" /\ d.st >= HdrLen THEN d.st - HdrLen ELSE 0
  BY <1>1 DEF Answer
<1>4. Answer(d.op, d.st) \in Nat
  BY <1>1 DEF Answer
<1> QED  BY <1>2, <1>3, <1>4

\* Whom a completion ring answers, and what it says.
Names(c, u)    == \E i \in 1 .. Len(c) : c[i].user = u
AnswerOf(c, u) == IF Names(c, u) THEN c[CHOOSE i \in 1 .. Len(c) : c[i].user = u].res ELSE None

\* The answer read off the completion ring is the one the user's result calls for.
LEMMA AnswerOfIs ==
  ASSUME NEW c, NEW e, Answers(c, e), NEW u, e[u] \in Done \cup {None}
  PROVE  /\ Names(c, u) => AnswerOf(c, u) = Reply(e[u]) /\ AnswerOf(c, u) # None
         /\ ~Names(c, u) => AnswerOf(c, u) = None
<1>1. CASE Names(c, u)
  <2> DEFINE i == CHOOSE i \in 1 .. Len(c) : c[i].user = u
  <2>1. i \in 1 .. Len(c) /\ c[i].user = u
    BY <1>1 DEF Names
  <2>2. AnswerOf(c, u) = c[i].res
    BY <1>1 DEF AnswerOf
  <2> HIDE DEF i
  <2>3. c[i].res = Reply(e[u])
    BY <2>1 DEF Answers
  <2>4. Reply(e[u]) # None
    <3>1. CASE e[u] = None
      BY <3>1, NetAssumption DEF Reply
    <3>2. CASE e[u] \in Done
      BY <3>2, ResultIs, NetAssumption
    <3> QED  BY <3>1, <3>2
  <2> QED  BY <1>1, <2>2, <2>3, <2>4
<1>2. CASE ~Names(c, u)
  BY <1>2 DEF AnswerOf
<1> QED  BY <1>1, <1>2

\* The value of the contract's variable `answer`.
answer == [u \in Users |-> AnswerIn(u)]

\* The abstract answers, and being told, in terms of the completion ring.
LEMMA AnswerIs ==
  /\ answer = [u \in Users |-> AnswerOf(cq, u)]
  /\ answer' = [u \in Users |-> AnswerOf(cq', u)]
  /\ \A u \in Users : Told(u) <=> Names(cq, u)
BY DEF answer, AnswerIn, AnswerOf, Names, Told

\* What both states of a step say of the answers.
LEMMA AnswersAre ==
  ASSUME AllInv, AllInv'
  PROVE  /\ Answers(cq, exec) /\ Answers(cq', exec')
         /\ \A u \in Users : exec[u] \in Done \cup {None} /\ exec'[u] \in Done \cup {None}
<1>1. Answers(cq, exec) /\ Answers(cq', exec')
  BY DEF AllInv, Requests
<1>2. exec \in [Users -> Done \cup {None}] /\ exec' \in [Users -> Done \cup {None}]
  BY DEF AllInv, IInv, TypeOK
<1> QED  BY <1>1, <1>2

\* One more entry on the completion ring is one more answer.
LEMMA AnswerAppend ==
  ASSUME AllInv, AllInv', UNCHANGED <<ask, exec>>, NEW u \in Users, ~Told(u), ask[u] # None,
         NEW x, x.user = u, cq' = Append(cq, x)
  PROVE  Contract!Answer(u)
<1>1. cq \in Seq(Cqe)
  BY PlaceTypes DEF AllInv
<1>2. ASSUME NEW v \in Users PROVE Names(cq', v) <=> Names(cq, v) \/ v = u
  <2>1. /\ Len(cq') = Len(cq) + 1 /\ cq'[Len(cq) + 1] = x /\ Len(cq) \in Nat
        /\ \A i \in 1 .. Len(cq) : cq'[i] = cq[i]
    BY <1>1
  <2>2. /\ \A i \in 1 .. Len(cq) + 1 : i = Len(cq) + 1 \/ i \in 1 .. Len(cq)
        /\ \A i \in 1 .. Len(cq) : i \in 1 .. Len(cq) + 1
        /\ Len(cq) + 1 \in 1 .. Len(cq) + 1
    BY <2>1
  <2> QED  BY <2>1, <2>2 DEF Names
<1>3. /\ Answers(cq, exec) /\ Answers(cq', exec')
      /\ \A v \in Users : exec[v] \in Done \cup {None}
  BY AnswersAre
<1>4. answer[u] = None
  BY <1>3, AnswerOfIs, AnswerIs
<1>5. answer' = [answer EXCEPT ![u] = Reply(exec[u])]
  <2>1. ASSUME NEW v \in Users
        PROVE  AnswerOf(cq', v) = IF v = u THEN Reply(exec[u]) ELSE AnswerOf(cq, v)
    BY <1>2, <1>3, AnswerOfIs
  <2> QED  BY <2>1, AnswerIs
<1>6. Reply(exec[u]) = IF exec[u] = None THEN -1
                       ELSE [d \in Done |-> IF d.op = "rx" /\ d.st >= HdrLen
                                              THEN d.st - HdrLen ELSE 0][exec[u]]
  <2>1. CASE exec[u] = None
    BY <2>1 DEF Reply
  <2>2. CASE exec[u] # None
    BY <1>3, <2>2, ResultIs
  <2> QED  BY <2>1, <2>2
<1> QED  BY <1>4, <1>5, <1>6 DEF Contract!Answer, answer

\* Reaping is the contract's close.
LEMMA ContractReap ==
  ASSUME AllInv, AllInv', ClientReap
  PROVE  \E u \in Users : Contract!Close(u)
<1> DEFINE u == Head(cq).user
<1>1. /\ u \in Users /\ Told(u)
      /\ ask' = [ask EXCEPT ![u] = None] /\ exec' = [exec EXCEPT ![u] = None]
      /\ Len(cq') = Len(cq) - 1 /\ Len(cq) \in Nat \ {0} /\ cq[1].user = u
      /\ \A i \in 1 .. Len(cq') : i + 1 \in 1 .. Len(cq) /\ cq'[i] = cq[i + 1] /\ cq'[i].user # u
  BY ReapIs DEF AllInv
<1> HIDE DEF u
<1>2. ~Names(cq', u)
  BY <1>1 DEF Names
<1>3. ASSUME NEW v \in Users, v # u PROVE Names(cq', v) <=> Names(cq, v)
  <2>1. \A i \in 1 .. Len(cq) : i # 1 => i - 1 \in 1 .. Len(cq') /\ (i - 1) + 1 = i
    BY <1>1
  <2>2. ASSUME NEW i \in 1 .. Len(cq), cq[i].user = v PROVE Names(cq', v)
    <3>1. i # 1
      BY <1>1, <1>3, <2>2
    <3>2. i - 1 \in 1 .. Len(cq') /\ cq'[i - 1] = cq[i]
      BY <1>1, <2>1, <3>1
    <3> QED  BY <2>2, <3>2 DEF Names
  <2>3. ASSUME NEW i \in 1 .. Len(cq'), cq'[i].user = v PROVE Names(cq, v)
    BY <1>1, <2>3 DEF Names
  <2> QED  BY <2>2, <2>3 DEF Names
<1>4. /\ Answers(cq, exec) /\ Answers(cq', exec')
      /\ \A v \in Users : exec[v] \in Done \cup {None} /\ exec'[v] \in Done \cup {None}
  BY AnswersAre
<1>5. answer[u] # None
  BY <1>1, <1>4, AnswerOfIs, AnswerIs
<1>6. answer' = [answer EXCEPT ![u] = None]
  <2>1. \A v \in Users : v # u => exec'[v] = exec[v]
    BY <1>1, PlaceTypes DEF AllInv
  <2>2. ASSUME NEW v \in Users
        PROVE  AnswerOf(cq', v) = IF v = u THEN None ELSE AnswerOf(cq, v)
    BY <1>2, <1>3, <1>4, <2>1, AnswerOfIs
  <2> QED  BY <2>2, AnswerIs
<1>7. Contract!Close(u)
  BY <1>1, <1>5, <1>6 DEF Contract!Close, answer
<1> QED  BY <1>1, <1>7

\* Every step of the driver is a step of the contract, or changes nothing it sees.
LEMMA ContractStep ==
  ASSUME AllInv, AllInv', [Next]_vars
  PROVE  [Contract!Next]_(Contract!vars)
<1> USE DEF ringVars, deviceVars, clientVars
<1>0. IInv /\ OneHome /\ Requests
  BY DEF AllInv
<1>1. ASSUME UNCHANGED <<ask, exec, cq>> PROVE UNCHANGED Contract!vars
  BY <1>1 DEF Contract!vars, AnswerIn
<1>2. CASE Refuses
  <2>1. /\ ToDo # << >> /\ Head(ToDo) = Sub /\ Sub.user \in Users
        /\ cq' = Append(cq, [user |-> Sub.user, res |-> -1]) /\ UNCHANGED <<ask, exec>>
    BY <1>0, <1>2, RefusesIs
  <2>2. Taken(Sub.user)
    <3>1. Head(ToDo) = ToDo[1] /\ 1 \in 1 .. Len(ToDo)
      BY <1>0, <2>1, PlaceTypes, WaitsTail DEF Requests
    <3> QED  BY <2>1, <3>1 DEF Taken
  <2>3. ~Told(Sub.user) /\ ask[Sub.user] # None
    BY <1>0, <2>1, <2>2, Where
  <2>4. PICK x : x = [user |-> Sub.user, res |-> -1]
    OBVIOUS
  <2>5. x.user = Sub.user /\ cq' = Append(cq, x)
    BY <2>1, <2>4
  <2>6. Contract!Answer(Sub.user)
    BY <2>1, <2>3, <2>5, AnswerAppend
  <2> QED  BY <2>1, <2>6 DEF Contract!Next
<1>3. CASE PopOne
  <2>1. PICK s \in Side : s = drv.side
    BY <1>0, PlaceTypes DEF DrvType
  <2>2. UNCHANGED <<ask, exec>>
    BY <1>0, <1>3, <2>1, PopMoves
  <2> DEFINE h == PopId(vq[s])
             u == pending[s][h]
             e == [user |-> u, res |-> Answer(s, rxlen[vq[s].last_used_idx % Num])]
  <2>3. h \in Heads(pending[s]) /\ u \in Users /\ cq' = Append(cq, e)
    BY <1>0, <1>3, <2>1, PopIs
  <2>4. Flies(u)
    BY <2>3 DEF Flies, Heads
  <2>5. e.user = u
    OBVIOUS
  <2> HIDE DEF e, u
  <2>6. ~Told(u) /\ ask[u] # None
    BY <1>0, <2>3, <2>4, Where
  <2>7. Contract!Answer(u)
    BY <2>2, <2>3, <2>5, <2>6, AnswerAppend
  <2> QED  BY <2>3, <2>7 DEF Contract!Next
<1>4. CASE DevGives
  <2>1. PICK s \in Side : \E h \in dev.held[s], x \in IF s = "rx" THEN Lens ELSE {Sent} : DevDone(s, h, x)
    BY <1>4 DEF DevGives
  <2>2. PICK h \in dev.held[s], x \in IF s = "rx" THEN Lens ELSE {Sent} : DevDone(s, h, x)
    BY <2>1
  <2>3. PICK u : u = pending[s][h]
    OBVIOUS
  <2>4. PICK d : d = [op |-> s, st |-> x]
    OBVIOUS
  <2>5. /\ h \in Heads(pending[s]) /\ u \in Users
        /\ ask[u] = s /\ exec[u] = None /\ d \in Done
        /\ exec' = [exec EXCEPT ![u] = d]
    BY <1>0, <2>2, <2>3, <2>4, GiveIs
  <2>6. Flies(u)
    BY <2>3, <2>5 DEF Flies, Heads
  <2>7. ~Told(u)
    BY <1>0, <2>5, <2>6, Where
  <2>8. answer[u] = None
    BY <2>5, <2>7, AnswersAre, AnswerOfIs, AnswerIs
  <2>9. UNCHANGED <<ask, cq>>
    BY <2>2 DEF DevDone
  <2>10. answer' = answer
    BY <2>9, AnswerIs
  <2>11. d.op = ask[u]
    BY <2>4, <2>5
  <2>12. Contract!Execute(u)
    BY <2>5, <2>8, <2>9, <2>10, <2>11 DEF Contract!Execute, answer
  <2> QED  BY <2>5, <2>12 DEF Contract!Next
<1>5. CASE Opens
  <2>1. PICK u \in Users, k \in Kinds : ClientSubmit(u, k)
    BY <1>5 DEF Opens
  <2>2. /\ ask[u] = None /\ ask' = [ask EXCEPT ![u] = k] /\ UNCHANGED <<exec, cq>>
    BY <2>1 DEF ClientSubmit
  <2>3. answer' = answer
    BY <2>2, AnswerIs
  <2>4. Contract!Ask(u)
    BY <2>2, <2>3 DEF Contract!Ask, answer
  <2> QED  BY <2>4 DEF Contract!Next
<1>6. CASE ClientReap
  BY <1>6, ContractReap DEF Contract!Next
<1>7. CASE Resting
  BY <1>0, <1>1, <1>7, RestingIs
<1>8. CASE FreeOne \/ Takes
  BY <1>1, <1>8 DEF FreeOne, Takes, DevTake
<1>9. CASE Fetch \/ Publish
  BY <1>0, <1>1, <1>9, FetchIs, PublishMoves
<1> QED  BY <1>2, <1>3, <1>4, <1>5, <1>6, <1>7, <1>8, <1>9, NextStill, StillParts

\* The driver starts where the contract does.
LEMMA ContractInit == Init => Contract!Init
<1> SUFFICES ASSUME Init PROVE Contract!Init
  OBVIOUS
<1>1. \A u \in Users : AnswerIn(u) = None
  BY DEF Init, AnswerIn
<1> QED  BY <1>1 DEF Init, Contract!Init

(* The driver, its device and its client implement IoContract: a request   *)
(* is executed at most once and as asked, is answered once, and the answer *)
(* tells whether it was executed and how long its frame was (net.rs,       *)
(* server.rs).                                                             *)
THEOREM Refinement == Spec => ImplementsContract
<1>1. AllInv /\ AllInv' /\ [Next]_vars => [Contract!Next]_(Contract!vars)
  BY ContractStep
<1> QED  BY <1>1, ContractInit, AllInvariant, PTL DEF Spec, ImplementsContract, Contract!Spec
=============================================================================
