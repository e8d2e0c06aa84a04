-------------------------- MODULE VirtioBlkProofs --------------------------
(***************************************************************************)
(* Theorems about the block driver, for every queue size, every number of  *)
(* request slots and requests, and every batch size.                       *)
(*                                                                         *)
(* The inductive invariant says who owns each descriptor: the free list,   *)
(* one chain of exactly three per request in flight, and what is left of   *)
(* the chain being freed are pairwise disjoint.  It is stated over a queue *)
(* p, a set I of requests in flight, the starts W of the chains being      *)
(* freed (one at most) and the set F of free descriptors.                  *)
(***************************************************************************)
EXTENDS VirtioBlk, VirtQueueLemmas

Second(p, h) == p.next[h]
Third(p, h)  == p.next[p.next[h]]
Chain(p, h)  == {h, Second(p, h), Third(p, h)}

IsChain(p, h) ==
  /\ h # Second(p, h) /\ h # Third(p, h) /\ Second(p, h) # Third(p, h)
  /\ NEXT \in p.flags[h] /\ NEXT \in p.flags[Second(p, h)]
  /\ NEXT \notin p.flags[Third(p, h)]

\* What the walk that frees a chain still has to free from c on.
Left(p, c) == IF NEXT \notin p.flags[c] THEN {c}
              ELSE IF NEXT \notin p.flags[Second(p, c)] THEN {c, Second(p, c)}
              ELSE Chain(p, c)

IsTail(p, c) ==
  /\ NEXT \in p.flags[c] => Second(p, c) # c
  /\ NEXT \in p.flags[c] /\ NEXT \in p.flags[Second(p, c)] => IsChain(p, c)

Ownership(p, I, W, F) ==
  /\ FreeList(p, F)
  /\ \A r \in I : IsChain(p, r.head) /\ Chain(p, r.head) \cap F = {}
  /\ \A r, t \in I : r # t => Chain(p, r.head) \cap Chain(p, t.head) = {}
  /\ \A c \in W : IsTail(p, c) /\ Left(p, c) \cap F = {}
  /\ \A c \in W, r \in I : Left(p, c) \cap Chain(p, r.head) = {}

\* A queue with the same links and flags has the same owners.
LEMMA OwnershipFrame ==
  ASSUME NEW p \in Queue(Addr), NEW n \in Queue(Addr), NEW I, NEW W, NEW F,
         Ownership(p, I, W, F), FreeList(n, F),
         n.next = p.next, n.flags = p.flags
  PROVE  Ownership(n, I, W, F)
BY SMTT(20) DEF Ownership, IsChain, Chain, Second, Third, Left, IsTail

(* Taking a completion: a request in flight becomes the chain to free.     *)
LEMMA OwnershipPop ==
  ASSUME NEW p \in Queue(Addr), NEW I, NEW F, NEW r \in I, Ownership(p, I, {}, F)
  PROVE  /\ Ownership(p, I \ {r}, {r.head}, F)
         /\ NEXT \in p.flags[r.head] /\ NEXT \in p.flags[Second(p, r.head)]
<1>1. IsChain(p, r.head) /\ Chain(p, r.head) \cap F = {}
  BY DEF Ownership
<1>2. IsTail(p, r.head) /\ Left(p, r.head) = Chain(p, r.head)
  BY <1>1 DEF IsTail, Left, IsChain
<1> QED  BY <1>1, <1>2 DEF Ownership, IsChain

(* Where a walk that has freed c goes next, if anywhere.                   *)
After(p, c) == IF NEXT \in p.flags[c] THEN {p.next[c]} ELSE {}

(* One turn of the loop that frees a chain.                                *)
LEMMA OwnershipFree ==
  ASSUME NEW p \in Queue(Addr), NEW I, NEW F, NEW c \in Desc,
         \A r \in I : r.head \in Desc,
         Ownership(p, I, {c}, F)
  PROVE  /\ FreeDesc(p, c) \in Queue(Addr)
         /\ Ownership(FreeDesc(p, c), I, After(p, c), F \cup {c})
         /\ \A d \in Desc : d # c => /\ FreeDesc(p, c).flags[d] = p.flags[d]
                                     /\ FreeDesc(p, c).next[d] = p.next[d]
<1> DEFINE n == FreeDesc(p, c)
           W == After(p, c)
<1>1. c \notin F
  BY DEF Ownership, Left, Chain
<1>2. n \in Queue(Addr) /\ FreeList(n, F \cup {c})
  BY <1>1, FreeDescFree DEF Ownership
<1>3. \A d \in Desc : d # c => n.flags[d] = p.flags[d] /\ n.next[d] = p.next[d]
  BY DEF FreeDesc, Queue
<1>4. \A d \in Desc : p.next[d] \in Desc
  BY DEF Queue
<1> HIDE DEF n
<1>5. ASSUME NEW r \in I
      PROVE  /\ IsChain(n, r.head) /\ Chain(n, r.head) = Chain(p, r.head)
             /\ Chain(n, r.head) \cap (F \cup {c}) = {}
  <2>1. c \notin Chain(p, r.head)
    BY DEF Ownership, Left, Chain
  <2>2. r.head \in Desc /\ Second(p, r.head) \in Desc /\ Third(p, r.head) \in Desc
    BY <1>4 DEF Second, Third
  <2>3. Second(n, r.head) = Second(p, r.head) /\ Third(n, r.head) = Third(p, r.head)
    BY <1>3, <2>1, <2>2 DEF Chain, Second, Third
  <2>4. Chain(n, r.head) = Chain(p, r.head)
    BY <2>3 DEF Chain
  <2>5. IsChain(n, r.head)
    BY <1>3, <2>1, <2>2, <2>3 DEF IsChain, Chain, Ownership
  <2> QED  BY <2>1, <2>4, <2>5 DEF Ownership
<1>6. ASSUME NEW d \in W
      PROVE  /\ IsTail(n, d) /\ Left(n, d) \cap (F \cup {c}) = {}
             /\ \A r \in I : Left(n, d) \cap Chain(p, r.head) = {}
  <2>1. NEXT \in p.flags[c] /\ d = Second(p, c) /\ d # c /\ d \in Desc
    BY <1>4 DEF After, Ownership, IsTail, Second
  <2>2. NEXT \in p.flags[d] => /\ IsChain(p, c)
                               /\ Second(p, d) = Third(p, c) /\ Second(p, d) \in Desc
    BY <1>4, <2>1 DEF Ownership, IsTail, Second, Third
  <2>3. Left(n, d) \subseteq Left(p, c) \ {c}
    BY <1>3, <2>1, <2>2 DEF Left, Chain, IsChain, Second, Third
  <2>4. IsTail(n, d)
    BY <1>3, <2>1, <2>2 DEF IsTail, IsChain, Second, Third
  <2> QED  BY <2>3, <2>4 DEF Ownership
<1>7. Ownership(n, I, W, F \cup {c})
  <2> HIDE DEF W
  <2> QED  BY <1>2, <1>5, <1>6 DEF Ownership
<1> QED  BY <1>2, <1>3, <1>7 DEF n

(* Giving up for want of descriptors empties the free list; what was on it *)
(* is owned by nobody.                                                     *)
LEMMA OwnershipGiveUp ==
  ASSUME q \in Queue(Addr), NEW I, NEW F, Ownership(q, I, {}, F), q.num_free < 3
  PROVE  /\ AllocRest \in Queue(Addr)
         /\ AllocRest.num_free = 0
         /\ \E G \in SUBSET F : Ownership(AllocRest, I, {}, G)
<1>1. q.num_free \in Nat /\ FreeList(q, F)
  BY QueueAssumption DEF Queue, Ownership
<1> DEFINE a1 == AllocDesc(q)
           a2 == AllocDesc(a1)
<1>2. CASE q.num_free = 0
  BY <1>2 DEF AllocRest
<1>3. ASSUME q.num_free > 0
      PROVE  /\ a1 \in Queue(Addr) /\ FreeList(a1, F \ {q.free_head})
             /\ a1.num_free = q.num_free - 1
             /\ a1.next = q.next /\ a1.flags = q.flags
  <2>1. a1 \in Queue(Addr) /\ FreeList(a1, F \ {q.free_head})
    BY <1>1, <1>3, AllocDescFree DEF CanAlloc
  <2> QED  BY <2>1 DEF AllocDesc, Queue
<1>4. ASSUME q.num_free > 0
      PROVE  Ownership(a1, I, {}, F \ {q.free_head})
  <2> HIDE DEF a1
  <2> QED  BY <1>3, <1>4 DEF Ownership, IsChain, Chain, Second, Third
<1>5. CASE q.num_free = 1
  <2>1. AllocRest = a1
    BY <1>5 DEF AllocRest
  <2> QED  BY <1>3, <1>4, <1>5, <2>1
<1>6. CASE q.num_free = 2
  <2> DEFINE F1 == F \ {q.free_head}
             F2 == F1 \ {a1.free_head}
  <2>1. AllocRest = a2
    BY <1>6 DEF AllocRest
  <2>2. a1 \in Queue(Addr) /\ FreeList(a1, F1) /\ a1.num_free = 1
        /\ a1.next = q.next /\ a1.flags = q.flags
    BY <1>3, <1>6
  <2> HIDE DEF a1
  <2>3. a2 \in Queue(Addr) /\ FreeList(a2, F2)
    BY <2>2, AllocDescFree DEF CanAlloc
  <2>4. a2.num_free = 0 /\ a2.next = q.next /\ a2.flags = q.flags
    BY <2>2 DEF AllocDesc, Queue
  <2> HIDE DEF a2
  <2>5. Ownership(a2, I, {}, F2)
    BY <2>3, <2>4 DEF Ownership, IsChain, Chain, Second, Third
  <2> QED  BY <2>1, <2>3, <2>4, <2>5
<1> QED  BY <1>1, <1>2, <1>5, <1>6

(* Publishing a request makes a chain of three descriptors that were free. *)
LEMMA OwnershipPublish ==
  ASSUME q \in Queue(Addr), NEW I, NEW F, Ownership(q, I, {}, F), q.num_free >= 3,
         \A t \in I : t.head \in Desc,
         NEW sqe \in Sqe, NEW s \in Slots, NEW r, r.head = q.free_head
  PROVE  LET n == Submit(WriteChain(sqe, s), q.free_head)
         IN  /\ n \in Queue(Addr)
             /\ n.num_free = q.num_free - 3
             /\ r \notin I
             /\ \E G : Ownership(n, I \cup {r}, {}, G)
<1> DEFINE a1 == AllocDesc(q)
           a2 == AllocDesc(a1)
           a3 == AllocDesc(a2)
           d1 == q.free_head
           d2 == a1.free_head
           d3 == a2.free_head
           f2 == IF sqe.kind = "write" THEN {NEXT} ELSE {NEXT, WRITE}
           w1 == WriteDesc(a3, d1, Hdr(s), {NEXT}, d2)
           w2 == WriteDesc(w1, d2, Data(sqe.user), f2, d3)
           w3 == WriteDesc(w2, d3, Status(s), {WRITE}, 0)
           n  == Submit(w3, d1)
           G  == ((F \ {d1}) \ {d2}) \ {d3}
<1>1. /\ a1 \in Queue(Addr) /\ FreeList(a1, F \ {d1})
      /\ d1 \in F /\ a1.num_free = q.num_free - 1 /\ a1.next = q.next /\ a1.flags = q.flags
  <2>1. FreeList(q, F) /\ CanAlloc(q)
    BY DEF Ownership, CanAlloc, Queue
  <2>2. a1 \in Queue(Addr) /\ FreeList(a1, F \ {d1}) /\ d1 \in F
    BY <2>1, AllocDescFree
  <2> QED  BY <2>2 DEF AllocDesc, Queue
<1>2. /\ a2 \in Queue(Addr) /\ FreeList(a2, (F \ {d1}) \ {d2})
      /\ d2 \in F \ {d1} /\ a2.num_free = q.num_free - 2
      /\ a2.next = q.next /\ a2.flags = q.flags
  <2> HIDE DEF a1
  <2>1. CanAlloc(a1)
    BY <1>1 DEF CanAlloc, Queue
  <2>2. a2 \in Queue(Addr) /\ FreeList(a2, (F \ {d1}) \ {d2}) /\ d2 \in F \ {d1}
    BY <1>1, <2>1, AllocDescFree
  <2> QED  BY <1>1, <2>2 DEF AllocDesc, Queue
<1>3. /\ a3 \in Queue(Addr) /\ FreeList(a3, G)
      /\ d3 \in (F \ {d1}) \ {d2} /\ a3.num_free = q.num_free - 3
      /\ a3.next = q.next /\ a3.flags = q.flags
  <2> HIDE DEF a1, a2
  <2>1. CanAlloc(a2)
    BY <1>2 DEF CanAlloc, Queue
  <2>2. a3 \in Queue(Addr) /\ FreeList(a3, G) /\ d3 \in (F \ {d1}) \ {d2}
    BY <1>2, <2>1, AllocDescFree
  <2> QED  BY <1>2, <2>2 DEF AllocDesc, Queue
<1>4. /\ d1 \in Desc /\ d2 \in Desc /\ d3 \in Desc
      /\ d1 \notin G /\ d2 \notin G /\ d3 \notin G
      /\ d1 # d2 /\ d1 # d3 /\ d2 # d3
  BY <1>1, <1>2, <1>3, FreeListSize DEF Queue
<1>5. /\ Hdr(s) \in Addr /\ Data(sqe.user) \in Addr /\ Status(s) \in Addr
      /\ {NEXT} \in SUBSET {NEXT, WRITE} /\ {WRITE} \in SUBSET {NEXT, WRITE}
      /\ f2 \in SUBSET {NEXT, WRITE} /\ 0 \in Desc
  BY QueueAssumption DEF Addr, Sqe, Desc
<1> HIDE DEF d1, d2, d3, a1, a2, a3, f2, G
<1>6. /\ w1 \in Queue(Addr) /\ FreeList(w1, G)
      /\ w1.next = [a3.next EXCEPT ![d1] = d2]
      /\ w1.flags = [a3.flags EXCEPT ![d1] = {NEXT}] /\ w1.num_free = a3.num_free
  <2>1. w1 \in Queue(Addr) /\ FreeList(w1, G)
    BY <1>3, <1>4, <1>5, WriteDescFree
  <2> QED  BY <1>3, <2>1 DEF WriteDesc, Queue
<1> HIDE DEF w1
<1>7. /\ w2 \in Queue(Addr) /\ FreeList(w2, G)
      /\ w2.next = [w1.next EXCEPT ![d2] = d3]
      /\ w2.flags = [w1.flags EXCEPT ![d2] = f2] /\ w2.num_free = w1.num_free
  <2>1. w2 \in Queue(Addr) /\ FreeList(w2, G)
    BY <1>4, <1>5, <1>6, WriteDescFree
  <2> QED  BY <1>6, <2>1 DEF WriteDesc, Queue
<1> HIDE DEF w2
<1>8. /\ w3 \in Queue(Addr) /\ FreeList(w3, G)
      /\ w3.next = [w2.next EXCEPT ![d3] = 0]
      /\ w3.flags = [w2.flags EXCEPT ![d3] = {WRITE}] /\ w3.num_free = w2.num_free
  <2>1. w3 \in Queue(Addr) /\ FreeList(w3, G)
    BY <1>4, <1>5, <1>7, WriteDescFree
  <2> QED  BY <1>7, <2>1 DEF WriteDesc, Queue
<1> HIDE DEF w3
<1>9. /\ n \in Queue(Addr) /\ FreeList(n, G)
      /\ n.next = w3.next /\ n.flags = w3.flags /\ n.num_free = q.num_free - 3
  <2>1. n \in Queue(Addr) /\ FreeList(n, G)
    BY <1>4, <1>8, RingsFree
  <2> QED  BY <1>3, <1>6, <1>7, <1>8, <2>1 DEF Submit, Queue
<1> HIDE DEF n
<1>10. /\ n.next[d1] = d2 /\ n.next[d2] = d3
       /\ NEXT \in n.flags[d1] /\ NEXT \in n.flags[d2] /\ NEXT \notin n.flags[d3]
       /\ \A d \in Desc \ {d1, d2, d3} : n.next[d] = q.next[d] /\ n.flags[d] = q.flags[d]
  <2>1. /\ q.next \in [Desc -> Desc] /\ q.flags \in [Desc -> SUBSET {NEXT, WRITE}]
    BY DEF Queue
  <2>2. NEXT \in f2 /\ NEXT \notin {WRITE}
    BY DEF f2, NEXT, WRITE
  <2>3. n.next = [[[q.next EXCEPT ![d1] = d2] EXCEPT ![d2] = d3] EXCEPT ![d3] = 0]
    BY <1>3, <1>6, <1>7, <1>8, <1>9
  <2>4. n.flags = [[[q.flags EXCEPT ![d1] = {NEXT}] EXCEPT ![d2] = f2] EXCEPT ![d3] = {WRITE}]
    BY <1>3, <1>6, <1>7, <1>8, <1>9
  <2> QED  BY <1>4, <2>1, <2>2, <2>3, <2>4
<1>11. IsChain(n, d1) /\ Chain(n, d1) = {d1, d2, d3}
  BY <1>4, <1>10 DEF IsChain, Chain, Second, Third
<1>12. ASSUME NEW t \in I
       PROVE  /\ IsChain(n, t.head) /\ Chain(n, t.head) = Chain(q, t.head)
              /\ Chain(n, t.head) \cap {d1, d2, d3} = {} /\ Chain(n, t.head) \cap G = {}
  <2>1. Chain(q, t.head) \cap F = {} /\ IsChain(q, t.head)
    BY DEF Ownership
  <2>2. {d1, d2, d3} \subseteq F /\ G \subseteq F
    BY <1>1, <1>2, <1>3 DEF G
  <2>3. Chain(q, t.head) \subseteq Desc \ {d1, d2, d3}
    BY <2>1, <2>2 DEF Chain, Second, Third, Queue
  <2>4. Second(n, t.head) = Second(q, t.head) /\ Third(n, t.head) = Third(q, t.head)
    BY <1>10, <2>3 DEF Chain, Second, Third
  <2>5. IsChain(n, t.head) /\ Chain(n, t.head) = Chain(q, t.head)
    BY <1>10, <2>1, <2>3, <2>4 DEF IsChain, Chain
  <2> QED  BY <2>1, <2>2, <2>3, <2>5
<1>13. r \notin I
  BY <1>11, <1>12 DEF d1, Chain
<1>14. Ownership(n, I \cup {r}, {}, G)
  <2>1. r.head = d1
    BY DEF d1
  <2>2. Chain(n, d1) \cap G = {}
    BY <1>4, <1>11
  <2> QED  BY <1>9, <1>11, <1>12, <2>1, <2>2 DEF Ownership
<1> QED  BY <1>9, <1>13, <1>14 DEF n, w1, w2, w3, a1, a2, a3, d1, d2, d3, f2, WriteChain

-----------------------------------------------------------------------------
(* The inductive invariant.                                                *)

\* Which of the driver's local variables are live, by program counter.
Control ==
  /\ slot # None <=> pc = "record"
  /\ cur # None <=> pc \in {"free", "complete"}
  /\ slot # None => pending[slot.pos] = None

WalkStart == IF pc = "free" THEN {cur.curr} ELSE {}

IInv ==
  /\ TypeOK
  /\ Control
  /\ IsFiniteSet(InFlight)
  /\ \E F : Ownership(q, InFlight, WalkStart, F)
  /\ LeakBound

\* The variables that TypeOK, Control and LeakBound share with each step.
LEMMA InFlightType ==
  ASSUME TypeOK
  PROVE  InFlight \subseteq InSlot
BY DEF TypeOK, InFlight, InSlot, Pending

(* How a step that takes, makes or records a request changes InFlight.     *)
LEMMA InFlightPop ==
  ASSUME TypeOK, slot = None, slot' = None, NEW s \in Slots, pending[s] # None,
         pending' = [pending EXCEPT ![s] = None]
  PROVE  LET r == [pos |-> s, user |-> pending[s].user, head |-> pending[s].head]
         IN  r \in InFlight /\ InFlight' = InFlight \ {r}
BY DEF InFlight, TypeOK

\* A published chain joins the requests in flight before it is recorded.
LEMMA InFlightPublish ==
  ASSUME slot = None, slot' # None, UNCHANGED pending
  PROVE  InFlight' = InFlight \cup {slot'}
BY DEF InFlight

\* Recording the published chain leaves the requests in flight as they were.
LEMMA InFlightRecord ==
  ASSUME TypeOK, Control, Record
  PROVE  InFlight' = InFlight
<1> DEFINE e == [user |-> slot.user, head |-> slot.head]
<1>1. slot \in InSlot /\ slot # None /\ slot' = None /\ pending[slot.pos] = None
  BY DEF Control, TypeOK, Record
<1>2. slot.pos \in Slots /\ e \in Pending /\ e # None
  <2>1. None \notin Pending
    BY BlkAssumption
  <2>2. e \in Pending /\ slot.pos \in Slots
    BY <1>1 DEF InSlot, Pending
  <2> QED  BY <2>1, <2>2
<1>3. pending' = [pending EXCEPT ![slot.pos] = e]
  BY DEF Record
<1> DEFINE Rec(f, s) == [pos |-> s, user |-> f[s].user, head |-> f[s].head]
           old == {Rec(pending, s) : s \in {t \in Slots : pending[t] # None}}
           new == {Rec(pending', s) : s \in {t \in Slots : pending'[t] # None}}
<1>4. InFlight = old \cup {slot} /\ InFlight' = new
  BY <1>1 DEF InFlight
<1>5. Rec(pending', slot.pos) = slot
  BY <1>1, <1>2, <1>3 DEF InSlot, TypeOK
<1>6. pending'[slot.pos] # None
  BY <1>2, <1>3 DEF TypeOK
<1>7. \A s \in Slots : s # slot.pos => pending'[s] = pending[s]
  BY <1>3 DEF TypeOK
<1>8. new = old \cup {slot}
  BY <1>1, <1>2, <1>5, <1>6, <1>7
<1> QED  BY <1>4, <1>8

(* Arithmetic of giving up: what is lost is 0 or Num % 3, before and after.*)
LEMMA GiveUpCount ==
  ASSUME NEW n \in Nat, NEW f \in 0 .. 2, NEW k \in Nat,
         (n - f) - 3 * k \in {0, n % 3}
  PROVE  n - 3 * k \in {0, n % 3}
BY Z3

(* Steps that touch no descriptor and no record of a request.              *)
LEMMA FrameStep ==
  ASSUME IInv, TypeOK', Control',
         UNCHANGED <<pending, slot>>,
         q'.next = q.next, q'.flags = q.flags, q'.num_free = q.num_free,
         \A F : FreeList(q, F) => FreeList(q', F),
         pc = "free" <=> pc' = "free",
         pc = "free" => cur' = cur
  PROVE  IInv'
<1>1. InFlight' = InFlight
  BY DEF InFlight
<1>2. WalkStart' = WalkStart /\ ChainLeft' = ChainLeft
  BY DEF WalkStart, ChainLeft
<1>3. LeakBound'
  BY <1>1, <1>2 DEF IInv, LeakBound, Lost
<1>4. PICK F : Ownership(q, InFlight, WalkStart, F)
  BY DEF IInv
<1>5. Ownership(q', InFlight, WalkStart, F)
  <2>1. FreeList(q, F) /\ FreeList(q', F)
    BY <1>4 DEF Ownership
  <2>2. q \in Queue(Addr) /\ q' \in Queue(Addr)
    BY DEF IInv, TypeOK
  <2> QED  BY <1>4, <2>1, <2>2, OwnershipFrame
<1> QED  BY <1>1, <1>2, <1>3, <1>5 DEF IInv

-----------------------------------------------------------------------------
(* Initial states.                                                         *)

\* The invariant holds initially.
LEMMA InitIInv == Init => IInv
<1> SUFFICES ASSUME Init PROVE IInv
  OBVIOUS
<1>1. Zero \in Addr
  BY DEF Addr
<1>2. q \in Queue(Addr) /\ FreeList(q, Desc) /\ q.num_free = Num
  BY <1>1, NewQueueFree DEF Init, NewQueue
<1>3. TypeOK
  <2>1. /\ batch \in Seq(Sqe) /\ sq \in Seq(Sqe)
        /\ cq \in Seq([user : Users, res : {0, -1}])
    BY DEF Init
  <2>2. seen \in Idx
    BY QueueAssumption DEF Init, Idx
  <2>3. /\ pending \in [Slots -> Pending \cup {None}]
        /\ hdr \in [Slots -> Good] /\ status \in [Slots -> Outcome \cup {"FF"}]
        /\ exec \in [Users -> Done \cup {None}] /\ ask \in [Users -> Kinds \cup {None}]
    BY DEF Init, Good, Outcome
  <2> QED  BY <1>2, <2>1, <2>2, <2>3 DEF Init, TypeOK
<1>4. Control
  BY DEF Init, Control
<1>5. InFlight = {}
  BY DEF Init, InFlight
<1>6. IsFiniteSet(InFlight) /\ Cardinality(InFlight) = 0
  BY <1>5, FS_EmptySet
<1>7. WalkStart = {} /\ ChainLeft = 0
  BY DEF Init, WalkStart, ChainLeft
<1>8. Ownership(q, InFlight, WalkStart, Desc)
  BY <1>2, <1>5, <1>7 DEF Ownership
<1>9. LeakBound
  BY <1>2, <1>6, <1>7, QueueAssumption DEF LeakBound, Lost
<1> QED  BY <1>3, <1>4, <1>6, <1>8, <1>9 DEF IInv

-----------------------------------------------------------------------------
(* Steps.                                                                  *)

\* The invariant is kept by a step that touches no chain, no record and no walk.
LEMMA QuietStep ==
  ASSUME IInv, TypeOK', Control',
         UNCHANGED <<q, pending, slot>>,
         pc = "free" <=> pc' = "free",
         pc = "free" => cur' = cur
  PROVE  IInv'
BY FrameStep

(* The steps of the driver that leave the queue and the requests alone.    *)
LEMMA DriverQuiet ==
  ASSUME IInv,
         \/ Recv \/ RecvBare \/ IrqRead \/ IrqAck \/ Unmask
         \/ PopNone \/ Complete \/ Fetch \/ FetchDone \/ SubmitDone
  PROVE  IInv'
<1> USE DEF driverVars, dmaVars, ringVars, kernelVars, deviceVars, clientVars
<1>0. TypeOK /\ Control
  BY DEF IInv
<1>1. CASE Recv
  <2>1. TypeOK' /\ Control'
    BY <1>0, <1>1 DEF Recv, TypeOK, Control
  <2> QED  BY <1>1, <2>1, QuietStep DEF Recv
<1>2. CASE RecvBare
  <2>1. TypeOK' /\ Control'
    BY <1>0, <1>2 DEF RecvBare, TypeOK, Control
  <2> QED  BY <1>2, <2>1, QuietStep DEF RecvBare
<1>3. CASE IrqRead
  <2>1. TypeOK' /\ Control'
    BY <1>0, <1>3 DEF IrqRead, TypeOK, Control, AfterIrq
  <2> QED  BY <1>3, <2>1, QuietStep DEF IrqRead, AfterIrq
<1>4. CASE IrqAck
  <2>1. TypeOK' /\ Control'
    BY <1>0, <1>4 DEF IrqAck, TypeOK, Control
  <2> QED  BY <1>4, <2>1, QuietStep DEF IrqAck
<1>5. CASE Unmask
  <2>1. TypeOK' /\ Control'
    BY <1>0, <1>5 DEF Unmask, TypeOK, Control
  <2> QED  BY <1>5, <2>1, QuietStep DEF Unmask
<1>6. CASE PopNone
  <2>1. TypeOK' /\ Control'
    BY <1>0, <1>6 DEF PopNone, TypeOK, Control, AfterIrq
  <2> QED  BY <1>6, <2>1, QuietStep DEF PopNone, AfterIrq
<1>7. CASE Complete
  <2>0. cur \in Walk
    BY <1>0, <1>7 DEF Complete, TypeOK, Control
  <2>1. cq' \in Seq([user : Users, res : {0, -1}])
    BY <1>0, <1>7, <2>0 DEF Complete, TypeOK, Cqe, Walk
  <2>2. TypeOK' /\ Control'
    BY <1>0, <1>7, <2>1 DEF Complete, TypeOK, Control
  <2> QED  BY <1>7, <2>2, QuietStep DEF Complete
<1>8. CASE Fetch
  <2>1. TypeOK' /\ Control'
    BY <1>0, <1>8 DEF Fetch, TypeOK, Control
  <2> QED  BY <1>8, <2>1, QuietStep DEF Fetch
<1>9. CASE FetchDone
  <2>1. TypeOK' /\ Control'
    BY <1>0, <1>9 DEF FetchDone, TypeOK, Control
  <2> QED  BY <1>9, <2>1, QuietStep DEF FetchDone
<1>10. CASE SubmitDone
  <2>1. TypeOK' /\ Control'
    BY <1>0, <1>10 DEF SubmitDone, TypeOK, Control
  <2> QED  BY <1>10, <2>1, QuietStep DEF SubmitDone
<1> QED  BY <1>1, <1>2, <1>3, <1>4, <1>5, <1>6, <1>7, <1>8, <1>9, <1>10

(* The steps of the device, the kernel and the client, but for the one     *)
(* that puts a chain on the used ring.                                     *)
LEMMA OthersQuiet ==
  ASSUME IInv,
         \/ DevTake \/ DevSleep \/ DevRaise \/ DevConfig \/ KernelIrq
         \/ ClientNotify \/ ClientPoke \/ ClientReap
         \/ \E u \in Users, k \in Kinds : ClientSubmit(u, k)
  PROVE  IInv'
<1> USE DEF driverVars, dmaVars, ringVars, kernelVars, deviceVars, clientVars
<1>0. TypeOK /\ Control
  BY DEF IInv
<1>1. CASE DevTake
  <2>1. DevTakeId(q, seen) \in Desc /\ (seen + 1) % IdxMod \in Idx
    BY <1>0, RingIndex DEF TypeOK, DevTakeId, Queue
  <2>2. TypeOK' /\ Control'
    BY <1>0, <1>1, <2>1 DEF DevTake, TypeOK, Control
  <2> QED  BY <1>1, <2>2, QuietStep DEF DevTake
<1>2. CASE DevSleep
  <2>1. TypeOK' /\ Control'
    BY <1>0, <1>2, ZenonT(30) DEF DevSleep, TypeOK, Control
  <2> QED  BY <1>2, <2>1, QuietStep DEF DevSleep
<1>3. CASE DevRaise
  <2>1. TypeOK' /\ Control'
    BY <1>0, <1>3, ZenonT(30) DEF DevRaise, TypeOK, Control
  <2> QED  BY <1>3, <2>1, QuietStep DEF DevRaise
<1>4. CASE DevConfig
  <2>1. TypeOK' /\ Control'
    BY <1>0, <1>4 DEF DevConfig, TypeOK, Control
  <2> QED  BY <1>4, <2>1, QuietStep DEF DevConfig
<1>5. CASE KernelIrq
  <2>1. TypeOK' /\ Control'
    BY <1>0, <1>5 DEF KernelIrq, TypeOK, Control
  <2> QED  BY <1>5, <2>1, QuietStep DEF KernelIrq
<1>6. CASE ClientNotify
  <2>1. TypeOK' /\ Control'
    BY <1>0, <1>6, ZenonT(30) DEF ClientNotify, TypeOK, Control
  <2> QED  BY <1>6, <2>1, QuietStep DEF ClientNotify
<1>7. CASE ClientPoke
  <2>1. TypeOK' /\ Control'
    BY <1>0, <1>7 DEF ClientPoke, TypeOK, Control
  <2> QED  BY <1>7, <2>1, QuietStep DEF ClientPoke
<1>8. CASE ClientReap
  <2>0. cq' \in Seq([user : Users, res : {0, -1}])
    BY <1>0, <1>8 DEF ClientReap, TypeOK
  <2>a. ask' \in [Users -> Kinds \cup {None}] /\ exec' \in [Users -> Done \cup {None}]
    BY <1>0, <1>8 DEF ClientReap, TypeOK
  <2>b. UNCHANGED <<q, driverVars, dmaVars, sq, kernelVars, kick, seen, held, raise, isr, owed>>
    BY <1>8 DEF ClientReap
  <2>1. TypeOK' /\ Control'
    BY <1>0, <2>0, <2>a, <2>b DEF TypeOK, Control
  <2> QED  BY <1>8, <2>1, QuietStep DEF ClientReap
<1>9. CASE \E u \in Users, k \in Kinds : ClientSubmit(u, k)
  <2>1. PICK u \in Users, k \in Kinds : ClientSubmit(u, k)
    BY <1>9
  <2>2. TypeOK' /\ Control'
    BY <1>0, <2>1 DEF ClientSubmit, TypeOK, Control, Sqe
  <2> QED  BY <2>1, <2>2, QuietStep DEF ClientSubmit
<1> QED  BY <1>1, <1>2, <1>3, <1>4, <1>5, <1>6, <1>7, <1>8, <1>9

\* The entry at the head of the batch, and what answering it leaves.
LEMMA RefuseType ==
  ASSUME TypeOK, batch # << >>, Refuse(Head(batch))
  PROVE  /\ Head(batch) \in Sqe
         /\ cq' \in Seq([user : Users, res : {0, -1}])
         /\ batch' \in Seq(Sqe)
<1>1. Head(batch) \in Sqe /\ Tail(batch) \in Seq(Sqe)
  BY DEF TypeOK
<1>2. Head(batch).user \in Users
  BY <1>1 DEF Sqe
<1> QED  BY <1>1, <1>2 DEF Refuse, Cqe, TypeOK

\* Writing the header of a request keeps headers and status bytes typed.
LEMMA HeaderType ==
  ASSUME TypeOK, NEW s \in Slots, NEW sqe \in Sqe, WriteHeader(s, sqe)
  PROVE  hdr' \in [Slots -> Good] /\ status' \in [Slots -> Outcome \cup {"FF"}]
BY DEF TypeOK, WriteHeader, Good

\* A refused request leaves the invariant as it found it.
LEMMA StepRefuse ==
  ASSUME IInv, RefuseEarly \/ RefuseBadAddr
  PROVE  IInv'
<1> USE DEF dmaVars, kernelVars, deviceVars, clientVars
<1>0. TypeOK /\ Control
  BY DEF IInv
<1>1. CASE RefuseEarly
  <2>1. TypeOK' /\ Control'
    BY <1>0, <1>1, RefuseType DEF RefuseEarly, Refuse, TypeOK, Control
  <2> QED  BY <1>1, <2>1, QuietStep DEF RefuseEarly, Refuse
<1>2. CASE RefuseBadAddr
  <2>1. hdr' \in [Slots -> Good] /\ status' \in [Slots -> Outcome \cup {"FF"}]
    BY <1>0, <1>2, RefuseType, HeaderType DEF RefuseBadAddr
  <2>2. TypeOK' /\ Control'
    BY <1>0, <1>2, <2>1, RefuseType DEF RefuseBadAddr, Refuse, TypeOK, Control
  <2> QED  BY <1>2, <2>2, QuietStep DEF RefuseBadAddr, Refuse
<1> QED  BY <1>1, <1>2

\* The area an address is in says what its index ranges over.
LEMMA AddrArea ==
  ASSUME NEW a \in Addr
  PROVE  /\ a.area = "hdr" => a.at \in Slots
         /\ a.area = "data" => a.at \in Users
         /\ a.area = "status" => a.at \in Slots
<1>1. CASE a = Zero
  BY <1>1 DEF Zero
<1>2. CASE \E s \in Slots : a = Hdr(s)
  BY <1>2 DEF Hdr
<1>3. CASE \E s \in Slots : a = Status(s)
  BY <1>3 DEF Status
<1>4. CASE \E u \in Users : a = Data(u)
  BY <1>4 DEF Data
<1> QED  BY <1>1, <1>2, <1>3, <1>4 DEF Addr

(* The device puts a chain on the used ring.                               *)
LEMMA StepDevDone ==
  ASSUME IInv, NEW h \in held, NEW st \in Outcome, DevDone(h, st)
  PROVE  IInv'
<1> USE DEF driverVars, ringVars, kernelVars, clientVars
<1>0. TypeOK /\ Control
  BY DEF IInv
<1>1. h \in Desc
  BY <1>0 DEF TypeOK
<1>2. q' \in Queue(Addr) /\ \A F : FreeList(q, F) => FreeList(q', F)
  <2>1. PICK F : FreeList(q, F)
    BY DEF IInv, Ownership
  <2> QED  BY <1>0, <1>1, <2>1, RingsFree DEF DevDone, TypeOK
<1>3. q'.next = q.next /\ q'.flags = q.flags /\ q'.num_free = q.num_free
  BY <1>0 DEF DevDone, DevUse, TypeOK, Queue
<1>4. exec' \in [Users -> Done \cup {None}] /\ status' \in [Slots -> Outcome \cup {"FF"}]
  <2> DEFINE d2 == q.next[h]
             d3 == q.next[d2]
  <2>1. q.addr[h] \in Addr /\ q.addr[d2] \in Addr /\ q.addr[d3] \in Addr
    BY <1>0, <1>1 DEF TypeOK, Queue
  <2>2. /\ q.addr[h].area = "hdr" => q.addr[h].at \in Slots
        /\ q.addr[d2].area = "data" => q.addr[d2].at \in Users
        /\ q.addr[d3].area = "status" => q.addr[d3].at \in Slots
    BY <2>1, AddrArea
  <2>3. hdr[q.addr[h].at] \in Good
    BY <1>0, <2>2 DEF DevDone, DevExecute, TypeOK
  <2>4. [op |-> hdr[q.addr[h].at], st |-> st] \in Done
    BY <2>3 DEF Done
  <2> QED  BY <1>0, <2>2, <2>4 DEF DevDone, DevExecute, TypeOK
<1>5. TypeOK' /\ Control'
  BY <1>0, <1>2, <1>4 DEF DevDone, TypeOK, Control
<1> QED  BY <1>2, <1>3, <1>5, FrameStep DEF DevDone

(* pop_completions takes a used entry.                                     *)
LEMMA StepPopOne ==
  ASSUME IInv, PopOne
  PROVE  IInv'
<1> USE DEF dmaVars, ringVars, kernelVars, deviceVars, clientVars
<1>0. TypeOK /\ Control /\ pc = "pop" /\ q' = Pop(q) /\ slot' = slot
  BY DEF IInv, PopOne
<1>1. PICK F : Ownership(q, InFlight, {}, F)
  BY <1>0 DEF IInv, WalkStart
<1>2. /\ q' \in Queue(Addr) /\ \A G : FreeList(q, G) => FreeList(q', G)
      /\ q'.next = q.next /\ q'.flags = q.flags /\ q'.num_free = q.num_free
  <2>1. q \in Queue(Addr) /\ 0 \in Desc
    BY <1>0, QueueAssumption DEF TypeOK, Desc
  <2>2. q' \in Queue(Addr) /\ \A G : FreeList(q, G) => FreeList(q', G)
    BY <1>0, <1>1, <2>1, RingsFree DEF Ownership
  <2> QED  BY <1>0, <2>1, <2>2 DEF Pop, Queue
<1>3. CASE UNCHANGED <<pending, cur, pc>>
  <2>1. TypeOK' /\ Control'
    BY <1>0, <1>2, <1>3 DEF PopOne, TypeOK, Control
  <2> QED  BY <1>0, <1>2, <1>3, <2>1, FrameStep
<1>4. ASSUME NEW s \in Slots, IsFirst(s, SlotsOf(PopId(q))),
             pending' = [pending EXCEPT ![s] = None],
             cur' = [user |-> pending[s].user, pos |-> s, curr |-> pending[s].head],
             pc' = "free"
      PROVE  IInv'
  <2> DEFINE r == [pos |-> s, user |-> pending[s].user, head |-> pending[s].head]
  <2>1. pending[s] # None /\ pending[s] \in Pending
    BY <1>0, <1>4 DEF IsFirst, SlotsOf, TypeOK
  <2>2. slot = None /\ slot' = None
    BY <1>0 DEF Control
  <2>3. r \in InFlight /\ InFlight' = InFlight \ {r}
    BY <1>0, <1>4, <2>1, <2>2, InFlightPop
  <2>4. cur' \in Walk /\ cur' # None /\ cur'.curr = r.head
    BY <1>4, <2>1, BlkAssumption DEF Pending, Walk
  <2>5. TypeOK'
    BY <1>0, <1>2, <1>4, <2>4 DEF PopOne, TypeOK
  <2>6. Control'
    BY <1>0, <1>4, <2>2, <2>4 DEF Control
  <2>7. /\ Ownership(q, InFlight \ {r}, {r.head}, F)
        /\ NEXT \in q.flags[r.head] /\ NEXT \in q.flags[Second(q, r.head)]
    BY <1>0, <1>1, <2>3, OwnershipPop DEF TypeOK
  <2>8. Ownership(q', InFlight', WalkStart', F)
    <3>1. WalkStart' = {r.head}
      BY <1>4, <2>4 DEF WalkStart
    <3>2. FreeList(q', F)
      BY <1>1, <1>2 DEF Ownership
    <3> QED  BY <1>0, <1>2, <2>3, <2>7, <3>1, <3>2, OwnershipFrame DEF TypeOK
  <2>9. IsFiniteSet(InFlight') /\ Cardinality(InFlight') = Cardinality(InFlight) - 1
    BY <2>3, FS_RemoveElement DEF IInv
  <2>10. LeakBound'
    <3>1. ChainLeft' = 3
      BY <1>2, <1>4, <2>4, <2>7 DEF ChainLeft, Second
    <3>2. ChainLeft = 0
      BY <1>0 DEF ChainLeft
    <3>3. Cardinality(InFlight) \in Nat /\ q.num_free \in Nat /\ Num \in Nat
      BY <1>0, FS_CardinalityType, QueueAssumption DEF IInv, TypeOK, Queue
    <3>4. Lost' = Lost
      BY <1>2, <2>9, <3>1, <3>2, <3>3 DEF Lost
    <3> QED  BY <3>4 DEF IInv, LeakBound
  <2> QED  BY <2>5, <2>6, <2>8, <2>9, <2>10 DEF IInv
<1> QED  BY <1>3, <1>4 DEF PopOne

(* One turn of the loop that frees the chain of a completed request.       *)
LEMMA StepFreeOne ==
  ASSUME IInv, FreeOne
  PROVE  IInv'
<1> USE DEF dmaVars, ringVars, kernelVars, deviceVars, clientVars
<1> DEFINE c == cur.curr
<1>0. TypeOK /\ Control /\ pc = "free" /\ q' = FreeDesc(q, c)
  BY DEF IInv, FreeOne
<1>1. cur \in Walk /\ cur # None /\ c \in Desc
  BY <1>0 DEF TypeOK, Control, Walk
<1>2. PICK F : Ownership(q, InFlight, {c}, F)
  BY <1>0 DEF IInv, WalkStart
<1>3. \A r \in InFlight : r.head \in Desc
  BY <1>0, InFlightType DEF InSlot
<1> DEFINE W == After(q, c)
<1>4. /\ q' \in Queue(Addr)
      /\ Ownership(q', InFlight, W, F \cup {c})
      /\ \A d \in Desc : d # c => q'.flags[d] = q.flags[d] /\ q'.next[d] = q.next[d]
  <2>1. q \in Queue(Addr)
    BY <1>0 DEF TypeOK
  <2> HIDE DEF c
  <2>2. /\ FreeDesc(q, c) \in Queue(Addr)
        /\ Ownership(FreeDesc(q, c), InFlight, W, F \cup {c})
        /\ \A d \in Desc : d # c => /\ FreeDesc(q, c).flags[d] = q.flags[d]
                                    /\ FreeDesc(q, c).next[d] = q.next[d]
    BY <1>1, <1>2, <1>3, <2>1, OwnershipFree, ZenonT(60)
  <2>3. q' = FreeDesc(q, c)
    BY <1>0
  <2> QED  BY <2>2, <2>3, Zenon
<1>5. InFlight' = InFlight
  BY DEF FreeOne, InFlight
<1>a. UNCHANGED <<pending, irqack, ring, acked, batch, slot, hdr, status, sq, cq, pend, masked,
                  kick, seen, held, raise, isr, exec, ask, owed>>
  BY DEF FreeOne
<1>6. q.next[c] \in Desc /\ q.num_free \in Nat /\ q'.num_free = q.num_free + 1
  BY <1>0, <1>1, QueueAssumption DEF TypeOK, Queue, FreeDesc
<1>7. Cardinality(InFlight) \in Nat /\ Num \in Nat
  BY FS_CardinalityType, QueueAssumption DEF IInv
<1>8. CASE NEXT \in q.flags[c]
  <2>1. cur' = [cur EXCEPT !.curr = q.next[c]] /\ pc' = "free"
    BY <1>0, <1>8 DEF FreeOne
  <2>2. cur' \in Walk /\ cur' # None /\ cur'.curr = q.next[c]
    BY <1>1, <1>6, <2>1, BlkAssumption DEF Walk
  <2>3. TypeOK' /\ Control'
    BY <1>0, <1>4, <1>a, <2>1, <2>2 DEF TypeOK, Control
  <2>4. WalkStart' = W
    BY <1>8, <2>1, <2>2 DEF WalkStart, After
  <2>5. ChainLeft = ChainLeft' + 1 /\ ChainLeft' \in Nat
    <3>1. IsTail(q, c)
      BY <1>2 DEF Ownership
    <3>2. q.next[c] # c
      BY <1>8, <3>1 DEF IsTail, Second
    <3>3. q'.flags[q.next[c]] = q.flags[q.next[c]] /\ q'.next[q.next[c]] = q.next[q.next[c]]
      BY <1>4, <1>6, <3>2
    <3>4. CASE NEXT \notin q.flags[q.next[c]]
      BY <1>0, <1>8, <2>1, <2>2, <3>3, <3>4 DEF ChainLeft
    <3>5. CASE NEXT \in q.flags[q.next[c]]
      <4>1. IsChain(q, c)
        BY <1>8, <3>1, <3>5 DEF IsTail, Second
      <4>2. q.next[q.next[c]] \in Desc /\ q.next[q.next[c]] # c
        BY <1>0, <1>6, <4>1 DEF IsChain, Third, TypeOK, Queue
      <4>3. NEXT \notin q'.flags[q'.next[q.next[c]]]
        BY <1>4, <3>3, <4>1, <4>2 DEF IsChain, Third
      <4> QED  BY <1>0, <1>8, <2>1, <2>2, <3>3, <3>5, <4>3 DEF ChainLeft
    <3> QED  BY <3>4, <3>5
  <2>6. Lost' = Lost
    BY <1>5, <1>6, <1>7, <2>5 DEF Lost
  <2> QED  BY <1>4, <1>5, <2>3, <2>4, <2>6 DEF IInv, LeakBound
<1>9. CASE NEXT \notin q.flags[c]
  <2>1. cur' = cur /\ pc' = "complete"
    BY <1>9 DEF FreeOne
  <2>2. TypeOK' /\ Control'
    BY <1>0, <1>1, <1>4, <1>a, <2>1 DEF TypeOK, Control
  <2>3. WalkStart' = W
    BY <1>9, <2>1 DEF WalkStart, After
  <2>4. ChainLeft = 1 /\ ChainLeft' = 0
    BY <1>0, <1>9, <2>1 DEF ChainLeft
  <2>5. Lost' = Lost
    BY <1>5, <1>6, <1>7, <2>4 DEF Lost
  <2> QED  BY <1>4, <1>5, <2>2, <2>3, <2>5 DEF IInv, LeakBound
<1> QED  BY <1>8, <1>9

(* submit_virtio_request gives up in the middle of its allocations.        *)
LEMMA StepRefuseNoDesc ==
  ASSUME IInv, RefuseNoDesc
  PROVE  IInv'
<1> USE DEF kernelVars, deviceVars, clientVars
<1>0. TypeOK /\ Control /\ pc = "submit" /\ q' = AllocRest /\ q.num_free < 3
      /\ pc' = pc /\ UNCHANGED <<pending, slot, cur>>
  BY DEF IInv, RefuseNoDesc, Refuse
<1>1. PICK F : Ownership(q, InFlight, {}, F)
  BY <1>0 DEF IInv, WalkStart
<1>2. PICK G : /\ q' \in Queue(Addr) /\ q'.num_free = 0
               /\ Ownership(q', InFlight, {}, G)
  BY <1>0, <1>1, OwnershipGiveUp DEF TypeOK
<1>3. hdr' \in [Slots -> Good] /\ status' \in [Slots -> Outcome \cup {"FF"}]
  BY <1>0, RefuseType, HeaderType DEF RefuseNoDesc
<1>4. TypeOK' /\ Control'
  BY <1>0, <1>2, <1>3, RefuseType DEF RefuseNoDesc, Refuse, TypeOK, Control
<1>5. InFlight' = InFlight /\ WalkStart' = {} /\ ChainLeft = 0 /\ ChainLeft' = 0
  BY <1>0 DEF InFlight, WalkStart, ChainLeft
<1>6. LeakBound'
  <2>1. Cardinality(InFlight) \in Nat /\ Num \in Nat
    BY FS_CardinalityType, QueueAssumption DEF IInv
  <2>2. q.num_free \in 0 .. 2
    BY <1>0, QueueAssumption DEF TypeOK, Queue
  <2>3. (Num - q.num_free) - 3 * Cardinality(InFlight) \in {0, Num % 3}
    BY <1>5, <2>1, <2>2 DEF IInv, LeakBound, Lost
  <2>4. Num - 3 * Cardinality(InFlight) \in {0, Num % 3}
    BY <2>1, <2>2, <2>3, GiveUpCount
  <2>5. Lost' = Num - 3 * Cardinality(InFlight)
    BY <1>2, <1>5, <2>1 DEF Lost
  <2> QED  BY <2>4, <2>5 DEF LeakBound
<1> QED  BY <1>2, <1>4, <1>5, <1>6 DEF IInv

(* submit_virtio_request makes a request available to the device.          *)
LEMMA StepPublish ==
  ASSUME IInv, Publish
  PROVE  IInv'
<1> USE DEF ringVars, kernelVars, deviceVars, clientVars
<1> DEFINE sqe == Head(batch)
<1>0. /\ TypeOK /\ Control /\ pc = "submit" /\ pc' = "record" /\ q.num_free >= 3
      /\ UNCHANGED <<pending, cur>> /\ batch # << >>
  BY DEF IInv, Publish
<1>1. PICK s \in Slots :
        /\ IsFirst(s, FreeSlots)
        /\ WriteHeader(s, sqe)
        /\ slot' = [pos |-> s, user |-> sqe.user, head |-> q.free_head]
        /\ q' = Submit(WriteChain(sqe, s), q.free_head)
  BY DEF Publish
<1>2. sqe \in Sqe /\ sqe.user \in Users /\ batch' \in Seq(Sqe)
  <2>1. sqe \in Sqe /\ Tail(batch) \in Seq(Sqe)
    BY <1>0 DEF TypeOK
  <2>2. sqe.user \in Users
    BY <2>1 DEF Sqe
  <2> QED  BY <2>1, <2>2 DEF Publish
<1>3. slot = None /\ pending[s] = None
  BY <1>0, <1>1 DEF Control, IsFirst, FreeSlots
<1>4. slot' \in InSlot /\ slot' # None /\ slot'.pos = s /\ slot'.head = q.free_head
  BY <1>0, <1>1, <1>2, BlkAssumption DEF TypeOK, Queue, InSlot
<1>5. InFlight' = InFlight \cup {slot'}
  BY <1>0, <1>3, <1>4, InFlightPublish
<1>6. PICK F : Ownership(q, InFlight, {}, F)
  BY <1>0 DEF IInv, WalkStart
<1>7. /\ q' \in Queue(Addr) /\ q'.num_free = q.num_free - 3
      /\ slot' \notin InFlight
      /\ \E G : Ownership(q', InFlight \cup {slot'}, {}, G)
  <2>1. \A t \in InFlight : t.head \in Desc
    BY <1>0, InFlightType DEF InSlot
  <2>2. q \in Queue(Addr)
    BY <1>0 DEF TypeOK
  <2> HIDE DEF sqe
  <2> DEFINE n == Submit(WriteChain(sqe, s), q.free_head)
  <2>3. /\ n \in Queue(Addr) /\ n.num_free = q.num_free - 3
        /\ slot' \notin InFlight
        /\ \E G : Ownership(n, InFlight \cup {slot'}, {}, G)
    BY <1>0, <1>2, <1>4, <1>6, <2>1, <2>2, OwnershipPublish
  <2>4. q' = n
    BY <1>1
  <2> QED  BY <2>3, <2>4
<1>8. hdr' \in [Slots -> Good] /\ status' \in [Slots -> Outcome \cup {"FF"}]
  BY <1>0, <1>1, <1>2, HeaderType
<1>9. TypeOK' /\ Control'
  BY <1>0, <1>2, <1>3, <1>4, <1>7, <1>8 DEF Publish, TypeOK, Control
<1>10. WalkStart' = {} /\ ChainLeft = 0 /\ ChainLeft' = 0
  BY <1>0 DEF WalkStart, ChainLeft
<1>11. IsFiniteSet(InFlight') /\ Cardinality(InFlight') = Cardinality(InFlight) + 1
  BY <1>5, <1>7, FS_AddElement DEF IInv
<1>12. LeakBound'
  <2>1. Cardinality(InFlight) \in Nat /\ q.num_free \in Nat /\ Num \in Nat
    BY <1>0, FS_CardinalityType, QueueAssumption DEF IInv, TypeOK, Queue
  <2>2. Lost' = Lost
    BY <1>7, <1>10, <1>11, <2>1 DEF Lost
  <2> QED  BY <2>2 DEF IInv, LeakBound
<1> QED  BY <1>5, <1>7, <1>9, <1>10, <1>11, <1>12 DEF IInv

(* submit_virtio_request records the request it has made available.        *)
LEMMA StepRecord ==
  ASSUME IInv, Record
  PROVE  IInv'
<1> USE DEF dmaVars, ringVars, kernelVars, clientVars
<1>0. TypeOK /\ Control /\ pc = "record" /\ pc' = "submit" /\ UNCHANGED <<q, cur>>
  BY DEF IInv, Record
<1>1. slot \in InSlot /\ slot # None /\ slot' = None /\ pending[slot.pos] = None
  BY <1>0 DEF Control, TypeOK, Record
<1> DEFINE e == [user |-> slot.user, head |-> slot.head]
<1>2. slot.pos \in Slots /\ e \in Pending /\ e # None
  <2>1. None \notin Pending
    BY BlkAssumption
  <2>2. e \in Pending /\ slot.pos \in Slots
    BY <1>1 DEF InSlot, Pending
  <2> QED  BY <2>1, <2>2
<1>3. pending' = [pending EXCEPT ![slot.pos] = e] /\ pending' \in [Slots -> Pending \cup {None}]
  <2>1. pending' = [pending EXCEPT ![slot.pos] = e]
    BY DEF Record
  <2>2. pending \in [Slots -> Pending \cup {None}]
    BY <1>0 DEF TypeOK
  <2> HIDE DEF e
  <2> QED  BY <1>2, <2>1, <2>2
<1>4. TypeOK' /\ Control'
  BY <1>0, <1>1, <1>3 DEF Record, TypeOK, Control
<1>5. InFlight' = InFlight
  BY <1>0, InFlightRecord
<1>6. WalkStart' = WalkStart /\ ChainLeft' = ChainLeft
  BY <1>0 DEF WalkStart, ChainLeft
<1>7. LeakBound'
  BY <1>0, <1>5, <1>6 DEF IInv, LeakBound, Lost
<1> QED  BY <1>0, <1>4, <1>5, <1>6, <1>7 DEF IInv

-----------------------------------------------------------------------------
(* Every step preserves the invariant.                                     *)

\* Every step keeps the invariant.
LEMMA NextIInv == IInv /\ [Next]_vars => IInv'
<1> SUFFICES ASSUME IInv, [Next]_vars PROVE IInv'
  OBVIOUS
<1>1. CASE Driver
  BY <1>1, DriverQuiet, StepRefuse, StepRefuseNoDesc, StepPublish, StepRecord,
     StepPopOne, StepFreeOne DEF Driver
<1>2. CASE Device
  BY <1>2, OthersQuiet, StepDevDone DEF Device
<1>3. CASE KernelIrq
  BY <1>3, OthersQuiet
<1>4. CASE Client
  BY <1>4, OthersQuiet DEF Client
<1>5. CASE UNCHANGED vars
  <2>1. TypeOK' /\ Control'
    BY <1>5 DEF IInv, TypeOK, Control, vars, driverVars, dmaVars, ringVars, kernelVars,
                deviceVars, clientVars
  <2> QED  BY <1>5, <2>1, QuietStep DEF vars, driverVars
<1> QED  BY <1>1, <1>2, <1>3, <1>4, <1>5 DEF Next

\* The invariant holds of every behaviour.
THEOREM Invariance == Spec => []IInv
<1>1. Init => IInv
  BY InitIInv
<1>2. IInv /\ [Next]_vars => IInv'
  BY NextIInv
<1> QED  BY <1>1, <1>2, PTL DEF Spec

(* Every variable stays in its type: no descriptor index, free count, slot *)
(* or ring index ever leaves its range (queue.rs, blk.rs).                 *)
THEOREM TypeCorrect == Spec => []TypeOK
BY Invariance, PTL DEF IInv

(* What submit_virtio_request loses when it gives up in the middle of its  *)
(* allocations is 0 or Num % 3 descriptors, for ever.                      *)
THEOREM LeakBounded == Spec => []LeakBound
BY Invariance, PTL DEF IInv

-----------------------------------------------------------------------------
(* No wake-up is lost between the client, the kernel, the driver and the   *)
(* device.  Each of the three invariants says where a wake-up is while the *)
(* party it is meant for has not acted on it yet.                          *)

\* Steps by which the driver leaves the indices of the virtqueue alone.
LEMMA SameIndices ==
  ASSUME q \in Queue(Addr), NEW id \in Desc
  PROVE  /\ FreeDesc(q, id).avail_idx = q.avail_idx
         /\ FreeDesc(q, id).used_idx = q.used_idx
         /\ FreeDesc(q, id).last_used_idx = q.last_used_idx
         /\ AllocRest.avail_idx = q.avail_idx
         /\ AllocRest.used_idx = q.used_idx
         /\ AllocRest.last_used_idx = q.last_used_idx
         /\ Pop(q).avail_idx = q.avail_idx
         /\ DevUse(q, id).avail_idx = q.avail_idx
<1>1. /\ AllocDesc(q).avail_idx = q.avail_idx /\ AllocDesc(q).used_idx = q.used_idx
      /\ AllocDesc(q).last_used_idx = q.last_used_idx
  BY DEF AllocDesc, Queue
<1>2. /\ AllocDesc(AllocDesc(q)).avail_idx = q.avail_idx
      /\ AllocDesc(AllocDesc(q)).used_idx = q.used_idx
      /\ AllocDesc(AllocDesc(q)).last_used_idx = q.last_used_idx
  BY DEF AllocDesc, Queue
<1>3. /\ AllocRest.avail_idx = q.avail_idx /\ AllocRest.used_idx = q.used_idx
      /\ AllocRest.last_used_idx = q.last_used_idx
  BY <1>1, <1>2 DEF AllocRest
<1> QED  BY <1>3 DEF FreeDesc, Pop, DevUse, Queue

\* Making a request available leaves the used ring alone.
LEMMA PublishUsed ==
  ASSUME q \in Queue(Addr), NEW sqe, NEW s
  PROVE  /\ Submit(WriteChain(sqe, s), q.free_head).used_idx = q.used_idx
         /\ Submit(WriteChain(sqe, s), q.free_head).last_used_idx = q.last_used_idx
<1> DEFINE Ring(p) == /\ {"used_idx", "last_used_idx"} \subseteq DOMAIN p
                      /\ p.used_idx = q.used_idx /\ p.last_used_idx = q.last_used_idx
<1>1. Ring(q)
  BY DEF Queue
<1>2. ASSUME NEW p, Ring(p) PROVE Ring(AllocDesc(p))
  BY <1>2 DEF AllocDesc
<1>3. ASSUME NEW p, Ring(p), NEW id, NEW a, NEW f, NEW n PROVE Ring(WriteDesc(p, id, a, f, n))
  BY <1>3 DEF WriteDesc
<1>4. ASSUME NEW p, Ring(p), NEW id PROVE Ring(Submit(p, id))
  BY <1>4 DEF Submit
<1>5. Ring(WriteChain(sqe, s))
  <2> HIDE DEF Ring
  <2> QED  BY <1>1, <1>2, <1>3 DEF WriteChain
<1> QED  BY <1>4, <1>5

\* Where the walk that frees a chain is, is a descriptor.
LEMMA FreeOneType ==
  ASSUME IInv, FreeOne
  PROVE  cur.curr \in Desc
BY DEF FreeOne, IInv, TypeOK, Control, Walk

-----------------------------------------------------------------------------
(* The device is woken for every chain made available.                     *)

\* Every step keeps a chain the device has not seen kicked, or about to be.
LEMMA KickStep ==
  ASSUME IInv, NoLostKick, [Next]_vars
  PROVE  NoLostKick'
<1> USE DEF NoLostKick, DevCanTake
<1>0. q \in Queue(Addr)
  BY DEF IInv, TypeOK
<1>1. CASE Publish
  BY <1>1 DEF Publish
<1>2. CASE Record
  BY <1>2 DEF Record
<1>3. CASE DevTake
  BY <1>3 DEF DevTake
<1>4. CASE DevSleep
  BY <1>4 DEF DevSleep
<1>5. CASE FreeOne
  <2>1. q'.avail_idx = q.avail_idx
    BY <1>0, <1>5, SameIndices, FreeOneType DEF FreeOne
  <2> QED  BY <1>5, <2>1 DEF FreeOne, deviceVars
<1>6. CASE PopOne
  <2>1. 0 \in Desc
    BY QueueAssumption DEF Desc
  <2>2. q'.avail_idx = q.avail_idx
    BY <1>0, <1>6, <2>1, SameIndices DEF PopOne
  <2> QED  BY <1>6, <2>2 DEF PopOne, deviceVars
<1>7. CASE RefuseNoDesc
  <2>1. 0 \in Desc
    BY QueueAssumption DEF Desc
  <2>2. q'.avail_idx = q.avail_idx
    BY <1>0, <1>7, <2>1, SameIndices DEF RefuseNoDesc
  <2> QED  BY <1>7, <2>2 DEF RefuseNoDesc, Refuse, deviceVars
<1>8. CASE \E h \in held, st \in Outcome : DevDone(h, st)
  <2>1. PICK h \in held, st \in Outcome : DevDone(h, st)
    BY <1>8
  <2>2. h \in Desc
    BY DEF IInv, TypeOK
  <2>3. q'.avail_idx = q.avail_idx
    BY <1>0, <2>1, <2>2, SameIndices DEF DevDone
  <2> QED  BY <2>1, <2>3 DEF DevDone, driverVars
<1>9. ASSUME UNCHANGED <<q, kick, seen>>, pc # "record"
      PROVE  NoLostKick'
  BY <1>9
<1>10. CASE RefuseEarly \/ RefuseBadAddr
  BY <1>10, <1>9 DEF RefuseEarly, RefuseBadAddr, Refuse, deviceVars
<1>11. CASE Recv \/ RecvBare \/ IrqRead \/ IrqAck \/ Unmask \/ PopNone
  BY <1>11, <1>9 DEF Recv, RecvBare, IrqRead, IrqAck, Unmask, PopNone, deviceVars
<1>12. CASE Complete \/ Fetch \/ FetchDone \/ SubmitDone
  BY <1>12, <1>9 DEF Complete, Fetch, FetchDone, SubmitDone, deviceVars
<1>13. CASE DevRaise \/ DevConfig \/ KernelIrq \/ Client \/ UNCHANGED vars
  BY <1>13 DEF DevRaise, DevConfig, KernelIrq, Client, ClientNotify, ClientPoke,
               ClientReap, ClientSubmit, vars, driverVars, deviceVars
<1> QED  BY <1>1, <1>2, <1>3, <1>4, <1>5, <1>6, <1>7, <1>8, <1>10, <1>11, <1>12, <1>13
         DEF Next, Driver, Device

(* A chain that the device has not seen is one it was notified of, or the  *)
(* driver is about to notify it (submit, notify_queue).                    *)
THEOREM KickTheorem == Spec => []NoLostKick
<1>1. Init => NoLostKick
  BY DEF Init, NoLostKick, DevCanTake, NewQueue
<1>2. IInv /\ NoLostKick /\ [Next]_vars => NoLostKick'
  BY KickStep
<1> QED  BY <1>1, <1>2, Invariance, PTL DEF Spec

-----------------------------------------------------------------------------
(* A completion is announced by the interrupt, wherever the interrupt is   *)
(* between the device, the kernel and the driver.                          *)

Announced ==
  /\ CanPop(q) /\ pc \notin {"pop", "free", "complete"} => raise \/ "used" \in isr
  /\ masked => irqack \/ "IRQ" \in pend
  /\ irqack => pc \in {"irq", "ack", "unmask", "pop", "free", "complete"}

\* Every step keeps a completion not popped announced by an interrupt to come.
LEMMA AnnouncedStep ==
  ASSUME IInv, Announced, [Next]_vars
  PROVE  Announced'
<1> USE DEF Announced, CanPop
<1>0. q \in Queue(Addr) /\ 0 \in Desc
  BY QueueAssumption DEF IInv, TypeOK, Desc
<1>1. irqack \in BOOLEAN /\ ring \in BOOLEAN /\ masked \in BOOLEAN
  BY DEF IInv, TypeOK
<1>2. CASE Recv
  <2>1. irqack' <=> "IRQ" \in pend
    BY <1>2 DEF Recv
  <2>2. /\ pc = "idle" /\ masked' = masked /\ isr' = isr /\ raise' = raise /\ q' = q
        /\ pc' = IF "IRQ" \in pend THEN "irq" ELSE "fetch"
    BY <1>2 DEF Recv, deviceVars
  <2> QED  BY <2>1, <2>2
<1>3. CASE RecvBare \/ IrqRead \/ IrqAck
  BY <1>3 DEF RecvBare, IrqRead, IrqAck, AfterIrq, deviceVars, kernelVars
<1>4. CASE Unmask \/ PopNone
  BY <1>4 DEF Unmask, PopNone, AfterIrq, deviceVars, kernelVars
<1>5. CASE Complete \/ Fetch \/ FetchDone \/ SubmitDone
  BY <1>5 DEF Complete, Fetch, FetchDone, SubmitDone, deviceVars, kernelVars
<1>6. CASE PopOne
  BY <1>6 DEF PopOne, deviceVars, kernelVars
<1>7. CASE FreeOne
  BY <1>7 DEF FreeOne, deviceVars, kernelVars
<1>8. CASE RefuseEarly \/ RefuseBadAddr
  BY <1>8 DEF RefuseEarly, RefuseBadAddr, Refuse, deviceVars, kernelVars
<1>9. CASE RefuseNoDesc
  <2>1. q'.used_idx = q.used_idx /\ q'.last_used_idx = q.last_used_idx
    BY <1>0, <1>9, SameIndices DEF RefuseNoDesc
  <2> QED  BY <1>9, <2>1 DEF RefuseNoDesc, Refuse, deviceVars, kernelVars
<1>10. CASE Publish
  <2>1. q'.used_idx = q.used_idx /\ q'.last_used_idx = q.last_used_idx
    BY <1>0, <1>10, PublishUsed DEF Publish
  <2> QED  BY <1>10, <2>1 DEF Publish, deviceVars, kernelVars
<1>11. CASE Record
  BY <1>11 DEF Record, kernelVars
<1>12. CASE \E h \in held, st \in Outcome : DevDone(h, st)
  BY <1>12 DEF DevDone, driverVars, kernelVars
<1>13. CASE DevTake \/ DevSleep \/ DevRaise \/ DevConfig
  BY <1>13 DEF DevTake, DevSleep, DevRaise, DevConfig, driverVars, kernelVars
<1>14. CASE KernelIrq
  <2>1. /\ "IRQ" \in pend' /\ UNCHANGED <<q, pc, irqack, raise, isr>>
    BY <1>14 DEF KernelIrq, driverVars, deviceVars
  <2> QED  BY <2>1
<1>15. CASE UNCHANGED vars
  BY <1>15 DEF vars, driverVars, kernelVars, deviceVars
<1>16. CASE Client
  <2>1. UNCHANGED <<q, pc, irqack, raise, isr, masked>> /\ pend \subseteq pend'
    BY <1>16 DEF Client, ClientNotify, ClientPoke, ClientReap, ClientSubmit, driverVars,
                 kernelVars, deviceVars
  <2> QED  BY <2>1
<1> QED  BY <1>2, <1>5, <1>6, <1>7, <1>8, <1>9, <1>10, <1>11, <1>12, <1>13, <1>15,
            <1>3, <1>4, <1>14, <1>16 DEF Next, Driver, Device

(* While the driver waits, a completion it has not seen is announced by an *)
(* interrupt that will reach it (interrupt_ack, irq.ack).                  *)
THEOREM CompletionTheorem == Spec => []NoLostCompletion
<1>1. Init => Announced
  BY DEF Init, Announced, CanPop, NewQueue
<1>2. IInv /\ Announced /\ [Next]_vars => Announced'
  BY AnnouncedStep
<1>3. Announced => NoLostCompletion
  BY DEF Announced, NoLostCompletion
<1> QED  BY <1>1, <1>2, <1>3, Invariance, PTL DEF Spec

-----------------------------------------------------------------------------
(* Every entry in the submission ring is one that handle_ring will take or *)
(* that a notification announces, if the ring is not longer than a batch.  *)

Signal == owed \/ pend \cap {"SQ", "CQ"} # {}

Drained ==
  /\ Len(sq) <= SqEntries
  /\ batch # << >> => pc \in {"fetch", "submit", "record"}
  /\ sq # << >> => Signal \/ ring \/ pc = "fetch"
  /\ pc = "fetch" /\ ~Signal => Len(batch) + Len(sq) <= SqEntries
  /\ ring => pc \in {"irq", "ack", "unmask", "pop", "free", "complete"} /\ irqack

\* When the ring fits in a batch, every step keeps what is queued signalled or being fetched.
LEMMA DrainedStep ==
  ASSUME IInv, Drained, SqEntries <= Batch, [Next]_vars
  PROVE  Drained'
<1> USE DEF Drained, Signal
<1>0. /\ batch \in Seq(Sqe) /\ sq \in Seq(Sqe) /\ Len(batch) \in Nat /\ Len(sq) \in Nat
      /\ pend \subseteq {"IRQ", "SQ", "CQ"} /\ Batch \in Nat /\ SqEntries \in Nat \ {0}
  BY BlkAssumption DEF IInv, TypeOK
<1>1. CASE Recv
  <2>1. batch = << >> /\ Len(batch) = 0
    BY <1>1 DEF Recv
  <2>2. /\ ring' => "IRQ" \in pend
        /\ sq # << >> => owed \/ pend \cap {"SQ", "CQ"} # {}
    BY <1>1 DEF Recv
  <2>3. ring' <=> "IRQ" \in pend /\ pend \cap {"SQ", "CQ"} # {}
    BY <1>1 DEF Recv
  <2>4. irqack' <=> "IRQ" \in pend
    BY <1>1 DEF Recv
  <2>5. /\ pc' = IF "IRQ" \in pend THEN "irq" ELSE "fetch"
        /\ UNCHANGED <<batch, sq, owed>>
    BY <1>1 DEF Recv, ringVars, clientVars
  <2> QED  BY <1>0, <2>1, <2>2, <2>3, <2>4, <2>5
<1>2. CASE RecvBare \/ IrqRead \/ IrqAck \/ PopNone
  BY <1>0, <1>2 DEF RecvBare, IrqRead, IrqAck, PopNone, AfterIrq, ringVars, kernelVars,
                    clientVars
<1>3. CASE Unmask
  <2>1. batch = << >> /\ Len(batch) = 0
    BY <1>3 DEF Unmask
  <2> QED  BY <1>0, <1>3, <2>1 DEF Unmask, ringVars, clientVars
<1>4. CASE PopOne \/ FreeOne
  BY <1>0, <1>4 DEF PopOne, FreeOne, ringVars, kernelVars, clientVars
<1>5. CASE Complete
  BY <1>0, <1>5 DEF Complete, kernelVars, clientVars
<1>6. CASE Fetch
  <2>1. /\ batch' = Append(batch, Head(sq)) /\ sq' = Tail(sq) /\ sq # << >>
        /\ UNCHANGED <<pc, irqack, ring, pend, owed>> /\ pc = "fetch"
    BY <1>6 DEF Fetch, kernelVars, clientVars
  <2>2. Len(batch') = Len(batch) + 1 /\ Len(sq') = Len(sq) - 1
    BY <1>0, <2>1
  <2> QED  BY <1>0, <2>1, <2>2
<1>7. CASE FetchDone
  <2>1. sq # << >> => Len(sq) > 0
    BY <1>0
  <2>2. sq # << >> => Signal
    BY <1>0, <1>7, <2>1 DEF FetchDone
  <2> QED  BY <1>0, <1>7, <2>2 DEF FetchDone, ringVars, kernelVars, clientVars
<1>8. CASE RefuseEarly \/ RefuseBadAddr \/ RefuseNoDesc
  BY <1>0, <1>8 DEF RefuseEarly, RefuseBadAddr, RefuseNoDesc, Refuse, kernelVars,
                    clientVars
<1>9. CASE Publish \/ Record \/ SubmitDone
  BY <1>0, <1>9 DEF Publish, Record, SubmitDone, ringVars, kernelVars, clientVars
<1>10. CASE DevTake \/ DevSleep \/ DevRaise \/ DevConfig
            \/ \E h \in held, st \in Outcome : DevDone(h, st)
  BY <1>10 DEF DevTake, DevSleep, DevRaise, DevConfig, DevDone, driverVars, ringVars,
               kernelVars, clientVars
<1>11. CASE KernelIrq
  BY <1>11 DEF KernelIrq, driverVars, ringVars, clientVars
<1>12. CASE ClientNotify \/ ClientPoke \/ ClientReap
  BY <1>12 DEF ClientNotify, ClientPoke, ClientReap, driverVars, ringVars, kernelVars,
               clientVars
<1>13. CASE \E u \in Users, k \in Kinds : ClientSubmit(u, k)
  <2>1. PICK u \in Users, k \in Kinds : ClientSubmit(u, k)
    BY <1>13
  <2>2. Len(sq') = Len(sq) + 1
    BY <1>0, <2>1 DEF ClientSubmit
  <2> QED  BY <1>0, <2>1, <2>2 DEF ClientSubmit, driverVars, kernelVars
<1>14. CASE UNCHANGED vars
  BY <1>14 DEF vars, driverVars, ringVars, kernelVars, clientVars
<1> QED  BY <1>1, <1>2, <1>3, <1>4, <1>5, <1>6, <1>7, <1>8, <1>9, <1>10, <1>11, <1>12,
            <1>13, <1>14 DEF Next, Driver, Device, Client

(* While the driver waits, an entry in the submission ring is announced,   *)
(* if the ring holds no more than the entries handle_ring takes per call.  *)
THEOREM SubmissionTheorem ==
  ASSUME SqEntries <= Batch
  PROVE  Spec => []NoLostSubmission
<1>1. Init => Drained
  BY BlkAssumption DEF Init, Drained
<1>2. IInv /\ Drained /\ [Next]_vars => Drained'
  BY DrainedStep
<1>3. Drained => NoLostSubmission
  BY DEF Drained, NoLostSubmission, Signal
<1> QED  BY <1>1, <1>2, <1>3, Invariance, PTL DEF Spec

-----------------------------------------------------------------------------
(***************************************************************************)
(* What happens to the requests of the block driver's client, for every    *)
(* instance: each is in exactly one place, the memory the device reads and *)
(* writes for it is what the driver prepared, and the driver with its      *)
(* device implements the contract with the client.                         *)
(***************************************************************************)

(* Where a request is.  Every place it can be in is counted, so that the   *)
(* invariant OneHome is inductive once the type of the places is known.    *)
OfUser(I, u) == {r \in I : r.user = u}
Flying(u)  == OfUser(InFlight, u)
Walking(u) == IF cur # None /\ cur.user = u THEN 1 ELSE 0
Homes(u)   == Occurs(sq, u) + Occurs(batch, u) + Occurs(cq, u)
                + Cardinality(Flying(u)) + Walking(u)
IsOpen(u)    == IF ask[u] = None THEN 0 ELSE 1

\* OneHome in these words.
LEMMA HomesIs == OneHome <=> \A u \in Users : Homes(u) = IsOpen(u)
BY DEF OneHome, Homes, IsOpen, Flying, OfUser, Walking, Named, Occurs, At

\* The counts are numbers.
LEMMA HomesType ==
  ASSUME IInv, NEW u \in Users
  PROVE  /\ Occurs(sq, u) \in Nat /\ Occurs(batch, u) \in Nat /\ Occurs(cq, u) \in Nat
         /\ IsFiniteSet(Flying(u)) /\ Cardinality(Flying(u)) \in Nat
         /\ Walking(u) \in 0 .. 1
<1>1. /\ sq \in Seq(Sqe) /\ batch \in Seq(Sqe)
      /\ cq \in Seq([user : Users, res : {0, -1}])
  BY DEF IInv, TypeOK
<1>2. Occurs(sq, u) \in Nat /\ Occurs(batch, u) \in Nat
  BY <1>1, OccursType
<1>3. Occurs(cq, u) \in Nat
  BY <1>1, OccursType
<1>4. IsFiniteSet(Flying(u)) /\ Cardinality(Flying(u)) \in Nat
  BY FS_Subset, FS_CardinalityType DEF IInv, Flying, OfUser
<1> QED  BY <1>2, <1>3, <1>4 DEF Walking

\* What answering a request, queueing one and taking one do to the counts.
LEMMA HomesAnswer ==
  ASSUME IInv, NEW u \in Users, NEW v \in Users, NEW n \in {0, -1},
         cq' = Cqe(v, n)
  PROVE  Occurs(cq', u) = Occurs(cq, u) + (IF v = u THEN 1 ELSE 0)
<1> DEFINE e == [user |-> v, res |-> n]
<1>1. cq \in Seq([user : Users, res : {0, -1}]) /\ e \in [user : Users, res : {0, -1}]
  BY DEF IInv, TypeOK
<1>2. cq' = Append(cq, e) /\ e.user = v
  BY DEF Cqe
<1> HIDE DEF e
<1>3. Occurs(Append(cq, e), u) = Occurs(cq, u) + (IF e.user = u THEN 1 ELSE 0)
  BY <1>1, OccursAppend
<1> QED  BY <1>2, <1>3

\* The entries a user has in the batch, counted around its head.
LEMMA HomesBatch ==
  ASSUME IInv, NEW u \in Users, batch # << >>
  PROVE  /\ Head(batch) \in Sqe /\ Head(batch).user \in Users /\ Head(batch).kind \in Kinds
         /\ Occurs(batch, u) = Occurs(Tail(batch), u)
                                 + (IF Head(batch).user = u THEN 1 ELSE 0)
         /\ Occurs(Tail(batch), u) \in Nat
<1>1. batch \in Seq(Sqe) /\ Head(batch) \in Sqe /\ Tail(batch) \in Seq(Sqe)
  BY DEF IInv, TypeOK
<1>2. Head(batch).user \in Users /\ Head(batch).kind \in Kinds
  BY <1>1 DEF Sqe
<1> QED  BY <1>1, <1>2, OccursTail, OccursType

-----------------------------------------------------------------------------
(* Steps and the place of a request.                                       *)

\* OneHome is kept by a step that keeps, for each user, the homes equal to its openness.
LEMMA HomeBy ==
  ASSUME OneHome,
         \A u \in Users : Homes(u) = IsOpen(u) => Homes(u)' = IsOpen(u)'
  PROVE  OneHome'
<1>1. \A u \in Users : Homes(u)' = IsOpen(u)'
  BY HomesIs
<1>2. OneHome' <=> \A u \in Users : Homes(u)' = IsOpen(u)'
  BY DEF OneHome, Homes, IsOpen, Flying, OfUser, Walking, Named, Occurs, At
<1> QED  BY <1>1, <1>2

\* One more request in flight.
LEMMA UserAdd ==
  ASSUME NEW I, IsFiniteSet(I), NEW r, r \notin I, NEW u
  PROVE  /\ Cardinality(OfUser(I, u)) \in Nat
         /\ Cardinality(OfUser(I \cup {r}, u))
              = Cardinality(OfUser(I, u)) + (IF r.user = u THEN 1 ELSE 0)
<1>1. OfUser(I, u) \subseteq I
  BY DEF OfUser
<1>2. IsFiniteSet(OfUser(I, u)) /\ Cardinality(OfUser(I, u)) \in Nat
  BY <1>1, FS_Subset, FS_CardinalityType
<1>3. CASE r.user = u
  <2>1. OfUser(I \cup {r}, u) = OfUser(I, u) \cup {r} /\ r \notin OfUser(I, u)
    BY <1>3 DEF OfUser
  <2>2. Cardinality(OfUser(I, u) \cup {r}) = Cardinality(OfUser(I, u)) + 1
    BY <1>2, <2>1, FS_AddElement
  <2> QED  BY <1>2, <1>3, <2>1, <2>2
<1>4. CASE r.user # u
  <2>1. OfUser(I \cup {r}, u) = OfUser(I, u)
    BY <1>4 DEF OfUser
  <2> QED  BY <1>2, <1>4, <2>1
<1> QED  BY <1>3, <1>4

\* Steps that move no request.
LEMMA HomeQuiet ==
  ASSUME OneHome, UNCHANGED <<sq, batch, cq, pending, slot, ask>>,
         \A u \in Users : Walking(u)' = Walking(u)
  PROVE  OneHome'
<1>1. InFlight' = InFlight
  BY DEF InFlight
<1>2. \A u \in Users : Homes(u)' = Homes(u) /\ IsOpen(u)' = IsOpen(u)
  BY <1>1 DEF Homes, IsOpen, Flying
<1> QED  BY <1>2, HomeBy

(* handle_ring takes an entry from the submission ring.                    *)
LEMMA HomeFetch ==
  ASSUME IInv, OneHome, Fetch
  PROVE  OneHome'
<1> USE DEF dmaVars, kernelVars, deviceVars, clientVars
<1>1. ASSUME NEW u \in Users PROVE Homes(u)' = Homes(u) /\ IsOpen(u)' = IsOpen(u)
  <2>1. InFlight' = InFlight /\ Walking(u)' = Walking(u) /\ UNCHANGED <<cq, ask>>
    BY DEF Fetch, InFlight, Walking
  <2>2. /\ sq \in Seq(Sqe) /\ sq # << >> /\ Head(sq) \in Sqe /\ Tail(sq) \in Seq(Sqe)
        /\ batch \in Seq(Sqe)
    BY DEF Fetch, IInv, TypeOK
  <2>3. Occurs(sq, u) = Occurs(Tail(sq), u) + (IF Head(sq).user = u THEN 1 ELSE 0)
    BY <2>2, OccursTail
  <2>4. Occurs(Append(batch, Head(sq)), u) = Occurs(batch, u) + (IF Head(sq).user = u THEN 1 ELSE 0)
    BY <2>2, OccursAppend
  <2>5. sq' = Tail(sq) /\ batch' = Append(batch, Head(sq))
    BY DEF Fetch
  <2>6. Occurs(sq', u) + Occurs(batch', u) = Occurs(sq, u) + Occurs(batch, u)
    <3>1. Occurs(Tail(sq), u) \in Nat /\ Occurs(batch, u) \in Nat
      BY <2>2, OccursType
    <3>2. Occurs(sq', u) = Occurs(Tail(sq), u) /\ Occurs(batch', u) = Occurs(Append(batch, Head(sq)), u)
      BY <2>5
    <3> QED  BY <2>3, <2>4, <3>1, <3>2
  <2> QED  BY <2>1, <2>6 DEF Homes, IsOpen, Flying
<1> QED  BY <1>1, HomeBy

(* A refused request is answered at once.                                  *)
LEMMA HomeRefuse ==
  ASSUME IInv, OneHome, batch # << >>, Refuse(Head(batch))
  PROVE  OneHome'
<1> USE DEF kernelVars, deviceVars, clientVars
<1>1. ASSUME NEW u \in Users PROVE Homes(u)' = Homes(u) /\ IsOpen(u)' = IsOpen(u)
  <2>1. InFlight' = InFlight /\ Walking(u)' = Walking(u) /\ UNCHANGED <<sq, ask>>
    BY DEF Refuse, InFlight, Walking
  <2>2. /\ Head(batch).user \in Users
        /\ Occurs(batch, u) = Occurs(Tail(batch), u) + (IF Head(batch).user = u THEN 1 ELSE 0)
        /\ Occurs(Tail(batch), u) \in Nat
    BY HomesBatch
  <2>3. Occurs(cq', u) = Occurs(cq, u) + (IF Head(batch).user = u THEN 1 ELSE 0)
    BY <2>2, HomesAnswer DEF Refuse
  <2>4. batch' = Tail(batch) /\ Occurs(cq, u) \in Nat
    BY HomesType DEF Refuse
  <2>5. Occurs(batch', u) + Occurs(cq', u) = Occurs(batch, u) + Occurs(cq, u)
    BY <2>2, <2>3, <2>4
  <2>6. /\ Occurs(sq, u) \in Nat /\ Occurs(batch, u) \in Nat /\ Occurs(cq, u) \in Nat
        /\ Occurs(batch', u) \in Nat /\ Occurs(cq', u) \in Nat
    BY <2>2, <2>3, <2>4, HomesType
  <2>7. Flying(u)' = Flying(u) /\ IsOpen(u)' = IsOpen(u) /\ Occurs(sq', u) = Occurs(sq, u)
    BY <2>1 DEF Flying, IsOpen
  <2>8. Cardinality(Flying(u)) \in Nat /\ Walking(u) \in 0 .. 1 /\ Walking(u)' = Walking(u)
    BY <2>1, HomesType
  <2> QED  BY <2>5, <2>6, <2>7, <2>8, SMTT(20) DEF Homes
<1> QED  BY <1>1, HomeBy

(* A request is made available to the device.                              *)
LEMMA HomePublish ==
  ASSUME IInv, OneHome, Publish
  PROVE  OneHome'
<1> USE DEF ringVars, kernelVars, deviceVars, clientVars
<1>1. /\ slot = None /\ slot' # None /\ slot'.user = Head(batch).user
      /\ batch # << >> /\ batch' = Tail(batch) /\ UNCHANGED <<sq, cq, cur, pending, ask>>
  <2>1. PICK s \in Slots : slot' = [pos |-> s, user |-> Head(batch).user, head |-> q.free_head]
    BY DEF Publish
  <2>2. Head(batch).user \in Users /\ q.free_head \in Desc
    <3>1. batch # << >> /\ q \in Queue(Addr)
      BY DEF Publish, IInv, TypeOK
    <3>2. batch \in Seq(Sqe)
      BY DEF IInv, TypeOK
    <3>3. Head(batch) \in Sqe
      BY <3>1, <3>2
    <3> QED  BY <3>1, <3>3 DEF Sqe, Queue
  <2>3. slot' \in InSlot
    BY <2>1, <2>2 DEF InSlot
  <2>4. slot' # None
    BY <2>3, BlkAssumption
  <2> QED  BY <2>1, <2>4 DEF Publish, IInv, Control
<1>2. InFlight' = InFlight \cup {slot'}
  BY <1>1, InFlightPublish
<1>3. slot' \notin InFlight
  <2>1. slot'.head = q.free_head /\ pc = "submit" /\ q.num_free >= 3 /\ q.num_free \in Nat
    BY QueueAssumption DEF Publish, IInv, TypeOK, Queue
  <2>2. PICK F : Ownership(q, InFlight, WalkStart, F)
    BY DEF IInv
  <2>3. q.free_head \in F
    <3>1. q \in Queue(Addr) /\ FreeList(q, F) /\ CanAlloc(q)
      BY <2>1, <2>2 DEF Ownership, CanAlloc, IInv, TypeOK
    <3> QED  BY <3>1, AllocDescFree
  <2> QED  BY <2>1, <2>2, <2>3 DEF Ownership, Chain
<1>4. ASSUME NEW u \in Users PROVE Homes(u)' = Homes(u) /\ IsOpen(u)' = IsOpen(u)
  <2>1. Walking(u)' = Walking(u)
    BY <1>1 DEF Walking
  <2>2. /\ Occurs(batch, u) = Occurs(Tail(batch), u) + (IF Head(batch).user = u THEN 1 ELSE 0)
        /\ Occurs(Tail(batch), u) \in Nat
    BY <1>1, HomesBatch
  <2>3. Cardinality(Flying(u)') = Cardinality(Flying(u)) + (IF slot'.user = u THEN 1 ELSE 0)
    <3>1. IsFiniteSet(InFlight)
      BY DEF IInv
    <3>2. Flying(u)' = OfUser(InFlight \cup {slot'}, u)
      BY <1>2 DEF Flying
    <3>3. Cardinality(OfUser(InFlight \cup {slot'}, u))
            = Cardinality(OfUser(InFlight, u)) + (IF slot'.user = u THEN 1 ELSE 0)
      BY <3>1, <1>3, UserAdd
    <3> QED  BY <3>2, <3>3 DEF Flying
  <2>4. Occurs(batch', u) + Cardinality(Flying(u)') = Occurs(batch, u) + Cardinality(Flying(u))
    BY <1>1, <2>2, <2>3, HomesType
  <2> QED  BY <1>1, <2>1, <2>2, <2>3, <2>4, HomesType, SMTT(20) DEF Homes, IsOpen
<1> QED  BY <1>4, HomeBy

(* A request whose chain came back leaves pending_info ...                 *)
LEMMA HomePopOne ==
  ASSUME IInv, OneHome, PopOne
  PROVE  OneHome'
<1> USE DEF ringVars, kernelVars, deviceVars, clientVars
<1>1. CASE UNCHANGED <<pending, cur, pc>>
  BY <1>1, HomeQuiet DEF PopOne, Walking
<1>2. ASSUME NEW s \in Slots, IsFirst(s, SlotsOf(PopId(q))),
             pending' = [pending EXCEPT ![s] = None],
             cur' = [user |-> pending[s].user, pos |-> s, curr |-> pending[s].head]
      PROVE  OneHome'
  <2> DEFINE r == [pos |-> s, user |-> pending[s].user, head |-> pending[s].head]
  <2>1. TypeOK /\ Control /\ pc = "pop" /\ slot' = slot /\ UNCHANGED <<sq, batch, cq, ask>>
    BY DEF PopOne, IInv
  <2>2. pending[s] # None /\ pending[s] \in Pending
    BY <1>2, <2>1 DEF IsFirst, SlotsOf, TypeOK
  <2>3. slot = None /\ cur = None
    BY <2>1 DEF Control
  <2>4. r \in InFlight /\ InFlight' = InFlight \ {r}
    BY <1>2, <2>1, <2>2, <2>3, InFlightPop
  <2>5. cur' # None /\ cur'.user = r.user
    <3>1. cur' \in Walk
      BY <1>2, <2>2 DEF Pending, Walk
    <3> QED  BY <1>2, <3>1, BlkAssumption
  <2> HIDE DEF r
  <2>6. IsFiniteSet(InFlight') /\ r \notin InFlight' /\ InFlight = InFlight' \cup {r}
    BY <2>4, FS_RemoveElement DEF IInv
  <2>7. ASSUME NEW u \in Users PROVE Homes(u)' = Homes(u) /\ IsOpen(u)' = IsOpen(u)
    <3>1. /\ Cardinality(Flying(u)') \in Nat
          /\ Cardinality(Flying(u)) = Cardinality(Flying(u)') + (IF r.user = u THEN 1 ELSE 0)
      <4>1. /\ Cardinality(OfUser(InFlight', u)) \in Nat
            /\ Cardinality(OfUser(InFlight' \cup {r}, u))
                 = Cardinality(OfUser(InFlight', u)) + (IF r.user = u THEN 1 ELSE 0)
        BY <2>6, UserAdd
      <4> QED  BY <2>6, <4>1 DEF Flying
    <3>2. Walking(u) = 0 /\ Walking(u)' = IF r.user = u THEN 1 ELSE 0
      BY <2>3, <2>5 DEF Walking
    <3>3. Cardinality(Flying(u)') + Walking(u)' = Cardinality(Flying(u)) + Walking(u)
      BY <3>1, <3>2
    <3> QED  BY <2>1, <3>1, <3>2, <3>3, HomesType DEF Homes, IsOpen
  <2> QED  BY <2>7, HomeBy
<1> QED  BY <1>1, <1>2 DEF PopOne

(* ... and is answered when its chain is freed.                            *)
LEMMA HomeComplete ==
  ASSUME IInv, OneHome, Complete
  PROVE  OneHome'
<1> USE DEF kernelVars, deviceVars, clientVars
<1>1. InFlight' = InFlight /\ UNCHANGED <<sq, batch, ask>>
  BY DEF Complete, InFlight
<1>2. cur # None /\ cur.user \in Users /\ cur' = None
  BY DEF Complete, IInv, Control, TypeOK, Walk
<1>3. ASSUME NEW u \in Users PROVE Homes(u)' = Homes(u) /\ IsOpen(u)' = IsOpen(u)
  <2>1. Occurs(cq', u) = Occurs(cq, u) + (IF cur.user = u THEN 1 ELSE 0)
    BY <1>2, HomesAnswer DEF Complete
  <2>2. Walking(u) = (IF cur.user = u THEN 1 ELSE 0) /\ Walking(u)' = 0
    BY <1>2 DEF Walking
  <2> QED  BY <1>1, <2>1, <2>2, HomesType DEF Homes, IsOpen, Flying
<1> QED  BY <1>3, HomeBy

(* The client opens a request, and closes one it has been answered.        *)
LEMMA HomeSubmit ==
  ASSUME IInv, OneHome, NEW v \in Users, NEW k \in Kinds, ClientSubmit(v, k)
  PROVE  OneHome'
<1> USE DEF driverVars, kernelVars, deviceVars
<1> DEFINE e == [user |-> v, kind |-> k]
<1>1. /\ InFlight' = InFlight /\ UNCHANGED <<batch, cq, cur>>
      /\ ask[v] = None /\ ask' = [ask EXCEPT ![v] = k] /\ sq' = Append(sq, e)
  BY DEF ClientSubmit, InFlight
<1>2. sq \in Seq(Sqe) /\ e \in Sqe /\ ask \in [Users -> Kinds \cup {None}] /\ k # None
  BY BlkAssumption DEF IInv, TypeOK, Sqe
<1> HIDE DEF e
<1>3. ASSUME NEW u \in Users, Homes(u) = IsOpen(u) PROVE Homes(u)' = IsOpen(u)'
  <2>1. Occurs(Append(sq, e), u) = Occurs(sq, u) + (IF e.user = u THEN 1 ELSE 0)
    <3> HIDE DEF e
    <3> QED  BY <1>2, OccursAppend
  <2>2. Occurs(sq', u) = Occurs(sq, u) + (IF v = u THEN 1 ELSE 0)
    BY <1>1, <2>1 DEF e
  <2>3. Walking(u)' = Walking(u)
    BY <1>1 DEF Walking
  <2>4. IsOpen(u)' = IsOpen(u) + (IF v = u THEN 1 ELSE 0)
    BY <1>1, <1>2 DEF IsOpen
  <2>5. /\ Flying(u)' = Flying(u) /\ Occurs(batch', u) = Occurs(batch, u)
        /\ Occurs(cq', u) = Occurs(cq, u) /\ IsOpen(u) \in 0 .. 1
    BY <1>1 DEF Flying, IsOpen
  <2>6. /\ Occurs(sq, u) \in Nat /\ Occurs(batch, u) \in Nat /\ Occurs(cq, u) \in Nat
        /\ Cardinality(Flying(u)) \in Nat /\ Walking(u) \in 0 .. 1
    BY HomesType
  <2> QED  BY <1>3, <2>2, <2>3, <2>4, <2>5, <2>6 DEF Homes
<1> QED  BY <1>3, HomeBy

\* Reaping a completion closes the request and removes its one home.
LEMMA HomeReap ==
  ASSUME IInv, OneHome, ClientReap
  PROVE  OneHome'
<1> USE DEF driverVars, kernelVars
<1> DEFINE v == Head(cq).user
<1>1. /\ InFlight' = InFlight /\ UNCHANGED <<sq, batch, cur>>
      /\ ask' = [ask EXCEPT ![v] = None] /\ cq' = Tail(cq) /\ cq # << >>
  BY DEF ClientReap, InFlight
<1>2. cq \in Seq([user : Users, res : {0, -1}]) /\ ask \in [Users -> Kinds \cup {None}]
  BY DEF IInv, TypeOK
<1>3. ASSUME NEW u \in Users, Homes(u) = IsOpen(u) PROVE Homes(u)' = IsOpen(u)'
  <2>1. /\ Occurs(cq, u) = Occurs(Tail(cq), u) + (IF Head(cq).user = u THEN 1 ELSE 0)
        /\ Occurs(Tail(cq), u) \in Nat
    <3>1. Occurs(cq, u) = Occurs(Tail(cq), u) + (IF Head(cq).user = u THEN 1 ELSE 0)
      BY <1>1, <1>2, OccursTail
    <3>2. Tail(cq) \in Seq([user : Users, res : {0, -1}])
      BY <1>1, <1>2
    <3> QED  BY <3>1, <3>2, OccursType
  <2>2. Walking(u)' = Walking(u)
    BY <1>1 DEF Walking
  <2>3. IsOpen(u)' = IF v = u THEN 0 ELSE IsOpen(u)
    BY <1>1, <1>2 DEF IsOpen
  <2>4. Homes(u) = Homes(u)' + (IF v = u THEN 1 ELSE 0) /\ Homes(u)' \in Nat
    <3>1. /\ Occurs(sq, u) \in Nat /\ Occurs(batch, u) \in Nat
          /\ Cardinality(Flying(u)) \in Nat /\ Walking(u) \in 0 .. 1
      BY HomesType
    <3>2. /\ Flying(u)' = Flying(u) /\ Occurs(batch', u) = Occurs(batch, u)
          /\ Occurs(sq', u) = Occurs(sq, u) /\ Occurs(cq', u) = Occurs(Tail(cq), u)
      BY <1>1 DEF Flying
    <3> QED  BY <2>1, <2>2, <3>1, <3>2 DEF Homes
  <2> QED  BY <1>3, <2>3, <2>4 DEF IsOpen
<1> QED  BY <1>3, HomeBy

\* Every step keeps each open request in exactly one place, and a closed one in none.
LEMMA HomeStep ==
  ASSUME IInv, OneHome, [Next]_vars
  PROVE  OneHome'
<1> USE DEF vars, driverVars, dmaVars, ringVars, kernelVars, deviceVars, clientVars
<1>1. CASE Record
  <2>1. InFlight' = InFlight /\ UNCHANGED <<sq, batch, cq, cur, ask>>
    BY <1>1, InFlightRecord DEF IInv, Record
  <2>2. \A u \in Users : Homes(u)' = Homes(u) /\ IsOpen(u)' = IsOpen(u)
    BY <2>1 DEF Homes, IsOpen, Flying, Walking
  <2> QED  BY <2>2, HomeBy
<1>2. CASE FreeOne
  <2>1. UNCHANGED <<sq, batch, cq, pending, slot, ask>>
    BY <1>2 DEF FreeOne
  <2>2. cur # None /\ cur \in Walk /\ cur' # None /\ cur'.user = cur.user
    <3>1. cur # None /\ cur \in Walk
      BY <1>2 DEF FreeOne, IInv, Control, TypeOK
    <3>2. q.next[cur.curr] \in Desc
      BY <3>1 DEF IInv, TypeOK, Queue, Walk
    <3>3. cur' \in Walk /\ cur'.user = cur.user
      BY <1>2, <3>1, <3>2 DEF FreeOne, Walk
    <3> QED  BY <3>1, <3>3, BlkAssumption
  <2> QED  BY <2>1, <2>2, HomeQuiet DEF Walking
<1>3. CASE RefuseEarly \/ RefuseBadAddr \/ RefuseNoDesc
  BY <1>3, HomeRefuse DEF RefuseEarly, RefuseBadAddr, RefuseNoDesc
<1>4. CASE Recv \/ RecvBare \/ IrqRead \/ IrqAck \/ Unmask \/ PopNone \/ FetchDone \/ SubmitDone
  <2>1. UNCHANGED <<sq, batch, cq, pending, slot, ask, cur>>
    BY <1>4 DEF Recv, RecvBare, IrqRead, IrqAck, Unmask, PopNone, FetchDone, SubmitDone
  <2> QED  BY <2>1, HomeQuiet DEF Walking
<1>5. CASE Device \/ KernelIrq \/ ClientNotify \/ ClientPoke \/ UNCHANGED vars
  <2>1. UNCHANGED <<sq, batch, cq, pending, slot, ask, cur>>
    BY <1>5 DEF Device, DevTake, DevSleep, DevRaise, DevConfig, DevDone, KernelIrq,
                ClientNotify, ClientPoke
  <2> QED  BY <2>1, HomeQuiet DEF Walking
<1> QED  BY <1>1, <1>2, <1>3, <1>4, <1>5, HomeFetch, HomePublish, HomePopOne, HomeComplete,
            HomeSubmit, HomeReap DEF Next, Driver, Client

\* No request is open initially, and none is anywhere.
LEMMA HomeInit == Init => OneHome
<1> SUFFICES ASSUME Init PROVE OneHome
  OBVIOUS
<1>1. IInv
  BY InitIInv
<1>2. InFlight = {}
  BY DEF Init, InFlight
<1>3. ASSUME NEW u \in Users PROVE Homes(u) = IsOpen(u)
  <2>1. At(sq, u) = {} /\ At(batch, u) = {} /\ At(cq, u) = {}
    BY DEF Init, At
  <2>2. Flying(u) = {}
    BY <1>2 DEF Flying, OfUser
  <2> QED  BY <2>1, <2>2, FS_EmptySet, SMTT(20) DEF Init, Homes, Occurs, Walking, IsOpen
<1> QED  BY <1>3, HomesIs

(* A request is in exactly one place, and a name that is free is in none:  *)
(* each submission entry ends as exactly one completion entry.             *)
THEOREM HomeTheorem == Spec => []OneHome
<1>1. IInv /\ OneHome /\ [Next]_vars => OneHome'
  BY HomeStep
<1> QED  BY HomeInit, Invariance, <1>1, PTL DEF Spec

-----------------------------------------------------------------------------
(* The places exclude one another.                                         *)

Queued(u) == \E i \in 1 .. Len(sq) : sq[i].user = u
Taken(u)  == \E i \in 1 .. Len(batch) : batch[i].user = u
Told(u)   == \E i \in 1 .. Len(cq) : cq[i].user = u
Flies(u)  == \E r \in InFlight : r.user = u
Walks(u)  == cur # None /\ cur.user = u

\* A request that is in one of the places is in none of the others, and there only once.
LEMMA Where ==
  ASSUME IInv, OneHome, NEW u \in Users
  PROVE  /\ ask[u] = None => ~Queued(u) /\ ~Taken(u) /\ ~Told(u) /\ ~Flies(u) /\ ~Walks(u)
         /\ Queued(u) => ~Taken(u) /\ ~Told(u) /\ ~Flies(u) /\ ~Walks(u)
         /\ Taken(u) => ~Told(u) /\ ~Flies(u) /\ ~Walks(u)
         /\ Told(u) => ~Flies(u) /\ ~Walks(u)
         /\ Flies(u) => ~Walks(u)
         /\ \A i, j \in 1 .. Len(cq) : cq[i].user = u /\ cq[j].user = u => i = j
         /\ \A r, t \in InFlight : r.user = u /\ t.user = u => r = t
<1> DEFINE a == Occurs(sq, u)
           b == Occurs(batch, u)
           c == Occurs(cq, u)
           f == Cardinality(Flying(u))
           w == Walking(u)
<1>1. a + b + c + f + w = IsOpen(u)
  BY HomesIs DEF Homes
<1>2. a \in Nat /\ b \in Nat /\ c \in Nat /\ f \in Nat /\ w \in Nat
  BY HomesType
<1>3. /\ sq \in Seq(Sqe) /\ batch \in Seq(Sqe)
      /\ cq \in Seq([user : Users, res : {0, -1}])
  BY DEF IInv, TypeOK
<1>4. (Queued(u) <=> a # 0) /\ (Taken(u) <=> b # 0)
  BY <1>3, OccursType DEF Queued, Taken
<1>5. /\ Told(u) <=> c # 0
      /\ c = 1 => \A i, j \in 1 .. Len(cq) : cq[i].user = u /\ cq[j].user = u => i = j
  BY <1>3, OccursType DEF Told
<1>6. Flies(u) <=> f # 0
  <2>1. IsFiniteSet(Flying(u))
    BY HomesType
  <2>2. f = 0 <=> Flying(u) = {}
    BY <2>1, FS_EmptySet
  <2> QED  BY <2>2 DEF Flies, Flying, OfUser
<1>7. f = 1 => \A r, t \in InFlight : r.user = u /\ t.user = u => r = t
  <2> SUFFICES ASSUME f = 1 PROVE \A r, t \in InFlight : r.user = u /\ t.user = u => r = t
    OBVIOUS
  <2>1. PICK e : Flying(u) = {e}
    BY HomesType, FS_Singleton
  <2> QED  BY <2>1 DEF Flying, OfUser
<1>8. Walks(u) <=> w # 0
  BY DEF Walks, Walking
<1> HIDE DEF a, b, c, f, w
<1>9. IsOpen(u) \in 0 .. 1 /\ (ask[u] = None => IsOpen(u) = 0)
  BY DEF IsOpen
<1>10. /\ c # 0 => c = 1
       /\ f # 0 => f = 1
  BY <1>1, <1>2, <1>9
<1>11. \A i, j \in 1 .. Len(cq) : cq[i].user = u /\ cq[j].user = u => i = j
  BY <1>5, <1>10 DEF Told
<1>12. \A r, t \in InFlight : r.user = u /\ t.user = u => r = t
  BY <1>6, <1>7, <1>10 DEF Flies
<1>13. /\ ask[u] = None => a = 0 /\ b = 0 /\ c = 0 /\ f = 0 /\ w = 0
       /\ a # 0 => b = 0 /\ c = 0 /\ f = 0 /\ w = 0
       /\ b # 0 => c = 0 /\ f = 0 /\ w = 0
       /\ c # 0 => f = 0 /\ w = 0
       /\ f # 0 => w = 0
  BY <1>1, <1>2, <1>9
<1> QED  BY <1>4, <1>5, <1>6, <1>8, <1>11, <1>12, <1>13

(* Two requests in flight have nothing in common.                          *)
LEMMA Apart ==
  ASSUME IInv, OneHome, NEW r \in InFlight, NEW t \in InFlight, r # t
  PROVE  r.pos # t.pos /\ r.user # t.user /\ r.head # t.head
<1>1. r \in InSlot /\ t \in InSlot /\ r.user \in Users /\ t.user \in Users
  BY InFlightType DEF IInv, InSlot
<1>2. r.user # t.user
  BY <1>1, Where
<1>3. r.head # t.head
  BY DEF IInv, Ownership, Chain
<1>4. r.pos # t.pos
  BY DEF InFlight, IInv, Control
<1> QED  BY <1>2, <1>3, <1>4

(* The slot of a request in flight is not the one whose request is being   *)
(* completed or a free one.                                                *)
LEMMA SlotTaken ==
  ASSUME IInv, NEW r \in InFlight, slot = None
  PROVE  r.pos \in Slots /\ pending[r.pos] # None
BY DEF InFlight

-----------------------------------------------------------------------------
(* The invariant about what the rings hold and what memory contains.       *)

\* The used entries the driver has not read.
Unread == Between(q.used_ring, q.last_used_idx, q.used_idx)

\* What the device has not read of the available ring, as a span of it.
LEMMA AvailIs == Avail = Between(q.avail_ring, seen, q.avail_idx)
BY DEF Avail, Between, Count

(* The rings hold no head twice; a head is with the device or on its way   *)
(* back to the driver, and each belongs to a request in flight.            *)
Rings ==
  /\ Distinct(q.avail_ring, seen, q.avail_idx)
  /\ Distinct(q.used_ring, q.last_used_idx, q.used_idx)
  /\ Avail \cap held = {} /\ Unread \cap Owned = {}
  /\ {r.head : r \in InFlight} = Owned \cup Unread

\* The chain of a request of kind k.
Shape(p, k, r) ==
  LET d2 == p.next[r.head]
      d3 == p.next[d2]
  IN  /\ p.addr[r.head] = Hdr(r.pos) /\ p.flags[r.head] = {NEXT}
      /\ p.addr[d2] = Data(r.user) /\ NEXT \in p.flags[d2]
      /\ (WRITE \in p.flags[d2]) = (k = "read")
      /\ p.addr[d3] = Status(r.pos) /\ p.flags[d3] = {WRITE}

\* The device has done what u asked and said so in slot s.
Executed(u, s) == exec[u] \in Done /\ exec[u].op = ask[u] /\ exec[u].st = status[s]

(* A request the device has is as it was submitted; one it has given back  *)
(* was executed once.                                                      *)
InMemory(r) ==
  /\ Shape(q, ask[r.user], r)
  /\ hdr[r.pos] = ask[r.user]
  /\ r.head \in Owned => status[r.pos] = "FF" /\ exec[r.user] = None
  /\ r.head \notin Owned => Executed(r.user, r.pos)

Requests == \A r \in InFlight : InMemory(r)

Completing == cur # None => pending[cur.pos] = None /\ Executed(cur.user, cur.pos)

\* The entries of s have not been acted on, those of c say what was done.
Waits(s, a, e) == \A i \in 1 .. Len(s) : a[s[i].user] = s[i].kind /\ e[s[i].user] = None
Answer(d)      == IF d = None THEN -1 ELSE IF d.st = "OK" THEN 0 ELSE -1
Answers(c, e)  == \A i \in 1 .. Len(c) : c[i].res = Answer(e[c[i].user])

Closed == \A u \in Users : ask[u] = None => exec[u] = None

DInv == /\ Rings /\ Requests /\ Completing
        /\ Waits(sq, ask, exec) /\ Waits(batch, ask, exec) /\ Answers(cq, exec)
        /\ Closed

-----------------------------------------------------------------------------
(* What the operations of the queue do to its fields.                      *)

\* Allocating the rest of a chain touches neither ring nor any link.
LEMMA AllocRestFields ==
  ASSUME q \in Queue(Addr)
  PROVE  SameRings(q, AllocRest) /\ SameChains(q, AllocRest)
<1>1. SameRings(q, AllocDesc(q)) /\ SameChains(q, AllocDesc(q))
  BY DEF AllocDesc, Queue, SameRings, SameChains
<1>2. SameRings(q, AllocDesc(AllocDesc(q))) /\ SameChains(q, AllocDesc(AllocDesc(q)))
  BY DEF AllocDesc, Queue, SameRings, SameChains
<1> QED  BY <1>1, <1>2 DEF AllocRest, SameRings, SameChains

\* The first three descriptors of a free list of at least three.
LEMMA FirstThree ==
  ASSUME q \in Queue(Addr), NEW F, FreeList(q, F), q.num_free >= 3
  PROVE  LET d1 == q.free_head
             d2 == q.next[d1]
             d3 == q.next[d2]
         IN  /\ d1 \in F /\ d2 \in F /\ d3 \in F /\ F \subseteq Desc
             /\ d1 # d2 /\ d1 # d3 /\ d2 # d3
<1>1. PICK s \in [1 .. q.num_free -> Desc] : IsFreeWalk(q, F, s)
  BY DEF FreeList
<1>2. q.num_free \in Nat /\ 1 \in 1 .. q.num_free /\ 2 \in 1 .. q.num_free /\ 3 \in 1 .. q.num_free
  BY QueueAssumption DEF Queue
<1>3. s[1] = q.free_head /\ s[1 + 1] = q.next[s[1]] /\ s[2 + 1] = q.next[s[2]]
  BY <1>1, <1>2 DEF IsFreeWalk
<1>4. s[2] = q.next[s[1]] /\ s[3] = q.next[s[2]]
  BY <1>3
<1>5. /\ s[1] \in F /\ s[2] \in F /\ s[3] \in F /\ F \subseteq Desc
      /\ s[1] # s[2] /\ s[1] # s[3] /\ s[2] # s[3]
  BY <1>1, <1>2 DEF IsFreeWalk
<1> QED  BY <1>3, <1>4, <1>5

\* The queue once a request is made available.
LEMMA PublishFields ==
  ASSUME q \in Queue(Addr), NEW F, FreeList(q, F), q.num_free >= 3,
         NEW sqe \in Sqe, NEW s \in Slots
  PROVE  LET n  == Submit(WriteChain(sqe, s), q.free_head)
             d1 == q.free_head
             d2 == q.next[d1]
             d3 == q.next[d2]
         IN  /\ n.next[d1] = d2 /\ n.next[d2] = d3
             /\ n.addr[d1] = Hdr(s) /\ n.addr[d2] = Data(sqe.user) /\ n.addr[d3] = Status(s)
             /\ n.flags[d1] = {NEXT} /\ n.flags[d3] = {WRITE}
             /\ n.flags[d2] = IF sqe.kind = "write" THEN {NEXT} ELSE {NEXT, WRITE}
             /\ \A d \in Desc \ {d1, d2, d3} : /\ n.next[d] = q.next[d]
                                              /\ n.flags[d] = q.flags[d]
                                              /\ n.addr[d] = q.addr[d]
             /\ n.avail_ring = [q.avail_ring EXCEPT ![q.avail_idx % Num] = d1]
             /\ n.avail_idx = (q.avail_idx + 1) % IdxMod
             /\ n.used_ring = q.used_ring /\ n.used_idx = q.used_idx
             /\ n.last_used_idx = q.last_used_idx
<1> DEFINE a1 == AllocDesc(q)
           a2 == AllocDesc(a1)
           a3 == AllocDesc(a2)
           d1 == q.free_head
           d2 == q.next[d1]
           d3 == q.next[d2]
           f2 == IF sqe.kind = "write" THEN {NEXT} ELSE {NEXT, WRITE}
           w1 == WriteDesc(a3, d1, Hdr(s), {NEXT}, d2)
           w2 == WriteDesc(w1, d2, Data(sqe.user), f2, d3)
           w3 == WriteDesc(w2, d3, Status(s), {WRITE}, 0)
           n  == Submit(w3, d1)
<1>1. /\ d1 \in Desc /\ d2 \in Desc /\ d3 \in Desc
      /\ d1 # d2 /\ d1 # d3 /\ d2 # d3
  BY FirstThree
<1>2. a1.free_head = d2 /\ a2.free_head = d3
  BY DEF AllocDesc, Queue
<1>3. a3 \in Queue(Addr) /\ SameRings(q, a3) /\ SameChains(q, a3)
  <2>1. /\ a1 \in Queue(Addr) /\ SameRings(q, a1) /\ SameChains(q, a1)
        /\ a1.num_free = q.num_free - 1
    <3>1. q.num_free - 1 \in 0 .. Num
      BY QueueAssumption DEF Queue
    <3> QED  BY <1>1, <3>1 DEF AllocDesc, Queue, SameRings, SameChains
  <2> HIDE DEF a1
  <2>2. /\ a2 \in Queue(Addr) /\ SameRings(a1, a2) /\ SameChains(a1, a2)
        /\ a2.num_free = q.num_free - 2
    <3>1. a1.num_free - 1 \in 0 .. Num /\ a1.num_free - 1 = q.num_free - 2
      BY <2>1, QueueAssumption DEF Queue
    <3>2. a1.next[a1.free_head] \in Desc
      BY <2>1 DEF Queue
    <3> QED  BY <2>1, <3>1, <3>2 DEF AllocDesc, Queue, SameRings, SameChains
  <2> HIDE DEF a2
  <2>3. /\ a3 \in Queue(Addr) /\ SameRings(a2, a3) /\ SameChains(a2, a3)
    <3>1. a2.num_free - 1 \in 0 .. Num
      BY <2>2, QueueAssumption DEF Queue
    <3>2. a2.next[a2.free_head] \in Desc
      BY <2>2 DEF Queue
    <3> QED  BY <2>2, <3>1, <3>2 DEF AllocDesc, Queue, SameRings, SameChains
  <2> QED  BY <2>1, <2>2, <2>3 DEF SameRings, SameChains
<1>4. /\ Hdr(s) \in Addr /\ Data(sqe.user) \in Addr /\ Status(s) \in Addr
      /\ {NEXT} \in SUBSET {NEXT, WRITE} /\ {WRITE} \in SUBSET {NEXT, WRITE}
      /\ f2 \in SUBSET {NEXT, WRITE} /\ 0 \in Desc
  BY QueueAssumption DEF Addr, Sqe, Desc
<1>5. WriteChain(sqe, s) = w3
  BY <1>2 DEF WriteChain
<1> HIDE DEF d1, d2, d3, a1, a2, a3, f2
<1>6. Written(Addr, a3, w1, d1, Hdr(s), {NEXT}, d2)
  BY <1>1, <1>3, <1>4, WriteDescFields
<1> HIDE DEF w1
<1>7. Written(Addr, w1, w2, d2, Data(sqe.user), f2, d3)
  <2>1. w1 \in Queue(Addr)
    BY <1>6 DEF Written
  <2> QED  BY <1>1, <1>4, <2>1, WriteDescFields
<1> HIDE DEF w2
<1>8. Written(Addr, w2, w3, d3, Status(s), {WRITE}, 0)
  <2>1. w2 \in Queue(Addr)
    BY <1>7 DEF Written
  <2> QED  BY <1>1, <1>4, <2>1, WriteDescFields
<1> HIDE DEF w3
<1>9. /\ n.next = w3.next /\ n.flags = w3.flags /\ n.addr = w3.addr
      /\ n.avail_ring = [w3.avail_ring EXCEPT ![w3.avail_idx % Num] = d1]
      /\ n.avail_idx = (w3.avail_idx + 1) % IdxMod
      /\ n.used_ring = w3.used_ring /\ n.used_idx = w3.used_idx
      /\ n.last_used_idx = w3.last_used_idx
  BY <1>8 DEF Submit, Queue, Written
<1> HIDE DEF n
<1>10. /\ q.next \in [Desc -> Desc] /\ q.flags \in [Desc -> SUBSET {NEXT, WRITE}]
       /\ q.addr \in [Desc -> Addr]
  BY DEF Queue
<1>11. n.next = [[[q.next EXCEPT ![d1] = d2] EXCEPT ![d2] = d3] EXCEPT ![d3] = 0]
  BY <1>3, <1>6, <1>7, <1>8, <1>9 DEF SameChains, Written
<1>12. n.flags = [[[q.flags EXCEPT ![d1] = {NEXT}] EXCEPT ![d2] = f2] EXCEPT ![d3] = {WRITE}]
  BY <1>3, <1>6, <1>7, <1>8, <1>9 DEF SameChains, Written
<1>13. n.addr = [[[q.addr EXCEPT ![d1] = Hdr(s)] EXCEPT ![d2] = Data(sqe.user)]
                   EXCEPT ![d3] = Status(s)]
  BY <1>3, <1>6, <1>7, <1>8, <1>9 DEF SameChains, Written
<1>14. /\ n.next[d1] = d2 /\ n.next[d2] = d3
       /\ \A d \in Desc \ {d1, d2, d3} : n.next[d] = q.next[d]
  BY <1>1, <1>10, <1>11
<1>15. /\ n.flags[d1] = {NEXT} /\ n.flags[d2] = f2 /\ n.flags[d3] = {WRITE}
       /\ \A d \in Desc \ {d1, d2, d3} : n.flags[d] = q.flags[d]
  BY <1>1, <1>10, <1>12
<1>16. /\ n.addr[d1] = Hdr(s) /\ n.addr[d2] = Data(sqe.user) /\ n.addr[d3] = Status(s)
       /\ \A d \in Desc \ {d1, d2, d3} : n.addr[d] = q.addr[d]
  BY <1>1, <1>10, <1>13
<1>17. /\ n.avail_ring = [q.avail_ring EXCEPT ![q.avail_idx % Num] = d1]
       /\ n.avail_idx = (q.avail_idx + 1) % IdxMod
       /\ n.used_ring = q.used_ring /\ n.used_idx = q.used_idx
       /\ n.last_used_idx = q.last_used_idx
  BY <1>3, <1>6, <1>7, <1>8, <1>9 DEF SameRings, Written
<1> QED  BY <1>5, <1>14, <1>15, <1>16, <1>17 DEF n, d1, d2, d3, f2

\* A chain whose descriptors are left alone keeps its shape.
LEMMA ShapeKept ==
  ASSUME NEW p, NEW n, NEW k, NEW r, Shape(p, k, r),
         \A d \in Chain(p, r.head) : /\ n.next[d] = p.next[d] /\ n.flags[d] = p.flags[d]
                                     /\ n.addr[d] = p.addr[d]
  PROVE  Shape(n, k, r)
BY DEF Shape, Chain, Second, Third

-----------------------------------------------------------------------------
(* How the parts of the invariant survive a step.                          *)

CqEntry == [user : Users, res : {0, -1}]

\* The rings and the batch are sequences of their entries.
LEMMA SeqTypes ==
  ASSUME IInv
  PROVE  sq \in Seq(Sqe) /\ batch \in Seq(Sqe) /\ cq \in Seq(CqEntry)
BY DEF IInv, TypeOK, CqEntry

\* Every entry of the rings and of the batch names a user.
LEMMA EntryUsers ==
  ASSUME IInv
  PROVE  /\ \A i \in 1 .. Len(sq) : sq[i].user \in Users
         /\ \A i \in 1 .. Len(batch) : batch[i].user \in Users
         /\ \A i \in 1 .. Len(cq) : cq[i].user \in Users
<1>1. /\ \A i \in 1 .. Len(sq) : sq[i] \in Sqe
      /\ \A i \in 1 .. Len(batch) : batch[i] \in Sqe
  BY SeqTypes
<1>2. \A i \in 1 .. Len(cq) : cq[i] \in CqEntry
  BY SeqTypes
<1> QED  BY <1>1, <1>2 DEF Sqe, CqEntry

\* Entries go on waiting when nothing is changed for the users they name.
LEMMA WaitsKept ==
  ASSUME NEW s, NEW a, NEW e, NEW b, NEW f, Waits(s, a, e),
         \A i \in 1 .. Len(s) : b[s[i].user] = a[s[i].user] /\ f[s[i].user] = e[s[i].user]
  PROVE  Waits(s, b, f)
BY DEF Waits

\* An entry put behind waiting ones waits if its user asked for it and has no result.
LEMMA WaitsAppend ==
  ASSUME NEW s \in Seq(Sqe), NEW a, NEW e, Waits(s, a, e),
         NEW x \in Sqe, a[x.user] = x.kind, e[x.user] = None
  PROVE  Waits(Append(s, x), a, e)
<1>1. /\ Len(Append(s, x)) = Len(s) + 1 /\ Append(s, x)[Len(s) + 1] = x /\ Len(s) \in Nat
      /\ \A i \in 1 .. Len(s) : Append(s, x)[i] = s[i]
  OBVIOUS
<1>2. \A i \in 1 .. Len(s) + 1 : i = Len(s) + 1 \/ i \in 1 .. Len(s)
  BY <1>1
<1> QED  BY <1>1, <1>2 DEF Waits

\* All but the first entry go on waiting, and the first one waits too.
LEMMA WaitsTail ==
  ASSUME NEW s \in Seq(Sqe), s # << >>, NEW a, NEW e, Waits(s, a, e)
  PROVE  /\ Waits(Tail(s), a, e) /\ Tail(s) \in Seq(Sqe)
         /\ Head(s) \in Sqe /\ a[Head(s).user] = Head(s).kind /\ e[Head(s).user] = None
<1>1. /\ Len(Tail(s)) = Len(s) - 1 /\ Len(s) \in Nat \ {0} /\ Head(s) = s[1]
      /\ \A i \in 1 .. Len(Tail(s)) : i + 1 \in 1 .. Len(s) /\ Tail(s)[i] = s[i + 1]
      /\ Tail(s) \in Seq(Sqe) /\ s[1] \in Sqe
  OBVIOUS
<1>2. 1 \in 1 .. Len(s)
  BY <1>1
<1> QED  BY <1>1, <1>2 DEF Waits

\* Completions stay true when the results of the users they name are kept.
LEMMA AnswersKept ==
  ASSUME NEW c, NEW e, NEW f, Answers(c, e),
         \A i \in 1 .. Len(c) : f[c[i].user] = e[c[i].user]
  PROVE  Answers(c, f)
BY DEF Answers

\* A completion that tells a user's result may be put behind true ones.
LEMMA AnswersAppend ==
  ASSUME NEW c \in Seq(CqEntry), NEW e, Answers(c, e),
         NEW v \in Users, NEW n \in {0, -1}, n = Answer(e[v])
  PROVE  Answers(Append(c, [user |-> v, res |-> n]), e)
<1> DEFINE x == [user |-> v, res |-> n]
<1>1. x \in CqEntry /\ x.user = v /\ x.res = n
  BY DEF CqEntry
<1> HIDE DEF x
<1>2. /\ Len(Append(c, x)) = Len(c) + 1 /\ Append(c, x)[Len(c) + 1] = x /\ Len(c) \in Nat
      /\ \A i \in 1 .. Len(c) : Append(c, x)[i] = c[i]
  BY <1>1
<1>3. \A i \in 1 .. Len(c) + 1 : i = Len(c) + 1 \/ i \in 1 .. Len(c)
  BY <1>2
<1> QED  BY <1>1, <1>2, <1>3 DEF Answers, x

\* A request stays intact in memory when its chain, slot, user and owner are kept.
LEMMA InMemoryKept ==
  ASSUME NEW r, InMemory(r), Shape(q', ask[r.user], r),
         hdr'[r.pos] = hdr[r.pos], status'[r.pos] = status[r.pos],
         exec'[r.user] = exec[r.user], ask'[r.user] = ask[r.user],
         r.head \in Owned' <=> r.head \in Owned
  PROVE  InMemory(r)'
BY DEF InMemory, Executed

\* A step that leaves both rings and the device alone leaves every chain where it was.
LEMMA RingsFrame ==
  ASSUME Rings, SameRings(q, q'), UNCHANGED <<seen, held>>, InFlight' = InFlight
  PROVE  Rings' /\ Owned' = Owned /\ Unread' = Unread
<1>1. Avail' = Avail /\ Unread' = Unread
  BY DEF SameRings, Avail, Unread
<1>2. Owned' = Owned
  BY <1>1 DEF Owned
<1>3. /\ Distinct(q.avail_ring, seen, q.avail_idx)'
      /\ Distinct(q.used_ring, q.last_used_idx, q.used_idx)'
  BY DEF SameRings, Rings
<1> QED  BY <1>1, <1>2, <1>3 DEF Rings

\* A chain of a request in flight consists of descriptors.
LEMMA ChainType ==
  ASSUME IInv, NEW r \in InFlight
  PROVE  /\ r.pos \in Slots /\ r.user \in Users /\ r.head \in Desc
         /\ Chain(q, r.head) \subseteq Desc
<1>1. r \in InSlot /\ r.head \in Desc
  BY InFlightType DEF IInv, InSlot
<1> QED  BY <1>1 DEF IInv, TypeOK, Queue, Chain, Second, Third, InSlot

(* Steps that touch none of this.                                          *)
LEMMA DataQuiet ==
  ASSUME DInv, UNCHANGED <<q, seen, held, hdr, status, exec, ask, sq, batch, cq>>,
         InFlight' = InFlight, Completing'
  PROVE  DInv'
<1>1. Rings' /\ Owned' = Owned
  BY RingsFrame DEF DInv, SameRings
<1>2. ASSUME NEW r \in InFlight PROVE InMemory(r)'
  BY <1>1 DEF DInv, Requests, InMemory, Executed
<1>3. Requests'
  BY <1>2 DEF Requests
<1> QED  BY <1>1, <1>3 DEF DInv, Closed

\* Initially nothing is in memory or waits.
LEMMA DataInit == Init => DInv
<1> SUFFICES ASSUME Init PROVE DInv
  OBVIOUS
<1>1. InFlight = {}
  BY DEF Init, InFlight
<1>2. /\ q.avail_idx = 0 /\ q.used_idx = 0 /\ q.last_used_idx = 0 /\ seen = 0
      /\ held = {} /\ cur = None /\ sq = << >> /\ batch = << >> /\ cq = << >>
      /\ \A u \in Users : exec[u] = None
  BY DEF Init, NewQueue
<1>3. 0 \in Idx
  BY QueueAssumption DEF Idx
<1>4. Avail = {} /\ Unread = {} /\ Owned = {}
  BY <1>2, <1>3, AvailIs, BetweenSame DEF Unread, Owned
<1>5. Distinct(q.avail_ring, 0, 0) /\ Distinct(q.used_ring, 0, 0)
  BY <1>3, BetweenSame
<1>6. Rings
  BY <1>1, <1>2, <1>4, <1>5 DEF Rings
<1>7. /\ Waits(sq, ask, exec) /\ Waits(batch, ask, exec) /\ Answers(cq, exec)
      /\ Completing /\ Closed
  BY <1>2 DEF Waits, Answers, Completing, Closed
<1> QED  BY <1>1, <1>6, <1>7 DEF DInv, Requests

-----------------------------------------------------------------------------
(* The steps of the driver.                                                *)

(* A chain that came back and was freed: what the status byte says is what *)
(* the client is told.                                                     *)
LEMMA DataComplete ==
  ASSUME IInv, DInv, Complete
  PROVE  DInv'
<1> USE DEF dmaVars, deviceVars, clientVars
<1>1. /\ InFlight' = InFlight /\ cur' = None
      /\ UNCHANGED <<q, seen, held, hdr, status, exec, ask, sq, batch>>
  BY DEF Complete, InFlight
<1>2. cur # None /\ cur.user \in Users
  BY DEF Complete, IInv, Control, TypeOK, Walk
<1> DEFINE n == IF status[cur.pos] = "OK" THEN 0 ELSE -1
<1>3. n \in {0, -1} /\ n = Answer(exec[cur.user])
  <2>1. Executed(cur.user, cur.pos)
    BY <1>2 DEF DInv, Completing
  <2>2. exec[cur.user] # None
    BY <2>1, BlkAssumption DEF Executed
  <2> QED  BY <2>1, <2>2 DEF Executed, Answer
<1>4. cq' = Append(cq, [user |-> cur.user, res |-> n])
  BY DEF Complete, Cqe
<1> HIDE DEF n
<1>5. Answers(Append(cq, [user |-> cur.user, res |-> n]), exec)
  BY <1>2, <1>3, AnswersAppend, SeqTypes DEF DInv
<1>6. Answers(cq', exec')
  BY <1>1, <1>4, <1>5
<1>7. Rings' /\ Owned' = Owned
  BY <1>1, RingsFrame DEF DInv, SameRings
<1>8. ASSUME NEW r \in InFlight PROVE InMemory(r)'
  BY <1>1, <1>7 DEF DInv, Requests, InMemory, Executed
<1>9. Requests'
  BY <1>1, <1>8 DEF Requests
<1> QED  BY <1>1, <1>6, <1>7, <1>9 DEF DInv, Completing, Closed

\* Fetching moves an entry from the ring to the batch, still waiting.
LEMMA DataFetch ==
  ASSUME IInv, DInv, Fetch
  PROVE  DInv'
<1> USE DEF dmaVars, deviceVars, clientVars
<1>1. /\ InFlight' = InFlight /\ sq # << >> /\ sq' = Tail(sq) /\ batch' = Append(batch, Head(sq))
      /\ UNCHANGED <<q, pending, cur, seen, held, hdr, status, exec, ask, cq>>
  BY DEF Fetch, InFlight
<1>2. /\ Waits(Tail(sq), ask, exec) /\ Head(sq) \in Sqe
      /\ ask[Head(sq).user] = Head(sq).kind /\ exec[Head(sq).user] = None
  BY <1>1, SeqTypes, WaitsTail DEF DInv
<1>3. Waits(Append(batch, Head(sq)), ask, exec)
  BY <1>2, SeqTypes, WaitsAppend DEF DInv
<1>4. Waits(sq', ask', exec') /\ Waits(batch', ask', exec')
  BY <1>1, <1>2, <1>3
<1>5. Rings' /\ Owned' = Owned
  BY <1>1, RingsFrame DEF DInv, SameRings
<1>6. ASSUME NEW r \in InFlight PROVE InMemory(r)'
  BY <1>1, <1>5 DEF DInv, Requests, InMemory, Executed
<1>7. Requests'
  BY <1>1, <1>6 DEF Requests
<1> QED  BY <1>1, <1>4, <1>5, <1>7 DEF DInv, Completing, Closed, Executed

(* A refused request: at most the header and the status byte of a free     *)
(* slot are written, and no descriptor is.                                 *)
LEMMA DataRefuse ==
  ASSUME IInv, DInv, RefuseEarly \/ RefuseBadAddr \/ RefuseNoDesc
  PROVE  DInv'
<1> USE DEF kernelVars, deviceVars, clientVars
<1> DEFINE x == Head(batch)
<1>1. /\ pc = "submit" /\ batch # << >> /\ Refuse(x)
      /\ InFlight' = InFlight /\ UNCHANGED <<pending, cur, seen, held, exec, ask, sq>>
  BY DEF RefuseEarly, RefuseBadAddr, RefuseNoDesc, Refuse, InFlight
<1>2. slot = None /\ cur = None
  BY <1>1 DEF IInv, Control
<1>3. SameRings(q, q') /\ SameChains(q, q')
  <2>1. q \in Queue(Addr)
    BY DEF IInv, TypeOK
  <2> QED  BY <2>1, AllocRestFields DEF RefuseEarly, RefuseBadAddr, RefuseNoDesc, SameRings,
                                        SameChains
<1>4. ASSUME NEW s \in Slots, pending[s] # None
      PROVE  hdr'[s] = hdr[s] /\ status'[s] = status[s]
  <2>1. CASE UNCHANGED <<hdr, status>>
    BY <2>1
  <2>2. ASSUME NEW t \in Slots, IsFirst(t, FreeSlots), WriteHeader(t, x)
        PROVE  hdr'[s] = hdr[s] /\ status'[s] = status[s]
    BY <1>4, <2>2 DEF IsFirst, FreeSlots, WriteHeader, IInv, TypeOK
  <2> QED  BY <2>1, <2>2 DEF RefuseEarly, RefuseBadAddr, RefuseNoDesc, dmaVars
<1>5. Rings' /\ Owned' = Owned
  BY <1>1, <1>3, RingsFrame DEF DInv
<1>6. ASSUME NEW r \in InFlight PROVE InMemory(r)'
  <2>1. hdr'[r.pos] = hdr[r.pos] /\ status'[r.pos] = status[r.pos]
    BY <1>2, <1>4, SlotTaken
  <2>2. InMemory(r)
    BY DEF DInv, Requests
  <2>3. Shape(q', ask[r.user], r)
    BY <1>3, <2>2 DEF InMemory, Shape, SameChains
  <2> QED  BY <1>1, <1>5, <2>1, <2>2, <2>3, InMemoryKept
<1>7. /\ Waits(Tail(batch), ask, exec) /\ x \in Sqe /\ exec[x.user] = None
  BY <1>1, SeqTypes, WaitsTail DEF DInv
<1>8. Answers(cq', exec')
  <2>1. x.user \in Users /\ -1 = Answer(exec[x.user])
    BY <1>7 DEF Sqe, Answer
  <2>2. cq' = Append(cq, [user |-> x.user, res |-> -1])
    BY <1>1 DEF Refuse, Cqe
  <2> HIDE DEF x
  <2>3. Answers(Append(cq, [user |-> x.user, res |-> -1]), exec)
    BY <2>1, AnswersAppend, SeqTypes DEF DInv
  <2> QED  BY <1>1, <2>2, <2>3
<1>9. Waits(batch', ask', exec') /\ Waits(sq', ask', exec')
  BY <1>1, <1>7 DEF Refuse, DInv
<1>10. Requests'
  BY <1>1, <1>6 DEF Requests
<1>11. Completing' /\ Closed'
  BY <1>1, <1>2 DEF DInv, Completing, Closed
<1> QED  BY <1>5, <1>8, <1>9, <1>10, <1>11 DEF DInv

(* One turn of the loop that frees a chain: the descriptor is no request's.*)
LEMMA DataFreeOne ==
  ASSUME IInv, DInv, FreeOne
  PROVE  DInv'
<1> USE DEF dmaVars, ringVars, deviceVars, clientVars
<1> DEFINE c == cur.curr
<1>1. /\ InFlight' = InFlight /\ q' = FreeDesc(q, c)
      /\ UNCHANGED <<pending, seen, held, hdr, status, exec, ask, sq, batch, cq>>
  BY DEF FreeOne, InFlight
<1>2. q \in Queue(Addr) /\ cur # None /\ cur \in Walk /\ c \in Desc
  BY DEF FreeOne, IInv, TypeOK, Control, Walk
<1>3. cur'.user = cur.user /\ cur'.pos = cur.pos
  BY <1>2 DEF FreeOne, Walk
<1>4. /\ SameRings(q, q') /\ q'.addr = q.addr
      /\ \A d \in Desc : d # c => q'.next[d] = q.next[d] /\ q'.flags[d] = q.flags[d]
  <2> HIDE DEF c
  <2> QED  BY <1>1, <1>2, FreeDescFields
<1>5. Rings' /\ Owned' = Owned
  BY <1>1, <1>4, RingsFrame DEF DInv
<1>6. ASSUME NEW r \in InFlight PROVE InMemory(r)'
  <2>1. InMemory(r) /\ Shape(q, ask[r.user], r)
    BY DEF DInv, Requests, InMemory
  <2>2. c \notin Chain(q, r.head)
    <3>1. PICK F : Ownership(q, InFlight, {c}, F)
      BY DEF IInv, WalkStart, FreeOne
    <3> QED  BY <3>1 DEF Ownership, Left, Chain
  <2>3. \A d \in Chain(q, r.head) : /\ q'.next[d] = q.next[d] /\ q'.flags[d] = q.flags[d]
                                    /\ q'.addr[d] = q.addr[d]
    BY <1>4, <2>2, ChainType
  <2>4. Shape(q', ask[r.user], r)
    BY <2>1, <2>3, ShapeKept
  <2> QED  BY <1>1, <1>5, <2>1, <2>4, InMemoryKept
<1>7. Requests'
  BY <1>1, <1>6 DEF Requests
<1>8. Completing'
  BY <1>1, <1>2, <1>3 DEF DInv, Completing, Executed
<1> QED  BY <1>1, <1>5, <1>7, <1>8 DEF DInv, Closed

(* A used entry is read: it is the head of a request that the device has   *)
(* executed, and that is now completed.                                    *)
LEMMA DataPopOne ==
  ASSUME IInv, OneHome, DInv, PopOne
  PROVE  DInv'
<1> USE DEF dmaVars, ringVars, deviceVars, clientVars
<1> DEFINE h == PopId(q)
<1>1. /\ pc = "pop" /\ q.last_used_idx # q.used_idx /\ q' = Pop(q)
      /\ UNCHANGED <<slot, seen, held, hdr, status, exec, ask, sq, batch, cq>>
  BY DEF PopOne, CanPop
<1>2. slot = None /\ cur = None /\ q \in Queue(Addr)
  BY <1>1 DEF IInv, Control, TypeOK
<1>3. /\ SameChains(q, q')
      /\ q'.avail_ring = q.avail_ring /\ q'.avail_idx = q.avail_idx
      /\ q'.used_ring = q.used_ring /\ q'.used_idx = q.used_idx
      /\ q'.last_used_idx = (q.last_used_idx + 1) % IdxMod
  BY <1>1, <1>2, PopFields
<1>4. h \in Unread /\ Unread' = Unread \ {h} /\ Distinct(q.used_ring, q.last_used_idx, q.used_idx)'
  <2>1. /\ q.last_used_idx \in Idx /\ q.used_idx \in Idx /\ q.used_ring \in [Desc -> Desc]
        /\ Distinct(q.used_ring, q.last_used_idx, q.used_idx)
    BY <1>2 DEF Queue, DInv, Rings
  <2>2. /\ h \in Between(q.used_ring, q.last_used_idx, q.used_idx)
        /\ Distinct(q.used_ring, (q.last_used_idx + 1) % IdxMod, q.used_idx)
        /\ Between(q.used_ring, (q.last_used_idx + 1) % IdxMod, q.used_idx)
             = Between(q.used_ring, q.last_used_idx, q.used_idx) \ {h}
    BY <1>1, <2>1, BetweenPop DEF PopId
  <2> HIDE DEF h
  <2> QED  BY <1>3, <2>2 DEF Unread
<1>5. Avail' = Avail /\ Owned' = Owned /\ Distinct(q.avail_ring, seen, q.avail_idx)'
  BY <1>1, <1>3 DEF Avail, Owned, DInv, Rings
<1> HIDE DEF h
<1>6. PICK r \in InFlight : r.head = h
  BY <1>4 DEF DInv, Rings
<1>7. r.pos \in SlotsOf(h)
  <2>1. \E s \in Slots : /\ pending[s] # None
                         /\ r = [pos |-> s, user |-> pending[s].user, head |-> pending[s].head]
    BY <1>2 DEF InFlight
  <2> QED  BY <1>6, <2>1 DEF SlotsOf
<1>8. PICK s \in Slots :
        /\ IsFirst(s, SlotsOf(h))
        /\ pending' = [pending EXCEPT ![s] = None]
        /\ cur' = [user |-> pending[s].user, pos |-> s, curr |-> pending[s].head]
  BY <1>7 DEF PopOne, h
<1> DEFINE t == [pos |-> s, user |-> pending[s].user, head |-> pending[s].head]
<1>9. t \in InFlight /\ InFlight' = InFlight \ {t} /\ t.head = h
  <2>1. pending[s] # None /\ pending[s].head = h
    BY <1>8 DEF IsFirst, SlotsOf
  <2> QED  BY <1>1, <1>2, <1>8, <2>1, InFlightPop DEF IInv
<1>10. cur'.pos = t.pos /\ cur'.user = t.user /\ t.pos = s
  BY <1>8
<1> HIDE DEF t
<1>11. h \notin Owned /\ Executed(t.user, t.pos)
  BY <1>4, <1>9 DEF DInv, Rings, Requests, InMemory
<1>12. {x.head : x \in InFlight'} = Owned' \cup Unread'
  <2>1. \A x \in InFlight : x # t => x.head # h
    BY <1>9, Apart
  <2>2. {x.head : x \in InFlight} = Owned \cup Unread
    BY DEF DInv, Rings
  <2>3. {x.head : x \in InFlight \ {t}} = {x.head : x \in InFlight} \ {h}
    BY <1>9, <2>1
  <2>4. Owned' \cup Unread' = (Owned \cup Unread) \ {h}
    BY <1>4, <1>5, <1>11
  <2> QED  BY <1>9, <2>2, <2>3, <2>4
<1>13. Rings'
  <2>1. Avail' \cap held' = {} /\ Unread' \cap Owned' = {}
    BY <1>1, <1>4, <1>5 DEF DInv, Rings
  <2> QED  BY <1>4, <1>5, <1>12, <2>1 DEF Rings
<1>14. Requests'
  <2>1. ASSUME NEW x \in InFlight PROVE InMemory(x)'
    <3>1. InMemory(x)
      BY DEF DInv, Requests
    <3>2. Shape(q', ask[x.user], x)
      BY <1>3, <3>1 DEF InMemory, Shape, SameChains
    <3> QED  BY <1>1, <1>5, <3>1, <3>2, InMemoryKept
  <2> QED  BY <1>9, <2>1 DEF Requests
<1>15. Completing'
  <2>1. pending'[s] = None
    BY <1>8 DEF IInv, TypeOK
  <2> QED  BY <1>1, <1>10, <1>11, <2>1 DEF Completing, Executed
<1> QED  BY <1>1, <1>13, <1>14, <1>15 DEF DInv, Closed

(* A request is made available: its chain consists of free descriptors,    *)
(* its slot is a free one.                                                 *)
LEMMA DataPublish ==
  ASSUME IInv, OneHome, DInv, Publish
  PROVE  DInv'
<1> USE DEF ringVars, deviceVars, clientVars
<1> DEFINE x  == Head(batch)
           d1 == q.free_head
           d2 == q.next[d1]
           d3 == q.next[d2]
<1>1. /\ pc = "submit" /\ batch # << >> /\ q.num_free >= 3 /\ x.kind \in Good
      /\ batch' = Tail(batch)
      /\ UNCHANGED <<pending, cur, seen, held, exec, ask, sq, cq>>
  BY DEF Publish
<1>2. PICK s \in Slots :
        /\ IsFirst(s, FreeSlots)
        /\ WriteHeader(s, x)
        /\ slot' = [pos |-> s, user |-> x.user, head |-> d1]
        /\ q' = Submit(WriteChain(x, s), d1)
  BY DEF Publish
<1>3. slot = None /\ cur = None /\ pending[s] = None /\ q \in Queue(Addr)
  BY <1>1, <1>2 DEF IInv, Control, TypeOK, IsFirst, FreeSlots
<1>4. /\ Waits(Tail(batch), ask, exec) /\ x \in Sqe
      /\ ask[x.user] = x.kind /\ exec[x.user] = None /\ x.user \in Users
  <2>1. /\ Waits(Tail(batch), ask, exec) /\ x \in Sqe
        /\ ask[x.user] = x.kind /\ exec[x.user] = None
    BY <1>1, SeqTypes, WaitsTail DEF DInv
  <2> QED  BY <2>1 DEF Sqe
<1>5. PICK F : Ownership(q, InFlight, {}, F) /\ FreeList(q, F)
  BY <1>1 DEF IInv, WalkStart, Ownership
<1>6. /\ d1 \in F /\ d2 \in F /\ d3 \in F /\ F \subseteq Desc
      /\ d1 # d2 /\ d1 # d3 /\ d2 # d3
  BY <1>1, <1>3, <1>5, FirstThree
<1> HIDE DEF x
<1>7. /\ q'.next[d1] = d2 /\ q'.next[d2] = d3
      /\ q'.addr[d1] = Hdr(s) /\ q'.addr[d2] = Data(x.user) /\ q'.addr[d3] = Status(s)
      /\ q'.flags[d1] = {NEXT} /\ q'.flags[d3] = {WRITE}
      /\ q'.flags[d2] = IF x.kind = "write" THEN {NEXT} ELSE {NEXT, WRITE}
      /\ \A d \in Desc \ {d1, d2, d3} : /\ q'.next[d] = q.next[d]
                                       /\ q'.flags[d] = q.flags[d]
                                       /\ q'.addr[d] = q.addr[d]
      /\ q'.avail_ring = [q.avail_ring EXCEPT ![q.avail_idx % Num] = d1]
      /\ q'.avail_idx = (q.avail_idx + 1) % IdxMod
      /\ q'.used_ring = q.used_ring /\ q'.used_idx = q.used_idx
      /\ q'.last_used_idx = q.last_used_idx
  BY <1>1, <1>2, <1>3, <1>4, <1>5, PublishFields, ZenonT(30)
<1> HIDE DEF d1, d2, d3
<1>8. d1 \notin Owned /\ d1 \notin Unread
  <2>1. \A r \in InFlight : r.head # d1
    BY <1>5, <1>6 DEF Ownership, Chain
  <2> QED  BY <2>1 DEF DInv, Rings
<1>9. Avail' = Avail \cup {d1} /\ Distinct(q.avail_ring, seen, q.avail_idx)'
  <2>1. /\ seen \in Idx /\ q.avail_idx \in Idx /\ q.avail_ring \in [Desc -> Desc]
        /\ Distinct(q.avail_ring, seen, q.avail_idx) /\ d1 \in Desc
    BY <1>3, <1>6 DEF IInv, TypeOK, Queue, DInv, Rings
  <2>2. d1 \notin Between(q.avail_ring, seen, q.avail_idx)
    BY <1>8, AvailIs DEF Owned
  <2> DEFINE nr == [q.avail_ring EXCEPT ![q.avail_idx % Num] = d1]
             ni == (q.avail_idx + 1) % IdxMod
  <2>3. Distinct(nr, seen, ni) /\ Between(nr, seen, ni) = Between(q.avail_ring, seen, q.avail_idx) \cup {d1}
    BY <2>1, <2>2, BetweenPush
  <2>4. q'.avail_ring = nr /\ q'.avail_idx = ni /\ seen' = seen
    BY <1>1, <1>7
  <2> HIDE DEF nr, ni
  <2>5. Avail' = Between(nr, seen, ni)
    BY <2>4 DEF Avail, Between, Count
  <2> QED  BY <2>3, <2>4, <2>5, AvailIs
<1>10. Owned' = Owned \cup {d1} /\ Unread' = Unread
  BY <1>1, <1>7, <1>9 DEF Owned, Unread
<1>11. /\ InFlight' = InFlight \cup {slot'}
       /\ slot'.pos = s /\ slot'.user = x.user /\ slot'.head = d1
  <2>1. slot' = [pos |-> s, user |-> x.user, head |-> d1] /\ d1 \in Desc
    BY <1>2, <1>6 DEF d1
  <2>2. slot' # None
    BY <1>4, <2>1, BlkAssumption DEF InSlot
  <2> QED  BY <1>1, <1>3, <2>1, <2>2, InFlightPublish
<1>12. Rings'
  <2>1. Avail' \cap held' = {} /\ Unread' \cap Owned' = {}
    BY <1>1, <1>8, <1>9, <1>10 DEF DInv, Rings, Owned
  <2>2. Distinct(q.used_ring, q.last_used_idx, q.used_idx)'
    BY <1>7 DEF DInv, Rings
  <2>3. {r.head : r \in InFlight'} = {r.head : r \in InFlight} \cup {d1}
    BY <1>11
  <2>4. {r.head : r \in InFlight'} = Owned' \cup Unread'
    BY <1>10, <2>3 DEF DInv, Rings
  <2> QED  BY <1>9, <2>1, <2>2, <2>4 DEF Rings
<1>13. /\ hdr'[s] = x.kind /\ status'[s] = "FF"
       /\ \A i \in Slots : i # s => hdr'[i] = hdr[i] /\ status'[i] = status[i]
  <2>1. hdr \in [Slots -> Good] /\ status \in [Slots -> Outcome \cup {"FF"}]
    BY DEF IInv, TypeOK
  <2>2. x.kind = "read" \/ x.kind = "write"
    BY <1>1 DEF Good, x
  <2> QED  BY <1>2, <2>1, <2>2 DEF WriteHeader
<1>14. ASSUME NEW r \in InFlight PROVE InMemory(r)'
  <2>1. InMemory(r) /\ Shape(q, ask[r.user], r)
    BY DEF DInv, Requests, InMemory
  <2>2. r.pos # s /\ r.pos \in Slots
    BY <1>3, SlotTaken
  <2>3. Chain(q, r.head) \subseteq Desc \ {d1, d2, d3}
    BY <1>5, <1>6, ChainType DEF Ownership
  <2>4. Shape(q', ask[r.user], r)
    BY <1>7, <2>1, <2>3, ShapeKept
  <2>5. r.head \in Owned' <=> r.head \in Owned
    BY <1>10, <2>3 DEF Chain
  <2> QED  BY <1>1, <1>13, <2>1, <2>2, <2>4, <2>5, InMemoryKept
<1>15. ASSUME NEW r, r = slot' PROVE InMemory(r)'
  <2>0. r.pos = s /\ r.user = x.user /\ r.head = d1
    BY <1>11, <1>15
  <2>1. Shape(q', ask[x.user], r)
    <3>1. WRITE \in q'.flags[d2] <=> x.kind = "read"
      BY <1>1, <1>7 DEF Good, x, NEXT, WRITE
    <3>2. NEXT \in q'.flags[d2]
      BY <1>7
    <3> QED  BY <1>4, <1>7, <2>0, <3>1, <3>2 DEF Shape
  <2>2. Shape(q', ask'[r.user], r)
    BY <1>1, <2>0, <2>1
  <2>3. hdr'[r.pos] = ask'[r.user] /\ status'[r.pos] = "FF" /\ exec'[r.user] = None
    BY <1>1, <1>4, <1>13, <2>0
  <2>4. r.head \in Owned'
    BY <1>10, <2>0
  <2> QED  BY <2>2, <2>3, <2>4 DEF InMemory
<1>16. Requests'
  BY <1>11, <1>14, <1>15 DEF Requests
<1> QED  BY <1>1, <1>3, <1>4, <1>12, <1>16 DEF DInv, Completing, Closed

-----------------------------------------------------------------------------
(* The steps of the device and the client.                                 *)

(* The device takes a chain from the available ring.                       *)
LEMMA DataDevTake ==
  ASSUME IInv, DInv, DevTake
  PROVE  DInv'
<1> USE DEF driverVars, dmaVars, ringVars, clientVars
<1> DEFINE h == DevTakeId(q, seen)
<1>1. /\ seen # q.avail_idx /\ held' = held \cup {h} /\ seen' = (seen + 1) % IdxMod
      /\ InFlight' = InFlight
      /\ UNCHANGED <<q, pending, cur, hdr, status, exec, ask, sq, batch, cq>>
  BY DEF DevTake, DevCanTake, InFlight
<1>2. h \in Avail /\ Avail' = Avail \ {h} /\ Distinct(q.avail_ring, seen, q.avail_idx)'
  <2>1. /\ seen \in Idx /\ q.avail_idx \in Idx /\ q.avail_ring \in [Desc -> Desc]
        /\ Distinct(q.avail_ring, seen, q.avail_idx)
    BY DEF IInv, TypeOK, Queue, DInv, Rings
  <2> DEFINE n == (seen + 1) % IdxMod
  <2>2. /\ h \in Between(q.avail_ring, seen, q.avail_idx)
        /\ Distinct(q.avail_ring, n, q.avail_idx)
        /\ Between(q.avail_ring, n, q.avail_idx)
             = Between(q.avail_ring, seen, q.avail_idx) \ {h}
    BY <1>1, <2>1, BetweenPop DEF DevTakeId
  <2>3. seen' = n /\ q' = q
    BY <1>1
  <2> HIDE DEF n, h
  <2>4. Avail' = Between(q.avail_ring, n, q.avail_idx)
    BY <2>3 DEF Avail, Between, Count
  <2> QED  BY <2>2, <2>3, <2>4, AvailIs
<1> HIDE DEF h
<1>3. Owned' = Owned /\ Unread' = Unread /\ Avail' \cap held' = {}
  BY <1>1, <1>2 DEF Owned, Unread, DInv, Rings
<1>4. Rings'
  BY <1>1, <1>2, <1>3 DEF DInv, Rings
<1>5. ASSUME NEW r \in InFlight PROVE InMemory(r)'
  BY <1>1, <1>3 DEF DInv, Requests, InMemory, Executed
<1>6. Requests'
  BY <1>1, <1>5 DEF Requests
<1> QED  BY <1>1, <1>4, <1>6 DEF DInv, Completing, Closed, Executed

(* The device executes a chain it has taken: the request it belongs to.    *)
LEMMA DevDoneIs ==
  ASSUME IInv, DInv, NEW h \in held, NEW st \in Outcome, DevDone(h, st)
  PROVE  \E r \in InFlight :
           /\ r.head = h /\ h \in Owned /\ h \in Desc
           /\ exec[r.user] = None /\ ask[r.user] \in Good
           /\ exec' = [exec EXCEPT ![r.user] = [op |-> ask[r.user], st |-> st]]
           /\ status' = [status EXCEPT ![r.pos] = st]
<1>1. h \in Owned /\ h \in Desc
  BY DEF Owned, IInv, TypeOK
<1>2. PICK r \in InFlight : r.head = h
  BY <1>1 DEF DInv, Rings
<1>3. InMemory(r) /\ r.pos \in Slots /\ r.user \in Users
  BY ChainType DEF DInv, Requests
<1>4. /\ q.addr[h].at = r.pos
      /\ q.addr[q.next[h]].at = r.user
      /\ q.addr[q.next[q.next[h]]].at = r.pos
  BY <1>2, <1>3 DEF InMemory, Shape, Hdr, Data, Status
<1>5. hdr[r.pos] = ask[r.user] /\ hdr[r.pos] \in Good /\ exec[r.user] = None
  BY <1>1, <1>2, <1>3 DEF InMemory, IInv, TypeOK
<1> QED  BY <1>1, <1>2, <1>4, <1>5 DEF DevDone, DevExecute

\* The device answers in the slot of the request whose chain it held.
LEMMA DataDevDone ==
  ASSUME IInv, OneHome, DInv, NEW h \in held, NEW st \in Outcome, DevDone(h, st)
  PROVE  DInv'
<1> USE DEF driverVars, ringVars, clientVars
<1>1. PICK r \in InFlight :
        /\ r.head = h /\ h \in Owned /\ h \in Desc
        /\ exec[r.user] = None /\ ask[r.user] \in Good
        /\ exec' = [exec EXCEPT ![r.user] = [op |-> ask[r.user], st |-> st]]
        /\ status' = [status EXCEPT ![r.pos] = st]
  BY DevDoneIs
<1>2. /\ q' = DevUse(q, h) /\ held' = held \ {h} /\ InFlight' = InFlight
      /\ UNCHANGED <<pending, slot, cur, seen, hdr, ask, sq, batch, cq>>
  BY DEF DevDone, InFlight
<1>3. q \in Queue(Addr) /\ r.user \in Users /\ r.pos \in Slots
  BY ChainType DEF IInv, TypeOK
<1>4. /\ SameChains(q, q')
      /\ q'.avail_ring = q.avail_ring /\ q'.avail_idx = q.avail_idx
      /\ q'.last_used_idx = q.last_used_idx
      /\ q'.used_ring = [q.used_ring EXCEPT ![q.used_idx % Num] = h]
      /\ q'.used_idx = (q.used_idx + 1) % IdxMod
  BY <1>1, <1>2, <1>3, DevUseFields
<1>5. Unread' = Unread \cup {h} /\ Distinct(q.used_ring, q.last_used_idx, q.used_idx)'
  <2>1. /\ q.last_used_idx \in Idx /\ q.used_idx \in Idx /\ q.used_ring \in [Desc -> Desc]
        /\ Distinct(q.used_ring, q.last_used_idx, q.used_idx)
    BY <1>3 DEF Queue, DInv, Rings
  <2>2. h \notin Between(q.used_ring, q.last_used_idx, q.used_idx)
    BY <1>1 DEF DInv, Rings, Unread
  <2> DEFINE nr == [q.used_ring EXCEPT ![q.used_idx % Num] = h]
             ni == (q.used_idx + 1) % IdxMod
  <2>3. /\ Distinct(nr, q.last_used_idx, ni)
        /\ Between(nr, q.last_used_idx, ni)
             = Between(q.used_ring, q.last_used_idx, q.used_idx) \cup {h}
    BY <1>1, <2>1, <2>2, BetweenPush
  <2>4. q'.used_ring = nr /\ q'.used_idx = ni /\ q'.last_used_idx = q.last_used_idx
    BY <1>4
  <2> HIDE DEF nr, ni
  <2> QED  BY <2>3, <2>4 DEF Unread
<1>6. Avail' = Avail /\ Distinct(q.avail_ring, seen, q.avail_idx)'
  BY <1>2, <1>4 DEF Avail, DInv, Rings
<1>7. Owned' = Owned \ {h} /\ Avail' \cap held' = {} /\ Unread' \cap Owned' = {}
  BY <1>2, <1>5, <1>6 DEF Owned, DInv, Rings
<1>8. Rings'
  BY <1>1, <1>2, <1>5, <1>6, <1>7 DEF DInv, Rings
<1>9. /\ \A u \in Users : u # r.user => exec'[u] = exec[u]
      /\ \A s \in Slots : s # r.pos => status'[s] = status[s]
      /\ exec'[r.user] = [op |-> ask[r.user], st |-> st] /\ status'[r.pos] = st
  BY <1>1, <1>3 DEF IInv, TypeOK
<1>10. ASSUME NEW t \in InFlight PROVE InMemory(t)'
  <2>1. InMemory(t) /\ t.user \in Users /\ t.pos \in Slots
    BY ChainType DEF DInv, Requests
  <2>2. Shape(q', ask[t.user], t)
    BY <1>4, <2>1 DEF InMemory, Shape, SameChains
  <2>3. CASE t = r
    <3>1. t.head \notin Owned'
      BY <1>1, <1>7, <2>3
    <3>2. Executed(t.user, t.pos)'
      BY <1>1, <1>2, <1>9, <2>3 DEF Executed, Done
    <3> QED  BY <1>2, <2>1, <2>2, <3>1, <3>2 DEF InMemory
  <2>4. CASE t # r
    <3>1. t.pos # r.pos /\ t.user # r.user /\ t.head # r.head
      BY <2>4, Apart
    <3>2. t.head \in Owned' <=> t.head \in Owned
      BY <1>1, <1>7, <3>1
    <3> QED  BY <1>2, <1>9, <2>1, <2>2, <3>1, <3>2, InMemoryKept
  <2> QED  BY <2>3, <2>4
<1>11. Requests'
  BY <1>2, <1>10 DEF Requests
<1>12. Flies(r.user) /\ ~Queued(r.user) /\ ~Taken(r.user) /\ ~Told(r.user) /\ ~Walks(r.user)
  BY <1>3, Where DEF Flies
<1>13. Completing'
  <2> SUFFICES ASSUME cur # None PROVE pending[cur.pos] = None /\ Executed(cur.user, cur.pos)'
    BY <1>2 DEF Completing
  <2>1. cur.user # r.user
    BY <1>12 DEF Walks
  <2>2. slot = None /\ cur.user \in Users /\ cur.pos \in Slots
    BY DEF IInv, Control, TypeOK, Walk
  <2>3. pending[cur.pos] = None /\ Executed(cur.user, cur.pos)
    BY DEF DInv, Completing
  <2>4. cur.pos # r.pos
    BY <2>2, <2>3, SlotTaken
  <2> QED  BY <1>2, <1>9, <2>1, <2>2, <2>3, <2>4 DEF Executed
<1>14. /\ \A i \in 1 .. Len(sq) : sq[i].user \in Users /\ sq[i].user # r.user
       /\ \A i \in 1 .. Len(batch) : batch[i].user \in Users /\ batch[i].user # r.user
       /\ \A i \in 1 .. Len(cq) : cq[i].user \in Users /\ cq[i].user # r.user
  BY <1>12, EntryUsers DEF Queued, Taken, Told
<1>15. Waits(sq, ask, exec') /\ Waits(batch, ask, exec')
  BY <1>9, <1>14, WaitsKept DEF DInv
<1>16. Answers(cq, exec')
  BY <1>9, <1>14, AnswersKept DEF DInv
<1>17. Closed'
  <2>1. ask[r.user] # None
    BY <1>1, BlkAssumption DEF Kind, Good
  <2> QED  BY <1>2, <1>9, <2>1 DEF DInv, Closed
<1> QED  BY <1>2, <1>8, <1>11, <1>13, <1>15, <1>16, <1>17 DEF DInv

(* The client opens a request.                                             *)
LEMMA DataSubmit ==
  ASSUME IInv, OneHome, DInv, NEW u \in Users, NEW k \in Kinds, ClientSubmit(u, k)
  PROVE  DInv'
<1> USE DEF driverVars, dmaVars, deviceVars
<1> DEFINE x == [user |-> u, kind |-> k]
<1>1. /\ ask[u] = None /\ ask' = [ask EXCEPT ![u] = k] /\ sq' = Append(sq, x)
      /\ InFlight' = InFlight
      /\ UNCHANGED <<q, pending, cur, seen, held, hdr, status, exec, batch, cq>>
  BY DEF ClientSubmit, InFlight
<1>2. x \in Sqe /\ x.user = u /\ x.kind = k
  BY DEF Sqe
<1> HIDE DEF x
<1>3. ~Queued(u) /\ ~Taken(u) /\ ~Flies(u) /\ ~Walks(u)
  BY <1>1, Where
<1>4. ask'[u] = k /\ \A v \in Users : v # u => ask'[v] = ask[v]
  BY <1>1 DEF IInv, TypeOK
<1>5. /\ \A i \in 1 .. Len(sq) : sq[i].user \in Users /\ sq[i].user # u
      /\ \A i \in 1 .. Len(batch) : batch[i].user \in Users /\ batch[i].user # u
  BY <1>3, EntryUsers DEF Queued, Taken
<1>6. Waits(sq, ask', exec) /\ Waits(batch, ask', exec)
  BY <1>4, <1>5, WaitsKept DEF DInv
<1>7. exec[u] = None
  BY <1>1 DEF DInv, Closed
<1>8. Waits(Append(sq, x), ask', exec)
  BY <1>2, <1>4, <1>6, <1>7, SeqTypes, WaitsAppend
<1>9. Waits(sq', ask', exec') /\ Waits(batch', ask', exec')
  BY <1>1, <1>6, <1>8
<1>10. Rings' /\ Owned' = Owned
  BY <1>1, RingsFrame DEF DInv, SameRings
<1>11. ASSUME NEW r \in InFlight PROVE InMemory(r)'
  <2>1. InMemory(r) /\ r.user \in Users /\ r.user # u
    BY <1>3, ChainType DEF DInv, Requests, Flies
  <2>2. ask'[r.user] = ask[r.user]
    BY <1>4, <2>1
  <2> QED  BY <1>1, <1>10, <2>1, <2>2, InMemoryKept DEF InMemory
<1>12. Requests'
  BY <1>1, <1>11 DEF Requests
<1>13. Completing'
  <2> SUFFICES ASSUME cur # None PROVE pending[cur.pos] = None /\ Executed(cur.user, cur.pos)'
    BY <1>1 DEF Completing
  <2>1. cur.user # u /\ cur.user \in Users
    BY <1>3 DEF Walks, IInv, TypeOK, Walk
  <2> QED  BY <1>1, <1>4, <2>1 DEF DInv, Completing, Executed
<1>14. Closed'
  BY <1>1, <1>4, <1>7 DEF DInv, Closed
<1> QED  BY <1>1, <1>9, <1>10, <1>12, <1>13, <1>14 DEF DInv

(* The client reads a completion entry, which closes the request.          *)
LEMMA DataReap ==
  ASSUME IInv, OneHome, DInv, ClientReap
  PROVE  /\ DInv'
         /\ Head(cq).user \in Users /\ Told(Head(cq).user)
         /\ \A i \in 1 .. Len(Tail(cq)) : Tail(cq)[i].user \in Users /\ Tail(cq)[i].user # Head(cq).user
<1> USE DEF driverVars, dmaVars
<1> DEFINE u == Head(cq).user
<1>1. /\ ask' = [ask EXCEPT ![u] = None] /\ exec' = [exec EXCEPT ![u] = None]
      /\ cq # << >> /\ cq' = Tail(cq) /\ InFlight' = InFlight
      /\ UNCHANGED <<q, pending, cur, seen, held, hdr, status, batch, sq>>
  BY DEF ClientReap, InFlight
<1>2. /\ Len(cq) \in Nat \ {0} /\ Head(cq) = cq[1] /\ cq[1] \in CqEntry
      /\ Len(Tail(cq)) = Len(cq) - 1
      /\ \A i \in 1 .. Len(Tail(cq)) : /\ i + 1 \in 1 .. Len(cq) /\ i + 1 # 1
                                       /\ Tail(cq)[i] = cq[i + 1] /\ cq[i + 1] \in CqEntry
      /\ 1 \in 1 .. Len(cq)
  <2>1. cq \in Seq(CqEntry)
    BY SeqTypes
  <2> QED  BY <1>1, <2>1
<1>3. u \in Users /\ Told(u)
  BY <1>2 DEF CqEntry, Told
<1>4. \A i \in 1 .. Len(Tail(cq)) : Tail(cq)[i].user \in Users /\ Tail(cq)[i].user # u
  <2>1. \A i, j \in 1 .. Len(cq) : cq[i].user = u /\ cq[j].user = u => i = j
    BY <1>3, Where
  <2> QED  BY <1>2, <2>1 DEF CqEntry
<1>5. ~Queued(u) /\ ~Taken(u) /\ ~Flies(u) /\ ~Walks(u)
  BY <1>3, Where
<1> HIDE DEF u
<1>6. /\ ask'[u] = None /\ exec'[u] = None
      /\ \A v \in Users : v # u => ask'[v] = ask[v] /\ exec'[v] = exec[v]
  BY <1>1, <1>3 DEF IInv, TypeOK
<1>7. /\ \A i \in 1 .. Len(sq) : sq[i].user \in Users /\ sq[i].user # u
      /\ \A i \in 1 .. Len(batch) : batch[i].user \in Users /\ batch[i].user # u
  BY <1>5, EntryUsers DEF Queued, Taken
<1>8. Waits(sq, ask', exec') /\ Waits(batch, ask', exec')
  BY <1>6, <1>7, WaitsKept DEF DInv
<1>9. Answers(Tail(cq), exec')
  <2>1. Answers(Tail(cq), exec)
    BY <1>2 DEF DInv, Answers
  <2> QED  BY <1>4, <1>6, <2>1, AnswersKept
<1>10. Rings' /\ Owned' = Owned
  BY <1>1, RingsFrame DEF DInv, SameRings
<1>11. ASSUME NEW r \in InFlight PROVE InMemory(r)'
  <2>1. InMemory(r) /\ r.user \in Users /\ r.user # u
    BY <1>5, ChainType DEF DInv, Requests, Flies
  <2>2. ask'[r.user] = ask[r.user] /\ exec'[r.user] = exec[r.user]
    BY <1>6, <2>1
  <2> QED  BY <1>1, <1>10, <2>1, <2>2, InMemoryKept DEF InMemory
<1>12. Requests'
  BY <1>1, <1>11 DEF Requests
<1>13. Completing'
  <2> SUFFICES ASSUME cur # None PROVE pending[cur.pos] = None /\ Executed(cur.user, cur.pos)'
    BY <1>1 DEF Completing
  <2>1. cur.user # u /\ cur.user \in Users
    BY <1>5 DEF Walks, IInv, TypeOK, Walk
  <2> QED  BY <1>1, <1>6, <2>1 DEF DInv, Completing, Executed
<1>14. Closed'
  BY <1>6 DEF DInv, Closed
<1> QED  BY <1>1, <1>3, <1>4, <1>8, <1>9, <1>10, <1>12, <1>13, <1>14 DEF DInv, u

\* Every step keeps the requests intact in memory, waiting or truly answered.
LEMMA DataStep ==
  ASSUME IInv, OneHome, DInv, [Next]_vars
  PROVE  DInv'
<1> USE DEF vars, driverVars, dmaVars, ringVars, kernelVars, deviceVars, clientVars
<1>1. CASE Record
  <2>1. InFlight' = InFlight /\ cur = None
    BY <1>1, InFlightRecord DEF IInv, Control, Record
  <2> QED  BY <1>1, <2>1, DataQuiet DEF Record, Completing
<1>2. CASE Recv \/ RecvBare \/ IrqRead \/ IrqAck \/ Unmask \/ PopNone \/ FetchDone \/ SubmitDone
  <2>1. UNCHANGED <<q, pending, slot, cur, seen, held, hdr, status, exec, ask, sq, batch, cq>>
    BY <1>2 DEF Recv, RecvBare, IrqRead, IrqAck, Unmask, PopNone, FetchDone, SubmitDone
  <2> QED  BY <2>1, DataQuiet DEF InFlight, DInv, Completing, Executed
<1>3. CASE DevSleep \/ DevRaise \/ DevConfig \/ KernelIrq \/ ClientNotify \/ ClientPoke
           \/ UNCHANGED vars
  <2>1. UNCHANGED <<q, pending, slot, cur, seen, held, hdr, status, exec, ask, sq, batch, cq>>
    BY <1>3 DEF DevSleep, DevRaise, DevConfig, KernelIrq, ClientNotify, ClientPoke
  <2> QED  BY <2>1, DataQuiet DEF InFlight, DInv, Completing, Executed
<1>4. CASE Complete \/ Fetch \/ FreeOne \/ PopOne \/ Publish
           \/ RefuseEarly \/ RefuseBadAddr \/ RefuseNoDesc
  BY <1>4, DataComplete, DataFetch, DataFreeOne, DataPopOne, DataPublish, DataRefuse
<1>5. CASE DevTake \/ ClientReap
  BY <1>5, DataDevTake, DataReap
<1>6. CASE \E h \in held, st \in Outcome : DevDone(h, st)
  BY <1>6, DataDevDone
<1>7. CASE \E u \in Users, k \in Kinds : ClientSubmit(u, k)
  BY <1>7, DataSubmit
<1> QED  BY <1>1, <1>2, <1>3, <1>4, <1>5, <1>6, <1>7 DEF Next, Driver, Device, Client

\* The three invariants together.
AllInv == IInv /\ OneHome /\ DInv

\* The invariant of places and memory holds of every behaviour.
LEMMA AllInvariant == Spec => []AllInv
<1>1. Init => AllInv
  BY InitIInv, HomeInit, DataInit DEF AllInv
<1>2. AllInv /\ [Next]_vars => AllInv'
  BY NextIInv, HomeStep, DataStep DEF AllInv
<1> QED  BY <1>1, <1>2, PTL DEF Spec

(* What the device may still read or write is the memory of one request    *)
(* that is recorded, as it was submitted, and of that one alone            *)
(* (submit_virtio_request, pop_completions).                               *)
THEOREM MemoryTheorem == Spec => []DeviceMemoryStable
<1>1. AllInv => DeviceMemoryStable
  <2> SUFFICES ASSUME AllInv, NEW h \in Owned
               PROVE  \E r \in InFlight :
                        /\ r.head = h
                        /\ q.addr[h] = Hdr(r.pos) /\ q.flags[h] = {NEXT}
                        /\ LET d2 == q.next[h]
                               d3 == q.next[d2]
                           IN  /\ q.addr[d2] = Data(r.user) /\ NEXT \in q.flags[d2]
                               /\ (WRITE \in q.flags[d2]) = (ask[r.user] = "read")
                               /\ q.addr[d3] = Status(r.pos) /\ q.flags[d3] = {WRITE}
                        /\ hdr[r.pos] = ask[r.user]
                        /\ status[r.pos] = "FF"
                        /\ \A t \in InFlight \ {r} : t.pos # r.pos /\ t.user # r.user /\ t.head # h
    BY DEF DeviceMemoryStable
  <2>1. PICK r \in InFlight : r.head = h
    BY DEF AllInv, DInv, Rings
  <2>2. InMemory(r)
    BY DEF AllInv, DInv, Requests
  <2>3. \A t \in InFlight \ {r} : t.pos # r.pos /\ t.user # r.user /\ t.head # h
    BY <2>1, Apart DEF AllInv
  <2> QED  BY <2>1, <2>2, <2>3 DEF InMemory, Shape
<1> QED  BY <1>1, AllInvariant, PTL

-----------------------------------------------------------------------------
(* The driver implements the contract.                                     *)

\* The result of what was done, as the contract's constant Result has it.
LEMMA ResultIs ==
  ASSUME NEW d \in Done
  PROVE  [x \in Done |-> IF x.st = "OK" THEN 0 ELSE -1][d] = Answer(d)
BY BlkAssumption DEF Answer

\* Whom a completion ring answers, and what it says.
Names(c, u)    == \E i \in 1 .. Len(c) : c[i].user = u
AnswerOf(c, u) == IF Names(c, u) THEN c[CHOOSE i \in 1 .. Len(c) : c[i].user = u].res ELSE None

\* The answer read off the completion ring is the one the user's result calls for.
LEMMA AnswerOfIs ==
  ASSUME NEW c, NEW e, Answers(c, e), NEW u
  PROVE  /\ Names(c, u) => AnswerOf(c, u) = Answer(e[u]) /\ AnswerOf(c, u) # None
         /\ ~Names(c, u) => AnswerOf(c, u) = None
<1>1. CASE Names(c, u)
  <2> DEFINE i == CHOOSE i \in 1 .. Len(c) : c[i].user = u
  <2>1. i \in 1 .. Len(c) /\ c[i].user = u
    BY <1>1 DEF Names
  <2>2. AnswerOf(c, u) = c[i].res
    BY <1>1 DEF AnswerOf
  <2> HIDE DEF i
  <2>3. c[i].res = Answer(e[u])
    BY <2>1 DEF Answers
  <2>4. Answer(e[u]) # None
    BY BlkAssumption DEF Answer
  <2> QED  BY <1>1, <2>2, <2>3, <2>4
<1>2. CASE ~Names(c, u)
  BY <1>2 DEF AnswerOf
<1> QED  BY <1>1, <1>2

\* The value of the contract's variable `answer`.
answer == [u \in Users |-> AnswerIn(u)]

\* The abstract answers, and being told, in terms of the completion ring.
LEMMA AnswerIs ==
  /\ answer = [u \in Users |-> AnswerOf(cq, u)]
  /\ answer' = [u \in Users |-> AnswerOf(cq', u)]
  /\ \A u \in Users : Told(u) <=> Names(cq, u)
BY DEF answer, AnswerIn, AnswerOf, Names, Told

(* One more entry on the completion ring is one more answer.               *)
LEMMA AnswerAppend ==
  ASSUME AllInv, AllInv', UNCHANGED <<ask, exec>>, NEW u \in Users, ~Told(u), ask[u] # None,
         NEW n, cq' = Cqe(u, n)
  PROVE  Contract!Answer(u)
<1>1. cq \in Seq(CqEntry)
  BY SeqTypes DEF AllInv
<1>2. ASSUME NEW v \in Users PROVE Names(cq', v) <=> Names(cq, v) \/ v = u
  <2> DEFINE x == [user |-> u, res |-> n]
  <2>1. x.user = u /\ cq' = Append(cq, x)
    BY DEF Cqe
  <2> HIDE DEF x
  <2>2. /\ Len(cq') = Len(cq) + 1 /\ cq'[Len(cq) + 1] = x /\ Len(cq) \in Nat
        /\ \A i \in 1 .. Len(cq) : cq'[i] = cq[i]
    BY <1>1, <2>1
  <2>3. /\ \A i \in 1 .. Len(cq) + 1 : i = Len(cq) + 1 \/ i \in 1 .. Len(cq)
        /\ \A i \in 1 .. Len(cq) : i \in 1 .. Len(cq) + 1
        /\ Len(cq) + 1 \in 1 .. Len(cq) + 1
    BY <2>2
  <2> QED  BY <2>1, <2>2, <2>3 DEF Names
<1>3. Answers(cq, exec) /\ Answers(cq', exec)
  BY DEF AllInv, DInv
<1>4. answer[u] = None
  BY <1>3, AnswerOfIs, AnswerIs
<1>5. answer' = [answer EXCEPT ![u] = Answer(exec[u])]
  <2>1. ASSUME NEW v \in Users
        PROVE  AnswerOf(cq', v) = IF v = u THEN Answer(exec[u]) ELSE AnswerOf(cq, v)
    BY <1>2, <1>3, AnswerOfIs
  <2> QED  BY <2>1, AnswerIs
<1>6. Answer(exec[u]) = IF exec[u] = None THEN -1
                        ELSE [d \in Done |-> IF d.st = "OK" THEN 0 ELSE -1][exec[u]]
  BY BlkAssumption DEF Answer, AllInv, IInv, TypeOK
<1> QED  BY <1>4, <1>5, <1>6 DEF Contract!Answer, answer

\* Every step of the driver is a step of the contract, or changes nothing it sees.
LEMMA ContractStep ==
  ASSUME AllInv, AllInv', [Next]_vars
  PROVE  [Contract!Next]_(Contract!vars)
<1> USE DEF vars, driverVars, dmaVars, ringVars, kernelVars, deviceVars, clientVars
<1>0. IInv /\ OneHome /\ DInv
  BY DEF AllInv
<1>1. ASSUME UNCHANGED <<ask, exec, cq>> PROVE UNCHANGED Contract!vars
  BY <1>1 DEF Contract!vars, AnswerIn
<1>2. CASE RefuseEarly \/ RefuseBadAddr \/ RefuseNoDesc
  <2>1. /\ batch # << >> /\ cq' = Cqe(Head(batch).user, -1) /\ UNCHANGED <<ask, exec>>
    BY <1>2 DEF RefuseEarly, RefuseBadAddr, RefuseNoDesc, Refuse
  <2>2. Head(batch).user \in Users /\ Taken(Head(batch).user)
    <3>1. /\ batch \in Seq(Sqe) /\ Head(batch) \in Sqe /\ Head(batch) = batch[1]
          /\ 1 \in 1 .. Len(batch)
      BY <1>0, <2>1, SeqTypes
    <3> QED  BY <3>1 DEF Sqe, Taken
  <2>3. ~Told(Head(batch).user) /\ ask[Head(batch).user] # None
    BY <1>0, <2>2, Where
  <2>4. Contract!Answer(Head(batch).user)
    BY <2>1, <2>2, <2>3, AnswerAppend
  <2> QED  BY <2>2, <2>4 DEF Contract!Next
<1>3. CASE Complete
  <2>1. /\ UNCHANGED <<ask, exec>>
        /\ cq' = Cqe(cur.user, IF status[cur.pos] = "OK" THEN 0 ELSE -1)
    BY <1>3 DEF Complete
  <2>2. cur.user \in Users /\ Walks(cur.user)
    BY <1>0, <1>3 DEF Complete, IInv, Control, TypeOK, Walk, Walks
  <2>3. ~Told(cur.user) /\ ask[cur.user] # None
    BY <1>0, <2>2, Where
  <2>4. Contract!Answer(cur.user)
    BY <2>1, <2>2, <2>3, AnswerAppend
  <2> QED  BY <2>2, <2>4 DEF Contract!Next
<1>4. CASE \E h \in held, st \in Outcome : DevDone(h, st)
  <2>1. PICK h \in held, st \in Outcome : DevDone(h, st)
    BY <1>4
  <2>2. PICK r \in InFlight :
          /\ exec[r.user] = None /\ ask[r.user] \in Good
          /\ exec' = [exec EXCEPT ![r.user] = [op |-> ask[r.user], st |-> st]]
    BY <1>0, <2>1, DevDoneIs
  <2>3. r.user \in Users /\ ~Told(r.user)
    BY <1>0, ChainType, Where DEF Flies
  <2>4. answer[r.user] = None
    BY <1>0, <2>3, AnswerOfIs, AnswerIs DEF DInv
  <2>5. UNCHANGED <<ask, cq>>
    BY <2>1 DEF DevDone
  <2>6. answer' = answer
    BY <2>5, AnswerIs
  <2>7. [op |-> ask[r.user], st |-> st] \in Done
    BY <2>2 DEF Done
  <2>8. Contract!Execute(r.user)
    BY <2>2, <2>4, <2>5, <2>6, <2>7 DEF Contract!Execute, answer
  <2> QED  BY <2>3, <2>8 DEF Contract!Next
<1>5. CASE \E u \in Users, k \in Kinds : ClientSubmit(u, k)
  <2>1. PICK u \in Users, k \in Kinds : ClientSubmit(u, k)
    BY <1>5
  <2>2. /\ ask[u] = None /\ ask' = [ask EXCEPT ![u] = k] /\ UNCHANGED <<exec, cq>>
    BY <2>1 DEF ClientSubmit
  <2>3. answer' = answer
    BY <2>2, AnswerIs
  <2>4. Contract!Ask(u)
    BY <2>2, <2>3 DEF Contract!Ask, answer
  <2> QED  BY <2>4 DEF Contract!Next
<1>6. CASE ClientReap
  <2> DEFINE u == Head(cq).user
  <2>1. /\ cq' = Tail(cq) /\ ask' = [ask EXCEPT ![u] = None] /\ exec' = [exec EXCEPT ![u] = None]
        /\ cq # << >>
    BY <1>6 DEF ClientReap
  <2>2. /\ u \in Users /\ Told(u) /\ ~Names(cq', u)
    BY <1>0, <1>6, <2>1, DataReap DEF Names
  <2>3. ASSUME NEW v \in Users, v # u PROVE Names(cq', v) <=> Names(cq, v)
    <3>1. cq \in Seq(CqEntry)
      BY <1>0, SeqTypes
    <3>2. /\ Len(cq') = Len(cq) - 1 /\ Len(cq) \in Nat \ {0} /\ cq[1].user = u
          /\ \A i \in 1 .. Len(cq') : cq'[i] = cq[i + 1] /\ i + 1 \in 1 .. Len(cq)
      BY <2>1, <3>1
    <3>3. \A i \in 1 .. Len(cq) : i # 1 => i - 1 \in 1 .. Len(cq') /\ (i - 1) + 1 = i
      BY <3>2
    <3> HIDE DEF u
    <3>4. ASSUME NEW i \in 1 .. Len(cq), cq[i].user = v PROVE Names(cq', v)
      <4>1. i # 1
        BY <2>3, <3>2, <3>4
      <4>2. i - 1 \in 1 .. Len(cq') /\ cq'[i - 1] = cq[i]
        BY <3>2, <3>3, <4>1
      <4> QED  BY <3>4, <4>2 DEF Names
    <3>5. ASSUME NEW i \in 1 .. Len(cq'), cq'[i].user = v PROVE Names(cq, v)
      BY <3>2, <3>5 DEF Names
    <3> QED  BY <3>4, <3>5 DEF Names
  <2> HIDE DEF u
  <2>4. Answers(cq, exec) /\ Answers(cq', exec')
    BY DEF AllInv, DInv
  <2>5. answer[u] # None
    BY <2>2, <2>4, AnswerOfIs, AnswerIs
  <2>6. answer' = [answer EXCEPT ![u] = None]
    <3>1. exec \in [Users -> Done \cup {None}]
      BY <1>0 DEF IInv, TypeOK
    <3>2. \A v \in Users : v # u => exec'[v] = exec[v]
      BY <2>1, <3>1
    <3>3. ASSUME NEW v \in Users
          PROVE  AnswerOf(cq', v) = IF v = u THEN None ELSE AnswerOf(cq, v)
      BY <2>2, <2>3, <2>4, <3>2, AnswerOfIs
    <3> QED  BY <3>3, AnswerIs
  <2>7. Contract!Close(u)
    BY <2>1, <2>5, <2>6 DEF Contract!Close, answer
  <2> QED  BY <2>2, <2>7 DEF Contract!Next
<1>7. CASE Recv \/ RecvBare \/ IrqRead \/ IrqAck \/ Unmask \/ PopOne \/ PopNone \/ FreeOne
           \/ Fetch \/ FetchDone \/ Publish \/ Record \/ SubmitDone
  BY <1>1, <1>7 DEF Recv, RecvBare, IrqRead, IrqAck, Unmask, PopOne, PopNone, FreeOne, Fetch,
                    FetchDone, Publish, Record, SubmitDone
<1>8. CASE DevTake \/ DevSleep \/ DevRaise \/ DevConfig \/ KernelIrq \/ ClientNotify
           \/ ClientPoke \/ UNCHANGED vars
  BY <1>1, <1>8 DEF DevTake, DevSleep, DevRaise, DevConfig, KernelIrq, ClientNotify, ClientPoke
<1> QED  BY <1>2, <1>3, <1>4, <1>5, <1>6, <1>7, <1>8 DEF Next, Driver, Device, Client

\* The driver starts where the contract does.
LEMMA ContractInit == Init => Contract!Init
<1> SUFFICES ASSUME Init PROVE Contract!Init
  OBVIOUS
<1>1. \A u \in Users : AnswerIn(u) = None
  BY DEF Init, AnswerIn
<1> QED  BY <1>1 DEF Init, Contract!Init

(* The driver, its device and its client implement IoContract: a request   *)
(* is executed at most once and as asked, is answered once, and the answer *)
(* tells whether it was executed and with which result (blk.rs, server.rs).*)
THEOREM Refinement == Spec => ImplementsContract
<1>1. AllInv /\ AllInv' /\ [Next]_vars => [Contract!Next]_(Contract!vars)
  BY ContractStep
<1> QED  BY <1>1, ContractInit, AllInvariant, PTL DEF Spec, ImplementsContract, Contract!Spec
=============================================================================
