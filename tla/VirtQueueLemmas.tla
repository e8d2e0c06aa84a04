-------------------------- MODULE VirtQueueLemmas --------------------------
(***************************************************************************)
(* What the operations of the virtqueue do, for every queue size: to its   *)
(* free list, to its rings, and to the rings shared with the client.       *)
(* FreeList(q, F) is a predicate over the whole list, so that its users    *)
(* reason about the set F of free descriptors and never about the `next`   *)
(* fields that link them; Between(ring, from, to) does the same for what   *)
(* a ring holds, so that they never count modulo the queue size.           *)
(***************************************************************************)
EXTENDS VirtQueue, Sequences, FiniteSetTheorems, TLAPS

(* A fresh queue has every descriptor on its free list (VirtQueue::new).   *)
LEMMA NewQueueFree ==
  ASSUME NEW A, NEW zero \in A
  PROVE  /\ NewQueue(zero) \in Queue(A)
         /\ FreeList(NewQueue(zero), Desc)
<1> USE QueueAssumption
<1> DEFINE q == NewQueue(zero)
           s == [i \in 1 .. Num |-> i - 1]
<1>1. q \in Queue(A)
  BY DEF NewQueue, Queue, Desc, Idx, NEXT, WRITE
<1>2. s \in [1 .. q.num_free -> Desc]
  BY DEF NewQueue, Desc
<1>3. IsFreeWalk(q, Desc, s)
  <2>1. q.num_free = Num /\ q.free_head = 0
    BY DEF NewQueue
  <2>2. \A i \in 1 .. Num - 1 : s[i + 1] = q.next[s[i]]
    BY DEF NewQueue, Desc
  <2>3. Desc = {s[i] : i \in 1 .. Num}
    <3>1. \A d \in Desc : d + 1 \in 1 .. Num /\ s[d + 1] = d
      BY DEF Desc
    <3>2. \A i \in 1 .. Num : s[i] \in Desc
      BY DEF Desc
    <3> HIDE DEF s
    <3> QED  BY <3>1, <3>2
  <2>4. \A i, j \in 1 .. Num : s[i] = s[j] => i = j
    OBVIOUS
  <2>5. s[1] = 0
    OBVIOUS
  <2> HIDE DEF s, q
  <2> QED  BY <2>1, <2>2, <2>3, <2>4, <2>5 DEF IsFreeWalk
<1> QED  BY <1>1, <1>2, <1>3 DEF FreeList

(* The free list has num_free members, all of them descriptors.            *)
LEMMA FreeListSize ==
  ASSUME NEW A, NEW q \in Queue(A), NEW F, FreeList(q, F)
  PROVE  /\ F \subseteq Desc
         /\ IsFiniteSet(F)
         /\ Cardinality(F) = q.num_free
<1>1. PICK s \in [1 .. q.num_free -> Desc] : IsFreeWalk(q, F, s)
  BY DEF FreeList
<1>2. q.num_free \in Nat
  BY QueueAssumption DEF Queue
<1>3. s \in Bijection(1 .. q.num_free, F)
  <2>1. s \in [1 .. q.num_free -> F]
    BY <1>1 DEF IsFreeWalk
  <2> QED  BY <1>1, <2>1 DEF IsFreeWalk, Bijection, Injection, Surjection, IsInjective
<1>4. IsFiniteSet(1 .. q.num_free) /\ Cardinality(1 .. q.num_free) = q.num_free
  BY <1>2, FS_Interval
<1>5. ExistsBijection(1 .. q.num_free, F)
  BY <1>3 DEF ExistsBijection
<1> QED  BY <1>1, <1>4, <1>5, FS_Bijection DEF IsFreeWalk

(* alloc_desc takes free_head off the list and leaves the rest on it.      *)
LEMMA AllocDescFree ==
  ASSUME NEW A, NEW q \in Queue(A), NEW F, FreeList(q, F), CanAlloc(q)
  PROVE  /\ AllocDesc(q) \in Queue(A)
         /\ q.free_head \in F
         /\ FreeList(AllocDesc(q), F \ {q.free_head})
<1> USE QueueAssumption
<1> DEFINE p == AllocDesc(q)
           n == q.num_free
<1>1. PICK s \in [1 .. n -> Desc] : IsFreeWalk(q, F, s)
  BY DEF FreeList
<1>2. n \in 1 .. Num
  BY DEF Queue, CanAlloc
<1>3. q.free_head \in Desc /\ q.next \in [Desc -> Desc]
  BY DEF Queue
<1>4. p \in Queue(A)
  <2>1. q.num_free - 1 \in 0 .. Num /\ q.next[q.free_head] \in Desc
    BY <1>2, <1>3
  <2> QED  BY <2>1 DEF AllocDesc, Queue
<1>5. p.num_free = n - 1 /\ p.next = q.next /\ p.free_head = q.next[q.free_head]
  BY DEF AllocDesc, Queue
<1>6. s[1] = q.free_head /\ q.free_head \in F
  BY <1>1, <1>2 DEF IsFreeWalk
<1> DEFINE t == [i \in 1 .. n - 1 |-> s[i + 1]]
<1>7. t \in [1 .. n - 1 -> Desc]
  BY <1>2
<1>8. IsFreeWalk(p, F \ {q.free_head}, t)
  <2>1. n - 1 > 0 => t[1] = p.free_head
    BY <1>1, <1>2, <1>5, <1>6 DEF IsFreeWalk
  <2>2. \A i \in 1 .. (n - 1) - 1 : t[i + 1] = p.next[t[i]]
    BY <1>1, <1>2, <1>5 DEF IsFreeWalk
  <2>3. \A i, j \in 1 .. n - 1 : t[i] = t[j] => i = j
    BY <1>1, <1>2 DEF IsFreeWalk
  <2>4. F \ {q.free_head} = {t[i] : i \in 1 .. n - 1}
    <3>1. \A i \in 1 .. n : s[i] # s[1] => i - 1 \in 1 .. n - 1 /\ t[i - 1] = s[i]
      BY <1>2
    <3>2. \A i \in 1 .. n - 1 : t[i] = s[i + 1] /\ s[i + 1] # s[1] /\ s[i + 1] \in F
      BY <1>1, <1>2 DEF IsFreeWalk
    <3>3. \A d \in F : \E i \in 1 .. n : d = s[i]
      BY <1>1 DEF IsFreeWalk
    <3> HIDE DEF t
    <3> QED  BY <1>6, <3>1, <3>2, <3>3
  <2> HIDE DEF t, p
  <2> QED  BY <1>5, <2>1, <2>2, <2>3, <2>4 DEF IsFreeWalk
<1> QED  BY <1>4, <1>5, <1>6, <1>7, <1>8 DEF FreeList

(* free_desc puts back a descriptor that is not on the list.               *)
LEMMA FreeDescFree ==
  ASSUME NEW A, NEW q \in Queue(A), NEW F, FreeList(q, F),
         NEW id \in Desc, id \notin F
  PROVE  /\ FreeDesc(q, id) \in Queue(A)
         /\ FreeList(FreeDesc(q, id), F \cup {id})
<1> USE QueueAssumption
<1> DEFINE p == FreeDesc(q, id)
           n == q.num_free
<1>1. PICK s \in [1 .. n -> Desc] : IsFreeWalk(q, F, s)
  BY DEF FreeList
<1>2. n \in 0 .. Num /\ n < Num
  <2>1. F \subseteq Desc /\ Cardinality(F) = n /\ IsFiniteSet(F)
    BY FreeListSize
  <2>2. IsFiniteSet(Desc) /\ Cardinality(Desc) = Num
    BY FS_Interval DEF Desc
  <2>3. Cardinality(F) <= Num /\ Cardinality(F) # Num
    BY <2>1, <2>2, FS_Subset
  <2> QED  BY <2>1, <2>3 DEF Queue
<1>3. q.free_head \in Desc /\ q.next \in [Desc -> Desc]
  BY DEF Queue
<1>4. p \in Queue(A)
  <2>1. q.num_free + 1 \in 0 .. Num
    BY <1>2
  <2> QED  BY <1>3, <2>1 DEF FreeDesc, Queue, NEXT
<1>5. p.num_free = n + 1 /\ p.next = [q.next EXCEPT ![id] = q.free_head] /\ p.free_head = id
  BY DEF FreeDesc, Queue
<1> DEFINE t == [i \in 1 .. n + 1 |-> IF i = 1 THEN id ELSE s[i - 1]]
<1>6. t \in [1 .. n + 1 -> Desc]
  BY <1>2
<1>7. \A i \in 1 .. n : s[i] \in F /\ s[i] # id
  BY <1>1 DEF IsFreeWalk
<1>8. IsFreeWalk(p, F \cup {id}, t)
  <2>1. t[1] = p.free_head
    BY <1>2, <1>5
  <2>2. \A i \in 1 .. (n + 1) - 1 : t[i + 1] = p.next[t[i]]
    <3>0. (n + 1) - 1 = n
      BY <1>2
    <3> SUFFICES ASSUME NEW i \in 1 .. n
                 PROVE  t[i + 1] = p.next[t[i]]
      BY <3>0
    <3>1. CASE i = 1
      BY <3>1, <1>1, <1>2, <1>3, <1>5 DEF IsFreeWalk
    <3>2. CASE i # 1
      <4>1. i - 1 \in 1 .. n /\ i - 1 \in 1 .. n - 1
        BY <3>2, <1>2
      <4>2. t[i + 1] = s[(i - 1) + 1] /\ t[i] = s[i - 1]
        <5>1. i + 1 \in 1 .. n + 1 /\ i \in 1 .. n + 1 /\ i + 1 # 1
          BY <1>2
        <5>2. (i + 1) - 1 = (i - 1) + 1
          OBVIOUS
        <5> QED  BY <3>2, <5>1, <5>2
      <4>3. s[(i - 1) + 1] = q.next[s[i - 1]]
        BY <4>1, <1>1 DEF IsFreeWalk
      <4>4. p.next[s[i - 1]] = q.next[s[i - 1]]
        BY <4>1, <1>3, <1>5, <1>7
      <4> QED  BY <4>2, <4>3, <4>4
    <3> QED  BY <3>1, <3>2
  <2>3. \A i, j \in 1 .. n + 1 : t[i] = t[j] => i = j
    <3>1. \A i \in 1 .. n + 1 : i # 1 => i - 1 \in 1 .. n /\ t[i] = s[i - 1] /\ t[i] # id
      BY <1>2, <1>7
    <3>2. t[1] = id
      BY <1>2
    <3>3. \A i, j \in 1 .. n : s[i] = s[j] => i = j
      BY <1>1 DEF IsFreeWalk
    <3> HIDE DEF t
    <3> QED  BY <3>1, <3>2, <3>3, <1>2
  <2>4. F \cup {id} = {t[i] : i \in 1 .. n + 1}
    <3>1. \A i \in 1 .. n : i + 1 \in 1 .. n + 1 /\ t[i + 1] = s[i]
      BY <1>2
    <3>2. 1 \in 1 .. n + 1 /\ t[1] = id
      BY <1>2
    <3>3. \A i \in 1 .. n + 1 : i # 1 => t[i] \in F
      BY <1>2, <1>7
    <3>4. \A d \in F : \E i \in 1 .. n : d = s[i]
      BY <1>1 DEF IsFreeWalk
    <3> HIDE DEF t
    <3> QED  BY <3>1, <3>2, <3>3, <3>4
  <2> HIDE DEF t, p
  <2> QED  BY <1>5, <2>1, <2>2, <2>3, <2>4 DEF IsFreeWalk
<1> QED  BY <1>4, <1>5, <1>6, <1>8 DEF FreeList

(* A queue that differs only in fields and descriptors outside the list    *)
(* has the same free list.                                                 *)
LEMMA SameFreeList ==
  ASSUME NEW A, NEW q \in Queue(A), NEW p \in Queue(A), NEW F, FreeList(q, F),
         p.free_head = q.free_head, p.num_free = q.num_free,
         \A d \in F : p.next[d] = q.next[d]
  PROVE  FreeList(p, F)
<1>1. PICK s \in [1 .. q.num_free -> Desc] : IsFreeWalk(q, F, s)
  BY DEF FreeList
<1>2. \A i \in 1 .. q.num_free : s[i] \in F
  BY <1>1 DEF IsFreeWalk
<1>3. \A i \in 1 .. q.num_free - 1 : i \in 1 .. q.num_free
  BY DEF Queue
<1>4. IsFreeWalk(p, F, s)
  BY <1>1, <1>2, <1>3 DEF IsFreeWalk
<1> QED  BY <1>1, <1>4 DEF FreeList

(* write_desc, submit and pop, and the device's use of the queue, leave    *)
(* the free list alone, provided only allocated descriptors are written.   *)
LEMMA WriteDescFree ==
  ASSUME NEW A, NEW q \in Queue(A), NEW F, FreeList(q, F),
         NEW id \in Desc, id \notin F, NEW a \in A,
         NEW f \in SUBSET {NEXT, WRITE}, NEW n \in Desc
  PROVE  /\ WriteDesc(q, id, a, f, n) \in Queue(A)
         /\ FreeList(WriteDesc(q, id, a, f, n), F)
<1> DEFINE p == WriteDesc(q, id, a, f, n)
<1>1. p \in Queue(A)
  BY DEF WriteDesc, Queue
<1>2. /\ p.free_head = q.free_head /\ p.num_free = q.num_free
      /\ \A d \in F : p.next[d] = q.next[d]
  BY FreeListSize DEF WriteDesc, Queue
<1> QED  BY <1>1, <1>2, SameFreeList

\* A free-running index names a slot, and the next one is an index again.
LEMMA RingIndex ==
  ASSUME NEW i \in Idx
  PROVE  /\ i % Num \in Desc
         /\ (i + 1) % IdxMod \in Idx
BY QueueAssumption DEF Idx, Desc

\* Publishing, popping and giving a chain back touch no link of the free list.
LEMMA RingsFree ==
  ASSUME NEW A, NEW q \in Queue(A), NEW F, FreeList(q, F), NEW id \in Desc
  PROVE  /\ Submit(q, id) \in Queue(A) /\ FreeList(Submit(q, id), F)
         /\ Pop(q) \in Queue(A) /\ FreeList(Pop(q), F)
         /\ DevUse(q, id) \in Queue(A) /\ FreeList(DevUse(q, id), F)
<1>1. /\ Submit(q, id) \in Queue(A)
      /\ Submit(q, id).free_head = q.free_head /\ Submit(q, id).num_free = q.num_free
      /\ Submit(q, id).next = q.next
  BY RingIndex DEF Submit, Queue
<1>2. /\ Pop(q) \in Queue(A)
      /\ Pop(q).free_head = q.free_head /\ Pop(q).num_free = q.num_free
      /\ Pop(q).next = q.next
  BY RingIndex DEF Pop, Queue
<1>3. /\ DevUse(q, id) \in Queue(A)
      /\ DevUse(q, id).free_head = q.free_head /\ DevUse(q, id).num_free = q.num_free
      /\ DevUse(q, id).next = q.next
  BY RingIndex DEF DevUse, Queue
<1>4. FreeList(Submit(q, id), F)
  BY <1>1, SameFreeList
<1>5. FreeList(Pop(q), F)
  BY <1>2, SameFreeList
<1>6. FreeList(DevUse(q, id), F)
  BY <1>3, SameFreeList
<1> QED  BY <1>1, <1>2, <1>3, <1>4, <1>5, <1>6

-----------------------------------------------------------------------------
(* The rings: what is between two of their indices.                        *)

(* Quotient and remainder, and how to recognise a remainder.               *)
LEMMA ModSplit ==
  ASSUME NEW n \in Nat \ {0}, NEW a \in Int
  PROVE  a % n \in 0 .. n - 1 /\ a \div n \in Int /\ a = (n * (a \div n)) + (a % n)
OBVIOUS

\* The remainder of a number written as a multiple plus a smaller rest is that rest.
LEMMA ModIs ==
  ASSUME NEW n \in Nat \ {0}, NEW k \in Int, NEW r \in 0 .. n - 1
  PROVE  ((n * k) + r) % n = r
<1> DEFINE a == (n * k) + r
           d == a \div n
           m == a % n
<1>1. m \in 0 .. n - 1 /\ d \in Int /\ (n * k) + r = (n * d) + m
  BY ModSplit
<1> HIDE DEF d, m
<1>2. n * (k - d) = m - r
  BY <1>1
<1>3. CASE k - d >= 1
  <2>1. n * (k - d) >= n
    BY <1>1, <1>3
  <2> QED  BY <1>1, <1>2, <2>1
<1>4. CASE d - k >= 1
  <2>1. n * (d - k) >= n
    BY <1>1, <1>4
  <2>2. n * (d - k) = r - m
    BY <1>1
  <2> QED  BY <1>1, <2>1, <2>2
<1>5. CASE d = k
  BY <1>1, <1>5 DEF m
<1> QED  BY <1>1, <1>3, <1>4, <1>5

(* The ring slot of an index does not change when the index wraps.         *)
LEMMA SlotWraps ==
  ASSUME NEW a \in Int
  PROVE  (a % IdxMod) % Num = a % Num
<1> DEFINE m == IdxMod \div Num
           k == a \div IdxMod
           r == a % IdxMod
           j == r \div Num
<1>1. /\ IdxMod \in Nat \ {0} /\ Num \in Nat \ {0} /\ m \in Int
      /\ IdxMod = Num * m
  BY QueueAssumption, ModSplit
<1>2. k \in Int /\ r \in Int /\ a = (IdxMod * k) + r
  BY <1>1, ModSplit
<1>3. j \in Int /\ r % Num \in 0 .. Num - 1 /\ r = (Num * j) + (r % Num)
  BY <1>1, <1>2, ModSplit
<1> HIDE DEF m, k, r, j
<1>4. m * k \in Int /\ (m * k) + j \in Int
  BY <1>1, <1>2, <1>3
<1>5. a = (Num * ((m * k) + j)) + (r % Num)
  <2>1. IdxMod * k = Num * (m * k)
    BY <1>1, <1>2
  <2>2. Num * ((m * k) + j) = (Num * (m * k)) + (Num * j)
    BY <1>1, <1>3, <1>4
  <2>3. Num * (m * k) \in Int /\ Num * j \in Int
    BY <1>1, <1>3, <1>4
  <2> QED  BY <1>2, <1>3, <2>1, <2>2, <2>3
<1>6. a % Num = r % Num
  BY <1>1, <1>3, <1>4, <1>5, ModIs
<1> QED  BY <1>6 DEF r

(* Entries less than a ring's length apart are in different slots.         *)
LEMMA SlotsApart ==
  ASSUME NEW a \in Int, NEW i \in Nat, NEW j \in Nat, i < j, j - i < Num
  PROVE  (a + i) % Num # (a + j) % Num
<1> DEFINE x == (a + i) \div Num
           y == (a + j) \div Num
           r == (a + i) % Num
<1>1. Num \in Nat \ {0}
  BY QueueAssumption
<1>2. x \in Int /\ r \in 0 .. Num - 1 /\ a + i = (Num * x) + r
  BY <1>1, ModSplit
<1>3. y \in Int /\ (a + j) % Num \in 0 .. Num - 1 /\ a + j = (Num * y) + ((a + j) % Num)
  BY <1>1, ModSplit
<1> SUFFICES ASSUME (a + j) % Num = r PROVE FALSE
  BY DEF r
<1>4. a + j = (Num * y) + r
  BY <1>3
<1> HIDE DEF x, y, r
<1>5. Num * (y - x) = j - i
  BY <1>1, <1>2, <1>3, <1>4
<1>6. y - x >= 1 => Num * (y - x) >= Num
  BY <1>1, <1>2, <1>3
<1>7. x - y >= 0 => Num * (x - y) >= 0
  BY <1>1, <1>2, <1>3
<1>8. Num * (x - y) = i - j
  BY <1>1, <1>2, <1>3, <1>4
<1> QED  BY <1>1, <1>2, <1>3, <1>5, <1>6, <1>7, <1>8

\* How many entries there are from one index of a ring to another.
Count(from, to) == (to - from) % IdxMod

(* ... in terms of indices that may have wrapped.                          *)
LEMMA CountIs ==
  ASSUME NEW from \in Idx, NEW to \in Idx
  PROVE  /\ Count(from, to) = IF from <= to THEN to - from ELSE (to - from) + IdxMod
         /\ Count(from, to) \in 0 .. IdxMod - 1
         /\ (from + Count(from, to)) % Num = to % Num
         /\ (to + 1) % IdxMod = IF to + 1 = IdxMod THEN 0 ELSE to + 1
<1>1. IdxMod \in Nat \ {0} /\ from \in 0 .. IdxMod - 1 /\ to \in 0 .. IdxMod - 1 /\ IdxMod > 1
  BY QueueAssumption DEF Idx
<1>2. Count(from, to) = IF from <= to THEN to - from ELSE (to - from) + IdxMod
  <2>1. CASE from <= to
    <3>1. to - from \in 0 .. IdxMod - 1
      BY <1>1, <2>1
    <3>2. ((IdxMod * 0) + (to - from)) % IdxMod = to - from
      BY <1>1, <3>1, ModIs
    <3>3. (IdxMod * 0) + (to - from) = to - from
      BY <1>1
    <3> QED  BY <2>1, <3>2, <3>3 DEF Count
  <2>2. CASE ~(from <= to)
    <3> DEFINE r == (to - from) + IdxMod
               k == 0 - 1
    <3>1. r \in 0 .. IdxMod - 1 /\ k \in Int /\ (IdxMod * k) + r = to - from
      BY <1>1, <2>2
    <3>2. ((IdxMod * k) + r) % IdxMod = r
      <4> HIDE DEF r, k
      <4> QED  BY <1>1, <3>1, ModIs
    <3> QED  BY <2>2, <3>1, <3>2 DEF Count
  <2> QED  BY <2>1, <2>2
<1>3. Count(from, to) \in 0 .. IdxMod - 1
  BY <1>1, <1>2
<1>4. (from + Count(from, to)) % Num = to % Num
  <2>1. CASE from <= to
    BY <1>1, <1>2, <2>1
  <2>2. CASE ~(from <= to)
    <3>1. from + Count(from, to) = to + IdxMod
      BY <1>1, <1>2, <2>2
    <3>2. (to + IdxMod) % IdxMod = to
      <4>1. ((IdxMod * 1) + to) % IdxMod = to
        BY <1>1, ModIs
      <4> QED  BY <1>1, <4>1
    <3>3. ((to + IdxMod) % IdxMod) % Num = (to + IdxMod) % Num
      <4>1. PICK n \in Nat : n = to + IdxMod
        BY <1>1
      <4>2. (n % IdxMod) % Num = n % Num
        BY SlotWraps
      <4> QED  BY <4>1, <4>2
    <3> QED  BY <3>1, <3>2, <3>3
  <2> QED  BY <2>1, <2>2
<1>5. (to + 1) % IdxMod = IF to + 1 = IdxMod THEN 0 ELSE to + 1
  <2>1. CASE to + 1 = IdxMod
    <3>1. ((IdxMod * 1) + 0) % IdxMod = 0
      BY <1>1, ModIs
    <3> QED  BY <1>1, <2>1, <3>1
  <2>2. CASE to + 1 # IdxMod
    <3>1. to + 1 \in 0 .. IdxMod - 1
      BY <1>1, <2>2
    <3>2. ((IdxMod * 0) + (to + 1)) % IdxMod = to + 1
      BY <1>1, <3>1, ModIs
    <3>3. (IdxMod * 0) + (to + 1) = to + 1
      BY <1>1
    <3> QED  BY <2>2, <3>2, <3>3
  <2> QED  BY <2>1, <2>2
<1> QED  BY <1>2, <1>3, <1>4, <1>5

(* The descriptors in a ring from one index to another, and that none of   *)
(* them is there twice.                                                    *)
Between(ring, from, to) == {ring[(from + i) % Num] : i \in 0 .. Count(from, to) - 1}

Distinct(ring, from, to) ==
  \A i, j \in 0 .. Count(from, to) - 1 :
    ring[(from + i) % Num] = ring[(from + j) % Num] => i = j

(* A ring without duplicates that lacks a descriptor has room for it.      *)
LEMMA CountBound ==
  ASSUME NEW from \in Idx, NEW to \in Idx, NEW ring \in [Desc -> Desc],
         Distinct(ring, from, to)
  PROVE  /\ Between(ring, from, to) \subseteq Desc
         /\ IsFiniteSet(Between(ring, from, to))
         /\ Cardinality(Between(ring, from, to)) = Count(from, to)
         /\ \A x \in Desc : x \notin Between(ring, from, to) => Count(from, to) < Num
<1> DEFINE n == Count(from, to)
           S == Between(ring, from, to)
           f == [i \in 0 .. n - 1 |-> ring[(from + i) % Num]]
<1>1. n \in Nat /\ from \in Int /\ Num \in Nat \ {0}
  BY CountIs, QueueAssumption DEF Idx
<1>2. \A i \in 0 .. n - 1 : (from + i) % Num \in Desc
  BY <1>1 DEF Desc
<1> HIDE DEF n
<1>3. S = {f[i] : i \in 0 .. n - 1} /\ S \subseteq Desc
  BY <1>2 DEF Between, n
<1>4. f \in Bijection(0 .. n - 1, S)
  <2>1. f \in [0 .. n - 1 -> S]
    BY <1>3
  <2>2. \A i, j \in 0 .. n - 1 : f[i] = f[j] => i = j
    BY DEF Distinct, n
  <2> HIDE DEF f, S
  <2> QED  BY <1>3, <2>1, <2>2 DEF Bijection, Injection, Surjection, IsInjective
<1>5. IsFiniteSet(0 .. n - 1) /\ Cardinality(0 .. n - 1) = n
  <2>1. /\ IsFiniteSet(0 .. n - 1)
        /\ Cardinality(0 .. n - 1) = IF 0 > n - 1 THEN 0 ELSE (n - 1) - 0 + 1
    BY <1>1, FS_Interval
  <2> QED  BY <1>1, <2>1
<1>6. ExistsBijection(0 .. n - 1, S)
  BY <1>4 DEF ExistsBijection
<1>7. IsFiniteSet(S) /\ Cardinality(S) = n
  BY <1>5, <1>6, FS_Bijection
<1>8. ASSUME NEW x \in Desc, x \notin S PROVE n < Num
  <2>1. IsFiniteSet(Desc) /\ Cardinality(Desc) = Num
    BY <1>1, FS_Interval DEF Desc
  <2>2. Cardinality(S) <= Num /\ (Cardinality(S) = Num => S = Desc)
    BY <1>3, <2>1, FS_Subset
  <2> QED  BY <1>1, <1>7, <1>8, <2>2
<1> QED  BY <1>3, <1>7, <1>8 DEF n

(* A ring read up to its end is empty.                                     *)
LEMMA BetweenSame ==
  ASSUME NEW from \in Idx, NEW ring
  PROVE  Between(ring, from, from) = {} /\ Distinct(ring, from, from)
<1>1. Count(from, from) = 0
  BY CountIs DEF Idx
<1> QED  BY <1>1 DEF Between, Distinct

(* Appending an entry (submit; the device's use) and taking one (pop; the  *)
(* device's look at the available ring).                                   *)
LEMMA BetweenPush ==
  ASSUME NEW from \in Idx, NEW to \in Idx, NEW ring \in [Desc -> Desc],
         Distinct(ring, from, to), NEW h \in Desc, h \notin Between(ring, from, to)
  PROVE  LET next == [ring EXCEPT ![to % Num] = h]
             end  == (to + 1) % IdxMod
         IN  /\ Distinct(next, from, end)
             /\ Between(next, from, end) = Between(ring, from, to) \cup {h}
<1> DEFINE n == Count(from, to)
           next == [ring EXCEPT ![to % Num] = h]
           end  == (to + 1) % IdxMod
           e(i) == ring[(from + i) % Num]
           x(i) == next[(from + i) % Num]
<1>1. /\ n \in Nat /\ n < Num /\ from \in Int /\ Num \in Nat \ {0}
      /\ (from + n) % Num = to % Num
  <2>1. n \in 0 .. IdxMod - 1 /\ (from + n) % Num = to % Num
    BY CountIs
  <2>2. n < Num
    BY CountBound
  <2> HIDE DEF n
  <2> QED  BY <2>1, <2>2, QueueAssumption DEF Idx
<1>2. Count(from, end) = n + 1 /\ end \in Idx
  <2>1. n + 1 < IdxMod
    BY <1>1, QueueAssumption
  <2>2. end = IF to + 1 = IdxMod THEN 0 ELSE to + 1
    BY CountIs
  <2>3. end \in Idx
    BY <2>2, QueueAssumption DEF Idx
  <2> HIDE DEF end
  <2>4. Count(from, end) = IF from <= end THEN end - from ELSE (end - from) + IdxMod
    BY <2>3, CountIs
  <2>5. n = IF from <= to THEN to - from ELSE (to - from) + IdxMod
    BY CountIs
  <2> HIDE DEF n
  <2> QED  BY <2>1, <2>2, <2>3, <2>4, <2>5, QueueAssumption DEF Idx
<1> HIDE DEF n, end
<1>3. \A i \in 0 .. n : (from + i) % Num \in Desc
  BY <1>1, SMTT(20) DEF Desc
<1>4. x(n) = h
  BY <1>1, <1>3
<1>5. ASSUME NEW i \in 0 .. n - 1
      PROVE  x(i) = e(i) /\ e(i) # h
  <2>1. (from + i) % Num # (from + n) % Num
    <3>1. i \in Nat /\ i < n /\ n - i < Num
      BY <1>1
    <3> QED  BY <1>1, <3>1, SlotsApart
  <2>2. x(i) = e(i)
    BY <1>1, <1>3, <2>1
  <2>3. e(i) \in Between(ring, from, to)
    BY DEF Between, n
  <2> QED  BY <2>2, <2>3
<1>6. \A i, j \in 0 .. n - 1 : e(i) = e(j) => i = j
  BY DEF Distinct, n
<1>7. Between(ring, from, to) = {e(i) : i \in 0 .. n - 1}
  BY DEF Between, n
<1>8. \A i \in 0 .. n : i # n => i \in 0 .. n - 1
  BY <1>1
<1>9. \A i \in 0 .. n - 1 : i \in 0 .. n
  BY <1>1
<1>10. n \in 0 .. n /\ (n + 1) - 1 = n
  BY <1>1
<1>11. Between(next, from, end) = {x(i) : i \in 0 .. n}
  BY <1>2, <1>10 DEF Between
<1>12. Distinct(next, from, end) <=> \A i, j \in 0 .. n : x(i) = x(j) => i = j
  BY <1>2, <1>10 DEF Distinct
<1> HIDE DEF x, e, next
<1>13. Distinct(next, from, end)
  BY <1>4, <1>5, <1>6, <1>8, <1>12
<1>14. Between(next, from, end) = Between(ring, from, to) \cup {h}
  BY <1>4, <1>5, <1>7, <1>8, <1>9, <1>10, <1>11
<1> QED  BY <1>13, <1>14 DEF next, end

\* Taking the first entry of a span of the ring leaves the others, each once.
LEMMA BetweenPop ==
  ASSUME NEW from \in Idx, NEW to \in Idx, NEW ring \in [Desc -> Desc],
         Distinct(ring, from, to), from # to
  PROVE  LET h     == ring[from % Num]
             start == (from + 1) % IdxMod
         IN  /\ h \in Between(ring, from, to)
             /\ Distinct(ring, start, to)
             /\ Between(ring, start, to) = Between(ring, from, to) \ {h}
<1> DEFINE n == Count(from, to)
           h == ring[from % Num]
           start == (from + 1) % IdxMod
           e(i) == ring[(from + i) % Num]
           x(i) == ring[(start + i) % Num]
<1>0. from \in Int /\ to \in Int /\ IdxMod \in Int /\ Num \in Nat \ {0} /\ from + 0 = from
  BY QueueAssumption DEF Idx
<1>1. n \in Nat \ {0} /\ from \in Int /\ Num \in Nat \ {0} /\ from + 0 = from
  <2>1. n \in 0 .. IdxMod - 1 /\ n = IF from <= to THEN to - from ELSE (to - from) + IdxMod
    BY CountIs
  <2>2. from \in 0 .. IdxMod - 1 /\ to \in 0 .. IdxMod - 1
    BY DEF Idx
  <2> HIDE DEF n
  <2> QED  BY <1>0, <2>1, <2>2
<1>2. Count(start, to) = n - 1 /\ start \in Idx
  <2>2. start = IF from + 1 = IdxMod THEN 0 ELSE from + 1
    BY CountIs
  <2>3. start \in Idx
    BY <2>2, QueueAssumption DEF Idx
  <2> HIDE DEF start
  <2>4. Count(start, to) = IF start <= to THEN to - start ELSE (to - start) + IdxMod
    BY <2>3, CountIs
  <2>5. n = IF from <= to THEN to - from ELSE (to - from) + IdxMod
    BY CountIs
  <2> HIDE DEF n
  <2> QED  BY <2>2, <2>3, <2>4, <2>5, QueueAssumption DEF Idx
<1>3. ASSUME NEW i \in Nat
      PROVE  x(i) = e(i + 1)
  <2>1. (start + i) % Num = (from + (i + 1)) % Num
    <3>1. start % Num = (from + 1) % Num
      BY <1>1, SlotWraps
    <3>2. start = from + 1 \/ (start = 0 /\ from + 1 = IdxMod)
      BY CountIs
    <3>3. CASE start = from + 1
      <4>1. (from + 1) + i = from + (i + 1)
        BY <1>1
      <4> QED  BY <3>3, <4>1
    <3>4. CASE start = 0 /\ from + 1 = IdxMod
      <4> DEFINE m == IdxMod \div Num
                 r == i % Num
                 k == i \div Num
      <4>1. m \in Int /\ IdxMod = Num * m
        BY QueueAssumption, ModSplit
      <4>2. k \in Int /\ r \in 0 .. Num - 1 /\ i = (Num * k) + r
        BY <1>1, ModSplit
      <4> HIDE DEF m, k, r
      <4>3. Num * (m + k) = (Num * m) + (Num * k)
        BY <1>1, <4>1, <4>2
      <4>4. Num * m \in Int /\ Num * k \in Int /\ m + k \in Int
        BY <1>1, <4>1, <4>2
      <4>5. from + (i + 1) = (Num * (m + k)) + r
        BY <1>1, <3>4, <4>1, <4>2, <4>3, <4>4
      <4>6. (from + (i + 1)) % Num = r
        BY <1>1, <4>2, <4>4, <4>5, ModIs
      <4>7. start + i = i
        BY <3>4
      <4> QED  BY <4>6, <4>7 DEF r
    <3> HIDE DEF start
    <3> QED  BY <3>2, <3>3, <3>4
  <2> QED  BY <2>1
<1> HIDE DEF n, start
<1>4. h = e(0)
  BY <1>1
<1>6. \A i, j \in 0 .. n - 1 : e(i) = e(j) => i = j
  BY DEF Distinct, n
<1>7. Between(ring, from, to) = {e(i) : i \in 0 .. n - 1}
  BY DEF Between, n
<1>8. \A i \in 0 .. n - 1 : i # 0 => i - 1 \in 0 .. (n - 1) - 1 /\ (i - 1) + 1 = i
  BY <1>1
<1>9. \A i \in 0 .. (n - 1) - 1 : /\ i \in Nat /\ i + 1 \in 0 .. n - 1 /\ i + 1 # 0
                                   /\ x(i) = e(i + 1)
  BY <1>1, <1>3
<1>10. 0 \in 0 .. n - 1
  BY <1>1
<1>11. Between(ring, start, to) = {x(i) : i \in 0 .. (n - 1) - 1}
  BY <1>2 DEF Between
<1>12. Distinct(ring, start, to) <=> \A i, j \in 0 .. (n - 1) - 1 : x(i) = x(j) => i = j
  BY <1>2 DEF Distinct
<1>13. \A i, j \in Nat : i + 1 = j + 1 => i = j
  OBVIOUS
<1> HIDE DEF x, e, h
<1>14. Distinct(ring, start, to)
  BY <1>6, <1>9, <1>12, <1>13
<1>15. Between(ring, start, to) = Between(ring, from, to) \ {h}
  BY <1>4, <1>6, <1>7, <1>8, <1>9, <1>10, <1>11
<1>16. h \in Between(ring, from, to)
  BY <1>4, <1>7, <1>10
<1> QED  BY <1>14, <1>15, <1>16 DEF h, start

-----------------------------------------------------------------------------
(* What the operations of the queue do to its fields.                      *)

\* The shared rings with their indices; the links, flags and addresses.
SameRings(p, n) ==
  /\ n.avail_ring = p.avail_ring /\ n.avail_idx = p.avail_idx
  /\ n.used_ring = p.used_ring /\ n.used_idx = p.used_idx
  /\ n.last_used_idx = p.last_used_idx
SameChains(p, n) == n.next = p.next /\ n.flags = p.flags /\ n.addr = p.addr

(* Taking a descriptor from the free list touches none of these.           *)
LEMMA AllocDescFields ==
  ASSUME NEW A, NEW q \in Queue(A)
  PROVE  SameRings(q, AllocDesc(q)) /\ SameChains(q, AllocDesc(q))
BY DEF AllocDesc, Queue, SameRings, SameChains

(* Giving one back touches its own link and flags.                         *)
LEMMA FreeDescFields ==
  ASSUME NEW A, NEW q \in Queue(A), NEW c \in Desc
  PROVE  /\ SameRings(q, FreeDesc(q, c))
         /\ FreeDesc(q, c).addr = q.addr
         /\ \A d \in Desc : d # c => /\ FreeDesc(q, c).next[d] = q.next[d]
                                     /\ FreeDesc(q, c).flags[d] = q.flags[d]
BY DEF FreeDesc, Queue, SameRings

(* The device puts a chain on the used ring.                               *)
LEMMA DevUseFields ==
  ASSUME NEW A, NEW q \in Queue(A), NEW h \in Desc
  PROVE  /\ SameChains(q, DevUse(q, h))
         /\ DevUse(q, h).avail_ring = q.avail_ring /\ DevUse(q, h).avail_idx = q.avail_idx
         /\ DevUse(q, h).last_used_idx = q.last_used_idx
         /\ DevUse(q, h).used_ring = [q.used_ring EXCEPT ![q.used_idx % Num] = h]
         /\ DevUse(q, h).used_idx = (q.used_idx + 1) % IdxMod
BY DEF DevUse, Queue, SameChains

(* The driver pops an entry of the used ring.                              *)
LEMMA PopFields ==
  ASSUME NEW A, NEW q \in Queue(A)
  PROVE  /\ SameChains(q, Pop(q))
         /\ Pop(q).avail_ring = q.avail_ring /\ Pop(q).avail_idx = q.avail_idx
         /\ Pop(q).used_ring = q.used_ring /\ Pop(q).used_idx = q.used_idx
         /\ Pop(q).last_used_idx = (q.last_used_idx + 1) % IdxMod
BY DEF Pop, Queue, SameChains

\* w is the queue p of addresses A with one descriptor written.
Written(A, p, w, id, a, f, n) ==
  /\ w \in Queue(A) /\ SameRings(p, w)
  /\ w.addr = [p.addr EXCEPT ![id] = a]
  /\ w.flags = [p.flags EXCEPT ![id] = f]
  /\ w.next = [p.next EXCEPT ![id] = n]

(* write_desc writes that descriptor and nothing else.                     *)
LEMMA WriteDescFields ==
  ASSUME NEW A, NEW p \in Queue(A), NEW id \in Desc, NEW a \in A,
         NEW f \in SUBSET {NEXT, WRITE}, NEW n \in Desc
  PROVE  Written(A, p, WriteDesc(p, id, a, f, n), id, a, f, n)
BY DEF WriteDesc, Queue, SameRings, Written

-----------------------------------------------------------------------------
(* The rings shared with the client are sequences of entries that name a   *)
(* request: how often is one named?                                        *)

(* The entries of a sequence that carry a user_data value.                 *)
At(s, u) == {i \in 1 .. Len(s) : s[i].user = u}
Occurs(s, u) == Cardinality(At(s, u))

(* None, one, or more than one of them.                                    *)
LEMMA OccursType ==
  ASSUME NEW S, NEW s \in Seq(S), NEW u
  PROVE  /\ IsFiniteSet(At(s, u))
         /\ Occurs(s, u) \in Nat
         /\ Occurs(s, u) = 0 <=> \A i \in 1 .. Len(s) : s[i].user # u
         /\ Occurs(s, u) = 1 => \A i, j \in 1 .. Len(s) : s[i].user = u /\ s[j].user = u => i = j
<1>1. Len(s) \in Nat
  OBVIOUS
<1>2. IsFiniteSet(1 .. Len(s)) /\ At(s, u) \subseteq 1 .. Len(s)
  BY <1>1, FS_Interval DEF At
<1>3. IsFiniteSet(At(s, u))
  BY <1>2, FS_Subset
<1>4. Occurs(s, u) \in Nat /\ (Occurs(s, u) = 0 <=> At(s, u) = {})
  BY <1>3, FS_CardinalityType, FS_EmptySet DEF Occurs
<1>5. ASSUME Occurs(s, u) = 1, NEW i \in At(s, u), NEW j \in At(s, u)
      PROVE  i = j
  <2>1. PICK e : At(s, u) = {e}
    BY <1>3, <1>5, FS_Singleton DEF Occurs
  <2> QED  BY <2>1
<1> QED  BY <1>3, <1>4, <1>5 DEF At

(* Queueing an entry and taking one.                                       *)
LEMMA OccursAppend ==
  ASSUME NEW S, NEW s \in Seq(S), NEW e \in S, NEW u
  PROVE  Occurs(Append(s, e), u) = Occurs(s, u) + (IF e.user = u THEN 1 ELSE 0)
<1> DEFINE t == Append(s, e)
           n == Len(s) + 1
<1>1. /\ Len(t) = n /\ t[n] = e /\ Len(s) \in Nat
      /\ \A i \in 1 .. Len(s) : t[i] = s[i]
  OBVIOUS
<1>2. IsFiniteSet(At(s, u)) /\ Cardinality(At(s, u)) \in Nat
  BY OccursType DEF Occurs
<1> HIDE DEF t
<1>3. \A i \in 1 .. n : i # n => i \in 1 .. Len(s)
  BY <1>1
<1>4. \A i \in 1 .. Len(s) : i \in 1 .. n /\ i # n
  BY <1>1
<1>5. n \in 1 .. n
  BY <1>1
<1> HIDE DEF n
<1>6. CASE e.user = u
  <2>1. At(t, u) = At(s, u) \cup {n} /\ n \notin At(s, u)
    BY <1>1, <1>3, <1>4, <1>5, <1>6 DEF At
  <2> QED  BY <1>2, <1>6, <2>1, FS_AddElement DEF Occurs, t
<1>7. CASE e.user # u
  <2>1. At(t, u) = At(s, u)
    BY <1>1, <1>3, <1>4, <1>5, <1>7 DEF At
  <2> QED  BY <1>2, <1>7, <2>1 DEF Occurs, t
<1> QED  BY <1>6, <1>7

\* The entries of a user are those of the tail and, if it is its own, the head.
LEMMA OccursTail ==
  ASSUME NEW S, NEW s \in Seq(S), s # << >>, NEW u
  PROVE  Occurs(s, u) = Occurs(Tail(s), u) + (IF Head(s).user = u THEN 1 ELSE 0)
<1> DEFINE t == Tail(s)
           A == At(t, u)
           B == {i \in 2 .. Len(s) : s[i].user = u}
           f == [i \in A |-> i + 1]
<1>1. /\ Len(t) = Len(s) - 1 /\ Len(s) \in Nat \ {0} /\ Head(s) = s[1]
      /\ \A i \in 1 .. Len(t) : t[i] = s[i + 1]
      /\ t \in Seq(S)
  OBVIOUS
<1> HIDE DEF t
<1>2. f \in Bijection(A, B)
  <2>1. f \in [A -> B]
    BY <1>1 DEF At
  <2>2. \A i, j \in A : f[i] = f[j] => i = j
    BY <1>1 DEF At
  <2>3. \A k \in B : k - 1 \in A /\ f[k - 1] = k
    <3> TAKE k \in B
    <3>1. k - 1 \in 1 .. Len(t) /\ (k - 1) + 1 = k /\ s[k].user = u
      BY <1>1
    <3>2. t[k - 1] = s[k]
      BY <1>1, <3>1
    <3> QED  BY <3>1, <3>2 DEF At
  <2> HIDE DEF f, A, B
  <2> QED  BY <2>1, <2>2, <2>3 DEF Bijection, Injection, Surjection, IsInjective
<1>3. IsFiniteSet(A) /\ Cardinality(A) \in Nat
  BY <1>1, OccursType DEF Occurs
<1>4. IsFiniteSet(B) /\ Cardinality(B) = Cardinality(A)
  <2>1. ExistsBijection(A, B)
    BY <1>2 DEF ExistsBijection
  <2> QED  BY <1>3, <2>1, FS_Bijection
<1>5. 1 \notin B /\ At(s, u) = B \cup (IF s[1].user = u THEN {1} ELSE {})
  BY <1>1 DEF At
<1> HIDE DEF A, B
<1>6. Cardinality(At(s, u)) = Cardinality(B) + (IF s[1].user = u THEN 1 ELSE 0)
  <2>1. CASE s[1].user = u
    BY <1>3, <1>4, <1>5, <2>1, FS_AddElement
  <2>2. CASE s[1].user # u
    BY <1>3, <1>4, <1>5, <2>2
  <2> QED  BY <2>1, <2>2
<1> QED  BY <1>1, <1>3, <1>4, <1>6 DEF Occurs, A, t
=============================================================================
