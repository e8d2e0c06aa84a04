---------------------------- MODULE PlatformProofs ----------------------------
(***************************************************************************)
(* What the platform drivers make of the tables of the firmware, for every *)
(* table: any device tree, any interrupt controllers, configuration spaces *)
(* and devices.                                                            *)
(*                                                                         *)
(* The walks are recursive, and so are the operators of the modules.  The  *)
(* induction they need is that of Climb below, on a set of numbers: those  *)
(* at which the claim holds.                                               *)
(***************************************************************************)
EXTENDS Drivers, SequenceTheorems, FiniteSetTheorems, WellFoundedInduction, TLAPS

-----------------------------------------------------------------------------
(* Induction and recursion.                                                *)

\* Induction on the natural numbers.
LEMMA Climb ==
  ASSUME NEW S, 0 \in S, \A n \in Nat : n \in S => n + 1 \in S
  PROVE  \A n \in Nat : n \in S
<1>1. SUFFICES ASSUME NEW m \in Nat, m \notin S PROVE FALSE
  OBVIOUS
<1>2. PICK T : T = Nat \ S
  OBVIOUS
<1>3. PICK R : R = {q \in Nat \X Nat : q[1] < q[2]}
  OBVIOUS
<1>4. IsWellFoundedOn(R, Nat)
  BY <1>3, NatLessThanWellFounded, Zenon DEF OpToRel
<1>5. PICK x \in T : \A y \in T : ~(<<y, x>> \in R)
  BY <1>1, <1>2, <1>4, WFMin
<1>6. x # 0 /\ x \in Nat
  BY <1>2, <1>5
<1>7. x - 1 \in Nat /\ x - 1 \notin T
  <2>1. <<x - 1, x>> \in R
    BY <1>3, <1>6
  <2> QED  BY <1>5, <1>6, <2>1
<1> QED  BY <1>2, <1>5, <1>6, <1>7

\* The values of an iteration from x, g giving the next one.
Iterates(f, x, g, n) == f = [i \in 0 .. n |-> IF i = 0 THEN x ELSE g[<<f[i - 1], i>>]]

\* There is such a sequence of values.
LEMMA Iteration ==
  ASSUME NEW X, NEW x \in X, NEW N \in Nat, NEW g \in [X \X (1 .. N) -> X]
  PROVE  \E f \in [0 .. N -> X] : Iterates(f, x, g, N)
<1> DEFINE Has(n) == \E f \in [0 .. n -> X] : Iterates(f, x, g, n)
<1>1. PICK S : S = {n \in Nat : n <= N => Has(n)}
  OBVIOUS
<1>2. 0 \in S
  <2>1. PICK f : f = [i \in 0 .. 0 |-> x]
    OBVIOUS
  <2>2. f \in [0 .. 0 -> X] /\ f = [i \in 0 .. 0 |-> IF i = 0 THEN x ELSE g[<<f[i - 1], i>>]]
    BY <2>1
  <2> QED  BY <1>1, <2>2 DEF Iterates
<1>3. ASSUME NEW n \in Nat, n \in S  PROVE n + 1 \in S
  <2>1. SUFFICES ASSUME n + 1 <= N PROVE Has(n + 1)
    BY <1>1
  <2>2. PICK f \in [0 .. n -> X] : f = [i \in 0 .. n |-> IF i = 0 THEN x ELSE g[<<f[i - 1], i>>]]
    BY <1>1, <1>3, <2>1 DEF Iterates
  <2>3. PICK y : y = g[<<f[n], n + 1>>]
    OBVIOUS
  <2>4. y \in X
    BY <2>1, <2>3
  <2>5. PICK h : h = [i \in 0 .. n + 1 |-> IF i = n + 1 THEN y ELSE f[i]]
    OBVIOUS
  <2>6. h \in [0 .. n + 1 -> X]
    BY <2>4, <2>5
  <2>7. ASSUME NEW i \in 0 .. n + 1
        PROVE  h[i] = IF i = 0 THEN x ELSE g[<<h[i - 1], i>>]
    <3>1. CASE i = n + 1
      <4>1. h[i] = y /\ h[i - 1] = f[n] /\ i # 0
        BY <2>5, <3>1
      <4> QED  BY <2>3, <3>1, <4>1
    <3>2. CASE i \in 0 .. n
      <4>1. h[i] = f[i] /\ (i # 0 => h[i - 1] = f[i - 1])
        BY <2>5, <3>2
      <4>2. f[i] = IF i = 0 THEN x ELSE g[<<f[i - 1], i>>]
        BY <2>2, <3>2
      <4> QED  BY <4>1, <4>2
    <3> QED  BY <3>1, <3>2
  <2>8. h = [i \in 0 .. n + 1 |-> IF i = 0 THEN x ELSE g[<<h[i - 1], i>>]]
    BY <2>5, <2>7
  <2> QED  BY <2>6, <2>8 DEF Iterates
<1>4. N \in S
  BY <1>2, <1>3, Climb
<1> QED  BY <1>1, <1>4

-----------------------------------------------------------------------------
(* One driver at a time.                                                   *)

\* A step is one of the driver that runs, or leaves its variables alone.
LEMMA Chosen ==
  ASSUME [DriversNext]_driversVars
  PROVE  /\ driver' = driver
         /\ driver = "dtb"       => Dtb!Next \/ UNCHANGED dtbVars
         /\ driver = "acpi_walk" => AcpiWalk!Next \/ UNCHANGED walkVars
<1>1. CASE UNCHANGED driversVars
  BY <1>1 DEF driversVars
<1>2. CASE DriversNext
  BY <1>2 DEF DriversNext
<1> QED  BY <1>1, <1>2

-----------------------------------------------------------------------------
(* Sequences of pairs, by their first parts.                               *)

Items(s)  == {s[i] : i \in DOMAIN s}
Firsts(s) == {s[i][1] : i \in DOMAIN s}
Once(s)   == \A i, j \in DOMAIN s : s[i][1] = s[j][1] => i = j

Both(s, t, u) ==
  /\ Len(u) = Len(s) + Len(t)
  /\ Items(u) = Items(s) \cup Items(t) /\ Firsts(u) = Firsts(s) \cup Firsts(t)
  /\ Once(s) /\ Once(t) /\ Firsts(s) \cap Firsts(t) = {} => Once(u)

\* One sequence behind another.
LEMMA Joined ==
  ASSUME NEW A, NEW s \in Seq(A), NEW t \in Seq(A), NEW u, u = s \o t
  PROVE  u \in Seq(A) /\ Both(s, t, u)
<1>1. PICK m \in Nat, n \in Nat : m = Len(s) /\ n = Len(t)
  OBVIOUS
<1>2. DOMAIN s = 1 .. m /\ DOMAIN t = 1 .. n
  BY <1>1
<1>3. /\ u \in Seq(A) /\ Len(u) = m + n /\ DOMAIN u = 1 .. m + n
      /\ \A i \in 1 .. m + n : u[i] = IF i <= m THEN s[i] ELSE t[i - m]
  BY <1>1, ConcatProperties
<1>4. ASSUME NEW i \in 1 .. m + n
      PROVE  \/ i \in DOMAIN s /\ u[i] = s[i]
             \/ i > m /\ i - m \in DOMAIN t /\ u[i] = t[i - m]
  BY <1>1, <1>2, <1>3
<1>5. ASSUME NEW i \in DOMAIN s  PROVE i \in DOMAIN u /\ u[i] = s[i]
  BY <1>1, <1>2, <1>3
<1>6. ASSUME NEW i \in DOMAIN t  PROVE m + i \in DOMAIN u /\ u[m + i] = t[i]
  BY <1>1, <1>2, <1>3
<1>7. Items(u) = Items(s) \cup Items(t) /\ Firsts(u) = Firsts(s) \cup Firsts(t)
  <2>1. \A x \in Items(u) : x \in Items(s) \cup Items(t)
    BY <1>3, <1>4 DEF Items
  <2>2. \A x \in Items(s) \cup Items(t) : x \in Items(u)
    BY <1>5, <1>6 DEF Items
  <2>3. \A x \in Firsts(u) : x \in Firsts(s) \cup Firsts(t)
    BY <1>3, <1>4 DEF Firsts
  <2>4. \A x \in Firsts(s) \cup Firsts(t) : x \in Firsts(u)
    <3>1. ASSUME NEW x \in Firsts(s)  PROVE x \in Firsts(u)
      BY <1>5, <3>1 DEF Firsts
    <3>2. ASSUME NEW x \in Firsts(t)  PROVE x \in Firsts(u)
      <4>1. PICK i \in DOMAIN t : x = t[i][1]
        BY <3>2 DEF Firsts
      <4>2. m + i \in DOMAIN u /\ u[m + i] = t[i]
        BY <1>6
      <4> QED  BY <4>1, <4>2 DEF Firsts
    <3> QED  BY <3>1, <3>2
  <2> QED  BY <2>1, <2>2, <2>3, <2>4
<1>8. ASSUME Once(s), Once(t), Firsts(s) \cap Firsts(t) = {}  PROVE Once(u)
  <2> SUFFICES ASSUME NEW i \in 1 .. m + n, NEW j \in 1 .. m + n, u[i][1] = u[j][1]
               PROVE  i = j
    BY <1>3 DEF Once
  <2>1. CASE i \in DOMAIN s /\ u[i] = s[i] /\ j \in DOMAIN s /\ u[j] = s[j]
    BY <1>8, <2>1 DEF Once
  <2>2. CASE /\ i > m /\ i - m \in DOMAIN t /\ u[i] = t[i - m]
             /\ j > m /\ j - m \in DOMAIN t /\ u[j] = t[j - m]
    <3>1. i - m = j - m
      BY <1>8, <2>2 DEF Once
    <3> QED  BY <1>1, <3>1
  <2>3. CASE /\ i \in DOMAIN s /\ u[i] = s[i]
             /\ j > m /\ j - m \in DOMAIN t /\ u[j] = t[j - m]
    <3>1. u[i][1] \in Firsts(s) /\ u[j][1] \in Firsts(t)
      BY <2>3 DEF Firsts
    <3> QED  BY <1>8, <3>1
  <2>4. CASE /\ j \in DOMAIN s /\ u[j] = s[j]
             /\ i > m /\ i - m \in DOMAIN t /\ u[i] = t[i - m]
    <3>1. u[j][1] \in Firsts(s) /\ u[i][1] \in Firsts(t)
      BY <2>4 DEF Firsts
    <3> QED  BY <1>8, <3>1
  <2> QED  BY <1>4, <2>1, <2>2, <2>3, <2>4
<1> QED  BY <1>1, <1>3, <1>7, <1>8 DEF Both

\* A sequence of one pair.
LEMMA Single ==
  ASSUME NEW A, NEW x \in A, NEW s, s = <<x>>
  PROVE  s \in Seq(A) /\ Items(s) = {x} /\ Firsts(s) = {x[1]} /\ Once(s)
<1>1. s \in Seq(A) /\ DOMAIN s = {1} /\ s[1] = x
  OBVIOUS
<1> QED  BY <1>1 DEF Items, Firsts, Once

Behind(s, t) ==
  /\ Head(s) \in Items(s) /\ Items(s) = {Head(s)} \cup Items(t)
  /\ Firsts(s) = {Head(s)[1]} \cup Firsts(t)
  /\ Once(s) => Once(t) /\ Head(s)[1] \notin Firsts(t)

\* What is left behind the first pair.
LEMMA Left ==
  ASSUME NEW A, NEW s \in Seq(A), s # <<>>, NEW t, t = Tail(s)
  PROVE  t \in Seq(A) /\ Behind(s, t)
<1>1. PICK n \in Nat : n = Len(s) /\ n >= 1
  OBVIOUS
<1>2. /\ t \in Seq(A) /\ DOMAIN t = 1 .. n - 1 /\ DOMAIN s = 1 .. n /\ Head(s) = s[1]
      /\ \A i \in 1 .. n - 1 : t[i] = s[i + 1]
  BY <1>1
<1>3. ASSUME NEW i \in DOMAIN s
      PROVE  \/ i = 1
             \/ i # 1 /\ i - 1 \in DOMAIN t /\ s[i] = t[i - 1]
  BY <1>1, <1>2
<1>4. ASSUME NEW i \in DOMAIN t  PROVE i + 1 \in DOMAIN s /\ t[i] = s[i + 1] /\ i + 1 # 1
  BY <1>1, <1>2
<1>5. 1 \in DOMAIN s
  BY <1>1, <1>2
<1>6. Items(s) = {Head(s)} \cup Items(t) /\ Firsts(s) = {Head(s)[1]} \cup Firsts(t)
  <2>1. ASSUME NEW i \in DOMAIN s
        PROVE  s[i] \in {Head(s)} \cup Items(t) /\ s[i][1] \in {Head(s)[1]} \cup Firsts(t)
    <3>1. CASE i = 1
      BY <1>2, <3>1
    <3>2. CASE i # 1
      <4>1. PICK j \in DOMAIN t : s[i] = t[j]
        BY <1>3, <3>2
      <4> QED  BY <4>1 DEF Items, Firsts
    <3> QED  BY <3>1, <3>2
  <2>2. \A x \in Items(t) : x \in Items(s)
    BY <1>4 DEF Items
  <2>3. \A x \in Items(s) : x \in {Head(s)} \cup Items(t)
    BY <2>1 DEF Items
  <2>4. \A x \in Firsts(s) : x \in {Head(s)[1]} \cup Firsts(t)
    BY <2>1 DEF Firsts
  <2>5. \A x \in Firsts(t) : x \in Firsts(s)
    BY <1>4 DEF Firsts
  <2>6. Head(s) \in Items(s) /\ Head(s)[1] \in Firsts(s)
    BY <1>2, <1>5 DEF Items, Firsts
  <2> QED  BY <2>2, <2>3, <2>4, <2>5, <2>6
<1>7. ASSUME Once(s)  PROVE Once(t) /\ Head(s)[1] \notin Firsts(t)
  <2>1. ASSUME NEW i \in DOMAIN t, NEW j \in DOMAIN t, t[i][1] = t[j][1]  PROVE i = j
    <3>1. i + 1 = j + 1
      BY <1>4, <1>7, <2>1 DEF Once
    <3> QED  BY <1>1, <1>2, <3>1
  <2>2. ASSUME NEW i \in DOMAIN t  PROVE t[i][1] # s[1][1]
    BY <1>4, <1>5, <1>7 DEF Once
  <2> QED  BY <1>2, <2>1, <2>2 DEF Once, Firsts
<1> QED  BY <1>2, <1>5, <1>6, <1>7 DEF Items, Behind

-----------------------------------------------------------------------------
(* Dtb: the children of a node.                                            *)

Size == Len(blob.nodes)
Parent(i) == blob.nodes[i].parent

\* Nodes with the index of their parent.
Pairs == (1 .. Size) \X (Nat \cup {None})

\* The children of n from node m on.
Kids(n, m) == {i \in m .. Size : Parent(i) = n}

Childs(child, n, ix) ==
  child = [i \in 1 .. Len(blob.nodes) + 1 |->
            IF i > Len(blob.nodes) THEN <<>>
            ELSE (IF blob.nodes[i].parent = n THEN <<<<i, ix>>>> ELSE <<>>) \o child[i + 1]]

ChildrenFrom(s, n, ix, m) ==
  /\ s \in Seq(Pairs) /\ Items(s) = {<<i, ix>> : i \in Kids(n, m)} /\ Firsts(s) = Kids(n, m)
  /\ Once(s)

\* The tree of the machine.
LEMMA TreeIs ==
  ASSUME blob \in TreeSet
  PROVE  /\ Size \in Nat \ {0} /\ DOMAIN blob.nodes = 1 .. Size
         /\ Parent(1) = 0 /\ \A i \in 2 .. Size : Parent(i) \in 1 .. i - 1
         /\ \A i \in 1 .. Size : blob.nodes[i].comp \in Seq(STRING) /\ blob.nodes[i].sbi \in BOOLEAN
<1>1. Dtb!Tree(blob)
  BY DriversAssumption DEF Dtb!DtbAssumption
<1>2. blob.nodes \in Seq([parent : Nat, comp : Seq(STRING), sbi : BOOLEAN]) /\ blob.nodes # <<>>
  BY <1>1 DEF Dtb!Tree
<1>3. Size \in Nat \ {0} /\ DOMAIN blob.nodes = 1 .. Size
  BY <1>2 DEF Size
<1>4. ASSUME NEW i \in 1 .. Size
      PROVE  blob.nodes[i] \in [parent : Nat, comp : Seq(STRING), sbi : BOOLEAN]
  <2>1. PICK s, R : s = blob.nodes /\ R = [parent : Nat, comp : Seq(STRING), sbi : BOOLEAN]
    OBVIOUS
  <2>2. s \in Seq(R) /\ i \in DOMAIN s
    BY <1>2, <1>3, <2>1
  <2>3. s[i] \in R
    BY <2>2, ElementOfSeq
  <2> QED  BY <2>1, <2>3
<1>5. Parent(1) = 0 /\ \A i \in 2 .. Size : Parent(i) \in 1 .. i - 1
  BY <1>1 DEF Dtb!Tree, Parent, Size
<1> QED  BY <1>3, <1>4, <1>5

\* The walk over the nodes for children has a result.
LEMMA ChildsExist ==
  ASSUME blob \in TreeSet, NEW n \in Nat, NEW ix \in Nat \cup {None}
  PROVE  \E child : Childs(child, n, ix)
<1>1. Size \in Nat \ {0}
  BY TreeIs
<1>2. PICK g : g = [q \in Seq(Pairs) \X (1 .. Size) |->
                     (IF Parent(Size + 1 - q[2]) = n THEN <<<<Size + 1 - q[2], ix>>>> ELSE <<>>) \o q[1]]
  OBVIOUS
<1>3. g \in [Seq(Pairs) \X (1 .. Size) -> Seq(Pairs)]
  <2>1. ASSUME NEW s \in Seq(Pairs), NEW k \in 1 .. Size
        PROVE  g[<<s, k>>] \in Seq(Pairs)
    <3>1. PICK i \in 1 .. Size : i = Size + 1 - k
      BY <1>1
    <3>2. PICK t : t = IF Parent(i) = n THEN <<<<i, ix>>>> ELSE <<>>
      OBVIOUS
    <3>3. t \in Seq(Pairs)
      <4>1. <<i, ix>> \in Pairs
        BY DEF Pairs
      <4> QED  BY <3>2, <4>1
    <3>4. t \o s \in Seq(Pairs)
      BY <3>3, ConcatProperties
    <3> QED  BY <1>2, <3>1, <3>2, <3>4
  <2> QED  BY <1>2, <2>1
<1>4. <<>> \in Seq(Pairs)
  OBVIOUS
<1>5. PICK f \in [0 .. Size -> Seq(Pairs)] : Iterates(f, <<>>, g, Size)
  BY <1>1, <1>3, <1>4, Iteration
<1>6. PICK child : child = [i \in 1 .. Size + 1 |-> f[Size + 1 - i]]
  OBVIOUS
<1>7. ASSUME NEW i \in 1 .. Size + 1
      PROVE  child[i] = IF i > Size THEN <<>>
                        ELSE (IF Parent(i) = n THEN <<<<i, ix>>>> ELSE <<>>) \o child[i + 1]
  <2>1. PICK k \in 0 .. Size : k = Size + 1 - i
    BY <1>1
  <2>2. child[i] = f[k]
    BY <1>6, <2>1
  <2>3. f[k] = IF k = 0 THEN <<>> ELSE g[<<f[k - 1], k>>]
    BY <1>5 DEF Iterates
  <2>4. CASE i > Size
    BY <1>1, <2>1, <2>2, <2>3, <2>4
  <2>5. CASE i <= Size
    <3>1. k \in 1 .. Size /\ k - 1 \in 0 .. Size /\ Size + 1 - k = i /\ i + 1 \in 1 .. Size + 1
          /\ Size + 1 - (i + 1) = k - 1 /\ k # 0 /\ ~(i > Size)
      BY <1>1, <2>1, <2>5
    <3>2. child[i + 1] = f[k - 1]
      BY <1>6, <3>1
    <3>3. PICK s \in Seq(Pairs) : s = f[k - 1]
      BY <3>1
    <3>4. g[<<s, k>>] = (IF Parent(i) = n THEN <<<<i, ix>>>> ELSE <<>>) \o s
      BY <1>2, <3>1
    <3> QED  BY <2>2, <2>3, <3>1, <3>2, <3>3, <3>4
  <2> QED  BY <1>1, <2>4, <2>5
<1>8. Childs(child, n, ix)
  <2>1. child = [i \in 1 .. Size + 1 |->
                  IF i > Size THEN <<>>
                  ELSE (IF Parent(i) = n THEN <<<<i, ix>>>> ELSE <<>>) \o child[i + 1]]
    BY <1>6, <1>7
  <2> QED  BY <2>1 DEF Childs, Size, Parent
<1> QED  BY <1>8

\* The children of a node, once each.
LEMMA ChildrenIs ==
  ASSUME blob \in TreeSet, NEW n \in Nat, NEW ix \in Nat \cup {None},
         NEW s, s = Dtb!Children(n, ix)
  PROVE  ChildrenFrom(s, n, ix, 1)
<1>1. Size \in Nat \ {0}
  BY TreeIs
<1>2. PICK child : child = CHOOSE f : Childs(f, n, ix)
  OBVIOUS
<1>3. Childs(child, n, ix)
  BY <1>2, ChildsExist
<1>4. s = child[1]
  BY <1>2, Zenon DEF Dtb!Children, Childs
<1>5. \A i \in 1 .. Size + 1 :
        child[i] = IF i > Size THEN <<>>
                   ELSE (IF Parent(i) = n THEN <<<<i, ix>>>> ELSE <<>>) \o child[i + 1]
  BY <1>3 DEF Childs, Size, Parent
<1>6. PICK S : S = {k \in Nat : k <= Size => ChildrenFrom(child[Size + 1 - k], n, ix, Size + 1 - k)}
  OBVIOUS
<1>7. 0 \in S
  <2>1. child[Size + 1] = <<>> /\ Kids(n, Size + 1) = {}
    <3>1. Size + 1 \in 1 .. Size + 1 /\ Size + 1 > Size /\ Size + 1 .. Size = {}
      BY <1>1
    <3> QED  BY <1>5, <3>1 DEF Kids
  <2>2. ChildrenFrom(<<>>, n, ix, Size + 1)
    BY <2>1 DEF ChildrenFrom, Items, Firsts, Once
  <2> QED  BY <1>1, <1>6, <2>1, <2>2
<1>8. ASSUME NEW k \in Nat, k \in S  PROVE k + 1 \in S
  <2>1. SUFFICES ASSUME k + 1 <= Size
                 PROVE  ChildrenFrom(child[Size + 1 - (k + 1)], n, ix, Size + 1 - (k + 1))
    BY <1>6
  <2>2. PICK i \in 1 .. Size : i = Size - k /\ i + 1 = Size + 1 - k /\ i = Size + 1 - (k + 1)
    BY <1>1, <2>1
  <2>3. ChildrenFrom(child[i + 1], n, ix, i + 1)
    BY <1>1, <1>6, <1>8, <2>1, <2>2
  <2>4. PICK t : t = child[i + 1]
    OBVIOUS
  <2>5. t \in Seq(Pairs) /\ Items(t) = {<<j, ix>> : j \in Kids(n, i + 1)} /\ Firsts(t) = Kids(n, i + 1)
        /\ Once(t)
    BY <2>3, <2>4 DEF ChildrenFrom
  <2>6. child[i] = (IF Parent(i) = n THEN <<<<i, ix>>>> ELSE <<>>) \o t
    <3>1. i \in 1 .. Size + 1 /\ ~(i > Size)
      BY <1>1
    <3> QED  BY <1>5, <2>4, <3>1
  <2>7. CASE Parent(i) = n
    <3>1. Kids(n, i) = {i} \cup Kids(n, i + 1) /\ i \notin Kids(n, i + 1)
      BY <1>1, <2>7 DEF Kids
    <3>2. PICK x, r : x = <<i, ix>> /\ r = <<x>>
      OBVIOUS
    <3>3. x \in Pairs /\ x[1] = i
      BY <3>2 DEF Pairs
    <3>4. r \in Seq(Pairs) /\ Items(r) = {x} /\ Firsts(r) = {i} /\ Once(r)
      BY <3>2, <3>3, Single
    <3>5. PICK u : u = r \o t
      OBVIOUS
    <3>6. /\ u \in Seq(Pairs) /\ Items(u) = Items(r) \cup Items(t) /\ Firsts(u) = Firsts(r) \cup Firsts(t)
          /\ Once(r) /\ Once(t) /\ Firsts(r) \cap Firsts(t) = {} => Once(u)
      <4>1. r \in Seq(Pairs) /\ t \in Seq(Pairs)
        BY <2>5, <3>4
      <4>2. u \in Seq(Pairs) /\ Both(r, t, u)
        BY <3>5, <4>1, Joined
      <4> QED  BY <4>2 DEF Both
    <3>7. Once(u)
      BY <2>5, <3>1, <3>4, <3>6
    <3>8. Items(u) = {<<j, ix>> : j \in Kids(n, i)}
      BY <2>5, <3>1, <3>2, <3>4, <3>6
    <3>9. child[i] = u
      BY <2>6, <2>7, <3>2, <3>5
    <3> QED  BY <2>2, <2>5, <3>1, <3>4, <3>6, <3>7, <3>8, <3>9 DEF ChildrenFrom
  <2>8. CASE Parent(i) # n
    <3>1. Kids(n, i) = Kids(n, i + 1)
      BY <1>1, <2>8 DEF Kids
    <3>2. child[i] = t
      BY <2>5, <2>6, <2>8, ConcatEmptySeq
    <3> QED  BY <2>2, <2>5, <3>1, <3>2 DEF ChildrenFrom
  <2> QED  BY <2>7, <2>8
<1>9. Size \in S
  BY <1>1, <1>7, <1>8, Climb
<1> QED  BY <1>1, <1>4, <1>6, <1>9

-----------------------------------------------------------------------------
(* Dtb: every node is listed once, behind its parent.                      *)

\* The index kept with a node is that of its parent in l.
Placed(e, l) ==
  IF Parent(e[1]) = 0 THEN e[2] = None
  ELSE e[2] \in 0 .. Len(l) - 1 /\ l[e[2] + 1][1] = Parent(e[1])

\* Half-way: l is listed, j is to be listed, and the children of the nodes
\* of l are in one of them.
Walk(l, j) ==
  /\ l \in Seq(Pairs) /\ j \in Seq(Pairs)
  /\ \A e \in Items(l) \cup Items(j) : Placed(e, l)
  /\ Once(l) /\ Once(j) /\ Firsts(l) \cap Firsts(j) = {}
  /\ 1 \in Firsts(l) \cup Firsts(j)
  /\ \A n \in 1 .. Size : Parent(n) \in Firsts(l) => n \in Firsts(l) \cup Firsts(j)

TreeInv ==
  /\ blob \in TreeSet
  /\ \/ dpc \in {"map", "power", "failed"} /\ jobs = <<>> /\ list = <<>> /\ sent = <<>>
     \/ /\ dpc \notin {"map", "power"} /\ Walk(list, jobs)
        /\ sent # <<>> => dpc # "tree" /\ jobs = <<>> /\ sent = list

\* Firsts are nodes.
LEMMA FirstsIn ==
  ASSUME NEW s \in Seq(Pairs)
  PROVE  /\ Firsts(s) \subseteq 1 .. Size
         /\ \A e \in Items(s) : e \in Pairs /\ e[1] \in Firsts(s)
         /\ \A n \in Firsts(s) : \E e \in Items(s) : e[1] = n
<1>1. \A i \in DOMAIN s : s[i] \in Pairs
  BY ElementOfSeq
<1>2. \A e \in Pairs : e[1] \in 1 .. Size
  BY DEF Pairs
<1> QED  BY <1>1, <1>2 DEF Firsts, Items

\* parse_node keeps the walk.
LEMMA ParseStep ==
  ASSUME blob \in TreeSet, NEW l, NEW j, Walk(l, j), j # <<>>,
         NEW m, m = Append(l, Head(j)),
         NEW k, k = Dtb!Children(Head(j)[1], Len(l)) \o Tail(j)
  PROVE  Walk(m, k)
<1>1. PICK e, t : e = Head(j) /\ t = Tail(j)
  OBVIOUS
<1>2. t \in Seq(Pairs) /\ Behind(j, t)
  BY <1>1, Left DEF Walk
<1>3. PICK n, ix, s : n = e[1] /\ ix = Len(l) /\ s = Dtb!Children(n, ix)
  OBVIOUS
<1>4. l \in Seq(Pairs) /\ e \in Items(j) /\ e \in Pairs /\ n \in 1 .. Size /\ ix \in Nat
  BY <1>1, <1>2, <1>3, FirstsIn DEF Behind, Walk, Pairs
<1>5. ChildrenFrom(s, n, ix, 1)
  BY <1>3, <1>4, ChildrenIs
<1>6. k \in Seq(Pairs) /\ Both(s, t, k)
  <2>1. k = s \o t /\ s \in Seq(Pairs)
    BY <1>1, <1>3, <1>5 DEF ChildrenFrom
  <2> QED  BY <1>2, <2>1, Joined
<1>7. PICK r : r = <<e>>
  OBVIOUS
<1>8. r \in Seq(Pairs) /\ Items(r) = {e} /\ Firsts(r) = {n} /\ Once(r)
  BY <1>3, <1>4, <1>7, Single
<1>9. m \in Seq(Pairs) /\ Both(l, r, m)
  <2>1. m = l \o r
    BY <1>1, <1>4, <1>7
  <2> QED  BY <1>4, <1>8, <2>1, Joined
<1>10. /\ Items(m) = Items(l) \cup {e} /\ Firsts(m) = Firsts(l) \cup {n}
       /\ Items(j) = {e} \cup Items(t) /\ Firsts(j) = {n} \cup Firsts(t) /\ n \notin Firsts(t)
       /\ Once(t)
       /\ Items(k) = Items(s) \cup Items(t) /\ Firsts(k) = Firsts(s) \cup Firsts(t)
  BY <1>1, <1>2, <1>3, <1>6, <1>8, <1>9 DEF Both, Behind, Walk
<1>11. n \notin Firsts(l) /\ Firsts(l) \cap Firsts(t) = {} /\ Firsts(l) \subseteq 1 .. Size
       /\ Firsts(t) \subseteq 1 .. Size
  BY <1>2, <1>4, <1>10, FirstsIn DEF Walk
\* The children of n are nowhere yet.
<1>12. Firsts(s) \cap (Firsts(l) \cup Firsts(t) \cup {n}) = {}
  <2>1. ASSUME NEW c \in Firsts(s), c \in Firsts(l) \cup Firsts(t) \cup {n}  PROVE FALSE
    <3>1. c \in 1 .. Size /\ Parent(c) = n /\ Parent(c) # 0
      BY <1>4, <1>5 DEF ChildrenFrom, Kids
    <3>2. PICK x \in Items(l) \cup Items(j) : x[1] = c
      <4>1. j \in Seq(Pairs) /\ c \in Firsts(l) \cup Firsts(j)
        BY <1>10, <2>1 DEF Walk
      <4>2. CASE c \in Firsts(l)
        BY <1>4, <4>2, FirstsIn
      <4>3. CASE c \in Firsts(j)
        BY <4>1, <4>3, FirstsIn
      <4> QED  BY <4>1, <4>2, <4>3
    <3>3. x[2] \in 0 .. Len(l) - 1 /\ l[x[2] + 1][1] = n
      BY <3>1, <3>2 DEF Walk, Placed
    <3>4. x[2] + 1 \in DOMAIN l
      BY <1>4, <3>3
    <3>5. n \in Firsts(l)
      BY <3>3, <3>4 DEF Firsts
    <3> QED  BY <1>11, <3>5
  <2> QED  BY <2>1
<1>13. Once(m)
  BY <1>8, <1>9, <1>11 DEF Both, Walk
<1>14. Once(k)
  BY <1>5, <1>6, <1>10, <1>12 DEF Both, ChildrenFrom
<1>15. Firsts(m) \cap Firsts(k) = {}
  BY <1>10, <1>11, <1>12
<1>16. Len(m) = ix + 1 /\ m[ix + 1] = e /\ \A i \in 1 .. ix : m[i] = l[i]
  BY <1>1, <1>3, <1>4
<1>17. ASSUME NEW x, x \in Items(m) \cup Items(k)  PROVE Placed(x, m)
  <2>1. CASE x \in Items(l) \cup Items(j)
    <3>1. Placed(x, l)
      BY <2>1 DEF Walk
    <3>2. CASE Parent(x[1]) = 0
      BY <3>1, <3>2 DEF Placed
    <3>3. CASE Parent(x[1]) # 0
      <4>1. PICK y \in 0 .. ix - 1 : y = x[2] /\ l[y + 1][1] = Parent(x[1])
        BY <1>3, <3>1, <3>3 DEF Placed
      <4>2. y + 1 \in 1 .. ix
        <5>1. PICK m1 \in Nat : m1 = ix
          BY <1>4
        <5> QED  BY <5>1
      <4>3. y \in 0 .. Len(m) - 1
        BY <1>4, <1>16, <4>1
      <4> QED  BY <1>16, <3>3, <4>1, <4>2, <4>3 DEF Placed
    <3> QED  BY <3>2, <3>3
  <2>2. CASE x \in Items(s)
    <3>1. PICK c \in Kids(n, 1) : x = <<c, ix>>
      BY <1>5, <2>2 DEF ChildrenFrom
    <3>2. Parent(x[1]) = n /\ n # 0 /\ x[2] = ix
      BY <1>4, <3>1 DEF Kids
    <3>3. ix \in 0 .. Len(m) - 1 /\ m[ix + 1][1] = n
      BY <1>3, <1>4, <1>16
    <3> QED  BY <3>2, <3>3 DEF Placed
  <2> QED  BY <1>10, <1>17, <2>1, <2>2
<1>18. 1 \in Firsts(m) \cup Firsts(k)
  BY <1>10 DEF Walk
<1>19. ASSUME NEW c \in 1 .. Size, Parent(c) \in Firsts(m)  PROVE c \in Firsts(m) \cup Firsts(k)
  <2>1. CASE Parent(c) \in Firsts(l)
    BY <1>10, <2>1 DEF Walk
  <2>2. CASE Parent(c) = n
    <3>1. c \in Kids(n, 1)
      BY <2>2 DEF Kids
    <3> QED  BY <1>5, <1>10, <3>1 DEF ChildrenFrom
  <2> QED  BY <1>10, <1>19, <2>1, <2>2
<1> QED  BY <1>6, <1>9, <1>13, <1>14, <1>15, <1>17, <1>18, <1>19 DEF Walk

\* Before the walk, no node is parsed.
LEMMA TreeInit == Dtb!Init => TreeInv
BY DEF Dtb!Init, TreeInv

\* Before anything is listed the root is to be visited.
LEMMA ProbeStep ==
  ASSUME blob \in TreeSet
  PROVE  Walk(<<>>, <<<<1, None>>>>)
<1>1. Size \in Nat \ {0} /\ Parent(1) = 0
  BY TreeIs
<1>2. PICK e, j, l : e = <<1, None>> /\ j = <<e>> /\ l = <<>>
  OBVIOUS
<1>3. e \in Pairs /\ e[1] = 1 /\ e[2] = None
  BY <1>1, <1>2 DEF Pairs
<1>4. j \in Seq(Pairs) /\ Items(j) = {e} /\ Firsts(j) = {1} /\ Once(j)
  BY <1>2, <1>3, Single
<1>5. l \in Seq(Pairs) /\ Items(l) = {} /\ Firsts(l) = {} /\ Once(l)
  BY <1>2 DEF Items, Firsts, Once
<1>6. Placed(e, l)
  BY <1>1, <1>3 DEF Placed
<1>7. Walk(l, j)
  BY <1>4, <1>5, <1>6 DEF Walk
<1> QED  BY <1>2, <1>7

\* Every step of the tree driver keeps what is said of the list.
LEMMA TreeStep ==
  ASSUME TreeInv, Dtb!Next
  PROVE  TreeInv'
<1>1. blob' = blob
  BY DEF Dtb!Next, Dtb!MapBlob, Dtb!PowerNode, Dtb!Probe, Dtb!ParseNode, Dtb!Report,
         Dtb!RegisterPlatform, Dtb!RegisterThermal, Dtb!Call, Dtb!HandleOff, Dtb!HandleReboot,
         Dtb!GetTemperature, Dtb!GetZoneCount, Dtb!GetZoneInfo, Dtb!Reply
<1>2. blob \in TreeSet
  BY DEF TreeInv
<1>3. ASSUME NEW l, NEW j, l = list', j = jobs', Walk(l, j)  PROVE Walk(list, jobs)'
  <2>1. Walk(list', jobs')
    BY <1>3
  <2> QED  BY <1>1, <2>1 DEF Walk, Placed, Pairs, Size, Parent
<1>4. CASE Dtb!MapBlob \/ Dtb!PowerNode
  <2>1. dpc \in {"map", "power"} /\ dpc' \in {"map", "power", "failed"}
        /\ UNCHANGED <<jobs, list, sent>>
    BY <1>4 DEF Dtb!MapBlob, Dtb!PowerNode
  <2> QED  BY <1>1, <2>1 DEF TreeInv
<1>5. CASE Dtb!Probe
  <2>1. Walk(<<>>, <<<<1, None>>>>)
    BY <1>2, ProbeStep
  <2>2. dpc' = "tree" /\ jobs' = <<<<1, None>>>> /\ list' = <<>> /\ sent' = <<>>
    BY <1>5 DEF Dtb!Probe, Dtb!NoParent, TreeInv
  <2>3. Walk(list, jobs)'
    BY <1>3, <2>1, <2>2
  <2> QED  BY <1>1, <1>2, <2>2, <2>3 DEF TreeInv
<1>6. CASE Dtb!ParseNode
  <2>1. /\ dpc = "tree" /\ dpc' = "tree" /\ sent' = sent /\ jobs # <<>>
        /\ list' = Append(list, Head(jobs))
        /\ jobs' = Dtb!Children(Head(jobs)[1], Len(list)) \o Tail(jobs)
    BY <1>6 DEF Dtb!ParseNode, Dtb!Current
  <2>2. Walk(list, jobs) /\ sent = <<>>
    BY <2>1 DEF TreeInv
  <2>3. PICK l, j : l = list' /\ j = jobs'
    OBVIOUS
  <2>4. Walk(l, j)
    BY <1>2, <2>1, <2>2, <2>3, ParseStep
  <2>5. Walk(list, jobs)'
    BY <1>3, <2>3, <2>4
  <2> QED  BY <1>1, <1>2, <2>1, <2>2, <2>5 DEF TreeInv
<1>7. CASE Dtb!Report \/ Dtb!RegisterPlatform \/ Dtb!RegisterThermal \/ Dtb!Call
  <2>1. /\ dpc \notin {"map", "power", "failed"} /\ dpc' \notin {"map", "power", "tree"}
        /\ UNCHANGED <<jobs, list>>
        /\ \/ sent' = sent
           \/ jobs = <<>> /\ sent' = list
    <3>1. CASE Dtb!Call
      BY <3>1 DEF Dtb!Call, Dtb!HandleOff, Dtb!HandleReboot, Dtb!GetTemperature,
                  Dtb!GetZoneCount, Dtb!GetZoneInfo, Dtb!Reply
    <3> QED  BY <1>7, <3>1 DEF Dtb!Report, Dtb!RegisterPlatform, Dtb!RegisterThermal
  <2>2. Walk(list, jobs) /\ (sent # <<>> => jobs = <<>> /\ sent = list)
    BY <2>1 DEF TreeInv
  <2>3. Walk(list, jobs)'
    <3>1. PICK l, j : l = list' /\ j = jobs' /\ l = list /\ j = jobs
      BY <2>1
    <3> QED  BY <1>3, <2>2, <3>1
  <2> QED  BY <1>1, <1>2, <2>1, <2>2, <2>3 DEF TreeInv
<1> QED  BY <1>4, <1>5, <1>6, <1>7 DEF Dtb!Next

\* A walk at its end has every node.
LEMMA WalkEnds ==
  ASSUME blob \in TreeSet, NEW l, Walk(l, <<>>)
  PROVE  Firsts(l) = 1 .. Size /\ Len(l) = Size
<1>1. Size \in Nat \ {0} /\ \A i \in 2 .. Size : Parent(i) \in 1 .. i - 1
  BY TreeIs
<1>2. Firsts(<<>>) = {}
  BY DEF Firsts
<1>3. PICK S : S = {k \in Nat : \A n \in 1 .. Size : n <= k => n \in Firsts(l)}
  OBVIOUS
<1>4. 0 \in S
  BY <1>1, <1>3
<1>5. ASSUME NEW k \in Nat, k \in S  PROVE k + 1 \in S
  <2>1. SUFFICES ASSUME k + 1 \in 1 .. Size  PROVE k + 1 \in Firsts(l)
    <3>1. \A n \in 1 .. Size : n <= k + 1 => n <= k \/ n = k + 1
      BY <1>1
    <3> QED  BY <1>3, <1>5, <3>1
  <2>2. CASE k = 0
    BY <1>2, <2>2 DEF Walk
  <2>3. CASE k # 0
    <3>1. PICK n \in 2 .. Size : n = k + 1
      BY <1>1, <2>1, <2>3
    <3>2. Parent(n) \in 1 .. k
      BY <1>1, <3>1
    <3>3. Parent(n) \in 1 .. Size /\ Parent(n) <= k
      BY <1>1, <2>1, <3>2
    <3>4. Parent(n) \in Firsts(l)
      BY <1>3, <1>5, <3>3
    <3>5. n \in 1 .. Size
      BY <3>1
    <3> QED  BY <1>2, <3>1, <3>4, <3>5 DEF Walk
  <2> QED  BY <2>2, <2>3
<1>6. Size \in S
  BY <1>1, <1>4, <1>5, Climb
<1>7. Firsts(l) = 1 .. Size
  <2>1. l \in Seq(Pairs)
    BY DEF Walk
  <2>2. Firsts(l) \subseteq 1 .. Size
    BY <2>1, FirstsIn
  <2>3. \A n \in 1 .. Size : n <= Size
    BY <1>1
  <2> QED  BY <1>3, <1>6, <2>2, <2>3
<1>8. Len(l) = Size
  <2>1. PICK m \in Nat : m = Len(l) /\ DOMAIN l = 1 .. m
    BY DEF Walk
  <2>2. PICK f : f = [i \in 1 .. m |-> l[i][1]]
    OBVIOUS
  <2>3. f \in [1 .. m -> 1 .. Size]
    BY <1>7, <2>1, <2>2 DEF Firsts
  <2>4. \A i, j \in 1 .. m : f[i] = f[j] => i = j
    BY <2>1, <2>2 DEF Walk, Once
  <2>5. \A n \in 1 .. Size : \E i \in 1 .. m : f[i] = n
    BY <1>7, <2>1, <2>2 DEF Firsts
  <2>6. f \in Bijection(1 .. m, 1 .. Size)
    <3>1. f \in Injection(1 .. m, 1 .. Size)
      BY <2>3, <2>4, Zenon DEF Injection, IsInjective
    <3>2. f \in Surjection(1 .. m, 1 .. Size)
      BY <2>3, <2>5, Zenon DEF Surjection
    <3> QED  BY <3>1, <3>2 DEF Bijection
  <2>7. ExistsBijection(1 .. m, 1 .. Size)
    BY <2>6 DEF ExistsBijection
  <2>8. Cardinality(1 .. Size) = m
    BY <2>7, FS_CountingElements
  <2>9. Cardinality(1 .. Size) = Size
    BY <1>1, FS_Interval
  <2> QED  BY <2>1, <2>8, <2>9
<1> QED  BY <1>7, <1>8

\* With that, what is reported is what the tree says.
LEMMA ReportPromise == TreeInv => Dtb!TreeReported
<1> SUFFICES ASSUME TreeInv, sent # <<>>  PROVE Dtb!TreeReported
  BY DEF Dtb!TreeReported
<1>1. blob \in TreeSet /\ Walk(sent, <<>>)
  BY DEF TreeInv
<1>2. Firsts(sent) = 1 .. Size /\ Len(sent) = Size /\ DOMAIN blob.nodes = 1 .. Size
  BY <1>1, WalkEnds, TreeIs
<1>3. \A n \in Dtb!Nodes : \E i \in DOMAIN sent : sent[i][1] = n
  BY <1>2 DEF Dtb!Nodes, Firsts
<1>4. ASSUME NEW i \in DOMAIN sent
      PROVE  IF blob.nodes[sent[i][1]].parent = 0 THEN sent[i][2] = Dtb!NoParent
             ELSE sent[sent[i][2] + 1][1] = blob.nodes[sent[i][1]].parent
  <2>1. Placed(sent[i], sent)
    BY <1>1 DEF Walk, Items
  <2> QED  BY <2>1 DEF Placed, Parent, Dtb!NoParent
<1> QED  BY <1>2, <1>3, <1>4 DEF Dtb!TreeReported, Size

-----------------------------------------------------------------------------
(* Dtb: the last name that gives a way to switch off decides.              *)

Ways == {"psci", "sbi", "gpio-poweroff", "gpio-restart", "syscon-reboot"}

\* The texts of the tree, and the one that has_sbi stands for.
Texts == STRING \cup {"sbi"}

Named(w) == \E i \in DOMAIN w : w[i] \in Ways
LastOf(w, K) ==
  \E i \in DOMAIN w : w[i] \in K /\ \A j \in i + 1 .. Len(w) : w[j] \notin Ways

\* One name more.
LEMMA NameMore ==
  ASSUME NEW w \in Seq(Texts), NEW c \in Texts, NEW v, v = Append(w, c), NEW K, K \subseteq Ways
  PROVE  /\ Named(v) <=> Named(w) \/ c \in Ways
         /\ LastOf(v, K) <=> IF c \in Ways THEN c \in K ELSE LastOf(w, K)
<1>1. PICK n \in Nat : n = Len(w) /\ DOMAIN w = 1 .. n
  OBVIOUS
<1>2. Len(v) = n + 1 /\ DOMAIN v = 1 .. n + 1 /\ v[n + 1] = c /\ \A i \in 1 .. n : v[i] = w[i]
  <2>1. PICK S : S = Texts
    OBVIOUS
  <2>2. w \in Seq(S) /\ c \in S
    BY <2>1
  <2> HIDE <2>1
  <2>3. v \in Seq(S) /\ Len(v) = n + 1 /\ v[n + 1] = c /\ \A i \in 1 .. n : v[i] = w[i]
    BY <1>1, <2>2, AppendProperties
  <2> QED  BY <1>1, <2>3
<1>3. \A i \in 1 .. n + 1 : i \in 1 .. n \/ i = n + 1
  OBVIOUS
<1>4. n + 1 \in 1 .. n + 1 /\ \A i \in 1 .. n : i \in 1 .. n + 1 /\ n + 1 \in i + 1 .. n + 1
  OBVIOUS
<1>5. Named(v) <=> Named(w) \/ c \in Ways
  BY <1>1, <1>2, <1>3, <1>4 DEF Named
<1>6. CASE c \in Ways
  <2>1. ASSUME c \in K  PROVE LastOf(v, K)
    <3>1. n + 1 + 1 .. n + 1 = {}
      OBVIOUS
    <3> QED  BY <1>2, <1>4, <2>1, <3>1 DEF LastOf
  <2>2. ASSUME LastOf(v, K)  PROVE c \in K
    <3>1. PICK i \in 1 .. n + 1 : v[i] \in K /\ \A j \in i + 1 .. n + 1 : v[j] \notin Ways
      BY <1>2, <2>2 DEF LastOf
    <3>2. i = n + 1
      BY <1>2, <1>3, <1>4, <1>6, <3>1
    <3> QED  BY <1>2, <3>1, <3>2
  <2> QED  BY <1>5, <1>6, <2>1, <2>2
<1>7. CASE c \notin Ways
  <2>1. ASSUME LastOf(w, K)  PROVE LastOf(v, K)
    <3>1. PICK i \in 1 .. n : w[i] \in K /\ \A j \in i + 1 .. n : w[j] \notin Ways
      BY <1>1, <2>1 DEF LastOf
    <3>2. ASSUME NEW j \in i + 1 .. n + 1  PROVE v[j] \notin Ways
      <4>1. j = n + 1 \/ (j \in i + 1 .. n /\ j \in 1 .. n)
        OBVIOUS
      <4> QED  BY <1>2, <1>7, <3>1, <4>1
    <3> QED  BY <1>2, <1>4, <3>1, <3>2 DEF LastOf
  <2>2. ASSUME LastOf(v, K)  PROVE LastOf(w, K)
    <3>1. PICK i \in 1 .. n + 1 : v[i] \in K /\ \A j \in i + 1 .. n + 1 : v[j] \notin Ways
      BY <1>2, <2>2 DEF LastOf
    <3>2. i \in 1 .. n
      BY <1>2, <1>3, <1>7, <3>1
    <3>3. ASSUME NEW j \in i + 1 .. n  PROVE w[j] \notin Ways
      <4>1. j \in 1 .. n /\ j \in i + 1 .. n + 1
        BY <3>2
      <4> QED  BY <1>2, <3>1, <4>1
    <3> QED  BY <1>1, <1>2, <3>1, <3>2, <3>3 DEF LastOf
  <2> QED  BY <1>5, <1>7, <2>1, <2>2
<1> QED  BY <1>6, <1>7

Powers == [off : BOOLEAN, boot : BOOLEAN, method : {None, "sbi", "psci", "gpio", "syscon"}]

\* What has been found is what the names so far say.
Says(p, w) ==
  /\ p \in Powers
  /\ p.off \/ p.boot <=> Named(w)
  /\ p.method \in {"sbi", "psci"} <=> LastOf(w, {"psci", "sbi"})
  /\ p.method \in {"sbi", "psci", "syscon"} <=> LastOf(w, {"psci", "sbi", "syscon-reboot"})
  /\ p.method \in {"sbi", "psci"} => p.off
  /\ p.method \in {"sbi", "psci", "syscon"} => p.boot

\* One more node searched for the ways to power off and reboot.
LEMMA FoundStep ==
  ASSUME NEW w \in Seq(Texts), NEW c \in Texts, NEW p, Says(p, w),
         NEW q, q = Dtb!Found(p, c), NEW v, v = Append(w, c)
  PROVE  Says(q, v)
<1>1. PICK A, B : A = {"psci", "sbi"} /\ B = {"psci", "sbi", "syscon-reboot"}
  OBVIOUS
<1>2. A \subseteq Ways /\ B \subseteq Ways
  BY <1>1 DEF Ways
<1>3. /\ Named(v) <=> Named(w) \/ c \in Ways
      /\ LastOf(v, A) <=> IF c \in Ways THEN c \in A ELSE LastOf(w, A)
      /\ LastOf(v, B) <=> IF c \in Ways THEN c \in B ELSE LastOf(w, B)
  BY <1>2, NameMore
<1>4. None \notin {"sbi", "psci", "syscon"}
  BY DriversAssumption DEF Dtb!DtbAssumption
<1>5. CASE c \in {"psci", "sbi"}
  <2>1. q = [off |-> TRUE, boot |-> TRUE, method |-> c]
    BY <1>5 DEF Dtb!Found
  <2>2. c \in Ways /\ c \in A /\ c \in B
    BY <1>1, <1>5 DEF Ways
  <2> QED  BY <1>1, <1>3, <1>5, <2>1, <2>2 DEF Says, Powers
<1>6. CASE c = "gpio-poweroff"
  <2>1. q = [p EXCEPT !.off = TRUE, !.method = "gpio"]
    BY <1>6 DEF Dtb!Found
  <2>2. c \in Ways /\ c \notin A /\ c \notin B
    BY <1>1, <1>6 DEF Ways
  <2> QED  BY <1>1, <1>3, <2>1, <2>2 DEF Says, Powers
<1>7. CASE c = "gpio-restart"
  <2>1. q = [p EXCEPT !.boot = TRUE, !.method = "gpio"]
    BY <1>7 DEF Dtb!Found
  <2>2. c \in Ways /\ c \notin A /\ c \notin B
    BY <1>1, <1>7 DEF Ways
  <2> QED  BY <1>1, <1>3, <2>1, <2>2 DEF Says, Powers
<1>8. CASE c = "syscon-reboot"
  <2>1. q = [p EXCEPT !.boot = TRUE, !.method = "syscon"]
    BY <1>8 DEF Dtb!Found
  <2>2. c \in Ways /\ c \notin A /\ c \in B
    BY <1>1, <1>8 DEF Ways
  <2> QED  BY <1>1, <1>3, <2>1, <2>2 DEF Says, Powers
<1>9. CASE c \notin Ways
  <2>1. q = p
    BY <1>9 DEF Dtb!Found, Ways
  <2> QED  BY <1>1, <1>3, <1>9, <2>1 DEF Says
<1> QED  BY <1>5, <1>6, <1>7, <1>8, <1>9 DEF Ways

\* One element more of a second sequence.
LEMMA TakeMore ==
  ASSUME NEW S, NEW w \in Seq(S), NEW s \in Seq(S), NEW k \in Nat, k + 1 <= Len(s)
  PROVE  /\ w \o SubSeq(s, 1, k) \in Seq(S) /\ s[k + 1] \in S
         /\ w \o SubSeq(s, 1, k + 1) = Append(w \o SubSeq(s, 1, k), s[k + 1])
<1>1. PICK n \in Nat : n = Len(s) /\ DOMAIN s = 1 .. n
  OBVIOUS
<1>2. PICK m \in 1 .. n : m = k + 1 /\ m - 1 = k
  BY <1>1
<1>3. s[m] \in S
  BY <1>1, <1>2, ElementOfSeq
<1>4. PICK t : t = SubSeq(s, 1, k)
  OBVIOUS
<1>5. t \in Seq(S)
  <2>1. \A i \in 1 .. k : s[i] \in S
    BY <1>1, <1>2, ElementOfSeq
  <2> QED  BY <1>4, <2>1, SubSeqProperties
<1>6. SubSeq(s, 1, m) = t \o <<s[m]>>
  <2>1. 1 \in 1 .. Len(s) /\ m \in 1 .. Len(s)
    BY <1>1, <1>2
  <2> QED  BY <1>2, <1>4, <2>1, SubSeqRecursiveSecond
<1>7. <<s[m]>> \in Seq(S)
  BY <1>3
<1>8. w \o (t \o <<s[m]>>) = (w \o t) \o <<s[m]>>
  <2>1. PICK z \in Seq(S) : z = <<s[m]>>
    BY <1>7
  <2>2. (w \o t) \o z = w \o (t \o z)
    BY <1>5, ConcatAssociative, SMTT(30)
  <2> QED  BY <2>1, <2>2
<1>9. w \o t \in Seq(S)
  BY <1>5, ConcatProperties
<1>10. Append(w \o t, s[m]) = (w \o t) \o <<s[m]>>
  BY <1>3, <1>9, AppendIsConcat, Zenon
<1> QED  BY <1>2, <1>3, <1>4, <1>6, <1>8, <1>9, <1>10, Zenon

\* A way is found if a node up to here has its name.
LEMMA FoundIn ==
  ASSUME NEW p \in Powers, NEW c \in Texts
  PROVE  Dtb!Found(p, c) \in Powers
BY DEF Dtb!Found, Powers

Founds(reads, p, names) ==
  reads = [i \in 0 .. Len(names) |-> IF i = 0 THEN p ELSE Dtb!Found(reads[i - 1], names[i])]

\* The walk over the names of a node.
LEMMA FoundAllIs ==
  ASSUME NEW w \in Seq(Texts), NEW names \in Seq(Texts), NEW p, Says(p, w),
         NEW q, q = Dtb!FoundAll(p, names)
  PROVE  Says(q, w \o names)
<1>1. PICK n \in Nat : n = Len(names) /\ DOMAIN names = 1 .. n
  OBVIOUS
<1>2. \E reads : Founds(reads, p, names)
  <2>1. PICK g : g = [x \in Powers \X (1 .. n) |-> Dtb!Found(x[1], names[x[2]])]
    OBVIOUS
  <2>2. \A i \in 1 .. n : names[i] \in Texts
    BY <1>1, ElementOfSeq
  <2>3. g \in [Powers \X (1 .. n) -> Powers]
    BY <2>1, <2>2, FoundIn
  <2>4. p \in Powers
    BY DEF Says
  <2>5. PICK f \in [0 .. n -> Powers] : Iterates(f, p, g, n)
    BY <2>3, <2>4, Iteration
  <2>6. f = [i \in 0 .. n |-> IF i = 0 THEN p ELSE g[<<f[i - 1], i>>]]
    BY <2>5 DEF Iterates
  <2>7. ASSUME NEW i \in 0 .. n
        PROVE  f[i] = IF i = 0 THEN p ELSE Dtb!Found(f[i - 1], names[i])
    <3>1. CASE i = 0
      BY <2>6, <3>1
    <3>2. CASE i # 0
      <4>1. i - 1 \in 0 .. n /\ i \in 1 .. n
        BY <3>2
      <4>2. f[i - 1] \in Powers
        BY <2>5, <4>1
      <4>3. f[i] = g[<<f[i - 1], i>>]
        BY <2>6, <3>2
      <4> QED  BY <2>1, <3>2, <4>1, <4>2, <4>3
    <3> QED  BY <3>1, <3>2
  <2>8. f = [i \in 0 .. n |-> IF i = 0 THEN p ELSE Dtb!Found(f[i - 1], names[i])]
    BY <2>5, <2>7
  <2> QED  BY <1>1, <2>8 DEF Founds
<1>3. PICK reads : reads = CHOOSE f : Founds(f, p, names)
  OBVIOUS
<1>4. Founds(reads, p, names)
  BY <1>2, <1>3
<1>5. q = reads[n]
  BY <1>1, <1>3, Zenon DEF Dtb!FoundAll, Founds
<1>6. \A i \in 0 .. n : reads[i] = IF i = 0 THEN p ELSE Dtb!Found(reads[i - 1], names[i])
  BY <1>1, <1>4 DEF Founds
<1>7. PICK S : S = {k \in Nat : k <= n => Says(reads[k], w \o SubSeq(names, 1, k))}
  OBVIOUS
<1>8. 0 \in S
  <2>1. SubSeq(names, 1, 0) = <<>>
    BY SubSeqEmpty
  <2>2. w \o <<>> = w
    BY ConcatEmptySeq
  <2>3. reads[0] = p
    BY <1>1, <1>6
  <2>4. Says(reads[0], w \o SubSeq(names, 1, 0))
    BY <2>1, <2>2, <2>3, Zenon
  <2> QED  BY <1>7, <2>4
<1>9. ASSUME NEW k \in Nat, k \in S  PROVE k + 1 \in S
  <2>1. SUFFICES ASSUME k + 1 <= n  PROVE Says(reads[k + 1], w \o SubSeq(names, 1, k + 1))
    BY <1>7
  <2>2. PICK u, c : u = w \o SubSeq(names, 1, k) /\ c = names[k + 1]
    OBVIOUS
  <2>3. u \in Seq(Texts) /\ c \in Texts /\ w \o SubSeq(names, 1, k + 1) = Append(u, c)
    BY <1>1, <2>1, <2>2, TakeMore
  <2>4. Says(reads[k], u)
    BY <1>7, <1>9, <2>1, <2>2
  <2>5. reads[k + 1] = Dtb!Found(reads[k], c)
    BY <1>6, <2>1, <2>2
  <2> QED  BY <2>3, <2>4, <2>5, FoundStep
<1>10. n \in S
  BY <1>8, <1>9, Climb
<1>11. SubSeq(names, 1, n) = names
  BY <1>1, SubSeqFull
<1>12. n <= n
  OBVIOUS
<1>13. Says(reads[n], w \o SubSeq(names, 1, n))
  BY <1>7, <1>10, <1>12, Zenon
<1> QED  BY <1>5, <1>11, <1>13, Zenon

NamesTo(names) ==
  names = [i \in 0 .. Len(blob.nodes) |->
            IF i = 0 THEN <<>> ELSE names[i - 1] \o Dtb!Names(blob.nodes[i])]

\* The names of the nodes up to each.
Upto == CHOOSE names : NamesTo(names)

\* The names seen up to a node are those up to the one before and its own.
LEMMA UptoIs ==
  ASSUME blob \in TreeSet
  PROVE  /\ Dtb!AllNames = Upto[Size] /\ Upto[0] = <<>>
         /\ \A i \in 1 .. Size : Upto[i] = Upto[i - 1] \o Dtb!Names(blob.nodes[i])
         /\ \A i \in 1 .. Size : Dtb!Names(blob.nodes[i]) \in Seq(Texts)
         /\ \A i \in 0 .. Size : Upto[i] \in Seq(Texts)
<1>1. Size \in Nat \ {0}
  BY TreeIs
<1>2. PICK X : X = Seq(Texts)
  OBVIOUS
<1>3. ASSUME NEW i \in 1 .. Size  PROVE Dtb!Names(blob.nodes[i]) \in X
  <2>1. PICK s \in Seq(Texts) : s = blob.nodes[i].comp
    <3>1. PICK s \in Seq(STRING) : s = blob.nodes[i].comp
      BY TreeIs
    <3>2. STRING \subseteq Texts
      BY DEF Texts
    <3>3. s \in Seq(Texts)
      BY <3>2, SeqMonotonic
    <3> QED  BY <3>1, <3>3
  <2>2. PICK t : t = IF blob.nodes[i].sbi THEN <<"sbi">> ELSE <<>>
    OBVIOUS
  <2>3. t \in Seq(Texts)
    <3>1. t = <<"sbi">> \/ t = <<>>
      BY <2>2, Zenon
    <3>2. PICK S, z : S = Texts /\ z = "sbi"
      OBVIOUS
    <3>3. z \in S
      BY <3>2 DEF Texts
    <3>4. <<z>> \in Seq(S) /\ <<>> \in Seq(S)
      BY <3>3
    <3> QED  BY <3>1, <3>2, <3>4
  <2>4. s \o t \in Seq(Texts)
    BY <2>3, ConcatProperties
  <2> QED  BY <1>2, <2>1, <2>2, <2>4 DEF Dtb!Names
<1>4. \E names : NamesTo(names)
  <2>1. PICK g : g = [q \in X \X (1 .. Size) |-> q[1] \o Dtb!Names(blob.nodes[q[2]])]
    OBVIOUS
  <2>2. ASSUME NEW s \in X, NEW i \in 1 .. Size  PROVE g[<<s, i>>] \in X
    <3>1. PICK t \in Seq(Texts) : t = Dtb!Names(blob.nodes[i])
      BY <1>2, <1>3
    <3>2. s \o t \in Seq(Texts)
      BY <1>2, ConcatProperties
    <3> QED  BY <1>2, <2>1, <3>1, <3>2
  <2>3. g \in [X \X (1 .. Size) -> X]
    BY <2>1, <2>2
  <2>4. <<>> \in X
    BY <1>2
  <2>5. PICK f \in [0 .. Size -> X] : Iterates(f, <<>>, g, Size)
    BY <1>1, <2>3, <2>4, Iteration
  <2>6. f = [i \in 0 .. Size |-> IF i = 0 THEN <<>> ELSE g[<<f[i - 1], i>>]]
    BY <2>5 DEF Iterates
  <2>7. ASSUME NEW i \in 0 .. Size
        PROVE  f[i] = IF i = 0 THEN <<>> ELSE f[i - 1] \o Dtb!Names(blob.nodes[i])
    <3>1. CASE i = 0
      BY <2>6, <3>1
    <3>2. CASE i # 0
      <4>1. i - 1 \in 0 .. Size /\ i \in 1 .. Size
        BY <1>1, <3>2
      <4>2. f[i - 1] \in X
        BY <2>5, <4>1
      <4>3. f[i] = g[<<f[i - 1], i>>]
        BY <2>6, <3>2
      <4> QED  BY <2>1, <3>2, <4>1, <4>2, <4>3
    <3> QED  BY <3>1, <3>2
  <2>8. f = [i \in 0 .. Size |-> IF i = 0 THEN <<>> ELSE f[i - 1] \o Dtb!Names(blob.nodes[i])]
    BY <2>5, <2>7
  <2> QED  BY <2>8 DEF NamesTo, Size
<1>5. NamesTo(Upto)
  BY <1>4 DEF Upto
<1>6. \A i \in 0 .. Size :
        Upto[i] = IF i = 0 THEN <<>> ELSE Upto[i - 1] \o Dtb!Names(blob.nodes[i])
  BY <1>5 DEF NamesTo, Size
<1>7. Dtb!AllNames = Upto[Size]
  BY Zenon DEF Dtb!AllNames, Upto, NamesTo, Size
<1>8. Upto[0] = <<>> /\ \A i \in 1 .. Size : Upto[i] = Upto[i - 1] \o Dtb!Names(blob.nodes[i])
  <2>1. Upto[0] = <<>>
    <3>1. 0 \in 0 .. Size
      BY <1>1
    <3> QED  BY <1>6, <3>1
  <2>2. ASSUME NEW i \in 1 .. Size  PROVE Upto[i] = Upto[i - 1] \o Dtb!Names(blob.nodes[i])
    <3>1. i \in 0 .. Size /\ i # 0
      OBVIOUS
    <3> QED  BY <1>6, <3>1
  <2> QED  BY <2>1, <2>2
<1>9. PICK S : S = {k \in Nat : k <= Size => Upto[k] \in X}
  OBVIOUS
<1>10. 0 \in S
  <2>1. <<>> \in X
    BY <1>2
  <2> QED  BY <1>8, <1>9, <2>1
<1>11. ASSUME NEW k \in Nat, k \in S  PROVE k + 1 \in S
  <2>1. SUFFICES ASSUME k + 1 <= Size  PROVE Upto[k + 1] \in X
    BY <1>9
  <2>2. PICK i \in 1 .. Size : i = k + 1 /\ i - 1 = k
    BY <1>1, <2>1
  <2>3. PICK s, t : s = Upto[k] /\ t = Dtb!Names(blob.nodes[i])
    OBVIOUS
  <2>4. s \in Seq(Texts) /\ t \in Seq(Texts)
    BY <1>1, <1>2, <1>3, <1>9, <1>11, <2>1, <2>3
  <2>5. s \o t \in Seq(Texts)
    BY <2>4, ConcatProperties
  <2> QED  BY <1>2, <1>8, <2>2, <2>3, <2>5
<1>12. \A k \in Nat : k \in S
  BY <1>10, <1>11, Climb
<1>13. ASSUME NEW i \in 0 .. Size  PROVE Upto[i] \in Seq(Texts)
  BY <1>1, <1>2, <1>9, <1>12
<1> QED  BY <1>2, <1>3, <1>7, <1>8, <1>13

\* The answers are what is known of switching off.
Answered ==
  /\ answer.call = "off"    => (answer.is = "ok" <=> off /\ method \in {"sbi", "psci"})
  /\ answer.call = "reboot" => (answer.is = "ok" <=> boot /\ method \in {"sbi", "psci", "syscon"})

PowerInv ==
  /\ blob \in TreeSet
  /\ node \in 1 .. Size + 1
  /\ dpc = "map" => node = 1
  /\ dpc \notin {"map", "power", "failed"} => node = Size + 1
  /\ Says(Dtb!Power, Upto[node - 1])
  /\ dpc \in {"map", "power", "tree", "platform"} => logic = {}
  /\ dpc \in {"thermal", "run"} => ("platform" \in logic <=> off \/ boot)
  /\ answer # None => dpc = "run" /\ Answered

\* Before the search, nothing is found.
LEMMA PowerInit == Dtb!Init => PowerInv
<1> SUFFICES ASSUME Dtb!Init  PROVE PowerInv
  OBVIOUS
<1>1. blob \in TreeSet /\ node = 1 /\ dpc = "map" /\ logic = {} /\ answer = None
  BY DEF Dtb!Init
<1>2. Size \in Nat \ {0} /\ Upto[0] = <<>>
  BY <1>1, TreeIs, UptoIs
<1>3. PICK p : p = Dtb!Power
  OBVIOUS
<1>4. p = [off |-> FALSE, boot |-> FALSE, method |-> None]
  BY <1>3 DEF Dtb!Power, Dtb!Init
<1>5. ~Named(<<>>) /\ \A K : ~LastOf(<<>>, K)
  BY DEF Named, LastOf
<1>6. None \notin {"sbi", "psci", "syscon"}
  BY DriversAssumption DEF Dtb!DtbAssumption
<1>7. Says(p, <<>>)
  BY <1>4, <1>5, <1>6 DEF Says, Powers
<1>8. Says(Dtb!Power, Upto[node - 1])
  BY <1>1, <1>2, <1>3, <1>7
<1> QED  BY <1>1, <1>2, <1>8 DEF PowerInv

\* Every step of the tree driver keeps what is said of the ways found.
LEMMA PowerStep ==
  ASSUME PowerInv, Dtb!Next
  PROVE  PowerInv'
<1>1. blob' = blob
  BY DEF Dtb!Next, Dtb!MapBlob, Dtb!PowerNode, Dtb!Probe, Dtb!ParseNode, Dtb!Report,
         Dtb!RegisterPlatform, Dtb!RegisterThermal, Dtb!Call, Dtb!HandleOff, Dtb!HandleReboot,
         Dtb!GetTemperature, Dtb!GetZoneCount, Dtb!GetZoneInfo, Dtb!Reply
<1>2. blob \in TreeSet /\ Upto' = Upto /\ Size' = Size /\ Size \in Nat \ {0} /\ node \in 1 .. Size + 1
  BY <1>1, TreeIs DEF PowerInv, Upto, NamesTo, Size, Dtb!Names
<1>3. ASSUME UNCHANGED <<off, boot, method, node>>
      PROVE  Says(Dtb!Power, Upto[node - 1])'
  <2>1. PICK p, w : p = Dtb!Power /\ w = Upto[node - 1]
    OBVIOUS
  <2>2. p = Dtb!Power' /\ w = Upto'[node' - 1]
    BY <1>2, <1>3, <2>1 DEF Dtb!Power
  <2>3. Says(p, w)
    BY <2>1 DEF PowerInv
  <2> QED  BY <2>2, <2>3 DEF Says, Powers
<1>10. ASSUME UNCHANGED <<off, boot, method, answer>>, dpc' = dpc \/ answer = None
       PROVE  (answer # None => dpc = "run" /\ Answered)'
  BY <1>10 DEF PowerInv, Answered
<1>4. CASE Dtb!MapBlob
  BY <1>1, <1>2, <1>3, <1>4, <1>10 DEF Dtb!MapBlob, PowerInv
<1>5. CASE Dtb!PowerNode
  <2>1. PICK p, w, q, s : /\ p = Dtb!Power /\ w = Upto[node - 1] /\ s = Dtb!Names(blob.nodes[node])
                         /\ q = Dtb!FoundAll(p, s)
    OBVIOUS
  <2>2. /\ dpc = "power" /\ node <= Size /\ off' = q.off /\ boot' = q.boot /\ method' = q.method
        /\ node' = node + 1 /\ UNCHANGED <<dpc, logic, answer>>
    BY <1>5, <2>1 DEF Dtb!PowerNode, Size
  <2>3. node \in 1 .. Size /\ node - 1 \in 0 .. Size /\ node' - 1 = node /\ node' \in 1 .. Size + 1
    BY <1>2, <2>2
  <2>4. w \in Seq(Texts) /\ s \in Seq(Texts) /\ Upto[node] = w \o s
    BY <1>2, <2>1, <2>3, UptoIs
  <2>5. Says(p, w)
    BY <2>1 DEF PowerInv
  <2>6. Says(q, w \o s)
    BY <2>1, <2>4, <2>5, FoundAllIs
  <2>7. Dtb!Power' = q
    BY <2>2, <2>6 DEF Dtb!Power, Says, Powers
  <2>8. Says(Dtb!Power, Upto[node - 1])'
    BY <1>2, <2>3, <2>4, <2>6, <2>7 DEF Says, Powers
  <2> QED  BY <1>1, <1>2, <2>2, <2>3, <2>8 DEF PowerInv
<1>11. CASE Dtb!Probe
  <2>1. node = Size + 1
    BY <1>2, <1>11 DEF Dtb!Probe, Size
  <2> QED  BY <1>1, <1>2, <1>3, <1>10, <1>11, <2>1 DEF Dtb!Probe, PowerInv
<1>6. CASE Dtb!ParseNode \/ Dtb!Report
  BY <1>1, <1>2, <1>3, <1>6, <1>10 DEF Dtb!ParseNode, Dtb!Report, PowerInv
<1>7. CASE Dtb!RegisterPlatform
  BY <1>1, <1>2, <1>3, <1>7, <1>10 DEF Dtb!RegisterPlatform, PowerInv, Dtb!OffersPower
<1>8. CASE Dtb!RegisterThermal
  BY <1>1, <1>2, <1>3, <1>8, <1>10 DEF Dtb!RegisterThermal, PowerInv
<1>9. CASE Dtb!Call
  <2>1. dpc = "run" /\ UNCHANGED <<dpc, node, off, boot, method, logic>>
    BY <1>9 DEF Dtb!Call, Dtb!HandleOff, Dtb!HandleReboot, Dtb!GetTemperature,
                Dtb!GetZoneCount, Dtb!GetZoneInfo, Dtb!Reply
  <2>2. Answered'
    <3>1. CASE Dtb!HandleOff
      <4>1. answer'.call = "off"
            /\ answer'.is = IF off /\ method \in {"sbi", "psci"} THEN "ok" ELSE "unsupported"
        BY <3>1 DEF Dtb!HandleOff, Dtb!Reply
      <4>2. answer'.is = "ok" <=> off /\ method \in {"sbi", "psci"}
        BY <4>1
      <4> QED  BY <2>1, <4>1, <4>2 DEF Answered
    <3>2. CASE Dtb!HandleReboot
      <4>1. answer'.call = "reboot"
            /\ answer'.is = IF boot /\ method \in {"sbi", "psci", "syscon"} THEN "ok" ELSE "unsupported"
        BY <3>2 DEF Dtb!HandleReboot, Dtb!Reply
      <4>2. answer'.is = "ok" <=> boot /\ method \in {"sbi", "psci", "syscon"}
        BY <4>1
      <4> QED  BY <2>1, <4>1, <4>2 DEF Answered
    <3>3. CASE Dtb!GetZoneCount \/ \E id \in 0 .. 2 : Dtb!GetTemperature(id) \/ Dtb!GetZoneInfo(id)
      <4>1. answer'.call \in {"temperature", "zones", "zone"}
        BY <3>3 DEF Dtb!GetTemperature, Dtb!GetZoneCount, Dtb!GetZoneInfo, Dtb!Reply
      <4> QED  BY <4>1 DEF Answered
    <3> QED  BY <1>9, <3>1, <3>2, <3>3 DEF Dtb!Call
  <2> QED  BY <1>1, <1>2, <1>3, <2>1, <2>2 DEF PowerInv
<1> QED  BY <1>4, <1>5, <1>6, <1>7, <1>8, <1>9, <1>11 DEF Dtb!Next

\* With that, the answers to power calls are what the tree says.
LEMMA PowerPromise == PowerInv => Dtb!PowerAnswers /\ Dtb!RegisteredIfNamed
<1> SUFFICES ASSUME PowerInv  PROVE Dtb!PowerAnswers /\ Dtb!RegisteredIfNamed
  OBVIOUS
<1>1. Size \in Nat \ {0} /\ Dtb!AllNames = Upto[Size]
  BY TreeIs, UptoIs DEF PowerInv
<1>2. ASSUME dpc = "run"  PROVE Says(Dtb!Power, Dtb!AllNames)
  <2>1. node - 1 = Size
    BY <1>1, <1>2 DEF PowerInv
  <2> QED  BY <1>1, <2>1 DEF PowerInv
<1>3. PICK p, w : p = Dtb!Power /\ w = Dtb!AllNames
  OBVIOUS
<1>4. p.off = off /\ p.boot = boot /\ p.method = method
  BY <1>3 DEF Dtb!Power
<1>5. ASSUME answer # None  PROVE Dtb!PowerAnswers
  <2>1. dpc = "run" /\ Answered
    BY <1>5 DEF PowerInv
  <2>2. Says(p, w)
    BY <1>2, <1>3, <2>1
  <2>3. off /\ method \in {"sbi", "psci"} <=> LastOf(w, {"psci", "sbi"})
    BY <1>4, <2>2 DEF Says
  <2>4. boot /\ method \in {"sbi", "psci", "syscon"} <=> LastOf(w, {"psci", "sbi", "syscon-reboot"})
    BY <1>4, <2>2 DEF Says
  <2>5. \A K : Dtb!LastIn(K) <=> LastOf(w, K)
    BY <1>3 DEF Dtb!LastIn, LastOf, Ways
  <2> QED  BY <2>1, <2>3, <2>4, <2>5 DEF Answered, Dtb!PowerAnswers
<1>6. ASSUME dpc = "run"  PROVE Dtb!RegisteredIfNamed
  <2>1. Says(p, w)
    BY <1>2, <1>3, <1>6
  <2>2. off \/ boot <=> Named(w)
    BY <1>4, <2>1 DEF Says
  <2>3. "platform" \in logic <=> off \/ boot
    BY <1>6 DEF PowerInv
  <2> QED  BY <1>3, <2>2, <2>3 DEF Dtb!RegisteredIfNamed, Named, Ways
<1> QED  BY <1>5, <1>6 DEF Dtb!PowerAnswers, Dtb!RegisteredIfNamed

\* Whatever the tree, the driver reports, registers and answers what it says.
THEOREM TreeTheorem == DriversSpec => []TreeAnswered
<1> DEFINE I == driver = "dtb" => TreeInv /\ PowerInv
<1>1. DriversInit => I
  BY TreeInit, PowerInit DEF DriversInit
<1>2. I /\ [DriversNext]_driversVars => I'
  <2> SUFFICES ASSUME I, [DriversNext]_driversVars, driver' = "dtb"
               PROVE  TreeInv' /\ PowerInv'
    OBVIOUS
  <2>1. driver = "dtb" /\ (Dtb!Next \/ UNCHANGED dtbVars)
    BY Chosen
  <2>2. CASE Dtb!Next
    BY <2>1, <2>2, TreeStep, PowerStep
  <2>3. CASE UNCHANGED dtbVars
    <3>1. TreeInv'
      BY <2>1, <2>3 DEF TreeInv, Walk, Placed, Pairs, Size, Parent, dtbVars
    <3>2. PowerInv'
      <4>1. /\ Upto' = Upto /\ Size' = Size /\ Dtb!Power' = Dtb!Power
            /\ UNCHANGED <<blob, node, dpc, logic, off, boot, method, answer>>
        BY <2>3 DEF dtbVars, Upto, NamesTo, Size, Dtb!Names, Dtb!Power
      <4>2. PICK p, w : p = Dtb!Power /\ w = Upto[node - 1] /\ Says(p, w)
        BY <2>1 DEF PowerInv
      <4>3. Says(Dtb!Power, Upto[node - 1])'
        BY <4>1, <4>2 DEF Says, Powers
      <4>4. Answered' <=> Answered
        BY <4>1 DEF Answered
      <4> QED  BY <2>1, <4>1, <4>3, <4>4 DEF PowerInv
    <3> QED  BY <3>1, <3>2
  <2> QED  BY <2>1, <2>2, <2>3
<1>3. I => TreeAnswered
  BY ReportPromise, PowerPromise DEF TreeAnswered, Dtb!TreeAnswered
<1> QED  BY <1>1, <1>2, <1>3, PTL DEF DriversSpec

-----------------------------------------------------------------------------
(* AcpiWalk: places in a set of numbers.                                   *)

\* A place is the number of members up to there.
LEMMA RankIs ==
  ASSUME NEW S, NEW k, NEW V, V = {j \in S : j <= k}
  PROVE  AcpiWalk!Rank(S, k) = Cardinality(V)
BY DEF AcpiWalk!Rank, AcpiWalk!Cardinality, Cardinality

\* From one number to the next, the place is one more if that is in the set.
LEMMA Ranks ==
  ASSUME NEW n \in Nat, NEW S, S \subseteq 1 .. n
  PROVE  /\ AcpiWalk!Rank(S, 0) = 0 /\ AcpiWalk!Rank(S, n) = Cardinality(S)
         /\ \A k \in Nat :
              /\ AcpiWalk!Rank(S, k) \in Nat
              /\ AcpiWalk!Rank(S, k + 1) = AcpiWalk!Rank(S, k) + (IF k + 1 \in S THEN 1 ELSE 0)
<1>1. IsFiniteSet(1 .. n)
  BY FS_Interval
<1>2. PICK U : U = [k \in Nat |-> {j \in S : j <= k}]
  OBVIOUS
<1>3. ASSUME NEW k \in Nat
      PROVE  IsFiniteSet(U[k]) /\ Cardinality(U[k]) \in Nat /\ AcpiWalk!Rank(S, k) = Cardinality(U[k])
  <2>1. U[k] = {j \in S : j <= k}
    BY <1>2
  <2>2. U[k] \in SUBSET (1 .. n)
    BY <2>1
  <2>3. IsFiniteSet(U[k])
    BY <1>1, <2>2, FS_Subset
  <2>4. AcpiWalk!Rank(S, k) = Cardinality(U[k])
    BY <2>1, RankIs
  <2> QED  BY <2>3, <2>4, FS_CardinalityType
<1>4. U[0] = {} /\ U[n] = S
  <2>1. \A j \in S : j \in Int /\ ~(j <= 0) /\ j <= n
    OBVIOUS
  <2>2. U[0] = {j \in S : j <= 0} /\ U[n] = {j \in S : j <= n}
    BY <1>2
  <2> QED  BY <2>1, <2>2
<1>5. ASSUME NEW k \in Nat
      PROVE  AcpiWalk!Rank(S, k + 1) = AcpiWalk!Rank(S, k) + (IF k + 1 \in S THEN 1 ELSE 0)
  <2>1. PICK m \in Nat : m = k + 1
    OBVIOUS
  <2> USE <2>1
  <2>4. U[k] = {j \in S : j <= k} /\ U[m] = {j \in S : j <= m}
    BY <1>2
  <2>5. \A j \in S : j <= m <=> j <= k \/ j = m
    OBVIOUS
  <2>2. CASE m \in S
    <3>1. U[m] = U[k] \cup {m} /\ m \notin U[k]
      <4>1. m \notin U[k]
        BY <2>4
      <4>2. \A j : j \in U[m] <=> j \in U[k] \/ j = m
        BY <2>2, <2>4, <2>5
      <4> QED  BY <4>1, <4>2
    <3>2. Cardinality(U[m]) = Cardinality(U[k]) + 1
      <4>1. PICK V : V = U[k] /\ IsFiniteSet(V) /\ m \notin V
        BY <1>3, <3>1
      <4>2. Cardinality(V \cup {m}) = Cardinality(V) + 1
        BY <4>1, FS_AddElement
      <4> QED  BY <3>1, <4>1, <4>2
    <3> QED  BY <1>3, <2>1, <2>2, <3>2
  <2>3. CASE m \notin S
    <3>1. U[m] = U[k]
      BY <2>3, <2>4, <2>5
    <3> QED  BY <1>3, <2>1, <2>3, <3>1
  <2> QED  BY <2>2, <2>3
<1>6. Cardinality({}) = 0
  BY FS_EmptySet
<1>7. AcpiWalk!Rank(S, 0) = 0 /\ AcpiWalk!Rank(S, n) = Cardinality(S)
  BY <1>3, <1>4, <1>6
<1>8. \A k \in Nat : AcpiWalk!Rank(S, k) \in Nat
  BY <1>3
<1> QED  BY <1>5, <1>7, <1>8

\* Places in a range.
LEMMA RanksOfRange ==
  ASSUME NEW a \in Nat, NEW b \in Nat, a <= b
  PROVE  /\ Cardinality(a + 1 .. b) = b - a
         /\ \A d \in a + 1 .. b : AcpiWalk!Rank(a + 1 .. b, d) = d - a
<1>1. ASSUME NEW d \in Nat, a <= d  PROVE Cardinality(a + 1 .. d) = d - a
  <2>1. PICK c \in Int : c = a + 1
    OBVIOUS
  <2>2. Cardinality(c .. d) = IF c > d THEN 0 ELSE d - c + 1
    BY FS_Interval
  <2> QED  BY <1>1, <2>1, <2>2
<1>2. ASSUME NEW d \in a + 1 .. b  PROVE AcpiWalk!Rank(a + 1 .. b, d) = d - a
  <2>1. PICK V : V = a + 1 .. d
    OBVIOUS
  <2>2. V = {j \in a + 1 .. b : j <= d}
    BY <2>1
  <2>3. Cardinality(V) = d - a
    BY <1>1, <2>1
  <2> QED  BY <2>2, <2>3, RankIs
<1> QED  BY <1>1, <1>2

\* A number below all the others.
LEMMA RankLowest ==
  ASSUME NEW Q, Q \subseteq 0 .. 15, NEW k \in 0 .. 15, \A q \in Q : k < q, NEW T, T = Q \cup {k}
  PROVE  /\ IsFiniteSet(Q) /\ Cardinality(Q) \in Nat
         /\ Cardinality(T) = Cardinality(Q) + 1 /\ AcpiWalk!Rank(T, k) = 1
         /\ \A q \in Q : AcpiWalk!Rank(T, q) = AcpiWalk!Rank(Q, q) + 1 /\ AcpiWalk!Rank(Q, q) \in Nat
<1>1. IsFiniteSet(0 .. 15)
  <2>1. PICK a \in Int, b \in Int : a = 0 /\ b = 15
    OBVIOUS
  <2>2. IsFiniteSet(a .. b)
    BY FS_Interval
  <2> QED  BY <2>1, <2>2
<1>2. \A V : V \subseteq 0 .. 15 => IsFiniteSet(V) /\ Cardinality(V) \in Nat
  BY <1>1, FS_Subset, FS_CardinalityType
<1>3. k \notin Q /\ \A q \in Q : q \in Nat /\ ~(q <= k) /\ k <= q
  OBVIOUS
<1>4. Cardinality(T) = Cardinality(Q) + 1
  BY <1>2, <1>3, FS_AddElement
<1>5. AcpiWalk!Rank(T, k) = 1
  <2>1. \A j : j \in {i \in T : i <= k} <=> j = k
    <3>1. \A j \in T : j = k \/ j \in Q
      OBVIOUS
    <3>2. k \in T /\ k <= k
      OBVIOUS
    <3> QED  BY <1>3, <3>1, <3>2
  <2>2. {k} = {j \in T : j <= k}
    BY <2>1
  <2>3. Cardinality({k}) = 1
    BY FS_Singleton
  <2> QED  BY <2>2, <2>3, RankIs
<1>6. ASSUME NEW q \in Q
      PROVE  AcpiWalk!Rank(T, q) = AcpiWalk!Rank(Q, q) + 1 /\ AcpiWalk!Rank(Q, q) \in Nat
  <2>1. PICK V : V = {j \in Q : j <= q}
    OBVIOUS
  <2>2. {j \in T : j <= q} = V \cup {k} /\ k \notin V /\ V \subseteq 0 .. 15
    <3>1. {j \in T : j <= q} = V \cup {k}
      BY <1>3, <2>1
    <3>2. k \notin V /\ V \subseteq 0 .. 15
      BY <1>3, <2>1
    <3> QED  BY <3>1, <3>2
  <2>3. IsFiniteSet(V) /\ Cardinality(V) \in Nat
    BY <1>2, <2>2
  <2>4. Cardinality(V \cup {k}) = Cardinality(V) + 1
    BY <2>2, <2>3, FS_AddElement
  <2>5. AcpiWalk!Rank(Q, q) = Cardinality(V)
    BY <2>1, RankIs
  <2>6. AcpiWalk!Rank(T, q) = Cardinality(V \cup {k})
    BY <2>2, RankIs
  <2> QED  BY <2>3, <2>4, <2>5, <2>6
<1> QED  BY <1>2, <1>4, <1>5, <1>6

-----------------------------------------------------------------------------
(* AcpiWalk: sequences of anything.                                        *)

Row(s) == \E S : s \in Seq(S)

\* u is s with t behind it.
Behold(s, t, u) ==
  /\ Row(u) /\ Len(s) \in Nat /\ Len(t) \in Nat /\ Len(u) = Len(s) + Len(t)
  /\ \A i \in 1 .. Len(s) : u[i] = s[i]
  /\ \A i \in 1 .. Len(t) : u[Len(s) + i] = t[i]

\* Two sequences, one behind the other.
LEMMA RowsJoin ==
  ASSUME NEW s, Row(s), NEW t, Row(t), NEW u, u = s \o t
  PROVE  Behold(s, t, u)
<1>1. PICK S, T : s \in Seq(S) /\ t \in Seq(T)
  BY DEF Row
<1>2. PICK V : V = S \cup T
  OBVIOUS
<1>3. s \in Seq(V)
  <2>1. \A i \in 1 .. Len(s) : s[i] \in V
    BY <1>1, <1>2, ElementOfSeq
  <2> QED  BY <1>1, <2>1
<1>4. t \in Seq(V)
  <2>1. \A i \in 1 .. Len(t) : t[i] \in V
    BY <1>1, <1>2, ElementOfSeq
  <2> QED  BY <1>1, <2>1
<1>5. Len(s) \in Nat /\ Len(t) \in Nat
  BY <1>3, <1>4
<1>6. /\ u \in Seq(V) /\ Len(u) = Len(s) + Len(t)
      /\ \A i \in 1 .. Len(s) + Len(t) : u[i] = IF i <= Len(s) THEN s[i] ELSE t[i - Len(s)]
  BY <1>3, <1>4, ConcatProperties
<1>7. \A i \in 1 .. Len(s) : u[i] = s[i]
  BY <1>5, <1>6
<1>8. ASSUME NEW i \in 1 .. Len(t)  PROVE u[Len(s) + i] = t[i]
  <2>1. Len(s) + i \in 1 .. Len(s) + Len(t) /\ ~(Len(s) + i <= Len(s)) /\ (Len(s) + i) - Len(s) = i
    BY <1>5
  <2> QED  BY <1>6, <2>1
<1> QED  BY <1>5, <1>6, <1>7, <1>8 DEF Behold, Row

\* The sequence of one element, and the empty one.
LEMMA RowOfOne ==
  ASSUME NEW x
  PROVE  Row(<<x>>) /\ Len(<<x>>) = 1 /\ <<x>>[1] = x /\ Row(<<>>) /\ Len(<<>>) = 0
<1>1. <<x>> \in Seq({x}) /\ <<>> \in Seq({x})
  OBVIOUS
<1> QED  BY <1>1 DEF Row

\* One more element.
LEMMA RowMore ==
  ASSUME NEW s, Row(s), NEW x, NEW u, u = Append(s, x)
  PROVE  Behold(s, <<x>>, u)
<1>1. PICK S : s \in Seq(S)
  BY DEF Row
<1>2. PICK V : V = S \cup {x}
  OBVIOUS
<1>3. s \in Seq(V)
  <2>1. \A i \in 1 .. Len(s) : s[i] \in V
    BY <1>1, <1>2, ElementOfSeq
  <2> QED  BY <1>1, <2>1
<1>4. x \in V
  BY <1>2
<1>5. u = s \o <<x>>
  BY <1>3, <1>4, AppendIsConcat
<1> QED  BY <1>5, RowOfOne, RowsJoin

-----------------------------------------------------------------------------
(* AcpiWalk: the entries of the MADT.                                      *)

Entries == IF fw.madt = None THEN 0 ELSE Len(fw.madt)

\* What is assumed of the firmware, part by part.
LEMMA FirmwareIs ==
  ASSUME fw \in TableSets
  PROVE  /\ fw.arch \in {"riscv", "x86"} /\ fw.hpet \in BOOLEAN
         /\ Entries \in Nat
         /\ fw.madt # None => /\ Entries = Len(fw.madt) /\ DOMAIN fw.madt = 1 .. Entries
                              /\ \A i \in 1 .. Entries : fw.madt[i].length \in Nat \ {0}
         /\ fw.mcfg # None => /\ Len(fw.mcfg) \in Nat /\ DOMAIN fw.mcfg = 1 .. Len(fw.mcfg)
                              /\ \A i \in 1 .. Len(fw.mcfg) :
                                   fw.mcfg[i].first \in 0 .. 255 /\ fw.mcfg[i].last \in 0 .. 255
         /\ DOMAIN fw.aml = 1 .. Len(fw.aml) /\ Len(fw.aml) \in Nat
<1>1. AcpiWalk!Sound(fw)
  BY DriversAssumption DEF AcpiWalk!AcpiWalkAssumption
<1>2. ASSUME fw.madt # None
      PROVE  /\ Entries = Len(fw.madt) /\ Entries \in Nat /\ DOMAIN fw.madt = 1 .. Entries
             /\ \A i \in 1 .. Entries : fw.madt[i].length \in Nat \ {0}
  <2>1. PICK m, R : m = fw.madt /\ R = [type : STRING, length : Nat \ {0}, base : Nat, size : Nat]
    OBVIOUS
  <2>2. m \in Seq(R)
    BY <1>1, <1>2, <2>1 DEF AcpiWalk!Sound
  <2>3. Entries = Len(m) /\ Entries \in Nat /\ DOMAIN m = 1 .. Entries
    BY <1>2, <2>1, <2>2 DEF Entries
  <2>4. \A i \in 1 .. Entries : m[i] \in R
    BY <2>2, <2>3, ElementOfSeq
  <2>5. \A x \in R : x.length \in Nat \ {0}
    BY <2>1
  <2> QED  BY <2>1, <2>3, <2>4, <2>5
<1>3. ASSUME fw.mcfg # None
      PROVE  /\ Len(fw.mcfg) \in Nat /\ DOMAIN fw.mcfg = 1 .. Len(fw.mcfg)
             /\ \A i \in 1 .. Len(fw.mcfg) :
                  fw.mcfg[i].first \in 0 .. 255 /\ fw.mcfg[i].last \in 0 .. 255
  <2>1. PICK m, R : m = fw.mcfg /\ R = [base : Nat, first : 0 .. 255, last : 0 .. 255]
    OBVIOUS
  <2>2. m \in Seq(R)
    BY <1>1, <1>3, <2>1 DEF AcpiWalk!Sound
  <2>3. Len(m) \in Nat /\ DOMAIN m = 1 .. Len(m)
    BY <2>2
  <2>4. \A i \in 1 .. Len(m) : m[i] \in R
    BY <2>2, <2>3, ElementOfSeq
  <2>5. \A x \in R : x.first \in 0 .. 255 /\ x.last \in 0 .. 255
    BY <2>1
  <2>6. \A i \in 1 .. Len(m) : m[i].first \in 0 .. 255 /\ m[i].last \in 0 .. 255
    BY <2>4, <2>5
  <2> QED  BY <2>1, <2>3, <2>6
<1>4. Entries \in Nat
  BY <1>2 DEF Entries
<1>5. /\ fw.arch \in {"riscv", "x86"} /\ fw.hpet \in BOOLEAN
      /\ DOMAIN fw.aml = 1 .. Len(fw.aml) /\ Len(fw.aml) \in Nat
  BY <1>1 DEF AcpiWalk!Sound
<1> QED  BY <1>2, <1>3, <1>4, <1>5

Starts(start) ==
  start = [k \in 1 .. Len(fw.madt) + 1 |->
            IF k = 1 THEN AcpiWalk!MadtHeader ELSE start[k - 1] + fw.madt[k - 1].length]

\* Where the entries begin; the last of these is the end of the table.
LEMMA StartIs ==
  ASSUME fw \in TableSets, fw.madt # None
  PROVE  /\ AcpiWalk!Start(1) = AcpiWalk!MadtHeader
         /\ \A k \in 1 .. Entries + 1 : AcpiWalk!Start(k) \in Nat
         /\ \A k \in 1 .. Entries :
              /\ AcpiWalk!Start(k + 1) = AcpiWalk!Start(k) + fw.madt[k].length
              /\ AcpiWalk!Start(k) < AcpiWalk!Start(k + 1)
<1>1. /\ Entries \in Nat /\ Entries = Len(fw.madt)
      /\ \A i \in 1 .. Entries : fw.madt[i].length \in Nat \ {0}
  BY FirmwareIs
<1>2. AcpiWalk!MadtHeader \in Nat
  BY DEF AcpiWalk!MadtHeader
<1>3. \E start : Starts(start)
  <2>1. PICK n : n = Entries
    OBVIOUS
  <2>2. PICK g : g = [x \in Nat \X (1 .. n) |-> x[1] + fw.madt[x[2]].length]
    OBVIOUS
  <2>3. g \in [Nat \X (1 .. n) -> Nat]
    BY <1>1, <2>1, <2>2
  <2>4. PICK f \in [0 .. n -> Nat] : Iterates(f, AcpiWalk!MadtHeader, g, n)
    BY <1>1, <1>2, <2>1, <2>3, Iteration
  <2>5. f = [i \in 0 .. n |-> IF i = 0 THEN AcpiWalk!MadtHeader ELSE g[<<f[i - 1], i>>]]
    BY <2>4 DEF Iterates
  <2>6. PICK h : h = [k \in 1 .. n + 1 |-> f[k - 1]]
    OBVIOUS
  <2>7. ASSUME NEW k \in 1 .. n + 1
        PROVE  h[k] = IF k = 1 THEN AcpiWalk!MadtHeader ELSE h[k - 1] + fw.madt[k - 1].length
    <3>1. PICK i \in 0 .. n : i = k - 1
      BY <1>1, <2>1
    <3>2. h[k] = f[i]
      BY <2>6, <3>1
    <3>3. CASE k = 1
      BY <2>5, <3>1, <3>2, <3>3
    <3>4. CASE k # 1
      <4>1. i \in 1 .. n /\ i - 1 \in 0 .. n /\ i # 0
        BY <1>1, <2>1, <3>1, <3>4
      <4>2. f[i - 1] \in Nat /\ f[i] = g[<<f[i - 1], i>>]
        BY <2>4, <2>5, <4>1
      <4>3. f[i] = f[i - 1] + fw.madt[i].length
        BY <2>2, <4>1, <4>2
      <4>4. h[i] = f[i - 1]
        BY <1>1, <2>1, <2>6, <4>1
      <4> QED  BY <3>1, <3>2, <3>4, <4>3, <4>4
    <3> QED  BY <3>3, <3>4
  <2>8. h = [k \in 1 .. n + 1 |->
              IF k = 1 THEN AcpiWalk!MadtHeader ELSE h[k - 1] + fw.madt[k - 1].length]
    BY <2>6, <2>7
  <2> QED  BY <1>1, <2>1, <2>8 DEF Starts
<1>4. PICK start : start = CHOOSE f : Starts(f)
  OBVIOUS
<1>5. Starts(start)
  BY <1>3, <1>4
<1>6. \A k : AcpiWalk!Start(k) = start[k]
  BY <1>4, Zenon DEF AcpiWalk!Start, Starts
<1>7. \A k \in 1 .. Entries + 1 :
        start[k] = IF k = 1 THEN AcpiWalk!MadtHeader ELSE start[k - 1] + fw.madt[k - 1].length
  BY <1>1, <1>5 DEF Starts
<1>8. ASSUME NEW k \in 1 .. Entries  PROVE start[k + 1] = start[k] + fw.madt[k].length
  <2>1. k + 1 \in 1 .. Entries + 1 /\ k + 1 # 1 /\ (k + 1) - 1 = k
    BY <1>1
  <2> QED  BY <1>7, <2>1
<1>9. start[1] = AcpiWalk!MadtHeader
  BY <1>1, <1>7
<1>10. PICK S : S = {m \in Nat : m <= Entries => start[m + 1] \in Nat}
  OBVIOUS
<1>11. 0 \in S
  BY <1>2, <1>9, <1>10
<1>12. ASSUME NEW m \in Nat, m \in S  PROVE m + 1 \in S
  <2>1. SUFFICES ASSUME m + 1 <= Entries  PROVE start[(m + 1) + 1] \in Nat
    BY <1>10
  <2>2. PICK k \in 1 .. Entries : k = m + 1
    BY <1>1, <2>1
  <2>3. start[k] \in Nat /\ fw.madt[k].length \in Nat
    BY <1>1, <1>10, <1>12, <2>2
  <2>4. start[k + 1] = start[k] + fw.madt[k].length
    BY <1>8
  <2> QED  BY <2>2, <2>3, <2>4
<1>13. \A m \in Nat : m \in S
  BY <1>11, <1>12, Climb
<1>14. ASSUME NEW k \in 1 .. Entries + 1  PROVE start[k] \in Nat
  <2>1. PICK m \in Nat : m = k - 1 /\ m <= Entries
    BY <1>1
  <2>2. start[m + 1] \in Nat
    BY <1>10, <1>13, <2>1
  <2> QED  BY <2>1, <2>2
<1>15. ASSUME NEW k \in 1 .. Entries  PROVE start[k] < start[k + 1]
  <2>1. start[k] \in Nat /\ fw.madt[k].length \in Nat \ {0}
    BY <1>1, <1>14
  <2> QED  BY <1>8, <2>1
<1> QED  BY <1>6, <1>8, <1>9, <1>14, <1>15

\* The walk finds the entry that begins where it is.
LEMMA EntryIs ==
  ASSUME fw \in TableSets, fw.madt # None
  PROVE  /\ \A k \in 1 .. Entries : AcpiWalk!EntryAt(AcpiWalk!Start(k)) = fw.madt[k]
         /\ \A k \in 1 .. Entries : AcpiWalk!Start(k) < AcpiWalk!Length
         /\ AcpiWalk!Length = AcpiWalk!Start(Entries + 1)
<1>1. Entries \in Nat /\ Entries = Len(fw.madt) /\ DOMAIN fw.madt = 1 .. Entries
  BY FirmwareIs
<1>2. PICK s : s = [k \in 1 .. Entries + 1 |-> AcpiWalk!Start(k)]
  OBVIOUS
<1>3. \A k \in 1 .. Entries + 1 : s[k] \in Nat /\ s[k] = AcpiWalk!Start(k)
  BY <1>2, StartIs
<1>4. ASSUME NEW k \in 1 .. Entries  PROVE s[k] < s[k + 1]
  BY <1>1, <1>3, StartIs
<1>5. ASSUME NEW k \in 1 .. Entries  PROVE \A j \in k + 1 .. Entries + 1 : s[k] < s[j]
  <2>1. PICK S : S = {m \in Nat : k + m + 1 <= Entries + 1 => s[k] < s[k + m + 1]}
    OBVIOUS
  <2>2. 0 \in S
    BY <1>4, <2>1
  <2>3. ASSUME NEW m \in Nat, m \in S  PROVE m + 1 \in S
    <3>1. SUFFICES ASSUME k + (m + 1) + 1 <= Entries + 1  PROVE s[k] < s[k + (m + 1) + 1]
      BY <2>1
    <3>2. PICK i \in 1 .. Entries : i = k + m + 1
      BY <1>1, <3>1
    <3>3. s[k] < s[i]
      BY <1>1, <2>1, <2>3, <3>1, <3>2
    <3>4. s[i] < s[i + 1] /\ s[i] \in Nat /\ s[i + 1] \in Nat /\ s[k] \in Nat
      BY <1>1, <1>3, <1>4
    <3>5. i + 1 = k + (m + 1) + 1
      BY <3>2
    <3> QED  BY <3>3, <3>4, <3>5
  <2>4. \A m \in Nat : m \in S
    BY <2>2, <2>3, Climb
  <2>5. ASSUME NEW j \in k + 1 .. Entries + 1  PROVE s[k] < s[j]
    <3>1. PICK m \in Nat : j = k + m + 1
      <4>1. j - k - 1 \in Nat /\ j = k + (j - k - 1) + 1
        BY <1>1
      <4> QED  BY <4>1
    <3>2. k + m + 1 <= Entries + 1
      BY <1>1, <3>1
    <3> QED  BY <2>1, <2>4, <3>1, <3>2
  <2> QED  BY <2>5
<1>6. ASSUME NEW k \in 1 .. Entries  PROVE AcpiWalk!EntryAt(AcpiWalk!Start(k)) = fw.madt[k]
  <2>1. \A i \in 1 .. Entries : AcpiWalk!Start(i) = AcpiWalk!Start(k) <=> i = k
    <3>1. ASSUME NEW i \in 1 .. Entries, i # k  PROVE s[i] # s[k]
      <4>1. i \in k + 1 .. Entries + 1 \/ k \in i + 1 .. Entries + 1
        BY <1>1, <3>1
      <4>2. s[k] < s[i] \/ s[i] < s[k]
        BY <1>5, <4>1
      <4>3. s[k] \in Nat /\ s[i] \in Nat
        BY <1>1, <1>3
      <4> QED  BY <4>2, <4>3
    <3> QED  BY <1>1, <1>3, <3>1
  <2>2. \E i \in DOMAIN fw.madt : AcpiWalk!Start(i) = AcpiWalk!Start(k)
    BY <1>1
  <2>3. (CHOOSE i \in DOMAIN fw.madt : AcpiWalk!Start(i) = AcpiWalk!Start(k)) = k
    BY <1>1, <2>1, <2>2
  <2> QED  BY <2>2, <2>3 DEF AcpiWalk!EntryAt
<1>7. ASSUME NEW k \in 1 .. Entries  PROVE AcpiWalk!Start(k) < AcpiWalk!Length
  <2>1. Entries + 1 \in k + 1 .. Entries + 1
    BY <1>1
  <2>2. s[k] < s[Entries + 1]
    BY <1>5, <2>1
  <2> QED  BY <1>1, <1>3, <2>2 DEF AcpiWalk!Length
<1>8. AcpiWalk!Length = AcpiWalk!Start(Entries + 1)
  BY <1>1 DEF AcpiWalk!Length
<1> QED  BY <1>6, <1>7, <1>8

-----------------------------------------------------------------------------
(* AcpiWalk: what the list holds.                                          *)

Controllers == {"aplic", "plic", "ioapic"}
OfArch == IF fw.arch = "riscv" THEN {"aplic", "plic"} ELSE {"ioapic"}
Wanted == {i \in 1 .. Entries : fw.madt[i].type \in OfArch}
Spaces == IF fw.mcfg = None THEN 0 ELSE Len(fw.mcfg)
Naming == {i \in 1 .. Len(fw.aml) : fw.aml[i].name # None}

\* The local APIC, and the controllers of the first k entries behind it.
Lapics == IF fw.madt # None /\ fw.arch = "x86" THEN 1 ELSE 0
Place(i) == Lapics + AcpiWalk!Rank(Wanted, i)

FromMadt(l, k) ==
  /\ Place(k) \in Nat /\ Place(k) <= Len(l)
  /\ \A d \in 1 .. Place(k) : l[d].name # "ecam" /\ (l[d].name \in Controllers <=> d > Lapics)
  /\ \A i \in 1 .. k : i \in Wanted =>
       /\ Place(i) \in 1 .. Len(l)
       /\ l[Place(i)].name = fw.madt[i].type /\ l[Place(i)].mmio[1][1] = fw.madt[i].base

\* Behind c devices, the configuration spaces.
FromMcfg(l, c) ==
  /\ c + Spaces <= Len(l)
  /\ \A i \in 1 .. Spaces :
       /\ l[c + i].name = "ecam" /\ l[c + i].mmio[1][1] = fw.mcfg[i].base
       /\ l[c + i].mmio[1][2] = AcpiWalk!Buses(fw.mcfg[i])

\* Behind b devices, none of these.
Others(l, b) == \A d \in b + 1 .. Len(l) : l[d].name # "ecam" /\ l[d].name \notin Controllers

\* Behind a devices, those of the first k of the name space, and no more.
Said(x) == IF x.crs = None THEN [mmio |-> <<>>, irq |-> <<>>] ELSE x.marks[Len(x.marks)]
Tells(x, d) == d.name = x.name /\ d.mmio = Said(x).mmio /\ d.irq = Said(x).irq
Seat(a, i) == a + AcpiWalk!Rank(Naming, i)

FromAml(l, a, k) ==
  /\ Len(l) = Seat(a, k)
  /\ \A i \in 1 .. k : i \in Naming => Seat(a, i) \in 1 .. Len(l) /\ Tells(fw.aml[i], l[Seat(a, i)])

\* The sets of entries.
LEMMA SetsAre ==
  ASSUME fw \in TableSets
  PROVE  /\ Lapics \in 0 .. 1 /\ Spaces \in Nat /\ Entries \in Nat /\ Len(fw.aml) \in Nat
         /\ Place(0) = Lapics /\ Place(Entries) = Lapics + Cardinality(Wanted)
         /\ \A k \in Nat : Place(k) \in Nat /\ Lapics <= Place(k)
                              /\ Place(k + 1) = Place(k) + (IF k + 1 \in Wanted THEN 1 ELSE 0)
         /\ AcpiWalk!Rank(Naming, 0) = 0 /\ AcpiWalk!Rank(Naming, Len(fw.aml)) = Cardinality(Naming)
         /\ \A k \in Nat : AcpiWalk!Rank(Naming, k) \in Nat
         /\ \A a \in Nat, k \in Nat :
              Seat(a, k) \in Nat /\ Seat(a, k + 1) = Seat(a, k) + (IF k + 1 \in Naming THEN 1 ELSE 0)
<1>1. Entries \in Nat /\ Len(fw.aml) \in Nat /\ Spaces \in Nat
  BY FirmwareIs DEF Spaces
<1>2. Wanted \subseteq 1 .. Entries /\ Naming \subseteq 1 .. Len(fw.aml)
  BY DEF Wanted, Naming
<1>3. PICK W, n : W = Wanted /\ n = Entries /\ n \in Nat /\ W \subseteq 1 .. n
  BY <1>1, <1>2
<1>4. PICK V, m : V = Naming /\ m = Len(fw.aml) /\ m \in Nat /\ V \subseteq 1 .. m
  BY <1>1, <1>2
<1>5. /\ AcpiWalk!Rank(W, 0) = 0 /\ AcpiWalk!Rank(W, n) = Cardinality(W)
      /\ \A k \in Nat :
           /\ AcpiWalk!Rank(W, k) \in Nat
           /\ AcpiWalk!Rank(W, k + 1) = AcpiWalk!Rank(W, k) + (IF k + 1 \in W THEN 1 ELSE 0)
  BY <1>3, Ranks, ZenonT(30)
<1>6. /\ AcpiWalk!Rank(V, 0) = 0 /\ AcpiWalk!Rank(V, m) = Cardinality(V)
      /\ \A k \in Nat :
           /\ AcpiWalk!Rank(V, k) \in Nat
           /\ AcpiWalk!Rank(V, k + 1) = AcpiWalk!Rank(V, k) + (IF k + 1 \in V THEN 1 ELSE 0)
  BY <1>4, Ranks, ZenonT(30)
<1>7. Lapics \in 0 .. 1
  BY DEF Lapics
<1>8. Place(0) = Lapics /\ Place(Entries) = Lapics + Cardinality(Wanted)
  BY <1>3, <1>5, <1>7 DEF Place
<1>9. ASSUME NEW k \in Nat
      PROVE  /\ Place(k) \in Nat /\ Lapics <= Place(k)
             /\ Place(k + 1) = Place(k) + (IF k + 1 \in Wanted THEN 1 ELSE 0)
  BY <1>3, <1>5, <1>7 DEF Place
<1>10. ASSUME NEW a \in Nat, NEW k \in Nat
       PROVE  Seat(a, k) \in Nat /\ Seat(a, k + 1) = Seat(a, k) + (IF k + 1 \in Naming THEN 1 ELSE 0)
  <2>1. /\ AcpiWalk!Rank(Naming, k) \in Nat
        /\ AcpiWalk!Rank(Naming, k + 1) = AcpiWalk!Rank(Naming, k) + (IF k + 1 \in Naming THEN 1 ELSE 0)
    BY <1>4, <1>6
  <2> QED  BY <2>1 DEF Seat
<1>11. /\ AcpiWalk!Rank(Naming, 0) = 0 /\ AcpiWalk!Rank(Naming, Len(fw.aml)) = Cardinality(Naming)
       /\ \A k \in Nat : AcpiWalk!Rank(Naming, k) \in Nat
  BY <1>4, <1>6
<1> QED  BY <1>1, <1>7, <1>8, <1>9, <1>10, <1>11

\* More at the end of the list changes nothing of what is there.
LEMMA Lengthened ==
  ASSUME NEW l, NEW t, NEW u, Behold(l, t, u), NEW k, NEW c \in Nat, Spaces \in Nat
  PROVE  /\ FromMadt(l, k) => FromMadt(u, k)
         /\ FromMcfg(l, c) => FromMcfg(u, c)
<1>1. /\ Len(l) \in Nat /\ Len(u) \in Nat /\ Len(l) <= Len(u)
      /\ \A i \in 1 .. Len(l) : u[i] = l[i]
  BY DEF Behold
<1>2. ASSUME FromMadt(l, k)  PROVE FromMadt(u, k)
  <2>1. Place(k) \in Nat /\ Place(k) <= Len(u)
    BY <1>1, <1>2 DEF FromMadt
  <2>2. ASSUME NEW d \in 1 .. Place(k)
        PROVE  u[d].name # "ecam" /\ (u[d].name \in Controllers <=> d > Lapics)
    <3>1. d \in 1 .. Len(l)
      BY <1>1, <1>2 DEF FromMadt
    <3> QED  BY <1>1, <1>2, <3>1 DEF FromMadt
  <2>3. ASSUME NEW i \in 1 .. k, i \in Wanted
        PROVE  /\ Place(i) \in 1 .. Len(u)
               /\ u[Place(i)].name = fw.madt[i].type /\ u[Place(i)].mmio[1][1] = fw.madt[i].base
    <3>1. Place(i) \in 1 .. Len(l)
      BY <1>2, <2>3 DEF FromMadt
    <3>2. u[Place(i)] = l[Place(i)] /\ Place(i) \in 1 .. Len(u)
      BY <1>1, <3>1
    <3> QED  BY <1>2, <2>3, <3>2 DEF FromMadt
  <2> QED  BY <2>1, <2>2, <2>3 DEF FromMadt
<1>3. ASSUME FromMcfg(l, c)  PROVE FromMcfg(u, c)
  <2>1. c + Spaces <= Len(l) /\ c + Spaces <= Len(u)
    BY <1>1, <1>3 DEF FromMcfg
  <2>2. ASSUME NEW i \in 1 .. Spaces  PROVE u[c + i] = l[c + i]
    <3>1. c + i \in 1 .. Len(l)
      BY <1>1, <2>1
    <3> QED  BY <1>1, <3>1
  <2> QED  BY <1>3, <2>1, <2>2 DEF FromMcfg
<1> QED  BY <1>2, <1>3

\* What the walk makes of an entry.
LEMMA ListedIs ==
  ASSUME fw \in TableSets, NEW e
  PROVE  IF e.type \in OfArch
         THEN \E d : /\ AcpiWalk!Listed(e) = <<d>> /\ d.name = e.type /\ d.mmio[1][1] = e.base
                     /\ d.name \in Controllers /\ d.name # "ecam"
         ELSE AcpiWalk!Listed(e) = <<>>
<1>1. fw.arch \in {"riscv", "x86"}
  BY FirmwareIs
<1>2. ASSUME NEW n \in Controllers, NEW b, NEW s, e.type = n, e.base = b,
             AcpiWalk!Listed(e) = <<AcpiWalk!Plain(n, b, s)>>
      PROVE  \E d : /\ AcpiWalk!Listed(e) = <<d>> /\ d.name = e.type /\ d.mmio[1][1] = e.base
                    /\ d.name \in Controllers /\ d.name # "ecam"
  <2>1. PICK d : d = AcpiWalk!Plain(n, b, s)
    OBVIOUS
  <2>2. d.name = n /\ d.mmio = <<<<b, s>>>>
    BY <2>1 DEF AcpiWalk!Plain, AcpiWalk!Device
  <2>3. d.mmio[1][1] = b
    BY <2>2
  <2>4. n # "ecam"
    BY DEF Controllers
  <2> QED  BY <1>2, <2>1, <2>2, <2>3, <2>4
<1>3. CASE e.type \in OfArch /\ fw.arch = "riscv"
  <2>1. e.type \in {"aplic", "plic"}
    BY <1>3 DEF OfArch
  <2>2. e.type \in Controllers
    BY <2>1 DEF Controllers
  <2>3. AcpiWalk!Listed(e) = <<AcpiWalk!Plain(e.type, e.base, e.size)>>
    BY <1>3, <2>1 DEF AcpiWalk!Listed
  <2> QED  BY <1>2, <1>3, <2>2, <2>3
<1>4. CASE e.type \in OfArch /\ fw.arch # "riscv"
  <2>1. e.type = "ioapic" /\ fw.arch = "x86"
    BY <1>1, <1>4 DEF OfArch
  <2>2. e.type \in Controllers
    BY <2>1 DEF Controllers
  <2>3. AcpiWalk!Listed(e) = <<AcpiWalk!Plain(e.type, e.base, 4096)>>
    BY <2>1 DEF AcpiWalk!Listed
  <2> QED  BY <1>2, <1>4, <2>2, <2>3
<1>5. CASE e.type \notin OfArch
  BY <1>1, <1>5 DEF OfArch, AcpiWalk!Listed
<1> QED  BY <1>3, <1>4, <1>5

\* One more entry.
LEMMA OneEntry ==
  ASSUME fw \in TableSets, fw.madt # None, NEW k \in 0 .. Entries - 1, NEW l, Row(l),
         FromMadt(l, k), Len(l) = Place(k), NEW u, u = l \o AcpiWalk!Listed(fw.madt[k + 1])
  PROVE  Row(u) /\ FromMadt(u, k + 1) /\ Len(u) = Place(k + 1)
<1>1. k \in Nat /\ k + 1 \in 1 .. Entries /\ Entries \in Nat
  <2>1. Entries \in Nat
    BY FirmwareIs
  <2> QED  BY <2>1
<1>2. /\ Place(k) \in Nat /\ Lapics \in Nat /\ Lapics <= Place(k)
      /\ Place(k + 1) = Place(k) + (IF k + 1 \in Wanted THEN 1 ELSE 0)
  BY <1>1, SetsAre
<1>3. PICK e : e = fw.madt[k + 1]
  OBVIOUS
<1>4. k + 1 \in Wanted <=> e.type \in OfArch
  BY <1>1, <1>3 DEF Wanted
<1>5. PICK t : t = AcpiWalk!Listed(e)
  OBVIOUS
<1>6. CASE k + 1 \in Wanted
  <2>1. PICK d : /\ t = <<d>> /\ d.name = e.type /\ d.mmio[1][1] = e.base
                 /\ d.name \in Controllers /\ d.name # "ecam"
    BY <1>4, <1>5, <1>6, ListedIs
  <2>2. Row(t) /\ Len(t) = 1 /\ t[1] = d
    BY <2>1, RowOfOne
  <2>3. Behold(l, t, u)
    BY <1>3, <1>5, <2>2, RowsJoin
  <2>4. FromMadt(u, k)
    <3>1. Spaces \in Nat /\ 0 \in Nat
      BY SetsAre
    <3> QED  BY <2>3, <3>1, Lengthened
  <2>5. /\ Row(u) /\ Len(u) = Place(k) + 1 /\ Place(k + 1) = Place(k) + 1
        /\ u[Place(k) + 1] = d
    BY <1>2, <1>6, <2>2, <2>3 DEF Behold
  <2>6. ASSUME NEW j \in 1 .. Place(k + 1)
        PROVE  u[j].name # "ecam" /\ (u[j].name \in Controllers <=> j > Lapics)
    <3>1. CASE j = Place(k) + 1
      <4>1. j > Lapics
        BY <1>2, <3>1
      <4> QED  BY <2>1, <2>5, <3>1, <4>1
    <3>2. CASE j \in 1 .. Place(k)
      BY <2>4, <3>2 DEF FromMadt
    <3> QED  BY <1>2, <2>5, <3>1, <3>2
  <2>7. ASSUME NEW i \in 1 .. k + 1, i \in Wanted
        PROVE  /\ Place(i) \in 1 .. Len(u)
               /\ u[Place(i)].name = fw.madt[i].type /\ u[Place(i)].mmio[1][1] = fw.madt[i].base
    <3>1. CASE i = k + 1
      BY <1>2, <1>3, <2>1, <2>5, <3>1
    <3>2. CASE i \in 1 .. k
      BY <2>4, <2>7, <3>2 DEF FromMadt
    <3> QED  BY <1>1, <3>1, <3>2
  <2>8. Place(k + 1) \in Nat /\ Place(k + 1) <= Len(u)
    BY <1>2, <2>5
  <2>9. FromMadt(u, k + 1)
    BY <2>6, <2>7, <2>8 DEF FromMadt
  <2> QED  BY <2>5, <2>9
<1>7. CASE k + 1 \notin Wanted
  <2>1. t = <<>>
    BY <1>4, <1>5, <1>7, ListedIs
  <2>2. Row(t) /\ Len(t) = 0
    BY <2>1, RowOfOne
  <2>3. Behold(l, t, u)
    BY <1>3, <1>5, <2>2, RowsJoin
  <2>4. FromMadt(u, k)
    <3>1. Spaces \in Nat /\ 0 \in Nat
      BY SetsAre
    <3> QED  BY <2>3, <3>1, Lengthened
  <2>5. Row(u) /\ Len(u) = Place(k) /\ Place(k + 1) = Place(k)
    BY <1>2, <1>7, <2>2, <2>3 DEF Behold
  <2>6. ASSUME NEW i \in 1 .. k + 1, i \in Wanted  PROVE i \in 1 .. k
    BY <1>1, <1>7, <2>6
  <2>7. FromMadt(u, k + 1)
    BY <2>4, <2>5, <2>6 DEF FromMadt
  <2> QED  BY <2>5, <2>7
<1> QED  BY <1>6, <1>7

SpacesOf == IF fw.mcfg = None THEN <<>> ELSE AcpiWalk!Ecams
HpetOf   == IF fw.hpet THEN <<AcpiWalk!Plain("hpet", 0, 4096)>> ELSE <<>>

\* The configuration spaces and the HPET behind the controllers.
LEMMA SpacesListed ==
  ASSUME fw \in TableSets, NEW l, Row(l), FromMadt(l, Entries), Len(l) = Place(Entries),
         NEW u, u = l \o SpacesOf \o HpetOf
  PROVE  /\ Row(u) /\ Len(u) \in Nat /\ FromMadt(u, Entries) /\ FromMcfg(u, Place(Entries))
         /\ Others(u, Place(Entries) + Spaces)
<1>1. PICK c \in Nat, n \in Nat : c = Place(Entries) /\ n = Spaces
  BY SetsAre
<1>2. PICK t : t = SpacesOf
  OBVIOUS
<1>3. /\ Row(t) /\ Len(t) = n
      /\ \A i \in 1 .. n : /\ t[i].name = "ecam" /\ t[i].mmio[1][1] = fw.mcfg[i].base
                           /\ t[i].mmio[1][2] = AcpiWalk!Buses(fw.mcfg[i])
  <2>1. CASE fw.mcfg = None
    <3>1. n = 0 /\ t = <<>>
      BY <1>1, <1>2, <2>1 DEF Spaces, SpacesOf
    <3>2. Row(t) /\ Len(t) = 0
      BY <3>1, RowOfOne
    <3> QED  BY <3>1, <3>2
  <2>2. CASE fw.mcfg # None
    <3>1. n = Len(fw.mcfg) /\ DOMAIN fw.mcfg = 1 .. n
      BY <1>1, <2>2, FirmwareIs DEF Spaces
    <3>2. t = [i \in 1 .. n |-> AcpiWalk!Plain("ecam", fw.mcfg[i].base, AcpiWalk!Buses(fw.mcfg[i]))]
      BY <1>2, <2>2, <3>1 DEF AcpiWalk!Ecams, SpacesOf
    <3>3. PICK S : S = {AcpiWalk!Plain("ecam", fw.mcfg[i].base, AcpiWalk!Buses(fw.mcfg[i])) : i \in 1 .. n}
      OBVIOUS
    <3>4. t \in [1 .. n -> S]
      BY <3>2, <3>3
    <3>5. t \in Seq(S) /\ Len(t) = n
      BY <3>4
    <3>6. ASSUME NEW i \in 1 .. n
          PROVE  /\ t[i].name = "ecam" /\ t[i].mmio[1][1] = fw.mcfg[i].base
                 /\ t[i].mmio[1][2] = AcpiWalk!Buses(fw.mcfg[i])
      <4>1. PICK d, b, s : /\ d = t[i] /\ d = AcpiWalk!Plain("ecam", b, s)
                           /\ b = fw.mcfg[i].base /\ s = AcpiWalk!Buses(fw.mcfg[i])
        BY <3>2
      <4>2. d.name = "ecam" /\ d.mmio = <<<<b, s>>>>
        BY <4>1 DEF AcpiWalk!Plain, AcpiWalk!Device
      <4>3. d.mmio[1][1] = b /\ d.mmio[1][2] = s
        BY <4>2
      <4> QED  BY <4>1, <4>2, <4>3
    <3> QED  BY <3>5, <3>6 DEF Row
  <2> QED  BY <2>1, <2>2
<1>4. PICK v : v = l \o t
  OBVIOUS
<1>5. Behold(l, t, v)
  BY <1>3, <1>4, RowsJoin
<1>6. /\ Row(v) /\ Len(v) = c + n /\ \A i \in 1 .. n : v[c + i] = t[i]
  BY <1>1, <1>3, <1>5 DEF Behold
<1>7. FromMadt(v, Entries)
  BY <1>1, <1>5, Lengthened
<1>8. FromMcfg(v, c)
  BY <1>1, <1>3, <1>6 DEF FromMcfg
<1>9. PICK w : w = HpetOf
  OBVIOUS
<1>10. Row(w) /\ Len(w) \in Nat /\ \A i \in 1 .. Len(w) : w[i].name = "hpet"
  <2>1. CASE fw.hpet
    <3>1. PICK d : d = AcpiWalk!Plain("hpet", 0, 4096) /\ w = <<d>>
      BY <1>9, <2>1 DEF HpetOf
    <3>2. d.name = "hpet"
      BY <3>1 DEF AcpiWalk!Plain, AcpiWalk!Device
    <3>3. Row(w) /\ Len(w) = 1 /\ w[1] = d
      BY <3>1, RowOfOne
    <3> QED  BY <3>2, <3>3
  <2>2. CASE ~fw.hpet
    <3>1. w = <<>>
      BY <1>9, <2>2 DEF HpetOf
    <3>2. Row(w) /\ Len(w) = 0
      BY <3>1, RowOfOne
    <3> QED  BY <3>2
  <2> QED  BY <2>1, <2>2
<1>11. u = v \o w
  BY <1>2, <1>4, <1>9
<1>12. Behold(v, w, u)
  BY <1>6, <1>10, <1>11, RowsJoin
<1>13. FromMadt(u, Entries) /\ FromMcfg(u, c)
  BY <1>1, <1>7, <1>8, <1>12, Lengthened
<1>14. PICK b \in Nat, m \in Nat : b = c + n /\ m = Len(w)
  <2>1. c + n \in Nat /\ Len(w) \in Nat
    BY <1>10
  <2> QED  BY <2>1
<1>15. Row(u) /\ Len(u) = b + m /\ \A i \in 1 .. m : u[b + i] = w[i]
  <2>1. Len(v) = b
    BY <1>6, <1>14
  <2> QED  BY <1>12, <1>14, <2>1 DEF Behold
<1>16. Others(u, b)
  <2>1. ASSUME NEW d \in b + 1 .. b + m
        PROVE  u[d].name # "ecam" /\ u[d].name \notin Controllers
    <3>1. PICK i \in 1 .. m : d = b + i
      <4>1. d - b \in 1 .. m /\ d = b + (d - b)
        OBVIOUS
      <4> QED  BY <4>1
    <3>2. u[d] = w[i]
      BY <1>15, <3>1
    <3>3. u[d].name = "hpet"
      BY <1>10, <1>14, <3>2
    <3> QED  BY <3>3 DEF Controllers
  <2> QED  BY <1>15, <2>1 DEF Others
<1>17. Others(u, Place(Entries) + Spaces)
  BY <1>1, <1>14, <1>16
<1>18. Len(u) \in Nat
  BY <1>14, <1>15
<1> QED  BY <1>1, <1>13, <1>15, <1>17, <1>18

\* One more device of the name space; a is where its devices begin.
LEMMA OneDevice ==
  ASSUME fw \in TableSets, NEW a \in Nat, NEW c \in Nat, c + Spaces <= a,
         NEW l, Row(l), NEW k \in 0 .. Len(fw.aml) - 1, FromMadt(l, Entries), FromMcfg(l, c),
         Others(l, c + Spaces), FromAml(l, a, k), k + 1 \in Naming, NEW d, Tells(fw.aml[k + 1], d),
         NEW u, u = Append(l, d)
  PROVE  /\ Row(u) /\ FromMadt(u, Entries) /\ FromMcfg(u, c) /\ Others(u, c + Spaces)
         /\ FromAml(u, a, k + 1)
<1>1. Spaces \in Nat /\ Len(fw.aml) \in Nat
  BY SetsAre
<1>2. k \in Nat /\ k + 1 \in 1 .. Len(fw.aml)
  BY <1>1
<1>3. Seat(a, k) \in Nat /\ Seat(a, k + 1) = Seat(a, k) + 1
  BY <1>2, SetsAre
<1>4. Behold(l, <<d>>, u)
  BY RowMore
<1>5. FromMadt(u, Entries) /\ FromMcfg(u, c)
  BY <1>1, <1>4, Lengthened
<1>6. Len(<<d>>) = 1 /\ <<d>>[1] = d
  OBVIOUS
<1>7. /\ Row(u) /\ Len(l) = Seat(a, k) /\ Len(u) = Seat(a, k + 1) /\ u[Seat(a, k + 1)] = d
      /\ \A i \in 1 .. Len(l) : u[i] = l[i]
  <2>1. Len(l) = Seat(a, k)
    BY DEF FromAml
  <2>2. Row(u) /\ Len(u) = Len(l) + 1 /\ \A i \in 1 .. Len(l) : u[i] = l[i]
    BY <1>4, <1>6 DEF Behold
  <2>3. u[Len(l) + 1] = d
    BY <1>4, <1>6 DEF Behold
  <2> QED  BY <1>3, <2>1, <2>2, <2>3
<1>8. d.name # "ecam" /\ d.name \notin Controllers
  <2>1. AcpiWalk!Sound(fw)
    BY DriversAssumption DEF AcpiWalk!AcpiWalkAssumption
  <2>2. k + 1 \in DOMAIN fw.aml
    BY <1>2, FirmwareIs
  <2>3. fw.aml[k + 1].name \notin {"aplic", "plic", "ioapic", "ecam"}
    BY <2>1, <2>2 DEF AcpiWalk!Sound
  <2>4. d.name = fw.aml[k + 1].name
    BY DEF Tells
  <2> QED  BY <2>3, <2>4 DEF Controllers
<1>9. Others(u, c + Spaces)
  <2>1. ASSUME NEW j \in c + Spaces + 1 .. Len(u)
        PROVE  u[j].name # "ecam" /\ u[j].name \notin Controllers
    <3>1. CASE j = Len(u)
      BY <1>7, <1>8, <3>1
    <3>2. CASE j # Len(u)
      <4>1. j \in c + Spaces + 1 .. Len(l) /\ j \in 1 .. Len(l)
        BY <1>1, <1>3, <1>7, <3>2
      <4> QED  BY <1>7, <4>1 DEF Others
    <3> QED  BY <3>1, <3>2
  <2> QED  BY <2>1 DEF Others
<1>10. ASSUME NEW i \in 1 .. k + 1, i \in Naming
       PROVE  Seat(a, i) \in 1 .. Len(u) /\ Tells(fw.aml[i], u[Seat(a, i)])
  <2>1. CASE i = k + 1
    BY <1>3, <1>7, <2>1
  <2>2. CASE i # k + 1
    <3>1. i \in 1 .. k
      BY <1>2, <2>2
    <3>2. Seat(a, i) \in 1 .. Len(l) /\ Tells(fw.aml[i], l[Seat(a, i)])
      BY <1>10, <3>1 DEF FromAml
    <3>3. u[Seat(a, i)] = l[Seat(a, i)] /\ Seat(a, i) \in 1 .. Len(u)
      BY <1>3, <1>7, <3>2
    <3> QED  BY <3>2, <3>3
  <2> QED  BY <2>1, <2>2
<1>11. FromAml(u, a, k + 1)
  BY <1>7, <1>10 DEF FromAml
<1> QED  BY <1>5, <1>7, <1>9, <1>11

-----------------------------------------------------------------------------
(* AcpiWalk: the lines of a mask.                                          *)

LineNumbers == 0 .. 15

\* The members of a set of lines, from the lowest.
Enumerates(z, Q) ==
  /\ z \in Seq(LineNumbers) /\ Len(z) = Cardinality(Q)
  /\ \A i \in 1 .. Len(z) : z[i] \in Q /\ AcpiWalk!Rank(Q, z[i]) = i

\* One that is lower than all the others goes first.
LEMMA LineBefore ==
  ASSUME NEW k \in 0 .. 15, NEW Q, Q \subseteq k + 1 .. 15, NEW z, Enumerates(z, Q),
         NEW T, T = Q \cup {k}, NEW u, u = <<k>> \o z
  PROVE  Enumerates(u, T)
<1>1. Q \subseteq 0 .. 15 /\ (\A q \in Q : k < q) /\ k \in LineNumbers
  BY DEF LineNumbers
<1>2. /\ Cardinality(Q) \in Nat /\ Cardinality(T) = Cardinality(Q) + 1 /\ AcpiWalk!Rank(T, k) = 1
      /\ \A q \in Q : AcpiWalk!Rank(T, q) = AcpiWalk!Rank(Q, q) + 1
  <2>1. \A q \in Q : AcpiWalk!Rank(T, q) = AcpiWalk!Rank(Q, q) + 1
    BY <1>1, RankLowest, ZenonT(30)
  <2>2. Cardinality(Q) \in Nat /\ Cardinality(T) = Cardinality(Q) + 1 /\ AcpiWalk!Rank(T, k) = 1
    BY <1>1, RankLowest
  <2> QED  BY <2>1, <2>2
<1>3. PICK n \in Nat : n = Len(z) /\ n = Cardinality(Q)
  BY <1>2 DEF Enumerates
<1>4. z \in Seq(LineNumbers)
  BY DEF Enumerates
<1>5. PICK h : h = <<k>> /\ h \in Seq(LineNumbers) /\ Len(h) = 1 /\ h[1] = k
  <2>1. <<k>> \in Seq(LineNumbers) /\ Len(<<k>>) = 1 /\ <<k>>[1] = k
    BY <1>1
  <2> QED  BY <2>1
<1>6. /\ u \in Seq(LineNumbers) /\ Len(u) = n + 1
      /\ \A i \in 1 .. n + 1 : u[i] = IF i <= 1 THEN h[i] ELSE z[i - 1]
  <2>1. u = h \o z
    BY <1>5
  <2>2. /\ u \in Seq(LineNumbers) /\ Len(u) = Len(h) + Len(z)
        /\ \A i \in 1 .. Len(h) + Len(z) : u[i] = IF i <= Len(h) THEN h[i] ELSE z[i - Len(h)]
    BY <1>4, <1>5, <2>1, ConcatProperties
  <2>3. Len(h) + Len(z) = n + 1
    BY <1>3, <1>5
  <2> QED  BY <1>3, <1>5, <2>2, <2>3
<1>7. ASSUME NEW i \in 1 .. n + 1  PROVE u[i] \in T /\ AcpiWalk!Rank(T, u[i]) = i
  <2>1. CASE i = 1
    <3>1. u[i] = k
      BY <1>5, <1>6, <2>1
    <3> QED  BY <1>2, <2>1, <3>1
  <2>2. CASE i # 1
    <3>1. PICK j \in 1 .. n : j = i - 1
      BY <2>2
    <3>2. u[i] = z[j]
      BY <1>6, <2>2, <3>1
    <3>3. z[j] \in Q /\ AcpiWalk!Rank(Q, z[j]) = j
      BY <1>3 DEF Enumerates
    <3>4. AcpiWalk!Rank(T, z[j]) = j + 1
      BY <1>2, <3>3
    <3>5. z[j] \in T /\ j + 1 = i
      BY <3>1, <3>3
    <3> QED  BY <3>2, <3>4, <3>5
  <2> QED  BY <2>1, <2>2
<1> QED  BY <1>2, <1>3, <1>6, <1>7 DEF Enumerates

LinesFrom(lines, mask) ==
  lines = [bit \in 0 .. 16 |->
            IF bit = 16 THEN <<>>
            ELSE (IF (mask \div (2 ^ bit)) % 2 = 1 THEN <<bit>> ELSE <<>>) \o lines[bit + 1]]

Front(B, k) == IF k \in B THEN <<k>> ELSE <<>>

\* Such lists of lines are, for every bit, those of it and the bits above.
LEMMA LinesExist ==
  ASSUME NEW mask
  PROVE  \E lines : LinesFrom(lines, mask)
<1>1. \A j \in 1 .. 16 : j - 1 \in 0 .. 16 /\ j \in 0 .. 16 /\ j # 0
  OBVIOUS
<1>2. PICK B : B = AcpiWalk!Bits(mask)
  OBVIOUS
<1>3. PICK g : g = [x \in Seq(LineNumbers) \X (1 .. 16) |-> Front(B, 16 - x[2]) \o x[1]]
  OBVIOUS
<1>4. g \in [Seq(LineNumbers) \X (1 .. 16) -> Seq(LineNumbers)]
  <2>1. ASSUME NEW s \in Seq(LineNumbers), NEW i \in 1 .. 16  PROVE g[<<s, i>>] \in Seq(LineNumbers)
    <3>1. PICK k \in 0 .. 15 : k = 16 - i
      OBVIOUS
    <3>2. Front(B, k) \in Seq(LineNumbers)
      <4>1. k \in LineNumbers
        BY DEF LineNumbers
      <4>2. <<k>> \in Seq(LineNumbers) /\ <<>> \in Seq(LineNumbers)
        BY <4>1
      <4> QED  BY <4>2 DEF Front
    <3>3. Front(B, k) \o s \in Seq(LineNumbers)
      BY <3>2, ConcatProperties
    <3> QED  BY <1>3, <3>1, <3>3
  <2> QED  BY <1>3, <2>1
<1>5. <<>> \in Seq(LineNumbers)
  OBVIOUS
<1>6. PICK f \in [0 .. 16 -> Seq(LineNumbers)] : Iterates(f, <<>>, g, 16)
  BY <1>4, <1>5, Iteration
<1>7. f = [i \in 0 .. 16 |-> IF i = 0 THEN <<>> ELSE g[<<f[i - 1], i>>]]
  BY <1>6 DEF Iterates
<1>8. PICK h : h = [bit \in 0 .. 16 |-> f[16 - bit]]
  OBVIOUS
<1>9. ASSUME NEW bit \in 0 .. 16
      PROVE  h[bit] = IF bit = 16 THEN <<>>
                      ELSE (IF (mask \div (2 ^ bit)) % 2 = 1 THEN <<bit>> ELSE <<>>) \o h[bit + 1]
  <2>1. CASE bit = 16
    BY <1>7, <1>8, <2>1
  <2>2. CASE bit # 16
    <3>1. PICK i \in 1 .. 16 : i = 16 - bit
      BY <2>2
    <3>2. h[bit] = f[i] /\ h[bit + 1] = f[i - 1] /\ i - 1 \in 0 .. 16 /\ i \in 0 .. 16 /\ i # 0
      <4>1. bit + 1 \in 0 .. 16 /\ 16 - (bit + 1) = i - 1 /\ 16 - bit = i
        BY <2>2, <3>1
      <4>2. h[bit] = f[16 - bit] /\ h[bit + 1] = f[16 - (bit + 1)]
        BY <1>8, <4>1
      <4>3. i - 1 \in 0 .. 16 /\ i \in 0 .. 16 /\ i # 0
        BY <1>1, <3>1
      <4>4. h[bit] = f[i] /\ h[bit + 1] = f[i - 1]
        BY <4>1, <4>2, Zenon
      <4> QED  BY <4>3, <4>4
    <3>3. f[i] = g[<<f[i - 1], i>>] /\ f[i - 1] \in Seq(LineNumbers)
      BY <1>6, <1>7, <3>2
    <3>4. 16 - i = bit /\ bit \in 0 .. 15
      BY <2>2, <3>1
    <3>5. f[i] = Front(B, bit) \o f[i - 1]
      BY <1>3, <3>3, <3>4
    <3>6. Front(B, bit) = IF (mask \div (2 ^ bit)) % 2 = 1 THEN <<bit>> ELSE <<>>
      BY <1>2, <3>4 DEF Front, AcpiWalk!Bits
    <3> QED  BY <2>2, <3>2, <3>5, <3>6
  <2> QED  BY <2>1, <2>2
<1>20. h = [bit \in 0 .. 16 |->
            IF bit = 16 THEN <<>>
            ELSE (IF (mask \div (2 ^ bit)) % 2 = 1 THEN <<bit>> ELSE <<>>) \o h[bit + 1]]
  BY <1>8, <1>9
<1> QED  BY <1>20 DEF LinesFrom

\* The lines that the walk reads from a mask are its bits.
LEMMA LinesAre ==
  ASSUME NEW mask
  PROVE  Enumerates(AcpiWalk!Lines(mask), AcpiWalk!Bits(mask))
<1>1. PICK lines : lines = CHOOSE f : LinesFrom(f, mask)
  OBVIOUS
<1>2. LinesFrom(lines, mask)
  BY <1>1, LinesExist
<1>3. AcpiWalk!Lines(mask) = lines[0]
  BY <1>1, Zenon DEF AcpiWalk!Lines, LinesFrom
<1>4. PICK B : B = AcpiWalk!Bits(mask)
  OBVIOUS
<1>5. B \subseteq 0 .. 15
  BY <1>4 DEF AcpiWalk!Bits
<1>6. lines[16] = <<>> /\ \A bit \in 0 .. 15 : lines[bit] = Front(B, bit) \o lines[bit + 1]
  <2>1. lines[16] = <<>>
    BY <1>2 DEF LinesFrom
  <2>2. ASSUME NEW bit \in 0 .. 15  PROVE lines[bit] = Front(B, bit) \o lines[bit + 1]
    <3>1. bit \in 0 .. 16 /\ bit # 16
      OBVIOUS
    <3>2. lines[bit] = (IF (mask \div (2 ^ bit)) % 2 = 1 THEN <<bit>> ELSE <<>>) \o lines[bit + 1]
      BY <1>2, <3>1 DEF LinesFrom
    <3>3. Front(B, bit) = IF (mask \div (2 ^ bit)) % 2 = 1 THEN <<bit>> ELSE <<>>
      BY <1>4 DEF Front, AcpiWalk!Bits
    <3> QED  BY <3>2, <3>3
  <2> QED  BY <2>1, <2>2
<1>7. PICK Q : Q = [k \in 0 .. 16 |-> {c \in B : k <= c}]
  OBVIOUS
<1>8. PICK S : S = {m \in Nat : m <= 16 => Enumerates(lines[16 - m], Q[16 - m])}
  OBVIOUS
<1>9. 0 \in S
  <2>1. Q[16] = {}
    <3>1. \A c \in B : c \in Int /\ ~(16 <= c)
      BY <1>5
    <3>2. Q[16] = {c \in B : 16 <= c}
      BY <1>7
    <3> QED  BY <3>1, <3>2
  <2>2. Cardinality({}) = 0
    BY FS_EmptySet
  <2>3. PICK z : z = lines[16]
    OBVIOUS
  <2>4. z = <<>> /\ z \in Seq(LineNumbers) /\ Len(z) = 0
    BY <1>6, <2>3
  <2>5. Enumerates(z, Q[16])
    BY <2>1, <2>2, <2>4 DEF Enumerates
  <2> QED  BY <1>8, <2>3, <2>5
<1>10. ASSUME NEW m \in Nat, m \in S  PROVE m + 1 \in S
  <2>1. SUFFICES ASSUME m + 1 <= 16  PROVE Enumerates(lines[16 - (m + 1)], Q[16 - (m + 1)])
    BY <1>8
  <2>2. PICK k \in 0 .. 15 : k = 16 - (m + 1) /\ k + 1 = 16 - m
    BY <2>1
  <2>3. Enumerates(lines[k + 1], Q[k + 1])
    BY <1>8, <1>10, <2>1, <2>2
  <2>4. PICK z, R : z = lines[k + 1] /\ R = Q[k + 1]
    OBVIOUS
  <2>5. R = {c \in B : k + 1 <= c} /\ Q[k] = {c \in B : k <= c}
    BY <1>7, <2>4
  <2>6. lines[k] = Front(B, k) \o z
    BY <1>6, <2>4
  <2>7. CASE k \in B
    <3>1. Front(B, k) = <<k>>
      BY <2>7 DEF Front
    <3>2. \A c \in B : c \in Int /\ (k <= c <=> k + 1 <= c \/ c = k)
      BY <1>5
    <3>3. Q[k] = R \cup {k}
      BY <2>5, <2>7, <3>2
    <3>4. R \subseteq k + 1 .. 15
      <4>1. \A c \in R : c \in 0 .. 15 /\ k + 1 <= c
        BY <1>5, <2>5
      <4> QED  BY <4>1
    <3>5. Enumerates(z, R)
      BY <2>3, <2>4
    <3>6. Enumerates(lines[k], Q[k])
      BY <2>6, <3>1, <3>3, <3>4, <3>5, LineBefore
    <3> QED  BY <2>2, <3>6
  <2>8. CASE k \notin B
    <3>1. Front(B, k) = <<>>
      BY <2>8 DEF Front
    <3>2. z \in Seq(LineNumbers)
      BY <2>3, <2>4 DEF Enumerates
    <3>3. lines[k] = z
      BY <2>6, <3>1, <3>2, ConcatEmptySeq
    <3>4. \A c \in B : k <= c <=> k + 1 <= c
      BY <1>5, <2>8
    <3>5. Q[k] = R
      BY <2>5, <3>4
    <3> QED  BY <2>2, <2>3, <2>4, <3>3, <3>5
  <2> QED  BY <2>7, <2>8
<1>11. 16 \in S
  BY <1>9, <1>10, Climb
<1>12. Enumerates(lines[0], Q[0])
  BY <1>8, <1>11
<1>13. Q[0] = B
  <2>1. \A c \in B : c \in Int /\ 0 <= c
    BY <1>5
  <2>2. Q[0] = {c \in B : 0 <= c}
    BY <1>7
  <2> QED  BY <2>1, <2>2
<1> QED  BY <1>3, <1>4, <1>12, <1>13

-----------------------------------------------------------------------------
(* AcpiWalk: the descriptors of a buffer.                                  *)

\* The 16 bits behind byte x of a buffer.
Half(crs, x) == crs[x + 2] + 256 * crs[x + 3]

\* What the firmware says of its buffers, part by part.
LEMMA BufferIs ==
  ASSUME NEW crs, NEW marks, AcpiWalk!Resources(crs, marks)
  PROVE  /\ Len(crs) \in Nat /\ \A b \in 1 .. Len(crs) : crs[b] \in 0 .. 255
         /\ Len(marks) \in Nat \ {0}
         /\ marks[1].at = 0 /\ marks[1].mmio = <<>> /\ marks[1].irq = <<>>
         /\ \A k \in 1 .. Len(marks) : marks[k].at \in Nat /\ marks[k].irq \in Seq(LineNumbers)
         /\ \A k \in 1 .. Len(marks) - 1 : AcpiWalk!Spans(crs, marks[k], marks[k + 1])
         /\ \/ AcpiWalk!Ends(crs, marks[Len(marks)].at)
            \/ AcpiWalk!Unreadable(crs, marks[Len(marks)].at)
         /\ crs \in Seq(0 .. 255)
<1>1. PICK R : R = [at : Nat, mmio : Seq(Seq(Seq(0 .. 255))), irq : Seq(0 .. 15)]
  OBVIOUS
<1>2. crs \in Seq(0 .. 255) /\ marks \in Seq(R) /\ marks # <<>>
  BY <1>1 DEF AcpiWalk!Resources
<1>3. Len(crs) \in Nat /\ \A b \in 1 .. Len(crs) : crs[b] \in 0 .. 255
  BY <1>2, ElementOfSeq
<1>4. Len(marks) \in Nat \ {0} /\ DOMAIN marks = 1 .. Len(marks)
  BY <1>2
<1>5. ASSUME NEW k \in 1 .. Len(marks)
      PROVE  marks[k].at \in Nat /\ marks[k].irq \in Seq(LineNumbers)
  <2>1. PICK m : m = marks[k]
    OBVIOUS
  <2>2. m \in R
    BY <1>2, <2>1, ElementOfSeq
  <2>3. m.at \in Nat /\ m.irq \in Seq(0 .. 15)
    BY <1>1, <2>2
  <2> QED  BY <2>1, <2>3 DEF LineNumbers
<1>6. marks[1].at = 0 /\ marks[1].mmio = <<>> /\ marks[1].irq = <<>>
  BY DEF AcpiWalk!Resources
<1>7. /\ \A k \in 1 .. Len(marks) - 1 : AcpiWalk!Spans(crs, marks[k], marks[k + 1])
      /\ \/ AcpiWalk!Ends(crs, marks[Len(marks)].at)
         \/ AcpiWalk!Unreadable(crs, marks[Len(marks)].at)
  BY DEF AcpiWalk!Resources
<1> QED  BY <1>2, <1>3, <1>4, <1>5, <1>6, <1>7

\* From mark m to mark n, where a tag lies at x: how far, and what it says.
Passes(crs, x, tag, n) ==
  /\ x < Len(crs)
  /\ \/ tag >= 128 /\ x + 3 <= n.at /\ n.at = x + 3 + Half(crs, x) /\ n.at <= Len(crs)
     \/ tag < 120 /\ n.at = x + 1 + (tag % 8)
  /\ tag \in 34 .. 39 => x + 3 <= Len(crs)

SaysMemory(crs, x, tag, m, n) ==
  IF tag = 134
  THEN x + 12 <= n.at /\ n.mmio = Append(m.mmio, <<SubSeq(crs, x + 5, x + 8),
                                                  SubSeq(crs, x + 9, x + 12)>>)
  ELSE n.mmio = m.mmio

SaysLines(crs, x, tag, m, n) ==
  /\ tag \notin 34 .. 39 => n.irq = m.irq
  /\ tag \in 34 .. 39 => AcpiWalk!Behind(m.irq, AcpiWalk!Bits(Half(crs, x)), n.irq)

\* What the firmware says of the way between two marks, part by part.
LEMMA SpansAre ==
  ASSUME NEW crs, NEW m, NEW n, AcpiWalk!Spans(crs, m, n), NEW x, x = m.at
  PROVE  /\ Passes(crs, x, crs[x + 1], n) /\ SaysMemory(crs, x, crs[x + 1], m, n)
         /\ SaysLines(crs, x, crs[x + 1], m, n)
<1>1. PICK y, tag : y = n.at /\ tag = crs[x + 1]
  OBVIOUS
<1>2. /\ x < Len(crs)
      /\ \/ /\ tag >= 128 /\ x + 3 <= y /\ y = x + 3 + (crs[x + 2] + 256 * crs[x + 3])
            /\ y <= Len(crs)
         \/ /\ tag < 120 /\ y = x + 1 + (tag % 8)
            /\ tag \in 34 .. 39 => x + 3 <= Len(crs)
  BY <1>1 DEF AcpiWalk!Spans
<1>3. IF tag = 134
      THEN x + 12 <= y /\ n.mmio = Append(m.mmio, <<SubSeq(crs, x + 5, x + 8),
                                                   SubSeq(crs, x + 9, x + 12)>>)
      ELSE n.mmio = m.mmio
  BY <1>1 DEF AcpiWalk!Spans
<1>4. tag \notin 34 .. 39 => n.irq = m.irq
  BY <1>1 DEF AcpiWalk!Spans
<1>5. tag \in 34 .. 39 => AcpiWalk!Behind(m.irq, AcpiWalk!Bits(Half(crs, x)), n.irq)
  BY <1>1 DEF AcpiWalk!Spans, Half
<1>6. Passes(crs, x, tag, n)
  <2>1. tag >= 128 => tag \notin 34 .. 39
    OBVIOUS
  <2> QED  BY <1>1, <1>2, <2>1 DEF Passes, Half
<1>7. SaysMemory(crs, x, tag, m, n)
  BY <1>1, <1>3 DEF SaysMemory
<1>8. SaysLines(crs, x, tag, m, n)
  BY <1>4, <1>5 DEF SaysLines
<1> QED  BY <1>1, <1>6, <1>7, <1>8, Zenon

\* Lines behind those of before.
LEMMA LinesBehind ==
  ASSUME NEW z \in Seq(LineNumbers), NEW w \in Seq(LineNumbers), NEW B, NEW l, Enumerates(l, B),
         AcpiWalk!Behind(z, B, w)
  PROVE  w = z \o l
<1>1. PICK a \in Nat, n \in Nat : a = Len(z) /\ n = Len(l)
  BY DEF Enumerates
<1>2. AcpiWalk!Cardinality(B) = Cardinality(B)
  BY DEF AcpiWalk!Cardinality, Cardinality
<1>3. /\ Len(w) = Len(z) + Cardinality(B)
      /\ \A i \in DOMAIN z : w[i] = z[i]
      /\ \A bit \in B : w[Len(z) + AcpiWalk!Rank(B, bit)] = bit
  BY <1>2 DEF AcpiWalk!Behind
<1>4. l \in Seq(LineNumbers) /\ DOMAIN z = 1 .. a /\ Len(w) = a + n /\ DOMAIN w = 1 .. a + n
  BY <1>1, <1>3 DEF Enumerates
<1>5. PICK v : v = z \o l
  OBVIOUS
<1>6. /\ v \in Seq(LineNumbers) /\ Len(v) = a + n
      /\ \A i \in 1 .. a + n : v[i] = IF i <= a THEN z[i] ELSE l[i - a]
  BY <1>1, <1>4, <1>5, ConcatProperties
<1>7. ASSUME NEW i \in 1 .. a + n  PROVE w[i] = v[i]
  <2>1. CASE i <= a
    <3>1. i \in DOMAIN z /\ v[i] = z[i]
      BY <1>4, <1>6, <2>1
    <3> QED  BY <1>3, <3>1
  <2>2. CASE ~(i <= a)
    <3>1. PICK j \in 1 .. n : j = i - a /\ i = a + j
      BY <2>2
    <3>2. l[j] \in B /\ AcpiWalk!Rank(B, l[j]) = j
      BY <1>1 DEF Enumerates
    <3>3. w[a + j] = l[j]
      BY <1>1, <1>3, <3>2
    <3> QED  BY <1>6, <2>2, <3>1, <3>3
  <2> QED  BY <2>1, <2>2
<1>8. w = v
  BY <1>4, <1>6, <1>7, SeqEqual
<1> QED  BY <1>5, <1>8

\* Four bytes of a buffer are a word.
LEMMA FourAre ==
  ASSUME NEW crs \in Seq(0 .. 255), NEW a \in Nat \ {0}, a + 3 <= Len(crs)
  PROVE  SubSeq(crs, a, a + 3) = <<crs[a], crs[a + 1], crs[a + 2], crs[a + 3]>>
<1>1. PICK s : s = SubSeq(crs, a, a + 3)
  OBVIOUS
<1>2. PICK b \in Nat : b = a + 3 /\ Len(crs) \in Nat
  OBVIOUS
<1>3. s \in Seq(0 .. 255) /\ Len(s) = 4 /\ \A i \in 1 .. 4 : s[i] = crs[a + i - 1]
  <2>1. b - a + 1 = 4 /\ a <= b /\ a \in 1 .. Len(crs) /\ b \in 1 .. Len(crs) /\ a \in Int /\ b \in Int
    BY <1>2
  <2>2. s = SubSeq(crs, a, b)
    BY <1>1, <1>2
  <2>3. \A i \in a .. b : crs[i] \in 0 .. 255
    <3>1. \A i \in a .. b : i \in 1 .. Len(crs)
      BY <1>2, <2>1
    <3> QED  BY <3>1, ElementOfSeq
  <2> QED  BY <2>1, <2>2, <2>3, SubSeqProperties
<1>4. s = <<s[1], s[2], s[3], s[4]>>
  BY <1>3
<1>5. s[1] = crs[a] /\ s[2] = crs[a + 1] /\ s[3] = crs[a + 2] /\ s[4] = crs[a + 3]
  BY <1>3
<1> QED  BY <1>1, <1>4, <1>5

\* Two bytes are a number.
LEMMA HalfIsNatural ==
  ASSUME NEW a \in 0 .. 255, NEW b \in 0 .. 255
  PROVE  a + 256 * b \in Nat
OBVIOUS

\* So are two bytes of a buffer.
LEMMA HalfIs ==
  ASSUME NEW crs, Len(crs) \in Nat, \A b \in 1 .. Len(crs) : crs[b] \in 0 .. 255,
         NEW x \in Nat, x + 3 <= Len(crs)
  PROVE  Half(crs, x) \in Nat
<1>1. PICK y, z : y = x + 2 /\ z = x + 3
  OBVIOUS
<1>2. y \in 1 .. Len(crs) /\ z \in 1 .. Len(crs)
  BY <1>1
<1>3. PICK a \in 0 .. 255, b \in 0 .. 255 : a = crs[y] /\ b = crs[z]
  <2>1. crs[y] \in 0 .. 255 /\ crs[z] \in 0 .. 255
    BY <1>2
  <2> QED  BY <2>1, Zenon
<1>4. Half(crs, x) = a + 256 * b
  BY <1>1, <1>3, Zenon DEF Half
<1> QED  BY <1>4, HalfIsNatural

\* Where the reading ends before the end of the buffer.
Stops(crs, x, tag) ==
  \/ tag \in 120 .. 127
  \/ tag \in 0 .. 119 /\ tag \notin 34 .. 39 /\ x + 1 + (tag % 8) > Len(crs)
  \/ tag >= 128 /\ (x + 3 <= Len(crs) => x + 3 + Half(crs, x) > Len(crs))

\* Where the marks end, the walk reads no further.
LEMMA EndsAre ==
  ASSUME NEW crs, NEW x \in Nat, x < Len(crs), Len(crs) \in Nat, AcpiWalk!Ends(crs, x)
  PROVE  Stops(crs, x, crs[x + 1])
<1>1. \/ x >= Len(crs)
      \/ x < Len(crs) /\ crs[x + 1] \in 120 .. 127
      \/ /\ crs[x + 1] \in 0 .. 119 /\ crs[x + 1] \notin 34 .. 39
         /\ x + 1 + (crs[x + 1] % 8) > Len(crs)
      \/ /\ x < Len(crs) /\ crs[x + 1] >= 128
         /\ x + 3 <= Len(crs) => x + 3 + (crs[x + 2] + 256 * crs[x + 3]) > Len(crs)
  BY DEF AcpiWalk!Ends
<1>2. Half(crs, x) = crs[x + 2] + 256 * crs[x + 3]
  BY DEF Half
<1>3. ~(x >= Len(crs))
  OBVIOUS
<1> QED  BY <1>1, <1>2, <1>3, Zenon DEF Stops

\* What lies where the walk can read no further.
Denies(crs, x, tag) ==
  \/ tag \in 34 .. 39 /\ x + 3 > Len(crs)
  \/ /\ tag = 134 /\ x + 3 <= Len(crs) /\ Half(crs, x) < 9
     /\ x + 3 + Half(crs, x) <= Len(crs)

\* A descriptor that cannot be read is one of the two kinds, and is not an end.
LEMMA UnreadableIs ==
  ASSUME NEW crs, NEW x \in Nat, Len(crs) \in Nat
  PROVE  /\ AcpiWalk!Unreadable(crs, x) <=> x < Len(crs) /\ Denies(crs, x, crs[x + 1])
         /\ AcpiWalk!Unreadable(crs, x) => ~AcpiWalk!Ends(crs, x)
<1>1. Half(crs, x) = crs[x + 2] + 256 * crs[x + 3]
  BY DEF Half
<1>2. AcpiWalk!Unreadable(crs, x) <=> x < Len(crs) /\ Denies(crs, x, crs[x + 1])
  <2>1. PICK tag : tag = crs[x + 1]
    OBVIOUS
  <2>2. AcpiWalk!Unreadable(crs, x)
          <=> /\ x < Len(crs)
              /\ \/ tag \in 34 .. 39 /\ x + 3 > Len(crs)
                 \/ /\ tag = 134 /\ x + 3 <= Len(crs) /\ Half(crs, x) < 9
                    /\ x + 3 + Half(crs, x) <= Len(crs)
    BY <1>1, <2>1 DEF AcpiWalk!Unreadable
  <2>3. Denies(crs, x, tag)
          <=> \/ tag \in 34 .. 39 /\ x + 3 > Len(crs)
              \/ /\ tag = 134 /\ x + 3 <= Len(crs) /\ Half(crs, x) < 9
                 /\ x + 3 + Half(crs, x) <= Len(crs)
    BY DEF Denies
  <2> QED  BY <2>1, <2>2, <2>3, Zenon
<1>3. ASSUME AcpiWalk!Unreadable(crs, x), AcpiWalk!Ends(crs, x)  PROVE FALSE
  <2>1. x < Len(crs)
    BY <1>2, <1>3
  <2>2. PICK tag, h : tag = crs[x + 1] /\ h = Half(crs, x)
    OBVIOUS
  <2>3. Stops(crs, x, tag)
    BY <1>3, <2>1, <2>2, EndsAre
  <2>4. \/ tag \in 120 .. 127
        \/ tag \in 0 .. 119 /\ tag \notin 34 .. 39
        \/ tag >= 128 /\ (x + 3 <= Len(crs) => x + 3 + h > Len(crs))
    BY <2>2, <2>3 DEF Stops
  <2>5. \/ tag \in 34 .. 39
        \/ tag = 134 /\ x + 3 <= Len(crs) /\ h < 9 /\ x + 3 + h <= Len(crs)
    BY <1>2, <1>3, <2>2 DEF Denies
  <2>6. CASE tag \in 34 .. 39
    BY <2>4, <2>6
  <2>7. CASE tag = 134 /\ x + 3 <= Len(crs) /\ h < 9 /\ x + 3 + h <= Len(crs)
    <3>1. x + 3 + h > Len(crs)
      BY <2>4, <2>7
    <3>2. PICK y : y = x + 3 + h
      OBVIOUS
    <3> QED  BY <2>7, <3>1, <3>2
  <2> QED  BY <2>5, <2>6, <2>7
<1> QED  BY <1>2, <1>3

\* The walk is at a mark, or past the end with all that the last one says, if
\* the buffer could be read to its end.
PastEnd(crs, marks, o, k) ==
  k = Len(marks) /\ o \in Nat /\ o >= Len(crs) /\ AcpiWalk!Ends(crs, marks[k].at)

ReadTo(crs, marks, o, m, i) ==
  \E k \in 1 .. Len(marks) :
    /\ m = marks[k].mmio /\ i = marks[k].irq
    /\ o = marks[k].at \/ PastEnd(crs, marks, o, k)

\* Where the walk reads, it is at a mark.
LEMMA AtMark ==
  ASSUME NEW crs, NEW marks, AcpiWalk!Resources(crs, marks), NEW m, NEW i, NEW o,
         ReadTo(crs, marks, o, m, i)
  PROVE  /\ o \in Nat
         /\ o >= Len(crs) => /\ m = marks[Len(marks)].mmio /\ i = marks[Len(marks)].irq
                             /\ AcpiWalk!Ends(crs, marks[Len(marks)].at)
         /\ o < Len(crs) => \E k \in 1 .. Len(marks) :
                              o = marks[k].at /\ m = marks[k].mmio /\ i = marks[k].irq
<1>1. PICK k \in 1 .. Len(marks) :
        /\ m = marks[k].mmio /\ i = marks[k].irq
        /\ o = marks[k].at \/ PastEnd(crs, marks, o, k)
  BY DEF ReadTo
<1>2. marks[k].at \in Nat /\ Len(crs) \in Nat /\ Len(marks) \in Nat
  BY BufferIs
<1>3. o \in Nat
  BY <1>1, <1>2 DEF PastEnd
<1>4. ASSUME o >= Len(crs)  PROVE k = Len(marks) /\ AcpiWalk!Ends(crs, marks[k].at)
  <2>1. CASE PastEnd(crs, marks, o, k)
    BY <2>1 DEF PastEnd
  <2>2. CASE o = marks[k].at
    <3>1. ASSUME k # Len(marks)  PROVE FALSE
      <4>1. k \in 1 .. Len(marks) - 1
        BY <1>2, <3>1
      <4>2. PICK p, n, x, tag : p = marks[k] /\ n = marks[k + 1] /\ x = p.at /\ tag = crs[x + 1]
        OBVIOUS
      <4>3. AcpiWalk!Spans(crs, p, n)
        BY <4>1, <4>2, BufferIs
      <4>4. Passes(crs, x, tag, n)
        BY <4>2, <4>3, SpansAre, Zenon
      <4>5. x < Len(crs)
        BY <4>4 DEF Passes
      <4> QED  BY <1>2, <1>3, <1>4, <2>2, <4>2, <4>5
    <3>2. AcpiWalk!Ends(crs, marks[k].at)
      <4>1. PICK x : x = marks[k].at
        OBVIOUS
      <4>2. x >= Len(crs)
        BY <1>4, <2>2, <4>1
      <4>3. AcpiWalk!Ends(crs, x)
        BY <4>2 DEF AcpiWalk!Ends
      <4> QED  BY <4>1, <4>3
    <3> QED  BY <3>1, <3>2
  <2> QED  BY <1>1, <2>1, <2>2
<1>5. ASSUME o < Len(crs)  PROVE o = marks[k].at
  BY <1>1, <1>2, <1>3, <1>5 DEF PastEnd
<1> QED  BY <1>1, <1>2, <1>3, <1>4, <1>5

\* A large descriptor.
LEMMA LargeReads ==
  ASSUME NEW crs, NEW marks, AcpiWalk!Resources(crs, marks), fw.aml[index].crs = crs,
         ReadTo(crs, marks, offset, mmio, irq), AcpiWalk!Large
  PROVE  ReadTo(crs, marks, offset', mmio', irq')
<1>1. AcpiWalk!Buffer = crs
  BY DEF AcpiWalk!Buffer, AcpiWalk!Aml
<1>2. PICK x \in Nat : x = offset
  BY AtMark
<1>3. PICK tag : tag = crs[x + 1]
  OBVIOUS
<1>4. x < Len(crs) /\ tag >= 128 /\ irq' = irq
  BY <1>1, <1>2, <1>3 DEF AcpiWalk!Large, AcpiWalk!Byte
<1>5. PICK k \in 1 .. Len(marks) : x = marks[k].at /\ mmio = marks[k].mmio /\ irq = marks[k].irq
  BY <1>2, <1>4, AtMark
<1>6. /\ Len(crs) \in Nat /\ Len(marks) \in Nat /\ crs \in Seq(0 .. 255)
      /\ \A b \in 1 .. Len(crs) : crs[b] \in 0 .. 255
  BY BufferIs
<1>7. tag \in 0 .. 255
  <2>1. x + 1 \in 1 .. Len(crs)
    BY <1>4, <1>6
  <2> QED  BY <1>3, <1>6, <2>1
<1>8. PICK h : h = Half(crs, x)
  OBVIOUS
<1>9. AcpiWalk!LargeLen = h
  BY <1>1, <1>2, <1>8 DEF AcpiWalk!LargeLen, AcpiWalk!Byte, Half
<1>10. IF x + 3 > Len(crs) \/ x + 3 + h > Len(crs)
       THEN offset' = Len(crs) /\ mmio' = mmio
       ELSE /\ mmio' = IF tag % 128 = 6
                       THEN Append(mmio, <<AcpiWalk!Word(x + 4), AcpiWalk!Word(x + 8)>>) ELSE mmio
            /\ offset' = x + 3 + h
  BY <1>1, <1>2, <1>3, <1>9 DEF AcpiWalk!Large, AcpiWalk!LargeCut, AcpiWalk!Byte
<1>11. x + 3 <= Len(crs) => h \in Nat
  BY <1>6, <1>8, HalfIs
<1>14. (x + 3 <= Len(crs) /\ x + 3 + h <= Len(crs)) => ~(tag % 128 = 6 /\ h < 9)
  <2>1. /\ ~AcpiWalk!LargeCut => ~AcpiWalk!ShortMemory
        /\ AcpiWalk!LargeCut <=> (x + 3 > Len(crs) \/ x + 3 + h > Len(crs))
        /\ AcpiWalk!ShortMemory <=> (tag % 128 = 6 /\ h < 9)
    BY <1>1, <1>2, <1>3, <1>9
    DEF AcpiWalk!Large, AcpiWalk!LargeCut, AcpiWalk!ShortMemory, AcpiWalk!Byte
  <2> QED  BY <1>6, <1>11, <2>1
<1>12. CASE k = Len(marks)
  <2>1. AcpiWalk!Ends(crs, x)
    <3>1. AcpiWalk!Ends(crs, x) \/ AcpiWalk!Unreadable(crs, x)
      <4>1. AcpiWalk!Ends(crs, marks[k].at) \/ AcpiWalk!Unreadable(crs, marks[k].at)
        BY <1>12, BufferIs
      <4> QED  BY <1>5, <4>1, Zenon
    <3>2. ~AcpiWalk!Unreadable(crs, x)
      <4>1. SUFFICES ASSUME AcpiWalk!Unreadable(crs, x)  PROVE FALSE
        OBVIOUS
      <4>2. Denies(crs, x, tag)
        BY <1>3, <1>6, <4>1, UnreadableIs, Zenon
      <4> QED  BY <1>4, <1>7, <1>8, <1>14, <4>2 DEF Denies
    <3> QED  BY <3>1, <3>2
  <2>2. x + 3 <= Len(crs) => x + 3 + h > Len(crs)
    <3>1. Stops(crs, x, crs[x + 1])
      BY <1>4, <1>6, <2>1, EndsAre
    <3>2. Stops(crs, x, tag)
      BY <1>3, <3>1, Zenon
    <3> QED  BY <1>4, <1>7, <1>8, <3>2 DEF Stops
  <2>3. offset' = Len(crs) /\ mmio' = mmio
    BY <1>6, <1>10, <2>2
  <2>4. PastEnd(crs, marks, offset', k)
    BY <1>5, <1>6, <1>12, <2>1, <2>3 DEF PastEnd
  <2> QED  BY <1>4, <1>5, <2>3, <2>4 DEF ReadTo
<1>13. CASE k # Len(marks)
  <2>1. k \in 1 .. Len(marks) - 1 /\ k + 1 \in 1 .. Len(marks)
    BY <1>6, <1>13
  <2>2. PICK m, n : m = marks[k] /\ n = marks[k + 1]
    OBVIOUS
  <2>3. AcpiWalk!Spans(crs, m, n)
    BY <2>1, <2>2, BufferIs
  <2>4. /\ \/ tag >= 128 /\ x + 3 <= n.at /\ n.at = x + 3 + Half(crs, x) /\ n.at <= Len(crs)
           \/ tag < 120 /\ n.at = x + 1 + (tag % 8)
        /\ IF tag = 134
           THEN x + 12 <= n.at /\ n.mmio = Append(m.mmio, <<SubSeq(crs, x + 5, x + 8),
                                                           SubSeq(crs, x + 9, x + 12)>>)
           ELSE n.mmio = m.mmio
        /\ tag \notin 34 .. 39 => n.irq = m.irq
    <3>1. x = m.at /\ tag = crs[x + 1]
      BY <1>3, <1>5, <2>2
    <3>2. Passes(crs, x, tag, n) /\ SaysMemory(crs, x, tag, m, n) /\ SaysLines(crs, x, tag, m, n)
      BY <2>3, <3>1, SpansAre, Zenon
    <3> QED  BY <3>2, Zenon DEF Passes, SaysMemory, SaysLines
  <2>5. n.at \in Nat
    BY <2>1, <2>2, BufferIs
  <2>6. x + 3 <= n.at /\ n.at = x + 3 + h /\ n.at <= Len(crs) /\ n.irq = m.irq
    BY <1>4, <1>7, <1>8, <2>4
  <2>7. ~(x + 3 > Len(crs) \/ x + 3 + h > Len(crs))
    BY <1>6, <2>5, <2>6
  <2>8. tag % 128 = 6 <=> tag = 134
    BY <1>4, <1>7
  <2>9. mmio' = n.mmio
    <3>1. CASE tag = 134
      <4>1. x + 12 <= Len(crs)
        BY <1>6, <2>4, <2>5, <2>6, <3>1
      <4>2. AcpiWalk!Word(x + 4) = SubSeq(crs, x + 5, x + 8)
        <5>1. PICK a \in Nat \ {0} : a = x + 5
          OBVIOUS
        <5>2. SubSeq(crs, a, a + 3) = <<crs[a], crs[a + 1], crs[a + 2], crs[a + 3]>>
          BY <1>6, <4>1, <5>1, FourAre
        <5>3. AcpiWalk!Word(x + 4) = <<crs[a], crs[a + 1], crs[a + 2], crs[a + 3]>>
          BY <1>1, <5>1 DEF AcpiWalk!Word, AcpiWalk!Byte
        <5>4. a + 3 = x + 8
          BY <5>1
        <5> QED  BY <5>1, <5>2, <5>3, <5>4
      <4>3. AcpiWalk!Word(x + 8) = SubSeq(crs, x + 9, x + 12)
        <5>1. PICK a \in Nat \ {0} : a = x + 9
          OBVIOUS
        <5>2. SubSeq(crs, a, a + 3) = <<crs[a], crs[a + 1], crs[a + 2], crs[a + 3]>>
          BY <1>6, <4>1, <5>1, FourAre
        <5>3. AcpiWalk!Word(x + 8) = <<crs[a], crs[a + 1], crs[a + 2], crs[a + 3]>>
          BY <1>1, <5>1 DEF AcpiWalk!Word, AcpiWalk!Byte
        <5>4. a + 3 = x + 12
          BY <5>1
        <5> QED  BY <5>1, <5>2, <5>3, <5>4
      <4> QED  BY <1>5, <1>10, <2>2, <2>4, <2>7, <2>8, <3>1, <4>2, <4>3
    <3>2. CASE tag # 134
      BY <1>5, <1>10, <2>2, <2>4, <2>7, <2>8, <3>2
    <3> QED  BY <3>1, <3>2
  <2>10. offset' = n.at /\ irq' = n.irq
    BY <1>4, <1>5, <1>10, <2>2, <2>6, <2>7
  <2> QED  BY <2>1, <2>2, <2>9, <2>10 DEF ReadTo
<1> QED  BY <1>12, <1>13

\* A small descriptor.
LEMMA SmallReads ==
  ASSUME NEW crs, NEW marks, AcpiWalk!Resources(crs, marks), fw.aml[index].crs = crs,
         ReadTo(crs, marks, offset, mmio, irq), AcpiWalk!Small
  PROVE  ReadTo(crs, marks, offset', mmio', irq')
<1>1. AcpiWalk!Buffer = crs
  BY DEF AcpiWalk!Buffer, AcpiWalk!Aml
<1>2. PICK x \in Nat : x = offset
  BY AtMark
<1>3. PICK tag : tag = crs[x + 1]
  OBVIOUS
<1>4. x < Len(crs) /\ tag < 128 /\ mmio' = mmio
  BY <1>1, <1>2, <1>3 DEF AcpiWalk!Small, AcpiWalk!Byte
<1>5. PICK k \in 1 .. Len(marks) : x = marks[k].at /\ mmio = marks[k].mmio /\ irq = marks[k].irq
  BY <1>2, <1>4, AtMark
<1>6. /\ Len(crs) \in Nat /\ Len(marks) \in Nat
      /\ \A b \in 1 .. Len(crs) : crs[b] \in 0 .. 255
  BY BufferIs
<1>7. tag \in 0 .. 127
  <2>1. x + 1 \in 1 .. Len(crs)
    BY <1>4, <1>6
  <2>2. tag \in 0 .. 255
    BY <1>3, <1>6, <2>1
  <2> QED  BY <1>4, <2>2
<1>8. /\ AcpiWalk!SmallLen = tag % 8 /\ AcpiWalk!SmallType = (tag \div 8) % 16
  BY <1>1, <1>2, <1>3 DEF AcpiWalk!SmallLen, AcpiWalk!SmallType, AcpiWalk!Byte
<1>9. /\ AcpiWalk!SmallType = 4 /\ AcpiWalk!SmallLen >= 2 <=> tag \in 34 .. 39
      /\ AcpiWalk!SmallType = 15 <=> tag \in 120 .. 127
  BY <1>7, <1>8
<1>10. /\ irq' = IF tag \in 34 .. 39 THEN irq \o AcpiWalk!Lines(Half(crs, x)) ELSE irq
       /\ offset' = IF tag \in 120 .. 127 THEN Len(crs) ELSE x + 1 + (tag % 8)
  BY <1>1, <1>2, <1>8, <1>9 DEF AcpiWalk!Small, AcpiWalk!Byte, Half
<1>13. tag \in 34 .. 39 => ~(x + 3 > Len(crs))
  <2>1. /\ ~AcpiWalk!LinesCut
        /\ AcpiWalk!LinesCut
             <=> (AcpiWalk!SmallType = 4 /\ AcpiWalk!SmallLen >= 2 /\ x + 3 > Len(crs))
    BY <1>1, <1>2 DEF AcpiWalk!Small, AcpiWalk!LinesCut
  <2> QED  BY <1>9, <2>1
<1>11. CASE k = Len(marks)
  <2>1. AcpiWalk!Ends(crs, x)
    <3>1. AcpiWalk!Ends(crs, x) \/ AcpiWalk!Unreadable(crs, x)
      <4>1. AcpiWalk!Ends(crs, marks[k].at) \/ AcpiWalk!Unreadable(crs, marks[k].at)
        BY <1>11, BufferIs
      <4> QED  BY <1>5, <4>1, Zenon
    <3>2. ~AcpiWalk!Unreadable(crs, x)
      <4>1. SUFFICES ASSUME AcpiWalk!Unreadable(crs, x)  PROVE FALSE
        OBVIOUS
      <4>2. Denies(crs, x, tag)
        BY <1>3, <1>6, <4>1, UnreadableIs, Zenon
      <4> QED  BY <1>7, <1>13, <4>2 DEF Denies
    <3> QED  BY <3>1, <3>2
  <2>2. tag \in 120 .. 127 \/ (tag \notin 34 .. 39 /\ x + 1 + (tag % 8) > Len(crs))
    <3>1. Stops(crs, x, crs[x + 1])
      BY <1>4, <1>6, <2>1, EndsAre
    <3>2. Stops(crs, x, tag)
      BY <1>3, <3>1, Zenon
    <3> QED  BY <1>4, <1>7, <3>2 DEF Stops
  <2>3. irq' = irq /\ offset' \in Nat /\ offset' >= Len(crs)
    <3>1. CASE tag \in 120 .. 127
      BY <1>6, <1>10, <3>1
    <3>2. CASE tag \notin 120 .. 127
      <4>1. offset' = x + 1 + (tag % 8) /\ tag \notin 34 .. 39 /\ x + 1 + (tag % 8) > Len(crs)
        BY <1>10, <2>2, <3>2
      <4>2. x + 1 + (tag % 8) \in Nat
        BY <1>7
      <4> QED  BY <1>6, <1>10, <4>1, <4>2
    <3> QED  BY <3>1, <3>2
  <2>4. PastEnd(crs, marks, offset', k)
    BY <1>5, <1>11, <2>1, <2>3 DEF PastEnd
  <2> QED  BY <1>4, <1>5, <2>3, <2>4 DEF ReadTo
<1>12. CASE k # Len(marks)
  <2>1. k \in 1 .. Len(marks) - 1 /\ k + 1 \in 1 .. Len(marks)
    BY <1>6, <1>12
  <2>2. PICK m, n : m = marks[k] /\ n = marks[k + 1]
    OBVIOUS
  <2>3. AcpiWalk!Spans(crs, m, n)
    BY <2>1, <2>2, BufferIs
  <2>4. /\ \/ tag >= 128 /\ x + 3 <= n.at /\ n.at = x + 3 + Half(crs, x)
           \/ tag < 120 /\ n.at = x + 1 + (tag % 8)
        /\ tag # 134 => n.mmio = m.mmio
        /\ tag \notin 34 .. 39 => n.irq = m.irq
        /\ tag \in 34 .. 39 => AcpiWalk!Behind(m.irq, AcpiWalk!Bits(Half(crs, x)), n.irq)
    <3>1. x = m.at /\ tag = crs[x + 1]
      BY <1>3, <1>5, <2>2
    <3>2. Passes(crs, x, tag, n) /\ SaysMemory(crs, x, tag, m, n) /\ SaysLines(crs, x, tag, m, n)
      BY <2>3, <3>1, SpansAre, Zenon
    <3> QED  BY <3>2, Zenon DEF Passes, SaysMemory, SaysLines
  <2>5. tag < 120 /\ n.at = x + 1 + (tag % 8) /\ n.mmio = m.mmio
    BY <1>7, <2>4
  <2>6. offset' = n.at /\ mmio' = n.mmio
    BY <1>4, <1>5, <1>7, <1>10, <2>2, <2>5
  <2>7. irq' = n.irq
    <3>1. CASE tag \in 34 .. 39
      <4>1. m.irq \in Seq(LineNumbers) /\ n.irq \in Seq(LineNumbers)
        BY <2>1, <2>2, BufferIs
      <4>2. PICK l, B : l = AcpiWalk!Lines(Half(crs, x)) /\ B = AcpiWalk!Bits(Half(crs, x))
        OBVIOUS
      <4>3. Enumerates(l, B)
        BY <4>2, LinesAre
      <4>4. n.irq = m.irq \o l
        <5>1. PICK z \in Seq(LineNumbers), w \in Seq(LineNumbers) : z = m.irq /\ w = n.irq
          BY <4>1
        <5>2. AcpiWalk!Behind(m.irq, B, n.irq)
          BY <2>4, <3>1, <4>2, Zenon
        <5>3. AcpiWalk!Behind(z, B, w)
          BY <5>1, <5>2, Zenon
        <5>4. w = z \o l
          BY <4>3, <5>3, LinesBehind
        <5> QED  BY <5>1, <5>4, Zenon
      <4> QED  BY <1>5, <1>10, <2>2, <3>1, <4>2, <4>4
    <3>2. CASE tag \notin 34 .. 39
      BY <1>5, <1>10, <2>2, <2>4, <3>2
    <3> QED  BY <3>1, <3>2
  <2> QED  BY <2>1, <2>2, <2>6, <2>7 DEF ReadTo
<1> QED  BY <1>11, <1>12

\* Where the driver dies, there is a descriptor that cannot be read, and no more
\* are said to follow.
LEMMA PanicReads ==
  ASSUME NEW crs, NEW marks, AcpiWalk!Resources(crs, marks), fw.aml[index].crs = crs,
         ReadTo(crs, marks, offset, mmio, irq), AcpiWalk!Panic
  PROVE  ~AcpiWalk!Ends(crs, marks[Len(marks)].at)
<1>1. AcpiWalk!Buffer = crs
  BY DEF AcpiWalk!Buffer, AcpiWalk!Aml
<1>2. PICK x \in Nat : x = offset
  BY AtMark
<1>3. PICK tag, h : tag = crs[x + 1] /\ h = Half(crs, x)
  OBVIOUS
<1>4. x < Len(crs)
  BY <1>1, <1>2 DEF AcpiWalk!Panic
<1>5. PICK k \in 1 .. Len(marks) : x = marks[k].at
  BY <1>2, <1>4, AtMark
<1>6. /\ Len(crs) \in Nat /\ Len(marks) \in Nat /\ crs \in Seq(0 .. 255)
      /\ \A b \in 1 .. Len(crs) : crs[b] \in 0 .. 255
  BY BufferIs
<1>7. tag \in 0 .. 255
  <2>1. x + 1 \in 1 .. Len(crs)
    BY <1>4, <1>6
  <2> QED  BY <1>3, <1>6, <2>1
<1>8. Denies(crs, x, tag)
  <2>1. CASE tag >= 128
    <3>1. ~AcpiWalk!LargeCut /\ AcpiWalk!ShortMemory
      BY <1>1, <1>2, <1>3, <2>1 DEF AcpiWalk!Panic, AcpiWalk!Byte
    <3>2. AcpiWalk!LargeLen = h
      BY <1>1, <1>2, <1>3 DEF AcpiWalk!LargeLen, AcpiWalk!Byte, Half
    <3>3. ~(x + 3 > Len(crs)) /\ ~(x + 3 + h > Len(crs)) /\ tag % 128 = 6 /\ h < 9
      BY <1>1, <1>2, <1>3, <3>1, <3>2 DEF AcpiWalk!LargeCut, AcpiWalk!ShortMemory, AcpiWalk!Byte
    <3>4. x + 3 <= Len(crs) /\ tag = 134
      <4>1. tag % 128 = 6 => tag = 134
        BY <1>7, <2>1
      <4>2. ~(x + 3 > Len(crs)) => x + 3 <= Len(crs)
        BY <1>6
      <4> QED  BY <3>3, <4>1, <4>2, Zenon
    <3>5. h \in Nat
      BY <1>3, <1>6, <3>4, HalfIs
    <3>6. x + 3 + h <= Len(crs)
      BY <1>6, <3>3, <3>5
    <3> QED  BY <1>3, <3>3, <3>4, <3>6 DEF Denies
  <2>2. CASE ~(tag >= 128)
    <3>1. AcpiWalk!LinesCut
      BY <1>1, <1>2, <1>3, <2>2 DEF AcpiWalk!Panic, AcpiWalk!Byte
    <3>2. (tag \div 8) % 16 = 4 /\ tag % 8 >= 2 /\ x + 3 > Len(crs)
      BY <1>1, <1>2, <1>3, <3>1
      DEF AcpiWalk!LinesCut, AcpiWalk!SmallType, AcpiWalk!SmallLen, AcpiWalk!Byte
    <3>3. tag \in 34 .. 39
      BY <1>7, <2>2, <3>2
    <3> QED  BY <3>2, <3>3 DEF Denies
  <2> QED  BY <2>1, <2>2
<1>9. k = Len(marks)
  <2>1. SUFFICES ASSUME k # Len(marks)  PROVE FALSE
    OBVIOUS
  <2>2. k \in 1 .. Len(marks) - 1 /\ k + 1 \in 1 .. Len(marks)
    BY <1>6, <2>1
  <2>3. PICK m, n : m = marks[k] /\ n = marks[k + 1]
    OBVIOUS
  <2>4. AcpiWalk!Spans(crs, m, n)
    BY <2>2, <2>3, BufferIs
  <2>5. Passes(crs, x, tag, n) /\ SaysMemory(crs, x, tag, m, n)
    <3>1. x = m.at /\ tag = crs[x + 1]
      BY <1>3, <1>5, <2>3
    <3> QED  BY <2>4, <3>1, SpansAre, Zenon
  <2>6. CASE tag \in 34 .. 39 /\ x + 3 > Len(crs)
    BY <1>6, <2>5, <2>6 DEF Passes
  <2>7. CASE tag = 134 /\ h < 9 /\ x + 3 + h <= Len(crs)
    <3>1. n.at \in Nat /\ n.at = x + 3 + h /\ x + 12 <= n.at
      <4>1. n.at \in Nat
        BY <2>2, <2>3, BufferIs
      <4>2. n.at = x + 3 + h
        BY <1>3, <2>5, <2>7 DEF Passes
      <4>3. x + 12 <= n.at
        BY <2>5, <2>7 DEF SaysMemory
      <4> QED  BY <4>1, <4>2, <4>3
    <3>2. PICK a \in Nat : a = n.at
      BY <3>1
    <3>3. h \in Nat
      <4>1. x + 3 <= Len(crs)
        BY <1>6, <1>8, <2>7 DEF Denies
      <4> QED  BY <1>3, <1>6, <4>1, HalfIs
    <3> QED  BY <2>7, <3>1, <3>2, <3>3
  <2> QED  BY <1>3, <1>8, <2>6, <2>7 DEF Denies
<1>10. AcpiWalk!Unreadable(crs, x) /\ ~AcpiWalk!Ends(crs, x)
  <2>1. Denies(crs, x, crs[x + 1])
    BY <1>3, <1>8, Zenon
  <2> QED  BY <1>4, <1>6, <2>1, UnreadableIs
<1> QED  BY <1>5, <1>9, <1>10, Zenon

-----------------------------------------------------------------------------
(* AcpiWalk: the list at every step.                                       *)

\* The first k devices of the name space are listed, behind all the others.
ListedTo(l, k) ==
  /\ k \in 0 .. Len(fw.aml) /\ Row(l)
  /\ FromMadt(l, Entries) /\ FromMcfg(l, Place(Entries)) /\ Others(l, Place(Entries) + Spaces)
  /\ \E a \in Nat : Place(Entries) + Spaces <= a /\ FromAml(l, a, k)

\* The walk is in the buffer of a device.
Reading(x, o, m, i) ==
  IF x.name = None \/ x.crs = None THEN o = 0 /\ m = <<>> /\ i = <<>>
                                   ELSE ReadTo(x.crs, x.marks, o, m, i)

InMadt(l, o) ==
  /\ fw.madt # None /\ Row(l)
  /\ \E k \in 0 .. Entries : o = AcpiWalk!Start(k + 1) /\ FromMadt(l, k) /\ Len(l) = Place(k)

BehindMadt(l) == Row(l) /\ FromMadt(l, Entries) /\ Len(l) = Place(Entries)

\* The buffers of the devices before this one could be read, and where the
\* driver died, that of this one could not.
ReadBefore(k) == \A i \in 1 .. k : AcpiWalk!Readable(fw.aml[i])
Died == index \in 1 .. Len(fw.aml) /\ ~AcpiWalk!Readable(fw.aml[index])

TablesInv ==
  /\ fw \in TableSets /\ index \in Nat \ {0}
  /\ ReadBefore(index - 1) /\ (wpc = "panicked" => Died)
  /\ wpc \in {"tables", "madt", "mcfg"} => mmio = <<>> /\ irq = <<>>
  /\ wpc = "madt" => InMadt(devices, offset)
  /\ wpc = "mcfg" => BehindMadt(devices)
  /\ wpc \in {"aml", "done"} => ListedTo(devices, index - 1)
  /\ wpc = "aml" /\ index <= Len(fw.aml) => Reading(fw.aml[index], offset, mmio, irq)
  /\ wpc = "done" => index = Len(fw.aml) + 1

\* A step leaves the tables as they are, and with them what is said of a list.
LEMMA SameTables ==
  ASSUME fw' = fw
  PROVE  /\ InMadt(devices, offset)' <=> InMadt(devices', offset')
         /\ BehindMadt(devices)' <=> BehindMadt(devices')
         /\ ListedTo(devices, index - 1)' <=> ListedTo(devices', index' - 1)
         /\ Reading(fw.aml[index], offset, mmio, irq)'
              <=> Reading(fw.aml[index'], offset', mmio', irq')
         /\ ReadBefore(index - 1)' <=> ReadBefore(index' - 1)
         /\ index' = index => (Died' <=> Died)
<1>1. Entries' = Entries /\ Spaces' = Spaces /\ Lapics' = Lapics
  BY DEF Entries, Spaces, Lapics
<1>2. Wanted' = Wanted /\ Naming' = Naming
  BY <1>1 DEF Wanted, Naming, OfArch
<1>3. \A k : Place(k)' = Place(k)
  BY <1>1, <1>2 DEF Place
<1>4. \A k : AcpiWalk!Start(k)' = AcpiWalk!Start(k)
  BY DEF AcpiWalk!Start
<1>5. \A k : FromMadt(devices, k)' <=> FromMadt(devices', k)
  BY <1>1, <1>2, <1>3 DEF FromMadt
<1>6. InMadt(devices, offset)' <=> InMadt(devices', offset')
  BY <1>1, <1>3, <1>4, <1>5 DEF InMadt, Row
<1>7. BehindMadt(devices)' <=> BehindMadt(devices')
  BY <1>1, <1>3, <1>5 DEF BehindMadt, Row
<1>8. FromMcfg(devices, Place(Entries))' <=> FromMcfg(devices', Place(Entries))
  BY <1>1, <1>3 DEF FromMcfg, AcpiWalk!Buses
<1>9. Others(devices, Place(Entries) + Spaces)' <=> Others(devices', Place(Entries) + Spaces)
  BY <1>1, <1>3 DEF Others
<1>10. \A a : FromAml(devices, a, index - 1)' <=> FromAml(devices', a, index' - 1)
  BY <1>2 DEF FromAml, Seat, Tells, Said
<1>11. ListedTo(devices, index - 1)' <=> ListedTo(devices', index' - 1)
  BY <1>1, <1>3, <1>5, <1>8, <1>9, <1>10 DEF ListedTo, Row
<1>12. Reading(fw.aml[index], offset, mmio, irq)'
         <=> Reading(fw.aml[index'], offset', mmio', irq')
  BY DEF Reading, ReadTo
<1>13. ReadBefore(index - 1)' <=> ReadBefore(index' - 1)
  BY DEF ReadBefore, AcpiWalk!Readable
<1>14. index' = index => (Died' <=> Died)
  BY DEF Died, AcpiWalk!Readable
<1> QED  BY <1>6, <1>7, <1>11, <1>12, <1>13, <1>14

\* At a device, nothing of it is read yet.
LEMMA NothingRead ==
  ASSUME fw \in TableSets, NEW j \in 1 .. Len(fw.aml)
  PROVE  Reading(fw.aml[j], 0, <<>>, <<>>)
<1>1. SUFFICES ASSUME fw.aml[j].name # None, fw.aml[j].crs # None
               PROVE  ReadTo(fw.aml[j].crs, fw.aml[j].marks, 0, <<>>, <<>>)
  BY DEF Reading
<1>2. PICK crs, marks : crs = fw.aml[j].crs /\ marks = fw.aml[j].marks
  OBVIOUS
<1>3. AcpiWalk!Resources(crs, marks)
  <2>1. AcpiWalk!Sound(fw)
    BY DriversAssumption DEF AcpiWalk!AcpiWalkAssumption
  <2>2. j \in DOMAIN fw.aml
    BY FirmwareIs
  <2> QED  BY <1>1, <1>2, <2>1, <2>2 DEF AcpiWalk!Sound
<1>4. /\ Len(marks) \in Nat \ {0}
      /\ marks[1].at = 0 /\ marks[1].mmio = <<>> /\ marks[1].irq = <<>>
  BY <1>3, BufferIs
<1>5. ReadTo(crs, marks, 0, <<>>, <<>>)
  BY <1>4 DEF ReadTo
<1> QED  BY <1>2, <1>5

\* The first step.
LEMMA TablesStarts ==
  ASSUME TablesInv, AcpiWalk!Tables
  PROVE  TablesInv'
<1>1. fw' = fw /\ fw \in TableSets /\ UNCHANGED <<index, mmio, irq>> /\ mmio = <<>> /\ irq = <<>>
  BY DEF TablesInv, AcpiWalk!Tables
<1>2. CASE wpc' = "failed"
  <2>1. ReadBefore(index - 1)'
    BY <1>1, SameTables DEF TablesInv
  <2> QED  BY <1>1, <1>2, <2>1 DEF TablesInv
<1>3. CASE wpc' # "failed"
  <2>1. /\ wpc' = IF fw.madt = None THEN "mcfg" ELSE "madt"
        /\ offset' = AcpiWalk!MadtHeader
        /\ devices' = IF fw.madt # None /\ fw.arch = "x86"
                      THEN <<AcpiWalk!Plain("lapic", 0, 4096)>> ELSE <<>>
    BY <1>3 DEF AcpiWalk!Tables
  <2>2. PICK l : l = devices'
    OBVIOUS
  <2>3. Row(l) /\ Len(l) = Lapics /\ \A d \in 1 .. Lapics : l[d].name = "lapic"
    <3>1. CASE Lapics = 1
      <4>1. PICK d : d = AcpiWalk!Plain("lapic", 0, 4096) /\ l = <<d>>
        BY <2>1, <2>2, <3>1 DEF Lapics
      <4>2. d.name = "lapic"
        BY <4>1 DEF AcpiWalk!Plain, AcpiWalk!Device
      <4>3. Row(l) /\ Len(l) = 1 /\ l[1] = d
        BY <4>1, RowOfOne
      <4> QED  BY <3>1, <4>2, <4>3
    <3>2. CASE Lapics # 1
      <4>1. Lapics = 0 /\ l = <<>>
        BY <2>1, <2>2, <3>2 DEF Lapics
      <4>2. Row(l) /\ Len(l) = 0
        BY <4>1, RowOfOne
      <4> QED  BY <4>1, <4>2
    <3> QED  BY <3>1, <3>2
  <2>4. Place(0) = Lapics /\ Lapics \in 0 .. 1 /\ Entries \in Nat
    BY <1>1, SetsAre
  <2>5. FromMadt(l, 0)
    <3>1. Place(0) \in Nat /\ Place(0) <= Len(l)
      BY <2>3, <2>4
    <3>2. \A d \in 1 .. Place(0) : l[d].name # "ecam" /\ (l[d].name \in Controllers <=> d > Lapics)
      BY <2>3, <2>4 DEF Controllers
    <3> QED  BY <3>1, <3>2 DEF FromMadt
  <2>6. CASE fw.madt # None
    <3>1. offset' = AcpiWalk!Start(0 + 1)
      BY <1>1, <2>1, <2>6, StartIs
    <3>2. InMadt(l, offset')
      BY <2>3, <2>4, <2>5, <2>6, <3>1 DEF InMadt
    <3>3. wpc' = "madt"
      BY <2>1, <2>6
    <3> QED  BY <1>1, <2>2, <3>2, <3>3, SameTables DEF TablesInv
  <2>7. CASE fw.madt = None
    <3>1. Entries = 0
      BY <2>7 DEF Entries
    <3>2. BehindMadt(l)
      BY <2>3, <2>4, <2>5, <3>1 DEF BehindMadt
    <3>3. wpc' = "mcfg"
      BY <2>1, <2>7
    <3> QED  BY <1>1, <2>2, <3>2, <3>3, SameTables DEF TablesInv
  <2> QED  BY <2>6, <2>7
<1> QED  BY <1>2, <1>3

\* An entry of the MADT.
LEMMA MadtSteps ==
  ASSUME TablesInv, AcpiWalk!Madt
  PROVE  TablesInv'
<1>1. /\ fw' = fw /\ fw \in TableSets /\ UNCHANGED <<wpc, index, mmio, irq>> /\ wpc = "madt"
      /\ offset < AcpiWalk!Length /\ InMadt(devices, offset)
  BY DEF TablesInv, AcpiWalk!Madt
<1>2. PICK k \in 0 .. Entries :
        offset = AcpiWalk!Start(k + 1) /\ FromMadt(devices, k) /\ Len(devices) = Place(k)
  BY <1>1 DEF InMadt
<1>3. Row(devices) /\ fw.madt # None
  BY <1>1 DEF InMadt
<1>4. Entries \in Nat /\ k \in 0 .. Entries - 1 /\ k + 1 \in 1 .. Entries
  <2>1. Entries \in Nat
    BY <1>1, SetsAre
  <2>2. k # Entries
    <3>1. AcpiWalk!Start(Entries + 1) \in Nat /\ AcpiWalk!Length = AcpiWalk!Start(Entries + 1)
      BY <1>1, <1>3, <2>1, StartIs, EntryIs
    <3> QED  BY <1>1, <1>2, <3>1
  <2> QED  BY <2>1, <2>2
<1>5. PICK e : e = fw.madt[k + 1]
  OBVIOUS
<1>6. AcpiWalk!EntryAt(offset) = e
  BY <1>1, <1>2, <1>3, <1>4, <1>5, EntryIs
<1>7. PICK l : l = devices'
  OBVIOUS
<1>8. l = devices \o AcpiWalk!Listed(e) /\ offset' = offset + e.length
  BY <1>6, <1>7 DEF AcpiWalk!Madt, AcpiWalk!Stride
<1>9. Row(l) /\ FromMadt(l, k + 1) /\ Len(l) = Place(k + 1)
  BY <1>1, <1>2, <1>3, <1>4, <1>5, <1>8, OneEntry
<1>10. PICK j \in 0 .. Entries : j = k + 1
  BY <1>4
<1>11. offset' = AcpiWalk!Start(j + 1)
  <2>1. j \in 1 .. Entries
    BY <1>4, <1>10
  <2>2. AcpiWalk!Start(j + 1) = AcpiWalk!Start(j) + fw.madt[j].length
    BY <1>1, <1>3, <2>1, StartIs
  <2> QED  BY <1>2, <1>5, <1>8, <1>10, <2>2
<1>12. InMadt(l, offset')
  BY <1>3, <1>9, <1>10, <1>11 DEF InMadt
<1> QED  BY <1>1, <1>7, <1>12, SameTables DEF TablesInv

\* The end of the MADT.
LEMMA MadtEnds ==
  ASSUME TablesInv, AcpiWalk!MadtEnd
  PROVE  TablesInv'
<1>1. /\ fw' = fw /\ fw \in TableSets /\ UNCHANGED <<offset, index, mmio, irq, devices>>
      /\ wpc = "madt" /\ wpc' = "mcfg" /\ offset >= AcpiWalk!Length /\ InMadt(devices, offset)
      /\ mmio = <<>> /\ irq = <<>>
  BY DEF TablesInv, AcpiWalk!MadtEnd
<1>2. PICK k \in 0 .. Entries :
        offset = AcpiWalk!Start(k + 1) /\ FromMadt(devices, k) /\ Len(devices) = Place(k)
  BY <1>1 DEF InMadt
<1>3. Row(devices) /\ fw.madt # None
  BY <1>1 DEF InMadt
<1>4. Entries \in Nat
  BY <1>1, SetsAre
<1>5. k = Entries
  <2>1. SUFFICES ASSUME k # Entries  PROVE FALSE
    OBVIOUS
  <2>2. k + 1 \in 1 .. Entries /\ k + 1 \in 1 .. Entries + 1 /\ Entries + 1 \in 1 .. Entries + 1
    BY <1>4, <2>1
  <2>3. AcpiWalk!Start(k + 1) < AcpiWalk!Length
    BY <1>1, <1>3, <2>2, EntryIs
  <2>4. AcpiWalk!Start(k + 1) \in Nat /\ AcpiWalk!Length \in Nat
    BY <1>1, <1>3, <2>2, StartIs, EntryIs
  <2> QED  BY <1>1, <1>2, <2>3, <2>4
<1>6. BehindMadt(devices)
  BY <1>2, <1>3, <1>5 DEF BehindMadt
<1> QED  BY <1>1, <1>6, SameTables DEF TablesInv

\* The configuration spaces and the HPET.
LEMMA SpacesStep ==
  ASSUME TablesInv, AcpiWalk!McfgHpet
  PROVE  TablesInv'
<1>1. /\ fw' = fw /\ fw \in TableSets /\ UNCHANGED <<mmio, irq>> /\ wpc = "mcfg" /\ wpc' = "aml"
      /\ index' = 1 /\ offset' = 0 /\ BehindMadt(devices) /\ mmio = <<>> /\ irq = <<>>
  BY DEF TablesInv, AcpiWalk!McfgHpet
<1>2. PICK l : l = devices'
  OBVIOUS
<1>3. l = devices \o SpacesOf \o HpetOf
  BY <1>2 DEF AcpiWalk!McfgHpet, SpacesOf, HpetOf
<1>4. Row(devices) /\ FromMadt(devices, Entries) /\ Len(devices) = Place(Entries)
  BY <1>1 DEF BehindMadt
<1>5. /\ Row(l) /\ Len(l) \in Nat /\ FromMadt(l, Entries) /\ FromMcfg(l, Place(Entries))
      /\ Others(l, Place(Entries) + Spaces)
  BY <1>1, <1>3, <1>4, SpacesListed
<1>6. Entries \in Nat /\ Place(Entries) \in Nat /\ Spaces \in Nat /\ Len(fw.aml) \in Nat
  BY <1>1, SetsAre
<1>7. PICK a \in Nat : a = Len(l)
  BY <1>5
<1>8. Place(Entries) + Spaces <= a
  BY <1>5, <1>7 DEF FromMcfg
<1>9. FromAml(l, a, 0)
  <2>1. Seat(a, 0) = a
    BY <1>1, SetsAre DEF Seat
  <2> QED  BY <1>7, <2>1 DEF FromAml
<1>10. ListedTo(l, index' - 1)
  <2>1. index' - 1 = 0 /\ 0 \in 0 .. Len(fw.aml)
    BY <1>1, <1>6
  <2>2. ListedTo(l, 0)
    BY <1>5, <1>8, <1>9, <2>1 DEF ListedTo
  <2> QED  BY <2>1, <2>2
<1>11. ASSUME index' <= Len(fw.aml)
       PROVE  Reading(fw.aml[index'], offset', mmio', irq')
  <2>1. index' \in 1 .. Len(fw.aml)
    BY <1>1, <1>6, <1>11
  <2>2. Reading(fw.aml[index'], 0, <<>>, <<>>)
    BY <1>1, <2>1, NothingRead
  <2> QED  BY <1>1, <2>2
<1>12. fw' \in TableSets /\ index' \in Nat \ {0} /\ wpc' = "aml"
  BY <1>1
<1>13. ReadBefore(index' - 1)
  BY <1>1 DEF ReadBefore
<1> QED  BY <1>1, <1>2, <1>10, <1>11, <1>12, <1>13, SameTables DEF TablesInv

\* The walk is at a device of the name space.
LEMMA AtDevice ==
  ASSUME TablesInv, wpc = "aml", index <= Len(fw.aml)
  PROVE  /\ fw \in TableSets /\ Len(fw.aml) \in Nat /\ index \in Nat
         /\ index \in 1 .. Len(fw.aml) /\ index - 1 \in 0 .. Len(fw.aml) - 1
         /\ index + 1 \in Nat \ {0} /\ (index + 1) - 1 = index /\ (index - 1) + 1 = index
         /\ ListedTo(devices, index - 1) /\ Reading(fw.aml[index], offset, mmio, irq)
         /\ index + 1 <= Len(fw.aml) => index + 1 \in 1 .. Len(fw.aml)
<1>1. fw \in TableSets /\ index \in Nat \ {0} /\ ListedTo(devices, index - 1)
  BY DEF TablesInv
<1>2. Reading(fw.aml[index], offset, mmio, irq)
  BY DEF TablesInv
<1>3. Len(fw.aml) \in Nat
  BY <1>1, SetsAre
<1> QED  BY <1>1, <1>2, <1>3

\* One more buffer could be read.
LEMMA OneRead ==
  ASSUME TablesInv, index \in Nat, AcpiWalk!Readable(fw.aml[index])
  PROVE  ReadBefore((index + 1) - 1)
<1>1. ReadBefore(index - 1)
  BY DEF TablesInv
<1>2. ASSUME NEW i \in 1 .. (index + 1) - 1  PROVE AcpiWalk!Readable(fw.aml[i])
  <2>1. i = index \/ i \in 1 .. index - 1
    BY <1>2
  <2> QED  BY <1>1, <2>1 DEF ReadBefore
<1> QED  BY <1>2 DEF ReadBefore

\* A device is left out.
LEMMA NoHidSteps ==
  ASSUME TablesInv, AcpiWalk!NoHid
  PROVE  TablesInv'
<1>1. /\ fw' = fw /\ UNCHANGED <<wpc, offset, mmio, irq, devices>> /\ wpc = "aml"
      /\ index' = index + 1 /\ index <= Len(fw.aml) /\ fw.aml[index].name = None
  BY DEF AcpiWalk!NoHid, AcpiWalk!Aml
<1>2. /\ fw \in TableSets /\ Len(fw.aml) \in Nat /\ index \in Nat /\ index \in 1 .. Len(fw.aml)
      /\ index - 1 \in 0 .. Len(fw.aml) - 1
      /\ index + 1 \in Nat \ {0} /\ (index + 1) - 1 = index /\ (index - 1) + 1 = index
      /\ ListedTo(devices, index - 1) /\ Reading(fw.aml[index], offset, mmio, irq)
      /\ index + 1 <= Len(fw.aml) => index + 1 \in 1 .. Len(fw.aml)
  BY <1>1, AtDevice
<1>3. offset = 0 /\ mmio = <<>> /\ irq = <<>>
  BY <1>1, <1>2 DEF Reading
<1>4. index \notin Naming
  BY <1>1 DEF Naming
<1>5. PICK k \in Nat : k = index - 1 /\ k + 1 = index
  BY <1>2
<1>6. PICK a \in Nat : Place(Entries) + Spaces <= a /\ FromAml(devices, a, k)
  BY <1>2, <1>5 DEF ListedTo
<1>7. FromAml(devices, a, index)
  <2>1. Seat(a, k + 1) = Seat(a, k)
    BY <1>2, <1>4, <1>5, SetsAre
  <2>2. ASSUME NEW i \in 1 .. index, i \in Naming  PROVE i \in 1 .. k
    BY <1>4, <1>5, <2>2
  <2> QED  BY <1>5, <1>6, <2>1, <2>2 DEF FromAml
<1>8. ListedTo(devices, index)
  BY <1>2, <1>6, <1>7 DEF ListedTo
<1>9. ListedTo(devices', index' - 1)
  BY <1>1, <1>2, <1>8
<1>10. ASSUME index' <= Len(fw.aml)
       PROVE  Reading(fw.aml[index'], offset', mmio', irq')
  <2>1. index' \in 1 .. Len(fw.aml)
    BY <1>1, <1>2, <1>10
  <2>2. Reading(fw.aml[index'], 0, <<>>, <<>>)
    BY <1>2, <2>1, NothingRead
  <2> QED  BY <1>1, <1>3, <2>2
<1>11. fw' \in TableSets /\ index' \in Nat \ {0} /\ wpc' = "aml"
  BY <1>1, <1>2
<1>12. ReadBefore(index' - 1)
  BY <1>1, <1>2, OneRead DEF AcpiWalk!Readable
<1> QED  BY <1>1, <1>9, <1>10, <1>11, <1>12, SameTables DEF TablesInv

\* A descriptor is read.
LEMMA DescriptorSteps ==
  ASSUME TablesInv, AcpiWalk!Large \/ AcpiWalk!Small
  PROVE  TablesInv'
<1>1. /\ fw' = fw /\ UNCHANGED <<wpc, index, devices>> /\ wpc = "aml" /\ index <= Len(fw.aml)
      /\ fw.aml[index].name # None /\ fw.aml[index].crs # None
  BY DEF AcpiWalk!Large, AcpiWalk!Small, AcpiWalk!Crs, AcpiWalk!Aml, AcpiWalk!Buffer
<1>2. /\ fw \in TableSets /\ index \in Nat /\ index \in 1 .. Len(fw.aml)
      /\ ListedTo(devices, index - 1) /\ Reading(fw.aml[index], offset, mmio, irq)
  BY <1>1, AtDevice
<1>3. PICK crs, marks : crs = fw.aml[index].crs /\ marks = fw.aml[index].marks
  OBVIOUS
<1>4. AcpiWalk!Resources(crs, marks)
  <2>1. AcpiWalk!Sound(fw)
    BY <1>2, DriversAssumption DEF AcpiWalk!AcpiWalkAssumption
  <2>2. index \in DOMAIN fw.aml
    BY <1>2, FirmwareIs
  <2> QED  BY <1>1, <1>3, <2>1, <2>2 DEF AcpiWalk!Sound
<1>5. ReadTo(crs, marks, offset, mmio, irq)
  BY <1>1, <1>2, <1>3 DEF Reading
<1>6. ReadTo(crs, marks, offset', mmio', irq')
  <2>1. CASE AcpiWalk!Large
    BY <1>3, <1>4, <1>5, <2>1, LargeReads
  <2>2. CASE AcpiWalk!Small
    BY <1>3, <1>4, <1>5, <2>2, SmallReads
  <2> QED  BY <2>1, <2>2
<1>7. Reading(fw.aml[index'], offset', mmio', irq')
  <2>1. Reading(fw.aml[index], offset', mmio', irq')
    BY <1>1, <1>3, <1>6 DEF Reading
  <2> QED  BY <1>1, <2>1
<1>8. ListedTo(devices', index' - 1)
  BY <1>1, <1>2
<1>9. fw' \in TableSets /\ index' \in Nat \ {0} /\ wpc' = "aml" /\ ReadBefore(index' - 1)
  BY <1>1, <1>2 DEF TablesInv
<1> QED  BY <1>1, <1>7, <1>8, <1>9, SameTables DEF TablesInv

\* The driver dies at a descriptor.
LEMMA PanicSteps ==
  ASSUME TablesInv, AcpiWalk!Panic
  PROVE  TablesInv'
<1>1. /\ fw' = fw /\ UNCHANGED <<index, offset, mmio, irq, devices>> /\ wpc = "aml"
      /\ index <= Len(fw.aml) /\ fw.aml[index].name # None /\ fw.aml[index].crs # None
      /\ wpc' = "panicked"
  BY DEF AcpiWalk!Panic, AcpiWalk!Crs, AcpiWalk!Aml, AcpiWalk!Buffer
<1>2. /\ fw \in TableSets /\ index \in Nat /\ index \in 1 .. Len(fw.aml)
      /\ Reading(fw.aml[index], offset, mmio, irq)
  BY <1>1, AtDevice
<1>3. PICK crs, marks : crs = fw.aml[index].crs /\ marks = fw.aml[index].marks
  OBVIOUS
<1>4. AcpiWalk!Resources(crs, marks)
  <2>1. AcpiWalk!Sound(fw)
    BY <1>2, DriversAssumption DEF AcpiWalk!AcpiWalkAssumption
  <2>2. index \in DOMAIN fw.aml
    BY <1>2, FirmwareIs
  <2> QED  BY <1>1, <1>3, <2>1, <2>2 DEF AcpiWalk!Sound
<1>5. ReadTo(crs, marks, offset, mmio, irq)
  BY <1>1, <1>2, <1>3 DEF Reading
<1>6. ~AcpiWalk!Ends(crs, marks[Len(marks)].at)
  BY <1>3, <1>4, <1>5, PanicReads
<1>7. Died
  BY <1>1, <1>2, <1>3, <1>6 DEF Died, AcpiWalk!Readable
<1>8. fw' \in TableSets /\ index' \in Nat \ {0} /\ ReadBefore(index' - 1)
  BY <1>1, <1>2 DEF TablesInv
<1> QED  BY <1>1, <1>7, <1>8, SameTables DEF TablesInv

\* A device is listed.
LEMMA DeviceSteps ==
  ASSUME TablesInv, AcpiWalk!AmlDevice
  PROVE  TablesInv'
<1>1. /\ fw' = fw /\ UNCHANGED wpc /\ wpc = "aml" /\ index <= Len(fw.aml)
      /\ index' = index + 1 /\ offset' = 0 /\ mmio' = <<>> /\ irq' = <<>>
      /\ fw.aml[index].name # None
  BY DEF AcpiWalk!AmlDevice, AcpiWalk!Aml, AcpiWalk!Fresh
<1>2. /\ fw \in TableSets /\ Len(fw.aml) \in Nat /\ index \in Nat /\ index \in 1 .. Len(fw.aml)
      /\ index - 1 \in 0 .. Len(fw.aml) - 1
      /\ index + 1 \in Nat \ {0} /\ (index + 1) - 1 = index /\ (index - 1) + 1 = index
      /\ ListedTo(devices, index - 1) /\ Reading(fw.aml[index], offset, mmio, irq)
      /\ index + 1 <= Len(fw.aml) => index + 1 \in 1 .. Len(fw.aml)
  BY <1>1, AtDevice
<1>3. PICK x, d : x = fw.aml[index] /\ d = AcpiWalk!Device(x.name, mmio, irq)
  OBVIOUS
<1>4. PICK l : l = devices' /\ l = Append(devices, d)
  BY <1>3 DEF AcpiWalk!AmlDevice, AcpiWalk!Aml
<1>5. Tells(x, d)
  <2>1. d.name = x.name /\ d.mmio = mmio /\ d.irq = irq
    BY <1>3 DEF AcpiWalk!Device
  <2>2. mmio = Said(x).mmio /\ irq = Said(x).irq
    <3>1. CASE x.crs = None
      <4>1. mmio = <<>> /\ irq = <<>>
        BY <1>2, <1>3, <3>1 DEF Reading
      <4> QED  BY <3>1, <4>1 DEF Said
    <3>2. CASE x.crs # None
      <4>1. PICK crs, marks : crs = x.crs /\ marks = x.marks
        OBVIOUS
      <4>2. AcpiWalk!Resources(crs, marks)
        <5>1. AcpiWalk!Sound(fw)
          BY <1>2, DriversAssumption DEF AcpiWalk!AcpiWalkAssumption
        <5>2. index \in DOMAIN fw.aml
          BY <1>2, FirmwareIs
        <5> QED  BY <1>3, <3>2, <4>1, <5>1, <5>2 DEF AcpiWalk!Sound
      <4>3. ReadTo(crs, marks, offset, mmio, irq)
        BY <1>1, <1>2, <1>3, <3>2, <4>1 DEF Reading
      <4>4. offset >= Len(crs)
        BY <1>3, <3>2, <4>1 DEF AcpiWalk!AmlDevice, AcpiWalk!Aml, AcpiWalk!Buffer
      <4>5. mmio = marks[Len(marks)].mmio /\ irq = marks[Len(marks)].irq
        BY <4>2, <4>3, <4>4, AtMark
      <4> QED  BY <3>2, <4>1, <4>5 DEF Said
    <3> QED  BY <3>1, <3>2
  <2> QED  BY <2>1, <2>2 DEF Tells
<1>6. PICK k \in 0 .. Len(fw.aml) - 1 : k = index - 1 /\ k + 1 = index
  BY <1>2
<1>7. PICK a \in Nat : Place(Entries) + Spaces <= a /\ FromAml(devices, a, k)
  BY <1>2, <1>6 DEF ListedTo
<1>8. PICK c \in Nat : c = Place(Entries)
  BY <1>2, SetsAre
<1>9. /\ Row(devices) /\ FromMadt(devices, Entries) /\ FromMcfg(devices, c)
      /\ Others(devices, c + Spaces) /\ c + Spaces <= a
  BY <1>2, <1>7, <1>8 DEF ListedTo
<1>10. k + 1 \in Naming /\ Tells(fw.aml[k + 1], d)
  BY <1>1, <1>2, <1>3, <1>5, <1>6 DEF Naming
<1>11. /\ Row(l) /\ FromMadt(l, Entries) /\ FromMcfg(l, c) /\ Others(l, c + Spaces)
       /\ FromAml(l, a, k + 1)
  BY <1>2, <1>4, <1>7, <1>9, <1>10, OneDevice
<1>12. ListedTo(l, index)
  BY <1>2, <1>6, <1>8, <1>9, <1>11 DEF ListedTo
<1>13. ListedTo(devices', index' - 1)
  BY <1>1, <1>2, <1>4, <1>12
<1>14. ASSUME index' <= Len(fw.aml)
       PROVE  Reading(fw.aml[index'], offset', mmio', irq')
  <2>1. index' \in 1 .. Len(fw.aml)
    BY <1>1, <1>2, <1>14
  <2>2. Reading(fw.aml[index'], 0, <<>>, <<>>)
    BY <1>2, <2>1, NothingRead
  <2> QED  BY <1>1, <2>2
<1>15. fw' \in TableSets /\ index' \in Nat \ {0} /\ wpc' = "aml"
  BY <1>1, <1>2
<1>16. AcpiWalk!Readable(x)
  <2>1. SUFFICES ASSUME x.crs # None  PROVE AcpiWalk!Ends(x.crs, x.marks[Len(x.marks)].at)
    BY DEF AcpiWalk!Readable
  <2>2. PICK crs, marks : crs = x.crs /\ marks = x.marks
    OBVIOUS
  <2>3. AcpiWalk!Resources(crs, marks)
    <3>1. AcpiWalk!Sound(fw)
      BY <1>2, DriversAssumption DEF AcpiWalk!AcpiWalkAssumption
    <3>2. index \in DOMAIN fw.aml
      BY <1>2, FirmwareIs
    <3> QED  BY <1>3, <2>1, <2>2, <3>1, <3>2 DEF AcpiWalk!Sound
  <2>4. ReadTo(crs, marks, offset, mmio, irq)
    BY <1>1, <1>2, <1>3, <2>1, <2>2 DEF Reading
  <2>5. offset >= Len(crs)
    BY <1>3, <2>1, <2>2 DEF AcpiWalk!AmlDevice, AcpiWalk!Aml, AcpiWalk!Buffer
  <2>6. AcpiWalk!Ends(crs, marks[Len(marks)].at)
    BY <2>3, <2>4, <2>5, AtMark
  <2> QED  BY <2>2, <2>6
<1>17. ReadBefore(index' - 1)
  BY <1>1, <1>2, <1>3, <1>16, OneRead
<1> QED  BY <1>1, <1>13, <1>14, <1>15, <1>17, SameTables DEF TablesInv

\* Before the tables are read.
LEMMA TablesInit == AcpiWalk!Init => TablesInv
BY DEF AcpiWalk!Init, TablesInv, ReadBefore

\* Every step of the walks keeps what is said of the list.
LEMMA TablesStep == TablesInv /\ AcpiWalk!Next => TablesInv'
<1> SUFFICES ASSUME TablesInv, AcpiWalk!Next  PROVE TablesInv'
  OBVIOUS
<1>1. CASE AcpiWalk!Done
  <2>1. /\ fw' = fw /\ UNCHANGED <<offset, index, mmio, irq, devices>>
        /\ wpc = "aml" /\ wpc' = "done" /\ index > Len(fw.aml)
    BY <1>1 DEF AcpiWalk!Done
  <2>2. fw \in TableSets /\ index \in Nat \ {0} /\ ListedTo(devices, index - 1)
    BY <2>1 DEF TablesInv
  <2>3. Len(fw.aml) \in Nat /\ index - 1 \in 0 .. Len(fw.aml)
    BY <2>2, SetsAre DEF ListedTo
  <2>4. index = Len(fw.aml) + 1
    BY <2>1, <2>2, <2>3
  <2>5. ListedTo(devices', index' - 1) /\ index' = Len(fw'.aml) + 1
    BY <2>1, <2>2, <2>4
  <2>6. ReadBefore(index' - 1)
    BY <2>1 DEF TablesInv
  <2> QED  BY <2>1, <2>2, <2>5, <2>6, SameTables DEF TablesInv
<1> QED
  BY <1>1, TablesStarts, MadtSteps, MadtEnds, SpacesStep, NoHidSteps, DescriptorSteps, PanicSteps,
     DeviceSteps
  DEF AcpiWalk!Next

-----------------------------------------------------------------------------
(* AcpiWalk: the list at the end.                                          *)

\* Where the controllers and the configuration spaces are.
LEMMA SeatsAre ==
  ASSUME TablesInv, wpc = "done"
  PROVE  /\ AcpiWalk!Named({"aplic", "plic", "ioapic"}) = Lapics + 1 .. Place(Entries)
         /\ AcpiWalk!Named({"ecam"}) = Place(Entries) + 1 .. Place(Entries) + Spaces
<1>1. fw \in TableSets /\ ListedTo(devices, Len(fw.aml))
  <2>1. fw \in TableSets /\ index = Len(fw.aml) + 1 /\ ListedTo(devices, index - 1)
    BY DEF TablesInv
  <2>2. Len(fw.aml) \in Nat
    BY <2>1, SetsAre
  <2> QED  BY <2>1, <2>2
<1>2. PICK c \in Nat, b \in Nat, s \in Nat : c = Lapics /\ b = Place(Entries) /\ s = Spaces /\ c <= b
  BY <1>1, SetsAre
<1>3. /\ Row(devices) /\ FromMadt(devices, Entries) /\ FromMcfg(devices, b)
      /\ Others(devices, b + s)
  BY <1>1, <1>2 DEF ListedTo
<1>4. PICK n \in Nat : n = Len(devices) /\ DOMAIN devices = 1 .. n
  BY <1>3 DEF Row
<1>5. b + s <= n
  BY <1>2, <1>3, <1>4 DEF FromMcfg
<1>6. ASSUME NEW d \in 1 .. n
      PROVE  /\ devices[d].name \in Controllers <=> d \in c + 1 .. b
             /\ devices[d].name = "ecam" <=> d \in b + 1 .. b + s
  <2>1. CASE d <= b
    <3>1. d \in 1 .. Place(Entries)
      BY <1>2, <2>1
    <3>2. devices[d].name # "ecam" /\ (devices[d].name \in Controllers <=> d > c)
      BY <1>2, <1>3, <3>1 DEF FromMadt
    <3> QED  BY <2>1, <3>2
  <2>2. CASE b < d /\ d <= b + s
    <3>1. PICK i \in 1 .. s : d = b + i
      <4>1. d - b \in 1 .. s /\ d = b + (d - b)
        BY <2>2
      <4> QED  BY <4>1
    <3>2. devices[d].name = "ecam"
      BY <1>2, <1>3, <3>1 DEF FromMcfg
    <3> QED  BY <2>2, <3>2 DEF Controllers
  <2>3. CASE b + s < d
    <3>1. d \in b + s + 1 .. Len(devices)
      BY <1>4, <2>3
    <3>2. devices[d].name # "ecam" /\ devices[d].name \notin Controllers
      BY <1>3, <3>1 DEF Others
    <3> QED  BY <2>3, <3>2
  <2> QED  BY <2>1, <2>2, <2>3
<1>7. AcpiWalk!Named({"aplic", "plic", "ioapic"}) = c + 1 .. b
  <2>1. AcpiWalk!Named({"aplic", "plic", "ioapic"}) = {d \in 1 .. n : devices[d].name \in Controllers}
    BY <1>4 DEF AcpiWalk!Named, Controllers
  <2>2. \A d \in c + 1 .. b : d \in 1 .. n
    BY <1>5
  <2> QED  BY <1>6, <2>1, <2>2
<1>8. AcpiWalk!Named({"ecam"}) = b + 1 .. b + s
  <2>1. AcpiWalk!Named({"ecam"}) = {d \in 1 .. n : devices[d].name = "ecam"}
    BY <1>4 DEF AcpiWalk!Named
  <2>2. \A d \in b + 1 .. b + s : d \in 1 .. n
    BY <1>5
  <2> QED  BY <1>6, <2>1, <2>2
<1> QED  BY <1>2, <1>7, <1>8

\* The controllers of the list, at the end, are those of the MADT.
LEMMA ControllersPromise == TablesInv => AcpiWalk!ControllersListed
<1> SUFFICES ASSUME TablesInv, wpc = "done", fw.madt # None  PROVE AcpiWalk!ControllersListed
  BY DEF AcpiWalk!ControllersListed
<1>1. fw \in TableSets /\ ListedTo(devices, index - 1)
  BY DEF TablesInv
<1>2. PICK c \in Nat, b \in Nat : c = Lapics /\ b = Place(Entries) /\ c <= b
  BY <1>1, SetsAre
<1>3. b = c + Cardinality(Wanted) /\ Entries \in Nat
  BY <1>1, <1>2, SetsAre
<1>4. FromMadt(devices, Entries)
  BY <1>1 DEF ListedTo
<1>5. PICK L : L = c + 1 .. b
  OBVIOUS
<1>6. AcpiWalk!Named({"aplic", "plic", "ioapic"}) = L
  BY <1>2, <1>5, SeatsAre
<1>7. PICK W : /\ W = {i \in DOMAIN fw.madt :
                      fw.madt[i].type \in IF fw.arch = "riscv" THEN {"aplic", "plic"} ELSE {"ioapic"}}
  OBVIOUS
<1>8. W = Wanted
  <2>1. DOMAIN fw.madt = 1 .. Entries
    BY <1>1, FirmwareIs
  <2> QED  BY <1>7, <2>1 DEF Wanted, OfArch
<1>9. Cardinality(L) = b - c /\ \A d \in L : AcpiWalk!Rank(L, d) = d - c
  BY <1>2, <1>5, RanksOfRange
<1>10. AcpiWalk!Cardinality(L) = AcpiWalk!Cardinality(W)
  <2>1. \A S : AcpiWalk!Cardinality(S) = Cardinality(S)
    BY DEF AcpiWalk!Cardinality, Cardinality
  <2>2. Cardinality(W) \in Nat
    <3>1. Wanted \subseteq 1 .. Entries
      BY DEF Wanted
    <3>2. IsFiniteSet(1 .. Entries)
      BY <1>3, FS_Interval
    <3>3. IsFiniteSet(W)
      BY <1>8, <3>1, <3>2, FS_Subset
    <3> QED  BY <3>3, FS_CardinalityType
  <2>3. Cardinality(L) = Cardinality(W)
    BY <1>3, <1>8, <1>9, <2>2
  <2> QED  BY <2>1, <2>3
<1>11. ASSUME NEW i \in W, NEW d \in L, AcpiWalk!Rank(L, d) = AcpiWalk!Rank(W, i)
       PROVE  devices[d].name = fw.madt[i].type /\ devices[d].mmio[1][1] = fw.madt[i].base
  <2>1. i \in Wanted /\ i \in 1 .. Entries
    BY <1>8 DEF Wanted
  <2>2. d = Place(i)
    <3>1. AcpiWalk!Rank(W, i) = d - c /\ d \in Nat
      BY <1>5, <1>9, <1>11
    <3>2. Place(i) = c + AcpiWalk!Rank(W, i)
      BY <1>2, <1>8 DEF Place
    <3> QED  BY <3>1, <3>2
  <2> QED  BY <1>4, <2>1, <2>2 DEF FromMadt
<1> QED  BY <1>6, <1>7, <1>10, <1>11 DEF AcpiWalk!ControllersListed

\* The configuration spaces of the list, at the end, are those of the MCFG.
LEMMA SpacesPromise == TablesInv => AcpiWalk!EcamsHoldTheirBuses
<1> SUFFICES ASSUME TablesInv, wpc = "done", fw.mcfg # None  PROVE AcpiWalk!EcamsHoldTheirBuses
  BY DEF AcpiWalk!EcamsHoldTheirBuses
<1>1. fw \in TableSets /\ ListedTo(devices, index - 1)
  BY DEF TablesInv
<1>2. PICK b \in Nat, s \in Nat, e \in Nat : b = Place(Entries) /\ s = Spaces /\ e = b + s
  <2>1. Place(Entries) \in Nat /\ Spaces \in Nat
    BY <1>1, SetsAre
  <2> QED  BY <2>1
<1>3. FromMcfg(devices, b)
  BY <1>1, <1>2 DEF ListedTo
<1>4. PICK E : E = b + 1 .. e
  OBVIOUS
<1>5. AcpiWalk!Named({"ecam"}) = E
  BY <1>2, <1>4, SeatsAre
<1>6. s = Len(fw.mcfg)
  BY <1>2 DEF Spaces
<1>7. Cardinality(E) = e - b /\ \A d \in E : AcpiWalk!Rank(E, d) = d - b
  BY <1>2, <1>4, RanksOfRange
<1>8. AcpiWalk!Cardinality(E) = Len(fw.mcfg)
  <2>1. AcpiWalk!Cardinality(E) = Cardinality(E)
    BY DEF AcpiWalk!Cardinality, Cardinality
  <2>2. e - b = s
    BY <1>2
  <2> QED  BY <1>6, <1>7, <2>1, <2>2
<1>9. ASSUME NEW d \in E
      PROVE  /\ devices[d].mmio[1][1] = fw.mcfg[AcpiWalk!Rank(E, d)].base
             /\ devices[d].mmio[1][2] \in 1 .. 256
             /\ \A bus \in {fw.mcfg[AcpiWalk!Rank(E, d)].first, fw.mcfg[AcpiWalk!Rank(E, d)].last} :
                  bus >= fw.mcfg[AcpiWalk!Rank(E, d)].first
                    => bus - fw.mcfg[AcpiWalk!Rank(E, d)].first < devices[d].mmio[1][2]
  <2>1. PICK i \in 1 .. s : i = d - b /\ d = b + i
    <3>1. d - b \in 1 .. s /\ d = b + (d - b)
      BY <1>2, <1>4
    <3> QED  BY <3>1
  <2>2. AcpiWalk!Rank(E, d) = i
    BY <1>7, <2>1
  <2>3. PICK x : x = fw.mcfg[i]
    OBVIOUS
  <2>4. devices[d].mmio[1][1] = x.base /\ devices[d].mmio[1][2] = AcpiWalk!Buses(x)
    BY <1>2, <1>3, <2>1, <2>3 DEF FromMcfg
  <2>5. PICK f \in 0 .. 255, l \in 0 .. 255 : f = x.first /\ l = x.last
    <3>1. i \in 1 .. Len(fw.mcfg)
      BY <1>6
    <3>2. fw.mcfg[i].first \in 0 .. 255 /\ fw.mcfg[i].last \in 0 .. 255
      BY <1>1, <3>1, FirmwareIs
    <3> QED  BY <2>3, <3>2
  <2>6. PICK room : room = AcpiWalk!Buses(x) /\ room = (IF l > f THEN l - f ELSE 0) + 1
    BY <2>5 DEF AcpiWalk!Buses
  <2>7. room \in 1 .. 256 /\ \A bus \in {f, l} : bus >= f => bus - f < room
    BY <2>6
  <2>8. /\ devices[d].mmio[1][1] = x.base /\ devices[d].mmio[1][2] \in 1 .. 256
        /\ \A bus \in {x.first, x.last} : bus >= x.first => bus - x.first < devices[d].mmio[1][2]
    <3>1. devices[d].mmio[1][2] = room
      BY <2>4, <2>6, Zenon
    <3>2. \A bus \in {x.first, x.last} : bus >= x.first => bus - x.first < room
      BY <2>5, <2>7
    <3> QED  BY <2>4, <2>7, <3>1, <3>2, Zenon
  <2>9. x = fw.mcfg[AcpiWalk!Rank(E, d)]
    BY <2>2, <2>3
  <2> QED  BY <2>8, <2>9, Zenon
<1> QED  BY <1>5, <1>8, <1>9 DEF AcpiWalk!EcamsHoldTheirBuses

\* The last devices of the list, at the end, are those of the name space.
LEMMA ResourcesPromise == TablesInv => AcpiWalk!ResourcesDecoded
<1> SUFFICES ASSUME TablesInv, wpc = "done"  PROVE AcpiWalk!ResourcesDecoded
  BY DEF AcpiWalk!ResourcesDecoded
<1>1. fw \in TableSets /\ ListedTo(devices, Len(fw.aml))
  <2>1. fw \in TableSets /\ index = Len(fw.aml) + 1 /\ ListedTo(devices, index - 1)
    BY DEF TablesInv
  <2>2. Len(fw.aml) \in Nat
    BY <2>1, SetsAre
  <2> QED  BY <2>1, <2>2
<1>2. PICK a \in Nat : FromAml(devices, a, Len(fw.aml))
  BY <1>1 DEF ListedTo
<1>3. PICK N : N = {i \in DOMAIN fw.aml : fw.aml[i].name # None}
  OBVIOUS
<1>4. N = Naming
  <2>1. DOMAIN fw.aml = 1 .. Len(fw.aml)
    BY <1>1, FirmwareIs
  <2> QED  BY <1>3, <2>1 DEF Naming
<1>5. AcpiWalk!Rank(Naming, Len(fw.aml)) = Cardinality(Naming) /\ Len(fw.aml) \in Nat
  BY <1>1, SetsAre
<1>6. AcpiWalk!Cardinality(N) = Cardinality(Naming)
  BY <1>4 DEF AcpiWalk!Cardinality, Cardinality
<1>7. Len(devices) - AcpiWalk!Cardinality(N) = a
  <2>1. Len(devices) = a + AcpiWalk!Rank(Naming, Len(fw.aml))
    BY <1>2 DEF FromAml, Seat
  <2>2. AcpiWalk!Rank(Naming, Len(fw.aml)) \in Nat
    BY <1>1, <1>5, SetsAre
  <2> QED  BY <1>5, <1>6, <2>1, <2>2
<1>8. ASSUME NEW i \in N
      PROVE  /\ devices[a + AcpiWalk!Rank(N, i)].name = fw.aml[i].name
             /\ devices[a + AcpiWalk!Rank(N, i)].mmio = Said(fw.aml[i]).mmio
             /\ devices[a + AcpiWalk!Rank(N, i)].irq = Said(fw.aml[i]).irq
  <2>1. i \in 1 .. Len(fw.aml) /\ i \in Naming
    BY <1>4 DEF Naming
  <2>2. Tells(fw.aml[i], devices[Seat(a, i)])
    BY <1>2, <2>1 DEF FromAml
  <2>3. Seat(a, i) = a + AcpiWalk!Rank(N, i)
    BY <1>4 DEF Seat
  <2> QED  BY <2>2, <2>3 DEF Tells
<1> QED  BY <1>3, <1>7, <1>8 DEF AcpiWalk!ResourcesDecoded, Said

\* The end is reached with all buffers read, or the process died before.
LEMMA DiesPromise == TablesInv => AcpiWalk!DiesUnread
<1> SUFFICES ASSUME TablesInv  PROVE AcpiWalk!DiesUnread
  OBVIOUS
<1>1. fw \in TableSets /\ ReadBefore(index - 1) /\ index \in Nat
  BY DEF TablesInv
<1>2. DOMAIN fw.aml = 1 .. Len(fw.aml) /\ Len(fw.aml) \in Nat
  BY <1>1, FirmwareIs, SetsAre
<1>3. ASSUME wpc = "done", NEW i \in DOMAIN fw.aml  PROVE AcpiWalk!Readable(fw.aml[i])
  <2>1. index = Len(fw.aml) + 1
    BY <1>3 DEF TablesInv
  <2>2. i \in 1 .. index - 1
    BY <1>2, <2>1
  <2> QED  BY <1>1, <2>2 DEF ReadBefore
<1>4. ASSUME wpc = "panicked"
      PROVE  /\ index \in DOMAIN fw.aml /\ ~AcpiWalk!Readable(fw.aml[index])
             /\ \A i \in 1 .. index - 1 : AcpiWalk!Readable(fw.aml[i])
  <2>1. Died
    BY <1>4 DEF TablesInv
  <2> QED  BY <1>1, <1>2, <2>1 DEF Died, ReadBefore
<1> QED  BY <1>3, <1>4 DEF AcpiWalk!DiesUnread

(* The list of the ACPI driver is what the tables say, whatever bytes lie  *)
(* in the buffers of the devices: the interrupt controllers of the MADT in *)
(* their order, a configuration space for each range of the MCFG with room *)
(* for all its buses, and every named device with exactly the memory and   *)
(* the lines of its own buffer.  The list is complete exactly if all these *)
(* buffers can be read: at the first that has a descriptor of lines or of  *)
(* memory with too few bytes the process dies (aml.rs:143, 144 and 158).   *)
THEOREM TablesTheorem == DriversSpec => []TablesListed
<1> DEFINE I == driver = "acpi_walk" => TablesInv
<1>1. DriversInit => I
  BY TablesInit DEF DriversInit
<1>2. I /\ [DriversNext]_driversVars => I'
  <2> SUFFICES ASSUME I, [DriversNext]_driversVars, driver' = "acpi_walk"
               PROVE  TablesInv'
    OBVIOUS
  <2>1. driver = "acpi_walk" /\ (AcpiWalk!Next \/ UNCHANGED walkVars)
    BY Chosen
  <2>2. CASE AcpiWalk!Next
    BY <2>1, <2>2, TablesStep
  <2>3. CASE UNCHANGED walkVars
    <3>1. fw' = fw /\ UNCHANGED <<wpc, offset, index, mmio, irq, devices>>
      BY <2>3 DEF walkVars
    <3> QED  BY <2>1, <3>1, SameTables DEF TablesInv
  <2> QED  BY <2>1, <2>2, <2>3
<1>3. I => TablesListed
  BY ControllersPromise, SpacesPromise, ResourcesPromise, DiesPromise
  DEF TablesListed, AcpiWalk!TablesListed
<1> QED  BY <1>1, <1>2, <1>3, PTL DEF DriversSpec
=============================================================================
