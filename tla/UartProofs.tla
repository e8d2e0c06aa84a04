----------------------------- MODULE UartProofs -----------------------------
(***************************************************************************)
(* The UART for every size of its FIFO, buffers, rings and budgets: its    *)
(* variables keep their types, received bytes stay in order, and a driver  *)
(* that waits has announced whatever lies in its buffers.                  *)
(***************************************************************************)
EXTENDS Uart, SequenceTheorems, TLAPS

-----------------------------------------------------------------------------
(* Sequences of bytes on their way.                                        *)

(* What is left of a buffer when n elements are taken from its front.      *)
LEMMA Rest ==
  ASSUME NEW S, NEW b \in Seq(S), NEW n \in 0 .. Len(b)
  PROVE  /\ SubSeq(b, n + 1, Len(b)) \in Seq(S)
         /\ Len(SubSeq(b, n + 1, Len(b))) = Len(b) - n
         /\ \A i \in 1 .. Len(b) - n : SubSeq(b, n + 1, Len(b))[i] = b[n + i]
<1>1. Len(b) \in Nat /\ \A i \in 1 .. Len(b) : b[i] \in S
  BY ElementOfSeq, LenProperties
<1>2. SubSeq(b, n + 1, Len(b)) \in Seq(S) /\ Len(SubSeq(b, n + 1, Len(b))) = Len(b) - n
  BY <1>1, SubSeqProperties
<1>3. \A i \in 1 .. Len(b) - n : SubSeq(b, n + 1, Len(b))[i] = b[n + i]
  BY ElementOfSeq
<1> QED  BY <1>2, <1>3

(* A buffer is its front and the rest.                                     *)
LEMMA FrontRest ==
  ASSUME NEW S, NEW b \in Seq(S), NEW n \in 0 .. Len(b)
  PROVE  /\ SubSeq(b, 1, n) \in Seq(S) /\ Len(SubSeq(b, 1, n)) = n
         /\ SubSeq(b, 1, n) \o SubSeq(b, n + 1, Len(b)) = b
<1>1. Len(b) \in Nat /\ \A i \in 1 .. Len(b) : b[i] \in S
  BY ElementOfSeq, LenProperties
<1>2. SubSeq(b, 1, n) \in Seq(S) /\ Len(SubSeq(b, 1, n)) = n
  BY <1>1, SubSeqProperties
<1>3. 1 \in 1 .. Len(b) + 1 /\ n \in 1 - 1 .. Len(b) /\ Len(b) \in n .. Len(b)
  BY <1>1
<1>4. SubSeq(b, 1, n) \o SubSeq(b, n + 1, Len(b)) = SubSeq(b, 1, Len(b))
  BY <1>3, ConcatAdjacentSubSeq
<1> QED  BY <1>2, <1>4, SubSeqFull

(* A buffer is its first element and the rest.                             *)
LEMMA HeadRest ==
  ASSUME NEW S, NEW b \in Seq(S), b # << >>
  PROVE  /\ << Head(b) >> \in Seq(S) /\ Tail(b) \in Seq(S)
         /\ << Head(b) >> \o Tail(b) = b
         /\ Tail(b) = SubSeq(b, 1 + 1, Len(b)) /\ 1 \in 0 .. Len(b)
<1>1. Head(b) \in S /\ Head(b) = b[1] /\ Len(b) \in Nat \ {0} /\ Tail(b) \in Seq(S)
  BY HeadTailProperties, EmptySeq
<1>2. Tail(b) = SubSeq(b, 1 + 1, Len(b))
  BY TailIsSubSeq
<1>3. SubSeq(b, 1, Len(b)) = << b[1] >> \o SubSeq(b, 1 + 1, Len(b))
  BY <1>1, SubSeqRecursiveFirst
<1> QED  BY <1>1, <1>2, <1>3, SubSeqFull

(* One buffer after another.                                               *)
Cat(a, b) == a \o b

\* Concatenation is typed, adds the lengths and lists the first sequence before the second.
LEMMA CatType ==
  ASSUME NEW S, NEW a \in Seq(S), NEW b \in Seq(S)
  PROVE  /\ Cat(a, b) \in Seq(S)
         /\ Len(Cat(a, b)) = Len(a) + Len(b) /\ Len(a) \in Nat /\ Len(b) \in Nat
         /\ \A i \in 1 .. Len(a) + Len(b) :
              Cat(a, b)[i] = IF i <= Len(a) THEN a[i] ELSE b[i - Len(a)]
BY ConcatProperties, LenProperties DEF Cat

\* Concatenation is associative.
LEMMA CatAssoc ==
  ASSUME NEW S, NEW a \in Seq(S), NEW b \in Seq(S), NEW c \in Seq(S)
  PROVE  Cat(Cat(a, b), c) = Cat(a, Cat(b, c))
<1>1. (a \o b) \o c = a \o (b \o c)
  BY ConcatAssociative
<1> QED  BY <1>1 DEF Cat

\* Appending a byte is concatenating the sequence of it alone.
LEMMA CatAppend ==
  ASSUME NEW S, NEW a \in Seq(S), NEW e \in S
  PROVE  Append(a, e) = Cat(a, << e >>) /\ << e >> \in Seq(S)
<1>1. Append(a, e) = a \o << e >>
  BY AppendIsConcat
<1>2. << e >> \in Seq(S)
  OBVIOUS
<1> QED  BY <1>1, <1>2 DEF Cat

(* Taking the first element of two buffers in a row.                       *)
LEMMA CatHead ==
  ASSUME NEW S, NEW a \in Seq(S), NEW b \in Seq(S), a # << >>
  PROVE  /\ Cat(a, b) # << >>
         /\ Head(Cat(a, b)) = Head(a)
         /\ Tail(Cat(a, b)) = Cat(Tail(a), b)
<1> DEFINE s == Cat(a, b)
           r == Tail(a)
           h == << Head(a) >>
<1>1. /\ s \in Seq(S) /\ Len(a) \in Nat \ {0} /\ Len(b) \in Nat /\ Len(s) = Len(a) + Len(b)
      /\ s[1] = a[1] /\ r \in Seq(S) /\ h \in Seq(S) /\ Cat(h, r) = a
  <2>1. Len(a) \in Nat \ {0}
    BY EmptySeq
  <2>2. r \in Seq(S) /\ h \in Seq(S) /\ Cat(h, r) = a
    BY HeadRest DEF Cat
  <2>3. /\ s \in Seq(S) /\ Len(b) \in Nat /\ Len(s) = Len(a) + Len(b)
        /\ \A i \in 1 .. Len(a) + Len(b) : s[i] = IF i <= Len(a) THEN a[i] ELSE b[i - Len(a)]
    BY CatType
  <2> HIDE DEF s, r, h
  <2>4. s[1] = a[1]
    BY <2>1, <2>3
  <2> QED  BY <2>1, <2>2, <2>3, <2>4
<1>2. s # << >> /\ Head(s) = Head(a)
  BY <1>1, EmptySeq
<1>3. Tail(s) \in Seq(S) /\ Cat(<< Head(s) >>, Tail(s)) = s
  BY <1>1, <1>2, HeadRest DEF Cat
<1>4. Cat(h, Tail(s)) = s
  BY <1>2, <1>3
<1>5. Cat(r, b) \in Seq(S)
  BY <1>1, CatType
<1> HIDE DEF r, h
<1>6. Cat(h, Cat(r, b)) = s
  BY <1>1, CatAssoc
<1>7. Tail(s) = Cat(r, b)
  <2> DEFINE u == Tail(s)
             v == Cat(r, b)
  <2>1. u \in Seq(S) /\ v \in Seq(S) /\ Cat(h, u) = Cat(h, v)
    BY <1>3, <1>4, <1>5, <1>6
  <2> HIDE DEF u, v
  <2>2. u = v
    BY <1>1, <2>1, ConcatSimplifications DEF Cat
  <2> QED  BY <2>2 DEF u, v
<1> QED  BY <1>2, <1>7 DEF r

(* Bytes in the order of their arrival, all after low and none after high. *)
Stream(s, low, high) ==
  /\ \A i \in 1 .. Len(s) : low < s[i] /\ s[i] <= high
  /\ \A i, j \in 1 .. Len(s) : i < j => s[i] < s[j]

(* The next byte arrives.                                                  *)
LEMMA StreamAppend ==
  ASSUME NEW s \in Seq(Nat), NEW low \in Nat, NEW high \in Nat,
         low <= high, Stream(s, low, high)
  PROVE  /\ Stream(Append(s, high + 1), low, high + 1)
         /\ Stream(s, low, high + 1)
         /\ Len(Append(s, high + 1)) = Len(s) + 1
<1> DEFINE t == Append(s, high + 1)
<1>1. /\ Len(t) = Len(s) + 1 /\ t[Len(s) + 1] = high + 1 /\ Len(s) \in Nat
      /\ \A i \in 1 .. Len(s) : t[i] = s[i] /\ s[i] \in Nat
  BY AppendProperties, LenProperties, ElementOfSeq
<1> HIDE DEF t
<1>2. \A i \in 1 .. Len(t) : i \in 1 .. Len(s) \/ i = Len(s) + 1
  BY <1>1
<1>3. \A i \in 1 .. Len(s) : low < s[i] /\ s[i] <= high /\ s[i] < high + 1 /\ s[i] <= high + 1
  BY <1>1 DEF Stream
<1>4. ASSUME NEW i \in 1 .. Len(t)  PROVE low < t[i] /\ t[i] <= high + 1
  <2>1. CASE i \in 1 .. Len(s)
    BY <1>1, <1>3, <2>1
  <2>2. CASE i = Len(s) + 1
    BY <1>1, <2>2
  <2> QED  BY <1>2, <2>1, <2>2
<1>5. ASSUME NEW i \in 1 .. Len(t), NEW j \in 1 .. Len(t), i < j
      PROVE  t[i] < t[j]
  <2>1. i \in 1 .. Len(s) /\ t[i] = s[i]
    BY <1>1, <1>5
  <2>2. CASE j = Len(s) + 1
    BY <1>1, <1>3, <2>1, <2>2
  <2>3. CASE j \in 1 .. Len(s)
    <3>1. t[j] = s[j] /\ s[i] < s[j]
      BY <1>1, <1>5, <2>1, <2>3 DEF Stream
    <3> QED  BY <2>1, <3>1
  <2> QED  BY <1>2, <2>2, <2>3
<1>6. Stream(s, low, high + 1)
  BY <1>3 DEF Stream
<1> QED  BY <1>1, <1>4, <1>5, <1>6 DEF Stream, t

(* The next byte is read.                                                  *)
LEMMA StreamTail ==
  ASSUME NEW s \in Seq(Nat), NEW low \in Nat, NEW high \in Nat,
         Stream(s, low, high), s # << >>
  PROVE  /\ Stream(Tail(s), Head(s), high) /\ Head(s) <= high
         /\ Len(Tail(s)) = Len(s) - 1
<1> DEFINE t == Tail(s)
<1>1. /\ Len(t) = Len(s) - 1 /\ Len(s) \in Nat \ {0} /\ Head(s) = s[1]
      /\ \A i \in 1 .. Len(t) : t[i] = s[i + 1]
  BY HeadTailProperties, EmptySeq
<1> HIDE DEF t
<1>2. \A i \in 1 .. Len(t) : i + 1 \in 1 .. Len(s) /\ 1 < i + 1
  BY <1>1
<1>3. 1 \in 1 .. Len(s)
  BY <1>1
<1>4. \A i \in 1 .. Len(s) : s[i] \in Nat
  BY ElementOfSeq
<1> QED  BY <1>1, <1>2, <1>3, <1>4 DEF Stream, t

(* Bytes are taken away from the front of the last buffer.                 *)
LEMMA StreamDrop ==
  ASSUME NEW a \in Seq(Nat), NEW b \in Seq(Nat), NEW n \in 0 .. Len(b),
         NEW low \in Nat, NEW high \in Nat, Stream(Cat(a, b), low, high)
  PROVE  /\ Stream(Cat(a, SubSeq(b, n + 1, Len(b))), low, high)
         /\ Len(Cat(a, SubSeq(b, n + 1, Len(b)))) = Len(Cat(a, b)) - n
<1> DEFINE c == SubSeq(b, n + 1, Len(b))
           s == Cat(a, b)
           t == Cat(a, c)
           at(i) == IF i <= Len(a) THEN i ELSE i + n
<1>1. /\ Len(s) = Len(a) + Len(b) /\ Len(a) \in Nat /\ Len(b) \in Nat /\ n \in Nat /\ n <= Len(b)
      /\ \A i \in 1 .. Len(a) + Len(b) : s[i] = IF i <= Len(a) THEN a[i] ELSE b[i - Len(a)]
  BY CatType
<1>2. /\ c \in Seq(Nat) /\ Len(c) = Len(b) - n
      /\ \A i \in 1 .. Len(b) - n : c[i] = b[n + i]
  BY Rest
<1> HIDE DEF c
<1>3. /\ Len(t) = Len(a) + Len(c)
      /\ \A i \in 1 .. Len(a) + Len(c) : t[i] = IF i <= Len(a) THEN a[i] ELSE c[i - Len(a)]
  BY <1>2, CatType
<1>4. Stream(s, low, high)
  OBVIOUS
<1> HIDE DEF s, t
<1>5. Len(t) = Len(s) - n
  BY <1>1, <1>2, <1>3
<1>6. ASSUME NEW i \in 1 .. Len(t)
      PROVE  at(i) \in 1 .. Len(s) /\ t[i] = s[at(i)]
  <2>1. /\ i \in 1 .. Len(a) + Len(c) /\ i \in Nat
        /\ at(i) \in 1 .. Len(a) + Len(b)
    BY <1>1, <1>2, <1>3, SMTT(20)
  <2>2. CASE i <= Len(a)
    BY <1>1, <1>3, <2>1, <2>2
  <2>3. CASE i > Len(a)
    <3>1. t[i] = c[i - Len(a)] /\ at(i) = i + n /\ s[at(i)] = b[i + n - Len(a)]
      <4>1. ~(i <= Len(a)) /\ at(i) = i + n /\ ~(i + n <= Len(a))
        BY <1>1, <2>1, <2>3
      <4>2. t[i] = c[i - Len(a)]
        BY <1>3, <2>1, <4>1
      <4>3. s[at(i)] = b[i + n - Len(a)]
        BY <1>1, <2>1, <4>1
      <4> QED  BY <4>1, <4>2, <4>3
    <3>2. i - Len(a) \in 1 .. Len(b) - n /\ n + (i - Len(a)) = i + n - Len(a)
      BY <1>1, <1>2, <2>1, <2>3
    <3> QED  BY <1>1, <1>2, <2>1, <3>1, <3>2
  <2> QED  BY <1>1, <2>1, <2>2, <2>3
<1>7. \A i, j \in 1 .. Len(t) : i < j => at(i) < at(j)
  BY <1>1, <1>2, <1>3
<1> HIDE DEF at
<1>9. Stream(t, low, high)
  BY <1>4, <1>6, <1>7 DEF Stream
<1> QED  BY <1>5, <1>9 DEF s, t, c

-----------------------------------------------------------------------------
(* Three buffers in a row.                                                 *)

Join(a, b, c) == Cat(Cat(a, b), c)

\* The three buffers in a row are one sequence.
LEMMA JoinType ==
  ASSUME NEW S, NEW a \in Seq(S), NEW b \in Seq(S), NEW c \in Seq(S)
  PROVE  Join(a, b, c) \in Seq(S) /\ Len(Join(a, b, c)) \in Nat
<1>1. Cat(a, b) \in Seq(S)
  BY CatType
<1>2. Join(a, b, c) \in Seq(S)
  BY <1>1, CatType DEF Join
<1> QED  BY <1>2, LenProperties

(* The front of the second buffer moves to the end of the first.           *)
LEMMA JoinPush ==
  ASSUME NEW S, NEW a \in Seq(S), NEW b \in Seq(S), NEW c \in Seq(S), NEW n \in 0 .. Len(b)
  PROVE  Join(a \o SubSeq(b, 1, n), SubSeq(b, n + 1, Len(b)), c) = Join(a, b, c)
<1> DEFINE f == SubSeq(b, 1, n)
           g == SubSeq(b, n + 1, Len(b))
<1>1. f \in Seq(S) /\ g \in Seq(S)
  BY FrontRest, Rest
<1>2. Cat(f, g) = b
  BY FrontRest DEF Cat
<1> HIDE DEF f, g
<1>3. Cat(Cat(a, f), g) = Cat(a, b)
  BY <1>1, <1>2, CatAssoc
<1>4. Join(Cat(a, f), g, c) = Join(a, b, c)
  BY <1>3 DEF Join
<1> QED  BY <1>4 DEF f, g, Cat

(* The first element of the third moves to the end of the second.          *)
LEMMA JoinMove ==
  ASSUME NEW S, NEW a \in Seq(S), NEW b \in Seq(S), NEW c \in Seq(S), c # << >>
  PROVE  Join(a, Append(b, Head(c)), Tail(c)) = Join(a, b, c)
<1> DEFINE h == << Head(c) >>
           g == Tail(c)
<1>1. h \in Seq(S) /\ g \in Seq(S) /\ Head(c) \in S
  BY HeadRest, HeadTailProperties
<1>2. Cat(h, g) = c
  BY HeadRest DEF Cat
<1>3. Append(b, Head(c)) = Cat(b, h)
  BY <1>1, CatAppend
<1> HIDE DEF h, g
<1>4. Cat(Cat(b, h), g) = Cat(b, c) /\ Cat(b, h) \in Seq(S)
  BY <1>1, <1>2, CatAssoc, CatType
<1>5. Cat(Cat(a, Cat(b, h)), g) = Cat(a, Cat(b, c))
  BY <1>1, <1>4, CatAssoc
<1>6. Cat(Cat(a, b), c) = Cat(a, Cat(b, c))
  BY CatAssoc
<1> QED  BY <1>3, <1>5, <1>6 DEF Join, g

(* Elements are taken away from the front of the third.                    *)
LEMMA JoinDrop ==
  ASSUME NEW a \in Seq(Nat), NEW b \in Seq(Nat), NEW c \in Seq(Nat), NEW n \in 0 .. Len(c),
         NEW low \in Nat, NEW high \in Nat, Stream(Join(a, b, c), low, high)
  PROVE  /\ Stream(Join(a, b, SubSeq(c, n + 1, Len(c))), low, high)
         /\ Len(Join(a, b, SubSeq(c, n + 1, Len(c)))) = Len(Join(a, b, c)) - n
<1> DEFINE f == Cat(a, b)
<1>1. f \in Seq(Nat)
  BY CatType
<1> HIDE DEF f
<1>2. Stream(Cat(f, c), low, high)
  BY DEF Join, f
<1>3. /\ Stream(Cat(f, SubSeq(c, n + 1, Len(c))), low, high)
      /\ Len(Cat(f, SubSeq(c, n + 1, Len(c)))) = Len(Cat(f, c)) - n
  BY <1>1, <1>2, StreamDrop
<1> QED  BY <1>3 DEF Join, f

(* An element comes in at the end of the third.                            *)
Put(s, e) == Append(s, e)

\* A byte put at the end of the last buffer is put at the end of the row.
LEMMA JoinArrive ==
  ASSUME NEW S, NEW a \in Seq(S), NEW b \in Seq(S), NEW c \in Seq(S), NEW e \in S
  PROVE  Join(a, b, Put(c, e)) = Put(Join(a, b, c), e)
<1> DEFINE f == Cat(a, b)
           g == << e >>
<1>1. f \in Seq(S) /\ g \in Seq(S)
  BY CatType, CatAppend
<1> HIDE DEF f
<1>2. Cat(f, c) \in Seq(S)
  BY <1>1, CatType
<1>3. Put(c, e) = Cat(c, g) /\ Put(Cat(f, c), e) = Cat(Cat(f, c), g)
  BY <1>2, CatAppend DEF Put
<1> HIDE DEF g
<1>4. Cat(Cat(f, c), g) = Cat(f, Cat(c, g))
  BY <1>1, CatAssoc
<1> QED  BY <1>3, <1>4 DEF Join, f

(* The first element of the first is taken.                                *)
LEMMA JoinTake ==
  ASSUME NEW S, NEW a \in Seq(S), NEW b \in Seq(S), NEW c \in Seq(S), a # << >>
  PROVE  /\ Join(a, b, c) # << >>
         /\ Head(Join(a, b, c)) = Head(a)
         /\ Join(Tail(a), b, c) = Tail(Join(a, b, c))
<1> DEFINE f == Cat(a, b)
<1>1. f \in Seq(S) /\ f # << >> /\ Head(f) = Head(a) /\ Tail(f) = Cat(Tail(a), b)
  BY CatType, CatHead
<1> HIDE DEF f
<1>2. Cat(f, c) # << >> /\ Head(Cat(f, c)) = Head(f) /\ Tail(Cat(f, c)) = Cat(Tail(f), c)
  BY <1>1, CatHead
<1> QED  BY <1>1, <1>2 DEF Join, f

(* The last two, for numbers.                                              *)
LEMMA JoinEnds ==
  ASSUME NEW a \in Seq(Nat), NEW b \in Seq(Nat), NEW c \in Seq(Nat)
  PROVE  /\ \A e \in Nat : Join(a, b, Put(c, e)) = Put(Join(a, b, c), e)
         /\ a # << >> => /\ Join(a, b, c) # << >>
                         /\ Head(Join(a, b, c)) = Head(a)
                         /\ Join(Tail(a), b, c) = Tail(Join(a, b, c))
<1> DEFINE S == Nat
<1>1. a \in Seq(S) /\ b \in Seq(S) /\ c \in Seq(S)
  OBVIOUS
<1>2. ASSUME NEW e \in Nat PROVE e \in S
  OBVIOUS
<1> HIDE DEF S
<1>3. ASSUME NEW e \in Nat PROVE Join(a, b, Put(c, e)) = Put(Join(a, b, c), e)
  BY <1>1, <1>2, JoinArrive
<1>4. ASSUME a # << >>
      PROVE  /\ Join(a, b, c) # << >>
             /\ Head(Join(a, b, c)) = Head(a)
             /\ Join(Tail(a), b, c) = Tail(Join(a, b, c))
  BY <1>1, <1>4, JoinTake
<1> QED  BY <1>3, <1>4

-----------------------------------------------------------------------------
(* Types, and bytes in the order of their arrival.                         *)

(* Received bytes on their way came after what was read, and each byte is  *)
(* on its way or gone.  Pairs of bytes, not only neighbours, are in order: *)
(* a direct read takes any number of them away.                            *)
Flow ==
  /\ Stream(InTransit, got, arrived)
  /\ got <= arrived
  /\ arrived = gone + Len(InTransit)

TFInv == TypeOK /\ Flow

\* The types of the byte counters and buffers; InTransit is the row of the three.
LEMMA Bytes ==
  ASSUME TypeOK
  PROVE  /\ rxr \in Seq(Nat) /\ sw \in Seq(Nat) /\ hw.fifo \in Seq(Nat)
         /\ InTransit = Join(rxr, sw, hw.fifo)
         /\ InTransit \in Seq(Nat) /\ Len(InTransit) \in Nat
         /\ arrived \in Nat /\ gone \in Nat /\ got \in Nat
         /\ MaxBytes \in Nat
         /\ hw = [fifo |-> hw.fifo, timeout |-> hw.timeout, overrun |-> hw.overrun, ier |-> hw.ier]
<1>1. MaxBytes \in Nat /\ \A b \in Byte : b \in Nat
  BY UartAssumption DEF Byte
<1>2. rxr \in Seq(Byte) /\ sw \in Seq(Byte) /\ hw.fifo \in Seq(Byte)
  BY DEF TypeOK
<1>3. rxr \in Seq(Nat) /\ sw \in Seq(Nat) /\ hw.fifo \in Seq(Nat)
  <2>1. Byte \subseteq Nat
    BY <1>1
  <2> QED  BY <1>2, <2>1, SeqMonotonic
<1>4. InTransit = Join(rxr, sw, hw.fifo)
  BY DEF InTransit, Join, Cat
<1>7. InTransit \in Seq(Nat) /\ Len(InTransit) \in Nat
  BY <1>3, <1>4, JoinType
<1>5. arrived \in Nat /\ gone \in Nat /\ got \in Nat
  BY <1>1 DEF TypeOK
<1>6. hw = [fifo |-> hw.fifo, timeout |-> hw.timeout, overrun |-> hw.overrun, ier |-> hw.ier]
  BY DEF TypeOK
<1> QED  BY <1>1, <1>3, <1>4, <1>5, <1>6, <1>7

\* Initially everything is typed and no byte has been read out of order.
LEMMA TypeInit == Init => TypeOK /\ Flow
<1> SUFFICES ASSUME Init PROVE TypeOK /\ Flow
  OBVIOUS
<1>1. TypeOK
  <2>1. /\ MaxBytes \in Nat /\ FifoSize \in Nat /\ SoftLimit \in Nat /\ RxRing \in Nat
        /\ TxRing \in Nat /\ CqSize \in Nat /\ EventBudget \in Nat /\ TxBudget \in Nat
    BY UartAssumption
  <2>2. << >> \in Seq(Byte) /\ << >> \in Seq(Kinds) /\ Len(<< >>) = 0
    BY EmptySeq
  <2>3. /\ hw \in [fifo : Seq(Byte), timeout : BOOLEAN, overrun : BOOLEAN, ier : BOOLEAN]
        /\ hw.fifo = << >> /\ sw = << >> /\ rxr = << >> /\ sq = << >> /\ cq = << >>
    BY <2>2 DEF Init
  <2>4. drv \in [pc : {"idle", "bits", "irq", "ack", "drain", "push", "post", "sq", "fake", "tx", "sent"},
                 bits : SUBSET {"IRQ", "CQ", "SQ"}, events : 0 .. EventBudget,
                 left : Nat, txleft : 0 .. TxBudget, pushed : Nat,
                 ret : {"idle", "irq", "ack", "bits", "tx", "fake"}]
    <3>1. 0 \in 0 .. EventBudget /\ 0 \in 0 .. TxBudget /\ 0 \in Nat
      BY <2>1
    <3> QED  BY <3>1 DEF Init
  <2>5. cli \in [ask : SUBSET Kinds, put : BOOLEAN, owed : SUBSET {"SQ", "CQ"}, look : BOOLEAN]
    BY DEF Init
  <2>6. /\ arrived \in 0 .. MaxBytes /\ gone \in 0 .. MaxBytes /\ got \in 0 .. MaxBytes
        /\ txr \in 0 .. TxRing
    BY <2>1 DEF Init
  <2>7. /\ reading \in BOOLEAN /\ lost \subseteq Kinds /\ cut \in BOOLEAN
        /\ up \subseteq {"shm", "ring"} /\ pend \subseteq {"IRQ", "CQ", "SQ"} /\ masked \in BOOLEAN
    BY DEF Init
  <2> QED  BY <2>1, <2>2, <2>3, <2>4, <2>5, <2>6, <2>7 DEF TypeOK
<1>2. InTransit = << >>
  BY DEF Init, InTransit
<1>3. Flow
  BY <1>2 DEF Init, Flow, Stream
<1> QED  BY <1>1, <1>3

(* Steps after which the same bytes are on their way.                      *)
LEMMA SameFlow ==
  ASSUME Flow, InTransit' = InTransit, UNCHANGED <<got, gone, arrived>>
  PROVE  Flow'
BY DEF Flow

\* No step reorders the bytes in transit or lets one overtake another.
LEMMA FlowStep ==
  ASSUME TFInv, [Next]_vars
  PROVE  Flow'
<1> USE DEF TFInv
<1>0. ASSUME UNCHANGED <<rxr, sw, got, gone, arrived>>, hw'.fifo = hw.fifo
      PROVE  Flow'
  BY <1>0, SameFlow DEF InTransit
<1>b. /\ rxr \in Seq(Nat) /\ sw \in Seq(Nat) /\ hw.fifo \in Seq(Nat)
      /\ InTransit = Join(rxr, sw, hw.fifo)
      /\ InTransit \in Seq(Nat) /\ Len(InTransit) \in Nat
      /\ arrived \in Nat /\ gone \in Nat /\ got \in Nat
  BY Bytes
<1>j. InTransit' = Join(rxr', sw', hw'.fifo)
  BY DEF InTransit, Join, Cat
<1>h. ReadLsr(hw).fifo = hw.fifo
  BY Bytes DEF ReadLsr
<1>1. CASE Recv \/ ServeIrq \/ ServeCq \/ ServeSq \/ ServeDone
  BY <1>1, <1>0 DEF Recv, ServeIrq, ServeCq, ServeSq, ServeDone, Serve, sharedVars, clientVars, histVars
<1>2. CASE IrqEvent \/ IrqEnd \/ IrqAck \/ DrainEnd
  BY <1>2, <1>0, <1>h DEF IrqEvent, IrqEnd, IrqAck, DrainEnd, sharedVars, clientVars, histVars
<1>3. CASE DrainByte
  <2>1. /\ hw.fifo # << >> /\ hw'.fifo = Tail(hw.fifo)
        /\ UNCHANGED <<rxr, got, arrived>>
    BY <1>3, Bytes DEF DrainByte, ReadLsr, sharedVars, clientVars
  <2>2. CASE sw' = Append(sw, Head(hw.fifo)) /\ gone' = gone
    <3>1. Join(rxr, sw', Tail(hw.fifo)) = Join(rxr, sw, hw.fifo)
      BY <1>b, <2>1, <2>2, JoinMove
    <3>2. InTransit' = InTransit
      BY <1>b, <1>j, <2>1, <3>1
    <3> QED  BY <2>1, <2>2, <3>2, SameFlow
  <2>3. CASE sw' = sw /\ gone' = gone + 1
    <3>1. Tail(hw.fifo) = SubSeq(hw.fifo, 1 + 1, Len(hw.fifo)) /\ 1 \in 0 .. Len(hw.fifo)
      BY <1>b, <2>1, HeadRest
    <3>2. InTransit' = Join(rxr, sw, SubSeq(hw.fifo, 1 + 1, Len(hw.fifo)))
      BY <1>j, <2>1, <2>3, <3>1
    <3>3. Stream(InTransit', got, arrived) /\ Len(InTransit') = Len(InTransit) - 1
      BY <1>b, <3>1, <3>2, JoinDrop, SMTT(20) DEF Flow
    <3> QED  BY <1>b, <2>1, <2>3, <3>3 DEF Flow
  <2> QED  BY <1>3, <2>2, <2>3 DEF DrainByte
<1>4. CASE Push
  <2>1. PICK n \in 0 .. Len(sw) :
          /\ rxr' = rxr \o SubSeq(sw, 1, n)
          /\ sw' = SubSeq(sw, n + 1, Len(sw))
    <3>1. Room \in Nat
      <4>1. Len(rxr) \in Nat /\ RxRing \in Nat /\ Len(rxr) <= RxRing
        BY <1>b, UartAssumption, LenProperties DEF TypeOK
      <4> QED  BY <4>1 DEF Room
    <3>2. Len(sw) \in Nat
      BY <1>b, LenProperties
    <3>3. PICK front \in 1 .. Len(sw) :
            LET n == IF front <= Room THEN front ELSE Room
            IN  /\ rxr' = rxr \o SubSeq(sw, 1, n)
                /\ sw' = SubSeq(sw, n + 1, Len(sw))
      BY <1>4 DEF Push
    <3> DEFINE n == IF front <= Room THEN front ELSE Room
    <3>4. n \in 0 .. Len(sw)
      BY <3>1, <3>2
    <3> QED  BY <3>3, <3>4
  <2>2. hw'.fifo = hw.fifo /\ UNCHANGED <<got, gone, arrived>>
    BY <1>4 DEF Push, clientVars, histVars
  <2>3. InTransit' = InTransit
    BY <1>b, <1>j, <2>1, <2>2, JoinPush
  <2> QED  BY <2>2, <2>3, SameFlow
<1>5. CASE PushEnd \/ Post \/ TakeWrite \/ TakeRead \/ TakeBad
  BY <1>5, <1>0 DEF PushEnd, Post, TakeWrite, TakeRead, TakeBad, Take, sharedVars, clientVars, histVars
<1>6. CASE FakeRead \/ SqEmpty \/ TxSend \/ TxEnd \/ WriteDone
  BY <1>6, <1>0, <1>h DEF FakeRead, SqEmpty, TxSend, TxEnd, WriteDone, sharedVars, clientVars, histVars
<1>7. CASE SetupBuffer \/ SetupRing \/ CallWrite
  BY <1>7, <1>0, <1>h DEF SetupBuffer, SetupRing, CallWrite, Idle, sharedVars, clientVars, histVars
<1>8. CASE CallRead \/ SetBaudRate
  <2>1. PICK n \in 0 .. Len(hw.fifo) :
          hw'.fifo = SubSeq(hw.fifo, n + 1, Len(hw.fifo)) /\ gone' = gone + n
    <3>1. CASE CallRead
      <4>1. PICK n \in 1 .. Len(hw.fifo) :
              /\ hw' = [ReadLsr(hw) EXCEPT !.fifo = SubSeq(@, n + 1, Len(@)), !.timeout = FALSE]
              /\ gone' = gone + n
        BY <3>1 DEF CallRead
      <4>2. n \in 0 .. Len(hw.fifo)
        BY <1>b, LenProperties
      <4> QED  BY <4>1, <4>2, Bytes DEF ReadLsr
    <3>2. CASE SetBaudRate
      <4> DEFINE n == Len(hw.fifo)
      <4>1. n \in 0 .. Len(hw.fifo)
        BY <1>b, LenProperties
      <4>2. SubSeq(hw.fifo, n + 1, n) = << >>
        BY <4>1, SubSeqEmpty
      <4>3. hw'.fifo = << >> /\ gone' = gone + n
        BY <3>2, Bytes DEF SetBaudRate
      <4> QED  BY <4>1, <4>2, <4>3
    <3> QED  BY <1>8, <3>1, <3>2
  <2>2. UNCHANGED <<rxr, sw, got, arrived>>
    BY <1>8 DEF CallRead, SetBaudRate, Idle, sharedVars
  <2>3. InTransit' = Join(rxr, sw, SubSeq(hw.fifo, n + 1, Len(hw.fifo)))
    BY <1>j, <2>1, <2>2
  <2>4. Stream(InTransit', got, arrived) /\ Len(InTransit') = Len(InTransit) - n
    BY <1>b, <2>3, JoinDrop DEF Flow
  <2> QED  BY <1>b, <2>1, <2>2, <2>4 DEF Flow
<1>9. CASE Arrive
  <2>1. arrived' = arrived + 1 /\ UNCHANGED <<rxr, sw, got>>
    BY <1>9 DEF Arrive, sharedVars, clientVars
  <2>2. /\ Stream(Append(InTransit, arrived + 1), got, arrived + 1)
        /\ Stream(InTransit, got, arrived + 1)
        /\ Len(Append(InTransit, arrived + 1)) = Len(InTransit) + 1
    BY <1>b, StreamAppend DEF Flow
  <2>3. CASE hw'.fifo = Append(hw.fifo, arrived + 1) /\ gone' = gone
    <3>2. InTransit' = Append(InTransit, arrived + 1)
      <4> DEFINE e == arrived + 1
                 f == hw.fifo
      <4>1. e \in Nat /\ f \in Seq(Nat) /\ hw'.fifo = Append(f, e) /\ InTransit = Join(rxr, sw, f)
        BY <1>b, <2>3
      <4> HIDE DEF e, f
      <4>2. Join(rxr, sw, Put(f, e)) = Put(Join(rxr, sw, f), e)
        BY <1>b, <4>1, JoinEnds
      <4>3. InTransit' = Put(InTransit, e)
        <5>1. hw'.fifo = Put(f, e)
          BY <4>1 DEF Put
        <5> QED  BY <1>j, <2>1, <4>1, <4>2, <5>1
      <4> QED  BY <4>3 DEF e, Put
    <3> QED  BY <1>b, <2>1, <2>2, <2>3, <3>2 DEF Flow
  <2>4. CASE hw'.fifo = hw.fifo /\ gone' = gone + 1
    <3>1. InTransit' = InTransit
      BY <1>b, <1>j, <2>1, <2>4
    <3> QED  BY <1>b, <2>1, <2>2, <2>4, <3>1 DEF Flow
  <2> QED  BY <1>9, <2>3, <2>4, Bytes DEF Arrive
<1>10. CASE Timeout \/ KernelIrq
  <2>1. hw'.fifo = hw.fifo
    BY <1>10, Bytes DEF Timeout, KernelIrq
  <2> QED  BY <1>10, <2>1, <1>0 DEF Timeout, KernelIrq, sharedVars, clientVars, histVars
<1>11. CASE ClientRead
  <2>1. /\ rxr # << >> /\ rxr' = Tail(rxr) /\ got' = Head(rxr) /\ gone' = gone + 1
        /\ UNCHANGED <<sw, hw, arrived>>
    BY <1>11 DEF ClientRead, ClientOther
  <2>2. InTransit # << >> /\ Head(InTransit) = Head(rxr) /\ InTransit' = Tail(InTransit)
    <3> DEFINE f == hw.fifo
    <3>1. f \in Seq(Nat) /\ InTransit = Join(rxr, sw, f) /\ InTransit' = Join(Tail(rxr), sw, f)
      BY <1>b, <1>j, <2>1
    <3> HIDE DEF f
    <3>2. rxr # << >> /\ rxr \in Seq(Nat) /\ sw \in Seq(Nat)
      BY <1>b, <2>1
    <3>3. /\ Join(rxr, sw, f) # << >> /\ Head(Join(rxr, sw, f)) = Head(rxr)
          /\ Join(Tail(rxr), sw, f) = Tail(Join(rxr, sw, f))
      BY <3>1, <3>2, JoinEnds, SMTT(20)
    <3> QED  BY <3>1, <3>3
  <2>3. /\ Stream(Tail(InTransit), Head(InTransit), arrived) /\ Head(InTransit) <= arrived
        /\ Len(Tail(InTransit)) = Len(InTransit) - 1
    BY <1>b, <2>2, StreamTail DEF Flow
  <2>4. Stream(InTransit', got', arrived') /\ got' <= arrived'
    BY <2>1, <2>2, <2>3
  <2>5. arrived' = gone' + Len(InTransit')
    BY <1>b, <2>1, <2>2, <2>3 DEF Flow
  <2> QED  BY <2>4, <2>5 DEF Flow
<1>12. CASE ClientPut \/ ClientReap \/ ClientReadEnd
  BY <1>12, <1>0 DEF ClientPut, ClientReap, ClientReadEnd, ClientOther, sharedVars
<1>13. CASE \/ \E k \in Kinds : ClientSubmit(k)
            \/ \E bit \in {"SQ", "CQ"} : ClientNotify(bit)
  BY <1>13, <1>0 DEF ClientSubmit, ClientNotify, ClientOther, sharedVars
<1>14. CASE UNCHANGED vars
  BY <1>14, <1>0 DEF vars, sharedVars, clientVars, histVars
<1> QED  BY <1>1, <1>2, <1>3, <1>4, <1>5, <1>6, <1>7, <1>8, <1>9, <1>10, <1>11, <1>12, <1>13, <1>14
         DEF Next, Driver, Setup, Direct, Device, Client

(* The parts of the type invariant, as operators of the values so that     *)
(* they can be said of a next state.                                       *)
DrvType ==
  [pc : {"idle", "bits", "irq", "ack", "drain", "push", "post", "sq", "fake", "tx", "sent"},
   bits : SUBSET {"IRQ", "CQ", "SQ"}, events : 0 .. EventBudget,
   left : Nat, txleft : 0 .. TxBudget, pushed : Nat,
   ret : {"idle", "irq", "ack", "bits", "tx", "fake"}]

CliType == [ask : SUBSET Kinds, put : BOOLEAN, owed : SUBSET {"SQ", "CQ"}, look : BOOLEAN]

HwOK(h) ==
  /\ h \in [fifo : Seq(Byte), timeout : BOOLEAN, overrun : BOOLEAN, ier : BOOLEAN]
  /\ Len(h.fifo) <= FifoSize

BuffersOK(s, r) ==
  /\ s \in Seq(Byte) /\ Len(s) <= SoftLimit
  /\ r \in Seq(Byte) /\ Len(r) <= RxRing

RequestsOK(n, s, c, l) ==
  /\ n \in 0 .. TxRing /\ s \in Seq(Kinds)
  /\ c \in Seq(Kinds) /\ Len(c) <= CqSize /\ l \subseteq Kinds

\* TypeOK split into the parts the steps below are about, before and after a step.
LEMMA TypeParts ==
  /\ TypeOK <=>
       /\ drv \in DrvType /\ cli \in CliType /\ HwOK(hw) /\ BuffersOK(sw, rxr)
       /\ RequestsOK(txr, sq, cq, lost) /\ reading \in BOOLEAN /\ cut \in BOOLEAN
       /\ up \subseteq {"shm", "ring"} /\ pend \subseteq {"IRQ", "CQ", "SQ"} /\ masked \in BOOLEAN
       /\ arrived \in 0 .. MaxBytes /\ gone \in 0 .. MaxBytes /\ got \in 0 .. MaxBytes
  /\ TypeOK' <=>
       /\ drv' \in DrvType /\ cli' \in CliType /\ HwOK(hw') /\ BuffersOK(sw', rxr')
       /\ RequestsOK(txr', sq', cq', lost') /\ reading' \in BOOLEAN /\ cut' \in BOOLEAN
       /\ up' \subseteq {"shm", "ring"} /\ pend' \subseteq {"IRQ", "CQ", "SQ"} /\ masked' \in BOOLEAN
       /\ arrived' \in 0 .. MaxBytes /\ gone' \in 0 .. MaxBytes /\ got' \in 0 .. MaxBytes
BY Zenon DEF TypeOK, DrvType, CliType, HwOK, BuffersOK, RequestsOK

(* What one turn of process_tx_ring sends: the least of three numbers.     *)
Least(a, b, c) == CHOOSE m \in {a, b, c} : \A k \in {a, b, c} : m <= k

\* What one turn sends is at most the chunk, the budget left and the bytes queued.
LEMMA TxShare ==
  ASSUME NEW a \in Nat, NEW b \in Nat, NEW c \in Nat
  PROVE  /\ Least(a, b, c) \in Nat
         /\ Least(a, b, c) <= a /\ Least(a, b, c) <= b /\ Least(a, b, c) <= c
<1>1. \E m \in {a, b, c} : \A k \in {a, b, c} : m <= k
  <2>1. CASE a <= b /\ a <= c
    BY <2>1
  <2>2. CASE b <= a /\ b <= c
    BY <2>2
  <2>3. CASE c <= a /\ c <= b
    BY <2>3
  <2> QED  BY <2>1, <2>2, <2>3
<1> QED  BY <1>1 DEF Least

(* Where the driver is, and its budgets.                                   *)
LEMMA DrvStep ==
  ASSUME TypeOK, [Next]_vars
  PROVE  drv' \in DrvType
<1>0. /\ drv \in DrvType /\ pend \subseteq {"IRQ", "CQ", "SQ"} /\ txr \in Nat
      /\ RxBudget \in Nat /\ Interleave \in Nat /\ TxBudget \in Nat /\ EventBudget \in Nat
      /\ TxChunk \in Nat /\ 0 \in 0 .. EventBudget /\ 0 \in 0 .. TxBudget
      /\ TxBudget \in 0 .. TxBudget
  BY TypeParts, UartAssumption, SMTT(20) DEF RequestsOK
<1> USE DEF DrvType
<1>1. CASE drv' = drv
  BY <1>0, <1>1
<1>2. ASSUME NEW p \in {"ack", "bits", "tx"} PROVE Flush(p) \in DrvType
  BY <1>0 DEF Flush
<1>3. CASE Recv \/ ServeDone
  BY <1>0, <1>3, ZenonT(30) DEF Recv, ServeDone
<1>4. CASE ServeIrq \/ ServeSq
  <2>1. drv' = [drv EXCEPT !.pc = "irq", !.bits = drv.bits \ {"IRQ"}, !.events = 0]
        \/ drv' = [drv EXCEPT !.pc = "sq", !.bits = {}]
    BY <1>4 DEF ServeIrq, ServeSq
  <2>2. drv.bits \ {"IRQ"} \in SUBSET {"IRQ", "CQ", "SQ"}
    BY <1>0
  <2> QED  BY <1>0, <2>1, <2>2
<1>5. CASE ServeCq
  <2>1. Flush("bits") \in DrvType /\ drv.bits \subseteq {"IRQ", "CQ", "SQ"}
    BY <1>0, <1>2
  <2>2. drv' = [Flush("bits") EXCEPT !.bits = Flush("bits").bits \ {"CQ"}]
    BY <1>5 DEF ServeCq
  <2> HIDE DEF Flush
  <2> QED  BY <2>1, <2>2
<1>6. CASE IrqEvent
  <2>1. drv.events \in 0 .. EventBudget /\ drv.events < EventBudget
    BY <1>0, <1>6 DEF IrqEvent
  <2>2. drv.events + 1 \in 0 .. EventBudget
    BY <1>0, <2>1
  <2> QED  BY <1>0, <1>6, <2>2 DEF IrqEvent, StartDrain
<1>7. CASE IrqEnd
  <2>1. Flush("ack") \in DrvType /\ drv' = [Flush("ack") EXCEPT !.events = 0]
    BY <1>2, <1>7 DEF IrqEnd
  <2> HIDE DEF Flush
  <2> QED  BY <1>0, <2>1
<1>8. CASE IrqAck \/ PushEnd \/ FakeRead \/ WriteDone
  BY <1>0, <1>8 DEF IrqAck, PushEnd, FakeRead, WriteDone
<1>9. CASE DrainByte
  <2>1. CASE drv' = [drv EXCEPT !.left = drv.left - 1] /\ drv.left > 0
    <3>1. drv.left - 1 \in Nat
      BY <1>0, <2>1
    <3> QED  BY <1>0, <2>1, <3>1
  <2> QED  BY <1>9, <1>1, <2>1 DEF DrainByte
<1>10. CASE DrainEnd
  <2> DEFINE d == IF drv.ret = "tx" /\ drv.left < Interleave
                     THEN Flush("tx") ELSE [drv EXCEPT !.pc = drv.ret]
  <2>1. drv.ret \in {"irq", "ack", "bits", "tx", "fake", "idle"}
    BY <1>0
  <2>2. [drv EXCEPT !.pc = drv.ret] \in DrvType
    BY <1>0, <2>1
  <2>3. d \in DrvType
    BY <1>2, <2>2
  <2>4. drv' = [d EXCEPT !.left = 0]
    BY <1>10 DEF DrainEnd
  <2> HIDE DEF d
  <2> QED  BY <2>3, <2>4
<1>11. CASE Push
  <2>1. PICK n \in Nat, p \in {"post", "push"} : drv' = [drv EXCEPT !.pushed = drv.pushed + n, !.pc = p]
    <3>1. Room \in Nat
      <4>1. Len(rxr) \in Nat /\ RxRing \in Nat /\ Len(rxr) <= RxRing
        BY TypeParts, UartAssumption, LenProperties DEF BuffersOK
      <4> QED  BY <4>1 DEF Room
    <3>2. PICK front \in 1 .. Len(sw) :
            LET n == IF front <= Room THEN front ELSE Room
            IN  drv' = [drv EXCEPT !.pushed = @ + n, !.pc = IF n < front THEN "post" ELSE "push"]
      BY <1>11 DEF Push
    <3> DEFINE n == IF front <= Room THEN front ELSE Room
    <3>3. n \in Nat /\ (IF n < front THEN "post" ELSE "push") \in {"post", "push"}
      BY <3>1
    <3> QED  BY <3>2, <3>3
  <2>2. drv.pushed + n \in Nat
    BY <1>0
  <2> QED  BY <1>0, <2>1, <2>2
<1>12. CASE Post
  <2>1. drv.ret \in {"irq", "ack", "bits", "tx", "fake", "idle"}
    BY <1>0
  <2> QED  BY <1>0, <1>12, <2>1 DEF Post
<1>13. CASE TakeWrite \/ TakeRead
  <2>1. CASE TakeWrite
    BY <1>0, <2>1 DEF TakeWrite
  <2>2. CASE TakeRead
    BY <1>0, <2>2 DEF TakeRead
  <2> QED  BY <1>13, <2>1, <2>2
<1>14. CASE SqEmpty
  BY <1>2, <1>14 DEF SqEmpty
<1>15. CASE TxSend
  <2> DEFINE n == Least(TxChunk, drv.txleft, txr)
  <2>1. drv' = [drv EXCEPT !.pc = "drain", !.left = Interleave, !.ret = "tx",
                           !.txleft = drv.txleft - n]
    BY <1>0, <1>15 DEF TxSend, StartDrain, Least
  <2>2. drv.txleft \in Nat /\ drv.txleft <= TxBudget
    BY <1>0
  <2>3. n \in Nat /\ n <= drv.txleft
    BY <1>0, <2>2, TxShare
  <2> HIDE DEF n
  <2>4. drv.txleft - n \in 0 .. TxBudget
    BY <1>0, <2>2, <2>3
  <2> QED  BY <1>0, <2>1, <2>4
<1>16. CASE TxEnd
  BY <1>0, <1>16 DEF TxEnd
<1>17. CASE TakeBad \/ SetupBuffer \/ SetupRing \/ CallRead \/ CallWrite \/ SetBaudRate
  BY <1>17, <1>1 DEF TakeBad, SetupBuffer, SetupRing, CallRead, CallWrite, SetBaudRate, Idle
<1>18. CASE Arrive \/ Timeout \/ KernelIrq
  BY <1>18, <1>1 DEF Arrive, Timeout, KernelIrq
<1>19. CASE Client \/ UNCHANGED vars
  BY <1>19, <1>1 DEF Client, ClientPut, ClientReap, ClientRead, ClientReadEnd, ClientSubmit,
                     ClientNotify, ClientOther, vars
<1> QED  BY <1>3, <1>4, <1>5, <1>6, <1>7, <1>8, <1>9, <1>10, <1>11, <1>12, <1>13, <1>14, <1>15,
            <1>16, <1>17, <1>18, <1>19
         DEF Next, Driver, Setup, Direct, Device

(* The device's registers and receive FIFO.                                *)
LEMMA HwStep ==
  ASSUME TypeOK, [Next]_vars
  PROVE  HwOK(hw') /\ arrived' \in 0 .. MaxBytes
<1>0. /\ HwOK(hw) /\ arrived \in 0 .. MaxBytes /\ MaxBytes \in Nat /\ FifoSize \in Nat
      /\ hw.fifo \in Seq(Byte) /\ Len(hw.fifo) \in Nat /\ Len(hw.fifo) <= FifoSize
  BY TypeParts, UartAssumption, LenProperties DEF HwOK
<1> USE DEF HwOK
<1>1. CASE UNCHANGED <<hw, arrived>>
  BY <1>0, <1>1
<1>2. CASE hw' = ReadLsr(hw) /\ arrived' = arrived
  BY <1>0, <1>2 DEF ReadLsr
<1>4. CASE DrainByte
  <2>1. /\ hw.fifo # << >> /\ arrived' = arrived
        /\ hw' = [ReadLsr(hw) EXCEPT !.fifo = Tail(hw.fifo), !.timeout = FALSE]
    BY <1>0, <1>4 DEF DrainByte, ReadLsr
  <2>2. Tail(hw.fifo) \in Seq(Byte) /\ Len(Tail(hw.fifo)) <= FifoSize
    BY <1>0, <2>1, HeadTailProperties
  <2> QED  BY <1>0, <2>1, <2>2 DEF ReadLsr
<1>5. CASE CallRead
  <2>1. PICK n \in 1 .. Len(hw.fifo) :
          hw' = [ReadLsr(hw) EXCEPT !.fifo = SubSeq(hw.fifo, n + 1, Len(hw.fifo)), !.timeout = FALSE]
    BY <1>0, <1>5 DEF CallRead, ReadLsr
  <2> DEFINE f == SubSeq(hw.fifo, n + 1, Len(hw.fifo))
  <2>2. f \in Seq(Byte) /\ Len(f) <= FifoSize
    <3>1. n \in 0 .. Len(hw.fifo)
      BY <1>0
    <3> QED  BY <1>0, <3>1, Rest
  <2>3. arrived' = arrived
    BY <1>5 DEF CallRead, Idle
  <2> HIDE DEF f
  <2> QED  BY <1>0, <2>1, <2>2, <2>3 DEF ReadLsr, f
<1>6. CASE SetBaudRate
  <2>1. hw' = [hw EXCEPT !.ier = FALSE, !.fifo = << >>, !.timeout = FALSE] /\ arrived' = arrived
    BY <1>6 DEF SetBaudRate, Idle
  <2>2. << >> \in Seq(Byte) /\ Len(<< >>) <= FifoSize
    BY <1>0, EmptySeq
  <2> QED  BY <1>0, <2>1, <2>2
<1>7. CASE Arrive
  <2>1. arrived + 1 \in Byte /\ arrived' = arrived + 1 /\ arrived' \in 0 .. MaxBytes
    BY <1>0, <1>7 DEF Arrive, Byte
  <2>2. CASE /\ Len(hw.fifo) < FifoSize
             /\ hw' = [hw EXCEPT !.fifo = Append(hw.fifo, arrived + 1), !.timeout = FALSE]
    <3> DEFINE f == Append(hw.fifo, arrived + 1)
    <3>1. f \in Seq(Byte) /\ Len(f) = Len(hw.fifo) + 1
      BY <1>0, <2>1, AppendProperties
    <3>2. Len(f) <= FifoSize
      BY <1>0, <2>2, <3>1
    <3> HIDE DEF f
    <3> QED  BY <1>0, <2>1, <2>2, <3>1, <3>2 DEF f
  <2>3. CASE hw' = [hw EXCEPT !.overrun = TRUE]
    BY <1>0, <2>1, <2>3
  <2> QED  BY <1>7, <2>2, <2>3 DEF Arrive
<1>8. CASE Timeout
  BY <1>0, <1>8 DEF Timeout
<1>9. CASE IrqEvent \/ DrainEnd \/ TxSend \/ CallWrite
  BY <1>9, <1>2 DEF IrqEvent, DrainEnd, TxSend, CallWrite, Idle
<1>10. CASE Recv \/ ServeIrq \/ ServeCq \/ ServeSq \/ ServeDone \/ IrqEnd \/ IrqAck
  BY <1>10, <1>1 DEF Recv, ServeIrq, ServeCq, ServeSq, ServeDone, Serve, IrqEnd, IrqAck
<1>11. CASE Push \/ PushEnd \/ Post \/ TakeWrite \/ TakeRead \/ TakeBad \/ FakeRead
  BY <1>11, <1>1 DEF Push, PushEnd, Post, TakeWrite, TakeRead, TakeBad, Take, FakeRead
<1>12. CASE SqEmpty \/ TxEnd \/ WriteDone \/ SetupBuffer \/ SetupRing \/ KernelIrq
  BY <1>12, <1>1 DEF SqEmpty, TxEnd, WriteDone, SetupBuffer, SetupRing, Idle, KernelIrq
<1>13. CASE Client \/ UNCHANGED vars
  BY <1>13, <1>1 DEF Client, ClientPut, ClientReap, ClientRead, ClientReadEnd, ClientSubmit,
                     ClientNotify, ClientOther, vars
<1> QED  BY <1>4, <1>5, <1>6, <1>7, <1>8, <1>9, <1>10, <1>11, <1>12, <1>13
         DEF Next, Driver, Setup, Direct, Device

(* The driver's buffer and the ring of received bytes.                     *)
LEMMA BuffersStep ==
  ASSUME TypeOK, [Next]_vars
  PROVE  BuffersOK(sw', rxr') /\ got' \in 0 .. MaxBytes
<1>0. /\ BuffersOK(sw, rxr) /\ got \in 0 .. MaxBytes
      /\ sw \in Seq(Byte) /\ Len(sw) \in Nat /\ Len(sw) <= SoftLimit
      /\ rxr \in Seq(Byte) /\ Len(rxr) \in Nat /\ Len(rxr) <= RxRing
      /\ SoftLimit \in Nat /\ RxRing \in Nat /\ MaxBytes \in Nat
  BY TypeParts, UartAssumption, LenProperties DEF BuffersOK
<1>1. CASE UNCHANGED <<sw, rxr, got>>
  BY <1>0, <1>1
<1>2. CASE DrainByte
  <2>1. UNCHANGED <<rxr, got>> /\ hw.fifo # << >> /\ hw.fifo \in Seq(Byte)
    BY <1>2, TypeParts DEF DrainByte, sharedVars, clientVars, HwOK
  <2>2. CASE Len(sw) < SoftLimit /\ sw' = Append(sw, Head(hw.fifo))
    <3>1. Head(hw.fifo) \in Byte
      BY <2>1, HeadTailProperties
    <3>2. sw' \in Seq(Byte) /\ Len(sw') = Len(sw) + 1
      BY <1>0, <2>2, <3>1, AppendProperties
    <3> QED  BY <1>0, <2>1, <2>2, <3>2 DEF BuffersOK
  <2>3. CASE sw' = sw
    BY <1>0, <2>1, <2>3
  <2> QED  BY <1>2, <2>2, <2>3 DEF DrainByte, Fits
<1>3. CASE Push
  <2>1. PICK n \in Nat : /\ n <= Len(sw) /\ Len(rxr) + n <= RxRing
                         /\ rxr' = rxr \o SubSeq(sw, 1, n)
                         /\ sw' = SubSeq(sw, n + 1, Len(sw))
    <3>1. Room > 0 /\ Room \in Nat /\ Len(rxr) + Room = RxRing
      <4>1. Room > 0
        BY <1>3 DEF Push
      <4> QED  BY <1>0, <4>1 DEF Room
    <3>2. PICK front \in 1 .. Len(sw) :
            LET n == IF front <= Room THEN front ELSE Room
            IN  /\ rxr' = rxr \o SubSeq(sw, 1, n)
                /\ sw' = SubSeq(sw, n + 1, Len(sw))
      BY <1>3 DEF Push
    <3> DEFINE n == IF front <= Room THEN front ELSE Room
    <3>3. n \in Nat /\ n <= Len(sw) /\ Len(rxr) + n <= RxRing
      BY <1>0, <3>1
    <3> QED  BY <3>2, <3>3
  <2> DEFINE f == SubSeq(sw, 1, n)
  <2>2. n \in 0 .. Len(sw)
    BY <1>0, <2>1
  <2>3. f \in Seq(Byte) /\ Len(f) = n
    BY <1>0, <2>2, FrontRest
  <2>4. sw' \in Seq(Byte) /\ Len(sw') = Len(sw) - n
    BY <1>0, <2>1, <2>2, Rest
  <2> HIDE DEF f
  <2>5. rxr' \in Seq(Byte) /\ Len(rxr') = Len(rxr) + n
    BY <1>0, <2>1, <2>3, ConcatProperties DEF f
  <2>6. got' = got
    BY <1>3 DEF Push, clientVars
  <2> QED  BY <1>0, <2>1, <2>4, <2>5, <2>6 DEF BuffersOK
<1>4. CASE ClientRead
  <2>1. rxr # << >> /\ rxr' = Tail(rxr) /\ got' = Head(rxr) /\ sw' = sw
    BY <1>4 DEF ClientRead, ClientOther
  <2>2. Head(rxr) \in Byte /\ Tail(rxr) \in Seq(Byte) /\ Len(Tail(rxr)) = Len(rxr) - 1
    BY <1>0, <2>1, HeadTailProperties
  <2> QED  BY <1>0, <2>1, <2>2 DEF BuffersOK, Byte
<1>5. CASE Recv \/ ServeIrq \/ ServeCq \/ ServeSq \/ ServeDone \/ IrqEnd \/ IrqAck
  BY <1>5, <1>1 DEF Recv, ServeIrq, ServeCq, ServeSq, ServeDone, Serve, IrqEnd, IrqAck,
                    sharedVars, clientVars
<1>6. CASE IrqEvent \/ DrainEnd \/ PushEnd \/ Post \/ TakeWrite \/ TakeRead \/ TakeBad \/ FakeRead
  BY <1>6, <1>1 DEF IrqEvent, DrainEnd, PushEnd, Post, TakeWrite, TakeRead, TakeBad, Take, FakeRead,
                    sharedVars, clientVars
<1>7. CASE SqEmpty \/ TxSend \/ TxEnd \/ WriteDone
  BY <1>7, <1>1 DEF SqEmpty, TxSend, TxEnd, WriteDone, sharedVars, clientVars
<1>8. CASE Setup \/ Direct
  BY <1>8, <1>1 DEF Setup, SetupBuffer, SetupRing, Direct, CallRead, CallWrite, SetBaudRate, Idle,
                    sharedVars, clientVars
<1>9. CASE Device \/ KernelIrq \/ UNCHANGED vars
  BY <1>9, <1>1 DEF Device, Arrive, Timeout, KernelIrq, vars, sharedVars, clientVars
<1>10. CASE ClientPut \/ ClientReap \/ ClientReadEnd
  BY <1>10, <1>1 DEF ClientPut, ClientReap, ClientReadEnd, ClientOther, sharedVars
<1>11. CASE \/ \E k \in Kinds : ClientSubmit(k)
            \/ \E bit \in {"SQ", "CQ"} : ClientNotify(bit)
  BY <1>11, <1>1 DEF ClientSubmit, ClientNotify, ClientOther, sharedVars
<1> QED  BY <1>2, <1>3, <1>4, <1>5, <1>6, <1>7, <1>8, <1>9, <1>10, <1>11
         DEF Next, Driver, Client

(* Requests, completions and bytes to send.                                *)
LEMMA CompleteType ==
  ASSUME TypeOK, NEW k \in Kinds, Complete(k)
  PROVE  cq' \in Seq(Kinds) /\ Len(cq') <= CqSize /\ lost' \subseteq Kinds
<1>1. /\ cq \in Seq(Kinds) /\ Len(cq) \in Nat /\ Len(cq) <= CqSize /\ CqSize \in Nat
      /\ lost \subseteq Kinds
  BY UartAssumption, LenProperties DEF TypeOK
<1>2. CASE Len(cq) < CqSize
  <2>1. cq' = Append(cq, k) /\ lost' = lost
    BY <1>2 DEF Complete
  <2>2. cq' \in Seq(Kinds) /\ Len(cq') = Len(cq) + 1
    BY <1>1, <2>1, AppendProperties
  <2> QED  BY <1>1, <1>2, <2>1, <2>2
<1>3. CASE ~(Len(cq) < CqSize)
  BY <1>1, <1>3 DEF Complete
<1> QED  BY <1>2, <1>3

\* Every step keeps the request rings and the flags of the calls typed.
LEMMA RequestsStep ==
  ASSUME TypeOK, [Next]_vars
  PROVE  RequestsOK(txr', sq', cq', lost') /\ reading' \in BOOLEAN /\ cut' \in BOOLEAN
<1> DEFINE Rest1 == reading' \in BOOLEAN /\ cut' \in BOOLEAN
           Goal == RequestsOK(txr', sq', cq', lost') /\ Rest1
<1>0. /\ txr \in 0 .. TxRing /\ sq \in Seq(Kinds) /\ reading \in BOOLEAN /\ cut \in BOOLEAN
      /\ cq \in Seq(Kinds) /\ Len(cq) <= CqSize /\ lost \subseteq Kinds /\ TxRing \in Nat
      /\ Len(cq) \in Nat
  BY UartAssumption, LenProperties DEF TypeOK
<1>1. CASE UNCHANGED <<txr, sq, cq, lost, reading, cut>>
  BY <1>0, <1>1 DEF RequestsOK
<1>2. ASSUME NEW k \in Kinds, Complete(k), UNCHANGED <<txr, sq, reading, cut>> PROVE Goal
  BY <1>0, <1>2, CompleteType DEF RequestsOK
<1>3. CASE Post
  BY <1>1, <1>2, <1>3 DEF Post, Kinds
<1>4. CASE FakeRead \/ WriteDone
  BY <1>2, <1>4 DEF FakeRead, WriteDone, Kinds
<1>5. ASSUME NEW k, Take(k), sq' = Tail(sq) PROVE sq' \in Seq(Kinds) /\ UNCHANGED <<txr, cut>>
  BY <1>0, <1>5, HeadTailProperties DEF Take
<1>6. CASE TakeWrite \/ TakeRead
  BY <1>0, <1>5, <1>6 DEF TakeWrite, TakeRead, Take, RequestsOK
<1>7. CASE TakeBad
  <2>1. Complete("bad") /\ "bad" \in Kinds /\ reading' = reading
    BY <1>7 DEF TakeBad, Kinds
  <2>2. sq' \in Seq(Kinds) /\ UNCHANGED <<txr, cut>>
    BY <1>5, <1>7 DEF TakeBad, Take
  <2>3. cq' \in Seq(Kinds) /\ Len(cq') <= CqSize /\ lost' \subseteq Kinds
    BY <2>1, CompleteType
  <2> QED  BY <1>0, <2>1, <2>2, <2>3 DEF RequestsOK
<1>8. CASE TxSend
  <2> DEFINE n == Least(TxChunk, drv.txleft, txr)
  <2>1. txr' = txr - n /\ UNCHANGED <<sq, cq, lost, reading, cut>>
    BY <1>8 DEF TxSend, Least, histVars
  <2>2. TxChunk \in Nat /\ drv.txleft \in Nat /\ txr \in Nat
    <3>1. TxBudget \in Nat /\ drv.txleft \in 0 .. TxBudget
      BY TypeParts, UartAssumption DEF DrvType
    <3> QED  BY <1>0, <3>1, UartAssumption
  <2>3. n \in Nat /\ n <= txr
    BY <2>2, TxShare
  <2> HIDE DEF n
  <2>4. txr' \in 0 .. TxRing
    BY <1>0, <2>1, <2>2, <2>3
  <2> QED  BY <1>0, <2>1, <2>4 DEF RequestsOK
<1>9. CASE TxEnd
  BY <1>0, <1>9 DEF TxEnd, sharedVars, RequestsOK
<1>10. CASE ClientPut
  BY <1>0, <1>10 DEF ClientPut, ClientOther, RequestsOK
<1>11. CASE ClientReap
  <2>1. cq # << >> /\ cq' = Tail(cq) /\ UNCHANGED <<txr, sq, lost, reading, cut>>
    BY <1>11 DEF ClientReap, ClientOther
  <2>2. cq' \in Seq(Kinds) /\ Len(cq') = Len(cq) - 1
    BY <1>0, <2>1, HeadTailProperties
  <2>3. CqSize \in Nat
    BY UartAssumption
  <2> QED  BY <1>0, <2>1, <2>2, <2>3 DEF RequestsOK
<1>12. CASE \E k \in Kinds : ClientSubmit(k)
  <2>1. PICK k \in Kinds : ClientSubmit(k)
    BY <1>12
  <2>2. sq' \in Seq(Kinds)
    BY <1>0, <2>1, AppendProperties DEF ClientSubmit
  <2> QED  BY <1>0, <2>1, <2>2 DEF ClientSubmit, ClientOther, RequestsOK
<1>13. CASE \E bit \in {"SQ", "CQ"} : ClientNotify(bit)
  BY <1>13, <1>1 DEF ClientNotify, ClientOther, sharedVars
<1>14. CASE ClientRead \/ ClientReadEnd
  BY <1>14, <1>1 DEF ClientRead, ClientReadEnd, ClientOther, sharedVars
<1>15. CASE Recv \/ ServeIrq \/ ServeCq \/ ServeSq \/ ServeDone \/ IrqEnd \/ IrqAck
  BY <1>15, <1>1 DEF Recv, ServeIrq, ServeCq, ServeSq, ServeDone, Serve, IrqEnd, IrqAck,
                     sharedVars, histVars
<1>16. CASE IrqEvent \/ DrainByte \/ DrainEnd \/ Push \/ PushEnd \/ SqEmpty
  BY <1>16, <1>1 DEF IrqEvent, DrainByte, DrainEnd, Push, PushEnd, SqEmpty, sharedVars, histVars
<1>17. CASE Setup \/ Direct
  BY <1>17, <1>1 DEF Setup, SetupBuffer, SetupRing, Direct, CallRead, CallWrite, SetBaudRate, Idle,
                     sharedVars
<1>18. CASE Device \/ KernelIrq \/ UNCHANGED vars
  BY <1>18, <1>1 DEF Device, Arrive, Timeout, KernelIrq, vars, sharedVars, histVars
<1> QED  BY <1>3, <1>4, <1>6, <1>7, <1>8, <1>9, <1>10, <1>11, <1>12, <1>13, <1>14, <1>15, <1>16,
            <1>17, <1>18
         DEF Next, Driver, Client

(* What is set up, the signals, and the client.                            *)
LEMMA OthersStep ==
  ASSUME TypeOK, [Next]_vars
  PROVE  /\ up' \subseteq {"shm", "ring"} /\ pend' \subseteq {"IRQ", "CQ", "SQ"}
         /\ masked' \in BOOLEAN /\ cli' \in CliType
<1>0. /\ up \subseteq {"shm", "ring"} /\ pend \subseteq {"IRQ", "CQ", "SQ"}
      /\ masked \in BOOLEAN /\ cli \in CliType
  BY TypeParts
<1>1. CASE UNCHANGED <<up, pend, masked, cli>>
  BY <1>0, <1>1
<1>2. CASE Recv \/ IrqAck \/ KernelIrq
  BY <1>0, <1>2 DEF Recv, IrqAck, KernelIrq, clientVars
<1>3. CASE Setup
  BY <1>0, <1>3 DEF Setup, SetupBuffer, SetupRing, Idle, kernelVars
<1>4. CASE ClientPut
  BY <1>0, <1>4 DEF ClientPut, ClientOther, CliType
<1>5. ASSUME NEW k \in Kinds, ClientSubmit(k) PROVE cli' \in CliType /\ UNCHANGED <<up, pend, masked>>
  <2> DEFINE put == cli.put /\ k # "write"
  <2>1. cli' = [cli EXCEPT !.ask = cli.ask \cup {k}, !.put = put, !.owed = cli.owed \cup {"SQ"}]
    BY <1>5 DEF ClientSubmit
  <2>2. put \in BOOLEAN
    OBVIOUS
  <2>3. UNCHANGED <<up, pend, masked>>
    BY <1>5 DEF ClientSubmit, ClientOther
  <2> HIDE DEF put
  <2>4. cli' \in CliType
    BY <1>0, <2>1, <2>2 DEF CliType
  <2> QED  BY <2>3, <2>4
<1>6. ASSUME NEW bit \in {"SQ", "CQ"}, ClientNotify(bit)
      PROVE  cli' \in CliType /\ pend' \subseteq {"IRQ", "CQ", "SQ"} /\ UNCHANGED <<up, masked>>
  BY <1>0, <1>6 DEF ClientNotify, ClientOther, CliType
<1>7. CASE ClientReap
  <2> DEFINE look == Head(cq) = "read"
  <2>1. cli' = [cli EXCEPT !.ask = cli.ask \ {Head(cq)}, !.look = look,
                           !.owed = cli.owed \cup {"CQ"}]
    BY <1>7 DEF ClientReap
  <2>2. look \in BOOLEAN
    OBVIOUS
  <2>3. UNCHANGED <<up, pend, masked>>
    BY <1>7 DEF ClientReap, ClientOther
  <2> HIDE DEF look
  <2>4. cli' \in CliType
    BY <1>0, <2>1, <2>2 DEF CliType
  <2> QED  BY <1>0, <2>3, <2>4
<1>8. CASE ClientRead \/ ClientReadEnd
  BY <1>0, <1>8 DEF ClientRead, ClientReadEnd, ClientOther, CliType
<1>9. CASE ServeIrq \/ ServeCq \/ ServeSq \/ ServeDone \/ IrqEnd \/ IrqEvent \/ DrainByte \/ DrainEnd
  BY <1>9, <1>1 DEF ServeIrq, ServeCq, ServeSq, ServeDone, Serve, IrqEnd, IrqEvent, DrainByte,
                    DrainEnd, kernelVars, clientVars
<1>10. CASE Push \/ PushEnd \/ Post \/ TakeWrite \/ TakeRead \/ TakeBad \/ FakeRead
  BY <1>10, <1>1 DEF Push, PushEnd, Post, TakeWrite, TakeRead, TakeBad, Take, FakeRead,
                     kernelVars, clientVars
<1>11. CASE SqEmpty \/ TxSend \/ TxEnd \/ WriteDone
  BY <1>11, <1>1 DEF SqEmpty, TxSend, TxEnd, WriteDone, kernelVars, clientVars
<1>12. CASE Direct \/ Device \/ UNCHANGED vars
  BY <1>12, <1>1 DEF Direct, CallRead, CallWrite, SetBaudRate, Idle, Device, Arrive, Timeout, vars,
                     kernelVars, clientVars
<1> QED  BY <1>0, <1>2, <1>3, <1>4, <1>5, <1>6, <1>7, <1>8, <1>9, <1>10, <1>11, <1>12
         DEF Next, Driver, Client

\* Every step keeps the types, given the order of the bytes after it.
LEMMA TypeStep ==
  ASSUME TypeOK, Flow', [Next]_vars
  PROVE  TypeOK'
<1>1. /\ drv' \in DrvType /\ cli' \in CliType /\ HwOK(hw') /\ BuffersOK(sw', rxr')
      /\ RequestsOK(txr', sq', cq', lost') /\ reading' \in BOOLEAN /\ cut' \in BOOLEAN
      /\ up' \subseteq {"shm", "ring"} /\ pend' \subseteq {"IRQ", "CQ", "SQ"} /\ masked' \in BOOLEAN
      /\ arrived' \in 0 .. MaxBytes /\ got' \in 0 .. MaxBytes
  BY DrvStep, HwStep, BuffersStep, RequestsStep, OthersStep
<1>2. gone' \in Nat
  <2>1. gone \in Nat /\ Len(hw.fifo) \in Nat
    BY Bytes, LenProperties
  <2>2. CASE gone' = gone \/ gone' = gone + 1
    BY <2>1, <2>2
  <2>3. CASE CallRead \/ SetBaudRate
    <3>1. \E n \in 0 .. Len(hw.fifo) : gone' = gone + n
      <4>1. Len(hw.fifo) \in 0 .. Len(hw.fifo) /\ \A n \in 1 .. Len(hw.fifo) : n \in 0 .. Len(hw.fifo)
        BY <2>1
      <4>2. CASE CallRead
        <5>1. PICK n \in 1 .. Len(hw.fifo) : gone' = gone + n
          BY <4>2 DEF CallRead
        <5> QED  BY <4>1, <5>1
      <4>3. CASE SetBaudRate
        <5>1. gone' = gone + Len(hw.fifo)
          BY <4>3 DEF SetBaudRate
        <5> QED  BY <4>1, <5>1
      <4> QED  BY <2>3, <4>2, <4>3
    <3> QED  BY <2>1, <3>1
  <2>4. CASE Driver
    <3>1. CASE Recv \/ ServeIrq \/ ServeCq \/ ServeSq \/ ServeDone
      BY <2>2, <3>1 DEF Recv, ServeIrq, ServeCq, ServeSq, ServeDone, Serve, histVars
    <3>2. CASE IrqEvent \/ IrqEnd \/ IrqAck \/ DrainByte \/ DrainEnd \/ Push \/ PushEnd
      BY <2>2, <3>2 DEF IrqEvent, IrqEnd, IrqAck, DrainByte, DrainEnd, Push, PushEnd, histVars
    <3>3. CASE Post \/ TakeWrite \/ TakeRead \/ TakeBad \/ FakeRead
      BY <2>2, <3>3 DEF Post, TakeWrite, TakeRead, TakeBad, Take, FakeRead
    <3>4. CASE SqEmpty \/ TxSend \/ TxEnd \/ WriteDone
      BY <2>2, <3>4 DEF SqEmpty, TxSend, TxEnd, WriteDone, histVars
    <3> QED  BY <2>4, <3>1, <3>2, <3>3, <3>4 DEF Driver
  <2>5. CASE Setup \/ CallWrite \/ Timeout \/ KernelIrq \/ UNCHANGED vars
    <3>1. CASE Setup \/ CallWrite
      BY <2>2, <3>1 DEF Setup, SetupBuffer, SetupRing, CallWrite
    <3>2. CASE Timeout \/ KernelIrq
      BY <2>2, <3>2 DEF Timeout, KernelIrq, histVars
    <3>3. CASE UNCHANGED vars
      BY <2>2, <3>3 DEF vars, histVars
    <3> QED  BY <2>5, <3>1, <3>2, <3>3
  <2>6. CASE Arrive
    BY <2>2, <2>6 DEF Arrive
  <2>7. CASE Client
    BY <2>2, <2>7 DEF Client, ClientPut, ClientReap, ClientRead, ClientReadEnd, ClientSubmit,
                      ClientNotify
  <2> QED  BY <2>3, <2>4, <2>5, <2>6, <2>7 DEF Next, Direct, Device
<1>3. gone' \in 0 .. MaxBytes
  <2>1. Len(InTransit') \in Nat
    <3>1. rxr' \in Seq(Byte) /\ sw' \in Seq(Byte) /\ hw'.fifo \in Seq(Byte)
      BY <1>1 DEF BuffersOK, HwOK
    <3>2. InTransit' = Join(rxr', sw', hw'.fifo)
      BY DEF InTransit, Join, Cat
    <3> QED  BY <3>1, <3>2, JoinType
  <2>2. arrived' = gone' + Len(InTransit') /\ MaxBytes \in Nat
    BY UartAssumption DEF Flow
  <2> HIDE DEF InTransit
  <2> QED  BY <1>1, <1>2, <2>1, <2>2
<1> QED  BY <1>1, <1>3, TypeParts

(* Every variable keeps its type, and every buffer and ring its capacity.  *)
THEOREM TypeCorrect == Spec => []TypeOK
<1>1. Init => TypeOK /\ Flow
  BY TypeInit
<1>2. TypeOK /\ Flow /\ [Next]_vars => TypeOK' /\ Flow'
  BY FlowStep, TypeStep DEF TFInv
<1> QED  BY <1>1, <1>2, PTL DEF Spec

(* TypeOK and Flow together, for the theorems that follow.                 *)
THEOREM FlowCorrect == Spec => []TFInv
<1>1. Init => TFInv
  BY TypeInit DEF TFInv
<1>2. TFInv /\ [Next]_vars => TFInv'
  BY FlowStep, TypeStep DEF TFInv
<1> QED  BY <1>1, <1>2, PTL DEF Spec

(* No received byte is duplicated, overtaken or lost without a reason.     *)
THEOREM BytesTheorem == Spec => []BytesInOrder
<1>1. TFInv => BytesInOrder
  <2> SUFFICES ASSUME TFInv PROVE BytesInOrder
    OBVIOUS
  <2>1. /\ InTransit \in Seq(Nat) /\ Len(InTransit) \in Nat /\ got \in Nat
        /\ Stream(InTransit, got, arrived) /\ arrived = gone + Len(InTransit)
    BY Bytes DEF TFInv, Flow
  <2>2. \A i \in 1 .. Len(InTransit) : InTransit[i] \in Nat
    BY <2>1, ElementOfSeq
  <2> HIDE DEF InTransit
  <2>3. \A i \in 1 .. Len(InTransit) : InTransit[i] > got
    BY <2>1, <2>2 DEF Stream
  <2>4. \A i \in 1 .. Len(InTransit) - 1 :
          i \in 1 .. Len(InTransit) /\ i + 1 \in 1 .. Len(InTransit) /\ i < i + 1
    BY <2>1
  <2>5. \A i \in 1 .. Len(InTransit) - 1 : InTransit[i] < InTransit[i + 1]
    BY <2>1, <2>4 DEF Stream
  <2> QED  BY <2>1, <2>3, <2>5 DEF BytesInOrder
<1> QED  BY <1>1, FlowCorrect, PTL

-----------------------------------------------------------------------------
(* What a step does to the place where the driver is.                      *)

Keeps == drv'.bits = drv.bits

\* The driver goes on at p, by way of process_rx_ring if something is buffered.
GoesOn(p) ==
  \/ sw = << >> /\ drv'.pc = p
  \/ sw # << >> /\ drv'.pc = "push" /\ drv'.pushed = 0 /\ drv'.ret = p

\* Where each step of the interrupt path and of the drain loop takes the server.
LEMMA Moves ==
  ASSUME TypeOK
  PROVE  /\ Recv => drv.pc = "idle" /\ drv'.pc = "bits" /\ drv'.bits = pend
         /\ ServeIrq => drv.pc = "bits" /\ drv'.pc = "irq" /\ drv'.bits = drv.bits \ {"IRQ"}
         /\ ServeCq => /\ drv.pc = "bits" /\ "IRQ" \notin drv.bits
                       /\ GoesOn("bits") /\ drv'.bits = drv.bits \ {"CQ"}
         /\ ServeSq => drv.pc = "bits" /\ drv.bits = {"SQ"} /\ drv'.pc = "sq" /\ drv'.bits = {}
         /\ ServeDone => drv.pc = "bits" /\ drv.bits = {} /\ drv'.pc = "idle" /\ drv'.bits = {}
         /\ IrqEvent => drv.pc = "irq" /\ drv'.pc = "drain" /\ drv'.ret = "irq" /\ Keeps
         /\ IrqEnd => drv.pc = "irq" /\ GoesOn("ack") /\ Keeps
         /\ IrqAck => drv.pc = "ack" /\ drv'.pc = "bits" /\ Keeps
         /\ DrainByte => drv.pc = "drain" /\ drv'.pc = "drain" /\ drv'.ret = drv.ret /\ Keeps
         /\ DrainEnd => /\ drv.pc = "drain" /\ Keeps
                        /\ drv'.pc = drv.ret \/ (drv.ret = "tx" /\ GoesOn("tx"))
<1>0. drv \in DrvType
  BY TypeParts
<1> USE DEF DrvType, Keeps, GoesOn
<1>1. Recv => drv.pc = "idle" /\ drv'.pc = "bits" /\ drv'.bits = pend
  BY <1>0 DEF Recv
<1>2. ServeIrq => drv.pc = "bits" /\ drv'.pc = "irq" /\ drv'.bits = drv.bits \ {"IRQ"}
  BY <1>0 DEF ServeIrq, Serve
<1>3. ServeCq => /\ drv.pc = "bits" /\ "IRQ" \notin drv.bits
                 /\ GoesOn("bits") /\ drv'.bits = drv.bits \ {"CQ"}
  BY <1>0 DEF ServeCq, Serve, Flush
<1>4. ServeSq => drv.pc = "bits" /\ drv.bits = {"SQ"} /\ drv'.pc = "sq" /\ drv'.bits = {}
  BY <1>0 DEF ServeSq, Serve
<1>5. ServeDone => drv.pc = "bits" /\ drv.bits = {} /\ drv'.pc = "idle" /\ drv'.bits = {}
  BY <1>0 DEF ServeDone
<1>6. IrqEvent => drv.pc = "irq" /\ drv'.pc = "drain" /\ drv'.ret = "irq" /\ Keeps
  BY <1>0 DEF IrqEvent, StartDrain
<1>7. IrqEnd => drv.pc = "irq" /\ GoesOn("ack") /\ Keeps
  BY <1>0 DEF IrqEnd, Flush
<1>8. IrqAck => drv.pc = "ack" /\ drv'.pc = "bits" /\ Keeps
  BY <1>0 DEF IrqAck
<1>9. DrainByte => drv.pc = "drain" /\ drv'.pc = "drain" /\ drv'.ret = drv.ret /\ Keeps
  BY <1>0 DEF DrainByte
<1>10. DrainEnd => /\ drv.pc = "drain" /\ Keeps
                   /\ drv'.pc = drv.ret \/ (drv.ret = "tx" /\ GoesOn("tx"))
  BY <1>0 DEF DrainEnd, Flush
<1> QED  BY <1>1, <1>2, <1>3, <1>4, <1>5, <1>6, <1>7, <1>8, <1>9, <1>10

\* Where each step of a push, of a request and of a transmission takes the server.
LEMMA MovesOn ==
  ASSUME TypeOK
  PROVE  /\ Push => /\ drv.pc = "push" /\ drv'.pc \in {"push", "post"} /\ drv'.ret = drv.ret
                    /\ drv'.pushed > 0 /\ Keeps
         /\ PushEnd => /\ drv.pc = "push" /\ drv'.pc = "post" /\ drv'.ret = drv.ret
                       /\ drv'.pushed = drv.pushed /\ Keeps
         /\ Post => drv.pc = "post" /\ drv'.pc = drv.ret /\ Keeps
         /\ TakeWrite => drv.pc = "sq" /\ drv'.pc = "tx" /\ Keeps
         /\ TakeRead => drv.pc = "sq" /\ drv'.pc = "push" /\ drv'.ret = "fake" /\ Keeps
         /\ TakeBad => drv.pc = "sq" /\ drv' = drv
         /\ FakeRead => drv.pc = "fake" /\ drv'.pc = "sq" /\ Keeps
         /\ SqEmpty => drv.pc = "sq" /\ sq = << >> /\ GoesOn("bits") /\ Keeps
         /\ TxSend => drv.pc = "tx" /\ drv'.pc = "drain" /\ drv'.ret = "tx" /\ Keeps
         /\ TxEnd => drv.pc = "tx" /\ drv'.pc = "sent" /\ Keeps
         /\ WriteDone => drv.pc = "sent" /\ drv'.pc = "sq" /\ Keeps
<1>0. drv \in DrvType
  BY TypeParts
<1> USE DEF DrvType, Keeps, GoesOn
<1>1. Push => /\ drv.pc = "push" /\ drv'.pc \in {"push", "post"} /\ drv'.ret = drv.ret
              /\ drv'.pushed > 0 /\ Keeps
  <2> SUFFICES ASSUME Push
               PROVE  /\ drv.pc = "push" /\ drv'.pc \in {"push", "post"} /\ drv'.ret = drv.ret
                      /\ drv'.pushed > 0 /\ Keeps
    OBVIOUS
  <2>1. PICK n \in Nat \ {0}, p \in {"post", "push"} :
          drv' = [drv EXCEPT !.pushed = drv.pushed + n, !.pc = p]
    <3>1. Room > 0 /\ Room \in Int
      <4>1. Len(rxr) \in Nat /\ RxRing \in Nat
        BY TypeParts, UartAssumption, LenProperties DEF BuffersOK
      <4> QED  BY <4>1 DEF Push, Room
    <3>2. PICK front \in 1 .. Len(sw) :
            LET n == IF front <= Room THEN front ELSE Room
            IN  drv' = [drv EXCEPT !.pushed = @ + n, !.pc = IF n < front THEN "post" ELSE "push"]
      BY DEF Push
    <3> DEFINE n == IF front <= Room THEN front ELSE Room
    <3>3. n \in Nat \ {0} /\ (IF n < front THEN "post" ELSE "push") \in {"post", "push"}
      BY <3>1
    <3> QED  BY <3>2, <3>3
  <2>2. drv.pc = "push"
    BY DEF Push
  <2> QED  BY <1>0, <2>1, <2>2
<1>2. PushEnd => /\ drv.pc = "push" /\ drv'.pc = "post" /\ drv'.ret = drv.ret
                 /\ drv'.pushed = drv.pushed /\ Keeps
  BY <1>0 DEF PushEnd
<1>3. Post => drv.pc = "post" /\ drv'.pc = drv.ret /\ Keeps
  BY <1>0 DEF Post
<1>4. TakeWrite => drv.pc = "sq" /\ drv'.pc = "tx" /\ Keeps
  BY <1>0 DEF TakeWrite, Take
<1>5. TakeRead => drv.pc = "sq" /\ drv'.pc = "push" /\ drv'.ret = "fake" /\ Keeps
  BY <1>0 DEF TakeRead, Take
<1>6. TakeBad => drv.pc = "sq" /\ drv' = drv
  BY <1>0 DEF TakeBad, Take
<1>7. FakeRead => drv.pc = "fake" /\ drv'.pc = "sq" /\ Keeps
  BY <1>0 DEF FakeRead
<1>8. SqEmpty => drv.pc = "sq" /\ sq = << >> /\ GoesOn("bits") /\ Keeps
  BY <1>0 DEF SqEmpty, Flush
<1>9. TxSend => drv.pc = "tx" /\ drv'.pc = "drain" /\ drv'.ret = "tx" /\ Keeps
  BY <1>0 DEF TxSend, StartDrain
<1>10. TxEnd => drv.pc = "tx" /\ drv'.pc = "sent" /\ Keeps
  BY <1>0 DEF TxEnd
<1>11. WriteDone => drv.pc = "sent" /\ drv'.pc = "sq" /\ Keeps
  BY <1>0 DEF WriteDone
<1> QED  BY <1>1, <1>2, <1>3, <1>4, <1>5, <1>6, <1>7, <1>8, <1>9, <1>10, <1>11

-----------------------------------------------------------------------------
(* A driver that waits has announced what lies in its buffers.  Each part  *)
(* of the invariant follows one announcement through the driver.           *)

Holds(s, v) == \E i \in 1 .. Len(s) : s[i] = v

\* A ring holds a value after an append if it did or the value was appended.
LEMMA HoldsAppend ==
  ASSUME NEW S, NEW s \in Seq(S), NEW e \in S, NEW v
  PROVE  Holds(Append(s, e), v) <=> Holds(s, v) \/ e = v
<1> DEFINE t == Append(s, e)
           n == Len(s) + 1
<1>1. /\ Len(s) \in Nat /\ Len(t) = n /\ t[n] = e
      /\ \A i \in 1 .. Len(s) : t[i] = s[i]
  BY AppendProperties, LenProperties
<1> HIDE DEF t
<1>2. \A i \in 1 .. n : i = n \/ i \in 1 .. Len(s)
  BY <1>1
<1>3. n \in 1 .. n /\ \A i \in 1 .. Len(s) : i \in 1 .. n
  BY <1>1
<1>4. Holds(t, v) <=> Holds(s, v) \/ e = v
  BY <1>1, <1>2, <1>3 DEF Holds
<1> QED  BY <1>4 DEF t

\* A ring holds a value if its tail does or its head is the value.
LEMMA HoldsTail ==
  ASSUME NEW S, NEW s \in Seq(S), s # << >>, NEW v
  PROVE  Holds(s, v) <=> Holds(Tail(s), v) \/ Head(s) = v
<1> DEFINE t == Tail(s)
<1>1. /\ Len(s) \in Nat \ {0} /\ Len(t) = Len(s) - 1 /\ Head(s) = s[1]
      /\ \A i \in 1 .. Len(t) : t[i] = s[i + 1]
  BY HeadTailProperties, EmptySeq
<1> HIDE DEF t
<1>2. 1 \in 1 .. Len(s) /\ \A i \in 1 .. Len(t) : i + 1 \in 1 .. Len(s)
  BY <1>1
<1>3. \A i \in 1 .. Len(s) : i = 1 \/ (i - 1 \in 1 .. Len(t) /\ (i - 1) + 1 = i)
  BY <1>1
<1>4. Holds(t, v) \/ Head(s) = v => Holds(s, v)
  BY <1>1, <1>2 DEF Holds
<1>5. ASSUME NEW i \in 1 .. Len(s), s[i] = v PROVE Holds(t, v) \/ Head(s) = v
  <2>1. CASE i = 1
    BY <1>1, <1>5, <2>1
  <2>2. CASE i - 1 \in 1 .. Len(t) /\ (i - 1) + 1 = i
    BY <1>1, <1>5, <2>2 DEF Holds
  <2> QED  BY <1>3, <2>1, <2>2
<1>6. Holds(s, v) <=> Holds(t, v) \/ Head(s) = v
  BY <1>4, <1>5 DEF Holds
<1> QED  BY <1>6 DEF t

\* Where in the code the driver is: process_tx_ring, handle_sq, handle_irq.
InTx == \/ drv.pc = "tx"
        \/ drv.pc \in {"drain", "push", "post"} /\ drv.ret = "tx"
InSq == \/ InTx
        \/ drv.pc \in {"sq", "sent", "fake"}
        \/ drv.pc \in {"push", "post"} /\ drv.ret = "fake"
InIrq == \/ drv.pc \in {"irq", "ack"}
         \/ drv.pc = "drain" /\ drv.ret = "irq"
         \/ drv.pc \in {"push", "post"} /\ drv.ret = "ack"

\* From here it gets to process_rx_ring before it waits.
WillFlush == drv.pc \in {"irq", "drain", "push", "sq", "fake", "tx", "sent"}

\* Where a subroutine returns to, and what a wait has left of the notification.
Returns ==
  /\ drv.pc = "idle" => drv.bits = {}
  /\ drv.pc = "drain" => drv.ret \in {"irq", "tx"}
  /\ drv.pc \in {"push", "post"} => drv.ret \in {"ack", "bits", "tx", "fake"}

\* Requests need the ring; a client that looks at the ring will say so.
ClientKnows ==
  /\ (reading \/ sq # << >>) => up = {"shm", "ring"}
  /\ cli.look => "CQ" \in cli.owed

\* Of the bytes in the shared ring the client knows, or is about to be told.
SeenOrTold ==
  reading /\ rxr # << >> =>
    \/ cli.look \/ Holds(cq, "read") \/ "read" \in lost
    \/ drv.pc \in {"push", "post"} /\ (drv.pushed > 0 \/ drv.ret = "fake")
    \/ drv.pc = "fake"

\* For the bytes in the driver's buffer there is no room, or a signal comes.
FlushDue ==
  reading /\ sw # << >> =>
    rxr # << >> \/ "CQ" \in cli.owed \cup pend \cup drv.bits \/ WillFlush

\* A masked interrupt is on its way to the acknowledgement.
Armed == masked => "IRQ" \in pend \cup drv.bits \/ InIrq

\* A queued request is announced, or being looked for.
SqDue == sq # << >> => "SQ" \in cli.owed \cup pend \cup drv.bits \/ InSq

\* Bytes to send have a write, to come or queued or in progress, or were cut off.
SendDue == txr > 0 => cli.put \/ cut \/ InTx \/ Holds(sq, "write")

SInv == /\ TypeOK /\ Returns /\ ClientKnows /\ SeenOrTold
        /\ FlushDue /\ Armed /\ SqDue /\ SendDue

\* Nothing is due initially.
LEMMA SInvInit == Init => SInv
<1> SUFFICES ASSUME Init PROVE SInv
  OBVIOUS
<1>1. TypeOK
  BY TypeInit
<1>2. Returns /\ ClientKnows /\ SeenOrTold /\ FlushDue /\ Armed /\ SqDue /\ SendDue
  BY DEF Init, Returns, ClientKnows, SeenOrTold, FlushDue, Armed, SqDue, SendDue
<1> QED  BY <1>1, <1>2 DEF SInv

\* Parties other than the driver leave it where it is.
LEMMA OthersStay ==
  ASSUME Setup \/ Direct \/ Device \/ KernelIrq \/ Client \/ UNCHANGED vars
  PROVE  drv' = drv
BY DEF Setup, SetupBuffer, SetupRing, Direct, CallRead, CallWrite, SetBaudRate, Idle,
       Device, Arrive, Timeout, KernelIrq, Client, ClientPut, ClientReap, ClientRead,
       ClientReadEnd, ClientSubmit, ClientNotify, ClientOther, vars

\* The drain and push subroutines return to a place that called them.
LEMMA ReturnsStep ==
  ASSUME TypeOK, Returns, [Next]_vars
  PROVE  Returns'
<1> USE DEF Returns
<1>1. CASE drv' = drv
  BY <1>1
<1>2. CASE Recv \/ ServeIrq \/ ServeCq \/ ServeSq \/ ServeDone
  BY <1>2, Moves DEF GoesOn
<1>3. CASE IrqEvent \/ IrqEnd \/ IrqAck \/ DrainByte \/ DrainEnd
  BY <1>3, Moves DEF GoesOn
<1>4. CASE Push \/ PushEnd \/ Post \/ TakeWrite \/ TakeRead \/ TakeBad
  BY <1>4, MovesOn
<1>5. CASE FakeRead \/ SqEmpty \/ TxSend \/ TxEnd \/ WriteDone
  BY <1>5, MovesOn DEF GoesOn
<1>6. CASE Setup \/ Direct \/ Device \/ KernelIrq \/ Client \/ UNCHANGED vars
  BY <1>6, <1>1, OthersStay
<1> QED  BY <1>2, <1>3, <1>4, <1>5, <1>6 DEF Next, Driver

\* Every step keeps the receive interrupt armed, or on its way to the server.
LEMMA ArmedStep ==
  ASSUME TypeOK, Returns, Armed, [Next]_vars
  PROVE  Armed'
<1> USE DEF Armed, InIrq, Returns
<1>1. CASE UNCHANGED <<drv, masked, pend>>
  BY <1>1
<1>2. CASE Recv \/ ServeIrq \/ ServeCq \/ ServeSq \/ ServeDone
  <2>1. masked' = masked /\ (Recv \/ pend' = pend)
    BY <1>2 DEF Recv, ServeIrq, ServeCq, ServeSq, ServeDone, Serve, kernelVars
  <2> QED  BY <1>2, <2>1, Moves DEF GoesOn
<1>3. CASE IrqEvent \/ IrqEnd \/ DrainByte \/ DrainEnd
  <2>1. UNCHANGED <<masked, pend>>
    BY <1>3 DEF IrqEvent, IrqEnd, DrainByte, DrainEnd, kernelVars
  <2> QED  BY <1>3, <2>1, Moves DEF GoesOn, Keeps
<1>4. CASE IrqAck
  BY <1>4 DEF IrqAck
<1>5. CASE Push \/ PushEnd \/ Post \/ TakeWrite \/ TakeRead \/ TakeBad
  <2>1. UNCHANGED <<masked, pend>>
    BY <1>5 DEF Push, PushEnd, Post, TakeWrite, TakeRead, TakeBad, Take, kernelVars
  <2> QED  BY <1>5, <2>1, MovesOn DEF Keeps
<1>6. CASE FakeRead \/ SqEmpty \/ TxSend \/ TxEnd \/ WriteDone
  <2>1. UNCHANGED <<masked, pend>>
    BY <1>6 DEF FakeRead, SqEmpty, TxSend, TxEnd, WriteDone, kernelVars
  <2> QED  BY <1>6, <2>1, MovesOn DEF Keeps, GoesOn
<1>7. CASE KernelIrq
  BY <1>7 DEF KernelIrq
<1>8. CASE Setup \/ Direct \/ Device \/ UNCHANGED vars
  <2>1. UNCHANGED <<masked, pend>>
    BY <1>8 DEF Setup, SetupBuffer, SetupRing, Direct, CallRead, CallWrite, SetBaudRate, Idle,
                Device, Arrive, Timeout, vars, kernelVars
  <2> QED  BY <1>1, <1>8, <2>1, OthersStay
<1>9. CASE Client
  <2>1. masked' = masked /\ pend \subseteq pend'
    BY <1>9 DEF Client, ClientPut, ClientReap, ClientRead, ClientReadEnd, ClientSubmit,
                ClientNotify, ClientOther, sharedVars
  <2> QED  BY <1>9, <2>1, OthersStay
<1> QED  BY <1>2, <1>3, <1>4, <1>5, <1>6, <1>7, <1>8, <1>9 DEF Next, Driver

\* Every step keeps a client that sleeps sure to be told of what lies in the ring.
LEMMA ClientKnowsStep ==
  ASSUME TypeOK, ClientKnows, [Next]_vars
  PROVE  ClientKnows'
<1> USE DEF ClientKnows
<1>1. CASE UNCHANGED <<reading, sq, up, cli>>
  BY <1>1
<1>2. CASE TakeWrite \/ TakeRead \/ TakeBad
  <2>1. sq # << >> /\ UNCHANGED <<up, cli>>
    BY <1>2 DEF TakeWrite, TakeRead, TakeBad, Take, clientVars
  <2> QED  BY <2>1
<1>3. CASE Setup
  <2>1. up \subseteq up' /\ up' \subseteq {"shm", "ring"} /\ UNCHANGED <<reading, sq, cli>>
    BY <1>3, TypeParts DEF Setup, SetupBuffer, SetupRing, Idle, sharedVars
  <2> QED  BY <2>1
<1>4. CASE \E k \in Kinds : ClientSubmit(k)
  BY <1>4, TypeParts DEF ClientSubmit, ClientOther, CliType
<1>5. CASE \E bit \in {"SQ", "CQ"} : ClientNotify(bit)
  BY <1>5, TypeParts DEF ClientNotify, ClientOther, sharedVars, CliType
<1>6. CASE ClientPut \/ ClientReadEnd
  BY <1>6, TypeParts DEF ClientPut, ClientReadEnd, ClientOther, sharedVars, CliType
<1>7. CASE ClientReap
  <2>1. "CQ" \in cli'.owed /\ UNCHANGED <<reading, sq, up>>
    BY <1>7, TypeParts DEF ClientReap, ClientOther, CliType
  <2> QED  BY <2>1
<1>8. CASE ClientRead
  BY <1>8, <1>1 DEF ClientRead, ClientOther
<1>9. CASE Recv \/ ServeIrq \/ ServeCq \/ ServeSq \/ ServeDone
  BY <1>9, <1>1 DEF Recv, ServeIrq, ServeCq, ServeSq, ServeDone, Serve, sharedVars, clientVars
<1>10. CASE IrqEvent \/ IrqEnd \/ IrqAck \/ DrainByte \/ DrainEnd
  BY <1>10, <1>1 DEF IrqEvent, IrqEnd, IrqAck, DrainByte, DrainEnd, sharedVars, clientVars
<1>11. CASE Push \/ PushEnd \/ Post \/ FakeRead
  BY <1>11, <1>1 DEF Push, PushEnd, Post, FakeRead, sharedVars, clientVars
<1>12. CASE SqEmpty \/ TxSend \/ TxEnd \/ WriteDone
  BY <1>12, <1>1 DEF SqEmpty, TxSend, TxEnd, WriteDone, sharedVars, clientVars
<1>13. CASE Direct \/ Device \/ KernelIrq \/ UNCHANGED vars
  BY <1>13, <1>1 DEF Direct, CallRead, CallWrite, SetBaudRate, Idle, Device, Arrive, Timeout,
                     KernelIrq, vars, sharedVars, clientVars
<1> QED  BY <1>2, <1>3, <1>4, <1>5, <1>6, <1>7, <1>8, <1>9, <1>10, <1>11, <1>12, <1>13
         DEF Next, Driver, Client

\* A completion is in the completion ring, or known not to have fitted.
LEMMA Told ==
  ASSUME TypeOK, NEW k \in Kinds, Complete(k)
  PROVE  /\ Holds(cq', k) \/ k \in lost'
         /\ \A v : Holds(cq, v) => Holds(cq', v)
         /\ lost \subseteq lost'
<1>1. cq \in Seq(Kinds)
  BY DEF TypeOK
<1>2. CASE cq' = Append(cq, k) /\ lost' = lost
  BY <1>1, <1>2, HoldsAppend
<1>3. CASE cq' = cq /\ lost' = lost \cup {k}
  BY <1>3
<1> QED  BY <1>2, <1>3 DEF Complete

\* Every step keeps unread ring bytes seen by the client, or told to it.
LEMMA SeenStep ==
  ASSUME TypeOK, ClientKnows, SeenOrTold, [Next]_vars
  PROVE  SeenOrTold'
<1> USE DEF SeenOrTold, ClientKnows
<1>1. CASE drv' = drv /\ UNCHANGED <<reading, rxr, cq, lost>> /\ cli'.look = cli.look
  BY <1>1
<1>2. CASE Recv \/ ServeIrq \/ ServeCq \/ ServeSq \/ ServeDone
  <2>1. UNCHANGED <<reading, rxr, cq, lost, cli>>
    BY <1>2 DEF Recv, ServeIrq, ServeCq, ServeSq, ServeDone, Serve, sharedVars, clientVars, histVars
  <2> QED  BY <1>2, <2>1, Moves
<1>3. CASE IrqEvent \/ IrqEnd \/ IrqAck \/ DrainByte \/ DrainEnd
  <2>1. UNCHANGED <<reading, rxr, cq, lost, cli>>
    BY <1>3 DEF IrqEvent, IrqEnd, IrqAck, DrainByte, DrainEnd, sharedVars, clientVars, histVars
  <2> QED  BY <1>3, <2>1, Moves
<1>4. CASE Push
  BY <1>4, MovesOn
<1>5. CASE PushEnd
  <2>1. UNCHANGED <<reading, rxr, cq, lost, cli>>
    BY <1>5 DEF PushEnd, sharedVars, clientVars, histVars
  <2> QED  BY <1>5, <2>1, MovesOn
<1>6. CASE Post
  <2>1. UNCHANGED <<reading, rxr, cli>> /\ drv.pc = "post" /\ drv'.pc = drv.ret
    BY <1>6, MovesOn DEF Post, clientVars
  <2>2. CASE drv.pushed > 0 /\ reading
    <3>1. up = {"shm", "ring"}
      BY <2>2
    <3>2. Complete("read") /\ "read" \in Kinds
      BY <1>6, <2>2, <3>1 DEF Post, Kinds
    <3> QED  BY <3>2, Told
  <2>3. CASE ~(drv.pushed > 0 /\ reading)
    <3>1. UNCHANGED <<cq, lost>>
      BY <1>6, <2>3 DEF Post
    <3> QED  BY <2>1, <2>3, <3>1
  <2> QED  BY <2>2, <2>3
<1>7. CASE TakeRead
  BY <1>7, MovesOn
<1>8. CASE TakeWrite
  <2>1. UNCHANGED <<reading, rxr, cq, lost, cli>>
    BY <1>8 DEF TakeWrite, Take, clientVars
  <2> QED  BY <1>8, <2>1, MovesOn
<1>9. CASE TakeBad
  <2>1. UNCHANGED <<reading, rxr, cli>> /\ Complete("bad") /\ "bad" \in Kinds
    BY <1>9 DEF TakeBad, Take, clientVars, Kinds
  <2>2. (Holds(cq, "read") => Holds(cq', "read")) /\ lost \subseteq lost'
    BY <2>1, Told
  <2> QED  BY <1>9, <2>1, <2>2, MovesOn
<1>10. CASE FakeRead
  <2>1. Complete("read") /\ "read" \in Kinds
    BY <1>10 DEF FakeRead, Kinds
  <2> QED  BY <2>1, Told
<1>11. CASE WriteDone
  <2>1. UNCHANGED <<reading, rxr, cli>> /\ Complete("write") /\ "write" \in Kinds
    BY <1>11 DEF WriteDone, clientVars, Kinds
  <2>2. (Holds(cq, "read") => Holds(cq', "read")) /\ lost \subseteq lost'
    BY <2>1, Told
  <2> QED  BY <1>11, <2>1, <2>2, MovesOn
<1>12. CASE SqEmpty \/ TxSend \/ TxEnd
  <2>1. UNCHANGED <<reading, rxr, cq, lost, cli>>
    BY <1>12 DEF SqEmpty, TxSend, TxEnd, sharedVars, clientVars, histVars
  <2> QED  BY <1>12, <2>1, MovesOn
<1>13. CASE Setup \/ Direct \/ Device \/ KernelIrq \/ UNCHANGED vars
  <2>1. UNCHANGED <<reading, rxr, cq, lost, cli>>
    BY <1>13 DEF Setup, SetupBuffer, SetupRing, Direct, CallRead, CallWrite, SetBaudRate, Idle,
                 Device, Arrive, Timeout, KernelIrq, vars, sharedVars, clientVars, histVars
  <2> QED  BY <1>1, <1>13, <2>1, OthersStay
<1>14. CASE ClientPut \/ (\E k \in Kinds : ClientSubmit(k)) \/ (\E bit \in {"SQ", "CQ"} : ClientNotify(bit))
  <2>1. UNCHANGED <<drv, reading, rxr, cq, lost>> /\ cli'.look = cli.look
    BY <1>14, TypeParts DEF ClientPut, ClientSubmit, ClientNotify, ClientOther, sharedVars, CliType
  <2> QED  BY <1>1, <2>1
<1>15. CASE ClientReap
  <2>1. /\ cq # << >> /\ cq' = Tail(cq) /\ cq \in Seq(Kinds) /\ ~cli.look
        /\ cli'.look <=> Head(cq) = "read"
        /\ UNCHANGED <<drv, reading, rxr, lost>>
    BY <1>15, TypeParts DEF ClientReap, ClientOther, CliType, RequestsOK
  <2>2. Holds(cq, "read") <=> Holds(cq', "read") \/ cli'.look
    BY <2>1, HoldsTail
  <2> QED  BY <2>1, <2>2
<1>16. CASE ClientRead
  <2>1. cli.look /\ cli' = cli
    BY <1>16 DEF ClientRead
  <2> QED  BY <2>1
<1>17. CASE ClientReadEnd
  <2>1. rxr' = << >>
    BY <1>17 DEF ClientReadEnd, sharedVars
  <2> QED  BY <2>1
<1> QED  BY <1>2, <1>3, <1>4, <1>5, <1>6, <1>7, <1>8, <1>9, <1>10, <1>11, <1>12, <1>13, <1>14, <1>15,
            <1>16, <1>17
         DEF Next, Driver, Client

\* What the client has to tell, and what it told, grows until it is received.
LEMMA SignalsGrow ==
  ASSUME TypeOK, Client
  PROVE  cli.owed \cup pend \subseteq cli'.owed \cup pend'
<1>1. CASE ClientPut \/ ClientReap \/ ClientRead \/ ClientReadEnd
  <2>1. cli.owed \subseteq cli'.owed /\ pend' = pend
    <3>1. CASE ClientPut
      BY <3>1, TypeParts DEF ClientPut, CliType
    <3>2. CASE ClientReap
      BY <3>2, TypeParts DEF ClientReap, CliType
    <3>3. CASE ClientRead
      BY <3>3 DEF ClientRead
    <3>4. CASE ClientReadEnd
      BY <3>4, TypeParts DEF ClientReadEnd, CliType
    <3> QED  BY <1>1, <3>1, <3>2, <3>3, <3>4
  <2> QED  BY <2>1
<1>2. CASE (\E k \in Kinds : ClientSubmit(k)) \/ (\E bit \in {"SQ", "CQ"} : ClientNotify(bit))
  <2>1. ASSUME NEW k \in Kinds, ClientSubmit(k)
        PROVE  cli.owed \cup pend \subseteq cli'.owed \cup pend'
    BY <2>1, TypeParts DEF ClientSubmit, CliType
  <2>2. ASSUME NEW bit \in {"SQ", "CQ"}, ClientNotify(bit)
        PROVE  cli.owed \cup pend \subseteq cli'.owed \cup pend'
    BY <2>2, TypeParts DEF ClientNotify, CliType
  <2> QED  BY <1>2, <2>1, <2>2
<1> QED  BY <1>1, <1>2 DEF Client

\* Bytes left in the software buffer are flushed by a step still to come.
LEMMA FlushStep ==
  ASSUME TypeOK, Returns, ClientKnows, FlushDue, [Next]_vars
  PROVE  FlushDue'
<1> USE DEF FlushDue, WillFlush
<1>0. rxr \in Seq(Byte) /\ Len(rxr) \in Nat /\ RxRing \in Nat \ {0}
  BY TypeParts, UartAssumption, LenProperties DEF BuffersOK
<1>1. CASE UNCHANGED <<drv, reading, sw, rxr, pend>> /\ cli.owed \subseteq cli'.owed
  BY <1>1
<1>2. CASE Recv \/ ServeIrq \/ ServeCq \/ ServeSq \/ ServeDone
  <2>1. UNCHANGED <<reading, sw, rxr, cli>> /\ (Recv \/ pend' = pend)
    BY <1>2 DEF Recv, ServeIrq, ServeCq, ServeSq, ServeDone, Serve, sharedVars, kernelVars, clientVars
  <2> QED  BY <1>2, <2>1, Moves DEF GoesOn, Returns
<1>3. CASE DrainByte
  BY <1>3, Moves
<1>4. CASE IrqEvent \/ IrqEnd \/ IrqAck \/ DrainEnd
  <2>1. UNCHANGED <<reading, sw, rxr, cli, pend>>
    BY <1>4 DEF IrqEvent, IrqEnd, IrqAck, DrainEnd, sharedVars, kernelVars, clientVars
  <2> QED  BY <1>4, <2>1, Moves DEF GoesOn, Keeps, Returns
<1>5. CASE Push
  <2>1. PICK n \in 1 .. Len(sw) : rxr' = rxr \o SubSeq(sw, 1, n)
    <3>1. Room > 0 /\ Room \in Int /\ Len(sw) \in Nat
      BY <1>0, <1>5, TypeParts, LenProperties DEF Push, Room, BuffersOK
    <3>2. PICK front \in 1 .. Len(sw) :
            LET n == IF front <= Room THEN front ELSE Room
            IN  rxr' = rxr \o SubSeq(sw, 1, n)
      BY <1>5 DEF Push
    <3> DEFINE n == IF front <= Room THEN front ELSE Room
    <3>3. n \in 1 .. Len(sw)
      BY <3>1
    <3> QED  BY <3>2, <3>3
  <2> DEFINE f == SubSeq(sw, 1, n)
  <2>2. f \in Seq(Byte) /\ Len(f) = n /\ n \in Nat \ {0}
    <3>1. sw \in Seq(Byte) /\ Len(sw) \in Nat
      BY TypeParts, LenProperties DEF BuffersOK
    <3>2. n \in 0 .. Len(sw) /\ n \in Nat \ {0}
      BY <3>1
    <3> QED  BY <3>1, <3>2, FrontRest
  <2> HIDE DEF f
  <2>3. Len(rxr') = Len(rxr) + Len(f)
    BY <1>0, <2>1, <2>2, ConcatProperties DEF f
  <2>4. rxr' # << >>
    BY <1>0, <2>2, <2>3, EmptySeq
  <2> QED  BY <2>4
<1>6. CASE PushEnd
  <2>1. UNCHANGED <<reading, sw, rxr, cli>> /\ (sw = << >> \/ Room = 0)
    BY <1>6 DEF PushEnd, sharedVars, clientVars
  <2>2. reading /\ Room = 0 => rxr # << >>
    <3>1. reading => Room = RxRing - Len(rxr)
      BY DEF ClientKnows, Room
    <3> QED  BY <1>0, <3>1, EmptySeq
  <2> QED  BY <2>1, <2>2
<1>7. CASE Post
  <2>1. UNCHANGED <<reading, sw, rxr, cli, pend>>
    BY <1>7 DEF Post, kernelVars, clientVars
  <2> QED  BY <1>7, <2>1, MovesOn DEF Keeps
<1>8. CASE TakeWrite \/ TakeRead \/ TakeBad \/ FakeRead \/ TxSend \/ TxEnd \/ WriteDone
  BY <1>8, MovesOn
<1>9. CASE SqEmpty
  <2>1. UNCHANGED <<reading, sw, rxr, cli, pend>>
    BY <1>9 DEF SqEmpty, sharedVars, kernelVars, clientVars
  <2> QED  BY <1>9, <2>1, MovesOn DEF GoesOn, Keeps
<1>10. CASE Setup \/ Direct \/ Device \/ UNCHANGED vars
  <2>1. UNCHANGED <<reading, sw, rxr, pend, cli>>
    BY <1>10 DEF Setup, SetupBuffer, SetupRing, Direct, CallRead, CallWrite, SetBaudRate, Idle,
                 Device, Arrive, Timeout, vars, sharedVars, kernelVars, clientVars
  <2> QED  BY <1>1, <1>10, <2>1, OthersStay
<1>11. CASE KernelIrq
  <2>1. UNCHANGED <<drv, reading, sw, rxr, cli>> /\ pend \subseteq pend'
    BY <1>11 DEF KernelIrq, sharedVars, clientVars
  <2> QED  BY <2>1
<1>12. CASE Client /\ ~ClientRead
  <2>1. UNCHANGED <<drv, reading, sw, rxr>>
    BY <1>12 DEF Client, ClientPut, ClientSubmit, ClientNotify, ClientReap, ClientReadEnd,
                 ClientOther, sharedVars
  <2>2. cli.owed \cup pend \subseteq cli'.owed \cup pend'
    BY <1>12, SignalsGrow
  <2> QED  BY <2>1, <2>2
<1>13. CASE ClientRead
  <2>1. cli.look /\ cli' = cli
    BY <1>13 DEF ClientRead
  <2> QED  BY <2>1 DEF ClientKnows
<1> QED  BY <1>2, <1>3, <1>4, <1>5, <1>6, <1>7, <1>8, <1>9, <1>10, <1>11, <1>12, <1>13
         DEF Next, Driver, Client

\* A queued request is served by a step still to come, or its signal is pending.
LEMMA SqDueStep ==
  ASSUME TypeOK, Returns, SqDue, [Next]_vars
  PROVE  SqDue'
<1> USE DEF SqDue, InSq, InTx
<1>1. CASE UNCHANGED <<drv, sq>> /\ cli.owed \cup pend \subseteq cli'.owed \cup pend'
  BY <1>1
<1>2. CASE Recv \/ ServeIrq \/ ServeCq \/ ServeSq \/ ServeDone
  <2>1. UNCHANGED <<sq, cli>> /\ (Recv \/ pend' = pend)
    BY <1>2 DEF Recv, ServeIrq, ServeCq, ServeSq, ServeDone, Serve, sharedVars, kernelVars, clientVars
  <2> QED  BY <1>2, <2>1, Moves DEF GoesOn, Returns
<1>3. CASE IrqEvent \/ IrqEnd \/ IrqAck \/ DrainByte \/ DrainEnd
  <2>1. UNCHANGED <<sq, cli, pend>>
    BY <1>3 DEF IrqEvent, IrqEnd, IrqAck, DrainByte, DrainEnd, sharedVars, kernelVars, clientVars
  <2> QED  BY <1>3, <2>1, Moves DEF GoesOn, Keeps, Returns
<1>4. CASE Push \/ PushEnd \/ Post
  <2>1. UNCHANGED <<sq, cli, pend>>
    BY <1>4 DEF Push, PushEnd, Post, sharedVars, kernelVars, clientVars
  <2> QED  BY <1>4, <2>1, MovesOn DEF Keeps
<1>5. CASE TakeWrite \/ TakeRead \/ TakeBad \/ FakeRead \/ TxSend \/ TxEnd \/ WriteDone
  BY <1>5, MovesOn
<1>6. CASE SqEmpty
  BY <1>6 DEF SqEmpty, sharedVars
<1>7. CASE Setup \/ Direct \/ Device \/ UNCHANGED vars
  <2>1. UNCHANGED <<sq, pend, cli>>
    BY <1>7 DEF Setup, SetupBuffer, SetupRing, Direct, CallRead, CallWrite, SetBaudRate, Idle,
                 Device, Arrive, Timeout, vars, sharedVars, kernelVars, clientVars
  <2> QED  BY <1>1, <1>7, <2>1, OthersStay
<1>8. CASE KernelIrq
  <2>1. UNCHANGED <<drv, sq, cli>> /\ pend \subseteq pend'
    BY <1>8 DEF KernelIrq, sharedVars, clientVars
  <2> QED  BY <2>1
<1>9. CASE \E k \in Kinds : ClientSubmit(k)
  <2>1. "SQ" \in cli'.owed
    BY <1>9, TypeParts DEF ClientSubmit, CliType
  <2> QED  BY <2>1
<1>10. CASE Client /\ ~\E k \in Kinds : ClientSubmit(k)
  <2>1. UNCHANGED <<drv, sq>>
    BY <1>10 DEF Client, ClientPut, ClientReap, ClientRead, ClientReadEnd, ClientNotify,
                 ClientOther, sharedVars
  <2> QED  BY <1>1, <1>10, <2>1, SignalsGrow
<1> QED  BY <1>2, <1>3, <1>4, <1>5, <1>6, <1>7, <1>8, <1>9, <1>10 DEF Next, Driver, Client

\* A request taken is sent or answered by a step still to come.
LEMMA SendStep ==
  ASSUME TypeOK, Returns, SendDue, [Next]_vars
  PROVE  SendDue'
<1> USE DEF SendDue, InTx
<1>0. txr \in Nat /\ sq \in Seq(Kinds)
  BY TypeParts, UartAssumption DEF RequestsOK
<1>1. CASE UNCHANGED <<drv, sq, txr, cut>> /\ cli'.put = cli.put
  BY <1>1
<1>2. CASE Recv \/ ServeIrq \/ ServeCq \/ ServeSq \/ ServeDone
  <2>1. UNCHANGED <<sq, txr, cut, cli>>
    BY <1>2 DEF Recv, ServeIrq, ServeCq, ServeSq, ServeDone, Serve, sharedVars, clientVars, histVars
  <2> QED  BY <1>2, <2>1, Moves
<1>3. CASE IrqEvent \/ IrqEnd \/ IrqAck \/ DrainByte \/ DrainEnd
  <2>1. UNCHANGED <<sq, txr, cut, cli>>
    BY <1>3 DEF IrqEvent, IrqEnd, IrqAck, DrainByte, DrainEnd, sharedVars, clientVars, histVars
  <2> QED  BY <1>3, <2>1, Moves DEF GoesOn, Returns
<1>4. CASE Push \/ PushEnd \/ Post
  <2>1. UNCHANGED <<sq, txr, cut, cli>>
    BY <1>4 DEF Push, PushEnd, Post, sharedVars, clientVars, histVars
  <2> QED  BY <1>4, <2>1, MovesOn
<1>5. CASE TakeWrite \/ TxSend
  BY <1>5, MovesOn
<1>6. CASE TakeRead \/ TakeBad
  <2>1. /\ UNCHANGED <<txr, cut, cli>> /\ sq # << >> /\ sq' = Tail(sq) /\ Head(sq) # "write"
        /\ drv.pc = "sq"
    BY <1>6 DEF TakeRead, TakeBad, Take, clientVars
  <2>2. Holds(sq, "write") <=> Holds(sq', "write")
    BY <1>0, <2>1, HoldsTail
  <2> QED  BY <2>1, <2>2
<1>7. CASE FakeRead \/ WriteDone \/ SqEmpty
  <2>1. UNCHANGED <<sq, txr, cut, cli>>
    BY <1>7 DEF FakeRead, WriteDone, SqEmpty, sharedVars, clientVars, histVars
  <2> QED  BY <1>7, <2>1, MovesOn
<1>8. CASE TxEnd
  <2>1. /\ drv.txleft = 0 \/ txr = 0
        /\ cut' <=> (drv.txleft = 0 /\ txr > 0)
        /\ txr' = txr
    BY <1>8 DEF TxEnd, sharedVars
  <2> QED  BY <1>0, <2>1
<1>9. CASE Setup \/ Direct \/ Device \/ KernelIrq \/ UNCHANGED vars
  <2>1. UNCHANGED <<sq, txr, cut, cli>>
    BY <1>9 DEF Setup, SetupBuffer, SetupRing, Direct, CallRead, CallWrite, SetBaudRate, Idle,
                Device, Arrive, Timeout, KernelIrq, vars, sharedVars, clientVars, histVars
  <2> QED  BY <1>1, <1>9, <2>1, OthersStay
<1>10. CASE ClientPut
  <2>1. cli'.put
    BY <1>10, TypeParts DEF ClientPut, CliType
  <2> QED  BY <2>1
<1>11. CASE \E k \in Kinds : ClientSubmit(k)
  <2>1. PICK k \in Kinds : ClientSubmit(k)
    BY <1>11
  <2>2. /\ UNCHANGED <<drv, txr, cut>> /\ sq' = Append(sq, k)
        /\ cli'.put <=> cli.put /\ k # "write"
    BY <2>1, TypeParts DEF ClientSubmit, ClientOther, CliType
  <2>3. Holds(sq', "write") <=> Holds(sq, "write") \/ k = "write"
    BY <1>0, <2>2, HoldsAppend
  <2> QED  BY <2>2, <2>3
<1>12. CASE ClientReap \/ ClientRead \/ ClientReadEnd \/ \E bit \in {"SQ", "CQ"} : ClientNotify(bit)
  <2>1. UNCHANGED <<drv, sq, txr, cut>> /\ cli'.put = cli.put
    BY <1>12, TypeParts DEF ClientReap, ClientRead, ClientReadEnd, ClientNotify, ClientOther,
                            sharedVars, CliType
  <2> QED  BY <1>1, <2>1
<1> QED  BY <1>2, <1>3, <1>4, <1>5, <1>6, <1>7, <1>8, <1>9, <1>10, <1>11, <1>12
         DEF Next, Driver, Client

(* A driver that waits has not forgotten anything: whatever lies in its    *)
(* buffers, in either direction, is announced to the one who takes it on.  *)
THEOREM SignalledTheorem == Spec => []Signalled
<1>1. Init => SInv
  BY SInvInit
<1>2. TypeOK' /\ SInv /\ [Next]_vars => SInv'
  BY ReturnsStep, ClientKnowsStep, SeenStep, FlushStep, ArmedStep, SqDueStep, SendStep DEF SInv
<1>3. SInv => Signalled
  <2> SUFFICES ASSUME SInv PROVE Signalled
    OBVIOUS
  <2> USE DEF SInv, InTx, InSq, InIrq, WillFlush, Returns
  <2>1. NoUnseenBytes
    BY DEF NoUnseenBytes, SeenOrTold, WillLook, Holds
  <2>2. NoStuckBuffer
    BY DEF NoStuckBuffer, FlushDue
  <2>3. IrqArmed
    BY DEF IrqArmed, Armed
  <2>4. SendSignalled
    <3>1. Holds(sq, "write") => sq # << >>
      <4>1. Len(<< >>) = 0
        OBVIOUS
      <4> QED  BY <4>1 DEF Holds
    <3> QED  BY <3>1 DEF SendSignalled, SendDue, SqDue
  <2> QED  BY <2>1, <2>2, <2>3, <2>4 DEF Signalled
<1> QED  BY <1>1, <1>2, <1>3, TypeCorrect, PTL DEF Spec
=============================================================================
