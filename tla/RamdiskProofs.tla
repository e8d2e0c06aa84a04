---------------------------- MODULE RamdiskProofs ----------------------------
(***************************************************************************)
(* The ramdisk implements a disk, for every size of disk, buffer, word and *)
(* completion ring, and every set of requests the client may submit.       *)
(*                                                                         *)
(* A request is in the submission ring, with the driver, or in the         *)
(* completion ring.  While it is in the first what it is to store is in    *)
(* the buffer; from when it was served on, what it has read is there: the  *)
(* client names no part of the buffer twice, and the driver writes nothing *)
(* but the part that the request it serves names.  All this until a        *)
(* request passes the checks with a sum that overflowed: the theorem is    *)
(* about the steps before that one, and the panics of a build with         *)
(* overflow checks are among them.                                         *)
(***************************************************************************)
EXTENDS Ramdisk, TLAPS

-----------------------------------------------------------------------------
(* Where the requests are.                                                 *)

Bytes   == [0 .. BufLen - 1 -> Val]     \* what the buffer may hold
Answers == [user : Users, res : Int]

Has(s, u) == \E i \in 1 .. Len(s) : s[i].user = u
Once(s)   == \A i, j \in 1 .. Len(s) : s[i].user = s[j].user => i = j

Serving(u) == drv.pc = "complete" /\ drv.sqe.user = u

TypeOK ==
  /\ data \in [0 .. DiskLen - 1 -> Val] /\ buf \in Bytes
  /\ sq \in Seq(Entry) /\ cq \in Seq(Answers)
  /\ drv \in [pc : {"idle", "next", "complete", "dead"}, sqe : Entry \cup {None}]
  /\ drv.pc = "complete" => drv.sqe \in Entry
  /\ ask \in [Users -> Requests \cup {None}]
  /\ exec \in [Users -> Outcomes \cup {None}]

Places ==
  /\ Once(sq) /\ Once(cq)
  /\ \A u \in Users :
       /\ Has(sq, u) => ask[u] # None /\ exec[u] = None
       /\ exec[u] # None => ask[u] # None
       /\ Serving(u) \/ Has(cq, u) => exec[u] # None
       /\ Serving(u) => ~Has(cq, u)

(* What the buffer holds for them.                                         *)
Piece(b, r) == [i \in 1 .. r.len |-> b[r.addr - BufVa + i - 1]]

Within(r) == r.addr >= BufVa /\ r.addr + r.len <= BufVa + BufLen

\* The request the client keeps is the entry it submitted.
Same(r, e) ==
  r.op = e.op /\ r.len = e.len /\ r.addr = e.addr /\ r.at = e.off * BlockSize

Waits(r, b) == r.op = "write" /\ Within(r) => r.data = Piece(b, r)

IsRead(r, x) == r.op = "read" /\ x.res >= 0

Shows(r, x, b) ==
  /\ IsRead(r, x) => Within(r) /\ x.val = Piece(b, r)
  /\ ~IsRead(r, x) => x.val = << >>

Queued ==
  \A i \in 1 .. Len(sq) : Same(ask[sq[i].user], sq[i]) /\ Waits(ask[sq[i].user], buf)

Served ==
  /\ drv.pc = "complete" => exec[drv.sqe.user].res = Res(drv.sqe)
  /\ \A i \in 1 .. Len(cq) : exec[cq[i].user].res = cq[i].res
  /\ \A u \in Users : exec[u] # None => Shows(ask[u], exec[u], buf)

Apart ==
  \A u, v \in Users : u # v /\ ask[u] # None /\ ask[v] # None =>
    Place(ask[u]) \cap Place(ask[v]) = {}

IInv == TypeOK /\ Places /\ Apart /\ Queued /\ Served

-----------------------------------------------------------------------------
(* Sequences of records with a user.                                       *)

\* One more record is one more user.
LEMMA HasAppend ==
  ASSUME NEW S, NEW s \in Seq(S), NEW x \in S
  PROVE  /\ \A u : Has(Append(s, x), u) <=> Has(s, u) \/ x.user = u
         /\ Once(s) /\ ~Has(s, x.user) => Once(Append(s, x))
<1> DEFINE t == Append(s, x)
           n == Len(s)
<1>1. /\ n \in Nat /\ Len(t) = n + 1 /\ t[n + 1] = x
      /\ \A i \in 1 .. n : t[i] = s[i]
  OBVIOUS
<1> HIDE DEF t
<1>2. /\ \A i \in 1 .. n + 1 : i \in 1 .. n \/ i = n + 1
      /\ \A i \in 1 .. n : i \in 1 .. n + 1
      /\ n + 1 \in 1 .. n + 1
  BY <1>1
<1>3. \A u : Has(t, u) <=> Has(s, u) \/ x.user = u
  BY <1>1, <1>2 DEF Has
<1>4. ASSUME Once(s), ~Has(s, x.user) PROVE Once(t)
  BY <1>1, <1>2, <1>4 DEF Has, Once
<1> QED  BY <1>3, <1>4 DEF t

\* Taking the first record takes its user, and no other.
LEMMA HasTail ==
  ASSUME NEW S, NEW s \in Seq(S), s # << >>, Once(s)
  PROVE  /\ Head(s) \in S /\ Has(s, Head(s).user) /\ ~Has(Tail(s), Head(s).user)
         /\ \A u : u # Head(s).user => (Has(Tail(s), u) <=> Has(s, u))
         /\ Once(Tail(s))
         /\ \A i \in 1 .. Len(Tail(s)) : i + 1 \in 1 .. Len(s) /\ Tail(s)[i] = s[i + 1]
<1> DEFINE t == Tail(s)
           n == Len(s)
<1>1. /\ n \in Nat \ {0} /\ Len(t) = n - 1 /\ Head(s) = s[1] /\ s[1] \in S
      /\ \A i \in 1 .. n - 1 : t[i] = s[i + 1]
  OBVIOUS
<1> HIDE DEF t
<1>2. /\ \A i \in 1 .. n - 1 : i + 1 \in 1 .. n /\ i + 1 # 1
      /\ \A i \in 1 .. n : i # 1 => i - 1 \in 1 .. n - 1 /\ (i - 1) + 1 = i
      /\ 1 \in 1 .. n
      /\ \A i, j \in 1 .. n - 1 : i + 1 = j + 1 => i = j
  BY <1>1
<1>3. ASSUME NEW u, u # s[1].user PROVE Has(t, u) <=> Has(s, u)
  <2>1. ASSUME NEW i \in 1 .. n, s[i].user = u PROVE Has(t, u)
    <3>1. i # 1
      BY <1>3, <2>1
    <3>2. i - 1 \in 1 .. n - 1 /\ t[i - 1] = s[i]
      BY <1>1, <1>2, <3>1
    <3> QED  BY <1>1, <2>1, <3>2 DEF Has
  <2>2. ASSUME NEW i \in 1 .. n - 1, t[i].user = u PROVE Has(s, u)
    BY <1>1, <1>2, <2>2 DEF Has
  <2> QED  BY <1>1, <2>1, <2>2 DEF Has
<1>4. Has(s, s[1].user) /\ ~Has(t, s[1].user) /\ Once(t)
  BY <1>1, <1>2 DEF Has, Once
<1> QED  BY <1>1, <1>2, <1>3, <1>4 DEF t

-----------------------------------------------------------------------------
(* What process_sqe decides.                                               *)

\* A number below the bound is its own remainder.
LEMMA SmallMod ==
  ASSUME NEW n \in Nat \ {0}, NEW x \in 0 .. n - 1
  PROVE  x % n = x
<1> DEFINE d == x \div n
           m == x % n
<1>1. m \in 0 .. n - 1 /\ d \in Int /\ x = (n * d) + m
  OBVIOUS
<1> HIDE DEF d, m
<1>2. CASE d >= 1
  <2>1. n * d >= n
    BY <1>1, <1>2
  <2> QED  BY <1>1, <2>1
<1>3. CASE d <= 0 - 1
  <2>1. n * d <= 0 - n
    BY <1>1, <1>3
  <2> QED  BY <1>1, <2>1
<1>4. CASE d = 0
  BY <1>1, <1>4 DEF m
<1> QED  BY <1>1, <1>2, <1>3, <1>4

\* A request that lies in the buffer and on the disk.
Fits(r) == r.len % BlockSize = 0 /\ Within(r) /\ r.at + r.len <= DiskLen

\* The numbers of an entry and of the request it makes.
LEMMA Numbers ==
  ASSUME NEW e \in Entry, NEW r \in Requests, Same(r, e)
  PROVE  /\ DiskLen \in Nat /\ BlockSize \in Nat /\ BufLen \in Nat /\ BufVa \in Nat /\ Word \in Nat \ {0}
         /\ e.len \in Nat /\ e.addr \in Nat /\ e.off \in Nat
         /\ e.op \in {"read", "write", "sync", "other"}
         /\ r.at \in Nat /\ r.len \in Nat /\ r.addr \in Nat
         /\ r.op = e.op /\ r.len = e.len /\ r.addr = e.addr /\ r.at = e.off * BlockSize
         /\ BufVa + BufLen < Word /\ DiskLen < Word
<1>1. /\ DiskLen \in Nat /\ BlockSize \in Nat /\ BufLen \in Nat /\ BufVa \in Nat /\ Word \in Nat \ {0}
      /\ BufVa + BufLen < Word /\ DiskLen < Word
  BY RamdiskAssumption
<1>2. e \in [user : Users, op : {"read", "write", "sync", "other"},
             off : 0 .. Word - 1, len : 0 .. Word - 1, addr : 0 .. Word - 1]
  BY RamdiskAssumption
<1>3. /\ e.len \in Nat /\ e.addr \in Nat /\ e.off \in Nat
      /\ e.op \in {"read", "write", "sync", "other"}
  BY <1>1, <1>2
<1>4. r.at \in Nat /\ r.len \in Nat /\ r.addr \in Nat
  BY DEF Requests
<1> QED  BY <1>1, <1>3, <1>4 DEF Same

\* Where the sums do not overflow, the checks are exact.
LEMMA SmallSums ==
  ASSUME NEW e \in Entry, NEW r \in Requests, Same(r, e),
         e.addr + e.len < Word, e.off * BlockSize + e.len < Word
  PROVE  Offset(e) = r.at /\ (Accepted(e) <=> Fits(r))
<1>1. r.at % Word = r.at
  <2>1. r.at \in 0 .. Word - 1
    BY Numbers
  <2> QED  BY <2>1, Numbers, SmallMod
<1>2. (r.at + r.len) % Word = r.at + r.len
  <2>1. r.at + r.len \in 0 .. Word - 1
    BY Numbers
  <2> QED  BY <2>1, Numbers, SmallMod
<1>3. (e.addr + e.len) % Word = e.addr + e.len
  <2>1. e.addr + e.len \in 0 .. Word - 1
    BY Numbers
  <2> QED  BY <2>1, Numbers, SmallMod
<1>4. Offset(e) = r.at /\ (InBuffer(e) <=> Within(r))
  BY <1>1, <1>3, Numbers DEF Offset, InBuffer, Within
<1> QED  BY <1>2, <1>4, Numbers DEF Accepted, InDisk, Fits

(* The checks, in usize arithmetic, let through exactly what is permitted, *)
(* unless a sum overflows and its remainder passes.                        *)
LEMMA ChecksExact ==
  ASSUME NEW e \in Entry, NEW r \in Requests, Same(r, e), ~Misled(e)
  PROVE  /\ Accepted(e) => Offset(e) = r.at
         /\ Accepted(e) <=> Fits(r)
         /\ Permitted(r) <=> Accepted(e) /\ e.op # "other"
         /\ Res(e) = IF Permitted(r) THEN (IF r.op = "sync" THEN 0 ELSE r.len) ELSE -1
<1>1. /\ DiskLen \in Nat /\ BlockSize \in Nat /\ BufLen \in Nat /\ BufVa \in Nat /\ Word \in Nat \ {0}
      /\ e.len \in Nat /\ e.addr \in Nat /\ e.off \in Nat
      /\ e.op \in {"read", "write", "sync", "other"}
      /\ r.at \in Nat /\ r.len \in Nat /\ r.addr \in Nat
      /\ r.op = e.op /\ r.len = e.len /\ r.addr = e.addr /\ r.at = e.off * BlockSize
      /\ BufVa + BufLen < Word /\ DiskLen < Word
  BY Numbers
<1>2. ASSUME Accepted(e) PROVE Offset(e) = r.at /\ Fits(r)
  <2>1. ~Overflows(e) /\ e.len % BlockSize = 0 /\ InBuffer(e) /\ e.addr >= BufVa
    BY <1>2 DEF Misled, Accepted, InBuffer
  <2>2. ~(e.addr + e.len >= Word) /\ ~(e.off * BlockSize + e.len >= Word)
    BY <2>1 DEF Overflows
  <2>3. e.addr + e.len < Word /\ e.off * BlockSize + e.len < Word
    BY <1>1, <2>2
  <2> QED  BY <1>2, <2>3, SmallSums
<1>3. ASSUME Fits(r) PROVE Accepted(e)
  <2>1. e.addr + e.len < Word /\ e.off * BlockSize + e.len < Word
    <3>1. r.addr + r.len <= BufVa + BufLen /\ r.at + r.len <= DiskLen
      BY <1>3 DEF Fits, Within
    <3> QED  BY <1>1, <3>1
  <2> QED  BY <1>3, <2>1, SmallSums
<1>4. Permitted(r) <=> Accepted(e) /\ e.op # "other"
  BY <1>1, <1>2, <1>3 DEF Permitted, Fits, Within
<1>5. Res(e) = IF Permitted(r) THEN (IF r.op = "sync" THEN 0 ELSE r.len) ELSE -1
  BY <1>1, <1>4 DEF Res
<1> QED  BY <1>2, <1>3, <1>4, <1>5

-----------------------------------------------------------------------------
(* What the buffer holds.                                                  *)

\* A piece within the buffer is a sequence of bytes.
LEMMA PieceType ==
  ASSUME NEW b \in Bytes, NEW r, r.len \in Nat, r.addr \in Nat, Within(r)
  PROVE  /\ Piece(b, r) \in Seq(Val)
         /\ \A i \in 1 .. r.len : /\ r.addr - BufVa + i - 1 \in 0 .. BufLen - 1
                                  /\ r.addr + i - 1 \in Place(r)
                                  /\ (r.addr + i - 1) - BufVa = r.addr - BufVa + i - 1
<1>1. BufVa \in Nat /\ BufLen \in Nat /\ r.len \in Nat /\ r.addr \in Nat
  BY RamdiskAssumption
<1>2. \A i \in 1 .. r.len : /\ r.addr - BufVa + i - 1 \in 0 .. BufLen - 1
                            /\ r.addr + i - 1 \in Place(r)
                            /\ (r.addr + i - 1) - BufVa = r.addr - BufVa + i - 1
  BY <1>1 DEF Within, Place
<1>3. Piece(b, r) \in [1 .. r.len -> Val]
  BY <1>2 DEF Piece, Bytes
<1>4. Piece(b, r) \in Seq(Val)
  <2>1. ASSUME NEW n \in Nat, NEW f \in [1 .. n -> Val] PROVE f \in Seq(Val)
    OBVIOUS
  <2> QED  BY <1>1, <1>3, <2>1
<1> QED  BY <1>2, <1>4

\* A change elsewhere in the buffer is none to a request.
Kept(b, c, r) == \A x \in Place(r) : x - BufVa \in 0 .. BufLen - 1 => c[x - BufVa] = b[x - BufVa]

\* What a request waits for or shows stays while its place is kept.
LEMMA KeptIs ==
  ASSUME NEW b \in Bytes, NEW c \in Bytes, NEW r \in Requests, Kept(b, c, r)
  PROVE  /\ Waits(r, b) => Waits(r, c)
         /\ \A x : Shows(r, x, b) => Shows(r, x, c)
<1>1. ASSUME Within(r) PROVE Piece(c, r) = Piece(b, r)
  <2>1. \A i \in 1 .. r.len : c[r.addr - BufVa + i - 1] = b[r.addr - BufVa + i - 1]
    <3> TAKE i \in 1 .. r.len
    <3>1. PICK x : x = r.addr + i - 1
      OBVIOUS
    <3>2. x \in Place(r) /\ x - BufVa = r.addr - BufVa + i - 1 /\ x - BufVa \in 0 .. BufLen - 1
      BY <1>1, <3>1, PieceType DEF Requests
    <3>3. c[x - BufVa] = b[x - BufVa]
      BY <3>2 DEF Kept
    <3> QED  BY <3>2, <3>3
  <2> QED  BY <2>1 DEF Piece
<1> QED  BY <1>1 DEF Waits, Shows

\* What an answer in the completion ring tells is what was done.
LEMMA AnswerIs ==
  ASSUME IInv, NEW u \in Users
  PROVE  AnswerIn(u) = IF Has(cq, u) THEN exec[u] ELSE None
<1> DEFINE found == {i \in 1 .. Len(cq) : cq[i].user = u}
           k == CHOOSE i \in found : TRUE
           r == cq[k].res
           e == ask[u]
           val == IF e.op = "read" /\ r >= 0 THEN Piece(buf, e) ELSE << >>
<1>1. AnswerIn(u) = IF found = {} THEN None ELSE [res |-> r, val |-> val]
  BY DEF AnswerIn, Piece
<1>2. CASE ~Has(cq, u)
  <2>1. found = {}
    BY <1>2 DEF Has
  <2> QED  BY <1>1, <1>2, <2>1
<1>3. CASE Has(cq, u)
  <2>1. found # {}
    BY <1>3 DEF Has
  <2>2. k \in found
    BY <2>1
  <2> HIDE DEF k
  <2>3. exec[u].res = r
    BY <2>2 DEF IInv, Served
  <2>4. exec[u] # None /\ exec[u] \in Outcomes
    BY <1>3 DEF IInv, Places, TypeOK
  <2>5. Shows(e, exec[u], buf)
    BY <2>4 DEF IInv, Served
  <2>6. exec[u].val = val
    BY <2>3, <2>5 DEF Shows, IsRead
  <2>7. exec[u] = [res |-> exec[u].res, val |-> exec[u].val]
    BY <2>4 DEF Outcomes
  <2> QED  BY <1>1, <1>3, <2>1, <2>3, <2>6, <2>7
<1> QED  BY <1>2, <1>3

-----------------------------------------------------------------------------
(* The invariant, step by step.                                            *)

\* The fields of a state that the invariant types.
LEMMA Typed ==
  ASSUME IInv
  PROVE  /\ data \in [0 .. DiskLen - 1 -> Val] /\ buf \in Bytes
         /\ sq \in Seq(Entry) /\ cq \in Seq(Answers)
         /\ drv.pc = "complete" => drv.sqe \in Entry
         /\ \A i \in 1 .. Len(sq) : sq[i] \in Entry /\ sq[i].user \in Users
         /\ \A i \in 1 .. Len(cq) : cq[i].user \in Users
         /\ \A e \in Entry : e.user \in Users
         /\ \A u \in Users : /\ ask[u] \in Requests \cup {None}
                             /\ exec[u] \in Outcomes \cup {None}
         /\ None \notin Users \cup Requests \cup Outcomes
<1>1. TypeOK
  BY DEF IInv
<1>2. \A i \in 1 .. Len(sq) : sq[i] \in Entry
  BY <1>1 DEF TypeOK
<1>3. \A i \in 1 .. Len(cq) : cq[i] \in Answers
  BY <1>1 DEF TypeOK
<1>4. \A e \in Entry : e.user \in Users
  BY RamdiskAssumption
<1>5. \A i \in 1 .. Len(cq) : cq[i].user \in Users
  BY <1>3 DEF Answers
<1>6. \A u \in Users : ask[u] \in Requests \cup {None} /\ exec[u] \in Outcomes \cup {None}
  BY <1>1 DEF TypeOK
<1>7. None \notin Users \cup Requests \cup Outcomes
  BY RamdiskAssumption
<1>8. /\ data \in [0 .. DiskLen - 1 -> Val] /\ buf \in Bytes
      /\ sq \in Seq(Entry) /\ cq \in Seq(Answers)
      /\ drv.pc = "complete" => drv.sqe \in Entry
  BY <1>1 DEF TypeOK
<1> QED  BY <1>2, <1>4, <1>5, <1>6, <1>7, <1>8

\* Steps that touch neither requests nor bytes.
LEMMA QuietStep ==
  ASSUME IInv, UNCHANGED <<data, buf, sq, cq, ask, exec>>,
         \/ drv' = drv
         \/ drv'.pc \in {"idle", "next"} /\ drv' \in [pc : {"idle", "next", "complete", "dead"}, sqe : Entry \cup {None}]
  PROVE  IInv'
<1>1. TypeOK'
  BY DEF IInv, TypeOK
<1>2. \A u : Serving(u)' => Serving(u)
  BY DEF Serving
<1>3. Places'
  BY <1>2 DEF IInv, Places, Has, Once
<1>4. Apart'
  BY DEF IInv, Apart, Place
<1>5. Queued'
  BY DEF IInv, Queued, Same, Waits, Within, Piece
<1>6. Served'
  <2>1. drv'.pc = "complete" => exec'[drv'.sqe.user].res = Res(drv'.sqe)
    BY DEF IInv, Served
  <2>2. \A u \in Users : exec'[u] # None => Shows(ask'[u], exec'[u], buf')
    BY DEF IInv, Served
  <2>3. \A i \in 1 .. Len(cq') : exec'[cq'[i].user].res = cq'[i].res
    BY DEF IInv, Served
  <2> QED  BY <2>1, <2>2, <2>3 DEF Served
<1> QED  BY <1>1, <1>3, <1>4, <1>5, <1>6 DEF IInv

\* The client fills a byte no request names.
LEMMA FillStep ==
  ASSUME IInv, NEW a \in DOMAIN buf, NEW v \in Val, ClientFill(a, v)
  PROVE  IInv'
<1>0. UNCHANGED <<data, sq, cq, drv, ask, exec>> /\ buf' = [buf EXCEPT ![a] = v] /\ BufVa + a \notin InUse
  BY DEF ClientFill
<1>1. buf \in Bytes /\ buf' \in Bytes /\ a \in 0 .. BufLen - 1
  BY <1>0, Typed DEF Bytes
<1>2. TypeOK'
  BY <1>0, <1>1 DEF IInv, TypeOK
<1>3. ASSUME NEW u \in Users, ask[u] # None PROVE Kept(buf, buf', ask[u]) /\ ask[u] \in Requests
  <2>1. ask[u] \in Requests /\ BufVa \in Nat
    BY <1>3, Typed, RamdiskAssumption
  <2>2. BufVa + a \notin Place(ask[u])
    BY <1>0, <1>3 DEF InUse
  <2>3. ASSUME NEW x \in Place(ask[u]), x - BufVa \in 0 .. BufLen - 1
        PROVE  buf'[x - BufVa] = buf[x - BufVa]
    <3>1. x \in Int
      BY <2>1 DEF Place, Requests
    <3>2. x - BufVa # a
      BY <1>1, <2>1, <2>2, <3>1
    <3> QED  BY <1>0, <1>1, <2>3, <3>2 DEF Bytes
  <2> QED  BY <2>1, <2>3 DEF Kept
<1>4. Places'
  BY <1>0 DEF IInv, Places, Has, Once, Serving
<1>5. Apart'
  BY <1>0 DEF IInv, Apart, Place
<1>6. Queued'
  <2>1. ASSUME NEW i \in 1 .. Len(sq)
        PROVE  Same(ask[sq[i].user], sq[i]) /\ Waits(ask[sq[i].user], buf')
    <3>1. sq[i].user \in Users /\ ask[sq[i].user] # None
      BY Typed DEF IInv, Places, Has
    <3> QED  BY <1>1, <1>3, <3>1, KeptIs DEF IInv, Queued
  <2> QED  BY <1>0, <2>1 DEF Queued
<1>7. Served'
  <2>1. ASSUME NEW u \in Users, exec[u] # None PROVE Shows(ask[u], exec[u], buf')
    <3>1. ask[u] # None /\ Shows(ask[u], exec[u], buf)
      BY <2>1 DEF IInv, Places, Served
    <3> QED  BY <1>1, <1>3, <3>1, KeptIs
  <2> QED  BY <1>0, <2>1 DEF IInv, Served
<1> QED  BY <1>2, <1>4, <1>5, <1>6, <1>7 DEF IInv

\* What a client may submit, in numbers.
LEMMA EntryIs ==
  ASSUME NEW e \in Entry
  PROVE  /\ e.op \in {"read", "write", "sync", "other"} /\ e.off \in Nat
         /\ e.len \in Nat /\ e.addr \in Nat /\ e.off * BlockSize \in Nat
<1>1. /\ e.op \in {"read", "write", "sync", "other"} /\ e.off \in Nat
      /\ e.len \in Nat /\ e.addr \in Nat /\ BlockSize \in Nat
  BY RamdiskAssumption
<1>2. e.off * BlockSize \in Nat
  BY <1>1
<1> QED  BY <1>1, <1>2

\* The client opens a request.
LEMMA SubmitStep ==
  ASSUME IInv, NEW e \in Entry, ClientSubmit(e)
  PROVE  IInv'
<1> DEFINE u == e.user
           r == Asked(e)
<1>0. /\ UNCHANGED <<data, buf, cq, drv, exec>> /\ sq' = Append(sq, e)
      /\ ask' = [ask EXCEPT ![u] = r] /\ ask[u] = None /\ Place(e) \cap InUse = {}
  BY DEF ClientSubmit
<1>1. u \in Users /\ sq \in Seq(Entry) /\ buf \in Bytes /\ None \notin Requests
  BY Typed
<1>2. r \in Requests /\ Same(r, e) /\ Waits(r, buf) /\ Place(r) = Place(e)
  <2>1. /\ r.op = e.op /\ r.len = e.len /\ r.addr = e.addr /\ r.at = e.off * BlockSize
        /\ r.data = (IF e.op = "write" /\ Within(e) THEN Piece(buf, e) ELSE << >>)
        /\ r = [op |-> r.op, at |-> r.at, len |-> r.len, addr |-> r.addr, data |-> r.data]
    BY DEF Asked, Piece, Within
  <2> HIDE DEF r
  <2>2. r.data \in Seq(Val)
    <3>1. CASE e.op = "write" /\ Within(e)
      BY <1>0, <1>1, <2>1, <3>1, EntryIs, PieceType
    <3>2. CASE ~(e.op = "write" /\ Within(e))
      BY <2>1, <3>2
    <3> QED  BY <3>1, <3>2
  <2>3. r \in Requests
    BY <1>0, <2>1, <2>2, EntryIs DEF Requests
  <2>4. Same(r, e)
    BY <1>0, <2>1 DEF Same
  <2>5. Piece(buf, r) = Piece(buf, e) /\ (Within(r) <=> Within(e)) /\ Place(r) = Place(e)
    BY <2>1 DEF Piece, Within, Place
  <2>6. Waits(r, buf)
    BY <1>0, <2>1, <2>5, EntryIs DEF Waits
  <2> QED  BY <2>3, <2>4, <2>5, <2>6
<1> HIDE DEF r
<1>3. /\ ~Has(sq, u) /\ exec[u] = None /\ ~Serving(u) /\ ~Has(cq, u) /\ Once(sq)
  BY <1>0, <1>1 DEF IInv, Places
<1>4. /\ \A v : Has(sq', v) <=> Has(sq, v) \/ v = u
      /\ Once(sq')
  BY <1>0, <1>1, <1>3, HasAppend
<1>5. /\ ask'[u] = r /\ \A v \in Users : v # u => ask'[v] = ask[v]
      /\ ask' \in [Users -> Requests \cup {None}]
  BY <1>0, <1>1, <1>2 DEF IInv, TypeOK
<1>6. TypeOK'
  BY <1>0, <1>1, <1>5 DEF IInv, TypeOK
<1>7. Places'
  <2>1. \A v : (Serving(v)' <=> Serving(v)) /\ (Has(cq, v)' <=> Has(cq, v))
    BY <1>0 DEF Serving, Has
  <2>2. ASSUME NEW v \in Users
        PROVE  /\ Has(sq', v) => ask'[v] # None /\ exec'[v] = None
               /\ exec'[v] # None => ask'[v] # None
               /\ Serving(v)' \/ Has(cq', v) => exec'[v] # None
               /\ Serving(v)' => ~Has(cq', v)
    <3>1. CASE v = u
      BY <1>0, <1>1, <1>2, <1>3, <1>5, <2>1, <3>1
    <3>2. CASE v # u
      BY <1>0, <1>4, <1>5, <2>1, <3>2 DEF IInv, Places
    <3> QED  BY <3>1, <3>2
  <2>3. Once(cq')
    BY <1>0 DEF IInv, Places
  <2> QED  BY <1>4, <2>2, <2>3 DEF Places
<1>8. Apart'
  <2>1. ASSUME NEW v \in Users, v # u, ask[v] # None PROVE Place(ask[v]) \cap Place(r) = {}
    BY <1>0, <1>2, <2>1 DEF InUse
  <2>2. ASSUME NEW v \in Users, NEW w \in Users, v # w, ask'[v] # None, ask'[w] # None
        PROVE  Place(ask'[v]) \cap Place(ask'[w]) = {}
    BY <1>5, <2>1, <2>2 DEF IInv, Apart
  <2> QED  BY <2>2 DEF Apart, Place
<1>9. Queued'
  <2>1. ASSUME NEW i \in 1 .. Len(sq')
        PROVE  Same(ask'[sq'[i].user], sq'[i]) /\ Waits(ask'[sq'[i].user], buf)
    <3>1. CASE i \in 1 .. Len(sq)
      <4>1. sq'[i] = sq[i] /\ sq[i].user \in Users /\ sq[i].user # u
        BY <1>0, <1>1, <1>3, <3>1, Typed DEF Has
      <4> QED  BY <1>5, <3>1, <4>1 DEF IInv, Queued
    <3>2. CASE i \notin 1 .. Len(sq)
      <4>1. sq'[i] = e
        BY <1>0, <1>1, <3>2
      <4> QED  BY <1>2, <1>5, <4>1
    <3> QED  BY <3>1, <3>2
  <2> QED  BY <1>0, <2>1 DEF Queued
<1>10. Served'
  <2>1. ASSUME NEW v \in Users, exec[v] # None PROVE Shows(ask'[v], exec[v], buf)
    BY <1>3, <1>5, <2>1 DEF IInv, Served
  <2> QED  BY <1>0, <2>1 DEF IInv, Served
<1> QED  BY <1>6, <1>7, <1>8, <1>9, <1>10 DEF IInv

\* The client reads an answer.
LEMMA ReapStep ==
  ASSUME IInv, ClientReap
  PROVE  IInv'
<1> DEFINE u == Head(cq).user
<1>0. /\ UNCHANGED <<data, buf, sq, drv>> /\ cq # << >> /\ cq' = Tail(cq)
      /\ ask' = [ask EXCEPT ![u] = None] /\ exec' = [exec EXCEPT ![u] = None]
  BY DEF ClientReap
<1>1. /\ cq \in Seq(Answers) /\ Once(cq) /\ Head(cq) \in Answers /\ Has(cq, u)
      /\ ~Has(cq', u) /\ Once(cq') /\ cq' \in Seq(Answers)
      /\ \A v : v # u => (Has(cq', v) <=> Has(cq, v))
      /\ \A i \in 1 .. Len(cq') : i + 1 \in 1 .. Len(cq) /\ cq'[i] = cq[i + 1]
  <2>1. cq \in Seq(Answers) /\ Once(cq) /\ cq # << >>
    BY <1>0, Typed DEF IInv, Places
  <2>2. Tail(cq) \in Seq(Answers)
    BY <2>1
  <2> QED  BY <1>0, <2>1, <2>2, HasTail
<1>2. u \in Users
  BY <1>1 DEF Answers
<1> HIDE DEF u
<1>3. exec[u] # None /\ ~Has(sq, u) /\ ~Serving(u)
  BY <1>1, <1>2 DEF IInv, Places
<1>4. /\ ask'[u] = None /\ exec'[u] = None
      /\ \A v \in Users : v # u => ask'[v] = ask[v] /\ exec'[v] = exec[v]
      /\ ask' \in [Users -> Requests \cup {None}] /\ exec' \in [Users -> Outcomes \cup {None}]
  BY <1>0, <1>2 DEF IInv, TypeOK
<1>5. TypeOK'
  BY <1>0, <1>1, <1>4 DEF IInv, TypeOK
<1>6. Places'
  <2>1. \A v : (Serving(v)' <=> Serving(v)) /\ (Has(sq, v)' <=> Has(sq, v))
    BY <1>0 DEF Serving, Has
  <2>2. ASSUME NEW v \in Users
        PROVE  /\ Has(sq', v) => ask'[v] # None /\ exec'[v] = None
               /\ exec'[v] # None => ask'[v] # None
               /\ Serving(v)' \/ Has(cq', v) => exec'[v] # None
               /\ Serving(v)' => ~Has(cq', v)
    <3>1. CASE v = u
      BY <1>1, <1>3, <1>4, <2>1, <3>1
    <3>2. CASE v # u
      BY <1>1, <1>4, <2>1, <3>2 DEF IInv, Places
    <3> QED  BY <3>1, <3>2
  <2>3. Once(sq')
    BY <1>0 DEF IInv, Places
  <2> QED  BY <1>1, <2>2, <2>3 DEF Places
<1>7. Apart'
  <2>1. ASSUME NEW v \in Users, NEW w \in Users, v # w, ask'[v] # None, ask'[w] # None
        PROVE  Place(ask'[v]) \cap Place(ask'[w]) = {}
    BY <1>4, <2>1 DEF IInv, Apart
  <2> QED  BY <2>1 DEF Apart, Place
<1>8. Queued'
  <2>1. ASSUME NEW i \in 1 .. Len(sq)
        PROVE  Same(ask'[sq[i].user], sq[i]) /\ Waits(ask'[sq[i].user], buf)
    <3>1. sq[i].user \in Users /\ sq[i].user # u
      BY <1>3, Typed DEF Has
    <3> QED  BY <1>4, <3>1 DEF IInv, Queued
  <2> QED  BY <1>0, <2>1 DEF Queued
<1>9. Served'
  <2>1. drv.pc = "complete" => exec'[drv.sqe.user].res = Res(drv.sqe)
    <3>1. drv.pc = "complete" => drv.sqe.user \in Users /\ drv.sqe.user # u
      BY <1>3, Typed DEF Serving
    <3> QED  BY <1>4, <3>1 DEF IInv, Served
  <2>2. ASSUME NEW i \in 1 .. Len(cq') PROVE exec'[cq'[i].user].res = cq'[i].res
    <3>1. i + 1 \in 1 .. Len(cq) /\ cq'[i] = cq[i + 1]
      BY <1>1
    <3>2. cq'[i].user # u
      BY <1>1 DEF Has
    <3>3. cq[i + 1].user \in Users /\ exec[cq[i + 1].user].res = cq[i + 1].res
      BY <3>1, Typed DEF IInv, Served
    <3> QED  BY <1>4, <3>1, <3>2, <3>3
  <2>3. ASSUME NEW v \in Users, exec'[v] # None PROVE Shows(ask'[v], exec'[v], buf)
    BY <1>4, <2>3 DEF IInv, Served
  <2> QED  BY <1>0, <2>1, <2>2, <2>3 DEF Served
<1> QED  BY <1>5, <1>6, <1>7, <1>8, <1>9 DEF IInv

\* The driver posts an answer.
LEMMA PostStep ==
  ASSUME IInv, Complete, Len(cq) < CqSize
  PROVE  IInv'
<1> DEFINE e == drv.sqe
           u == drv.sqe.user
           x == [user |-> e.user, res |-> Res(e)]
<1>0. /\ UNCHANGED <<data, buf, sq, ask, exec>> /\ cq' = Append(cq, x) /\ drv.pc = "complete"
      /\ drv' = [Idle EXCEPT !.pc = "next"]
  <2>1. Len(cq) \in Nat /\ CqSize \in Nat
    BY Typed, RamdiskAssumption
  <2> QED  BY <2>1 DEF Complete
<1>1. e \in Entry /\ u \in Users /\ cq \in Seq(Answers) /\ Serving(u)
  BY <1>0, Typed DEF Serving
<1>2. Once(cq) /\ ~Has(cq, u) /\ exec[u] # None /\ exec[u].res = Res(e)
  BY <1>0, <1>1 DEF IInv, Places, Served
<1>3. exec[u] \in Outcomes
  BY <1>1, <1>2, Typed
<1>4. x \in Answers /\ x.user = u /\ x.res = exec[u].res
  BY <1>1, <1>2, <1>3 DEF Answers, Outcomes
<1> HIDE DEF x, e
<1>5. /\ \A v : Has(cq', v) <=> Has(cq, v) \/ v = u
      /\ Once(cq') /\ cq' \in Seq(Answers)
  BY <1>0, <1>1, <1>2, <1>4, HasAppend
<1>6. /\ drv' \in [pc : {"idle", "next", "complete", "dead"}, sqe : Entry \cup {None}]
      /\ drv'.pc = "next"
  BY <1>0 DEF Idle
<1>7. TypeOK'
  BY <1>0, <1>5, <1>6 DEF IInv, TypeOK
<1>8. Places'
  <2>1. \A v : ~Serving(v)' /\ (Has(sq, v)' <=> Has(sq, v))
    BY <1>0, <1>6 DEF Serving, Has
  <2>2. Once(sq')
    BY <1>0 DEF IInv, Places
  <2> QED  BY <1>0, <1>1, <1>2, <1>5, <2>1, <2>2 DEF IInv, Places
<1>9. Apart'
  BY <1>0 DEF IInv, Apart, Place
<1>10. Queued'
  BY <1>0 DEF IInv, Queued
<1>11. Served'
  <2>1. ASSUME NEW i \in 1 .. Len(cq') PROVE exec[cq'[i].user].res = cq'[i].res
    <3>1. CASE i \in 1 .. Len(cq)
      <4>1. cq'[i] = cq[i]
        BY <1>0, <1>1, <1>4, <3>1
      <4> QED  BY <3>1, <4>1 DEF IInv, Served
    <3>2. CASE i \notin 1 .. Len(cq)
      <4>1. cq'[i] = x
        BY <1>0, <1>1, <1>4, <3>2
      <4> QED  BY <1>4, <4>1
    <3> QED  BY <3>1, <3>2
  <2>2. \A v \in Users : exec[v] # None => Shows(ask[v], exec[v], buf)
    BY DEF IInv, Served
  <2> QED  BY <1>0, <1>6, <2>1, <2>2 DEF Served
<1> QED  BY <1>7, <1>8, <1>9, <1>10, <1>11 DEF IInv

\* What is done about a request on a disk that holds d.
Done(r, d) ==
  [res |-> IF Permitted(r) THEN (IF r.op = "sync" THEN 0 ELSE r.len) ELSE -1,
   val |-> IF r.op = "read" /\ Permitted(r) THEN [i \in 1 .. r.len |-> d[r.at + i - 1]] ELSE << >>]

\* What a step of handle_io makes of the request at the head of the ring.
LEMMA ServeFacts ==
  ASSUME IInv, Serve, ~wrapped', NEW e, e = Head(sq), NEW u, u = e.user, NEW r, r = ask[u]
  PROVE  /\ e \in Entry /\ u \in Users /\ r \in Requests /\ Same(r, e) /\ Waits(r, buf)
         /\ exec[u] = None /\ ~Serving(u) /\ ~Has(cq, u)
         /\ UNCHANGED <<cq, ask>> /\ sq' = Tail(sq) /\ sq # << >> /\ drv.pc = "next"
         /\ drv' = [pc |-> "complete", sqe |-> e]
         /\ data' = IF Permitted(r) /\ r.op = "write"
                      THEN Copy(buf, r.addr - BufVa, data, r.at, r.len) ELSE data
         /\ buf' = IF Permitted(r) /\ r.op = "read"
                      THEN Copy(data, r.at, buf, r.addr - BufVa, r.len) ELSE buf
         /\ exec' = [v \in Users |-> exec'[v]] /\ exec'[u] = Done(r, data)
         /\ \A v \in Users : v # u => exec'[v] = exec[v]
<1>1. sq \in Seq(Entry) /\ sq # << >> /\ Once(sq)
  BY Typed DEF Serve, Take, IInv, Places
<1>2. e \in Entry /\ e = sq[1] /\ 1 \in 1 .. Len(sq) /\ u \in Users
  BY <1>1, Typed
<1>3. Has(sq, u)
  BY <1>2 DEF Has
<1>4. ask[u] # None /\ exec[u] = None
  BY <1>2, <1>3 DEF IInv, Places
<1>5. r \in Requests /\ Same(r, e) /\ Waits(r, buf)
  BY <1>2, <1>4, Typed DEF IInv, Queued
<1>11. ~Misled(e)
  BY DEF Serve
<1>6. /\ Accepted(e) => Offset(e) = r.at
      /\ e.op = r.op /\ e.len = r.len /\ e.addr = r.addr
      /\ Permitted(r) <=> Accepted(e) /\ e.op # "other"
  BY <1>2, <1>5, <1>11, ChecksExact DEF Same
<1>7. /\ data' = IF Permitted(r) /\ r.op = "write"
                   THEN Copy(buf, r.addr - BufVa, data, r.at, r.len) ELSE data
      /\ buf' = IF Permitted(r) /\ r.op = "read"
                   THEN Copy(data, r.at, buf, r.addr - BufVa, r.len) ELSE buf
  BY <1>6 DEF Serve, Process, Copies
<1>8. /\ exec' = [v \in Users |-> exec'[v]] /\ exec'[u] = Done(r, data)
      /\ \A v \in Users : v # u => exec'[v] = exec[v]
  <2>1. PICK x : x = [res |-> Res(e),
                      val |-> IF e.op = "read" /\ Accepted(e)
                                THEN [i \in 1 .. e.len |-> data[Offset(e) + i - 1]] ELSE << >>]
    OBVIOUS
  <2>2. exec' = [exec EXCEPT ![u] = x]
    BY <1>2, <2>1 DEF Serve
  <2>3. exec \in [Users -> Outcomes \cup {None}]
    BY DEF IInv, TypeOK
  <2>4. /\ exec' = [v \in Users |-> exec'[v]] /\ exec'[u] = x
        /\ \A v \in Users : v # u => exec'[v] = exec[v]
    BY <1>2, <2>2, <2>3
  <2>5. Res(e) = IF Permitted(r) THEN (IF r.op = "sync" THEN 0 ELSE r.len) ELSE -1
    BY <1>2, <1>5, <1>11, ChecksExact
  <2>6. e.op = "read" /\ Accepted(e) <=> r.op = "read" /\ Permitted(r)
    BY <1>6
  <2>7. x = Done(r, data)
    <3>1. CASE r.op = "read" /\ Permitted(r)
      BY <1>6, <2>1, <2>5, <2>6, <3>1 DEF Done
    <3>2. CASE ~(r.op = "read" /\ Permitted(r))
      BY <2>1, <2>5, <2>6, <3>2 DEF Done
    <3> QED  BY <3>1, <3>2
  <2> QED  BY <2>4, <2>7
<1>9. ~Serving(u) /\ ~Has(cq, u)
  BY <1>2, <1>4 DEF IInv, Places
<1>10. /\ UNCHANGED <<cq, ask>> /\ sq' = Tail(sq) /\ drv.pc = "next"
       /\ drv' = [pc |-> "complete", sqe |-> e]
  BY DEF Serve, Take
<1> QED  BY <1>1, <1>2, <1>4, <1>5, <1>7, <1>8, <1>9, <1>10

\* c has what dst has, but for len bytes of src.
Moved(c, src, from, dst, to, len, n) ==
  /\ c \in [0 .. n - 1 -> Val]
  /\ \A i \in 0 .. n - 1 : i - to \notin 0 .. len - 1 => c[i] = dst[i]
  /\ \A i \in 1 .. len : c[to + i - 1] = src[from + i - 1]

\* The copies stay within the disk and the buffer, and move bytes unchanged.
LEMMA CopyIs ==
  ASSUME NEW m \in Nat, NEW n \in Nat,
         NEW src \in [0 .. m - 1 -> Val], NEW dst \in [0 .. n - 1 -> Val],
         NEW from \in Nat, NEW to \in Nat, NEW len \in Nat,
         from + len <= m, to + len <= n
  PROVE  Moved(Copy(src, from, dst, to, len), src, from, dst, to, len, n)
<1> DEFINE c == Copy(src, from, dst, to, len)
<1>1. c = [i \in 0 .. n - 1 |-> IF i - to \in 0 .. len - 1 THEN src[from + i - to] ELSE dst[i]]
  BY DEF Copy
<1> HIDE DEF c
<1>2. \A i \in 0 .. n - 1 : i - to \in 0 .. len - 1 => from + i - to \in 0 .. m - 1
  OBVIOUS
<1>3. c \in [0 .. n - 1 -> Val]
  BY <1>1, <1>2
<1>4. \A i \in 0 .. n - 1 : i - to \notin 0 .. len - 1 => c[i] = dst[i]
  BY <1>1
<1>5. ASSUME NEW i \in 1 .. len PROVE c[to + i - 1] = src[from + i - 1]
  <2>1. PICK j \in 0 .. n - 1 : j = to + i - 1
    OBVIOUS
  <2>2. j - to \in 0 .. len - 1 /\ from + j - to = from + i - 1
    BY <2>1
  <2>3. c[j] = src[from + j - to]
    BY <1>1, <2>2
  <2> QED  BY <2>1, <2>2, <2>3
<1> QED  BY <1>3, <1>4, <1>5 DEF c, Moved

\* A request that is permitted lies in the buffer and on the disk.
LEMMA PermittedIs ==
  ASSUME NEW r \in Requests, Permitted(r)
  PROVE  /\ Within(r) /\ r.at \in Nat /\ r.len \in Nat /\ r.addr \in Nat /\ r.addr - BufVa \in Nat
         /\ r.at + r.len <= DiskLen /\ (r.addr - BufVa) + r.len <= BufLen
         /\ DiskLen \in Nat /\ BufLen \in Nat /\ BufVa \in Nat
         /\ r.op \in {"read", "write", "sync"}
<1>1. /\ r.at \in Nat /\ r.len \in Nat /\ r.addr \in Nat
      /\ DiskLen \in Nat /\ BufLen \in Nat /\ BufVa \in Nat
  BY RamdiskAssumption DEF Requests
<1>2. Within(r) /\ r.at + r.len <= DiskLen /\ r.op \in {"read", "write", "sync"}
  BY DEF Permitted, Within
<1>3. r.addr >= BufVa /\ r.addr + r.len <= BufVa + BufLen
  BY <1>2 DEF Within
<1>4. r.addr - BufVa \in Nat /\ (r.addr - BufVa) + r.len <= BufLen
  BY <1>1, <1>3
<1> QED  BY <1>1, <1>2, <1>4

\* Serving a read puts the bytes of the disk in its place, and nothing elsewhere.
LEMMA ServeBytes ==
  ASSUME IInv, Serve, ~wrapped', NEW e, e = Head(sq), NEW u, u = e.user, NEW r, r = ask[u]
  PROVE  /\ data' \in [0 .. DiskLen - 1 -> Val] /\ buf' \in Bytes
         /\ exec'[u] \in Outcomes /\ exec'[u].res = Res(e)
         /\ Shows(r, exec'[u], buf')
         /\ \A v \in Users : v # u /\ ask[v] # None => Kept(buf, buf', ask[v]) /\ ask[v] \in Requests
<1> DEFINE x == exec'[u]
<1>0. /\ e \in Entry /\ u \in Users /\ r \in Requests /\ Same(r, e)
      /\ data' = IF Permitted(r) /\ r.op = "write"
                   THEN Copy(buf, r.addr - BufVa, data, r.at, r.len) ELSE data
      /\ buf' = IF Permitted(r) /\ r.op = "read"
                   THEN Copy(data, r.at, buf, r.addr - BufVa, r.len) ELSE buf
  BY ServeFacts
<1>7. ~Misled(e)
  BY DEF Serve
<1>1. /\ x.res = Res(e)
      /\ x.val = IF r.op = "read" /\ Permitted(r)
                   THEN [i \in 1 .. r.len |-> data[r.at + i - 1]] ELSE << >>
      /\ x = [res |-> x.res, val |-> x.val]
  <2>1. x = Done(r, data) /\ Res(e) = IF Permitted(r) THEN (IF r.op = "sync" THEN 0 ELSE r.len) ELSE -1
    BY <1>0, <1>7, ServeFacts, ChecksExact
  <2> QED  BY <2>1 DEF Done
<1> HIDE DEF x
<1>2. data \in [0 .. DiskLen - 1 -> Val] /\ buf \in Bytes
  BY Typed
<1>3. Res(e) = IF Permitted(r) THEN (IF r.op = "sync" THEN 0 ELSE r.len) ELSE -1
  BY <1>0, <1>7, ChecksExact
<1>4. data' \in [0 .. DiskLen - 1 -> Val]
  <2>1. CASE Permitted(r) /\ r.op = "write"
    <3>1. PICK from, to, len : from = r.addr - BufVa /\ to = r.at /\ len = r.len
      OBVIOUS
    <3>2. data' = Copy(buf, from, data, to, len)
      BY <1>0, <2>1, <3>1
    <3>3. /\ from \in Nat /\ to \in Nat /\ len \in Nat /\ from + len <= BufLen /\ to + len <= DiskLen
          /\ buf \in [0 .. BufLen - 1 -> Val] /\ DiskLen \in Nat /\ BufLen \in Nat
      BY <1>0, <1>2, <2>1, <3>1, PermittedIs DEF Bytes
    <3>4. Moved(Copy(buf, from, data, to, len), buf, from, data, to, len, DiskLen)
      BY <1>2, <3>3, CopyIs
    <3> QED  BY <3>2, <3>4 DEF Moved
  <2> QED  BY <1>0, <1>2, <2>1
<1>5. CASE Permitted(r) /\ r.op = "read"
  <2>0. /\ Within(r) /\ r.at \in Nat /\ r.len \in Nat /\ r.addr \in Nat /\ r.addr - BufVa \in Nat
        /\ r.at + r.len <= DiskLen /\ (r.addr - BufVa) + r.len <= BufLen
        /\ DiskLen \in Nat /\ BufLen \in Nat /\ BufVa \in Nat
    BY <1>0, <1>5, PermittedIs
  <2>9. PICK from, to, len : from = r.at /\ to = r.addr - BufVa /\ len = r.len
    OBVIOUS
  <2>8. buf' = Copy(data, from, buf, to, len)
    BY <1>0, <1>5, <2>9
  <2>7. /\ from \in Nat /\ to \in Nat /\ len \in Nat /\ from + len <= DiskLen /\ to + len <= BufLen
        /\ buf \in [0 .. BufLen - 1 -> Val]
    BY <1>2, <2>0, <2>9 DEF Bytes
  <2>11. Moved(Copy(data, from, buf, to, len), data, from, buf, to, len, BufLen)
    BY <1>2, <2>0, <2>7, CopyIs
  <2>1. /\ buf' \in Bytes
        /\ \A i \in 0 .. BufLen - 1 : i - (r.addr - BufVa) \notin 0 .. r.len - 1 => buf'[i] = buf[i]
        /\ \A i \in 1 .. r.len : buf'[(r.addr - BufVa) + i - 1] = data[r.at + i - 1]
    BY <2>8, <2>9, <2>11 DEF Bytes, Moved
  <2>2. x.val = Piece(buf', r)
    <3>1. x.val = [i \in 1 .. r.len |-> data[r.at + i - 1]]
      BY <1>1, <1>5
    <3>2. \A i \in 1 .. r.len : data[r.at + i - 1] = buf'[r.addr - BufVa + i - 1]
      BY <2>1
    <3> QED  BY <3>1, <3>2 DEF Piece
  <2>3. x.val \in Seq(Val)
    BY <2>0, <2>1, <2>2, PieceType
  <2>4. x.res = r.len
    BY <1>1, <1>3, <1>5
  <2>5. x \in Outcomes
    <3>1. x.res \in Int /\ x = [res |-> x.res, val |-> x.val]
      BY <1>1, <2>0, <2>4
    <3> QED  BY <2>3, <3>1 DEF Outcomes
  <2>6. ASSUME NEW v \in Users, v # u, ask[v] # None PROVE Kept(buf, buf', ask[v]) /\ ask[v] \in Requests
    <3>1. Place(ask[v]) \cap Place(r) = {} /\ ask[v] \in Requests
      BY <1>0, <2>6, Typed DEF IInv, Apart
    <3>2. ASSUME NEW y \in Place(ask[v]), y - BufVa \in 0 .. BufLen - 1
          PROVE  buf'[y - BufVa] = buf[y - BufVa]
      <4>1. y \in Int /\ y \notin Place(r)
        BY <3>1 DEF Place, Requests
      <4>2. (y - BufVa) - (r.addr - BufVa) \notin 0 .. r.len - 1
        BY <2>0, <4>1 DEF Place
      <4> QED  BY <2>1, <3>2, <4>2
    <3> QED  BY <3>1, <3>2 DEF Kept
  <2>12. Shows(r, x, buf')
    BY <1>5, <2>0, <2>2, <2>4 DEF Shows, IsRead
  <2> QED  BY <1>1, <1>4, <2>1, <2>5, <2>6, <2>12 DEF x
<1>6. CASE ~(Permitted(r) /\ r.op = "read")
  <2>1. buf' = buf /\ x.val = << >>
    BY <1>0, <1>1, <1>6
  <2>2. x.res \in Int /\ ~IsRead(r, x)
    BY <1>0, <1>1, <1>3, <1>6 DEF IsRead, Requests
  <2>3. x \in Outcomes
    <3>1. << >> \in Seq(Val) /\ x = [res |-> x.res, val |-> x.val]
      BY <1>1
    <3> QED  BY <2>1, <2>2, <3>1 DEF Outcomes
  <2>4. \A v \in Users : ask[v] # None => Kept(buf, buf', ask[v]) /\ ask[v] \in Requests
    BY <2>1, Typed DEF Kept
  <2> QED  BY <1>1, <1>2, <1>4, <2>1, <2>2, <2>3, <2>4 DEF Shows, x
<1> QED  BY <1>5, <1>6

\* The driver serves the request at the head of the ring.
LEMMA ServeStep ==
  ASSUME IInv, Serve, ~wrapped'
  PROVE  IInv'
<1>0. PICK e, u, r : e = Head(sq) /\ u = e.user /\ r = ask[u]
  OBVIOUS
<1>1. /\ e \in Entry /\ u \in Users /\ r \in Requests /\ Same(r, e)
      /\ exec[u] = None /\ ~Serving(u) /\ ~Has(cq, u)
      /\ UNCHANGED <<cq, ask>> /\ sq' = Tail(sq) /\ sq # << >> /\ drv.pc = "next"
      /\ drv' = [pc |-> "complete", sqe |-> e]
  BY <1>0, ServeFacts
<1>2. /\ data' \in [0 .. DiskLen - 1 -> Val] /\ buf' \in Bytes
      /\ exec'[u] \in Outcomes /\ exec'[u].res = Res(e)
      /\ Shows(r, exec'[u], buf')
      /\ \A v \in Users : v # u /\ ask[v] # None => Kept(buf, buf', ask[v]) /\ ask[v] \in Requests
  BY <1>0, ServeBytes
<1>3. /\ exec' \in [Users -> Outcomes \cup {None}]
      /\ \A v \in Users : v # u => exec'[v] = exec[v]
  <2>1. exec' = [v \in Users |-> exec'[v]] /\ \A v \in Users : v # u => exec'[v] = exec[v]
    BY <1>0, ServeFacts
  <2>2. \A v \in Users : exec'[v] \in Outcomes \cup {None}
    BY <1>2, <2>1, Typed
  <2> QED  BY <2>1, <2>2
<1>4. /\ sq \in Seq(Entry) /\ Once(sq) /\ sq' \in Seq(Entry) /\ Once(sq') /\ ~Has(sq', u)
      /\ \A v : v # u => (Has(sq', v) <=> Has(sq, v))
      /\ \A i \in 1 .. Len(sq') : i + 1 \in 1 .. Len(sq) /\ sq'[i] = sq[i + 1]
  <2>1. sq \in Seq(Entry) /\ Once(sq)
    BY Typed DEF IInv, Places
  <2>2. Tail(sq) \in Seq(Entry)
    BY <1>1, <2>1
  <2> QED  BY <1>0, <1>1, <2>1, <2>2, HasTail
<1>5. ask[u] # None /\ exec'[u] # None /\ None \notin Outcomes
  BY <1>0, <1>1, <1>2, Typed
<1>6. TypeOK'
  <2>1. drv' \in [pc : {"idle", "next", "complete", "dead"}, sqe : Entry \cup {None}] /\ drv'.sqe \in Entry
    BY <1>1
  <2> QED  BY <1>1, <1>2, <1>3, <1>4, <2>1 DEF IInv, TypeOK
<1>7. Places'
  <2>1. \A v : (Serving(v)' <=> v = u) /\ (Has(cq, v)' <=> Has(cq, v)) /\ ~Serving(v)
    BY <1>0, <1>1 DEF Serving, Has
  <2>2. ASSUME NEW v \in Users
        PROVE  /\ Has(sq', v) => ask'[v] # None /\ exec'[v] = None
               /\ exec'[v] # None => ask'[v] # None
               /\ Serving(v)' \/ Has(cq', v) => exec'[v] # None
               /\ Serving(v)' => ~Has(cq', v)
    <3>1. CASE v = u
      BY <1>1, <1>4, <1>5, <2>1, <3>1
    <3>2. CASE v # u
      BY <1>1, <1>3, <1>4, <2>1, <3>2 DEF IInv, Places
    <3> QED  BY <3>1, <3>2
  <2>3. Once(cq')
    BY <1>1 DEF IInv, Places
  <2> QED  BY <1>4, <2>2, <2>3 DEF Places
<1>8. Apart'
  BY <1>1 DEF IInv, Apart, Place
<1>9. Queued'
  <2>1. ASSUME NEW i \in 1 .. Len(sq')
        PROVE  Same(ask[sq'[i].user], sq'[i]) /\ Waits(ask[sq'[i].user], buf')
    <3>1. PICK j \in 1 .. Len(sq) : sq'[i] = sq[j]
      BY <1>4
    <3>2. sq[j].user \in Users /\ sq[j].user # u /\ ask[sq[j].user] # None
      BY <1>4, <3>1, Typed DEF IInv, Places, Has
    <3>3. Same(ask[sq[j].user], sq[j]) /\ Waits(ask[sq[j].user], buf)
      BY DEF IInv, Queued
    <3> QED  BY <1>2, <3>1, <3>2, <3>3, KeptIs, Typed
  <2> QED  BY <1>1, <2>1 DEF Queued
<1>10. Served'
  <2>1. drv'.pc = "complete" => exec'[drv'.sqe.user].res = Res(drv'.sqe)
    BY <1>0, <1>1, <1>2
  <2>2. ASSUME NEW i \in 1 .. Len(cq) PROVE exec'[cq[i].user].res = cq[i].res
    <3>1. cq[i].user \in Users /\ cq[i].user # u
      BY <1>1, Typed DEF Has
    <3> QED  BY <1>3, <3>1 DEF IInv, Served
  <2>3. ASSUME NEW v \in Users, exec'[v] # None PROVE Shows(ask[v], exec'[v], buf')
    <3>1. CASE v = u
      BY <1>0, <1>2, <3>1
    <3>2. CASE v # u
      <4>1. exec'[v] = exec[v] /\ ask[v] # None /\ Shows(ask[v], exec[v], buf)
        BY <1>3, <2>3, <3>2 DEF IInv, Places, Served
      <4> QED  BY <1>2, <3>2, <4>1, KeptIs, Typed
    <3> QED  BY <3>1, <3>2
  <2> QED  BY <1>1, <2>1, <2>2, <2>3 DEF Served
<1> QED  BY <1>6, <1>7, <1>8, <1>9, <1>10 DEF IInv

\* A driver that panics leaves the request it took unanswered.
LEMMA PanicStep ==
  ASSUME IInv, ServePanic
  PROVE  IInv'
<1> DEFINE e == Head(sq)
<1>0. /\ UNCHANGED <<data, buf, cq, ask, exec>> /\ sq # << >> /\ sq' = Tail(sq)
      /\ drv.pc = "next" /\ drv' = [pc |-> "dead", sqe |-> e]
  BY DEF ServePanic, Take
<1>1. sq \in Seq(Entry) /\ Once(sq)
  BY Typed DEF IInv, Places
<1>2. /\ e \in Entry /\ Once(sq') /\ ~Has(sq', e.user) /\ sq' \in Seq(Entry)
      /\ \A v : v # e.user => (Has(sq', v) <=> Has(sq, v))
      /\ \A i \in 1 .. Len(sq') : i + 1 \in 1 .. Len(sq) /\ sq'[i] = sq[i + 1]
  <2>1. Tail(sq) \in Seq(Entry)
    BY <1>0, <1>1
  <2> QED  BY <1>0, <1>1, <2>1, HasTail
<1> HIDE DEF e
<1>3. TypeOK'
  <2>1. /\ drv' \in [pc : {"idle", "next", "complete", "dead"}, sqe : Entry \cup {None}]
        /\ drv'.pc = "dead"
    BY <1>0, <1>2
  <2> QED  BY <1>0, <1>2, <2>1 DEF IInv, TypeOK
<1>4. Places'
  <2>1. \A v : ~Serving(v)' /\ (Has(cq, v)' <=> Has(cq, v)) /\ (Has(sq', v) => Has(sq, v))
    BY <1>0, <1>2 DEF Serving, Has
  <2>2. Once(cq')
    BY <1>0 DEF IInv, Places
  <2> QED  BY <1>0, <1>2, <2>1, <2>2 DEF IInv, Places
<1>5. Apart'
  BY <1>0 DEF IInv, Apart, Place
<1>6. Queued'
  <2>1. ASSUME NEW i \in 1 .. Len(sq') PROVE Same(ask[sq'[i].user], sq'[i]) /\ Waits(ask[sq'[i].user], buf)
    BY <1>2 DEF IInv, Queued
  <2> QED  BY <1>0, <2>1 DEF Queued
<1>7. Served'
  BY <1>0 DEF IInv, Served
<1> QED  BY <1>3, <1>4, <1>5, <1>6, <1>7 DEF IInv

\* Only a request let through with a sum that overflowed is copied beyond
\* the buffer or the disk.
LEMMA StrayIs ==
  ASSUME IInv, ServeStray
  PROVE  wrapped'
<1>0. PICK e, u, r : e = Head(sq) /\ u = e.user /\ r = ask[u]
  OBVIOUS
<1>1. sq # << >> /\ Copies(e) /\ ~Inside(e) /\ wrapped' = (wrapped \/ Misled(e))
  BY <1>0 DEF ServeStray, Take
<1>2. sq \in Seq(Entry) /\ e = sq[1] /\ 1 \in 1 .. Len(sq) /\ e \in Entry /\ u \in Users
  BY <1>0, <1>1, Typed
<1>3. r \in Requests /\ Same(r, e)
  <2>1. ask[u] # None
    BY <1>0, <1>2 DEF IInv, Places, Has
  <2> QED  BY <1>0, <1>2, <2>1, Typed DEF IInv, Queued
<1>4. ASSUME ~Misled(e) PROVE Inside(e)
  <2>1. Fits(r) /\ Offset(e) = r.at
    BY <1>1, <1>2, <1>3, <1>4, ChecksExact DEF Copies
  <2> QED  BY <1>3, <2>1 DEF Fits, Within, Same, Inside
<1> QED  BY <1>1, <1>4

\* What has wrapped stays so.
LEMMA WrappedStays == wrapped /\ [Next]_vars => wrapped'
<1> SUFFICES ASSUME wrapped, [Next]_vars PROVE wrapped'
  OBVIOUS
<1>1. CASE Driver
  BY <1>1 DEF Driver, Recv, Serve, ServeStray, ServePanic, ServeDone, Complete
<1>2. CASE Client
  BY <1>2 DEF Client, ClientSubmit, ClientFill, ClientNotify, ClientReap
<1>3. CASE UNCHANGED vars
  BY <1>3 DEF vars
<1> QED  BY <1>1, <1>2, <1>3 DEF Next

\* At the beginning there are no requests.
LEMMA InitIInv == Init => IInv
<1> SUFFICES ASSUME Init PROVE IInv
  OBVIOUS
<1>1. /\ 0 \in Val /\ sq = << >> /\ cq = << >> /\ buf \in Bytes /\ drv = Idle
      /\ data \in [0 .. DiskLen - 1 -> Val]
      /\ ask = [u \in Users |-> None] /\ exec = [u \in Users |-> None]
  BY RamdiskAssumption DEF Init, Bytes
<1>2. drv.pc = "idle" /\ drv \in [pc : {"idle", "next", "complete", "dead"}, sqe : Entry \cup {None}]
  BY <1>1 DEF Idle
<1>3. \A u : ~Has(sq, u) /\ ~Has(cq, u) /\ ~Serving(u)
  BY <1>1, <1>2 DEF Has, Serving
<1>4. TypeOK
  BY <1>1, <1>2 DEF TypeOK
<1>5. Places
  BY <1>1, <1>3 DEF Places, Once
<1>6. Apart
  BY <1>1 DEF Apart
<1>7. Queued /\ Served
  BY <1>1, <1>2 DEF Queued, Served
<1> QED  BY <1>4, <1>5, <1>6, <1>7 DEF IInv

\* An answer that does not fit leaves the driver idle.
LEMMA FullStep ==
  ASSUME IInv, Complete, ~(Len(cq) < CqSize)
  PROVE  UNCHANGED <<data, buf, sq, cq, ask, exec>> /\ drv' = Idle
BY DEF Complete

\* The invariant, up to the first request that is let through wrongly.
Sound == wrapped \/ IInv

\* Every step keeps the invariant.
LEMMA NextIInv == IInv /\ [Next]_vars => Sound'
<1> SUFFICES ASSUME IInv, [Next]_vars, ~wrapped' PROVE IInv'
  BY DEF Sound
<1>1. CASE Recv
  <2>1. drv \in [pc : {"idle", "next", "complete", "dead"}, sqe : Entry \cup {None}]
    BY DEF IInv, TypeOK
  <2>2. /\ drv' \in [pc : {"idle", "next", "complete", "dead"}, sqe : Entry \cup {None}] /\ drv'.pc = "next"
        /\ UNCHANGED <<data, buf, sq, cq, ask, exec>>
    BY <1>1, <2>1 DEF Recv
  <2> QED  BY <2>2, QuietStep
<1>2. CASE Serve
  BY <1>2, ServeStep
<1>10. CASE ServeStray
  BY <1>10, StrayIs
<1>11. CASE ServePanic
  BY <1>11, PanicStep
<1>3. CASE ServeDone
  BY <1>3, QuietStep DEF ServeDone, Idle
<1>4. CASE Complete
  <2>1. CASE Len(cq) < CqSize
    BY <1>4, <2>1, PostStep
  <2>2. CASE ~(Len(cq) < CqSize)
    BY <1>4, <2>2, FullStep, QuietStep DEF Idle
  <2> QED  BY <2>1, <2>2
<1>5. CASE \E e \in Entry : ClientSubmit(e)
  BY <1>5, SubmitStep
<1>6. CASE \E a \in DOMAIN buf, v \in Val : ClientFill(a, v)
  BY <1>6, FillStep
<1>7. CASE ClientNotify
  BY <1>7, QuietStep DEF ClientNotify
<1>8. CASE ClientReap
  BY <1>8, ReapStep
<1>9. CASE UNCHANGED vars
  BY <1>9, QuietStep DEF vars
<1> QED
  BY <1>1, <1>2, <1>3, <1>4, <1>5, <1>6, <1>7, <1>8, <1>9, <1>10, <1>11 DEF Next, Driver, Client

(* Requests keep their places and bytes: IInv holds of every reachable     *)
(* state (handle_io, process_sqe and a client that leaves open requests    *)
(* alone), until a request passes the checks with a sum that overflowed.   *)
THEOREM Invariance == Spec => []Sound
<1>1. Init => Sound
  BY InitIInv DEF Sound
<1>2. Sound /\ [Next]_vars => Sound'
  BY NextIInv, WrappedStays DEF Sound
<1> QED  BY <1>1, <1>2, PTL DEF Spec

-----------------------------------------------------------------------------
(* The disk that is implemented.                                           *)

\* What the users were told.
Told == [u \in Users |-> IF Has(cq, u) THEN exec[u] ELSE None]

ToldTrue == [u \in Users |-> AnswerIn(u)] = Told

\* Told is what the refinement maps to the answers.
LEMMA ToldIs == IInv => ToldTrue
BY AnswerIs DEF Told, ToldTrue

\* And it is so after a step.
LEMMA ToldNext == IInv' => ToldTrue'
BY ToldIs, PTL

\* A function that differs in one place.
LEMMA Updated ==
  ASSUME NEW S, NEW f, NEW g, NEW u \in S, NEW y,
         f = [v \in S |-> f[v]], g = [v \in S |-> g[v]], g[u] = y, \A v \in S : v # u => g[v] = f[v]
  PROVE  g = [f EXCEPT ![u] = y]
<1>1. PICK h : h = [f EXCEPT ![u] = y]
  OBVIOUS
<1>2. h = [v \in S |-> h[v]] /\ \A v \in S : h[v] = g[v]
  BY <1>1
<1> QED  BY <1>1, <1>2

\* The functions of the disk are functions of the users.
LEMMA Maps ==
  ASSUME IInv
  PROVE  /\ ask = [v \in Users |-> ask[v]] /\ exec = [v \in Users |-> exec[v]]
         /\ Told = [v \in Users |-> Told[v]]
         /\ \A u \in Users : Told[u] = IF Has(cq, u) THEN exec[u] ELSE None
<1>1. ask = [v \in Users |-> ask[v]] /\ exec = [v \in Users |-> exec[v]]
  BY DEF IInv, TypeOK
<1> QED  BY <1>1 DEF Told

\* Submitting is asking.
LEMMA AskStep ==
  ASSUME IInv, IInv', NEW e \in Entry, ClientSubmit(e)
  PROVE  \E u \in Users : Store!Ask(u)
<1>1. PICK u \in Users : u = e.user
  BY Typed
<1>2. /\ UNCHANGED <<data, exec, cq>> /\ ask[u] = None /\ ask' = [ask EXCEPT ![u] = Asked(e)]
      /\ ask \in [Users -> Requests \cup {None}] /\ ask' \in [Users -> Requests \cup {None}]
  BY <1>1 DEF ClientSubmit, IInv, TypeOK
<1>3. ask'[u] = Asked(e) /\ Asked(e) # None
  <2>1. ask'[u] = Asked(e)
    BY <1>2
  <2>2. Has(sq', u)
    <3>1. sq' = Append(sq, e) /\ sq \in Seq(Entry)
      BY Typed DEF ClientSubmit
    <3> QED  BY <1>1, <3>1, HasAppend, Typed DEF Has
  <2> QED  BY <2>1, <2>2 DEF IInv, Places
<1>4. ask'[u] \in Requests /\ ask' = [ask EXCEPT ![u] = ask'[u]]
  BY <1>2, <1>3
<1>5. Told' = Told
  BY <1>2 DEF Told, Has
<1>6. Store!Ask(u)
  BY <1>2, <1>4, <1>5, ToldIs, ToldNext DEF ToldTrue, Store!Ask
<1> QED  BY <1>6

\* Serving is doing, on a disk that allows what the checks permit.
LEMMA DoStep ==
  ASSUME IInv, IInv', Serve, ~wrapped'
  PROVE  \E u \in Users : Store!Do(u)
<1>0. PICK e, u, r : e = Head(sq) /\ u = e.user /\ r = ask[u]
  OBVIOUS
<1>1. /\ u \in Users /\ r \in Requests /\ Same(r, e) /\ Waits(r, buf)
      /\ exec[u] = None /\ ~Has(cq, u) /\ UNCHANGED <<cq, ask>>
      /\ exec' = [v \in Users |-> exec'[v]] /\ exec'[u] = Done(r, data)
      /\ \A v \in Users : v # u => exec'[v] = exec[v]
  BY <1>0, ServeFacts
<1>2. data' = IF Permitted(r) /\ r.op = "write"
                THEN Copy(buf, r.addr - BufVa, data, r.at, r.len) ELSE data
  BY <1>0, ServeFacts
<1>3. Done(r, data) = Store!Outcome(r)
  <2>1. CASE ~Permitted(r)
    BY <2>1 DEF Done, Store!Outcome
  <2>2. CASE Permitted(r) /\ r.op = "read"
    BY <2>2 DEF Done, Store!Outcome, Store!Slice
  <2>3. CASE Permitted(r) /\ r.op # "read"
    BY <2>3 DEF Done, Store!Outcome
  <2> QED  BY <2>1, <2>2, <2>3
<1>4. data' = IF r.op = "write" /\ Permitted(r) THEN Store!Stored(r) ELSE data
  <2>1. CASE Permitted(r) /\ r.op = "write"
    <3>1. /\ Within(r) /\ r.at \in Nat /\ r.len \in Nat /\ r.addr - BufVa \in Nat
          /\ DiskLen \in Nat /\ data \in [0 .. DiskLen - 1 -> Val]
          /\ r.addr \in Nat /\ BufVa \in Nat
      BY <1>1, <2>1, PermittedIs, Typed
    <3>2. r.data = Piece(buf, r)
      BY <1>1, <2>1, <3>1 DEF Waits
    <3>3. \A i \in 0 .. DiskLen - 1 : i - r.at \in 0 .. r.len - 1 =>
            r.data[i - r.at + 1] = buf[(r.addr - BufVa) + i - r.at]
      <4> SUFFICES ASSUME NEW i \in 0 .. DiskLen - 1, i - r.at \in 0 .. r.len - 1
                   PROVE  r.data[i - r.at + 1] = buf[(r.addr - BufVa) + i - r.at]
        OBVIOUS
      <4>0. i \in Int /\ r.at \in Int /\ r.len \in Int
        BY <3>1
      <4>3. i - r.at + 1 \in 1 .. r.len
        BY <4>0
      <4>1. PICK k \in 1 .. r.len : k = i - r.at + 1
        BY <4>3
      <4>2. r.addr - BufVa + k - 1 = (r.addr - BufVa) + i - r.at
        BY <3>1, <4>0, <4>1
      <4>4. r.data[k] = buf[r.addr - BufVa + k - 1]
        BY <3>2 DEF Piece
      <4> QED  BY <4>1, <4>2, <4>4
    <3>4. Store!Stored(r) = Copy(buf, r.addr - BufVa, data, r.at, r.len)
      BY <3>1, <3>3 DEF Store!Stored, Copy
    <3> QED  BY <1>2, <2>1, <3>4
  <2> QED  BY <1>2, <2>1
<1>5. exec' = [exec EXCEPT ![u] = Store!Outcome(r)]
  BY <1>1, <1>3, Maps, Updated
<1>6. ask[u] # None
  BY <1>0, <1>1, Typed
<1>7. Told' = Told
  <2>1. ASSUME NEW v \in Users
        PROVE  (IF Has(cq, v) THEN exec[v] ELSE None) = (IF Has(cq, v) THEN exec'[v] ELSE None)
    BY <1>1
  <2>2. \A v : Has(cq, v)' <=> Has(cq, v)
    BY <1>1 DEF Has
  <2> QED  BY <2>1, <2>2 DEF Told
<1>8. Store!Do(u)
  BY <1>0, <1>1, <1>4, <1>5, <1>6, <1>7, ToldIs, ToldNext DEF ToldTrue, Store!Do
<1> QED  BY <1>1, <1>8

\* Posting is answering.
LEMMA AnswerStep ==
  ASSUME IInv, IInv', Complete, Len(cq) < CqSize
  PROVE  \E u \in Users : Store!Answer(u)
<1>0. PICK u, x : u = drv.sqe.user /\ x = [user |-> u, res |-> Res(drv.sqe)]
  OBVIOUS
<1>1. /\ UNCHANGED <<data, ask, exec>> /\ cq' = Append(cq, x) /\ drv.pc = "complete"
  <2>1. Len(cq) \in Nat /\ CqSize \in Nat
    BY Typed, RamdiskAssumption
  <2> QED  BY <1>0, <2>1 DEF Complete
<1>2. u \in Users /\ ~Has(cq, u) /\ exec[u] # None
  BY <1>0, <1>1, Typed DEF IInv, Places, Serving
<1>3. \A v : Has(cq', v) <=> Has(cq, v) \/ v = u
  <2>1. x \in [user : {u}, res : {Res(drv.sqe)}] /\ x.user = u
    BY <1>0
  <2>2. Answers \cup {x} # {} /\ x \in Answers \cup {x} /\ cq \in Seq(Answers \cup {x})
    <3>1. cq \in Seq(Answers)
      BY Typed
    <3>2. Seq(Answers) \subseteq Seq(Answers \cup {x})
      OBVIOUS
    <3> QED  BY <3>1, <3>2
  <2> QED  BY <1>1, <2>1, <2>2, HasAppend
<1>4. Told[u] = None /\ Told'[u] = exec[u] /\ \A v \in Users : v # u => Told'[v] = Told[v]
  <2>1. \A v \in Users : Told'[v] = IF Has(cq', v) THEN exec[v] ELSE None
    BY <1>1 DEF Told, Has
  <2>2. \A v \in Users : Told[v] = IF Has(cq, v) THEN exec[v] ELSE None
    BY Maps
  <2> QED  BY <1>2, <1>3, <2>1, <2>2
<1>5. Told' = [Told EXCEPT ![u] = exec[u]]
  <2>1. Told' = [v \in Users |-> Told'[v]] /\ Told = [v \in Users |-> Told[v]]
    BY DEF Told
  <2> QED  BY <1>2, <1>4, <2>1, Updated
<1>6. Store!Answer(u)
  BY <1>1, <1>2, <1>4, <1>5, ToldIs, ToldNext DEF ToldTrue, Store!Answer
<1> QED  BY <1>2, <1>6

\* Taking the answer is closing.
LEMMA CloseStep ==
  ASSUME IInv, IInv', ClientReap
  PROVE  \E u \in Users : Store!Close(u)
<1>0. PICK u : u = Head(cq).user
  OBVIOUS
<1>1. /\ UNCHANGED data /\ cq # << >> /\ cq' = Tail(cq)
      /\ ask' = [ask EXCEPT ![u] = None] /\ exec' = [exec EXCEPT ![u] = None]
  BY <1>0 DEF ClientReap
<1>2. cq \in Seq(Answers) /\ Once(cq)
  BY Typed DEF IInv, Places
<1>3. /\ Head(cq) \in Answers /\ Has(cq, u) /\ ~Has(cq', u)
      /\ \A v : v # u => (Has(cq', v) <=> Has(cq, v))
  BY <1>0, <1>1, <1>2, HasTail
<1>4. u \in Users /\ exec[u] # None
  BY <1>0, <1>3 DEF IInv, Places, Answers
<1>5. /\ \A v \in Users : v # u => exec'[v] = exec[v]
      /\ exec \in [Users -> Outcomes \cup {None}]
  BY <1>1, <1>4 DEF IInv, TypeOK
<1>6. Told[u] # None /\ Told'[u] = None /\ \A v \in Users : v # u => Told'[v] = Told[v]
  <2>1. \A v \in Users : Told'[v] = IF Has(cq', v) THEN exec'[v] ELSE None
    BY DEF Told, Has
  <2>2. \A v \in Users : Told[v] = IF Has(cq, v) THEN exec[v] ELSE None
    BY Maps
  <2> QED  BY <1>3, <1>4, <1>5, <2>1, <2>2
<1>7. Told' = [Told EXCEPT ![u] = None]
  <2>1. Told' = [v \in Users |-> Told'[v]] /\ Told = [v \in Users |-> Told[v]]
    BY DEF Told
  <2> QED  BY <1>4, <1>6, <2>1, Updated
<1>8. Store!Close(u)
  BY <1>1, <1>4, <1>6, <1>7, ToldIs, ToldNext DEF ToldTrue, Store!Close
<1> QED  BY <1>4, <1>8

\* Every step of the ramdisk is one of the disk, or none.
LEMMA StoreStep ==
  IInv /\ IInv' /\ [Next]_vars /\ ~wrapped' => [Store!Next]_(Store!vars)
<1> SUFFICES ASSUME IInv, IInv', [Next]_vars, ~wrapped' PROVE [Store!Next]_(Store!vars)
  OBVIOUS
<1>1. ASSUME UNCHANGED <<data, ask, exec, cq>> PROVE UNCHANGED Store!vars
  <2>1. Told' = Told
    BY <1>1 DEF Told, Has
  <2> QED  BY <1>1, <2>1, ToldIs, ToldNext DEF ToldTrue, Store!vars
<1>2. CASE Serve
  BY <1>2, DoStep DEF Store!Next
<1>7. CASE ServeStray
  BY <1>7, StrayIs
<1>3. CASE Complete
  <2>1. CASE Len(cq) < CqSize
    BY <1>3, <2>1, AnswerStep DEF Store!Next
  <2>2. CASE ~(Len(cq) < CqSize)
    BY <1>1, <1>3, <2>2, FullStep
  <2> QED  BY <2>1, <2>2
<1>4. CASE \E e \in Entry : ClientSubmit(e)
  BY <1>4, AskStep DEF Store!Next
<1>5. CASE ClientReap
  BY <1>5, CloseStep DEF Store!Next
<1>6. CASE \/ Recv \/ ServePanic \/ ServeDone \/ ClientNotify \/ UNCHANGED vars
           \/ \E a \in DOMAIN buf, v \in Val : ClientFill(a, v)
  BY <1>1, <1>6 DEF Recv, ServePanic, Take, ServeDone, ClientNotify, ClientFill, vars
<1> QED  BY <1>2, <1>3, <1>4, <1>5, <1>6, <1>7 DEF Next, Driver, Client

\* At the beginning nothing was asked.
LEMMA StoreInit == Init => Store!Init
<1> SUFFICES ASSUME Init PROVE Store!Init
  OBVIOUS
<1>1. IInv /\ cq = << >>
  BY InitIInv DEF Init
<1>2. \A u \in Users : Told[u] = None
  BY <1>1 DEF Told, Has
<1>3. Told = [u \in Users |-> None]
  BY <1>2 DEF Told
<1> QED  BY <1>1, <1>3, ToldIs DEF ToldTrue, Init, Store!Init

(* The ramdisk is a disk: a request is carried out at once and at most     *)
(* once, if it lies in the buffer and on the disk; a write stores the      *)
(* bytes that were there when it was asked, a read leaves in the buffer    *)
(* what the disk held, and the answer tells (handle_io, process_sqe).  The *)
(* client may submit any entry; the promise ends when one passes the       *)
(* checks with a sum that overflowed, and only then.                       *)
THEOREM Refinement == Spec => ImplementsStore
<1>1. Sound /\ Sound' /\ [Next]_vars => [wrapped' \/ Store!Next]_(Store!vars)
  BY StoreStep, WrappedStays DEF Sound
<1> QED  BY <1>1, Invariance, StoreInit, PTL DEF Spec, ImplementsStore
=============================================================================
