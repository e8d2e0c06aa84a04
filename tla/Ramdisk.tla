------------------------------ MODULE Ramdisk ------------------------------
(***************************************************************************)
(* The ramdisk (sys/ramdisk/src/driver.rs, server.rs) at work, after its   *)
(* ring and buffer are set up: a slice of memory served over a request     *)
(* ring.  Sizes and addresses are in bytes; usize is a number modulo Word. *)
(* The client's entries are read as they are: the sums of process_sqe may  *)
(* overflow, and a build with overflow checks then panics, while one       *)
(* without goes on with the remainder.                                     *)
(***************************************************************************)
EXTENDS Integers, Sequences, FiniteSets

CONSTANTS
  Users,      \* the user_data values: the requests the client may have open
  Val,        \* the values of a byte
  DiskLen,    \* data.len()
  BlockSize,  \* 4096
  BufVa,      \* the client's address of the buffer
  BufLen,     \* the size of the buffer, in whole pages
  Word,       \* 2^64
  Entry,      \* the entries the client may submit: [user, op, off, len, addr]
  CqSize,     \* the capacity of the completion ring
  None

\* A request as the disk understands it, and what may become of it.
Requests == [op : {"read", "write", "sync", "other"}, at : Nat, len : Nat, addr : Nat, data : Seq(Val)]
Outcomes == [res : Int, val : Seq(Val)]

ASSUME RamdiskAssumption ==
  /\ {DiskLen, BlockSize, BufLen, Word, CqSize} \subseteq Nat \ {0} /\ BufVa \in Nat
  /\ Entry \subseteq [user : Users, op : {"read", "write", "sync", "other"},
                      off : 0 .. Word - 1, len : 0 .. Word - 1, addr : 0 .. Word - 1]
  /\ BufVa + BufLen < Word /\ DiskLen < Word
  /\ 0 \in Val /\ None \notin Users \cup Requests \cup Outcomes

VARIABLES
  data,    \* the disk
  buf,     \* the buffer shared with the client
  sq, cq,  \* the rings shared with the client
  drv,     \* [pc, sqe]
  pend,    \* a notification waits at the driver's endpoint
  ask,     \* the client's open requests, with the bytes they are to store
  owed,    \* it has a signal to send
  exec,    \* what was done about each of them (history)
  over,    \* handle_io was left at a full completion ring (history)
  wrapped  \* a request passed the checks with a sum that had overflowed (history)

vars == <<data, buf, sq, cq, drv, pend, ask, owed, exec, over, wrapped>>

Idle == [pc |-> "idle", sqe |-> None]

Init ==
  /\ data = [i \in 0 .. DiskLen - 1 |-> 0]
  /\ buf \in [0 .. BufLen - 1 -> Val]
  /\ sq = << >> /\ cq = << >>
  /\ drv = Idle /\ pend = FALSE
  /\ ask = [u \in Users |-> None] /\ owed = FALSE
  /\ exec = [u \in Users |-> None] /\ over = FALSE /\ wrapped = FALSE

-----------------------------------------------------------------------------
(* process_sqe: the checks, in usize arithmetic, and the copy.             *)

InBuffer(e) ==
  e.addr >= BufVa /\ (e.addr + e.len) % Word <= BufVa + BufLen

Offset(e) == (e.off * BlockSize) % Word

\* A slip to detect: the last byte of the disk is out of reach.
InDiskStrict(e) == (Offset(e) + e.len) % Word < DiskLen

InDisk(e) == (Offset(e) + e.len) % Word <= DiskLen

Accepted(e) == e.len % BlockSize = 0 /\ InBuffer(e) /\ InDisk(e)

\* The part of a function of bytes that starts at `from`, put elsewhere at `to`.
Copy(src, from, dst, to, len) ==
  [i \in DOMAIN dst |-> IF i - to \in 0 .. len - 1 THEN src[from + i - to] ELSE dst[i]]

Res(e) == IF ~Accepted(e) \/ e.op = "other" THEN -1
          ELSE IF e.op = "sync" THEN 0 ELSE e.len

\* The checks, in the order they are made, come to a sum that overflows.
Overflows(e) ==
  /\ e.len % BlockSize = 0 /\ e.addr >= BufVa
  /\ \/ e.addr + e.len >= Word
     \/ InBuffer(e) /\ e.off * BlockSize + e.len >= Word

\* A sum overflows, and the remainder passes the checks.
Misled(e) == Overflows(e) /\ Accepted(e)

\* The copy stays within the buffer and the disk.
Inside(e) == e.addr + e.len <= BufVa + BufLen /\ Offset(e) + e.len <= DiskLen

Copies(e) == Accepted(e) /\ e.op \in {"read", "write"}

Process(e) ==
  LET at == e.addr - BufVa
  IN  /\ data' = IF Copies(e) /\ e.op = "write" THEN Copy(buf, at, data, Offset(e), e.len) ELSE data
      /\ buf'  = IF Copies(e) /\ e.op = "read" THEN Copy(data, Offset(e), buf, at, e.len) ELSE buf

-----------------------------------------------------------------------------
(* handle_io                                                               *)

Recv ==
  /\ drv.pc = "idle" /\ pend
  /\ pend' = FALSE /\ over' = FALSE
  /\ drv' = [drv EXCEPT !.pc = "next"]
  /\ UNCHANGED <<data, buf, sq, cq, ask, owed, exec, wrapped>>

Take ==
  /\ drv.pc = "next" /\ sq # << >>
  /\ sq' = Tail(sq)
  /\ UNCHANGED <<cq, pend, ask, owed, over>>

Serve ==
  /\ Take
  /\ LET e == Head(sq)
     IN  /\ Copies(e) => Inside(e)
         /\ Process(e)
         /\ drv' = [pc |-> "complete", sqe |-> e]
         /\ exec' = [exec EXCEPT ![e.user] =
              [res |-> Res(e),
               val |-> IF e.op = "read" /\ Accepted(e)
                         THEN [i \in 1 .. e.len |-> data[Offset(e) + i - 1]] ELSE << >>]]
         /\ wrapped' = (wrapped \/ Misled(e))

\* A copy beyond the buffer or the disk: whatever bytes, or a fault.  (That it
\* may hit other memory of the driver is left out.)
ServeStray ==
  /\ Take
  /\ LET e == Head(sq)
     IN  /\ Copies(e) /\ ~Inside(e)
         /\ data' \in [DOMAIN data -> Val] /\ buf' \in [DOMAIN buf -> Val]
         /\ \E pc \in {"complete", "dead"} : drv' = [pc |-> pc, sqe |-> e]
         /\ exec' = [exec EXCEPT ![e.user] = [res |-> Res(e), val |-> << >>]]
         /\ wrapped' = (wrapped \/ Misled(e))

\* The build has overflow checks: the driver panics.
ServePanic ==
  /\ Take
  /\ LET e == Head(sq)
     IN  /\ Overflows(e)
         /\ drv' = [pc |-> "dead", sqe |-> e]
         /\ UNCHANGED <<data, buf, exec, wrapped>>

ServeDone ==
  /\ drv.pc = "next" /\ sq = << >>
  /\ drv' = Idle
  /\ UNCHANGED <<data, buf, sq, cq, pend, ask, owed, exec, over, wrapped>>

\* A slip to detect: the loop ends after one request.
CompleteOne ==
  /\ drv.pc = "complete"
  /\ \/ /\ Len(cq) < CqSize
        /\ cq' = Append(cq, [user |-> drv.sqe.user, res |-> Res(drv.sqe)])
        /\ UNCHANGED over
     \/ /\ Len(cq) >= CqSize
        /\ over' = TRUE
        /\ UNCHANGED cq
  /\ drv' = Idle
  /\ UNCHANGED <<data, buf, sq, pend, ask, owed, exec, wrapped>>

\* An answer that does not fit ends handle_io; what is left of the ring waits
\* for the next notification.
Complete ==
  /\ drv.pc = "complete"
  /\ \/ /\ Len(cq) < CqSize
        /\ cq' = Append(cq, [user |-> drv.sqe.user, res |-> Res(drv.sqe)])
        /\ drv' = [Idle EXCEPT !.pc = "next"]
        /\ UNCHANGED over
     \/ /\ Len(cq) >= CqSize
        /\ drv' = Idle /\ over' = TRUE
        /\ UNCHANGED cq
  /\ UNCHANGED <<data, buf, sq, pend, ask, owed, exec, wrapped>>

Driver == Recv \/ Serve \/ ServeStray \/ ServePanic \/ ServeDone \/ Complete

-----------------------------------------------------------------------------
(* The client (external) leaves the part of the buffer an open request     *)
(* names alone, and names no part twice.                                   *)

Place(e) == e.addr .. e.addr + e.len - 1
InUse    == UNION {Place(ask[u]) : u \in {v \in Users : ask[v] # None}}

\* A request as the disk understands it: where, and the bytes to store.
Asked(e) ==
  [op |-> e.op, at |-> e.off * BlockSize, len |-> e.len, addr |-> e.addr,
   data |-> IF e.op = "write" /\ e.addr >= BufVa /\ e.addr + e.len <= BufVa + BufLen
              THEN [i \in 1 .. e.len |-> buf[e.addr - BufVa + i - 1]] ELSE << >>]

ClientSubmit(e) ==
  /\ ask[e.user] = None /\ Place(e) \cap InUse = {}
  /\ ask' = [ask EXCEPT ![e.user] = Asked(e)]
  /\ sq' = Append(sq, e)
  /\ owed' = TRUE
  /\ UNCHANGED <<data, buf, cq, drv, pend, exec, over, wrapped>>

ClientNotify ==
  /\ owed
  /\ owed' = FALSE /\ pend' = TRUE
  /\ UNCHANGED <<data, buf, sq, cq, drv, ask, exec, over, wrapped>>

ClientFill(a, v) ==
  /\ BufVa + a \notin InUse
  /\ buf' = [buf EXCEPT ![a] = v]
  /\ UNCHANGED <<data, sq, cq, drv, pend, ask, owed, exec, over, wrapped>>

ClientReap ==
  /\ cq # << >>
  /\ cq' = Tail(cq)
  /\ ask' = [ask EXCEPT ![Head(cq).user] = None]
  /\ exec' = [exec EXCEPT ![Head(cq).user] = None]
  /\ UNCHANGED <<data, buf, sq, drv, pend, owed, over, wrapped>>

Client == \/ \E e \in Entry : ClientSubmit(e)
          \/ \E a \in DOMAIN buf, v \in Val : ClientFill(a, v)
          \/ ClientNotify \/ ClientReap

Next == Driver \/ Client

Spec == Init /\ [][Next]_vars

(***************************************************************************)
(* Properties                                                              *)
(***************************************************************************)

(* The answer a user can see: the entry in the completion ring, together   *)
(* with the bytes a read has left in the buffer.                           *)
AnswerIn(u) ==
  LET found == {i \in 1 .. Len(cq) : cq[i].user = u}
      r     == cq[CHOOSE i \in found : TRUE].res
      e     == ask[u]
  IN  IF found = {} THEN None
      ELSE [res |-> r,
            val |-> IF e.op = "read" /\ r >= 0
                      THEN [i \in 1 .. e.len |-> buf[e.addr - BufVa + i - 1]] ELSE << >>]

Permitted(r) ==
  /\ r.op \in {"read", "write", "sync"} /\ r.len % BlockSize = 0
  /\ r.at + r.len <= DiskLen
  /\ r.addr >= BufVa /\ r.addr + r.len <= BufVa + BufLen

Store == INSTANCE BlockStore WITH
  disk    <- data,
  done    <- exec,
  answer  <- [u \in Users |-> AnswerIn(u)],
  Allowed <- Permitted

(* The ramdisk implements a disk: the checks of process_sqe, done in usize *)
(* on sector, length and address, let through exactly the requests that    *)
(* lie in the buffer and on the disk; those are carried out at once, and   *)
(* the others change nothing.  This ends when a request passes with a sum  *)
(* that overflowed (driver.rs:142, 165-166 add and multiply unchecked): a  *)
(* sector of 2^52 is then sector 0, and a copy may leave the buffer or the *)
(* disk.  A build with overflow checks panics instead, and keeps the       *)
(* promise.                                                                *)
ImplementsStore == Store!Init /\ [][wrapped' \/ Store!Next]_(Store!vars)

(* Fairness: the driver and the client's signals and reads go on.          *)
Fairness == WF_vars(Driver) /\ WF_vars(ClientNotify) /\ WF_vars(ClientReap)

FairSpec == Spec /\ Fairness

(* Every request in the ring is answered, unless an answer did not fit the *)
(* completion ring or the driver died at a sum that overflowed.            *)
EveryRequestAnswered ==
  \A u \in Users : (\E i \in 1 .. Len(sq) : sq[i].user = u) ~>
    (\E i \in 1 .. Len(cq) : cq[i].user = u) \/ over \/ drv.pc = "dead"
=============================================================================
