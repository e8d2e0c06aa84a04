----------------------------- MODULE VirtioBlk -----------------------------
(***************************************************************************)
(* The virtio block driver (virtio/block/src/blk.rs) at work: the driver   *)
(* process, its client on the other side of the submission and completion  *)
(* rings, the device on the other side of the virtqueue, and the kernel    *)
(* that turns the interrupt line and the client's signals into             *)
(* notifications.  The model starts when set-up is over: init, SETUP_BUFFER*)
(* and SETUP_RING have succeeded and the driver waits in recv.             *)
(*                                                                         *)
(* The driver is sequential.  One action is one step of its loops between  *)
(* two accesses to memory another party writes, so that the device, the    *)
(* kernel and the client interleave with it everywhere they can.           *)
(***************************************************************************)
EXTENDS VirtQueue, Sequences

CONSTANTS
  Users,      \* the user_data values: the requests the client may have open
  Kinds,      \* the kinds of requests the client submits, within Kind
  ReqSlots,   \* the length of pending_info: 64
  Batch,      \* the entries handle_ring takes per call: 16
  SqEntries,  \* the size of the submission ring, chosen by the client
  Disturbs,   \* the disturbances that happen: "bare" messages with a zero
              \* tag, "config" change interrupts, "poke"s with the CQ bit
  None        \* Option::None

(* A request is a good read or write, or one that the driver must refuse:  *)
(* its length is not a multiple of the block size, its opcode is unknown,  *)
(* or its buffer is not inside the shared memory.                          *)
Good == {"read", "write"}
Kind == Good \cup {"misaligned", "badop", "badaddr"}

Slots   == 0 .. ReqSlots - 1
Sqe     == [user : Users, kind : Kinds]
Pending == [user : Users, head : Desc]
InSlot  == [pos : Slots, user : Users, head : Desc]
Walk    == [pos : Slots, user : Users, curr : Desc]
Outcome == {"OK", "IOERR"}
Done    == [op : Good, st : Outcome]

ASSUME BlkAssumption ==
  /\ Kinds \subseteq Kind
  /\ ReqSlots \in Nat \ {0}
  /\ Batch \in Nat \ {0}
  /\ SqEntries \in Nat \ {0}
  /\ \A T \in {Pending, InSlot, Walk, Done, Kind} : None \notin T
  /\ None \notin {0, -1}

(* Where a descriptor points: the header or the status byte of a request   *)
(* slot, the data buffer of a request, or nowhere yet.                     *)
Hdr(s)    == [area |-> "hdr", at |-> s]
Status(s) == [area |-> "status", at |-> s]
Data(u)   == [area |-> "data", at |-> u]
Zero      == [area |-> "zero", at |-> 0]
Addr      == {Zero} \cup {Hdr(s) : s \in Slots} \cup {Status(s) : s \in Slots}
                    \cup {Data(u) : u \in Users}

VARIABLES
  \* the driver: VirtIOBlk and the local variables of its handlers
  q,        \* the virtqueue (part of it is memory shared with the device)
  pending,  \* pending_info
  pc,       \* where the driver is
  irqack,   \* irq.ack() is due when handle_irq returns
  ring,     \* handle_ring is due after that
  acked,    \* the interrupt status interrupt_ack has read
  batch,    \* the entries handle_ring has taken and not yet treated
  slot,     \* req_idx of the request just made available
  cur,      \* the request pop_completions is at: [user, pos, curr] or None
  \* DMA memory shared with the device
  hdr,      \* the type field of the request header of each slot
  status,   \* the status byte of each slot
  \* memory shared with the client
  sq, cq,   \* submission and completion ring
  \* the kernel
  pend,     \* notification bits waiting at the driver's endpoint
  masked,   \* the IRQ was delivered and irq.ack() has not been called since
  \* the device
  kick,     \* the device was notified and has not yet found the ring empty
  seen,     \* its index into the available ring
  held,     \* chains it has taken and not yet put on the used ring
  raise,    \* it has used a chain and not yet raised the interrupt
  isr,      \* its interrupt status register
  exec,     \* what it did for each open request (history)
  \* the client
  ask,      \* the open requests, by user_data
  owed      \* it has queued an entry and not yet signalled the driver

driverVars == <<pending, pc, irqack, ring, acked, batch, slot, cur>>
dmaVars    == <<hdr, status>>
ringVars   == <<sq, cq>>
kernelVars == <<pend, masked>>
deviceVars == <<kick, seen, held, raise, isr, exec>>
clientVars == <<ask, owed>>
vars == <<q, driverVars, dmaVars, ringVars, kernelVars, deviceVars, clientVars>>

Init ==
  /\ q = NewQueue(Zero)
  /\ pending = [s \in Slots |-> None]
  /\ pc = "idle" /\ irqack = FALSE /\ ring = FALSE /\ acked = {}
  /\ batch = << >> /\ slot = None /\ cur = None
  /\ hdr = [s \in Slots |-> "read"]      \* zeroed memory: VIRTIO_BLK_T_IN,
  /\ status = [s \in Slots |-> "OK"]     \* VIRTIO_BLK_S_OK
  /\ sq = << >> /\ cq = << >>
  /\ pend = {} /\ masked = FALSE
  /\ kick = FALSE /\ seen = 0 /\ held = {} /\ raise = FALSE /\ isr = {}
  /\ exec = [u \in Users |-> None]
  /\ ask = [u \in Users |-> None] /\ owed = FALSE

-----------------------------------------------------------------------------
(* recv and dispatch (server.rs)                                           *)

\* A slip to detect: the ring bits of a notification with an IRQ bit are dropped.
RecvIrqElseRing ==
  /\ pc = "idle" /\ pend # {}
  /\ pend' = {}
  /\ irqack' = ("IRQ" \in pend)
  /\ ring' = FALSE
  /\ pc' = IF "IRQ" \in pend THEN "irq" ELSE "fetch"
  /\ UNCHANGED <<q, pending, acked, batch, slot, cur, dmaVars, ringVars, masked,
                 deviceVars, clientVars>>

(* A notification: its badge is the union of the bits sent since the last  *)
(* one.  The interrupt is handled before the ring.                         *)
Recv ==
  /\ pc = "idle" /\ pend # {}
  /\ pend' = {}
  /\ irqack' = ("IRQ" \in pend)
  /\ ring' = ("IRQ" \in pend /\ pend \cap {"SQ", "CQ"} # {})
  /\ pc' = IF "IRQ" \in pend THEN "irq" ELSE "fetch"
  /\ UNCHANGED <<q, pending, acked, batch, slot, cur, dmaVars, ringVars, masked,
                 deviceVars, clientVars>>

(* A message whose tag is zero runs handle_irq, without irq.ack().         *)
RecvBare ==
  /\ "bare" \in Disturbs
  /\ pc = "idle"
  /\ pc' = "irq"
  /\ UNCHANGED <<q, pending, irqack, ring, acked, batch, slot, cur, dmaVars, ringVars, kernelVars,
                 deviceVars, clientVars>>

\* A slip to detect: irq.ack() is left out.
AfterIrqUnacked == IF ring THEN "fetch" ELSE "idle"

\* Where the driver goes when handle_irq returns.
AfterIrq == IF irqack THEN "unmask" ELSE "idle"

(* interrupt_ack reads the interrupt status; handle_irq is over if it is 0.*)
IrqRead ==
  /\ pc = "irq"
  /\ acked' = isr
  /\ pc' = IF isr # {} THEN "ack" ELSE AfterIrq
  /\ UNCHANGED <<q, pending, irqack, ring, batch, slot, cur, dmaVars, ringVars,
                 kernelVars, deviceVars, clientVars>>

(* interrupt_ack writes the bits it has read to the acknowledge register.  *)
IrqAck ==
  /\ pc = "ack"
  /\ isr' = isr \ acked
  /\ acked' = {}
  /\ pc' = "pop"
  /\ UNCHANGED <<q, pending, irqack, ring, batch, slot, cur, dmaVars, ringVars,
                 kernelVars, kick, seen, held, raise, exec, clientVars>>

(* irq.ack(): the kernel may deliver the interrupt again.                  *)
Unmask ==
  /\ pc = "unmask"
  /\ masked' = FALSE
  /\ irqack' = FALSE
  /\ ring' = FALSE
  /\ pc' = IF ring THEN "fetch" ELSE "idle"
  /\ UNCHANGED <<q, pending, acked, batch, slot, cur, dmaVars, ringVars, pend,
                 deviceVars, clientVars>>

-----------------------------------------------------------------------------
(* pop_completions                                                         *)

\* The first slot whose request has this head, if there is one.
SlotsOf(id)  == {s \in Slots : pending[s] # None /\ pending[s].head = id}
IsFirst(s, S) == s \in S /\ \A t \in S : s <= t

\* A slip to detect: the slot is read, not taken.
PopOneKeep ==
  /\ pc = "pop" /\ CanPop(q)
  /\ q' = Pop(q)
  /\ \E s \in Slots :
       /\ IsFirst(s, SlotsOf(PopId(q)))
       /\ cur' = [user |-> pending[s].user, pos |-> s, curr |-> pending[s].head]
  /\ pc' = "free"
  /\ UNCHANGED <<pending, irqack, ring, acked, batch, slot, dmaVars, ringVars,
                 kernelVars, deviceVars, clientVars>>

PopOne ==
  /\ pc = "pop" /\ CanPop(q)
  /\ q' = Pop(q)
  /\ \/ /\ SlotsOf(PopId(q)) = {}
        /\ UNCHANGED <<pending, cur, pc>>
     \/ \E s \in Slots :
          /\ IsFirst(s, SlotsOf(PopId(q)))
          /\ pending' = [pending EXCEPT ![s] = None]
          /\ cur' = [user |-> pending[s].user, pos |-> s, curr |-> pending[s].head]
          /\ pc' = "free"
  /\ UNCHANGED <<irqack, ring, acked, batch, slot, dmaVars, ringVars, kernelVars,
                 deviceVars, clientVars>>

PopNone ==
  /\ pc = "pop" /\ ~CanPop(q)
  /\ pc' = AfterIrq
  /\ UNCHANGED <<q, pending, irqack, ring, acked, batch, slot, cur, dmaVars, ringVars,
                 kernelVars, deviceVars, clientVars>>

\* A slip to detect: only the head of the chain is freed.
FreeOneHead ==
  /\ pc = "free"
  /\ q' = FreeDesc(q, cur.curr)
  /\ pc' = "complete"
  /\ UNCHANGED <<pending, irqack, ring, acked, batch, slot, cur, dmaVars, ringVars,
                 kernelVars, deviceVars, clientVars>>

(* One turn of the loop that frees the descriptors of the chain.           *)
FreeOne ==
  /\ pc = "free"
  /\ q' = FreeDesc(q, cur.curr)
  /\ IF NEXT \in q.flags[cur.curr]
       THEN cur' = [cur EXCEPT !.curr = q.next[cur.curr]] /\ pc' = pc
       ELSE pc' = "complete" /\ cur' = cur
  /\ UNCHANGED <<pending, irqack, ring, acked, batch, slot, dmaVars, ringVars,
                 kernelVars, deviceVars, clientVars>>

Cqe(u, r) == Append(cq, [user |-> u, res |-> r])

Complete ==
  /\ pc = "complete"
  /\ cq' = Cqe(cur.user, IF status[cur.pos] = "OK" THEN 0 ELSE -1)
  /\ cur' = None
  /\ pc' = "pop"
  /\ UNCHANGED <<q, pending, irqack, ring, acked, batch, slot, dmaVars, sq, kernelVars,
                 deviceVars, clientVars>>

-----------------------------------------------------------------------------
(* handle_ring and submit_virtio_request                                   *)

Fetch ==
  /\ pc = "fetch" /\ Len(batch) < Batch /\ sq # << >>
  /\ batch' = Append(batch, Head(sq))
  /\ sq' = Tail(sq)
  /\ UNCHANGED <<q, pending, pc, irqack, ring, acked, slot, cur, dmaVars, cq, kernelVars,
                 deviceVars, clientVars>>

FetchDone ==
  /\ pc = "fetch"
  /\ Len(batch) = Batch \/ sq = << >>
  /\ pc' = IF batch = << >> THEN "idle" ELSE "submit"
  /\ UNCHANGED <<q, pending, irqack, ring, acked, batch, slot, cur, dmaVars, ringVars,
                 kernelVars, deviceVars, clientVars>>

\* A slip to detect: a slot is taken without looking whether it is in use.
SlotsUnchecked == Slots

FreeSlots == {s \in Slots : pending[s] = None}

\* handle_ring answers -1 for a request that submit_virtio_request refused.
Refuse(sqe) ==
  /\ cq' = Cqe(sqe.user, -1)
  /\ batch' = Tail(batch)
  /\ UNCHANGED <<pending, pc, irqack, ring, acked, slot, cur, sq, kernelVars, deviceVars,
                 clientVars>>

(* Refused before any memory is written: bad length, no free slot, unknown *)
(* opcode.                                                                 *)
RefuseEarly ==
  /\ pc = "submit" /\ batch # << >>
  /\ \/ Head(batch).kind \in {"misaligned", "badop"}
     \/ FreeSlots = {}
  /\ Refuse(Head(batch))
  /\ UNCHANGED <<q, dmaVars>>

\* The header and the status byte are written as soon as the slot is known
\* (the header of a "badaddr" request is never read: it counts as a read).
WriteHeader(s, sqe) ==
  /\ hdr' = [hdr EXCEPT ![s] = IF sqe.kind = "write" THEN "write" ELSE "read"]
  /\ status' = [status EXCEPT ![s] = "FF"]

RefuseBadAddr ==
  /\ pc = "submit" /\ batch # << >>
  /\ Head(batch).kind = "badaddr"
  /\ \E s \in Slots : IsFirst(s, FreeSlots) /\ WriteHeader(s, Head(batch))
  /\ Refuse(Head(batch))
  /\ UNCHANGED q

\* Fewer than three descriptors: those already allocated are not given back.
AllocRest == IF q.num_free = 2 THEN AllocDesc(AllocDesc(q))
             ELSE IF q.num_free = 1 THEN AllocDesc(q) ELSE q

RefuseNoDesc ==
  /\ pc = "submit" /\ batch # << >>
  /\ Head(batch).kind \in Good
  /\ q.num_free < 3
  /\ \E s \in Slots : IsFirst(s, FreeSlots) /\ WriteHeader(s, Head(batch))
  /\ q' = AllocRest
  /\ Refuse(Head(batch))

\* The chain header -> data -> status, made of the first three free descriptors.
WriteChain(sqe, s) ==
  LET a1 == AllocDesc(q)
      a2 == AllocDesc(a1)
      a3 == AllocDesc(a2)
      w1 == WriteDesc(a3, q.free_head, Hdr(s), {NEXT}, a1.free_head)
      w2 == WriteDesc(w1, a1.free_head, Data(sqe.user),
                      IF sqe.kind = "write" THEN {NEXT} ELSE {NEXT, WRITE}, a2.free_head)
  IN  WriteDesc(w2, a2.free_head, Status(s), {WRITE}, 0)

(* Everything up to the write of the available index, which is what makes  *)
(* the request visible to the device.                                      *)
Publish ==
  /\ pc = "submit" /\ batch # << >>
  /\ Head(batch).kind \in Good
  /\ q.num_free >= 3
  /\ \E s \in Slots :
       /\ IsFirst(s, FreeSlots)
       /\ WriteHeader(s, Head(batch))
       /\ slot' = [pos |-> s, user |-> Head(batch).user, head |-> q.free_head]
       /\ q' = Submit(WriteChain(Head(batch), s), q.free_head)
  /\ pc' = "record"
  /\ batch' = Tail(batch)
  /\ UNCHANGED <<pending, irqack, ring, acked, cur, ringVars, kernelVars, deviceVars,
                 clientVars>>

\* A slip to detect: notify_queue is left out.
RecordSilent ==
  /\ pc = "record"
  /\ pending' = [pending EXCEPT ![slot.pos] = [user |-> slot.user, head |-> slot.head]]
  /\ slot' = None
  /\ pc' = "submit"
  /\ UNCHANGED <<q, irqack, ring, acked, batch, cur, dmaVars, ringVars, kernelVars,
                 deviceVars, clientVars>>

(* pending_info is set, and the device notified, only now.                 *)
Record ==
  /\ pc = "record"
  /\ pending' = [pending EXCEPT ![slot.pos] = [user |-> slot.user, head |-> slot.head]]
  /\ kick' = TRUE
  /\ slot' = None
  /\ pc' = "submit"
  /\ UNCHANGED <<q, irqack, ring, acked, batch, cur, dmaVars, ringVars, kernelVars, seen,
                 held, raise, isr, exec, clientVars>>

SubmitDone ==
  /\ pc = "submit" /\ batch = << >>
  /\ pc' = "pop"
  /\ UNCHANGED <<q, pending, irqack, ring, acked, batch, slot, cur, dmaVars, ringVars, kernelVars,
                 deviceVars, clientVars>>

Driver == \/ Recv \/ RecvBare \/ IrqRead \/ IrqAck \/ Unmask
          \/ PopOne \/ PopNone \/ FreeOne \/ Complete
          \/ Fetch \/ FetchDone \/ RefuseEarly \/ RefuseBadAddr \/ RefuseNoDesc
          \/ Publish \/ Record \/ SubmitDone

-----------------------------------------------------------------------------
(* The device (external).  It looks at the available ring after a notify   *)
(* until it finds it empty, executes the chains it has taken in any order, *)
(* and raises the interrupt after it has updated the used ring.            *)

DevTake ==
  /\ kick /\ DevCanTake(q, seen)
  /\ held' = held \cup {DevTakeId(q, seen)}
  /\ seen' = (seen + 1) % IdxMod
  /\ UNCHANGED <<q, driverVars, dmaVars, ringVars, kernelVars, kick, raise, isr, exec,
                 clientVars>>

DevSleep ==
  /\ kick /\ ~DevCanTake(q, seen)
  /\ kick' = FALSE
  /\ UNCHANGED <<q, driverVars, dmaVars, ringVars, kernelVars, seen, held, raise, isr,
                 exec, clientVars>>

(* The device executes what the chain says: the operation in the header,   *)
(* on the data buffer of the second descriptor; it writes its verdict to   *)
(* the status byte the third points to and puts the head on the used ring. *)
(* A chain of another shape would stop it: DeviceMemoryStable shows that   *)
(* there is none.                                                          *)
DevExecute(h, st) ==
  LET d2 == q.next[h]
      d3 == q.next[d2]
  IN  /\ q.addr[h].area = "hdr" /\ q.addr[d2].area = "data" /\ q.addr[d3].area = "status"
      /\ exec' = [exec EXCEPT ![q.addr[d2].at] = [op |-> hdr[q.addr[h].at], st |-> st]]
      /\ status' = [status EXCEPT ![q.addr[d3].at] = st]

DevDone(h, st) ==
  /\ h \in held
  /\ DevExecute(h, st)
  /\ q' = DevUse(q, h)
  /\ held' = held \ {h}
  /\ raise' = TRUE
  /\ UNCHANGED <<driverVars, hdr, ringVars, kernelVars, kick, seen, isr, clientVars>>

DevRaise ==
  /\ raise
  /\ raise' = FALSE
  /\ isr' = isr \cup {"used"}
  /\ UNCHANGED <<q, driverVars, dmaVars, ringVars, kernelVars, kick, seen, held, exec,
                 clientVars>>

\* The device reports a configuration change through the same interrupt.
DevConfig ==
  /\ "config" \in Disturbs
  /\ "config" \notin isr
  /\ isr' = isr \cup {"config"}
  /\ UNCHANGED <<q, driverVars, dmaVars, ringVars, kernelVars, kick, seen, held, raise,
                 exec, clientVars>>

(* The kernel (external): a level-triggered line, masked from delivery     *)
(* until the driver acknowledges it.                                       *)
KernelIrq ==
  /\ isr # {} /\ ~masked
  /\ pend' = pend \cup {"IRQ"}
  /\ masked' = TRUE
  /\ UNCHANGED <<q, driverVars, dmaVars, ringVars, deviceVars, clientVars>>

-----------------------------------------------------------------------------
(* The client (external): it has one request open per user_data value, so  *)
(* that the completion ring never overflows, signals the driver after it   *)
(* has queued entries, and may send it a CQ bit at any time.               *)

ClientSubmit(u, k) ==
  /\ ask[u] = None /\ Len(sq) < SqEntries
  /\ ask' = [ask EXCEPT ![u] = k]
  /\ sq' = Append(sq, [user |-> u, kind |-> k])
  /\ owed' = TRUE
  /\ UNCHANGED <<q, driverVars, dmaVars, cq, kernelVars, deviceVars>>

ClientNotify ==
  /\ owed
  /\ owed' = FALSE
  /\ pend' = pend \cup {"SQ"}
  /\ UNCHANGED <<q, driverVars, dmaVars, ringVars, masked, deviceVars, ask>>

ClientPoke ==
  /\ "poke" \in Disturbs
  /\ "CQ" \notin pend
  /\ pend' = pend \cup {"CQ"}
  /\ UNCHANGED <<q, driverVars, dmaVars, ringVars, masked, deviceVars, clientVars>>

ClientReap ==
  /\ cq # << >>
  /\ cq' = Tail(cq)
  /\ ask' = [ask EXCEPT ![Head(cq).user] = None]
  /\ exec' = [exec EXCEPT ![Head(cq).user] = None]
  /\ UNCHANGED <<q, driverVars, dmaVars, sq, kernelVars, kick, seen, held, raise, isr,
                 owed>>

Device == \/ DevTake \/ DevSleep \/ DevRaise \/ DevConfig
          \/ \E h \in held, st \in Outcome : DevDone(h, st)
Client == \/ ClientNotify \/ ClientPoke \/ ClientReap
          \/ \E u \in Users, k \in Kinds : ClientSubmit(u, k)

Next == Driver \/ Device \/ KernelIrq \/ Client

Spec == Init /\ [][Next]_vars

(***************************************************************************)
(* Properties                                                              *)
(***************************************************************************)

TypeOK ==
  /\ q \in Queue(Addr)
  /\ pending \in [Slots -> Pending \cup {None}]
  /\ pc \in {"idle", "irq", "ack", "unmask", "pop", "free", "complete",
            "fetch", "submit", "record"}
  /\ irqack \in BOOLEAN /\ ring \in BOOLEAN
  /\ acked \subseteq {"used", "config"}
  /\ batch \in Seq(Sqe)
  /\ slot \in InSlot \cup {None}
  /\ cur \in Walk \cup {None}
  /\ hdr \in [Slots -> Good]
  /\ status \in [Slots -> Outcome \cup {"FF"}]
  /\ sq \in Seq(Sqe)
  /\ cq \in Seq([user : Users, res : {0, -1}])
  /\ pend \subseteq {"IRQ", "SQ", "CQ"}
  /\ masked \in BOOLEAN /\ kick \in BOOLEAN /\ raise \in BOOLEAN /\ owed \in BOOLEAN
  /\ seen \in Idx
  /\ held \subseteq Desc
  /\ isr \subseteq {"used", "config"}
  /\ exec \in [Users -> Done \cup {None}]
  /\ ask \in [Users -> Kinds \cup {None}]

\* Heads the device may still read: made available or taken, not yet used.
Avail == {q.avail_ring[(seen + i) % Num] : i \in 0 .. ((q.avail_idx - seen) % IdxMod) - 1}
Owned == Avail \cup held

\* The slot and the user a head was submitted for, if any.
InFlight == {[pos |-> s, user |-> pending[s].user, head |-> pending[s].head] :
               s \in {t \in Slots : pending[t] # None}}
            \cup (IF slot = None THEN {} ELSE {slot})

(* The memory of a request the device may still read or write is left      *)
(* alone: its chain is the header, the data buffer and the status byte of  *)
(* one request that is still recorded, none of the three is shared with    *)
(* another request, and the header and the status byte are as submitted.   *)
DeviceMemoryStable ==
  \A h \in Owned :
    \E r \in InFlight :
      /\ r.head = h
      /\ q.addr[h] = Hdr(r.pos) /\ q.flags[h] = {NEXT}
      /\ LET d2 == q.next[h]
             d3 == q.next[d2]
         IN  /\ q.addr[d2] = Data(r.user) /\ NEXT \in q.flags[d2]
             /\ (WRITE \in q.flags[d2]) = (ask[r.user] = "read")
             /\ q.addr[d3] = Status(r.pos) /\ q.flags[d3] = {WRITE}
      /\ hdr[r.pos] = ask[r.user]
      /\ status[r.pos] = "FF"
      /\ \A t \in InFlight \ {r} : t.pos # r.pos /\ t.user # r.user /\ t.head # h

\* The users named by a sequence of entries, and how often one is named.
Named(s, u) == Cardinality({i \in 1 .. Len(s) : s[i].user = u})

(* A request is in exactly one place: one submission entry ends as exactly *)
(* one completion entry, whatever is refused, coalesced or reordered on    *)
(* the way.                                                                *)
OneHome ==
  \A u \in Users :
    Named(sq, u) + Named(batch, u) + Named(cq, u)
      + Cardinality({r \in InFlight : r.user = u})
      + (IF cur # None /\ cur.user = u THEN 1 ELSE 0)
    = IF ask[u] = None THEN 0 ELSE 1

(* The descriptors that are on no list and in no chain: nothing frees them.*)
(* submit_virtio_request gives up in the middle of its three allocations   *)
(* at most once in the driver's lifetime, and what is lost is what could   *)
(* never have been part of a full set of chains: the queue always has room *)
(* for as many requests as it had when it was new.                         *)
ChainLeft == IF pc # "free" THEN 0
             ELSE IF NEXT \notin q.flags[cur.curr] THEN 1
             ELSE IF NEXT \notin q.flags[q.next[cur.curr]] THEN 2 ELSE 3
Lost == Num - q.num_free - 3 * Cardinality(InFlight) - ChainLeft
LeakBound == Lost \in {0, Num % 3}

(* A notified device: a chain the device has not seen yet is one it will   *)
(* look for, or the driver is about to notify it.                          *)
NoLostKick == DevCanTake(q, seen) => kick \/ pc = "record"

(* No completion is stranded: while the driver waits in recv, an unread    *)
(* used entry is announced by an interrupt that is about to be raised, is  *)
(* raised and not masked, or is already queued at the driver's endpoint.   *)
NoLostCompletion ==
  pc = "idle" /\ CanPop(q) => \/ raise
                              \/ "IRQ" \in pend
                              \/ isr # {} /\ ~masked

(* No submission is stranded: while the driver waits in recv, an entry in  *)
(* the submission ring is announced by a notification that is queued or    *)
(* that the client is about to send.  This needs SqEntries <= Batch:       *)
(* handle_ring leaves what exceeds the batch to the next notification.     *)
NoLostSubmission ==
  pc = "idle" /\ sq # << >> => owed \/ pend \cap {"SQ", "CQ"} # {}

(* The driver, its device and its client implement the contract: what the  *)
(* completion ring holds is what the client is told.                       *)
AnswerIn(u) ==
  IF \E i \in 1 .. Len(cq) : cq[i].user = u
    THEN cq[CHOOSE i \in 1 .. Len(cq) : cq[i].user = u].res
    ELSE None

Contract == INSTANCE IoContract WITH
  Result <- [d \in Done |-> IF d.st = "OK" THEN 0 ELSE -1],
  answer <- [u \in Users |-> AnswerIn(u)]

ImplementsContract == Contract!Spec

(* Fairness: the driver's process, the device and the kernel keep taking   *)
(* the steps they can, the client sends the signals it owes and reads its  *)
(* completions.  The endpoint is strongly fair to a waiting notification,  *)
(* since messages with a zero tag may keep arriving between two recv.      *)
Fairness ==
  /\ SF_vars(Recv)
  /\ WF_vars(IrqRead \/ IrqAck \/ Unmask \/ PopOne \/ PopNone \/ FreeOne \/ Complete)
  /\ WF_vars(Fetch \/ FetchDone \/ RefuseEarly \/ RefuseBadAddr \/ RefuseNoDesc
             \/ Publish \/ Record \/ SubmitDone)
  /\ WF_vars(DevTake \/ DevSleep) /\ WF_vars(DevRaise)
  /\ \A h \in Desc : WF_vars(\E st \in Outcome : DevDone(h, st))
  /\ WF_vars(KernelIrq)
  /\ WF_vars(ClientNotify) /\ WF_vars(ClientReap)

FairSpec == Spec /\ Fairness

(* Every request is answered: none is forgotten in the submission ring, in *)
(* the queue, on the used ring or behind a masked interrupt.               *)
EveryRequestAnswered == \A u \in Users : ask[u] # None ~> AnswerIn(u) # None
=============================================================================
