----------------------------- MODULE VirtioNet -----------------------------
(***************************************************************************)
(* The virtio network driver (virtio/net/src/net.rs, server.rs) at work,   *)
(* after init, SETUP_BUFFER and SETUP_RING: one receive and one transmit   *)
(* queue, a submission ring whose reads fill the first and whose writes    *)
(* fill the second.  As in VirtioBlk the driver is sequential, and a step  *)
(* is what it does between two accesses to memory another party writes.    *)
(***************************************************************************)
EXTENDS VirtQueue, Sequences

CONSTANTS
  Users,      \* the user_data values: the requests the client may have open
  Kinds,      \* the kinds of requests the client submits, within Kind
  Batch,      \* the entries handle_ring takes per call: 16
  SqEntries,  \* the size of the submission ring, chosen by the client
  HdrLen,     \* the size of VirtioNetHdr: 10
  Lens,       \* the lengths of what the device writes to a receive chain
  Masks,      \* whether the kernel masks a delivered interrupt until irq.ack()
  None        \* Option::None

Side == {"rx", "tx"}

(* A good request receives or transmits; the others have an unknown opcode *)
(* or a buffer that is not inside the shared memory.                       *)
Kind == Side \cup {"badop", "badrx", "badtx"}
SideOf(k) == IF k \in {"rx", "badrx"} THEN "rx" ELSE "tx"

Sqe  == [user : Users, kind : Kinds]
Sent == 0
Done == [op : {"rx"}, st : Lens] \cup [op : {"tx"}, st : {Sent}]

ASSUME NetAssumption ==
  /\ Kinds \subseteq Kind
  /\ Batch \in Nat \ {0}
  /\ SqEntries \in Nat \ {0}
  /\ Masks \in BOOLEAN
  /\ HdrLen \in Nat /\ Lens \subseteq Nat
  /\ None \notin Users \cup Kind /\ None \notin Done
  /\ None \notin Nat /\ None # -1

\* Where a descriptor points: a header in the page of its queue, which has
\* one for every descriptor, or the data buffer of a request.
Hdr(d)  == [area |-> "hdr", at |-> d]
Data(u) == [area |-> "data", at |-> u]
Zero    == [area |-> "zero", at |-> 0]
Addr    == {Zero} \cup {Hdr(d) : d \in Desc} \cup {Data(u) : u \in Users}

VARIABLES
  \* the driver
  vq,       \* rx_queue and tx_queue
  pending,  \* pending_rx and pending_tx, by head
  drv,      \* where it is: [pc, side, curr, batch]
  \* memory shared with the client
  sq, cq,   \* submission and completion ring
  \* the kernel
  pend,     \* notification bits waiting at the driver's endpoint
  masked,   \* the IRQ was delivered and not acknowledged since
  \* the device
  dev,      \* [kick, seen, held, raise, isr], as in VirtioBlk
  rxlen,    \* the len fields of the receive queue's used ring
  exec,     \* what it did for each open request (history)
  \* the client
  ask, owed,
  \* history
  bad,      \* how many requests were refused for their address, by side
  hidden    \* ring bits came with an IRQ bit, and no handle_ring since

ringVars   == <<sq, cq>>
kernelVars == <<pend, masked>>
deviceVars == <<dev, rxlen, exec>>
clientVars == <<ask, owed>>
histVars   == <<bad, hidden>>
vars == <<vq, pending, drv, ringVars, kernelVars, deviceVars, clientVars, histVars>>

Init ==
  /\ vq = [s \in Side |-> NewQueue(Zero)]
  /\ pending = [s \in Side |-> [d \in Desc |-> None]]
  /\ drv = [pc |-> "idle", side |-> "rx", curr |-> 0, batch |-> << >>]
  /\ sq = << >> /\ cq = << >>
  /\ pend = {} /\ masked = FALSE
  /\ dev = [kick |-> {}, seen |-> [s \in Side |-> 0], held |-> [s \in Side |-> {}],
            raise |-> FALSE, isr |-> FALSE]
  /\ rxlen = [d \in Desc |-> 0]      \* zeroed memory
  /\ exec = [u \in Users |-> None]
  /\ ask = [u \in Users |-> None] /\ owed = FALSE
  /\ bad = [s \in Side |-> 0] /\ hidden = FALSE

-----------------------------------------------------------------------------
(* dispatch: a notification with an IRQ bit runs handle_irq and nothing    *)
(* else; one without runs handle_ring.  Nothing calls irq.ack().           *)

RecvIrq ==
  /\ drv.pc = "idle" /\ "IRQ" \in pend
  /\ pend' = {}
  /\ hidden' = (hidden \/ "SQ" \in pend)
  /\ drv' = [drv EXCEPT !.pc = "irq"]
  /\ UNCHANGED <<vq, pending, ringVars, masked, deviceVars, clientVars, bad>>

RecvRing ==
  /\ drv.pc = "idle" /\ pend # {} /\ "IRQ" \notin pend
  /\ pend' = {}
  /\ hidden' = FALSE
  /\ drv' = [drv EXCEPT !.pc = "fetch"]
  /\ UNCHANGED <<vq, pending, ringVars, masked, deviceVars, clientVars, bad>>

-----------------------------------------------------------------------------
(* handle_irq                                                              *)

IrqRead ==
  /\ drv.pc = "irq"
  /\ drv' = [drv EXCEPT !.pc = IF dev.isr THEN "ack" ELSE "idle"]
  /\ UNCHANGED <<vq, pending, ringVars, kernelVars, deviceVars, clientVars, histVars>>

IrqAck ==
  /\ drv.pc = "ack"
  /\ dev' = [dev EXCEPT !.isr = FALSE]
  /\ drv' = [drv EXCEPT !.pc = "pop", !.side = "rx"]
  /\ UNCHANGED <<vq, pending, ringVars, kernelVars, rxlen, exec, clientVars, histVars>>

\* The answer to a popped request: the length of the frame behind the header.
Answer(s, n) == IF s = "rx" /\ n > HdrLen THEN n - HdrLen ELSE 0

\* A slip to detect: the entry of pending is read, not taken.
PopOneKeep ==
  /\ drv.pc = "pop" /\ CanPop(vq[drv.side])
  /\ LET s == drv.side
         h == PopId(vq[s])
         n == rxlen[vq[s].last_used_idx % Num]
     IN  /\ vq' = [vq EXCEPT ![s] = Pop(@)]
         /\ \/ pending[s][h] = None /\ UNCHANGED <<pending, drv, cq>>
            \/ /\ pending[s][h] # None
               /\ cq' = Append(cq, [user |-> pending[s][h], res |-> Answer(s, n)])
               /\ drv' = [drv EXCEPT !.curr = h, !.pc = "free"]
               /\ UNCHANGED pending
  /\ UNCHANGED <<sq, kernelVars, deviceVars, clientVars, histVars>>

\* A slip to detect: last_used_idx is raised before the element is read.
PopOneNextLen ==
  /\ drv.pc = "pop" /\ CanPop(vq[drv.side])
  /\ LET s == drv.side
         h == PopId(vq[s])
         n == rxlen[(vq[s].last_used_idx + 1) % Num]
     IN  /\ vq' = [vq EXCEPT ![s] = Pop(@)]
         /\ \/ pending[s][h] = None /\ UNCHANGED <<pending, drv, cq>>
            \/ /\ pending[s][h] # None
               /\ pending' = [pending EXCEPT ![s][h] = None]
               /\ cq' = Append(cq, [user |-> pending[s][h], res |-> Answer(s, n)])
               /\ drv' = [drv EXCEPT !.curr = h, !.pc = "free"]
  /\ UNCHANGED <<sq, kernelVars, deviceVars, clientVars, histVars>>

PopOne ==
  /\ drv.pc = "pop" /\ CanPop(vq[drv.side])
  /\ LET s == drv.side
         h == PopId(vq[s])
         n == rxlen[vq[s].last_used_idx % Num]
     IN  /\ vq' = [vq EXCEPT ![s] = Pop(@)]
         /\ \/ pending[s][h] = None /\ UNCHANGED <<pending, drv, cq>>
            \/ /\ pending[s][h] # None
               /\ pending' = [pending EXCEPT ![s][h] = None]
               /\ cq' = Append(cq, [user |-> pending[s][h], res |-> Answer(s, n)])
               /\ drv' = [drv EXCEPT !.curr = h, !.pc = "free"]
  /\ UNCHANGED <<sq, kernelVars, deviceVars, clientVars, histVars>>

PopNone ==
  /\ drv.pc = "pop" /\ ~CanPop(vq[drv.side])
  /\ drv' = IF drv.side = "rx" THEN [drv EXCEPT !.side = "tx"] ELSE [drv EXCEPT !.pc = "idle"]
  /\ UNCHANGED <<vq, pending, ringVars, kernelVars, deviceVars, clientVars, histVars>>

(* One turn of the loop that frees the chain of a request just answered.   *)
FreeOne ==
  /\ drv.pc = "free"
  /\ LET q == vq[drv.side]
     IN  /\ vq' = [vq EXCEPT ![drv.side] = FreeDesc(q, drv.curr)]
         /\ drv' = IF NEXT \in q.flags[drv.curr]
                     THEN [drv EXCEPT !.curr = q.next[drv.curr]]
                     ELSE [drv EXCEPT !.pc = "pop"]
  /\ UNCHANGED <<pending, ringVars, kernelVars, deviceVars, clientVars, histVars>>

-----------------------------------------------------------------------------
(* handle_ring and submit                                                  *)

Fetch ==
  /\ drv.pc = "fetch" /\ Len(drv.batch) < Batch /\ sq # << >>
  /\ drv' = [drv EXCEPT !.batch = Append(@, Head(sq))]
  /\ sq' = Tail(sq)
  /\ UNCHANGED <<vq, pending, cq, kernelVars, deviceVars, clientVars, histVars>>

\* A slip to detect: the last place of the batch is not filled.
FetchDoneShort ==
  /\ drv.pc = "fetch"
  /\ Len(drv.batch) + 1 >= Batch \/ sq = << >>
  /\ drv' = [drv EXCEPT !.pc = "submit"]
  /\ UNCHANGED <<vq, pending, ringVars, kernelVars, deviceVars, clientVars, histVars>>

FetchDone ==
  /\ drv.pc = "fetch"
  /\ Len(drv.batch) = Batch \/ sq = << >>
  /\ drv' = [drv EXCEPT !.pc = "submit"]
  /\ UNCHANGED <<vq, pending, ringVars, kernelVars, deviceVars, clientVars, histVars>>

\* The entry handle_ring is at, and the state of its queue.
Sub      == Head(drv.batch)
SubSide  == SideOf(Sub.kind)
SubQueue == vq[SubSide]
Submitting == drv.pc = "submit" /\ drv.batch # << >>

Refuse ==
  /\ cq' = Append(cq, [user |-> Sub.user, res |-> -1])
  /\ drv' = [drv EXCEPT !.batch = Tail(@)]
  /\ UNCHANGED <<pending, sq, kernelVars, deviceVars, clientVars, hidden>>

RefuseOp ==
  /\ Submitting
  /\ Sub.kind = "badop"
  /\ Refuse
  /\ UNCHANGED <<vq, bad>>

\* Fewer than two descriptors: the first, if there is one, is not given back.
RefuseNoDesc ==
  /\ Submitting
  /\ Sub.kind # "badop"
  /\ SubQueue.num_free < 2
  /\ vq' = [vq EXCEPT ![SubSide] = IF CanAlloc(@) THEN AllocDesc(@) ELSE @]
  /\ Refuse
  /\ UNCHANGED bad

\* The address is checked after the allocations, which are not given back.
RefuseAddr ==
  /\ Submitting
  /\ Sub.kind \in {"badrx", "badtx"}
  /\ SubQueue.num_free >= 2
  /\ vq' = [vq EXCEPT ![SubSide] = AllocDesc(AllocDesc(@))]
  /\ bad' = [bad EXCEPT ![SubSide] = @ + 1]
  /\ Refuse

\* The chain header -> payload, made of the first two free descriptors.
WriteChain(q, sqe) ==
  LET a1 == AllocDesc(q)
      a2 == AllocDesc(a1)
      w  == IF sqe.kind = "rx" THEN {WRITE} ELSE {}
      w1 == WriteDesc(a2, q.free_head, Hdr(q.free_head), {NEXT} \cup w, a1.free_head)
  IN  WriteDesc(w1, a1.free_head, Data(sqe.user), w, 0)

(* Everything up to the write of the available index; pending is set first.*)
Publish ==
  /\ Submitting
  /\ Sub.kind \in Side
  /\ SubQueue.num_free >= 2
  /\ LET h == SubQueue.free_head
     IN  /\ pending' = [pending EXCEPT ![SubSide][h] = Sub.user]
         /\ vq' = [vq EXCEPT ![SubSide] = Submit(WriteChain(@, Sub), h)]
  /\ drv' = [drv EXCEPT !.pc = "notify"]
  /\ UNCHANGED <<ringVars, kernelVars, deviceVars, clientVars, histVars>>

\* A slip to detect: the first queue is notified, whichever was filled.
NotifyFirst ==
  /\ drv.pc = "notify"
  /\ dev' = [dev EXCEPT !.kick = @ \cup {"rx"}]
  /\ drv' = [drv EXCEPT !.pc = "submit", !.batch = Tail(@)]
  /\ UNCHANGED <<vq, pending, ringVars, kernelVars, rxlen, exec, clientVars, histVars>>

Notify ==
  /\ drv.pc = "notify"
  /\ dev' = [dev EXCEPT !.kick = @ \cup {SubSide}]
  /\ drv' = [drv EXCEPT !.pc = "submit", !.batch = Tail(@)]
  /\ UNCHANGED <<vq, pending, ringVars, kernelVars, rxlen, exec, clientVars, histVars>>

SubmitDone ==
  /\ drv.pc = "submit" /\ drv.batch = << >>
  /\ drv' = [drv EXCEPT !.pc = "idle"]
  /\ UNCHANGED <<vq, pending, ringVars, kernelVars, deviceVars, clientVars, histVars>>

Driver == \/ RecvIrq \/ RecvRing \/ IrqRead \/ IrqAck \/ PopOne \/ PopNone \/ FreeOne
          \/ Fetch \/ FetchDone \/ RefuseOp \/ RefuseNoDesc \/ RefuseAddr
          \/ Publish \/ Notify \/ SubmitDone

-----------------------------------------------------------------------------
(* The device (external), as in VirtioBlk.  A frame may fill a receive     *)
(* chain at any time.                                                      *)

DevTake(s) ==
  /\ s \in dev.kick /\ DevCanTake(vq[s], dev.seen[s])
  /\ dev' = [dev EXCEPT !.held[s] = @ \cup {DevTakeId(vq[s], dev.seen[s])},
                        !.seen[s] = (@ + 1) % IdxMod]
  /\ UNCHANGED <<vq, pending, drv, ringVars, kernelVars, rxlen, exec, clientVars, histVars>>

DevSleep(s) ==
  /\ s \in dev.kick /\ ~DevCanTake(vq[s], dev.seen[s])
  /\ dev' = [dev EXCEPT !.kick = @ \ {s}]
  /\ UNCHANGED <<vq, pending, drv, ringVars, kernelVars, rxlen, exec, clientVars, histVars>>

(* The device uses the two buffers of a chain: it writes a frame and its   *)
(* length to a receive chain, and reads a transmit chain.                  *)
DevDone(s, h, n) ==
  LET q  == vq[s]
      d2 == q.next[h]
  IN  /\ h \in dev.held[s]
      /\ q.addr[h].area = "hdr" /\ q.addr[d2].area = "data"
      /\ (WRITE \in q.flags[h] /\ WRITE \in q.flags[d2]) = (s = "rx")
      /\ exec' = [exec EXCEPT ![q.addr[d2].at] = [op |-> s, st |-> n]]
      /\ rxlen' = IF s = "rx" THEN [rxlen EXCEPT ![q.used_idx % Num] = n] ELSE rxlen
      /\ vq' = [vq EXCEPT ![s] = DevUse(q, h)]
      /\ dev' = [dev EXCEPT !.held[s] = @ \ {h}, !.raise = TRUE]
      /\ UNCHANGED <<pending, drv, ringVars, kernelVars, clientVars, histVars>>

DevRaise ==
  /\ dev.raise
  /\ dev' = [dev EXCEPT !.raise = FALSE, !.isr = TRUE]
  /\ UNCHANGED <<vq, pending, drv, ringVars, kernelVars, rxlen, exec, clientVars, histVars>>

(* The kernel and the client (external), as in VirtioBlk.  A kernel that   *)
(* masks a delivered interrupt until irq.ack() delivers one to this driver *)
(* and no other.  With Masks FALSE it may deliver more, or not: safety is  *)
(* checked of both kinds of kernel at once in this way, liveness is        *)
(* claimed of the one that masks.                                          *)

KernelIrq ==
  /\ dev.isr /\ ~masked /\ "IRQ" \notin pend
  /\ pend' = pend \cup {"IRQ"}
  /\ masked' = Masks
  /\ UNCHANGED <<vq, pending, drv, ringVars, deviceVars, clientVars, histVars>>

ClientSubmit(u, k) ==
  /\ ask[u] = None /\ Len(sq) < SqEntries
  /\ ask' = [ask EXCEPT ![u] = k]
  /\ sq' = Append(sq, [user |-> u, kind |-> k])
  /\ owed' = TRUE
  /\ UNCHANGED <<vq, pending, drv, cq, kernelVars, deviceVars, histVars>>

ClientNotify ==
  /\ owed
  /\ owed' = FALSE
  /\ pend' = pend \cup {"SQ"}
  /\ UNCHANGED <<vq, pending, drv, ringVars, masked, deviceVars, ask, histVars>>

ClientReap ==
  /\ cq # << >>
  /\ cq' = Tail(cq)
  /\ ask' = [ask EXCEPT ![Head(cq).user] = None]
  /\ exec' = [exec EXCEPT ![Head(cq).user] = None]
  /\ UNCHANGED <<vq, pending, drv, sq, kernelVars, dev, rxlen, owed, histVars>>

Device == \/ \E s \in Side : DevTake(s) \/ DevSleep(s)
          \/ \E s \in Side : \E h \in dev.held[s], n \in IF s = "rx" THEN Lens ELSE {Sent} :
               DevDone(s, h, n)
          \/ DevRaise
Client == \/ ClientNotify \/ ClientReap
          \/ \E u \in Users, k \in Kinds : ClientSubmit(u, k)

Next == Driver \/ Device \/ KernelIrq \/ Client

Spec == Init /\ [][Next]_vars

(***************************************************************************)
(* Properties                                                              *)
(***************************************************************************)

TypeOK ==
  /\ vq \in [Side -> Queue(Addr)]
  /\ pending \in [Side -> [Desc -> Users \cup {None}]]
  /\ drv \in [pc : {"idle", "irq", "ack", "pop", "free", "fetch", "submit", "notify"},
               side : Side, curr : Desc, batch : Seq(Sqe)]
  /\ sq \in Seq(Sqe) /\ cq \in Seq([user : Users, res : {Answer("rx", n) : n \in Lens} \cup {0, -1}])
  /\ pend \subseteq {"IRQ", "SQ"} /\ masked \in BOOLEAN
  /\ dev \in [kick : SUBSET Side, seen : [Side -> Idx], held : [Side -> SUBSET Desc],
               raise : BOOLEAN, isr : BOOLEAN]
  /\ rxlen \in [Desc -> Lens \cup {0}]
  /\ exec \in [Users -> Done \cup {None}]
  /\ ask \in [Users -> Kinds \cup {None}] /\ owed \in BOOLEAN
  /\ bad \in [Side -> Nat] /\ hidden \in BOOLEAN

\* Heads the device may still use: made available or taken, not yet used.
Owned(s) ==
  dev.held[s] \cup {vq[s].avail_ring[(dev.seen[s] + i) % Num] :
                      i \in 0 .. ((vq[s].avail_idx - dev.seen[s]) % IdxMod) - 1}

(* Memory the device may still use is left alone: each chain it owns is    *)
(* the header and the buffer of one open request of that direction, with   *)
(* the flags that let the device write it, or not, and no two chains that  *)
(* are recorded share a descriptor.                                        *)
DeviceMemoryStable ==
  \A s \in Side : \A h \in Owned(s) :
    LET q  == vq[s]
        d2 == q.next[h]
        u  == pending[s][h]
        w  == IF s = "rx" THEN {WRITE} ELSE {}
    IN  /\ u # None /\ ask[u] = s
        /\ q.addr[h] = Hdr(h) /\ q.flags[h] = {NEXT} \cup w
        /\ q.addr[d2] = Data(u) /\ q.flags[d2] = w
        /\ \A g \in Desc \ {h} : pending[s][g] # None => {g, q.next[g]} \cap {h, d2} = {}

\* The users named by a sequence of entries, and how often one is named.
Named(s, u) == Cardinality({i \in 1 .. Len(s) : s[i].user = u})

\* The entries the driver has taken and not yet refused or recorded.
ToDo == IF drv.pc = "notify" THEN Tail(drv.batch) ELSE drv.batch

(* A request is in exactly one place until the client has read its answer. *)
OneHome ==
  \A u \in Users :
    Named(sq, u) + Named(ToDo, u) + Named(cq, u)
      + Cardinality({x \in Side \X Desc : pending[x[1]][x[2]] = u})
    = IF ask[u] = None THEN 0 ELSE 1

\* The descriptors of a queue that are on no list and in no chain.
ChainLeft(s) == IF drv.pc # "free" \/ drv.side # s THEN 0
                ELSE IF NEXT \in vq[s].flags[drv.curr] THEN 2 ELSE 1
Lost(s) == Num - vq[s].num_free - ChainLeft(s)
             - 2 * Cardinality({d \in Desc : pending[s][d] # None})

(* Every request refused for its address costs its queue two descriptors   *)
(* for ever, and nothing else does, except for the odd one of a queue of   *)
(* odd size: with 128 descriptors a chain is never left half allocated.    *)
LeakExact == \A s \in Side : Lost(s) - 2 * bad[s] \in {0, Num % 2}

(* Descriptors and requests are where they belong: what the device may use *)
(* is left alone, a request is in one place, no descriptor gets lost but   *)
(* those of refused requests.                                              *)
ChainsKept == DeviceMemoryStable /\ OneHome /\ LeakExact

(* A chain the device has not seen is one it was notified of, or will be.  *)
NoLostKick ==
  \A s \in Side : DevCanTake(vq[s], dev.seen[s]) =>
    s \in dev.kick \/ (drv.pc = "notify" /\ SubSide = s)

(* While the driver waits, an unread completion has its interrupt raised,  *)
(* or about to be, or already queued.                                      *)
CompletionSignalled ==
  drv.pc = "idle" /\ (\E s \in Side : CanPop(vq[s])) => dev.raise \/ dev.isr \/ "IRQ" \in pend

(* Nothing waits unannounced between driver and device, in either direction. *)
Signalled == NoLostKick /\ CompletionSignalled

(* The comment in the UART's service says that a driver must acknowledge   *)
(* its interrupt to the kernel to have it enabled again: an unread         *)
(* completion must have an interrupt that can be delivered.                *)
CompletionDelivered ==
  drv.pc = "idle" /\ (\E s \in Side : CanPop(vq[s]))
    => dev.raise \/ "IRQ" \in pend \/ (dev.isr /\ ~masked)

(* While the driver waits, an entry in the submission ring is announced,   *)
(* unless its announcement came together with an interrupt.                *)
SubmissionSignalled ==
  drv.pc = "idle" /\ sq # << >> => owed \/ "SQ" \in pend \/ hidden

(* The driver, its device and its client implement the contract.           *)
AnswerIn(u) ==
  IF \E i \in 1 .. Len(cq) : cq[i].user = u
    THEN cq[CHOOSE i \in 1 .. Len(cq) : cq[i].user = u].res
    ELSE None

Contract == INSTANCE IoContract WITH
  Result <- [d \in Done |-> IF d.op = "rx" /\ d.st >= HdrLen THEN d.st - HdrLen ELSE 0],
  answer <- [u \in Users |-> AnswerIn(u)]

ImplementsContract == Contract!Spec

(* Fairness, as in VirtioBlk: the driver's process, the kernel and the     *)
(* client take the steps they can.  The device transmits what it holds; a  *)
(* frame need never arrive.                                                *)
Fairness ==
  /\ WF_vars(RecvIrq \/ RecvRing)
  /\ WF_vars(IrqRead \/ IrqAck \/ PopOne \/ PopNone \/ FreeOne)
  /\ WF_vars(Fetch \/ FetchDone \/ RefuseOp \/ RefuseNoDesc \/ RefuseAddr
             \/ Publish \/ Notify \/ SubmitDone)
  /\ \A s \in Side : WF_vars(DevTake(s) \/ DevSleep(s))
  /\ WF_vars(DevRaise)
  /\ \A h \in Desc : WF_vars(DevDone("tx", h, Sent))
  /\ WF_vars(KernelIrq) /\ WF_vars(ClientNotify) /\ WF_vars(ClientReap)

FairSpec == Spec /\ Fairness

(* What a client sends is carried out by the device or refused, whatever   *)
(* else happens; nothing in this takes an interrupt, so it holds without   *)
(* irq.ack() too, except for a submission whose announcement came together *)
(* with an interrupt.  The answer is another matter (CompletionDelivered). *)
SendsCarriedOut ==
  \A u \in Users : ask[u] \notin {None, "rx"} ~> exec[u] # None \/ AnswerIn(u) # None \/ hidden
=============================================================================
