-------------------------------- MODULE Uart --------------------------------
(***************************************************************************)
(* The NS16550A driver (uart/ns16550a/src/): receive FIFO, software        *)
(* buffer, the two rings of bytes and the request ring it shares with its  *)
(* client.  The driver is sequential; a step is what it does between two   *)
(* accesses to registers or memory another party writes.                   *)
(*                                                                         *)
(* Received bytes are numbered in the order of their arrival; bytes to     *)
(* send are only counted.  Registers are reduced to what the driver's      *)
(* decisions depend on: data ready, overrun, the interrupt identification  *)
(* and whether interrupts are enabled.                                     *)
(***************************************************************************)
EXTENDS Integers, Sequences, FiniteSets

CONSTANTS
  MaxBytes,     \* how many bytes the line delivers in a behaviour
  FifoSize,     \* the receive FIFO of the device: 16
  Trigger,      \* its trigger level: 14
  SoftLimit,    \* RX_BUFFER_SOFT_LIMIT: 4096
  RxRing,       \* the capacity of the shared ring of received bytes: 2048
  TxRing,       \* the capacity of the shared ring of bytes to send: 2048
  CqSize,       \* the capacity of the completion ring
  RxBudget,     \* RX_IRQ_BUDGET_BYTES: 512
  TxBudget,     \* TX_SQ_BUDGET_BYTES: 1024
  TxChunk,      \* TX_RING_CHUNK: 128
  Interleave,   \* RX_TX_INTERLEAVE_BUDGET_BYTES: 64
  EventBudget,  \* IRQ_EVENT_BUDGET: 64
  Submits,      \* the requests the client submits, within Kinds
  Calls         \* the direct calls it makes, within {"read", "write", "baud"}

Kinds == {"write", "read", "bad"}    \* opcodes; also the user_data of the request

ASSUME UartAssumption ==
  /\ {MaxBytes, FifoSize, Trigger, SoftLimit, RxRing, TxRing, CqSize, RxBudget,
      TxBudget, TxChunk, Interleave, EventBudget} \subseteq Nat \ {0}
  /\ Trigger <= FifoSize
  /\ Submits \subseteq Kinds /\ Calls \subseteq {"read", "write", "baud"}

Byte == 1 .. MaxBytes

VARIABLES
  \* the device
  hw,       \* [fifo, timeout, overrun, ier]
  arrived,  \* the number of the last byte that came over the line
  \* the driver
  sw,       \* rx_buffer
  reading,  \* pending_read is set: its user_data is "read"
  drv,      \* where it is, see Init
  \* memory shared with the client
  up,       \* which of it is set up: "shm" (the rings of bytes), "ring" (sq, cq)
  rxr, txr, \* rings of received bytes and (their number) of bytes to send
  sq, cq,
  \* the kernel
  pend,     \* notification bits waiting at the driver's endpoint
  masked,   \* the IRQ was delivered and not acknowledged since
  \* the client
  cli,      \* [ask, put, owed, look]
  got,      \* the last byte it read from the ring
  \* history
  gone,     \* bytes that left: read by the client, lost in hardware, dropped
            \* at a full software buffer, or reset with the FIFO
  lost,     \* requests with a completion that did not fit the completion ring
  cut       \* the last write stopped at its budget with bytes left to send

sharedVars == <<rxr, txr, sq, cq>>
kernelVars == <<pend, masked>>
clientVars == <<cli, got>>
histVars   == <<gone, lost, cut>>
vars == <<hw, arrived, sw, reading, drv, up, sharedVars, kernelVars, clientVars, histVars>>

(* new and init_hw: the FIFOs are empty, RX and line status interrupts on. *)
Init ==
  /\ hw = [fifo |-> << >>, timeout |-> FALSE, overrun |-> FALSE, ier |-> TRUE]
  /\ arrived = 0
  /\ sw = << >> /\ reading = FALSE
  /\ drv = [pc |-> "idle",
            bits |-> {},     \* what is left of the notification being handled
            events |-> 0,    \* irq_events
            left |-> 0,      \* what is left of the budget of a drain
            txleft |-> 0,    \* remaining_budget of process_tx_ring
            pushed |-> 0,    \* pushed_total
            ret |-> "idle"]  \* where process_rx_ring or the drain returns to
  /\ up = {}
  /\ rxr = << >> /\ txr = 0 /\ sq = << >> /\ cq = << >>
  /\ pend = {} /\ masked = FALSE
  /\ cli = [ask |-> {}, put |-> FALSE, owed |-> {}, look |-> FALSE] /\ got = 0
  /\ gone = 0 /\ lost = {} /\ cut = FALSE

\* The interrupt identification register.  The driver enables neither the
\* THR-empty nor the modem status interrupt.
Iir == IF ~hw.ier THEN "none"
       ELSE IF hw.overrun THEN "rls"
       ELSE IF Len(hw.fifo) >= Trigger THEN "rx"
       ELSE IF hw.timeout THEN "timeout" ELSE "none"

\* A read of the line status register clears its error bits.
ReadLsr(h) == [h EXCEPT !.overrun = FALSE]

\* IoUringServer::complete: the error of a full ring is ignored.
Complete(k) ==
  IF Len(cq) < CqSize
    THEN cq' = Append(cq, k) /\ UNCHANGED lost
    ELSE cq' = cq /\ lost' = lost \cup {k}

-----------------------------------------------------------------------------
(* dispatch of a notification: IRQ, then CQ, then SQ.                      *)

Recv ==
  /\ drv.pc = "idle" /\ pend # {}
  /\ drv' = [drv EXCEPT !.pc = "bits", !.bits = pend]
  /\ pend' = {}
  /\ UNCHANGED <<hw, arrived, sw, reading, up, sharedVars, masked, clientVars, histVars>>

\* The state that goes on at p, by way of process_rx_ring if something is buffered.
Flush(p) == IF sw # << >> THEN [drv EXCEPT !.pc = "push", !.pushed = 0, !.ret = p]
                          ELSE [drv EXCEPT !.pc = p]

Serve(bit) ==
  /\ drv.pc = "bits" /\ bit \in drv.bits
  /\ UNCHANGED <<hw, arrived, sw, reading, up, sharedVars, kernelVars, clientVars, histVars>>

ServeIrq ==
  /\ Serve("IRQ")
  /\ drv' = [drv EXCEPT !.pc = "irq", !.bits = @ \ {"IRQ"}, !.events = 0]

\* A slip to detect: the client's signal flushes nothing.
ServeCqIdle ==
  /\ Serve("CQ") /\ "IRQ" \notin drv.bits
  /\ drv' = [drv EXCEPT !.bits = @ \ {"CQ"}]

\* A slip to detect: a CQ bit hides an SQ bit.
ServeCqElse ==
  /\ Serve("CQ") /\ "IRQ" \notin drv.bits
  /\ drv' = [Flush("bits") EXCEPT !.bits = {}]

ServeCq ==
  /\ Serve("CQ") /\ "IRQ" \notin drv.bits
  /\ drv' = [Flush("bits") EXCEPT !.bits = @ \ {"CQ"}]

ServeSq ==
  /\ Serve("SQ") /\ drv.bits = {"SQ"}
  /\ drv' = [drv EXCEPT !.pc = "sq", !.bits = {}]

ServeDone ==
  /\ drv.pc = "bits" /\ drv.bits = {}
  /\ drv' = [drv EXCEPT !.pc = "idle", !.ret = "idle"]
  /\ UNCHANGED <<hw, arrived, sw, reading, up, sharedVars, kernelVars, clientVars, histVars>>

-----------------------------------------------------------------------------
(* handle_irq, drain_rx_fifo_to_sw_buffer                                  *)

StartDrain(d, budget, ret) ==
  [d EXCEPT !.pc = "drain", !.left = budget, !.ret = ret]

IrqEvent ==
  /\ drv.pc = "irq" /\ drv.events < EventBudget /\ Iir # "none"
  /\ drv' = [StartDrain(drv, RxBudget, "irq") EXCEPT !.events = @ + 1]
  /\ hw' = ReadLsr(hw)
  /\ UNCHANGED <<arrived, sw, reading, up, sharedVars, kernelVars, clientVars, histVars>>

\* has_data implies that something is buffered.
IrqEnd ==
  /\ drv.pc = "irq" /\ (drv.events = EventBudget \/ Iir = "none")
  /\ drv' = [Flush("ack") EXCEPT !.events = 0]
  /\ UNCHANGED <<hw, arrived, sw, reading, up, sharedVars, kernelVars, clientVars, histVars>>

\* A slip to detect: no acknowledgement while there is more to drain.
IrqAckDrained ==
  /\ drv.pc = "ack"
  /\ masked' = (Iir # "none")
  /\ drv' = [drv EXCEPT !.pc = "bits"]
  /\ UNCHANGED <<hw, arrived, sw, reading, up, sharedVars, pend, clientVars, histVars>>

IrqAck ==
  /\ drv.pc = "ack"
  /\ masked' = FALSE
  /\ drv' = [drv EXCEPT !.pc = "bits"]
  /\ UNCHANGED <<hw, arrived, sw, reading, up, sharedVars, pend, clientVars, histVars>>

\* A slip to detect: one byte too many.
FitsOneMore == Len(sw) <= SoftLimit

Fits == Len(sw) < SoftLimit

\* getchar succeeds: a byte is buffered, or dropped at the limit.  A drop does
\* not count against the budget.
DrainByte ==
  /\ drv.pc = "drain" /\ drv.left > 0 /\ hw.fifo # << >>
  /\ hw' = [ReadLsr(hw) EXCEPT !.fifo = Tail(@), !.timeout = FALSE]
  /\ \/ /\ Fits
        /\ sw' = Append(sw, Head(hw.fifo))
        /\ drv' = [drv EXCEPT !.left = @ - 1]
        /\ UNCHANGED gone
     \/ /\ ~Fits
        /\ gone' = gone + 1
        /\ UNCHANGED <<sw, drv>>
  /\ UNCHANGED <<arrived, reading, up, sharedVars, kernelVars, clientVars, lost, cut>>

\* Within process_tx_ring, process_rx_ring follows if anything was drained.
DrainEnd ==
  /\ drv.pc = "drain" /\ (drv.left = 0 \/ hw.fifo = << >>)
  /\ hw' = ReadLsr(hw)
  /\ drv' = [IF drv.ret = "tx" /\ drv.left < Interleave
                THEN Flush("tx") ELSE [drv EXCEPT !.pc = drv.ret] EXCEPT !.left = 0]
  /\ UNCHANGED <<arrived, sw, reading, up, sharedVars, kernelVars, clientVars, histVars>>

-----------------------------------------------------------------------------
(* process_rx_ring: one turn of its loop pushes what fits of a front slice *)
(* of the buffer, and a short push ends it.                                *)

Room == IF "shm" \in up THEN RxRing - Len(rxr) ELSE 0

\* A slip to detect: the whole slice is popped after a short push.
PushAllPopped ==
  /\ drv.pc = "push" /\ sw # << >> /\ Room > 0
  /\ \E front \in 1 .. Len(sw) :
       LET n == IF front <= Room THEN front ELSE Room
       IN  /\ rxr' = rxr \o SubSeq(sw, 1, n)
           /\ sw' = SubSeq(sw, front + 1, Len(sw))
           /\ drv' = [drv EXCEPT !.pushed = @ + n, !.pc = IF n < front THEN "post" ELSE "push"]
  /\ UNCHANGED <<hw, arrived, reading, up, txr, sq, cq, kernelVars, clientVars, histVars>>

Push ==
  /\ drv.pc = "push" /\ sw # << >> /\ Room > 0
  /\ \E front \in 1 .. Len(sw) :
       LET n == IF front <= Room THEN front ELSE Room
       IN  /\ rxr' = rxr \o SubSeq(sw, 1, n)
           /\ sw' = SubSeq(sw, n + 1, Len(sw))
           /\ drv' = [drv EXCEPT !.pushed = @ + n, !.pc = IF n < front THEN "post" ELSE "push"]
  /\ UNCHANGED <<hw, arrived, reading, up, txr, sq, cq, kernelVars, clientVars, histVars>>

PushEnd ==
  /\ drv.pc = "push" /\ (sw = << >> \/ Room = 0)
  /\ drv' = [drv EXCEPT !.pc = "post"]
  /\ UNCHANGED <<hw, arrived, sw, reading, up, sharedVars, kernelVars, clientVars, histVars>>

Post ==
  /\ drv.pc = "post"
  /\ IF drv.pushed > 0 /\ reading /\ "ring" \in up
       THEN Complete("read") ELSE UNCHANGED <<cq, lost>>
  /\ drv' = [drv EXCEPT !.pc = drv.ret, !.pushed = 0, !.ret = "idle"]
  /\ UNCHANGED <<hw, arrived, sw, reading, up, rxr, txr, sq, kernelVars, clientVars, gone, cut>>

-----------------------------------------------------------------------------
(* handle_sq                                                               *)

Take(k) ==
  /\ drv.pc = "sq" /\ sq # << >> /\ Head(sq) = k
  /\ sq' = Tail(sq)
  /\ UNCHANGED <<hw, arrived, sw, up, rxr, txr, kernelVars, clientVars, gone, cut>>

TakeWrite ==
  /\ Take("write")
  /\ drv' = [drv EXCEPT !.pc = "tx", !.txleft = TxBudget]
  /\ UNCHANGED <<reading, cq, lost>>

TakeRead ==
  /\ Take("read")
  /\ reading' = TRUE
  /\ drv' = [drv EXCEPT !.pc = "push", !.pushed = 0, !.ret = "fake"]
  /\ UNCHANGED <<cq, lost>>

TakeBad ==
  /\ Take("bad")
  /\ Complete("bad")
  /\ UNCHANGED <<reading, drv>>

\* The completion that makes the client look at the ring.
FakeRead ==
  /\ drv.pc = "fake"
  /\ Complete("read")
  /\ drv' = [drv EXCEPT !.pc = "sq"]
  /\ UNCHANGED <<hw, arrived, sw, reading, up, rxr, txr, sq, kernelVars, clientVars, gone, cut>>

SqEmpty ==
  /\ drv.pc = "sq" /\ sq = << >>
  /\ drv' = Flush("bits")
  /\ UNCHANGED <<hw, arrived, sw, reading, up, sharedVars, kernelVars, clientVars, histVars>>

\* process_tx_ring: a chunk is sent (putchar waits for the transmitter and reads
\* the line status), then the FIFO is drained.
TxSend ==
  /\ drv.pc = "tx" /\ drv.txleft > 0 /\ txr > 0 /\ "shm" \in up
  /\ LET n == CHOOSE m \in {TxChunk, drv.txleft, txr} :
                \A k \in {TxChunk, drv.txleft, txr} : m <= k
     IN  /\ txr' = txr - n
         /\ drv' = [StartDrain(drv, Interleave, "tx") EXCEPT !.txleft = @ - n]
  /\ hw' = ReadLsr(hw)
  /\ UNCHANGED <<arrived, sw, reading, up, rxr, sq, cq, kernelVars, clientVars, histVars>>

TxEnd ==
  /\ drv.pc = "tx" /\ (drv.txleft = 0 \/ txr = 0)
  /\ cut' = (drv.txleft = 0 /\ txr > 0)
  /\ drv' = [drv EXCEPT !.pc = "sent", !.txleft = 0]
  /\ UNCHANGED <<hw, arrived, sw, reading, up, sharedVars, kernelVars, clientVars, gone, lost>>

WriteDone ==
  /\ drv.pc = "sent"
  /\ Complete("write")
  /\ drv' = [drv EXCEPT !.pc = "sq"]
  /\ UNCHANGED <<hw, arrived, sw, reading, up, rxr, txr, sq, kernelVars, clientVars, gone, cut>>

-----------------------------------------------------------------------------
(* Calls.  The direct ones work on the device and not on the rings.        *)

Idle == drv.pc = "idle" /\ UNCHANGED <<arrived, sw, drv, sharedVars, kernelVars, cli, lost, cut>>

SetupBuffer ==
  /\ "shm" \notin up /\ Idle
  /\ up' = up \cup {"shm"}
  /\ UNCHANGED <<hw, reading, got, gone>>

SetupRing ==
  /\ "ring" \notin up /\ Idle
  /\ up' = up \cup {"ring"}
  /\ UNCHANGED <<hw, reading, got, gone>>

\* READ: up to the caller's limit of what is in the FIFO.
CallRead ==
  /\ "read" \in Calls /\ hw.fifo # << >> /\ Idle
  /\ \E n \in 1 .. Len(hw.fifo) :
       /\ hw' = [ReadLsr(hw) EXCEPT !.fifo = SubSeq(@, n + 1, Len(@)), !.timeout = FALSE]
       /\ gone' = gone + n
  /\ UNCHANGED <<reading, up, got>>

\* WRITE: the bytes are sent at once; putchar reads the line status.
CallWrite ==
  /\ "write" \in Calls /\ Idle
  /\ hw' = ReadLsr(hw)
  /\ UNCHANGED <<reading, up, got, gone>>

\* SET_BAUD_RATE: interrupts are disabled and both FIFOs reset.
SetBaudRate ==
  /\ "baud" \in Calls /\ Idle
  /\ hw' = [hw EXCEPT !.ier = FALSE, !.fifo = << >>, !.timeout = FALSE]
  /\ gone' = gone + Len(hw.fifo)
  /\ UNCHANGED <<reading, up, got>>

Driver == \/ Recv \/ ServeIrq \/ ServeCq \/ ServeSq \/ ServeDone
          \/ IrqEvent \/ IrqEnd \/ IrqAck \/ DrainByte \/ DrainEnd
          \/ Push \/ PushEnd \/ Post
          \/ TakeWrite \/ TakeRead \/ TakeBad \/ FakeRead \/ SqEmpty
          \/ TxSend \/ TxEnd \/ WriteDone
Setup  == SetupBuffer \/ SetupRing
Direct == CallRead \/ CallWrite \/ SetBaudRate

-----------------------------------------------------------------------------
(* The line and the device (external): a byte that finds the FIFO full is  *)
(* lost; bytes below the trigger level raise the timeout some time later.  *)

Arrive ==
  /\ arrived < MaxBytes
  /\ arrived' = arrived + 1
  /\ \/ /\ Len(hw.fifo) < FifoSize
        /\ hw' = [hw EXCEPT !.fifo = Append(@, arrived + 1), !.timeout = FALSE]
        /\ UNCHANGED gone
     \/ /\ Len(hw.fifo) = FifoSize
        /\ hw' = [hw EXCEPT !.overrun = TRUE]
        /\ gone' = gone + 1
  /\ UNCHANGED <<sw, reading, drv, up, sharedVars, kernelVars, clientVars, lost, cut>>

Timeout ==
  /\ hw.fifo # << >> /\ Len(hw.fifo) < Trigger /\ ~hw.timeout
  /\ hw' = [hw EXCEPT !.timeout = TRUE]
  /\ UNCHANGED <<arrived, sw, reading, drv, up, sharedVars, kernelVars, clientVars, histVars>>

(* The kernel (external) delivers the interrupt and masks it.              *)
KernelIrq ==
  /\ Iir # "none" /\ ~masked
  /\ pend' = pend \cup {"IRQ"}
  /\ masked' = TRUE
  /\ UNCHANGED <<hw, arrived, sw, reading, drv, up, sharedVars, clientVars, histVars>>

-----------------------------------------------------------------------------
(* The client (external) has at most one request of each kind open; a      *)
(* read is open until its first completion, and every completion of it     *)
(* makes the client empty the ring of received bytes and then signal CQ.   *)

ClientOther == <<hw, arrived, sw, reading, drv, up, masked, lost, cut>>

ClientPut ==
  /\ "write" \in Submits \ cli.ask /\ "shm" \in up /\ txr < TxRing
  /\ txr' = txr + 1
  /\ cli' = [cli EXCEPT !.put = TRUE]
  /\ UNCHANGED <<ClientOther, rxr, sq, cq, pend, got, gone>>

ClientSubmit(k) ==
  /\ k \in Submits /\ up = {"shm", "ring"} /\ k \notin cli.ask
  /\ k = "write" => cli.put
  /\ sq' = Append(sq, k)
  /\ cli' = [cli EXCEPT !.ask = @ \cup {k}, !.put = @ /\ k # "write", !.owed = @ \cup {"SQ"}]
  /\ UNCHANGED <<ClientOther, rxr, txr, cq, pend, got, gone>>

ClientNotify(bit) ==
  /\ bit \in cli.owed /\ ~(bit = "CQ" /\ cli.look)
  /\ cli' = [cli EXCEPT !.owed = @ \ {bit}]
  /\ pend' = pend \cup {bit}
  /\ UNCHANGED <<ClientOther, sharedVars, got, gone>>

ClientReap ==
  /\ cq # << >> /\ ~cli.look
  /\ cq' = Tail(cq)
  /\ cli' = [cli EXCEPT !.ask = @ \ {Head(cq)}, !.look = (Head(cq) = "read"),
                        !.owed = @ \cup {"CQ"}]
  /\ UNCHANGED <<ClientOther, rxr, txr, sq, pend, got, gone>>

ClientRead ==
  /\ cli.look /\ rxr # << >>
  /\ rxr' = Tail(rxr)
  /\ got' = Head(rxr) /\ gone' = gone + 1
  /\ UNCHANGED <<ClientOther, txr, sq, cq, pend, cli>>

ClientReadEnd ==
  /\ cli.look /\ rxr = << >>
  /\ cli' = [cli EXCEPT !.look = FALSE]
  /\ UNCHANGED <<ClientOther, sharedVars, pend, got, gone>>

Device == Arrive \/ Timeout
Client == \/ ClientPut \/ ClientReap \/ ClientRead \/ ClientReadEnd
          \/ \E k \in Kinds : ClientSubmit(k)
          \/ \E bit \in {"SQ", "CQ"} : ClientNotify(bit)

Next == Driver \/ Setup \/ Direct \/ Device \/ KernelIrq \/ Client

Spec == Init /\ [][Next]_vars

(***************************************************************************)
(* Properties                                                              *)
(***************************************************************************)

TypeOK ==
  /\ hw \in [fifo : Seq(Byte), timeout : BOOLEAN, overrun : BOOLEAN, ier : BOOLEAN]
  /\ Len(hw.fifo) <= FifoSize /\ Len(sw) <= SoftLimit /\ Len(rxr) <= RxRing
  /\ arrived \in 0 .. MaxBytes /\ gone \in 0 .. MaxBytes /\ got \in 0 .. MaxBytes
  /\ sw \in Seq(Byte) /\ rxr \in Seq(Byte) /\ txr \in 0 .. TxRing
  /\ sq \in Seq(Kinds) /\ cq \in Seq(Kinds) /\ Len(cq) <= CqSize
  /\ reading \in BOOLEAN /\ lost \subseteq Kinds /\ cut \in BOOLEAN
  /\ drv \in [pc : {"idle", "bits", "irq", "ack", "drain", "push", "post", "sq", "fake", "tx", "sent"},
               bits : SUBSET {"IRQ", "CQ", "SQ"}, events : 0 .. EventBudget,
               left : Nat, txleft : 0 .. TxBudget, pushed : Nat,
               ret : {"idle", "irq", "ack", "bits", "tx", "fake"}]
  /\ up \subseteq {"shm", "ring"} /\ pend \subseteq {"IRQ", "CQ", "SQ"} /\ masked \in BOOLEAN
  /\ cli \in [ask : SUBSET Kinds, put : BOOLEAN, owed : SUBSET {"SQ", "CQ"}, look : BOOLEAN]

\* All bytes on their way to the client, the next one first.
InTransit == rxr \o sw \o hw.fifo

(* No received byte is duplicated, overtaken or lost without a reason: what *)
(* is on its way came after what the client has read, in the order of      *)
(* arrival, and every byte is on its way or was given away, dropped at a   *)
(* full buffer or reset.                                                   *)
BytesInOrder ==
  /\ \A i \in 1 .. Len(InTransit) : InTransit[i] > got
  /\ \A i \in 1 .. Len(InTransit) - 1 : InTransit[i] < InTransit[i + 1]
  /\ arrived = gone + Len(InTransit)

\* The client is about to look at the ring of received bytes.
WillLook == cli.look \/ \E i \in 1 .. Len(cq) : cq[i] = "read"

(* While the driver waits, the client that posted a read knows of the      *)
(* bytes in the shared ring, unless a completion did not fit its ring.     *)
NoUnseenBytes ==
  drv.pc = "idle" /\ reading /\ rxr # << >> => WillLook \/ "read" \in lost

(* While the driver waits, bytes left in the software buffer wait for a    *)
(* client that has a full ring to read, or for a notification.             *)
NoStuckBuffer ==
  drv.pc = "idle" /\ reading /\ sw # << >> => rxr # << >> \/ "CQ" \in cli.owed \cup pend

(* While the driver waits, the next received byte can interrupt it.        *)
IrqArmed == drv.pc = "idle" => ~masked \/ "IRQ" \in pend

(* While the driver waits, bytes in the transmit ring belong to a write    *)
(* that is announced or not yet submitted, or were cut off by the budget.  *)
SendSignalled ==
  drv.pc = "idle" /\ txr > 0 => cli.put \/ "SQ" \in cli.owed \cup pend \/ cut

(* A driver that waits has not forgotten anything: whatever lies in its    *)
(* buffers, in either direction, is announced to the one who takes it on.  *)
Signalled == NoUnseenBytes /\ NoStuckBuffer /\ IrqArmed /\ SendSignalled

(* The comments in set_baud_rate say that interrupts are disabled while it *)
(* runs and enabled at its end; init_hw says what is enabled.              *)
IrqEnabled == drv.pc = "idle" => hw.ier

(* Fairness: the driver's process, the kernel and the client take the      *)
(* steps they can, and the device raises its timeouts.  No byte need come, *)
(* and no request need be submitted.                                       *)
Fairness ==
  /\ WF_vars(Driver) /\ WF_vars(Timeout) /\ WF_vars(KernelIrq)
  /\ WF_vars(ClientReap \/ ClientRead \/ ClientReadEnd)
  /\ \A bit \in {"SQ", "CQ"} : WF_vars(ClientNotify(bit))

FairSpec == Spec /\ Fairness

Waiting(b) == \E i \in 1 .. Len(InTransit) : InTransit[i] = b

(* Once the client has posted a read, every byte that arrives leaves: the  *)
(* client reads it, or it is one of those dropped, unless a completion did *)
(* not fit.  The loop of handle_sq has no budget, so this is said of       *)
(* clients that let it end.                                                *)
BytesDelivered ==
  []<>(drv.pc = "idle") =>
    \A b \in Byte : (reading /\ Waiting(b)) ~> ~Waiting(b) \/ "read" \in lost

(* Every request is answered, unless its completion did not fit: received  *)
(* bytes complete a read again and again, and can fill the ring.           *)
RequestsAnswered ==
  \A k \in Kinds : (\E i \in 1 .. Len(sq) : sq[i] = k)
                     ~> k \in lost \/ (\E i \in 1 .. Len(cq) : cq[i] = k)
=============================================================================
