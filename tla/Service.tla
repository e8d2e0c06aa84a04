------------------------------ MODULE Service ------------------------------
(***************************************************************************)
(* A driver process around its device: how it starts, how clients come to  *)
(* own it, and how the request ring and the shared buffer are set up       *)
(* (again).  kind says which driver: virtio "block", "net", "gpu", the     *)
(* "uart" or the "ramdisk"; what differs is written as the list of steps   *)
(* each of them takes.  A handler runs undisturbed, but each step that     *)
(* ends in `?` may fail and leaves behind what the steps before it did.    *)
(* What a notification does is in the module of each driver; here it       *)
(* matters only where it takes the ring server away.                       *)
(***************************************************************************)
EXTENDS Integers, Sequences, FiniteSets

CONSTANTS
  Clients,   \* the badges of the clients
  Badge0,    \* badge 0: the holder of an unbadged endpoint
  Slots,     \* how many capability slots the driver may allocate
  Page,      \* PGSIZE
  Sizes,     \* the buffer sizes the clients of each kind ask for: no driver checks them
  MaxSetups, \* bound on the rings that are set up
  None

Kinds == {"block", "net", "gpu", "uart", "ramdisk"}

ASSUME ServiceAssumption ==
  /\ None \notin Clients /\ Slots \in Nat /\ Page \in Nat \ {0} /\ MaxSetups \in Nat
  /\ Sizes \in [Kinds -> SUBSET Nat]

VARIABLES
  kind,      \* which driver it is
  phase,     \* "boot", "running", "failed" or "panicked"
  step,      \* the next step of start-up
  irqBound,  \* interrupts arrive at the driver's endpoint
  ready,     \* the device is initialised and in its place in the service
  visible,   \* the logical device is registered: clients find it
  bound,     \* connected_client
  settled,   \* the bound client has set up a ring since it was bound, and the
             \* holder of an unbadged endpoint none since (history)
  slots,     \* slots allocated
  held,      \* whose capability each slot holds
  frames,    \* ring frames allocated
  mapped,    \* the frame at RING_VA
  ring,      \* the ring server: [frame, notify (a slot), by]
  buf        \* the buffer as recorded and as mapped: [size, bytes]

starting == <<kind, phase, step, irqBound, ready, visible>>
ringing  == <<slots, held, frames, mapped, ring>>
vars     == <<starting, ringing, bound, settled, buf>>

FixedNotify == 0            \* RING_SLOT of the UART, NOTIFY_SLOT of the ramdisk
FixedBuffer == Slots + 1    \* SHM_SLOT, BUFFER_SLOT

Init ==
  /\ kind \in Kinds
  /\ phase = "boot" /\ step = 1 /\ irqBound = FALSE /\ ready = FALSE /\ visible = FALSE
  /\ bound = None /\ settled = FALSE
  /\ slots = 0 /\ held = [s \in 0 .. Slots + 1 |-> None]
  /\ frames = 0 /\ mapped = 0 /\ ring = None /\ buf = None

-----------------------------------------------------------------------------
(* Starting.                                                               *)

BlockBoot   == <<"get_mmio", "map_mmio", "get_irq", "mint", "bind", "probe",
                 "dma", "map_dma", "ready", "register">>
NetBoot     == <<"get_mmio", "map_mmio", "get_irq", "mint", "bind",
                 "dma", "map_dma", "probe", "ready", "register">>
GpuBoot     == <<"get_mmio", "map_mmio", "get_irq", "mint", "bind", "probe",
                 "dma", "map_dma", "ready", "register">>
UartBoot    == <<"get_mmio", "map_mmio", "get_irq", "mint", "bind", "ready", "register">>
RamdiskBoot == <<"get_mmio", "map_mmio", "ready", "register">>

Boot == CASE kind = "block"   -> BlockBoot
          [] kind = "net"     -> NetBoot
          [] kind = "gpu"     -> GpuBoot
          [] kind = "uart"    -> UartBoot
          [] kind = "ramdisk" -> RamdiskBoot

BootStep ==
  /\ phase = "boot" /\ step <= Len(Boot)
  /\ step' = step + 1
  /\ irqBound' = (irqBound \/ Boot[step] = "bind")
  /\ ready' = (ready \/ Boot[step] = "ready")
  /\ visible' = (visible \/ Boot[step] = "register")
  /\ UNCHANGED <<kind, phase, ringing, bound, settled, buf>>

\* The UART goes on without an interrupt.
Tolerated == kind = "uart" /\ Boot[step] \in {"get_irq", "bind"}

\* `expect` on the transport: the process dies without a report.
Panics == kind \in {"block", "gpu"} /\ Boot[step] = "probe"

CannotFail == Boot[step] = "ready" /\ kind \in {"uart", "ramdisk"}

BootFail ==
  /\ phase = "boot" /\ step <= Len(Boot) /\ ~CannotFail
  /\ IF Tolerated
       THEN step' = (CHOOSE i \in 1 .. Len(Boot) : Boot[i] = "ready") /\ UNCHANGED phase
       ELSE phase' = (IF Panics THEN "panicked" ELSE "failed") /\ UNCHANGED step
  /\ UNCHANGED <<kind, irqBound, ready, visible, ringing, bound, settled, buf>>

\* init is done: Running is reported and the driver listens.
Run ==
  /\ phase = "boot" /\ step > Len(Boot)
  /\ phase' = "running"
  /\ UNCHANGED <<kind, step, irqBound, ready, visible, ringing, bound, settled, buf>>

-----------------------------------------------------------------------------
(* Calls.                                                                  *)

\* A slip to detect: everybody is let in.
LetIn(c) == phase = "running"

\* The head of dispatch; the GPU has no such check.
Permitted(c) ==
  /\ phase = "running"
  /\ kind = "gpu" \/ c = Badge0 \/ bound \in {None, c}

\* GET_CAPACITY, GET_MAC and the UART's WRITE bind the first client that asks.
Identify(c) ==
  /\ Permitted(c) /\ kind # "gpu"
  /\ bound' = IF c # Badge0 /\ bound = None THEN c ELSE bound
  /\ UNCHANGED <<starting, ringing, settled, buf>>

\* What the handler does, in order: allocate a slot, take the client's
\* endpoint from the receive window, allocate the frame, map it at RING_VA.

\* A slip to detect: the endpoint goes to a fixed slot.
BlockRingFixed == <<"take", "slot", "frame", "map">>

BlockRing   == <<"slot", "take", "slot", "frame", "map">>
NetRing     == <<"slot", "take", "slot", "frame", "map">>
GpuRing     == <<"slot", "take", "frame", "map">>
UartRing    == <<"take", "slot", "frame", "map">>
RamdiskRing == <<"take", "frame", "map">>

RingSteps == CASE kind = "block"   -> BlockRing
               [] kind = "net"     -> NetRing
               [] kind = "gpu"     -> GpuRing
               [] kind = "uart"    -> UartRing
               [] kind = "ramdisk" -> RamdiskRing

BlockBuffer   == <<"slot", "take">>
NetBuffer     == <<"slot", "take", "map">>
UartBuffer    == <<"take", "map">>
RamdiskBuffer == <<"take", "map">>
GpuBuffer     == <<"slot", "frame">>

BufferSteps == CASE kind = "block"   -> BlockBuffer
                 [] kind = "net"     -> NetBuffer
                 [] kind = "uart"    -> UartBuffer
                 [] kind = "ramdisk" -> RamdiskBuffer
                 [] kind = "gpu"     -> GpuBuffer

Taken(steps, n) == {i \in 1 .. n : steps[i] = "slot"}
Does(steps, n, s) == \E i \in 1 .. n : steps[i] = s

\* The first n steps succeed; the ring server is replaced if that is all.
RingCall(c, n) ==
  LET steps == RingSteps
      at    == IF steps[1] = "slot" THEN slots + 1 ELSE FixedNotify
      frame == frames + 1
      all   == n = Len(steps)
  IN  /\ slots' = slots + Cardinality(Taken(steps, n)) /\ slots' <= Slots
      /\ held' = IF Does(steps, n, "take") THEN [held EXCEPT ![at] = c] ELSE held
      /\ frames' = IF Does(steps, n, "frame") THEN frame ELSE frames
      /\ mapped' = IF Does(steps, n, "map") THEN frame ELSE mapped
      /\ ring' = IF all THEN [frame |-> frame, notify |-> at, by |-> c] ELSE ring
      /\ settled' = (c # Badge0 /\ (settled \/ (all /\ c = bound)))

SetupRing(c) ==
  /\ Permitted(c) /\ frames < MaxSetups
  /\ \E n \in 0 .. Len(RingSteps) : RingCall(c, n)
  /\ UNCHANGED <<starting, bound, buf>>

Round(size) == ((size + Page - 1) \div Page) * Page

\* What is recorded of a buffer, and how much of it is mapped.
NetShm(size)     == [size |-> size, bytes |-> (size \div Page) * Page]
UartShm(size)    == [size |-> size, bytes |-> Page]
RamdiskShm(size) == [size |-> Round(size), bytes |-> Round(size)]

SetupBuffer(c, size) ==
  /\ Permitted(c)
  /\ LET steps == BufferSteps
     IN  \E n \in 0 .. Len(steps) :
           /\ slots' = slots + Cardinality(Taken(steps, n)) /\ slots' <= Slots
           /\ held' = IF Does(steps, n, "take")
                        THEN [held EXCEPT ![IF steps[1] = "slot" THEN slots + 1 ELSE FixedBuffer] = c]
                        ELSE held
           /\ buf' = IF n = Len(steps) /\ kind \in {"net", "uart", "ramdisk"}
                       THEN CASE kind = "net"     -> NetShm(size)
                              [] kind = "uart"    -> UartShm(size)
                              [] kind = "ramdisk" -> RamdiskShm(size)
                       ELSE buf
  /\ UNCHANGED <<starting, frames, mapped, ring, bound, settled>>

\* handle_ring of the GPU takes the ring server out of its place and leaves
\* with it when a completion fails; only the next set-up brings one back.
LoseRing ==
  /\ phase = "running" /\ kind = "gpu" /\ ring # None
  /\ ring' = None
  /\ UNCHANGED <<starting, slots, held, frames, mapped, bound, settled, buf>>

Call(c) == Identify(c) \/ SetupRing(c) \/ \E size \in Sizes[kind] : SetupBuffer(c, size)

Next == BootStep \/ BootFail \/ Run \/ (\E c \in Clients : Call(c)) \/ LoseRing

Spec == Init /\ [][Next]_vars

(***************************************************************************)
(* Properties                                                              *)
(***************************************************************************)

(* Who finds the device registered finds it working: it is initialised,    *)
(* and its interrupts arrive, except at a UART that fell back to polling   *)
(* and at the ramdisk, which has none.                                     *)
RegisteredReady == visible => ready /\ (irqBound \/ kind \in {"uart", "ramdisk"})

(* However set-ups fail, the ring in use keeps its memory mapped and       *)
(* signals the client that set it up; with fixed slots, this holds of one  *)
(* client only (SettledRing).                                              *)
Intact     == ring.frame = mapped /\ held[ring.notify] = ring.by
RingIntact == kind \in {"block", "net", "gpu"} /\ ring # None => Intact

(* A client that was bound before it set up its ring keeps it, whatever    *)
(* other clients call and whichever of their calls fail half-way, as long  *)
(* as the holder of an unbadged endpoint sets up none.                     *)
SettledRing == settled => ring.by = bound /\ Intact

(* Of the shared buffer no more is recorded than is mapped, whatever size  *)
(* the client asked for: always in the ramdisk, which maps a page begun;   *)
(* in the network driver, which leaves that page out but records all of    *)
(* the size, exactly for whole pages; in the UART, which maps one page     *)
(* whatever the size, exactly up to a page.                                *)
Fits(size)   == (kind = "net" => size % Page = 0) /\ (kind = "uart" => size <= Page)
BufferMapped == buf # None => (buf.size <= buf.bytes <=> Fits(buf.size))

(* What the service offers is there: the device it registered, the ring it *)
(* answers on, and the buffer it knows of where its size fits.             *)
ServiceSound == RegisteredReady /\ RingIntact /\ BufferMapped
=============================================================================
