# Glenda-drivers: a TLA+ verification project

User-space drivers of the Glenda microkernel. Every driver is one
single-threaded process: it receives messages and notifications on an endpoint
in a `loop { recv; dispatch; reply }`, touches its device through MMIO and DMA
memory, and talks to its client through shared memory (an io_uring-style ring
and a data buffer). Concurrency is therefore never inside a driver: it is
between the driver, the device and the client, which share memory.

## 1. Inventory

| component | sources | state it keeps | operations | what is hard |
|---|---|---|---|---|
| virtqueue | `virtio/common/src/queue.rs` | descriptor table with an intrusive free list (`free_head`, `num_free`), available ring and its index, used ring, `last_used_idx`; indices are `u16` and wrap | `new`, `alloc_desc`, `free_desc`, `write_desc`, `submit`, `can_pop`, `pop` | the device reads and writes the same memory concurrently; index wrap-around; a double free or a write to a free descriptor corrupts the list silently |
| transport | `virtio/common/src/transport.rs`, `consts.rs` | MMIO registers (status, features, queue registers, interrupt status) | status handshake, feature negotiation, `setup_queue`, `notify_queue`, `interrupt_ack`, `ack_interrupt` | `interrupt_ack` reads the status and writes it back: the device can raise the bit in between |
| virtio-blk driver | `virtio/block/src/blk.rs` | `pending_info` (request slots), DMA headers and status bytes, ring server, buffer | `init`, `handle_irq`, `handle_ring`, `submit_virtio_request`, `pop_completions`, `setup_shm`, `set_ring_server` | descriptor exhaustion in the middle of a request, batches of 16 per notification, completions reached from two handlers, request slots reused while the device still owns others |
| virtio-blk service | `virtio/block/src/server.rs`, `driver.rs`, `main.rs` | `connected_client`, IRQ handler | `dispatch` of notifications and calls, `setup_ring`, `setup_shm`, driver start-up | notifications coalesce; the IRQ stays masked until `irq.ack()`; ring replacement while requests are pending |
| virtio-net | `virtio/net/src/*` | two virtqueues, `pending_rx/tx` indexed by head | `handle_ring`, `submit`, `handle_irq`, set-up calls | descriptors are allocated before the address check; an IRQ bit hides a ring bit in the same notification; the IRQ is never acknowledged to the kernel |
| virtio-gpu | `virtio/gpu/src/*` | control queue, one command and one response buffer, mode, ring server | `send_cmd` (synchronous), `flush`, `set_scanout`, `handle_ring`, set-up calls | the ring server is taken out of its slot while it is served; a failing `complete` leaves it out |
| virtio-mmio probe | `virtio/mmio/src/*` | none | `probe` | one-shot identification |
| ns16550a UART | `uart/ns16550a/src/*` | software RX buffer, two shared ring buffers, `pending_read`, IER and FIFO state | `handle_irq`, `handle_sq`, `handle_cq`, `process_tx_ring`, `process_rx_ring`, `drain_rx_fifo_to_sw_buffer`, `set_baud_rate`, `read`, `write` | budgets that cut a loop short and rely on a later event; drops at a full buffer; interrupt enable bits lost by a baud-rate change |
| ramdisk | `sys/ramdisk/src/*` | backing slice, ring server, buffer | `handle_io`, `process_sqe`, set-up calls | a failing `complete` abandons the rest of the ring; address arithmetic |
| loop device | `sys/loop/src/*` | file badge | `GET_CAPACITY` | none, one query |
| PCI bus scan | `bus/pci/src/*` | ECAM window | `scan`, `parse_bars`, `map_intx_irq`, config reads and read-modify-writes | pure decoding at boundaries (64-bit BARs, header types, IRQ swizzle) |
| DTB platform | `platform/dtb/src/*` | power method and flags, thermal zones | `init`, `parse_node`, platform and thermal calls | the last matching node decides the power method |
| ACPI platform | `platform/acpi/src/*` | bump allocators of addresses and slots | table walks, mapping handler | a walk that advances by a length it reads; slots are never reused |
| goldfish-rtc, sifive-gpio, sdhci | `timer/`, `gpio/`, `sdio/` | device registers only | one register sequence per call | split 64-bit reads and writes, read-modify-write |

### How the parts interact

* **client -> driver**: submission entries in shared memory, then a signal
  (`NOTIFY_IO_URING_SQ`); set-up by synchronous calls that carry capabilities.
  **driver -> client**: completion entries in shared memory.
* **driver -> device**: descriptors and the available ring in DMA memory, then
  a write to the notify register. **device -> driver**: the used ring and the
  interrupt status register, then the interrupt line.
* **kernel**: collapses all signals that arrive while the driver is busy into
  one notification whose badge is the union of their bits; masks a delivered
  interrupt until the driver calls `irq.ack()`.

### What makes each component correct

* virtqueue: the free list and the chains in use partition the descriptor
  table; nothing the device still owns is written; indices stay in step with
  ring slots when they wrap.
* block driver and service: every request is executed at most once, as asked,
  and answered exactly once and truthfully; no signal is lost; every request is
  eventually answered; descriptors are not lost beyond a fixed bound.
* net: as the block driver, on two queues, with the receive queue filled by the
  client.
* gpu: a command's response is the response to that command; the ring keeps
  being served.
* UART: bytes leave in the order they came, none is duplicated, those that are
  dropped are counted; waiting bytes are eventually delivered.
* ramdisk: a read returns what the last write to that place stored; a request
  outside the disk or the buffer changes nothing (as long as no sum overflows).
* PCI, DTB, ACPI: a decoded value equals the reference definition; a walk ends;
  an address or a slot is never handed out twice.

`PROJECT.json` lists the hazards of each at the line where they bite, with the
properties that cover them or the reason why none does yet.

## 2. Plan

| step | modules | purpose |
|---|---|---|
| done | `VirtQueue`, `VirtQueueLemmas` | the queue as operators over a record, lemmas about its free list and rings |
| done | `VirtioBlk`, `IoContract`, `MCVirtioBlk`, `MCVirtioBlkBounded` | the block driver with device, kernel and client; the contract it implements |
| done | `VirtioBlkProofs` | types, descriptor ownership and leak bound, the three signal invariants; the place and the memory of each request, the refinement of the contract |
| done | `VirtioNet`, `MCVirtioNet`, `MCVirtioNetBounded` | two queues over `VirtQueue`; allocation before the address check; interrupt or ring, never both; no acknowledgement; the same contract |
| done | `Uart`, `MCUart` | FIFO, software buffer, shared rings, budgets; direct calls and the baud-rate call |
| done | `VirtioGpu`, `MCVirtioGpu` | synchronous commands over `VirtQueue`, the ring server taken out of its slot; the same contract |
| done | `Ramdisk`, `BlockStore`, `MCRamdisk` | requests at byte level, implementing a store of blocks |
| done | `Service`, `VirtioInit`, `PciScan`, `AcpiMap`, `AcpiWalk`, `Dtb`, `Rtc`, `Gpio`, composed by `Drivers`, run by `MCDrivers` with the data modules `PciMachines`, `AcpiFirmwares`, `DtbBlobs` | start-up and set-up of the services; scans, walks and register sequences that one driver does by itself |
| done | `UartProofs`, `VirtioGpuProofs`, `VirtioNetProofs` | every safety property of the runs of these components, and the two other refinements of the contract |
| done | `RamdiskProofs` | the refinement of the store of blocks |
| done | `DriversProofs`, `PlatformProofs` | every property of the run `drivers`: services, registers, PCI and mapped memory in the first, the device tree and the ACPI tables in the second |

The virtio drivers apply the operators of `VirtQueue` to a record, so that the
lemmas of `VirtQueueLemmas` serve all of them. No module uses a RECURSIVE
operator, so that every one can be proved about.

## 3. The models and the code

### `VirtQueue` (`virtio/common/src/queue.rs`)

One record holds the shared memory (`next`, `flags`, `addr` of each descriptor,
`avail_idx`, `avail_ring`, `used_idx`, `used_ring`) and the driver's own fields
(`free_head`, `num_free`, `last_used_idx`). Each method is an operator from
record to record; `alloc_desc` and `pop`, which also return a value, are a pair
(`CanAlloc`/`AllocDesc`, `PopId`/`Pop`). The indices are numbers modulo
`IdxMod`: 2^16 in the code, a small multiple of `Num` in the runs.
`DevCanTake`, `DevTakeId` and `DevUse` are the device's side. Left out: byte
offsets of the rings, the `len` fields, fences (see section 7).

### `VirtioBlk` (`virtio/block/src/blk.rs`, `server.rs`, `transport.rs`)

The model starts when set-up is over and the driver waits in `recv`. The
variable `pc` says where in its handlers the driver is; a step of the model is
what the code does between two accesses to memory another party writes.

| code | actions |
|---|---|
| `run`/`dispatch`, a notification (server.rs:124-200) | `Recv`: takes all waiting bits; interrupt first, then the ring |
| the empty message (server.rs:267-278) | `RecvBare` |
| `interrupt_ack` (transport.rs:30-40) | `IrqRead`, `IrqAck`: read, then write back |
| `irq.ack()` (server.rs:187-189) | `Unmask` |
| `pop_completions` (blk.rs:245-279) | `PopOne`, `PopNone`, `FreeOne` (one turn of the loop over the chain), `Complete` |
| `handle_ring` (blk.rs:122-153) | `Fetch`, `FetchDone`, `SubmitDone`, `Refuse` |
| `submit_virtio_request` (blk.rs:155-243) | `RefuseEarly` (length, slots, opcode), `RefuseBadAddr`, `RefuseNoDesc` (an allocation fails), `Publish` (all up to the write of the available index), `Record` (`pending_info`, notify) |

External, modelled from how the driver uses them: the device (`DevTake`,
`DevSleep`, `DevDone`, `DevRaise`, `DevConfig`) looks at the available ring
after a notify until it finds it empty, executes chains in any order with any
outcome, and raises its interrupt after it has updated the used ring; the
kernel (`KernelIrq`) delivers a level-triggered interrupt once and masks it;
the client (`ClientSubmit`, `ClientNotify`, `ClientPoke`, `ClientReap`) has at
most one request open per `user_data`.

A request's data is reduced to its kind: a good read or write, a bad length
(`misaligned`), an unknown opcode (`badop`), or a buffer outside the shared
memory (`badaddr`).

### `VirtioNet` (`virtio/net/src/net.rs`, `server.rs`)

Starts, like `VirtioBlk`, when the set-up calls are over. The two queues are a
function `vq` from `{"rx", "tx"}` to queue records, `pending_rx` and
`pending_tx` one function `pending`; what changes at every step of the driver
(`pc`, the side it empties, the chain it frees, its batch) is the record `drv`,
the device's registers and progress the record `dev`.

| code | actions |
|---|---|
| `dispatch`, a notification (server.rs:191-203) | `RecvIrq` (an IRQ bit: nothing else is looked at), `RecvRing` (any other) |
| `handle_irq` (net.rs:223-281) | `IrqRead`, `IrqAck` (status register), `PopOne`, `PopNone` (receive queue, then transmit queue), `FreeOne` |
| `handle_ring` (net.rs:124-154) | `Fetch`, `FetchDone`, `SubmitDone`, `RefuseOp` |
| `submit` (net.rs:156-221) | `RefuseNoDesc` (an allocation fails), `RefuseAddr` (after both allocations), `Publish` (`pending` first, then all up to the write of the available index), `Notify` |

A popped head without an entry in `pending` is ignored, as in the code. The
length the device reports (`rxlen`, by slot of the used ring) matters here: the
answer to a reception is that length less the header, at least 0. `hidden`
and `bad` are history: ring bits that came with an interrupt and have not been
made up for, and requests refused for their address. `Masks` says whether the
kernel holds back an interrupt until `irq.ack()`, as the real one does. Only a
safety run has it FALSE; no fairness is ever assumed of such a kernel.

### `IoContract`

What a driver that serves requests promises whatever its mechanism: a request is executed at
most once, only if good and only as asked, never after its answer; it is
answered once; the answer is `Result` of what was done, or -1 if nothing was. The
three virtio drivers implement it, each with its own `Done` and `Result` (block:
0 or -1; network: 0 for a transmission, the frame's length for a reception; GPU:
0 for a flush whether the device accepted it or not). The
refinement mapping reads the answer from the completion ring.

### `Uart` (`uart/ns16550a/src/ns16550a/mod.rs`, `driver/server.rs`)

Received bytes are numbered in the order they arrive, so that order, loss and
duplication are visible; bytes to send are counted. A register is what the
driver decides on: data ready, overrun, the interrupt identification, the
interrupt enables. `drv` is where the driver is in its handlers and what is
left of each budget.

| code | actions |
|---|---|
| dispatch of a notification (server.rs:137-208) | `Recv`, `ServeIrq`, `ServeCq`, `ServeSq`, `ServeDone` |
| `handle_irq` (mod.rs:145-182) | `IrqEvent` (one turn: the event decides), `IrqEnd` (no event or no budget) |
| `irq.ack()` (server.rs:181-191) | `IrqAck` |
| `drain_rx_fifo_to_sw_buffer` (mod.rs:202-247) | `DrainByte`, `DrainEnd` |
| `process_rx_ring` (mod.rs:249-306) | `Push`, `PushEnd`, `Post` |
| `handle_sq` (mod.rs:308-342) | `TakeWrite`, `TakeRead`, `FakeRead`, `TakeBad`, `SqEmpty` |
| `process_tx_ring` (mod.rs:352-403) | `TxSend`, `TxEnd`, `WriteDone` |
| `setup_shm_from_frame`, `setup_ring` (mod.rs:50-96) | `SetupBuffer`, `SetupRing` |
| `read`, `write`, `set_baud_rate` (mod.rs:118-143, 415-442) | `CallRead`, `CallWrite`, `SetBaudRate` |

External: the line and the FIFO (`Arrive`, `Timeout`), the kernel (`KernelIrq`),
the client (`ClientPut`, `ClientSubmit`, `ClientNotify`, `ClientReap`,
`ClientRead`, `ClientReadEnd`). A client reads a `read` completion, then the
ring until it is empty, and then signals `CQ`. History: `gone` counts bytes
that left by any way, `lost` are requests whose completion did not fit, `cut`
says that a write stopped at its budget.

### `VirtioGpu` (`virtio/gpu/src/gpu.rs`, `server.rs`)

Starts in `init` when the queues are set up. An operation is the sequence of
commands it sends; `drv.todo` is what is left of it. `disp` is what the device
shows.

| code | actions |
|---|---|
| `send_cmd` (gpu.rs:110-163) | `Send` (buffers, two descriptors, available index), `Notify`, `Spin`, `Read` (which frees both) |
| `init`, `flush`, `set_scanout` (gpu.rs:91-95, 177-280) | the sequences `Info`, `Flush`, `Scanout`; `Checked`: after which of them a refusal ends the operation |
| dispatch of a notification (server.rs:180-232) | `Recv`, `Irq` |
| `handle_ring` (gpu.rs:33-58) | `RingTake`, `RingNone`, `Fetch`, `RingEmpty`, `Complete` |
| calls (server.rs:54-88, 246-270) | `CallFlush`, `CallScanout`, `SetupRing`, `Reply` |

One ring is followed from its set-up on; setting it up again is in `Service`.
External: the device (`DevTake`, `DevSleep`, `DevExec`, which may refuse what it
could do, `DevRaise`), the kernel, the client. History: `shows` is the buffer of
the last SET_SCANOUT that succeeded, `over` that a completion did not fit.

### `Ramdisk` and `BlockStore` (`sys/ramdisk/src/driver.rs`, `server.rs`)

`Recv` takes the notification, `Serve` and `ServeDone` are `handle_io`,
`Complete` writes the answer or, if it does not fit, leaves the loop.
`process_sqe` is the operator `Process`, with its checks in their order
(`InBuffer`, `Offset`, `InDisk`) and its sums modulo `Word`. Nobody checks what a
client writes into an entry, so the sums may overflow (`Overflows`): a build
with overflow checks panics (`ServePanic`), another goes on with the remainder,
which may pass the checks (`Misled`) and may lead the copy out of buffer or disk
(`ServeStray`: any bytes, or a fault). `BlockStore` is what any disk promises; the
refinement mapping reads the answer, and the bytes a read returned, from
completion ring and buffer. The history variable `wrapped` says that a request
has passed by an overflow: from there on nothing is promised.

### `Service` (the five services' `main.rs`, `driver.rs`, `server.rs`)

What the drivers have in common around their devices, with what differs as
lists of steps. `BootStep`/`BootFail` go through start-up, where each step that
ends in `?` may fail (the UART tolerates the loss of its interrupt, `expect` in
block and GPU panics). `Permitted` is the check at the head
of dispatch, which the GPU lacks; `Identify` stands for the calls that bind the
first client that makes one (GET_CAPACITY, GET_MAC, the UART's WRITE). `SetupRing` and
`SetupBuffer` go through the driver's own steps (`BlockRing`, `UartBuffer`, ...)
and may stop after any of them, keeping what those before did. A buffer has any
size: what is recorded of it and how much is mapped are `NetShm`, `UartShm` and
`RamdiskShm`. `LoseRing` is the GPU's `handle_ring` when a completion fails: the
ring server does not come back (gpu.rs:46), until a ring is set up again. What
else a notification does is in the modules above, and not repeated here.

### `Drivers` and the modules it runs

Each has variables, actions and properties of its own; `Drivers` extends
`Service`, instantiates these, and lets one of them all take the steps of a
behaviour (`driver`). The processes they stand for never meet. `MCDrivers` gives
the constants their values.

| module | code | state and actions |
|---|---|---|
| `VirtioInit` | `virtio/mmio`, `transport.rs`, `init` of block, net, GPU | the registers of a device that may still run for a driver that died (`status`, `accepted`, `queues`, `sel`); `Probe`, `New`, `Reset`, `Ack`, `Driver`, `ReadFeatures`, `WriteFeatures`, `FeaturesOk`, `Check`, `SetupQueue`, `DriverOk` in the order of each driver (`BlockInit`, `NetInit`, `GpuInit`) |
| `PciScan` | `bus/pci/src/driver.rs`, `platform.rs` | the configuration space as bytes; `Map`, `Visit` (one function: presence, description, regions, interrupt, serial port), `Unmap`, `Report`; `OnWrite` (external) is what writing command and status does to a device |
| `AcpiMap` | `platform/acpi/src/handler.rs` | two bump allocators, mapped pages and the regions held; `Map`, `Unmap`, each may fail |
| `AcpiWalk` | `platform/acpi/src/probe/*`, `main.rs` | position in the table, devices so far; `Tables`, `Madt`, `MadtEnd`, `McfgHpet`, and per AML device `NoHid`, `Large`, `Small`, `AmlDevice`, or `Panic` at a descriptor that says too little |
| `Dtb` | `platform/dtb/src/*` | method and flags, zones, the list; `MapBlob`, `PowerNode` (one node), `Probe`, `ParseNode` (one call of the recursion), `Report`, `RegisterPlatform`, `RegisterThermal`, the five calls |
| `Rtc` | `timer/goldfish-rtc/src/*` | device registers and a running clock; one action per register access of `GetTime`, `SetTime`, `SetAlarm`, `StopAlarm`; `Interrupt` |
| `Gpio` | `gpio/sifive-gpio/src/*` | three registers; `SetMode` with `EnableIn`, `EnableOut`, `Write` with `ReadValue`, `WriteValue`; the outside drives inputs in between |

`PciMachines` (functions at both ends of the bus, each kind of base address
register), `AcpiFirmwares` (tables of up to four entries, whole and cut resource
buffers) and `DtbBlobs` (all trees of four and five nodes, trees that name ways
to switch off) are the data they are checked on.

## 4. Properties and runs

| run | properties | what it shows |
|---|---|---|
| `blk_signals` | `TypeOK`, `NoLostKick`, `NoLostCompletion`, `NoLostSubmission` | with no bound on the number of requests and every disturbance (empty messages, configuration interrupts, spurious CQ bits), no signal is lost |
| `blk_inflight` | `DeviceMemoryStable`, `OneHome`, `LeakBound`, `ImplementsContract` | with three requests at once, in queues with room for two: what the device may read is left alone, a request is in exactly one place, the descriptors lost number 0 or `Num % 3`, and driver and device implement `IoContract` |
| `blk_live` | `EveryRequestAnswered` | with fairness, every request, good or bad, is answered |
| `net_inflight` | `ChainsKept`, `Signalled`, `ImplementsContract` | with packets on one queue or both: chains stay as they are while the device has them, a refused address costs exactly two descriptors, no notify or interrupt is lost, the driver implements `IoContract` |
| `net_live` | `TypeOK`, `SubmissionSignalled`, `SendsCarriedOut` | with a kernel that waits for `irq.ack()`: submissions are announced, except those whose signal came with an interrupt, and each of them is carried out by the device or refused, which takes no interrupt |
| `net_unacked` | `CompletionDelivered` (violated) | with a kernel that waits for `irq.ack()`, completions after the first interrupt are never delivered |
| `uart_bytes` | `BytesInOrder`, `Signalled` | bytes keep their order and none disappears uncounted; whatever lies in a buffer while the driver waits is announced to the one who takes it on |
| `uart_live` | `TypeOK`, `BytesDelivered`, `RequestsAnswered` | with fairness, received bytes leave and requests are answered, with every budget used up |
| `uart_baud` | `IrqEnabled` (violated) | a baud-rate call leaves the device with all interrupts disabled |
| `gpu` | `TypeOK`, `CommandsComplete`, `Signalled`, `ScreenTrue`, `ImplementsContract`, `EveryRequestAnswered` | each command gets its own answer and gives everything back, the screen shows what was answered, and the ring goes on being served unless a completion did not fit |
| `ramdisk` | `ImplementsStore`, `EveryRequestAnswered` | requests at, across and beyond every bound are treated as a disk would, until one passes with a sum that overflowed, and answered unless an answer did not fit or the overflow was fatal |
| `drivers` | `ServiceSound`, `SettledRing` (`Service`); `LiveAsKnown` (`VirtioInit`); `FunctionsFound`, `FunctionsDescribed`, `OthersUntouched` (`PciScan`); `MappingExact` (`AcpiMap`); `TablesListed` (`AcpiWalk`); `TreeAnswered` (`Dtb`); `ClockTrue` (`Rtc`); `PinsKept` (`Gpio`) | every start-up and set-up of the five services with each step that can fail failing and buffers of any size, and every machine, table, tree and register sequence of the other modules |

Several of these are conjunctions of named parts, each stated with a comment in
its module:

* `ChainsKept` (net): `DeviceMemoryStable`, `OneHome`, `LeakExact`.
  `Signalled` (net): `NoLostKick`, `CompletionSignalled`.
* `Signalled` (UART): `NoUnseenBytes`, `NoStuckBuffer`, `IrqArmed`,
  `SendSignalled`. `CommandsComplete` (GPU): `OwnResponse`, `AllBack`.
* `ServiceSound`: `RegisteredReady`, `RingIntact`, `BufferMapped`.
  `LiveAsKnown`: `LiveIsSetUp`, `ForeignAccepted`, `ModernTaken`, `OnlyAccepted`,
  `AreasApart`, `RightDriver`.
* `FunctionsFound`: `ScanComplete`, `InWindow`. `FunctionsDescribed`:
  `BarsDecoded`, `IntxRouted`, `SerialUsable`.
* `MappingExact`: `RegionsReadable`, `NothingLeft`. `TablesListed`:
  `ControllersListed`, `EcamsHoldTheirBuses`, `ResourcesDecoded`, `DiesUnread`.
  `TreeAnswered`: `TreeReported`, `PowerAnswers`, `RegisteredIfNamed`.
* `ClockTrue`: `TimeIsNow`, `StoppedIsQuiet`, `FiresInTime`. `PinsKept`:
  `OneDirection`, `OwnOutputOnly`.

**Bounds.** *Block.* `Num = 4, IdxMod = 8` (`blk_signals`, `blk_live`): a chain
takes three descriptors, so one request fits, the second loses the fourth
descriptor, and the indices wrap every eight requests without bound. `Num = 7,
IdxMod = 14` (`blk_inflight`): two chains fit and one descriptor is left to
lose. There are fewer request slots than users in `blk_live` (1 for 2), as many
in the others, so that slots run out in one and descriptors in the others, as
they do in the code (64 slots, 128 descriptors: the 43rd request at once finds
no descriptors, slots never run out). `Batch` is 1 or as large as the submission
ring. `MaxRequests` bounds how many requests the client opens in
`blk_inflight` and `net_inflight`, which then stop: hence no deadlock check.
`Users` is a symmetry set in safety runs and where a refinement without
fairness is checked, never with liveness.

*Network.* A chain takes two descriptors: `Num = 2` (`net_unacked`) has room for
one, `Num = 5` for two, with one to lose. The lengths 4 and 12 lie on both sides
of `HdrLen = 10`. In `net_live` and `net_unacked` the kernel holds an interrupt
back until it is acknowledged, as the real one does, so that there is one
interrupt in the life of the driver. `net_inflight`, which has safety properties
only, has `Masks = FALSE`: a kernel that delivers interrupts whether they were
acknowledged or not gives the driver every behaviour it has with the real one,
and more, so what holds there holds with the real one. The system may stop: when
no request can be completed any more, when the client opens no more requests,
when no frame comes, or when the only announcement of a submission was hidden by
an interrupt.

*UART.* Every ring, buffer and budget is 1, 2 or 3 bytes, so that each is full
or used up somewhere and the code's order between them (chunk, budget, ring) is
met; `MaxBytes` received bytes end a behaviour. In `uart_bytes` the transmit ring
is larger than its budget, as a ring of 2048 is larger than 1024. *GPU.* A queue
of two descriptors is what one command takes; `MaxOpened = 3` requests and calls
overflow a completion ring of one. *Ramdisk.* A disk of one block of two bytes,
a buffer of two blocks at address 4: one user asks for every combination of
sector, length and address around these bounds, the other for good blocks, so
that their effects would show on each other; bytes are 0 or 1. `Word = 16` lets
both sums overflow: addresses and sectors near its end pass the checks with
their remainder, with copies that stay within buffer and disk and copies that
do not. No further request follows one that passed in this way. The runs `gpu`,
`ramdisk`, `uart_*` and `drivers` have no deadlock check: with no more requests,
bytes or work the system rests.

*Drivers.* Two clients and the holder of an unbadged endpoint, buffers from
nothing to two and a half pages, five slots and `MaxSetups = 2` rings, so that a set-up fails after any of its steps over a ring
that is in use. Devices of every subset of five features and seven ids.
Windows of 0, 1, 255, 256 and 4096 pages. Pages of 4 bytes and regions of 1, 4
and 6, so that a region crosses one page boundary or two. A clock whose registers
hold 2 values, so that a carry happens every other tick. Three pins and one
number beyond the register's width.

**Fairness.** Every party keeps taking the steps it can (weak fairness): the
driver is a process in an endless loop, the device serves what it was notified
of and finishes each chain it holds, the kernel delivers interrupts, the client
sends the signals it owes and reads its completions. `Recv` is strongly fair in
`VirtioBlk` and `VirtioGpu`: between two `recv` empty messages or calls may keep
coming, and an endpoint does not starve a waiting notification. Nothing is
assumed of disturbances or of the opening of requests. In `VirtioNet` only
transmissions are served for certain: a frame need never arrive, so nothing is
promised of receptions; and weak fairness of `KernelIrq` stands under a kernel
that masks, where it gives one interrupt and no more. In `Uart` the device also raises its receive timeouts;
`BytesDelivered` is said of clients that let `handle_sq` end (its loop has no
budget, so a client that keeps submitting keeps it busy).

**What the properties found.** In the block driver, `NoLostSubmission` and
`EveryRequestAnswered` need the submission ring to fit in one batch (`SqEntries
<= Batch`): `handle_ring` takes at most 16 entries and does not look again, so
what a client queues beyond them with one signal waits until it signals once
more. A comment in `setup_ring` (server.rs:56) counts on 4 entries. `LeakBound`
is not zero: a request that finds one or two free descriptors keeps them for
ever (blk.rs:213-215), but that can happen only once in a driver's life, and the
number of requests the queue has room for stays `Num \div 3`.

In the network driver, `CompletionDelivered` is violated: nothing calls
`irq.ack()`, which the block service and the UART do after each interrupt (the
comment at `uart/ns16550a/src/driver/server.rs:185` says why), so the kernel
delivers one interrupt and no more. `SubmissionSignalled` has to except
notifications that carry both an interrupt and ring bits: `dispatch` looks
at the ring only if there is no interrupt bit (server.rs:195-197), and the
client's signal is spent. `SendsCarriedOut` is what is left of liveness: with
nothing delivered after the first interrupt, packets are still sent, but their
answers stay in the used ring. `LeakExact` says that a request with a bad address
takes two descriptors for good (net.rs:160-161 allocate, the check at 167-172
returns without freeing), so that enough of them stop the driver.

In the UART, `IrqEnabled` is violated: `set_baud_rate` clears the interrupt
enables (mod.rs:122) and ends under a comment that says they are on, but only
`init_hw` writes them. A write larger than the budget leaves its rest in the
ring until the next write (`cut`), though its completion is posted. In the UART
and the GPU a completion that does not fit is the exception of every promise
(`lost`, `over`): the UART ignores the error, the GPU loses its ring server with
it (gpu.rs:46) and serves no ring any more.

In the services, `RingIntact` holds of block, net and GPU, which take a new slot
for each ring; the UART and the ramdisk put the client's endpoint into a fixed
slot before the steps that may fail, so only `SettledRing` holds of them: a
client that was bound before it set up its ring keeps it. `BufferMapped` holds
as an equivalence only: the network driver maps `size / 4096` pages and records
`size` (net server.rs:101), so that it records more than it maps exactly if the
size is not one of whole pages; the UART maps one page (driver/mod.rs:87).

In the ramdisk, `ImplementsStore` ends with a request that passes the checks by an
overflow (driver.rs:142, 165-166): its sector or address is then another one
than the client named, and the copy may leave the buffer or the disk.

At start-up, `LiveAsKnown` cannot say that every driver agrees only to what it
can do: net clears one feature and takes all the others (net.rs:85), event
indexes and packed rings among them, while its queues are split rings without
event indexes (`ForeignAccepted`); and block does not read FEATURES_OK back
(blk.rs:92, `OnlyAccepted`).

On the PCI bus, `OthersUntouched` cannot say that only two bits change:
`write_u16` (driver.rs:137-148) writes a whole word, and the other half of the
command word is the status register, whose recorded errors a write of ones
clears. In the ACPI tables, `DiesUnread` says what a resource buffer costs that
ends inside a descriptor of lines, or has a memory descriptor shorter than its
nine bytes (aml.rs:143-144, 158): the driver indexes past the end and panics,
before it has reported anything.

Met while modelling, and not properties of any run: the version register is read
and then ignored, although a comment wants version 2 (transport.rs:48); bytes
dropped at a full software buffer do not use up the receive budget
(mod.rs:219-220); the GPU takes the first display's mode even if that display is
disabled (gpu.rs:98); the UART reports that it polls when it has no interrupt
(driver.rs:59), and nothing polls.

## 5. What is proved

Every invariant, action property and refinement of the passing runs, for every
value of the constants that meets the assumptions of the modules:
`QueueAssumption` (`Num` divides `IdxMod` and is smaller), `BlkAssumption`,
`NetAssumption`, `GpuAssumption`, `UartAssumption`, `ServiceAssumption`,
`RamdiskAssumption` and `DriversAssumption`, which collects those of the modules
that `Drivers` runs. Beside the sizes, these say that `None` is none of the
values it is told apart from, and that the names of the GPU's callers differ from
its own. Of the data they say what the code takes for granted:

* `Tree(b)`: a device tree has a root, and a parent comes before its children, as
  they do in a blob.
* `WellFormed(sp)`: a function of the PCI bus that is there has the registers that
  the scan reads, four bytes each, of any content.
* `Sound(f)`: entries of the MADT have a length and no AML device has a name that
  the driver makes up (`plic`, `ecam`, ...). A resource buffer has any bytes. What
  it says is given with it: the marks are the places between the descriptors, with
  the memory and the lines of those up to each. `Spans` is what lies from one mark
  to the next; the last mark is at the end of the buffer, an end tag, a descriptor
  cut short (`Ends`) or one that says less than the driver takes from it
  (`Unreadable`), so that every buffer has its marks. None of these mentions the
  driver's cursor or its lists.
* `RamdiskAssumption`: the disk, and the buffer at its client's address, lie
  within the numbers of a machine word, as memory that is mapped does. Entries are
  not restricted.

| module | theorem | what holds in every state (`Spec => []...`), or of every behaviour |
|---|---|---|
| `VirtioBlkProofs` | `TypeCorrect`, `LeakBounded` | `TypeOK`, `LeakBound` |
| | `KickTheorem`, `CompletionTheorem` | `NoLostKick`, `NoLostCompletion` |
| | `SubmissionTheorem` | `NoLostSubmission`, if `SqEntries <= Batch` |
| | `HomeTheorem`, `MemoryTheorem` | `OneHome`, `DeviceMemoryStable` |
| | `Refinement` | `ImplementsContract` |
| `VirtioNetProofs` | `TypeCorrect`, `SignalledTheorem` | `TypeOK`, `Signalled` |
| | `SubmissionTheorem` | `SubmissionSignalled`, if `SqEntries <= Batch` |
| | `HomeTheorem`, `ChainsTheorem` | `OneHome`, `ChainsKept` |
| | `Refinement` | `ImplementsContract` |
| `VirtioGpuProofs` | `TypeCorrect`, `CompleteTheorem` | `TypeOK`, `CommandsComplete` |
| | `ScreenTheorem`, `SignalledTheorem` | `ScreenTrue`, `Signalled` |
| | `Refinement` | `ImplementsContract` |
| `UartProofs` | `TypeCorrect`, `BytesTheorem`, `SignalledTheorem` | `TypeOK`, `BytesInOrder`, `Signalled` |
| `RamdiskProofs` | `Refinement` | `ImplementsStore` |
| `DriversProofs` | `SoundTheorem`, `SettledTheorem` | `ServiceSound`, `SettledRing` |
| | `LiveTheorem` | `LiveAsKnown` |
| | `ScanTheorem`, `DescribedTheorem`, `UntouchedTheorem` | `FunctionsFound`, `FunctionsDescribed`, `OthersUntouched` |
| | `MappingTheorem` | `MappingExact` |
| | `ClockTheorem`, `PinsTheorem` | `ClockTrue`, `PinsKept` |
| `PlatformProofs` | `TreeTheorem`, `TablesTheorem` | `TreeAnswered`, `TablesListed` |

The two theorems on services are about `Spec`, the specification of `Service`;
the others of the last two modules about `DriversSpec`, in which one driver of
them all takes the steps: a step of another leaves its variables alone.

In each module a lemma per action, or per group of actions that leave what
matters alone, shows that the invariant is kept; what the operations of the
queue do to the free list and the rings is in `VirtQueueLemmas`, and serves the
three virtio drivers.

### Who owns each descriptor (block, network)

`TypeOK` is not inductive: `free_desc` stores a descriptor it finds by following
`next`, and `num_free` stays within `0 .. Num` only because nothing is freed
twice. The inductive invariant `IInv` says who owns each descriptor: there is a
set `F` such that the free list walks exactly `F`; each request in flight has a
chain of three descriptors (two in the network driver) with the right flags; the
chain being freed has what is left of it; and all of these are pairwise disjoint
(`Ownership`; `Owners` in the network driver). With it go `Control` (which of
the driver's local variables are set at which `pc`) and the count of what is
lost: `LeakBound` of the block driver, where a request that finds too few
descriptors has seen `num_free < 3`, so that `Num - num_free - 3k` can only
become `Num % 3`; in the network driver two for each refused address besides
(`Kept`). The two queues of the network driver do not interact, so its invariant
is about a queue and the array of its requests, and holds of both: `VqOne`
reduces a step to the queue it changes.

`VirtQueueLemmas` carries the free list through each operation (`NewQueueFree`,
`AllocDescFree`, `FreeDescFree`, `WriteDescFree`, `SameFreeList`, `RingsFree`).
`FreeListSize` says that `num_free` is the number of descriptors on the list.

### What the rings hold (block, network)

`DeviceMemoryStable`, `OneHome` and the contract need to know where each request
is. First, `OneHome` is inductive on top of `IInv` when it is stated with
counts: the entries of a user in the submission ring, the batch and the
completion ring, its chains in flight and the one being freed add up to 1 if its
request is open and to 0 if not (`Homes`). Its consequence `Where` is what the
other steps use: a request in one place is in no other.

Second, what memory holds. The span of a ring between two free-running indices
is `Between`, and that a head is there once only is `Distinct`; the lemmas on
both say how a span changes when an entry is put on or taken off, also where the
indices wrap. `Rings` then says that the heads in flight are exactly those not
yet read by the device, those it holds and those it has given back, without
overlap. For each of them the chain and the request slot are as the driver wrote
them and fit what the user asked (`Shape`, `InMemory`; `Made` in the network
driver); what the device may still touch has not been executed, what came back
has been, with the status or the length that memory says (`Open`, `Used`); what
waits in the rings has not been executed (`Waits`); a completion says what was
done (`Answers`). The whole, `AllInv`, implies `DeviceMemoryStable` and
`LeakExact`, and under it every step is one of `IoContract` or changes nothing
the contract sees (`ContractStep`): a device's completion is its `Execute`, what
writes a completion entry its `Answer`, `ClientSubmit` and `ClientReap` its
`Ask` and `Close`.

### One command at a time (GPU)

`Plan` says that what is left to send is a suffix of one of the operations and
fits who it is for; `Chain`, that with no command out every descriptor is free,
and with one out exactly two are not, while the command is offered, held by the
device or answered. `Screen` ties the display to the command that is due and to
its response: a refused command leaves the display as it was, and the step after
a command is reached only if the display took it. `Signals` says that an
interrupt that is masked is being served and a queued entry is announced or the
ring is being emptied. The refinement adds `Requests`: where each flush is, and
that it is executed before its completion says so.

### Bytes in a row (UART)

`BytesInOrder` is about a sequence spread over the shared ring, the software
buffer and the FIFO. `Flow` states it as a pairwise order of the three in a row
(`InTransit`), and the lemmas on `Join` say that a byte passed from one to the
next leaves the row as it is, one that arrives is put at its end and one that is
read or dropped is taken out. `Signalled` follows from seven invariants, each
about one announcement on its way through the server (`SInv`): `Returns` (where
a subroutine goes back to), `Armed`, `ClientKnows`, `SeenOrTold`, `FlushDue`,
`SqDue` and `SendDue`. They differ from the properties in that they speak of
every place in the handlers, where the properties speak of a server that waits.

### Signals (block, network)

`Announced`: every place at which completions are about to be popped counts as an
announcement. `Drained`: while `handle_ring` runs the ring is either being
emptied or was emptied since the last signal, which is why the submission ring
has to fit in a batch.

### Set-ups that fail (services)

`Started`: the steps before `step` have been done. `RingKept`: a set-up maps its
frame with its last step, so that one that fails earlier leaves the old ring
mapped; it overwrites the endpoint of a ring only where all share one slot, and
there only the settled client itself gets as far.

### Bytes of a disk (ramdisk)

`IInv` of `RamdiskProofs` says that a request is in the submission ring, with the
driver or in the completion ring (`Places`), that the parts of the buffer named
by open requests do not meet (`Apart`), and what the buffer holds: for a queued
write the bytes it is to store (`Queued`), for a request that was served the
bytes it read (`Served`): all of it as long as nothing has passed by an overflow
(`wrapped`). Under it the checks of `process_sqe`, in sums modulo `Word`, pass
exactly the requests that lie within buffer and disk, or `Misled` is true of the
request and the promise is over; copying is the abstract `Execute`, on the same
bytes.

### One register after another (transport, clock, pins)

`VirtioInv` has three parts: which registers belong to which driver and stage
(`DeviceInv`), what is known of the features at each (`FeatureInv`: the driver
accepts from what it has read, so that `VERSION_1` and the absence of what it
cannot do survive two separate words), and what is set up before `DRIVER_OK`
(`StageInv`). `ClockInv`: half-way through a time, what is latched and what has
been read make up a moment between the beginning of the call and now
(`Reading`); half-way through an alarm, the registers written so far are those
of the wanted one, and one that was set cleanly is the device's (`Armed`).
`PinInv`: every pin but that of the call under way has the direction asked for,
and what was read and will be written back agrees with the registers on the
outputs (`HalfSet`).

### Pages and regions (ACPI memory)

`MapInv` writes addresses as page and offset: a region fills whole pages, all of
them below the allocator's mark and mapped in order to the frames of the region
(`Shape`, `Mapped`); no two regions share a page, and what is mapped is the union
of their pages and of those kept. Dropping a region then unmaps its pages and no
other's. Rounding up and down is in lemmas on quotient and remainder (`DivIs`).

### A scan in order (PCI)

`ScanInv` says that the list holds the functions that are there among those
passed, each once and with its own identity (`Listed`), that a function other
than the first is visited only on a device with several (`Cursor`), and that no
access was made outside the first bus. `DescInv` says of each listed function
that its interrupt and its serial port are as its registers say (`Described`),
and of the last one that its regions are (`Decoded`): later writes change only
two bits and the recorded errors in the command word of a serial port. `parse_bars` is a recursion
over the registers; that it yields the regions of the reference definition
is shown register by register, from the last back to the first (`BarsFrom`).

### Recursion over data (device tree, ACPI tables)

What a recursive definition computes for every input needs an induction. The
library's induction theorems take a predicate as parameter, which the provers
cannot instantiate, but a set will do: `Climb` is induction on a *set* of
numbers, from `WFMin` and `NatLessThanWellFounded`. `Iteration` gives the
existence of a sequence of values that a recursive function is; with it
`ChildrenIs`, `StartIs`, `LinesAre` and the like say what the functions of the
modules return.

*Device tree.* `TreeInv` follows the recursion of `parse_node` by its work list:
what is listed and what is to be listed have no node twice and none in common,
each has its index at its parent's place, and every child of a listed node is in
one of the two (`Walk`). When nothing is left to do, that a parent comes before
its children gives every node (`WalkEnds`). `PowerInv`: what is known of switching off is what
the last name so far says (`Says`), over the names of all nodes in a row.

*ACPI tables.* `TablesInv` says for each place in the walk what the list holds:
the first `k` entries of the MADT have put the controllers among them, and
nothing else that looks like one, at their places (`FromMadt`), the ranges of the
MCFG follow (`FromMcfg`), no other such name comes after them (`Others`), and the
devices of the name space so far are where their rank puts them (`FromAml`).
Within a buffer, cursor, memory and lines are those of one of the marks
(`ReadTo`): a descriptor leads from a mark to the next, and the driver stops, or
dies, at the last one (`ReadBefore`, `Died`). The lines of a descriptor, which the driver finds bit by bit, are
the bits of its mask in ascending order (`LinesAre`).

### Only model-checked

Liveness (`EveryRequestAnswered` of the block driver, the GPU and the ramdisk,
`SendsCarriedOut`, `BytesDelivered`, `RequestsAnswered`), which is out of the proof
system's reach, as is ENABLED. The two properties that are violated.

## 6. Running

    tlc -workers 2 -config VirtioBlkSignals.cfg MCVirtioBlk
    tlc -workers 2 -config VirtioBlkInFlight.cfg MCVirtioBlkBounded
    tlc -workers 2 -config VirtioBlkLive.cfg MCVirtioBlk
    tlc -workers 2 -config VirtioNetInFlight.cfg MCVirtioNetBounded
    tlc -workers 2 -config VirtioNetLive.cfg MCVirtioNet
    tlc -workers 2 -config VirtioNetUnacked.cfg MCVirtioNet     (finds a violation)
    tlc -workers 2 -config UartBytes.cfg MCUart
    tlc -workers 2 -config UartLive.cfg MCUart
    tlc -workers 2 -config UartBaud.cfg MCUart                  (finds a violation)
    tlc -workers 2 -config VirtioGpu.cfg MCVirtioGpu
    tlc -workers 2 -config Ramdisk.cfg MCRamdisk
    tlc -workers 2 -config Drivers.cfg MCDrivers
    tlapm VirtQueueLemmas.tla
    tlapm VirtioBlkProofs.tla;  tlapm VirtioNetProofs.tla;  tlapm VirtioGpuProofs.tla
    tlapm UartProofs.tla;  tlapm RamdiskProofs.tla
    tlapm DriversProofs.tla;  tlapm PlatformProofs.tla

Each run takes one to two and a half minutes and at most 3.2 million states. Operators whose
comment starts with "A slip to detect" are mutated forms of the operator that
follows them; `PROJECT.json` ("mutants") says which property detects which.

## 7. What is not modelled, and why

* Memory ordering: the code puts fences between the writes whose order matters
  and the models take their steps in that order; a missing fence would not show.
* Virtio: the byte layout of rings and commands, the reads of the configuration
  space (capacity, MAC address, display modes). The clients of block and net
  never overflow the completion ring, where the driver drops the completion
  (blk.rs:274). In the working models (`VirtioBlk`, `VirtioNet`, `Uart`) rings
  and buffers are set up once; replacing them is in `Service`, without the
  requests that may be in flight.
* GPU: rectangles, the choice of a mode, and the address of the buffer that
  GET_INFO returns.
* UART: the statistics other than what is lost, the divisor, and a driver without
  an interrupt. A client is taken to read the shared ring before it signals that
  it has done so.
* Services: `map_page` and the transfer of a capability onto a place that is
  occupied are taken to succeed or fail without telling which, as the code does
  not look.
* Network: a device that the driver has agreed with on event indexes or packed
  rings; `VirtioNet` has one that offers neither.
* Block: an `irq.ack()` that fails, which leaves the line masked and drops the
  ring bits that came with the interrupt (server.rs:188); the default arm of
  dispatch, which answers unknown calls and changes
  nothing.
* Ramdisk: what a copy that leaves the buffer or the disk does to other memory of
  the driver, and what clients do after a request has passed by an overflow.
* PCI: names and property strings, configuration spaces smaller than the first
  bus (`InWindow` is about the others).
* ACPI: the AML interpreter and the table parser are crates from elsewhere; the
  byte order of hardware ids is formatting. MADT entries of length 0, at which
  the walk (arch/riscv.rs:142, arch/x86.rs) would stay for ever, are left out by
  `Sound`: the code does not check for them, and no property covers it. Ports and
  PCI accesses of the handler are stubs.
* DTB: the parser of the blob (the `fdt` crate), strings and properties of nodes.
* RTC: that an alarm goes off at all, and alarms that are set again while one is
  enabled: the device compares with a half-written value then.
* The loop device answers one query; sdhci is a stub that touches no register.
