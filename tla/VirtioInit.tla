----------------------------- MODULE VirtioInit -----------------------------
(***************************************************************************)
(* How a virtio device comes to life: the mmio probe that names it         *)
(* (virtio/mmio), the transport (virtio/common/src/transport.rs) and the   *)
(* init functions of the block, net and GPU drivers, register access by    *)
(* register access, on a device that may be left over from a driver that   *)
(* died.  Features are named; the low and the high word of the feature     *)
(* registers are read and written one after the other.                     *)
(***************************************************************************)
EXTENDS Integers, Sequences, FiniteSets

CONSTANTS
  Offered,   \* the sets of features devices may offer
  Ids,       \* the device ids that occur
  None

PageSize == 4096
DmaSize  == 4 * PageSize

VirtioInitAssumption == Ids \subseteq Nat /\ None \notin {"block", "net", "gpu"}

LowWord  == {"BLK_SIZE", "MRG_RXBUF", "EVENT_IDX"}
HighWord == {"VERSION_1", "RING_PACKED"}
Word(hi) == IF hi THEN HighWord ELSE LowWord

VARIABLES
  kind,      \* the driver that starts: "block", "net" or "gpu"
  dev,       \* what the device is: [magic, version, id, offered], magic TRUE if it is "virt"
  sel,       \* the feature word selected
  status,    \* the device status register
  accepted,  \* the features written by the driver
  queues,    \* what the device was told of its queues: index -> [desc, avail, used, ready]
  pc,        \* the driver's next access
  seen       \* the features the driver has read

vars == <<kind, dev, sel, status, accepted, queues, pc, seen>>

Index == {0, 1}
Num   == IF kind = "gpu" THEN 16 ELSE 128     \* the size of each queue
Off   == [desc |-> 0, avail |-> 0, used |-> 0, ready |-> FALSE]

\* A device may have been running when its last driver died.
Init ==
  /\ kind \in {"block", "net", "gpu"}
  /\ dev \in [magic : BOOLEAN, version : {1, 2}, id : Ids, offered : Offered]
  /\ sel \in BOOLEAN
  /\ \/ status = {} /\ accepted = {} /\ queues = [q \in Index |-> Off]
     \/ /\ status = {"ACKNOWLEDGE", "DRIVER", "FEATURES_OK", "DRIVER_OK"}
        /\ accepted = dev.offered
        /\ queues = [q \in Index |-> [Off EXCEPT !.ready = TRUE]]
  /\ pc = "probe" /\ seen = {}

-----------------------------------------------------------------------------
(* The probe.                                                              *)

identify_device(id) ==
  CASE id = 1 -> "net" [] id = 2 -> "block" [] id = 16 -> "gpu"
    [] id = 3 -> "console" [] id = 4 -> "rng" [] id = 18 -> "input"
    [] OTHER -> None

\* The device manager starts the driver whose name the probe gives.
Probe ==
  /\ pc = "probe"
  /\ pc' = IF dev.magic /\ dev.id # 0 /\ identify_device(dev.id) = kind THEN "new" ELSE "none"
  /\ UNCHANGED <<kind, dev, sel, status, accepted, queues, seen>>

-----------------------------------------------------------------------------
(* The accesses of each driver, in order.                                  *)

\* A slip to detect: no reset.
BlockNoReset == <<"new", "ack", "read", "read_high", "write", "write_high",
                  "features_ok", "queue0", "driver_ok">>

BlockInit == <<"new", "reset", "ack", "read", "read_high", "write", "write_high",
               "features_ok", "queue0", "driver_ok">>
NetInit   == <<"new", "reset", "ack", "read", "read_high", "write", "write_high",
               "features_ok", "check", "queue0", "queue1", "driver_ok">>
GpuInit   == <<"new", "reset", "ack", "driver", "read", "read_high", "write", "write_high",
               "features_ok", "check", "queue0", "queue1", "driver_ok">>

Accesses == CASE kind = "block" -> BlockInit [] kind = "net" -> NetInit [] kind = "gpu" -> GpuInit

After(a) ==
  LET i == CHOOSE i \in 1 .. Len(Accesses) : Accesses[i] = a
  IN  IF i = Len(Accesses) THEN "live" ELSE Accesses[i + 1]

At(a) == pc = a /\ pc' = After(a)

Queues == IF kind = "block" THEN {0} ELSE {0, 1}

\* The features a driver takes of those it reads.
BlockWants(f) == f \ {"EVENT_IDX", "RING_PACKED"}
NetWants(f)   == f \ {"MRG_RXBUF"}
GpuWants(f)   == f \cap {"VERSION_1"}

Wanted == CASE kind = "block" -> BlockWants(seen)
            [] kind = "net"   -> NetWants(seen)
            [] kind = "gpu"   -> GpuWants(seen)

\* VirtIOTransport::new: the magic is checked, the version read and ignored.
New ==
  /\ pc = "new"
  /\ pc' = IF dev.magic THEN After("new") ELSE "error"
  /\ UNCHANGED <<kind, dev, sel, status, accepted, queues, seen>>

Reset ==
  /\ At("reset")
  /\ status' = {} /\ accepted' = {} /\ queues' = [q \in Index |-> Off]
  /\ UNCHANGED <<kind, dev, sel, seen>>

Ack ==
  /\ At("ack")
  /\ status' = status \cup (IF kind = "gpu" THEN {"ACKNOWLEDGE"} ELSE {"ACKNOWLEDGE", "DRIVER"})
  /\ UNCHANGED <<kind, dev, sel, accepted, queues, seen>>

\* The GPU driver sets the two bits one by one.
Driver ==
  /\ At("driver")
  /\ status' = status \cup {"DRIVER"}
  /\ UNCHANGED <<kind, dev, sel, accepted, queues, seen>>

ReadFeatures(hi) ==
  /\ At(IF hi THEN "read_high" ELSE "read")
  /\ sel' = hi
  /\ seen' = seen \cup (dev.offered \cap Word(sel'))
  /\ UNCHANGED <<kind, dev, status, accepted, queues>>

WriteFeatures(hi) ==
  /\ At(IF hi THEN "write_high" ELSE "write")
  /\ sel' = hi
  /\ accepted' = (accepted \ Word(sel')) \cup (Wanted \cap Word(sel'))
  /\ UNCHANGED <<kind, dev, status, queues, seen>>

\* The device may leave the bit clear.
FeaturesOk ==
  /\ At("features_ok")
  /\ status' \in {status, status \cup {"FEATURES_OK"}}
  /\ UNCHANGED <<kind, dev, sel, accepted, queues, seen>>

Check ==
  /\ pc = "check"
  /\ pc' = IF "FEATURES_OK" \in status THEN After("check") ELSE "error"
  /\ UNCHANGED <<kind, dev, sel, status, accepted, queues, seen>>

\* Where the parts of a queue lie, from its start, and where the queue does.
Aligned(x)  == ((x + 3) \div 4) * 4
AvailAt     == 16 * Num

UsedAt      == Aligned(16 * Num + 6 + 2 * Num)

QueueAt(q)  == CASE kind = "block" -> 2 * PageSize
                 [] kind = "net"   -> (2 + q) * PageSize
                 [] kind = "gpu"   -> q * PageSize

SetupQueue(q) ==
  /\ At(IF q = 0 THEN "queue0" ELSE "queue1")
  /\ queues' = [queues EXCEPT ![q] =
       [desc |-> QueueAt(q), avail |-> QueueAt(q) + AvailAt, used |-> QueueAt(q) + UsedAt,
        ready |-> TRUE]]
  /\ UNCHANGED <<kind, dev, sel, status, accepted, seen>>

DriverOk ==
  /\ At("driver_ok")
  /\ status' = status \cup {"DRIVER_OK"}
  /\ UNCHANGED <<kind, dev, sel, accepted, queues, seen>>

Next == \/ Probe \/ New \/ Reset \/ Ack \/ Driver \/ FeaturesOk \/ Check \/ DriverOk
        \/ \E hi \in BOOLEAN : ReadFeatures(hi) \/ WriteFeatures(hi)
        \/ \E q \in Queues : SetupQueue(q)

Spec == Init /\ [][Next]_vars

-----------------------------------------------------------------------------
(* What the drivers keep in the DMA memory beside the queues: [from, to).  *)

Area(name, from, len) == [name |-> name, from |-> from, to |-> from + len]

BlockAreas == {Area(<<"headers", 0>>, 0, 64 * 16), Area(<<"status", 0>>, 64 * 16, 64)}
NetAreas   == {Area(<<"headers", q>>, q * PageSize, Num * 16) : q \in {0, 1}}
GpuAreas   == {Area(<<"command", 0>>, 2 * PageSize, 56), Area(<<"response", 0>>, 3 * PageSize, 408)}

Beside == CASE kind = "block" -> BlockAreas [] kind = "net" -> NetAreas [] kind = "gpu" -> GpuAreas

\* The parts of a queue as the driver reads and writes them.
AvailRing == 16 * Num
UsedRing  == ((16 * Num + 6 + 2 * Num + 3) \div 4) * 4

Parts(q) == {Area(<<"desc", q>>, QueueAt(q), 16 * Num),
             Area(<<"avail", q>>, QueueAt(q) + AvailRing, 6 + 2 * Num),
             Area(<<"used", q>>, QueueAt(q) + UsedRing, 6 + 8 * Num)}

Areas == Beside \cup UNION {Parts(q) : q \in Queues}

(***************************************************************************)
(* Properties                                                              *)
(***************************************************************************)

(* A device that is told to go has been reset under this driver, has all   *)
(* its queues where the driver looks for them, and accepted features that  *)
(* it offers.                                                              *)
LiveIsSetUp ==
  pc \notin {"probe", "none", "new", "error", "reset"} /\ "DRIVER_OK" \in status =>
    /\ \A q \in Queues :
         queues[q] = [desc |-> QueueAt(q), avail |-> QueueAt(q) + AvailRing,
                      used |-> QueueAt(q) + UsedRing, ready |-> TRUE]
    /\ accepted \subseteq dev.offered

(* Event indexes and packed rings change what a driver must do with its    *)
(* queues, and no driver here knows them.  Block and GPU never accept      *)
(* them; net clears MRG_RXBUF only (net.rs:85) and so accepts each that is *)
(* offered, while its queues are plain split rings like the others'.       *)
ForeignRing == {"EVENT_IDX", "RING_PACKED"}

ForeignAccepted ==
  pc = "live" =>
    accepted \cap ForeignRing = IF kind = "net" THEN dev.offered \cap ForeignRing ELSE {}

(* VERSION_1 is taken whenever it is offered, from the high word.          *)
ModernTaken == kind = "block" /\ pc = "live" /\ "VERSION_1" \in dev.offered => "VERSION_1" \in accepted

(* No net or GPU device goes live that has not agreed to the features.     *)
(* Block does not read FEATURES_OK back (blk.rs:92) and drives the device  *)
(* all the same.                                                           *)
OnlyAccepted == kind # "block" /\ pc = "live" => "FEATURES_OK" \in status

(* What shares the DMA memory is apart, and lies in it.                    *)
AreasApart ==
  pc = "live" =>
    /\ \A a \in Areas : a.to <= DmaSize
    /\ \A a, b \in Areas : a # b => a.to <= b.from \/ b.to <= a.from
    /\ \A q \in Queues : queues[q].used % 4 = 0 /\ queues[q].avail % 2 = 0

(* The driver that runs is the one for the device's id.                    *)
RightDriver ==
  pc = "live" => dev.id = CASE kind = "net" -> 1 [] kind = "block" -> 2 [] kind = "gpu" -> 16

(* A device is used only as its driver set it up: it is the right one, was *)
(* reset and told of its queues by this driver, shares memory with it      *)
(* whose parts are apart, and agreed to the features; except that block    *)
(* does not ask whether it did, and that net's features include a ring     *)
(* format net does not speak exactly when the device offers one.           *)
LiveAsKnown ==
  LiveIsSetUp /\ ForeignAccepted /\ ModernTaken /\ OnlyAccepted /\ AreasApart /\ RightDriver
=============================================================================
