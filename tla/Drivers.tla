------------------------------- MODULE Drivers -------------------------------
(***************************************************************************)
(* The drivers that start up, scan or serve on their own, and the service  *)
(* around a device: one of them is chosen at the beginning and takes all   *)
(* the steps.  None stands in the variables of the others; those of the    *)
(* service keep the values from before it starts.                          *)
(***************************************************************************)
EXTENDS Service

CONSTANTS
  Offered, Ids,                                \* of VirtioInit
  PciSizes, PciBoards,                         \* the Sizes and Machines of PciScan
  PGSIZE, Memory, Regions, MapSlots, MaxLive,  \* of AcpiMap
  TableSets,                                   \* the Firmwares of AcpiWalk
  TreeSet, TreeCalls,                          \* the Blobs and MaxCalls of Dtb
  HalfWord, MaxTime, ClockCalls,               \* the W, MaxTime and MaxCalls of Rtc
  Width, Pins                                  \* of Gpio

VARIABLES
  driver,    \* "service", "virtio", "pci", "acpi_map", "acpi_walk", "dtb", "rtc" or "gpio"
  vkind, dev, sel, status, accepted, queues, vpc, seen,
  platform, space, pages, at, touched, found, reported, ppc,
  va_allocator, slot_allocator, vpages, live, kept, panic,
  fw, wpc, offset, index, mmio, irq, devices,
  blob, dpc, node, off, boot, method, zones, jobs, list, sent, logic, answer, calls,
  time, latch, newLow, low, high, enabled, fired, masked, tpc, arg, part, begun, wanted, told, asks,
  value, input_en, output_en, gpc, call, val, asked

virtioVars == <<vkind, dev, sel, status, accepted, queues, vpc, seen>>
pciVars    == <<platform, space, pages, at, touched, found, reported, ppc>>
mapVars    == <<va_allocator, slot_allocator, vpages, live, kept, panic>>
walkVars   == <<fw, wpc, offset, index, mmio, irq, devices>>
dtbVars    == <<blob, dpc, node, off, boot, method, zones, jobs, list, sent, logic, answer, calls>>
rtcVars    == <<time, latch, newLow, low, high, enabled, fired, masked, tpc, arg, part, begun,
                wanted, told, asks>>
gpioVars   == <<value, input_en, output_en, gpc, call, val, asked>>

Virtio   == INSTANCE VirtioInit WITH kind <- vkind, pc <- vpc
Pci      == INSTANCE PciScan WITH pc <- ppc, Sizes <- PciSizes, Machines <- PciBoards
AcpiMap  == INSTANCE AcpiMap WITH pages <- vpages, Slots <- MapSlots
AcpiWalk == INSTANCE AcpiWalk WITH pc <- wpc, Firmwares <- TableSets
Dtb      == INSTANCE Dtb WITH pc <- dpc, at <- node, work <- jobs, devices <- list, reported <- sent,
                              Blobs <- TreeSet, MaxCalls <- TreeCalls
Rtc      == INSTANCE Rtc WITH pc <- tpc, answer <- told, calls <- asks,
                              W <- HalfWord, MaxCalls <- ClockCalls
Gpio     == INSTANCE Gpio WITH pc <- gpc

ASSUME DriversAssumption ==
  /\ Virtio!VirtioInitAssumption /\ Pci!PciScanAssumption /\ AcpiMap!AcpiMapAssumption
  /\ AcpiWalk!AcpiWalkAssumption /\ Dtb!DtbAssumption /\ Rtc!RtcAssumption /\ Gpio!GpioAssumption

-----------------------------------------------------------------------------

\* A service that is never started.
NoService == Init /\ kind = "block"
NoVirtio ==
  /\ vkind = None /\ dev = None /\ sel = None /\ status = None /\ accepted = None
  /\ queues = None /\ vpc = None /\ seen = None
NoPci ==
  /\ platform = None /\ space = None /\ pages = None /\ at = None /\ touched = None
  /\ found = None /\ reported = None /\ ppc = None
NoMap ==
  /\ va_allocator = None /\ slot_allocator = None /\ vpages = None /\ live = None
  /\ kept = None /\ panic = None
NoWalk ==
  /\ fw = None /\ wpc = None /\ offset = None /\ index = None /\ mmio = None
  /\ irq = None /\ devices = None
NoDtb ==
  /\ blob = None /\ dpc = None /\ node = None /\ off = None /\ boot = None /\ method = None
  /\ zones = None /\ jobs = None /\ list = None /\ sent = None /\ logic = None
  /\ answer = None /\ calls = None
NoRtc ==
  /\ time = None /\ latch = None /\ newLow = None /\ low = None /\ high = None
  /\ enabled = None /\ fired = None /\ masked = None /\ tpc = None /\ arg = None
  /\ part = None /\ begun = None /\ wanted = None /\ told = None /\ asks = None
NoGpio ==
  /\ value = None /\ input_en = None /\ output_en = None /\ gpc = None /\ call = None
  /\ val = None /\ asked = None

DriversInit ==
  /\ driver \in {"service", "virtio", "pci", "acpi_map", "acpi_walk", "dtb", "rtc", "gpio"}
  /\ IF driver = "service" THEN Init ELSE NoService
  /\ IF driver = "virtio" THEN Virtio!Init ELSE NoVirtio
  /\ IF driver = "pci" THEN Pci!Init ELSE NoPci
  /\ IF driver = "acpi_map" THEN AcpiMap!Init ELSE NoMap
  /\ IF driver = "acpi_walk" THEN AcpiWalk!Init ELSE NoWalk
  /\ IF driver = "dtb" THEN Dtb!Init ELSE NoDtb
  /\ IF driver = "rtc" THEN Rtc!Init ELSE NoRtc
  /\ IF driver = "gpio" THEN Gpio!Init ELSE NoGpio

DriversNext ==
  \/ /\ driver = "service" /\ Next
     /\ UNCHANGED <<driver, virtioVars, pciVars, mapVars, walkVars, dtbVars, rtcVars, gpioVars>>
  \/ /\ driver = "virtio" /\ Virtio!Next
     /\ UNCHANGED <<driver, vars, pciVars, mapVars, walkVars, dtbVars, rtcVars, gpioVars>>
  \/ /\ driver = "pci" /\ Pci!Next
     /\ UNCHANGED <<driver, vars, virtioVars, mapVars, walkVars, dtbVars, rtcVars, gpioVars>>
  \/ /\ driver = "acpi_map" /\ AcpiMap!Next
     /\ UNCHANGED <<driver, vars, virtioVars, pciVars, walkVars, dtbVars, rtcVars, gpioVars>>
  \/ /\ driver = "acpi_walk" /\ AcpiWalk!Next
     /\ UNCHANGED <<driver, vars, virtioVars, pciVars, mapVars, dtbVars, rtcVars, gpioVars>>
  \/ /\ driver = "dtb" /\ Dtb!Next
     /\ UNCHANGED <<driver, vars, virtioVars, pciVars, mapVars, walkVars, rtcVars, gpioVars>>
  \/ /\ driver = "rtc" /\ Rtc!Next
     /\ UNCHANGED <<driver, vars, virtioVars, pciVars, mapVars, walkVars, dtbVars, gpioVars>>
  \/ /\ driver = "gpio" /\ Gpio!Next
     /\ UNCHANGED <<driver, vars, virtioVars, pciVars, mapVars, walkVars, dtbVars, rtcVars>>

driversVars == <<driver, vars, virtioVars, pciVars, mapVars, walkVars, dtbVars, rtcVars, gpioVars>>

DriversSpec == DriversInit /\ [][DriversNext]_driversVars

(***************************************************************************)
(* Properties: those of Service, which hold of one that is never started   *)
(* too, and those of the other drivers, stated of the one that runs.       *)
(***************************************************************************)

(* VirtioInit: a device is used only once start-up has found it, reset it, *)
(* agreed on features with it and laid its queues out; a feature its queue *)
(* code does not know is agreed on by the network driver alone.            *)
LiveAsKnown == driver = "virtio" => Virtio!LiveAsKnown

(* PciScan: every function that is there is reported once, no other, and   *)
(* no access leaves the mapped part of the configuration space.            *)
FunctionsFound == driver = "pci" => Pci!FunctionsFound

(* PciScan: regions, interrupt lines and serial ports are as the registers *)
(* say and the platform needs.                                             *)
FunctionsDescribed == driver = "pci" => Pci!FunctionsDescribed

(* PciScan: only serial ports are changed: two bits of the command half of *)
(* one word, while writing the status half back clears its error bits.     *)
OthersUntouched == [][driver = "pci" => Pci!OnlySerialChanges]_pciVars

(* AcpiMap: what is mapped is exactly what the parser holds, all of it.    *)
MappingExact == driver = "acpi_map" => AcpiMap!MappingExact

(* AcpiWalk: controllers, configuration spaces and resources are listed as *)
(* the tables say.                                                         *)
TablesListed == driver = "acpi_walk" => AcpiWalk!TablesListed

(* Dtb: what is reported, registered and answered is what the tree says.   *)
TreeAnswered == driver = "dtb" => Dtb!TreeAnswered

(* Rtc: times are those of the call, alarms go off in time or not at all.  *)
ClockTrue == [][driver = "rtc" => Rtc!ClockSteps]_rtcVars

(* Gpio: pins keep what their own calls gave them.                         *)
PinsKept == [][driver = "gpio" => Gpio!PinSteps]_gpioVars
=============================================================================
