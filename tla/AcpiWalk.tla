------------------------------ MODULE AcpiWalk ------------------------------
(***************************************************************************)
(* The walks of the ACPI driver (platform/acpi): over the interrupt        *)
(* controllers of the MADT, the configuration spaces of the MCFG, the HPET *)
(* and the devices of the AML name space with the resource buffers of      *)
(* each.  A table is what its walk sees of it: entries at offsets, bytes   *)
(* of a buffer.                                                            *)
(***************************************************************************)
EXTENDS Integers, Sequences, FiniteSets

CONSTANTS
  Firmwares,   \* [arch, madt, mcfg, hpet, aml], None for a table that is missing
  None

\* The place of a number in a set of them.
Rank(S, i) == Cardinality({j \in S : j <= i})

\* A sequence with the members of a set behind it, from the lowest.
Behind(was, S, now) ==
  /\ Len(now) = Len(was) + Cardinality(S)
  /\ \A i \in DOMAIN was : now[i] = was[i]
  /\ \A i \in S : now[Len(was) + Rank(S, i)] = i

Bits(mask) == {bit \in 0 .. 15 : (mask \div (2 ^ bit)) % 2 = 1}

\* Of a _CRS buffer, firmware says as well where the descriptors lie and what
\* those up to each say.  From m to n lies one of them that the driver reads:
\* complete, or of lines and cut behind the two bytes that name them.
Spans(crs, m, n) ==
  LET x    == m.at
      tag  == crs[x + 1]
      word == crs[x + 2] + 256 * crs[x + 3]
  IN  /\ x < Len(crs)
      /\ \/ tag >= 128 /\ x + 3 <= n.at /\ n.at = x + 3 + word /\ n.at <= Len(crs)
         \/ /\ tag < 120 /\ n.at = x + 1 + (tag % 8)
            /\ IF tag \in 34 .. 39 THEN x + 3 <= Len(crs) ELSE n.at <= Len(crs)
      /\ IF tag = 134
         THEN x + 12 <= n.at /\ n.mmio = Append(m.mmio, <<SubSeq(crs, x + 5, x + 8),
                                                         SubSeq(crs, x + 9, x + 12)>>)
         ELSE n.mmio = m.mmio
      /\ IF tag \in 34 .. 39 THEN Behind(m.irq, Bits(word), n.irq) ELSE n.irq = m.irq

\* Nothing more is to be read: the end, the end tag or a descriptor cut short.
Ends(crs, x) ==
  \/ x >= Len(crs)
  \/ x < Len(crs) /\ crs[x + 1] \in 120 .. 127
  \/ /\ x < Len(crs) /\ crs[x + 1] \in 0 .. 119 \ 34 .. 39
     /\ x + 1 + (crs[x + 1] % 8) > Len(crs)
  \/ /\ x < Len(crs) /\ crs[x + 1] >= 128
     /\ x + 3 <= Len(crs) => x + 3 + (crs[x + 2] + 256 * crs[x + 3]) > Len(crs)

\* A descriptor that says less than the driver takes from it: of lines, without
\* the two bytes that name them, or of memory, complete but too short for an
\* address and a size.
Unreadable(crs, x) ==
  /\ x < Len(crs)
  /\ \/ crs[x + 1] \in 34 .. 39 /\ x + 3 > Len(crs)
     \/ /\ crs[x + 1] = 134 /\ x + 3 <= Len(crs)
        /\ crs[x + 2] + 256 * crs[x + 3] < 9
        /\ x + 3 + (crs[x + 2] + 256 * crs[x + 3]) <= Len(crs)

Resources(crs, marks) ==
  /\ crs \in Seq(0 .. 255)
  /\ marks \in Seq([at : Nat, mmio : Seq(Seq(Seq(0 .. 255))), irq : Seq(0 .. 15)]) /\ marks # <<>>
  /\ marks[1] = [at |-> 0, mmio |-> <<>>, irq |-> <<>>]
  /\ \A k \in 1 .. Len(marks) - 1 : Spans(crs, marks[k], marks[k + 1])
  /\ Ends(crs, marks[Len(marks)].at) \/ Unreadable(crs, marks[Len(marks)].at)

\* The entries of a MADT have a length, without which the loop over them never
\* ends, and the names of AML devices are not those that the driver makes up.
\* Any bytes may lie in a buffer.
Sound(f) ==
  /\ f.arch \in {"riscv", "x86"} /\ f.hpet \in BOOLEAN
  /\ f.madt # None => f.madt \in Seq([type : STRING, length : Nat \ {0}, base : Nat, size : Nat])
  /\ f.mcfg # None => f.mcfg \in Seq([base : Nat, first : 0 .. 255, last : 0 .. 255])
  /\ DOMAIN f.aml = 1 .. Len(f.aml) /\ Len(f.aml) \in Nat
  /\ \A i \in DOMAIN f.aml :
       /\ f.aml[i].name \notin {"aplic", "plic", "ioapic", "ecam"}
       /\ f.aml[i].crs # None => Resources(f.aml[i].crs, f.aml[i].marks)

AcpiWalkAssumption == \A f \in Firmwares : Sound(f)

VARIABLES fw, pc, offset, index, mmio, irq, devices

vars == <<fw, pc, offset, index, mmio, irq, devices>>

MadtHeader == 44     \* size_of::<Madt>()

Init ==
  /\ fw \in Firmwares
  /\ pc = "tables" /\ offset = 0 /\ index = 1 /\ mmio = <<>> /\ irq = <<>> /\ devices = <<>>

Device(name, regions, lines) == [name |-> name, mmio |-> regions, irq |-> lines]
Plain(name, base, size) == Device(name, <<<<base, size>>>>, <<>>)

\* AcpiTables::from_rsdp; x86 lists its local APIC before the entries.
Tables ==
  /\ pc = "tables"
  /\ \/ /\ pc' = IF fw.madt = None THEN "mcfg" ELSE "madt"
        /\ offset' = MadtHeader
        /\ devices' = IF fw.madt # None /\ fw.arch = "x86" THEN <<Plain("lapic", 0, 4096)>> ELSE <<>>
     \/ pc' = "failed" /\ UNCHANGED <<offset, devices>>
  /\ UNCHANGED <<fw, index, mmio, irq>>

-----------------------------------------------------------------------------
(* The MADT.                                                               *)

Start(i) ==
  LET start[k \in 1 .. Len(fw.madt) + 1] ==
        IF k = 1 THEN MadtHeader ELSE start[k - 1] + fw.madt[k - 1].length
  IN  start[i]

Length == Start(Len(fw.madt) + 1)

\* What lies at an offset; the bytes inside an entry mean nothing.
EntryAt(x) ==
  IF \E i \in DOMAIN fw.madt : Start(i) = x
  THEN fw.madt[CHOOSE i \in DOMAIN fw.madt : Start(i) = x]
  ELSE [type |-> "bytes", length |-> 1, base |-> 0, size |-> 0]

Listed(e) ==
  CASE fw.arch = "riscv" /\ e.type \in {"aplic", "plic"} -> <<Plain(e.type, e.base, e.size)>>
    [] fw.arch = "x86" /\ e.type = "ioapic"              -> <<Plain("ioapic", e.base, 4096)>>
    [] OTHER                                          -> <<>>

Stride(e) == e.length

Madt ==
  /\ pc = "madt" /\ offset < Length
  /\ devices' = devices \o Listed(EntryAt(offset))
  /\ offset' = offset + Stride(EntryAt(offset))
  /\ UNCHANGED <<fw, pc, index, mmio, irq>>

MadtEnd ==
  /\ pc = "madt" /\ offset >= Length
  /\ pc' = "mcfg"
  /\ UNCHANGED <<fw, offset, index, mmio, irq, devices>>

-----------------------------------------------------------------------------
(* The MCFG and the HPET.                                                  *)

\* bus_count: saturating_sub plus one, a MiB for each.
Buses(e) == (IF e.last > e.first THEN e.last - e.first ELSE 0) + 1

Ecams == [i \in DOMAIN fw.mcfg |-> Plain("ecam", fw.mcfg[i].base, Buses(fw.mcfg[i]))]

McfgHpet ==
  /\ pc = "mcfg"
  /\ devices' = devices \o (IF fw.mcfg = None THEN <<>> ELSE Ecams)
                        \o (IF fw.hpet THEN <<Plain("hpet", 0, 4096)>> ELSE <<>>)
  /\ pc' = "aml" /\ index' = 1 /\ offset' = 0
  /\ UNCHANGED <<fw, mmio, irq>>

-----------------------------------------------------------------------------
(* The devices of the AML name space.                                      *)

Aml      == fw.aml[index]
Buffer   == Aml.crs
Byte(i)  == Buffer[i + 1]

\* Devices without a _HID, or with one of another type, are left out.
NoHid ==
  /\ pc = "aml" /\ index <= Len(fw.aml) /\ Aml.name = None
  /\ index' = index + 1
  /\ UNCHANGED <<fw, pc, offset, mmio, irq, devices>>

Crs == pc = "aml" /\ index <= Len(fw.aml) /\ Aml.name # None /\ Buffer # None

Word(i) == <<Byte(i), Byte(i + 1), Byte(i + 2), Byte(i + 3)>>

LargeLen == Byte(offset + 1) + 256 * Byte(offset + 2)

LargeCut == offset + 3 > Len(Buffer) \/ offset + 3 + LargeLen > Len(Buffer)
ShortMemory == Byte(offset) % 128 = 6 /\ LargeLen < 9

\* Byte offset + 3 of a Memory32Fixed descriptor holds its flags.
Large ==
  /\ Crs /\ offset < Len(Buffer) /\ Byte(offset) >= 128 /\ (~LargeCut => ~ShortMemory)
  /\ IF LargeCut
     THEN offset' = Len(Buffer) /\ UNCHANGED mmio
     ELSE /\ mmio' = IF Byte(offset) % 128 = 6
                     THEN Append(mmio, <<Word(offset + 4), Word(offset + 8)>>) ELSE mmio
          /\ offset' = offset + 3 + LargeLen
  /\ UNCHANGED <<fw, pc, index, irq, devices>>

\* The lines of a mask, from the lowest.
Lines(mask) ==
  LET lines[bit \in 0 .. 16] ==
        IF bit = 16 THEN <<>>
        ELSE (IF (mask \div (2 ^ bit)) % 2 = 1 THEN <<bit>> ELSE <<>>) \o lines[bit + 1]
  IN  lines[0]

SmallLen == Byte(offset) % 8
SmallType == (Byte(offset) \div 8) % 16

LinesCut == SmallType = 4 /\ SmallLen >= 2 /\ offset + 3 > Len(Buffer)

Small ==
  /\ Crs /\ offset < Len(Buffer) /\ Byte(offset) < 128 /\ ~LinesCut
  /\ irq' = IF SmallType = 4 /\ SmallLen >= 2
            THEN irq \o Lines(Byte(offset + 1) + 256 * Byte(offset + 2)) ELSE irq
  /\ offset' = IF SmallType = 15 THEN Len(Buffer) ELSE offset + 1 + SmallLen
  /\ UNCHANGED <<fw, pc, index, mmio, devices>>

\* Indexing past the end of the buffer, or of a memory descriptor, panics: the
\* process dies before it has reported any device.
Panic ==
  /\ Crs /\ offset < Len(Buffer)
  /\ IF Byte(offset) >= 128 THEN ~LargeCut /\ ShortMemory ELSE LinesCut
  /\ pc' = "panicked"
  /\ UNCHANGED <<fw, offset, index, mmio, irq, devices>>

\* A slip to detect: the lists of one device are kept for the next.
FreshKept(list) == list

Fresh(list) == <<>>

AmlDevice ==
  /\ pc = "aml" /\ index <= Len(fw.aml) /\ Aml.name # None
  /\ offset >= IF Buffer = None THEN 0 ELSE Len(Buffer)
  /\ devices' = Append(devices, Device(Aml.name, mmio, irq))
  /\ index' = index + 1 /\ offset' = 0 /\ mmio' = Fresh(mmio) /\ irq' = Fresh(irq)
  /\ UNCHANGED <<fw, pc>>

\* main reports the devices, or that there is no ACPI.
Done ==
  /\ pc = "aml" /\ index > Len(fw.aml)
  /\ pc' = "done"
  /\ UNCHANGED <<fw, offset, index, mmio, irq, devices>>

Next == Tables \/ Madt \/ MadtEnd \/ McfgHpet \/ NoHid \/ Large \/ Small \/ Panic \/ AmlDevice \/ Done

Spec == Init /\ [][Next]_vars

-----------------------------------------------------------------------------
(***************************************************************************)
(* Properties                                                              *)
(***************************************************************************)

Named(names) == {d \in DOMAIN devices : devices[d].name \in names}

(* The list has the interrupt controllers of the MADT in their order, and  *)
(* nothing that is not one, however long the entries between them are.     *)
ControllersListed ==
  pc = "done" /\ fw.madt # None =>
    LET kinds  == IF fw.arch = "riscv" THEN {"aplic", "plic"} ELSE {"ioapic"}
        wanted == {i \in DOMAIN fw.madt : fw.madt[i].type \in kinds}
        listed == Named({"aplic", "plic", "ioapic"})
    IN  /\ Cardinality(listed) = Cardinality(wanted)
        /\ \A i \in wanted, d \in listed :
             Rank(listed, d) = Rank(wanted, i) =>
               devices[d].name = fw.madt[i].type /\ devices[d].mmio[1][1] = fw.madt[i].base

(* A configuration space has room for every bus of its range, and is never *)
(* empty.                                                                  *)
EcamsHoldTheirBuses ==
  pc = "done" /\ fw.mcfg # None =>
    LET spaces == Named({"ecam"})
    IN  /\ Cardinality(spaces) = Len(fw.mcfg)
        /\ \A d \in spaces :
             LET e    == fw.mcfg[Rank(spaces, d)]
                 room == devices[d].mmio[1][2]
             IN  /\ devices[d].mmio[1][1] = e.base /\ room \in 1 .. 256
                 /\ \A bus \in {e.first, e.last} : bus >= e.first => bus - e.first < room

(* A device has the memory and the interrupts of its own descriptors up to *)
(* the end tag, in their order, and none if it has no buffer.              *)
ResourcesDecoded ==
  pc = "done" =>
    LET named == {i \in DOMAIN fw.aml : fw.aml[i].name # None}
        first == Len(devices) - Cardinality(named)
    IN  \A i \in named :
          LET a    == fw.aml[i]
              says == IF a.crs = None THEN [mmio |-> <<>>, irq |-> <<>>] ELSE a.marks[Len(a.marks)]
              d    == devices[first + Rank(named, i)]
          IN  d.name = a.name /\ d.mmio = says.mmio /\ d.irq = says.irq

(* The driver gets to the end exactly if it can read the buffers of all    *)
(* named devices, and dies at the first one that it cannot.                *)
Readable(a) == a.name # None /\ a.crs # None => Ends(a.crs, a.marks[Len(a.marks)].at)
DiesUnread ==
  /\ pc = "done" => \A i \in DOMAIN fw.aml : Readable(fw.aml[i])
  /\ pc = "panicked" => /\ index \in DOMAIN fw.aml /\ ~Readable(fw.aml[index])
                        /\ \A i \in 1 .. index - 1 : Readable(fw.aml[i])

(* What the walks list is what the tables say, each in its own terms, and  *)
(* one descriptor that cannot be read costs the whole list.                *)
TablesListed == ControllersListed /\ EcamsHoldTheirBuses /\ ResourcesDecoded /\ DiesUnread
=============================================================================
