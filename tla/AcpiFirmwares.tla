---------------------------- MODULE AcpiFirmwares ----------------------------
(***************************************************************************)
(* The firmware the ACPI driver is checked on: MADTs of up to four entries *)
(* of the lengths firmware has, MCFGs with one bus or many, and resource   *)
(* buffers that end as they should, go on, are cut in a descriptor, or     *)
(* hold one that the driver cannot read.                                   *)
(***************************************************************************)
EXTENDS Integers, Sequences

CONSTANT None

Entry(type, length, base) == [type |-> type, length |-> length, base |-> base, size |-> 64]
RiscvEntries == {Entry("rintc", 36, 0), Entry("imsic", 16, 0),
                 Entry("aplic", 36, 1), Entry("plic", 36, 2), Entry("plic", 40, 3)}
X86Entries   == {Entry("lapic", 8, 0), Entry("override", 10, 0),
                 Entry("ioapic", 12, 1), Entry("ioapic", 12, 2)}
UpTo(n, S) == UNION {[1 .. k -> S] : k \in 0 .. n}

Mcfgs == {None, <<>>} \cup
  {<<[base |-> 7, first |-> a, last |-> b]>> : a \in {0, 64, 255}, b \in {0, 63, 255}}

Firmware(arch, madt, mcfg, hpet, aml) ==
  [arch |-> arch, madt |-> madt, mcfg |-> mcfg, hpet |-> hpet, aml |-> aml]

MadtFirmwares ==
  {Firmware("riscv", m, None, FALSE, <<>>) : m \in {None} \cup UpTo(4, RiscvEntries)}
  \cup {Firmware("x86", m, None, TRUE, <<>>) : m \in {None} \cup UpTo(4, X86Entries)}

McfgFirmwares == {Firmware("riscv", None, c, h, <<>>) : c \in Mcfgs, h \in BOOLEAN}

\* Descriptors: their bytes and what they say.
Desc(bytes, mmio0, irq0) == [bytes |-> bytes, mmio |-> mmio0, irq |-> irq0]
Irq2   == Desc(<<34, 33, 128>>, <<>>, <<0, 5, 15>>)
Irq3   == Desc(<<35, 16, 0, 1>>, <<>>, <<4>>)
IrqNo  == Desc(<<34, 0, 0>>, <<>>, <<>>)
Io     == Desc(<<71, 1, 34, 35, 34, 35, 1, 8>>, <<>>, <<>>)
Mem    == Desc(<<134, 9, 0, 1, 1, 2, 3, 4, 5, 6, 7, 8>>, <<<<<<1, 2, 3, 4>>, <<5, 6, 7, 8>>>>>>, <<>>)
QWord  == Desc(<<138, 4, 0, 134, 121, 34, 0>>, <<>>, <<>>)
Short  == Desc(<<134, 9, 0, 1, 2>>, <<>>, <<>>)
Descs  == {Irq2, Irq3, IrqNo, Io, Mem, QWord}

Join(ds, f(_)) ==
  LET join[i \in 0 .. Len(ds)] == IF i = 0 THEN <<>> ELSE join[i - 1] \o f(ds[i]) IN join[Len(ds)]
Bytes(d) == d.bytes
MmioOf(d) == d.mmio
IrqOf(d) == d.irq
EndTag   == <<121, 0>>

\* Buffers that end with the tag, go on after it, are cut in a descriptor, or
\* have lines or memory at their end that say too little.
Tails == {EndTag, EndTag \o Mem.bytes \o Irq2.bytes, Short.bytes, <<134, 9>>, <<71, 1>>, <<>>,
          <<34>>, <<35, 1>>, <<134, 8, 0, 1, 1, 2, 3, 4, 5, 6, 7>>, <<134, 0, 0>> \o EndTag}

\* Where the first of them end, and what they say.
Mark(ds) == [at |-> Len(Join(ds, Bytes)), mmio |-> Join(ds, MmioOf), irq |-> Join(ds, IrqOf)]

AmlDev(ds, tail) ==
  [name |-> "PNP0A03", crs |-> Join(ds, Bytes) \o tail,
   marks |-> [k \in 1 .. Len(ds) + 1 |-> Mark(SubSeq(ds, 1, k - 1))]]
Unnamed == [name |-> None, crs |-> None, marks |-> <<>>]
NoCrs   == [name |-> "ACPI0003", crs |-> None, marks |-> <<>>]

\* A descriptor of lines that is cut behind them: they are read all the same.
CutLines ==
  [name |-> "PNP0C0F", crs |-> <<35, 1, 128>>,
   marks |-> <<Mark(<<>>), [at |-> 4, mmio |-> <<>>, irq |-> <<0, 15>>]>>]

AmlFirmwares ==
  {Firmware("x86", None, None, FALSE,
            <<AmlDev(ds, t), Unnamed, CutLines, AmlDev(<<Mem>>, EndTag), NoCrs>>) :
     ds \in UpTo(3, Descs), t \in Tails}

Firmwares == MadtFirmwares \cup McfgFirmwares \cup AmlFirmwares
=============================================================================
