------------------------------ MODULE PciScan ------------------------------
(***************************************************************************)
(* The PCI bus driver (bus/pci): it maps the configuration space of the    *)
(* first bus, visits the functions one after the other, decodes their base *)
(* address registers, lets the QEMU serial port use I/O and interrupts,    *)
(* and reports what it found.  A configuration word is four bytes, low     *)
(* byte first; bit masks are arithmetic on bytes.                          *)
(***************************************************************************)
EXTENDS Integers, Sequences, FiniteSets

CONSTANTS
  Sizes,      \* how large the configuration space may be, in pages of 4 KiB
  Machines    \* the machines that occur: [platform, space]

MaxDev == 31
Window == 256     \* max_scan_window_bytes, in pages

Word == [1 .. 4 -> 0 .. 255]

\* The registers the driver reads; every function that is there has them.
Registers      == {0, 4, 12, 60} \cup {16 + 4 * i : i \in 0 .. 5}
WellFormed(sp) ==
  \A p \in DOMAIN sp : Registers \subseteq DOMAIN sp[p] /\ \A reg \in DOMAIN sp[p] : sp[p][reg] \in Word

PciScanAssumption == Sizes \subseteq Nat /\ \A m \in Machines : WellFormed(m.space)

VARIABLES
  platform,   \* "qemu", "loongson" or "generic": what detect makes of the address
  space,      \* the configuration space: page -> words by offset, where there is a function
  pages,      \* how many pages of it are mapped
  at,         \* the function visited next: <<dev, func>>, or <<>>
  touched,    \* the largest page read
  found,      \* the descriptions so far
  reported,   \* what the device manager was told
  pc          \* "map", "scan", "report", "running" or "failed"

vars == <<platform, space, pages, at, touched, found, reported, pc>>

Ones == <<255, 255, 255, 255>>
Zero == <<0, 0, 0, 0>>

Init ==
  /\ \E m \in Machines : platform = m.platform /\ space = m.space
  /\ pages = 0 /\ at = <<>> /\ touched = 0 /\ found = <<>> /\ reported = <<>> /\ pc = "map"

-----------------------------------------------------------------------------
(* Configuration space accesses.                                           *)

CfgPage(d, f) == d * 8 + f

\* Where nothing answers all bits read as ones.
ReadWord(d, f, reg) ==
  IF CfgPage(d, f) \in DOMAIN space
  THEN LET words == space[CfgPage(d, f)] IN IF reg \in DOMAIN words THEN words[reg] ELSE Zero
  ELSE Ones

ReadByte(d, f, reg) == ReadWord(d, f, (reg \div 4) * 4)[(reg % 4) + 1]
ReadHalf(d, f, reg) == <<ReadByte(d, f, (reg \div 2) * 2), ReadByte(d, f, (reg \div 2) * 2 + 1)>>

\* write_u16: the word with one half replaced.
WriteHalf(d, f, reg, half) ==
  LET word == ReadWord(d, f, (reg \div 4) * 4)
  IN  IF reg % 4 = 0 THEN half \o SubSeq(word, 3, 4) ELSE SubSeq(word, 1, 2) \o half

device_present(d, f)  == ReadHalf(d, f, 0) # <<255, 255>>
is_multifunction(d)   == ReadByte(d, 0, 14) >= 128

-----------------------------------------------------------------------------
(* Base address registers.                                                 *)

Bars(header) == IF header % 128 = 1 THEN 2 ELSE 6

HasIoWindow == platform \in {"qemu", "loongson"}

\* A region is in the I/O window or in memory, at a 64 bit address.
Region(window, low, high, size) == [window |-> window, at |-> low \o high, size |-> size]

Clear(b, n) == (b \div n) * n
Masked(word, n) == <<Clear(word[1], n)>> \o Tail(word)

IsIo(v)      == v[1] % 2 = 1
IsWide(v)    == ~IsIo(v) /\ (v[1] \div 2) % 4 = 2

IoRegion(v) == IF HasIoWindow THEN <<Region("io", Masked(v, 4), Zero, 256)>> ELSE <<>>
MemRegion(v, hi) ==
  IF Masked(v, 16) = Zero /\ hi = Zero THEN <<>> ELSE <<Region("memory", Masked(v, 16), hi, 4096)>>

\* A slip to detect: the upper half is read as a register of its own.
ParseNarrow(d, f, header) ==
  LET parse[bar \in 0 .. 6] ==
        IF bar >= Bars(header) THEN <<>>
        ELSE LET v == ReadWord(d, f, 16 + 4 * bar)
                 hi == IF IsWide(v) /\ bar + 1 < Bars(header)
                       THEN ReadWord(d, f, 20 + 4 * bar) ELSE Zero
             IN  (IF v = Zero THEN <<>> ELSE IF IsIo(v) THEN IoRegion(v) ELSE MemRegion(v, hi))
                 \o parse[bar + 1]
  IN  parse[0]

parse_bars(d, f, header) ==
  LET parse[bar \in 0 .. 7] ==
        IF bar >= Bars(header) THEN <<>>
        ELSE LET v    == ReadWord(d, f, 16 + 4 * bar)
                 wide == IsWide(v) /\ bar + 1 < Bars(header)
                 hi   == IF wide THEN ReadWord(d, f, 20 + 4 * bar) ELSE Zero
             IN  IF v = Zero THEN parse[bar + 1]
                 ELSE IF IsIo(v) THEN IoRegion(v) \o parse[bar + 1]
                 ELSE MemRegion(v, hi) \o parse[IF wide THEN bar + 2 ELSE bar + 1]
  IN  parse[0]

-----------------------------------------------------------------------------
(* Interrupts, and the serial port.                                        *)

Swizzle(d, pin) == 32 + ((d + pin - 1) % 4)

map_intx_irq(d, pin) ==
  IF pin \in 1 .. 4 /\ platform = "qemu" THEN <<Swizzle(d, pin)>> ELSE <<>>

Irq(d, pin, line) ==
  IF pin # 0 /\ line # 0 /\ line # 255 THEN <<line>> ELSE map_intx_irq(d, pin)

IsSerial(d, f) == ReadWord(d, f, 0) = <<54, 27, 2, 0>>     \* 1b36:0002, low bytes first

\* Bit 0 of the command register set, bit 10 cleared.
Enabled(cmd) == <<cmd[1] + (1 - (cmd[1] % 2)), cmd[2] - 4 * ((cmd[2] \div 4) % 2)>>

\* Of the high byte of the status register: the speed of decoding, which is
\* read-only.  The other bits record errors and are cleared by writing ones.
ReadOnly(b) == 2 * ((b \div 2) % 4)

\* What the device makes of a word written to its command and status register:
\* written back as they were read, the errors recorded there are cleared.
OnWrite(old, word) ==
  <<word[1], word[2], old[3], IF word[4] = old[4] THEN ReadOnly(old[4]) ELSE old[4]>>

\* A slip to detect: every device of the vendor is changed.
EnsureVendor(d, f) ==
  LET before == ReadHalf(d, f, 4)
      after  == Enabled(before)
  IN  IF ReadHalf(d, f, 0) = <<54, 27>> /\ before # after
      THEN [space EXCEPT ![CfgPage(d, f)][4] =
              OnWrite(ReadWord(d, f, 4), WriteHalf(d, f, 4, after))]
      ELSE space

ensure_qemu_serial_intx_enabled(d, f) ==
  LET before == ReadHalf(d, f, 4)
      after  == Enabled(before)
  IN  IF IsSerial(d, f) /\ before # after
      THEN [space EXCEPT ![CfgPage(d, f)][4] =
              OnWrite(ReadWord(d, f, 4), WriteHalf(d, f, 4, after))]
      ELSE space

SerialMmio(d, f, mmio) ==
  IF mmio = <<>> /\ IsSerial(d, f) /\ HasIoWindow
  THEN <<Region("io", Zero, Zero, 256)>> ELSE mmio

build_desc_node(d, f) ==
  [unit |-> d * 8 + f,
   id   |-> ReadWord(d, f, 0),
   mmio |-> SerialMmio(d, f, parse_bars(d, f, ReadByte(d, f, 14))),
   irq  |-> Irq(d, ReadByte(d, f, 61), ReadByte(d, f, 60))]

-----------------------------------------------------------------------------
(* The scan.                                                               *)

\* setup_ecam_mapping: no region, a region below a page, or a mapping that
\* fails end the driver.
Map ==
  /\ pc = "map"
  /\ \/ /\ \E size \in Sizes \ {0} : pages' = IF size < Window THEN size ELSE Window
        /\ pc' = "scan" /\ at' = <<0, 0>>
     \/ pc' = "failed" /\ UNCHANGED <<pages, at>>
  /\ UNCHANGED <<platform, space, touched, found, reported>>

NextDev(d) == IF d = MaxDev THEN <<>> ELSE <<d + 1, 0>>

\* A slip to detect: the last function is left out.
AfterLast(d, f) ==
  IF f = 0 /\ is_multifunction(d) THEN <<d, 1>>
  ELSE IF f \in 1 .. 5 THEN <<d, f + 1>> ELSE NextDev(d)

After(d, f) ==
  IF f = 0 /\ device_present(d, 0) /\ is_multifunction(d) THEN <<d, 1>>
  ELSE IF f \in 1 .. 6 THEN <<d, f + 1>> ELSE NextDev(d)

Visit ==
  /\ pc = "scan" /\ at # <<>>
  /\ LET d == at[1]
         f == at[2]
     IN  /\ touched' = IF CfgPage(d, f) > touched THEN CfgPage(d, f) ELSE touched
         /\ at' = After(d, f)
         /\ IF device_present(d, f)
            THEN /\ found' = Append(found, build_desc_node(d, f))
                 /\ space' = ensure_qemu_serial_intx_enabled(d, f)
            ELSE UNCHANGED <<found, space>>
  /\ UNCHANGED <<platform, pages, reported, pc>>

\* unmap; its result is ignored.
Unmap ==
  /\ pc = "scan" /\ at = <<>>
  /\ pages' \in {0, pages}
  /\ pc' = IF found = <<>> THEN "running" ELSE "report"
  /\ UNCHANGED <<platform, space, at, touched, found, reported>>

Report ==
  /\ pc = "report"
  /\ \/ reported' = found /\ pc' = "running"
     \/ pc' = "failed" /\ UNCHANGED reported
  /\ UNCHANGED <<platform, space, pages, at, touched, found>>

Next == Map \/ Visit \/ Unmap \/ Report

Spec == Init /\ [][Next]_vars

-----------------------------------------------------------------------------
(***************************************************************************)
(* Properties                                                              *)
(***************************************************************************)

Present(p)  == p \in DOMAIN space /\ SubSeq(space[p][0], 1, 2) # <<255, 255>>
\* A function can be addressed if function 0 says there are several.
Reachable(p) ==
  /\ p \in 0 .. 255 /\ Present(p)
  /\ p % 8 # 0 => Present(8 * (p \div 8)) /\ space[8 * (p \div 8)][12][3] >= 128

Done == pc = "running"

(* Every function that is there and that the scan has passed is listed,    *)
(* once, under its own address, and nothing else is; the list is reported. *)
Passed == IF pc = "scan" /\ at # <<>> THEN 0 .. 8 * at[1] + at[2] - 1 ELSE 0 .. 255

ScanComplete ==
  /\ pc \in {"scan", "report", "running"} =>
       /\ {found[i].unit : i \in DOMAIN found} = {p \in DOMAIN space \cap Passed : Reachable(p)}
       /\ \A i, j \in DOMAIN found : found[i].unit = found[j].unit => i = j
       /\ \A i \in DOMAIN found : found[i].id = space[found[i].unit][0]
  /\ Done => reported = found

(* The registers that start a region: those that are not the upper half of *)
(* a 64 bit one before them.                                               *)
Starts(words, n) ==
  LET starts[i \in 0 .. n - 1] ==
        i > 0 => ~(starts[i - 1] /\ IsWide(words[16 + 4 * (i - 1)]))
  IN  {i \in 0 .. n - 1 : starts[i]}

(* The regions listed for a function, as it is found, are those of the     *)
(* registers that start one, the upper half belonging to the address of a  *)
(* 64 bit one.                                                             *)
Expected(words, n) ==
  LET S  == Starts(words, n)
      W(i) == words[16 + 4 * i]
      Hi(i) == IF IsWide(W(i)) /\ i < n - 1 THEN W(i + 1) ELSE Zero
  IN  {IF IsIo(W(i)) THEN Region("io", Masked(W(i), 4), Zero, 256)
       ELSE Region("memory", Masked(W(i), 16), Hi(i), 4096) :
         i \in {j \in S : /\ W(j) # Zero
                          /\ IsIo(W(j)) => HasIoWindow
                          /\ ~IsIo(W(j)) => Masked(W(j), 16) # Zero \/ Hi(j) # Zero}}

BarsDecoded ==
  found # <<>> =>
    LET last  == found[Len(found)]
        words == space[last.unit]
        n     == IF words[12][3] % 128 = 1 THEN 2 ELSE 6
    IN  \/ IsSerial(last.unit \div 8, last.unit % 8)
        \/ {last.mmio[k] : k \in DOMAIN last.mmio} = Expected(words, n)

(* A serial port always has registers where the platform has an I/O        *)
(* window, may use I/O, and its interrupt is not disabled.                 *)
SerialUsable ==
  Done =>
    \A i \in DOMAIN reported :
      LET d == reported[i].unit \div 8
          f == reported[i].unit % 8
      IN  IsSerial(d, f) =>
            /\ HasIoWindow => reported[i].mmio # <<>>
            /\ ReadByte(d, f, 4) % 2 = 1 /\ (ReadByte(d, f, 5) \div 4) % 2 = 0

(* No configuration space is changed but that of serial ports, and there   *)
(* only word 4: of the command register the two bits; and, because         *)
(* write_u16 writes the whole word back, the errors that the status        *)
(* register had recorded, which are lost.  Everything else is left as the  *)
(* firmware set it.                                                        *)
OnlySerialChanges ==
  \A p \in DOMAIN space :
    LET old == space[p][4]
        new == space'[p][4]
    IN  space'[p] # space[p] =>
          /\ space[p][0] = <<54, 27, 2, 0>>
          /\ SubSeq(new, 1, 2) = Enabled(SubSeq(old, 1, 2))
          /\ new[3] = old[3] /\ new[4] = ReadOnly(old[4])
          /\ \A reg \in DOMAIN space[p] \ {4} : space'[p][reg] = space[p][reg]
OthersUntouched == [][OnlySerialChanges]_vars

(* platform.rs: "INTx routed to PLIC 32..35".  An interrupt that the       *)
(* firmware did not choose is one of these, and neighbouring devices with  *)
(* the same pin use different ones.                                        *)
IntxRouted ==
  Done =>
    \A i, j \in DOMAIN reported :
      LET D(k)    == reported[k].unit \div 8
          Byte(k, r) == ReadByte(D(k), reported[k].unit % 8, r)
          Own(k)  == reported[k].irq # <<>> /\ Byte(k, 60) \in {0, 255}
      IN  /\ Own(i) => reported[i].irq[1] \in 32 .. 35
          /\ (Own(i) /\ Own(j) /\ Byte(i, 61) = Byte(j, 61)) =>
               (reported[i].irq = reported[j].irq <=> D(i) % 4 = D(j) % 4)

(* No access leaves the part of the space that is mapped, when that is     *)
(* the whole first bus.                                                    *)
InWindow == pages >= Window => touched < pages

(* The scan finds what is there, and looks nowhere else.                   *)
FunctionsFound == ScanComplete /\ InWindow

(* Each function is described by its registers as it needs them to work:   *)
(* regions, interrupt line, and a serial port's switches.                  *)
FunctionsDescribed == BarsDecoded /\ IntxRouted /\ SerialUsable
=============================================================================
