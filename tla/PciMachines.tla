----------------------------- MODULE PciMachines -----------------------------
(***************************************************************************)
(* The machines the PCI bus driver is checked on: functions at both ends   *)
(* of the bus, of several kinds, and every kind of base address register.  *)
(***************************************************************************)
EXTENDS Integers, Sequences

Zero == <<0, 0, 0, 0>>

Nothing == [i \in 0 .. 5 |-> Zero]

\* The words of a function; the status register tells of capabilities, of the
\* decoding speed, and of an abort that was received.
Words(id, cmd, header, bars, line, pin) ==
  [r \in {0, 4, 12, 60} \cup {16 + 4 * i : i \in 0 .. 5} |->
     CASE r = 0  -> id
       [] r = 4  -> cmd \o <<16, 34>>
       [] r = 12 -> <<0, 0, header, 0>>
       [] r = 60 -> <<line, pin, 0, 0>>
       [] OTHER  -> bars[(r - 16) \div 4]]

Serial == <<54, 27, 2, 0>>
Bridge == <<54, 27, 8, 0>>
Disk   == <<134, 128, 1, 0>>

\* Which functions are there, and whether the first ones tell of the others.
Header(multi, d) == IF d \in multi THEN 128 ELSE 0

Function(p, multi) ==
  CASE p = 0   -> Words(Serial, <<0, 4>>, Header(multi, 0), Nothing, 0, 1)
    [] p = 1   -> Words(Disk,   <<3, 0>>, 0, Nothing, 255, 2)
    [] p = 8   -> Words(Bridge, <<2, 4>>, Header(multi, 1), Nothing, 255, 1)
    [] p = 15  -> Words(Serial, <<7, 4>>, 0, Nothing, 11, 1)
    [] p = 26  -> Words(Disk,   <<2, 0>>, 0, Nothing, 0, 4)
    [] p = 248 -> Words(Disk,   <<2, 4>>, Header(multi, 31), Nothing, 0, 2)
    [] p = 255 -> Words(Serial, <<1, 0>>, 0, Nothing, 0, 1)

Topologies ==
  UNION {{[p \in there |-> Function(p, multi)] : multi \in SUBSET {0, 1, 31}} :
           there \in SUBSET {0, 1, 8, 15, 26, 248, 255}}

\* What the registers of one function may say.
Io    == <<1, 192, 0, 0>>
Mem   == <<8, 0, 0, 64>>
Wide  == <<12, 0, 0, 80>>
WideZ == <<4, 0, 0, 0>>
Empty == Zero

BarSets == {b \in [0 .. 5 -> {Io, Mem, Wide, WideZ, Empty}] :
              /\ b[0] # WideZ /\ b[2] # Io /\ b[3] # Empty /\ b[4] \in {Mem, Wide, Empty}
              /\ b[5] \in {Wide, Empty}}

BarMachines ==
  {[p \in {16} |-> Words(Disk, <<2, 0>>, 0, b, 0, 0)] : b \in BarSets}
  \cup {[p \in {16} |-> Words(Disk, <<2, 0>>, 1, [Nothing EXCEPT ![0] = a, ![1] = b, ![2] = Mem], 0, 0)] :
          a, b \in {Io, Mem, Wide, WideZ, Empty}}
  \cup {[p \in {16} |-> Words(Serial, <<2, 4>>, 0, [Nothing EXCEPT ![0] = a], 0, 0)] :
          a \in {Io, Empty}}

Machines == [platform : {"qemu"}, space : Topologies]
            \cup [platform : {"loongson", "generic"}, space : BarMachines]
=============================================================================
