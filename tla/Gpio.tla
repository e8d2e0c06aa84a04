-------------------------------- MODULE Gpio --------------------------------
(***************************************************************************)
(* The SiFive GPIO service (gpio/sifive-gpio): directions and values of    *)
(* pins in registers that are read, changed and written back while the     *)
(* outside drives the input pins.  A register is the set of its one bits;  *)
(* the pin of a call is shifted as the hardware does, modulo the width.    *)
(***************************************************************************)
EXTENDS Integers, FiniteSets

CONSTANTS
  Width,     \* bits in a register
  Pins,      \* the pins clients name
  None

Modes == {"input", "output", None}
Calls == [bit : Nat, mode : Modes, on : BOOLEAN]

GpioAssumption == Width \in Nat \ {0} /\ Pins \subseteq Nat /\ None \notin Calls

VARIABLES
  value, input_en, output_en,   \* the registers
  pc, call, val,                \* the service: next access, the call, the register read
  asked                         \* what clients asked last of each bit: [mode, level]

regs == <<value, input_en, output_en>>
vars == <<regs, pc, call, val, asked>>

Bits == 0 .. Width - 1

Init ==
  /\ value \in SUBSET Bits /\ input_en = {} /\ output_en = {}
  /\ pc = "idle" /\ call = None /\ val = {}
  /\ asked = [b \in Bits |-> [mode |-> None, level |-> None]]

Bit(pin) == pin % Width
Set(reg, b, on) == IF on THEN reg \cup {b} ELSE reg \ {b}

\* The outside drives the pins that are not outputs.
Drive ==
  /\ \E b \in Bits \ output_en, on \in BOOLEAN : value' = Set(value, b, on)
  /\ UNCHANGED <<input_en, output_en, pc, call, val, asked>>

\* set_mode: another mode is refused before anything is touched.
SetMode(pin, mode) ==
  /\ pc = "idle"
  /\ pc' = IF mode = "input" THEN "in_read" ELSE "out_read"
  /\ call' = [bit |-> Bit(pin), mode |-> mode, on |-> FALSE]
  /\ asked' = [asked EXCEPT ![Bit(pin)].mode = mode]
  /\ UNCHANGED <<regs, val>>

\* The direction asked for is enabled first, the other one disabled then.
EnableIn ==
  /\ pc \in {"in_read", "in_write"}
  /\ IF pc = "in_read" THEN val' = input_en /\ pc' = "in_write" /\ UNCHANGED input_en
     ELSE input_en' = Set(val, call.bit, call.mode = "input") /\ UNCHANGED val
          /\ pc' = IF call.mode = "input" THEN "out_read" ELSE "idle"
  /\ UNCHANGED <<value, output_en, call, asked>>

EnableOut ==
  /\ pc \in {"out_read", "out_write"}
  /\ IF pc = "out_read" THEN val' = output_en /\ pc' = "out_write" /\ UNCHANGED output_en
     ELSE output_en' = Set(val, call.bit, call.mode = "output") /\ UNCHANGED val
          /\ pc' = IF call.mode = "output" THEN "in_read" ELSE "idle"
  /\ UNCHANGED <<value, input_en, call, asked>>

Write(pin, on) ==
  /\ pc = "idle"
  /\ pc' = "value_read" /\ call' = [bit |-> Bit(pin), mode |-> None, on |-> on]
  /\ asked' = [asked EXCEPT ![Bit(pin)].level = on]
  /\ UNCHANGED <<regs, val>>

ReadValue ==
  /\ pc = "value_read"
  /\ val' = value /\ pc' = "value_write"
  /\ UNCHANGED <<regs, call, asked>>

\* A slip to detect: the register is written with this bit only.
LevelAlone(v, b, on) == IF on THEN {b} ELSE {}

Level(v, b, on) == Set(v, b, on)

\* The device takes the bits of its outputs.
WriteValue ==
  /\ pc = "value_write"
  /\ value' = (value \ output_en) \cup (Level(val, call.bit, call.on) \cap output_en)
  /\ pc' = "idle"
  /\ UNCHANGED <<input_en, output_en, call, val, asked>>

Next == \/ Drive \/ EnableIn \/ EnableOut \/ ReadValue \/ WriteValue
        \/ \E pin \in Pins : \/ \E mode \in {"input", "output"} : SetMode(pin, mode)
                             \/ \E on \in BOOLEAN : Write(pin, on)

Spec == Init /\ [][Next]_vars

(***************************************************************************)
(* Properties                                                              *)
(***************************************************************************)

(* Between calls every pin whose mode was ever set has exactly that        *)
(* direction, whatever was done to the others.                             *)
OneDirection ==
  pc = "idle" =>
    \A b \in Bits : asked[b].mode # None =>
      /\ b \in input_en  <=> asked[b].mode = "input"
      /\ b \in output_en <=> asked[b].mode = "output"

(* An output keeps its level until a call is made for its pin: writing     *)
(* another pin, while inputs change, does not touch it.                    *)
OwnOutputOnly ==
  \A b \in output_en \cap output_en' :
    (b \in value) # (b \in value') => call # None /\ call.bit = b /\ pc = "value_write"

(* Pins keep what their own calls gave them, direction and level.          *)
PinSteps == OneDirection' /\ OwnOutputOnly
PinsKept == [][PinSteps]_vars
=============================================================================
