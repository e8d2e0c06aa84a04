---------------------------- MODULE DriversProofs ----------------------------
(***************************************************************************)
(* The drivers that start up, scan or serve on their own keep what they    *)
(* promise for every value of the constants: any pins and register width,  *)
(* any times, any memory and regions, any devices.                         *)
(*                                                                         *)
(* The driver that was chosen takes all the steps; each has an invariant   *)
(* of its own, which says nothing while another driver runs.               *)
(***************************************************************************)
EXTENDS Drivers, SequenceTheorems, FiniteSetTheorems, TLAPS

-----------------------------------------------------------------------------
(* One driver at a time.                                                   *)

\* A step is one of the driver that runs, or leaves its variables alone.
LEMMA Chosen ==
  ASSUME [DriversNext]_driversVars
  PROVE  /\ driver' = driver
         /\ driver = "virtio"   => Virtio!Next \/ UNCHANGED virtioVars
         /\ driver = "pci"      => Pci!Next \/ UNCHANGED pciVars
         /\ driver = "acpi_map" => AcpiMap!Next \/ UNCHANGED mapVars
         /\ driver = "rtc"      => Rtc!Next \/ UNCHANGED rtcVars
         /\ driver = "gpio"     => Gpio!Next \/ UNCHANGED gpioVars
<1>1. CASE UNCHANGED driversVars
  BY <1>1 DEF driversVars
<1>2. CASE DriversNext
  BY <1>2 DEF DriversNext
<1> QED  BY <1>1, <1>2

-----------------------------------------------------------------------------
(* Gpio: pins keep what their own calls gave them.                         *)

Setting == gpc \in {"in_read", "in_write", "out_read", "out_write"}
Writing == gpc \in {"value_read", "value_write"}

PinTypes ==
  /\ {value, input_en, output_en, val} \subseteq SUBSET Gpio!Bits
  /\ gpc = "idle" \/ Setting \/ Writing
  /\ gpc # "idle" => call \in Gpio!Calls /\ call.bit \in Gpio!Bits
  /\ asked \in [Gpio!Bits -> [mode : Gpio!Modes, level : BOOLEAN \cup {None}]]

\* A pin has the direction that was asked for.
Directed(b) ==
  /\ b \in input_en  <=> asked[b].mode = "input"
  /\ b \in output_en <=> asked[b].mode = "output"

\* The pin of a call that sets a mode, half way.
HalfSet ==
  /\ call.mode \in {"input", "output"} /\ asked[call.bit].mode = call.mode
  /\ gpc = "in_write"  => val = input_en
  /\ gpc = "out_write" => val = output_en
  /\ gpc \in {"out_read", "out_write"} /\ call.mode = "input" => call.bit \in input_en
  /\ gpc \in {"in_read", "in_write"} /\ call.mode = "output" => call.bit \in output_en

PinInv ==
  /\ PinTypes
  /\ Setting => HalfSet
  /\ gpc = "value_write" => val \cap output_en = value \cap output_en
  /\ \A b \in Gpio!Bits : asked[b].mode # None => Directed(b) \/ (Setting /\ b = call.bit)

\* The pin of a call is one of the bits.
LEMMA BitIs ==
  ASSUME NEW pin \in Pins
  PROVE  Gpio!Bit(pin) \in Gpio!Bits
BY DriversAssumption DEF Gpio!Bit, Gpio!Bits, Gpio!GpioAssumption

\* At the beginning no call is under way and no pin has a mode.
LEMMA PinInit == Gpio!Init => PinInv
BY DEF Gpio!Init, PinInv, PinTypes, Setting, Writing, HalfSet, Directed, Gpio!Modes

\* A call that sets a mode begins.
LEMMA SetModeStep ==
  ASSUME PinInv, NEW pin \in Pins, NEW mode \in {"input", "output"}, Gpio!SetMode(pin, mode)
  PROVE  PinInv'
<1>1. PICK b \in Gpio!Bits : b = Gpio!Bit(pin)
  BY BitIs
<1>2. /\ gpc = "idle" /\ gpc' = IF mode = "input" THEN "in_read" ELSE "out_read"
      /\ call' = [bit |-> b, mode |-> mode, on |-> FALSE]
      /\ UNCHANGED <<value, input_en, output_en, val>>
  BY <1>1 DEF Gpio!SetMode, Gpio!regs
<1>3. /\ asked' \in [Gpio!Bits -> [mode : Gpio!Modes, level : BOOLEAN \cup {None}]]
      /\ asked'[b].mode = mode /\ \A c \in Gpio!Bits : c # b => asked'[c] = asked[c]
  BY <1>1 DEF PinInv, PinTypes, Gpio!SetMode, Gpio!Modes
<1>4. b \in Nat
  BY DriversAssumption DEF Gpio!Bits, Gpio!GpioAssumption
<1>5. PinTypes'
  BY <1>2, <1>3, <1>4 DEF PinInv, PinTypes, Setting, Gpio!Calls, Gpio!Modes
<1>6. Setting' /\ HalfSet'
  BY <1>2, <1>3 DEF Setting, HalfSet
<1>7. \A c \in Gpio!Bits : asked'[c].mode # None => Directed(c)' \/ (Setting' /\ c = call'.bit)
  BY <1>2, <1>3, <1>6 DEF PinInv, Directed, Setting
<1> QED  BY <1>2, <1>5, <1>6, <1>7 DEF PinInv

\* A call that writes a pin begins.
LEMMA WriteStep ==
  ASSUME PinInv, NEW pin \in Pins, NEW on \in BOOLEAN, Gpio!Write(pin, on)
  PROVE  PinInv'
<1>1. PICK b \in Gpio!Bits : b = Gpio!Bit(pin)
  BY BitIs
<1>2. /\ gpc = "idle" /\ gpc' = "value_read"
      /\ call' = [bit |-> b, mode |-> None, on |-> on]
      /\ UNCHANGED <<value, input_en, output_en, val>>
  BY <1>1 DEF Gpio!Write, Gpio!regs
<1>3. /\ asked' \in [Gpio!Bits -> [mode : Gpio!Modes, level : BOOLEAN \cup {None}]]
      /\ \A c \in Gpio!Bits : asked'[c].mode = asked[c].mode
  BY <1>1 DEF PinInv, PinTypes, Gpio!Write
<1>4. b \in Nat
  BY DriversAssumption DEF Gpio!Bits, Gpio!GpioAssumption
<1>5. PinTypes'
  BY <1>2, <1>3, <1>4 DEF PinInv, PinTypes, Writing, Gpio!Calls, Gpio!Modes
<1> QED  BY <1>2, <1>3, <1>5 DEF PinInv, Directed, Setting

\* The rest of the steps.
LEMMA PinStep ==
  ASSUME PinInv, Gpio!Next
  PROVE  PinInv'
<1>1. CASE Gpio!Drive
  BY <1>1 DEF Gpio!Drive, Gpio!Set, PinInv, PinTypes, Setting, Writing, HalfSet, Directed
<1>2. CASE Gpio!EnableIn
  BY <1>2 DEF Gpio!EnableIn, Gpio!Set, PinInv, PinTypes, Setting, Writing, HalfSet, Directed
<1>3. CASE Gpio!EnableOut
  BY <1>3 DEF Gpio!EnableOut, Gpio!Set, PinInv, PinTypes, Setting, Writing, HalfSet, Directed
<1>4. CASE Gpio!ReadValue
  BY <1>4 DEF Gpio!ReadValue, Gpio!regs, PinInv, PinTypes, Setting, Writing, HalfSet, Directed
<1>5. CASE Gpio!WriteValue
  BY <1>5 DEF Gpio!WriteValue, Gpio!Level, Gpio!Set, PinInv, PinTypes, Setting, Writing, HalfSet, Directed
<1>6. CASE \E pin \in Pins, mode \in {"input", "output"} : Gpio!SetMode(pin, mode)
  BY <1>6, SetModeStep
<1>7. CASE \E pin \in Pins, on \in BOOLEAN : Gpio!Write(pin, on)
  BY <1>7, WriteStep
<1> QED  BY <1>1, <1>2, <1>3, <1>4, <1>5, <1>6, <1>7 DEF Gpio!Next

\* Between calls directions are right, and a step moves an output of its call only.
LEMMA PinPromise ==
  ASSUME PinInv, PinInv', Gpio!Next
  PROVE  Gpio!PinSteps
<1>1. Gpio!OneDirection'
  BY DEF PinInv, Gpio!OneDirection, Directed, Setting
<1>2. ASSUME NEW b \in output_en \cap output_en', ~(b \in value <=> b \in value')
      PROVE  call # None /\ call.bit = b /\ gpc = "value_write"
  <2>1. CASE Gpio!WriteValue
    <3>1. call # None
      BY <2>1, DriversAssumption DEF PinInv, PinTypes, Gpio!WriteValue, Gpio!GpioAssumption
    <3>2. gpc = "value_write" /\ val \cap output_en = value \cap output_en
      BY <2>1 DEF PinInv, Gpio!WriteValue
    <3>3. call.bit = b
      BY <1>2, <2>1, <3>2 DEF Gpio!WriteValue, Gpio!Level, Gpio!Set
    <3> QED  BY <3>1, <3>2, <3>3
  <2>2. CASE Gpio!Drive
    BY <1>2, <2>2 DEF Gpio!Drive, Gpio!Set
  <2>3. CASE ~Gpio!WriteValue /\ ~Gpio!Drive
    <3>1. value' = value
      BY <2>3 DEF Gpio!Next, Gpio!EnableIn, Gpio!EnableOut, Gpio!ReadValue, Gpio!SetMode, Gpio!Write, Gpio!regs
    <3> QED  BY <1>2, <3>1
  <2> QED  BY <2>1, <2>2, <2>3
<1> QED  BY <1>1, <1>2 DEF Gpio!PinSteps, Gpio!OwnOutputOnly

(* Pins keep what their own calls gave them, direction and level, whatever *)
(* is done to the others and whatever the outside drives (set_mode, write, *)
(* the enable and value registers read, changed and written back).         *)
THEOREM PinsTheorem == DriversSpec => PinsKept
<1> DEFINE I == driver = "gpio" => PinInv
<1>1. DriversInit => I
  BY PinInit DEF DriversInit
<1>2. ASSUME I, UNCHANGED gpioVars, driver' = driver PROVE I'
  BY <1>2 DEF gpioVars, PinInv, PinTypes, Setting, Writing, HalfSet, Directed
<1>3. ASSUME I, [DriversNext]_driversVars PROVE I'
  BY <1>2, <1>3, Chosen, PinStep
<1>4. ASSUME I, I', [DriversNext]_driversVars PROVE [driver = "gpio" => Gpio!PinSteps]_gpioVars
  BY <1>4, Chosen, PinPromise
<1> QED  BY <1>1, <1>3, <1>4, PTL DEF DriversSpec, PinsKept

-----------------------------------------------------------------------------
(* Rtc: times are those of the call, alarms go off in time or not at all.  *)

Getting == tpc \in {"get_low", "get_high"}
Arming  == tpc \in {"alarm_low", "alarm_high", "alarm_on"}

ClockTypes ==
  /\ {time, latch, newLow, low, high, arg, part, begun} \subseteq Nat
  /\ enabled \in BOOLEAN /\ fired \in BOOLEAN
  /\ wanted \in Rtc!Alarms \cup {None}

\* What is read of a time is one between the beginning of the call and now.
Reading ==
  /\ Getting => begun <= time
  /\ tpc = "get_high" => begun <= HalfWord * latch + part /\ HalfWord * latch + part <= time
  /\ Rtc!TimeIsNow

\* What is written of an alarm is the one that is wanted.
Armed ==
  /\ Arming => wanted # None /\ wanted.at = arg /\ (wanted.clean => ~enabled)
  /\ tpc \in {"alarm_high", "alarm_on"} => low = Rtc!Low(arg)
  /\ tpc = "alarm_on" => high = Rtc!High(arg)
  /\ tpc = "clear" => ~enabled
  /\ wanted = None => ~enabled /\ ~fired
  /\ wanted # None /\ wanted.clean /\ enabled => Rtc!Alarm = wanted.at

ClockInv == ClockTypes /\ Reading /\ Armed

\* A time is made of its two words.
LEMMA Words ==
  ASSUME NEW t \in Nat
  PROVE  /\ Rtc!Low(t) \in Nat /\ Rtc!High(t) \in Nat
         /\ HalfWord * Rtc!High(t) + Rtc!Low(t) = t /\ Rtc!Low(t) + HalfWord * Rtc!High(t) = t
<1>1. HalfWord \in Nat \ {0}
  BY DriversAssumption DEF Rtc!RtcAssumption
<1>2. t % HalfWord \in Nat /\ t \div HalfWord \in Nat /\ t = (HalfWord * (t \div HalfWord)) + (t % HalfWord)
  BY <1>1
<1>3. PICK l, h : l = t % HalfWord /\ h = t \div HalfWord
  OBVIOUS
<1> QED  BY <1>1, <1>2, <1>3 DEF Rtc!Low, Rtc!High

\* Products of words are numbers.
LEMMA Product ==
  ASSUME NEW a \in Nat, NEW b \in Nat
  PROVE  HalfWord * a + b \in Nat
BY DriversAssumption DEF Rtc!RtcAssumption

\* At the beginning no time is read and no alarm set.
LEMMA ClockInit == Rtc!Init => ClockInv
<1> SUFFICES ASSUME Rtc!Init PROVE ClockInv
  OBVIOUS
<1>1. time \in Nat
  BY DriversAssumption DEF Rtc!Init, Rtc!Times, Rtc!RtcAssumption
<1>2. ClockTypes
  <2>1. {time, latch, newLow, low, high, arg, part, begun} \subseteq Nat
    BY <1>1 DEF Rtc!Init
  <2>2. enabled \in BOOLEAN /\ fired \in BOOLEAN /\ wanted \in Rtc!Alarms \cup {None}
    BY Zenon DEF Rtc!Init
  <2> QED  BY <2>1, <2>2 DEF ClockTypes
<1>3. Reading
  BY DEF Rtc!Init, Reading, Getting, Rtc!TimeIsNow
<1>4. Armed
  BY DEF Rtc!Init, Armed, Arming
<1> QED  BY <1>2, <1>3, <1>4 DEF ClockInv

\* An alarm that is wanted.
LEMMA Alarming ==
  ASSUME NEW t \in Nat, NEW e \in BOOLEAN, NEW x, x = [at |-> t, clean |-> ~e]
  PROVE  x \in Rtc!Alarms /\ x # None /\ x.at = t /\ (x.clean <=> ~e)
<1>1. x \in Rtc!Alarms
  BY DEF Rtc!Alarms
<1>2. None \notin Rtc!Alarms
  BY DriversAssumption DEF Rtc!RtcAssumption
<1> QED  BY <1>1, <1>2

\* A call begins.
LEMMA BeginStep ==
  ASSUME ClockInv, Rtc!GetTime \/ Rtc!SetTime \/ Rtc!SetAlarm \/ Rtc!StopAlarm
  PROVE  ClockInv'
<1>1. Rtc!Times \subseteq Nat
  BY DriversAssumption DEF Rtc!Times, Rtc!RtcAssumption
<1>2. /\ UNCHANGED <<time, latch, newLow, low, high, enabled, fired, masked, part>>
      /\ begun' = time /\ told' = None
      /\ \/ tpc' \in {"get_low", "set_low", "stop"} /\ arg' \in Nat /\ UNCHANGED wanted
         \/ tpc' = "alarm_low" /\ arg' \in Nat /\ wanted' = [at |-> arg', clean |-> ~enabled]
  <2>1. ASSUME NEW first, NEW given, Rtc!Begin(first, given)
        PROVE  begun' = time /\ told' = None /\ tpc' = first /\ arg' = given
    BY <2>1 DEF Rtc!Begin
  <2>2. CASE Rtc!GetTime \/ Rtc!StopAlarm
    BY <2>1, <2>2 DEF Rtc!GetTime, Rtc!StopAlarm, Rtc!device
  <2>3. CASE Rtc!SetTime
    BY <1>1, <2>1, <2>3 DEF Rtc!SetTime, Rtc!device
  <2>4. CASE Rtc!SetAlarm
    BY <1>1, <2>1, <2>4 DEF Rtc!SetAlarm, Rtc!device
  <2> QED  BY <2>2, <2>3, <2>4
<1>3. ClockTypes'
  <2>1. wanted' \in Rtc!Alarms \cup {None}
    BY <1>2, Alarming DEF ClockInv, ClockTypes
  <2> QED  BY <1>2, <2>1 DEF ClockInv, ClockTypes
<1>4. Reading'
  BY <1>2 DEF ClockInv, ClockTypes, Reading, Getting, Rtc!TimeIsNow
<1>5. Armed'
  <2>1. CASE tpc' = "alarm_low"
    <3>1. wanted' # None /\ wanted'.at = arg' /\ (wanted'.clean <=> ~enabled)
      BY <1>2, <2>1, Alarming DEF ClockInv, ClockTypes
    <3> QED  BY <1>2, <2>1, <3>1 DEF Armed, Arming
  <2>2. CASE tpc' # "alarm_low"
    BY <1>2, <2>2 DEF ClockInv, Armed, Arming, Rtc!Alarm
  <2> QED  BY <2>1, <2>2
<1> QED  BY <1>3, <1>4, <1>5 DEF ClockInv

\* The time is read.
LEMMA ReadTimeStep ==
  ASSUME ClockInv, Rtc!ReadTime
  PROVE  ClockInv'
<1>1. UNCHANGED <<time, newLow, low, high, enabled, fired, masked, arg, begun, wanted, asks>>
  BY DEF Rtc!ReadTime
<1>2. CASE tpc = "get_low"
  <2>1. part' = Rtc!Low(time) /\ latch' = Rtc!High(time) /\ tpc' = "get_high" /\ told' = told
    BY <1>2 DEF Rtc!ReadTime
  <2>2. part' \in Nat /\ latch' \in Nat /\ HalfWord * latch' + part' = time
    BY <2>1, Words DEF ClockInv, ClockTypes
  <2>3. ClockTypes'
    BY <1>1, <2>2 DEF ClockInv, ClockTypes
  <2>4. Reading'
    BY <1>1, <1>2, <2>1, <2>2 DEF ClockInv, ClockTypes, Reading, Getting, Rtc!TimeIsNow
  <2>5. Armed'
    BY <1>1, <2>1 DEF ClockInv, Armed, Arming, Rtc!Alarm
  <2> QED  BY <2>3, <2>4, <2>5 DEF ClockInv
<1>3. CASE tpc = "get_high"
  <2>1. /\ told' = [time |-> HalfWord * latch + part, from |-> begun, to |-> time]
        /\ tpc' = "idle" /\ part' = part /\ latch' = latch
    BY <1>3 DEF Rtc!ReadTime
  <2>3. ClockTypes'
    BY <1>1, <2>1 DEF ClockInv, ClockTypes
  <2>4. Reading'
    BY <1>1, <1>3, <2>1 DEF ClockInv, Reading, Getting, Rtc!TimeIsNow
  <2>5. Armed'
    BY <1>1, <2>1 DEF ClockInv, Armed, Arming, Rtc!Alarm
  <2> QED  BY <2>3, <2>4, <2>5 DEF ClockInv
<1> QED  BY <1>2, <1>3 DEF Rtc!ReadTime

\* The time is set.
LEMMA WriteTimeStep ==
  ASSUME ClockInv, Rtc!WriteTime
  PROVE  ClockInv'
<1>1. /\ UNCHANGED <<latch, low, high, enabled, fired, masked, arg, part, begun, wanted, told, asks>>
      /\ tpc' \in {"set_high", "idle"}
  BY DEF Rtc!WriteTime
<1>2. time' \in Nat /\ newLow' \in Nat
  <2>1. /\ Rtc!Low(arg) \in Nat /\ HalfWord * Rtc!High(arg) + newLow \in Nat
    BY Words, Product DEF ClockInv, ClockTypes
  <2> QED  BY <2>1 DEF ClockInv, ClockTypes, Rtc!WriteTime
<1>3. ClockTypes'
  BY <1>1, <1>2 DEF ClockInv, ClockTypes
<1>4. Reading'
  BY <1>1 DEF ClockInv, Reading, Getting, Rtc!TimeIsNow
<1>5. Armed'
  BY <1>1 DEF ClockInv, Armed, Arming, Rtc!Alarm
<1> QED  BY <1>3, <1>4, <1>5 DEF ClockInv

\* The alarm is set.
LEMMA WriteAlarmStep ==
  ASSUME ClockInv, Rtc!WriteAlarm
  PROVE  ClockInv'
<1>1. /\ UNCHANGED <<time, latch, newLow, masked, arg, part, begun, wanted, told, asks>>
      /\ tpc' \in {"alarm_high", "alarm_on", "idle"}
      /\ \/ tpc = "alarm_low" /\ low' = Rtc!Low(arg) /\ fired' = FALSE /\ tpc' = "alarm_high"
            /\ high' = high /\ enabled' = enabled
         \/ tpc = "alarm_high" /\ high' = Rtc!High(arg) /\ fired' = FALSE /\ tpc' = "alarm_on"
            /\ low' = low /\ enabled' = enabled
         \/ tpc = "alarm_on" /\ enabled' = TRUE /\ tpc' = "idle" /\ low' = low /\ high' = high /\ fired' = fired
  BY DEF Rtc!WriteAlarm
<1>2. Rtc!Low(arg) \in Nat /\ Rtc!High(arg) \in Nat /\ Rtc!Low(arg) + HalfWord * Rtc!High(arg) = arg
  BY Words DEF ClockInv, ClockTypes
<1>3. ClockTypes'
  BY <1>1, <1>2 DEF ClockInv, ClockTypes
<1>4. Reading'
  BY <1>1 DEF ClockInv, Reading, Getting, Rtc!TimeIsNow
<1>5. Armed'
  BY <1>1, <1>2 DEF ClockInv, Armed, Arming, Rtc!Alarm
<1> QED  BY <1>3, <1>4, <1>5 DEF ClockInv

\* The alarm is stopped, the clock runs, the alarm goes off.
LEMMA ClockStep ==
  ASSUME ClockInv, Rtc!Next
  PROVE  ClockInv'
<1>1. CASE Rtc!Tick
  <2>1. UNCHANGED <<latch, newLow, low, high, enabled, fired, masked, tpc, arg, part, begun, wanted, told, asks>>
        /\ time' = time + 1
    BY <1>1 DEF Rtc!Tick, Rtc!service
  <2>2. ClockTypes'
    BY <2>1 DEF ClockInv, ClockTypes
  <2>3. Reading'
    <3>1. PICK t : t = HalfWord * latch + part
      OBVIOUS
    <3>2. t \in Nat /\ time \in Nat /\ begun \in Nat
      BY <3>1, Product DEF ClockInv, ClockTypes
    <3> QED  BY <2>1, <3>1, <3>2 DEF ClockInv, Reading, Getting, Rtc!TimeIsNow
  <2>4. Armed'
    BY <2>1 DEF ClockInv, Armed, Arming, Rtc!Alarm
  <2> QED  BY <2>2, <2>3, <2>4 DEF ClockInv
<1>2. CASE Rtc!Fire
  BY <1>2 DEF Rtc!Fire, Rtc!service, ClockInv, ClockTypes, Reading, Armed, Getting, Arming, Rtc!TimeIsNow, Rtc!Alarm
<1>3. CASE Rtc!Interrupt
  BY <1>3 DEF Rtc!Interrupt, Rtc!service, ClockInv, ClockTypes, Reading, Armed, Getting, Arming, Rtc!TimeIsNow, Rtc!Alarm
<1>4. CASE Rtc!WriteStop
  <2>1. /\ UNCHANGED <<time, latch, newLow, low, high, masked, arg, part, begun, told, asks>>
        /\ \/ tpc = "stop" /\ enabled' = FALSE /\ tpc' = "clear" /\ fired' = fired /\ wanted' = wanted
           \/ tpc = "clear" /\ fired' = FALSE /\ wanted' = None /\ tpc' = "idle" /\ enabled' = enabled
    BY <1>4 DEF Rtc!WriteStop
  <2>2. ClockTypes'
    BY <2>1 DEF ClockInv, ClockTypes
  <2>3. Reading'
    BY <2>1 DEF ClockInv, Reading, Getting, Rtc!TimeIsNow
  <2>4. Armed'
    BY <2>1 DEF ClockInv, Armed, Arming, Rtc!Alarm
  <2> QED  BY <2>2, <2>3, <2>4 DEF ClockInv
<1> QED  BY <1>1, <1>2, <1>3, <1>4, BeginStep, ReadTimeStep, WriteTimeStep, WriteAlarmStep DEF Rtc!Next

\* What a step shows of the clock is true of it.
LEMMA ClockPromise ==
  ASSUME ClockInv, ClockInv', Rtc!Next
  PROVE  Rtc!ClockSteps
<1>1. Rtc!TimeIsNow' /\ Rtc!StoppedIsQuiet'
  BY DEF ClockInv, Reading, Armed, Rtc!StoppedIsQuiet
<1>2. ASSUME ~fired, fired', wanted # None, wanted.clean PROVE time >= wanted.at
  <2>1. Rtc!Fire
    BY <1>2 DEF Rtc!Next, Rtc!Tick, Rtc!Interrupt, Rtc!GetTime, Rtc!SetTime, Rtc!SetAlarm, Rtc!StopAlarm,
                Rtc!ReadTime, Rtc!WriteTime, Rtc!WriteAlarm, Rtc!WriteStop, Rtc!Begin, Rtc!device
  <2> QED  BY <1>2, <2>1 DEF Rtc!Fire, ClockInv, Armed
<1> QED  BY <1>1, <1>2 DEF Rtc!ClockSteps, Rtc!FiresInTime

(* A time that is answered was the device's during the call, an alarm that *)
(* was set while none was enabled goes off at its time or later, and none  *)
(* goes off after it was stopped, for registers of any width (get_time,    *)
(* set_time, set_alarm, stop_alarm in two accesses each).                  *)
THEOREM ClockTheorem == DriversSpec => ClockTrue
<1> DEFINE I == driver = "rtc" => ClockInv
<1>1. DriversInit => I
  BY ClockInit DEF DriversInit
<1>2. ASSUME I, UNCHANGED rtcVars, driver' = driver PROVE I'
  BY <1>2 DEF rtcVars, ClockInv, ClockTypes, Reading, Armed, Getting, Arming, Rtc!TimeIsNow, Rtc!Alarm
<1>3. ASSUME I, [DriversNext]_driversVars PROVE I'
  BY <1>2, <1>3, Chosen, ClockStep
<1>4. ASSUME I, I', [DriversNext]_driversVars PROVE [driver = "rtc" => Rtc!ClockSteps]_rtcVars
  BY <1>4, Chosen, ClockPromise
<1> QED  BY <1>1, <1>3, <1>4, PTL DEF DriversSpec, ClockTrue

-----------------------------------------------------------------------------
(* AcpiMap: what is mapped is exactly what the parser holds.               *)

P        == PGSIZE
Top      == va_allocator \div P        \* the first page that was never used
First(r) == r.virtual_start \div P
Frame(r) == r.physical_start \div P
Into(r)  == r.physical_start % P
Count(r) == r.mapped_length \div P
Span(r)  == First(r) .. First(r) + Count(r) - 1

\* A region fills whole pages, and lies in them as in its frames.
Shape(r) ==
  /\ {First(r), Frame(r), Count(r), r.region_length} \subseteq Nat /\ Into(r) \in 0 .. P - 1
  /\ r.virtual_start = (P * First(r)) + Into(r)
  /\ r.physical_start = (P * Frame(r)) + Into(r)
  /\ r.mapped_length = P * Count(r)
  /\ r.region_length + Into(r) <= P * Count(r)

Mapped(r) == \A p \in Span(r) : p \in DOMAIN vpages /\ vpages[p] = Frame(r) + (p - First(r))

MapInv ==
  /\ va_allocator \in Nat /\ va_allocator = P * Top /\ Top \in Nat
  /\ \A r \in live : Shape(r) /\ First(r) + Count(r) <= Top /\ Mapped(r)
  /\ \A r, s \in live : r # s => Span(r) \cap Span(s) = {}
  /\ kept \subseteq 0 .. Top - 1 /\ \A r \in live : Span(r) \cap kept = {}
  /\ DOMAIN vpages = kept \cup UNION {Span(r) : r \in live}

\* The size of a page.
LEMMA PageSize == P \in Nat \ {0}
BY DriversAssumption DEF P, AcpiMap!AcpiMapAssumption

\* Quotient and remainder are the ones that make up the number.
LEMMA DivIs ==
  ASSUME NEW q \in Int, NEW s \in 0 .. P - 1, NEW x \in Int, x = (P * q) + s
  PROVE  x \div P = q /\ x % P = s
<1>1. PICK d, m : d = x \div P /\ m = x % P
  OBVIOUS
<1>2. P \in Nat \ {0} /\ d \in Int /\ m \in 0 .. P - 1 /\ x = (P * d) + m
  BY <1>1, PageSize
<1>3. CASE d = q
  BY <1>1, <1>2, <1>3
<1>4. CASE d >= q + 1
  <2>1. P * d >= P * (q + 1)
    BY <1>2, <1>4
  <2>2. P * (q + 1) = (P * q) + P
    BY <1>2
  <2> QED  BY <1>2, <2>1, <2>2
<1>5. CASE q >= d + 1
  <2>1. P * q >= P * (d + 1)
    BY <1>2, <1>5
  <2>2. P * (d + 1) = (P * d) + P
    BY <1>2
  <2> QED  BY <1>2, <2>1, <2>2
<1> QED  BY <1>2, <1>3, <1>4, <1>5

\* And there always are such.
LEMMA DivMod ==
  ASSUME NEW x \in Nat
  PROVE  x \div P \in Nat /\ x % P \in 0 .. P - 1 /\ x = (P * (x \div P)) + (x % P)
BY PageSize

\* Multiples of a page are whole pages.
LEMMA Pages ==
  ASSUME NEW q \in Nat, NEW n \in Nat
  PROVE  AcpiMap!PagesAt(P * q, P * n) = q .. q + n - 1
<1>1. P \in Nat \ {0} /\ 0 \in 0 .. P - 1
  BY PageSize
<1>2. P * q \in Int /\ P * n \in Int /\ (P * q) + (P * n) = (P * (q + n)) + 0 /\ P * q = (P * q) + 0
  BY <1>1
<1>3. (P * q) \div P = q
  BY <1>1, <1>2, DivIs
<1>4. ((P * q) + (P * n)) \div P = q + n
  <2>1. PICK y : y = (P * q) + (P * n)
    OBVIOUS
  <2>2. y \in Int /\ y = (P * (q + n)) + 0 /\ q + n \in Int
    BY <1>1, <1>2, <2>1
  <2> QED  BY <1>1, <2>1, <2>2, DivIs
<1> QED  BY <1>3, <1>4 DEF AcpiMap!PagesAt, P

\* Unmapping a region takes its own pages.
LEMMA UnmappedIs ==
  ASSUME NEW r, Shape(r)
  PROVE  AcpiMap!Unmapped(r) = Span(r)
<1>1. AcpiMap!Down(r.virtual_start) = P * First(r)
  <2>1. PGSIZE = P /\ First(r) \in Nat /\ P \in Nat
    BY PageSize DEF P, Shape
  <2> QED  BY <2>1 DEF AcpiMap!Down, First
<1> QED  BY <1>1, Pages DEF Shape, Span, AcpiMap!Unmapped

\* A held region is readable where it is mapped.
LEMMA ReadableIs ==
  ASSUME NEW r, Shape(r), Mapped(r), NEW k \in 0 .. r.region_length - 1
  PROVE  /\ (r.virtual_start + k) \div P \in DOMAIN vpages
         /\ vpages[(r.virtual_start + k) \div P] = (r.physical_start + k) \div P
         /\ (r.virtual_start + k) % P = (r.physical_start + k) % P
<1>1. /\ P \in Nat \ {0} /\ First(r) \in Nat /\ Frame(r) \in Nat /\ Count(r) \in Nat /\ k \in Nat
      /\ Into(r) \in Nat /\ Into(r) + k < P * Count(r)
  BY PageSize DEF Shape
<1>2. PICK x, j, s : x \in Nat /\ x = Into(r) + k /\ j = x \div P /\ s = x % P
  BY <1>1
<1>3. j \in Nat /\ s \in 0 .. P - 1 /\ x = (P * j) + s
  BY <1>2, DivMod
<1>4. j < Count(r)
  <2>1. CASE j >= Count(r)
    <3>1. P * j >= P * Count(r)
      BY <1>1, <1>3, <2>1
    <3> QED  BY <1>1, <1>2, <1>3, <3>1
  <2> QED  BY <1>1, <1>3, <2>1
<1>5. PICK v \in Int, y \in Int : v = r.virtual_start + k /\ y = r.physical_start + k
  BY <1>1 DEF Shape
<1>6. v = (P * (First(r) + j)) + s /\ y = (P * (Frame(r) + j)) + s
  <2>1. /\ P * (First(r) + j) = (P * First(r)) + (P * j)
        /\ P * (Frame(r) + j) = (P * Frame(r)) + (P * j)
    BY <1>1, <1>3
  <2>2. /\ r.virtual_start = (P * First(r)) + Into(r)
        /\ r.physical_start = (P * Frame(r)) + Into(r)
    BY DEF Shape
  <2>3. PICK a \in Nat, b \in Nat, c \in Nat : a = P * First(r) /\ b = P * Frame(r) /\ c = P * j
    BY <1>1, <1>3
  <2>4. v = a + Into(r) + k /\ y = b + Into(r) + k
    BY <1>1, <1>5, <2>2, <2>3
  <2>5. Into(r) + k = c + s
    BY <1>2, <1>3, <2>3
  <2>6. v = (a + c) + s /\ y = (b + c) + s
    <3>1. PICK o \in Nat : o = Into(r)
      BY <1>1
    <3>2. s \in Nat /\ k \in Nat /\ o + k = c + s
      BY <1>1, <1>3, <2>5, <3>1
    <3>3. v = a + o + k /\ y = b + o + k
      BY <2>4, <3>1
    <3> QED  BY <3>2, <3>3
  <2> QED  BY <2>1, <2>3, <2>6
<1>7. v \div P = First(r) + j /\ v % P = s /\ y \div P = Frame(r) + j /\ y % P = s
  <2>1. First(r) + j \in Int /\ Frame(r) + j \in Int
    BY <1>1, <1>3
  <2> QED  BY <1>3, <1>6, <2>1, DivIs
<1>8. First(r) + j \in Span(r)
  BY <1>1, <1>3, <1>4 DEF Span
<1>9. vpages[First(r) + j] = Frame(r) + j /\ First(r) + j \in DOMAIN vpages
  <2>1. (First(r) + j) - First(r) = j
    BY <1>1, <1>3
  <2> QED  BY <1>8, <2>1 DEF Mapped
<1> QED  BY <1>5, <1>7, <1>9

\* The region that is made of an address and a size.
LEMMA RegionShape ==
  ASSUME NEW phys \in Nat, NEW size \in Nat \ {0}, NEW va \in Nat, NEW q \in Nat, va = P * q, NEW r,
         r.physical_start = phys, r.region_length = size,
         r.virtual_start = va + (phys - AcpiMap!Down(phys)),
         r.mapped_length = AcpiMap!Aligned(phys, size)
  PROVE  Shape(r) /\ First(r) = q /\ Frame(r) = phys \div P
<1>1. PICK f \in Nat, o \in 0 .. P - 1 : f = phys \div P /\ o = phys % P /\ phys = (P * f) + o
  BY DivMod
<1>2. P \in Nat \ {0} /\ P * f \in Nat /\ P * q \in Nat /\ PGSIZE = P
  BY PageSize DEF P
<1>3. AcpiMap!Down(phys) = P * f /\ phys - AcpiMap!Down(phys) = o
  BY <1>1, <1>2 DEF AcpiMap!Down
<1>4. PICK y \in Nat : y = size + o + P - 1
  BY <1>1, <1>2
<1>5. PICK n \in Nat, m \in 0 .. P - 1 : n = y \div P /\ y = (P * n) + m
  BY DivMod
<1>6. AcpiMap!Aligned(phys, size) = P * n
  <2>1. size + (phys - AcpiMap!Down(phys)) + PGSIZE - 1 = y
    BY <1>2, <1>3, <1>4
  <2> QED  BY <1>2, <1>5, <2>1 DEF AcpiMap!Aligned, AcpiMap!Down
<1>7. size + o <= P * n
  BY <1>1, <1>2, <1>4, <1>5
<1>8. r.virtual_start = (P * q) + o /\ First(r) = q
  <2>1. r.virtual_start = (P * q) + o /\ r.virtual_start \in Int
    BY <1>2, <1>3
  <2> QED  BY <2>1, DivIs DEF First
<1>9. Count(r) = n
  <2>1. r.mapped_length = (P * n) + 0 /\ r.mapped_length \in Int /\ 0 \in 0 .. P - 1
    BY <1>2, <1>5, <1>6
  <2> QED  BY <1>5, <2>1, DivIs DEF Count
<1>10. Frame(r) = f /\ Into(r) = o
  BY <1>1 DEF Frame, Into
<1> QED  BY <1>1, <1>6, <1>7, <1>8, <1>9, <1>10 DEF Shape

\* At the beginning nothing is mapped.
LEMMA MapInit == AcpiMap!Init => MapInv
<1> SUFFICES ASSUME AcpiMap!Init PROVE MapInv
  OBVIOUS
<1>1. va_allocator = 0 /\ DOMAIN vpages = {} /\ live = {} /\ kept = {}
  BY DEF AcpiMap!Init
<1>2. P \in Nat \ {0} /\ Top = 0
  <2>1. 0 \in Int /\ 0 \in 0 .. P - 1 /\ 0 = (P * 0) + 0
    BY PageSize
  <2> QED  BY <1>1, <2>1, DivIs, PageSize DEF Top
<1> QED  BY <1>1, <1>2 DEF MapInv

\* The parser holds one region more.
LEMMA MapStep ==
  ASSUME MapInv, NEW phys \in Nat, NEW size \in Regions, AcpiMap!Map(phys, size)
  PROVE  MapInv'
<1>1. PICK r : r = [physical_start |-> phys, virtual_start |-> AcpiMap!Virtual(phys),
                    region_length |-> size, mapped_length |-> AcpiMap!Aligned(phys, size)]
  OBVIOUS
<1>2. /\ va_allocator' = va_allocator + AcpiMap!Aligned(phys, size) /\ kept' = kept
      /\ \/ UNCHANGED <<vpages, live>>
         \/ /\ vpages' = [p \in DOMAIN vpages \cup AcpiMap!PagesAt(va_allocator, AcpiMap!Aligned(phys, size)) |->
                            IF p \in AcpiMap!PagesAt(va_allocator, AcpiMap!Aligned(phys, size))
                            THEN phys \div PGSIZE + (p - va_allocator \div PGSIZE)
                            ELSE vpages[p]]
            /\ live' = live \cup {r}
  BY <1>1 DEF AcpiMap!Map
<1>3. /\ va_allocator \in Nat /\ va_allocator = P * Top /\ Top \in Nat /\ P \in Nat \ {0}
      /\ size \in Nat \ {0} /\ PGSIZE = P
  BY PageSize, DriversAssumption DEF MapInv, P, AcpiMap!AcpiMapAssumption
<1>4. Shape(r) /\ First(r) = Top /\ Frame(r) = phys \div P /\ r.mapped_length = AcpiMap!Aligned(phys, size)
  <2>1. /\ r.physical_start = phys /\ r.region_length = size
        /\ r.virtual_start = va_allocator + (phys - AcpiMap!Down(phys))
        /\ r.mapped_length = AcpiMap!Aligned(phys, size)
    BY <1>1 DEF AcpiMap!Virtual
  <2> QED  BY <1>3, <2>1, RegionShape
<1>5. PICK n \in Nat : n = Count(r) /\ AcpiMap!Aligned(phys, size) = P * n
  BY <1>4 DEF Shape
<1>6. AcpiMap!PagesAt(va_allocator, AcpiMap!Aligned(phys, size)) = Top .. Top + n - 1 /\ Span(r) = Top .. Top + n - 1
  BY <1>3, <1>4, <1>5, Pages DEF Span
<1>7. va_allocator' \in Nat /\ va_allocator' = P * (Top + n) /\ Top' = Top + n
  <2>1. P * (Top + n) = (P * Top) + (P * n) /\ P * n \in Nat
    BY <1>3
  <2>2. va_allocator' = P * (Top + n) /\ va_allocator' \in Nat
    BY <1>2, <1>3, <1>5, <2>1
  <2>3. va_allocator' = (P * (Top + n)) + 0 /\ 0 \in 0 .. P - 1 /\ Top + n \in Int /\ va_allocator' \in Int
    BY <1>3, <2>2
  <2> QED  BY <2>2, <2>3, DivIs DEF Top, P
<1>8. CASE UNCHANGED <<vpages, live>>
  <2>1. \A x \in live : Shape(x) /\ First(x) + Count(x) <= Top' /\ Mapped(x)'
    BY <1>3, <1>7, <1>8 DEF MapInv, Mapped, Shape
  <2>2. kept' \subseteq 0 .. Top' - 1
    BY <1>2, <1>3, <1>7 DEF MapInv
  <2>3. va_allocator' = P * Top' /\ Top' \in Nat
    BY <1>3, <1>7
  <2>4. \A x : (Shape(x)' <=> Shape(x)) /\ Span(x)' = Span(x) /\ First(x)' = First(x) /\ Count(x)' = Count(x)
    BY DEF Shape, Span, First, Count, Frame, Into
  <2> QED  BY <1>2, <1>7, <1>8, <2>1, <2>2, <2>3, <2>4 DEF MapInv
<1>9. CASE ~UNCHANGED <<vpages, live>>
  <2>1. /\ DOMAIN vpages' = DOMAIN vpages \cup Span(r) /\ live' = live \cup {r}
        /\ \A p \in Span(r) : vpages'[p] = Frame(r) + (p - First(r))
        /\ \A p \in DOMAIN vpages \ Span(r) : vpages'[p] = vpages[p]
    <3>1. /\ vpages' = [p \in DOMAIN vpages \cup Span(r) |->
                          IF p \in Span(r) THEN Frame(r) + (p - First(r)) ELSE vpages[p]]
          /\ live' = live \cup {r}
      BY <1>2, <1>3, <1>4, <1>6, <1>9 DEF Top
    <3> QED  BY <3>1
  <2>2. \A x \in live : Span(x) \cap Span(r) = {} /\ First(x) + Count(x) <= Top'
    <3> TAKE x \in live
    <3>1. First(x) \in Nat /\ Count(x) \in Nat /\ First(x) + Count(x) <= Top
      BY DEF MapInv, Shape
    <3>2. PICK f \in Nat, c \in Nat : f = First(x) /\ c = Count(x)
      BY <3>1
    <3>3. Span(x) = f .. f + c - 1 /\ f + c <= Top
      BY <3>1, <3>2 DEF Span
    <3>4. Span(x) \cap Span(r) = {}
      BY <1>3, <1>6, <3>3
    <3>5. f + c <= Top'
      BY <1>3, <1>7, <3>3
    <3> QED  BY <3>2, <3>4, <3>5
  <2>3. kept \cap Span(r) = {} /\ kept' \subseteq 0 .. Top' - 1
    <3>1. kept' = kept /\ kept \subseteq 0 .. Top - 1
      BY <1>2 DEF MapInv
    <3>2. kept \cap Span(r) = {}
      BY <1>3, <1>6, <3>1
    <3>3. kept \subseteq 0 .. Top' - 1
      BY <1>3, <1>7, <3>1
    <3> QED  BY <3>1, <3>2, <3>3
  <2>4. \A x \in live : Mapped(x)'
    <3>1. ASSUME NEW x \in live, NEW p \in Span(x) PROVE p \in DOMAIN vpages' /\ vpages'[p] = Frame(x) + (p - First(x))
      BY <2>1, <2>2, <3>1 DEF MapInv, Mapped
    <3> QED  BY <3>1 DEF Mapped, Span, Frame, First, Count
  <2>5. Mapped(r)' /\ First(r) + Count(r) <= Top'
    <3>1. ASSUME NEW p \in Span(r) PROVE p \in DOMAIN vpages' /\ vpages'[p] = Frame(r) + (p - First(r))
      BY <2>1, <3>1
    <3>2. Mapped(r)'
      BY <3>1 DEF Mapped, Span, Frame, First, Count
    <3> QED  BY <1>3, <1>4, <1>5, <1>7, <3>2
  <2>6. \A x : (Shape(x)' <=> Shape(x)) /\ Span(x)' = Span(x) /\ First(x)' = First(x) /\ Count(x)' = Count(x)
    BY DEF Shape, Span, First, Count, Frame, Into
  <2>7. /\ \A x \in live' : Shape(x) /\ First(x) + Count(x) <= Top' /\ Mapped(x)'
        /\ \A x, y \in live' : x # y => Span(x) \cap Span(y) = {}
        /\ \A x \in live' : Span(x) \cap kept' = {}
    BY <1>2, <1>4, <2>1, <2>2, <2>3, <2>4, <2>5 DEF MapInv
  <2>8. DOMAIN vpages' = kept' \cup UNION {Span(x) : x \in live'}
    BY <1>2, <2>1 DEF MapInv
  <2> QED  BY <1>3, <1>7, <2>3, <2>6, <2>7, <2>8 DEF MapInv
<1> QED  BY <1>8, <1>9

\* The parser drops a region.
LEMMA UnmapStep ==
  ASSUME MapInv, NEW r \in live, AcpiMap!Unmap(r)
  PROVE  MapInv'
<1>1. Shape(r) /\ AcpiMap!Unmapped(r) = Span(r)
  BY UnmappedIs DEF MapInv
<1>2. /\ live' = live \ {r} /\ UNCHANGED va_allocator
      /\ \/ vpages' = [p \in DOMAIN vpages \ Span(r) |-> vpages[p]] /\ kept' = kept
         \/ kept' = kept \cup Span(r) /\ vpages' = vpages
  BY <1>1 DEF AcpiMap!Unmap
<1>3. Top' = Top /\ \A x : (Shape(x)' <=> Shape(x)) /\ Span(x)' = Span(x) /\ First(x)' = First(x) /\ Count(x)' = Count(x)
  BY <1>2 DEF Top, Shape, Span, First, Count, Frame, Into
<1>4. \A x \in live' : x \in live /\ Span(x) \cap Span(r) = {}
  BY <1>2 DEF MapInv
<1>5. \A x \in live' : Mapped(x)'
  <2>1. ASSUME NEW x \in live', NEW p \in Span(x)
        PROVE  p \in DOMAIN vpages' /\ vpages'[p] = Frame(x) + (p - First(x))
    BY <1>2, <1>4, <2>1 DEF MapInv, Mapped
  <2> QED  BY <2>1 DEF Mapped, Span, Frame, First, Count
<1>6. kept' \subseteq 0 .. Top - 1 /\ \A x \in live' : Span(x) \cap kept' = {}
  <2>1. Span(r) \subseteq 0 .. Top - 1
    <3>1. First(r) \in Nat /\ Count(r) \in Nat /\ First(r) + Count(r) <= Top /\ Top \in Nat
      BY DEF MapInv, Shape
    <3> QED  BY <3>1 DEF Span
  <2> QED  BY <1>2, <1>4, <2>1 DEF MapInv
<1>7. DOMAIN vpages' = kept' \cup UNION {Span(x) : x \in live'}
  <2>1. UNION {Span(x) : x \in live} = Span(r) \cup UNION {Span(x) : x \in live'}
    BY <1>2
  <2>2. Span(r) \cap kept = {} /\ Span(r) \cap UNION {Span(x) : x \in live'} = {}
    BY <1>4 DEF MapInv
  <2> QED  BY <1>2, <2>1, <2>2 DEF MapInv
<1> QED  BY <1>2, <1>3, <1>4, <1>5, <1>6, <1>7 DEF MapInv

\* The invariant says what is promised.
LEMMA MapPromise ==
  ASSUME MapInv
  PROVE  AcpiMap!MappingExact
<1>1. AcpiMap!RegionsReadable
  <2>1. ASSUME NEW r \in live, NEW k \in 0 .. r.region_length - 1
        PROVE  /\ (r.virtual_start + k) \div P \in DOMAIN vpages
               /\ vpages[(r.virtual_start + k) \div P] = (r.physical_start + k) \div P
               /\ (r.virtual_start + k) % P = (r.physical_start + k) % P
    BY ReadableIs DEF MapInv
  <2> QED  BY <2>1 DEF AcpiMap!RegionsReadable, P
<1>2. AcpiMap!NothingLeft
  <2>1. \A r \in live : AcpiMap!PagesAt(AcpiMap!Down(r.virtual_start), r.mapped_length) = Span(r)
    BY UnmappedIs DEF MapInv, AcpiMap!Unmapped
  <2> QED  BY <2>1 DEF AcpiMap!NothingLeft, MapInv
<1> QED  BY <1>1, <1>2 DEF AcpiMap!MappingExact

(* Every byte of a region the parser holds is where the parser looks for   *)
(* it, and no page is mapped that no region needs, for pages, memories and *)
(* regions of any size (map_physical_region, unmap_physical_region).       *)
THEOREM MappingTheorem == DriversSpec => []MappingExact
<1> DEFINE I == driver = "acpi_map" => MapInv
<1>1. DriversInit => I
  BY MapInit DEF DriversInit
<1>2. ASSUME I, UNCHANGED mapVars, driver' = driver PROVE I'
  BY <1>2 DEF mapVars, MapInv, Top, Shape, Mapped, Span, First, Count, Frame, Into
<1>3. ASSUME MapInv, AcpiMap!Next PROVE MapInv'
  <2>1. 0 .. Memory - 1 \subseteq Nat
    BY DriversAssumption DEF AcpiMap!AcpiMapAssumption
  <2> QED  BY <1>3, <2>1, MapStep, UnmapStep DEF AcpiMap!Next
<1>4. ASSUME I, [DriversNext]_driversVars PROVE I'
  BY <1>2, <1>3, <1>4, Chosen
<1>5. I => MappingExact
  BY MapPromise DEF MappingExact
<1> QED  BY <1>1, <1>4, <1>5, PTL DEF DriversSpec

-----------------------------------------------------------------------------
(* VirtioInit: a device is used only as its driver knows it.               *)

\* The access after one that occurs once.
LEMMA AfterIs ==
  ASSUME NEW i \in 1 .. Len(Virtio!Accesses), NEW a, Virtio!Accesses[i] = a,
         \A j \in 1 .. Len(Virtio!Accesses) : Virtio!Accesses[j] = a => j = i
  PROVE  Virtio!After(a) = IF i = Len(Virtio!Accesses) THEN "live" ELSE Virtio!Accesses[i + 1]
<1>1. PICK k : k = CHOOSE j \in 1 .. Len(Virtio!Accesses) : Virtio!Accesses[j] = a
  OBVIOUS
<1>2. k \in 1 .. Len(Virtio!Accesses) /\ Virtio!Accesses[k] = a
  BY <1>1
<1>3. k = i
  BY <1>2
<1> QED  BY <1>1, <1>3 DEF Virtio!After

\* The accesses of the block driver.
LEMMA BlockAfter ==
  ASSUME vkind = "block"
  PROVE  /\ Virtio!After("new") = "reset" /\ Virtio!After("reset") = "ack"
         /\ Virtio!After("ack") = "read" /\ Virtio!After("read") = "read_high"
         /\ Virtio!After("read_high") = "write" /\ Virtio!After("write") = "write_high"
         /\ Virtio!After("write_high") = "features_ok" /\ Virtio!After("features_ok") = "queue0"
         /\ Virtio!After("queue0") = "driver_ok" /\ Virtio!After("driver_ok") = "live"
<1>1. PICK s : s = Virtio!Accesses
  OBVIOUS
<1>2. /\ s = <<"new", "reset", "ack", "read", "read_high", "write", "write_high",
               "features_ok", "queue0", "driver_ok">>
  BY <1>1 DEF Virtio!Accesses, Virtio!BlockInit
<1>3. /\ Len(s) = 10 /\ s[1] = "new" /\ s[2] = "reset" /\ s[3] = "ack" /\ s[4] = "read" /\ s[5] = "read_high"
      /\ s[6] = "write" /\ s[7] = "write_high" /\ s[8] = "features_ok" /\ s[9] = "queue0" /\ s[10] = "driver_ok"
  BY <1>2
<1>4. \A i, j \in 1 .. 10 : s[i] = s[j] => i = j
  BY <1>3
<1>5. \A i \in 1 .. 10 : Virtio!After(s[i]) = IF i = 10 THEN "live" ELSE s[i + 1]
  BY <1>1, <1>3, <1>4, AfterIs
<1> QED  BY <1>3, <1>5

\* Those of the network driver.
LEMMA NetAfter ==
  ASSUME vkind = "net"
  PROVE  /\ Virtio!After("new") = "reset" /\ Virtio!After("reset") = "ack"
         /\ Virtio!After("ack") = "read" /\ Virtio!After("read") = "read_high"
         /\ Virtio!After("read_high") = "write" /\ Virtio!After("write") = "write_high"
         /\ Virtio!After("write_high") = "features_ok" /\ Virtio!After("features_ok") = "check"
         /\ Virtio!After("check") = "queue0" /\ Virtio!After("queue0") = "queue1"
         /\ Virtio!After("queue1") = "driver_ok" /\ Virtio!After("driver_ok") = "live"
<1>1. PICK s : s = Virtio!Accesses
  OBVIOUS
<1>2. s = <<"new", "reset", "ack", "read", "read_high", "write", "write_high",
            "features_ok", "check", "queue0", "queue1", "driver_ok">>
  BY <1>1 DEF Virtio!Accesses, Virtio!NetInit
<1>3. /\ Len(s) = 12 /\ s[1] = "new" /\ s[2] = "reset" /\ s[3] = "ack" /\ s[4] = "read" /\ s[5] = "read_high"
      /\ s[6] = "write" /\ s[7] = "write_high" /\ s[8] = "features_ok" /\ s[9] = "check" /\ s[10] = "queue0"
      /\ s[11] = "queue1" /\ s[12] = "driver_ok"
  BY <1>2
<1>4. \A i, j \in 1 .. 12 : s[i] = s[j] => i = j
  BY <1>3
<1>5. \A i \in 1 .. 12 : Virtio!After(s[i]) = IF i = 12 THEN "live" ELSE s[i + 1]
  BY <1>1, <1>3, <1>4, AfterIs
<1> QED  BY <1>3, <1>5

\* Those of the GPU driver.
LEMMA GpuAfter ==
  ASSUME vkind = "gpu"
  PROVE  /\ Virtio!After("new") = "reset" /\ Virtio!After("reset") = "ack"
         /\ Virtio!After("ack") = "driver" /\ Virtio!After("driver") = "read"
         /\ Virtio!After("read") = "read_high" /\ Virtio!After("read_high") = "write"
         /\ Virtio!After("write") = "write_high" /\ Virtio!After("write_high") = "features_ok"
         /\ Virtio!After("features_ok") = "check" /\ Virtio!After("check") = "queue0"
         /\ Virtio!After("queue0") = "queue1" /\ Virtio!After("queue1") = "driver_ok"
         /\ Virtio!After("driver_ok") = "live"
<1>1. PICK s : s = Virtio!Accesses
  OBVIOUS
<1>2. s = <<"new", "reset", "ack", "driver", "read", "read_high", "write", "write_high",
            "features_ok", "check", "queue0", "queue1", "driver_ok">>
  BY <1>1 DEF Virtio!Accesses, Virtio!GpuInit
<1>3. /\ Len(s) = 13 /\ s[1] = "new" /\ s[2] = "reset" /\ s[3] = "ack" /\ s[4] = "driver" /\ s[5] = "read"
      /\ s[6] = "read_high" /\ s[7] = "write" /\ s[8] = "write_high" /\ s[9] = "features_ok"
      /\ s[10] = "check" /\ s[11] = "queue0" /\ s[12] = "queue1" /\ s[13] = "driver_ok"
  BY <1>2
<1>4. \A i, j \in 1 .. 13 : s[i] = s[j] => i = j
  BY <1>3
<1>5. \A i \in 1 .. 13 : Virtio!After(s[i]) = IF i = 13 THEN "live" ELSE s[i + 1]
  BY <1>1, <1>3, <1>4, AfterIs
<1> QED  BY <1>3, <1>5

\* What comes after what.
LEMMA Order ==
  ASSUME vkind \in {"block", "net", "gpu"}
  PROVE  /\ Virtio!After("new") = "reset" /\ Virtio!After("reset") = "ack"
         /\ Virtio!After("ack") = IF vkind = "gpu" THEN "driver" ELSE "read"
         /\ vkind = "gpu" => Virtio!After("driver") = "read"
         /\ Virtio!After("read") = "read_high" /\ Virtio!After("read_high") = "write"
         /\ Virtio!After("write") = "write_high" /\ Virtio!After("write_high") = "features_ok"
         /\ Virtio!After("features_ok") = IF vkind = "block" THEN "queue0" ELSE "check"
         /\ vkind # "block" => Virtio!After("check") = "queue0" /\ Virtio!After("queue1") = "driver_ok"
         /\ Virtio!After("queue0") = IF vkind = "block" THEN "driver_ok" ELSE "queue1"
         /\ Virtio!After("driver_ok") = "live"
BY BlockAfter, NetAfter, GpuAfter

-----------------------------------------------------------------------------
(* How far the driver is.                                                  *)

Unset    == {"probe", "none", "new", "error", "reset"}
Queueing == {"queue0", "queue1", "driver_ok"}
Agreed   == {"features_ok", "check"} \cup Queueing \cup {"live"}
Setup    == {"ack", "driver", "read", "read_high", "write", "write_high"} \cup Agreed

QueueIs(q) ==
  [desc |-> Virtio!QueueAt(q), avail |-> Virtio!QueueAt(q) + Virtio!AvailRing,
   used |-> Virtio!QueueAt(q) + Virtio!UsedRing, ready |-> TRUE]

DeviceInv ==
  /\ vkind \in {"block", "net", "gpu"} /\ vpc \in Unset \cup Setup
  /\ vpc = "driver" => vkind = "gpu"
  /\ vpc \in {"check", "queue1"} => vkind # "block"
  /\ DOMAIN queues = Virtio!Index /\ queues = [q \in Virtio!Index |-> queues[q]]
  /\ vpc \notin {"probe", "none"} => Virtio!identify_device(dev.id) = vkind

\* Features are taken from what was read, by what the driver wants.
FeatureInv ==
  /\ seen \subseteq dev.offered
  /\ vpc \in Setup => /\ accepted \subseteq dev.offered
                      /\ vkind \in {"block", "gpu"} => accepted \cap {"EVENT_IDX", "RING_PACKED"} = {}
  /\ vpc \in {"read_high", "write", "write_high"} /\ "EVENT_IDX" \in dev.offered => "EVENT_IDX" \in seen
  /\ vpc \in {"write", "write_high"} => dev.offered \cap {"VERSION_1", "RING_PACKED"} \subseteq seen
  /\ vpc \in Agreed /\ vkind = "block" /\ "VERSION_1" \in dev.offered => "VERSION_1" \in accepted
  /\ vkind = "net" =>
       /\ vpc \in {"write_high"} \cup Agreed /\ "EVENT_IDX" \in dev.offered => "EVENT_IDX" \in accepted
       /\ vpc \in Agreed /\ "RING_PACKED" \in dev.offered => "RING_PACKED" \in accepted

\* The device is told to go last, when all is in place.
StageInv ==
  /\ vpc \in Setup \ {"live"} => "DRIVER_OK" \notin status
  /\ vkind # "block" /\ vpc \in Queueing \cup {"live"} => "FEATURES_OK" \in status
  /\ vpc \in {"queue1", "driver_ok", "live"} => queues[0] = QueueIs(0)
  /\ vkind # "block" /\ vpc \in {"driver_ok", "live"} => queues[1] = QueueIs(1)

VirtioInv == DeviceInv /\ FeatureInv /\ StageInv

\* At the beginning no driver knows the device.
LEMMA DeviceInit == Virtio!Init => VirtioInv
<1> SUFFICES ASSUME Virtio!Init PROVE VirtioInv
  OBVIOUS
<1>1. vkind \in {"block", "net", "gpu"} /\ vpc = "probe" /\ seen = {}
  BY DEF Virtio!Init
<1>2. DOMAIN queues = Virtio!Index /\ queues = [q \in Virtio!Index |-> queues[q]]
  BY DEF Virtio!Init
<1> QED  BY <1>1, <1>2 DEF VirtioInv, DeviceInv, FeatureInv, StageInv, Unset, Setup, Agreed, Queueing

\* Where the queues belong stays the same.
LEMMA QueueStays ==
  ASSUME vkind' = vkind
  PROVE  QueueIs(0)' = QueueIs(0) /\ QueueIs(1)' = QueueIs(1)
BY DEF QueueIs, Virtio!QueueAt, Virtio!AvailRing, Virtio!UsedRing, Virtio!Num

\* The driver is found and checks the magic.
LEMMA ProbeStep ==
  ASSUME VirtioInv, Virtio!Probe \/ Virtio!New
  PROVE  VirtioInv'
<1>1. UNCHANGED <<vkind, dev, sel, status, accepted, queues, seen>>
  BY DEF Virtio!Probe, Virtio!New
<1>2. \/ vpc' \in {"none", "error", "reset"} /\ (vpc' # "none" => vpc = "new")
      \/ vpc' = "new" /\ Virtio!identify_device(dev.id) = vkind
  BY Order DEF Virtio!Probe, Virtio!New, VirtioInv, DeviceInv
<1> QED  BY <1>1, <1>2 DEF VirtioInv, DeviceInv, FeatureInv, StageInv, Unset, Setup, Agreed, Queueing

\* The device is reset, and its driver announced.
LEMMA ResetStep ==
  ASSUME VirtioInv, Virtio!Reset \/ Virtio!Ack \/ Virtio!Driver
  PROVE  VirtioInv'
<1>1. CASE Virtio!Reset
  <2>1. /\ UNCHANGED <<vkind, dev, sel, seen>> /\ vpc = "reset" /\ vpc' = "ack"
        /\ status' = {} /\ accepted' = {} /\ queues' = [q \in Virtio!Index |-> Virtio!Off]
    BY <1>1, Order DEF Virtio!Reset, Virtio!At, VirtioInv, DeviceInv
  <2>2. DOMAIN queues' = Virtio!Index /\ queues' = [q \in Virtio!Index |-> queues'[q]]
    BY <2>1
  <2>3. Virtio!Index' = Virtio!Index
    BY DEF Virtio!Index
  <2> QED  BY <2>1, <2>2 DEF VirtioInv, DeviceInv, FeatureInv, StageInv, Unset, Setup, Agreed, Queueing
<1>2. CASE Virtio!Ack \/ Virtio!Driver
  <2>1. /\ UNCHANGED <<vkind, dev, sel, accepted, queues, seen>>
        /\ vpc \in {"ack", "driver"} /\ vpc' \in {"driver", "read"} /\ (vpc' = "driver" => vkind = "gpu")
        /\ status' \subseteq status \cup {"ACKNOWLEDGE", "DRIVER"}
    BY <1>2, Order DEF Virtio!Ack, Virtio!Driver, Virtio!At, VirtioInv, DeviceInv
  <2> QED  BY <2>1 DEF VirtioInv, DeviceInv, FeatureInv, StageInv, Unset, Setup, Agreed, Queueing
<1> QED  BY <1>1, <1>2

\* A word of the features is read.
LEMMA ReadStep ==
  ASSUME VirtioInv, NEW hi \in BOOLEAN, Virtio!ReadFeatures(hi)
  PROVE  VirtioInv'
<1>1. /\ UNCHANGED <<vkind, dev, status, accepted, queues>>
      /\ \/ ~hi /\ vpc = "read" /\ vpc' = "read_high"
         \/ hi /\ vpc = "read_high" /\ vpc' = "write"
      /\ seen' = seen \cup (dev.offered \cap Virtio!Word(hi))
  BY Order DEF Virtio!ReadFeatures, Virtio!At, VirtioInv, DeviceInv
<1>2. /\ vpc' \in {"read_high", "write"} /\ "EVENT_IDX" \in dev.offered => "EVENT_IDX" \in seen'
      /\ vpc' = "write" => dev.offered \cap {"VERSION_1", "RING_PACKED"} \subseteq seen'
  BY <1>1 DEF Virtio!Word, Virtio!LowWord, Virtio!HighWord, VirtioInv, FeatureInv
<1> QED  BY <1>1, <1>2 DEF VirtioInv, DeviceInv, FeatureInv, StageInv, Unset, Setup, Agreed, Queueing

\* A word of the features is written.
LEMMA WriteFeaturesStep ==
  ASSUME VirtioInv, NEW hi \in BOOLEAN, Virtio!WriteFeatures(hi)
  PROVE  VirtioInv'
<1>1. /\ UNCHANGED <<vkind, dev, status, queues, seen>>
      /\ \/ ~hi /\ vpc = "write" /\ vpc' = "write_high"
         \/ hi /\ vpc = "write_high" /\ vpc' = "features_ok"
      /\ accepted' = (accepted \ Virtio!Word(hi)) \cup (Virtio!Wanted \cap Virtio!Word(hi))
  BY Order DEF Virtio!WriteFeatures, Virtio!At, VirtioInv, DeviceInv
<1>2. /\ Virtio!Wanted \subseteq seen
      /\ vkind \in {"block", "gpu"} => Virtio!Wanted \cap {"EVENT_IDX", "RING_PACKED"} = {}
      /\ vkind = "block" /\ "VERSION_1" \in seen => "VERSION_1" \in Virtio!Wanted
      /\ vkind = "net" => seen \cap {"EVENT_IDX", "RING_PACKED"} \subseteq Virtio!Wanted
  BY DEF Virtio!Wanted, Virtio!BlockWants, Virtio!NetWants, Virtio!GpuWants, VirtioInv, DeviceInv
<1>3. /\ hi => /\ {"VERSION_1", "RING_PACKED"} \subseteq Virtio!Word(hi)
               /\ "EVENT_IDX" \notin Virtio!Word(hi)
      /\ ~hi => "EVENT_IDX" \in Virtio!Word(hi)
  BY DEF Virtio!Word, Virtio!LowWord, Virtio!HighWord
<1>4. FeatureInv'
  BY <1>1, <1>2, <1>3 DEF VirtioInv, FeatureInv, Setup, Agreed, Queueing
<1> QED  BY <1>1, <1>4 DEF VirtioInv, DeviceInv, StageInv, Unset, Setup, Agreed, Queueing

\* The device agrees to the features, or not.
LEMMA AgreeStep ==
  ASSUME VirtioInv, Virtio!FeaturesOk \/ Virtio!Check
  PROVE  VirtioInv'
<1>1. /\ UNCHANGED <<vkind, dev, sel, accepted, queues, seen>>
      /\ status' \subseteq status \cup {"FEATURES_OK"}
      /\ \/ vpc = "features_ok" /\ vpc' = IF vkind = "block" THEN "queue0" ELSE "check"
         \/ vpc = "check" /\ vpc' \in {"queue0", "error"} /\ (vpc' = "queue0" => "FEATURES_OK" \in status')
  BY Order DEF Virtio!FeaturesOk, Virtio!Check, Virtio!At, VirtioInv, DeviceInv
<1> QED  BY <1>1 DEF VirtioInv, DeviceInv, FeatureInv, StageInv, Unset, Setup, Agreed, Queueing

\* A queue is put in its place.
LEMMA QueueStep ==
  ASSUME VirtioInv, NEW q \in Virtio!Queues, Virtio!SetupQueue(q)
  PROVE  VirtioInv'
<1>1. q \in {0, 1} /\ (q = 1 => vkind # "block") /\ Virtio!Index = {0, 1}
  BY DEF Virtio!Queues, Virtio!Index
<1>2. /\ UNCHANGED <<vkind, dev, sel, status, accepted, seen>>
      /\ \/ q = 0 /\ vpc = "queue0" /\ vpc' = IF vkind = "block" THEN "driver_ok" ELSE "queue1"
         \/ q = 1 /\ vpc = "queue1" /\ vpc' = "driver_ok"
      /\ queues' = [queues EXCEPT ![q] = QueueIs(q)]
  <2>1. QueueIs(q) = [desc |-> Virtio!QueueAt(q), avail |-> Virtio!QueueAt(q) + Virtio!AvailAt,
                      used |-> Virtio!QueueAt(q) + Virtio!UsedAt, ready |-> TRUE]
    BY DEF QueueIs, Virtio!AvailRing, Virtio!AvailAt, Virtio!UsedRing, Virtio!UsedAt, Virtio!Aligned
  <2> QED  BY <1>1, <2>1, Order DEF Virtio!SetupQueue, Virtio!At, VirtioInv, DeviceInv
<1>3. /\ DOMAIN queues' = Virtio!Index /\ queues' = [p \in Virtio!Index |-> queues'[p]]
      /\ queues'[q] = QueueIs(q) /\ \A p \in {0, 1} : p # q => queues'[p] = queues[p]
  BY <1>1, <1>2 DEF VirtioInv, DeviceInv
<1>4. StageInv'
  BY <1>1, <1>2, <1>3, QueueStays DEF VirtioInv, StageInv, Setup, Agreed, Queueing
<1> QED  BY <1>1, <1>2, <1>3, <1>4 DEF VirtioInv, DeviceInv, FeatureInv, Unset, Setup, Agreed, Queueing

\* The device is told to go.
LEMMA GoStep ==
  ASSUME VirtioInv, Virtio!DriverOk
  PROVE  VirtioInv'
<1>1. /\ UNCHANGED <<vkind, dev, sel, accepted, queues, seen>> /\ vpc = "driver_ok" /\ vpc' = "live"
      /\ status' = status \cup {"DRIVER_OK"}
  BY Order DEF Virtio!DriverOk, Virtio!At, VirtioInv, DeviceInv
<1> QED  BY <1>1, QueueStays DEF VirtioInv, DeviceInv, FeatureInv, StageInv, Unset, Setup, Agreed, Queueing

-----------------------------------------------------------------------------
(* The memory shared with the device.                                      *)

\* A part of the memory, by where it begins and ends.
Extent(name, from, to) == [name |-> name, from |-> from, to |-> to]

\* The parts of the block driver's memory.
LEMMA BlockMemory ==
  ASSUME vkind = "block"
  PROVE  /\ Virtio!AvailRing = 2048 /\ Virtio!UsedRing = 2312 /\ Virtio!QueueAt(0) = 8192
         /\ Virtio!Areas = {Extent(<<"headers", 0>>, 0, 1024), Extent(<<"status", 0>>, 1024, 1088),
                            Extent(<<"desc", 0>>, 8192, 10240), Extent(<<"avail", 0>>, 10240, 10502),
                            Extent(<<"used", 0>>, 10504, 11534)}
<1>1. /\ Virtio!AvailRing = 2048 /\ Virtio!UsedRing = 2312 /\ Virtio!QueueAt(0) = 8192 /\ Virtio!Num = 128
  BY DEF Virtio!AvailRing, Virtio!UsedRing, Virtio!QueueAt, Virtio!Num, Virtio!PageSize
<1>2. Virtio!Areas = Virtio!BlockAreas \cup Virtio!Parts(0)
  BY DEF Virtio!Areas, Virtio!Beside, Virtio!Queues
<1>3. Virtio!BlockAreas = {Extent(<<"headers", 0>>, 0, 1024), Extent(<<"status", 0>>, 1024, 1088)}
  BY DEF Virtio!BlockAreas, Virtio!Area, Extent
<1>4. Virtio!Parts(0) = {Extent(<<"desc", 0>>, 8192, 10240), Extent(<<"avail", 0>>, 10240, 10502),
                         Extent(<<"used", 0>>, 10504, 11534)}
  BY <1>1 DEF Virtio!Parts, Virtio!Area, Extent
<1> QED  BY <1>1, <1>2, <1>3, <1>4

\* The parts of the network driver's.
LEMMA NetMemory ==
  ASSUME vkind = "net"
  PROVE  /\ Virtio!AvailRing = 2048 /\ Virtio!UsedRing = 2312
         /\ Virtio!QueueAt(0) = 8192 /\ Virtio!QueueAt(1) = 12288
         /\ Virtio!Areas = {Extent(<<"headers", 0>>, 0, 2048), Extent(<<"headers", 1>>, 4096, 6144),
                            Extent(<<"desc", 0>>, 8192, 10240), Extent(<<"avail", 0>>, 10240, 10502),
                            Extent(<<"used", 0>>, 10504, 11534),
                            Extent(<<"desc", 1>>, 12288, 14336), Extent(<<"avail", 1>>, 14336, 14598),
                            Extent(<<"used", 1>>, 14600, 15630)}
<1>1. /\ Virtio!AvailRing = 2048 /\ Virtio!UsedRing = 2312 /\ Virtio!Num = 128
      /\ Virtio!QueueAt(0) = 8192 /\ Virtio!QueueAt(1) = 12288
  BY DEF Virtio!AvailRing, Virtio!UsedRing, Virtio!QueueAt, Virtio!Num, Virtio!PageSize
<1>2. Virtio!Areas = Virtio!NetAreas \cup (Virtio!Parts(0) \cup Virtio!Parts(1))
  BY DEF Virtio!Areas, Virtio!Beside, Virtio!Queues
<1>3. Virtio!NetAreas = {Extent(<<"headers", 0>>, 0, 2048), Extent(<<"headers", 1>>, 4096, 6144)}
  BY <1>1 DEF Virtio!NetAreas, Virtio!Area, Virtio!PageSize, Extent
<1>4. /\ Virtio!Parts(0) = {Extent(<<"desc", 0>>, 8192, 10240), Extent(<<"avail", 0>>, 10240, 10502),
                            Extent(<<"used", 0>>, 10504, 11534)}
      /\ Virtio!Parts(1) = {Extent(<<"desc", 1>>, 12288, 14336), Extent(<<"avail", 1>>, 14336, 14598),
                            Extent(<<"used", 1>>, 14600, 15630)}
  BY <1>1 DEF Virtio!Parts, Virtio!Area, Extent
<1> QED  BY <1>1, <1>2, <1>3, <1>4

\* The parts of the GPU driver's.
LEMMA GpuMemory ==
  ASSUME vkind = "gpu"
  PROVE  /\ Virtio!AvailRing = 256 /\ Virtio!UsedRing = 296
         /\ Virtio!QueueAt(0) = 0 /\ Virtio!QueueAt(1) = 4096
         /\ Virtio!Areas = {Extent(<<"command", 0>>, 8192, 8248), Extent(<<"response", 0>>, 12288, 12696),
                            Extent(<<"desc", 0>>, 0, 256), Extent(<<"avail", 0>>, 256, 294),
                            Extent(<<"used", 0>>, 296, 430),
                            Extent(<<"desc", 1>>, 4096, 4352), Extent(<<"avail", 1>>, 4352, 4390),
                            Extent(<<"used", 1>>, 4392, 4526)}
<1>1. /\ Virtio!AvailRing = 256 /\ Virtio!UsedRing = 296 /\ Virtio!Num = 16
      /\ Virtio!QueueAt(0) = 0 /\ Virtio!QueueAt(1) = 4096
  BY DEF Virtio!AvailRing, Virtio!UsedRing, Virtio!QueueAt, Virtio!Num, Virtio!PageSize
<1>2. Virtio!Areas = Virtio!GpuAreas \cup (Virtio!Parts(0) \cup Virtio!Parts(1))
  BY DEF Virtio!Areas, Virtio!Beside, Virtio!Queues
<1>3. Virtio!GpuAreas = {Extent(<<"command", 0>>, 8192, 8248), Extent(<<"response", 0>>, 12288, 12696)}
  BY <1>1 DEF Virtio!GpuAreas, Virtio!Area, Virtio!PageSize, Extent
<1>4. /\ Virtio!Parts(0) = {Extent(<<"desc", 0>>, 0, 256), Extent(<<"avail", 0>>, 256, 294),
                            Extent(<<"used", 0>>, 296, 430)}
      /\ Virtio!Parts(1) = {Extent(<<"desc", 1>>, 4096, 4352), Extent(<<"avail", 1>>, 4352, 4390),
                            Extent(<<"used", 1>>, 4392, 4526)}
  BY <1>1 DEF Virtio!Parts, Virtio!Area, Extent
<1> QED  BY <1>1, <1>2, <1>3, <1>4

\* Extents that are apart.
Clear(a, b) == a.to <= b.from \/ b.to <= a.from

\* The parts of each driver's memory are apart.
LEMMA AreasClear ==
  ASSUME vkind \in {"block", "net", "gpu"}
  PROVE  /\ \A a \in Virtio!Areas : a.to <= Virtio!DmaSize
         /\ \A a, b \in Virtio!Areas : a # b => Clear(a, b)
<1>0. Virtio!DmaSize = 16384
  BY DEF Virtio!DmaSize, Virtio!PageSize
<1>1. CASE vkind = "block"
  BY <1>0, <1>1, BlockMemory DEF Extent, Clear
<1>2. CASE vkind = "net"
  BY <1>0, <1>2, NetMemory DEF Extent, Clear
<1>3. CASE vkind = "gpu"
  BY <1>0, <1>3, GpuMemory DEF Extent, Clear
<1> QED  BY <1>1, <1>2, <1>3

\* What lives is set up, apart, and of the kind its driver is for.
LEMMA DevicePromise ==
  ASSUME VirtioInv
  PROVE  Virtio!LiveAsKnown
<1>1. Virtio!LiveIsSetUp
  <2>1. CASE vpc \in Unset
    BY <2>1 DEF Virtio!LiveIsSetUp, Unset
  <2>2. CASE vpc \in Setup \ {"live"}
    BY <2>2 DEF Virtio!LiveIsSetUp, VirtioInv, StageInv
  <2>3. CASE vpc = "live"
    <3>1. /\ \A q \in Virtio!Queues : queues[q] = QueueIs(q)
          /\ accepted \subseteq dev.offered
      BY <2>3 DEF VirtioInv, StageInv, FeatureInv, Virtio!Queues, Setup, Agreed
    <3> QED  BY <3>1 DEF Virtio!LiveIsSetUp, QueueIs
  <2> QED  BY <2>1, <2>2, <2>3 DEF VirtioInv, DeviceInv
<1>2. Virtio!ModernTaken /\ Virtio!OnlyAccepted
  BY DEF Virtio!ModernTaken, Virtio!OnlyAccepted, VirtioInv, FeatureInv, StageInv, Setup, Agreed, Queueing
<1>5. Virtio!ForeignAccepted
  <2> SUFFICES ASSUME vpc = "live"
               PROVE  accepted \cap Virtio!ForeignRing
                        = IF vkind = "net" THEN dev.offered \cap Virtio!ForeignRing ELSE {}
    BY DEF Virtio!ForeignAccepted
  <2>1. CASE vkind = "net"
    BY <2>1 DEF Virtio!ForeignRing, VirtioInv, FeatureInv, Setup, Agreed
  <2>2. CASE vkind # "net"
    BY <2>2 DEF Virtio!ForeignRing, VirtioInv, DeviceInv, FeatureInv, Setup, Agreed
  <2> QED  BY <2>1, <2>2
<1>3. Virtio!AreasApart
  <2> SUFFICES ASSUME vpc = "live"
               PROVE  /\ \A a \in Virtio!Areas : a.to <= Virtio!DmaSize
                      /\ \A a, b \in Virtio!Areas : a # b => a.to <= b.from \/ b.to <= a.from
                      /\ \A q \in Virtio!Queues : queues[q].used % 4 = 0 /\ queues[q].avail % 2 = 0
    BY DEF Virtio!AreasApart
  <2>1. vkind \in {"block", "net", "gpu"}
    BY DEF VirtioInv, DeviceInv
  <2>2. \A q \in Virtio!Queues : /\ queues[q].used = Virtio!QueueAt(q) + Virtio!UsedRing
                                 /\ queues[q].avail = Virtio!QueueAt(q) + Virtio!AvailRing
    BY DEF VirtioInv, StageInv, QueueIs, Virtio!Queues
  <2>3. \A q \in Virtio!Queues : /\ (Virtio!QueueAt(q) + Virtio!UsedRing) % 4 = 0
                                 /\ (Virtio!QueueAt(q) + Virtio!AvailRing) % 2 = 0
    <3>1. CASE vkind = "block"
      BY <3>1, BlockMemory DEF Virtio!Queues
    <3>2. CASE vkind = "net"
      BY <3>2, NetMemory DEF Virtio!Queues
    <3>3. CASE vkind = "gpu"
      BY <3>3, GpuMemory DEF Virtio!Queues
    <3> QED  BY <2>1, <3>1, <3>2, <3>3
  <2> QED  BY <2>1, <2>2, <2>3, AreasClear DEF Clear
<1>4. Virtio!RightDriver
  <2>1. vpc = "live" => Virtio!identify_device(dev.id) = vkind
    BY DEF VirtioInv, DeviceInv
  <2>2. ASSUME NEW id, Virtio!identify_device(id) \in {"block", "net", "gpu"}
        PROVE  /\ Virtio!identify_device(id) = "net" => id = 1
               /\ Virtio!identify_device(id) = "block" => id = 2
               /\ Virtio!identify_device(id) = "gpu" => id = 16
    BY <2>2, DriversAssumption DEF Virtio!identify_device, Virtio!VirtioInitAssumption
  <2> QED  BY <2>1, <2>2 DEF Virtio!RightDriver, VirtioInv, DeviceInv
<1> QED  BY <1>1, <1>2, <1>3, <1>4, <1>5 DEF Virtio!LiveAsKnown

(* A device is used only as its driver set it up, whatever features it     *)
(* offers, whichever it is and whatever state the last driver left it in:  *)
(* reset, its queues where the driver looks for them, the shared memory's  *)
(* parts apart, the features agreed on (block does not ask), and a ring    *)
(* format the driver does not speak accepted by net, exactly when offered  *)
(* (the probe, the transport and the init functions of the three drivers). *)
THEOREM LiveTheorem == DriversSpec => []LiveAsKnown
<1> DEFINE I == driver = "virtio" => VirtioInv
<1>1. DriversInit => I
  BY DeviceInit DEF DriversInit
<1>2. ASSUME I, UNCHANGED virtioVars, driver' = driver PROVE I'
  BY <1>2, QueueStays DEF virtioVars, VirtioInv, DeviceInv, FeatureInv, StageInv
<1>3. ASSUME VirtioInv, Virtio!Next PROVE VirtioInv'
  BY <1>3, ProbeStep, ResetStep, ReadStep, WriteFeaturesStep, AgreeStep, QueueStep, GoStep DEF Virtio!Next
<1>4. ASSUME I, [DriversNext]_driversVars PROVE I'
  BY <1>2, <1>3, <1>4, Chosen
<1>5. I => LiveAsKnown
  BY DevicePromise DEF LiveAsKnown
<1> QED  BY <1>1, <1>4, <1>5, PTL DEF DriversSpec

-----------------------------------------------------------------------------
(* PciScan: what is read and written of the configuration space.           *)

Byte == 0 .. 255

\* The halves of a word.
LEMMA HalfOf ==
  ASSUME NEW w \in Pci!Word
  PROVE  SubSeq(w, 1, 2) = <<w[1], w[2]>> /\ SubSeq(w, 3, 4) = <<w[3], w[4]>>
<1>1. ASSUME NEW n \in Nat, NEW S, NEW x \in [1 .. n -> S]
      PROVE  x \in Seq(S) /\ Len(x) = n
  OBVIOUS
<1>2. w \in Seq(0 .. 255) /\ Len(w) = 4
  BY <1>1 DEF Pci!Word
<1>3. ASSUME NEW a \in 1 .. 4, NEW b \in 1 .. 4, b = a + 1
      PROVE  SubSeq(w, a, b) = <<w[a], w[b]>>
  <2>1. PICK s : s = SubSeq(w, a, b)
    OBVIOUS
  <2>2. s \in Seq(0 .. 255) /\ Len(s) = 2 /\ s[1] = w[a] /\ s[2] = w[b]
    <3>1. b - a + 1 = 2 /\ a + 1 - 1 = a /\ a + 2 - 1 = b /\ a \in Int /\ b \in Int
          /\ \A i \in a .. b : w[i] \in 0 .. 255
      BY <1>3 DEF Pci!Word
    <3>2. /\ s \in Seq(0 .. 255) /\ Len(s) = IF a <= b THEN b - a + 1 ELSE 0
          /\ \A i \in 1 .. b - a + 1 : s[i] = w[a + i - 1]
      BY <1>2, <2>1, <3>1, SubSeqProperties, SMTT(30)
    <3> QED  BY <1>3, <3>1, <3>2
  <2>3. s = <<s[1], s[2]>>
    BY <2>2
  <2> QED  BY <2>1, <2>2, <2>3
<1> QED  BY <1>3

\* What the accessors read through the window of a page.
ReadsThrough(d, f, p) ==
  /\ p \in 0 .. 255
  /\ \A reg \in Pci!Registers : /\ Pci!ReadWord(d, f, reg) = space[p][reg]
                                /\ space[p][reg] \in Pci!Word
  /\ Pci!ReadByte(d, f, 14) = space[p][12][3] /\ space[p][12][3] \in Byte
  /\ Pci!ReadByte(d, f, 60) = space[p][60][1] /\ Pci!ReadByte(d, f, 61) = space[p][60][2]
  /\ Pci!ReadByte(d, f, 4) = space[p][4][1] /\ Pci!ReadByte(d, f, 5) = space[p][4][2]
  /\ Pci!ReadHalf(d, f, 4) = <<space[p][4][1], space[p][4][2]>>
  /\ Pci!ReadHalf(d, f, 0) = <<space[p][0][1], space[p][0][2]>>

\* The word of a register that is there, byte by byte.
LEMMA ReadIs ==
  ASSUME Pci!WellFormed(space), NEW d \in 0 .. 31, NEW f \in 0 .. 7, NEW p, p = Pci!CfgPage(d, f),
         p \in DOMAIN space
  PROVE  ReadsThrough(d, f, p)
<1>1. p = d * 8 + f /\ p \in 0 .. 255
  BY DEF Pci!CfgPage
<1>2. \A reg \in Pci!Registers : /\ Pci!ReadWord(d, f, reg) = space[p][reg]
                                 /\ space[p][reg] \in Pci!Word
  BY DEF Pci!WellFormed, Pci!ReadWord
<1>3. {0, 4, 12, 60} \subseteq Pci!Registers
  BY DEF Pci!Registers
<1>4. /\ Pci!ReadByte(d, f, 14) = Pci!ReadWord(d, f, 12)[3]
      /\ Pci!ReadByte(d, f, 60) = Pci!ReadWord(d, f, 60)[1]
      /\ Pci!ReadByte(d, f, 61) = Pci!ReadWord(d, f, 60)[2]
      /\ Pci!ReadByte(d, f, 4) = Pci!ReadWord(d, f, 4)[1]
      /\ Pci!ReadByte(d, f, 5) = Pci!ReadWord(d, f, 4)[2]
      /\ Pci!ReadByte(d, f, 0) = Pci!ReadWord(d, f, 0)[1]
      /\ Pci!ReadByte(d, f, 1) = Pci!ReadWord(d, f, 0)[2]
  <2>1. /\ (14 \div 4) * 4 = 12 /\ (14 % 4) + 1 = 3 /\ (60 \div 4) * 4 = 60 /\ (60 % 4) + 1 = 1
        /\ (61 \div 4) * 4 = 60 /\ (61 % 4) + 1 = 2 /\ (4 \div 4) * 4 = 4 /\ (4 % 4) + 1 = 1
        /\ (5 \div 4) * 4 = 4 /\ (5 % 4) + 1 = 2 /\ (0 \div 4) * 4 = 0 /\ (0 % 4) + 1 = 1
        /\ (1 \div 4) * 4 = 0 /\ (1 % 4) + 1 = 2
    OBVIOUS
  <2> QED  BY <2>1 DEF Pci!ReadByte
<1>5. /\ Pci!ReadHalf(d, f, 4) = <<Pci!ReadByte(d, f, 4), Pci!ReadByte(d, f, 5)>>
      /\ Pci!ReadHalf(d, f, 0) = <<Pci!ReadByte(d, f, 0), Pci!ReadByte(d, f, 1)>>
  <2>1. (4 \div 2) * 2 = 4 /\ (4 \div 2) * 2 + 1 = 5 /\ (0 \div 2) * 2 = 0 /\ (0 \div 2) * 2 + 1 = 1
    OBVIOUS
  <2> QED  BY <2>1 DEF Pci!ReadHalf
<1>6. space[p][12][3] \in Byte
  BY <1>2, <1>3 DEF Pci!Word, Byte
<1> QED  BY <1>1, <1>2, <1>3, <1>4, <1>5, <1>6 DEF ReadsThrough

\* Presence and kind of a function, by its words.
LEMMA PresentIs ==
  ASSUME Pci!WellFormed(space), NEW d \in 0 .. 31, NEW f \in 0 .. 7, NEW p, p = Pci!CfgPage(d, f)
  PROVE  /\ Pci!device_present(d, f) <=> Pci!Present(p)
         /\ Pci!Present(p) => p \in DOMAIN space
         /\ Pci!IsSerial(d, f) <=> p \in DOMAIN space /\ space[p][0] = <<54, 27, 2, 0>>
<1>1. CASE p \in DOMAIN space
  <2>1. 0 \in Pci!Registers
    BY DEF Pci!Registers
  <2>2. space[p][0] \in Pci!Word /\ Pci!ReadWord(d, f, 0) = space[p][0]
    BY <1>1, <2>1 DEF Pci!WellFormed, Pci!ReadWord
  <2>3. PICK w : w = space[p][0]
    OBVIOUS
  <2>4. SubSeq(w, 1, 2) = <<w[1], w[2]>>
    BY <2>2, <2>3, HalfOf
  <2>5. Pci!ReadHalf(d, f, 0) = <<w[1], w[2]>>
    <3>1. ReadsThrough(d, f, p)
      BY <1>1, ReadIs
    <3> QED  BY <2>3, <3>1 DEF ReadsThrough
  <2> QED  BY <1>1, <2>2, <2>3, <2>4, <2>5 DEF Pci!device_present, Pci!Present, Pci!IsSerial
<1>2. CASE p \notin DOMAIN space
  <2>1. \A reg : Pci!ReadWord(d, f, reg) = <<255, 255, 255, 255>>
    BY <1>2 DEF Pci!ReadWord, Pci!Ones
  <2>2. Pci!ReadHalf(d, f, 0) = <<255, 255>>
    <3>1. /\ (0 \div 2) * 2 = 0 /\ (0 \div 2) * 2 + 1 = 1 /\ (0 % 4) + 1 = 1 /\ (1 % 4) + 1 = 2
      OBVIOUS
    <3> QED  BY <2>1, <3>1 DEF Pci!ReadHalf, Pci!ReadByte
  <2>3. <<255, 255, 255, 255>> # <<54, 27, 2, 0>>
    OBVIOUS
  <2> QED  BY <1>2, <2>1, <2>2, <2>3 DEF Pci!device_present, Pci!Present, Pci!IsSerial
<1> QED  BY <1>1, <1>2

\* Two halves make a word.
LEMMA Joined ==
  ASSUME NEW a \in Byte, NEW b \in Byte, NEW c \in Byte, NEW d \in Byte
  PROVE  <<a, b>> \o <<c, d>> = <<a, b, c, d>>
<1>1. PICK s, t : s = <<a, b>> /\ t = <<c, d>>
  OBVIOUS
<1>2. s \in Seq(Byte) /\ t \in Seq(Byte) /\ Len(s) = 2 /\ Len(t) = 2
  BY <1>1
<1>3. PICK r : r = s \o t
  OBVIOUS
<1>4. /\ r \in Seq(Byte) /\ Len(r) = Len(s) + Len(t)
      /\ \A i \in 1 .. Len(s) + Len(t) : r[i] = IF i <= Len(s) THEN s[i] ELSE t[i - Len(s)]
  BY <1>2, <1>3, ConcatProperties
<1>5. Len(r) = 4 /\ r[1] = s[1] /\ r[2] = s[2] /\ r[3] = t[1] /\ r[4] = t[2]
  BY <1>2, <1>4
<1>6. r = <<r[1], r[2], r[3], r[4]>>
  <2>1. r \in Seq(Byte) /\ Len(r) = 4
    BY <1>4, <1>5
  <2> QED  BY <2>1
<1> QED  BY <1>1, <1>3, <1>5, <1>6

\* One bit set, one cleared.
LEMMA SwitchIs ==
  ASSUME NEW w \in Byte
  PROVE  /\ w + (1 - (w % 2)) \in Byte /\ (w + (1 - (w % 2))) % 2 = 1
         /\ w - 4 * ((w \div 4) % 2) \in Byte
         /\ ((w - 4 * ((w \div 4) % 2)) \div 4) % 2 = 0
<1>1. w + (1 - (w % 2)) \in Byte /\ (w + (1 - (w % 2))) % 2 = 1
  BY DEF Byte
<1>2. PICK q \in Int, r \in 0 .. 3 : q = w \div 4 /\ w = 4 * q + r
  BY DEF Byte
<1>3. PICK h \in Int, m \in 0 .. 1 : m = q % 2 /\ q = 2 * h + m
  OBVIOUS
<1>4. w - 4 * m \in Byte
  BY <1>2, <1>3 DEF Byte
<1>5. w - 4 * m = 8 * h + r
  BY <1>2, <1>3
<1>6. (8 * h + r) \div 4 = 2 * h
  OBVIOUS
<1>7. (2 * h) % 2 = 0
  OBVIOUS
<1> QED  BY <1>1, <1>2, <1>3, <1>4, <1>5, <1>6, <1>7

\* Four bytes are a word.
LEMMA FourBytes ==
  ASSUME NEW a \in Byte, NEW b \in Byte, NEW c \in Byte, NEW e \in Byte
  PROVE  <<a, b, c, e>> \in Pci!Word
BY DEF Pci!Word, Byte

\* What a write to the command register leaves there.
LEMMA WrittenIs ==
  ASSUME NEW w \in Pci!Word, NEW a \in Byte, NEW b \in Byte,
         NEW x, x = Pci!OnWrite(w, <<a, b>> \o SubSeq(w, 3, 4))
  PROVE  /\ x \in Pci!Word /\ x[1] = a /\ x[2] = b
         /\ x[3] = w[3] /\ x[4] = Pci!ReadOnly(w[4])
<1>1. PICK word : word = <<a, b, w[3], w[4]>>
  OBVIOUS
<1>2. w[3] \in Byte /\ w[4] \in Byte
  BY DEF Pci!Word, Byte
<1>3. <<a, b>> \o SubSeq(w, 3, 4) = word
  <2>1. SubSeq(w, 3, 4) = <<w[3], w[4]>>
    BY HalfOf
  <2>2. <<a, b>> \o <<w[3], w[4]>> = <<a, b, w[3], w[4]>>
    BY <1>2, Joined, Zenon
  <2> QED  BY <1>1, <2>1, <2>2, Zenon
<1>4. PICK k : k = Pci!ReadOnly(w[4])
  OBVIOUS
<1>5. k \in Byte
  BY <1>2, <1>4 DEF Pci!ReadOnly, Byte
<1>6. x = <<a, b, w[3], k>>
  <2>1. x = Pci!OnWrite(w, word)
    BY <1>3, Zenon
  <2>2. word[1] = a /\ word[2] = b /\ word[4] = w[4]
    BY <1>1
  <2> QED  BY <1>4, <2>1, <2>2 DEF Pci!OnWrite
<1> QED  BY <1>2, <1>4, <1>5, <1>6, FourBytes

\* The configuration space with nothing changed but word 4 of p.
Switched(sp, p) ==
  /\ DOMAIN sp = DOMAIN space
  /\ \A q \in DOMAIN space : q # p => sp[q] = space[q]
  /\ p \in DOMAIN space =>
       /\ DOMAIN sp[p] = DOMAIN space[p]
       /\ \A reg \in DOMAIN space[p] \ {4} : sp[p][reg] = space[p][reg]
       /\ sp[p][4] \in Pci!Word

\* The command register of p has the switches set.
SwitchedOn(sp, p) ==
  <<sp[p][4][1], sp[p][4][2]>> = Pci!Enabled(<<space[p][4][1], space[p][4][2]>>)

\* Of its status register the recorded errors are gone.
StatusRest(sp, p) ==
  sp[p][4][3] = space[p][4][3] /\ sp[p][4][4] = Pci!ReadOnly(space[p][4][4])

\* ensure_qemu_serial_intx_enabled changes serial ports only, and there the
\* switches and the recorded errors.
LEMMA EnsureIs ==
  ASSUME Pci!WellFormed(space), NEW d \in 0 .. 31, NEW f \in 0 .. 7, NEW p, p = Pci!CfgPage(d, f),
         NEW sp, sp = Pci!ensure_qemu_serial_intx_enabled(d, f)
  PROVE  /\ Switched(sp, p)
         /\ ~Pci!IsSerial(d, f) => sp = space
         /\ Pci!IsSerial(d, f) => SwitchedOn(sp, p)
         /\ sp # space => StatusRest(sp, p)
<1>1. CASE Pci!IsSerial(d, f) /\ Pci!ReadHalf(d, f, 4) # Pci!Enabled(Pci!ReadHalf(d, f, 4))
  <2>1. p \in DOMAIN space
    BY <1>1, PresentIs, Zenon
  <2>2. PICK w : w = space[p][4]
    OBVIOUS
  <2>3. 4 \in Pci!Registers
    BY DEF Pci!Registers
  <2>4. w \in Pci!Word /\ 4 \in DOMAIN space[p] /\ Pci!ReadWord(d, f, 4) = w
    BY <2>1, <2>2, <2>3 DEF Pci!WellFormed, Pci!ReadWord
  <2>5. Pci!ReadHalf(d, f, 4) = <<w[1], w[2]>>
    <3>1. ReadsThrough(d, f, p)
      BY <2>1, ReadIs
    <3> QED  BY <2>2, <3>1 DEF ReadsThrough
  <2>6. PICK a, b : a = w[1] + (1 - (w[1] % 2)) /\ b = w[2] - 4 * ((w[2] \div 4) % 2)
    OBVIOUS
  <2>7. Pci!Enabled(<<w[1], w[2]>>) = <<a, b>>
    BY <2>6 DEF Pci!Enabled
  <2>8. a \in Byte /\ b \in Byte
    <3>1. w[1] \in Byte /\ w[2] \in Byte
      BY <2>4 DEF Pci!Word, Byte
    <3> QED  BY <2>6, <3>1, SwitchIs
  <2>9. (4 \div 4) * 4 = 4 /\ 4 % 4 = 0
    OBVIOUS
  <2>10. PICK x : x = Pci!OnWrite(w, <<a, b>> \o SubSeq(w, 3, 4))
    OBVIOUS
  <2>11. sp = [space EXCEPT ![p][4] = x]
    BY <1>1, <2>4, <2>5, <2>7, <2>9, <2>10
       DEF Pci!ensure_qemu_serial_intx_enabled, Pci!WriteHalf
  <2>12. /\ x \in Pci!Word /\ x[1] = a /\ x[2] = b
         /\ x[3] = w[3] /\ x[4] = Pci!ReadOnly(w[4])
    BY <2>4, <2>8, <2>10, WrittenIs
  <2>13. /\ sp[p][4] = x /\ DOMAIN sp = DOMAIN space /\ DOMAIN sp[p] = DOMAIN space[p]
         /\ \A q \in DOMAIN space : q # p => sp[q] = space[q]
         /\ \A reg \in DOMAIN space[p] \ {4} : sp[p][reg] = space[p][reg]
    BY <2>1, <2>4, <2>11
  <2>14. Switched(sp, p)
    BY <2>12, <2>13 DEF Switched
  <2>15. SwitchedOn(sp, p)
    BY <2>2, <2>7, <2>12, <2>13 DEF SwitchedOn
  <2>16. StatusRest(sp, p)
    BY <2>2, <2>12, <2>13 DEF StatusRest
  <2> QED  BY <1>1, <2>14, <2>15, <2>16
<1>2. CASE ~(Pci!IsSerial(d, f) /\ Pci!ReadHalf(d, f, 4) # Pci!Enabled(Pci!ReadHalf(d, f, 4)))
  <2>1. sp = space
    BY <1>2 DEF Pci!ensure_qemu_serial_intx_enabled
  <2>2. 4 \in Pci!Registers
    BY DEF Pci!Registers
  <2>3. Switched(sp, p)
    BY <2>1, <2>2 DEF Switched, Pci!WellFormed
  <2>4. ASSUME Pci!IsSerial(d, f)
        PROVE  SwitchedOn(space, p)
    <3>1. p \in DOMAIN space
      BY <2>4, PresentIs, Zenon
    <3>2. Pci!ReadHalf(d, f, 4) = <<space[p][4][1], space[p][4][2]>>
      <4>1. ReadsThrough(d, f, p)
        BY <3>1, ReadIs
      <4> QED  BY <4>1 DEF ReadsThrough
    <3> QED  BY <1>2, <2>4, <3>2 DEF SwitchedOn
  <2> QED  BY <2>1, <2>3, <2>4
<1> QED  BY <1>1, <1>2

ScanTypes ==
  /\ Pci!WellFormed(space)
  /\ ppc \in {"map", "scan", "report", "running", "failed"}
  /\ pages \in Nat /\ touched \in 0 .. 255
  /\ at # <<>> => \E d \in 0 .. 31, f \in 0 .. 7 : at = <<d, f>>
  /\ found \in Seq({found[i] : i \in DOMAIN found})

\* The functions after the first are visited where there are several.
Cursor ==
  at # <<>> /\ at[2] # 0 =>
    LET p == 8 * at[1] IN Pci!Present(p) /\ space[p][12][3] >= 128

\* What is listed is what is there and passed, each function once.
Listed ==
  /\ \A i \in DOMAIN found :
       LET p == found[i].unit
       IN  p \in DOMAIN space \cap Pci!Passed /\ Pci!Reachable(p) /\ found[i].id = space[p][0]
  /\ \A p \in DOMAIN space \cap Pci!Passed :
       Pci!Reachable(p) => \E i \in DOMAIN found : found[i].unit = p
  /\ \A i, j \in DOMAIN found : found[i].unit = found[j].unit => i = j

ScanInv ==
  /\ ScanTypes /\ Cursor
  /\ ppc = "map" => found = <<>> /\ at = <<>>
  /\ ppc \in {"scan", "report", "running"} => Listed
  /\ ppc \in {"map", "scan", "report"} => reported = <<>>
  /\ Pci!Done => reported = found

\* The machines are as the driver may expect.
LEMMA ScanInit == Pci!Init => ScanInv
<1> SUFFICES ASSUME Pci!Init  PROVE ScanInv
  OBVIOUS
<1>1. Pci!WellFormed(space)
  BY DriversAssumption DEF Pci!Init, Pci!PciScanAssumption
<1>2. <<>> \in Seq({})
  OBVIOUS
<1>3. ScanTypes
  BY <1>1, <1>2 DEF Pci!Init, ScanTypes
<1> QED  BY <1>3 DEF Pci!Init, ScanInv, Cursor, Pci!Done

\* A visit, by the function it is to.
LEMMA VisitIs ==
  ASSUME ScanTypes, Pci!Visit
  PROVE  \E d \in 0 .. 31, f \in 0 .. 7, p \in 0 .. 255 :
           /\ at = <<d, f>> /\ p = d * 8 + f /\ p = Pci!CfgPage(d, f) /\ ppc = "scan"
           /\ at' = Pci!After(d, f)
           /\ touched' = IF p > touched THEN p ELSE touched
           /\ IF Pci!device_present(d, f)
              THEN /\ found' = Append(found, Pci!build_desc_node(d, f))
                   /\ space' = Pci!ensure_qemu_serial_intx_enabled(d, f)
              ELSE UNCHANGED <<found, space>>
           /\ UNCHANGED <<platform, pages, reported, ppc>>
<1>1. PICK d \in 0 .. 31, f \in 0 .. 7 : at = <<d, f>>
  BY DEF ScanTypes, Pci!Visit
<1>2. at[1] = d /\ at[2] = f
  BY <1>1
<1>3. PICK p : p = Pci!CfgPage(d, f)
  OBVIOUS
<1>4. p = d * 8 + f /\ p \in 0 .. 255
  BY <1>3 DEF Pci!CfgPage
<1>5. /\ ppc = "scan" /\ at' = Pci!After(d, f)
      /\ touched' = IF p > touched THEN p ELSE touched
      /\ IF Pci!device_present(d, f)
         THEN /\ found' = Append(found, Pci!build_desc_node(d, f))
              /\ space' = Pci!ensure_qemu_serial_intx_enabled(d, f)
         ELSE UNCHANGED <<found, space>>
      /\ UNCHANGED <<platform, pages, reported, ppc>>
  BY <1>2, <1>3, Zenon DEF Pci!Visit
<1> QED  BY <1>1, <1>3, <1>4, <1>5

\* A visit changes word 4 of a serial port, nothing else.
LEMMA VisitSpace ==
  ASSUME ScanTypes, NEW d \in 0 .. 31, NEW f \in 0 .. 7, NEW p, p = Pci!CfgPage(d, f),
         IF Pci!device_present(d, f)
         THEN space' = Pci!ensure_qemu_serial_intx_enabled(d, f) ELSE space' = space
  PROVE  /\ Switched(space', p)
         /\ space' # space =>
              /\ p \in DOMAIN space /\ space[p][0] = <<54, 27, 2, 0>>
              /\ SwitchedOn(space', p) /\ StatusRest(space', p)
<1>1. Pci!WellFormed(space)
  BY DEF ScanTypes
<1>2. CASE Pci!device_present(d, f)
  <2>1. PICK sp : sp = Pci!ensure_qemu_serial_intx_enabled(d, f) /\ space' = sp
    BY <1>2
  <2>2. /\ Switched(sp, p) /\ (~Pci!IsSerial(d, f) => sp = space)
        /\ Pci!IsSerial(d, f) => SwitchedOn(sp, p)
        /\ sp # space => StatusRest(sp, p)
    BY <1>1, <2>1, EnsureIs
  <2>3. Pci!IsSerial(d, f) => p \in DOMAIN space /\ space[p][0] = <<54, 27, 2, 0>>
    BY <1>1, PresentIs, Zenon
  <2> QED  BY <2>1, <2>2, <2>3, Zenon
<1>3. CASE ~Pci!device_present(d, f)
  <2>1. space' = space
    BY <1>3
  <2>2. 4 \in Pci!Registers
    BY DEF Pci!Registers
  <2> QED  BY <1>1, <2>1, <2>2 DEF Switched, Pci!WellFormed
<1> QED  BY <1>2, <1>3

\* The registers stay words.
LEMMA SpaceStays ==
  ASSUME Pci!WellFormed(space), NEW p, NEW sp, Switched(sp, p)
  PROVE  Pci!WellFormed(sp)
<1>1. ASSUME NEW q \in DOMAIN sp
      PROVE  Pci!Registers \subseteq DOMAIN sp[q] /\ \A reg \in DOMAIN sp[q] : sp[q][reg] \in Pci!Word
  <2>1. q \in DOMAIN space
    BY <1>1 DEF Switched
  <2>2. Pci!Registers \subseteq DOMAIN space[q] /\ \A reg \in DOMAIN space[q] : space[q][reg] \in Pci!Word
    BY <2>1 DEF Pci!WellFormed
  <2>3. CASE q = p
    BY <2>1, <2>2, <2>3 DEF Switched
  <2>4. CASE q # p
    BY <2>1, <2>2, <2>4 DEF Switched
  <2> QED  BY <2>3, <2>4
<1> QED  BY <1>1 DEF Pci!WellFormed

\* is_multifunction, by the words of function 0.
LEMMA SeveralIs ==
  ASSUME Pci!WellFormed(space), NEW d \in 0 .. 31, Pci!Present(8 * d)
  PROVE  Pci!is_multifunction(d) <=> space[8 * d][12][3] >= 128
<1>1. PICK p : p = Pci!CfgPage(d, 0)
  OBVIOUS
<1>2. p = 8 * d
  BY <1>1 DEF Pci!CfgPage
<1>3. p \in DOMAIN space
  BY <1>2 DEF Pci!Present
<1>4. 0 \in 0 .. 7
  OBVIOUS
<1>5. Pci!ReadByte(d, 0, 14) = space[p][12][3]
  <2>1. ReadsThrough(d, 0, p)
    BY <1>1, <1>3, <1>4, ReadIs
  <2> QED  BY <2>1 DEF ReadsThrough
<1> QED  BY <1>2, <1>5 DEF Pci!is_multifunction

\* Behind a device without further functions nothing can be addressed.
LEMMA NoneBehind ==
  ASSUME Pci!WellFormed(space), NEW d \in 0 .. 31, NEW q \in d * 8 + 1 .. d * 8 + 7,
         ~(Pci!device_present(d, 0) /\ Pci!is_multifunction(d))
  PROVE  ~Pci!Reachable(q)
<1>1. q % 8 # 0 /\ q \div 8 = d
  OBVIOUS
<1>2. SUFFICES ASSUME Pci!Present(8 * d), space[8 * d][12][3] >= 128  PROVE FALSE
  BY <1>1 DEF Pci!Reachable
<1>3. PICK p : p = Pci!CfgPage(d, 0)
  OBVIOUS
<1>4. p = 8 * d
  BY <1>3 DEF Pci!CfgPage
<1>5. 0 \in 0 .. 7
  OBVIOUS
<1>6. Pci!device_present(d, 0)
  BY <1>2, <1>3, <1>4, <1>5, PresentIs
<1> QED  BY <1>2, <1>6, SeveralIs

\* The scan goes on after p: what can be addressed before the next function was visited.
Onward(p) ==
  /\ at' # <<>> => \E e \in 0 .. 31, g \in 0 .. 7 : at' = <<e, g>>
  /\ at' # <<>> /\ at'[2] # 0 =>
       Pci!Present(8 * at'[1]) /\ space[8 * at'[1]][12][3] >= 128
  /\ Pci!Passed = 0 .. p - 1 /\ Pci!Passed' \subseteq 0 .. 255
  /\ \A q \in 0 .. p : q \in Pci!Passed'
  /\ \A q \in Pci!Passed' : q \in 0 .. p \/ ~Pci!Reachable(q)

\* The function visited next.
LEMMA NextVisited ==
  ASSUME ScanTypes, Cursor, ppc = "scan", ppc' = ppc,
         NEW d \in 0 .. 31, NEW f \in 0 .. 7, NEW p \in 0 .. 255, p = d * 8 + f,
         at = <<d, f>>, at' = Pci!After(d, f)
  PROVE  Onward(p)
<1> DEFINE Multi == Pci!device_present(d, 0) /\ Pci!is_multifunction(d)
<1>1. Pci!Passed = 0 .. p - 1
  BY DEF Pci!Passed
<1>2. ASSUME NEW e \in 0 .. 31, NEW g \in 0 .. 7, at' = <<e, g>>
      PROVE  at' # <<>> /\ at'[1] = e /\ at'[2] = g /\ Pci!Passed' = 0 .. 8 * e + g - 1
  BY <1>2 DEF Pci!Passed
<1>3. ASSUME at' = <<>>  PROVE Pci!Passed' = 0 .. 255
  BY <1>3 DEF Pci!Passed
<1>4. CASE f = 0 /\ Multi
  <2>1. at' = <<d, 1>> /\ 1 \in 0 .. 7
    BY <1>4 DEF Pci!After
  <2>2. PICK z : z = Pci!CfgPage(d, 0)
    OBVIOUS
  <2>3. z = 8 * d
    BY <2>2 DEF Pci!CfgPage
  <2>4. Pci!Present(8 * d)
    BY <1>4, <2>2, <2>3, PresentIs DEF ScanTypes
  <2>5. space[8 * d][12][3] >= 128
    BY <1>4, <2>4, SeveralIs DEF ScanTypes
  <2>6. at' # <<>> /\ at'[1] = d /\ at'[2] = 1 /\ Pci!Passed' = 0 .. 8 * d + 1 - 1
    BY <1>2, <2>1, Zenon
  <2>7. Pci!Passed' = 0 .. p
    BY <1>4, <2>6
  <2> QED  BY <1>1, <2>1, <2>4, <2>5, <2>6, <2>7 DEF Onward
<1>5. CASE f \in 1 .. 6
  <2>1. PICK g \in 0 .. 7 : g = f + 1
    BY <1>5
  <2>2. at' = <<d, g>>
    BY <1>5, <2>1 DEF Pci!After
  <2>3. Pci!Present(8 * d) /\ space[8 * d][12][3] >= 128
    BY <1>5 DEF Cursor
  <2>4. at' # <<>> /\ at'[1] = d /\ at'[2] = g /\ Pci!Passed' = 0 .. 8 * d + g - 1
    BY <1>2, <2>2, Zenon
  <2>5. Pci!Passed' = 0 .. p
    BY <2>1, <2>4
  <2> QED  BY <1>1, <2>2, <2>3, <2>4, <2>5 DEF Onward
<1>6. CASE f = 7 \/ (f = 0 /\ ~Multi)
  <2>1. \A q \in d * 8 + 1 .. d * 8 + 7 : f = 0 => ~Pci!Reachable(q)
    <3>1. SUFFICES ASSUME f = 0, NEW q \in d * 8 + 1 .. d * 8 + 7  PROVE ~Pci!Reachable(q)
      OBVIOUS
    <3>2. ~(Pci!device_present(d, 0) /\ Pci!is_multifunction(d)) /\ Pci!WellFormed(space)
      BY <1>6, <3>1 DEF ScanTypes
    <3> QED  BY <3>2, NoneBehind, Zenon
  <2>2. ASSUME Pci!Passed' = 0 .. d * 8 + 7
        PROVE  /\ Pci!Passed' \subseteq 0 .. 255 /\ \A q \in 0 .. p : q \in Pci!Passed'
               /\ \A q \in Pci!Passed' : q \in 0 .. p \/ ~Pci!Reachable(q)
    BY <1>6, <2>1, <2>2
  <2>3. CASE d = 31
    <3>1. at' = <<>>
      BY <1>6, <2>3 DEF Pci!After, Pci!NextDev, Pci!MaxDev
    <3>2. Pci!Passed' = 0 .. d * 8 + 7
      BY <1>3, <2>3, <3>1
    <3> QED  BY <1>1, <2>2, <3>1, <3>2 DEF Onward
  <2>4. CASE d # 31
    <3>1. PICK e \in 0 .. 31 : e = d + 1
      BY <2>4
    <3>2. at' = <<e, 0>> /\ 0 \in 0 .. 7
      BY <1>6, <2>4, <3>1 DEF Pci!After, Pci!NextDev, Pci!MaxDev
    <3>3. at' # <<>> /\ at'[1] = e /\ at'[2] = 0 /\ Pci!Passed' = 0 .. 8 * e + 0 - 1
      BY <1>2, <3>2, Zenon
    <3>4. Pci!Passed' = 0 .. d * 8 + 7
      BY <3>1, <3>3
    <3> QED  BY <1>1, <2>2, <3>2, <3>3, <3>4 DEF Onward
  <2> QED  BY <2>3, <2>4
<1>7. f = 0 \/ f \in 1 .. 6 \/ f = 7
  OBVIOUS
<1> QED  BY <1>4, <1>5, <1>6, <1>7, Zenon

\* A list with x behind the others.
Longer(l, x, m) ==
  /\ Len(l) \in Nat /\ DOMAIN l = 1 .. Len(l) /\ DOMAIN m = 1 .. Len(l) + 1
  /\ m[Len(l) + 1] = x /\ \A i \in 1 .. Len(l) : m[i] = l[i]
  /\ m \in Seq({m[i] : i \in DOMAIN m})

\* Append makes a longer list of what was there and one more.
LEMMA AppendIs ==
  ASSUME NEW S, NEW l \in Seq(S), NEW x, NEW m, m = Append(l, x)
  PROVE  Longer(l, x, m)
<1>1. Len(l) \in Nat /\ DOMAIN l = 1 .. Len(l)
  OBVIOUS
<1>2. PICK T : T = S \cup {x}
  OBVIOUS
<1>3. l \in Seq(T) /\ x \in T
  BY <1>2
<1>4. m \in Seq(T) /\ Len(m) = Len(l) + 1
  BY <1>3, AppendProperties
<1>5. m[Len(l) + 1] = x /\ \A i \in 1 .. Len(l) : m[i] = l[i]
  BY <1>3, AppendProperties
<1>6. m \in [1 .. Len(m) -> {m[i] : i \in DOMAIN m}]
  <2>1. PICK U : U = {m[i] : i \in DOMAIN m}
    OBVIOUS
  <2>2. m \in [1 .. Len(m) -> T]
    BY <1>4, LenProperties
  <2>3. \A i \in 1 .. Len(m) : m[i] \in U
    BY <2>1, <2>2
  <2>4. m \in [1 .. Len(m) -> U]
    BY <2>2, <2>3
  <2> QED  BY <2>1, <2>4
<1>7. m \in Seq({m[i] : i \in DOMAIN m})
  <2>1. ASSUME NEW n \in Nat, NEW U, NEW z \in [1 .. n -> U]  PROVE z \in Seq(U)
    OBVIOUS
  <2>2. Len(m) \in Nat
    BY <1>4
  <2> QED  BY <1>6, <2>1, <2>2
<1> QED  BY <1>1, <1>4, <1>5, <1>7 DEF Longer

\* What can be found does not change with the command registers.
LEMMA ReachStays ==
  ASSUME Pci!WellFormed(space), NEW p, Switched(space', p)
  PROVE  /\ DOMAIN space' = DOMAIN space
         /\ \A q \in DOMAIN space : space'[q][0] = space[q][0] /\ space'[q][12] = space[q][12]
         /\ \A q : Pci!Present(q)' <=> Pci!Present(q)
         /\ \A q : Pci!Reachable(q)' <=> Pci!Reachable(q)
<1>1. DOMAIN space' = DOMAIN space
  BY DEF Switched
<1>2. ASSUME NEW q \in DOMAIN space
      PROVE  space'[q][0] = space[q][0] /\ space'[q][12] = space[q][12]
  <2>1. 0 \in DOMAIN space[q] \ {4} /\ 12 \in DOMAIN space[q] \ {4}
    BY DEF Pci!WellFormed, Pci!Registers
  <2>2. CASE q = p
    BY <2>1, <2>2 DEF Switched
  <2>3. CASE q # p
    BY <2>3 DEF Switched
  <2> QED  BY <2>2, <2>3
<1>3. ASSUME NEW q  PROVE Pci!Present(q)' <=> Pci!Present(q)
  BY <1>1, <1>2 DEF Pci!Present
<1>4. ASSUME NEW q  PROVE Pci!Reachable(q)' <=> Pci!Reachable(q)
  <2>1. Pci!Present(8 * (q \div 8))' <=> Pci!Present(8 * (q \div 8))
    BY <1>3
  <2>2. Pci!Present(8 * (q \div 8)) => space'[8 * (q \div 8)][12] = space[8 * (q \div 8)][12]
    BY <1>2 DEF Pci!Present
  <2> QED  BY <1>3, <2>1, <2>2 DEF Pci!Reachable
<1> QED  BY <1>1, <1>2, <1>3, <1>4

\* A visit keeps the list complete and the registers well formed.
LEMMA VisitStep ==
  ASSUME ScanInv, Pci!Visit
  PROVE  ScanInv'
<1>1. PICK d \in 0 .. 31, f \in 0 .. 7, p \in 0 .. 255 :
        /\ at = <<d, f>> /\ p = d * 8 + f /\ p = Pci!CfgPage(d, f) /\ ppc = "scan"
        /\ at' = Pci!After(d, f)
        /\ touched' = IF p > touched THEN p ELSE touched
        /\ IF Pci!device_present(d, f)
           THEN /\ found' = Append(found, Pci!build_desc_node(d, f))
                /\ space' = Pci!ensure_qemu_serial_intx_enabled(d, f)
           ELSE UNCHANGED <<found, space>>
        /\ UNCHANGED <<platform, pages, reported, ppc>>
  BY VisitIs, Zenon DEF ScanInv
<1>2. ScanTypes /\ Cursor /\ Listed /\ reported = <<>> /\ Pci!WellFormed(space)
  BY <1>1 DEF ScanInv, ScanTypes
<1>3. Onward(p)
  BY <1>1, <1>2, NextVisited
<1>4. Switched(space', p)
  <2>1. IF Pci!device_present(d, f)
        THEN space' = Pci!ensure_qemu_serial_intx_enabled(d, f) ELSE space' = space
    BY <1>1
  <2> QED  BY <1>1, <1>2, <2>1, VisitSpace, Zenon
<1>5. /\ DOMAIN space' = DOMAIN space
      /\ \A q \in DOMAIN space : space'[q][0] = space[q][0] /\ space'[q][12] = space[q][12]
      /\ \A q : Pci!Present(q)' <=> Pci!Present(q)
      /\ \A q : Pci!Reachable(q)' <=> Pci!Reachable(q)
  BY <1>2, <1>4, ReachStays, Zenon
<1>6. Pci!device_present(d, f) <=> Pci!Reachable(p)
  <2>1. Pci!device_present(d, f) <=> Pci!Present(p)
    BY <1>1, <1>2, PresentIs, Zenon
  <2>2. p % 8 = f /\ p \div 8 = d
    BY <1>1
  <2>3. f # 0 => Pci!Present(8 * d) /\ space[8 * d][12][3] >= 128
    BY <1>1, <1>2 DEF Cursor
  <2> QED  BY <2>1, <2>2, <2>3 DEF Pci!Reachable
<1>7. PICK S : S = {found[i] : i \in DOMAIN found} /\ found \in Seq(S)
  BY <1>2 DEF ScanTypes
<1>8. ASSUME Pci!device_present(d, f)
      PROVE  Listed' /\ found' \in Seq({found'[i] : i \in DOMAIN found'})
  <2>1. PICK x : x = Pci!build_desc_node(d, f) /\ found' = Append(found, x)
    BY <1>1, <1>8
  <2>2. p \in DOMAIN space /\ x.unit = p /\ x.id = space[p][0]
    <3>1. p \in DOMAIN space
      BY <1>6, <1>8 DEF Pci!Reachable, Pci!Present
    <3>2. 0 \in Pci!Registers
      BY DEF Pci!Registers
    <3> QED  BY <1>1, <1>2, <2>1, <3>1, <3>2 DEF Pci!build_desc_node, Pci!ReadWord, Pci!WellFormed
  <2>3. Longer(found, x, found')
    BY <1>7, <2>1, AppendIs
  <2>4. PICK n \in Nat : n = Len(found) /\ DOMAIN found = 1 .. n /\ DOMAIN found' = 1 .. n + 1
    BY <2>3 DEF Longer
  <2>5. found'[n + 1] = x /\ \A i \in 1 .. n : found'[i] = found[i]
    BY <2>3, <2>4 DEF Longer
  <2>6. ASSUME NEW i \in DOMAIN found', NEW q, q = found'[i].unit
        PROVE  q \in DOMAIN space' \cap Pci!Passed' /\ Pci!Reachable(q)' /\ found'[i].id = space'[q][0]
    <3>1. CASE i = n + 1
      <4>1. found'[i] = x /\ q = p
        BY <2>2, <2>5, <2>6, <3>1
      <4>2. p \in 0 .. p
        BY <1>1
      <4>3. p \in Pci!Passed'
        BY <1>3, <4>2 DEF Onward
      <4>4. Pci!Reachable(p)'
        BY <1>5, <1>6, <1>8
      <4>5. space'[p][0] = space[p][0]
        BY <1>5, <2>2
      <4> QED  BY <1>5, <2>2, <4>1, <4>3, <4>4, <4>5
    <3>2. CASE i \in 1 .. n
      <4>1. q \in DOMAIN space \cap Pci!Passed /\ Pci!Reachable(q) /\ found[i].id = space[q][0]
        BY <1>2, <2>4, <2>5, <2>6, <3>2 DEF Listed
      <4>2. q \in Pci!Passed'
        BY <1>3, <4>1 DEF Onward
      <4> QED  BY <1>5, <2>5, <3>2, <4>1, <4>2
    <3> QED  BY <2>4, <2>6, <3>1, <3>2
  <2>7. ASSUME NEW q \in DOMAIN space' \cap Pci!Passed', Pci!Reachable(q)'
        PROVE  \E i \in DOMAIN found' : found'[i].unit = q
    <3>1. q \in DOMAIN space /\ Pci!Reachable(q) /\ q \in 0 .. p
      <4>1. q \in DOMAIN space /\ Pci!Reachable(q)
        BY <1>5, <2>7
      <4>2. q \in 0 .. p
        BY <1>3, <2>7, <4>1 DEF Onward
      <4> QED  BY <4>1, <4>2
    <3>2. CASE q = p
      BY <2>2, <2>4, <2>5, <3>2
    <3>3. CASE q \in 0 .. p - 1
      <4>1. PICK i \in DOMAIN found : found[i].unit = q
        BY <1>2, <1>3, <3>1, <3>3 DEF Listed, Onward
      <4> QED  BY <2>4, <2>5, <4>1
    <3> QED  BY <3>1, <3>2, <3>3
  <2>8. ASSUME NEW i \in DOMAIN found', NEW j \in DOMAIN found', found'[i].unit = found'[j].unit
        PROVE  i = j
    <3>1. ASSUME NEW k \in 1 .. n  PROVE found'[k].unit # p
      <4>1. found[k].unit \in 0 .. p - 1
        BY <1>2, <1>3, <2>4, <3>1 DEF Listed, Onward
      <4> QED  BY <2>5, <4>1
    <3>2. i \in 1 .. n \/ i = n + 1
      BY <2>4, <2>8
    <3>3. j \in 1 .. n \/ j = n + 1
      BY <2>4, <2>8
    <3>4. CASE i \in 1 .. n /\ j \in 1 .. n
      BY <1>2, <2>4, <2>5, <2>8, <3>4 DEF Listed
    <3> QED  BY <2>2, <2>5, <2>8, <3>1, <3>2, <3>3, <3>4
  <2>9. Listed'
    BY <2>6, <2>7, <2>8 DEF Listed
  <2>10. found' \in Seq({found'[i] : i \in DOMAIN found'})
    BY <2>3 DEF Longer
  <2> QED  BY <2>9, <2>10
<1>9. ASSUME ~Pci!device_present(d, f)
      PROVE  Listed' /\ found' \in Seq({found'[i] : i \in DOMAIN found'})
  <2>1. found' = found
    BY <1>1, <1>9
  <2>2. ASSUME NEW i \in DOMAIN found, NEW q, q = found[i].unit
        PROVE  q \in DOMAIN space' \cap Pci!Passed' /\ Pci!Reachable(q)' /\ found[i].id = space'[q][0]
    <3>1. q \in DOMAIN space \cap Pci!Passed /\ Pci!Reachable(q) /\ found[i].id = space[q][0]
      BY <1>2, <2>2 DEF Listed
    <3> QED  BY <1>3, <1>5, <3>1 DEF Onward
  <2>3. ASSUME NEW q \in DOMAIN space' \cap Pci!Passed', Pci!Reachable(q)'
        PROVE  \E i \in DOMAIN found : found[i].unit = q
    <3>1. q \in DOMAIN space /\ Pci!Reachable(q) /\ q \in 0 .. p
      <4>1. q \in DOMAIN space /\ Pci!Reachable(q)
        BY <1>5, <2>3
      <4>2. q \in 0 .. p
        BY <1>3, <2>3, <4>1 DEF Onward
      <4> QED  BY <4>1, <4>2
    <3>2. q # p
      BY <1>6, <1>9, <3>1
    <3> QED  BY <1>2, <1>3, <3>1, <3>2 DEF Listed, Onward
  <2>4. Listed'
    BY <1>2, <2>1, <2>2, <2>3 DEF Listed
  <2> QED  BY <1>7, <2>1, <2>4
<1>10. ScanTypes'
  <2>1. Pci!WellFormed(space')
    BY <1>2, <1>4, SpaceStays
  <2>2. Pci!WellFormed(space)'
    BY <2>1 DEF Pci!WellFormed, Pci!Registers, Pci!Word
  <2>3. touched' \in 0 .. 255
    BY <1>1, <1>2 DEF ScanTypes
  <2>4. at' # <<>> => \E e \in 0 .. 31, g \in 0 .. 7 : at' = <<e, g>>
    BY <1>3 DEF Onward
  <2> QED  BY <1>1, <1>2, <1>8, <1>9, <2>2, <2>3, <2>4 DEF ScanTypes
<1>11. Cursor'
  <2>1. PICK q : q = 8 * at'[1]
    OBVIOUS
  <2>2. ASSUME at' # <<>>, at'[2] # 0
        PROVE  Pci!Present(q)' /\ space'[q][12][3] >= 128
    <3>1. Pci!Present(q) /\ space[q][12][3] >= 128
      BY <1>3, <2>1, <2>2 DEF Onward
    <3>2. q \in DOMAIN space
      BY <3>1 DEF Pci!Present
    <3> QED  BY <1>5, <3>1, <3>2
  <2> QED  BY <2>1, <2>2 DEF Cursor
<1> QED  BY <1>1, <1>2, <1>8, <1>9, <1>10, <1>11 DEF ScanInv, Pci!Done

\* The list is as complete where the same functions are passed.
LEMMA ListedStays ==
  ASSUME Listed, UNCHANGED <<space, found>>, Pci!Passed' = Pci!Passed
  PROVE  Listed'
<1>1. \A q : (Pci!Present(q)' <=> Pci!Present(q)) /\ (Pci!Reachable(q)' <=> Pci!Reachable(q))
  BY DEF Pci!Present, Pci!Reachable
<1> QED  BY <1>1 DEF Listed

\* The rest of the steps.
LEMMA ScanStep ==
  ASSUME ScanInv, Pci!Next
  PROVE  ScanInv'
<1>1. CASE Pci!Map
  <2>1. UNCHANGED <<platform, space, touched, found, reported>> /\ ppc = "map"
    BY <1>1 DEF Pci!Map
  <2>2. found = <<>> /\ at = <<>> /\ reported = <<>> /\ ScanTypes
    BY <2>1 DEF ScanInv
  <2>3. \/ ppc' = "scan" /\ at' = <<0, 0>> /\ pages' \in Nat
        \/ ppc' = "failed" /\ at' = <<>> /\ pages' \in Nat
    BY <1>1, <2>2, DriversAssumption DEF Pci!Map, Pci!PciScanAssumption, Pci!Window, ScanTypes
  <2>4. Pci!WellFormed(space)'
    BY <2>1, <2>2 DEF ScanTypes, Pci!WellFormed, Pci!Registers, Pci!Word
  <2>5. at' # <<>> => \E d \in 0 .. 31, f \in 0 .. 7 : at' = <<d, f>>
    BY <2>3
  <2>6. ScanTypes'
    BY <2>1, <2>2, <2>3, <2>4, <2>5 DEF ScanTypes
  <2>7. Cursor'
    BY <2>3 DEF Cursor
  <2>8. ppc' = "scan" => Pci!Passed' = {}
    <3>1. at' = <<0, 0>> => at'[1] = 0 /\ at'[2] = 0 /\ at' # <<>>
      OBVIOUS
    <3>2. 0 .. 8 * 0 + 0 - 1 = {}
      OBVIOUS
    <3> QED  BY <2>3, <3>1, <3>2 DEF Pci!Passed
  <2>9. ppc' = "scan" => Listed'
    BY <2>1, <2>2, <2>8 DEF Listed
  <2> QED  BY <2>1, <2>2, <2>3, <2>6, <2>7, <2>9 DEF ScanInv, Pci!Done
<1>2. CASE Pci!Visit
  BY <1>2, VisitStep
<1>3. CASE Pci!Unmap
  <2>1. /\ UNCHANGED <<platform, space, at, touched, found, reported>> /\ ppc = "scan" /\ at = <<>>
        /\ ppc' = IF found = <<>> THEN "running" ELSE "report"
    BY <1>3 DEF Pci!Unmap
  <2>2. ScanTypes /\ Cursor /\ Listed /\ reported = <<>>
    BY <2>1 DEF ScanInv
  <2>3. pages' \in Nat
    BY <1>3, <2>2 DEF Pci!Unmap, ScanTypes
  <2>4. Pci!Passed' = Pci!Passed
    BY <2>1 DEF Pci!Passed
  <2>5. Listed'
    BY <2>1, <2>2, <2>4, ListedStays
  <2>6. Pci!WellFormed(space)'
    BY <2>1, <2>2 DEF ScanTypes, Pci!WellFormed, Pci!Registers, Pci!Word
  <2>7. ScanTypes'
    BY <2>1, <2>2, <2>3, <2>6 DEF ScanTypes
  <2>8. Cursor'
    BY <2>1 DEF Cursor
  <2> QED  BY <2>1, <2>2, <2>5, <2>7, <2>8 DEF ScanInv, Pci!Done
<1>4. CASE Pci!Report
  <2>1. /\ UNCHANGED <<platform, space, pages, at, touched, found>> /\ ppc = "report"
        /\ \/ reported' = found /\ ppc' = "running"
           \/ ppc' = "failed"
    BY <1>4 DEF Pci!Report
  <2>2. ScanTypes /\ Cursor /\ Listed
    BY <2>1 DEF ScanInv
  <2>3. Pci!Passed' = Pci!Passed
    BY <2>1 DEF Pci!Passed
  <2>4. Listed'
    BY <2>1, <2>2, <2>3, ListedStays
  <2>5. Pci!WellFormed(space)'
    BY <2>1, <2>2 DEF ScanTypes, Pci!WellFormed, Pci!Registers, Pci!Word
  <2>6. ScanTypes'
    BY <2>1, <2>2, <2>5 DEF ScanTypes
  <2>7. Cursor'
    BY <2>1, <2>2 DEF Cursor, Pci!Present
  <2> QED  BY <2>1, <2>4, <2>6, <2>7 DEF ScanInv, Pci!Done
<1> QED  BY <1>1, <1>2, <1>3, <1>4 DEF Pci!Next

\* Where no step is taken nothing changes.
LEMMA ScanRest ==
  ASSUME ScanInv, UNCHANGED pciVars
  PROVE  ScanInv'
<1>1. UNCHANGED <<platform, space, pages, at, touched, found, reported, ppc>>
  BY DEF pciVars
<1>2. Pci!Passed' = Pci!Passed
  BY <1>1 DEF Pci!Passed
<1>3. Listed => Listed'
  BY <1>1, <1>2, ListedStays
<1>4. Pci!WellFormed(space) => Pci!WellFormed(space)'
  BY <1>1 DEF Pci!WellFormed, Pci!Registers, Pci!Word
<1>5. ScanTypes'
  BY <1>1, <1>4 DEF ScanInv, ScanTypes
<1>6. Cursor'
  BY <1>1 DEF ScanInv, Cursor, Pci!Present
<1> QED  BY <1>1, <1>3, <1>5, <1>6 DEF ScanInv, Pci!Done

\* What the list says of the machine.
LEMMA ScanPromise == ScanInv => Pci!FunctionsFound
<1> SUFFICES ASSUME ScanInv  PROVE Pci!ScanComplete /\ Pci!InWindow
  BY DEF Pci!FunctionsFound
<1>1. Pci!InWindow
  BY DEF ScanInv, ScanTypes, Pci!InWindow, Pci!Window
<1>2. ASSUME Listed
      PROVE  {found[i].unit : i \in DOMAIN found} = {p \in DOMAIN space \cap Pci!Passed : Pci!Reachable(p)}
  BY <1>2 DEF Listed
<1>3. ASSUME Listed
      PROVE  \A i \in DOMAIN found : found[i].id = space[found[i].unit][0]
  BY <1>3 DEF Listed
<1>4. ASSUME Listed
      PROVE  \A i, j \in DOMAIN found : found[i].unit = found[j].unit => i = j
  BY <1>4 DEF Listed
<1>5. ppc \in {"scan", "report", "running"} => Listed
  BY DEF ScanInv
<1>6. Pci!Done => reported = found
  BY DEF ScanInv
<1>7. Pci!ScanComplete
  BY <1>2, <1>3, <1>4, <1>5, <1>6 DEF Pci!ScanComplete
<1> QED  BY <1>1, <1>7

\* A step changes a serial port's switches and recorded errors, nothing else.
LEMMA SerialPromise ==
  ASSUME ScanTypes, Pci!Next
  PROVE  Pci!OnlySerialChanges
<1>1. CASE Pci!Visit
  <2>1. PICK d \in 0 .. 31, f \in 0 .. 7, p \in 0 .. 255 :
          /\ at = <<d, f>> /\ p = d * 8 + f /\ p = Pci!CfgPage(d, f) /\ ppc = "scan"
          /\ at' = Pci!After(d, f)
          /\ touched' = IF p > touched THEN p ELSE touched
          /\ IF Pci!device_present(d, f)
             THEN /\ found' = Append(found, Pci!build_desc_node(d, f))
                  /\ space' = Pci!ensure_qemu_serial_intx_enabled(d, f)
             ELSE UNCHANGED <<found, space>>
          /\ UNCHANGED <<platform, pages, reported, ppc>>
    BY <1>1, VisitIs, Zenon
  <2> p = Pci!CfgPage(d, f)
    BY <2>1, Zenon
  <2> IF Pci!device_present(d, f)
      THEN space' = Pci!ensure_qemu_serial_intx_enabled(d, f) ELSE space' = space
    BY <2>1
  <2> HIDE <2>1
  <2>2. /\ Switched(space', p)
        /\ space' # space =>
             /\ p \in DOMAIN space /\ space[p][0] = <<54, 27, 2, 0>>
             /\ SwitchedOn(space', p) /\ StatusRest(space', p)
    BY VisitSpace, Zenon
  <2>3. SUFFICES ASSUME NEW q \in DOMAIN space, space'[q] # space[q]
                 PROVE  /\ space[q][0] = <<54, 27, 2, 0>>
                        /\ SubSeq(space'[q][4], 1, 2) = Pci!Enabled(SubSeq(space[q][4], 1, 2))
                        /\ space'[q][4][3] = space[q][4][3]
                        /\ space'[q][4][4] = Pci!ReadOnly(space[q][4][4])
                        /\ \A reg \in DOMAIN space[q] \ {4} : space'[q][reg] = space[q][reg]
    BY DEF Pci!OnlySerialChanges
  <2>4. q = p
    BY <2>2, <2>3 DEF Switched
  <2>5. space[p][0] = <<54, 27, 2, 0>> /\ SwitchedOn(space', p) /\ StatusRest(space', p)
    BY <2>2, <2>3
  <2>6. 4 \in Pci!Registers
    BY DEF Pci!Registers
  <2>7. PICK v, w : v = space[p][4] /\ w = space'[p][4]
    OBVIOUS
  <2>8. v \in Pci!Word /\ w \in Pci!Word
    BY <2>2, <2>3, <2>4, <2>6, <2>7 DEF Switched, ScanTypes, Pci!WellFormed
  <2>9. SubSeq(v, 1, 2) = <<v[1], v[2]>> /\ SubSeq(w, 1, 2) = <<w[1], w[2]>>
    BY <2>8, HalfOf
  <2>10. <<w[1], w[2]>> = Pci!Enabled(<<v[1], v[2]>>)
    BY <2>5, <2>7, Zenon DEF SwitchedOn
  <2>11. SubSeq(w, 1, 2) = Pci!Enabled(SubSeq(v, 1, 2))
    BY <2>9, <2>10, Zenon
  <2>12. \A reg \in DOMAIN space[p] \ {4} : space'[p][reg] = space[p][reg]
    BY <2>2, <2>3, <2>4 DEF Switched
  <2> QED  BY <2>4, <2>5, <2>7, <2>11, <2>12 DEF StatusRest
<1>2. CASE UNCHANGED space
  BY <1>2 DEF Pci!OnlySerialChanges
<1> QED  BY <1>1, <1>2 DEF Pci!Next, Pci!Map, Pci!Unmap, Pci!Report

(* Drivers!FunctionsFound: every function that can be addressed and has    *)
(* been passed is listed, once, with its identity, and nothing else is; no *)
(* access leaves a mapping of the whole bus; whatever machine it is.       *)
THEOREM ScanTheorem == DriversSpec => []FunctionsFound
<1> DEFINE I == driver = "pci" => ScanInv
<1>1. DriversInit => I
  BY ScanInit DEF DriversInit
<1>2. ASSUME I, [DriversNext]_driversVars  PROVE I'
  BY <1>2, Chosen, ScanStep, ScanRest
<1>3. I => FunctionsFound
  BY ScanPromise DEF FunctionsFound
<1> QED  BY <1>1, <1>2, <1>3, PTL DEF DriversSpec

(* Drivers!OthersUntouched: the scan leaves every device as the firmware   *)
(* set it, but for the two switches of a serial port and the errors its    *)
(* status register had recorded, which write_u16 clears.                   *)
THEOREM UntouchedTheorem == DriversSpec => OthersUntouched
<1> DEFINE I == driver = "pci" => ScanInv
<1>1. DriversInit => I
  BY ScanInit DEF DriversInit
<1>2. ASSUME I, [DriversNext]_driversVars  PROVE I'
  BY <1>2, Chosen, ScanStep, ScanRest
<1>3. ASSUME I, [DriversNext]_driversVars
      PROVE  [driver = "pci" => Pci!OnlySerialChanges]_pciVars
  BY <1>3, Chosen, SerialPromise DEF ScanInv
<1> QED  BY <1>1, <1>2, <1>3, PTL DEF DriversSpec, OthersUntouched

\* parse_bars, one register at a time: k is read, the rest of the list follows.
BarStep(d, f, n, k, next, afterNext) ==
  IF k >= n THEN <<>>
  ELSE LET v    == Pci!ReadWord(d, f, 16 + 4 * k)
           wide == Pci!IsWide(v) /\ k + 1 < n
           hi   == IF wide THEN Pci!ReadWord(d, f, 20 + 4 * k) ELSE Pci!Zero
       IN  IF v = Pci!Zero THEN next
           ELSE IF Pci!IsIo(v) THEN Pci!IoRegion(v) \o next
           ELSE Pci!MemRegion(v, hi) \o (IF wide THEN afterNext ELSE next)

\* The equation of parse_bars.
Parses(parse, d, f, header) ==
  parse = [bar \in 0 .. 7 |->
    IF bar >= Pci!Bars(header) THEN <<>>
    ELSE LET v    == Pci!ReadWord(d, f, 16 + 4 * bar)
             wide == Pci!IsWide(v) /\ bar + 1 < Pci!Bars(header)
             hi   == IF wide THEN Pci!ReadWord(d, f, 20 + 4 * bar) ELSE Pci!Zero
         IN  IF v = Pci!Zero THEN parse[bar + 1]
             ELSE IF Pci!IsIo(v) THEN Pci!IoRegion(v) \o parse[bar + 1]
             ELSE Pci!MemRegion(v, hi) \o parse[IF wide THEN bar + 2 ELSE bar + 1]]

\* There is such a list from every register on.
LEMMA ParseIs ==
  ASSUME NEW d, NEW f, NEW h, NEW n, n = Pci!Bars(h)
  PROVE  \E parse : /\ Pci!parse_bars(d, f, h) = parse[0]
                    /\ \A k \in 0 .. 7 : parse[k] = BarStep(d, f, n, k, parse[k + 1], parse[k + 2])
<1>1. n \in {2, 6}
  BY DEF Pci!Bars
<1>2. ASSUME NEW g
      PROVE  Parses(g, d, f, h) <=>
               g = [k \in 0 .. 7 |-> BarStep(d, f, n, k, g[k + 1], g[k + 2])]
  BY DEF Parses, BarStep
<1>3. \E g : Parses(g, d, f, h)
  <2>1. PICK p5 : p5 = BarStep(d, f, n, 5, <<>>, <<>>)
    OBVIOUS
  <2>2. PICK p4 : p4 = BarStep(d, f, n, 4, p5, <<>>)
    OBVIOUS
  <2>3. PICK p3 : p3 = BarStep(d, f, n, 3, p4, p5)
    OBVIOUS
  <2>4. PICK p2 : p2 = BarStep(d, f, n, 2, p3, p4)
    OBVIOUS
  <2>5. PICK p1 : p1 = BarStep(d, f, n, 1, p2, p3)
    OBVIOUS
  <2>6. PICK p0 : p0 = BarStep(d, f, n, 0, p1, p2)
    OBVIOUS
  <2>7. PICK g : g = [k \in 0 .. 7 |-> IF k = 0 THEN p0 ELSE IF k = 1 THEN p1 ELSE IF k = 2 THEN p2
                                     ELSE IF k = 3 THEN p3 ELSE IF k = 4 THEN p4
                                     ELSE IF k = 5 THEN p5 ELSE <<>>]
    OBVIOUS
  <2>8. /\ g[0] = p0 /\ g[1] = p1 /\ g[2] = p2 /\ g[3] = p3 /\ g[4] = p4 /\ g[5] = p5
        /\ g[6] = <<>> /\ g[7] = <<>>
    BY <2>7
  <2>9. ASSUME NEW k \in {6, 7}, NEW x, NEW y  PROVE BarStep(d, f, n, k, x, y) = <<>>
    BY <1>1, <2>9 DEF BarStep
  <2>10. ASSUME NEW k \in 0 .. 7  PROVE g[k] = BarStep(d, f, n, k, g[k + 1], g[k + 2])
    <3>1. k \in {0, 1, 2, 3, 4, 5, 6, 7}
      OBVIOUS
    <3>2. CASE k \in {6, 7}
      BY <2>8, <2>9, <3>2
    <3>3. CASE k = 5
      BY <2>1, <2>8, <3>3
    <3>4. CASE k = 4
      BY <2>2, <2>8, <3>4
    <3>5. CASE k = 3
      BY <2>3, <2>8, <3>5
    <3>6. CASE k = 2
      BY <2>4, <2>8, <3>6
    <3>7. CASE k = 1
      BY <2>5, <2>8, <3>7
    <3>8. CASE k = 0
      BY <2>6, <2>8, <3>8
    <3> QED  BY <3>1, <3>2, <3>3, <3>4, <3>5, <3>6, <3>7, <3>8
  <2>11. g = [k \in 0 .. 7 |-> BarStep(d, f, n, k, g[k + 1], g[k + 2])]
    BY <2>7, <2>10
  <2> QED  BY <1>2, <2>11
<1>4. PICK parse : parse = CHOOSE g : Parses(g, d, f, h)
  OBVIOUS
<1>5. Parses(parse, d, f, h)
  BY <1>3, <1>4
<1>6. Pci!parse_bars(d, f, h) = parse[0]
  BY <1>4 DEF Pci!parse_bars, Parses
<1>7. \A k \in 0 .. 7 : parse[k] = BarStep(d, f, n, k, parse[k + 1], parse[k + 2])
  BY <1>2, <1>5
<1> QED  BY <1>6, <1>7

\* The registers of 0 .. k that start a region.
Starting(T, words, k) ==
  /\ T \subseteq 0 .. k /\ 0 \in T
  /\ \A i \in 1 .. k : i \in T <=> ~(i - 1 \in T /\ Pci!IsWide(words[16 + 4 * (i - 1)]))

\* One register more.
LEMMA StartingMore ==
  ASSUME NEW words, NEW k \in Nat, NEW m, m = k + 1, \E T : Starting(T, words, k)
  PROVE  \E T : Starting(T, words, m)
<1>1. PICK T : Starting(T, words, k)
  OBVIOUS
<1>2. PICK wide \in {0, 1} : wide = 1 <=> Pci!IsWide(words[16 + 4 * k])
  OBVIOUS
<1>3. PICK U : U = IF k \in T /\ wide = 1 THEN T ELSE T \cup {m}
  OBVIOUS
<1>4. m \in Nat /\ m \notin T /\ \A i \in 0 .. k : i \in U <=> i \in T
  BY <1>1, <1>3 DEF Starting
<1>5. U \subseteq 0 .. m /\ 0 \in U /\ (m \in U <=> ~(k \in T /\ wide = 1))
  BY <1>1, <1>3, <1>4 DEF Starting
<1>6. ASSUME NEW i \in 1 .. m
      PROVE  i \in U <=> ~(i - 1 \in U /\ Pci!IsWide(words[16 + 4 * (i - 1)]))
  <2>1. CASE i = m
    <3>1. i - 1 = k
      BY <2>1
    <3>2. k \in U <=> k \in T
      BY <1>4
    <3> QED  BY <1>2, <1>5, <2>1, <3>1, <3>2
  <2>2. CASE i \in 1 .. k
    <3>1. i - 1 \in 0 .. k /\ i \in 0 .. k
      BY <2>2
    <3> QED  BY <1>1, <1>4, <2>2, <3>1 DEF Starting
  <2> QED  BY <1>4, <2>1, <2>2
<1> QED  BY <1>5, <1>6 DEF Starting

\* The equation of Starts.
StartsFrom(starts, words, n) ==
  starts = [i \in 0 .. n - 1 |->
    i > 0 => ~(starts[i - 1] /\ Pci!IsWide(words[16 + 4 * (i - 1)]))]

\* The registers that start a region, one after the other.
LEMMA StartsIs ==
  ASSUME NEW words, NEW n \in {2, 6}
  PROVE  Starting(Pci!Starts(words, n), words, n - 1)
<1>1. \E T : Starting(T, words, n - 1)
  <2>1. \E T : Starting(T, words, 0)
    <3>1. Starting({0}, words, 0)
      BY DEF Starting
    <3> QED  BY <3>1
  <2>2. \E T : Starting(T, words, 1)
    BY <2>1, StartingMore
  <2>3. \E T : Starting(T, words, 2)
    BY <2>2, StartingMore
  <2>4. \E T : Starting(T, words, 3)
    BY <2>3, StartingMore
  <2>5. \E T : Starting(T, words, 4)
    BY <2>4, StartingMore
  <2>6. \E T : Starting(T, words, 5)
    BY <2>5, StartingMore
  <2> QED  BY <2>2, <2>6
<1>2. \E g : StartsFrom(g, words, n)
  <2>1. PICK T : Starting(T, words, n - 1)
    BY <1>1
  <2>2. PICK g : g = [i \in 0 .. n - 1 |-> i \in T]
    OBVIOUS
  <2>3. ASSUME NEW i \in 0 .. n - 1
        PROVE  (i \in T) <=> (i > 0 => ~(g[i - 1] /\ Pci!IsWide(words[16 + 4 * (i - 1)])))
    <3>1. CASE i = 0
      BY <2>1, <3>1 DEF Starting
    <3>2. CASE i > 0
      <4>1. i \in 1 .. n - 1 /\ i - 1 \in 0 .. n - 1
        BY <3>2
      <4>2. g[i - 1] <=> i - 1 \in T
        BY <2>2, <4>1
      <4> QED  BY <2>1, <3>2, <4>1, <4>2 DEF Starting
    <3> QED  BY <3>1, <3>2
  <2>4. [i \in 0 .. n - 1 |-> i \in T]
          = [i \in 0 .. n - 1 |-> i > 0 => ~(g[i - 1] /\ Pci!IsWide(words[16 + 4 * (i - 1)]))]
    BY <2>3
  <2> QED  BY <2>2, <2>4, Zenon DEF StartsFrom
<1>3. PICK starts : starts = CHOOSE g : StartsFrom(g, words, n)
  OBVIOUS
<1>4. StartsFrom(starts, words, n)
  BY <1>2, <1>3
<1>5. PICK S : S = Pci!Starts(words, n)
  OBVIOUS
<1>6. S = {i \in 0 .. n - 1 : starts[i]}
  BY <1>3, <1>5 DEF Pci!Starts, StartsFrom
<1>7. ASSUME NEW i \in 0 .. n - 1
      PROVE  i \in S <=> (i > 0 => ~(starts[i - 1] /\ Pci!IsWide(words[16 + 4 * (i - 1)])))
  BY <1>4, <1>6 DEF StartsFrom
<1>8. ASSUME NEW i \in 1 .. n - 1
      PROVE  i \in S <=> ~(i - 1 \in S /\ Pci!IsWide(words[16 + 4 * (i - 1)]))
  <2>1. i \in 0 .. n - 1 /\ i - 1 \in 0 .. n - 1 /\ i > 0
    OBVIOUS
  <2>2. starts[i - 1] <=> i - 1 \in S
    BY <1>6, <2>1
  <2> QED  BY <1>7, <2>1, <2>2
<1>9. 0 \in S
  BY <1>7
<1> QED  BY <1>5, <1>6, <1>8, <1>9 DEF Starting

Items(s) == {s[j] : j \in DOMAIN s}

\* An item in front of a list.
LEMMA InFront ==
  ASSUME NEW x, NEW l, l \in Seq(Items(l)), NEW m, m = <<x>> \o l
  PROVE  m \in Seq(Items(m)) /\ Items(m) = {x} \cup Items(l)
<1>1. PICK T : T = Items(l) \cup {x}
  OBVIOUS
<1>2. PICK s : s = <<x>>
  OBVIOUS
<1>3. s \in Seq(T) /\ Len(s) = 1 /\ s[1] = x
  BY <1>1, <1>2
<1>4. l \in Seq(T)
  BY <1>1
<1>5. Len(l) \in Nat /\ DOMAIN l = 1 .. Len(l)
  OBVIOUS
<1>6. /\ m \in Seq(T) /\ Len(m) = Len(s) + Len(l)
      /\ \A i \in 1 .. Len(s) + Len(l) : m[i] = IF i <= Len(s) THEN s[i] ELSE l[i - Len(s)]
  BY <1>2, <1>3, <1>4, ConcatProperties
<1>7. DOMAIN m = 1 .. Len(l) + 1
  BY <1>3, <1>5, <1>6
<1>8. m[1] = x /\ \A i \in 1 .. Len(l) : m[i + 1] = l[i]
  BY <1>3, <1>5, <1>6
<1>9. Items(m) = {x} \cup Items(l)
  <2>1. ASSUME NEW y \in Items(m)  PROVE y \in {x} \cup Items(l)
    <3>1. PICK i \in 1 .. Len(l) + 1 : y = m[i]
      BY <1>7, <2>1 DEF Items
    <3>2. CASE i = 1
      BY <1>8, <3>1, <3>2
    <3>3. CASE i # 1
      <4>1. PICK j \in 1 .. Len(l) : i = j + 1
        BY <1>5, <3>1, <3>3
      <4> QED  BY <1>5, <1>8, <3>1, <4>1 DEF Items
    <3> QED  BY <3>2, <3>3
  <2>2. ASSUME NEW i \in 1 .. Len(l)  PROVE l[i] \in Items(m)
    <3>1. i + 1 \in 1 .. Len(l) + 1
      BY <1>5
    <3> QED  BY <1>7, <1>8, <3>1 DEF Items
  <2>3. x \in Items(m)
    <3>1. 1 \in 1 .. Len(l) + 1
      BY <1>5
    <3> QED  BY <1>7, <1>8, <3>1 DEF Items
  <2> QED  BY <1>5, <2>1, <2>2, <2>3 DEF Items
<1>10. m \in Seq(Items(m))
  BY <1>1, <1>6, <1>9
<1> QED  BY <1>9, <1>10

\* The region of register i, as PciScan!Expected has it.
BarWord(words, i)   == words[16 + 4 * i]
BarHigh(words, n, i) ==
  IF Pci!IsWide(BarWord(words, i)) /\ i < n - 1 THEN BarWord(words, i + 1) ELSE Pci!Zero
BarRegion(words, n, i) ==
  LET v == BarWord(words, i)
  IN  IF Pci!IsIo(v) THEN Pci!Region("io", Pci!Masked(v, 4), Pci!Zero, 256)
      ELSE Pci!Region("memory", Pci!Masked(v, 16), BarHigh(words, n, i), 4096)
BarUsed(words, n, i) ==
  LET v == BarWord(words, i)
  IN  /\ v # Pci!Zero
      /\ Pci!IsIo(v) => Pci!HasIoWindow
      /\ ~Pci!IsIo(v) => Pci!Masked(v, 16) # Pci!Zero \/ BarHigh(words, n, i) # Pci!Zero

\* The regions expected are those of the registers in use.
LEMMA ExpectedIs ==
  ASSUME NEW words, NEW n, NEW S, S = Pci!Starts(words, n)
  PROVE  Pci!Expected(words, n) = {BarRegion(words, n, i) : i \in {j \in S : BarUsed(words, n, j)}}
BY Zenon DEF Pci!Expected, BarRegion, BarUsed, BarHigh, BarWord

\* The registers are read as the words have them.
BarReads(d, f, words, n, k) ==
  /\ Pci!ReadWord(d, f, 16 + 4 * k) = BarWord(words, k)
  /\ k + 1 < n => Pci!ReadWord(d, f, 20 + 4 * k) = BarWord(words, k + 1)

\* The list goes on behind the upper half, if there is one.
BarWide(words, n, k) == Pci!IsWide(BarWord(words, k)) /\ k + 1 < n

BarGoesOn(rest, words, n, k, next, afterNext) ==
  rest = IF BarWide(words, n, k) THEN afterNext ELSE next

BarAdds(l, words, n, k, rest) ==
  l = IF BarUsed(words, n, k) THEN <<BarRegion(words, n, k)>> \o rest ELSE rest

\* What one register adds: its region, if it has one.
LEMMA BarStepIs ==
  ASSUME NEW d, NEW f, NEW words, NEW n \in {2, 6}, NEW k \in 0 .. n - 1,
         BarReads(d, f, words, n, k), NEW next, NEW afterNext,
         NEW rest, BarGoesOn(rest, words, n, k, next, afterNext), rest \in Seq(Items(rest)),
         NEW l, l = BarStep(d, f, n, k, next, afterNext)
  PROVE  BarAdds(l, words, n, k, rest)
<1> USE DEF BarAdds, BarGoesOn
<1>1. PICK v : v = BarWord(words, k)
  OBVIOUS
<1>2. PICK hi : hi = BarHigh(words, n, k)
  OBVIOUS
<1>3. hi = IF Pci!IsWide(v) /\ k + 1 < n THEN Pci!ReadWord(d, f, 20 + 4 * k) ELSE Pci!Zero
  <2>1. k < n - 1 <=> k + 1 < n
    OBVIOUS
  <2> QED  BY <1>1, <1>2, <2>1 DEF BarHigh, BarReads
<1>4. ~(k >= n)
  OBVIOUS
<1>5. l =
        IF v = Pci!Zero THEN next
        ELSE IF Pci!IsIo(v) THEN Pci!IoRegion(v) \o next
        ELSE Pci!MemRegion(v, hi) \o rest
  BY <1>1, <1>3, <1>4 DEF BarStep, BarReads, BarWide
<1>6. <<>> \o rest = rest
  BY ConcatEmptySeq
<1>7. CASE v = Pci!Zero
  <2>1. ~Pci!IsWide(v)
    BY <1>7 DEF Pci!IsWide, Pci!Zero
  <2>2. ~BarUsed(words, n, k)
    BY <1>1, <1>7 DEF BarUsed
  <2> QED  BY <1>1, <1>5, <1>7, <2>1, <2>2 DEF BarWide
<1>8. CASE v # Pci!Zero /\ Pci!IsIo(v)
  <2>1. rest = next
    BY <1>1, <1>8 DEF Pci!IsWide, BarWide
  <2>2. BarUsed(words, n, k) <=> Pci!HasIoWindow
    BY <1>1, <1>8 DEF BarUsed
  <2>3. BarRegion(words, n, k) = Pci!Region("io", Pci!Masked(v, 4), Pci!Zero, 256)
    BY <1>1, <1>8 DEF BarRegion
  <2> QED  BY <1>5, <1>6, <1>8, <2>1, <2>2, <2>3 DEF Pci!IoRegion
<1>9. CASE v # Pci!Zero /\ ~Pci!IsIo(v)
  <2>1. BarUsed(words, n, k) <=> ~(Pci!Masked(v, 16) = Pci!Zero /\ hi = Pci!Zero)
    BY <1>1, <1>2, <1>9 DEF BarUsed
  <2>2. BarRegion(words, n, k) = Pci!Region("memory", Pci!Masked(v, 16), hi, 4096)
    BY <1>1, <1>2, <1>9 DEF BarRegion
  <2>3. CASE Pci!Masked(v, 16) = Pci!Zero /\ hi = Pci!Zero
    <3>1. Pci!MemRegion(v, hi) = <<>>
      BY <2>3 DEF Pci!MemRegion
    <3> QED  BY <1>5, <1>6, <1>9, <2>1, <2>3, <3>1, Zenon
  <2>4. CASE ~(Pci!Masked(v, 16) = Pci!Zero /\ hi = Pci!Zero)
    <3>1. Pci!MemRegion(v, hi) = <<BarRegion(words, n, k)>>
      BY <2>2, <2>4 DEF Pci!MemRegion
    <3> QED  BY <1>5, <1>9, <2>1, <2>4, <3>1, Zenon
  <2> QED  BY <2>3, <2>4
<1> QED  BY <1>7, <1>8, <1>9

\* The list l has the regions of the registers from k on.
BarTail(words, n, S, k) ==
  {BarRegion(words, n, i) : i \in {j \in S : j >= k /\ BarUsed(words, n, j)}}
BarsFrom(l, words, n, S, k) ==
  (k < n => k \in S) => l \in Seq(Items(l)) /\ Items(l) = BarTail(words, n, S, k)

\* If the rest of the list is right, so is the list.
LEMMA BarRest ==
  ASSUME NEW d, NEW f, NEW words, NEW n \in {2, 6}, NEW k \in 0 .. n - 1,
         BarReads(d, f, words, n, k), NEW S, Starting(S, words, n - 1),
         NEW next, BarsFrom(next, words, n, S, k + 1),
         NEW afterNext, BarsFrom(afterNext, words, n, S, k + 2),
         NEW l, l = BarStep(d, f, n, k, next, afterNext)
  PROVE  BarsFrom(l, words, n, S, k)
<1> SUFFICES ASSUME k \in S  PROVE l \in Seq(Items(l)) /\ Items(l) = BarTail(words, n, S, k)
  BY DEF BarsFrom
<1>1. PICK rest : rest = IF BarWide(words, n, k) THEN afterNext ELSE next
  OBVIOUS
<1>2. PICK m \in Int : m = IF BarWide(words, n, k) THEN k + 2 ELSE k + 1
  OBVIOUS
<1>3. /\ m < n => m \in S
      /\ \A i \in S : i >= k => i = k \/ i >= m
  <2>1. S \subseteq 0 .. n - 1
    BY DEF Starting
  <2>2. ASSUME NEW i \in 1 .. n - 1
        PROVE  i \in S <=> ~(i - 1 \in S /\ Pci!IsWide(BarWord(words, i - 1)))
    BY <2>2 DEF Starting, BarWord
  <2>3. k + 1 < n => (k + 1 \in S <=> ~Pci!IsWide(BarWord(words, k)))
    <3>1. SUFFICES ASSUME k + 1 < n  PROVE k + 1 \in S <=> ~Pci!IsWide(BarWord(words, k))
      OBVIOUS
    <3>2. PICK i \in 1 .. n - 1 : i = k + 1 /\ i - 1 = k
      BY <3>1
    <3> QED  BY <2>2, <3>2
  <2>4. CASE Pci!IsWide(BarWord(words, k)) /\ k + 1 < n
    <3>1. k + 1 \notin S /\ m = k + 2
      BY <1>2, <2>3, <2>4 DEF BarWide
    <3>2. ASSUME k + 2 < n  PROVE k + 2 \in S
      <4>1. PICK i \in 1 .. n - 1 : i = k + 2 /\ i - 1 = k + 1
        BY <3>2
      <4> QED  BY <2>2, <3>1, <4>1
    <3>3. ASSUME NEW i \in S, i >= k  PROVE i = k \/ i >= k + 2
      <4>1. i \in Int /\ i # k + 1
        BY <2>1, <3>1, <3>3
      <4> QED  BY <3>3, <4>1
    <3> QED  BY <3>1, <3>2, <3>3
  <2>5. CASE ~(Pci!IsWide(BarWord(words, k)) /\ k + 1 < n)
    <3>1. m = k + 1
      BY <1>2, <2>5 DEF BarWide
    <3>2. k + 1 < n => k + 1 \in S
      BY <2>3, <2>5
    <3>3. ASSUME NEW i \in S, i >= k  PROVE i = k \/ i >= k + 1
      <4>1. i \in Int
        BY <2>1, <3>3
      <4> QED  BY <3>3, <4>1
    <3> QED  BY <3>1, <3>2, <3>3
  <2> QED  BY <2>4, <2>5
<1>4. rest \in Seq(Items(rest)) /\ Items(rest) = BarTail(words, n, S, m)
  <2>1. BarsFrom(rest, words, n, S, m)
    BY <1>1, <1>2
  <2> QED  BY <1>3, <2>1 DEF BarsFrom
<1>5. l = IF BarUsed(words, n, k) THEN <<BarRegion(words, n, k)>> \o rest ELSE rest
  <2>1. rest \in Seq(Items(rest))
    BY <1>4
  <2>2. BarGoesOn(rest, words, n, k, next, afterNext)
    BY <1>1 DEF BarGoesOn
  <2>3. BarAdds(l, words, n, k, rest)
    BY <2>1, <2>2, BarStepIs
  <2> QED  BY <2>3 DEF BarAdds
<1>6. PICK r : r = BarRegion(words, n, k)
  OBVIOUS
<1>7. BarTail(words, n, S, k) = (IF BarUsed(words, n, k) THEN {r} ELSE {}) \cup BarTail(words, n, S, m)
  <2>1. S \subseteq Int /\ m > k
    BY <1>2 DEF Starting
  <2>2. \A i \in S : i >= m => i >= k
    BY <2>1
  <2> QED  BY <1>3, <1>6, <2>1, <2>2 DEF BarTail
<1>8. CASE BarUsed(words, n, k)
  <2>1. l = <<r>> \o rest
    BY <1>5, <1>6, <1>8
  <2>2. l \in Seq(Items(l)) /\ Items(l) = {r} \cup Items(rest)
    BY <1>4, <2>1, InFront
  <2> QED  BY <1>4, <1>7, <1>8, <2>2
<1>9. CASE ~BarUsed(words, n, k)
  BY <1>4, <1>5, <1>7, <1>9
<1> QED  BY <1>8, <1>9

\* Behind the last register there is nothing.
LEMMA BarsEnd ==
  ASSUME NEW words, NEW n \in {2, 6}, NEW S, Starting(S, words, n - 1), NEW k \in Nat, k >= n
  PROVE  BarsFrom(<<>>, words, n, S, k)
<1>1. <<>> \in Seq(Items(<<>>)) /\ Items(<<>>) = {}
  BY DEF Items
<1>2. BarTail(words, n, S, k) = {}
  BY DEF BarTail, Starting
<1> QED  BY <1>1, <1>2 DEF BarsFrom

\* Two registers for a bridge, six for a device.
BarCount(words) == IF words[12][3] % 128 = 1 THEN 2 ELSE 6

\* parse_bars lists the regions of the registers that start one.
LEMMA BarsIs ==
  ASSUME Pci!WellFormed(space), NEW d \in 0 .. 31, NEW f \in 0 .. 7, NEW p, p = Pci!CfgPage(d, f),
         p \in DOMAIN space, NEW words, words = space[p],
         NEW n, n = BarCount(words),
         NEW mmios, mmios = Pci!parse_bars(d, f, Pci!ReadByte(d, f, 14))
  PROVE  Items(mmios) = Pci!Expected(words, n)
<1>1. Pci!ReadByte(d, f, 14) = words[12][3]
  <2>1. ReadsThrough(d, f, p)
    BY ReadIs
  <2> QED  BY <2>1 DEF ReadsThrough
<1>2. n \in {2, 6} /\ n = Pci!Bars(Pci!ReadByte(d, f, 14))
  BY <1>1 DEF Pci!Bars, BarCount
<1>3. PICK parse : /\ mmios = parse[0]
                   /\ \A k \in 0 .. 7 : parse[k] = BarStep(d, f, n, k, parse[k + 1], parse[k + 2])
  BY <1>2, ParseIs
<1>4. PICK S : S = Pci!Starts(words, n)
  OBVIOUS
<1>5. Starting(S, words, n - 1)
  BY <1>2, <1>4, StartsIs
<1>6. ASSUME NEW k \in 0 .. 5
      PROVE  Pci!ReadWord(d, f, 16 + 4 * k) = BarWord(words, k)
  <2>1. 16 + 4 * k \in Pci!Registers
    BY DEF Pci!Registers
  <2> QED  BY <2>1 DEF Pci!WellFormed, Pci!ReadWord, BarWord
<1>7. ASSUME NEW k \in 0 .. 4
      PROVE  Pci!ReadWord(d, f, 20 + 4 * k) = BarWord(words, k + 1)
  <2>1. PICK i \in 0 .. 5 : i = k + 1
    OBVIOUS
  <2>2. 20 + 4 * k = 16 + 4 * i
    BY <2>1
  <2> QED  BY <1>6, <2>1, <2>2
<1>8. ASSUME NEW k \in 0 .. 7, k >= n  PROVE BarsFrom(parse[k], words, n, S, k)
  <2>1. parse[k] = <<>>
    BY <1>3, <1>8 DEF BarStep
  <2>2. BarsFrom(<<>>, words, n, S, k)
    <3>1. k \in Nat
      OBVIOUS
    <3> QED  BY <1>2, <1>5, <1>8, <3>1, BarsEnd
  <2> QED  BY <2>1, <2>2, Zenon
<1>9. ASSUME NEW k \in 0 .. 5, BarsFrom(parse[k + 1], words, n, S, k + 1),
             BarsFrom(parse[k + 2], words, n, S, k + 2)
      PROVE  BarsFrom(parse[k], words, n, S, k)
  <2>1. CASE k >= n
    BY <1>8, <2>1
  <2>2. CASE k < n
    <3>1. k \in 0 .. n - 1 /\ k \in 0 .. 7
      BY <1>2, <2>2
    <3>2. k + 1 < n => Pci!ReadWord(d, f, 20 + 4 * k) = BarWord(words, k + 1)
      BY <1>2, <1>7
    <3>3. BarReads(d, f, words, n, k)
      BY <1>6, <3>2 DEF BarReads
    <3>4. parse[k] = BarStep(d, f, n, k, parse[k + 1], parse[k + 2])
      BY <1>3, <3>1
    <3> QED  BY <1>2, <1>5, <1>9, <3>1, <3>3, <3>4, BarRest
  <2> QED  BY <1>2, <2>1, <2>2
<1>10. BarsFrom(parse[7], words, n, S, 7) /\ BarsFrom(parse[6], words, n, S, 6)
  BY <1>2, <1>8
<1>11. BarsFrom(parse[5], words, n, S, 5)
  BY <1>9, <1>10
<1>12. BarsFrom(parse[4], words, n, S, 4)
  BY <1>9, <1>10, <1>11
<1>13. BarsFrom(parse[3], words, n, S, 3)
  BY <1>9, <1>11, <1>12
<1>14. BarsFrom(parse[2], words, n, S, 2)
  BY <1>9, <1>12, <1>13
<1>15. BarsFrom(parse[1], words, n, S, 1)
  BY <1>9, <1>13, <1>14
<1>16. BarsFrom(parse[0], words, n, S, 0)
  BY <1>9, <1>14, <1>15
<1>17. 0 \in S /\ \A i \in S : i >= 0
  BY <1>2, <1>5 DEF Starting
<1>18. Items(mmios) = BarTail(words, n, S, 0)
  BY <1>3, <1>16, <1>17 DEF BarsFrom
<1>19. BarTail(words, n, S, 0) = {BarRegion(words, n, i) : i \in {j \in S : BarUsed(words, n, j)}}
  BY <1>17 DEF BarTail
<1>20. Pci!Expected(words, n) = {BarRegion(words, n, i) : i \in {j \in S : BarUsed(words, n, j)}}
  BY <1>4, ExpectedIs
<1> QED  BY <1>18, <1>19, <1>20, Zenon

-----------------------------------------------------------------------------
(* PciScan: what is said of the functions.                                 *)

Serial(p)    == space[p][0] = <<54, 27, 2, 0>>
Useful(p)    == space[p][4][1] % 2 = 1 /\ (space[p][4][2] \div 4) % 2 = 0

\* The interrupt is the one of the registers, a serial port can be used.
Described(x) ==
  /\ x.unit \in 0 .. 255 /\ x.unit \in DOMAIN space
  /\ x.irq = Pci!Irq(x.unit \div 8, space[x.unit][60][2], space[x.unit][60][1])
  /\ Serial(x.unit) => Useful(x.unit) /\ (Pci!HasIoWindow => x.mmio # <<>>)

\* The regions are those of the registers.
Decoded(x) ==
  Serial(x.unit) \/ Items(x.mmio) = Pci!Expected(space[x.unit], BarCount(space[x.unit]))

DescInv ==
  /\ \A i \in DOMAIN found : Described(found[i])
  /\ found # <<>> => Decoded(found[Len(found)])

Built(x, d, p) ==
  /\ x.unit = p /\ Decoded(x)
  /\ x.irq = Pci!Irq(d, space[p][60][2], space[p][60][1])
  /\ Serial(p) /\ Pci!HasIoWindow => x.mmio # <<>>

\* A description, as it is built.
LEMMA BuiltIs ==
  ASSUME Pci!WellFormed(space), NEW d \in 0 .. 31, NEW f \in 0 .. 7,
         NEW p, p = Pci!CfgPage(d, f), p \in DOMAIN space,
         NEW x, x = Pci!build_desc_node(d, f)
  PROVE  Built(x, d, p)
<1>1. PICK mmios : mmios = Pci!parse_bars(d, f, Pci!ReadByte(d, f, 14))
  OBVIOUS
<1>2. /\ x.unit = d * 8 + f /\ x.mmio = Pci!SerialMmio(d, f, mmios)
      /\ x.irq = Pci!Irq(d, Pci!ReadByte(d, f, 61), Pci!ReadByte(d, f, 60))
  BY <1>1 DEF Pci!build_desc_node
<1>3. x.unit = p
  BY <1>2 DEF Pci!CfgPage
<1>4. Pci!ReadByte(d, f, 60) = space[p][60][1] /\ Pci!ReadByte(d, f, 61) = space[p][60][2]
  <2>1. 60 \in Pci!Registers
    BY DEF Pci!Registers
  <2>2. Pci!ReadWord(d, f, 60) = space[p][60]
    BY <2>1 DEF Pci!ReadWord, Pci!WellFormed
  <2>3. (60 \div 4) * 4 = 60 /\ (60 % 4) + 1 = 1 /\ (61 \div 4) * 4 = 60 /\ (61 % 4) + 1 = 2
    OBVIOUS
  <2> QED  BY <2>2, <2>3 DEF Pci!ReadByte
<1>5. Pci!IsSerial(d, f) <=> Serial(p)
  BY PresentIs, ZenonT(30) DEF Serial
<1>6. Serial(p) /\ Pci!HasIoWindow => x.mmio # <<>>
  BY <1>2, <1>5 DEF Pci!SerialMmio
<1>7. PICK words, n : words = space[p] /\ n = BarCount(words)
  OBVIOUS
<1>8. Items(mmios) = Pci!Expected(words, n)
  <2>1. p \in DOMAIN space /\ p = Pci!CfgPage(d, f)
    OBVIOUS
  <2> QED  BY <1>1, <1>7, <2>1, BarsIs
<1>9. ~Serial(p) => x.mmio = mmios
  BY <1>2, <1>5 DEF Pci!SerialMmio
<1>10. Decoded(x)
  BY <1>3, <1>7, <1>8, <1>9, Zenon DEF Decoded
<1> QED  BY <1>2, <1>3, <1>4, <1>6, <1>10 DEF Built

\* A serial port that was looked at may be used.
LEMMA UsefulIs ==
  ASSUME Pci!WellFormed(space), NEW p \in DOMAIN space, SwitchedOn(space', p)
  PROVE  Useful(p)'
<1>1. PICK v, w : v = space[p][4] /\ w = space'[p][4]
  OBVIOUS
<1>2. 4 \in Pci!Registers
  BY DEF Pci!Registers
<1>3. v[1] \in Byte /\ v[2] \in Byte
  BY <1>1, <1>2 DEF Pci!WellFormed, Pci!Word, Byte
<1>4. <<w[1], w[2]>> = Pci!Enabled(<<v[1], v[2]>>)
  BY <1>1, Zenon DEF SwitchedOn
<1>5. w[1] = v[1] + (1 - (v[1] % 2)) /\ w[2] = v[2] - 4 * ((v[2] \div 4) % 2)
  BY <1>4 DEF Pci!Enabled
<1>6. w[1] % 2 = 1 /\ (w[2] \div 4) % 2 = 0
  BY <1>3, <1>5, SwitchIs
<1> QED  BY <1>1, <1>6 DEF Useful

\* What is expected of registers depends on the platform only.
LEMMA PlatformStays ==
  ASSUME platform' = platform
  PROVE  /\ Pci!HasIoWindow' <=> Pci!HasIoWindow
         /\ \A d, pin, line : Pci!Irq(d, pin, line)' = Pci!Irq(d, pin, line)
         /\ \A words, n : Pci!Expected(words, n)' = Pci!Expected(words, n)
<1>1. Pci!HasIoWindow' <=> Pci!HasIoWindow
  BY DEF Pci!HasIoWindow
<1>2. \A d, pin, line : Pci!Irq(d, pin, line)' = Pci!Irq(d, pin, line)
  BY DEF Pci!Irq, Pci!map_intx_irq
<1>3. \A words, n : Pci!Expected(words, n)' = Pci!Expected(words, n)
  BY <1>1 DEF Pci!Expected
<1> QED  BY <1>1, <1>2, <1>3

\* A description stays true where the words do not change.
LEMMA DescribedStays ==
  ASSUME NEW x, NEW u, u = x.unit, platform' = platform,
         DOMAIN space' = DOMAIN space, space'[u] = space[u]
  PROVE  (Described(x) => Described(x)') /\ (Decoded(x) => Decoded(x)')
<1>1. Pci!HasIoWindow' <=> Pci!HasIoWindow
  BY PlatformStays
<1>2. Pci!Irq(u \div 8, space[u][60][2], space[u][60][1])'
        = Pci!Irq(u \div 8, space[u][60][2], space[u][60][1])
  BY DEF Pci!Irq, Pci!map_intx_irq
<1>3. Serial(u)' <=> Serial(u)
  BY DEF Serial
<1>4. Useful(u)' <=> Useful(u)
  BY DEF Useful
<1>5. PICK words, n : words = space[u] /\ n = BarCount(words)
  OBVIOUS
<1>6. Pci!Expected(words, n)' = Pci!Expected(words, n)
  BY PlatformStays
<1>7. Described(x) => Described(x)'
  BY <1>1, <1>2, <1>3, <1>4 DEF Described
<1>8. Decoded(x) => Decoded(x)'
  BY <1>3, <1>5, <1>6 DEF Decoded, Items, BarCount
<1> QED  BY <1>7, <1>8

\* A visit describes one function more, and leaves the others alone.
LEMMA DescVisit ==
  ASSUME ScanInv, DescInv, Pci!Visit
  PROVE  DescInv'
<1>1. PICK d \in 0 .. 31, f \in 0 .. 7, p \in 0 .. 255 :
        /\ at = <<d, f>> /\ p = d * 8 + f /\ p = Pci!CfgPage(d, f) /\ ppc = "scan"
        /\ at' = Pci!After(d, f)
        /\ touched' = IF p > touched THEN p ELSE touched
        /\ IF Pci!device_present(d, f)
           THEN /\ found' = Append(found, Pci!build_desc_node(d, f))
                /\ space' = Pci!ensure_qemu_serial_intx_enabled(d, f)
           ELSE UNCHANGED <<found, space>>
        /\ UNCHANGED <<platform, pages, reported, ppc>>
  BY VisitIs, Zenon DEF ScanInv
<1>2. ScanTypes /\ Listed /\ Pci!WellFormed(space) /\ platform' = platform
  BY <1>1 DEF ScanInv, ScanTypes
<1>3. PICK S : S = {found[i] : i \in DOMAIN found} /\ found \in Seq(S)
  BY <1>2 DEF ScanTypes
<1>4. CASE Pci!device_present(d, f)
  <2>1. PICK x : x = Pci!build_desc_node(d, f) /\ found' = Append(found, x)
    BY <1>1, <1>4
  <2>2. PICK sp : sp = Pci!ensure_qemu_serial_intx_enabled(d, f) /\ space' = sp
    BY <1>1, <1>4
  <2>3. Pci!Present(p) /\ p \in DOMAIN space
    BY <1>1, <1>2, <1>4, PresentIs, Zenon
  <2>4. /\ Switched(sp, p) /\ (~Pci!IsSerial(d, f) => sp = space)
        /\ Pci!IsSerial(d, f) => SwitchedOn(sp, p)
    <3>1. p = Pci!CfgPage(d, f) /\ sp = Pci!ensure_qemu_serial_intx_enabled(d, f)
      BY <1>1, <2>2
    <3>2. Pci!WellFormed(space)
      BY <1>2
    <3> QED  BY <3>1, <3>2, EnsureIs
  <2>5. Pci!IsSerial(d, f) <=> Serial(p)
    BY <1>1, <1>2, <2>3, PresentIs, ZenonT(30) DEF Serial
  <2>6. /\ x.unit = p /\ Decoded(x)
        /\ x.irq = Pci!Irq(d, space[p][60][2], space[p][60][1])
        /\ Serial(p) /\ Pci!HasIoWindow => x.mmio # <<>>
    <3>1. p = Pci!CfgPage(d, f) /\ x = Pci!build_desc_node(d, f) /\ p \in DOMAIN space
      BY <1>1, <2>1, <2>3
    <3>2. Pci!WellFormed(space)
      BY <1>2
    <3>3. Built(x, d, p)
      BY <3>1, <3>2, BuiltIs
    <3> QED  BY <3>3 DEF Built
  <2>7. /\ DOMAIN space' = DOMAIN space /\ \A q \in DOMAIN space : q # p => space'[q] = space[q]
        /\ space'[p][60] = space[p][60] /\ space'[p][0] = space[p][0]
    <3>1. 60 \in DOMAIN space[p] \ {4} /\ 0 \in DOMAIN space[p] \ {4}
      BY <1>2, <2>3 DEF Pci!WellFormed, Pci!Registers
    <3> QED  BY <2>2, <2>3, <2>4, <3>1 DEF Switched
  <2>8. Serial(p)' <=> Serial(p)
    BY <2>7 DEF Serial
  <2>9. Serial(p) => Useful(p)'
    BY <1>2, <2>2, <2>3, <2>4, <2>5, UsefulIs
  <2>10. Described(x)'
    <3>1. p \div 8 = d
      BY <1>1
    <3>2. Pci!HasIoWindow' <=> Pci!HasIoWindow
      BY <1>2, PlatformStays
    <3>3. x.unit \in 0 .. 255 /\ x.unit \in DOMAIN space' /\ x.unit = p
      BY <2>3, <2>6, <2>7
    <3>4. PICK b, c : b = space[p][60][2] /\ c = space[p][60][1]
      OBVIOUS
    <3>5. b = space'[p][60][2] /\ c = space'[p][60][1] /\ x.irq = Pci!Irq(p \div 8, b, c)
      BY <2>6, <2>7, <3>1, <3>4
    <3>6. x.irq = Pci!Irq(p \div 8, b, c)'
      BY <1>2, <3>5, PlatformStays
    <3>7. Serial(p)' => Useful(p)' /\ (Pci!HasIoWindow' => x.mmio # <<>>)
      BY <2>6, <2>8, <2>9, <3>2
    <3> QED  BY <3>3, <3>5, <3>6, <3>7 DEF Described
  <2>11. Decoded(x)'
    <3>1. CASE Serial(p)
      BY <2>6, <2>8, <3>1 DEF Decoded
    <3>2. CASE ~Serial(p)
      <4>1. space' = space
        BY <2>2, <2>4, <2>5, <3>2
      <4> QED  BY <1>2, <2>6, <4>1, DescribedStays
    <3> QED  BY <3>1, <3>2
  <2>12. Longer(found, x, found')
    BY <1>3, <2>1, AppendIs
  <2>13. PICK n \in Nat : n = Len(found) /\ DOMAIN found = 1 .. n /\ DOMAIN found' = 1 .. n + 1
    BY <2>12 DEF Longer
  <2>14. found'[n + 1] = x /\ \A i \in 1 .. n : found'[i] = found[i]
    BY <2>12, <2>13 DEF Longer
  <2>15. ASSUME NEW i \in 1 .. n  PROVE Described(found[i])'
    <3>1. PICK y, u : y = found[i] /\ u = y.unit
      OBVIOUS
    <3>2. u \in Pci!Passed /\ u \in DOMAIN space /\ Described(y)
      BY <1>2, <2>13, <3>1 DEF Listed, DescInv
    <3>3. u # p
      BY <1>1, <3>2 DEF Pci!Passed
    <3>4. Described(y)'
      BY <1>2, <2>7, <3>1, <3>2, <3>3, DescribedStays
    <3>5. found'[i] = y
      BY <2>14, <3>1
    <3> QED  BY <3>4, <3>5 DEF Described
  <2> QED  BY <2>10, <2>11, <2>13, <2>14, <2>15 DEF DescInv
<1>5. CASE ~Pci!device_present(d, f)
  <2>1. space' = space /\ found' = found
    BY <1>1, <1>5
  <2>2. \A x : (Described(x) => Described(x)') /\ (Decoded(x) => Decoded(x)')
    BY <1>2, <2>1, DescribedStays
  <2> QED  BY <2>1, <2>2 DEF DescInv
<1> QED  BY <1>4, <1>5

\* The other steps leave the descriptions alone.
LEMMA DescStep ==
  ASSUME ScanInv, DescInv, Pci!Next \/ UNCHANGED pciVars
  PROVE  DescInv'
<1>1. CASE UNCHANGED <<platform, space, found>>
  <2>1. \A x : (Described(x) => Described(x)') /\ (Decoded(x) => Decoded(x)')
    BY <1>1, DescribedStays
  <2> QED  BY <1>1, <2>1 DEF DescInv
<1>2. CASE Pci!Visit
  BY <1>2, DescVisit
<1> QED  BY <1>1, <1>2 DEF Pci!Next, Pci!Map, Pci!Unmap, Pci!Report, pciVars

\* What is read of function f of device d is what page u holds.
UnitOf(u, d, f) ==
  /\ d \in 0 .. 31 /\ f \in 0 .. 7 /\ Pci!CfgPage(d, f) = u
  /\ Pci!IsSerial(d, f) <=> Serial(u)
  /\ Pci!ReadByte(d, f, 60) = space[u][60][1] /\ Pci!ReadByte(d, f, 61) = space[u][60][2]
  /\ Pci!ReadByte(d, f, 4) = space[u][4][1] /\ Pci!ReadByte(d, f, 5) = space[u][4][2]

\* A page of the space, by its device and its function.
LEMMA UnitIs ==
  ASSUME Pci!WellFormed(space), NEW u \in 0 .. 255, u \in DOMAIN space,
         NEW d, d = u \div 8, NEW f, f = u % 8
  PROVE  UnitOf(u, d, f)
<1>1. d \in 0 .. 31 /\ f \in 0 .. 7 /\ u = d * 8 + f
  OBVIOUS
<1>2. Pci!CfgPage(d, f) = u
  BY <1>1 DEF Pci!CfgPage
<1>3. {0, 4, 60} \subseteq Pci!Registers
  BY DEF Pci!Registers
<1>4. ASSUME NEW reg \in {0, 4, 60}  PROVE Pci!ReadWord(d, f, reg) = space[u][reg]
  BY <1>2, <1>3 DEF Pci!ReadWord, Pci!WellFormed
<1>5. /\ (60 \div 4) * 4 = 60 /\ (60 % 4) + 1 = 1 /\ (61 \div 4) * 4 = 60 /\ (61 % 4) + 1 = 2
      /\ (4 \div 4) * 4 = 4 /\ (4 % 4) + 1 = 1 /\ (5 \div 4) * 4 = 4 /\ (5 % 4) + 1 = 2
  OBVIOUS
<1>6. /\ Pci!ReadByte(d, f, 60) = space[u][60][1] /\ Pci!ReadByte(d, f, 61) = space[u][60][2]
      /\ Pci!ReadByte(d, f, 4) = space[u][4][1] /\ Pci!ReadByte(d, f, 5) = space[u][4][2]
  BY <1>4, <1>5 DEF Pci!ReadByte
<1>7. Pci!IsSerial(d, f) <=> Serial(u)
  BY <1>4 DEF Pci!IsSerial, Serial
<1> QED  BY <1>1, <1>2, <1>6, <1>7 DEF UnitOf

\* Devices that are neighbours use different interrupts.
LEMMA NeighboursDiffer ==
  ASSUME NEW a \in 0 .. 31, NEW b \in 0 .. 31, NEW pin \in 1 .. 4
  PROVE  /\ Pci!Swizzle(a, pin) \in 32 .. 35
         /\ Pci!Swizzle(a, pin) = Pci!Swizzle(b, pin) <=> a % 4 = b % 4
BY DEF Pci!Swizzle

\* The regions of the function found last.
LEMMA BarsPromise == ScanInv /\ DescInv => Pci!BarsDecoded
<1> SUFFICES ASSUME ScanInv, DescInv, found # <<>>
             PROVE  LET last  == found[Len(found)]
                        words == space[last.unit]
                        n     == IF words[12][3] % 128 = 1 THEN 2 ELSE 6
                    IN  \/ Pci!IsSerial(last.unit \div 8, last.unit % 8)
                        \/ {last.mmio[k] : k \in DOMAIN last.mmio} = Pci!Expected(words, n)
  BY DEF Pci!BarsDecoded
<1>1. PICK last, u : last = found[Len(found)] /\ u = last.unit
  OBVIOUS
<1>2. Len(found) \in DOMAIN found
  <2>1. PICK S : found \in Seq(S)
    BY DEF ScanInv, ScanTypes
  <2> QED  BY <2>1
<1>3. Described(last) /\ Decoded(last)
  BY <1>1, <1>2 DEF DescInv
<1>4. Pci!IsSerial(u \div 8, u % 8) <=> Serial(u)
  <2>1. Pci!WellFormed(space) /\ u \in 0 .. 255 /\ u \in DOMAIN space
    BY <1>1, <1>3 DEF ScanInv, ScanTypes, Described
  <2>2. PICK d, f : d = u \div 8 /\ f = u % 8
    OBVIOUS
  <2>3. UnitOf(u, d, f)
    BY <2>1, <2>2, UnitIs
  <2> QED  BY <2>2, <2>3 DEF UnitOf
<1> QED  BY <1>1, <1>3, <1>4 DEF Decoded, Items, BarCount

\* The interrupts of what is reported.
LEMMA IrqPromise == ScanInv /\ DescInv => Pci!IntxRouted
<1> SUFFICES ASSUME ScanInv, DescInv, Pci!Done  PROVE Pci!IntxRouted
  BY DEF Pci!IntxRouted
<1>1. reported = found /\ Pci!WellFormed(space)
  BY DEF ScanInv, ScanTypes
<1> DEFINE D(k)       == reported[k].unit \div 8
           Byt(k, r)  == Pci!ReadByte(D(k), reported[k].unit % 8, r)
           Own(k)     == reported[k].irq # <<>> /\ Byt(k, 60) \in {0, 255}
<1>2. ASSUME NEW i \in DOMAIN reported, Own(i)
      PROVE  /\ D(i) \in 0 .. 31 /\ Byt(i, 61) \in 1 .. 4
             /\ reported[i].irq = <<Pci!Swizzle(D(i), Byt(i, 61))>>
  <2>1. PICK u, x : x = reported[i] /\ u = x.unit /\ Described(x)
    BY <1>1 DEF DescInv
  <2>2. u \in 0 .. 255 /\ u \in DOMAIN space
    BY <2>1 DEF Described
  <2>3. PICK d, f : d = u \div 8 /\ f = u % 8
    OBVIOUS
  <2>4. /\ d \in 0 .. 31
        /\ Pci!ReadByte(d, f, 60) = space[u][60][1] /\ Pci!ReadByte(d, f, 61) = space[u][60][2]
    <3>1. UnitOf(u, d, f)
      BY <1>1, <2>2, <2>3, UnitIs
    <3> QED  BY <3>1 DEF UnitOf
  <2>5. PICK pin, line : pin = space[u][60][2] /\ line = space[u][60][1]
    OBVIOUS
  <2>6. x.irq = Pci!Irq(d, pin, line) /\ x.irq # <<>> /\ line \in {0, 255}
    BY <1>2, <2>1, <2>3, <2>4, <2>5 DEF Described
  <2>7. pin \in 1 .. 4 /\ x.irq = <<Pci!Swizzle(d, pin)>>
    BY <2>6 DEF Pci!Irq, Pci!map_intx_irq
  <2>8. D(i) = d /\ Byt(i, 61) = pin
    BY <2>1, <2>3, <2>4, <2>5
  <2> QED  BY <2>1, <2>4, <2>7, <2>8
<1> HIDE DEF D, Byt, Own
<1>3. ASSUME NEW i \in DOMAIN reported, Own(i)  PROVE reported[i].irq[1] \in 32 .. 35
  <2>1. PICK d \in 0 .. 31, pin \in 1 .. 4 : d = D(i) /\ pin = Byt(i, 61)
    BY <1>2, <1>3
  <2>2. Pci!Swizzle(d, pin) \in 32 .. 35
    BY DEF Pci!Swizzle
  <2> QED  BY <1>2, <1>3, <2>1, <2>2
<1>4. ASSUME NEW i \in DOMAIN reported, NEW j \in DOMAIN reported,
             Own(i), Own(j), Byt(i, 61) = Byt(j, 61)
      PROVE  reported[i].irq = reported[j].irq <=> D(i) % 4 = D(j) % 4
  <2>1. PICK a \in 0 .. 31, b \in 0 .. 31, pin \in 1 .. 4 :
          a = D(i) /\ b = D(j) /\ pin = Byt(i, 61) /\ pin = Byt(j, 61)
    BY <1>2, <1>4
  <2>2. reported[i].irq = <<Pci!Swizzle(a, pin)>> /\ reported[j].irq = <<Pci!Swizzle(b, pin)>>
    BY <1>2, <1>4, <2>1
  <2>3. Pci!Swizzle(a, pin) = Pci!Swizzle(b, pin) <=> a % 4 = b % 4
    BY NeighboursDiffer
  <2> QED  BY <2>1, <2>2, <2>3
<1> QED  BY <1>3, <1>4 DEF Pci!IntxRouted, D, Byt, Own

\* The serial ports of what is reported.
LEMMA SerialsPromise == ScanInv /\ DescInv => Pci!SerialUsable
<1> SUFFICES ASSUME ScanInv, DescInv, Pci!Done, NEW i \in DOMAIN reported,
                    NEW u, u = reported[i].unit, NEW d, d = u \div 8, NEW f, f = u % 8,
                    Pci!IsSerial(d, f)
             PROVE  /\ Pci!HasIoWindow => reported[i].mmio # <<>>
                    /\ Pci!ReadByte(d, f, 4) % 2 = 1 /\ (Pci!ReadByte(d, f, 5) \div 4) % 2 = 0
  BY DEF Pci!SerialUsable
<1>1. reported = found /\ Pci!WellFormed(space)
  BY DEF ScanInv, ScanTypes
<1>2. Described(reported[i])
  BY <1>1 DEF DescInv
<1>3. u \in 0 .. 255 /\ u \in DOMAIN space
  BY <1>2 DEF Described
<1>4. /\ Serial(u)
      /\ Pci!ReadByte(d, f, 4) = space[u][4][1] /\ Pci!ReadByte(d, f, 5) = space[u][4][2]
  <2>1. d = u \div 8 /\ f = u % 8
    OBVIOUS
  <2>2. UnitOf(u, d, f)
    BY <1>1, <1>3, <2>1, UnitIs
  <2> QED  BY <2>2 DEF UnitOf
<1> QED  BY <1>2, <1>4 DEF Described, Useful

(* Drivers!FunctionsDescribed: what is said of a function is what its      *)
(* registers say: regions, wide ones as one, interrupts, and a serial port *)
(* that can be used; whatever functions there are.                         *)
THEOREM DescribedTheorem == DriversSpec => []FunctionsDescribed
<1> DEFINE I == driver = "pci" => ScanInv /\ DescInv
<1>1. DriversInit => I
  BY ScanInit DEF DriversInit, Pci!Init, DescInv
<1>2. ASSUME I, [DriversNext]_driversVars  PROVE I'
  BY <1>2, Chosen, ScanStep, ScanRest, DescStep
<1>3. I => FunctionsDescribed
  BY BarsPromise, IrqPromise, SerialsPromise DEF FunctionsDescribed, Pci!FunctionsDescribed
<1> QED  BY <1>1, <1>2, <1>3, PTL DEF DriversSpec

-----------------------------------------------------------------------------
(* The service around a device.                                            *)
(*                                                                         *)
(* For every number of clients, slots, page and buffer size and set-up     *)
(* that fails: what it offers is there, the buffer exactly when its size   *)
(* fits, and a settled client keeps its ring.                              *)

-----------------------------------------------------------------------------
(* The invariant.                                                          *)

\* Where the device is put in its place, and where interrupts are bound.
ReadyAt == CASE kind = "uart" -> 6 [] kind = "ramdisk" -> 3 [] OTHER -> 9
BoundAt == 5

\* Start-up has done what lies before its next step.
Started ==
  /\ kind \in Kinds
  /\ step \in Nat /\ step > 0
  /\ step > ReadyAt => ready
  /\ step > BoundAt => irqBound \/ kind \in {"uart", "ramdisk"}
  /\ visible => step > ReadyAt + 1

Places  == 0 .. Slots + 1
Servers == [frame : Nat, notify : 0 .. slots, by : Clients]

\* The slots and what is in them; the GPU never has a bound client.
Capabilities ==
  /\ slots \in 0 .. Slots /\ frames \in Nat
  /\ held \in [Places -> Clients \cup {None}]
  /\ ring \in Servers \cup {None}
  /\ bound \in Clients \cup {None}
  /\ kind = "gpu" => bound = None

\* A ring that signals through a slot of its own is intact, and so is the
\* ring of a settled client.
RingKept ==
  /\ kind \in {"block", "net", "gpu"} /\ ring # None => Intact
  /\ settled \in BOOLEAN
  /\ settled => bound # None /\ ring \in Servers /\ ring.by = bound /\ Intact

IInv == Started /\ Capabilities /\ RingKept
-----------------------------------------------------------------------------
(* Starting.                                                               *)

\* Where the steps that matter are in the list of each driver.
LEMMA BootIs ==
  ASSUME kind \in Kinds
  PROVE  /\ Len(Boot) = ReadyAt + 1
         /\ \A i \in 1 .. ReadyAt + 1 :
              /\ Boot[i] = "ready" <=> i = ReadyAt
              /\ Boot[i] = "register" <=> i = ReadyAt + 1
         /\ kind \notin {"uart", "ramdisk"} => Boot[BoundAt] = "bind"
<1>1. CASE kind = "block"
  BY <1>1 DEF Boot, BlockBoot, ReadyAt, BoundAt
<1>2. CASE kind = "net"
  BY <1>2 DEF Boot, NetBoot, ReadyAt, BoundAt
<1>3. CASE kind = "gpu"
  BY <1>3 DEF Boot, GpuBoot, ReadyAt, BoundAt
<1>4. CASE kind = "uart"
  BY <1>4 DEF Boot, UartBoot, ReadyAt, BoundAt
<1>5. CASE kind = "ramdisk"
  BY <1>5 DEF Boot, RamdiskBoot, ReadyAt, BoundAt
<1> QED  BY <1>1, <1>2, <1>3, <1>4, <1>5 DEF Kinds

\* A step that was taken did what it is for.
LEMMA StartedStep ==
  ASSUME Started, BootStep
  PROVE  Started'
<1>0. /\ ready' <=> (ready \/ Boot[step] = "ready")
      /\ irqBound' <=> (irqBound \/ Boot[step] = "bind")
      /\ visible' <=> (visible \/ Boot[step] = "register")
  BY Zenon DEF BootStep
<1>1. kind \in Kinds /\ kind' = kind /\ step \in 1 .. ReadyAt + 1 /\ step' = step + 1
  BY BootIs DEF Started, BootStep
<1>2. ReadyAt' = ReadyAt /\ ReadyAt \in {3, 6, 9}
  BY <1>1 DEF ReadyAt
<1>3. step' > ReadyAt' => ready'
  BY <1>0, <1>1, <1>2, BootIs DEF Started
<1>4. step' > BoundAt => irqBound' \/ kind' \in {"uart", "ramdisk"}
  BY <1>0, <1>1, <1>2, BootIs DEF Started, BoundAt
<1>5. visible' => step' > ReadyAt' + 1
  BY <1>0, <1>1, <1>2, BootIs DEF Started
<1> QED  BY <1>1, <1>3, <1>4, <1>5 DEF Started

\* A tolerated failure skips to the step that puts the UART in its place.
LEMMA StartedFail ==
  ASSUME Started, BootFail
  PROVE  Started'
<1>1. /\ kind \in Kinds /\ step \in 1 .. ReadyAt + 1
      /\ UNCHANGED <<kind, irqBound, ready, visible>>
  BY BootIs DEF Started, BootFail
<1>2. ReadyAt' = ReadyAt /\ ReadyAt \in {3, 6, 9}
  BY <1>1 DEF ReadyAt
<1>3. CASE Tolerated
  <2>1. kind = "uart" /\ ReadyAt = 6 /\ Boot[step] \in {"get_irq", "bind"}
    BY <1>3 DEF Tolerated, ReadyAt
  <2>2. step' = 6
    <3>1. step' = (CHOOSE i \in 1 .. Len(Boot) : Boot[i] = "ready")
      BY <1>3 DEF BootFail
    <3> QED  BY <3>1, <1>1, <2>1, BootIs
  <2>3. ~visible
    <3>1. step # 7
      BY <2>1, <1>1, BootIs
    <3> QED  BY <2>1, <1>1, <3>1 DEF Started
  <2> QED  BY <1>1, <1>2, <2>1, <2>2, <2>3 DEF Started
<1>4. CASE ~Tolerated
  <2>1. step' = step
    BY <1>4 DEF BootFail
  <2> QED  BY <1>1, <1>2, <2>1 DEF Started
<1> QED  BY <1>3, <1>4

\* What leaves the start-up alone leaves it where it was.
LEMMA StartedFrame ==
  ASSUME Started, UNCHANGED <<kind, irqBound, ready, visible, step>>
  PROVE  Started'
BY DEF Started, ReadyAt, BoundAt

-----------------------------------------------------------------------------
(* Setting up a ring or a buffer.                                          *)

\* The ring is mapped by the last step of a set-up and by no other, after the
\* endpoint was taken; where a slot is allocated for it, that comes first.
LEMMA RingStepsAre ==
  ASSUME kind \in Kinds
  PROVE  /\ Len(RingSteps) \in 3 .. 5
         /\ RingSteps[1] = "slot" <=> kind \in {"block", "net", "gpu"}
         /\ \A n \in 0 .. Len(RingSteps) : Does(RingSteps, n, "map") <=> n = Len(RingSteps)
         /\ \A n \in 0 .. Len(RingSteps) :
              n = Len(RingSteps) \/ Does(RingSteps, n, "map") => Does(RingSteps, n, "take")
<1>1. CASE kind = "block"
  BY <1>1 DEF RingSteps, BlockRing, Does
<1>2. CASE kind = "net"
  BY <1>2 DEF RingSteps, NetRing, Does
<1>3. CASE kind = "gpu"
  BY <1>3 DEF RingSteps, GpuRing, Does
<1>4. CASE kind = "uart"
  BY <1>4 DEF RingSteps, UartRing, Does
<1>5. CASE kind = "ramdisk"
  BY <1>5 DEF RingSteps, RamdiskRing, Does
<1> QED  BY <1>1, <1>2, <1>3, <1>4, <1>5 DEF Kinds

\* What the buffer takes; the GPU takes nobody's capability.
LEMMA BufferStepsAre ==
  ASSUME kind \in Kinds
  PROVE  /\ Len(BufferSteps) = (IF kind = "net" THEN 3 ELSE 2)
         /\ BufferSteps[1] = "slot" <=> kind \in {"block", "net", "gpu"}
<1> QED
  BY DEF Kinds, BufferSteps, BlockBuffer, NetBuffer, GpuBuffer, UartBuffer, RamdiskBuffer

\* The slots allocated by the first steps, of which there is one at least if
\* the first of them allocates.
LEMMA TakenCount ==
  ASSUME NEW steps, NEW n \in Nat
  PROVE  /\ Cardinality(Taken(steps, n)) \in Nat
         /\ n > 0 /\ steps[1] = "slot" => Cardinality(Taken(steps, n)) > 0
<1>1. IsFiniteSet(1 .. n) /\ Taken(steps, n) \subseteq 1 .. n
  BY FS_Interval DEF Taken
<1>2. IsFiniteSet(Taken(steps, n)) /\ Cardinality(Taken(steps, n)) \in Nat
  BY <1>1, FS_Subset, FS_CardinalityType
<1>3. ASSUME n > 0, steps[1] = "slot" PROVE Cardinality(Taken(steps, n)) # 0
  <2>1. 1 \in Taken(steps, n)
    BY <1>3 DEF Taken
  <2> QED  BY <2>1, <1>2, FS_EmptySet
<1> QED  BY <1>2, <1>3

\* A slot of held is overwritten.
Put(h, s, c) == [h EXCEPT ![s] = c]

\* What a set-up that ends after its first steps has done.
LEMMA RingCallDoes ==
  ASSUME kind \in Kinds, Capabilities, NEW c \in Clients, NEW n \in 0 .. Len(RingSteps), RingCall(c, n)
  PROVE  LET seat == IF kind \in {"block", "net", "gpu"} THEN slots + 1 ELSE 0
             all  == n = Len(RingSteps)
         IN  /\ slots' \in slots .. Slots /\ (n > 0 => seat \in 0 .. slots')
             /\ frames' \in Nat
             /\ held' = held \/ (n > 0 /\ held' = Put(held, seat, c))
             /\ all => /\ held' = Put(held, seat, c)
                       /\ mapped' = frames + 1
                       /\ ring' = [frame |-> frames + 1, notify |-> seat, by |-> c]
             /\ ~all => mapped' = mapped /\ ring' = ring
             /\ settled' = (c # Badge0 /\ (settled \/ (all /\ c = bound)))
<1> DEFINE seat == IF kind \in {"block", "net", "gpu"} THEN slots + 1 ELSE 0
           all  == n = Len(RingSteps)
<1>1. seat = (IF RingSteps[1] = "slot" THEN slots + 1 ELSE FixedNotify) /\ n \in Nat
  BY RingStepsAre DEF FixedNotify
<1>2. slots \in Nat /\ frames \in Nat
  BY DEF Capabilities
<1>3. PICK k : k = Cardinality(Taken(RingSteps, n))
  OBVIOUS
<1>4. k \in Nat /\ (n > 0 /\ RingSteps[1] = "slot" => k > 0)
  BY <1>1, <1>3, TakenCount
<1>5. slots' = slots + k /\ slots' <= Slots
  BY <1>3 DEF RingCall
<1>6. slots' \in slots .. Slots /\ (n > 0 => seat \in 0 .. slots')
  BY <1>1, <1>2, <1>4, <1>5, RingStepsAre
<1>7. /\ held' = IF Does(RingSteps, n, "take") THEN Put(held, seat, c) ELSE held
      /\ frames' = IF Does(RingSteps, n, "frame") THEN frames + 1 ELSE frames
      /\ mapped' = IF Does(RingSteps, n, "map") THEN frames + 1 ELSE mapped
      /\ ring' = IF all THEN [frame |-> frames + 1, notify |-> seat, by |-> c] ELSE ring
  <2>1. PICK a : a = IF RingSteps[1] = "slot" THEN slots + 1 ELSE FixedNotify
    OBVIOUS
  <2>2. /\ held' = IF Does(RingSteps, n, "take") THEN Put(held, a, c) ELSE held
        /\ frames' = IF Does(RingSteps, n, "frame") THEN frames + 1 ELSE frames
        /\ mapped' = IF Does(RingSteps, n, "map") THEN frames + 1 ELSE mapped
        /\ ring' = IF n = Len(RingSteps)
                     THEN [frame |-> frames + 1, notify |-> a, by |-> c] ELSE ring
    BY <2>1 DEF RingCall, Put
  <2> QED  BY <2>1, <2>2, <1>1
<1>10. frames' \in Nat
  BY <1>2, <1>7
<1>11. settled' = (c # Badge0 /\ (settled \/ (all /\ c = bound)))
  BY Zenon DEF RingCall
<1>9. Does(RingSteps, n, "take") => n > 0
  BY <1>1 DEF Does
<1> QED  BY <1>6, <1>7, <1>9, <1>10, <1>11, RingStepsAre

\* Overwriting a slot changes that slot.
LEMMA PutIs ==
  ASSUME NEW h \in [Places -> Clients \cup {None}], NEW s \in Places, NEW c \in Clients
  PROVE  /\ Put(h, s, c) \in [Places -> Clients \cup {None}] /\ Put(h, s, c)[s] = c
         /\ \A x \in Places : x # s => Put(h, s, c)[x] = h[x]
BY DEF Put

\* A ring stays intact when its slot is not overwritten, or by its owner.
LEMMA StaysIntact ==
  ASSUME Capabilities, ring \in Servers, Intact, ring' = ring, mapped' = mapped,
         NEW s \in Places, NEW c \in Clients,
         held' = held \/ held' = Put(held, s, c),
         s = ring.notify => c = ring.by
  PROVE  Intact'
<1>1. ring.notify \in Places
  BY ServiceAssumption DEF Capabilities, Servers, Places
<1>2. held \in [Places -> Clients \cup {None}]
  BY DEF Capabilities
<1>3. held'[ring.notify] = ring.by
  <2>1. held[ring.notify] = ring.by
    BY DEF Intact
  <2>2. CASE held' = held
    BY <2>1, <2>2
  <2>3. CASE held' = Put(held, s, c)
    BY <2>1, <2>3, <1>1, <1>2, PutIs
  <2> QED  BY <2>2, <2>3
<1> QED  BY <1>3 DEF Intact

\* A complete set-up makes an intact ring of its caller's, an incomplete one
\* leaves the ring of the settled client, and any ring with a slot of its own.
LEMMA RingSetup ==
  ASSUME IInv, NEW c \in Clients, SetupRing(c)
  PROVE  Capabilities' /\ RingKept'
<1>1. PICK n \in 0 .. Len(RingSteps) : RingCall(c, n)
  BY DEF SetupRing
<1>2. kind \in Kinds /\ Capabilities /\ RingKept /\ kind' = kind /\ bound' = bound
  BY DEF IInv, Started, SetupRing, starting
<1>3. PICK seat \in Nat : seat = (IF kind \in {"block", "net", "gpu"} THEN slots + 1 ELSE 0)
  BY <1>2 DEF Capabilities
<1>4. /\ slots' \in slots .. Slots /\ (n > 0 => seat \in 0 .. slots')
      /\ frames' \in Nat
      /\ held' = held \/ (n > 0 /\ held' = Put(held, seat, c))
      /\ n = Len(RingSteps) =>
                /\ held' = Put(held, seat, c)
                /\ mapped' = frames + 1
                /\ ring' = [frame |-> frames + 1, notify |-> seat, by |-> c]
      /\ n # Len(RingSteps) => mapped' = mapped /\ ring' = ring
      /\ settled' = (c # Badge0 /\ (settled \/ (n = Len(RingSteps) /\ c = bound)))
  BY <1>1, <1>2, <1>3, RingCallDoes
<1>5. /\ slots \in Nat /\ slots <= Slots /\ frames \in Nat
      /\ held \in [Places -> Clients \cup {None}]
      /\ slots' \in Nat /\ slots' <= Slots /\ slots <= slots'
      /\ n > 0 => seat \in Places /\ seat \in 0 .. slots'
  BY <1>2, <1>4, ServiceAssumption DEF Capabilities, Places
<1>6. n = Len(RingSteps) => n > 0
  BY <1>2, RingStepsAre
<1>7. ring \in Servers => ring \in Servers'
  BY <1>5 DEF Servers
<1>8. CASE n = Len(RingSteps)
  <2>1. n > 0 /\ held' = Put(held, seat, c) /\ mapped' = frames + 1 /\ seat \in Places
        /\ ring' = [frame |-> frames + 1, notify |-> seat, by |-> c]
    BY <1>3, <1>4, <1>5, <1>6, <1>8
  <2>2. ring' \in Servers'
    BY <1>5, <2>1 DEF Servers
  <2>3. Intact'
    BY <1>5, <2>1, PutIs DEF Intact
  <2>4. held' \in [Places -> Clients \cup {None}]
    BY <1>5, <2>1, PutIs
  <2>5. Capabilities'
    BY <1>2, <1>4, <1>5, <2>2, <2>4 DEF Capabilities, Places
  <2>6. ring'.by = c
    BY <2>1
  <2>7. settled' => bound # None /\ c = bound
    <3>1. settled' => c # Badge0 /\ (settled \/ c = bound)
      BY <1>4
    <3>2. settled => bound # None
      BY <1>2 DEF RingKept
    <3>3. c = bound => bound # None
      BY ServiceAssumption
    <3>4. c # Badge0 /\ bound # None => c = bound
      BY <1>2 DEF SetupRing, Permitted, Capabilities
    <3> QED  BY <3>1, <3>2, <3>3, <3>4
  <2> QED  BY <1>2, <1>4, <2>2, <2>3, <2>5, <2>6, <2>7 DEF RingKept
<1>9. CASE n # Len(RingSteps)
  <2>1. /\ mapped' = mapped /\ ring' = ring
        /\ held' = held \/ (seat \in Places /\ held' = Put(held, seat, c))
        /\ settled' = (c # Badge0 /\ settled)
    BY <1>4, <1>5, <1>9
  <2>2. held' \in [Places -> Clients \cup {None}]
    BY <1>5, <2>1, PutIs
  <2>3. Capabilities'
    BY <1>2, <1>4, <1>5, <1>7, <2>1, <2>2 DEF Capabilities, Places
  <2>4. ASSUME ring \in Servers, Intact, seat = ring.notify => c = ring.by
        PROVE  Intact'
    <3>1. CASE held' = held
      BY <3>1, <2>1, <2>4 DEF Intact
    <3>2. CASE seat \in Places /\ held' = Put(held, seat, c)
      BY <3>2, <2>1, <2>4, <1>2, StaysIntact
    <3> QED  BY <2>1, <3>1, <3>2
  <2>5. kind \in {"block", "net", "gpu"} /\ ring # None => Intact'
    <3>1. SUFFICES ASSUME kind \in {"block", "net", "gpu"}, ring # None PROVE Intact'
      OBVIOUS
    <3>2. ring \in Servers /\ Intact
      BY <3>1, <1>2 DEF Capabilities, RingKept
    <3>3. seat # ring.notify
      BY <3>1, <3>2, <1>3, <1>5 DEF Servers
    <3> QED  BY <2>4, <3>2, <3>3
  <2>6. settled' => bound # None /\ ring' \in Servers' /\ ring'.by = bound /\ Intact'
    <3>1. SUFFICES ASSUME settled' PROVE bound # None /\ ring \in Servers' /\ ring.by = bound /\ Intact'
      BY <2>1
    <3>2. c # Badge0 /\ bound # None /\ ring \in Servers /\ ring.by = bound /\ Intact
      BY <2>1, <3>1, <1>2 DEF RingKept
    <3>3. c = bound
      BY <3>2, <1>2 DEF SetupRing, Permitted, Capabilities
    <3> QED  BY <2>4, <3>2, <3>3, <1>7
  <2>7. settled' \in BOOLEAN
    BY <2>1
  <2> QED  BY <1>2, <2>1, <2>3, <2>5, <2>6, <2>7 DEF RingKept
<1> QED  BY <1>8, <1>9

\* A buffer takes a slot nothing is in, or the fixed one that is no ring's.
LEMMA BufferSetup ==
  ASSUME IInv, NEW c \in Clients, NEW size \in Nat, SetupBuffer(c, size)
  PROVE  Capabilities' /\ RingKept'
<1>1. /\ kind \in Kinds /\ Capabilities /\ RingKept
      /\ UNCHANGED <<kind, bound, frames, mapped, ring, settled>>
  BY DEF IInv, Started, SetupBuffer, starting
<1>2. PICK seat \in Nat : seat = (IF kind \in {"block", "net", "gpu"} THEN slots + 1 ELSE Slots + 1)
  BY <1>1, ServiceAssumption DEF Capabilities
<1>3. PICK n \in 0 .. Len(BufferSteps) :
        /\ slots' = slots + Cardinality(Taken(BufferSteps, n)) /\ slots' <= Slots
        /\ \/ held' = Put(held, IF BufferSteps[1] = "slot" THEN slots + 1 ELSE FixedBuffer, c)
           \/ held' = held
  BY DEF SetupBuffer, Put
<1>4. n \in Nat /\ (IF BufferSteps[1] = "slot" THEN slots + 1 ELSE FixedBuffer) = seat
  BY <1>1, <1>2, <1>3, BufferStepsAre DEF FixedBuffer
<1>4a. held' = Put(held, seat, c) \/ held' = held
  BY Zenon, <1>3, <1>4
<1>5. PICK k : k = Cardinality(Taken(BufferSteps, n))
  OBVIOUS
<1>6. k \in Nat
  BY <1>4, <1>5, TakenCount
<1>7. slots \in Nat /\ slots' \in Nat /\ slots <= slots' /\ slots' <= Slots
  BY <1>1, <1>3, <1>5, <1>6, ServiceAssumption DEF Capabilities
<1>8. seat \in Places /\ (held' = held \/ held' = Put(held, seat, c))
  BY <1>1, <1>2, <1>4a, ServiceAssumption DEF Places, Capabilities
<1>9. held \in [Places -> Clients \cup {None}]
  BY <1>1 DEF Capabilities
<1>10. held' \in [Places -> Clients \cup {None}]
  BY <1>8, <1>9, PutIs
<1>11. ring \in Servers => ring \in Servers'
  BY <1>7 DEF Servers
<1>12. Capabilities'
  BY <1>1, <1>7, <1>10, <1>11, ServiceAssumption DEF Capabilities, Places
<1>13. ring \in Servers /\ Intact => Intact'
  <2>1. SUFFICES ASSUME ring \in Servers, Intact PROVE Intact'
    OBVIOUS
  <2>2. seat # ring.notify
    BY <1>1, <1>2, <1>7, <2>1, ServiceAssumption DEF Servers, Capabilities
  <2> QED  BY <1>1, <1>8, <2>1, <2>2, StaysIntact
<1> QED  BY <1>1, <1>11, <1>12, <1>13 DEF RingKept, Capabilities

\* What touches no capability, or only binds a client, keeps every ring.
LEMMA RingFrame ==
  ASSUME Capabilities, RingKept, UNCHANGED <<kind, ringing, settled>>,
         bound' = bound \/ (bound = None /\ bound' \in Clients /\ kind # "gpu")
  PROVE  Capabilities' /\ RingKept'
<1>1. UNCHANGED <<kind, settled, slots, held, frames, mapped, ring>>
  BY DEF ringing
<1>2. Servers' = Servers /\ (Intact' <=> Intact)
  BY <1>1 DEF Servers, Intact
<1>3. Capabilities'
  BY <1>1, <1>2 DEF Capabilities
<1>4. settled => bound' = bound
  BY DEF RingKept
<1> QED  BY <1>1, <1>2, <1>3, <1>4 DEF RingKept

\* The server of the GPU is lost: there is no ring that has to be intact, and
\* no client was settled, since the GPU binds none.
LEMMA RingLost ==
  ASSUME Capabilities, RingKept, LoseRing
  PROVE  Capabilities' /\ RingKept'
<1>1. UNCHANGED <<kind, bound, settled, slots, held, frames, mapped>> /\ ring' = None /\ bound = None
  BY DEF LoseRing, Capabilities, starting
<1>2. settled' = FALSE
  BY <1>1 DEF RingKept
<1>3. Capabilities'
  BY <1>1 DEF Capabilities
<1> QED  BY <1>1, <1>2, <1>3 DEF RingKept

-----------------------------------------------------------------------------
(* The invariant holds.                                                    *)

\* Nothing has been set up when the process starts.
LEMMA InitIInv == Init => IInv
<1> SUFFICES ASSUME Init PROVE IInv
  OBVIOUS
<1>1. Started
  BY DEF Init, Started, ReadyAt, BoundAt
<1>2. held \in [Places -> Clients \cup {None}]
  BY DEF Init, Places
<1>3. Capabilities
  BY <1>2, ServiceAssumption DEF Init, Capabilities
<1> QED  BY <1>1, <1>3 DEF Init, IInv, RingKept

\* Every step keeps the invariant.
LEMMA NextIInv == IInv /\ [Next]_vars => IInv'
<1> SUFFICES ASSUME IInv, [Next]_vars PROVE IInv'
  OBVIOUS
<1>0. Started /\ Capabilities /\ RingKept
  BY DEF IInv
<1>1. CASE BootStep \/ BootFail
  <2>1. UNCHANGED <<kind, ringing, settled, bound>>
    BY <1>1 DEF BootStep, BootFail
  <2> QED  BY <1>0, <1>1, <2>1, StartedStep, StartedFail, RingFrame DEF IInv
<1>2. CASE Run
  <2>1. UNCHANGED <<kind, step, irqBound, ready, visible, ringing, settled, bound>>
    BY <1>2 DEF Run
  <2> QED  BY <1>0, <2>1, StartedFrame, RingFrame DEF IInv
<1>3. ASSUME NEW c \in Clients, Identify(c) PROVE IInv'
  <2>1. UNCHANGED <<kind, step, irqBound, ready, visible, ringing, settled>>
    BY <1>3 DEF Identify, starting
  <2>2. bound' = bound \/ (bound = None /\ bound' \in Clients /\ kind # "gpu")
    BY <1>3 DEF Identify
  <2> QED  BY <1>0, <2>1, <2>2, StartedFrame, RingFrame DEF IInv
<1>4. ASSUME NEW c \in Clients, SetupRing(c) PROVE IInv'
  <2>1. UNCHANGED <<kind, step, irqBound, ready, visible>>
    BY <1>4 DEF SetupRing, starting
  <2> QED  BY <1>0, <1>4, <2>1, StartedFrame, RingSetup DEF IInv
<1>5. ASSUME NEW c \in Clients, NEW size \in Sizes[kind], SetupBuffer(c, size) PROVE IInv'
  <2>1. UNCHANGED <<kind, step, irqBound, ready, visible>>
    BY <1>5 DEF SetupBuffer, starting
  <2>2. size \in Nat
    BY <1>0, <1>5, ServiceAssumption DEF Started
  <2> QED  BY <1>0, <1>5, <2>1, <2>2, StartedFrame, BufferSetup DEF IInv
<1>6. CASE LoseRing
  <2>1. UNCHANGED <<kind, step, irqBound, ready, visible>>
    BY <1>6 DEF LoseRing, starting
  <2> QED  BY <1>0, <1>6, <2>1, StartedFrame, RingLost DEF IInv
<1>7. CASE UNCHANGED vars
  <2>1. UNCHANGED <<kind, step, irqBound, ready, visible, ringing, settled, bound>>
    BY <1>7 DEF vars, starting
  <2> QED  BY <1>0, <2>1, StartedFrame, RingFrame DEF IInv
<1> QED  BY <1>1, <1>2, <1>3, <1>4, <1>5, <1>6, <1>7 DEF Next, Call

\* The invariant holds of every behaviour.
LEMMA Invariance == Spec => []IInv
BY InitIInv, NextIInv, PTL DEF Spec

-----------------------------------------------------------------------------
(* What is mapped of the buffer.                                           *)

\* Whole pages never exceed the size they are taken from, and are all of it
\* exactly when nothing remains; rounding up gives an integer.
LEMMA Rounds ==
  ASSUME NEW n \in Nat
  PROVE  /\ n <= (n \div Page) * Page <=> n % Page = 0
         /\ Round(n) \in Int
<1>1. Page \in Nat \ {0}
  BY ServiceAssumption
<1>2. n \div Page \in Int /\ n % Page \in 0 .. Page - 1
  BY <1>1
<1>3. n = Page * (n \div Page) + (n % Page)
  BY <1>1
<1>4. (n \div Page) * Page \in Int /\ (n \div Page) * Page = Page * (n \div Page)
  BY <1>1, <1>2
<1>5. (n + Page - 1) \div Page \in Int
  BY <1>1
<1>6. Round(n) \in Int
  BY <1>1, <1>5 DEF Round
<1>7. n <= (n \div Page) * Page <=> n % Page = 0
  <2>1. PICK w \in Int : w = (n \div Page) * Page
    BY <1>4
  <2>2. n = w + (n % Page)
    BY <1>3, <1>4, <2>1
  <2> QED  BY <1>2, <2>1, <2>2
<1> QED  BY <1>6, <1>7

\* A buffer is recorded with what is mapped of it.
LEMMA BufferStep ==
  ASSUME kind \in Kinds, BufferMapped, [Next]_vars
  PROVE  BufferMapped'
<1>0. kind' = kind
  <2>1. CASE BootStep \/ BootFail \/ Run \/ LoseRing
    BY <2>1 DEF BootStep, BootFail, Run, LoseRing, starting
  <2>2. CASE \E c \in Clients : Call(c)
    BY <2>2 DEF Call, Identify, SetupRing, SetupBuffer, starting
  <2>3. CASE UNCHANGED vars
    BY <2>3 DEF vars, starting
  <2> QED  BY <2>1, <2>2, <2>3 DEF Next
<1>1. CASE buf' = buf
  BY <1>0, <1>1 DEF BufferMapped, Fits
<1>2. ASSUME NEW c \in Clients, NEW size \in Sizes[kind], SetupBuffer(c, size), buf' # buf
      PROVE  BufferMapped'
  <2>1. size \in Nat /\ Page \in Nat
    BY <1>2, ServiceAssumption
  <2>2. \/ kind = "net" /\ buf' = NetShm(size)
        \/ kind = "uart" /\ buf' = UartShm(size)
        \/ kind = "ramdisk" /\ buf' = RamdiskShm(size)
    BY <1>2 DEF SetupBuffer
  <2>3. CASE kind = "net" /\ buf' = NetShm(size)
    BY <1>0, <2>1, <2>3, Rounds DEF BufferMapped, Fits, NetShm
  <2>4. CASE kind = "uart" /\ buf' = UartShm(size)
    BY <1>0, <2>1, <2>4 DEF BufferMapped, Fits, UartShm
  <2>5. CASE kind = "ramdisk" /\ buf' = RamdiskShm(size)
    BY <1>0, <2>1, <2>5, Rounds DEF BufferMapped, Fits, RamdiskShm
  <2> QED  BY <2>2, <2>3, <2>4, <2>5
<1>3. \/ buf' = buf
      \/ \E c \in Clients : \E size \in Sizes[kind] : SetupBuffer(c, size)
  <2>1. CASE BootStep \/ BootFail \/ Run \/ LoseRing
    BY <2>1 DEF BootStep, BootFail, Run, LoseRing
  <2>2. CASE \E c \in Clients : Call(c)
    BY <2>2 DEF Call, Identify, SetupRing
  <2>3. CASE UNCHANGED vars
    BY <2>3 DEF vars
  <2> QED  BY <2>1, <2>2, <2>3 DEF Next
<1> QED  BY <1>1, <1>2, <1>3

-----------------------------------------------------------------------------
(* What the service offers is there (server.rs and main.rs of the five     *)
(* drivers): a registered device is initialised and its interrupts arrive; *)
(* a ring with a slot of its own is mapped and signals the client that set *)
(* it up, whichever step of a later set-up fails; what is recorded of the  *)
(* buffer is mapped exactly when it is whole pages (net), at most a page   *)
(* (uart) or any size (ramdisk), whatever sizes clients ask for.           *)
THEOREM SoundTheorem == Spec => []ServiceSound
<1>1. Init => BufferMapped
  BY DEF Init, BufferMapped
<1>2. IInv /\ BufferMapped /\ [Next]_vars => BufferMapped'
  BY BufferStep DEF IInv, Started
<1>3. IInv /\ BufferMapped => ServiceSound
  <2>1. IInv => RegisteredReady
    BY DEF IInv, Started, RegisteredReady, ReadyAt, BoundAt, Kinds
  <2> QED  BY <2>1 DEF IInv, RingKept, RingIntact, ServiceSound
<1> QED  BY <1>1, <1>2, <1>3, Invariance, PTL DEF Spec

(* A client that was bound before it set up its ring keeps it, in the      *)
(* drivers that put every ring's endpoint into one slot too: only its own  *)
(* set-ups, and those of the holder of an unbadged endpoint, pass the      *)
(* check of dispatch, and its own put the same endpoint there again.       *)
THEOREM SettledTheorem == Spec => []SettledRing
<1>1. IInv => SettledRing
  BY DEF IInv, RingKept, SettledRing
<1> QED  BY <1>1, Invariance, PTL
=============================================================================
