-------------------------------- MODULE Rtc --------------------------------
(***************************************************************************)
(* The goldfish RTC service (timer/goldfish-rtc): a 64 bit time and alarm  *)
(* in two registers each, accessed one after the other while the clock     *)
(* runs, and the alarm's interrupt, which the service receives like a call *)
(* it does not know.                                                       *)
(***************************************************************************)
EXTENDS Integers

CONSTANTS
  W,         \* how many values a register has
  MaxTime,   \* bound on the time
  MaxCalls,  \* bound on the calls
  None

Alarms == [at : Nat, clean : BOOLEAN]

RtcAssumption ==
  W \in Nat \ {0} /\ MaxTime \in Nat /\ MaxCalls \in Nat /\ None \notin Alarms

VARIABLES
  time,      \* the device's time
  latch,     \* the high word kept when the low one is read
  newLow,    \* the low word of a time that is being set
  low, high, \* the alarm registers
  enabled,   \* the interrupt enable register
  fired,     \* the alarm has gone off since it was written
  masked,    \* the kernel waits for an acknowledgement
  pc,        \* the next access of the service, "idle" between calls
  arg,       \* the argument of the call
  part,      \* the low word read
  begun,     \* the time when the call began
  wanted,    \* the alarm clients want: [at, clean], clean if none was enabled before
  answer,    \* the last time answered, and when it was asked for
  calls

device  == <<time, latch, newLow, low, high, enabled, fired, masked>>
service == <<pc, arg, part, begun, wanted, answer, calls>>
vars    == <<device, service>>

Times == 0 .. MaxTime

Init ==
  /\ time \in Times /\ latch = 0 /\ newLow = 0
  /\ low = 0 /\ high = 0 /\ enabled = FALSE /\ fired = FALSE /\ masked = FALSE
  /\ pc = "idle" /\ arg = 0 /\ part = 0 /\ begun = 0 /\ wanted = None /\ answer = None /\ calls = 0

Low(t)  == t % W
High(t) == t \div W

-----------------------------------------------------------------------------
(* The device and the kernel.                                              *)

Tick ==
  /\ time < MaxTime
  /\ time' = time + 1
  /\ UNCHANGED <<latch, newLow, low, high, enabled, fired, masked, service>>

Alarm == low + W * high

\* The alarm goes off once, whatever the driver has written of it so far.
Fire ==
  /\ enabled /\ ~fired /\ time >= Alarm
  /\ fired' = TRUE
  /\ UNCHANGED <<time, latch, newLow, low, high, enabled, masked, service>>

\* The notification comes to the endpoint as a message; dispatch knows no
\* such call, answers with an error, and nothing acknowledges the interrupt.
Interrupt ==
  /\ fired /\ ~masked /\ pc = "idle"
  /\ masked' = TRUE
  /\ UNCHANGED <<time, latch, newLow, low, high, enabled, fired, service>>

-----------------------------------------------------------------------------
(* The calls, one register access at a time.                               *)

Begin(first, a) ==
  /\ pc = "idle" /\ calls < MaxCalls
  /\ pc' = first /\ arg' = a /\ begun' = time /\ calls' = calls + 1
  /\ answer' = None

GetTime ==
  Begin("get_low", 0) /\ UNCHANGED <<device, part, wanted>>

\* A slip to detect: the high word is read first.
ReadHighFirst ==
  /\ \/ /\ pc = "get_low" /\ part' = latch /\ pc' = "get_high"
        /\ answer' = answer /\ latch' = latch
     \/ /\ pc = "get_high" /\ latch' = High(time) /\ pc' = "idle" /\ part' = part
        /\ answer' = [time |-> W * part + Low(time), from |-> begun, to |-> time]
  /\ UNCHANGED <<time, newLow, low, high, enabled, fired, masked, arg, begun, wanted, calls>>

ReadTime ==
  /\ \/ /\ pc = "get_low" /\ part' = Low(time) /\ latch' = High(time) /\ pc' = "get_high"
        /\ UNCHANGED answer
     \/ /\ pc = "get_high" /\ pc' = "idle" /\ UNCHANGED <<part, latch>>
        /\ answer' = [time |-> W * latch + part, from |-> begun, to |-> time]
  /\ UNCHANGED <<time, newLow, low, high, enabled, fired, masked, arg, begun, wanted, calls>>

SetTime == \E t \in Times : Begin("set_low", t) /\ UNCHANGED <<device, part, wanted>>

\* The time jumps when its high word is written.
WriteTime ==
  /\ \/ pc = "set_low" /\ newLow' = Low(arg) /\ pc' = "set_high" /\ UNCHANGED time
     \/ pc = "set_high" /\ time' = W * High(arg) + newLow /\ pc' = "idle" /\ UNCHANGED newLow
  /\ UNCHANGED <<latch, low, high, enabled, fired, masked, arg, part, begun, wanted, answer, calls>>

SetAlarm ==
  \E t \in Times :
    /\ Begin("alarm_low", t) /\ UNCHANGED <<device, part>>
    /\ wanted' = [at |-> t, clean |-> ~enabled]

WriteAlarm ==
  /\ \/ /\ pc = "alarm_low" /\ low' = Low(arg) /\ fired' = FALSE /\ pc' = "alarm_high"
        /\ UNCHANGED <<high, enabled>>
     \/ /\ pc = "alarm_high" /\ high' = High(arg) /\ fired' = FALSE /\ pc' = "alarm_on"
        /\ UNCHANGED <<low, enabled>>
     \/ pc = "alarm_on" /\ enabled' = TRUE /\ pc' = "idle" /\ UNCHANGED <<low, high, fired>>
  /\ UNCHANGED <<time, latch, newLow, masked, arg, part, begun, wanted, answer, calls>>

StopAlarm == Begin("stop", 0) /\ UNCHANGED <<device, part, wanted>>

WriteStop ==
  /\ \/ pc = "stop" /\ enabled' = FALSE /\ pc' = "clear" /\ UNCHANGED <<fired, wanted>>
     \/ pc = "clear" /\ fired' = FALSE /\ wanted' = None /\ pc' = "idle" /\ UNCHANGED enabled
  /\ UNCHANGED <<time, latch, newLow, low, high, masked, arg, part, begun, answer, calls>>

Next == \/ Tick \/ Fire \/ Interrupt
        \/ GetTime \/ SetTime \/ SetAlarm \/ StopAlarm
        \/ ReadTime \/ WriteTime \/ WriteAlarm \/ WriteStop

Spec == Init /\ [][Next]_vars

-----------------------------------------------------------------------------
(***************************************************************************)
(* Properties                                                              *)
(***************************************************************************)

(* The time answered was the device's at a moment of the call, although it *)
(* is read in two halves and may carry from one to the other between them. *)
TimeIsNow ==
  answer # None => answer.from <= answer.time /\ answer.time <= answer.to

(* An alarm that was set while none was enabled goes off at its time or    *)
(* later, never with half of it written.  (A time set back later does not  *)
(* make it early.)                                                         *)
FiresInTime == ~fired /\ fired' /\ wanted # None /\ wanted.clean => time >= wanted.at

(* After an alarm was stopped nothing goes off until one is set again.     *)
StoppedIsQuiet == wanted = None => ~fired

(* What clients see of the clock is true of it, although every value takes *)
(* two accesses: times read, alarms that go off, alarms that do not.       *)
ClockSteps == TimeIsNow' /\ StoppedIsQuiet' /\ FiresInTime
ClockTrue  == [][ClockSteps]_vars
=============================================================================
