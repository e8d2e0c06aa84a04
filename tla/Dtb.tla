-------------------------------- MODULE Dtb --------------------------------
(***************************************************************************)
(* The device tree platform driver (platform/dtb): at start-up it looks    *)
(* for thermal zones and for a way to switch the machine off, lists the    *)
(* nodes of the tree for the device manager, registers what it offers, and *)
(* then answers calls.  A tree is a sequence of nodes in the order of the  *)
(* blob, a parent before its children.                                     *)
(***************************************************************************)
EXTENDS Integers, Sequences

CONSTANTS
  Blobs,     \* the trees that occur: [nodes, zones]
  MaxCalls,  \* bound on the calls of clients
  None

\* A tree has a root, and a parent comes before its children.
Tree(b) ==
  /\ b.nodes \in Seq([parent : Nat, comp : Seq(STRING), sbi : BOOLEAN]) /\ b.nodes # <<>>
  /\ b.nodes[1].parent = 0
  /\ \A i \in 2 .. Len(b.nodes) : b.nodes[i].parent \in 1 .. i - 1

DtbAssumption ==
  /\ MaxCalls \in Nat /\ None \notin {"sbi", "psci", "syscon"}
  /\ \A b \in Blobs : Tree(b)

VARIABLES
  blob,      \* the device tree: nodes of [parent, comp, sbi], zones of [class, trips]
  pc,        \* "map", "power", "tree", "report", "platform", "thermal", "run" or "failed"
  at,        \* the node looked at for power methods
  off, boot, method,   \* has_power_off, has_reboot, power_method
  zones,     \* thermal_zones
  work,      \* calls of parse_node to come: <<node, index of the parent>>
  devices,   \* the list so far: <<node, index of the parent>>
  reported,  \* what the device manager was told
  logic,     \* the logical devices registered
  answer,    \* the last call and its answer
  calls

vars == <<blob, pc, at, off, boot, method, zones, work, devices, reported, logic, answer, calls>>

Nodes == DOMAIN blob.nodes

Init ==
  /\ blob \in Blobs /\ pc = "map" /\ at = 1
  /\ off = FALSE /\ boot = FALSE /\ method = None
  /\ zones = <<>> /\ work = <<>> /\ devices = <<>> /\ reported = <<>>
  /\ logic = {} /\ answer = None /\ calls = 0

-----------------------------------------------------------------------------
(* DriverService::init: the blob, thermal zones, power methods.            *)

ThermalType(class) == IF class \in {"cpu", "gpu"} THEN class ELSE "board"
TripType(type)     == IF type \in {"passive", "active", "hot", "critical"} THEN type ELSE "passive"
Zone(z) == [type |-> ThermalType(z.class), trips |-> [i \in DOMAIN z.trips |-> TripType(z.trips[i])]]

\* The registers, the mapping or the blob may be bad.
MapBlob ==
  /\ pc = "map"
  /\ \/ /\ zones' = [i \in DOMAIN blob.zones |-> Zone(blob.zones[i])]
        /\ pc' = "power"
     \/ pc' = "failed" /\ UNCHANGED zones
  /\ UNCHANGED <<blob, at, off, boot, method, work, devices, reported, logic, answer, calls>>

Power == [off |-> off, boot |-> boot, method |-> method]

\* A slip to detect: the first method found is kept.
FoundFirst(p, c) ==
  LET m(new) == IF p.method = None THEN new ELSE p.method
  IN  CASE c \in {"psci", "sbi"} -> [off |-> TRUE, boot |-> TRUE, method |-> m(c)]
        [] c = "gpio-poweroff"   -> [p EXCEPT !.off = TRUE, !.method = m("gpio")]
        [] c = "gpio-restart"    -> [p EXCEPT !.boot = TRUE, !.method = m("gpio")]
        [] c = "syscon-reboot"   -> [p EXCEPT !.boot = TRUE, !.method = m("syscon")]
        [] OTHER                 -> p

Found(p, c) ==
  CASE c \in {"psci", "sbi"} -> [off |-> TRUE, boot |-> TRUE, method |-> c]
    [] c = "gpio-poweroff"   -> [p EXCEPT !.off = TRUE, !.method = "gpio"]
    [] c = "gpio-restart"    -> [p EXCEPT !.boot = TRUE, !.method = "gpio"]
    [] c = "syscon-reboot"   -> [p EXCEPT !.boot = TRUE, !.method = "syscon"]
    [] OTHER                 -> p

\* The compatible strings of a node in order, then its name.
Names(n) == n.comp \o (IF n.sbi THEN <<"sbi">> ELSE <<>>)

FoundAll(p, names) ==
  LET found[i \in 0 .. Len(names)] == IF i = 0 THEN p ELSE Found(found[i - 1], names[i])
  IN  found[Len(names)]

PowerNode ==
  /\ pc = "power" /\ at <= Len(blob.nodes)
  /\ LET p == FoundAll(Power, Names(blob.nodes[at]))
     IN  off' = p.off /\ boot' = p.boot /\ method' = p.method
  /\ at' = at + 1
  /\ UNCHANGED <<blob, pc, zones, work, devices, reported, logic, answer, calls>>

-----------------------------------------------------------------------------
(* probe: parse_node, depth first.                                         *)

\* The device manager's index of a node that has no parent.
NoParent == None

Probe ==
  /\ pc = "power" /\ at > Len(blob.nodes)
  /\ pc' = "tree" /\ work' = <<<<1, NoParent>>>>
  /\ UNCHANGED <<blob, at, off, boot, method, zones, devices, reported, logic, answer, calls>>

\* The children of a node in the order of the blob, to be visited with index.
Children(n, index) ==
  LET child[i \in 1 .. Len(blob.nodes) + 1] ==
        IF i > Len(blob.nodes) THEN <<>>
        ELSE (IF blob.nodes[i].parent = n THEN <<<<i, index>>>> ELSE <<>>) \o child[i + 1]
  IN  child[1]

\* The index of the entry about to be pushed; indices count from 0.
Current == Len(devices)

ParseNode ==
  /\ pc = "tree" /\ work # <<>>
  /\ devices' = Append(devices, Head(work))
  /\ work' = Children(Head(work)[1], Current) \o Tail(work)
  /\ UNCHANGED <<blob, pc, at, off, boot, method, zones, reported, logic, answer, calls>>

-----------------------------------------------------------------------------
(* SystemService::init: each call may fail and then ends the driver.       *)

Report ==
  /\ pc = "tree" /\ work = <<>>
  /\ \/ reported' = devices /\ pc' = "platform"
     \/ pc' = "failed" /\ UNCHANGED reported
  /\ UNCHANGED <<blob, at, off, boot, method, zones, work, devices, logic, answer, calls>>

OffersPower == off \/ boot

RegisterPlatform ==
  /\ pc = "platform"
  /\ \/ /\ logic' = IF OffersPower THEN logic \cup {"platform"} ELSE logic
        /\ pc' = "thermal"
     \/ OffersPower /\ pc' = "failed" /\ UNCHANGED logic
  /\ UNCHANGED <<blob, at, off, boot, method, zones, work, devices, reported, answer, calls>>

RegisterThermal ==
  /\ pc = "thermal"
  /\ \/ /\ logic' = IF zones # <<>> THEN logic \cup {"thermal"} ELSE logic
        /\ pc' = "run"
     \/ zones # <<>> /\ pc' = "failed" /\ UNCHANGED logic
  /\ UNCHANGED <<blob, at, off, boot, method, zones, work, devices, reported, answer, calls>>

-----------------------------------------------------------------------------
(* The calls of those who have the endpoint, which any logical device      *)
(* gives them.                                                             *)

Reply(call, a) ==
  /\ pc = "run" /\ logic # {} /\ calls < MaxCalls
  /\ answer' = [call |-> call, is |-> a] /\ calls' = calls + 1
  /\ UNCHANGED <<blob, pc, at, off, boot, method, zones, work, devices, reported, logic>>

HandleOff    == Reply("off", IF off /\ method \in {"sbi", "psci"} THEN "ok" ELSE "unsupported")
HandleReboot ==
  Reply("reboot", IF boot /\ method \in {"sbi", "psci", "syscon"} THEN "ok" ELSE "unsupported")
GetTemperature(id) ==
  Reply("temperature", IF id < Len(zones) THEN 450 + 10 * id ELSE 0)
GetZoneCount == Reply("zones", Len(zones))
GetZoneInfo(id) ==
  Reply("zone", IF id < Len(zones) THEN zones[id + 1] ELSE "not_found")

Call == \/ HandleOff \/ HandleReboot \/ GetZoneCount
        \/ \E id \in 0 .. 2 : GetTemperature(id) \/ GetZoneInfo(id)

Next == \/ MapBlob \/ PowerNode \/ Probe \/ ParseNode \/ Report
        \/ RegisterPlatform \/ RegisterThermal \/ Call

Spec == Init /\ [][Next]_vars

-----------------------------------------------------------------------------
(***************************************************************************)
(* Properties                                                              *)
(***************************************************************************)

(* The list has every node once, and the index kept as a node's parent is  *)
(* that of its parent in the tree.                                         *)
TreeReported ==
  reported # <<>> =>
    /\ \A n \in Nodes : \E i \in DOMAIN reported : reported[i][1] = n
    /\ Len(reported) = Len(blob.nodes)
    /\ \A i \in DOMAIN reported :
         LET parent == blob.nodes[reported[i][1]].parent
         IN  IF parent = 0 THEN reported[i][2] = NoParent
             ELSE reported[reported[i][2] + 1][1] = parent

(* The way the machine is switched off is that of the last name in the     *)
(* tree that gives one: a call is answered with success exactly if that    *)
(* one can do it.                                                          *)
AllNames ==
  LET names[i \in 0 .. Len(blob.nodes)] ==
        IF i = 0 THEN <<>> ELSE names[i - 1] \o Names(blob.nodes[i])
  IN  names[Len(blob.nodes)]

LastIn(set) ==
  \E i \in DOMAIN AllNames :
    /\ AllNames[i] \in set
    /\ \A j \in i + 1 .. Len(AllNames) : AllNames[j] \notin
         {"psci", "sbi", "gpio-poweroff", "gpio-restart", "syscon-reboot"}

PowerAnswers ==
  answer # None =>
    /\ answer.call = "off"    => (answer.is = "ok" <=> LastIn({"psci", "sbi"}))
    /\ answer.call = "reboot" => (answer.is = "ok" <=> LastIn({"psci", "sbi", "syscon-reboot"}))

(* A driver that runs has registered the platform exactly if the tree      *)
(* names a way to switch off or to restart.                                *)
RegisteredIfNamed ==
  pc = "run" =>
    ("platform" \in logic <=>
       \E i \in DOMAIN AllNames : AllNames[i] \in
         {"psci", "sbi", "gpio-poweroff", "gpio-restart", "syscon-reboot"})

(* What the driver tells the device manager, registers and answers is what *)
(* the tree says.                                                          *)
TreeAnswered == TreeReported /\ PowerAnswers /\ RegisteredIfNamed
=============================================================================
