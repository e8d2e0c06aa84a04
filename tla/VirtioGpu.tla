------------------------------ MODULE VirtioGpu ------------------------------
(***************************************************************************)
(* The virtio GPU driver (virtio/gpu/src/gpu.rs, server.rs).  Commands are *)
(* synchronous: send_cmd uses one command buffer, one response buffer and  *)
(* two descriptors, and spins until the device has used them.  The model   *)
(* starts in init, when the queues are set up and the display information  *)
(* is about to be asked for.  Display modes and rectangles are left out.   *)
(***************************************************************************)
EXTENDS VirtQueue, Sequences

CONSTANTS
  Users,    \* the user_data values: the requests the client may have open
  Bufs,     \* the frame buffers a caller may ask to be shown
  CqSize,   \* the capacity of the completion ring
  None

ASSUME GpuAssumption ==
  /\ Num >= 2
  /\ CqSize \in Nat \ {0}
  /\ Users \cap Bufs = {}
  /\ "init" \notin Users \cup Bufs /\ "call" \notin Users \cup Bufs
  /\ None \notin Users \cup Bufs
  /\ None \notin {"flush", "badop", "ok", "err"}
  /\ None \notin {0, -1} /\ None # [op |-> "flush"]

\* The commands of one operation, in the order they are sent.
Flush   == <<"transfer", "flush">>
Scanout == <<"create", "attach", "scan", "transfer", "flush">>
Info    == <<"info">>
Cmd     == {"transfer", "flush", "create", "attach", "scan", "info"}

\* A slip to detect: the answer to attach is not looked at.
CheckedNoAttach == {"create", "scan"}

\* The commands whose answer is looked at: a refusal ends the operation.
Checked == {"create", "attach", "scan"}

VARIABLES
  \* the driver
  vq,       \* control_vq
  drv,      \* [pc, todo, who, ring]: who the commands are sent for
  server,   \* ring_server: "none", "set" or "taken"
  \* memory shared with the device
  cmd,      \* the command buffer: [op, who]
  resp,     \* the response buffer: [op, st]
  \* shared with the client
  sq, cq,
  \* the kernel
  pend, masked,
  \* the device
  dev,      \* [kick, seen, held, raise, isr], as in VirtioBlk
  disp,     \* what it shows: [res, back, shown]
  exec,     \* what it did for each open request (history)
  \* the client
  ask, owed,
  \* history
  shows,    \* the buffer of the last SET_SCANOUT that succeeded
  over      \* a completion did not fit

ringVars   == <<sq, cq>>
kernelVars == <<pend, masked>>
devVars    == <<dev, disp, exec>>
clientVars == <<ask, owed>>
histVars   == <<shows, over>>
vars == <<vq, drv, server, cmd, resp, ringVars, kernelVars, devVars, clientVars, histVars>>

NoCmd  == [op |-> None, who |-> None]
NoResp == [op |-> None, st |-> None]

Init ==
  /\ vq = NewQueue("zero")
  /\ drv = [pc |-> "send", todo |-> Info, who |-> "init", ring |-> FALSE]
  /\ server = "none"
  /\ cmd = NoCmd /\ resp = NoResp
  /\ sq = << >> /\ cq = << >>
  /\ pend = {} /\ masked = FALSE
  /\ dev = [kick |-> FALSE, seen |-> 0, held |-> {}, raise |-> FALSE, isr |-> FALSE]
  /\ disp = [res |-> FALSE, back |-> None, shown |-> FALSE]
  /\ exec = [u \in Users |-> None] /\ ask = [u \in Users |-> None] /\ owed = FALSE
  /\ shows = None /\ over = FALSE

-----------------------------------------------------------------------------
(* send_cmd                                                                *)

(* Both buffers are written, two descriptors allocated and filled, and the *)
(* chain made available.  There are always two (see AllBack).              *)
Send ==
  /\ drv.pc = "send" /\ drv.todo # << >>
  /\ cmd' = [op |-> Head(drv.todo), who |-> drv.who]
  /\ resp' = NoResp
  /\ LET h  == vq.free_head
         a1 == AllocDesc(vq)
         r  == a1.free_head
     IN  vq' = Submit(WriteDesc(WriteDesc(AllocDesc(a1), h, "cmd", {NEXT}, r),
                                r, "resp", {WRITE}, 0), h)
  /\ drv' = [drv EXCEPT !.pc = "notify"]
  /\ UNCHANGED <<server, ringVars, kernelVars, devVars, clientVars, histVars>>

Notify ==
  /\ drv.pc = "notify"
  /\ dev' = [dev EXCEPT !.kick = TRUE]
  /\ drv' = [drv EXCEPT !.pc = "spin"]
  /\ UNCHANGED <<vq, server, cmd, resp, ringVars, kernelVars, disp, exec, clientVars, histVars>>

\* A slip to detect: the element is popped without waiting for it.
SpinOnce ==
  /\ drv.pc = "spin"
  /\ vq' = Pop(vq)
  /\ drv' = [drv EXCEPT !.pc = "read"]
  /\ UNCHANGED <<server, cmd, resp, ringVars, kernelVars, devVars, clientVars, histVars>>

Spin ==
  /\ drv.pc = "spin" /\ CanPop(vq)
  /\ vq' = Pop(vq)
  /\ drv' = [drv EXCEPT !.pc = "read"]
  /\ UNCHANGED <<server, cmd, resp, ringVars, kernelVars, devVars, clientVars, histVars>>

\* The two descriptors of the command: head and resp_desc_id are locals.
SentHead == vq.avail_ring[(vq.avail_idx - 1) % Num]
SentResp == vq.next[SentHead]

\* A slip to detect: the response's descriptor is not given back.
FreedHead == FreeDesc(vq, SentHead)

\* A slip to detect: the head is given back once more than it was taken.
FreedTwice == FreeDesc(FreeDesc(FreeDesc(vq, SentHead), SentResp), SentHead)

Freed == FreeDesc(FreeDesc(vq, SentHead), SentResp)

(* The response is read and decides how the operation goes on.  Nothing    *)
(* reads the two buffers again, so the model clears them.                  *)
Read ==
  /\ drv.pc = "read"
  /\ vq' = Freed
  /\ drv' = IF Head(drv.todo) \in Checked /\ resp.st # "ok"
              THEN [drv EXCEPT !.pc = "failed", !.todo = << >>]
              ELSE [drv EXCEPT !.pc = IF Len(drv.todo) = 1 THEN "done" ELSE "send",
                               !.todo = Tail(@)]
  /\ cmd' = NoCmd /\ resp' = NoResp
  /\ UNCHANGED <<server, ringVars, kernelVars, devVars, clientVars, histVars>>

-----------------------------------------------------------------------------
(* dispatch                                                                *)

Others == <<vq, cmd, resp>>

Recv ==
  /\ drv.pc = "idle" /\ pend # {}
  /\ pend' = {}
  /\ drv' = [drv EXCEPT !.pc = IF "IRQ" \in pend THEN "irq" ELSE "ring", !.ring = "SQ" \in pend]
  /\ UNCHANGED <<Others, server, ringVars, masked, devVars, clientVars, histVars>>

\* A slip to detect: the interrupt is not acknowledged to the kernel.
IrqDeviceOnly ==
  /\ drv.pc = "irq"
  /\ dev' = [dev EXCEPT !.isr = FALSE]
  /\ drv' = [drv EXCEPT !.pc = IF drv.ring THEN "ring" ELSE "idle"]
  /\ UNCHANGED <<Others, server, ringVars, kernelVars, disp, exec, clientVars, histVars>>

\* ack_interrupt, whose value nobody needs, and irq.ack().
Irq ==
  /\ drv.pc = "irq"
  /\ dev' = [dev EXCEPT !.isr = FALSE]
  /\ masked' = FALSE
  /\ drv' = [drv EXCEPT !.pc = IF drv.ring THEN "ring" ELSE "idle"]
  /\ UNCHANGED <<Others, server, ringVars, pend, disp, exec, clientVars, histVars>>

\* handle_ring takes the server out of its slot.
RingTake ==
  /\ drv.pc = "ring" /\ server = "set"
  /\ server' = "taken"
  /\ drv' = [drv EXCEPT !.pc = "fetch"]
  /\ UNCHANGED <<Others, ringVars, kernelVars, devVars, clientVars, histVars>>

RingNone ==
  /\ drv.pc = "ring" /\ server # "set"
  /\ drv' = [drv EXCEPT !.pc = "idle"]
  /\ UNCHANGED <<Others, server, ringVars, kernelVars, devVars, clientVars, histVars>>

\* A slip to detect: the server is not put back.
RingEmptyKept ==
  /\ drv.pc = "fetch" /\ sq = << >>
  /\ drv' = [drv EXCEPT !.pc = "idle"]
  /\ UNCHANGED <<Others, server, ringVars, kernelVars, devVars, clientVars, histVars>>

RingEmpty ==
  /\ drv.pc = "fetch" /\ sq = << >>
  /\ server' = "set"
  /\ drv' = [drv EXCEPT !.pc = "idle"]
  /\ UNCHANGED <<Others, ringVars, kernelVars, devVars, clientVars, histVars>>

Fetch ==
  /\ drv.pc = "fetch" /\ sq # << >>
  /\ sq' = Tail(sq)
  /\ drv' = IF ask[Head(sq)] = "flush"
              THEN [drv EXCEPT !.pc = "send", !.todo = Flush, !.who = Head(sq)]
              ELSE [drv EXCEPT !.pc = "failed", !.who = Head(sq)]
  /\ UNCHANGED <<Others, server, cq, kernelVars, devVars, clientVars, histVars>>

Finished == drv.pc \in {"done", "failed"}

\* Completing a ring request: when it does not fit, the error leaves handle_ring
\* and the server with it.
Complete ==
  /\ Finished /\ drv.who \in Users
  /\ \/ /\ Len(cq) < CqSize
        /\ cq' = Append(cq, [user |-> drv.who, res |-> IF drv.pc = "done" THEN 0 ELSE -1])
        /\ drv' = [drv EXCEPT !.pc = "fetch", !.who = "init"]
        /\ UNCHANGED over
     \/ /\ Len(cq) >= CqSize
        /\ over' = TRUE
        /\ drv' = [drv EXCEPT !.pc = "idle", !.who = "init"]
        /\ UNCHANGED cq
  /\ UNCHANGED <<Others, server, sq, kernelVars, devVars, clientVars, shows>>

\* The end of a call, or of init.
Reply ==
  /\ Finished /\ drv.who \notin Users
  /\ shows' = IF drv.who \in Bufs /\ drv.pc = "done" THEN drv.who ELSE shows
  /\ drv' = [drv EXCEPT !.pc = "idle", !.who = "init"]
  /\ UNCHANGED <<Others, server, ringVars, kernelVars, devVars, clientVars, over>>

Call(todo, who) ==
  /\ drv.pc = "idle"
  /\ drv' = [drv EXCEPT !.pc = "send", !.todo = todo, !.who = who]
  /\ UNCHANGED <<Others, server, ringVars, kernelVars, devVars, clientVars, histVars>>

CallFlush == Call(Flush, "call")
CallScanout == \E b \in Bufs : Call(Scanout, b)

\* One ring is followed here from its set-up on.  A further SETUP_RING allocates
\* its frame in RING_SLOT again: that it may fail at each step, or put another
\* server in the place of this one, is in Service.
SetupRing ==
  /\ drv.pc = "idle" /\ server = "none"
  /\ server' = "set"
  /\ UNCHANGED <<Others, drv, ringVars, kernelVars, devVars, clientVars, histVars>>

Driver == \/ Send \/ Notify \/ Spin \/ Read \/ Recv \/ Irq
          \/ RingTake \/ RingNone \/ RingEmpty \/ Fetch \/ Complete \/ Reply
Calls  == CallFlush \/ CallScanout \/ SetupRing

-----------------------------------------------------------------------------
(* The device (external) as in VirtioBlk.  It may refuse any command, and  *)
(* does so if the resource exists already (create), or not yet (the rest). *)

Quiet == <<drv, server, ringVars, kernelVars, clientVars, histVars>>

DevTake ==
  /\ dev.kick /\ DevCanTake(vq, dev.seen)
  /\ dev' = [dev EXCEPT !.held = @ \cup {DevTakeId(vq, dev.seen)}, !.seen = (@ + 1) % IdxMod]
  /\ UNCHANGED <<Quiet, vq, cmd, resp, disp, exec>>

DevSleep ==
  /\ dev.kick /\ ~DevCanTake(vq, dev.seen)
  /\ dev' = [dev EXCEPT !.kick = FALSE]
  /\ UNCHANGED <<Quiet, vq, cmd, resp, disp, exec>>

Possible(op) ==
  CASE op = "create" -> ~disp.res
    [] op \in {"attach", "scan", "flush"} -> disp.res
    [] op = "transfer" -> disp.back # None
    [] op = "info" -> TRUE

DevExec(h, st) ==
  /\ h \in dev.held
  /\ vq.addr[h] = "cmd" /\ vq.addr[vq.next[h]] = "resp" /\ WRITE \in vq.flags[vq.next[h]]
  /\ st = "ok" => Possible(cmd.op)
  /\ resp' = [op |-> cmd.op, st |-> st]
  /\ disp' = IF st = "err" THEN disp
             ELSE [disp EXCEPT !.res = @ \/ cmd.op = "create",
                               !.back = IF cmd.op = "attach" THEN cmd.who ELSE @,
                               !.shown = @ \/ cmd.op = "scan"]
  /\ exec' = IF cmd.op = "flush" /\ cmd.who \in Users
               THEN [exec EXCEPT ![cmd.who] = [op |-> "flush"]] ELSE exec
  /\ vq' = DevUse(vq, h)
  /\ dev' = [dev EXCEPT !.held = @ \ {h}, !.raise = TRUE]
  /\ UNCHANGED <<Quiet, cmd>>

DevRaise ==
  /\ dev.raise
  /\ dev' = [dev EXCEPT !.raise = FALSE, !.isr = TRUE]
  /\ UNCHANGED <<Quiet, vq, cmd, resp, disp, exec>>

KernelIrq ==
  /\ dev.isr /\ ~masked
  /\ pend' = pend \cup {"IRQ"}
  /\ masked' = TRUE
  /\ UNCHANGED <<Others, drv, server, ringVars, devVars, clientVars, histVars>>

(* The client (external).                                                  *)

ClientSubmit(u) ==
  /\ server # "none" /\ ask[u] = None
  /\ \E k \in {"flush", "badop"} : ask' = [ask EXCEPT ![u] = k]
  /\ sq' = Append(sq, u)
  /\ owed' = TRUE
  /\ UNCHANGED <<Others, drv, server, cq, kernelVars, devVars, histVars>>

ClientNotify ==
  /\ owed
  /\ owed' = FALSE
  /\ pend' = pend \cup {"SQ"}
  /\ UNCHANGED <<Others, drv, server, ringVars, masked, devVars, ask, histVars>>

ClientReap ==
  /\ cq # << >>
  /\ cq' = Tail(cq)
  /\ ask' = [ask EXCEPT ![Head(cq).user] = None]
  /\ exec' = [exec EXCEPT ![Head(cq).user] = None]
  /\ UNCHANGED <<Others, drv, server, sq, kernelVars, dev, disp, owed, histVars>>

Device == \/ DevTake \/ DevSleep \/ DevRaise
          \/ \E h \in dev.held, st \in {"ok", "err"} : DevExec(h, st)
Client == ClientNotify \/ ClientReap \/ \E u \in Users : ClientSubmit(u)

Next == Driver \/ Calls \/ Device \/ KernelIrq \/ Client

Spec == Init /\ [][Next]_vars

(***************************************************************************)
(* Properties                                                              *)
(***************************************************************************)

Who == Users \cup Bufs \cup {"init", "call"}

TypeOK ==
  /\ vq \in Queue({"zero", "cmd", "resp"})
  /\ drv \in [pc : {"send", "notify", "spin", "read", "done", "failed", "idle", "irq", "ring", "fetch"},
               todo : Seq(Cmd), who : Who, ring : BOOLEAN]
  /\ server \in {"none", "set", "taken"}
  /\ cmd \in [op : Cmd \cup {None}, who : Who \cup {None}]
  /\ resp \in [op : Cmd \cup {None}, st : {"ok", "err", None}]
  /\ sq \in Seq(Users) /\ cq \in Seq([user : Users, res : {0, -1}]) /\ Len(cq) <= CqSize
  /\ pend \subseteq {"IRQ", "SQ"} /\ masked \in BOOLEAN
  /\ dev \in [kick : BOOLEAN, seen : Idx, held : SUBSET Desc, raise : BOOLEAN, isr : BOOLEAN]
  /\ disp \in [res : BOOLEAN, back : Bufs \cup {None}, shown : BOOLEAN]
  /\ exec \in [Users -> [op : {"flush"}] \cup {None}]
  /\ ask \in [Users -> {"flush", "badop", None}] /\ owed \in BOOLEAN
  /\ shows \in Bufs \cup {None} /\ over \in BOOLEAN

(* What send_cmd pops and reads is the answer to the command it sent, and  *)
(* the device is done with both buffers.                                   *)
OwnResponse ==
  drv.pc = "read" =>
    /\ resp.op = Head(drv.todo)
    /\ dev.held = {} /\ ~DevCanTake(vq, dev.seen) /\ ~CanPop(vq)

(* Every descriptor is back between two commands, so that alloc_desc does  *)
(* not fail and no operation stops halfway for want of descriptors.        *)
AllBack ==
  drv.pc \notin {"notify", "spin", "read"} => vq.num_free = Num /\ FreeList(vq, Desc)

(* A command is over when send_cmd is: it has its own answer, the device   *)
(* holds nothing of it, and nothing of the queue is used up.               *)
CommandsComplete == OwnResponse /\ AllBack

(* The screen shows the buffer of the SET_SCANOUT that succeeded, and      *)
(* nothing if none did, whatever was refused and at which step.            *)
ScreenTrue ==
  drv.who \notin Bufs => /\ disp.shown = (shows # None)
                         /\ disp.shown => disp.back = shows

(* While the driver waits, the next interrupt can be delivered, entries in *)
(* the ring are announced, and the ring server is in its place, unless a   *)
(* completion did not fit.                                                 *)
Signalled ==
  drv.pc = "idle" => /\ ~masked \/ "IRQ" \in pend
                     /\ sq # << >> => owed \/ "SQ" \in pend \/ over
                     /\ server = "taken" => over

(* The driver and its device implement the contract.  A flush is answered  *)
(* with 0 whether the device accepted it or not: flush looks at neither    *)
(* response.                                                               *)
AnswerIn(u) ==
  IF \E i \in 1 .. Len(cq) : cq[i].user = u
    THEN cq[CHOOSE i \in 1 .. Len(cq) : cq[i].user = u].res
    ELSE None

Contract == INSTANCE IoContract WITH
  Kinds  <- {"flush", "badop"},
  Done   <- [op : {"flush"}],
  Result <- [d \in [op : {"flush"}] |-> 0],
  answer <- [u \in Users |-> AnswerIn(u)]

ImplementsContract == Contract!Spec

(* Fairness, as in VirtioBlk; Recv is strongly fair because calls compete  *)
(* with notifications for the endpoint, which does not starve either.      *)
Fairness ==
  /\ WF_vars(Driver) /\ SF_vars(Recv)
  /\ WF_vars(Device) /\ WF_vars(KernelIrq) /\ WF_vars(ClientNotify \/ ClientReap)

FairSpec == Spec /\ Fairness

(* Every request is answered, although calls keep coming in between, unless *)
(* a completion did not fit: no command spins for ever, and the ring goes   *)
(* on being served.                                                        *)
EveryRequestAnswered == \A u \in Users : ask[u] # None ~> AnswerIn(u) # None \/ over
=============================================================================
