--------------------------- MODULE VirtioGpuProofs ---------------------------
(***************************************************************************)
(* The GPU driver for every queue size, every number of requests and frame *)
(* buffers and every completion ring: a command is over when send_cmd is,  *)
(* the screen shows what the callers were told, nothing in the ring is     *)
(* forgotten, and the driver implements IoContract.                        *)
(***************************************************************************)
EXTENDS VirtioGpu, VirtQueueLemmas

\* Sending commands, with one of them under way, and the end of an operation.
Work == {"send", "notify", "spin", "read"}
Busy == {"notify", "spin", "read"}
Ends == {"done", "failed"}

(* How far a command is: not begun, offered to the device, held by it,     *)
(* answered, popped.                                                       *)
Level == dev.seen = vq.avail_idx
Rest  == Level /\ dev.held = {} /\ ~CanPop(vq)
Sent  == /\ dev.seen # vq.avail_idx /\ (dev.seen + 1) % IdxMod = vq.avail_idx
         /\ dev.held = {} /\ ~CanPop(vq) /\ resp = NoResp
Held  == Level /\ dev.held = {SentHead} /\ ~CanPop(vq) /\ resp = NoResp
Used  == /\ Level /\ dev.held = {}
         /\ CanPop(vq) /\ (vq.last_used_idx + 1) % IdxMod = vq.used_idx
         /\ resp.op = cmd.op
Back  == Rest /\ resp.op = cmd.op

\* Its two descriptors are the only ones that are not free.
TwoOut ==
  /\ SentHead # SentResp
  /\ vq.num_free = Num - 2 /\ FreeList(vq, Desc \ {SentHead, SentResp})

\* The command buffer holds the command that is due.
Due == cmd = [op |-> Head(drv.todo), who |-> drv.who]

Chain ==
  /\ drv.pc \notin Busy => Rest /\ resp = NoResp /\ vq.num_free = Num /\ FreeList(vq, Desc)
  /\ drv.pc \in Busy => TwoOut /\ Due
  /\ drv.pc \in {"notify", "spin"} => Sent \/ Held \/ Used
  /\ drv.pc = "read" => Back

\* What may be left to send, for whom.
Attaching    == << "attach", "scan", "transfer", "flush" >>
Scanning     == << "scan", "transfer", "flush" >>
Flushing     == << "flush" >>
FlushParts   == {Flush, Flushing}
ScanoutParts == {Scanout, Attaching, Scanning} \cup FlushParts

Plan ==
  /\ drv.pc \notin Work => drv.todo = << >>
  /\ drv.pc \notin Work \cup Ends => drv.who = "init"
  /\ drv.pc \in Work => \/ drv.who \in Bufs /\ drv.todo \in ScanoutParts
                        \/ drv.who \in Users /\ drv.todo \in FlushParts
                        \/ drv.who \notin Bufs \cup Users /\ drv.todo \in FlushParts \cup {Info}

(* The screen before a SET_SCANOUT has succeeded, between two of them, and *)
(* when the one under way has succeeded.                                   *)
Unseen == ~disp.shown /\ shows = None
Old    == disp.shown = (shows # None) /\ (disp.shown => disp.back = shows)
New    == disp.shown /\ disp.back = drv.who

Stage ==
  /\ Head(drv.todo) = "create" => IF resp.st = "ok" THEN Unseen ELSE Old
  /\ Head(drv.todo) = "attach" => Unseen /\ (resp.st = "ok" => disp.back = drv.who)
  /\ Head(drv.todo) = "scan"   => /\ disp.back = drv.who
                                  /\ IF resp.st = "ok" THEN disp.shown ELSE Unseen
  /\ Head(drv.todo) \in {"transfer", "flush"} => New

Screen ==
  /\ ~disp.res => Unseen
  /\ drv.who \notin Bufs \/ drv.pc \notin Work \cup {"done"} => Old
  /\ drv.who \in Bufs /\ drv.pc = "done" => New
  /\ drv.who \in Bufs /\ drv.pc \in Work => Stage

\* handle_ring is at work.
Serving == drv.pc = "fetch" \/ (drv.who \in Users /\ drv.pc \in Work \cup Ends)

Signals ==
  /\ masked => "IRQ" \in pend \/ drv.pc = "irq"
  /\ sq # << >> => \/ owed \/ "SQ" \in pend \/ over \/ Serving
                   \/ drv.ring /\ drv.pc \in {"irq", "ring"}
  /\ server = "none" => sq = << >>
  /\ Serving => server = "taken"
  /\ server = "taken" => over \/ Serving
  /\ drv.pc = "ring" => drv.ring

-----------------------------------------------------------------------------
(* The actions, one driver field at a time.                                *)

\* What each step of a scanout or a flush leaves to do.
LEMMA Tails ==
  /\ Head(Scanout) = "create" /\ Len(Scanout) = 5 /\ Tail(Scanout) = Attaching
  /\ Head(Attaching) = "attach" /\ Len(Attaching) = 4 /\ Tail(Attaching) = Scanning
  /\ Head(Scanning) = "scan" /\ Len(Scanning) = 3 /\ Tail(Scanning) = Flush
  /\ Head(Flush) = "transfer" /\ Len(Flush) = 2 /\ Tail(Flush) = Flushing
  /\ Head(Flushing) = "flush" /\ Len(Flushing) = 1 /\ Tail(Flushing) = << >>
  /\ Head(Info) = "info" /\ Len(Info) = 1 /\ Tail(Info) = << >>
BY DEF Scanout, Attaching, Scanning, Flush, Flushing, Info

(* The parts of the operations are sequences of commands, not empty.       *)
LEMMA PartsType ==
  ASSUME NEW t \in ScanoutParts \cup {Info}
  PROVE  /\ t \in Seq(Cmd) /\ t # << >> /\ Head(t) \in Cmd
         /\ Head(t) = "attach" => t \in ScanoutParts
<1>1. /\ Scanout \in Seq(Cmd) /\ Attaching \in Seq(Cmd) /\ Scanning \in Seq(Cmd)
      /\ Flush \in Seq(Cmd) /\ Flushing \in Seq(Cmd) /\ Info \in Seq(Cmd)
  BY DEF Scanout, Attaching, Scanning, Flush, Flushing, Info, Cmd
<1>2. t \in Seq(Cmd)
  BY <1>1 DEF ScanoutParts, FlushParts
<1>3. Len(t) # 0 /\ Head(t) \in {"create", "attach", "scan", "transfer", "flush", "info"}
  BY Tails DEF ScanoutParts, FlushParts
<1>4. t # << >>
  BY <1>3
<1>5. Head(t) = "attach" => t \in ScanoutParts
  BY Tails
<1> QED  BY <1>2, <1>3, <1>4, <1>5 DEF Cmd

\* The slot just written is the one before the advanced index.
LEMMA SlotBefore ==
  ASSUME NEW i \in Idx
  PROVE  LET j == (i + 1) % IdxMod IN j \in Idx /\ j # i /\ (j - 1) % Num = i % Num
<1> DEFINE j == (i + 1) % IdxMod
<1>1. /\ i \in Int /\ IdxMod \in Nat \ {0} /\ IdxMod > 1 /\ i >= 0 /\ i < IdxMod
      /\ Num \in Nat \ {0}
  BY QueueAssumption DEF Idx
<1>2. j \in Idx
  BY RingIndex
<1>3. j = IF i + 1 = IdxMod THEN 0 ELSE i + 1
  BY CountIs
<1> HIDE DEF j
<1>4. j # i
  BY <1>1, <1>3
<1>5. CASE j = i + 1
  <2>1. j - 1 = i
    BY <1>1, <1>5
  <2> QED  BY <1>2, <1>4, <2>1 DEF j
<1>6. CASE j = 0 /\ i = IdxMod - 1
  <2>1. ((IdxMod * (-1)) + i) % IdxMod = i
    BY <1>1, ModIs
  <2>2. (IdxMod * (-1)) + i = -1 /\ j - 1 = -1
    BY <1>1, <1>6
  <2>3. ((-1) % IdxMod) % Num = (-1) % Num
    BY SlotWraps
  <2>4. (j - 1) % Num = i % Num
    BY <2>1, <2>2, <2>3
  <2> QED  BY <1>2, <1>4, <2>4 DEF j
<1> QED  BY <1>1, <1>3, <1>5, <1>6

\* What is left to do is left as it is.
SameWork == drv'.todo = drv.todo /\ drv'.who = drv.who

\* Where each step of the driver takes it, and that only four of them touch its work.
LEMMA Moves ==
  ASSUME TypeOK
  PROVE  /\ Send   => drv'.pc = "notify" /\ drv'.ring = drv.ring /\ SameWork
         /\ Notify => drv'.pc = "spin" /\ drv'.ring = drv.ring /\ SameWork
         /\ Spin   => drv'.pc = "read" /\ drv'.ring = drv.ring /\ SameWork
         /\ Recv   => /\ drv'.pc = (IF "IRQ" \in pend THEN "irq" ELSE "ring")
                      /\ drv'.ring = ("SQ" \in pend) /\ SameWork
         /\ Irq    => /\ drv'.pc = (IF drv.ring THEN "ring" ELSE "idle")
                      /\ drv'.ring = drv.ring /\ SameWork
         /\ RingTake => drv'.pc = "fetch" /\ drv'.ring = drv.ring /\ SameWork
         /\ RingNone \/ RingEmpty => drv'.pc = "idle" /\ drv'.ring = drv.ring /\ SameWork
         /\ Reply => /\ drv'.pc = "idle" /\ drv'.ring = drv.ring
                     /\ drv'.todo = drv.todo /\ drv'.who = "init"
<1> DEFINE D == [pc : {"send", "notify", "spin", "read", "done", "failed", "idle", "irq", "ring", "fetch"},
                 todo : Seq(Cmd), who : Who, ring : BOOLEAN]
<1>1. drv \in D
  BY DEF TypeOK
<1> QED  BY <1>1 DEF Send, Notify, Spin, Recv, Irq, RingTake, RingNone, RingEmpty, Reply, SameWork

(* ... and the steps that choose what to do next.                          *)
LEMMA MovesOn ==
  ASSUME TypeOK
  PROVE  /\ Read => /\ drv'.ring = drv.ring /\ drv'.who = drv.who
                    /\ \/ /\ Head(drv.todo) \in Checked /\ resp.st # "ok"
                          /\ drv'.pc = "failed" /\ drv'.todo = << >>
                       \/ /\ Head(drv.todo) \in Checked => resp.st = "ok"
                          /\ drv'.pc = (IF Len(drv.todo) = 1 THEN "done" ELSE "send")
                          /\ drv'.todo = Tail(drv.todo)
         /\ Fetch => /\ drv'.ring = drv.ring /\ drv'.who = Head(sq)
                     /\ \/ ask[Head(sq)] = "flush" /\ drv'.pc = "send" /\ drv'.todo = Flush
                        \/ ask[Head(sq)] # "flush" /\ drv'.pc = "failed" /\ drv'.todo = drv.todo
         /\ Complete => /\ drv'.ring = drv.ring /\ drv'.who = "init" /\ drv'.todo = drv.todo
                        /\ drv'.pc = (IF Len(cq) < CqSize THEN "fetch" ELSE "idle")
         /\ \A t, w : Call(t, w) => /\ drv'.ring = drv.ring /\ drv'.who = w
                                    /\ drv'.pc = "send" /\ drv'.todo = t
<1> DEFINE D == [pc : {"send", "notify", "spin", "read", "done", "failed", "idle", "irq", "ring", "fetch"},
                 todo : Seq(Cmd), who : Who, ring : BOOLEAN]
<1>1. drv \in D
  BY DEF TypeOK
<1>2. Len(cq) \in Nat /\ CqSize \in Nat
  BY GpuAssumption DEF TypeOK
<1>3. ASSUME Read
      PROVE  /\ drv'.ring = drv.ring /\ drv'.who = drv.who
             /\ \/ /\ Head(drv.todo) \in Checked /\ resp.st # "ok"
                   /\ drv'.pc = "failed" /\ drv'.todo = << >>
                \/ /\ Head(drv.todo) \in Checked => resp.st = "ok"
                   /\ drv'.pc = (IF Len(drv.todo) = 1 THEN "done" ELSE "send")
                   /\ drv'.todo = Tail(drv.todo)
  <2>1. CASE Head(drv.todo) \in Checked /\ resp.st # "ok"
    BY <1>1, <1>3, <2>1 DEF Read
  <2>2. CASE ~(Head(drv.todo) \in Checked /\ resp.st # "ok")
    <3>1. drv' = [drv EXCEPT !.pc = IF Len(drv.todo) = 1 THEN "done" ELSE "send",
                             !.todo = Tail(drv.todo)]
      BY <1>1, <1>3, <2>2 DEF Read
    <3> QED  BY <1>1, <2>2, <3>1
  <2> QED  BY <2>1, <2>2
<1>4. ASSUME Fetch
      PROVE  /\ drv'.ring = drv.ring /\ drv'.who = Head(sq)
             /\ \/ ask[Head(sq)] = "flush" /\ drv'.pc = "send" /\ drv'.todo = Flush
                \/ ask[Head(sq)] # "flush" /\ drv'.pc = "failed" /\ drv'.todo = drv.todo
  BY <1>1, <1>4 DEF Fetch
<1>5. ASSUME Complete
      PROVE  /\ drv'.ring = drv.ring /\ drv'.who = "init" /\ drv'.todo = drv.todo
             /\ drv'.pc = (IF Len(cq) < CqSize THEN "fetch" ELSE "idle")
  <2>1. drv' = [drv EXCEPT !.pc = IF Len(cq) < CqSize THEN "fetch" ELSE "idle", !.who = "init"]
    <3>1. ~(Len(cq) < CqSize /\ Len(cq) >= CqSize) /\ (Len(cq) < CqSize \/ Len(cq) >= CqSize)
      BY <1>2
    <3> QED  BY <1>5, <3>1 DEF Complete
  <2> QED  BY <1>1, <2>1
<1>6. ASSUME NEW t, NEW w, Call(t, w)
      PROVE  drv'.ring = drv.ring /\ drv'.who = w /\ drv'.pc = "send" /\ drv'.todo = t
  BY <1>1, <1>6 DEF Call
<1> QED  BY <1>3, <1>4, <1>5, <1>6

(* The device's registers.                                                 *)
LEMMA DevMoves ==
  ASSUME TypeOK
  PROVE  /\ Notify \/ DevSleep \/ DevRaise \/ Irq =>
              dev'.seen = dev.seen /\ dev'.held = dev.held
         /\ DevTake => /\ dev'.seen = (dev.seen + 1) % IdxMod
                       /\ dev'.held = dev.held \cup {DevTakeId(vq, dev.seen)}
         /\ \A h, st : DevExec(h, st) => dev'.seen = dev.seen /\ dev'.held = dev.held \ {h}
<1> DEFINE D == [kick : BOOLEAN, seen : Idx, held : SUBSET Desc, raise : BOOLEAN, isr : BOOLEAN]
<1>1. dev \in D
  BY DEF TypeOK
<1> QED  BY <1>1 DEF Notify, DevSleep, DevRaise, Irq, DevTake, DevExec

(* Everything else leaves the work as it is.                               *)
Elsewhere == \/ SetupRing \/ DevTake \/ DevSleep \/ DevRaise
             \/ \E h \in dev.held, st \in {"ok", "err"} : DevExec(h, st)
             \/ KernelIrq \/ Client \/ UNCHANGED vars

\* What the device, the kernel and the clients do leaves the driver where it is.
LEMMA ElsewhereDrv == ASSUME Elsewhere PROVE drv' = drv
<1> USE DEF vars
<1>1. CASE SetupRing \/ DevTake \/ DevSleep \/ DevRaise
  BY <1>1 DEF SetupRing, DevTake, DevSleep, DevRaise, Quiet
<1>2. CASE \E h \in dev.held, st \in {"ok", "err"} : DevExec(h, st)
  BY <1>2 DEF DevExec, Quiet
<1>3. CASE KernelIrq \/ Client \/ UNCHANGED vars
  BY <1>3 DEF KernelIrq, Client, ClientNotify, ClientReap, ClientSubmit
<1> QED  BY <1>1, <1>2, <1>3 DEF Elsewhere

\* Every step is one of the driver's, or happens elsewhere.
LEMMA NextIs ==
  ASSUME [Next]_vars
  PROVE  \/ Send \/ Notify \/ Spin \/ Read \/ Recv \/ Irq \/ RingTake \/ RingNone \/ RingEmpty
         \/ Fetch \/ Complete \/ Reply \/ CallFlush \/ CallScanout \/ Elsewhere
BY DEF Next, Driver, Calls, Device, Elsewhere

-----------------------------------------------------------------------------
(* The commands of an operation.                                           *)

\* The plans a scanout or a flush starts with, and that no caller is a buffer.
LEMMA FirstParts ==
  /\ Flush \in FlushParts /\ Scanout \in ScanoutParts /\ FlushParts \subseteq ScanoutParts
  /\ "init" \notin Bufs \cup Users /\ "call" \notin Bufs \cup Users
  /\ \A u \in Users : u \notin Bufs
BY GpuAssumption DEF FlushParts, ScanoutParts

(* What is left after the next command of an operation.                    *)
LEMMA NextParts ==
  /\ \A t \in FlushParts \cup {Info} : IF Len(t) = 1 THEN Tail(t) = << >> ELSE Tail(t) \in FlushParts
  /\ \A t \in ScanoutParts : IF Len(t) = 1 THEN Tail(t) = << >> ELSE Tail(t) \in ScanoutParts
<1>1. ASSUME NEW t \in FlushParts \cup {Info}
      PROVE  IF Len(t) = 1 THEN Tail(t) = << >> ELSE Tail(t) \in FlushParts
  BY Tails DEF FlushParts
<1>2. ASSUME NEW t \in ScanoutParts
      PROVE  IF Len(t) = 1 THEN Tail(t) = << >> ELSE Tail(t) \in ScanoutParts
  <2>1. CASE t \in FlushParts
    BY <1>1, <2>1, FirstParts
  <2>2. CASE t = Scanout \/ t = Attaching \/ t = Scanning
    <3>1. Len(t) # 1 /\ Tail(t) \in {Attaching, Scanning, Flush}
      <4>1. CASE t = Scanout
        BY <4>1, Tails
      <4>2. CASE t = Attaching
        BY <4>2, Tails
      <4>3. CASE t = Scanning
        BY <4>3, Tails
      <4> QED  BY <2>2, <4>1, <4>2, <4>3
    <3> QED  BY <3>1 DEF FlushParts, ScanoutParts
  <2> QED  BY <2>1, <2>2 DEF ScanoutParts
<1> QED  BY <1>1, <1>2

\* Every step keeps what is left to do a suffix of a plan that fits its caller.
LEMMA PlanStep ==
  ASSUME TypeOK, Plan, [Next]_vars
  PROVE  Plan'
<1> USE DEF Plan
<1>1. CASE Send \/ Notify \/ Spin
  <2>1. drv.pc \in Work /\ drv'.pc \in Work
    BY <1>1, Moves DEF Send, Notify, Spin, Work
  <2> QED  BY <1>1, <2>1, Moves DEF SameWork
<1>2. CASE Recv \/ Irq \/ RingTake \/ RingNone \/ RingEmpty
  <2>1. drv.pc \notin Work \cup Ends /\ drv'.pc \notin Work \cup Ends
    BY <1>2, Moves DEF Recv, Irq, RingTake, RingNone, RingEmpty, Work, Ends
  <2> QED  BY <1>2, <2>1, Moves DEF SameWork
<1>3. CASE Reply \/ Complete
  <2>1. drv.pc \notin Work /\ drv'.pc \notin Work /\ drv'.who = "init" /\ drv'.todo = drv.todo
    BY <1>3, Moves, MovesOn DEF Reply, Complete, Finished, Work
  <2> QED  BY <2>1
<1>4. CASE Read
  <2>1. drv.pc \in Work /\ drv'.who = drv.who
    BY <1>4, MovesOn DEF Read, Work
  <2>2. CASE drv'.pc = "failed" /\ drv'.todo = << >>
    BY <2>2 DEF Work, Ends
  <2>3. CASE drv'.pc = (IF Len(drv.todo) = 1 THEN "done" ELSE "send") /\ drv'.todo = Tail(drv.todo)
    BY <2>1, <2>3, NextParts DEF Work, Ends
  <2> QED  BY <1>4, <2>2, <2>3, MovesOn
<1>5. CASE Fetch
  <2>1. sq \in Seq(Users) /\ sq # << >> /\ drv.pc \notin Work
    BY <1>5 DEF TypeOK, Fetch, Work
  <2>2. Head(sq) \in Users
    BY <2>1
  <2> QED  BY <1>5, <2>1, <2>2, MovesOn, FirstParts DEF Work, Ends
<1>6. CASE CallFlush
  BY <1>6, MovesOn, FirstParts DEF CallFlush, Work
<1>7. CASE CallScanout
  <2>1. PICK b \in Bufs : Call(Scanout, b)
    BY <1>7 DEF CallScanout
  <2> QED  BY <2>1, MovesOn, FirstParts DEF Work
<1>8. CASE Elsewhere
  BY <1>8, ElsewhereDrv
<1> QED  BY <1>1, <1>2, <1>3, <1>4, <1>5, <1>6, <1>7, <1>8, NextIs

-----------------------------------------------------------------------------
(* Interrupts, announcements and the ring server.                          *)

\* Every step keeps a queued flush announced, or being served.
LEMMA SignalsStep ==
  ASSUME TypeOK, Plan, Signals, [Next]_vars
  PROVE  Signals'
<1> USE DEF ringVars, kernelVars, devVars, clientVars, histVars, Others, vars, Quiet
<1>1. CASE Send \/ Notify \/ Spin
  <2>1. drv.pc \in Work /\ drv'.pc \in Work
    BY <1>1, Moves DEF Send, Notify, Spin, Work
  <2>2. UNCHANGED <<masked, pend, sq, owed, over, server>>
    BY <1>1 DEF Send, Notify, Spin
  <2>3. drv'.who = drv.who /\ drv'.ring = drv.ring
    BY <1>1, Moves DEF SameWork
  <2> QED  BY <2>1, <2>2, <2>3 DEF Signals, Serving, Work
<1>2. CASE Read
  <2>1. drv.pc \in Work /\ drv'.pc \in Work \cup Ends
    BY <1>2, MovesOn DEF Read, Work, Ends
  <2>2. UNCHANGED <<masked, pend, sq, owed, over, server>>
    BY <1>2 DEF Read
  <2>3. drv'.who = drv.who /\ drv'.ring = drv.ring
    BY <1>2, MovesOn
  <2> QED  BY <2>1, <2>2, <2>3 DEF Signals, Serving, Work, Ends
<1>3. CASE Recv
  <2>1. UNCHANGED <<masked, sq, owed, over, server>> /\ pend' = {} /\ pend # {} /\ drv.pc = "idle"
    BY <1>3 DEF Recv
  <2>2. pend \subseteq {"IRQ", "SQ"}
    BY DEF TypeOK
  <2>3. drv'.pc = (IF "IRQ" \in pend THEN "irq" ELSE "ring") /\ drv'.ring = ("SQ" \in pend)
    BY <1>3, Moves
  <2>4. ~Serving /\ ~Serving'
    <3>1. drv.who = "init" /\ drv'.who = "init"
      BY <1>3, <2>1, Moves DEF Plan, SameWork, Work, Ends
    <3> QED  BY <2>1, <2>3, <3>1, FirstParts DEF Serving
  <2> QED  BY <2>1, <2>2, <2>3, <2>4 DEF Signals
<1>4. CASE Irq
  <2>1. UNCHANGED <<pend, sq, owed, over, server>> /\ masked' = FALSE /\ drv.pc = "irq"
    BY <1>4 DEF Irq
  <2>2. drv'.pc = (IF drv.ring THEN "ring" ELSE "idle") /\ drv'.ring = drv.ring
    BY <1>4, Moves
  <2>3. ~Serving /\ ~Serving'
    <3>1. drv.who = "init" /\ drv'.who = "init"
      BY <1>4, <2>1, Moves DEF Plan, SameWork, Work, Ends
    <3> QED  BY <2>1, <2>2, <3>1, FirstParts DEF Serving
  <2>4. drv.ring \in BOOLEAN
    BY DEF TypeOK
  <2> QED  BY <2>1, <2>2, <2>3, <2>4 DEF Signals
<1>5. CASE RingTake
  <2>1. UNCHANGED <<masked, pend, sq, owed, over>> /\ server' = "taken" /\ drv.pc = "ring"
    BY <1>5 DEF RingTake
  <2>2. drv'.pc = "fetch"
    BY <1>5, Moves
  <2> QED  BY <2>1, <2>2 DEF Signals, Serving
<1>6. CASE RingNone
  <2>1. UNCHANGED <<masked, pend, sq, owed, over, server>> /\ server # "set" /\ drv.pc = "ring"
    BY <1>6 DEF RingNone
  <2>2. drv'.pc = "idle" /\ drv'.who = "init" /\ drv.who = "init"
    BY <1>6, <2>1, Moves DEF Plan, SameWork, Work, Ends
  <2>3. ~Serving /\ ~Serving'
    BY <2>1, <2>2, FirstParts DEF Serving
  <2>4. server \in {"none", "taken"}
    BY <2>1 DEF TypeOK
  <2> QED  BY <2>1, <2>2, <2>3, <2>4 DEF Signals
<1>7. CASE RingEmpty
  <2>1. UNCHANGED <<masked, pend, sq, owed, over>> /\ sq = << >> /\ server' = "set" /\ drv.pc = "fetch"
    BY <1>7 DEF RingEmpty
  <2>2. drv'.pc = "idle" /\ drv'.who = "init"
    BY <1>7, <2>1, Moves DEF Plan, SameWork, Work, Ends
  <2>3. ~Serving'
    BY <2>1, <2>2, FirstParts DEF Serving
  <2> QED  BY <2>1, <2>2, <2>3 DEF Signals
<1>8. CASE Fetch
  <2>1. UNCHANGED <<masked, pend, owed, over, server>> /\ drv.pc = "fetch" /\ sq \in Seq(Users) /\ sq # << >>
    BY <1>8 DEF Fetch, TypeOK
  <2>2. Head(sq) \in Users
    BY <2>1
  <2>3. drv'.pc \in {"send", "failed"} /\ drv'.who = Head(sq)
    BY <1>8, MovesOn
  <2>4. Serving /\ Serving'
    BY <2>1, <2>2, <2>3 DEF Serving, Work, Ends
  <2> QED  BY <2>1, <2>3, <2>4 DEF Signals
<1>9. CASE Complete
  <2>1. UNCHANGED <<masked, pend, sq, owed, server>> /\ drv.pc \in Ends /\ drv.who \in Users
    BY <1>9 DEF Complete, Finished, Ends
  <2>2. Serving
    BY <2>1 DEF Serving
  <2>3. Len(cq) \in Nat /\ CqSize \in Nat
    BY GpuAssumption DEF TypeOK
  <2>4. \/ drv'.pc = "fetch" /\ over' = over
        \/ drv'.pc = "idle" /\ over' = TRUE
    <3>1. drv'.pc = (IF Len(cq) < CqSize THEN "fetch" ELSE "idle")
      BY <1>9, MovesOn
    <3>2. \/ Len(cq) < CqSize /\ over' = over
          \/ Len(cq) >= CqSize /\ over' = TRUE
      BY <1>9 DEF Complete
    <3>3. Len(cq) >= CqSize => ~(Len(cq) < CqSize)
      BY <2>3
    <3> QED  BY <3>1, <3>2, <3>3
  <2>5. drv'.who = "init"
    BY <1>9, MovesOn
  <2> QED  BY <2>1, <2>2, <2>4, <2>5, FirstParts DEF Signals, Serving, Work, Ends
<1>10. CASE Reply
  <2>1. UNCHANGED <<masked, pend, sq, owed, server, over>> /\ drv.pc \in Ends /\ drv.who \notin Users
    BY <1>10 DEF Reply, Finished, Ends
  <2>2. drv'.pc = "idle" /\ drv'.who = "init"
    BY <1>10, Moves
  <2> QED  BY <2>1, <2>2, FirstParts DEF Signals, Serving, Work, Ends
<1>11. CASE CallFlush \/ CallScanout
  <2>1. PICK w \in Bufs \cup {"call"}, t \in {Flush, Scanout} : Call(t, w)
    BY <1>11 DEF CallFlush, CallScanout
  <2>2. UNCHANGED <<masked, pend, sq, owed, server, over>> /\ drv.pc = "idle"
    BY <2>1 DEF Call
  <2>3. drv'.pc = "send" /\ drv'.who = w
    BY <2>1, MovesOn
  <2>4. drv.who = "init" /\ w \notin Users
    BY <2>2, FirstParts DEF Plan, Work, Ends
  <2> QED  BY <2>2, <2>3, <2>4, FirstParts DEF Signals, Serving, Work, Ends
<1>12. CASE Elsewhere
  <2>1. drv' = drv /\ (Serving' <=> Serving)
    BY <1>12, ElsewhereDrv DEF Serving
  <2>2. CASE SetupRing
    <3>1. UNCHANGED <<masked, pend, sq, owed, over>> /\ server = "none" /\ server' = "set"
      BY <2>2 DEF SetupRing
    <3> QED  BY <2>1, <3>1 DEF Signals
  <2>3. CASE KernelIrq
    <3>1. UNCHANGED <<sq, owed, over, server>> /\ pend' = pend \cup {"IRQ"}
      BY <2>3 DEF KernelIrq
    <3> QED  BY <2>1, <3>1 DEF Signals
  <2>4. CASE ClientNotify
    <3>1. UNCHANGED <<sq, over, server, masked>> /\ pend' = pend \cup {"SQ"}
      BY <2>4 DEF ClientNotify
    <3> QED  BY <2>1, <3>1 DEF Signals
  <2>5. CASE \E u \in Users : ClientSubmit(u)
    <3>1. UNCHANGED <<pend, over, server, masked>> /\ owed' = TRUE /\ server # "none"
      BY <2>5 DEF ClientSubmit
    <3> QED  BY <2>1, <3>1 DEF Signals
  <2>6. CASE \/ DevTake \/ DevSleep \/ DevRaise \/ ClientReap \/ UNCHANGED vars
             \/ \E h \in dev.held, st \in {"ok", "err"} : DevExec(h, st)
    <3>1. UNCHANGED <<masked, pend, sq, owed, over, server>>
      BY <2>6 DEF DevTake, DevSleep, DevRaise, DevExec, ClientReap
    <3> QED  BY <2>1, <3>1 DEF Signals
  <2> QED  BY <1>12, <2>2, <2>3, <2>4, <2>5, <2>6 DEF Elsewhere, Client
<1> QED  BY <1>1, <1>2, <1>3, <1>4, <1>5, <1>6, <1>7, <1>8, <1>9, <1>10, <1>11, <1>12, NextIs

-----------------------------------------------------------------------------
(* One command at a time: what the queue's operations leave of it.         *)

Where   == {"zero", "cmd", "resp"}
GpuQueue == Queue(Where)

\* Sending takes two descriptors of a full free list and links them as one chain.
LEMMA CommandSent ==
  ASSUME NEW q \in GpuQueue, FreeList(q, Desc), q.num_free = Num
  PROVE  LET h  == q.free_head
             a1 == AllocDesc(q)
             r  == a1.free_head
             p  == Submit(WriteDesc(WriteDesc(AllocDesc(a1), h, "cmd", {NEXT}, r),
                                    r, "resp", {WRITE}, 0), h)
         IN  /\ p \in GpuQueue /\ FreeList(p, Desc \ {h, r}) /\ p.num_free = Num - 2
             /\ h \in Desc /\ r \in Desc /\ h # r /\ p.next[h] = r
             /\ p.avail_idx = (q.avail_idx + 1) % IdxMod /\ p.avail_ring[q.avail_idx % Num] = h
             /\ p.used_idx = q.used_idx /\ p.last_used_idx = q.last_used_idx
<1> USE DEF GpuQueue
<1> DEFINE h  == q.free_head
           a1 == AllocDesc(q)
           r  == a1.free_head
           a2 == AllocDesc(a1)
           w1 == WriteDesc(a2, h, "cmd", {NEXT}, r)
           w2 == WriteDesc(w1, r, "resp", {WRITE}, 0)
           p  == Submit(w2, h)
<1>0. Num \in Nat /\ Num >= 2 /\ 0 \in Desc /\ "cmd" \in Where /\ "resp" \in Where
  BY QueueAssumption, GpuAssumption DEF Desc, Where
<1>1. /\ a1 \in Queue(Where) /\ h \in Desc /\ FreeList(a1, Desc \ {h}) /\ a1.num_free = Num - 1
      /\ a1.avail_idx = q.avail_idx /\ a1.used_idx = q.used_idx /\ a1.last_used_idx = q.last_used_idx
  <2>1. CanAlloc(q)
    BY <1>0 DEF CanAlloc
  <2>2. a1.num_free = Num - 1
    BY DEF AllocDesc, Queue
  <2>3. a1.avail_idx = q.avail_idx /\ a1.used_idx = q.used_idx /\ a1.last_used_idx = q.last_used_idx
    BY DEF AllocDesc, Queue
  <2> QED  BY <2>1, <2>2, <2>3, AllocDescFree
<1> HIDE DEF a1
<1>2. /\ a2 \in Queue(Where) /\ r \in Desc \ {h} /\ FreeList(a2, (Desc \ {h}) \ {r})
      /\ a2.num_free = Num - 2
      /\ a2.avail_idx = q.avail_idx /\ a2.used_idx = q.used_idx /\ a2.last_used_idx = q.last_used_idx
  <2>1. CanAlloc(a1)
    BY <1>0, <1>1 DEF CanAlloc
  <2>2. a2.num_free = (Num - 1) - 1
    BY <1>1 DEF AllocDesc, Queue
  <2>3. a2.avail_idx = q.avail_idx /\ a2.used_idx = q.used_idx /\ a2.last_used_idx = q.last_used_idx
    BY <1>1 DEF AllocDesc, Queue
  <2> QED  BY <1>0, <1>1, <2>1, <2>2, <2>3, AllocDescFree
<1> HIDE DEF a2, r
<1> DEFINE F == (Desc \ {h}) \ {r}
<1>3. F = Desc \ {h, r} /\ h \notin F /\ r \notin F
  OBVIOUS
<1> HIDE DEF F
<1>4. /\ w1 \in Queue(Where) /\ FreeList(w1, F) /\ w1.num_free = Num - 2 /\ w1.next[h] = r
      /\ w1.avail_idx = q.avail_idx /\ w1.used_idx = q.used_idx /\ w1.last_used_idx = q.last_used_idx
  <2>1. w1 \in Queue(Where) /\ FreeList(w1, F)
    <3>1. {NEXT} \in SUBSET {NEXT, WRITE} /\ FreeList(a2, F)
      BY <1>2 DEF F
    <3> QED  BY <1>0, <1>1, <1>2, <1>3, <3>1, WriteDescFree
  <2>2. /\ w1.num_free = Num - 2 /\ w1.next[h] = r
        /\ w1.avail_idx = q.avail_idx /\ w1.used_idx = q.used_idx /\ w1.last_used_idx = q.last_used_idx
    BY <1>1, <1>2 DEF WriteDesc, Queue
  <2> QED  BY <2>1, <2>2
<1> HIDE DEF w1
<1>5. /\ w2 \in Queue(Where) /\ FreeList(w2, F) /\ w2.num_free = Num - 2 /\ w2.next[h] = r
      /\ w2.avail_idx = q.avail_idx /\ w2.used_idx = q.used_idx /\ w2.last_used_idx = q.last_used_idx
  <2>1. w2 \in Queue(Where) /\ FreeList(w2, F)
    <3>1. {WRITE} \in SUBSET {NEXT, WRITE} /\ r \in Desc
      BY <1>2
    <3> QED  BY <1>0, <1>3, <1>4, <3>1, WriteDescFree
  <2>2. /\ w2.num_free = Num - 2 /\ w2.next[h] = r
        /\ w2.avail_idx = q.avail_idx /\ w2.used_idx = q.used_idx /\ w2.last_used_idx = q.last_used_idx
    BY <1>1, <1>2, <1>4 DEF WriteDesc, Queue
  <2> QED  BY <2>1, <2>2
<1> HIDE DEF w2
<1>6. p \in Queue(Where) /\ FreeList(p, F)
  BY <1>1, <1>5, RingsFree
<1>7. /\ p.num_free = Num - 2 /\ p.next[h] = r
      /\ p.avail_idx = (q.avail_idx + 1) % IdxMod /\ p.avail_ring[q.avail_idx % Num] = h
      /\ p.used_idx = q.used_idx /\ p.last_used_idx = q.last_used_idx
  <2>1. q.avail_idx % Num \in Desc
    BY RingIndex DEF Queue
  <2> QED  BY <1>5, <2>1 DEF Submit, Queue
<1> HIDE DEF p
<1> QED  BY <1>1, <1>2, <1>3, <1>6, <1>7 DEF p, w2, w1, a2, r, a1

\* Freeing the two descriptors of the command fills the free list again.
LEMMA CommandFreed ==
  ASSUME NEW q \in GpuQueue, NEW h \in Desc, NEW r \in Desc, h # r,
         FreeList(q, Desc \ {h, r}), q.num_free = Num - 2
  PROVE  LET p == FreeDesc(FreeDesc(q, h), r)
         IN  /\ p \in GpuQueue /\ FreeList(p, Desc) /\ p.num_free = Num
             /\ p.avail_idx = q.avail_idx /\ p.used_idx = q.used_idx
             /\ p.last_used_idx = q.last_used_idx
<1> USE DEF GpuQueue
<1> DEFINE f == FreeDesc(q, h)
           p == FreeDesc(f, r)
           F == Desc \ {h, r}
<1>0. Num \in Nat
  BY QueueAssumption
<1>1. /\ f \in Queue(Where) /\ FreeList(f, F \cup {h}) /\ f.num_free = Num - 1
      /\ f.avail_idx = q.avail_idx /\ f.used_idx = q.used_idx /\ f.last_used_idx = q.last_used_idx
  <2>1. h \notin F
    OBVIOUS
  <2>2. f.num_free = (Num - 2) + 1
    BY DEF FreeDesc, Queue
  <2>3. f.avail_idx = q.avail_idx /\ f.used_idx = q.used_idx /\ f.last_used_idx = q.last_used_idx
    BY DEF FreeDesc, Queue
  <2> QED  BY <1>0, <2>1, <2>2, <2>3, FreeDescFree
<1> HIDE DEF f
<1>2. r \notin F \cup {h} /\ (F \cup {h}) \cup {r} = Desc
  OBVIOUS
<1> HIDE DEF F
<1>3. p \in Queue(Where) /\ FreeList(p, Desc)
  <2>1. p \in Queue(Where) /\ FreeList(p, (F \cup {h}) \cup {r})
    BY <1>1, <1>2, FreeDescFree
  <2> QED  BY <1>2, <2>1
<1>4. /\ p.num_free = (Num - 1) + 1
      /\ p.avail_idx = q.avail_idx /\ p.used_idx = q.used_idx /\ p.last_used_idx = q.last_used_idx
  BY <1>1 DEF FreeDesc, Queue
<1> QED  BY <1>0, <1>3, <1>4 DEF f

\* What the device's answer, and the driver's pop, do not touch.
SameCommand(p, q) ==
  /\ p.avail_ring = q.avail_ring /\ p.avail_idx = q.avail_idx /\ p.next = q.next
  /\ p.num_free = q.num_free

\* Giving the command back, and popping it, leave its descriptors linked.
LEMMA CommandAnswered ==
  ASSUME NEW q \in GpuQueue, NEW F, FreeList(q, F), NEW h \in Desc
  PROVE  /\ DevUse(q, h) \in GpuQueue /\ FreeList(DevUse(q, h), F)
         /\ SameCommand(DevUse(q, h), q)
         /\ DevUse(q, h).last_used_idx = q.last_used_idx
         /\ DevUse(q, h).used_idx = (q.used_idx + 1) % IdxMod
         /\ Pop(q) \in GpuQueue /\ FreeList(Pop(q), F)
         /\ SameCommand(Pop(q), q)
         /\ Pop(q).used_idx = q.used_idx
         /\ Pop(q).last_used_idx = (q.last_used_idx + 1) % IdxMod
<1> USE DEF GpuQueue
<1>1. DevUse(q, h) \in Queue(Where) /\ FreeList(DevUse(q, h), F)
  BY RingsFree
<1>2. Pop(q) \in Queue(Where) /\ FreeList(Pop(q), F)
  BY RingsFree
<1>3. /\ SameCommand(DevUse(q, h), q)
      /\ DevUse(q, h).last_used_idx = q.last_used_idx
      /\ DevUse(q, h).used_idx = (q.used_idx + 1) % IdxMod
  BY DEF DevUse, Queue, SameCommand
<1>4. /\ SameCommand(Pop(q), q)
      /\ Pop(q).used_idx = q.used_idx
      /\ Pop(q).last_used_idx = (q.last_used_idx + 1) % IdxMod
  BY DEF Pop, Queue, SameCommand
<1> QED  BY <1>1, <1>2, <1>3, <1>4

\* What Chain looks at, apart from the driver's place.
ChainVars == <<vq, cmd, resp, dev.seen, dev.held>>

\* With no command out, a step that leaves the queue and the device keeps the chain.
LEMMA ChainQuiet ==
  ASSUME Chain, UNCHANGED ChainVars, drv.pc \notin Busy, drv'.pc \notin Busy
  PROVE  Chain'
BY DEF Chain, ChainVars, Rest, Level, Sent, Held, Used, Back, TwoOut, Due, SentHead, SentResp, Busy

\* The queue and the two descriptors of the command are typed.
LEMMA QueueIs == ASSUME TypeOK PROVE vq \in GpuQueue /\ SentHead \in Desc /\ SentResp \in Desc
<1>1. vq \in Queue(Where)
  BY DEF TypeOK, Where
<1>2. vq.avail_ring \in [Desc -> Desc] /\ vq.next \in [Desc -> Desc] /\ vq.avail_idx \in Int
  BY <1>1, QueueAssumption DEF Queue, Idx
<1>3. (vq.avail_idx - 1) % Num \in Desc
  <2>1. Num \in Nat \ {0} /\ vq.avail_idx - 1 \in Int
    BY <1>2, QueueAssumption
  <2> QED  BY <2>1, ModSplit DEF Desc
<1> QED  BY <1>1, <1>2, <1>3 DEF GpuQueue, SentHead, SentResp

\* Sending a command puts the only chain there is into the available ring.
LEMMA ChainSend ==
  ASSUME TypeOK, Chain, Send
  PROVE  vq' \in GpuQueue /\ Chain'
<1> DEFINE h  == vq.free_head
           a1 == AllocDesc(vq)
           r  == a1.free_head
<1>1. /\ vq \in GpuQueue /\ FreeList(vq, Desc) /\ vq.num_free = Num
      /\ Rest /\ vq.avail_idx \in Idx
  <2>1. vq \in GpuQueue
    BY QueueIs
  <2>2. vq.avail_idx \in Idx
    BY <2>1 DEF GpuQueue, Queue
  <2> QED  BY <2>1, <2>2 DEF Chain, Send, Busy
<1>2. /\ vq' = Submit(WriteDesc(WriteDesc(AllocDesc(a1), h, "cmd", {NEXT}, r),
                                r, "resp", {WRITE}, 0), h)
      /\ cmd' = [op |-> Head(drv.todo), who |-> drv.who] /\ resp' = NoResp /\ dev' = dev
  BY DEF Send, devVars
<1>3. /\ vq' \in GpuQueue /\ FreeList(vq', Desc \ {h, r}) /\ vq'.num_free = Num - 2
      /\ h \in Desc /\ r \in Desc /\ h # r /\ vq'.next[h] = r
      /\ vq'.avail_idx = (vq.avail_idx + 1) % IdxMod /\ vq'.avail_ring[vq.avail_idx % Num] = h
      /\ vq'.used_idx = vq.used_idx /\ vq'.last_used_idx = vq.last_used_idx
  BY <1>1, <1>2, CommandSent
<1> HIDE DEF h, r
<1>4. /\ vq'.avail_idx # vq.avail_idx
      /\ (vq'.avail_idx - 1) % Num = vq.avail_idx % Num
  BY <1>1, <1>3, SlotBefore
<1>5. SentHead' = h /\ SentResp' = r
  BY <1>3, <1>4 DEF SentHead, SentResp
<1>6. TwoOut'
  BY <1>3, <1>5 DEF TwoOut
<1>7. drv'.pc = "notify" /\ SameWork
  BY Moves
<1>8. Due'
  BY <1>2, <1>7 DEF Due, SameWork
<1>9. Sent'
  BY <1>1, <1>2, <1>3, <1>4 DEF Sent, Rest, Level, CanPop, NoResp
<1> QED  BY <1>3, <1>6, <1>7, <1>8, <1>9 DEF Chain, Busy

\* The spin ends when the device has given back the command sent, and pops it.
LEMMA ChainSpin ==
  ASSUME TypeOK, Chain, Spin
  PROVE  vq' \in GpuQueue /\ Chain'
<1>1. /\ vq' = Pop(vq) /\ CanPop(vq) /\ drv.pc = "spin"
      /\ UNCHANGED <<cmd, resp, dev>>
  BY DEF Spin, devVars
<1>2. TwoOut /\ Due /\ Used
  BY <1>1 DEF Chain, Busy, Sent, Held
<1>3. vq \in GpuQueue
  BY QueueIs
<1>4. /\ vq' \in GpuQueue /\ FreeList(vq', Desc \ {SentHead, SentResp})
      /\ SameCommand(vq', vq)
      /\ vq'.used_idx = vq.used_idx
      /\ vq'.last_used_idx = (vq.last_used_idx + 1) % IdxMod
  <2>1. 0 \in Desc
    BY QueueAssumption DEF Desc
  <2> QED  BY <1>1, <1>2, <1>3, <2>1, CommandAnswered DEF TwoOut
<1>5. SentHead' = SentHead /\ SentResp' = SentResp
  BY <1>4 DEF SameCommand, SentHead, SentResp
<1>6. TwoOut'
  BY <1>2, <1>4, <1>5 DEF TwoOut, SameCommand
<1>7. drv'.pc = "read" /\ SameWork
  BY Moves
<1>8. Due'
  BY <1>1, <1>2, <1>7 DEF Due, SameWork
<1>9. Back'
  BY <1>1, <1>2, <1>4 DEF Back, Rest, Used, Level, CanPop, SameCommand
<1> QED  BY <1>4, <1>6, <1>7, <1>8, <1>9 DEF Chain, Busy

\* Reading the response frees the whole chain.
LEMMA ChainRead ==
  ASSUME TypeOK, Chain, Read
  PROVE  vq' \in GpuQueue /\ Chain'
<1>1. vq' = Freed /\ drv.pc = "read" /\ resp' = NoResp /\ dev' = dev
  BY DEF Read, devVars
<1>2. TwoOut /\ Rest
  BY <1>1 DEF Chain, Busy, Back
<1>3. /\ vq' \in GpuQueue /\ FreeList(vq', Desc) /\ vq'.num_free = Num
      /\ vq'.avail_idx = vq.avail_idx /\ vq'.used_idx = vq.used_idx
      /\ vq'.last_used_idx = vq.last_used_idx
  BY <1>1, <1>2, QueueIs, CommandFreed DEF Freed, TwoOut
<1>4. Rest'
  BY <1>1, <1>2, <1>3 DEF Rest, Level, CanPop
<1>5. drv'.pc \notin Busy
  BY MovesOn DEF Busy
<1> QED  BY <1>1, <1>3, <1>4, <1>5 DEF Chain, NoResp, Busy

\* The device takes the command that was sent and no other.
LEMMA ChainDevTake ==
  ASSUME TypeOK, Chain, DevTake
  PROVE  vq' \in GpuQueue /\ Chain' /\ dev'.held = {SentHead}
<1>1. /\ DevCanTake(vq, dev.seen) /\ UNCHANGED <<vq, cmd, resp, drv>>
      /\ dev'.seen = (dev.seen + 1) % IdxMod
      /\ dev'.held = dev.held \cup {DevTakeId(vq, dev.seen)}
  BY DevMoves DEF DevTake, Quiet
<1>2. Sent /\ TwoOut /\ Due /\ drv.pc \in {"notify", "spin"}
  <2>1. ~Level
    BY <1>1 DEF DevCanTake, Level
  <2> QED  BY <2>1 DEF Chain, Rest, Held, Used, Back, Busy
<1>3. DevTakeId(vq, dev.seen) = SentHead
  <2>1. dev.seen \in Idx
    BY DEF TypeOK
  <2>2. (vq.avail_idx - 1) % Num = dev.seen % Num
    BY <1>2, <2>1, SlotBefore DEF Sent
  <2> QED  BY <2>2 DEF DevTakeId, SentHead
<1>4. SentHead' = SentHead /\ SentResp' = SentResp
  BY <1>1 DEF SentHead, SentResp
<1>5. Held'
  BY <1>1, <1>2, <1>3, <1>4 DEF Held, Sent, Level, NoResp
<1>6. TwoOut' /\ Due'
  BY <1>1, <1>2, <1>4 DEF TwoOut, Due
<1>7. drv'.pc \in {"notify", "spin"}
  BY <1>1, <1>2
<1> QED  BY <1>1, <1>2, <1>3, <1>5, <1>6, <1>7, QueueIs DEF Chain, Busy, Sent

(* The device answers the command under way, and no other.                 *)
LEMMA ChainDevExec ==
  ASSUME TypeOK, Chain, NEW h \in dev.held, NEW st \in {"ok", "err"}, DevExec(h, st)
  PROVE  /\ vq' \in GpuQueue /\ Chain'
         /\ drv.pc \in {"notify", "spin"} /\ Due /\ resp = NoResp
<1>1. /\ vq' = DevUse(vq, h) /\ UNCHANGED <<cmd, drv>>
      /\ resp' = [op |-> cmd.op, st |-> st]
      /\ dev'.seen = dev.seen /\ dev'.held = dev.held \ {h}
  BY DevMoves DEF DevExec, Quiet
<1>2. Held /\ TwoOut /\ Due /\ drv.pc \in {"notify", "spin"}
  BY DEF Chain, Rest, Sent, Used, Back, Busy
<1>3. h = SentHead
  BY <1>2 DEF Held
<1>4. /\ vq' \in GpuQueue /\ FreeList(vq', Desc \ {SentHead, SentResp})
      /\ SameCommand(vq', vq)
      /\ vq'.last_used_idx = vq.last_used_idx
      /\ vq'.used_idx = (vq.used_idx + 1) % IdxMod
  BY <1>1, <1>2, <1>3, QueueIs, CommandAnswered DEF TwoOut
<1>5. SentHead' = SentHead /\ SentResp' = SentResp
  BY <1>4 DEF SameCommand, SentHead, SentResp
<1>6. TwoOut' /\ Due'
  BY <1>1, <1>2, <1>4, <1>5 DEF TwoOut, SameCommand, Due
<1>7. Used'
  <2>1. vq.used_idx \in Idx
    BY QueueIs DEF GpuQueue, Queue
  <2>2. vq'.used_idx # vq.used_idx
    BY <1>4, <2>1, SlotBefore
  <2>3. vq.last_used_idx = vq.used_idx /\ dev.held = {h} /\ dev.seen = vq.avail_idx
    BY <1>2, <1>3 DEF Held, CanPop, Level
  <2>4. resp'.op = cmd'.op
    BY <1>1
  <2> QED  BY <1>1, <1>4, <2>2, <2>3, <2>4 DEF Used, Level, CanPop, SameCommand
<1>8. drv'.pc \in {"notify", "spin"}
  BY <1>1, <1>2
<1> QED  BY <1>2, <1>4, <1>6, <1>7, <1>8 DEF Chain, Busy, Held

\* Every step keeps at most one command out, and knows where it is.
LEMMA ChainStep ==
  ASSUME TypeOK, Plan, Chain, [Next]_vars
  PROVE  vq' \in GpuQueue /\ Chain'
<1> USE DEF ringVars, kernelVars, devVars, clientVars, histVars, Others, vars, Quiet
<1>0. vq \in GpuQueue
  BY QueueIs
<1>1. CASE Notify
  <2>1. /\ UNCHANGED ChainVars /\ drv'.pc = "spin" /\ SameWork /\ drv.pc = "notify"
    BY <1>1, Moves, DevMoves DEF Notify, ChainVars
  <2>2. (Sent' <=> Sent) /\ (Held' <=> Held) /\ (Used' <=> Used)
    BY <2>1 DEF ChainVars, Level, Sent, Held, Used, CanPop, SentHead, NoResp
  <2>3. (TwoOut' <=> TwoOut) /\ (Due' <=> Due) /\ vq' = vq
    BY <2>1 DEF ChainVars, TwoOut, Due, SentHead, SentResp, SameWork
  <2>4. TwoOut /\ Due /\ (Sent \/ Held \/ Used)
    BY <2>1 DEF Chain, Busy
  <2>5. drv'.pc = "spin" /\ TwoOut' /\ Due' /\ (Sent' \/ Held' \/ Used')
    BY <2>1, <2>2, <2>3, <2>4
  <2>6. Chain'
    BY <2>5 DEF Chain, Busy
  <2> QED  BY <1>0, <2>3, <2>6
<1>2. CASE Recv \/ Irq \/ RingTake \/ RingNone \/ RingEmpty \/ Reply
  <2>1. drv.pc \notin Busy /\ drv'.pc \notin Busy
    BY <1>2, Moves DEF Recv, Irq, RingTake, RingNone, RingEmpty, Reply, Finished, Busy
  <2>2. UNCHANGED ChainVars
    BY <1>2, DevMoves DEF Recv, Irq, RingTake, RingNone, RingEmpty, Reply, ChainVars
  <2>3. Chain'
    BY <2>1, <2>2, ChainQuiet
  <2>4. vq' = vq
    BY <2>2 DEF ChainVars
  <2> QED  BY <1>0, <2>3, <2>4
<1>3. CASE Fetch \/ Complete \/ CallFlush \/ CallScanout
  <2>1. drv.pc \notin Busy /\ drv'.pc \notin Busy
    BY <1>3, MovesOn DEF Fetch, Complete, CallFlush, CallScanout, Call, Finished, Busy
  <2>2. UNCHANGED ChainVars
    BY <1>3 DEF Fetch, Complete, CallFlush, CallScanout, Call, ChainVars
  <2>3. Chain'
    BY <2>1, <2>2, ChainQuiet
  <2>4. vq' = vq
    BY <2>2 DEF ChainVars
  <2> QED  BY <1>0, <2>3, <2>4
<1>4. CASE \E h \in dev.held, st \in {"ok", "err"} : DevExec(h, st)
  BY <1>4, ChainDevExec
<1>5. CASE SetupRing \/ DevSleep \/ DevRaise \/ KernelIrq \/ Client \/ UNCHANGED vars
  <2>1. UNCHANGED ChainVars
    BY <1>5, DevMoves DEF SetupRing, DevSleep, DevRaise, KernelIrq, Client, ClientNotify,
                          ClientReap, ClientSubmit, ChainVars
  <2>2. drv' = drv
    BY <1>5, ElsewhereDrv DEF Elsewhere
  <2>3. Chain'
    BY <2>1, <2>2 DEF Chain, ChainVars, Rest, Level, Sent, Held, Used, Back, TwoOut, Due,
                      SentHead, SentResp
  <2>4. vq' = vq
    BY <2>1 DEF ChainVars
  <2> QED  BY <1>0, <2>3, <2>4
<1> QED  BY <1>1, <1>2, <1>3, <1>4, <1>5, NextIs, ChainSend, ChainSpin, ChainRead, ChainDevTake
         DEF Elsewhere

-----------------------------------------------------------------------------
(* The screen.                                                             *)

\* The types of the display, spelled out.
LEMMA DispType ==
  ASSUME TypeOK
  PROVE  /\ disp.res \in BOOLEAN /\ disp.shown \in BOOLEAN /\ disp.back \in Bufs \cup {None}
         /\ shows \in Bufs \cup {None}
         /\ NoResp.st # "ok" /\ (Unseen => Old)
BY GpuAssumption DEF TypeOK, NoResp, Unseen, Old

\* What Screen looks at, apart from the work.
ScreenVars == <<disp, shows>>

\* Nothing asks for the screen: it stays as it was.
LEMMA ScreenQuiet ==
  ASSUME Screen, UNCHANGED ScreenVars,
         drv.who \notin Bufs \/ drv.pc \notin Work \cup {"done"}, drv'.who \notin Bufs
  PROVE  Screen'
BY DEF Screen, ScreenVars, Unseen, Old

(* The device did what the command says, if it accepted it.                *)
LEMMA DispMoves ==
  ASSUME TypeOK, NEW h, NEW st \in {"ok", "err"}, DevExec(h, st)
  PROVE  /\ resp'.st = st /\ resp'.op = cmd.op
         /\ st = "err" => disp' = disp
         /\ st = "ok" => /\ disp'.res = (disp.res \/ cmd.op = "create")
                         /\ disp'.shown = (disp.shown \/ cmd.op = "scan")
                         /\ cmd.op = "attach" => disp'.back = cmd.who
                         /\ cmd.op # "attach" => disp'.back = disp.back
                         /\ cmd.op = "create" => ~disp.res
                         /\ cmd.op \in {"attach", "scan"} => disp.res
<1>1. resp'.st = st /\ resp'.op = cmd.op
  BY DEF DevExec
<1>2. st = "err" => disp' = disp
  BY DEF DevExec
<1>3. ASSUME st = "ok"
      PROVE  /\ disp'.res = (disp.res \/ cmd.op = "create")
             /\ disp'.shown = (disp.shown \/ cmd.op = "scan")
             /\ disp'.back = IF cmd.op = "attach" THEN cmd.who ELSE disp.back
  <2> DEFINE res == disp.res \/ cmd.op = "create"
             shown == disp.shown \/ cmd.op = "scan"
             back == IF cmd.op = "attach" THEN cmd.who ELSE disp.back
  <2>1. disp \in [res : BOOLEAN, back : Bufs \cup {None}, shown : BOOLEAN]
    BY DEF TypeOK
  <2>2. disp' = [disp EXCEPT !.res = res, !.back = back, !.shown = shown]
    BY <1>3 DEF DevExec
  <2> HIDE DEF res, shown, back
  <2>3. disp'.res = res /\ disp'.shown = shown /\ disp'.back = back
    BY <2>1, <2>2
  <2> QED  BY <2>3 DEF res, shown, back
<1>4. st = "ok" => Possible(cmd.op)
  BY DEF DevExec
<1>5. /\ Possible("create") <=> ~disp.res
      /\ Possible("attach") => disp.res
      /\ Possible("scan") => disp.res
  BY DEF Possible
<1> QED  BY <1>1, <1>2, <1>3, <1>4, <1>5

\* What the device does to the display is the step of the plan that was sent.
LEMMA ScreenDevExec ==
  ASSUME TypeOK, Plan, Chain, Screen, NEW h \in dev.held, NEW st \in {"ok", "err"}, DevExec(h, st)
  PROVE  Screen'
<1>1. drv.pc \in {"notify", "spin"} /\ Due /\ resp = NoResp
  BY ChainDevExec
<1>2. UNCHANGED <<drv, shows>>
  BY DEF DevExec, Quiet, histVars
<1>3. cmd.op = Head(drv.todo) /\ cmd.who = drv.who /\ resp.st # "ok"
  BY <1>1, DispType DEF Due
<1>4. CASE drv.who \notin Bufs
  <2>1. cmd.op \notin {"create", "attach", "scan"}
    BY <1>1, <1>3, <1>4, Tails DEF Plan, Work, FlushParts
  <2>2. disp'.res = disp.res /\ disp'.shown = disp.shown /\ disp'.back = disp.back
    BY <2>1, DispMoves, DispType
  <2> QED  BY <1>2, <1>4, <2>2 DEF Screen, Old, Unseen
<1>5. CASE drv.who \in Bufs
  <2>1. drv.pc \in Work /\ Stage /\ drv.todo \in ScanoutParts
    BY <1>1, <1>5, FirstParts DEF Screen, Plan, Work
  <2>2. CASE st = "err"
    <3>1. disp' = disp /\ resp'.st # "ok"
      BY <2>2, DispMoves
    <3>2. Stage'
      BY <1>2, <1>3, <2>1, <3>1 DEF Stage, Unseen, Old, New
    <3> QED  BY <1>1, <1>2, <1>5, <3>1, <3>2 DEF Screen, Old, Unseen, New, Work
  <2>3. CASE st = "ok"
    <3>1. /\ resp'.st = "ok"
          /\ disp'.res = (disp.res \/ cmd.op = "create")
          /\ disp'.shown = (disp.shown \/ cmd.op = "scan")
          /\ cmd.op = "attach" => disp'.back = drv.who
          /\ cmd.op # "attach" => disp'.back = disp.back
          /\ cmd.op = "create" => ~disp.res
          /\ cmd.op \in {"attach", "scan"} => disp.res
      BY <1>3, <2>3, DispMoves
    <3>2. Stage'
      <4>1. CASE cmd.op = "create"
        <5>1. Unseen
          BY <3>1, <4>1 DEF Screen
        <5> QED  BY <1>2, <1>3, <3>1, <4>1, <5>1 DEF Stage, Unseen
      <4>2. CASE cmd.op = "attach"
        BY <1>2, <1>3, <2>1, <3>1, <4>2 DEF Stage, Unseen
      <4>3. CASE cmd.op = "scan"
        BY <1>2, <1>3, <2>1, <3>1, <4>3, DispType DEF Stage, Unseen
      <4>4. CASE cmd.op \notin {"create", "attach", "scan"}
        BY <1>2, <1>3, <2>1, <3>1, <4>4, DispType DEF Stage, New
      <4> QED  BY <4>1, <4>2, <4>3, <4>4
    <3>3. ~disp'.res => Unseen'
      BY <1>2, <3>1, DispType DEF Screen, Unseen
    <3> QED  BY <1>1, <1>2, <1>5, <3>2, <3>3 DEF Screen, Work
  <2> QED  BY <2>2, <2>3
<1> QED  BY <1>4, <1>5

\* Reading the response moves on exactly when the display has.
LEMMA ScreenRead ==
  ASSUME TypeOK, Plan, Chain, Screen, Read
  PROVE  Screen'
<1>1. drv.pc = "read" /\ resp' = NoResp /\ UNCHANGED ScreenVars /\ drv'.who = drv.who
  BY MovesOn DEF Read, devVars, histVars, ScreenVars
<1>2. CASE drv.who \notin Bufs
  BY <1>1, <1>2, ScreenQuiet
<1>3. CASE drv.who \in Bufs
  <2>1. Stage /\ drv.todo \in ScanoutParts
    BY <1>1, <1>3, FirstParts DEF Screen, Plan, Work
  <2>2. (Old' <=> Old) /\ (Unseen' <=> Unseen) /\ (New' <=> New) /\ (disp'.res <=> disp.res)
        /\ disp' = disp
    BY <1>1 DEF ScreenVars, Old, Unseen, New
  <2>3. resp'.st # "ok"
    BY <1>1, DispType DEF NoResp
  <2>4. CASE Head(drv.todo) \in Checked /\ resp.st # "ok" /\ drv'.pc = "failed"
    <3>1. Old
      BY <2>1, <2>4, DispType DEF Stage, Checked
    <3> QED  BY <2>2, <2>4, <3>1 DEF Screen, Work
  <2>5. CASE /\ Head(drv.todo) \in Checked => resp.st = "ok"
             /\ drv'.pc = (IF Len(drv.todo) = 1 THEN "done" ELSE "send")
             /\ drv'.todo = Tail(drv.todo)
    <3>1. CASE drv.todo = Scanout
      <4>1. Head(drv'.todo) = "attach" /\ drv'.pc = "send" /\ Unseen
        BY <2>1, <2>5, <3>1, Tails DEF Stage, Checked
      <4>2. Stage'
        BY <2>2, <2>3, <4>1 DEF Stage
      <4> QED  BY <1>1, <1>3, <2>2, <4>1, <4>2 DEF Screen, Work
    <3>2. CASE drv.todo = Attaching
      <4>1. Head(drv'.todo) = "scan" /\ drv'.pc = "send" /\ Unseen /\ disp.back = drv.who
        BY <2>1, <2>5, <3>2, Tails DEF Stage, Checked
      <4>2. Stage'
        BY <1>1, <2>2, <2>3, <4>1 DEF Stage
      <4> QED  BY <1>1, <1>3, <2>2, <4>1, <4>2 DEF Screen, Work
    <3>3. CASE drv.todo = Scanning
      <4>1. Head(drv'.todo) = "transfer" /\ drv'.pc = "send" /\ New
        <5>1. Len(drv.todo) = 3 /\ Head(drv.todo) = "scan" /\ Head(Tail(drv.todo)) = "transfer"
          BY <3>3, Tails
        <5>2. Head(drv'.todo) = "transfer" /\ drv'.pc = "send"
          <6>1. Len(drv.todo) # 1 /\ drv'.todo = Tail(drv.todo)
            BY <2>5, <5>1
          <6>2. drv'.pc = "send"
            BY <2>5, <6>1, Zenon
          <6> QED  BY <5>1, <6>1, <6>2, Zenon
        <5>3. New
          BY <2>1, <2>5, <5>1 DEF Stage, Checked, New
        <5> QED  BY <5>2, <5>3
      <4>2. Stage'
        BY <2>2, <4>1 DEF Stage
      <4> QED  BY <1>1, <1>3, <2>2, <4>1, <4>2 DEF Screen, Work
    <3>4. CASE drv.todo = Flush
      <4>1. Head(drv'.todo) = "flush" /\ drv'.pc = "send" /\ New
        <5>1. Len(drv.todo) = 2 /\ Head(drv.todo) = "transfer" /\ Head(Tail(drv.todo)) = "flush"
          BY <3>4, Tails
        <5>2. Head(drv'.todo) = "flush" /\ drv'.pc = "send"
          BY <2>5, <5>1
        <5>3. New
          BY <2>1, <5>1 DEF Stage
        <5> QED  BY <5>2, <5>3
      <4>2. Stage'
        BY <2>2, <4>1 DEF Stage
      <4> QED  BY <1>1, <1>3, <2>2, <4>1, <4>2 DEF Screen, Work
    <3>5. CASE drv.todo = Flushing
      <4>1. drv'.pc = "done" /\ New
        BY <2>1, <2>5, <3>5, Tails DEF Stage
      <4> QED  BY <1>1, <1>3, <2>2, <4>1 DEF Screen, Work
    <3> QED  BY <2>1, <3>1, <3>2, <3>3, <3>4, <3>5 DEF ScanoutParts, FlushParts
  <2> QED  BY <2>4, <2>5, MovesOn
<1> QED  BY <1>2, <1>3

\* Every step keeps the display at the stage that what is left to do says.
LEMMA ScreenStep ==
  ASSUME TypeOK, Plan, Chain, Screen, [Next]_vars
  PROVE  Screen'
<1> USE DEF ringVars, kernelVars, devVars, clientVars, histVars, Others, vars, Quiet
<1>1. CASE Send \/ Notify \/ Spin
  <2>1. drv.pc \in Work /\ drv'.pc \in Work /\ SameWork
    BY <1>1, Moves DEF Send, Notify, Spin, Work
  <2>2. UNCHANGED <<resp, disp, shows>>
    BY <1>1 DEF Send, Notify, Spin, Chain, Busy
  <2>3. Stage' <=> Stage
    BY <2>1, <2>2 DEF Stage, SameWork, Unseen, Old, New
  <2> QED  BY <2>1, <2>2, <2>3 DEF Screen, SameWork, Unseen, Old, New, Work
<1>2. CASE Recv \/ Irq \/ RingTake \/ RingNone \/ RingEmpty
  <2>1. drv.pc \notin Work \cup Ends /\ drv'.who = drv.who /\ UNCHANGED ScreenVars
    BY <1>2, Moves DEF Recv, Irq, RingTake, RingNone, RingEmpty, Work, Ends, SameWork, ScreenVars
  <2>2. drv'.who \notin Bufs
    BY <2>1, FirstParts DEF Plan
  <2> QED  BY <2>1, <2>2, ScreenQuiet
<1>3. CASE Fetch
  <2>1. sq \in Seq(Users) /\ sq # << >> /\ drv.pc = "fetch" /\ UNCHANGED ScreenVars
    BY <1>3 DEF TypeOK, Fetch, ScreenVars
  <2>2. Head(sq) \in Users
    BY <2>1
  <2>3. drv'.who \notin Bufs
    BY <1>3, <2>2, MovesOn, FirstParts
  <2>4. drv.pc \notin Work \cup {"done"}
    BY <2>1 DEF Work
  <2> QED  BY <2>1, <2>3, <2>4, ScreenQuiet
<1>4. CASE Complete
  <2>1. drv.who \notin Bufs /\ drv'.who \notin Bufs /\ UNCHANGED ScreenVars
    BY <1>4, MovesOn, FirstParts DEF Complete, ScreenVars
  <2> QED  BY <2>1, ScreenQuiet
<1>5. CASE Reply
  <2>1. /\ drv.pc \in Ends /\ drv'.who = "init" /\ drv'.pc = "idle" /\ disp' = disp
        /\ shows' = IF drv.who \in Bufs /\ drv.pc = "done" THEN drv.who ELSE shows
    BY <1>5, Moves DEF Reply, Finished, Ends
  <2>2. CASE drv.who \in Bufs /\ drv.pc = "done"
    <3>1. New /\ disp.res /\ shows' = drv.who /\ drv.who # None
      BY <2>1, <2>2, GpuAssumption DEF Screen, New, Unseen
    <3>2. Old'
      BY <2>1, <3>1, DispType DEF New, Old
    <3> QED  BY <2>1, <3>1, <3>2, FirstParts DEF Screen
  <2>3. CASE ~(drv.who \in Bufs /\ drv.pc = "done")
    <3>1. UNCHANGED ScreenVars
      BY <2>1, <2>3 DEF ScreenVars
    <3>2. drv.who \notin Bufs \/ drv.pc \notin Work \cup {"done"}
      BY <2>1, <2>3 DEF Work, Ends
    <3> QED  BY <2>1, <3>1, <3>2, ScreenQuiet, FirstParts
  <2> QED  BY <2>2, <2>3
<1>6. CASE CallFlush
  <2>1. drv.pc = "idle" /\ UNCHANGED ScreenVars
    BY <1>6 DEF CallFlush, Call, ScreenVars
  <2>2. drv'.who = "call"
    BY <1>6, MovesOn DEF CallFlush
  <2>3. drv.pc \notin Work \cup {"done"} /\ drv'.who \notin Bufs
    BY <2>1, <2>2, FirstParts DEF Work
  <2> QED  BY <2>1, <2>3, ScreenQuiet
<1>7. CASE CallScanout
  <2>1. PICK b \in Bufs : Call(Scanout, b)
    BY <1>7 DEF CallScanout
  <2>2. drv.pc = "idle" /\ UNCHANGED <<disp, shows, resp>>
    BY <2>1 DEF Call
  <2>3. drv'.pc = "send" /\ drv'.who = b /\ drv'.todo = Scanout
    BY <2>1, MovesOn
  <2>4. Old /\ resp.st # "ok"
    BY <2>2, DispType DEF Screen, Work, Chain, Busy
  <2>5. Stage' /\ Old'
    BY <2>2, <2>3, <2>4, Tails DEF Stage, Old
  <2> QED  BY <2>2, <2>3, <2>5 DEF Screen, Unseen, Work
<1>8. CASE \E h \in dev.held, st \in {"ok", "err"} : DevExec(h, st)
  BY <1>8, ScreenDevExec
<1>9. CASE SetupRing \/ DevTake \/ DevSleep \/ DevRaise \/ KernelIrq \/ Client \/ UNCHANGED vars
  <2>1. UNCHANGED <<resp, disp, shows>>
    BY <1>9 DEF SetupRing, DevTake, DevSleep, DevRaise, KernelIrq, Client, ClientNotify,
                ClientReap, ClientSubmit
  <2>2. drv' = drv
    BY <1>9, ElsewhereDrv DEF Elsewhere
  <2> QED  BY <2>1, <2>2 DEF Screen, Stage, Unseen, Old, New
<1> QED  BY <1>1, <1>2, <1>3, <1>4, <1>5, <1>6, <1>7, <1>8, <1>9, NextIs, ScreenRead DEF Elsewhere

-----------------------------------------------------------------------------
(* Types, one group of variables at a time.                                *)

Places  == {"send", "notify", "spin", "read", "done", "failed", "idle", "irq", "ring", "fetch"}
DrvType == [pc : Places, todo : Seq(Cmd), who : Who, ring : BOOLEAN]
DevType == [kick : BOOLEAN, seen : Idx, held : SUBSET Desc, raise : BOOLEAN, isr : BOOLEAN]
Entry   == [user : Users, res : {0, -1}]

TypeBuffers ==
  /\ cmd \in [op : Cmd \cup {None}, who : Who \cup {None}]
  /\ resp \in [op : Cmd \cup {None}, st : {"ok", "err", None}]
TypeRings  == sq \in Seq(Users) /\ cq \in Seq(Entry) /\ Len(cq) <= CqSize
TypeSwitch == /\ server \in {"none", "set", "taken"}
              /\ pend \subseteq {"IRQ", "SQ"} /\ masked \in BOOLEAN
              /\ owed \in BOOLEAN /\ over \in BOOLEAN
TypeDisp   == /\ disp \in [res : BOOLEAN, back : Bufs \cup {None}, shown : BOOLEAN]
              /\ shows \in Bufs \cup {None}
TypeClient == /\ exec \in [Users -> [op : {"flush"}] \cup {None}]
              /\ ask \in [Users -> {"flush", "badop", None}]

\* TypeOK split into the parts the steps below are about, before and after a step.
LEMMA TypeParts ==
  /\ TypeOK <=> /\ vq \in GpuQueue /\ drv \in DrvType /\ dev \in DevType
                /\ TypeBuffers /\ TypeRings /\ TypeSwitch /\ TypeDisp /\ TypeClient
  /\ TypeOK' <=> /\ vq' \in GpuQueue /\ drv' \in DrvType /\ dev' \in DevType
                 /\ TypeBuffers' /\ TypeRings' /\ TypeSwitch' /\ TypeDisp' /\ TypeClient'
BY Zenon DEF TypeOK, GpuQueue, Where, DrvType, DevType, Places, Entry,
             TypeBuffers, TypeRings, TypeSwitch, TypeDisp, TypeClient

\* Types depend on what the actions change of each group.
LEMMA DrvStep ==
  ASSUME TypeOK, Plan, [Next]_vars
  PROVE  drv' \in DrvType
<1>1. drv \in DrvType
  BY TypeParts
<1>2. "init" \in Who /\ "call" \in Who /\ Users \subseteq Who /\ Bufs \subseteq Who
  BY DEF Who
<1>3. CASE Send \/ Notify \/ Spin \/ Recv \/ Irq
  <2> DEFINE put == "SQ" \in pend
  <2>1. put \in BOOLEAN
    OBVIOUS
  <2>2. CASE Recv
    <3>1. PICK p \in {"irq", "ring"} : drv' = [drv EXCEPT !.pc = p, !.ring = put]
      BY <2>2 DEF Recv
    <3> HIDE DEF put
    <3> QED  BY <1>1, <2>1, <3>1 DEF DrvType, Places
  <2>3. CASE Send \/ Notify \/ Spin \/ Irq
    BY <1>1, <2>3 DEF DrvType, Places, Send, Notify, Spin, Irq
  <2> QED  BY <1>3, <2>2, <2>3
<1>4. CASE RingTake \/ RingNone \/ RingEmpty \/ Reply
  BY <1>1, <1>2, <1>4 DEF DrvType, Places, RingTake, RingNone, RingEmpty, Reply
<1>5. CASE Complete
  <2>1. PICK p \in {"fetch", "idle"} : drv' = [drv EXCEPT !.pc = p, !.who = "init"]
    BY <1>5 DEF Complete
  <2> QED  BY <1>1, <1>2, <2>1 DEF DrvType, Places
<1>6. CASE Read
  <2>1. drv.todo \in ScanoutParts \cup {Info}
    BY <1>6, FirstParts DEF Plan, Read, Work
  <2>2. /\ drv.todo \in Seq(Cmd) /\ drv.todo # << >> /\ << >> \in Seq(Cmd)
    BY <2>1, PartsType
  <2>3. Tail(drv.todo) \in Seq(Cmd)
    BY <2>2
  <2>4. PICK p \in {"failed", "done", "send"}, t \in {<< >>, Tail(drv.todo)} :
          drv' = [drv EXCEPT !.pc = p, !.todo = t]
    <3>1. CASE Head(drv.todo) \in Checked /\ resp.st # "ok"
      BY <1>6, <3>1 DEF Read
    <3>2. CASE ~(Head(drv.todo) \in Checked /\ resp.st # "ok")
      <4>1. drv' = [drv EXCEPT !.pc = IF Len(drv.todo) = 1 THEN "done" ELSE "send",
                               !.todo = Tail(drv.todo)]
        BY <1>1, <1>6, <3>2 DEF Read, DrvType
      <4> QED  BY <4>1
    <3> QED  BY <3>1, <3>2
  <2>5. t \in Seq(Cmd)
    BY <2>2, <2>3
  <2> QED  BY <1>1, <2>4, <2>5 DEF DrvType, Places
<1>7. CASE Fetch
  <2>1. sq \in Seq(Users) /\ sq # << >>
    BY <1>7 DEF TypeOK, Fetch
  <2>2. Head(sq) \in Who /\ Flush \in Seq(Cmd)
    BY <1>2, <2>1, PartsType DEF ScanoutParts, FlushParts
  <2>3. \/ drv' = [drv EXCEPT !.pc = "send", !.todo = Flush, !.who = Head(sq)]
        \/ drv' = [drv EXCEPT !.pc = "failed", !.who = Head(sq)]
    BY <1>7 DEF Fetch
  <2> QED  BY <1>1, <2>2, <2>3 DEF DrvType, Places
<1>8. CASE CallFlush \/ CallScanout
  <2>1. PICK w \in Bufs \cup {"call"}, t \in {Flush, Scanout} : Call(t, w)
    BY <1>8 DEF CallFlush, CallScanout
  <2>2. t \in Seq(Cmd) /\ w \in Who
    BY <1>2, PartsType DEF ScanoutParts, FlushParts
  <2> QED  BY <1>1, <2>1, <2>2 DEF DrvType, Places, Call
<1>9. CASE Elsewhere
  BY <1>1, <1>9, ElsewhereDrv
<1> QED  BY <1>3, <1>4, <1>5, <1>6, <1>7, <1>8, <1>9, NextIs

\* Every step keeps the device typed: it never holds but what was published.
LEMMA DevStep ==
  ASSUME TypeOK, Plan, Chain, [Next]_vars
  PROVE  dev' \in DevType
<1> USE DEF ringVars, kernelVars, devVars, clientVars, histVars, Others, vars, Quiet
<1>1. dev \in DevType
  BY TypeParts
<1>2. CASE Notify \/ Irq \/ DevSleep \/ DevRaise
  BY <1>1, <1>2 DEF DevType, Notify, Irq, DevSleep, DevRaise
<1>3. CASE DevTake
  <2>1. dev.seen \in Idx /\ vq.avail_ring \in [Desc -> Desc]
    BY <1>1, QueueIs DEF DevType, GpuQueue, Queue
  <2>2. DevTakeId(vq, dev.seen) \in Desc /\ (dev.seen + 1) % IdxMod \in Idx
    BY <2>1, RingIndex DEF DevTakeId
  <2> QED  BY <1>1, <1>3, <2>2 DEF DevType, DevTake
<1>4. CASE \E h \in dev.held, st \in {"ok", "err"} : DevExec(h, st)
  <2>1. PICK h \in dev.held, st \in {"ok", "err"} : DevExec(h, st)
    BY <1>4
  <2>2. dev' = [dev EXCEPT !.held = dev.held \ {h}, !.raise = TRUE]
    BY <1>1, <2>1 DEF DevExec, DevType
  <2> QED  BY <1>1, <2>2 DEF DevType
<1>5. CASE Send \/ Spin \/ Read \/ Recv \/ RingTake \/ RingNone \/ RingEmpty \/ Fetch \/ Complete
           \/ Reply \/ CallFlush \/ CallScanout
  BY <1>1, <1>5 DEF Send, Spin, Read, Recv, RingTake, RingNone, RingEmpty, Fetch, Complete,
                    Reply, CallFlush, CallScanout, Call
<1>6. CASE SetupRing \/ KernelIrq \/ Client \/ UNCHANGED vars
  BY <1>1, <1>6 DEF SetupRing, KernelIrq, Client, ClientNotify, ClientReap, ClientSubmit
<1> QED  BY <1>2, <1>3, <1>4, <1>5, <1>6, NextIs DEF Elsewhere

\* Every step keeps the command, the response and the display typed.
LEMMA BuffersStep ==
  ASSUME TypeOK, Plan, Chain, [Next]_vars
  PROVE  TypeBuffers' /\ TypeDisp'
<1> USE DEF ringVars, kernelVars, devVars, clientVars, histVars, Others, vars, Quiet
<1>1. TypeBuffers /\ TypeDisp /\ drv \in DrvType
  BY TypeParts
<1>2. CASE Send
  <2>1. drv.todo \in ScanoutParts \cup {Info}
    BY <1>2, FirstParts DEF Plan, Send, Work
  <2>2. Head(drv.todo) \in Cmd /\ drv.who \in Who
    BY <1>1, <2>1, PartsType DEF DrvType
  <2> QED  BY <1>1, <1>2, <2>2 DEF Send, TypeBuffers, TypeDisp, NoResp
<1>3. CASE Read
  BY <1>1, <1>3 DEF Read, TypeBuffers, TypeDisp, NoCmd, NoResp
<1>4. CASE Reply
  BY <1>1, <1>4 DEF Reply, TypeBuffers, TypeDisp
<1>5. CASE \E h \in dev.held, st \in {"ok", "err"} : DevExec(h, st)
  <2>1. PICK h \in dev.held, st \in {"ok", "err"} : DevExec(h, st)
    BY <1>5
  <2>2. cmd.op \in Cmd \cup {None} /\ UNCHANGED <<cmd, shows>> /\ resp' = [op |-> cmd.op, st |-> st]
    BY <1>1, <2>1 DEF DevExec, TypeBuffers
  <2>3. TypeBuffers'
    BY <1>1, <2>2 DEF TypeBuffers
  <2>4. cmd.op = "attach" => cmd.who \in Bufs
    <3>1. Due /\ drv.pc \in Work
      BY <2>1, ChainDevExec DEF Work
    <3>2. Head(drv.todo) = "attach" => drv.who \in Bufs
      BY <3>1, Tails DEF Plan, FlushParts
    <3> QED  BY <3>1, <3>2 DEF Due
  <2>5. disp' \in [res : BOOLEAN, back : Bufs \cup {None}, shown : BOOLEAN]
    <3> DEFINE res == disp.res \/ cmd.op = "create"
               shown == disp.shown \/ cmd.op = "scan"
               back == IF cmd.op = "attach" THEN cmd.who ELSE disp.back
    <3>1. CASE st = "err"
      BY <1>1, <2>1, <3>1 DEF DevExec, TypeDisp
    <3>2. CASE st = "ok"
      <4>1. disp' = [disp EXCEPT !.res = res, !.back = back, !.shown = shown]
        BY <1>1, <2>1, <3>2 DEF DevExec, TypeDisp
      <4>2. res \in BOOLEAN /\ shown \in BOOLEAN
        BY <1>1 DEF TypeDisp
      <4>3. back \in Bufs \cup {None}
        BY <1>1, <2>4 DEF TypeDisp
      <4> HIDE DEF res, shown, back
      <4> QED  BY <1>1, <4>1, <4>2, <4>3 DEF TypeDisp
    <3> QED  BY <3>1, <3>2
  <2> QED  BY <1>1, <2>2, <2>3, <2>5 DEF TypeDisp
<1>6. CASE Notify \/ Spin \/ Recv \/ Irq \/ RingTake \/ RingNone \/ RingEmpty \/ Fetch \/ Complete
           \/ CallFlush \/ CallScanout
  <2>1. UNCHANGED <<cmd, resp, disp, shows>>
    BY <1>6 DEF Notify, Spin, Recv, Irq, RingTake, RingNone, RingEmpty, Fetch, Complete,
                CallFlush, CallScanout, Call
  <2> QED  BY <1>1, <2>1 DEF TypeBuffers, TypeDisp
<1>7. CASE SetupRing \/ DevTake \/ DevSleep \/ DevRaise \/ KernelIrq \/ Client \/ UNCHANGED vars
  <2>1. UNCHANGED <<cmd, resp, disp, shows>>
    BY <1>7 DEF SetupRing, DevTake, DevSleep, DevRaise, KernelIrq, Client, ClientNotify,
                ClientReap, ClientSubmit
  <2> QED  BY <1>1, <2>1 DEF TypeBuffers, TypeDisp
<1> QED  BY <1>2, <1>3, <1>4, <1>5, <1>6, <1>7, NextIs DEF Elsewhere

\* The entry that Complete appends.
Put(c, e) == Append(c, e)

\* Putting an entry at the end keeps a ring typed, one longer.
LEMMA PutType ==
  ASSUME NEW S, NEW c \in Seq(S), NEW e \in S
  PROVE  Put(c, e) \in Seq(S) /\ Len(Put(c, e)) = Len(c) + 1
BY DEF Put

(* A completion is appended, or does not fit.                              *)
LEMMA CompleteIs ==
  ASSUME TypeOK, Complete
  PROVE  /\ drv.who \in Users /\ drv.pc \in Ends /\ drv'.who = "init"
         /\ UNCHANGED <<vq, cmd, resp, dev, exec, ask, sq, server, pend, masked, owed>>
         /\ \/ /\ Len(cq) < CqSize /\ drv'.pc = "fetch" /\ over' = over
               /\ cq' = Put(cq, [user |-> drv.who, res |-> IF drv.pc = "done" THEN 0 ELSE -1])
            \/ Len(cq) >= CqSize /\ drv'.pc = "idle" /\ over' = TRUE /\ cq' = cq
<1>1. /\ drv.who \in Users /\ drv.pc \in Ends
      /\ UNCHANGED <<vq, cmd, resp, dev, exec, ask, sq, server, pend, masked, owed>>
  BY DEF Complete, Finished, Ends, Others, kernelVars, devVars, clientVars
<1>2. drv'.pc = (IF Len(cq) < CqSize THEN "fetch" ELSE "idle") /\ drv'.who = "init"
  BY MovesOn
<1>3. \/ /\ Len(cq) < CqSize /\ over' = over
         /\ cq' = Put(cq, [user |-> drv.who, res |-> IF drv.pc = "done" THEN 0 ELSE -1])
      \/ Len(cq) >= CqSize /\ over' = TRUE /\ cq' = cq
  BY DEF Complete, Put
<1>4. Len(cq) >= CqSize => ~(Len(cq) < CqSize)
  BY GpuAssumption DEF TypeOK
<1> QED  BY <1>1, <1>2, <1>3, <1>4

\* Every step keeps the rings and what the clients hold typed.
LEMMA RingsStep ==
  ASSUME TypeOK, [Next]_vars
  PROVE  TypeRings' /\ TypeClient'
<1> USE DEF ringVars, kernelVars, devVars, clientVars, histVars, Others, vars, Quiet
<1>1. TypeRings /\ TypeClient
  BY TypeParts
<1>2. CASE Complete
  <2> DEFINE e == [user |-> drv.who, res |-> IF drv.pc = "done" THEN 0 ELSE -1]
  <2>1. e \in Entry
    BY <1>2, CompleteIs DEF Entry
  <2> HIDE DEF e
  <2>2. Put(cq, e) \in Seq(Entry) /\ Len(Put(cq, e)) = Len(cq) + 1
    BY <1>1, <2>1, PutType DEF TypeRings
  <2>3. UNCHANGED <<exec, ask, sq>> /\ (cq' = cq \/ (Len(cq) < CqSize /\ cq' = Put(cq, e)))
    BY <1>2, CompleteIs DEF e
  <2>4. Len(cq) \in Nat /\ CqSize \in Nat
    BY <1>1, GpuAssumption DEF TypeRings
  <2> QED  BY <1>1, <2>2, <2>3, <2>4 DEF TypeRings, TypeClient
<1>3. CASE Fetch
  <2>1. sq \in Seq(Users) /\ sq # << >> /\ sq' = Tail(sq) /\ UNCHANGED <<cq, ask, exec>>
    BY <1>1, <1>3 DEF Fetch, TypeRings
  <2>2. Tail(sq) \in Seq(Users)
    BY <2>1
  <2> QED  BY <1>1, <2>1, <2>2 DEF TypeRings, TypeClient
<1>4. CASE \E u \in Users : ClientSubmit(u)
  <2>1. PICK u \in Users : ClientSubmit(u)
    BY <1>4
  <2>2. /\ sq' = Append(sq, u) /\ UNCHANGED <<cq, exec>>
        /\ \E k \in {"flush", "badop"} : ask' = [ask EXCEPT ![u] = k]
    BY <2>1 DEF ClientSubmit
  <2>3. Append(sq, u) \in Seq(Users)
    BY <1>1 DEF TypeRings
  <2> QED  BY <1>1, <2>2, <2>3 DEF TypeRings, TypeClient
<1>5. CASE ClientReap
  <2>1. cq \in Seq(Entry) /\ cq # << >> /\ cq' = Tail(cq) /\ sq' = sq
    BY <1>1, <1>5 DEF ClientReap, TypeRings
  <2>2. Tail(cq) \in Seq(Entry) /\ Len(Tail(cq)) = Len(cq) - 1 /\ Len(cq) \in Nat
    BY <2>1
  <2>3. TypeRings'
    <3>1. CqSize \in Nat /\ Len(cq) <= CqSize /\ sq \in Seq(Users)
      BY <1>1, GpuAssumption DEF TypeRings
    <3>2. Len(Tail(cq)) <= CqSize
      BY <2>2, <3>1
    <3> QED  BY <2>1, <2>2, <3>1, <3>2 DEF TypeRings
  <2>4. TypeClient'
    BY <1>1, <1>5 DEF ClientReap, TypeClient
  <2> QED  BY <2>3, <2>4
<1>6. CASE \E h \in dev.held, st \in {"ok", "err"} : DevExec(h, st)
  <2>1. PICK h \in dev.held, st \in {"ok", "err"} : DevExec(h, st)
    BY <1>6
  <2>2. UNCHANGED <<sq, cq, ask>> /\ (exec' = exec \/ exec' = [exec EXCEPT ![cmd.who] = [op |-> "flush"]])
    BY <2>1 DEF DevExec
  <2> QED  BY <1>1, <2>2 DEF TypeRings, TypeClient
<1>7. CASE Send \/ Notify \/ Spin \/ Read \/ Recv \/ Irq \/ RingTake \/ RingNone \/ RingEmpty
           \/ Reply \/ CallFlush \/ CallScanout
  <2>1. UNCHANGED <<sq, cq, ask, exec>>
    BY <1>7 DEF Send, Notify, Spin, Read, Recv, Irq, RingTake, RingNone, RingEmpty, Reply,
                CallFlush, CallScanout, Call
  <2> QED  BY <1>1, <2>1 DEF TypeRings, TypeClient
<1>8. CASE SetupRing \/ DevTake \/ DevSleep \/ DevRaise \/ KernelIrq \/ ClientNotify \/ UNCHANGED vars
  <2>1. UNCHANGED <<sq, cq, ask, exec>>
    BY <1>8 DEF SetupRing, DevTake, DevSleep, DevRaise, KernelIrq, ClientNotify
  <2> QED  BY <1>1, <2>1 DEF TypeRings, TypeClient
<1> QED  BY <1>2, <1>3, <1>4, <1>5, <1>6, <1>7, <1>8, NextIs DEF Elsewhere, Client

\* Every step keeps the set-up of the ring and the signals typed.
LEMMA SwitchStep ==
  ASSUME TypeOK, [Next]_vars
  PROVE  TypeSwitch'
<1> USE DEF ringVars, kernelVars, devVars, clientVars, histVars, Others, vars, Quiet
<1>1. TypeSwitch
  BY TypeParts
<1>2. CASE Complete
  BY <1>1, <1>2, CompleteIs DEF TypeSwitch
<1>3. CASE Recv \/ Irq \/ RingTake \/ RingEmpty \/ SetupRing
  BY <1>1, <1>3 DEF Recv, Irq, RingTake, RingEmpty, SetupRing, TypeSwitch
<1>4. CASE KernelIrq \/ ClientNotify \/ \E u \in Users : ClientSubmit(u)
  BY <1>1, <1>4 DEF KernelIrq, ClientNotify, ClientSubmit, TypeSwitch
<1>5. CASE Send \/ Notify \/ Spin \/ Read \/ RingNone \/ Fetch \/ Reply \/ CallFlush \/ CallScanout
  <2>1. UNCHANGED <<server, pend, masked, owed, over>>
    BY <1>5 DEF Send, Notify, Spin, Read, RingNone, Fetch, Reply, CallFlush, CallScanout, Call
  <2> QED  BY <1>1, <2>1 DEF TypeSwitch
<1>6. CASE \/ DevTake \/ DevSleep \/ DevRaise \/ ClientReap \/ UNCHANGED vars
           \/ \E h \in dev.held, st \in {"ok", "err"} : DevExec(h, st)
  <2>1. UNCHANGED <<server, pend, masked, owed, over>>
    BY <1>6 DEF DevTake, DevSleep, DevRaise, ClientReap, DevExec
  <2> QED  BY <1>1, <2>1 DEF TypeSwitch
<1> QED  BY <1>2, <1>3, <1>4, <1>5, <1>6, NextIs DEF Elsewhere, Client

\* Every step keeps the types, given the plan and the chain.
LEMMA TypeStep ==
  ASSUME TypeOK, Plan, Chain, [Next]_vars
  PROVE  TypeOK'
BY TypeParts, DrvStep, DevStep, BuffersStep, RingsStep, SwitchStep, ChainStep

-----------------------------------------------------------------------------
(* The invariant of the driver and its device.                             *)

IInv == TypeOK /\ Plan /\ Chain /\ Screen /\ Signals

\* The invariant holds initially.
LEMMA InitIInv == Init => IInv
<1> SUFFICES ASSUME Init PROVE IInv
  OBVIOUS
<1>1. /\ vq = NewQueue("zero")
      /\ drv = [pc |-> "send", todo |-> Info, who |-> "init", ring |-> FALSE]
      /\ server = "none" /\ cmd = NoCmd /\ resp = NoResp
      /\ sq = << >> /\ cq = << >> /\ pend = {} /\ masked = FALSE
      /\ dev = [kick |-> FALSE, seen |-> 0, held |-> {}, raise |-> FALSE, isr |-> FALSE]
      /\ disp = [res |-> FALSE, back |-> None, shown |-> FALSE]
      /\ exec = [u \in Users |-> None] /\ ask = [u \in Users |-> None] /\ owed = FALSE
      /\ shows = None /\ over = FALSE
  BY DEF Init
<1>2. vq \in GpuQueue /\ FreeList(vq, Desc)
  <2>1. "zero" \in Where
    BY DEF Where
  <2> QED  BY <1>1, <2>1, NewQueueFree DEF GpuQueue
<1>3. vq.num_free = Num /\ vq.avail_idx = 0 /\ vq.used_idx = 0 /\ vq.last_used_idx = 0
  BY <1>1 DEF NewQueue
<1>4. Chain
  BY <1>1, <1>2, <1>3 DEF Chain, Busy, Rest, Level, CanPop
<1>5. Plan
  BY <1>1, FirstParts DEF Plan, Work, Ends
<1>6. Screen
  BY <1>1, FirstParts DEF Screen, Unseen, Old
<1>7. Signals
  BY <1>1, FirstParts DEF Signals, Serving
<1>8. drv \in DrvType
  <2>1. Info \in Seq(Cmd)
    BY PartsType
  <2> QED  BY <1>1, <2>1 DEF DrvType, Places, Who
<1>9. dev \in DevType
  BY <1>1, QueueAssumption DEF DevType, Idx
<1>10. TypeBuffers /\ TypeDisp
  BY <1>1 DEF TypeBuffers, TypeDisp, NoCmd, NoResp
<1>11. TypeRings
  <2>1. Len(<< >>) = 0 /\ << >> \in Seq(Users) /\ << >> \in Seq(Entry) /\ CqSize >= 0
    BY GpuAssumption
  <2> QED  BY <1>1, <2>1 DEF TypeRings
<1>12. TypeSwitch /\ TypeClient
  BY <1>1 DEF TypeSwitch, TypeClient
<1> QED  BY <1>2, <1>4, <1>5, <1>6, <1>7, <1>8, <1>9, <1>10, <1>11, <1>12, TypeParts DEF IInv

\* Every step keeps the invariant.
LEMMA NextIInv == IInv /\ [Next]_vars => IInv'
BY TypeStep, PlanStep, ChainStep, ScreenStep, SignalsStep DEF IInv

\* The invariant holds of every behaviour.
LEMMA Invariance == Spec => []IInv
BY InitIInv, NextIInv, PTL DEF Spec

(* Every variable keeps its type (gpu.rs, server.rs).                      *)
THEOREM TypeCorrect == Spec => []TypeOK
<1>1. IInv => TypeOK
  BY DEF IInv
<1> QED  BY <1>1, Invariance, PTL

(* A command is over when send_cmd is: what it pops is the answer to the   *)
(* command it sent, and the queue is as free as it was before.             *)
THEOREM CompleteTheorem == Spec => []CommandsComplete
<1>1. IInv => CommandsComplete
  <2> SUFFICES ASSUME IInv PROVE CommandsComplete
    OBVIOUS
  <2>1. Chain
    BY DEF IInv
  <2>2. OwnResponse
    BY <2>1 DEF Chain, Busy, OwnResponse, Back, Rest, Level, Due, DevCanTake
  <2>3. AllBack
    BY <2>1 DEF Chain, Busy, AllBack
  <2> QED  BY <2>2, <2>3 DEF CommandsComplete
<1> QED  BY <1>1, Invariance, PTL

(* The screen shows the buffer of the SET_SCANOUT that succeeded, and      *)
(* nothing if none did (setup_scanout).                                    *)
THEOREM ScreenTheorem == Spec => []ScreenTrue
<1>1. IInv => ScreenTrue
  BY DEF IInv, Screen, Old, ScreenTrue
<1> QED  BY <1>1, Invariance, PTL

(* A driver that waits has nothing left to do that nobody will tell it of  *)
(* (handle_ring, handle_irq).                                              *)
THEOREM SignalledTheorem == Spec => []Signalled
<1>1. IInv => Signalled
  <2> SUFFICES ASSUME IInv, drv.pc = "idle" PROVE Signalled
    BY DEF Signalled
  <2>1. Signals /\ Plan
    BY DEF IInv
  <2>2. ~Serving
    BY <2>1, FirstParts DEF Plan, Work, Ends, Serving
  <2> QED  BY <2>1, <2>2 DEF Signals, Signalled
<1> QED  BY <1>1, Invariance, PTL

-----------------------------------------------------------------------------
(* The requests: where each of them is, and what was done about it.        *)

FlushDone == [op |-> "flush"]
Answer(d) == IF d = None THEN -1 ELSE 0

Queued(s, u) == \E i \in 1 .. Len(s) : s[i] = u
Told(c, u)   == \E i \in 1 .. Len(c) : c[i].user = u
Once(s)      == \A i, j \in 1 .. Len(s) : s[i] = s[j] => i = j
ToldOnce(c)  == \A i, j \in 1 .. Len(c) : c[i].user = c[j].user => i = j
Answers(c)   == \A i \in 1 .. Len(c) : c[i].res = Answer(exec[c[i].user])

\* A request is in one place at a time.
Homes ==
  /\ \A u \in Users :
       /\ ask[u] = None => exec[u] = None /\ ~Queued(sq, u) /\ ~Told(cq, u) /\ drv.who # u
       /\ Queued(sq, u) => ~Told(cq, u) /\ drv.who # u /\ exec[u] = None
       /\ drv.who = u => ~Told(cq, u)
  /\ Once(sq) /\ ToldOnce(cq)

\* The one handle_ring is at work on was executed if its last command was.
Executed ==
  drv.who \in Users =>
    /\ drv.pc \in Work => /\ ask[drv.who] = "flush"
                          /\ exec[drv.who] = IF resp.op = "flush" THEN FlushDone ELSE None
    /\ drv.pc = "done" => exec[drv.who] = FlushDone
    /\ drv.pc = "failed" => exec[drv.who] = None

Requests == Homes /\ Answers(cq) /\ Executed

(* Appending to a sequence and taking its head, as to what occurs in it.   *)
LEMMA QueuedMoves ==
  ASSUME NEW S, NEW s \in Seq(S), NEW u
  PROVE  /\ \A e \in S : /\ Queued(Append(s, e), u) <=> Queued(s, u) \/ e = u
                         /\ Once(s) /\ ~Queued(s, e) => Once(Append(s, e))
         /\ s # << >> => /\ Head(s) \in S /\ Queued(s, Head(s))
                         /\ Queued(Tail(s), u) => Queued(s, u)
                         /\ Once(s) => Once(Tail(s)) /\ ~Queued(Tail(s), Head(s))
<1>1. ASSUME NEW e \in S
      PROVE  /\ Queued(Append(s, e), u) <=> Queued(s, u) \/ e = u
             /\ Once(s) /\ ~Queued(s, e) => Once(Append(s, e))
  <2> DEFINE t == Append(s, e)
             n == Len(s)
  <2>1. /\ n \in Nat /\ Len(t) = n + 1 /\ t[n + 1] = e
        /\ \A i \in 1 .. n : t[i] = s[i]
    OBVIOUS
  <2> HIDE DEF t
  <2>2. /\ \A i \in 1 .. n + 1 : i \in 1 .. n \/ i = n + 1
        /\ \A i \in 1 .. n : i \in 1 .. n + 1
        /\ n + 1 \in 1 .. n + 1
    BY <2>1
  <2>3. Queued(t, u) <=> Queued(s, u) \/ e = u
    BY <2>1, <2>2 DEF Queued
  <2>4. ASSUME Once(s), ~Queued(s, e) PROVE Once(t)
    BY <2>1, <2>2, <2>4 DEF Once, Queued
  <2> QED  BY <2>3, <2>4 DEF t
<1>2. ASSUME s # << >>
      PROVE  /\ Head(s) \in S /\ Queued(s, Head(s))
             /\ Queued(Tail(s), u) => Queued(s, u)
             /\ Once(s) => Once(Tail(s)) /\ ~Queued(Tail(s), Head(s))
  <2> DEFINE t == Tail(s)
             n == Len(s)
  <2>1. /\ n \in Nat \ {0} /\ Len(t) = n - 1 /\ Head(s) = s[1] /\ s[1] \in S
        /\ \A i \in 1 .. n - 1 : t[i] = s[i + 1]
    BY <1>2
  <2> HIDE DEF t
  <2>2. /\ \A i \in 1 .. n - 1 : i + 1 \in 1 .. n /\ i + 1 # 1
        /\ 1 \in 1 .. n
        /\ \A i, j \in 1 .. n - 1 : i + 1 = j + 1 => i = j
    BY <2>1
  <2>3. Queued(s, Head(s)) /\ (Queued(t, u) => Queued(s, u))
    BY <2>1, <2>2 DEF Queued
  <2>4. Once(s) => Once(t) /\ ~Queued(t, Head(s))
    BY <2>1, <2>2 DEF Queued, Once
  <2> QED  BY <2>1, <2>3, <2>4 DEF t
<1> QED  BY <1>1, <1>2

\* A true completion put behind others, for a user not yet told, tells it once.
LEMMA ToldPut ==
  ASSUME NEW c \in Seq(Entry), NEW e \in Entry
  PROVE  /\ \A u : Told(Put(c, e), u) <=> Told(c, u) \/ e.user = u
         /\ ToldOnce(c) /\ ~Told(c, e.user) => ToldOnce(Put(c, e))
         /\ Answers(c) /\ e.res = Answer(exec[e.user]) => Answers(Put(c, e))
<1> DEFINE t == Append(c, e)
           n == Len(c)
<1>1. /\ n \in Nat /\ Len(t) = n + 1 /\ t[n + 1] = e
      /\ \A i \in 1 .. n : t[i] = c[i]
  OBVIOUS
<1> HIDE DEF t
<1>2. /\ \A i \in 1 .. n + 1 : i \in 1 .. n \/ i = n + 1
      /\ \A i \in 1 .. n : i \in 1 .. n + 1
      /\ n + 1 \in 1 .. n + 1
  BY <1>1
<1>3. \A u : Told(t, u) <=> Told(c, u) \/ e.user = u
  BY <1>1, <1>2 DEF Told
<1>4. ASSUME ToldOnce(c), ~Told(c, e.user) PROVE ToldOnce(t)
  BY <1>1, <1>2, <1>4 DEF ToldOnce, Told
<1>5. ASSUME Answers(c), e.res = Answer(exec[e.user]) PROVE Answers(t)
  BY <1>1, <1>2, <1>5 DEF Answers
<1> QED  BY <1>3, <1>4, <1>5 DEF t, Put

\* Taking the first completion leaves its user told nowhere else.
LEMMA ToldTail ==
  ASSUME NEW c \in Seq(Entry), c # << >>, ToldOnce(c)
  PROVE  /\ Head(c).user \in Users /\ Told(c, Head(c).user)
         /\ \A u : u # Head(c).user => (Told(Tail(c), u) <=> Told(c, u))
         /\ ToldOnce(Tail(c)) /\ ~Told(Tail(c), Head(c).user)
         /\ Answers(c) => Answers(Tail(c))
<1> DEFINE t == Tail(c)
           n == Len(c)
<1>1. /\ n \in Nat \ {0} /\ Len(t) = n - 1 /\ Head(c) = c[1] /\ c[1] \in Entry
      /\ \A i \in 1 .. n - 1 : t[i] = c[i + 1]
  OBVIOUS
<1> HIDE DEF t
<1>2. /\ \A i \in 1 .. n - 1 : i + 1 \in 1 .. n /\ i + 1 # 1
      /\ \A i \in 1 .. n : i # 1 => i - 1 \in 1 .. n - 1 /\ (i - 1) + 1 = i
      /\ 1 \in 1 .. n
      /\ \A i, j \in 1 .. n - 1 : i + 1 = j + 1 => i = j
  BY <1>1
<1>3. Told(c, Head(c).user) /\ Head(c).user \in Users
  BY <1>1, <1>2 DEF Told, Entry
<1>4. ASSUME NEW u, u # Head(c).user PROVE Told(t, u) <=> Told(c, u)
  <2>1. ASSUME NEW i \in 1 .. n, c[i].user = u PROVE Told(t, u)
    <3>1. i # 1
      BY <1>1, <1>4, <2>1
    <3>2. i - 1 \in 1 .. n - 1 /\ t[i - 1] = c[i]
      BY <1>1, <1>2, <3>1
    <3> QED  BY <1>1, <2>1, <3>2 DEF Told
  <2>2. ASSUME NEW i \in 1 .. n - 1, t[i].user = u PROVE Told(c, u)
    BY <1>1, <1>2, <2>2 DEF Told
  <2> QED  BY <1>1, <2>1, <2>2 DEF Told
<1>5. ToldOnce(t) /\ ~Told(t, Head(c).user)
  BY <1>1, <1>2, SMTT(20) DEF ToldOnce, Told
<1>6. Answers(c) => Answers(t)
  BY <1>1, <1>2 DEF Answers
<1> QED  BY <1>3, <1>4, <1>5, <1>6 DEF t

\* The types of the rings and of what the clients asked for, spelled out.
LEMMA RingTypes ==
  ASSUME TypeOK
  PROVE  /\ sq \in Seq(Users) /\ cq \in Seq(Entry)
         /\ exec \in [Users -> [op : {"flush"}] \cup {None}]
         /\ ask \in [Users -> {"flush", "badop", None}]
BY TypeParts DEF TypeRings, TypeClient

\* Neither the rings nor what the requests are change.
RequestVars == <<sq, cq, ask, exec>>

\* Requests are kept by a step that leaves them alone and its server consistent.
LEMMA RequestsQuiet ==
  ASSUME Requests, UNCHANGED RequestVars,
         \/ drv'.who \notin Users
         \/ drv'.who = drv.who /\ Executed'
  PROVE  Requests'
BY DEF Requests, Homes, Answers, Executed, RequestVars

\* The last response of a flush leaves it executed before it is called done.
LEMMA RequestsRead ==
  ASSUME IInv, Requests, Read
  PROVE  Requests'
<1>1. /\ drv.pc = "read" /\ resp' = NoResp /\ UNCHANGED RequestVars /\ drv'.who = drv.who
      /\ Back /\ Due /\ Plan
  BY MovesOn DEF Read, ringVars, devVars, clientVars, RequestVars, IInv, Chain, Busy
<1>2. CASE drv.who \in Users
  <2>1. drv.todo \in FlushParts
    BY <1>1, <1>2, FirstParts DEF Plan, Work
  <2>2. Head(drv.todo) \notin Checked /\ resp.op = Head(drv.todo)
    BY <1>1, <2>1, Tails DEF FlushParts, Checked, Back, Due
  <2>3. drv'.pc = (IF Len(drv.todo) = 1 THEN "done" ELSE "send") /\ drv'.todo = Tail(drv.todo)
    BY <2>2, MovesOn DEF IInv
  <2>4. /\ ask[drv.who] = "flush"
        /\ exec[drv.who] = IF resp.op = "flush" THEN FlushDone ELSE None
    BY <1>1, <1>2 DEF Requests, Executed, Work
  <2>5. resp'.op # "flush"
    BY <1>1, GpuAssumption DEF NoResp
  <2>6. CASE drv.todo = Flush
    <3>1. drv'.pc = "send" /\ exec[drv.who] = None
      BY <2>2, <2>3, <2>4, <2>6, Tails
    <3>2. Executed'
      BY <1>1, <2>4, <2>5, <3>1 DEF Executed, RequestVars
    <3> QED  BY <1>1, <3>2, RequestsQuiet
  <2>7. CASE drv.todo = Flushing
    <3>1. drv'.pc = "done" /\ exec[drv.who] = FlushDone
      BY <2>2, <2>3, <2>4, <2>7, Tails
    <3>2. Executed'
      BY <1>1, <3>1 DEF Executed, RequestVars, Work
    <3> QED  BY <1>1, <3>2, RequestsQuiet
  <2> QED  BY <2>1, <2>6, <2>7 DEF FlushParts
<1>3. CASE drv.who \notin Users
  BY <1>1, <1>3, RequestsQuiet
<1> QED  BY <1>2, <1>3

\* Taking a flush from the ring, or refusing it, leaves it in one place.
LEMMA RequestsFetch ==
  ASSUME IInv, Requests, Fetch
  PROVE  Requests'
<1> DEFINE u == Head(sq)
<1>1. /\ drv.pc = "fetch" /\ sq # << >> /\ sq' = Tail(sq) /\ UNCHANGED <<cq, ask, exec, resp>>
      /\ drv'.who = u
      /\ \/ ask[u] = "flush" /\ drv'.pc = "send"
         \/ ask[u] # "flush" /\ drv'.pc = "failed"
  BY MovesOn DEF Fetch, Others, devVars, clientVars, IInv
<1>2. sq \in Seq(Users) /\ Homes
  BY RingTypes DEF IInv, Requests
<1>3. /\ u \in Users /\ Queued(sq, u) /\ ~Queued(sq', u) /\ Once(sq')
      /\ \A v : Queued(sq', v) => Queued(sq, v)
  BY <1>1, <1>2, QueuedMoves DEF Homes
<1>4. resp.op # "flush"
  BY <1>1, GpuAssumption DEF IInv, Chain, Busy, NoResp
<1> HIDE DEF u
<1>5. Homes'
  BY <1>1, <1>2, <1>3 DEF Homes
<1>6. Executed'
  BY <1>1, <1>2, <1>3, <1>4 DEF Homes, Executed, Work
<1>7. Answers(cq)'
  BY <1>1 DEF Requests, Answers
<1> QED  BY <1>5, <1>6, <1>7 DEF Requests

\* What a completion says.
Said == [user |-> drv.who, res |-> IF drv.pc = "done" THEN 0 ELSE -1]

\* What the driver is about to tell a user is its result, told for the first time.
LEMMA SaidIs ==
  ASSUME TypeOK, Requests, drv.who \in Users, drv.pc \in Ends
  PROVE  /\ Said \in Entry /\ Said.user = drv.who
         /\ Said.res = Answer(exec[drv.who])
         /\ ~Told(cq, drv.who) /\ ask[drv.who] # None
BY GpuAssumption DEF Requests, Homes, Executed, Said, Entry, Ends, Answer, FlushDone

\* Telling the result moves the request into the completion ring.
LEMMA RequestsComplete ==
  ASSUME IInv, Requests, Complete
  PROVE  Requests'
<1>1. TypeOK
  BY DEF IInv
<1>2. /\ drv.who \in Users /\ drv.pc \in Ends /\ drv'.who \notin Users /\ UNCHANGED <<exec, ask, sq>>
      /\ cq' = cq \/ cq' = Put(cq, Said)
  BY <1>1, CompleteIs, FirstParts DEF Said
<1>3. cq \in Seq(Entry) /\ Homes /\ Answers(cq)
  BY <1>1, RingTypes DEF Requests
<1>4. /\ Said \in Entry /\ Said.user = drv.who
      /\ Said.res = Answer(exec[drv.who])
      /\ ~Told(cq, drv.who) /\ ask[drv.who] # None
  BY <1>1, <1>2, SaidIs
<1>5. CASE cq' = cq
  BY <1>2, <1>5, RequestsQuiet DEF RequestVars
<1>6. CASE cq' = Put(cq, Said)
  <2>1. /\ \A v : Told(cq', v) <=> Told(cq, v) \/ drv.who = v
        /\ ToldOnce(cq') /\ Answers(cq')
    BY <1>3, <1>4, <1>6, ToldPut DEF Homes
  <2>2. Homes'
    BY <1>2, <1>3, <1>4, <2>1 DEF Homes
  <2>3. Answers(cq)'
    BY <1>2, <2>1 DEF Answers
  <2> QED  BY <1>2, <2>2, <2>3 DEF Requests, Executed
<1> QED  BY <1>2, <1>5, <1>6

\* A request is put on the ring by a user that has none open.
LEMMA RequestsSubmit ==
  ASSUME IInv, Requests, NEW u \in Users, ClientSubmit(u)
  PROVE  Requests'
<1>1. /\ ask[u] = None /\ sq' = Append(sq, u) /\ UNCHANGED <<drv, cq, exec, resp>>
      /\ \E k \in {"flush", "badop"} : ask' = [ask EXCEPT ![u] = k]
  BY DEF ClientSubmit, Others, devVars
<1>2. sq \in Seq(Users) /\ ask \in [Users -> {"flush", "badop", None}] /\ Homes /\ Executed
  BY RingTypes DEF IInv, Requests
<1>3. ask'[u] # None /\ \A v \in Users : v # u => ask'[v] = ask[v]
  BY <1>1, <1>2, GpuAssumption
<1>4. /\ ~Queued(sq, u) /\ ~Told(cq, u) /\ drv.who # u /\ exec[u] = None
      /\ Once(sq') /\ \A v : Queued(sq', v) <=> Queued(sq, v) \/ v = u
  BY <1>1, <1>2, QueuedMoves DEF Homes
<1>5. Homes'
  BY <1>1, <1>2, <1>3, <1>4 DEF Homes
<1>6. Executed'
  BY <1>1, <1>2, <1>3, <1>4 DEF Executed
<1>7. Answers(cq)'
  BY <1>1 DEF Requests, Answers
<1> QED  BY <1>5, <1>6, <1>7 DEF Requests

\* Reaping closes the request that was told.
LEMMA RequestsReap ==
  ASSUME IInv, Requests, ClientReap
  PROVE  Requests'
<1> DEFINE u == Head(cq).user
<1>1. /\ cq # << >> /\ cq' = Tail(cq) /\ UNCHANGED <<drv, sq, resp>>
      /\ ask' = [ask EXCEPT ![u] = None] /\ exec' = [exec EXCEPT ![u] = None]
  BY DEF ClientReap, Others
<1>2. /\ cq \in Seq(Entry) /\ Homes /\ Executed /\ Answers(cq)
      /\ exec \in [Users -> [op : {"flush"}] \cup {None}]
      /\ ask \in [Users -> {"flush", "badop", None}]
  BY RingTypes DEF IInv, Requests
<1>3. /\ u \in Users /\ Told(cq, u) /\ ~Told(cq', u) /\ ToldOnce(cq') /\ Answers(cq')
      /\ \A v : v # u => (Told(cq', v) <=> Told(cq, v))
  BY <1>1, <1>2, ToldTail DEF Homes
<1> HIDE DEF u
<1>4. /\ ask'[u] = None /\ exec'[u] = None
      /\ \A v \in Users : v # u => ask'[v] = ask[v] /\ exec'[v] = exec[v]
  BY <1>1, <1>2, <1>3
<1>5. ~Queued(sq, u) /\ drv.who # u
  BY <1>2, <1>3 DEF Homes
<1>6. Homes'
  BY <1>1, <1>2, <1>3, <1>4, <1>5 DEF Homes
<1>7. Executed'
  BY <1>1, <1>2, <1>4, <1>5 DEF Executed
<1>8. Answers(cq)'
  <2>1. \A i \in 1 .. Len(cq') : cq'[i].user \in Users /\ cq'[i].user # u
    <3>1. cq' \in Seq(Entry)
      BY <1>1, <1>2
    <3>2. \A i \in 1 .. Len(cq') : cq'[i] \in Entry
      BY <3>1
    <3> QED  BY <1>3, <3>2 DEF Told, Entry
  <2> QED  BY <1>3, <1>4, <2>1 DEF Answers
<1> QED  BY <1>6, <1>7, <1>8 DEF Requests

(* A flush is executed when the device answers its last command.           *)
LEMMA RequestsDevExec ==
  ASSUME IInv, Requests, NEW h \in dev.held, NEW st \in {"ok", "err"}, DevExec(h, st)
  PROVE  /\ Requests'
         /\ UNCHANGED <<ask, cq, drv>>
         /\ \/ exec' = exec
            \/ /\ drv.who \in Users /\ ask[drv.who] = "flush"
               /\ exec[drv.who] = None /\ ~Told(cq, drv.who)
               /\ exec' = [exec EXCEPT ![drv.who] = FlushDone]
<1>1. /\ drv.pc \in {"notify", "spin"} /\ Due /\ resp = NoResp /\ Plan
  BY ChainDevExec DEF IInv
<1>2. /\ UNCHANGED <<drv, sq, cq, ask>> /\ resp'.op = cmd.op
      /\ exec' = IF cmd.op = "flush" /\ cmd.who \in Users
                   THEN [exec EXCEPT ![cmd.who] = [op |-> "flush"]] ELSE exec
  BY DEF DevExec, Quiet, ringVars, clientVars
<1>3. cmd.who = drv.who /\ exec \in [Users -> [op : {"flush"}] \cup {None}] /\ cq \in Seq(Entry)
  BY <1>1, RingTypes DEF Due, IInv
<1>4. CASE drv.who \notin Users
  <2>1. exec' = exec
    BY <1>2, <1>3, <1>4
  <2> QED  BY <1>2, <1>4, <2>1, RequestsQuiet DEF RequestVars
<1>5. CASE drv.who \in Users
  <2>1. ask[drv.who] = "flush" /\ exec[drv.who] = None /\ resp.op # "flush"
    BY <1>1, <1>5, GpuAssumption DEF Requests, Executed, Work, NoResp
  <2>2. CASE cmd.op = "flush"
    <3>1. exec' = [exec EXCEPT ![drv.who] = FlushDone]
      BY <1>2, <1>3, <1>5, <2>2 DEF FlushDone
    <3>2. /\ exec'[drv.who] = FlushDone /\ ask[drv.who] # None
          /\ \A v \in Users : v # drv.who => exec'[v] = exec[v]
      BY <1>3, <1>5, <2>1, <3>1, GpuAssumption
    <3>3. ~Told(cq, drv.who)
      BY <1>5 DEF Requests, Homes
    <3>4. Homes'
      BY <1>2, <1>5, <3>2 DEF Requests, Homes
    <3>5. Executed'
      BY <1>1, <1>2, <1>5, <2>1, <2>2, <3>2 DEF Executed, Work
    <3>6. Answers(cq)'
      <4>1. \A i \in 1 .. Len(cq) : cq[i].user \in Users /\ cq[i].user # drv.who
        <5>1. \A i \in 1 .. Len(cq) : cq[i] \in Entry
          BY <1>3
        <5> QED  BY <3>3, <5>1 DEF Told, Entry
      <4> QED  BY <1>2, <3>2, <4>1 DEF Requests, Answers
    <3> QED  BY <1>2, <1>5, <2>1, <3>1, <3>3, <3>4, <3>5, <3>6 DEF Requests
  <2>3. CASE cmd.op # "flush"
    <3>1. exec' = exec
      BY <1>2, <2>3
    <3>2. Executed'
      BY <1>1, <1>2, <1>5, <2>1, <2>3, <3>1 DEF Executed, Work
    <3> QED  BY <1>2, <3>1, <3>2, RequestsQuiet DEF RequestVars
  <2> QED  BY <2>2, <2>3
<1> QED  BY <1>4, <1>5

\* Every step keeps each open flush in one place and truly answered.
LEMMA RequestsStep ==
  ASSUME IInv, Requests, [Next]_vars
  PROVE  Requests'
<1> USE DEF ringVars, kernelVars, devVars, clientVars, histVars, Others, vars, Quiet
<1>0. TypeOK /\ Plan /\ Chain
  BY DEF IInv
<1>1. CASE Send \/ Notify \/ Spin
  <2>1. drv.pc \in Work /\ drv'.pc \in Work /\ drv'.who = drv.who
    BY <1>0, <1>1, Moves DEF Send, Notify, Spin, Work, SameWork
  <2>2. UNCHANGED RequestVars /\ resp' = resp
    BY <1>0, <1>1 DEF Send, Notify, Spin, Chain, Busy, RequestVars
  <2>3. Executed'
    BY <2>1, <2>2 DEF Requests, Executed, RequestVars, Work
  <2> QED  BY <2>1, <2>2, <2>3, RequestsQuiet
<1>2. CASE Recv \/ Irq \/ RingTake \/ RingNone \/ RingEmpty
  <2>1. UNCHANGED RequestVars /\ drv.pc \notin Work \cup Ends /\ drv'.who = drv.who
    BY <1>0, <1>2, Moves DEF Recv, Irq, RingTake, RingNone, RingEmpty, RequestVars, Work, Ends, SameWork
  <2>2. drv'.who \notin Users
    BY <1>0, <2>1, FirstParts DEF Plan
  <2> QED  BY <2>1, <2>2, RequestsQuiet
<1>3. CASE Reply
  <2>1. UNCHANGED RequestVars /\ drv'.who \notin Users
    BY <1>0, <1>3, Moves, FirstParts DEF Reply, RequestVars
  <2> QED  BY <2>1, RequestsQuiet
<1>4. CASE CallFlush \/ CallScanout
  <2>1. PICK w \in Bufs \cup {"call"}, t \in {Flush, Scanout} : Call(t, w)
    BY <1>4 DEF CallFlush, CallScanout
  <2>2. UNCHANGED RequestVars
    BY <2>1 DEF Call, RequestVars
  <2>3. drv'.who \notin Users
    <3>1. drv'.who = w
      BY <1>0, <2>1, MovesOn DEF Call
    <3> QED  BY <2>1, <3>1, FirstParts
  <2> QED  BY <2>2, <2>3, RequestsQuiet
<1>5. CASE \E h \in dev.held, st \in {"ok", "err"} : DevExec(h, st)
  BY <1>5, RequestsDevExec
<1>6. CASE \E u \in Users : ClientSubmit(u)
  BY <1>6, RequestsSubmit
<1>7. CASE SetupRing \/ DevTake \/ DevSleep \/ DevRaise \/ KernelIrq \/ ClientNotify \/ UNCHANGED vars
  <2>1. UNCHANGED RequestVars /\ resp' = resp
    BY <1>7 DEF SetupRing, DevTake, DevSleep, DevRaise, KernelIrq, ClientNotify, RequestVars
  <2>2. drv' = drv
    BY <1>7, ElsewhereDrv DEF Elsewhere, Client
  <2>3. Executed'
    BY <2>1, <2>2 DEF Requests, Executed, RequestVars
  <2> QED  BY <2>1, <2>2, <2>3, RequestsQuiet
<1> QED  BY <1>1, <1>2, <1>3, <1>4, <1>5, <1>6, <1>7, NextIs,
            RequestsRead, RequestsFetch, RequestsComplete, RequestsReap DEF Elsewhere, Client

-----------------------------------------------------------------------------
(* The driver implements the contract.                                     *)

\* What a completion ring answers a request.
AnswerOf(c, u) == IF Told(c, u) THEN c[CHOOSE i \in 1 .. Len(c) : c[i].user = u].res ELSE None

\* The answer read off the completion ring is the one the user's result calls for.
LEMMA AnswerOfIs ==
  ASSUME NEW c, Answers(c), NEW u
  PROVE  /\ Told(c, u) => AnswerOf(c, u) = Answer(exec[u]) /\ AnswerOf(c, u) # None
         /\ ~Told(c, u) => AnswerOf(c, u) = None
<1>1. CASE Told(c, u)
  <2> DEFINE i == CHOOSE i \in 1 .. Len(c) : c[i].user = u
  <2>1. i \in 1 .. Len(c) /\ c[i].user = u
    BY <1>1 DEF Told
  <2>2. AnswerOf(c, u) = c[i].res
    BY <1>1 DEF AnswerOf
  <2> HIDE DEF i
  <2>3. c[i].res = Answer(exec[u])
    BY <2>1 DEF Answers
  <2>4. Answer(exec[u]) # None
    BY GpuAssumption DEF Answer
  <2> QED  BY <1>1, <2>2, <2>3, <2>4
<1>2. CASE ~Told(c, u)
  BY <1>2 DEF AnswerOf
<1> QED  BY <1>1, <1>2

\* The value of the contract's variable `answer`.
answer == [u \in Users |-> AnswerIn(u)]

\* The abstract answers in terms of the completion ring.
LEMMA AnswerIs ==
  /\ answer = [u \in Users |-> AnswerOf(cq, u)]
  /\ answer' = [u \in Users |-> AnswerOf(cq', u)]
BY DEF answer, AnswerIn, AnswerOf, Told

\* The invariant, and where the requests are.
AllInv == IInv /\ Requests

\* Completing a flush is the contract's answer.
LEMMA ContractComplete ==
  ASSUME AllInv, AllInv', Complete
  PROVE  [Contract!Next]_(Contract!vars)
<1>1. TypeOK /\ Requests /\ Answers(cq) /\ Answers(cq)'
  BY DEF AllInv, IInv, Requests
<1>2. /\ drv.who \in Users /\ drv.pc \in Ends /\ UNCHANGED <<exec, ask>>
      /\ cq' = cq \/ cq' = Put(cq, Said)
  BY <1>1, CompleteIs DEF Said
<1>3. CASE cq' = cq
  BY <1>2, <1>3 DEF Contract!vars, AnswerIn
<1>4. CASE cq' = Put(cq, Said)
  <2> DEFINE u == drv.who
  <2>1. ~Told(cq, u) /\ ask[u] # None /\ \A v : Told(cq', v) <=> Told(cq, v) \/ u = v
    BY <1>1, <1>2, <1>4, SaidIs, RingTypes, ToldPut
  <2>2. answer[u] = None
    BY <1>1, <1>2, <2>1, AnswerOfIs, AnswerIs
  <2>3. Answers(cq')
    BY <1>1, <1>2 DEF Answers
  <2>4. answer' = [answer EXCEPT ![u] = Answer(exec[u])]
    <3>1. ASSUME NEW v \in Users
          PROVE  AnswerOf(cq', v) = IF v = u THEN Answer(exec[u]) ELSE AnswerOf(cq, v)
      BY <1>1, <2>1, <2>3, AnswerOfIs
    <3> QED  BY <3>1, AnswerIs
  <2>5. Answer(exec[u]) = IF exec[u] = None THEN -1 ELSE [d \in [op : {"flush"}] |-> 0][exec[u]]
    <3>1. exec[u] \in [op : {"flush"}] \cup {None}
      BY <1>1, <1>2, RingTypes
    <3> QED  BY <3>1 DEF Answer
  <2> HIDE DEF u
  <2>6. Contract!Answer(u)
    BY <1>2, <2>1, <2>2, <2>4, <2>5 DEF Contract!Answer, answer
  <2> QED  BY <1>2, <2>6 DEF Contract!Next, u
<1> QED  BY <1>2, <1>3, <1>4

\* The device showing the buffer for a user is the contract's execution.
LEMMA ContractDevExec ==
  ASSUME AllInv, NEW h \in dev.held, NEW st \in {"ok", "err"}, DevExec(h, st)
  PROVE  [Contract!Next]_(Contract!vars)
<1>1. IInv /\ Requests /\ Answers(cq)
  BY DEF AllInv, Requests
<1>2. UNCHANGED <<ask, cq>>
  BY <1>1, RequestsDevExec
<1>3. answer' = answer
  BY <1>2, AnswerIs
<1>4. CASE exec' = exec
  BY <1>2, <1>4 DEF Contract!vars, AnswerIn
<1>5. CASE /\ drv.who \in Users /\ ask[drv.who] = "flush"
           /\ exec[drv.who] = None /\ ~Told(cq, drv.who)
           /\ exec' = [exec EXCEPT ![drv.who] = FlushDone]
  <2> DEFINE u == drv.who
  <2>1. answer[u] = None
    BY <1>1, <1>5, AnswerOfIs, AnswerIs
  <2>2. FlushDone \in [op : {"flush"}] /\ FlushDone.op = ask[u]
    BY <1>5 DEF FlushDone
  <2>3. Contract!Execute(u)
    BY <1>2, <1>3, <1>5, <2>1, <2>2 DEF Contract!Execute, answer
  <2> QED  BY <1>5, <2>3 DEF Contract!Next
<1> QED  BY <1>1, <1>4, <1>5, RequestsDevExec

\* Reaping is the contract's close.
LEMMA ContractReap ==
  ASSUME AllInv, AllInv', ClientReap
  PROVE  [Contract!Next]_(Contract!vars)
<1> DEFINE u == Head(cq).user
<1>1. /\ cq # << >> /\ cq' = Tail(cq)
      /\ ask' = [ask EXCEPT ![u] = None] /\ exec' = [exec EXCEPT ![u] = None]
  BY DEF ClientReap
<1>2. /\ cq \in Seq(Entry) /\ ToldOnce(cq) /\ Answers(cq)
      /\ exec \in [Users -> [op : {"flush"}] \cup {None}]
  BY RingTypes DEF AllInv, IInv, Requests, Homes
<1>3. /\ u \in Users /\ Told(cq, u) /\ ~Told(cq', u) /\ Answers(cq')
      /\ \A v : v # u => (Told(cq', v) <=> Told(cq, v))
  BY <1>1, <1>2, ToldTail
<1> HIDE DEF u
<1>4. answer[u] # None
  BY <1>2, <1>3, AnswerOfIs, AnswerIs
<1>5. ASSUME NEW v \in Users
      PROVE  AnswerOf(cq', v) = IF v = u THEN None ELSE AnswerOf(cq, v)
  <2>1. CASE v = u
    BY <1>3, <2>1, AnswerOfIs
  <2>2. CASE v # u /\ ~Told(cq, v)
    BY <1>2, <1>3, <2>2, AnswerOfIs
  <2>3. CASE v # u /\ Told(cq, v)
    <3>1. AnswerOf(cq, v) = Answer(exec[v]) /\ AnswerOf(cq', v) = Answer(exec[v])
      BY <1>2, <1>3, <2>3, AnswerOfIs
    <3> QED  BY <2>3, <3>1
  <2> QED  BY <2>1, <2>2, <2>3
<1>6. answer' = [answer EXCEPT ![u] = None]
  BY <1>5, AnswerIs
<1>7. Contract!Close(u)
  BY <1>1, <1>4, <1>6 DEF Contract!Close, answer
<1> QED  BY <1>3, <1>7 DEF Contract!Next

\* Every step of the driver is a step of the contract, or changes nothing it sees.
LEMMA ContractStep ==
  ASSUME AllInv, AllInv', [Next]_vars
  PROVE  [Contract!Next]_(Contract!vars)
<1> USE DEF ringVars, kernelVars, devVars, clientVars, histVars, Others, vars, Quiet
<1>1. ASSUME UNCHANGED <<ask, exec, cq>> PROVE UNCHANGED Contract!vars
  BY <1>1 DEF Contract!vars, AnswerIn
<1>2. CASE \E h \in dev.held, st \in {"ok", "err"} : DevExec(h, st)
  BY <1>2, ContractDevExec
<1>3. CASE \E u \in Users : ClientSubmit(u)
  <2>1. PICK u \in Users : ClientSubmit(u)
    BY <1>3
  <2>2. /\ ask[u] = None /\ UNCHANGED <<exec, cq>>
        /\ \E k \in {"flush", "badop"} : ask' = [ask EXCEPT ![u] = k]
    BY <2>1 DEF ClientSubmit
  <2>3. answer' = answer
    BY <2>2, AnswerIs
  <2>4. Contract!Ask(u)
    BY <2>2, <2>3 DEF Contract!Ask, answer
  <2> QED  BY <2>4 DEF Contract!Next
<1>4. CASE Send \/ Notify \/ Spin \/ Read \/ Recv \/ Irq \/ RingTake \/ RingNone \/ RingEmpty
           \/ Fetch \/ Reply \/ CallFlush \/ CallScanout
  BY <1>1, <1>4 DEF Send, Notify, Spin, Read, Recv, Irq, RingTake, RingNone, RingEmpty, Fetch,
                    Reply, CallFlush, CallScanout, Call
<1>5. CASE SetupRing \/ DevTake \/ DevSleep \/ DevRaise \/ KernelIrq \/ ClientNotify \/ UNCHANGED vars
  BY <1>1, <1>5 DEF SetupRing, DevTake, DevSleep, DevRaise, KernelIrq, ClientNotify
<1> QED  BY <1>2, <1>3, <1>4, <1>5, NextIs, ContractComplete, ContractReap DEF Elsewhere, Client

\* No request is open initially.
LEMMA RequestsInit == Init => Requests
<1> SUFFICES ASSUME Init PROVE Requests
  OBVIOUS
<1>1. /\ sq = << >> /\ cq = << >> /\ drv.who = "init"
      /\ exec = [u \in Users |-> None] /\ ask = [u \in Users |-> None]
  BY DEF Init
<1>2. \A u \in Users : drv.who # u
  BY <1>1, FirstParts
<1> QED  BY <1>1, <1>2 DEF Requests, Homes, Queued, Told, Once, ToldOnce, Answers, Executed

\* The invariant of commands and requests holds of every behaviour.
LEMMA AllInvariant == Spec => []AllInv
<1>1. Init => AllInv
  BY InitIInv, RequestsInit DEF AllInv
<1>2. AllInv /\ [Next]_vars => AllInv'
  BY NextIInv, RequestsStep DEF AllInv
<1> QED  BY <1>1, <1>2, PTL DEF Spec

\* The driver starts where the contract does.
LEMMA ContractInit == Init => Contract!Init
<1> SUFFICES ASSUME Init PROVE Contract!Init
  OBVIOUS
<1>1. \A u \in Users : AnswerIn(u) = None
  BY DEF Init, AnswerIn
<1> QED  BY <1>1 DEF Init, Contract!Init

(* The driver and its device implement IoContract: a flush is executed at  *)
(* most once and only if asked for, every request is answered once, and    *)
(* the answer tells whether it was executed (handle_ring).                 *)
THEOREM Refinement == Spec => ImplementsContract
<1>1. AllInv /\ AllInv' /\ [Next]_vars => [Contract!Next]_(Contract!vars)
  BY ContractStep
<1> QED  BY <1>1, ContractInit, AllInvariant, PTL DEF Spec, ImplementsContract, Contract!Spec
=============================================================================
