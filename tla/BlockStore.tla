----------------------------- MODULE BlockStore -----------------------------
(***************************************************************************)
(* What a disk promises: a request is carried out at once, at some point   *)
(* between asking and the answer, and at most once.  A write stores the    *)
(* bytes it was asked to store, a read returns what is stored, and a       *)
(* request that is not allowed changes nothing and is told so.             *)
(***************************************************************************)
EXTENDS Integers, Sequences

CONSTANTS
  Users,
  Requests,     \* records with fields op, at (byte offset), len and data
  Allowed(_),   \* the requests a disk carries out
  None

VARIABLES
  disk,    \* the bytes: [0 .. size - 1 -> value]
  ask,     \* what each user asked for
  done,    \* what was done about it: [res, val]
  answer   \* what the user was told

vars == <<disk, ask, done, answer>>

Slice(r) == [i \in 1 .. r.len |-> disk[r.at + i - 1]]

Stored(r) == [i \in DOMAIN disk |->
                IF i - r.at \in 0 .. r.len - 1 THEN r.data[i - r.at + 1] ELSE disk[i]]

Outcome(r) ==
  IF ~Allowed(r) THEN [res |-> -1, val |-> << >>]
  ELSE [res |-> IF r.op = "sync" THEN 0 ELSE r.len,
        val |-> IF r.op = "read" THEN Slice(r) ELSE << >>]

Init ==
  /\ ask = [u \in Users |-> None]
  /\ done = [u \in Users |-> None]
  /\ answer = [u \in Users |-> None]

Ask(u) ==
  /\ ask[u] = None
  /\ ask'[u] \in Requests /\ ask' = [ask EXCEPT ![u] = ask'[u]]
  /\ UNCHANGED <<disk, done, answer>>

Do(u) ==
  /\ ask[u] # None /\ done[u] = None
  /\ done' = [done EXCEPT ![u] = Outcome(ask[u])]
  /\ disk' = IF ask[u].op = "write" /\ Allowed(ask[u]) THEN Stored(ask[u]) ELSE disk
  /\ UNCHANGED <<ask, answer>>

Answer(u) ==
  /\ done[u] # None /\ answer[u] = None
  /\ answer' = [answer EXCEPT ![u] = done[u]]
  /\ UNCHANGED <<disk, ask, done>>

Close(u) ==
  /\ answer[u] # None
  /\ ask' = [ask EXCEPT ![u] = None]
  /\ done' = [done EXCEPT ![u] = None]
  /\ answer' = [answer EXCEPT ![u] = None]
  /\ UNCHANGED disk

Next == \E u \in Users : Ask(u) \/ Do(u) \/ Answer(u) \/ Close(u)

Spec == Init /\ [][Next]_vars
=============================================================================
