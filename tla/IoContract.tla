----------------------------- MODULE IoContract -----------------------------
(***************************************************************************)
(* What a driver that serves requests promises its client, whatever rings, *)
(* queues and interrupts it uses: a request is executed at most once, only *)
(* if it is a good one and only as it was asked; it is answered once, after*)
(* it was executed or instead of being executed; the answer says truly     *)
(* whether it was executed and with which result.                          *)
(***************************************************************************)
EXTENDS Integers

CONSTANTS
  Users,   \* the requests' names
  Kinds,   \* what may be asked
  Done,    \* what may be done about it: records with a field op, in Kinds
  Result,  \* the answer to a request that was executed: [Done -> Int]
  None

VARIABLES
  ask,     \* what the client asked for under each user_data value
  exec,    \* what was done about it
  answer   \* the result the client was given

vars == <<ask, exec, answer>>

Init ==
  /\ ask = [u \in Users |-> None]
  /\ exec = [u \in Users |-> None]
  /\ answer = [u \in Users |-> None]

Ask(u) ==
  /\ ask[u] = None
  /\ \E k \in Kinds : ask' = [ask EXCEPT ![u] = k]
  /\ UNCHANGED <<exec, answer>>

Execute(u) ==
  /\ exec[u] = None /\ answer[u] = None
  /\ \E d \in Done : d.op = ask[u] /\ exec' = [exec EXCEPT ![u] = d]
  /\ UNCHANGED <<ask, answer>>

Answer(u) ==
  /\ ask[u] # None /\ answer[u] = None
  /\ answer' = [answer EXCEPT ![u] = IF exec[u] = None THEN -1 ELSE Result[exec[u]]]
  /\ UNCHANGED <<ask, exec>>

Close(u) ==
  /\ answer[u] # None
  /\ ask' = [ask EXCEPT ![u] = None]
  /\ exec' = [exec EXCEPT ![u] = None]
  /\ answer' = [answer EXCEPT ![u] = None]

Next == \E u \in Users : Ask(u) \/ Execute(u) \/ Answer(u) \/ Close(u)

Spec == Init /\ [][Next]_vars
=============================================================================
