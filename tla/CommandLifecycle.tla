--------------------------- MODULE CommandLifecycle ---------------------------
(* What the control-command pipeline promises about each command row: it   *)
(* is inserted once, claimed once, executed at most once and only between  *)
(* its claim and its terminal status, and a terminal status is final and   *)
(* agrees with what was executed.                                          *)
EXTENDS Naturals

CONSTANTS
  Commands,
  Trades    \* the commands that ask for an order to be submitted

VARIABLES status, executed

vars == <<status, executed>>

Init ==
  /\ status = [c \in Commands |-> "absent"]
  /\ executed = [c \in Commands |-> 0]

Insert(c) ==
  /\ status[c] = "absent"
  /\ status' = [status EXCEPT ![c] = "queued"]
  /\ UNCHANGED executed

Claim(S) ==
  /\ \A c \in S : status[c] = "queued"
  /\ status' = [c \in Commands |-> IF c \in S THEN "processing" ELSE status[c]]
  /\ UNCHANGED executed

Execute(c) ==
  /\ c \in Trades
  /\ status[c] = "processing"
  /\ executed[c] = 0
  /\ executed' = [executed EXCEPT ![c] = 1]
  /\ UNCHANGED status

Complete(c) ==
  /\ status[c] = "processing"
  /\ c \in Trades => executed[c] = 1
  /\ status' = [status EXCEPT ![c] = "completed"]
  /\ UNCHANGED executed

(* A failed command may have reached the exchange: its answer was lost.    *)
Fail(c) ==
  /\ status[c] = "processing"
  /\ status' = [status EXCEPT ![c] = "failed"]
  /\ UNCHANGED executed

Cancel(c) ==
  /\ status[c] = "processing"
  /\ executed[c] = 0
  /\ status' = [status EXCEPT ![c] = "cancelled"]
  /\ UNCHANGED executed

Next ==
  \/ \E S \in SUBSET Commands : Claim(S)
  \/ \E c \in Commands :
       Insert(c) \/ Execute(c) \/ Complete(c) \/ Fail(c) \/ Cancel(c)

Spec == Init /\ [][Next]_vars

===============================================================================
