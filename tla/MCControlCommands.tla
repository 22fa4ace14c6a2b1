-------------------------- MODULE MCControlCommands --------------------------
(* Instances of ControlCommands for TLC: an approval sent twice under one  *)
(* key (r1, r2), and a rejection and an approved order without a key.      *)
EXTENDS ControlCommands, TLC

CONSTANTS r1, r2, r3, r4, k

MCKind ==
  [r \in Requests |-> CASE r = r3 -> "reject" [] r = r4 -> "order" [] OTHER -> "approve"]

MCIdem == [r \in Requests |-> IF r \in {r1, r2} THEN k ELSE NoKey]

==============================================================================
