---------------------------- MODULE ControlCommands ----------------------------
(***************************************************************************)
(* Approve and reject commands on their way through the control_commands   *)
(* table.  API requests insert rows, idempotently when they carry a key;   *)
(* command workers claim rows in batches, hand approved decisions to       *)
(* Manager.ExecuteDecision and record a terminal status.  Requests,        *)
(* workers and the database fail independently of each other.              *)
(*                                                                         *)
(* A command is named by the request that inserts its row (command ids     *)
(* carry a random nonce).  The payload is abstracted to the kind of        *)
(* command; ExecuteDecision to whether it submitted and how it returned.   *)
(***************************************************************************)
EXTENDS Naturals, FiniteSets

CONSTANTS
  Requests,   \* approve / reject calls received by the API
  Workers,    \* command workers: one per API server process
  Kind,       \* what each request asks for
  Idem,       \* its (target, id, action, idempotency_key), or NoKey
  NoKey,
  None,
  BatchSize   \* rows a worker claims at once

(* approve and hold: an approved decision to trade, or to hold; reject: a  *)
(* rejection; order: an approved order.                                    *)
Kinds == {"approve", "hold", "reject", "order"}

ASSUME CommandAssumption ==
  /\ IsFiniteSet(Requests)
  /\ Kind \in [Requests -> Kinds]
  /\ \A r, s \in Requests : Idem[r] = Idem[s] /\ Idem[r] # NoKey => Kind[r] = Kind[s]
  /\ None \notin Requests
  /\ BatchSize \in Nat \ {0}

VARIABLES
  api,       \* per request: where its handler is
  rows,      \* control_commands.status, "absent" when there is no row
  submitted, \* control_commands.submitted
  executed,  \* how often ExecuteDecision may have submitted the command
  worker     \* per worker: context alive, batch left, command in hand, its outcome

vars == <<api, rows, submitted, executed, worker>>

Terminal == {"completed", "failed", "cancelled"}

Statuses == {"absent", "queued", "processing"} \cup Terminal

APIStates == {"new", "find", "insert", "refind", "audit", "accepted", "reused", "error"}

WorkerStates ==
  [live : BOOLEAN, todo : SUBSET Requests, cur : Requests \cup {None}, outcome : Terminal]

Idle == [live |-> TRUE, todo |-> {}, cur |-> None, outcome |-> "failed"]

Init ==
  /\ api = [r \in Requests |-> "new"]
  /\ rows = [r \in Requests |-> "absent"]
  /\ submitted = [r \in Requests |-> FALSE]
  /\ executed = [r \in Requests |-> 0]
  /\ worker = [w \in Workers |-> Idle]

-------------------------------------------------------------------------------
(* The API: DecisionAction / OrderAction and controlCommandRepo.Enqueue.   *)

(* findExisting: the row with the request's idempotency key.               *)
Existing(r) == {x \in Requests : rows[x] # "absent" /\ Idem[x] = Idem[r]}

Keyed(r) == Idem[r] # NoKey

GotoAPI(r, pc) == api' = [api EXCEPT ![r] = pc]

(* The input is valid and normalized.                                      *)
Receive(r) ==
  /\ api[r] = "new"
  /\ GotoAPI(r, IF Keyed(r) THEN "find" ELSE "insert")
  /\ UNCHANGED <<rows, submitted, executed, worker>>

FindExisting(r) ==
  /\ api[r] = "find"
  /\ GotoAPI(r, IF Existing(r) # {} THEN "reused" ELSE "insert")
  /\ UNCHANGED <<rows, submitted, executed, worker>>

(* Mutant of UniqueIndex: the index on the idempotency key is missing.     *)
NoUniqueIndex(r) == TRUE

(* idx_control_commands_idempotency lets the row in.                       *)
UniqueIndex(r) == Keyed(r) => Existing(r) = {}

InsertRow(r) == rows' = [rows EXCEPT ![r] = "queued"]

InsertCommand(r) ==
  /\ api[r] = "insert"
  /\ UniqueIndex(r)
  /\ InsertRow(r)
  /\ GotoAPI(r, "audit")
  /\ UNCHANGED <<submitted, executed, worker>>

(* Insert returned an error: the key is taken, the statement failed, or it *)
(* was committed and only its answer was lost.                             *)
InsertFails(r) ==
  /\ api[r] = "insert"
  /\ \/ UNCHANGED rows
     \/ UniqueIndex(r) /\ InsertRow(r)
  /\ GotoAPI(r, IF Keyed(r) THEN "refind" ELSE "error")
  /\ UNCHANGED <<submitted, executed, worker>>

(* Mutant of Refind: any insert error on a keyed request counts as reuse.  *)
RefindTrusting(r) ==
  /\ api[r] = "refind"
  /\ GotoAPI(r, "reused")
  /\ UNCHANGED <<rows, submitted, executed, worker>>

(* After a failed insert a row found under the key is returned instead.    *)
Refind(r) ==
  /\ api[r] = "refind"
  /\ GotoAPI(r, IF Existing(r) # {} THEN "reused" ELSE "error")
  /\ UNCHANGED <<rows, submitted, executed, worker>>

(* The audit event is written; the request is answered "accepted".         *)
RecordAudit(r) ==
  /\ api[r] = "audit"
  /\ GotoAPI(r, "accepted")
  /\ UNCHANGED <<rows, submitted, executed, worker>>

(* The audit write failed, a query failed, the client went away or the     *)
(* server died: the request ends in an error, its row stays queued.        *)
RequestFails(r) ==
  /\ api[r] \in {"find", "refind", "audit"}
  /\ GotoAPI(r, "error")
  /\ UNCHANGED <<rows, submitted, executed, worker>>

-------------------------------------------------------------------------------
(* The worker: ControlCommandWorker.ProcessOnce.                           *)

Queued == {r \in Requests : rows[r] = "queued"}

(* Mutant of Claimable: rows left in processing are claimed again.         *)
ClaimableAgain == {r \in Requests : rows[r] \in {"queued", "processing"}}

(* The rows the claim statement selects from.                              *)
Claimable == Queued

(* Mutant of Batches: a claim waits for a full batch.                      *)
BatchesFull == {S \in SUBSET Claimable : Cardinality(S) = BatchSize}

(* The oldest rows, at most BatchSize of them.  created_at is read from    *)
(* the clock of whichever API server took the request, so any of the rows  *)
(* may count as the oldest.                                                *)
Batches ==
  {S \in SUBSET Claimable :
     /\ S # {}
     /\ Cardinality(S) <= BatchSize
     /\ Cardinality(S) < BatchSize => S = Claimable}

(* One statement: select for update skip locked, set processing, return.   *)
Claim(S) == rows' = [r \in Requests |-> IF r \in S THEN "processing" ELSE rows[r]]

ClaimQueued(w) ==
  /\ worker[w].live /\ worker[w].todo = {} /\ worker[w].cur = None
  /\ \E S \in Batches :
       /\ Claim(S)
       /\ worker' = [worker EXCEPT ![w].todo = S]
  /\ UNCHANGED <<submitted, executed, api>>

(* The claim was committed but the worker got an error instead of the rows.*)
ClaimLost(w) ==
  /\ worker[w].live /\ worker[w].todo = {} /\ worker[w].cur = None
  /\ \E S \in Batches : Claim(S)
  /\ UNCHANGED <<submitted, executed, worker, api>>

Take(w, r, outcome) ==
  worker' = [worker EXCEPT ![w].todo = @ \ {r}, ![w].cur = r, ![w].outcome = outcome]

Drop(w) == worker' = [worker EXCEPT ![w].cur = None, ![w].outcome = "failed"]

(* Mutant of DismissOutcomes: a command turned down is queued again.       *)
DismissOutcomesRetry(r) == {"queued"}

DismissOutcomes(r) ==
  CASE Kind[r] = "reject" -> {"cancelled"}
    [] Kind[r] = "hold" -> {"completed", "failed"}
    [] OTHER -> {"failed"}

(* processCommand up to its terminal update, for a command that submits    *)
(* nothing: a rejection, an order command, a payload that does not decode, *)
(* an unknown trader, a decision turned down by the manager's policy, a    *)
(* decision to hold.                                                       *)
DismissCommand(w, r) ==
  /\ worker[w].cur = None /\ r \in worker[w].todo
  /\ \E outcome \in DismissOutcomes(r) : Take(w, r, outcome)
  /\ UNCHANGED <<rows, submitted, executed, api>>

(* Mutant of Executable: the action of the command is not looked at.       *)
ExecutableAny(r) == TRUE

(* Only approvals of decisions are executed.                               *)
Executable(r) == Kind[r] = "approve"

(* ExecuteDecision submits; it may still return an error, when the answer  *)
(* of the exchange was lost.  It runs on its own context: a cancelled      *)
(* worker context does not stop it.                                        *)
ExecuteCommand(w, r) ==
  /\ worker[w].cur = None /\ r \in worker[w].todo
  /\ Executable(r)
  /\ executed' = [executed EXCEPT ![r] = @ + 1]
  /\ \E outcome \in {"completed", "failed"} : Take(w, r, outcome)
  /\ UNCHANGED <<rows, submitted, api>>

(* Complete, Fail or Cancel: an unconditional update of the row.           *)
UpdateStatus(w) ==
  /\ worker[w].live /\ worker[w].cur # None
  /\ rows' = [rows EXCEPT ![worker[w].cur] = worker[w].outcome]
  /\ submitted' = [submitted EXCEPT ![worker[w].cur] =
                     (worker[w].outcome = "completed" /\ Kind[worker[w].cur] = "approve")]
  /\ Drop(w)
  /\ UNCHANGED <<executed, api>>

(* The update failed; its error is ignored and the batch goes on.          *)
UpdateLost(w) ==
  /\ worker[w].cur # None
  /\ Drop(w)
  /\ UNCHANGED <<rows, submitted, executed, api>>

(* Runtime.Stop cancels the context; the batch in hand is still worked off,*)
(* with every database call failing.                                       *)
Stop(w) ==
  /\ worker[w].live
  /\ worker' = [worker EXCEPT ![w].live = FALSE]
  /\ UNCHANGED <<rows, submitted, executed, api>>

(* A new process starts after the old one has stopped.                     *)
Start(w) ==
  /\ ~worker[w].live /\ worker[w].todo = {} /\ worker[w].cur = None
  /\ worker' = [worker EXCEPT ![w].live = TRUE]
  /\ UNCHANGED <<rows, submitted, executed, api>>

(* The process dies, with its batch, and is started again.                 *)
Crash(w) ==
  /\ worker' = [worker EXCEPT ![w] = Idle]
  /\ UNCHANGED <<rows, submitted, executed, api>>

-------------------------------------------------------------------------------

RequestStep(r) ==
  \/ Receive(r) \/ FindExisting(r) \/ InsertCommand(r) \/ InsertFails(r)
  \/ Refind(r) \/ RecordAudit(r) \/ RequestFails(r)

(* What a worker does with the batch it holds.                             *)
ProcessStep(w) ==
  \/ \E r \in Requests : DismissCommand(w, r) \/ ExecuteCommand(w, r)
  \/ UpdateStatus(w) \/ UpdateLost(w)

Next ==
  \/ \E r \in Requests : RequestStep(r)
  \/ \E w \in Workers : ProcessStep(w)
  \/ \E w \in Workers : ClaimQueued(w) \/ ClaimLost(w) \/ Stop(w) \/ Start(w) \/ Crash(w)

Spec == Init /\ [][Next]_vars

(* A worker works its batch off, polls again and again while it is up, and *)
(* is started again after a stop.  Requests may stay away.                 *)
Fairness ==
  \A w \in Workers :
    /\ WF_vars(ProcessStep(w))
    /\ SF_vars(ClaimQueued(w))
    /\ WF_vars(Start(w))

FairSpec == Spec /\ Fairness

-------------------------------------------------------------------------------
(* Properties.                                                             *)

(* Type correctness of the table, the handlers and the workers.            *)
TypeOK ==
  /\ api \in [Requests -> APIStates]
  /\ rows \in [Requests -> Statuses]
  /\ submitted \in [Requests -> BOOLEAN]
  /\ executed \in [Requests -> Nat]
  /\ worker \in [Workers -> WorkerStates]

(* Requests with one idempotency key share one row, although Enqueue looks *)
(* for the row and inserts it in two statements, and an insert whose       *)
(* answer was lost is looked up again (controlCommandRepo.Enqueue).        *)
OneRowPerKey ==
  \A r, s \in Requests :
    /\ Keyed(r) /\ Idem[r] = Idem[s]
    /\ rows[r] # "absent" /\ rows[s] # "absent"
    => r = s

(* A request that was answered "accepted" has a row to show for it: its    *)
(* own, or the one stored under its key.                                   *)
AcceptedHasCommand ==
  \A r \in Requests :
    /\ api[r] = "accepted" => rows[r] # "absent"
    /\ api[r] = "reused" => Existing(r) # {}

(* The table tells the truth about the exchange, whatever crashed: a       *)
(* decision is executed once at most, only if it was approved, never while *)
(* its row is queued, cancelled or absent, and always if it is completed   *)
(* with submitted set (processCommand, ClaimQueued).                       *)
StatusTruthful ==
  \A r \in Requests :
    /\ executed[r] <= 1
    /\ executed[r] = 1 => Kind[r] = "approve" /\ rows[r] \in {"processing", "completed", "failed"}
    /\ submitted[r] <=> rows[r] = "completed" /\ Kind[r] = "approve"
    /\ submitted[r] => executed[r] = 1

(* Every step of the pipeline is a step of the life of one command: in     *)
(* particular no terminal status is ever overwritten, although the update  *)
(* has no condition on the old status (UpdateStatus).                      *)
Lifecycle == INSTANCE CommandLifecycle
  WITH Commands <- Requests, Trades <- {r \in Requests : Kind[r] = "approve"},
       status <- rows, executed <- executed

ImplementsLifecycle == Lifecycle!Spec

(* A queued command is claimed in the end, across crashes and shutdowns.   *)
QueuedIsClaimed ==
  \A r \in Requests : rows[r] = "queued" ~> rows[r] # "queued"

(* A claimed command reaches a terminal status in the end.                 *)
ClaimedTerminates ==
  \A r \in Requests : rows[r] = "processing" ~> rows[r] \in Terminal

(* An executed approval leaves an audit event, or is still about to: its   *)
(* request did not end without one.                                        *)
ExecutionAudited ==
  \A r \in Requests : executed[r] > 0 => api[r] \notin {"error", "reused"}

===============================================================================
