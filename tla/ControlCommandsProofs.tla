------------------------- MODULE ControlCommandsProofs -------------------------
(* Proofs about ControlCommands for any set of requests and workers.       *)
EXTENDS ControlCommands, TLAPS

(* Until a request's insert its row does not exist.                        *)
NotYetInserted ==
  \A r \in Requests : api[r] \in {"new", "find", "insert"} => rows[r] = "absent"

InsertedRows == \A r \in Requests : api[r] = "audit" => rows[r] # "absent"

(* A command in a batch is claimed and has not been executed.              *)
BatchFresh ==
  \A w \in Workers, r \in Requests :
    r \in worker[w].todo => rows[r] = "processing" /\ executed[r] = 0

(* The command in hand is claimed, and its outcome agrees with what was    *)
(* executed.                                                               *)
InHand ==
  \A w \in Workers, r \in Requests :
    worker[w].cur = r =>
      /\ rows[r] = "processing"
      /\ r \notin worker[w].todo
      /\ worker[w].outcome = "cancelled" => executed[r] = 0
      /\ worker[w].outcome = "completed" /\ Kind[r] = "approve" => executed[r] = 1

(* No command is with two workers.                                         *)
OneHolder ==
  \A v, w \in Workers, r \in Requests :
    /\ r \in worker[v].todo \/ worker[v].cur = r
    /\ r \in worker[w].todo \/ worker[w].cur = r
    => v = w

TableInv == NotYetInserted /\ InsertedRows /\ OneRowPerKey /\ AcceptedHasCommand

WorkerInv == BatchFresh /\ InHand /\ OneHolder /\ StatusTruthful

(* The inductive invariant.                                                *)
CommandInv == TypeOK /\ TableInv /\ WorkerInv

-------------------------------------------------------------------------------

(* The empty table with idle workers satisfies the invariant.              *)
LEMMA CommandInit == Init => CommandInv
<1> SUFFICES ASSUME Init PROVE CommandInv
  OBVIOUS
<1>1. TypeOK
  BY DEF Init, TypeOK, APIStates, Statuses, WorkerStates, Idle, Terminal
<1>2. TableInv
  BY DEF Init, TableInv, NotYetInserted, InsertedRows, OneRowPerKey, AcceptedHasCommand
<1>3. WorkerInv
  BY CommandAssumption
     DEF Init, WorkerInv, BatchFresh, InHand, OneHolder, StatusTruthful, Idle
<1> QED BY <1>1, <1>2, <1>3 DEF CommandInv

(* The row of a request that inserts under the unique index.               *)
LEMMA InsertKeepsTable ==
  ASSUME CommandInv, NEW r \in Requests, api[r] = "insert",
         UniqueIndex(r), InsertRow(r),
         NEW pc \in {"audit", "refind", "error"}, GotoAPI(r, pc)
  PROVE  TableInv'
<1>1. /\ rows[r] = "absent" /\ rows \in [Requests -> Statuses]
      /\ api \in [Requests -> APIStates]
  BY DEF CommandInv, TypeOK, TableInv, NotYetInserted
<1>2. /\ rows' = [rows EXCEPT ![r] = "queued"]
      /\ api' = [api EXCEPT ![r] = pc]
  BY DEF InsertRow, GotoAPI
<1>3. NotYetInserted' /\ InsertedRows'
  BY <1>1, <1>2 DEF CommandInv, TableInv, NotYetInserted, InsertedRows
<1>4. OneRowPerKey'
  <2> SUFFICES ASSUME NEW x \in Requests, NEW y \in Requests,
                      Keyed(x), Idem[x] = Idem[y],
                      rows'[x] # "absent", rows'[y] # "absent"
               PROVE  x = y
    BY DEF OneRowPerKey, Keyed
  <2>1. CASE x # r /\ y # r
    BY <1>1, <1>2, <2>1 DEF CommandInv, TableInv, OneRowPerKey
  <2>2. CASE x = r /\ y # r
    BY <1>1, <1>2, <2>2 DEF UniqueIndex, Existing
  <2>3. CASE x # r /\ y = r
    <3>1. Keyed(r) /\ x \in Existing(r)
      BY <1>1, <1>2, <2>3 DEF Existing, Keyed
    <3> QED BY <3>1 DEF UniqueIndex
  <2> QED BY <2>1, <2>2, <2>3
<1>5. AcceptedHasCommand'
  BY <1>1, <1>2 DEF CommandInv, TableInv, AcceptedHasCommand, Existing
<1> QED BY <1>3, <1>4, <1>5 DEF TableInv

(* A handler step that touches only its own program counter.               *)
LEMMA MoveKeepsTable ==
  ASSUME CommandInv, NEW r \in Requests, UNCHANGED rows,
         NEW pc \in APIStates, GotoAPI(r, pc),
         pc \in {"new", "find", "insert"} => api[r] \in {"new", "find", "insert"},
         pc \in {"audit", "accepted"} => rows[r] # "absent",
         pc = "reused" => Existing(r) # {}
  PROVE  TableInv'
<1>1. api' = [api EXCEPT ![r] = pc] /\ api \in [Requests -> APIStates] /\ rows' = rows
  BY DEF CommandInv, TypeOK, GotoAPI
<1>2. NotYetInserted' /\ InsertedRows'
  BY <1>1 DEF CommandInv, TableInv, NotYetInserted, InsertedRows
<1>3. OneRowPerKey'
  BY <1>1 DEF CommandInv, TableInv, OneRowPerKey
<1>4. AcceptedHasCommand'
  BY <1>1 DEF CommandInv, TableInv, AcceptedHasCommand, Existing
<1> QED BY <1>2, <1>3, <1>4 DEF TableInv

(* Steps that leave the handlers alone and delete no row.                  *)
LEMMA RowsKeepTable ==
  ASSUME CommandInv, UNCHANGED api,
         \A r \in Requests : rows'[r] = "absent" <=> rows[r] = "absent"
  PROVE  TableInv'
BY DEF CommandInv, TableInv, NotYetInserted, InsertedRows, OneRowPerKey,
       AcceptedHasCommand, Existing, Keyed
-------------------------------------------------------------------------------
(* The handlers.                                                           *)

(* A request changes at most one row, from absent to queued: no worker     *)
(* holds it, so what is known of the workers stays.                        *)
LEMMA HandlersKeepWorkers ==
  ASSUME CommandInv, UNCHANGED <<submitted, executed, worker>>,
         \A r \in Requests :
           \/ rows'[r] = rows[r]
           \/ rows[r] = "absent" /\ rows'[r] = "queued"
  PROVE  WorkerInv'
<1>1. BatchFresh' /\ InHand' /\ OneHolder'
  BY DEF CommandInv, WorkerInv, BatchFresh, InHand, OneHolder
<1>2. StatusTruthful'
  BY DEF CommandInv, WorkerInv, StatusTruthful
<1> QED BY <1>1, <1>2 DEF WorkerInv

(* Every step of a request handler (DecisionAction, Enqueue) preserves the *)
(* invariant.                                                              *)
LEMMA RequestKeeps ==
  ASSUME CommandInv, NEW r \in Requests, RequestStep(r)
  PROVE  CommandInv'
<1>1. /\ api \in [Requests -> APIStates] /\ rows \in [Requests -> Statuses]
      /\ api[r] = "insert" => rows[r] = "absent"
  BY DEF CommandInv, TypeOK, TableInv, NotYetInserted
<1>2. UNCHANGED <<submitted, executed, worker>>
  BY DEF RequestStep, Receive, FindExisting, InsertCommand, InsertFails, Refind,
         RecordAudit, RequestFails
<1>3. \/ rows' = rows
      \/ api[r] = "insert" /\ rows' = [rows EXCEPT ![r] = "queued"]
  BY DEF RequestStep, Receive, FindExisting, InsertCommand, InsertFails, Refind,
         RecordAudit, RequestFails, InsertRow
<1>4. \E pc \in APIStates : api' = [api EXCEPT ![r] = pc]
  BY DEF RequestStep, Receive, FindExisting, InsertCommand, InsertFails, Refind,
         RecordAudit, RequestFails, GotoAPI, APIStates
<1>5. TypeOK'
  BY <1>1, <1>2, <1>3, <1>4 DEF CommandInv, TypeOK, Statuses
<1>6. WorkerInv'
  BY <1>1, <1>2, <1>3, HandlersKeepWorkers
<1>7. TableInv'
  <2>1. CASE Receive(r)
    BY <2>1, MoveKeepsTable DEF Receive, APIStates
  <2>2. CASE FindExisting(r)
    BY <2>2, MoveKeepsTable DEF FindExisting, APIStates
  <2>3. CASE InsertCommand(r)
    BY <2>3, InsertKeepsTable DEF InsertCommand
  <2>4. CASE InsertFails(r)
    <3>1. CASE UniqueIndex(r) /\ InsertRow(r)
      BY <2>4, <3>1, InsertKeepsTable DEF InsertFails
    <3>2. CASE UNCHANGED rows
      BY <2>4, <3>2, MoveKeepsTable DEF InsertFails, APIStates
    <3> QED BY <2>4, <3>1, <3>2 DEF InsertFails
  <2>5. CASE Refind(r)
    BY <2>5, MoveKeepsTable DEF Refind, APIStates
  <2>6. CASE RecordAudit(r)
    <3>1. rows[r] # "absent"
      BY <2>6 DEF RecordAudit, CommandInv, TableInv, InsertedRows
    <3> QED BY <2>6, <3>1, MoveKeepsTable DEF RecordAudit, APIStates
  <2>7. CASE RequestFails(r)
    BY <2>7, MoveKeepsTable DEF RequestFails, APIStates
  <2> QED BY <2>1, <2>2, <2>3, <2>4, <2>5, <2>6, <2>7 DEF RequestStep
<1> QED BY <1>5, <1>6, <1>7 DEF CommandInv

-------------------------------------------------------------------------------
(* The workers.                                                            *)

(* A worker that lets go of commands, or of its context, disturbs nothing. *)
LEMMA LetGoKeeps ==
  ASSUME CommandInv, UNCHANGED <<api, rows, submitted, executed>>,
         NEW w \in Workers, NEW q \in WorkerStates,
         worker' = [worker EXCEPT ![w] = q],
         q.todo \subseteq worker[w].todo,
         q.cur = None \/ (q.cur = worker[w].cur /\ q.outcome = worker[w].outcome)
  PROVE  CommandInv'
<1>1. worker \in [Workers -> WorkerStates]
  BY DEF CommandInv, TypeOK
<1>2. worker'[w] = q /\ \A v \in Workers : v # w => worker'[v] = worker[v]
  BY <1>1
<1>3. TypeOK'
  BY <1>1 DEF CommandInv, TypeOK
<1>4. TableInv'
  BY RowsKeepTable
<1>5. None \notin Requests
  BY CommandAssumption
<1>6. BatchFresh'
  BY <1>2 DEF CommandInv, WorkerInv, BatchFresh
<1>7. InHand'
  BY <1>2, <1>5 DEF CommandInv, WorkerInv, InHand
<1>8. OneHolder'
  <2> SUFFICES ASSUME NEW u \in Workers, NEW v \in Workers, NEW r \in Requests,
                      r \in worker'[u].todo \/ worker'[u].cur = r,
                      r \in worker'[v].todo \/ worker'[v].cur = r
               PROVE  u = v
    BY DEF OneHolder
  <2>1. r \in worker[u].todo \/ worker[u].cur = r
    BY <1>2, <1>5
  <2>2. r \in worker[v].todo \/ worker[v].cur = r
    BY <1>2, <1>5
  <2> QED BY <2>1, <2>2 DEF CommandInv, WorkerInv, OneHolder
<1>9. StatusTruthful'
  BY DEF CommandInv, WorkerInv, StatusTruthful
<1> QED BY <1>3, <1>4, <1>6, <1>7, <1>8, <1>9 DEF CommandInv, WorkerInv
(* A claim, whether or not the worker gets to see it.                      *)
LEMMA ClaimKeeps ==
  ASSUME CommandInv, NEW w \in Workers, ClaimQueued(w) \/ ClaimLost(w)
  PROVE  CommandInv'
<1>1. /\ worker \in [Workers -> WorkerStates] /\ rows \in [Requests -> Statuses]
      /\ executed \in [Requests -> Nat] /\ None \notin Requests
  BY CommandAssumption DEF CommandInv, TypeOK
<1>2. PICK S \in SUBSET Requests :
        /\ \A r \in S : rows[r] = "queued"
        /\ Claim(S)
        /\ worker' = [worker EXCEPT ![w].todo = S] \/ worker' = worker
        /\ worker[w].cur = None
        /\ UNCHANGED <<api, submitted, executed>>
  BY DEF ClaimQueued, ClaimLost, Batches, Claimable, Queued
<1>3. \A r \in Requests : rows'[r] = IF r \in S THEN "processing" ELSE rows[r]
  BY <1>2 DEF Claim
<1>4. /\ \A v \in Workers : v # w => worker'[v] = worker[v]
      /\ worker'[w].cur = None
      /\ worker'[w].todo = S \/ worker'[w].todo = worker[w].todo
      /\ worker' \in [Workers -> WorkerStates]
  BY <1>1, <1>2 DEF WorkerStates
<1>5. TypeOK'
  BY <1>1, <1>2, <1>4 DEF CommandInv, TypeOK, Claim, Statuses
<1>6. TableInv'
  BY <1>2, <1>3, RowsKeepTable
<1>7. \A r \in Requests : rows[r] = "queued" => executed[r] = 0
  BY <1>1 DEF CommandInv, WorkerInv, StatusTruthful
<1>8. BatchFresh'
  BY <1>2, <1>3, <1>4, <1>7 DEF CommandInv, WorkerInv, BatchFresh
<1>9. InHand'
  BY <1>1, <1>2, <1>3, <1>4 DEF CommandInv, WorkerInv, InHand
<1>10. OneHolder'
  <2> SUFFICES ASSUME NEW v \in Workers, NEW r \in Requests, v # w,
                      r \in worker'[v].todo \/ worker'[v].cur = r,
                      r \in worker'[w].todo \/ worker'[w].cur = r
               PROVE  FALSE
    BY <1>4 DEF CommandInv, WorkerInv, OneHolder
  <2>1. r \in worker'[w].todo /\ (r \in worker[v].todo \/ worker[v].cur = r)
    BY <1>1, <1>4
  <2>2. rows[r] = "processing"
    BY <2>1 DEF CommandInv, WorkerInv, BatchFresh, InHand
  <2>3. r \in worker[w].todo
    BY <1>2, <1>4, <2>1, <2>2
  <2> QED BY <2>1, <2>3 DEF CommandInv, WorkerInv, OneHolder
<1>11. StatusTruthful'
  BY <1>2, <1>3, <1>7 DEF CommandInv, WorkerInv, StatusTruthful
<1> QED BY <1>5, <1>6, <1>8, <1>9, <1>10, <1>11 DEF CommandInv, WorkerInv

(* A command taken from the batch, executed or not.                        *)
LEMMA TakeKeeps ==
  ASSUME CommandInv, NEW w \in Workers, NEW r \in Requests,
         DismissCommand(w, r) \/ ExecuteCommand(w, r)
  PROVE  CommandInv'
<1>1. /\ worker \in [Workers -> WorkerStates] /\ rows \in [Requests -> Statuses]
      /\ executed \in [Requests -> Nat] /\ None \notin Requests
      /\ Kind \in [Requests -> Kinds]
  BY CommandAssumption DEF CommandInv, TypeOK
<1>2. /\ worker[w].cur = None /\ r \in worker[w].todo
      /\ UNCHANGED <<api, rows, submitted>>
  BY DEF DismissCommand, ExecuteCommand
<1>3. rows[r] = "processing" /\ executed[r] = 0
  BY <1>2 DEF CommandInv, WorkerInv, BatchFresh
<1>4. PICK o \in Terminal :
        /\ Take(w, r, o)
        /\ executed'[r] \in {0, 1}
        /\ executed'[r] = 1 => Kind[r] = "approve"
        /\ o = "cancelled" => executed'[r] = 0
        /\ o = "completed" /\ Kind[r] = "approve" => executed'[r] = 1
        /\ \A x \in Requests : x # r => executed'[x] = executed[x]
        /\ executed' \in [Requests -> Nat]
  <2>1. CASE DismissCommand(w, r)
    <3>1. PICK o \in DismissOutcomes(r) : Take(w, r, o)
      BY <2>1 DEF DismissCommand
    <3>2. o \in Terminal /\ (o = "completed" => Kind[r] # "approve")
      BY <1>1 DEF DismissOutcomes, Terminal, Kinds
    <3>3. executed' = executed
      BY <2>1 DEF DismissCommand
    <3> QED BY <1>1, <1>3, <3>1, <3>2, <3>3
  <2>2. CASE ExecuteCommand(w, r)
    <3>1. PICK o \in {"completed", "failed"} : Take(w, r, o)
      BY <2>2 DEF ExecuteCommand
    <3>2. executed' = [executed EXCEPT ![r] = @ + 1] /\ Kind[r] = "approve"
      BY <2>2 DEF ExecuteCommand, Executable
    <3> QED BY <1>1, <1>3, <3>1, <3>2 DEF Terminal
  <2> QED BY <2>1, <2>2
<1>5. /\ \A v \in Workers : v # w => worker'[v] = worker[v]
      /\ worker'[w].cur = r /\ worker'[w].outcome = o
      /\ worker'[w].todo = worker[w].todo \ {r}
      /\ worker' \in [Workers -> WorkerStates]
  BY <1>1, <1>2, <1>4 DEF Take, WorkerStates
<1>6. \A v \in Workers : v # w => r \notin worker[v].todo /\ worker[v].cur # r
  BY <1>2 DEF CommandInv, WorkerInv, OneHolder
<1>7. TypeOK'
  BY <1>2, <1>4, <1>5 DEF CommandInv, TypeOK
<1>8. TableInv'
  BY <1>2, RowsKeepTable
<1>9. BatchFresh'
  BY <1>2, <1>4, <1>5, <1>6 DEF CommandInv, WorkerInv, BatchFresh
<1>10. InHand'
  BY <1>1, <1>2, <1>3, <1>4, <1>5, <1>6 DEF CommandInv, WorkerInv, InHand
<1>11. OneHolder'
  <2> SUFFICES ASSUME NEW v \in Workers, NEW x \in Requests, v # w,
                      x \in worker'[v].todo \/ worker'[v].cur = x,
                      x \in worker'[w].todo \/ worker'[w].cur = x
               PROVE  FALSE
    BY <1>5 DEF CommandInv, WorkerInv, OneHolder
  <2>1. x \in worker[v].todo \/ worker[v].cur = x
    BY <1>5
  <2>2. x \in worker[w].todo
    BY <1>2, <1>5
  <2> QED BY <2>1, <2>2 DEF CommandInv, WorkerInv, OneHolder
<1>12. StatusTruthful'
  BY <1>2, <1>3, <1>4 DEF CommandInv, WorkerInv, StatusTruthful
<1> QED BY <1>7, <1>8, <1>9, <1>10, <1>11, <1>12 DEF CommandInv, WorkerInv

(* The terminal update, which only the holder of the command makes.        *)
LEMMA UpdateKeeps ==
  ASSUME CommandInv, NEW w \in Workers, UpdateStatus(w)
  PROVE  CommandInv'
<1> DEFINE r == worker[w].cur
           o == worker[w].outcome
<1>1. /\ worker \in [Workers -> WorkerStates] /\ rows \in [Requests -> Statuses]
      /\ executed \in [Requests -> Nat] /\ submitted \in [Requests -> BOOLEAN]
      /\ None \notin Requests
  BY CommandAssumption DEF CommandInv, TypeOK
<1>2. r \in Requests /\ o \in Terminal
  BY <1>1 DEF UpdateStatus, WorkerStates
<1>3. /\ rows[r] = "processing" /\ r \notin worker[w].todo
      /\ o = "cancelled" => executed[r] = 0
      /\ o = "completed" /\ Kind[r] = "approve" => executed[r] = 1
  BY <1>2 DEF CommandInv, WorkerInv, InHand
<1>4. /\ rows' = [rows EXCEPT ![r] = o]
      /\ submitted' = [submitted EXCEPT ![r] = (o = "completed" /\ Kind[r] = "approve")]
      /\ UNCHANGED <<api, executed>>
  BY DEF UpdateStatus
<1>5. /\ \A v \in Workers : v # w => worker'[v] = worker[v]
      /\ worker'[w].cur = None
      /\ worker'[w].todo = worker[w].todo
      /\ worker' \in [Workers -> WorkerStates]
  <2>1. Drop(w)
    BY DEF UpdateStatus
  <2> DEFINE q == [worker[w] EXCEPT !.cur = None, !.outcome = "failed"]
  <2>2. /\ q \in WorkerStates /\ q.cur = None /\ q.todo = worker[w].todo
        /\ worker' = [worker EXCEPT ![w] = q]
    BY <1>1, <2>1 DEF Drop, WorkerStates, Terminal
  <2> HIDE DEF q
  <2> QED BY <1>1, <2>2
<1>6. \A v \in Workers : v # w => r \notin worker[v].todo /\ worker[v].cur # r
  BY <1>2 DEF CommandInv, WorkerInv, OneHolder
<1> HIDE DEF r, o
<1>7. TypeOK'
  BY <1>1, <1>2, <1>4, <1>5 DEF CommandInv, TypeOK, Statuses
<1>8. TableInv'
  <2>1. \A x \in Requests : rows'[x] = "absent" <=> rows[x] = "absent"
    BY <1>1, <1>2, <1>3, <1>4 DEF Terminal
  <2> QED BY <1>4, <2>1, RowsKeepTable
<1>9. BatchFresh'
  BY <1>1, <1>2, <1>3, <1>4, <1>5, <1>6 DEF CommandInv, WorkerInv, BatchFresh
<1>10. InHand'
  BY <1>1, <1>2, <1>3, <1>4, <1>5, <1>6 DEF CommandInv, WorkerInv, InHand
<1>11. OneHolder'
  BY <1>1, <1>5 DEF CommandInv, WorkerInv, OneHolder
<1>12. StatusTruthful'
  <2> SUFFICES ASSUME NEW x \in Requests
               PROVE  /\ executed[x] <= 1
                      /\ executed[x] = 1 =>
                           Kind[x] = "approve" /\ rows'[x] \in {"processing", "completed", "failed"}
                      /\ submitted'[x] <=> rows'[x] = "completed" /\ Kind[x] = "approve"
                      /\ submitted'[x] => executed[x] = 1
    BY <1>4 DEF StatusTruthful
  <2>0. /\ executed[x] <= 1
        /\ executed[x] = 1 =>
             Kind[x] = "approve" /\ rows[x] \in {"processing", "completed", "failed"}
        /\ submitted[x] <=> rows[x] = "completed" /\ Kind[x] = "approve"
        /\ submitted[x] => executed[x] = 1
    BY DEF CommandInv, WorkerInv, StatusTruthful
  <2>1. CASE x = r
    <3>1. rows'[x] = o
      BY <1>1, <1>4, <2>1
    <3>2. submitted'[x] <=> o = "completed" /\ Kind[r] = "approve"
      BY <1>1, <1>4, <2>1
    <3> QED BY <1>2, <1>3, <2>0, <2>1, <3>1, <3>2 DEF Terminal
  <2>2. CASE x # r
    <3>1. rows'[x] = rows[x] /\ submitted'[x] = submitted[x]
      BY <1>1, <1>4, <2>2
    <3> QED BY <2>0, <3>1
  <2> QED BY <2>1, <2>2
<1> QED BY <1>7, <1>8, <1>9, <1>10, <1>11, <1>12 DEF CommandInv, WorkerInv
(* Every step of the pipeline preserves the invariant.                     *)
LEMMA NextKeepsCommands == CommandInv /\ [Next]_vars => CommandInv'
<1> SUFFICES ASSUME CommandInv, [Next]_vars PROVE CommandInv'
  OBVIOUS
<1>1. worker \in [Workers -> WorkerStates]
  BY DEF CommandInv, TypeOK
<1>2. ASSUME NEW r \in Requests, RequestStep(r) PROVE CommandInv'
  BY <1>2, RequestKeeps
<1>3. ASSUME NEW w \in Workers, ProcessStep(w) PROVE CommandInv'
  <2>1. CASE UpdateLost(w)
    <3> DEFINE q == [worker[w] EXCEPT !.cur = None, !.outcome = "failed"]
    <3>1. /\ q \in WorkerStates /\ q.cur = None /\ q.todo = worker[w].todo
          /\ worker' = [worker EXCEPT ![w] = q]
      BY <1>1, <2>1 DEF UpdateLost, Drop, WorkerStates, Terminal
    <3>2. UNCHANGED <<api, rows, submitted, executed>>
      BY <2>1 DEF UpdateLost
    <3> HIDE DEF q
    <3> QED BY <3>1, <3>2, LetGoKeeps
  <2> QED BY <1>3, <2>1, TakeKeeps, UpdateKeeps DEF ProcessStep
<1>4. ASSUME NEW w \in Workers, ClaimQueued(w) \/ ClaimLost(w) PROVE CommandInv'
  BY <1>4, ClaimKeeps
<1>5. ASSUME NEW w \in Workers, Stop(w) \/ Start(w) PROVE CommandInv'
  <2> PICK b \in BOOLEAN : worker' = [worker EXCEPT ![w].live = b]
    BY <1>5 DEF Stop, Start
  <2> DEFINE q == [worker[w] EXCEPT !.live = b]
  <2>1. /\ q \in WorkerStates /\ q.cur = worker[w].cur /\ q.outcome = worker[w].outcome
        /\ q.todo = worker[w].todo
        /\ worker' = [worker EXCEPT ![w] = q]
    BY <1>1 DEF WorkerStates
  <2>2. UNCHANGED <<api, rows, submitted, executed>>
    BY <1>5 DEF Stop, Start
  <2> HIDE DEF q
  <2> QED BY <2>1, <2>2, LetGoKeeps
<1>6. ASSUME NEW w \in Workers, Crash(w) PROVE CommandInv'
  <2>1. Idle \in WorkerStates /\ Idle.cur = None /\ Idle.todo = {}
    BY DEF Idle, WorkerStates, Terminal
  <2>2. worker' = [worker EXCEPT ![w] = Idle] /\ UNCHANGED <<api, rows, submitted, executed>>
    BY <1>6 DEF Crash
  <2> QED BY <2>1, <2>2, LetGoKeeps
<1>7. CASE UNCHANGED vars
  BY <1>7 DEF vars, CommandInv, TypeOK, TableInv, WorkerInv, NotYetInserted, InsertedRows,
              OneRowPerKey, AcceptedHasCommand, Existing, BatchFresh, InHand, OneHolder,
              StatusTruthful
<1> QED BY <1>2, <1>3, <1>4, <1>5, <1>6, <1>7 DEF Next

(* The table and the workers agree in every reachable state (Enqueue,      *)
(* ClaimQueued, processCommand, updateTerminal): rows exist once inserted, *)
(* a claimed command is held by one worker at most and is executed at most *)
(* once.                                                                   *)
THEOREM CommandInvariant == Spec => []CommandInv
BY CommandInit, NextKeepsCommands, PTL DEF Spec

(* Type correctness of the table, the handlers and the workers.            *)
THEOREM CommandTypes == Spec => []TypeOK
<1>1. CommandInv => TypeOK
  BY DEF CommandInv
<1> QED BY <1>1, CommandInvariant, PTL

(* One idempotency key never gets two rows.                                *)
THEOREM KeysAreUnique == Spec => []OneRowPerKey
<1>1. CommandInv => OneRowPerKey
  BY DEF CommandInv, TableInv
<1> QED BY <1>1, CommandInvariant, PTL

(* Every accepted request has its command.                                 *)
THEOREM AcceptanceIsBacked == Spec => []AcceptedHasCommand
<1>1. CommandInv => AcceptedHasCommand
  BY DEF CommandInv, TableInv
<1> QED BY <1>1, CommandInvariant, PTL

(* At most one execution per command, and a status that agrees with it,    *)
(* for any number of workers, crashes and lost answers.                    *)
THEOREM StatusIsTruthful == Spec => []StatusTruthful
<1>1. CommandInv => StatusTruthful
  BY DEF CommandInv, WorkerInv
<1> QED BY <1>1, CommandInvariant, PTL
-------------------------------------------------------------------------------
(* The pipeline implements the life of a command.                          *)

(* The empty table is the initial state of the life of a command.          *)
LEMMA LifecycleInit == Init => Lifecycle!Init
BY DEF Init, Lifecycle!Init

(* Every step of the pipeline is a step of the life of one command, or     *)
(* leaves statuses and executions alone.                                   *)
LEMMA LifecycleStep ==
  CommandInv /\ [Next]_vars => [Lifecycle!Next]_<<rows, executed>>
<1> SUFFICES ASSUME CommandInv, Next PROVE [Lifecycle!Next]_<<rows, executed>>
  BY DEF vars
<1>1. /\ worker \in [Workers -> WorkerStates] /\ rows \in [Requests -> Statuses]
      /\ executed \in [Requests -> Nat] /\ None \notin Requests
  BY CommandAssumption DEF CommandInv, TypeOK
<1>2. ASSUME NEW r \in Requests, RequestStep(r)
      PROVE  [Lifecycle!Next]_<<rows, executed>>
  <2>1. CASE InsertRow(r) /\ api[r] = "insert" /\ executed' = executed
    <3>1. rows[r] = "absent"
      BY <2>1 DEF CommandInv, TableInv, NotYetInserted
    <3>2. Lifecycle!Insert(r)
      BY <2>1, <3>1 DEF InsertRow, Lifecycle!Insert
    <3> QED BY <3>2 DEF Lifecycle!Next
  <2>2. CASE rows' = rows /\ executed' = executed
    BY <2>2
  <2> QED BY <1>2, <2>1, <2>2
          DEF RequestStep, Receive, FindExisting, InsertCommand, InsertFails, Refind,
              RecordAudit, RequestFails
<1>3. ASSUME NEW w \in Workers, ClaimQueued(w) \/ ClaimLost(w)
      PROVE  [Lifecycle!Next]_<<rows, executed>>
  <2>1. PICK S \in SUBSET Requests :
          (\A r \in S : rows[r] = "queued") /\ Claim(S) /\ executed' = executed
    BY <1>3 DEF ClaimQueued, ClaimLost, Batches, Claimable, Queued
  <2>2. Lifecycle!Claim(S)
    BY <2>1 DEF Claim, Lifecycle!Claim
  <2> QED BY <2>2 DEF Lifecycle!Next
<1>4. ASSUME NEW w \in Workers, NEW r \in Requests, ExecuteCommand(w, r)
      PROVE  [Lifecycle!Next]_<<rows, executed>>
  <2>1. /\ r \in worker[w].todo /\ Kind[r] = "approve" /\ rows' = rows
        /\ executed' = [executed EXCEPT ![r] = @ + 1]
    BY <1>4 DEF ExecuteCommand, Executable
  <2>2. rows[r] = "processing" /\ executed[r] = 0
    BY <2>1 DEF CommandInv, WorkerInv, BatchFresh
  <2>3. Lifecycle!Execute(r)
    BY <1>1, <2>1, <2>2 DEF Lifecycle!Execute
  <2> QED BY <2>3 DEF Lifecycle!Next
<1>5. ASSUME NEW w \in Workers, UpdateStatus(w)
      PROVE  [Lifecycle!Next]_<<rows, executed>>
  <2> DEFINE r == worker[w].cur
             o == worker[w].outcome
  <2>1. r \in Requests /\ o \in Terminal
    BY <1>1, <1>5 DEF UpdateStatus, WorkerStates
  <2>2. /\ rows[r] = "processing"
        /\ o = "cancelled" => executed[r] = 0
        /\ o = "completed" /\ Kind[r] = "approve" => executed[r] = 1
    BY <2>1 DEF CommandInv, WorkerInv, InHand
  <2>3. rows' = [rows EXCEPT ![r] = o] /\ executed' = executed
    BY <1>5 DEF UpdateStatus
  <2> HIDE DEF r, o
  <2>4. CASE o = "completed"
    <3>1. Lifecycle!Complete(r)
      BY <2>1, <2>2, <2>3, <2>4 DEF Lifecycle!Complete
    <3> QED BY <2>1, <3>1 DEF Lifecycle!Next
  <2>5. CASE o = "failed"
    <3>1. Lifecycle!Fail(r)
      BY <2>1, <2>2, <2>3, <2>5 DEF Lifecycle!Fail
    <3> QED BY <2>1, <3>1 DEF Lifecycle!Next
  <2>6. CASE o = "cancelled"
    <3>1. Lifecycle!Cancel(r)
      BY <2>1, <2>2, <2>3, <2>6 DEF Lifecycle!Cancel
    <3> QED BY <2>1, <3>1 DEF Lifecycle!Next
  <2> QED BY <2>1, <2>4, <2>5, <2>6 DEF Terminal
<1>6. ASSUME NEW w \in Workers,
             \/ \E r \in Requests : DismissCommand(w, r)
             \/ UpdateLost(w) \/ Stop(w) \/ Start(w) \/ Crash(w)
      PROVE  [Lifecycle!Next]_<<rows, executed>>
  BY <1>6 DEF DismissCommand, UpdateLost, Stop, Start, Crash
<1> QED BY <1>2, <1>3, <1>4, <1>5, <1>6 DEF Next, ProcessStep

(* The control-command pipeline implements CommandLifecycle: one insert,   *)
(* one claim, at most one execution, one final status per command.         *)
THEOREM PipelineImplementsLifecycle == Spec => ImplementsLifecycle
BY LifecycleInit, LifecycleStep, CommandInvariant, PTL
   DEF Spec, ImplementsLifecycle, Lifecycle!Spec, Lifecycle!vars

-------------------------------------------------------------------------------
(* What no later step can undo.                                            *)

Held(w, r) == r \in worker[w].todo \/ worker[w].cur = r

(* Claimed, and with no worker any more.                                   *)
Orphaned(r) == rows[r] = "processing" /\ \A w \in Workers : ~Held(w, r)

Settled(r) == rows[r] \in Terminal

Untouched(r) == rows'[r] = rows[r] /\ executed'[r] = executed[r] /\ submitted'[r] = submitted[r]

(* Only a queued command is given to a worker, only a held one is executed *)
(* or updated.                                                             *)
LEMMA NobodyReturns ==
  ASSUME CommandInv, [Next]_vars, NEW r \in Requests, Orphaned(r) \/ Settled(r)
  PROVE  Untouched(r) /\ \A w \in Workers : ~Held(w, r)'
<1>1. /\ worker \in [Workers -> WorkerStates] /\ rows \in [Requests -> Statuses]
      /\ executed \in [Requests -> Nat] /\ submitted \in [Requests -> BOOLEAN] /\ None \notin Requests
  BY CommandAssumption DEF CommandInv, TypeOK
<1>2. rows[r] \in {"processing", "completed", "failed", "cancelled"}
  BY DEF Orphaned, Settled, Terminal
<1>3. \A w \in Workers : r \notin worker[w].todo /\ worker[w].cur # r
  <2>1. CASE Orphaned(r)
    BY <2>1 DEF Orphaned, Held
  <2>2. CASE Settled(r)
    BY <2>2 DEF Settled, Terminal, CommandInv, WorkerInv, BatchFresh, InHand
  <2> QED BY <2>1, <2>2
<1>4. SUFFICES Untouched(r) /\ \A w \in Workers : r \notin worker'[w].todo /\ worker'[w].cur # r
  BY <1>4 DEF Held
<1>5. ASSUME NEW x \in Requests, RequestStep(x)
      PROVE  Untouched(r) /\ \A w \in Workers : r \notin worker'[w].todo /\ worker'[w].cur # r
  <2>1. worker' = worker /\ executed' = executed /\ submitted' = submitted
    BY <1>5 DEF RequestStep, Receive, FindExisting, InsertCommand, InsertFails, Refind, RecordAudit, RequestFails
  <2>2. rows' = rows \/ (InsertRow(x) /\ api[x] = "insert")
    BY <1>5 DEF RequestStep, Receive, FindExisting, InsertCommand, InsertFails, Refind, RecordAudit, RequestFails
  <2>3. InsertRow(x) /\ api[x] = "insert" => x # r /\ rows'[r] = rows[r]
    BY <1>1, <1>2 DEF InsertRow, CommandInv, TableInv, NotYetInserted
  <2>4. rows'[r] = rows[r]
    BY <2>2, <2>3
  <2> QED BY <1>3, <2>1, <2>4 DEF Untouched
<1>6. ASSUME NEW w \in Workers, ClaimQueued(w) \/ ClaimLost(w)
      PROVE  Untouched(r) /\ \A v \in Workers : r \notin worker'[v].todo /\ worker'[v].cur # r
  <2>1. PICK S \in SUBSET Requests :
          /\ (\A x \in S : rows[x] = "queued") /\ Claim(S) /\ executed' = executed /\ submitted' = submitted
          /\ worker' = worker \/ worker' = [worker EXCEPT ![w].todo = S]
    BY <1>6 DEF ClaimQueued, ClaimLost, Batches, Claimable, Queued
  <2>2. r \notin S
    BY <1>2, <2>1
  <2>3. rows'[r] = rows[r]
    BY <2>1, <2>2 DEF Claim
  <2>4. \A v \in Workers : r \notin worker'[v].todo /\ worker'[v].cur # r
    BY <1>1, <1>3, <2>1, <2>2 DEF WorkerStates
  <2> QED BY <2>1, <2>3, <2>4 DEF Untouched
<1>7. ASSUME NEW w \in Workers, NEW x \in Requests, DismissCommand(w, x) \/ ExecuteCommand(w, x)
      PROVE  Untouched(r) /\ \A v \in Workers : r \notin worker'[v].todo /\ worker'[v].cur # r
  <2>1. x \in worker[w].todo /\ rows' = rows /\ submitted' = submitted
    BY <1>7 DEF DismissCommand, ExecuteCommand
  <2>2. x # r
    BY <1>3, <2>1
  <2>3. executed' = executed \/ executed' = [executed EXCEPT ![x] = @ + 1]
    BY <1>7 DEF DismissCommand, ExecuteCommand
  <2>4. executed'[r] = executed[r]
    BY <1>1, <2>2, <2>3
  <2>5. PICK o : Take(w, x, o)
    BY <1>7 DEF DismissCommand, ExecuteCommand
  <2>6. \A v \in Workers : r \notin worker'[v].todo /\ worker'[v].cur # r
    BY <1>1, <1>3, <2>2, <2>5 DEF Take, WorkerStates
  <2> QED BY <2>1, <2>4, <2>6 DEF Untouched
<1>8. ASSUME NEW w \in Workers, UpdateStatus(w) \/ UpdateLost(w)
      PROVE  Untouched(r) /\ \A v \in Workers : r \notin worker'[v].todo /\ worker'[v].cur # r
  <2>1. Drop(w) /\ executed' = executed
    BY <1>8 DEF UpdateStatus, UpdateLost
  <2>2. rows'[r] = rows[r] /\ submitted'[r] = submitted[r]
    BY <1>1, <1>3, <1>8 DEF UpdateStatus, UpdateLost
  <2>3. \A v \in Workers : r \notin worker'[v].todo /\ worker'[v].cur # r
    BY <1>1, <1>3, <2>1 DEF Drop, WorkerStates
  <2> QED BY <2>1, <2>2, <2>3 DEF Untouched
<1>9. ASSUME NEW w \in Workers, Stop(w) \/ Start(w) \/ Crash(w)
      PROVE  Untouched(r) /\ \A v \in Workers : r \notin worker'[v].todo /\ worker'[v].cur # r
  <2>1. rows' = rows /\ executed' = executed /\ submitted' = submitted
    BY <1>9 DEF Stop, Start, Crash
  <2>2. \A v \in Workers : r \notin worker'[v].todo /\ worker'[v].cur # r
    BY <1>1, <1>3, <1>9 DEF Stop, Start, Crash, Idle, WorkerStates
  <2> QED BY <2>1, <2>2 DEF Untouched
<1>10. CASE UNCHANGED vars
  BY <1>3, <1>10 DEF vars, Untouched
<1> QED BY <1>5, <1>6, <1>7, <1>8, <1>9, <1>10 DEF Next, ProcessStep

(* A terminal status is final, with the submission it records and the      *)
(* execution behind it: no worker that was slow, stopped or started again  *)
(* updates the row a second time, although the update has no condition.    *)
TerminalIsFinal == \A r \in Requests : rows[r] \in Terminal => Untouched(r)

(* The terminal update of the repository is final: its command is with one *)
(* worker, which has no further step for it.                               *)
THEOREM TerminalStaysFinal == Spec => [][TerminalIsFinal]_vars
<1>1. CommandInv /\ [Next]_vars => [TerminalIsFinal]_vars
  BY NobodyReturns, Zenon DEF TerminalIsFinal, Settled
<1> QED BY <1>1, CommandInvariant, PTL DEF Spec

(* Nothing looks for rows that were left in processing: a claimed command  *)
(* whose worker crashed, lost the claim's answer or lost the update stays  *)
(* as it is for ever, executed or not.                                     *)
OrphansStay == \A r \in Requests : Orphaned(r) => Orphaned(r)' /\ executed'[r] = executed[r]

(* ClaimQueued takes queued rows only, and nothing else gives a command to *)
(* a worker, so that a row in processing without a worker is lost.         *)
THEOREM OrphansAreStuck == Spec => [][OrphansStay]_vars
<1>1. ASSUME CommandInv, [Next]_vars, NEW r \in Requests, Orphaned(r)
      PROVE  Orphaned(r)' /\ executed'[r] = executed[r]
  <2>1. Untouched(r) /\ \A w \in Workers : ~Held(w, r)'
    BY <1>1, NobodyReturns
  <2>2. rows[r] = "processing"
    BY <1>1 DEF Orphaned
  <2> QED BY <2>1, <2>2 DEF Untouched, Orphaned
<1>2. CommandInv /\ [Next]_vars => [OrphansStay]_vars
  BY <1>1, Zenon DEF OrphansStay
<1> QED BY <1>2, CommandInvariant, PTL DEF Spec

===============================================================================
