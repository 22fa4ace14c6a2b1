----------------------------- MODULE CommandQueue -----------------------------
(***************************************************************************)
(* The in-memory control queue of internal/controlqueue and the handlers   *)
(* that fill it when no command repository is configured.  The queue is    *)
(* safe under its mutex; a handler is not atomic: it enqueues, records an  *)
(* audit event, and takes its command back when the audit fails, while     *)
(* other requests with the same idempotency key are answered in between.   *)
(***************************************************************************)
EXTENDS Naturals, SequencesExt, Functions

CONSTANTS Handlers,    \* concurrent request handlers
          CommandRefs, \* decision and order identifiers
          IdemKeys,    \* idempotency keys after trimming
          NoKey,       \* a request without a key
          MaxCommands  \* bound on commands

ASSUME CommandQueueAssumption == MaxCommands \in Nat /\ NoKey \notin IdemKeys

VARIABLES queue,    \* [commands, byID, toID, toIndex, seq]
          handler,  \* what each handler is doing
          audited,  \* commands with an audit event
          accepted  \* commands a client was told are accepted, by their own request

queueVars == <<queue, handler, audited, accepted>>

(* What the handlers read of a request: who and why may be missing, and    *)
(* the decision payload may be absent or malformed.                        *)
CommandRequests ==
  [ref : CommandRefs, target : {"decision", "order"}, action : {"approve", "reject", "other"},
   key : IdemKeys \cup {NoKey}, signed : BOOLEAN, payload : {"none", "bad", "good"}]

(* normalizeDecisionMap refuses a malformed payload whatever the action,   *)
(* validateControlCommandInput a missing one of a decision approval.       *)
validateControlCommandInput(r) ==
  /\ r.payload # "bad" \/ r.target = "order"
  /\ r.action \in {"approve", "reject"}
  /\ r.signed
  /\ r.target = "decision" /\ r.action = "approve" => r.payload = "good"

idempotencyIndex(r) == <<r.target, r.ref, r.action, r.key>>

(* The live command that answers a repeated request.                       *)
Reusable(r) ==
  IF r.key # NoKey /\ idempotencyIndex(r) \in DOMAIN queue.toID
  THEN {queue.toID[idempotencyIndex(r)]} \cap DOMAIN queue.byID
  ELSE {}

(* Assignment to a key of a map, and delete.                               *)
With(f, x, y) == [z \in DOMAIN f \cup {x} |-> IF z = x THEN y ELSE f[z]]

Without(f, x) == Restrict(f, DOMAIN f \ {x})

(* A new command, its identifier made from the sequence number.            *)
Appended(r, id) ==
  [queue EXCEPT !.seq = id,
                !.commands = Append(@, id),
                !.byID = With(@, id, idempotencyIndex(r)),
                !.toID = IF r.key = NoKey THEN @ ELSE With(@, idempotencyIndex(r), id),
                !.toIndex = IF r.key = NoKey THEN @ ELSE With(@, id, idempotencyIndex(r))]

(* Mutant of Removed: the idempotency index outlives the command.          *)
RemovedIndexed(id) ==
  [queue EXCEPT !.byID = Without(@, id), !.commands = RemoveFirst(@, id)]

(* Remove: the maps, then the list.                                        *)
Removed(id) ==
  [queue EXCEPT !.byID = Without(@, id),
                !.toID = IF id \in DOMAIN queue.toIndex THEN Without(@, queue.toIndex[id]) ELSE @,
                !.toIndex = Without(@, id),
                !.commands = RemoveFirst(@, id)]

IdleHandler == [st |-> "idle", id |-> 0]

CommandQueueInit ==
  /\ queue = [seq |-> 0, commands |-> <<>>, byID |-> <<>>, toID |-> <<>>, toIndex |-> <<>>]
  /\ handler = [h \in Handlers |-> IdleHandler]
  /\ audited = {} /\ accepted = {}

(* Enqueue, under the mutex: answered at once with the command of an       *)
(* earlier request, or a new command that still needs its audit event.     *)
EnqueueCommand(h, r) ==
  /\ handler[h].st = "idle" /\ validateControlCommandInput(r)
  /\ \/ Reusable(r) # {} /\ UNCHANGED <<queue, handler>>
     \/ /\ Reusable(r) = {} /\ queue.seq < MaxCommands
        /\ queue' = Appended(r, queue.seq + 1)
        /\ handler' = [handler EXCEPT ![h] = [st |-> "auditing", id |-> queue.seq + 1]]
  /\ UNCHANGED <<audited, accepted>>

AuditRecorded(h) ==
  /\ handler[h].st = "auditing"
  /\ audited' = audited \cup {handler[h].id}
  /\ accepted' = accepted \cup {handler[h].id}
  /\ handler' = [handler EXCEPT ![h] = IdleHandler]
  /\ UNCHANGED queue

AuditRefused(h) ==
  /\ handler[h].st = "auditing"
  /\ handler' = [handler EXCEPT ![h].st = "removing"]
  /\ UNCHANGED <<queue, audited, accepted>>

(* The handler takes its own command back and answers with the error.      *)
RemoveCommand(h) ==
  /\ handler[h].st = "removing"
  /\ queue' = Removed(handler[h].id)
  /\ handler' = [handler EXCEPT ![h] = IdleHandler]
  /\ UNCHANGED <<audited, accepted>>

CommandQueueNext ==
  \E h \in Handlers :
    \/ \E r \in CommandRequests : EnqueueCommand(h, r)
    \/ AuditRecorded(h) \/ AuditRefused(h) \/ RemoveCommand(h)

CommandQueueSpec == CommandQueueInit /\ [][CommandQueueNext]_queueVars

----------------------------------------------------------------------------
(* List, map and the two idempotency maps tell the same commands, one per  *)
(* request and key; what stays in the queue is audited or still has its    *)
(* handler; and a command whose own request was accepted is never taken    *)
(* back by the failure of another request.                                 *)
QueueConsistent ==
  /\ ToSet(queue.commands) = DOMAIN queue.byID
  /\ \A i, j \in DOMAIN queue.commands : i < j => queue.commands[i] < queue.commands[j]
  /\ DOMAIN queue.toIndex \subseteq DOMAIN queue.byID
  /\ \A id \in DOMAIN queue.byID :
       IF queue.byID[id][4] = NoKey THEN id \notin DOMAIN queue.toIndex
       ELSE queue.toIndex[id] = queue.byID[id] /\ queue.toID[queue.byID[id]] = id
  /\ \A i \in DOMAIN queue.toID : queue.byID[queue.toID[i]] = i
  /\ \A id \in DOMAIN queue.byID : id \in audited \/ \E h \in Handlers : handler[h].id = id
  /\ accepted \subseteq DOMAIN queue.byID \cap audited
===============================================================================
