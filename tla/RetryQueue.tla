------------------------------ MODULE RetryQueue ------------------------------
(***************************************************************************)
(* The bounded asynchronous retry executor of internal/persistence/        *)
(* resilience.  One queue per process is shared by the engine and the      *)
(* market persistence services.  A slot of the semaphore holds the task    *)
(* that a goroutine is working off: a whole-value cache write captured     *)
(* when the first attempt failed, and the number of the next attempt.      *)
(***************************************************************************)
EXTENDS Naturals

CONSTANTS Capacity,     \* slots of the semaphore
          MaxAttempts,  \* attempts per task
          NoTask        \* a free slot

ASSUME QueueAssumption == Capacity \in Nat /\ MaxAttempts \in Nat \ {0}

VARIABLE slots

Slot == 1..Capacity

Free == {i \in Slot : slots[i] = NoTask}

QueueInit == slots = [i \in Slot |-> NoTask]

(* The process is gone and its goroutines with it.                         *)
QueueLost == slots' = [i \in Slot |-> NoTask]

(* Enqueue never blocks: a saturated queue drops the task.                 *)
Enqueue(task) ==
  \/ \E i \in Free :
       /\ \A j \in Free : i <= j
       /\ slots' = [slots EXCEPT ![i] = [do |-> task, attempt |-> 1]]
  \/ Free = {} /\ UNCHANGED slots

(* The class of a failure: transient (the network, a busy Redis), or none  *)
(* a retry would help.  Any failed write may be either.                    *)
Classify == {"retry_async", "block"}

(* A failed first write: a transient error is queued, any other is logged. *)
handleCacheFailure(task) ==
  \E class \in Classify : IF class = "retry_async" THEN Enqueue(task) ELSE UNCHANGED slots

(* The goroutine returns and gives its slot back.                          *)
Release(i) == slots' = [slots EXCEPT ![i] = NoTask]

(* Mutant of AttemptFails: the attempts are not counted.                   *)
AttemptFailsUncounted(i, again) == slots' = [slots EXCEPT ![i].do = again] \/ Release(i)

(* Mutant of AttemptFails: one attempt too many.                           *)
AttemptFailsOnceMore(i, again) ==
  \/ slots[i].attempt <= MaxAttempts /\ slots' = [slots EXCEPT ![i] = [do |-> again, attempt |-> @.attempt + 1]]
  \/ Release(i)

(* A failed attempt: the next one, of the same closure, after a backoff;   *)
(* or the end, after the last attempt or an error that is not transient.   *)
AttemptFails(i, again) ==
  \/ slots[i].attempt < MaxAttempts /\ slots' = [slots EXCEPT ![i] = [do |-> again, attempt |-> @.attempt + 1]]
  \/ Release(i)

(* Every slot of the queue is given back, however the attempts go.         *)
RetriesDrain == \A i \in Slot : []<>(slots[i] = NoTask)
===============================================================================
