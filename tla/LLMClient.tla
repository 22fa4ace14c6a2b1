------------------------------ MODULE LLMClient ------------------------------
(***************************************************************************)
(* The client of pkg/llm: callers that share one client, the retry loop    *)
(* around every request and the daily token budget kept in memory.  The    *)
(* budget is asked before a request and told after its answer, each time   *)
(* under the guard's mutex and not in between.                             *)
(***************************************************************************)
EXTENDS Naturals, FiniteSets

CONSTANTS Callers,    \* goroutines that share the client
          TokenLimit, \* DailyTokenLimit, positive: otherwise there is no guard
          MaxTokens,  \* bound on the tokens of one answer
          MaxRetries, \* of the retry handler
          Strict,     \* StrictEnforcement
          MaxCalls,   \* bound on calls
          MaxDays     \* bound on days

ASSUME LLMAssumption ==
  /\ IsFiniteSet(Callers) /\ TokenLimit \in Nat \ {0} /\ Strict \in BOOLEAN
  /\ MaxTokens \in Nat /\ MaxRetries \in Nat /\ MaxCalls \in Nat /\ MaxDays \in Nat

VARIABLES call,    \* what each caller is doing
          guard,   \* BudgetGuard: [period, used]
          day,     \* the current day, from 1
          spent,   \* tokens of the answers received today
          unseen,  \* today's answers include some the guard never counts
          calls    \* calls begun

llmVars == <<call, guard, day, spent, unseen, calls>>

(* A plain or structured completion, one with a routing configuration, a   *)
(* stream.                                                                 *)
Vias == {"chat", "raw", "stream"}

NoCall == [st |-> "idle", via |-> "chat", attempt |-> 0, tokens |-> 0, result |-> "none"]

NewBudgetGuard == [period |-> 0, used |-> 0]

LLMInit ==
  /\ call = [c \in Callers |-> NoCall]
  /\ guard = NewBudgetGuard
  /\ day = 1 /\ spent = 0 /\ unseen = FALSE /\ calls = 0

Ended(c, result) == call' = [call EXCEPT ![c].st = "ended", ![c].result = result]

(* Mutant of resetIfNeeded: the start of the period is never kept.         *)
resetIfNeededAlways == [period |-> day, used |-> 0]

resetIfNeeded == IF guard.period = day THEN guard ELSE [period |-> day, used |-> 0]

Exhausted(g) == Strict /\ g.used >= TokenLimit

(* The guard lets the request pass and has moved to the current day.       *)
AllowAttempt == ~Exhausted(resetIfNeeded) /\ guard' = resetIfNeeded

CanBegin(c) == call[c].st \in {"idle", "ended"} /\ calls < MaxCalls

(* Chat and ChatStream: the budget first, the request's own checks after.  *)
SendRequest(c, via) ==
  /\ CanBegin(c) /\ AllowAttempt
  /\ call' = [call EXCEPT ![c] = [NoCall EXCEPT !.st = "sent", !.via = via]]
  /\ calls' = calls + 1
  /\ UNCHANGED <<day, spent, unseen>>

RejectRequest(c) ==
  /\ CanBegin(c) /\ AllowAttempt
  /\ Ended(c, "invalid")
  /\ calls' = calls + 1
  /\ UNCHANGED <<day, spent, unseen>>

RefuseRequest(c) ==
  /\ CanBegin(c) /\ Exhausted(resetIfNeeded)
  /\ guard' = resetIfNeeded
  /\ Ended(c, "exhausted")
  /\ calls' = calls + 1
  /\ UNCHANGED <<day, spent, unseen>>

(* The provider answers, and charges.  Only Chat's own path goes on to the *)
(* guard: chatRaw and the stream's goroutine hand their answer over.       *)
ReceiveAnswer(c, tokens) ==
  /\ call[c].st = "sent"
  /\ spent' = spent + tokens
  /\ unseen' = (unseen \/ call[c].via # "chat")
  /\ IF call[c].via = "chat"
     THEN call' = [call EXCEPT ![c].st = "answered", ![c].tokens = tokens]
     ELSE Ended(c, "ok")
  /\ UNCHANGED <<guard, day, calls>>

(* Mutant of FailAttempt: the attempts are not counted.                    *)
FailAttemptUncounted(c, retryable) ==
  /\ call[c].st = "sent"
  /\ IF retryable /\ call[c].via # "stream" /\ call[c].attempt < MaxRetries
     THEN call' = [call EXCEPT ![c].st = "backoff"]
     ELSE Ended(c, "error")
  /\ UNCHANGED <<guard, day, spent, unseen, calls>>

(* One attempt fails; shouldRetry says whether another is worth it.  A     *)
(* stream has no retry loop.                                               *)
FailAttempt(c, retryable) ==
  /\ call[c].st = "sent"
  /\ IF retryable /\ call[c].via # "stream" /\ call[c].attempt < MaxRetries
     THEN call' = [call EXCEPT ![c].st = "backoff", ![c].attempt = @ + 1]
     ELSE Ended(c, "error")
  /\ UNCHANGED <<guard, day, spent, unseen, calls>>

(* The backoff passes: the next attempt does not ask the guard again.      *)
Retry(c) ==
  /\ call[c].st = "backoff"
  /\ call' = [call EXCEPT ![c].st = "sent"]
  /\ UNCHANGED <<guard, day, spent, unseen, calls>>

(* The decision's deadline, during an attempt or a backoff.                *)
Deadline(c) ==
  /\ call[c].st \in {"sent", "backoff"}
  /\ Ended(c, "error")
  /\ UNCHANGED <<guard, day, spent, unseen, calls>>

Counted(tokens) == [resetIfNeeded EXCEPT !.used = @ + tokens]

(* RecordUsage, on the day of the answer's record and not of its request.  *)
(* A strict guard turns the answer that crosses the limit into an error    *)
(* although it is paid for; a structured answer may still not parse.       *)
RecordUsage(c, parsed) ==
  LET tokens == call[c].tokens
      g == IF tokens > 0 THEN Counted(tokens) ELSE guard
  IN /\ call[c].st = "answered"
     /\ guard' = g
     /\ IF tokens > 0 /\ Strict /\ g.used > TokenLimit THEN Ended(c, "exhausted")
        ELSE Ended(c, IF parsed THEN "ok" ELSE "unparsed")
     /\ UNCHANGED <<day, spent, unseen, calls>>

NewDay ==
  /\ day < MaxDays
  /\ day' = day + 1 /\ spent' = 0 /\ unseen' = FALSE
  /\ UNCHANGED <<call, guard, calls>>

(* The process restarts with a guard that has counted nothing.             *)
RestartClient ==
  /\ guard # NewBudgetGuard
  /\ call' = [c \in Callers |-> NoCall]
  /\ guard' = NewBudgetGuard
  /\ unseen' = (unseen \/ spent > 0)
  /\ UNCHANGED <<day, spent, calls>>

(* What a caller's own goroutine does once its request is sent.            *)
CallerStep(c) ==
  \/ \E tokens \in 0..MaxTokens : ReceiveAnswer(c, tokens)
  \/ \E retryable \in BOOLEAN : FailAttempt(c, retryable)
  \/ Retry(c) \/ Deadline(c)
  \/ \E parsed \in BOOLEAN : RecordUsage(c, parsed)

LLMNext ==
  \/ \E c \in Callers :
       \/ \E via \in Vias : SendRequest(c, via)
       \/ RejectRequest(c) \/ RefuseRequest(c)
       \/ CallerStep(c)
  \/ NewDay \/ RestartClient

LLMSpec == LLMInit /\ [][LLMNext]_llmVars

----------------------------------------------------------------------------
(* A strict budget is overrun in a day by at most one answer per caller:   *)
(* the ones in flight when the count reaches the limit, also when their    *)
(* requests were allowed the day before.  Answers that are never counted   *)
(* (routed or streamed) and counts lost by a restart are outside of it.    *)
SpendBounded ==
  Strict /\ ~unseen => spent < TokenLimit + MaxTokens * Cardinality(Callers)

(* Every call that was sent ends, with an answer or an error, whatever the *)
(* provider does and without help of a deadline: the retries are bounded.  *)
CallsEnd ==
  \A c \in Callers :
    call[c].st \in {"sent", "backoff", "answered"} ~> call[c].st \in {"ended", "idle"}
===============================================================================
