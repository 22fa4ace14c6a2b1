-------------------------------- MODULE MCDesk --------------------------------
(***************************************************************************)
(* The components around the trading core that keep state of their own and *)
(* share none of it: the simulated exchange, the backtest engine, the      *)
(* in-memory control queue, the read side (three kinds of request), the    *)
(* LLM client and the decision cycle.  Each is explored alone: focus says  *)
(* which.  Account totals are explored twice, with snapshots and one       *)
(* command ("totals") and with many commands and no snapshot ("plans").    *)
(***************************************************************************)
EXTENDS Backtest, CommandQueue, ReadModel, LLMClient, DecisionCheck

VARIABLE focus

vars == <<simVars, bt, queueVars, readVars, llmVars, deskVars, focus>>

Init ==
  /\ SimInit /\ BacktestInit /\ CommandQueueInit /\ ReadInit /\ LLMInit /\ DeskInit
  /\ focus \in {"exchange", "backtest", "queue", "paging", "totals", "plans", "trades", "llm", "desk"}
  /\ focus # "backtest" => bt.strategy = "journal"
  /\ focus # "desk" => equity = 0

Next ==
  \/ focus = "exchange" /\ SimNext /\ UNCHANGED <<bt, queueVars, readVars, llmVars, deskVars, focus>>
  \/ focus = "backtest" /\ BacktestNext /\ UNCHANGED <<simVars, queueVars, readVars, llmVars, deskVars, focus>>
  \/ focus = "queue" /\ CommandQueueNext /\ UNCHANGED <<simVars, bt, readVars, llmVars, deskVars, focus>>
  \/ focus = "paging" /\ PagingNext /\ UNCHANGED <<simVars, bt, queueVars, llmVars, deskVars, focus>>
  \/ /\ focus = "totals" /\ TotalsNext /\ \A p \in plans' : p.at = 1
     /\ UNCHANGED <<simVars, bt, queueVars, llmVars, deskVars, focus>>
  \/ /\ focus = "plans" /\ TotalsNext /\ snapshots' = {} /\ poll'.polls <= 1
     /\ UNCHANGED <<simVars, bt, queueVars, llmVars, deskVars, focus>>
  \/ focus = "trades" /\ TradesNext /\ UNCHANGED <<simVars, bt, queueVars, llmVars, deskVars, focus>>
  \/ focus = "llm" /\ LLMNext /\ UNCHANGED <<simVars, bt, queueVars, readVars, deskVars, focus>>
  \/ focus = "desk" /\ DeskNext /\ UNCHANGED <<simVars, bt, queueVars, readVars, llmVars, focus>>

(* A caller's goroutine goes on: its request is answered, fails or runs    *)
(* into its timeout, a backoff ends, and an answer is recorded.            *)
CallerMoves(c) ==
  focus = "llm" /\ CallerStep(c) /\ UNCHANGED <<simVars, bt, queueVars, readVars, deskVars, focus>>

Spec == Init /\ [][Next]_vars /\ \A c \in Callers : WF_vars(CallerMoves(c))
===============================================================================
