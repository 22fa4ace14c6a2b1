------------------------------ MODULE MCStorage ------------------------------
(***************************************************************************)
(* The storage side of the trading process: engine persistence, market     *)
(* persistence and configuration sync.  They share the retry queue and     *)
(* nothing else, and a task is dropped in any state of the queue (an error *)
(* that is not transient), so each is explored alone: focus says which.    *)
(***************************************************************************)
EXTENDS EnginePersistence, MarketPersistence, ConfigSync

VARIABLE focus

engineOwn == <<events, held, rows, written, trades, cycles, convs, cache, job, tainted>>

marketOwn == <<moving, live, local, latest, stored, redis, fetch, check, alarm, calm, restarts>>

vars == <<engineOwn, marketOwn, configVars, slots, focus>>

Init ==
  /\ EngineInit /\ MarketInit /\ ConfigInit
  /\ focus \in {"engine", "market", "config"}
  /\ focus # "market" => moving = Coins

EngineMoves(A) == focus = "engine" /\ A /\ UNCHANGED <<marketOwn, configVars, focus>>

MarketMoves(A) == focus = "market" /\ A /\ UNCHANGED <<engineOwn, configVars, focus>>

Next ==
  \/ EngineMoves(EngineNext)
  \/ MarketMoves(MarketNext)
  \/ focus = "config" /\ ConfigNext /\ UNCHANGED <<engineOwn, marketOwn, slots, focus>>

(* The goroutine of a slot attempts its task until it succeeds or runs out *)
(* of attempts: Queue.run loops on a timer and has no other exit.          *)
Retry(i) == EngineMoves(EngineRetry(i)) \/ MarketMoves(MarketRetry(i))

Spec == Init /\ [][Next]_vars /\ \A i \in Slot : WF_vars(Retry(i))
===============================================================================
