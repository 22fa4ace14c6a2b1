----------------------------- MODULE TraderRuntime -----------------------------
(***************************************************************************)
(* The run state and the hard risk state of one trader: the VirtualTrader  *)
(* kept in memory by every Manager that registered it, its row of          *)
(* trader_runtime_state, and the ControlPlane of the API server, which     *)
(* changes the row and nothing else.  Each Manager drives one goroutine    *)
(* (the trading loop, or the command worker inside the API process); every *)
(* database and exchange call is a step of its own.                        *)
(*                                                                         *)
(* Positions are left to PositionBook: here an open is the sequence of     *)
(* checks, account sync, checks again and submission, and any other reason *)
(* to reject it is a nondeterministic choice.  Time is a tick count from 1,*)
(* UTC dates are day numbers, 0 stands for the zero time and for "".       *)
(***************************************************************************)
EXTENDS Integers

CONSTANTS
  Managers,         \* Manager instances that registered the trader
  LoopManagers,     \* those of cmd/llm; the others are command workers of the API process
  AutoStart,        \* TraderConfig.AutoStart
  MaxDailyLossUSD,  \* RiskParams.MaxDailyLossUSD; 0 means no limit
  MaxDailyLossPct,  \* RiskParams.MaxDailyLossPct; 0 means no limit
  Equities,         \* account values GetAccountState may report; 0 when it is unreadable
  Controls,         \* control actions operators use
  ReadsFail,        \* whether GetState may fail
  PauseLength,      \* length of a timed pause in ticks
  DayLength,        \* ticks of a day
  MaxTime           \* bound on the clock

ASSUME RuntimeAssumption ==
  /\ LoopManagers \subseteq Managers
  /\ AutoStart \in BOOLEAN /\ ReadsFail \in BOOLEAN
  /\ MaxDailyLossUSD \in Nat /\ MaxDailyLossPct \in Nat
  /\ Equities \subseteq Nat
  /\ Controls \subseteq {"start", "stop", "pause", "resume"}
  /\ PauseLength \in Nat \ {0} /\ DayLength \in Nat \ {0} /\ MaxTime \in Nat \ {0}

VARIABLES
  clock,    \* time.Now()
  pc,       \* per manager: where its goroutine is
  trader,   \* per manager: the VirtualTrader
  row,      \* the trader's row of trader_runtime_state
  ctl,      \* the control request being handled
  snap,     \* ControlPlane.states of the trader, or "none"
  tripped   \* history: the row has held a tripped circuit, and no operator has
            \* started or resumed the trader since

vars == <<clock, pc, trader, row, ctl, snap, tripped>>

States == {"running", "paused", "stopped"}

(* DailyRiskState; the date of UpdatedAt is Date in every reachable state. *)
DailyStates == [date : Nat, start : Nat, last : Nat]
NoDaily == [date |-> 0, start |-> 0, last |-> 0]

(* circuit is the date of a blocked RiskCircuitState, 0 when not blocked.  *)
VirtualTraders ==
  [State : States, PauseUntil : Nat, daily : DailyStates, circuit : Nat]
NewTrader ==
  [State |-> "stopped", PauseUntil |-> 0, daily |-> NoDaily, circuit |-> 0]

(* A RuntimePauseDetail is its Until, 0 when it has none.                  *)
NoPause == -1
Details == [pause : Nat \cup {NoPause}, daily : DailyStates, circuit : Nat]
NoDetail == [pause |-> NoPause, daily |-> NoDaily, circuit |-> 0]

Rows == [exists : BOOLEAN, isRunning : BOOLEAN, detail : Details]
NoRow == [exists |-> FALSE, isRunning |-> FALSE, detail |-> NoDetail]

(* Points of a Manager's goroutine: the ones in Saves are inside           *)
(* persistRuntimeState.                                                    *)
Saves == {"register", "trip", "presave", "record", "endsave"}
PCs == Saves \cup {"down", "idle", "decide", "sync", "recheck", "submit", "endsync"}

Requests == [pc : {"idle", "read", "write"}, state : States, until : Nat, detail : Details]
NoRequest == [pc |-> "idle", state |-> "stopped", until |-> 0, detail |-> NoDetail]

Today == clock \div DayLength + 1

-------------------------------------------------------------------------------
(* Daily loss limit and circuit breaker.                                   *)

(* loss > positiveMin(USD limit, start * percent): past the smaller of the *)
(* positive limits.                                                        *)
PastLimit(start, loss) ==
  \/ MaxDailyLossUSD > 0 /\ loss > MaxDailyLossUSD
  \/ MaxDailyLossPct > 0 /\ 100 * loss > start * MaxDailyLossPct

(* enforceDailyLossLimit fails.  A state of another day compares the       *)
(* current equity with itself.                                             *)
DailyLossExceeded(d) ==
  /\ d.date = Today
  /\ d.start > 0 /\ d.last > 0
  /\ d.start > d.last
  /\ PastLimit(d.start, d.start - d.last)

(* Mutant of updateDailyRiskState: every sync starts a new baseline.       *)
updateDailyRiskStateAlways(prev, equity) ==
  IF equity = 0 THEN prev ELSE [date |-> Today, start |-> equity, last |-> equity]

updateDailyRiskState(prev, equity) ==
  IF equity = 0 THEN prev
  ELSE IF prev.date # Today \/ prev.start = 0
         THEN [date |-> Today, start |-> equity, last |-> equity]
         ELSE [prev EXCEPT !.last = equity]

clearStaleRiskCircuit(circuit, d) ==
  IF d.date # 0 /\ circuit # d.date THEN 0 ELSE circuit

(* Mutant of tripRiskCircuitBreaker: the trader is put in the error state, *)
(* which no code handles.                                                  *)
tripRiskCircuitBreakerError(t) ==
  [t EXCEPT !.State = "error", !.PauseUntil = 0,
            !.circuit = IF t.daily.date # 0 THEN t.daily.date ELSE Today]

tripRiskCircuitBreaker(t) ==
  [t EXCEPT !.State = "paused", !.PauseUntil = 0,
            !.circuit = IF t.daily.date # 0 THEN t.daily.date ELSE Today]

-------------------------------------------------------------------------------
(* The row written and read.                                               *)

buildRuntimeStateDetail(t) ==
  [pause   |-> IF t.circuit # 0 THEN 0
               ELSE IF t.PauseUntil > clock THEN t.PauseUntil ELSE NoPause,
   daily   |-> t.daily,
   circuit |-> t.circuit]

runtimeRecord(t) ==
  [exists |-> TRUE, isRunning |-> t.State = "running", detail |-> buildRuntimeStateDetail(t)]

(* The state a row stands for, to hydrateTraderFromState and to            *)
(* ControlPlane.currentState.                                              *)
StateOf(r) ==
  IF r.detail.circuit # 0 \/ r.detail.pause = 0 \/ r.detail.pause > clock THEN "paused"
  ELSE IF r.isRunning THEN "running" ELSE "stopped"

hydrateTraderFromState(r) ==
  [State      |-> StateOf(r),
   PauseUntil |-> IF r.detail.pause > 0 THEN r.detail.pause ELSE 0,
   daily      |-> r.detail.daily,
   circuit    |-> r.detail.circuit]

Start(t) ==
  IF t.State = "running" THEN t ELSE [t EXCEPT !.State = "running", !.circuit = 0]

-------------------------------------------------------------------------------
(* A Manager's goroutine.                                                  *)

Init ==
  /\ clock = 1
  /\ pc = [m \in Managers |-> "down"]
  /\ trader = [m \in Managers |-> NewTrader]
  /\ row = NoRow
  /\ ctl = NoRequest
  /\ snap = "none"
  /\ tripped = FALSE

Goto(m, p) == pc' = [pc EXCEPT ![m] = p]

(* Mutant of Hydrate: the configuration's AutoStart overrules the row.     *)
HydrateAutoStart(m) ==
  /\ pc[m] = "down"
  /\ row.exists
  /\ LET t == hydrateTraderFromState(row) IN
       trader' = [trader EXCEPT ![m] = IF row.isRunning \/ AutoStart THEN Start(t) ELSE t]
  /\ Goto(m, "register")
  /\ UNCHANGED <<clock, row, ctl, snap, tripped>>

(* RegisterTrader at process start, up to its persistRuntimeState: the row *)
(* was read and decides whether the trader is started.                     *)
Hydrate(m) ==
  /\ pc[m] = "down"
  /\ row.exists
  /\ LET t == hydrateTraderFromState(row) IN
       trader' = [trader EXCEPT ![m] = IF row.isRunning THEN Start(t) ELSE t]
  /\ Goto(m, "register")
  /\ UNCHANGED <<clock, row, ctl, snap, tripped>>

(* RegisterTrader when there is no row or it could not be read: a new      *)
(* trader, started if the configuration says so.                           *)
RegisterUnhydrated(m) ==
  /\ pc[m] = "down"
  /\ ~row.exists \/ ReadsFail
  /\ trader' = [trader EXCEPT ![m] = IF AutoStart THEN Start(NewTrader) ELSE NewTrader]
  /\ Goto(m, "register")
  /\ UNCHANGED <<clock, row, ctl, snap, tripped>>

AfterSave == [register |-> "idle", trip |-> "decide", presave |-> "recheck",
              record |-> "endsync", endsave |-> "idle"]

(* persistRuntimeState replaces the whole row.                             *)
Save(m) ==
  /\ pc[m] \in Saves
  /\ row' = runtimeRecord(trader[m])
  /\ tripped' = (tripped \/ trader[m].circuit # 0)
  /\ Goto(m, AfterSave[pc[m]])
  /\ UNCHANGED <<clock, trader, ctl, snap>>

(* Its error is only logged.                                               *)
SaveFails(m) ==
  /\ pc[m] \in Saves
  /\ Goto(m, AfterSave[pc[m]])
  /\ UNCHANGED <<clock, trader, row, ctl, snap, tripped>>

(* IsActive and ShouldMakeDecision; the decision interval is left open.    *)
ShouldMakeDecision(t) == t.State = "running" /\ t.PauseUntil <= clock

BeginCycle(m) ==
  /\ m \in LoopManagers
  /\ pc[m] = "idle"
  /\ ShouldMakeDecision(trader[m])
  /\ Goto(m, "decide")
  /\ UNCHANGED <<clock, trader, row, ctl, snap, tripped>>

(* The Sharpe gate ends the cycle at once, without saving.                 *)
SharpeGate(m) ==
  /\ m \in LoopManagers
  /\ pc[m] = "idle"
  /\ ShouldMakeDecision(trader[m])
  /\ trader' = [trader EXCEPT ![m].PauseUntil = clock + PauseLength]
  /\ UNCHANGED <<clock, pc, row, ctl, snap, tripped>>

(* The command worker executes a decision whatever the trader's state is.  *)
BeginCommand(m) ==
  /\ m \notin LoopManagers
  /\ pc[m] = "idle"
  /\ Goto(m, "decide")
  /\ UNCHANGED <<clock, trader, row, ctl, snap, tripped>>

(* ApproveDecision of an open, and again after the sync: enforceOpenRisk   *)
(* passes, or trips the circuit breaker.                                   *)
PassRisk(m, from, to) ==
  /\ pc[m] = from
  /\ ~DailyLossExceeded(trader[m].daily)
  /\ Goto(m, to)
  /\ UNCHANGED <<clock, trader, row, ctl, snap, tripped>>

Trip(m, from) ==
  /\ pc[m] = from
  /\ DailyLossExceeded(trader[m].daily)
  /\ trader' = [trader EXCEPT ![m] = tripRiskCircuitBreaker(@)]
  /\ Goto(m, "trip")
  /\ UNCHANGED <<clock, row, ctl, snap, tripped>>

ApproveOpen(m) == PassRisk(m, "decide", "sync")
TripAtApproval(m) == Trip(m, "decide")

(* Mutant of Recheck: the approval from before the sync is trusted.        *)
RecheckTrusting(m) ==
  /\ pc[m] = "recheck"
  /\ Goto(m, "submit")
  /\ UNCHANGED <<clock, trader, row, ctl, snap, tripped>>

Recheck(m) == PassRisk(m, "recheck", "submit")
TripAtRecheck(m) == Trip(m, "recheck")

(* SyncTraderPositions up to its persistRuntimeState, before an open and   *)
(* at the end of a cycle.                                                  *)
SyncAccount(m, from, to) ==
  /\ pc[m] = from
  /\ \E equity \in Equities :
       LET d == updateDailyRiskState(trader[m].daily, equity) IN
       trader' = [trader EXCEPT ![m].daily = d,
                                ![m].circuit = clearStaleRiskCircuit(@, d)]
  /\ Goto(m, to)
  /\ UNCHANGED <<clock, row, ctl, snap, tripped>>

SyncBeforeOpen(m) == SyncAccount(m, "sync", "presave")
SyncAfterCycle(m) == SyncAccount(m, "endsync", "endsave")

(* GetAccountState failed.                                                 *)
SyncError(m) ==
  /\ \/ pc[m] = "sync" /\ Goto(m, "decide")
     \/ pc[m] = "endsync" /\ Goto(m, "idle")
  /\ UNCHANGED <<clock, trader, row, ctl, snap, tripped>>

(* The open was submitted, or rejected for a reason outside this module.   *)
OpenDone(m) ==
  /\ pc[m] \in {"recheck", "submit"}
  /\ Goto(m, "decide")
  /\ UNCHANGED <<clock, trader, row, ctl, snap, tripped>>

(* No decision is left: the loop goes on to save and sync.                 *)
EndDecisions(m) ==
  /\ pc[m] = "decide"
  /\ Goto(m, IF m \in LoopManagers THEN "record" ELSE "idle")
  /\ UNCHANGED <<clock, trader, row, ctl, snap, tripped>>

(* The trading-loop process dies; memory is lost.                          *)
Crash(m) ==
  /\ m \in LoopManagers
  /\ pc[m] # "down"
  /\ Goto(m, "down")
  /\ trader' = [trader EXCEPT ![m] = NewTrader]
  /\ UNCHANGED <<clock, row, ctl, snap, tripped>>

(* The API process dies, its control plane and command workers with it.    *)
APICrash ==
  /\ pc' = [m \in Managers |-> IF m \in LoopManagers THEN pc[m] ELSE "down"]
  /\ trader' = [m \in Managers |-> IF m \in LoopManagers THEN trader[m] ELSE NewTrader]
  /\ ctl' = NoRequest
  /\ snap' = "none"
  /\ UNCHANGED <<clock, row, tripped>>

-------------------------------------------------------------------------------
(* ControlPlane.Handle.                                                    *)

Target == [start |-> "running", resume |-> "running", stop |-> "stopped", pause |-> "paused"]

(* currentState: the snapshot in memory if there is one, else the row.     *)
CurrentStates ==
  IF snap # "none" THEN {snap}
  ELSE {StateOf(row)} \cup (IF ReadsFail THEN {"stopped"} ELSE {})

(* Handle up to persistState; a stopped trader is not paused or resumed.   *)
HandleControl(a, until) ==
  /\ ctl.pc = "idle"
  /\ \E current \in CurrentStates :
       current = "stopped" => a \in {"start", "stop"}
  /\ ctl' = [NoRequest EXCEPT !.pc = "read", !.state = Target[a],
                              !.until = IF a = "pause" THEN until ELSE 0]
  /\ UNCHANGED <<clock, pc, trader, row, snap, tripped>>

(* persistState reads the row ...                                          *)
ControlRead ==
  /\ ctl.pc = "read"
  /\ ctl' = [ctl EXCEPT !.pc = "write", !.detail = row.detail]
  /\ UNCHANGED <<clock, pc, trader, row, snap, tripped>>

(* Mutant of controlRecord: a started trader keeps its circuit.            *)
controlRecordKeepingCircuit ==
  [exists |-> TRUE, isRunning |-> ctl.state = "running",
   detail |-> [ctl.detail EXCEPT !.pause = IF ctl.state = "paused" THEN ctl.until ELSE NoPause]]

controlRecord ==
  [exists |-> TRUE, isRunning |-> ctl.state = "running",
   detail |-> [ctl.detail EXCEPT
     !.pause   = IF ctl.state = "paused" THEN ctl.until ELSE NoPause,
     !.circuit = IF ctl.state = "running" THEN 0 ELSE @]]

(* ... and writes it back with the new state.  The snapshot is kept only   *)
(* when the write was answered.                                            *)
ControlWrite ==
  /\ ctl.pc = "write"
  /\ row' = controlRecord
  /\ snap' \in {snap, ctl.state}
  /\ ctl' = NoRequest
  /\ tripped' = (tripped /\ ctl.state # "running")
  /\ UNCHANGED <<clock, pc, trader>>

ControlFails ==
  /\ ctl.pc = "write" \/ (ctl.pc = "read" /\ ReadsFail)
  /\ ctl' = NoRequest
  /\ UNCHANGED <<clock, pc, trader, row, snap, tripped>>

-------------------------------------------------------------------------------

Tick ==
  /\ clock < MaxTime
  /\ clock' = clock + 1
  /\ UNCHANGED <<pc, trader, row, ctl, snap, tripped>>

Next ==
  \/ \E m \in Managers :
       \/ Hydrate(m) \/ RegisterUnhydrated(m) \/ Save(m) \/ SaveFails(m)
       \/ BeginCycle(m) \/ SharpeGate(m) \/ BeginCommand(m)
       \/ ApproveOpen(m) \/ TripAtApproval(m) \/ SyncBeforeOpen(m) \/ SyncError(m)
       \/ Recheck(m) \/ TripAtRecheck(m) \/ OpenDone(m) \/ EndDecisions(m)
       \/ SyncAfterCycle(m) \/ Crash(m)
  \/ APICrash
  \/ \E a \in Controls, until \in {0, clock + PauseLength} : HandleControl(a, until)
  \/ ControlRead \/ ControlWrite \/ ControlFails
  \/ Tick

Spec == Init /\ [][Next]_vars

-------------------------------------------------------------------------------
(* Properties.                                                             *)

(* Type correctness of the trader's copies in memory, in the database and  *)
(* in the control plane.                                                   *)
TypeOK ==
  /\ clock \in Nat \ {0}
  /\ pc \in [Managers -> PCs]
  /\ trader \in [Managers -> VirtualTraders]
  /\ row \in Rows
  /\ ctl \in Requests
  /\ snap \in States \cup {"none"}
  /\ tripped \in BOOLEAN

(* A tripped circuit and a running trader never coexist, neither in memory *)
(* nor in a row: whatever mix of restarts, failed reads, failed saves and  *)
(* control requests the row went through, a Manager that starts from it    *)
(* does not run a trader whose circuit is blocked (RegisterTrader starts   *)
(* on IsRunning alone).                                                    *)
PausedWhileTripped ==
  /\ \A m \in Managers : trader[m].circuit # 0 => trader[m].State = "paused"
  /\ row.detail.circuit # 0 => ~row.isRunning

(* An opening order leaves a Manager only while the loss it measured in    *)
(* the account sync just before, against its own baseline of the day, is   *)
(* within the limit (enforceOpenRisk is repeated after the sync).          *)
OpensWithinLoss ==
  \A m \in Managers : pc[m] = "submit" => ~DailyLossExceeded(trader[m].daily)

(* Once a tripped circuit has reached the database the trader does not run *)
(* again, in the trading loop or after its restart, until an operator      *)
(* starts or resumes it: not by a control request that had read the row    *)
(* before, nor by the next day's sync, which clears the circuit.  Holds    *)
(* for one trading loop without command worker and readable rows.          *)
TripNeedsOperator ==
  tripped =>
    /\ ~row.isRunning
    /\ \A m \in LoopManagers : trader[m].State # "running"

(* All copies of a day's equity baseline agree: in memory, in the row and  *)
(* in a control request about to write the row back.  So a baseline that   *)
(* was saved is the one the daily loss is measured against after a restart *)
(* or an operator's action (updateDailyRiskState keeps the baseline it is  *)
(* handed).  Holds for one trading loop and readable rows.                 *)
OneBaselinePerDay ==
  LET copies == {trader[m].daily : m \in Managers} \cup {row.detail.daily, ctl.detail.daily}
  IN \A c, d \in copies : c.date = d.date => c.start = d.start

===============================================================================
