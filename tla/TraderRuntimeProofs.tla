-------------------------- MODULE TraderRuntimeProofs --------------------------
(* Proofs of the invariants of TraderRuntime, for every set of Managers,   *)
(* every loss limit, every account value and every mix of failures.        *)
EXTENDS TraderRuntime, TLAPS

(* Integer division is monotone: days do not run backwards.                *)
LEMMA DivisionMonotone ==
  ASSUME NEW a \in Nat, NEW d \in Nat \ {0}
  PROVE  a \div d \in Nat /\ a \div d <= (a + 1) \div d
<1> DEFINE q == a \div d
           r == a % d
           p == (a + 1) \div d
           s == (a + 1) % d
<1>1. /\ q \in Int /\ p \in Int
      /\ a = d * q + r /\ a + 1 = d * p + s
      /\ 0 <= r /\ r < d /\ 0 <= s /\ s < d
  OBVIOUS
<1> HIDE DEF q, r, p, s
<1>2. r \in Int /\ s \in Int
  BY <1>1 DEF r, s
<1>3. ASSUME p < q PROVE FALSE
  <2>1. d * (q - p) >= d
    BY <1>1, <1>3
  <2> QED BY <1>1, <1>2, <2>1
<1>4. ASSUME q < 0 PROVE FALSE
  <2>1. d * (0 - q) >= d
    BY <1>1, <1>4
  <2> QED BY <1>1, <1>2, <2>1
<1> QED BY <1>1, <1>3, <1>4 DEF q, p

(* The date is a positive day number and never decreases.                  *)
LEMMA TodayAdvances ==
  ASSUME TypeOK
  PROVE  /\ Today \in Nat \ {0}
         /\ Tick => Today' \in Nat /\ Today <= Today'
<1>1. clock \in Nat /\ DayLength \in Nat \ {0}
  BY RuntimeAssumption DEF TypeOK
<1>2. clock \div DayLength \in Nat /\ clock \div DayLength <= (clock + 1) \div DayLength
  BY <1>1, DivisionMonotone
<1>3. (clock + 1) \div DayLength \in Nat
  BY <1>1, DivisionMonotone
<1> QED BY <1>2, <1>3 DEF Today, Tick

-------------------------------------------------------------------------------

(* No copy of the daily risk state is dated in the future: what makes a    *)
(* loss that was within the limit stay so when the day changes.            *)
DatesPast ==
  /\ \A m \in Managers : trader[m].daily.date <= Today
  /\ row.detail.daily.date <= Today
  /\ ctl.detail.daily.date <= Today

RuntimeInv == TypeOK /\ PausedWhileTripped /\ OpensWithinLoss /\ DatesPast

(* Steps of a Manager's goroutine that move its control point only.        *)
MoveTo(m, p) ==
  /\ p # "submit" \/ ~DailyLossExceeded(trader[m].daily)
  /\ p \in PCs
  /\ Goto(m, p)
  /\ UNCHANGED <<clock, trader, row, ctl, snap, tripped>>

(* Moving the control point preserves the invariant.                       *)
LEMMA MovePreservesInv ==
  ASSUME RuntimeInv, NEW m \in Managers, NEW p, MoveTo(m, p)
  PROVE  RuntimeInv'
<1> USE DEF MoveTo, Goto
<1>1. TypeOK'
  BY DEF RuntimeInv, TypeOK
<1>2. PausedWhileTripped'
  BY DEF RuntimeInv, PausedWhileTripped
<1>3. OpensWithinLoss'
  BY DEF RuntimeInv, TypeOK, OpensWithinLoss, DailyLossExceeded, Today
<1>4. DatesPast'
  BY DEF RuntimeInv, DatesPast, Today
<1> QED BY <1>1, <1>2, <1>3, <1>4 DEF RuntimeInv

(* Steps that replace a Manager's trader by t and go to p, which is not    *)
(* the point of submission.                                                *)
Becomes(m, t, p) ==
  /\ t \in VirtualTraders
  /\ t.circuit # 0 => t.State = "paused"
  /\ t.daily.date <= Today
  /\ p \in PCs \ {"submit"}
  /\ trader' = [trader EXCEPT ![m] = t]
  /\ Goto(m, p)
  /\ UNCHANGED <<clock, row, ctl, snap, tripped>>

(* So does replacing the trader by one that is well formed, not running    *)
(* while tripped and not dated in the future.                              *)
LEMMA BecomesPreservesInv ==
  ASSUME RuntimeInv, NEW m \in Managers, NEW t, NEW p, Becomes(m, t, p)
  PROVE  RuntimeInv'
<1> USE DEF Becomes, Goto
<1>1. TypeOK'
  BY DEF RuntimeInv, TypeOK
<1>2. PausedWhileTripped'
  BY DEF RuntimeInv, TypeOK, PausedWhileTripped
<1>3. OpensWithinLoss'
  BY DEF RuntimeInv, TypeOK, OpensWithinLoss, DailyLossExceeded, Today
<1>4. DatesPast'
  BY DEF RuntimeInv, TypeOK, DatesPast, Today
<1> QED BY <1>1, <1>2, <1>3, <1>4 DEF RuntimeInv

(* A row is hydrated into a well-formed trader, started or not.            *)
LEMMA HydratedTrader ==
  ASSUME RuntimeInv
  PROVE  LET h == hydrateTraderFromState(row)
             t == IF row.isRunning THEN Start(h) ELSE h
         IN /\ t \in VirtualTraders
            /\ t.circuit # 0 => t.State = "paused"
            /\ t.daily = row.detail.daily
            /\ ~row.isRunning => t.State # "running"
<1>1. /\ row.isRunning \in BOOLEAN
      /\ row.detail \in Details /\ clock \in Nat
      /\ row.detail.circuit # 0 => ~row.isRunning
  BY DEF RuntimeInv, TypeOK, Rows, PausedWhileTripped
<1> DEFINE h == hydrateTraderFromState(row)
<1>2. /\ h \in VirtualTraders
      /\ h.circuit = row.detail.circuit
      /\ h.daily = row.detail.daily
      /\ h.State = StateOf(row)
  BY <1>1 DEF hydrateTraderFromState, VirtualTraders, Details, StateOf, States, NoPause
<1>3. /\ row.detail.circuit # 0 => StateOf(row) = "paused"
      /\ ~row.isRunning => StateOf(row) # "running"
  BY DEF StateOf
<1> HIDE DEF h
<1>4. CASE row.isRunning
  <2>1. Start(h) \in VirtualTraders /\ Start(h).circuit = 0 /\ Start(h).daily = h.daily
    BY <1>1, <1>2, <1>4 DEF Start, VirtualTraders, States
  <2> QED BY <1>2, <1>4, <2>1 DEF h
<1>5. CASE ~row.isRunning
  BY <1>2, <1>3, <1>5 DEF h
<1> QED BY <1>4, <1>5, <1>1

(* What RegisterTrader creates, started or not.                            *)
LEMMA NewTraderType ==
  /\ NewTrader \in VirtualTraders /\ NewTrader.circuit = 0
  /\ NewTrader.daily = NoDaily /\ NewTrader.State = "stopped"
  /\ Start(NewTrader) \in VirtualTraders /\ Start(NewTrader).circuit = 0
  /\ Start(NewTrader).daily = NoDaily
BY DEF NewTrader, VirtualTraders, States, DailyStates, NoDaily, Start

(* What a sync and a trip make of a trader.                                *)
LEMMA SyncedTrader ==
  ASSUME TypeOK, NEW t \in VirtualTraders, NEW equity \in Nat,
         t.daily.date <= Today, t.circuit # 0 => t.State = "paused"
  PROVE  LET d == updateDailyRiskState(t.daily, equity)
             u == [t EXCEPT !.daily = d, !.circuit = clearStaleRiskCircuit(t.circuit, d)]
         IN /\ u \in VirtualTraders
            /\ u.daily = d
            /\ u.circuit # 0 => u.State = "paused"
            /\ u.State = t.State
            /\ d.date <= Today
            /\ d = t.daily \/ d.date = Today
            /\ t.daily.date = Today /\ t.daily.start # 0 => d.start = t.daily.start
            /\ d.start = 0 => d = t.daily
<1>1. Today \in Nat \ {0}
  BY TodayAdvances
<1> DEFINE d == updateDailyRiskState(t.daily, equity)
<1>2. /\ d \in DailyStates
      /\ d.date <= Today
      /\ d = t.daily \/ d.date = Today
      /\ t.daily.date = Today /\ t.daily.start # 0 => d.start = t.daily.start
      /\ d.start = 0 => d = t.daily
  BY <1>1 DEF updateDailyRiskState, VirtualTraders, DailyStates
<1>3. /\ clearStaleRiskCircuit(t.circuit, d) \in Nat
      /\ clearStaleRiskCircuit(t.circuit, d) # 0 => t.circuit # 0
  BY DEF clearStaleRiskCircuit, VirtualTraders
<1> QED BY <1>2, <1>3 DEF VirtualTraders

(* What tripRiskCircuitBreaker leaves.                                     *)
LEMMA TrippedTrader ==
  ASSUME TypeOK, NEW t \in VirtualTraders
  PROVE  LET u == tripRiskCircuitBreaker(t)
         IN /\ u \in VirtualTraders
            /\ u.State = "paused"
            /\ u.daily = t.daily
<1>1. Today \in Nat
  BY TodayAdvances
<1> QED BY <1>1 DEF tripRiskCircuitBreaker, VirtualTraders, States, DailyStates

(* Hydration and registration, a trip, a sync and a crash are all of the   *)
(* form Becomes; the remaining steps of the goroutine but Save move only.  *)
LEMMA ManagerStepForms ==
  ASSUME RuntimeInv, NEW m \in Managers
  PROVE  /\ Hydrate(m) => \E t, p : Becomes(m, t, p)
         /\ RegisterUnhydrated(m) => \E t, p : Becomes(m, t, p)
         /\ SharpeGate(m) => \E t, p : Becomes(m, t, p)
         /\ TripAtApproval(m) \/ TripAtRecheck(m) => \E t, p : Becomes(m, t, p)
         /\ SyncBeforeOpen(m) \/ SyncAfterCycle(m) => \E t, p : Becomes(m, t, p)
         /\ Crash(m) => \E t, p : Becomes(m, t, p)
         /\ \/ SaveFails(m) \/ BeginCycle(m) \/ BeginCommand(m) \/ ApproveOpen(m)
            \/ SyncError(m) \/ Recheck(m) \/ OpenDone(m) \/ EndDecisions(m)
            => \E p : MoveTo(m, p)
<1>1. /\ TypeOK
      /\ trader[m] \in VirtualTraders
      /\ trader \in [Managers -> VirtualTraders]
      /\ pc[m] \in PCs
      /\ trader[m].daily.date <= Today
      /\ trader[m].circuit # 0 => trader[m].State = "paused"
      /\ row.detail.daily.date <= Today
      /\ clock \in Nat
  BY DEF RuntimeInv, TypeOK, DatesPast, PausedWhileTripped
<1>2. Today \in Nat \ {0}
  BY <1>1, TodayAdvances
<1>3. {"register", "trip", "presave", "endsave", "down", "idle"} \subseteq PCs \ {"submit"}
  BY DEF PCs, Saves
<1>4. ASSUME Hydrate(m) PROVE \E t, p : Becomes(m, t, p)
  <2> DEFINE h == hydrateTraderFromState(row)
             t == IF row.isRunning THEN Start(h) ELSE h
  <2>1. /\ t \in VirtualTraders
        /\ t.circuit # 0 => t.State = "paused"
        /\ t.daily = row.detail.daily
    BY HydratedTrader
  <2>2. trader' = [trader EXCEPT ![m] = t]
    BY <1>4 DEF Hydrate
  <2> HIDE DEF t
  <2>3. Becomes(m, t, "register")
    BY <1>1, <1>3, <1>4, <2>1, <2>2 DEF Becomes, Hydrate
  <2> QED BY <2>3
<1>5. ASSUME RegisterUnhydrated(m) PROVE \E t, p : Becomes(m, t, p)
  <2> DEFINE t == IF AutoStart THEN Start(NewTrader) ELSE NewTrader
  <2>1. t \in VirtualTraders /\ t.circuit = 0 /\ t.daily = NoDaily
    BY NewTraderType
  <2>2. trader' = [trader EXCEPT ![m] = t]
    BY <1>5 DEF RegisterUnhydrated
  <2>3. t.daily.date <= Today
    <3>1. NoDaily.date = 0
      BY DEF NoDaily
    <3> QED BY <1>2, <2>1, <3>1
  <2> HIDE DEF t
  <2>4. Becomes(m, t, "register")
    BY <1>3, <1>5, <2>1, <2>2, <2>3 DEF Becomes, RegisterUnhydrated
  <2> QED BY <2>4
<1>6. ASSUME SharpeGate(m) PROVE \E t, p : Becomes(m, t, p)
  <2> DEFINE t == [trader[m] EXCEPT !.PauseUntil = clock + PauseLength]
  <2>1. /\ t \in VirtualTraders /\ t.circuit = trader[m].circuit
        /\ t.State = trader[m].State /\ t.daily = trader[m].daily
    BY <1>1, RuntimeAssumption DEF VirtualTraders
  <2>2. trader' = [trader EXCEPT ![m] = t] /\ pc' = [pc EXCEPT ![m] = "idle"]
    BY <1>1, <1>6 DEF SharpeGate, TypeOK
  <2> HIDE DEF t
  <2>3. Becomes(m, t, "idle")
    BY <1>1, <1>3, <1>6, <2>1, <2>2 DEF Becomes, SharpeGate, Goto
  <2> QED BY <2>3
<1>7. ASSUME TripAtApproval(m) \/ TripAtRecheck(m) PROVE \E t, p : Becomes(m, t, p)
  <2> DEFINE t == tripRiskCircuitBreaker(trader[m])
  <2>1. t \in VirtualTraders /\ t.State = "paused" /\ t.daily = trader[m].daily
    BY <1>1, TrippedTrader
  <2>2. trader' = [trader EXCEPT ![m] = t]
    BY <1>1, <1>7 DEF TripAtApproval, TripAtRecheck, Trip
  <2> HIDE DEF t
  <2>3. Becomes(m, t, "trip")
    BY <1>1, <1>3, <1>7, <2>1, <2>2 DEF Becomes, TripAtApproval, TripAtRecheck, Trip
  <2> QED BY <2>3
<1>8. ASSUME SyncBeforeOpen(m) \/ SyncAfterCycle(m) PROVE \E t, p : Becomes(m, t, p)
  <2>1. PICK p \in {"presave", "endsave"} : \E from : SyncAccount(m, from, p)
    BY <1>8 DEF SyncBeforeOpen, SyncAfterCycle
  <2>2. PICK equity \in Equities :
          LET d == updateDailyRiskState(trader[m].daily, equity) IN
          trader' = [trader EXCEPT ![m].daily = d,
                                   ![m].circuit = clearStaleRiskCircuit(@, d)]
    BY <2>1 DEF SyncAccount
  <2> DEFINE d == updateDailyRiskState(trader[m].daily, equity)
             t == [trader[m] EXCEPT !.daily = d,
                                    !.circuit = clearStaleRiskCircuit(trader[m].circuit, d)]
  <2>3. equity \in Nat
    BY RuntimeAssumption
  <2>4. /\ t \in VirtualTraders
        /\ t.circuit # 0 => t.State = "paused"
        /\ t.daily.date <= Today
    BY <1>1, <2>3, SyncedTrader
  <2>5. trader' = [trader EXCEPT ![m] = t]
    BY <1>1, <2>2 DEF VirtualTraders
  <2> HIDE DEF t
  <2>6. Becomes(m, t, p)
    BY <1>1, <1>3, <2>1, <2>4, <2>5 DEF Becomes, SyncAccount
  <2> QED BY <2>6
<1>9. ASSUME Crash(m) PROVE \E t, p : Becomes(m, t, p)
  <2>1. Becomes(m, NewTrader, "down")
    BY <1>2, <1>3, <1>9, NewTraderType DEF Becomes, Crash, NoDaily
  <2> QED BY <2>1
<1>10. ASSUME \/ SaveFails(m) \/ BeginCycle(m) \/ BeginCommand(m) \/ ApproveOpen(m)
              \/ SyncError(m) \/ Recheck(m) \/ OpenDone(m) \/ EndDecisions(m)
       PROVE  \E p : MoveTo(m, p)
  <2> USE DEF MoveTo
  <2>1. CASE SaveFails(m)
    <3>1. AfterSave[pc[m]] \in PCs \ {"submit"}
      BY <2>1 DEF SaveFails, AfterSave, Saves, PCs
    <3>2. MoveTo(m, AfterSave[pc[m]])
      BY <2>1, <3>1 DEF SaveFails
    <3> QED BY <3>2
  <2>2. CASE BeginCycle(m) \/ BeginCommand(m) \/ OpenDone(m)
    <3>1. MoveTo(m, "decide")
      BY <2>2 DEF BeginCycle, BeginCommand, OpenDone, PCs
    <3> QED BY <3>1
  <2>3. CASE ApproveOpen(m)
    <3>1. MoveTo(m, "sync")
      BY <2>3 DEF ApproveOpen, PassRisk, PCs
    <3> QED BY <3>1
  <2>4. CASE Recheck(m)
    <3>1. MoveTo(m, "submit")
      BY <2>4 DEF Recheck, PassRisk, PCs
    <3> QED BY <3>1
  <2>5. CASE SyncError(m)
    <3>1. MoveTo(m, "decide") \/ MoveTo(m, "idle")
      BY <2>5 DEF SyncError, PCs
    <3> QED BY <3>1
  <2>6. CASE EndDecisions(m)
    <3>1. MoveTo(m, IF m \in LoopManagers THEN "record" ELSE "idle")
      BY <2>6 DEF EndDecisions, PCs, Saves
    <3> QED BY <3>1
  <2> QED BY <1>10, <2>1, <2>2, <2>3, <2>4, <2>5, <2>6
<1> QED BY <1>4, <1>5, <1>6, <1>7, <1>8, <1>9, <1>10

-------------------------------------------------------------------------------

(* No row, no process and no request satisfies the invariant.              *)
LEMMA InitInv == Init => RuntimeInv
<1> SUFFICES ASSUME Init PROVE RuntimeInv
  OBVIOUS
<1>1. TypeOK
  <2>1. clock \in Nat \ {0} /\ pc \in [Managers -> PCs]
    BY DEF Init, PCs
  <2>2. trader \in [Managers -> VirtualTraders]
    BY NewTraderType DEF Init
  <2>3. row \in Rows
    BY DEF Init, Rows, NoRow, Details, NoDetail, DailyStates, NoDaily, NoPause
  <2>4. ctl \in Requests /\ snap \in States \cup {"none"}
    BY DEF Init, Requests, NoRequest, Details, NoDetail, DailyStates, NoDaily, NoPause, States
  <2>5. tripped \in BOOLEAN
    BY DEF Init
  <2> QED BY <2>1, <2>2, <2>3, <2>4, <2>5 DEF TypeOK
<1>2. PausedWhileTripped
  BY NewTraderType DEF Init, PausedWhileTripped, NoRow, NoDetail
<1>3. OpensWithinLoss
  BY DEF Init, OpensWithinLoss
<1>4. DatesPast
  <2>1. Today \in Nat \ {0}
    BY <1>1, TodayAdvances
  <2> QED BY <2>1 DEF Init, DatesPast, NewTrader, NoRow, NoRequest, NoDetail, NoDaily
<1> QED BY <1>1, <1>2, <1>3, <1>4 DEF RuntimeInv

(* Everything but clock, pc and trader: what a step may do to the row, to  *)
(* the control request, to the snapshot and to tripped.                    *)
LEMMA RowStepPreservesInv ==
  ASSUME RuntimeInv, UNCHANGED <<clock, trader>>,
         pc' \in [Managers -> PCs],
         \A m \in Managers : pc'[m] = "submit" => pc[m] = "submit",
         row' \in Rows, ctl' \in Requests, snap' \in States \cup {"none"},
         tripped' \in BOOLEAN,
         row'.detail.circuit # 0 => ~row'.isRunning,
         row'.detail.daily.date <= Today, ctl'.detail.daily.date <= Today
  PROVE  RuntimeInv'
<1>1. TypeOK'
  BY DEF RuntimeInv, TypeOK
<1>2. PausedWhileTripped'
  BY DEF RuntimeInv, PausedWhileTripped
<1>3. OpensWithinLoss'
  BY DEF RuntimeInv, OpensWithinLoss, DailyLossExceeded, Today
<1>4. DatesPast'
  BY DEF RuntimeInv, DatesPast, Today
<1> QED BY <1>1, <1>2, <1>3, <1>4 DEF RuntimeInv

(* The row a Manager saves.                                                *)
LEMMA SavedRow ==
  ASSUME RuntimeInv, NEW m \in Managers
  PROVE  /\ runtimeRecord(trader[m]) \in Rows
         /\ runtimeRecord(trader[m]).exists
         /\ runtimeRecord(trader[m]).isRunning <=> trader[m].State = "running"
         /\ runtimeRecord(trader[m]).detail.circuit = trader[m].circuit
         /\ runtimeRecord(trader[m]).detail.daily = trader[m].daily
<1>1. trader[m] \in VirtualTraders /\ clock \in Nat
  BY DEF RuntimeInv, TypeOK
<1>2. /\ buildRuntimeStateDetail(trader[m]) \in Details
      /\ buildRuntimeStateDetail(trader[m]).circuit = trader[m].circuit
      /\ buildRuntimeStateDetail(trader[m]).daily = trader[m].daily
  BY <1>1 DEF buildRuntimeStateDetail, Details, VirtualTraders
<1> QED BY <1>2 DEF runtimeRecord, Rows

(* The row a control request writes.                                       *)
LEMMA ControlledRow ==
  ASSUME RuntimeInv
  PROVE  /\ controlRecord \in Rows
         /\ controlRecord.exists
         /\ controlRecord.isRunning <=> ctl.state = "running"
         /\ controlRecord.detail.circuit # 0 => ~controlRecord.isRunning
         /\ controlRecord.detail.daily = ctl.detail.daily
<1>1. ctl \in Requests /\ ctl.detail \in Details
  BY DEF RuntimeInv, TypeOK, Requests
<1> QED BY <1>1 DEF controlRecord, Rows, Details, Requests

(* The idle control request is well formed.                                *)
LEMMA NoRequestType ==
  NoRequest \in Requests /\ NoRequest.detail.daily = NoDaily /\ NoDaily.date = 0
BY DEF NoRequest, Requests, States, Details, NoDetail, DailyStates, NoDaily, NoPause

(* Every step of Managers, operators and clock preserves the invariant.    *)
LEMMA NextPreservesInv == RuntimeInv /\ [Next]_vars => RuntimeInv'
<1> SUFFICES ASSUME RuntimeInv, [Next]_vars PROVE RuntimeInv'
  OBVIOUS
<1>1. /\ TypeOK
      /\ pc \in [Managers -> PCs] /\ row \in Rows /\ ctl \in Requests
      /\ row.detail \in Details
      /\ snap \in States \cup {"none"}
      /\ tripped \in BOOLEAN
      /\ row.detail.circuit # 0 => ~row.isRunning
      /\ row.detail.daily.date <= Today /\ ctl.detail.daily.date <= Today
  BY DEF RuntimeInv, TypeOK, Rows, DatesPast, PausedWhileTripped
<1>2. Today \in Nat \ {0}
  BY <1>1, TodayAdvances
<1>3. ASSUME NEW m \in Managers,
             \/ Hydrate(m) \/ RegisterUnhydrated(m) \/ SaveFails(m)
             \/ BeginCycle(m) \/ SharpeGate(m) \/ BeginCommand(m)
             \/ ApproveOpen(m) \/ TripAtApproval(m) \/ SyncBeforeOpen(m) \/ SyncError(m)
             \/ Recheck(m) \/ TripAtRecheck(m) \/ OpenDone(m) \/ EndDecisions(m)
             \/ SyncAfterCycle(m) \/ Crash(m)
      PROVE  RuntimeInv'
  <2>1. (\E t, p : Becomes(m, t, p)) \/ (\E p : MoveTo(m, p))
    BY <1>3, ManagerStepForms
  <2> QED BY <2>1, MovePreservesInv, BecomesPreservesInv
<1>4. ASSUME NEW m \in Managers, Save(m) PROVE RuntimeInv'
  <2>1. /\ pc' \in [Managers -> PCs]
        /\ \A n \in Managers : pc'[n] = "submit" => pc[n] = "submit"
    <3>1. AfterSave[pc[m]] \in PCs \ {"submit"}
      BY <1>4 DEF Save, AfterSave, Saves, PCs
    <3> QED BY <1>1, <1>4, <3>1 DEF Save, Goto
  <2>2. /\ row' \in Rows
        /\ row'.detail.circuit # 0 => ~row'.isRunning
        /\ row'.detail.daily.date <= Today
    BY <1>4, SavedRow DEF Save, RuntimeInv, PausedWhileTripped, DatesPast
  <2>3. tripped' \in BOOLEAN
    BY <1>1, <1>4 DEF Save
  <2> QED BY <1>1, <1>4, <2>1, <2>2, <2>3, RowStepPreservesInv DEF Save
<1>5. CASE APICrash
  <2>1. TypeOK'
    BY <1>1, <1>5, NewTraderType, NoRequestType DEF APICrash, TypeOK, PCs
  <2>2. PausedWhileTripped'
    BY <1>5, NewTraderType DEF APICrash, RuntimeInv, PausedWhileTripped
  <2>3. OpensWithinLoss'
    BY <1>5 DEF APICrash, RuntimeInv, OpensWithinLoss, DailyLossExceeded, Today
  <2>4. DatesPast'
    <3>1. ctl'.detail.daily.date = 0
      BY <1>5, NoRequestType DEF APICrash
    <3>2. NewTrader.daily.date = 0
      BY NewTraderType, NoRequestType
    <3>3. Today' = Today
      BY <1>5 DEF APICrash, Today
    <3> QED BY <1>2, <1>5, <3>1, <3>2, <3>3 DEF APICrash, RuntimeInv, DatesPast
  <2> QED BY <2>1, <2>2, <2>3, <2>4 DEF RuntimeInv
<1>6. ASSUME NEW a \in Controls, NEW until \in {0, clock + PauseLength}, HandleControl(a, until)
      PROVE  RuntimeInv'
  <2>1. until \in Nat
    BY <1>1, RuntimeAssumption DEF TypeOK
  <2>2. Target[a] \in States
    BY RuntimeAssumption DEF Target, States
  <2>3. ctl' \in Requests /\ ctl'.detail = NoRequest.detail
    BY <1>6, <2>1, <2>2 DEF HandleControl, NoRequest, Requests, Details, NoDetail,
       DailyStates, NoDaily, NoPause
  <2>4. ctl'.detail.daily.date <= Today
    BY <1>2, <2>3, NoRequestType
  <2> QED BY <1>1, <1>6, <2>3, <2>4, RowStepPreservesInv DEF HandleControl
<1>7. CASE ControlRead
  <2>1. ctl' \in Requests /\ ctl'.detail = row.detail
    BY <1>1, <1>7 DEF ControlRead, Requests
  <2> QED BY <1>1, <1>7, <2>1, RowStepPreservesInv DEF ControlRead
<1>8. CASE ControlWrite
  <2>1. ctl' \in Requests /\ ctl'.detail.daily.date <= Today
    BY <1>2, <1>8, NoRequestType DEF ControlWrite
  <2>2. snap' \in States \cup {"none"}
    BY <1>1, <1>8 DEF ControlWrite, Requests
  <2>3. tripped' \in BOOLEAN
    BY <1>1, <1>8 DEF ControlWrite
  <2>4. /\ row' \in Rows
        /\ row'.detail.circuit # 0 => ~row'.isRunning
        /\ row'.detail.daily.date <= Today
    BY <1>1, <1>8, ControlledRow DEF ControlWrite
  <2> QED BY <1>1, <1>8, <2>1, <2>2, <2>3, <2>4, RowStepPreservesInv DEF ControlWrite
<1>9. CASE ControlFails
  <2>1. ctl' \in Requests /\ ctl'.detail.daily.date <= Today
    BY <1>2, <1>9, NoRequestType DEF ControlFails
  <2> QED BY <1>1, <1>9, <2>1, RowStepPreservesInv DEF ControlFails
<1>10. CASE Tick
  <2>1. Today' \in Nat /\ Today <= Today'
    BY <1>1, <1>10, TodayAdvances
  <2>2. TypeOK'
    BY <1>1, <1>10 DEF Tick, TypeOK
  <2>3. PausedWhileTripped'
    BY <1>10 DEF Tick, RuntimeInv, PausedWhileTripped
  <2>4. OpensWithinLoss'
    <3> SUFFICES ASSUME NEW m \in Managers, pc[m] = "submit", trader[m].daily.date = Today',
                        DailyLossExceeded(trader[m].daily)'
                 PROVE  FALSE
      BY <1>10 DEF Tick, OpensWithinLoss, DailyLossExceeded
    <3>1. trader[m].daily.date <= Today /\ trader[m].daily.date \in Nat
      BY DEF RuntimeInv, DatesPast, TypeOK, VirtualTraders, DailyStates
    <3>2. trader[m].daily.date = Today
      BY <1>2, <2>1, <3>1
    <3>3. DailyLossExceeded(trader[m].daily)
      BY <1>10, <3>2 DEF Tick, DailyLossExceeded
    <3> QED BY <3>3 DEF RuntimeInv, OpensWithinLoss
  <2>5. DatesPast'
    <3>1. /\ \A m \in Managers : trader[m].daily.date \in Nat
          /\ row.detail.daily.date \in Nat /\ ctl.detail.daily.date \in Nat
      BY DEF RuntimeInv, TypeOK, VirtualTraders, Rows, Requests, Details, DailyStates
    <3> QED BY <1>2, <1>10, <2>1, <3>1 DEF Tick, RuntimeInv, DatesPast
  <2> QED BY <2>2, <2>3, <2>4, <2>5 DEF RuntimeInv
<1>11. CASE UNCHANGED vars
  <2>1. PausedWhileTripped'
    BY <1>11 DEF vars, RuntimeInv, PausedWhileTripped
  <2>2. TypeOK'
    BY <1>1, <1>11 DEF vars, TypeOK
  <2>3. OpensWithinLoss' /\ DatesPast'
    BY <1>11 DEF vars, RuntimeInv, OpensWithinLoss, DatesPast, DailyLossExceeded, Today
  <2> QED BY <2>1, <2>2, <2>3 DEF RuntimeInv
<1> QED BY <1>3, <1>4, <1>5, <1>6, <1>7, <1>8, <1>9, <1>10, <1>11 DEF Next

(* The invariant is inductive, hence holds in every reachable state.       *)
THEOREM RuntimeInvariant == Spec => []RuntimeInv
<1> QED BY InitInv, NextPreservesInv, PTL DEF Spec

(* Every copy of the trader's state is well formed (RegisterTrader,        *)
(* persistRuntimeState, ControlPlane.persistState).                        *)
THEOREM RuntimeTypes == Spec => []TypeOK
<1>1. RuntimeInv => TypeOK
  BY DEF RuntimeInv
<1> QED BY <1>1, RuntimeInvariant, PTL

(* For any number of Managers sharing the row, any interleaving of their   *)
(* saves with control requests, and any failure: a tripped trader is not   *)
(* running, in memory or in the row (tripRiskCircuitBreaker, Start,        *)
(* hydrateTraderFromState, persistState).                                  *)
THEOREM TrippedIsPaused == Spec => []PausedWhileTripped
<1>1. RuntimeInv => PausedWhileTripped
  BY DEF RuntimeInv
<1> QED BY <1>1, RuntimeInvariant, PTL

(* For any limits and any account values: no Manager submits an opening    *)
(* order past the daily loss it has just measured (enforceOpenRisk after   *)
(* SyncTraderPositions), also when the day changes in between.             *)
THEOREM OpensStayWithinLoss == Spec => []OpensWithinLoss
<1>1. RuntimeInv => OpensWithinLoss
  BY DEF RuntimeInv
<1> QED BY <1>1, RuntimeInvariant, PTL

-------------------------------------------------------------------------------
(* One trading loop, no command worker, rows that can be read.             *)

SingleLoop ==
  /\ Managers = LoopManagers
  /\ \A m, n \in Managers : m = n
  /\ ~ReadsFail

(* A trip that reached the database left a row behind.                     *)
TripInv == TripNeedsOperator /\ (tripped => row.exists)

(* With a single trading loop every step keeps a saved trip in force.      *)
LEMMA NextPreservesTrip ==
  ASSUME SingleLoop PROVE RuntimeInv /\ TripInv /\ [Next]_vars => TripInv'
<1> SUFFICES ASSUME RuntimeInv, TripInv, [Next]_vars PROVE TripInv'
  OBVIOUS
<1>1. trader \in [Managers -> VirtualTraders] /\ tripped \in BOOLEAN
  BY DEF RuntimeInv, TypeOK
<1>2. /\ \A m, n \in Managers : m = n
      /\ LoopManagers = Managers
      /\ ~ReadsFail
  BY DEF SingleLoop
<1>3. tripped => /\ ~row.isRunning /\ row.exists
                         /\ \A m \in Managers : trader[m].State # "running"
  BY <1>2 DEF TripInv, TripNeedsOperator
<1>4. SUFFICES tripped' => /\ ~row'.isRunning /\ row'.exists
                                  /\ \A m \in Managers : trader'[m].State # "running"
  BY <1>2 DEF TripInv, TripNeedsOperator
<1>5. ASSUME NEW m \in Managers, UNCHANGED <<row, tripped>>,
             trader'[m].State = "running" => trader[m].State = "running" \/ ~tripped
      PROVE  tripped' => /\ ~row'.isRunning /\ row'.exists
                                /\ \A n \in Managers : trader'[n].State # "running"
  BY <1>2, <1>3, <1>5
<1>6. ASSUME NEW m \in Managers, Hydrate(m)
      PROVE  trader'[m].State = "running" => ~tripped
  <2>1. ~row.isRunning => trader'[m].State # "running"
    BY <1>1, <1>6, HydratedTrader DEF Hydrate
  <2> QED BY <1>3, <2>1
<1>7. ASSUME NEW m \in Managers, RegisterUnhydrated(m) PROVE ~tripped
  BY <1>2, <1>3, <1>7 DEF RegisterUnhydrated
<1>8. ASSUME NEW m \in Managers,
             \/ SaveFails(m) \/ BeginCycle(m) \/ BeginCommand(m) \/ ApproveOpen(m)
             \/ SyncError(m) \/ Recheck(m) \/ OpenDone(m) \/ EndDecisions(m)
      PROVE  UNCHANGED <<trader, row, tripped>>
  BY <1>8 DEF SaveFails, BeginCycle, BeginCommand, ApproveOpen, SyncError, Recheck, PassRisk,
     OpenDone, EndDecisions
<1>9. ASSUME NEW m \in Managers, SharpeGate(m) PROVE trader'[m].State = trader[m].State
  BY <1>1, <1>9 DEF SharpeGate, VirtualTraders
<1>10. ASSUME NEW m \in Managers, TripAtApproval(m) \/ TripAtRecheck(m)
       PROVE  trader'[m].State = "paused"
  BY <1>1, <1>10, TrippedTrader DEF TripAtApproval, TripAtRecheck, Trip, RuntimeInv
<1>11. ASSUME NEW m \in Managers, SyncBeforeOpen(m) \/ SyncAfterCycle(m)
       PROVE  trader'[m].State = trader[m].State
  BY <1>1, <1>11 DEF SyncBeforeOpen, SyncAfterCycle, SyncAccount, VirtualTraders
<1>12. ASSUME NEW m \in Managers, Crash(m) PROVE trader'[m].State = "stopped"
  BY <1>1, <1>12, NewTraderType DEF Crash
<1>13. ASSUME NEW m \in Managers, Save(m)
       PROVE  tripped' => /\ ~row'.isRunning /\ row'.exists
                                 /\ \A n \in Managers : trader'[n].State # "running"
  <2>1. /\ row'.exists
        /\ row'.isRunning <=> trader[m].State = "running"
        /\ trader' = trader
    BY <1>13, SavedRow DEF Save
  <2>2. tripped' => tripped \/ trader[m].circuit # 0
    BY <1>1, <1>13 DEF Save
  <2>3. trader[m].circuit # 0 => trader[m].State # "running"
    BY DEF RuntimeInv, PausedWhileTripped
  <2> QED BY <1>2, <1>3, <2>1, <2>2, <2>3
<1>14. CASE APICrash
  <2>1. \A n \in Managers : trader'[n] = trader[n]
    BY <1>2, <1>14 DEF APICrash
  <2> QED BY <1>3, <1>14, <2>1 DEF APICrash
<1>15. CASE ControlWrite
  <2>1. row'.exists /\ (row'.isRunning <=> ctl.state = "running")
    BY <1>15, ControlledRow DEF ControlWrite
  <2>2. tripped' => tripped /\ ctl.state # "running"
    BY <1>15 DEF ControlWrite
  <2> QED BY <1>3, <1>15, <2>1, <2>2 DEF ControlWrite
<1>16. CASE \/ \E a \in Controls, until \in {0, clock + PauseLength} : HandleControl(a, until)
            \/ ControlRead \/ ControlFails \/ Tick \/ UNCHANGED vars
  BY <1>3, <1>16 DEF HandleControl, ControlRead, ControlFails, Tick, vars
<1>17. ASSUME NEW m \in Managers,
              \/ Hydrate(m) \/ RegisterUnhydrated(m) \/ SharpeGate(m)
              \/ TripAtApproval(m) \/ TripAtRecheck(m)
              \/ SyncBeforeOpen(m) \/ SyncAfterCycle(m) \/ Crash(m)
       PROVE  UNCHANGED <<row, tripped>>
  BY <1>17 DEF Hydrate, RegisterUnhydrated, SharpeGate, TripAtApproval, TripAtRecheck, Trip,
     SyncBeforeOpen, SyncAfterCycle, SyncAccount, Crash
<1> QED BY <1>5, <1>6, <1>7, <1>8, <1>9, <1>10, <1>11, <1>12, <1>13, <1>14, <1>15, <1>16, <1>17
        DEF Next

(* With a single trading loop a circuit whose trip was saved keeps the     *)
(* trader down until an operator starts or resumes it, through crashes,    *)
(* lost saves, stale control writes and day changes                        *)
(* (tripRiskCircuitBreaker, hydrateTraderFromState, persistState).         *)
THEOREM TripHoldsForSingleLoop == ASSUME SingleLoop PROVE Spec => []TripNeedsOperator
<1>1. Init => TripInv
  BY DEF Init, TripInv, TripNeedsOperator
<1>2. RuntimeInv /\ TripInv /\ [Next]_vars => TripInv'
  BY NextPreservesTrip
<1>3. TripInv => TripNeedsOperator
  BY DEF TripInv
<1> QED BY <1>1, <1>2, <1>3, RuntimeInvariant, PTL DEF Spec

-------------------------------------------------------------------------------

Agree(c, d) == c.date = d.date => c.start = d.start

Dated(d) == d.date = 0 <=> d.start = 0

(* Along the way from memory to the row to a control request the dates do  *)
(* not increase: a baseline of today in any of them is in memory too, so   *)
(* updateDailyRiskState cannot start a second one.                         *)
BaselineInv ==
  /\ Dated(row.detail.daily) /\ Dated(ctl.detail.daily)
  /\ Agree(row.detail.daily, ctl.detail.daily)
  /\ ctl.detail.daily.date <= row.detail.daily.date
  /\ ~row.exists => row.detail.daily.date = 0
  /\ \A m \in Managers :
       /\ Dated(trader[m].daily)
       /\ Agree(trader[m].daily, row.detail.daily)
       /\ Agree(trader[m].daily, ctl.detail.daily)
       /\ IF pc[m] = "down" THEN trader[m].daily.date = 0
                            ELSE row.detail.daily.date <= trader[m].daily.date

(* A step of the goroutine of the only Manager that leaves row and request *)
(* alone and ends with the daily state d.                                  *)
LEMMA LocalStepPreservesBaseline ==
  ASSUME BaselineInv, SingleLoop, NEW m \in Managers, UNCHANGED <<row, ctl>>,
         Dated(trader'[m].daily),
         Agree(trader'[m].daily, row.detail.daily),
         Agree(trader'[m].daily, ctl.detail.daily),
         IF pc'[m] = "down" THEN trader'[m].daily.date = 0
                           ELSE row.detail.daily.date <= trader'[m].daily.date
  PROVE  BaselineInv'
<1>1. \A n \in Managers : n = m
  BY DEF SingleLoop
<1> QED BY <1>1 DEF BaselineInv, Dated, Agree

(* With a single trading loop every step keeps the copies of the baseline  *)
(* together.                                                               *)
LEMMA NextPreservesBaseline ==
  ASSUME SingleLoop PROVE RuntimeInv /\ BaselineInv /\ [Next]_vars => BaselineInv'
<1> SUFFICES ASSUME RuntimeInv, BaselineInv, [Next]_vars PROVE BaselineInv'
  OBVIOUS
<1>1. /\ trader \in [Managers -> VirtualTraders] /\ pc \in [Managers -> PCs]
      /\ TypeOK
  BY DEF RuntimeInv, TypeOK
<1>2. /\ \A m \in Managers : trader[m].daily \in DailyStates /\ trader[m].daily.date \in Nat
      /\ row.detail.daily.date \in Nat /\ ctl.detail.daily.date \in Nat
  BY DEF RuntimeInv, TypeOK, VirtualTraders, Rows, Requests, Details, DailyStates
<1>3. Today \in Nat \ {0}
  BY <1>1, TodayAdvances
<1>4. NoDaily.date = 0 /\ NoDaily.start = 0
  BY DEF NoDaily
<1>5. ASSUME NEW m \in Managers, Hydrate(m) PROVE BaselineInv'
  <2>1. trader'[m].daily = row.detail.daily /\ pc'[m] = "register" /\ UNCHANGED <<row, ctl>>
    BY <1>1, <1>5, HydratedTrader DEF Hydrate, Goto
  <2> QED BY <1>2, <1>5, <2>1, LocalStepPreservesBaseline DEF BaselineInv, Agree
<1>6. ASSUME NEW m \in Managers, RegisterUnhydrated(m) PROVE BaselineInv'
  <2>1. trader'[m].daily = NoDaily /\ pc'[m] = "register" /\ UNCHANGED <<row, ctl>>
    BY <1>1, <1>6, NewTraderType DEF RegisterUnhydrated, Goto
  <2>2. row.detail.daily.date = 0
    BY <1>6 DEF RegisterUnhydrated, SingleLoop, BaselineInv
  <2> QED BY <1>4, <2>1, <2>2, LocalStepPreservesBaseline DEF BaselineInv, Agree, Dated
<1>7. ASSUME NEW m \in Managers, Crash(m) PROVE BaselineInv'
  <2>1. trader'[m].daily = NoDaily /\ pc'[m] = "down" /\ UNCHANGED <<row, ctl>>
    BY <1>1, <1>7, NewTraderType DEF Crash, Goto
  <2> QED BY <1>4, <2>1, LocalStepPreservesBaseline DEF BaselineInv, Agree, Dated
<1>8. ASSUME NEW m \in Managers, SyncBeforeOpen(m) \/ SyncAfterCycle(m) PROVE BaselineInv'
  <2>1. PICK equity \in Equities :
          /\ trader'[m].daily = updateDailyRiskState(trader[m].daily, equity)
          /\ pc[m] # "down" /\ pc'[m] # "down" /\ UNCHANGED <<row, ctl>>
    BY <1>1, <1>8 DEF SyncBeforeOpen, SyncAfterCycle, SyncAccount, Goto, VirtualTraders
  <2> DEFINE old == trader[m].daily
             d == updateDailyRiskState(old, equity)
  <2>2. /\ d = old \/ d.date = Today
        /\ old.date = Today /\ old.start # 0 => d.start = old.start
        /\ d.start = 0 => d = old
        /\ old.date <= Today
    <3>1. equity \in Nat
      BY RuntimeAssumption
    <3>2. old.date <= Today
      BY DEF RuntimeInv, DatesPast
    <3> QED BY <1>2, <1>3, <3>1, <3>2 DEF updateDailyRiskState, DailyStates
  <2>3. /\ Dated(old) /\ Agree(old, row.detail.daily) /\ Agree(old, ctl.detail.daily)
        /\ row.detail.daily.date <= old.date
        /\ ctl.detail.daily.date <= row.detail.daily.date
    BY <2>1 DEF BaselineInv
  <2>4. /\ old.date \in Nat /\ trader'[m].daily = d
        /\ row.detail.daily.date \in Nat /\ ctl.detail.daily.date \in Nat
    BY <1>2, <2>1
  <2> HIDE DEF old, d
  <2>5. Dated(d) /\ row.detail.daily.date <= d.date
    BY <1>3, <2>2, <2>3, <2>4 DEF Dated
  <2>6. Agree(d, row.detail.daily) /\ Agree(d, ctl.detail.daily)
    BY <1>3, <2>2, <2>3, <2>4 DEF Agree, Dated
  <2> QED BY <2>1, <2>4, <2>5, <2>6, LocalStepPreservesBaseline
<1>9. ASSUME NEW m \in Managers,
             \/ SaveFails(m) \/ BeginCycle(m) \/ BeginCommand(m) \/ ApproveOpen(m)
             \/ SyncError(m) \/ Recheck(m) \/ OpenDone(m) \/ EndDecisions(m)
             \/ SharpeGate(m) \/ TripAtApproval(m) \/ TripAtRecheck(m)
      PROVE  BaselineInv'
  <2>1. pc[m] # "down" /\ pc'[m] # "down" /\ UNCHANGED <<row, ctl>>
    BY <1>1, <1>9 DEF SaveFails, BeginCycle, BeginCommand, ApproveOpen, SyncError, Recheck,
       PassRisk, OpenDone, EndDecisions, SharpeGate, TripAtApproval, TripAtRecheck, Trip,
       Goto, AfterSave, Saves
  <2>2. trader'[m].daily = trader[m].daily
    BY <1>1, <1>9, TrippedTrader DEF SaveFails, BeginCycle, BeginCommand, ApproveOpen, SyncError,
       Recheck, PassRisk, OpenDone, EndDecisions, SharpeGate, TripAtApproval, TripAtRecheck, Trip,
       VirtualTraders
  <2> QED BY <2>1, <2>2, LocalStepPreservesBaseline DEF BaselineInv
<1>10. ASSUME NEW m \in Managers, Save(m) PROVE BaselineInv'
  <2>1. /\ row'.exists /\ row'.detail.daily = trader[m].daily
        /\ trader' = trader /\ ctl' = ctl
    BY <1>10, SavedRow DEF Save
  <2>2. pc[m] # "down" /\ pc'[m] # "down"
    BY <1>1, <1>10 DEF Save, Goto, AfterSave, Saves
  <2>3. \A n \in Managers : n = m
    BY DEF SingleLoop
  <2> QED BY <1>2, <2>1, <2>2, <2>3 DEF BaselineInv, Agree
<1>11. CASE APICrash
  <2>1. /\ ctl'.detail.daily = NoDaily /\ row' = row
        /\ \A n \in Managers : trader'[n] = trader[n] /\ pc'[n] = pc[n]
    BY <1>11, NoRequestType DEF APICrash, SingleLoop
  <2> QED BY <1>2, <1>4, <2>1 DEF BaselineInv, Agree, Dated
<1>12. CASE ControlWrite
  <2>1. /\ row'.exists /\ row'.detail.daily = ctl.detail.daily
        /\ ctl'.detail.daily = NoDaily /\ UNCHANGED <<trader, pc>>
    BY <1>12, ControlledRow, NoRequestType DEF ControlWrite
  <2> QED BY <1>2, <1>4, <2>1 DEF BaselineInv, Agree, Dated
<1>13. CASE \/ \E a \in Controls, until \in {0, clock + PauseLength} : HandleControl(a, until)
            \/ ControlFails
  <2>1. ctl'.detail.daily = NoDaily /\ UNCHANGED <<trader, pc, row>>
    BY <1>13, NoRequestType DEF HandleControl, ControlFails, NoRequest
  <2> QED BY <1>2, <1>4, <2>1 DEF BaselineInv, Agree, Dated
<1>14. CASE ControlRead
  <2>1. ctl'.detail.daily = row.detail.daily /\ UNCHANGED <<trader, pc, row>>
    BY <1>1, <1>14 DEF ControlRead, TypeOK, Requests
  <2> QED BY <1>2, <2>1 DEF BaselineInv, Agree, Dated
<1>15. CASE Tick \/ UNCHANGED vars
  BY <1>15 DEF Tick, vars, BaselineInv, Agree, Dated
<1> QED BY <1>5, <1>6, <1>7, <1>8, <1>9, <1>10, <1>11, <1>12, <1>13, <1>14, <1>15 DEF Next

(* With a single trading loop the day's equity baseline is unique: no      *)
(* crash, lost save or control request, however stale the row it writes    *)
(* back, makes two copies of it disagree (updateDailyRiskState,            *)
(* hydrateTraderFromState, persistState).                                  *)
THEOREM BaselineUniqueForSingleLoop == ASSUME SingleLoop PROVE Spec => []OneBaselinePerDay
<1>1. Init => BaselineInv
  BY NewTraderType, NoRequestType DEF Init, BaselineInv, Agree, Dated, NoRow, NoDetail, NoDaily
<1>2. RuntimeInv /\ BaselineInv /\ [Next]_vars => BaselineInv'
  BY NextPreservesBaseline
<1>3. BaselineInv => OneBaselinePerDay
  <2> SUFFICES ASSUME BaselineInv,
                      NEW c \in {trader[m].daily : m \in Managers}
                                  \cup {row.detail.daily, ctl.detail.daily},
                      NEW d \in {trader[m].daily : m \in Managers}
                                  \cup {row.detail.daily, ctl.detail.daily},
                      c.date = d.date
               PROVE  c.start = d.start
    BY DEF OneBaselinePerDay
  <2>1. \A m, n \in Managers : m = n
    BY DEF SingleLoop
  <2> QED BY <2>1 DEF BaselineInv, Agree
<1> QED BY <1>1, <1>2, <1>3, RuntimeInvariant, PTL DEF Spec

===============================================================================
