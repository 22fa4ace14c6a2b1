----------------------------- MODULE PositionBook -----------------------------
(***************************************************************************)
(* The virtual position book of pkg/manager and the execution pipeline     *)
(* that maintains it.  Several Manager instances (the trading loop of      *)
(* cmd/llm and the command worker of the API server) trade one exchange    *)
(* account.  Each keeps its own positionOwners and VirtualPositions and    *)
(* drives one decision at a time; every call to the exchange is a step of  *)
(* its own, so the account can move between any two of them.               *)
(*                                                                         *)
(* A position is its signed size (long > 0, short < 0, 0 = no entry).      *)
(* Prices, leverage, audit records and persistence events are left out;    *)
(* the hard risk checks are a nondeterministic rejection here and are      *)
(* modelled in TraderRuntime.                                              *)
(***************************************************************************)
EXTENDS Integers, FiniteSets

CONSTANTS
  Managers,      \* Manager instances sharing the exchange account
  LoopManagers,  \* those running RunTradingLoop: they sync outside an open too
  Traders,       \* traders, registered with every Manager at start-up
  Symbols,       \* normalized symbols
  None,          \* "": no owner, no trader, no symbol
  MaxPositions,  \* RiskParams.MaxPositions; 0 means no limit
  OrderSizes,    \* sizes a decision may ask for
  QtyBound       \* bound on the size of an account position

ASSUME BookAssumption ==
  /\ LoopManagers \subseteq Managers
  /\ None \notin Traders \cup Symbols
  /\ IsFiniteSet(Symbols)
  /\ MaxPositions \in Nat
  /\ OrderSizes \subseteq Nat \ {0}
  /\ QtyBound \in Nat

VARIABLES
  account,          \* the exchange's positions: symbol -> signed size
  positionOwners,   \* per manager: symbol -> owning trader or None
  VirtualPositions, \* per manager and trader: symbol -> signed size
  op                \* per manager: the decision its goroutine is executing

vars == <<account, positionOwners, VirtualPositions, op>>

Positions == [Symbols -> Int]

Flat == [s \in Symbols |-> 0]

PCs == {"idle", "sync", "submit", "assign", "close", "release"}

(* A decision in flight; seen is the result of its last GetPositions.      *)
Ops == [pc   : PCs,
        t    : Traders \cup {None},
        s    : Symbols \cup {None},
        q    : Int,
        seen : Positions]

IdleOp == [pc |-> "idle", t |-> None, s |-> None, q |-> 0, seen |-> Flat]

-------------------------------------------------------------------------------
(* Checks made on the in-memory book.                                      *)

Held(m, t) == {s \in Symbols : VirtualPositions[m][t][s] # 0}

ensureSymbolAvailable(m, s) == positionOwners[m][s] = None

ensureCloseOwnership(m, t, s) == positionOwners[m][s] \in {None, t}

enforcePositionCapacity(m, t) ==
  MaxPositions > 0 => Cardinality(Held(m, t)) < MaxPositions

(* Mutant of UpdateBook: a release forgets the owner entry.                *)
UpdateBookKeepingOwners(m, t, take, at, drop) ==
  LET mine == {s \in Symbols : ensureCloseOwnership(m, t, s)} IN
  /\ positionOwners' = [positionOwners EXCEPT ![m] =
       [s \in Symbols |-> IF s \in mine \cap take THEN t ELSE positionOwners[m][s]]]
  /\ VirtualPositions' = [VirtualPositions EXCEPT ![m][t] =
       [s \in Symbols |-> IF s \in mine \cap take THEN at[s]
                          ELSE IF s \in mine \cap drop THEN 0
                          ELSE VirtualPositions[m][t][s]]]

(* Updates of the book: assignVirtualPosition takes the symbols of `take'  *)
(* at the sizes `at', releaseVirtualPosition drops those of `drop'; both   *)
(* leave a symbol owned by another trader alone.                           *)
UpdateBook(m, t, take, at, drop) ==
  LET mine == {s \in Symbols : ensureCloseOwnership(m, t, s)} IN
  /\ positionOwners' = [positionOwners EXCEPT ![m] =
       [s \in Symbols |-> IF s \in mine \cap take THEN t
                          ELSE IF s \in mine \cap drop THEN None
                          ELSE positionOwners[m][s]]]
  /\ VirtualPositions' = [VirtualPositions EXCEPT ![m][t] =
       [s \in Symbols |-> IF s \in mine \cap take THEN at[s]
                          ELSE IF s \in mine \cap drop THEN 0
                          ELSE VirtualPositions[m][t][s]]]

assignVirtualPosition(m, t, s, q) ==
  UpdateBook(m, t, {s}, [x \in Symbols |-> q], {})

releaseVirtualPosition(m, t, S) == UpdateBook(m, t, {}, Flat, S)

-------------------------------------------------------------------------------
(* ReconcileTraderPositions over the positions read from the exchange.     *)

(* Mutant of Missing: the loop skips entries gone from the exchange.       *)
MissingSkipped(m, t) == {}

Missing(m, t) == {s \in Held(m, t) : account[s] = 0}

Mismatched(m, t) ==
  {s \in Held(m, t) : account[s] # 0 /\ account[s] # VirtualPositions[m][t][s]}

(* Mutant of Adoptable: positions nobody owns are left alone.              *)
AdoptableOwned(m, t) ==
  {s \in Symbols : /\ account[s] # 0
                   /\ positionOwners[m][s] = t /\ VirtualPositions[m][t][s] = 0}

Adoptable(m, t) ==
  {s \in Symbols : /\ account[s] # 0
                   /\ \/ positionOwners[m][s] = None
                      \/ positionOwners[m][s] = t /\ VirtualPositions[m][t][s] = 0}

(* Mutant of Reconcile: a mismatch is logged and skipped.                  *)
ReconcileLenient(m, t) ==
  UpdateBook(m, t, Adoptable(m, t), account, Missing(m, t))

(* Success: entries missing on the exchange are released and unowned       *)
(* exchange positions are assigned to the trader that found them.          *)
Reconcile(m, t) ==
  /\ Mismatched(m, t) = {}
  /\ UpdateBook(m, t, Adoptable(m, t), account, Missing(m, t))

(* A mismatch aborts the map iteration, whose order is random: any part of *)
(* the missing entries may have been released before, nothing is adopted.  *)
ReconcileMismatch(m, t) ==
  /\ Mismatched(m, t) # {}
  /\ \E part \in SUBSET Missing(m, t) : releaseVirtualPosition(m, t, part)

-------------------------------------------------------------------------------

Init ==
  /\ account = Flat
  /\ positionOwners = [m \in Managers |-> [s \in Symbols |-> None]]
  /\ VirtualPositions = [m \in Managers |-> [t \in Traders |-> Flat]]
  /\ op = [m \in Managers |-> IdleOp]

Goto(m, pc) == op' = [op EXCEPT ![m].pc = pc]

Finish(m) == op' = [op EXCEPT ![m] = IdleOp]

(* ApproveDecision of an open, up to the SyncTraderPositions of            *)
(* executeDecisionWithApproval.  A rejected decision changes nothing.      *)
ApproveOpen(m, t, s, q) ==
  /\ op[m].pc = "idle"
  /\ ensureSymbolAvailable(m, s)
  /\ enforcePositionCapacity(m, t)
  /\ op' = [op EXCEPT ![m] = [IdleOp EXCEPT !.pc = "sync", !.t = t, !.s = s, !.q = q]]
  /\ UNCHANGED <<account, positionOwners, VirtualPositions>>

(* The account sync before an open failed: GetAccountState or GetPositions *)
(* returned an error, or the book disagrees with the exchange.             *)
SyncFails(m) ==
  /\ op[m].pc = "sync"
  /\ \/ UNCHANGED <<positionOwners, VirtualPositions>>
     \/ ReconcileMismatch(m, op[m].t)
  /\ Finish(m)
  /\ UNCHANGED account

(* Mutant of Recheck: the approval from before the sync is trusted for the *)
(* capacity.                                                               *)
RecheckSymbolOnly(m) ==
  /\ op[m].pc = "sync"
  /\ Reconcile(m, op[m].t)
  /\ op' = [op EXCEPT ![m].pc = "submit", ![m].seen = account]
  /\ ensureSymbolAvailable(m, op[m].s)'
  /\ UNCHANGED account

(* The sync succeeded and ownership, capacity and risk are checked again   *)
(* on the refreshed book; asset index and leverage were set.               *)
Recheck(m) ==
  /\ op[m].pc = "sync"
  /\ Reconcile(m, op[m].t)
  /\ op' = [op EXCEPT ![m].pc = "submit", ![m].seen = account]
  /\ ensureSymbolAvailable(m, op[m].s)'
  /\ enforcePositionCapacity(m, op[m].t)'
  /\ UNCHANGED account

(* The sync succeeded and one of the checks after it rejects the open.     *)
RecheckRejects(m) ==
  /\ op[m].pc = "sync"
  /\ Reconcile(m, op[m].t)
  /\ Finish(m)
  /\ UNCHANGED account

(* Mutant of Fills: a fill of size zero counts as reported.                *)
FillsOrZero(q) == IF q > 0 THEN 0..q ELSE q..0

(* What an order of signed size q may have filled.                         *)
Fills(q) == IF q > 0 THEN 1..q ELSE q..(-1)

FillPosition(s, f) ==
  /\ account[s] + f \in (-QtyBound)..QtyBound
  /\ account' = [account EXCEPT ![s] = @ + f]

(* The exchange fills the order, in part or in full, and says so.          *)
OrderFilled(m) ==
  /\ op[m].pc = "submit"
  /\ \E f \in Fills(op[m].q) :
       /\ FillPosition(op[m].s, f)
       /\ op' = [op EXCEPT ![m].pc = "assign", ![m].q = f]
  /\ UNCHANGED <<positionOwners, VirtualPositions>>

(* The exchange answers ok without a fill: the requested size is booked.   *)
OrderUnreported(m) ==
  /\ op[m].pc = "submit"
  /\ Goto(m, "assign")
  /\ UNCHANGED <<account, positionOwners, VirtualPositions>>

(* The exchange rejects the order, or the answer is lost: in that case the *)
(* order may still have been filled.  Nothing is booked.                   *)
OrderFails(m) ==
  /\ op[m].pc = "submit"
  /\ \/ UNCHANGED account
     \/ \E f \in Fills(op[m].q) : FillPosition(op[m].s, f)
  /\ Finish(m)
  /\ UNCHANGED <<positionOwners, VirtualPositions>>

(* The tail of executeDecisionWithApproval for an open.                    *)
BookOpen(m) ==
  /\ op[m].pc = "assign"
  /\ assignVirtualPosition(m, op[m].t, op[m].s, op[m].q)
  /\ Finish(m)
  /\ UNCHANGED account

-------------------------------------------------------------------------------

(* ApproveDecision of a close and the ownership check repeated before it.  *)
ApproveClose(m, t, s) ==
  /\ op[m].pc = "idle"
  /\ ensureCloseOwnership(m, t, s)
  /\ op' = [op EXCEPT ![m] = [IdleOp EXCEPT !.pc = "close", !.t = t, !.s = s]]
  /\ UNCHANGED <<account, positionOwners, VirtualPositions>>

(* What is left of a position after a reduce-only order: between the whole *)
(* and nothing.                                                            *)
Remainders(q) == IF q > 0 THEN 0..(q - 1) ELSE (q + 1)..0

ReducePosition(s) ==
  /\ account[s] # 0
  /\ \E r \in Remainders(account[s]) : account' = [account EXCEPT ![s] = r]

(* ClosePosition found a position and its reduce-only IOC order was        *)
(* answered ok, with or without a fill.                                    *)
CloseAccepted(m) ==
  /\ op[m].pc = "close"
  /\ \/ ReducePosition(op[m].s)
     \/ account[op[m].s] # 0 /\ UNCHANGED account
  /\ Goto(m, "release")
  /\ UNCHANGED <<positionOwners, VirtualPositions>>

(* ClosePosition found no position (a nil response, which                  *)
(* orderResponseFailure turns into an error), was rejected, or its answer  *)
(* was lost after it had filled.  The book keeps its entry.                *)
CloseFails(m) ==
  /\ op[m].pc = "close"
  /\ \/ UNCHANGED account
     \/ ReducePosition(op[m].s)
  /\ Finish(m)
  /\ UNCHANGED <<positionOwners, VirtualPositions>>

(* The tail of executeDecisionWithApproval for a close.                    *)
BookClose(m) ==
  /\ op[m].pc = "release"
  /\ releaseVirtualPosition(m, op[m].t, {op[m].s})
  /\ Finish(m)
  /\ UNCHANGED account

-------------------------------------------------------------------------------

(* SyncTraderPositions at the end of a trading-loop cycle.                 *)
SyncTraderPositions(m, t) ==
  /\ op[m].pc = "idle"
  /\ Reconcile(m, t)
  /\ UNCHANGED <<account, op>>

SyncTraderMismatch(m, t) ==
  /\ op[m].pc = "idle"
  /\ ReconcileMismatch(m, t)
  /\ UNCHANGED <<account, op>>

(* The process dies and is started again: RegisterTrader creates every     *)
(* trader with an empty book.                                              *)
Restart(m) ==
  /\ positionOwners' = [positionOwners EXCEPT ![m] = [s \in Symbols |-> None]]
  /\ VirtualPositions' = [VirtualPositions EXCEPT ![m] = [t \in Traders |-> Flat]]
  /\ Finish(m)
  /\ UNCHANGED account

(* A stop-loss or take-profit order set by SetStopLoss / SetTakeProfit     *)
(* fires, or the exchange liquidates: the position shrinks.                *)
TriggerFires(s) ==
  /\ ReducePosition(s)
  /\ UNCHANGED <<positionOwners, VirtualPositions, op>>

Step(m) ==
  \/ SyncFails(m) \/ Recheck(m) \/ RecheckRejects(m)
  \/ OrderFilled(m) \/ OrderUnreported(m) \/ OrderFails(m) \/ BookOpen(m)
  \/ CloseAccepted(m) \/ CloseFails(m) \/ BookClose(m)

Next ==
  \/ \E m \in Managers : Step(m)
  \/ \E m \in Managers, t \in Traders, s \in Symbols, n \in OrderSizes :
       ApproveOpen(m, t, s, n) \/ ApproveOpen(m, t, s, -n)
  \/ \E m \in Managers, t \in Traders, s \in Symbols : ApproveClose(m, t, s)
  \/ \E m \in LoopManagers, t \in Traders :
       SyncTraderPositions(m, t) \/ SyncTraderMismatch(m, t)
  \/ \E m \in Managers : Restart(m)
  \/ \E s \in Symbols : TriggerFires(s)

Spec == Init /\ [][Next]_vars

(* A Manager's goroutine finishes the decision it is executing, decisions  *)
(* keep arriving, and the loop's end-of-cycle sync of each trader goes     *)
(* through again and again.  Restarts and triggers need not happen.        *)
Fairness ==
  /\ \A m \in Managers : WF_vars(Step(m))
  /\ \A m \in Managers, t \in Traders, s \in Symbols :
       SF_vars(\E n \in OrderSizes : ApproveOpen(m, t, s, n))
  /\ \A m \in Managers, t \in Traders, s \in Symbols : SF_vars(ApproveClose(m, t, s))
  /\ \A m \in LoopManagers, t \in Traders : SF_vars(SyncTraderPositions(m, t))

FairSpec == Spec /\ Fairness

-------------------------------------------------------------------------------
(* Properties.                                                             *)

(* Type correctness of the book, the account and the decisions in flight.  *)
TypeOK ==
  /\ account \in Positions
  /\ positionOwners \in [Managers -> [Symbols -> Traders \cup {None}]]
  /\ VirtualPositions \in [Managers -> [Traders -> Positions]]
  /\ op \in [Managers -> Ops]
  /\ \A m \in Managers : op[m].pc # "idle" => op[m].t \in Traders /\ op[m].s \in Symbols
  /\ \A m \in Managers : op[m].pc \in {"sync", "submit", "assign"} => op[m].q # 0

(* positionOwners and VirtualPositions never drift apart: in every Manager *)
(* a trader has a virtual position in a symbol exactly when it owns the    *)
(* symbol, so no two of its traders hold one symbol (assignVirtualPosition,*)
(* releaseVirtualPosition and ReconcileTraderPositions update two maps     *)
(* under two locks).                                                       *)
BookConsistent ==
  \A m \in Managers, t \in Traders, s \in Symbols :
    VirtualPositions[m][t][s] # 0 <=> positionOwners[m][s] = t

(* From the moment an opening order may be sent until it is booked the     *)
(* symbol is unowned and the trader has a free slot, although the sync     *)
(* just before may have adopted positions nobody had decided on            *)
(* (executeDecisionWithApproval repeats ensureSymbolAvailable and          *)
(* enforcePositionCapacity after SyncTraderPositions).                     *)
OpenRechecked ==
  \A m \in Managers : op[m].pc \in {"submit", "assign"} =>
    /\ ensureSymbolAvailable(m, op[m].s)
    /\ enforcePositionCapacity(m, op[m].t)

(* An opening order leaves only from a reconciled book: measured against   *)
(* the positions the sync read, the target symbol was flat, every open     *)
(* position has an owner, and the trader's own entries are exactly the     *)
(* account's (ReconcileTraderPositions fails closed on a mismatch).        *)
OpensFromReconciledBook ==
  \A m \in Managers : op[m].pc \in {"submit", "assign"} =>
    LET seen == op[m].seen  mine == VirtualPositions[m][op[m].t] IN
    /\ seen[op[m].s] = 0
    /\ \A s \in Symbols :
         /\ seen[s] # 0 => positionOwners[m][s] # None
         /\ mine[s] # 0 => mine[s] = seen[s]

(* Booking a filled open never takes a trader past max_positions; only the *)
(* adoption of positions found on the exchange can.                        *)
BookingWithinCapacity ==
  [][\A m \in Managers, t \in Traders :
       BookOpen(m) /\ op[m].t = t /\ MaxPositions > 0
         => Cardinality(Held(m, t)') <= MaxPositions]_vars

(* An opening fill never lands on a symbol that already has a position.    *)
(* Holds for a single Manager, whose sync and submission nothing but       *)
(* reduce-only orders separates.                                           *)
NoStackedOpens ==
  [][\A m \in Managers : OrderFilled(m) => account[op[m].s] = 0]_vars

(* Traders hold disjoint parts of the shared account: no symbol is owned   *)
(* by different traders in different Managers.                             *)
TradersIsolated ==
  \A m, n \in Managers, s \in Symbols :
    positionOwners[m][s] # None /\ positionOwners[n][s] # None
      => positionOwners[m][s] = positionOwners[n][s]

(* A virtual position whose exchange position is gone is released in the   *)
(* end, unless the symbol is traded again or the trader's book is stuck in *)
(* a mismatch (ReconcileTraderPositions).                                  *)
StaleEntriesReleased ==
  \A m \in Managers, t \in Traders, s \in Symbols :
    (VirtualPositions[m][t][s] # 0 /\ account[s] = 0)
      ~> (VirtualPositions[m][t][s] = 0 \/ account[s] # 0 \/ Mismatched(m, t) # {})

===============================================================================
