-------------------------- MODULE PositionBookProofs --------------------------
(* Proofs about PositionBook for any set of Managers, traders and symbols. *)
EXTENDS PositionBook, FiniteSetTheorems, TLAPS

(* The inductive invariant: the book is consistent, and what the recheck   *)
(* established stays true until the order is booked.                       *)
BookInv ==
  /\ TypeOK
  /\ BookConsistent
  /\ OpenRechecked
  /\ OpensFromReconciledBook

-------------------------------------------------------------------------------
(* UpdateBook, whatever is taken and dropped: types, consistency, and the  *)
(* books it leaves alone.                                                  *)

(* An update of the book keeps its types.                                  *)
LEMMA UpdateBookType ==
  ASSUME TypeOK,
         NEW m \in Managers, NEW t \in Traders,
         NEW take, NEW drop, NEW at \in Positions,
         UpdateBook(m, t, take, at, drop)
  PROVE  /\ positionOwners' \in [Managers -> [Symbols -> Traders \cup {None}]]
         /\ VirtualPositions' \in [Managers -> [Traders -> Positions]]
BY DEF TypeOK, UpdateBook, Positions

(* An update of one Manager's book leaves the other books alone.           *)
LEMMA UpdateBookOthers ==
  ASSUME TypeOK,
         NEW m \in Managers, NEW t \in Traders,
         NEW take, NEW drop, NEW at \in Positions,
         UpdateBook(m, t, take, at, drop),
         NEW n \in Managers, n # m
  PROVE  /\ positionOwners'[n] = positionOwners[n]
         /\ VirtualPositions'[n] = VirtualPositions[n]
BY DEF TypeOK, UpdateBook

(* An update that takes symbols at sizes other than zero keeps owners and  *)
(* positions together.                                                     *)
LEMMA UpdateBookConsistent ==
  ASSUME TypeOK, BookConsistent,
         NEW m \in Managers, NEW t \in Traders,
         NEW take, NEW drop, NEW at \in Positions,
         \A s \in take : at[s] # 0,
         UpdateBook(m, t, take, at, drop)
  PROVE  BookConsistent'
<1> SUFFICES ASSUME NEW n \in Managers, NEW u \in Traders, NEW s \in Symbols
             PROVE  VirtualPositions'[n][u][s] # 0 <=> positionOwners'[n][s] = u
  BY DEF BookConsistent
<1>0. VirtualPositions[n][u][s] # 0 <=> positionOwners[n][s] = u
  BY DEF BookConsistent
<1>1. CASE n # m
  BY <1>0, <1>1, UpdateBookOthers
<1>2. CASE n = m
  <2>1. u # None /\ t # None
    BY BookAssumption
  <2>2. positionOwners'[m][s] =
          IF ensureCloseOwnership(m, t, s) /\ s \in take THEN t
          ELSE IF ensureCloseOwnership(m, t, s) /\ s \in drop THEN None
          ELSE positionOwners[m][s]
    BY DEF UpdateBook, TypeOK
  <2>3. VirtualPositions'[m][t][s] =
          IF ensureCloseOwnership(m, t, s) /\ s \in take THEN at[s]
          ELSE IF ensureCloseOwnership(m, t, s) /\ s \in drop THEN 0
          ELSE VirtualPositions[m][t][s]
    BY DEF UpdateBook, TypeOK
  <2>4. u # t => VirtualPositions'[m][u][s] = VirtualPositions[m][u][s]
    BY DEF UpdateBook, TypeOK
  <2>5. ensureCloseOwnership(m, t, s) <=> positionOwners[m][s] \in {None, t}
    BY DEF ensureCloseOwnership
  <2>6. CASE u = t
    BY <1>0, <1>2, <2>1, <2>2, <2>3, <2>5, <2>6
  <2>7. CASE u # t
    BY <1>0, <1>2, <2>1, <2>2, <2>4, <2>5, <2>7
  <2> QED BY <2>6, <2>7
<1> QED BY <1>1, <1>2

-------------------------------------------------------------------------------
(* A successful reconciliation leaves the trader's entries equal to the    *)
(* account's and every open position owned.                                *)

(* What ReconcileTraderPositions establishes for each symbol.              *)
LEMMA ReconcileResult ==
  ASSUME TypeOK, BookConsistent,
         NEW m \in Managers, NEW t \in Traders, NEW s \in Symbols,
         Reconcile(m, t)
  PROVE  /\ account[s] # 0 => positionOwners'[m][s] # None
         /\ VirtualPositions'[m][t][s] # 0 => VirtualPositions'[m][t][s] = account[s]
<1>1. /\ account[s] \in Int
      /\ VirtualPositions[m][t][s] \in Int
      /\ t # None
  BY BookAssumption DEF TypeOK, Positions
<1>2. VirtualPositions[m][t][s] # 0 <=> positionOwners[m][s] = t
  BY DEF BookConsistent
<1>3. account[s] # 0 /\ VirtualPositions[m][t][s] # 0 => VirtualPositions[m][t][s] = account[s]
  BY DEF Reconcile, Mismatched, Held
<1>4. s \in Missing(m, t) <=> VirtualPositions[m][t][s] # 0 /\ account[s] = 0
  BY DEF Missing, Held
<1>5. s \in Adoptable(m, t) <=>
        /\ account[s] # 0
        /\ \/ positionOwners[m][s] = None
           \/ positionOwners[m][s] = t /\ VirtualPositions[m][t][s] = 0
  BY DEF Adoptable
<1>6. positionOwners'[m][s] =
        IF positionOwners[m][s] \in {None, t} /\ s \in Adoptable(m, t) THEN t
        ELSE IF positionOwners[m][s] \in {None, t} /\ s \in Missing(m, t) THEN None
        ELSE positionOwners[m][s]
  BY DEF Reconcile, UpdateBook, TypeOK, ensureCloseOwnership
<1>7. VirtualPositions'[m][t][s] =
        IF positionOwners[m][s] \in {None, t} /\ s \in Adoptable(m, t) THEN account[s]
        ELSE IF positionOwners[m][s] \in {None, t} /\ s \in Missing(m, t) THEN 0
        ELSE VirtualPositions[m][t][s]
  BY DEF Reconcile, UpdateBook, TypeOK, ensureCloseOwnership
<1> QED BY <1>1, <1>2, <1>3, <1>4, <1>5, <1>6, <1>7

(* Both outcomes of a reconciliation are updates of the trader's book.     *)
LEMMA ReconcileUpdates ==
  ASSUME TypeOK, BookConsistent,
         NEW m \in Managers, NEW t \in Traders,
         Reconcile(m, t) \/ ReconcileMismatch(m, t)
  PROVE  /\ positionOwners' \in [Managers -> [Symbols -> Traders \cup {None}]]
         /\ VirtualPositions' \in [Managers -> [Traders -> Positions]]
         /\ BookConsistent'
         /\ \A n \in Managers : n # m => /\ positionOwners'[n] = positionOwners[n]
                                         /\ VirtualPositions'[n] = VirtualPositions[n]
<1>1. account \in Positions /\ Flat \in Positions
  BY DEF TypeOK, Positions, Flat
<1>2. CASE Reconcile(m, t)
  <2>1. \A s \in Adoptable(m, t) : account[s] # 0
    BY DEF Adoptable
  <2>2. UpdateBook(m, t, Adoptable(m, t), account, Missing(m, t))
    BY <1>2 DEF Reconcile
  <2> QED BY <1>1, <2>1, <2>2, UpdateBookType, UpdateBookConsistent, UpdateBookOthers
<1>3. CASE ReconcileMismatch(m, t)
  <2>1. PICK part \in SUBSET Missing(m, t) : UpdateBook(m, t, {}, Flat, part)
    BY <1>3 DEF ReconcileMismatch, releaseVirtualPosition
  <2> QED BY <1>1, <2>1, UpdateBookType, UpdateBookConsistent, UpdateBookOthers
<1> QED BY <1>2, <1>3

-------------------------------------------------------------------------------
(* Steps that leave the other Managers' books and decisions alone keep     *)
(* what was established for them.                                          *)

(* What OpenRechecked and OpensFromReconciledBook say of one Manager.      *)
Ready(m) ==
  op[m].pc \in {"submit", "assign"} =>
    /\ ensureSymbolAvailable(m, op[m].s)
    /\ enforcePositionCapacity(m, op[m].t)
    /\ op[m].seen[op[m].s] = 0
    /\ \A s \in Symbols :
         /\ op[m].seen[s] # 0 => positionOwners[m][s] # None
         /\ VirtualPositions[m][op[m].t][s] # 0
              => VirtualPositions[m][op[m].t][s] = op[m].seen[s]

(* Ready restates the two invariants Manager by Manager.                   *)
LEMMA ReadyEquiv ==
  (\A m \in Managers : Ready(m)) <=> OpenRechecked /\ OpensFromReconciledBook
BY DEF Ready, OpenRechecked, OpensFromReconciledBook

(* Ready depends on nothing but the book and the decision of its Manager.  *)
LEMMA ReadyFrame ==
  ASSUME NEW n \in Managers, Ready(n),
         positionOwners'[n] = positionOwners[n],
         VirtualPositions'[n] = VirtualPositions[n],
         op'[n] = op[n]
  PROVE  Ready(n)'
BY DEF Ready, ensureSymbolAvailable, enforcePositionCapacity, Held

-------------------------------------------------------------------------------

(* Empty books and idle Managers satisfy the invariant.                    *)
LEMMA BookInit == Init => BookInv
<1> SUFFICES ASSUME Init PROVE BookInv
  OBVIOUS
<1>1. TypeOK
  BY DEF Init, TypeOK, Positions, Flat, Ops, PCs, IdleOp
<1>2. BookConsistent
  BY BookAssumption DEF Init, BookConsistent, Flat
<1>3. OpenRechecked /\ OpensFromReconciledBook
  BY DEF Init, OpenRechecked, OpensFromReconciledBook, IdleOp
<1> QED BY <1>1, <1>2, <1>3 DEF BookInv

(* A step of Manager m that updates m's book and leaves m idle keeps the   *)
(* invariant.                                                              *)
LEMMA IdleKeeps ==
  ASSUME BookInv,
         NEW m \in Managers,
         account' \in Positions,
         positionOwners' \in [Managers -> [Symbols -> Traders \cup {None}]],
         VirtualPositions' \in [Managers -> [Traders -> Positions]],
         BookConsistent',
         \A n \in Managers : n # m => /\ positionOwners'[n] = positionOwners[n]
                                      /\ VirtualPositions'[n] = VirtualPositions[n],
         NEW o \in Ops, o.pc = "idle",
         op' = [op EXCEPT ![m] = o]
  PROVE  BookInv'
<1>1. op \in [Managers -> Ops]
  BY DEF BookInv, TypeOK
<1>2. op'[m] = o /\ \A n \in Managers : n # m => op'[n] = op[n]
  BY <1>1
<1>3. TypeOK'
  BY <1>1, <1>2 DEF BookInv, TypeOK
<1>4. \A n \in Managers : Ready(n)'
  <2> SUFFICES ASSUME NEW n \in Managers PROVE Ready(n)'
    OBVIOUS
  <2>1. CASE n = m
    BY <1>2, <2>1 DEF Ready
  <2>2. CASE n # m
    BY <1>2, <2>2, ReadyEquiv, ReadyFrame DEF BookInv
  <2> QED BY <2>1, <2>2
<1>5. OpenRechecked' /\ OpensFromReconciledBook'
  BY <1>4 DEF Ready, OpenRechecked, OpensFromReconciledBook
<1> QED BY <1>3, <1>5 DEF BookInv
(* A step that leaves every book alone and takes one decision out of the   *)
(* pre-submission phases, or moves it on, keeps the invariant.             *)
LEMMA MoveKeeps ==
  ASSUME BookInv,
         NEW m \in Managers,
         account' \in Positions,
         UNCHANGED <<positionOwners, VirtualPositions>>,
         NEW o \in Ops,
         op' = [op EXCEPT ![m] = o],
         o.pc # "idle" => o.t \in Traders /\ o.s \in Symbols,
         o.pc \in {"sync", "submit", "assign"} => o.q # 0,
         o.pc \in {"submit", "assign"} =>
           /\ op[m].pc \in {"submit", "assign"}
           /\ o.t = op[m].t /\ o.s = op[m].s /\ o.seen = op[m].seen
  PROVE  BookInv'
<1>1. op \in [Managers -> Ops]
  BY DEF BookInv, TypeOK
<1>2. op'[m] = o /\ \A n \in Managers : n # m => op'[n] = op[n]
  BY <1>1
<1>3. TypeOK'
  BY <1>1, <1>2 DEF BookInv, TypeOK
<1>4. BookConsistent'
  BY DEF BookInv, BookConsistent
<1>5. \A n \in Managers : Ready(n)'
  <2> SUFFICES ASSUME NEW n \in Managers PROVE Ready(n)'
    OBVIOUS
  <2>0. Ready(n)
    BY ReadyEquiv DEF BookInv
  <2>1. CASE n = m
    <3> SUFFICES ASSUME o.pc \in {"submit", "assign"} PROVE Ready(m)'
      BY <1>2, <2>1 DEF Ready
    <3>1. /\ op[m].pc \in {"submit", "assign"}
          /\ op'[m].t = op[m].t /\ op'[m].s = op[m].s /\ op'[m].seen = op[m].seen
      BY <1>2
    <3>2. Held(m, op[m].t)' = Held(m, op[m].t)
      BY <3>1 DEF Held
    <3> QED BY <2>0, <2>1, <3>1, <3>2
            DEF Ready, ensureSymbolAvailable, enforcePositionCapacity
  <2>2. CASE n # m
    BY <1>2, <2>0, <2>2, ReadyFrame
  <2> QED BY <2>1, <2>2
<1>6. OpenRechecked' /\ OpensFromReconciledBook'
  BY <1>5 DEF Ready, OpenRechecked, OpensFromReconciledBook
<1> QED BY <1>3, <1>4, <1>6 DEF BookInv
(* The idle decision is well formed.                                       *)
LEMMA IdleOpType == IdleOp \in Ops /\ IdleOp.pc = "idle"
BY DEF IdleOp, Ops, PCs, Flat, Positions

(* Only the account, or nothing, changes.                                  *)
LEMMA AccountKeeps ==
  ASSUME BookInv, account' \in Positions,
         UNCHANGED <<positionOwners, VirtualPositions, op>>
  PROVE  BookInv'
<1>1. TypeOK' /\ BookConsistent'
  BY DEF BookInv, TypeOK, BookConsistent
<1>2. \A n \in Managers : Ready(n)'
  BY ReadyEquiv, ReadyFrame DEF BookInv
<1>3. OpenRechecked' /\ OpensFromReconciledBook'
  BY <1>2 DEF Ready, OpenRechecked, OpensFromReconciledBook
<1> QED BY <1>1, <1>3 DEF BookInv

(* A reduce-only order keeps the type of the account.                      *)
LEMMA ReduceType ==
  ASSUME TypeOK, NEW s \in Symbols, ReducePosition(s)
  PROVE  account' \in Positions
<1>1. account \in [Symbols -> Int]
  BY DEF TypeOK, Positions
<1>2. PICK r \in Remainders(account[s]) : account' = [account EXCEPT ![s] = r]
  BY DEF ReducePosition
<1>3. r \in Int
  BY <1>1 DEF Remainders
<1> QED BY <1>1, <1>2, <1>3 DEF Positions

(* A fill keeps the type of the account.                                   *)
LEMMA FillType ==
  ASSUME TypeOK, NEW s \in Symbols, NEW f \in Int, FillPosition(s, f)
  PROVE  account' \in Positions
BY DEF TypeOK, Positions, FillPosition

(* An order of a size other than zero never counts as filled at zero.      *)
LEMMA FillsNonZero ==
  ASSUME NEW q \in Int, q # 0, NEW f \in Fills(q)
  PROVE  f \in Int /\ f # 0
BY DEF Fills

(* The one step that makes an order ready to be sent.                      *)
LEMMA RecheckKeeps ==
  ASSUME BookInv, NEW m \in Managers, Recheck(m)
  PROVE  BookInv'
<1> DEFINE t == op[m].t
           s == op[m].s
<1>1. /\ TypeOK /\ BookConsistent
      /\ op \in [Managers -> Ops] /\ account \in Positions
      /\ op[m].pc = "sync" /\ t \in Traders /\ s \in Symbols /\ op[m].q # 0
      /\ Reconcile(m, t)
      /\ account' = account
  BY DEF BookInv, TypeOK, Recheck
<1>2. op' = [op EXCEPT ![m].pc = "submit", ![m].seen = account]
  BY DEF Recheck
<1>3. /\ op'[m].pc = "submit" /\ op'[m].seen = account
      /\ op'[m].t = t /\ op'[m].s = s /\ op'[m].q = op[m].q
      /\ op'[m] \in Ops
      /\ \A n \in Managers : n # m => op'[n] = op[n]
      /\ op' \in [Managers -> Ops]
  BY <1>1, <1>2 DEF Ops, PCs
<1>4. /\ positionOwners' \in [Managers -> [Symbols -> Traders \cup {None}]]
      /\ VirtualPositions' \in [Managers -> [Traders -> Positions]]
      /\ BookConsistent'
      /\ \A n \in Managers : n # m => /\ positionOwners'[n] = positionOwners[n]
                                      /\ VirtualPositions'[n] = VirtualPositions[n]
  BY <1>1, ReconcileUpdates
<1>5. TypeOK'
  <2>1. \A n \in Managers : op'[n].pc # "idle" => op'[n].t \in Traders /\ op'[n].s \in Symbols
    BY <1>1, <1>3 DEF TypeOK
  <2>2. \A n \in Managers : op'[n].pc \in {"sync", "submit", "assign"} => op'[n].q # 0
    BY <1>1, <1>3 DEF TypeOK
  <2> QED BY <1>1, <1>3, <1>4, <2>1, <2>2 DEF TypeOK
<1>6. Ready(m)'
  <2>1. \A x \in Symbols :
          /\ account[x] # 0 => positionOwners'[m][x] # None
          /\ VirtualPositions'[m][t][x] # 0 => VirtualPositions'[m][t][x] = account[x]
    BY <1>1, ReconcileResult
  <2>2. ensureSymbolAvailable(m, op[m].s)' /\ enforcePositionCapacity(m, op[m].t)'
    BY DEF Recheck
  <2>3. account[s] = 0
    BY <1>1, <1>3, <2>1, <2>2 DEF ensureSymbolAvailable
  <2> QED BY <1>3, <2>1, <2>2, <2>3 DEF Ready
<1>7. \A n \in Managers : Ready(n)'
  BY <1>3, <1>4, <1>6, ReadyEquiv, ReadyFrame DEF BookInv
<1>8. OpenRechecked' /\ OpensFromReconciledBook'
  BY <1>7 DEF Ready, OpenRechecked, OpensFromReconciledBook
<1> QED BY <1>4, <1>5, <1>8 DEF BookInv
-------------------------------------------------------------------------------

(* The steps of a decision in flight.                                      *)
LEMMA StepKeeps ==
  ASSUME BookInv, NEW m \in Managers, Step(m)
  PROVE  BookInv'
<1>1. /\ TypeOK /\ BookConsistent
      /\ op \in [Managers -> Ops] /\ op[m] \in Ops
      /\ account \in Positions
      /\ op[m].pc # "idle" => op[m].t \in Traders /\ op[m].s \in Symbols
      /\ op[m].pc \in {"sync", "submit", "assign"} => op[m].q # 0
      /\ op[m].q \in Int
      /\ positionOwners \in [Managers -> [Symbols -> Traders \cup {None}]]
      /\ VirtualPositions \in [Managers -> [Traders -> Positions]]
  BY DEF BookInv, TypeOK, Ops
<1>2. ASSUME SyncFails(m) PROVE BookInv'
  <2>1. op' = [op EXCEPT ![m] = IdleOp] /\ account' = account /\ op[m].t \in Traders
    BY <1>1, <1>2 DEF SyncFails, Finish
  <2>2. CASE UNCHANGED <<positionOwners, VirtualPositions>>
    BY <1>1, <2>1, <2>2, IdleOpType, MoveKeeps
  <2>3. CASE ReconcileMismatch(m, op[m].t)
    BY <1>1, <2>1, <2>3, IdleOpType, IdleKeeps, ReconcileUpdates
  <2> QED BY <1>2, <2>2, <2>3 DEF SyncFails
<1>3. ASSUME Recheck(m) PROVE BookInv'
  BY <1>3, RecheckKeeps
<1>4. ASSUME RecheckRejects(m) PROVE BookInv'
  <2>1. /\ op' = [op EXCEPT ![m] = IdleOp] /\ account' = account
        /\ op[m].t \in Traders /\ Reconcile(m, op[m].t)
    BY <1>1, <1>4 DEF RecheckRejects, Finish
  <2> QED BY <1>1, <2>1, IdleOpType, IdleKeeps, ReconcileUpdates
<1>5. ASSUME OrderFilled(m) PROVE BookInv'
  <2>1. PICK f \in Fills(op[m].q) :
          /\ FillPosition(op[m].s, f)
          /\ op' = [op EXCEPT ![m].pc = "assign", ![m].q = f]
    BY <1>5 DEF OrderFilled
  <2>2. f \in Int /\ f # 0
    BY <1>1, <1>5, FillsNonZero DEF OrderFilled
  <2> DEFINE o == [op[m] EXCEPT !.pc = "assign", !.q = f]
  <2>3. /\ o \in Ops /\ o.pc = "assign" /\ o.q = f
        /\ o.t = op[m].t /\ o.s = op[m].s /\ o.seen = op[m].seen
    BY <1>1, <2>2 DEF Ops, PCs
  <2>4. op' = [op EXCEPT ![m] = o]
    BY <1>1, <2>1
  <2>5. account' \in Positions
    BY <1>1, <1>5, <2>1, <2>2, FillType DEF OrderFilled
  <2>6. op[m].pc = "submit" /\ UNCHANGED <<positionOwners, VirtualPositions>>
    BY <1>5 DEF OrderFilled
  <2> HIDE DEF o
  <2> QED BY <1>1, <2>2, <2>3, <2>4, <2>5, <2>6, MoveKeeps
<1>6. ASSUME OrderUnreported(m) PROVE BookInv'
  <2> DEFINE o == [op[m] EXCEPT !.pc = "assign"]
  <2>1. /\ o \in Ops /\ o.pc = "assign" /\ o.q = op[m].q
        /\ o.t = op[m].t /\ o.s = op[m].s /\ o.seen = op[m].seen
    BY <1>1 DEF Ops, PCs
  <2>2. op' = [op EXCEPT ![m] = o]
    BY <1>1, <1>6 DEF OrderUnreported, Goto
  <2>3. /\ op[m].pc = "submit" /\ account' = account
        /\ UNCHANGED <<positionOwners, VirtualPositions>>
    BY <1>6 DEF OrderUnreported
  <2> HIDE DEF o
  <2> QED BY <1>1, <2>1, <2>2, <2>3, MoveKeeps
<1>7. ASSUME OrderFails(m) PROVE BookInv'
  <2>1. op' = [op EXCEPT ![m] = IdleOp] /\ UNCHANGED <<positionOwners, VirtualPositions>>
    BY <1>7 DEF OrderFails, Finish
  <2>2. account' \in Positions
    BY <1>1, <1>7, FillType, FillsNonZero DEF OrderFails
  <2> QED BY <1>1, <2>1, <2>2, IdleOpType, MoveKeeps
<1>8. ASSUME BookOpen(m) PROVE BookInv'
  <2> DEFINE at == [x \in Symbols |-> op[m].q]
  <2>1. /\ op[m].pc = "assign" /\ op[m].t \in Traders /\ op[m].s \in Symbols
        /\ op[m].q # 0 /\ account' = account
        /\ op' = [op EXCEPT ![m] = IdleOp]
        /\ UpdateBook(m, op[m].t, {op[m].s}, at, {})
    BY <1>1, <1>8 DEF BookOpen, Finish, assignVirtualPosition
  <2>2. at \in Positions /\ \A s \in {op[m].s} : at[s] # 0
    BY <1>1, <2>1 DEF Positions
  <2> HIDE DEF at
  <2>3. /\ positionOwners' \in [Managers -> [Symbols -> Traders \cup {None}]]
        /\ VirtualPositions' \in [Managers -> [Traders -> Positions]]
    BY <1>1, <2>1, <2>2, UpdateBookType
  <2>4. BookConsistent'
    BY <1>1, <2>1, <2>2, UpdateBookConsistent
  <2>5. \A n \in Managers : n # m => /\ positionOwners'[n] = positionOwners[n]
                                     /\ VirtualPositions'[n] = VirtualPositions[n]
    BY <1>1, <2>1, <2>2, UpdateBookOthers
  <2> QED BY <1>1, <2>1, <2>3, <2>4, <2>5, IdleOpType, IdleKeeps
<1>9. ASSUME CloseAccepted(m) PROVE BookInv'
  <2> DEFINE o == [op[m] EXCEPT !.pc = "release"]
  <2>1. o \in Ops /\ o.pc = "release" /\ o.t = op[m].t /\ o.s = op[m].s
    BY <1>1 DEF Ops, PCs
  <2>2. op' = [op EXCEPT ![m] = o]
    BY <1>1, <1>9 DEF CloseAccepted, Goto
  <2>3. op[m].pc = "close" /\ UNCHANGED <<positionOwners, VirtualPositions>>
    BY <1>9 DEF CloseAccepted
  <2>4. account' \in Positions
    BY <1>1, <1>9, <2>3, ReduceType DEF CloseAccepted
  <2> HIDE DEF o
  <2> QED BY <1>1, <2>1, <2>2, <2>3, <2>4, MoveKeeps
<1>10. ASSUME CloseFails(m) PROVE BookInv'
  <2>1. op' = [op EXCEPT ![m] = IdleOp] /\ UNCHANGED <<positionOwners, VirtualPositions>>
    BY <1>10 DEF CloseFails, Finish
  <2>2. account' \in Positions
    BY <1>1, <1>10, ReduceType DEF CloseFails
  <2> QED BY <1>1, <2>1, <2>2, IdleOpType, MoveKeeps
<1>11. ASSUME BookClose(m) PROVE BookInv'
  <2>1. /\ op[m].pc = "release" /\ op[m].t \in Traders /\ op[m].s \in Symbols
        /\ account' = account /\ op' = [op EXCEPT ![m] = IdleOp]
        /\ UpdateBook(m, op[m].t, {}, Flat, {op[m].s})
        /\ Flat \in Positions
    BY <1>1, <1>11 DEF BookClose, Finish, releaseVirtualPosition, Flat, Positions
  <2>2. /\ positionOwners' \in [Managers -> [Symbols -> Traders \cup {None}]]
        /\ VirtualPositions' \in [Managers -> [Traders -> Positions]]
    BY <1>1, <2>1, UpdateBookType
  <2>3. BookConsistent'
    BY <1>1, <2>1, UpdateBookConsistent
  <2>4. \A n \in Managers : n # m => /\ positionOwners'[n] = positionOwners[n]
                                     /\ VirtualPositions'[n] = VirtualPositions[n]
    BY <1>1, <2>1, UpdateBookOthers
  <2> QED BY <1>1, <2>1, <2>2, <2>3, <2>4, IdleOpType, IdleKeeps
<1> QED
  BY <1>2, <1>3, <1>4, <1>5, <1>6, <1>7, <1>8, <1>9, <1>10, <1>11 DEF Step
(* Every step of Managers and exchange preserves the invariant.            *)
LEMMA NextKeeps == BookInv /\ [Next]_vars => BookInv'
<1> SUFFICES ASSUME BookInv, [Next]_vars PROVE BookInv'
  OBVIOUS
<1>1. /\ TypeOK /\ BookConsistent
      /\ op \in [Managers -> Ops]
      /\ account \in Positions
      /\ positionOwners \in [Managers -> [Symbols -> Traders \cup {None}]]
      /\ VirtualPositions \in [Managers -> [Traders -> Positions]]
  BY DEF BookInv, TypeOK
<1>2. ASSUME NEW m \in Managers, Step(m) PROVE BookInv'
  BY <1>2, StepKeeps
<1>3. ASSUME NEW m \in Managers, NEW t \in Traders, NEW s \in Symbols,
             NEW q \in Int, q # 0, ApproveOpen(m, t, s, q)
      PROVE  BookInv'
  <2> DEFINE o == [IdleOp EXCEPT !.pc = "sync", !.t = t, !.s = s, !.q = q]
  <2>1. o \in Ops /\ o.pc = "sync" /\ o.t = t /\ o.s = s /\ o.q = q
    BY <1>3, IdleOpType DEF Ops, PCs
  <2>2. op' = [op EXCEPT ![m] = o]
    BY <1>3 DEF ApproveOpen
  <2>3. account' = account /\ UNCHANGED <<positionOwners, VirtualPositions>>
    BY <1>3 DEF ApproveOpen
  <2> HIDE DEF o
  <2> QED BY <1>1, <1>3, <2>1, <2>2, <2>3, MoveKeeps
<1>4. ASSUME NEW m \in Managers, NEW t \in Traders, NEW s \in Symbols,
             ApproveClose(m, t, s)
      PROVE  BookInv'
  <2> DEFINE o == [IdleOp EXCEPT !.pc = "close", !.t = t, !.s = s]
  <2>1. o \in Ops /\ o.pc = "close" /\ o.t = t /\ o.s = s
    BY <1>4, IdleOpType DEF Ops, PCs
  <2>2. op' = [op EXCEPT ![m] = o]
    BY <1>4 DEF ApproveClose
  <2>3. account' = account /\ UNCHANGED <<positionOwners, VirtualPositions>>
    BY <1>4 DEF ApproveClose
  <2> HIDE DEF o
  <2> QED BY <1>1, <1>4, <2>1, <2>2, <2>3, MoveKeeps
<1>5. ASSUME NEW m \in Managers, NEW t \in Traders,
             SyncTraderPositions(m, t) \/ SyncTraderMismatch(m, t)
      PROVE  BookInv'
  <2>1. /\ op[m].pc = "idle" /\ account' = account /\ op' = op
        /\ Reconcile(m, t) \/ ReconcileMismatch(m, t)
    BY <1>5 DEF SyncTraderPositions, SyncTraderMismatch
  <2>2. op' = [op EXCEPT ![m] = op[m]] /\ op[m] \in Ops
    BY <1>1, <2>1
  <2> QED BY <1>1, <2>1, <2>2, ReconcileUpdates, IdleKeeps
<1>6. ASSUME NEW m \in Managers, Restart(m) PROVE BookInv'
  <2>1. /\ positionOwners' = [positionOwners EXCEPT ![m] = [s \in Symbols |-> None]]
        /\ VirtualPositions' = [VirtualPositions EXCEPT ![m] = [t \in Traders |-> Flat]]
        /\ op' = [op EXCEPT ![m] = IdleOp] /\ account' = account
    BY <1>6 DEF Restart, Finish
  <2>2. /\ positionOwners' \in [Managers -> [Symbols -> Traders \cup {None}]]
        /\ VirtualPositions' \in [Managers -> [Traders -> Positions]]
        /\ \A n \in Managers : n # m => /\ positionOwners'[n] = positionOwners[n]
                                        /\ VirtualPositions'[n] = VirtualPositions[n]
    BY <1>1, <2>1 DEF Flat, Positions
  <2>3. BookConsistent'
    BY <1>1, <2>1, BookAssumption DEF BookConsistent, Flat
  <2> QED BY <1>1, <2>1, <2>2, <2>3, IdleOpType, IdleKeeps
<1>7. ASSUME NEW s \in Symbols, TriggerFires(s) PROVE BookInv'
  BY <1>1, <1>7, ReduceType, AccountKeeps DEF TriggerFires
<1>8. CASE UNCHANGED vars
  BY <1>1, <1>8, AccountKeeps DEF vars
<1>9. \A n \in OrderSizes : n \in Int /\ n # 0 /\ -n \in Int /\ -n # 0
  BY BookAssumption
<1>10. LoopManagers \subseteq Managers
  BY BookAssumption
<1> QED
  BY <1>2, <1>3, <1>4, <1>5, <1>6, <1>7, <1>8, <1>9, <1>10 DEF Next

(* Books are consistent and orders leave rechecked and reconciled, in      *)
(* every reachable state (ReconcileTraderPositions,                        *)
(* executeDecisionWithApproval).                                           *)
THEOREM BookInvariant == Spec => []BookInv
BY BookInit, NextKeeps, PTL DEF Spec

(* Type correctness of the book, the account and the decisions in flight.  *)
THEOREM TypeCorrect == Spec => []TypeOK
<1>1. BookInv => TypeOK
  BY DEF BookInv
<1> QED BY <1>1, BookInvariant, PTL

(* The two maps of every Manager's book never drift apart, whatever        *)
(* interleaving of decisions, syncs, restarts and exchange events.         *)
THEOREM BookStaysConsistent == Spec => []BookConsistent
<1>1. BookInv => BookConsistent
  BY DEF BookInv
<1> QED BY <1>1, BookInvariant, PTL

(* Every opening order is sent and booked under the checks repeated after  *)
(* the account sync: free symbol, free slot.                               *)
THEOREM OpensAreRechecked == Spec => []OpenRechecked
<1>1. BookInv => OpenRechecked
  BY DEF BookInv
<1> QED BY <1>1, BookInvariant, PTL

(* Every opening order leaves from a book that agrees with the positions   *)
(* the sync read, and in which every open position has an owner.           *)
THEOREM OpensAreReconciled == Spec => []OpensFromReconciledBook
<1>1. BookInv => OpensFromReconciledBook
  BY DEF BookInv
<1> QED BY <1>1, BookInvariant, PTL
-------------------------------------------------------------------------------

(* Booking a filled open stays within max_positions: the slot the recheck  *)
(* found free is still free, and the booking adds one symbol at most.      *)
THEOREM BookingsWithinCapacity == Spec => BookingWithinCapacity
<1>1. ASSUME BookInv, NEW m \in Managers, NEW t \in Traders,
             BookOpen(m), op[m].t = t, MaxPositions > 0
      PROVE  Cardinality(Held(m, t)') <= MaxPositions
  <2> DEFINE s == op[m].s
             at == [x \in Symbols |-> op[m].q]
  <2>1. /\ op[m].pc = "assign" /\ s \in Symbols
        /\ UpdateBook(m, t, {s}, at, {})
        /\ VirtualPositions \in [Managers -> [Traders -> Positions]]
    BY <1>1 DEF BookInv, TypeOK, BookOpen, assignVirtualPosition
  <2>2. Cardinality(Held(m, t)) < MaxPositions
    BY <1>1, <2>1 DEF BookInv, OpenRechecked, enforcePositionCapacity
  <2>3. IsFiniteSet(Held(m, t)) /\ MaxPositions \in Nat
    <3>1. Held(m, t) \subseteq Symbols
      BY DEF Held
    <3> QED BY <3>1, BookAssumption, FS_Subset
  <2>4. /\ IsFiniteSet(Held(m, t) \cup {s})
        /\ Cardinality(Held(m, t) \cup {s}) <= Cardinality(Held(m, t)) + 1
    <3> DEFINE H == Held(m, t)
    <3> HIDE DEF H, s
    <3>1. CASE s \in H
      <4>1. H \cup {s} = H
        BY <3>1
      <4>2. Cardinality(H) \in Nat
        BY <2>3, FS_CardinalityType DEF H
      <4> QED BY <2>3, <4>1, <4>2 DEF H
    <3>2. CASE s \notin H
      <4>1. /\ IsFiniteSet(H \cup {s})
            /\ Cardinality(H \cup {s}) = Cardinality(H) + 1
        BY <2>3, <3>2, FS_AddElement DEF H
      <4>2. Cardinality(H) \in Nat
        BY <2>3, FS_CardinalityType DEF H
      <4> QED BY <4>1, <4>2 DEF H
    <3> QED BY <3>1, <3>2
  <2>5. Held(m, t)' \subseteq Held(m, t) \cup {s}
    <3>1. \A x \in Symbols \ {s} : VirtualPositions'[m][t][x] = VirtualPositions[m][t][x]
      BY <2>1 DEF UpdateBook
    <3> QED BY <3>1 DEF Held
  <2>6. Cardinality(Held(m, t)') <= Cardinality(Held(m, t) \cup {s})
    BY <2>4, <2>5, FS_Subset
  <2>7. /\ Cardinality(Held(m, t)) \in Nat
        /\ Cardinality(Held(m, t) \cup {s}) \in Nat
        /\ Cardinality(Held(m, t)') \in Nat
    BY <2>3, <2>4, <2>5, FS_Subset, FS_CardinalityType
  <2> QED BY <2>2, <2>3, <2>4, <2>6, <2>7
<1>2. BookInv /\ [Next]_vars =>
        [\A m \in Managers, t \in Traders :
           BookOpen(m) /\ op[m].t = t /\ MaxPositions > 0
             => Cardinality(Held(m, t)') <= MaxPositions]_vars
  BY <1>1
<1> QED BY <1>2, BookInvariant, PTL DEF Spec, BookingWithinCapacity

-------------------------------------------------------------------------------

(* With one Manager nothing but reduce-only orders touches the account     *)
(* between the sync and the submission, so the symbol stays flat.          *)
FlatUntilFilled == \A m \in Managers : op[m].pc = "submit" => account[op[m].s] = 0

(* With one Manager the symbol of an order about to be sent stays flat.    *)
LEMMA FlatKept ==
  ASSUME \A m, n \in Managers : m = n,
         BookInv, BookInv', FlatUntilFilled, [Next]_vars
  PROVE  FlatUntilFilled'
<1> SUFFICES ASSUME NEW m \in Managers, op'[m].pc = "submit"
             PROVE  account'[op'[m].s] = 0
  BY DEF FlatUntilFilled
<1>1. /\ op \in [Managers -> Ops] /\ account \in [Symbols -> Int]
      /\ op[m].pc # "idle" => op[m].s \in Symbols
      /\ op'[m].seen[op'[m].s] = 0
  BY DEF BookInv, TypeOK, Positions, OpensFromReconciledBook
<1>2. ASSUME Recheck(m) PROVE account'[op'[m].s] = 0
  BY <1>1, <1>2 DEF Recheck, Ops
<1>3. ASSUME NEW s \in Symbols, TriggerFires(s) PROVE account'[op'[m].s] = 0
  <2>1. /\ op' = op /\ account[s] # 0
        /\ \A x \in Symbols : x # s => account'[x] = account[x]
    BY <1>1, <1>3 DEF TriggerFires, ReducePosition
  <2>2. op[m].s \in Symbols /\ account[op[m].s] = 0
    BY <1>1, <2>1 DEF FlatUntilFilled
  <2> QED BY <2>1, <2>2
<1>4. ASSUME op' = op, account' = account PROVE account'[op'[m].s] = 0
  BY <1>4 DEF FlatUntilFilled
<1>5. ASSUME NEW n \in Managers, op' = [op EXCEPT ![n] = IdleOp]
      PROVE  FALSE
  BY <1>1, <1>5 DEF IdleOp
<1>6. ASSUME NEW n \in Managers, Step(n) PROVE account'[op'[m].s] = 0
  <2>1. n = m
    OBVIOUS
  <2>2. CASE Recheck(n)
    BY <1>2, <2>1, <2>2
  <2>3. CASE SyncFails(n) \/ RecheckRejects(n) \/ OrderFails(n)
             \/ BookOpen(n) \/ CloseFails(n) \/ BookClose(n)
    BY <1>5, <2>3
       DEF SyncFails, RecheckRejects, OrderFails, BookOpen, CloseFails, BookClose, Finish
  <2>4. CASE OrderFilled(n) \/ OrderUnreported(n) \/ CloseAccepted(n)
    <3>1. op'[m].pc \in {"assign", "release"}
      BY <1>1, <2>1, <2>4 DEF OrderFilled, OrderUnreported, CloseAccepted, Goto, Ops
    <3> QED BY <3>1
  <2> QED BY <1>6, <2>2, <2>3, <2>4 DEF Step
<1>7. ASSUME NEW n \in Managers, NEW t \in Traders, NEW s \in Symbols, NEW q,
             ApproveOpen(n, t, s, q) \/ ApproveClose(n, t, s)
      PROVE  FALSE
  <2>1. n = m
    OBVIOUS
  <2>2. op'[m].pc \in {"sync", "close"}
    BY <1>1, <1>7, <2>1 DEF ApproveOpen, ApproveClose, IdleOp
  <2> QED BY <2>2
<1>8. ASSUME NEW n \in LoopManagers, NEW t \in Traders,
             SyncTraderPositions(n, t) \/ SyncTraderMismatch(n, t)
      PROVE  account'[op'[m].s] = 0
  BY <1>4, <1>8 DEF SyncTraderPositions, SyncTraderMismatch
<1>9. ASSUME NEW n \in Managers, Restart(n) PROVE FALSE
  BY <1>5, <1>9 DEF Restart, Finish
<1>10. CASE UNCHANGED vars
  BY <1>4, <1>10 DEF vars
<1> QED BY <1>3, <1>6, <1>7, <1>8, <1>9, <1>10 DEF Next

(* With a single Manager no opening fill lands on a symbol that already    *)
(* has a position.                                                         *)
THEOREM NoStackingBySingleManager ==
  ASSUME \A m, n \in Managers : m = n
  PROVE  Spec => NoStackedOpens
<1>1. Init => FlatUntilFilled
  BY DEF Init, FlatUntilFilled, IdleOp
<1>2. BookInv /\ BookInv' /\ FlatUntilFilled /\ [Next]_vars => FlatUntilFilled'
  BY FlatKept
<1>3. FlatUntilFilled =>
        [\A m \in Managers : OrderFilled(m) => account[op[m].s] = 0]_vars
  BY DEF FlatUntilFilled, OrderFilled
<1> QED BY <1>1, <1>2, <1>3, BookInvariant, PTL DEF Spec, NoStackedOpens

-------------------------------------------------------------------------------
(* What a sync repairs, and what it never does.                            *)

(* The trader's entries are the account's, and every open position has an  *)
(* owner.                                                                  *)
Reconciled(m, t) ==
  \A s \in Symbols : /\ VirtualPositions[m][t][s] # 0 => VirtualPositions[m][t][s] = account[s]
                     /\ account[s] # 0 => positionOwners[m][s] # None

(* A sync that succeeds leaves no stale entry of its trader and no         *)
(* position of the account without an owner, whatever triggers, lost       *)
(* answers, the other Managers and restarts did before                     *)
(* (ReconcileTraderPositions).                                             *)
SyncsReconcile ==
  \A m \in LoopManagers, t \in Traders : SyncTraderPositions(m, t) => Reconciled(m, t)'

(* A successful ReconcileTraderPositions leaves the trader's entries equal *)
(* to the account's and every open position owned, in any history.         *)
THEOREM SyncsLeaveReconciled == Spec => [][SyncsReconcile]_vars
<1>1. ASSUME BookInv, NEW m \in LoopManagers, NEW t \in Traders, SyncTraderPositions(m, t)
      PROVE  Reconciled(m, t)'
  <2>1. m \in Managers
    BY BookAssumption
  <2>2. Reconcile(m, t) /\ account' = account
    BY <1>1 DEF SyncTraderPositions
  <2>3. \A s \in Symbols : /\ account[s] # 0 => positionOwners'[m][s] # None
                           /\ VirtualPositions'[m][t][s] # 0 => VirtualPositions'[m][t][s] = account[s]
    BY <1>1, <2>1, <2>2, ReconcileResult DEF BookInv
  <2> QED BY <2>2, <2>3 DEF Reconciled
<1>2. BookInv /\ [Next]_vars => [SyncsReconcile]_vars
  BY <1>1 DEF SyncsReconcile
<1> QED BY <1>2, BookInvariant, PTL DEF Spec

(* An entry that disagrees with a position of the account stays as it is   *)
(* through every sync of every trader: a booked close of the same Manager  *)
(* and its restart are the only steps that change it.                      *)
LEMMA MismatchedEntryStands ==
  ASSUME BookInv, [Next]_vars, NEW m \in Managers, NEW t \in Traders, NEW s \in Mismatched(m, t),
         ~BookClose(m), ~Restart(m)
  PROVE  VirtualPositions'[m][t][s] = VirtualPositions[m][t][s]
<1>1. /\ s \in Symbols /\ VirtualPositions[m][t][s] # 0 /\ account[s] # 0 /\ Mismatched(m, t) # {}
      /\ s \notin Missing(m, t)
  BY DEF Mismatched, Held, Missing
<1>2. /\ VirtualPositions \in [Managers -> [Traders -> Positions]] /\ TypeOK /\ BookConsistent
      /\ Flat \in Positions /\ account \in Positions
  BY DEF BookInv, TypeOK, Flat, Positions
<1>3. positionOwners[m][s] = t /\ t # None
  BY <1>1, <1>2, BookAssumption DEF BookConsistent
<1>4. ASSUME NEW n \in Managers, NEW u \in Traders, NEW take, NEW at \in Positions, NEW drop,
             UpdateBook(n, u, take, at, drop), n # m \/ u # t \/ (s \notin take /\ s \notin drop)
      PROVE  VirtualPositions'[m][t][s] = VirtualPositions[m][t][s]
  BY <1>1, <1>2, <1>4 DEF UpdateBook, Positions
<1>5. ASSUME NEW n \in Managers, NEW u \in Traders, Reconcile(n, u) \/ ReconcileMismatch(n, u)
      PROVE  VirtualPositions'[m][t][s] = VirtualPositions[m][t][s]
  <2>1. CASE Reconcile(n, u)
    <3>1. n # m \/ u # t
      BY <1>1, <2>1 DEF Reconcile
    <3>2. UpdateBook(n, u, Adoptable(n, u), account, Missing(n, u))
      BY <2>1 DEF Reconcile
    <3> QED BY <1>2, <1>4, <3>1, <3>2
  <2>2. CASE ReconcileMismatch(n, u)
    <3>1. PICK part \in SUBSET Missing(n, u) : UpdateBook(n, u, {}, Flat, part)
      BY <2>2 DEF ReconcileMismatch, releaseVirtualPosition
    <3>2. n # m \/ u # t \/ (s \notin {} /\ s \notin part)
      BY <1>1, <3>1
    <3> QED BY <1>2, <1>4, <3>1, <3>2
  <2> QED BY <1>5, <2>1, <2>2
<1>6. ASSUME NEW n \in Managers, Step(n)
      PROVE  VirtualPositions'[m][t][s] = VirtualPositions[m][t][s]
  <2>1. op[n].pc # "idle" => op[n].t \in Traders /\ op[n].s \in Symbols
    BY <1>2 DEF TypeOK
  <2>2. CASE SyncFails(n) \/ Recheck(n) \/ RecheckRejects(n)
    <3>1. op[n].t \in Traders
      BY <2>1, <2>2 DEF SyncFails, Recheck, RecheckRejects
    <3>2. VirtualPositions' = VirtualPositions \/ Reconcile(n, op[n].t) \/ ReconcileMismatch(n, op[n].t)
      BY <2>2 DEF SyncFails, Recheck, RecheckRejects
    <3> QED BY <1>5, <3>1, <3>2
  <2>3. CASE BookOpen(n)
    <3>1. op[n].pc = "assign" /\ op[n].t \in Traders /\ op[n].s \in Symbols /\ op[n].q \in Int
      BY <2>1, <2>3 DEF BookOpen, BookInv, TypeOK, Ops
    <3>2. positionOwners[n][op[n].s] = None
      BY <3>1 DEF BookInv, OpenRechecked, ensureSymbolAvailable
    <3>3. n # m \/ op[n].s # s
      BY <1>3, <3>2
    <3> DEFINE at == [x \in Symbols |-> op[n].q]
    <3>4. UpdateBook(n, op[n].t, {op[n].s}, at, {}) /\ at \in Positions
      BY <2>3, <3>1 DEF BookOpen, assignVirtualPosition, Positions
    <3> HIDE DEF at
    <3>5. n # m \/ op[n].t # t \/ (s \notin {op[n].s} /\ s \notin {})
      BY <3>3
    <3> QED BY <1>4, <3>1, <3>4, <3>5
  <2>4. CASE BookClose(n)
    <3>1. n # m
      BY <2>4
    <3>2. op[n].t \in Traders /\ UpdateBook(n, op[n].t, {}, Flat, {op[n].s})
      BY <2>1, <2>4 DEF BookClose, releaseVirtualPosition
    <3> QED BY <1>2, <1>4, <3>1, <3>2
  <2>5. CASE OrderFilled(n) \/ OrderUnreported(n) \/ OrderFails(n) \/ CloseAccepted(n) \/ CloseFails(n)
    BY <2>5 DEF OrderFilled, OrderUnreported, OrderFails, CloseAccepted, CloseFails
  <2> QED BY <1>6, <2>2, <2>3, <2>4, <2>5 DEF Step
<1>7. ASSUME NEW n \in Managers, Restart(n)
      PROVE  VirtualPositions'[m][t][s] = VirtualPositions[m][t][s]
  <2>1. n # m
    BY <1>7
  <2> QED BY <1>2, <1>7, <2>1 DEF Restart
<1>8. ASSUME NEW n \in LoopManagers, NEW u \in Traders, SyncTraderPositions(n, u) \/ SyncTraderMismatch(n, u)
      PROVE  VirtualPositions'[m][t][s] = VirtualPositions[m][t][s]
  <2>1. n \in Managers
    BY BookAssumption
  <2> QED BY <1>5, <1>8, <2>1 DEF SyncTraderPositions, SyncTraderMismatch
<1>9. ASSUME VirtualPositions' = VirtualPositions
      PROVE  VirtualPositions'[m][t][s] = VirtualPositions[m][t][s]
  BY <1>9
<1> QED BY <1>6, <1>7, <1>8, <1>9 DEF Next, ApproveOpen, ApproveClose, TriggerFires, vars

(* No sync ever repairs a mismatch: while the account's position stays as  *)
(* it is, an entry of another size goes only with a booked close of its    *)
(* Manager or with a restart.  Until then every open of the trader is      *)
(* refused, because its sync fails (ReconcileTraderPositions).             *)
MismatchesStand ==
  \A m \in Managers, t \in Traders, s \in Symbols :
    s \in Mismatched(m, t) /\ account'[s] = account[s]
      => s \in Mismatched(m, t)' \/ BookClose(m) \/ Restart(m)

(* A mismatched entry is beyond reconciliation: only a booked close or a   *)
(* restart of its Manager, or a move of the account, ends it.              *)
THEOREM MismatchesOutliveSyncs == Spec => [][MismatchesStand]_vars
<1>1. ASSUME BookInv, [Next]_vars, NEW m \in Managers, NEW t \in Traders, NEW s \in Symbols,
             s \in Mismatched(m, t), account'[s] = account[s], ~BookClose(m), ~Restart(m)
      PROVE  s \in Mismatched(m, t)'
  <2>1. VirtualPositions'[m][t][s] = VirtualPositions[m][t][s]
    BY <1>1, MismatchedEntryStands
  <2> QED BY <1>1, <2>1 DEF Mismatched, Held
<1>2. BookInv /\ [Next]_vars => [MismatchesStand]_vars
  BY <1>1, Zenon DEF MismatchesStand
<1> QED BY <1>2, BookInvariant, PTL DEF Spec

===============================================================================
