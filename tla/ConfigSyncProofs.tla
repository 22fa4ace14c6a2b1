--------------------------- MODULE ConfigSyncProofs ---------------------------
(* Proofs about ConfigSync for any processes, traders and configurations.  *)
EXTENDS ConfigSync, FiniteSetTheorems, TLAPS

Yamls == [Traders -> Configs \cup {Absent}]

(* A row of trader_config that was written.                                *)
Written == [version : Nat \ {0}, config : Configs]

Sync == [pc : {"find", "write", "list"}, yaml : Yamls, found : {NoRowOf} \cup Written, todo : Seq(Traders)]

(* A trader as a process has it: the version of a file's trader is 0.      *)
Rows == [version : Nat, config : Configs \cup {Absent}]

UpRecords ==
  [pc : {"up"}, source : [Traders -> Rows], listed : BOOLEAN, todo : Seq(Traders), saving : BOOLEAN]

(* Whoever saves has a trader in hand.                                     *)
Ups == {up \in UpRecords : up.saving => up.todo # <<>>}

(* Tables and processes have their shapes, whatever the bound on starts.   *)
Shapes ==
  /\ conf \in [Traders -> {NoRowOf} \cup Written]
  /\ history \subseteq [trader : Traders, row : Written]
  /\ proc = [p \in Procs |-> proc[p]]
  /\ \A p \in Procs : proc[p].pc = "off" \/ proc[p] \in Ups \cup Sync
  /\ starts \in 0..MaxStarts /\ overlapped \in BOOLEAN

(* The traders still to be synced are in the file, each once.              *)
TodoSound ==
  \A p \in Procs : Syncing(p) =>
    /\ proc[p].todo # <<>>
    /\ \A i \in DOMAIN proc[p].todo : proc[p].yaml[proc[p].todo[i]] \in Configs
    /\ \A i, j \in DOMAIN proc[p].todo : proc[p].todo[i] = proc[p].todo[j] => i = j

(* The processes that may still write trader t.                            *)
Pending(t) == {p \in Procs : Syncing(p) /\ \E i \in DOMAIN proc[p].todo : proc[p].todo[i] = t}

(* Every version was paid for by a start: the one in the table, and the    *)
(* one a process has read, which may be higher or lower by now.            *)
VersionsPaid ==
  /\ \A t \in Traders : conf[t].version + Cardinality(Pending(t)) <= starts
  /\ \A p \in Procs : proc[p].pc = "write" =>
       proc[p].found.version + Cardinality(Pending(Current(p))) <= starts
  /\ \A h \in history : h.row.version <= starts

(* Without an overlap one process syncs, and the row it read is current.   *)
Undisturbed ==
  ~overlapped =>
    /\ \A p, q \in Procs : Syncing(p) /\ Syncing(q) => p = q
    /\ \A p \in Procs : proc[p].pc = "write" => proc[p].found = conf[Current(p)]

(* The history holds every current row.                                    *)
RowsRecorded ==
  \A t \in Traders : conf[t] # NoRowOf => [trader |-> t, row |-> conf[t]] \in history

(* The inductive invariant of the tables and the syncs.                    *)
ConfigInv == Shapes /\ TodoSound /\ VersionsPaid /\ Undisturbed /\ RowsRecorded /\ VersionsIdentify

-------------------------------------------------------------------------------

(* No process is pending at first.                                         *)
LEMMA ConfigInitHolds == ConfigInit => ConfigInv
<1> SUFFICES ASSUME ConfigInit PROVE ConfigInv
  OBVIOUS
<1>1. /\ \A p \in Procs : proc[p].pc = "off"
      /\ \A t \in Traders : conf[t] = NoRowOf
      /\ history = {} /\ starts = 0 /\ MaxStarts \in Nat
  BY ConfigAssumption DEF ConfigInit, Off
<1>2. overlapped \in BOOLEAN
  BY DEF ConfigInit
<1>3. /\ proc = [p \in Procs |-> proc[p]]
      /\ conf \in [Traders -> {NoRowOf} \cup Written]
  BY DEF ConfigInit
<1>4. Shapes
  BY <1>1, <1>2, <1>3 DEF Shapes
<1>5. TodoSound /\ Undisturbed
  BY <1>1 DEF TodoSound, Undisturbed, Syncing
<1>6. VersionsPaid
  <2>1. ASSUME NEW t \in Traders PROVE Cardinality(Pending(t)) = 0
    BY <1>1, FS_EmptySet DEF Pending, Syncing
  <2> QED BY <1>1, <2>1 DEF VersionsPaid, NoRowOf
<1>7. RowsRecorded
  BY <1>1 DEF RowsRecorded
<1>8. VersionsIdentify
  BY <1>1 DEF VersionsIdentify, NoRowOf
<1> QED BY <1>4, <1>5, <1>6, <1>7, <1>8 DEF ConfigInv

-------------------------------------------------------------------------------
(* Facts about a sync under way.                                           *)

(* The processes at a trader are finitely many.                            *)
LEMMA PendingFinite ==
  ASSUME NEW t \in Traders
  PROVE  IsFiniteSet(Pending(t)) /\ Cardinality(Pending(t)) \in Nat
<1>1. Pending(t) \in SUBSET Procs
  BY DEF Pending
<1> QED BY <1>1, ConfigAssumption, FS_Subset, FS_CardinalityType

(* What a syncing process has in hand: a trader of its list, and a place   *)
(* among the processes at that trader.                                     *)
LEMMA SyncFacts ==
  ASSUME ConfigInv, NEW p \in Procs, Syncing(p)
  PROVE  /\ proc[p] \in Sync /\ proc[p].todo \in Seq(Traders) /\ proc[p].todo # <<>>
         /\ Current(p) \in Traders /\ Wanted(p) \in Configs
         /\ p \in Pending(Current(p)) /\ Cardinality(Pending(Current(p))) >= 1
<1>1. proc[p] \in Sync /\ proc[p].todo # <<>>
  BY DEF ConfigInv, Shapes, TodoSound, Syncing, Ups, UpRecords
<1>2. proc[p].todo \in Seq(Traders)
  BY <1>1 DEF Sync
<1>3. 1 \in DOMAIN proc[p].todo /\ Current(p) = proc[p].todo[1] /\ Current(p) \in Traders
  BY <1>1, <1>2 DEF Current
<1>4. Wanted(p) \in Configs
  BY <1>3 DEF Wanted, ConfigInv, TodoSound
<1>5. p \in Pending(Current(p))
  BY <1>3 DEF Pending
<1>6. Cardinality(Pending(Current(p))) # 0
  BY <1>3, <1>5, PendingFinite, FS_EmptySet
<1> QED BY <1>1, <1>2, <1>3, <1>4, <1>5, <1>6, PendingFinite

(* A process that moves on to its next trader is pending for one less.     *)
LEMMA AdvanceFacts ==
  ASSUME ConfigInv, NEW p \in Procs, Syncing(p),
         proc' = [proc EXCEPT ![p] = Advance(p)]
  PROVE  /\ proc' = [q \in Procs |-> proc'[q]]
         /\ \A q \in Procs : q # p => proc'[q] = proc[q]
         /\ proc'[p] \in Sync /\ proc'[p].pc \in {"find", "list"}
         /\ TodoSound'
         /\ \A t \in Traders : Pending(t)' = IF t = Current(p) THEN Pending(t) \ {p} ELSE Pending(t)
<1>1. /\ proc[p] \in Sync /\ proc[p].todo \in Seq(Traders) /\ proc[p].todo # <<>>
      /\ proc = [q \in Procs |-> proc[q]]
  BY SyncFacts DEF ConfigInv, Shapes
<1> DEFINE next == IF Len(proc[p].todo) = 1 THEN "list" ELSE "find"
<1>2. /\ proc'[p] = Advance(p)
      /\ \A q \in Procs : q # p => proc'[q] = proc[q]
      /\ proc' = [q \in Procs |-> proc'[q]]
  BY <1>1
<1>3. /\ proc'[p].todo = Tail(proc[p].todo) /\ proc'[p].pc = next
      /\ proc'[p].yaml = proc[p].yaml /\ proc'[p] \in Sync
  <2>1. /\ Tail(proc[p].todo) \in Seq(Traders) /\ next \in {"find", "list"}
        /\ proc[p].yaml \in Yamls /\ NoRowOf \in {NoRowOf} \cup Written
    BY <1>1 DEF Sync
  <2>2. Advance(p) = [pc |-> next, yaml |-> proc[p].yaml, found |-> NoRowOf, todo |-> Tail(proc[p].todo)]
    <3>1. proc[p] = [pc |-> proc[p].pc, yaml |-> proc[p].yaml, found |-> proc[p].found, todo |-> proc[p].todo]
      BY <1>1 DEF Sync
    <3>2. Advance(p) = [[pc |-> proc[p].pc, yaml |-> proc[p].yaml, found |-> proc[p].found, todo |-> proc[p].todo]
                          EXCEPT !.todo = Tail(proc[p].todo), !.found = NoRowOf, !.pc = next]
      BY <3>1, Zenon DEF Advance
    <3> QED BY <3>2
  <2> HIDE DEF next
  <2> QED BY <1>2, <2>1, <2>2 DEF Sync
<1>4. /\ Tail(proc[p].todo) \in Seq(Traders)
      /\ Len(Tail(proc[p].todo)) = Len(proc[p].todo) - 1
      /\ \A i \in DOMAIN Tail(proc[p].todo) : i + 1 \in DOMAIN proc[p].todo /\ Tail(proc[p].todo)[i] = proc[p].todo[i + 1]
  BY <1>1
<1>5. Syncing(p)' <=> Tail(proc[p].todo) # <<>>
  <2>1. \A s \in Seq(Traders) : s = <<>> <=> Len(s) = 0
    OBVIOUS
  <2>2. Len(proc[p].todo) = 1 <=> Tail(proc[p].todo) = <<>>
    <3>1. Len(proc[p].todo) = 1 <=> Len(Tail(proc[p].todo)) = 0
      BY <1>1, <1>4
    <3> QED BY <1>4, <2>1, <3>1, Zenon
  <2> QED BY <1>3, <2>2 DEF Syncing
<1>6. \A q \in Procs : q # p => (Syncing(q)' <=> Syncing(q))
  BY <1>2 DEF Syncing
<1>7. TodoSound'
  <2> SUFFICES ASSUME NEW q \in Procs, Syncing(q)'
               PROVE  /\ proc'[q].todo # <<>>
                      /\ \A i \in DOMAIN proc'[q].todo : proc'[q].yaml[proc'[q].todo[i]] \in Configs
                      /\ \A i, j \in DOMAIN proc'[q].todo : proc'[q].todo[i] = proc'[q].todo[j] => i = j
    BY DEF TodoSound
  <2>1. CASE q # p
    BY <2>1, <1>2, <1>6 DEF ConfigInv, TodoSound
  <2>2. CASE q = p
    <3> DEFINE rest == Tail(proc[p].todo)
    <3>1. DOMAIN rest \subseteq Nat
      BY <1>4
    <3>2. /\ rest # <<>>
          /\ \A i \in DOMAIN rest : proc[p].yaml[rest[i]] \in Configs
      BY <2>2, <1>4, <1>5 DEF ConfigInv, TodoSound
    <3>3. \A i, j \in DOMAIN rest : rest[i] = rest[j] => i = j
      BY <3>1, <1>4 DEF ConfigInv, TodoSound
    <3>4. proc'[q].todo = rest /\ proc'[q].yaml = proc[p].yaml
      BY <2>2, <1>3
    <3> HIDE DEF rest
    <3> QED BY <3>2, <3>3, <3>4
  <2> QED BY <2>1, <2>2
<1>8. ASSUME NEW t \in Traders
      PROVE  Pending(t)' = IF t = Current(p) THEN Pending(t) \ {p} ELSE Pending(t)
  <2>1. ASSUME NEW q \in Procs, q # p PROVE q \in Pending(t)' <=> q \in Pending(t)
    BY <2>1, <1>2, <1>6 DEF Pending
  <2>2. p \in Pending(t)' <=> \E i \in DOMAIN Tail(proc[p].todo) : Tail(proc[p].todo)[i] = t
    <3>1. Tail(proc[p].todo) = <<>> => DOMAIN Tail(proc[p].todo) = {}
      OBVIOUS
    <3>2. p \in Pending(t)' <=> (Syncing(p)' /\ \E i \in DOMAIN proc'[p].todo : proc'[p].todo[i] = t)
      BY DEF Pending
    <3> QED BY <1>3, <1>5, <3>1, <3>2, Zenon
  <2>3. p \in Pending(t) <=> \E i \in DOMAIN proc[p].todo : proc[p].todo[i] = t
    BY DEF Pending
  <2>4. /\ Current(p) = proc[p].todo[1] /\ 1 \in DOMAIN proc[p].todo
        /\ \A i, j \in DOMAIN proc[p].todo : proc[p].todo[i] = proc[p].todo[j] => i = j
    BY <1>1 DEF Current, ConfigInv, TodoSound
  <2>5. t = Current(p) => p \notin Pending(t)'
    BY <2>2, <2>4, <1>4
  <2>6. t # Current(p) => (p \in Pending(t)' <=> p \in Pending(t))
    <3>1. ASSUME NEW i \in DOMAIN proc[p].todo, proc[p].todo[i] = t, t # Current(p)
          PROVE  i - 1 \in DOMAIN Tail(proc[p].todo) /\ Tail(proc[p].todo)[i - 1] = t
      BY <3>1, <2>4, <1>1
    <3> QED BY <3>1, <2>2, <2>3, <1>4
  <2>7. Pending(t)' \subseteq Procs /\ Pending(t) \subseteq Procs
    BY DEF Pending
  <2> QED BY <2>1, <2>5, <2>6, <2>7
<1> QED BY <1>2, <1>3, <1>7, <1>8

(* A process that stops syncing is pending for nothing.                    *)
LEMMA LeaveFacts ==
  ASSUME ConfigInv, NEW p \in Procs, proc'[p].pc \in {"off", "up"},
         \A q \in Procs : q # p => proc'[q] = proc[q]
  PROVE  /\ ~Syncing(p)' /\ TodoSound'
         /\ \A t \in Traders : Pending(t)' = Pending(t) \ {p}
<1>1. ~Syncing(p)' /\ \A q \in Procs : q # p => (Syncing(q)' <=> Syncing(q))
  BY DEF Syncing
<1>2. TodoSound'
  BY <1>1 DEF ConfigInv, TodoSound
<1>3. \A t \in Traders : Pending(t)' = Pending(t) \ {p}
  BY <1>1 DEF Pending
<1> QED BY <1>1, <1>2, <1>3

(* Fewer processes are pending for t than before, p is one of the missing. *)
LEMMA PendingLess ==
  ASSUME NEW p \in Procs, NEW t \in Traders
  PROVE  /\ Cardinality(Pending(t) \ {p}) \in Nat
         /\ Cardinality(Pending(t) \ {p}) <= Cardinality(Pending(t))
         /\ p \in Pending(t) => Cardinality(Pending(t) \ {p}) = Cardinality(Pending(t)) - 1
<1>1. IsFiniteSet(Pending(t)) /\ Cardinality(Pending(t)) \in Nat
  BY PendingFinite
<1>2. /\ IsFiniteSet(Pending(t) \ {p})
      /\ Cardinality(Pending(t) \ {p}) =
           IF p \in Pending(t) THEN Cardinality(Pending(t)) - 1 ELSE Cardinality(Pending(t))
  BY <1>1, FS_RemoveElement
<1>3. Cardinality(Pending(t) \ {p}) \in Nat
  BY <1>2, FS_CardinalityType
<1> QED BY <1>1, <1>2, <1>3
-------------------------------------------------------------------------------
(* One lemma per action.                                                   *)

(* A step that writes no table and lets p leave its sync.                  *)
LEMMA LeaveKeeps ==
  ASSUME ConfigInv, NEW p \in Procs,
         proc' = [q \in Procs |-> proc'[q]], \A q \in Procs : q # p => proc'[q] = proc[q],
         proc'[p].pc = "off" \/ proc'[p] \in Ups,
         conf' = conf, history' = history, starts' = starts, overlapped' = overlapped
  PROVE  ConfigInv'
<1>1. /\ proc' = [q \in Procs |-> proc'[q]]
      /\ \A q \in Procs : q # p => proc'[q] = proc[q]
      /\ proc'[p].pc \in {"off", "up"} /\ ~Syncing(p)'
      /\ TodoSound'
      /\ \A t \in Traders : Pending(t)' = Pending(t) \ {p}
  <2>1. proc'[p].pc \in {"off", "up"}
    BY DEF Ups, UpRecords
  <2> QED BY <2>1, LeaveFacts
<1>2. conf' = conf /\ history' = history /\ starts' = starts /\ overlapped' = overlapped
  OBVIOUS
<1>4. Shapes'
  BY <1>1, <1>2 DEF ConfigInv, Shapes
<1>5. VersionsPaid'
  <2>1. \A t \in Traders : conf'[t].version + Cardinality(Pending(t)') <= starts'
    BY <1>1, <1>2, PendingLess, PendingFinite DEF ConfigInv, VersionsPaid, Shapes, NoRowOf, Written
  <2>2. ASSUME NEW q \in Procs, proc'[q].pc = "write"
        PROVE  proc'[q].found.version + Cardinality(Pending(Current(q))') <= starts'
    <3>1. q # p /\ proc'[q] = proc[q] /\ Current(q)' = Current(q) /\ Syncing(q)
      BY <1>1, <2>2 DEF Current, Syncing
    <3>2. Current(q) \in Traders /\ proc[q].found.version \in Nat
      BY <3>1, SyncFacts DEF Sync, NoRowOf, Written
    <3>3. PICK t \in Traders : t = Current(q)
      BY <3>2
    <3>4. Pending(Current(q))' = Pending(t)'
      BY <3>1, <3>3 DEF Pending
    <3>5. proc[q].found.version + Cardinality(Pending(t)) <= starts /\ starts \in Nat
      BY <2>2, <3>1, <3>3 DEF ConfigInv, VersionsPaid, Shapes
    <3>6. Pending(t)' = Pending(t) \ {p}
      BY <1>1
    <3> QED BY <1>2, <3>1, <3>2, <3>4, <3>5, <3>6, PendingLess, PendingFinite
  <2> QED BY <1>2, <2>1, <2>2 DEF ConfigInv, VersionsPaid
<1>6. Undisturbed'
  BY <1>1, <1>2 DEF ConfigInv, Undisturbed, Syncing, Current
<1>7. RowsRecorded'
  BY <1>2 DEF ConfigInv, RowsRecorded
<1>8. VersionsIdentify'
  BY <1>2 DEF ConfigInv, VersionsIdentify
<1> QED BY <1>1, <1>4, <1>5, <1>6, <1>7, <1>8 DEF ConfigInv

(* The transaction of syncOne: the version it writes is one more than the  *)
(* one read, and it is in the history with the row.                        *)
LEMMA CommitFacts ==
  ASSUME ConfigInv, NEW p \in Procs, proc[p].pc = "write", Commits(p)
  PROVE  /\ Current(p) \in Traders /\ buildConfigRow(p) \in Written
         /\ buildConfigRow(p).version = proc[p].found.version + 1 /\ proc[p].found.version \in Nat
         /\ conf' = [t \in Traders |-> IF t = Current(p) THEN buildConfigRow(p) ELSE conf[t]]
         /\ history' = history \cup {[trader |-> Current(p), row |-> buildConfigRow(p)]}
<1>1. Syncing(p)
  BY DEF Syncing
<1>2. Current(p) \in Traders /\ Wanted(p) \in Configs /\ proc[p].found \in {NoRowOf} \cup Written
  BY <1>1, SyncFacts DEF Sync
<1>3. proc[p].found.version \in Nat
  BY <1>2 DEF NoRowOf, Written
<1>4. buildConfigRow(p) \in Written /\ buildConfigRow(p).version = proc[p].found.version + 1
  BY <1>2, <1>3 DEF buildConfigRow, NextVersion, Written
<1>5. conf' = [t \in Traders |-> IF t = Current(p) THEN buildConfigRow(p) ELSE conf[t]]
  BY <1>2 DEF Commits, ConfigInv, Shapes
<1> QED BY <1>2, <1>3, <1>4, <1>5 DEF Commits, buildHistoryRow

(* A commit that overlapped no other takes a version nobody has.           *)
LEMMA CommitIdentifies ==
  ASSUME ConfigInv, NEW p \in Procs, proc[p].pc = "write", Commits(p), overlapped' = overlapped
  PROVE  VersionsIdentify'
<1> SUFFICES ASSUME ~overlapped, NEW t \in Traders
             PROVE  LET mine == {h.row : h \in {g \in history' : g.trader = t}}
                    IN  /\ \A a, b \in mine : a.version = b.version => a = b
                        /\ {a.version : a \in mine} = 1..conf'[t].version
  BY DEF VersionsIdentify
<1> DEFINE old == {h.row : h \in {g \in history : g.trader = t}}
           new == {h.row : h \in {g \in history' : g.trader = t}}
           row == buildConfigRow(p)
<1>1. /\ \A a, b \in old : a.version = b.version => a = b
      /\ {a.version : a \in old} = 1..conf[t].version
  BY DEF ConfigInv, VersionsIdentify
<1>2. /\ row \in Written /\ row.version = proc[p].found.version + 1 /\ proc[p].found.version \in Nat
      /\ conf'[t] = IF t = Current(p) THEN row ELSE conf[t]
      /\ history' = history \cup {[trader |-> Current(p), row |-> row]}
  BY CommitFacts
<1> HIDE DEF row
<1>3. CASE t # Current(p)
  <2>1. new = old
    BY <1>2, <1>3
  <2> QED BY <1>1, <1>2, <1>3, <2>1
<1>4. CASE t = Current(p)
  <2>1. new = old \cup {row}
    <3> DEFINE h0 == [trader |-> t, row |-> row]
    <3>1. {g \in history' : g.trader = t} = {g \in history : g.trader = t} \cup {h0}
      BY <1>2, <1>4
    <3>2. h0.row = row
      OBVIOUS
    <3> HIDE DEF h0
    <3> QED BY <3>1, <3>2, Zenon
  <2>2. proc[p].found = conf[t]
    BY <1>4 DEF ConfigInv, Undisturbed
  <2>3. row.version = conf[t].version + 1 /\ conf[t].version \in Nat
    BY <1>2, <2>2
  <2> HIDE DEF old, new
  <2>4. \A a \in old : a.version \in 1..conf[t].version
    BY <1>1
  <2>5. \A a, b \in new : a.version = b.version => a = b
    BY <1>1, <2>1, <2>3, <2>4
  <2>6. {a.version : a \in new} = {a.version : a \in old} \cup {row.version}
    BY <2>1
  <2>7. {a.version : a \in new} = 1..(conf[t].version + 1)
    BY <1>1, <2>3, <2>6
  <2> QED BY <1>2, <1>4, <2>3, <2>5, <2>7 DEF new
<1> QED BY <1>3, <1>4

(* A committed write, after which p syncs its next trader or none.         *)
LEMMA CommitKeeps ==
  ASSUME ConfigInv, NEW p \in Procs, proc[p].pc = "write", Commits(p),
         UNCHANGED <<starts, overlapped>>,
         proc' = [q \in Procs |-> proc'[q]],
         \A q \in Procs : q # p => proc'[q] = proc[q],
         proc'[p] \in Ups \cup Sync, proc'[p].pc # "write", TodoSound',
         \A t \in Traders : Pending(t)' = Pending(t) \/ Pending(t)' = Pending(t) \ {p},
         \A t \in Traders : t = Current(p) => Pending(t)' = Pending(t) \ {p}
  PROVE  ConfigInv'
<1> DEFINE row == buildConfigRow(p)
<1>1. /\ Current(p) \in Traders /\ row \in Written
      /\ row.version = proc[p].found.version + 1 /\ proc[p].found.version \in Nat
      /\ conf' = [t \in Traders |-> IF t = Current(p) THEN row ELSE conf[t]]
      /\ history' = history \cup {[trader |-> Current(p), row |-> row]}
  BY CommitFacts
<1> HIDE DEF row
<1>2. starts' = starts /\ overlapped' = overlapped /\ starts \in Nat
  BY DEF ConfigInv, Shapes
<1>3. Shapes'
  <2>1. conf' \in [Traders -> {NoRowOf} \cup Written] /\ history' \subseteq [trader : Traders, row : Written]
    BY <1>1 DEF ConfigInv, Shapes
  <2>2. \A q \in Procs : proc'[q].pc = "off" \/ proc'[q] \in Ups \cup Sync
    BY DEF ConfigInv, Shapes
  <2> QED BY <1>2, <2>1, <2>2 DEF ConfigInv, Shapes
<1>4. VersionsPaid'
  <2>0. \A t \in Traders : /\ Cardinality(Pending(t)') \in Nat
                           /\ Cardinality(Pending(t)') <= Cardinality(Pending(t))
    BY PendingLess, PendingFinite
  <2>1. /\ proc[p].found.version + Cardinality(Pending(Current(p))) <= starts
        /\ Cardinality(Pending(Current(p))) >= 1 /\ Cardinality(Pending(Current(p))) \in Nat
        /\ p \in Pending(Current(p))
    BY <1>1, SyncFacts, PendingFinite DEF ConfigInv, VersionsPaid, Syncing
  <2>2. ASSUME NEW t \in Traders PROVE conf'[t].version + Cardinality(Pending(t)') <= starts'
    <3>1. CASE t # Current(p)
      <4>1. conf'[t] = conf[t] /\ conf[t].version \in Nat
        BY <1>1, <3>1 DEF ConfigInv, Shapes, NoRowOf, Written
      <4>2. conf[t].version + Cardinality(Pending(t)) <= starts
        BY DEF ConfigInv, VersionsPaid
      <4> QED BY <1>2, <2>0, <4>1, <4>2, PendingFinite
    <3>2. CASE t = Current(p)
      <4>1. conf'[t].version = proc[p].found.version + 1
        BY <1>1, <3>2
      <4>2. Cardinality(Pending(t)') = Cardinality(Pending(t)) - 1
        BY <2>1, <3>2, PendingLess
      <4> QED BY <1>1, <1>2, <2>1, <3>2, <4>1, <4>2
    <3> QED BY <3>1, <3>2
  <2>3. ASSUME NEW q \in Procs, proc'[q].pc = "write"
        PROVE  proc'[q].found.version + Cardinality(Pending(Current(q))') <= starts'
    <3>1. q # p /\ proc'[q] = proc[q] /\ Current(q)' = Current(q) /\ Syncing(q)
      BY <2>3 DEF Current, Syncing
    <3>2. Current(q) \in Traders /\ proc[q].found.version \in Nat
      BY <3>1, SyncFacts DEF Sync, NoRowOf, Written
    <3>3. PICK t \in Traders : t = Current(q)
      BY <3>2
    <3>4. Pending(Current(q))' = Pending(t)'
      BY <3>1, <3>3 DEF Pending
    <3>5. proc[q].found.version + Cardinality(Pending(t)) <= starts
      BY <2>3, <3>1, <3>3 DEF ConfigInv, VersionsPaid
    <3> QED BY <1>2, <2>0, <3>1, <3>2, <3>4, <3>5, PendingFinite
  <2>4. ASSUME NEW h \in history' PROVE h.row.version <= starts'
    BY <1>1, <1>2, <2>1 DEF ConfigInv, VersionsPaid
  <2> QED BY <2>2, <2>3, <2>4 DEF VersionsPaid
<1>5. Undisturbed'
  <2> SUFFICES ASSUME ~overlapped
               PROVE  /\ \A q, r \in Procs : Syncing(q)' /\ Syncing(r)' => q = r
                      /\ \A q \in Procs : proc'[q].pc = "write" => proc'[q].found = conf'[Current(q)']
    BY <1>2 DEF Undisturbed
  <2>1. \A q, r \in Procs : Syncing(q) /\ Syncing(r) => q = r
    BY DEF ConfigInv, Undisturbed
  <2>2. Syncing(p)
    BY DEF Syncing
  <2>3. \A q \in Procs : q # p => ~Syncing(q)' /\ proc'[q].pc # "write"
    BY <2>1, <2>2 DEF Syncing
  <2> QED BY <2>3
<1>6. RowsRecorded'
  BY <1>1 DEF ConfigInv, RowsRecorded
<1>7. VersionsIdentify'
  BY CommitIdentifies
<1> QED BY <1>3, <1>4, <1>5, <1>6, <1>7 DEF ConfigInv

(* A process starts with a list of distinct traders of its file.           *)
LEMMA StartKeeps ==
  ASSUME ConfigInv, NEW p \in Procs, Start(p)
  PROVE  ConfigInv'
<1>0. PICK yaml \in Yamls : \E todo \in SetToSeqs({t \in Traders : yaml[t] # Absent}) :
        /\ todo # <<>>
        /\ proc' = [proc EXCEPT ![p] = [pc |-> "find", yaml |-> yaml, found |-> NoRowOf, todo |-> todo]]
  BY DEF Start, Yamls
<1>1. PICK todo \in SetToSeqs({t \in Traders : yaml[t] # Absent}) :
        /\ todo # <<>>
        /\ proc' = [proc EXCEPT ![p] = [pc |-> "find", yaml |-> yaml, found |-> NoRowOf, todo |-> todo]]
  BY <1>0
<1>2. /\ proc[p] = Off /\ starts < MaxStarts /\ starts' = starts + 1
      /\ conf' = conf /\ history' = history
      /\ proc = [q \in Procs |-> proc[q]] /\ starts \in Nat /\ MaxStarts \in Nat
  BY ConfigAssumption DEF Start, ConfigInv, Shapes
<1> DEFINE named == {t \in Traders : yaml[t] # Absent}
<1>3. /\ todo \in Seq(Traders)
      /\ \A i \in DOMAIN todo : yaml[todo[i]] \in Configs
      /\ \A i, j \in DOMAIN todo : todo[i] = todo[j] => i = j
  <2>1. named \in SUBSET Traders /\ \A t \in named : yaml[t] \in Configs
    BY <1>1 DEF Yamls
  <2>2. Cardinality(named) \in Nat
    BY <2>1, ConfigAssumption, FS_Subset, FS_CardinalityType
  <2>3. /\ todo \in [1..Cardinality(named) -> named]
        /\ \A i, j \in 1..Cardinality(named) : i # j => todo[i] # todo[j]
    BY <1>1 DEF SetToSeqs
  <2> HIDE DEF named
  <2> QED BY <2>1, <2>2, <2>3
<1>4. /\ proc' = [q \in Procs |-> proc'[q]]
      /\ proc'[p] = [pc |-> "find", yaml |-> yaml, found |-> NoRowOf, todo |-> todo]
      /\ \A q \in Procs : q # p => proc'[q] = proc[q]
  BY <1>1, <1>2
<1>5. ~Syncing(p) /\ Syncing(p)' /\ \A q \in Procs : q # p => (Syncing(q)' <=> Syncing(q))
  BY <1>2, <1>4 DEF Syncing, Off
<1>6. Shapes'
  <2>1. overlapped' \in BOOLEAN
    BY DEF Start
  <2>2. proc'[p] \in Sync
    BY <1>1, <1>3, <1>4 DEF Sync
  <2>3. starts' \in 0..MaxStarts
    BY <1>2
  <2> QED BY <1>2, <1>4, <2>1, <2>2, <2>3 DEF ConfigInv, Shapes
<1>7. TodoSound'
  BY <1>1, <1>3, <1>4, <1>5 DEF ConfigInv, TodoSound
<1>8. VersionsPaid'
  <2>1. ASSUME NEW t \in Traders
        PROVE  Cardinality(Pending(t)') \in Nat /\ Cardinality(Pending(t)') <= Cardinality(Pending(t)) + 1
    <3>1. Pending(t)' = Pending(t) \/ Pending(t)' = Pending(t) \cup {p}
      BY <1>4, <1>5 DEF Pending
    <3>2. IsFiniteSet(Pending(t)) /\ Cardinality(Pending(t)) \in Nat
      BY PendingFinite
    <3>3. Cardinality(Pending(t) \cup {p}) \in {Cardinality(Pending(t)), Cardinality(Pending(t)) + 1}
      BY <3>2, FS_AddElement
    <3>4. CASE Pending(t)' = Pending(t)
      BY <3>2, <3>4
    <3>5. CASE Pending(t)' = Pending(t) \cup {p}
      <4>1. Cardinality(Pending(t)') = Cardinality(Pending(t) \cup {p})
        BY <3>5
      <4> QED BY <3>2, <3>3, <4>1
    <3> QED BY <3>1, <3>4, <3>5
  <2>2. ASSUME NEW t \in Traders PROVE conf'[t].version + Cardinality(Pending(t)') <= starts'
    <3>1. conf[t].version \in Nat /\ conf[t].version + Cardinality(Pending(t)) <= starts
      BY DEF ConfigInv, VersionsPaid, Shapes, NoRowOf, Written
    <3> QED BY <1>2, <2>1, <3>1, PendingFinite
  <2>3. ASSUME NEW q \in Procs, proc'[q].pc = "write"
        PROVE  proc'[q].found.version + Cardinality(Pending(Current(q))') <= starts'
    <3>1. q # p /\ proc'[q] = proc[q] /\ Current(q)' = Current(q) /\ Syncing(q)
      BY <1>4, <2>3 DEF Current, Syncing
    <3>2. Current(q) \in Traders /\ proc[q].found.version \in Nat
      BY <3>1, SyncFacts DEF Sync, NoRowOf, Written
    <3>3. PICK t \in Traders : t = Current(q)
      BY <3>2
    <3>4. Pending(Current(q))' = Pending(t)'
      BY <3>1, <3>3 DEF Pending
    <3>5. proc[q].found.version + Cardinality(Pending(t)) <= starts
      BY <2>3, <3>1, <3>3 DEF ConfigInv, VersionsPaid
    <3> QED BY <1>2, <2>1, <3>1, <3>2, <3>4, <3>5, PendingFinite
  <2>4. ASSUME NEW h \in history' PROVE h.row.version <= starts'
    <3>1. h \in history /\ h.row.version \in Nat /\ h.row.version <= starts
      BY <1>2, <2>4 DEF ConfigInv, VersionsPaid, Shapes, Written
    <3> QED BY <1>2, <3>1
  <2> QED BY <2>2, <2>3, <2>4 DEF VersionsPaid
<1>9. Undisturbed'
  <2> SUFFICES ASSUME ~overlapped'
               PROVE  /\ \A q, r \in Procs : Syncing(q)' /\ Syncing(r)' => q = r
                      /\ \A q \in Procs : proc'[q].pc = "write" => proc'[q].found = conf'[Current(q)']
    BY DEF Undisturbed
  <2>1. \A q \in Procs : ~Syncing(q)
    BY DEF Start
  <2>2. \A q \in Procs : q # p => ~Syncing(q)'
    BY <1>5, <2>1
  <2>3. \A q \in Procs : proc'[q].pc # "write"
    BY <1>4, <2>2 DEF Syncing
  <2> QED BY <2>2, <2>3
<1>10. RowsRecorded'
  BY <1>2 DEF ConfigInv, RowsRecorded
<1>11. VersionsIdentify'
  <2>1. ~overlapped' => ~overlapped
    BY DEF Start
  <2> QED BY <1>2, <2>1 DEF ConfigInv, VersionsIdentify
<1> QED BY <1>6, <1>7, <1>8, <1>9, <1>10, <1>11 DEF ConfigInv

(* syncOne reads the row, or finds nothing to change.                      *)
LEMMA FindKeeps ==
  ASSUME ConfigInv, NEW p \in Procs, FindOne(p)
  PROVE  ConfigInv'
<1> DEFINE row == conf[Current(p)]
<1>1. /\ conf' = conf /\ history' = history
      /\ starts' = starts /\ overlapped' = overlapped /\ starts \in Nat
  BY DEF FindOne, ConfigInv, Shapes
<1>2. Syncing(p) /\ proc[p].pc = "find"
  BY DEF FindOne, Syncing
<1>3. /\ proc[p] \in Sync /\ Current(p) \in Traders /\ proc = [q \in Procs |-> proc[q]]
      /\ row \in {NoRowOf} \cup Written
  BY <1>2, SyncFacts DEF ConfigInv, Shapes
<1> DEFINE read == [proc[p] EXCEPT !.pc = "write", !.found = row]
<1>4. proc' = [proc EXCEPT ![p] = Advance(p)] \/ proc' = [proc EXCEPT ![p] = read]
  BY DEF FindOne
<1>5. /\ proc' = [q \in Procs |-> proc'[q]]
      /\ \A q \in Procs : q # p => proc'[q] = proc[q]
      /\ proc'[p] \in Sync /\ TodoSound'
      /\ proc'[p].pc = "write" => Current(p)' = Current(p) /\ proc'[p].found = row
      /\ \A t \in Traders : Pending(t)' = Pending(t) \/ Pending(t)' = Pending(t) \ {p}
  <2>1. CASE proc' = [proc EXCEPT ![p] = Advance(p)]
    <3>1. proc'[p].pc # "write"
      BY <1>2, <2>1, AdvanceFacts
    <3> QED BY <1>2, <2>1, <3>1, AdvanceFacts
  <2>2. CASE proc' = [proc EXCEPT ![p] = read]
    <3>1. /\ proc' = [q \in Procs |-> proc'[q]] /\ proc'[p] = read
          /\ \A q \in Procs : q # p => proc'[q] = proc[q]
      BY <1>3, <2>2
    <3>2. /\ read \in Sync /\ read.pc = "write" /\ read.todo = proc[p].todo
          /\ read.yaml = proc[p].yaml /\ read.found = row
      BY <1>3 DEF Sync
    <3> HIDE DEF read, row
    <3>3. Current(p)' = Current(p) /\ \A q \in Procs : Syncing(q)' <=> Syncing(q)
      BY <1>2, <3>1, <3>2 DEF Syncing, Current
    <3>4. TodoSound'
      BY <3>1, <3>2, <3>3 DEF ConfigInv, TodoSound
    <3>5. \A t \in Traders : Pending(t)' = Pending(t)
      BY <3>1, <3>2, <3>3 DEF Pending
    <3> QED BY <3>1, <3>2, <3>3, <3>4, <3>5
  <2> QED BY <1>4, <2>1, <2>2
<1>6. Shapes'
  BY <1>1, <1>5 DEF ConfigInv, Shapes
<1>7. VersionsPaid'
  <2>1. \A t \in Traders : /\ Cardinality(Pending(t)') \in Nat
                           /\ Cardinality(Pending(t)') <= Cardinality(Pending(t))
    BY <1>5, PendingLess, PendingFinite
  <2>2. ASSUME NEW t \in Traders
        PROVE  conf[t].version \in Nat /\ conf[t].version + Cardinality(Pending(t)') <= starts
    <3>1. conf[t].version \in Nat /\ conf[t].version + Cardinality(Pending(t)) <= starts
      BY DEF ConfigInv, VersionsPaid, Shapes, NoRowOf, Written
    <3> QED BY <1>1, <2>1, <3>1, PendingFinite
  <2>3. ASSUME NEW q \in Procs, proc'[q].pc = "write"
        PROVE  proc'[q].found.version + Cardinality(Pending(Current(q))') <= starts'
    <3>1. Current(q)' = Current(q) /\ Current(q) \in Traders
      <4>1. CASE q = p
        BY <1>3, <1>5, <2>3, <4>1
      <4>2. CASE q # p
        <5>1. proc'[q] = proc[q] /\ Syncing(q)
          BY <1>5, <2>3, <4>2 DEF Syncing
        <5> QED BY <5>1, SyncFacts DEF Current
      <4> QED BY <4>1, <4>2
    <3>2. PICK t \in Traders : t = Current(q)
      BY <3>1
    <3>3. Pending(Current(q))' = Pending(t)'
      BY <3>1, <3>2 DEF Pending
    <3>4. CASE q = p
      BY <1>1, <1>5, <2>2, <2>3, <3>2, <3>3, <3>4
    <3>5. CASE q # p
      <4>1. proc'[q] = proc[q] /\ Syncing(q)
        BY <1>5, <2>3, <3>5 DEF Syncing
      <4>2. proc[q].found.version \in Nat
        BY <4>1, SyncFacts DEF Sync, NoRowOf, Written
      <4>3. proc[q].found.version + Cardinality(Pending(t)) <= starts
        BY <2>3, <3>2, <4>1 DEF ConfigInv, VersionsPaid
      <4> QED BY <1>1, <2>1, <3>3, <4>1, <4>2, <4>3, PendingFinite
    <3> QED BY <3>4, <3>5
  <2> QED BY <1>1, <2>2, <2>3 DEF ConfigInv, VersionsPaid
<1>8. Undisturbed'
  <2> SUFFICES ASSUME ~overlapped
               PROVE  /\ \A q, r \in Procs : Syncing(q)' /\ Syncing(r)' => q = r
                      /\ \A q \in Procs : proc'[q].pc = "write" => proc'[q].found = conf'[Current(q)']
    BY <1>1 DEF Undisturbed
  <2>1. \A q \in Procs : q # p => ~Syncing(q)
    BY <1>2 DEF ConfigInv, Undisturbed
  <2>2. \A q \in Procs : q # p => ~Syncing(q)' /\ proc'[q].pc # "write"
    BY <1>5, <2>1 DEF Syncing
  <2>3. proc'[p].pc = "write" => proc'[p].found = conf'[Current(p)']
    BY <1>1, <1>5
  <2> QED BY <2>2, <2>3
<1>9. RowsRecorded' /\ VersionsIdentify'
  BY <1>1 DEF ConfigInv, RowsRecorded, VersionsIdentify
<1> QED BY <1>5, <1>6, <1>7, <1>8, <1>9 DEF ConfigInv

(* The transaction commits and the process goes on.                        *)
LEMMA WriteKeeps ==
  ASSUME ConfigInv, NEW p \in Procs, WriteTx(p)
  PROVE  ConfigInv'
<1>1. /\ proc[p].pc = "write" /\ Commits(p) /\ proc' = [proc EXCEPT ![p] = Advance(p)]
      /\ starts' = starts /\ overlapped' = overlapped
  BY DEF WriteTx
<1>2. Syncing(p)
  BY <1>1 DEF Syncing
<1>3. /\ proc' = [q \in Procs |-> proc'[q]]
      /\ \A q \in Procs : q # p => proc'[q] = proc[q]
      /\ proc'[p] \in Sync /\ proc'[p].pc \in {"find", "list"}
      /\ TodoSound'
      /\ \A t \in Traders : Pending(t)' = IF t = Current(p) THEN Pending(t) \ {p} ELSE Pending(t)
  BY <1>1, <1>2, AdvanceFacts
<1>4. UNCHANGED <<starts, overlapped>> /\ proc'[p] \in Ups \cup Sync /\ proc'[p].pc # "write"
  BY <1>1, <1>3
<1>5. /\ \A t \in Traders : Pending(t)' = Pending(t) \/ Pending(t)' = Pending(t) \ {p}
      /\ \A t \in Traders : t = Current(p) => Pending(t)' = Pending(t) \ {p}
  BY <1>3
<1> QED BY <1>1, <1>3, <1>4, <1>5, CommitKeeps

(* A process that will register its traders.                               *)
LEMMA RegisteringShape ==
  ASSUME NEW source \in [Traders -> Rows], NEW listed \in BOOLEAN, NEW up \in Registering(source, listed)
  PROVE  /\ up \in Ups /\ up.source = source /\ up.listed = listed /\ up.saving = FALSE
         /\ \A i \in DOMAIN up.todo : source[up.todo[i]].config # Absent
<1> DEFINE named == {t \in Traders : source[t].config # Absent}
<1>1. PICK todo \in SetToSeqs(named) :
        up = [pc |-> "up", source |-> source, listed |-> listed, todo |-> todo, saving |-> FALSE]
  BY DEF Registering
<1>2. named \in SUBSET Traders /\ \A t \in named : source[t].config # Absent
  OBVIOUS
<1>3. Cardinality(named) \in Nat
  BY <1>2, ConfigAssumption, FS_Subset, FS_CardinalityType
<1>4. todo \in [1..Cardinality(named) -> named]
  BY DEF SetToSeqs
<1> HIDE DEF named
<1>5. todo \in Seq(Traders) /\ \A i \in DOMAIN todo : source[todo[i]].config # Absent
  BY <1>2, <1>3, <1>4
<1> QED BY <1>1, <1>5 DEF Ups, UpRecords

(* A process that falls back on its file, read from it or from its sync.   *)
LEMMA FromFileShape ==
  ASSUME NEW yaml \in Yamls
  PROVE  FromFile(yaml) \in [Traders -> Rows] /\ \A t \in Traders : FromFile(yaml)[t].version = 0
BY DEF Yamls, FromFile, Rows

(* What each step that ends a start-up leaves in proc.                     *)
LEMMA FallsBackShape ==
  ASSUME ConfigInv, NEW p \in Procs, Syncing(p) \/ proc[p].pc = "list", FallsBack(p)
  PROVE  /\ proc' = [q \in Procs |-> proc'[q]] /\ \A q \in Procs : q # p => proc'[q] = proc[q]
         /\ proc'[p] \in Registering(FromFile(proc[p].yaml), FALSE)
         /\ proc'[p] \in Ups /\ proc'[p].listed = FALSE /\ proc'[p].saving = FALSE
         /\ \A t \in Traders : proc'[p].source[t].version = 0
         /\ \A i \in DOMAIN proc'[p].todo : proc'[p].source[proc'[p].todo[i]].config # Absent
<1>1. proc[p].yaml \in Yamls /\ proc = [q \in Procs |-> proc[q]]
  BY DEF ConfigInv, Shapes, Syncing, Sync, Ups, UpRecords
<1> DEFINE source == FromFile(proc[p].yaml)
<1>2. PICK up \in Registering(source, FALSE) : proc' = [proc EXCEPT ![p] = up]
  BY DEF FallsBack
<1>3. /\ proc' = [q \in Procs |-> proc'[q]] /\ proc'[p] = up
      /\ \A q \in Procs : q # p => proc'[q] = proc[q]
  BY <1>1, <1>2
<1>4. source \in [Traders -> Rows] /\ \A t \in Traders : source[t].version = 0
  BY <1>1, FromFileShape
<1>5. proc'[p] \in Registering(FromFile(proc[p].yaml), FALSE)
  BY <1>2, <1>3
<1> HIDE DEF source
<1>6. /\ up \in Ups /\ up.source = source /\ up.listed = FALSE /\ up.saving = FALSE
      /\ \A i \in DOMAIN up.todo : source[up.todo[i]].config # Absent
  BY <1>4, RegisteringShape
<1> QED BY <1>3, <1>4, <1>5, <1>6

(* The sync ends with an error, its last transaction committed or not.     *)
LEMMA SyncFailsKeeps ==
  ASSUME ConfigInv, NEW p \in Procs, SyncFails(p)
  PROVE  ConfigInv'
<1>1. starts' = starts /\ overlapped' = overlapped /\ Syncing(p) /\ FallsBack(p)
  BY DEF SyncFails
<1>2. /\ proc' = [q \in Procs |-> proc'[q]] /\ \A q \in Procs : q # p => proc'[q] = proc[q]
      /\ proc'[p] \in Ups /\ proc'[p].pc = "up"
  BY <1>1, FallsBackShape DEF Ups, UpRecords
<1>3. CASE UNCHANGED <<conf, history>>
  BY <1>1, <1>2, <1>3, LeaveKeeps
<1>4. CASE proc[p].pc = "write" /\ Commits(p)
  <2>1. TodoSound' /\ \A t \in Traders : Pending(t)' = Pending(t) \ {p}
    BY <1>2, LeaveFacts
  <2>2. UNCHANGED <<starts, overlapped>> /\ proc'[p] \in Ups \cup Sync /\ proc'[p].pc # "write"
    BY <1>1, <1>2
  <2> QED BY <1>2, <1>4, <2>1, <2>2, CommitKeeps
<1> QED BY <1>3, <1>4 DEF SyncFails

(* The rows of the table as the source of a process's traders.             *)
LEMMA ListAllShape ==
  ASSUME ConfigInv, NEW p \in Procs, ListAll(p)
  PROVE  /\ proc' = [q \in Procs |-> proc'[q]] /\ \A q \in Procs : q # p => proc'[q] = proc[q]
         /\ proc'[p] \in Ups /\ proc'[p].listed = TRUE /\ proc'[p].saving = FALSE
         /\ \A t \in Traders : proc'[p].source[t] = conf[t]
         /\ \A i \in DOMAIN proc'[p].todo : proc'[p].source[proc'[p].todo[i]].config # Absent
<1> DEFINE source == [t \in Traders |-> TraderConfigFromModel(t)]
<1>1. source \in [Traders -> Rows] /\ \A t \in Traders : source[t] = conf[t]
  BY DEF TraderConfigFromModel, ConfigInv, Shapes, Rows, Written, NoRowOf
<1>2. PICK up \in Registering(source, TRUE) : proc' = [proc EXCEPT ![p] = up]
  BY DEF ListAll
<1> HIDE DEF source
<1>3. /\ proc' = [q \in Procs |-> proc'[q]] /\ proc'[p] = up
      /\ \A q \in Procs : q # p => proc'[q] = proc[q]
  BY <1>2 DEF ConfigInv, Shapes
<1>4. /\ up \in Ups /\ up.source = source /\ up.listed = TRUE /\ up.saving = FALSE
      /\ \A i \in DOMAIN up.todo : source[up.todo[i]].config # Absent
  BY <1>1, RegisteringShape
<1> QED BY <1>1, <1>3, <1>4

(* A worker's traders are those of its file.                               *)
LEMMA StartWorkerShape ==
  ASSUME ConfigInv, NEW p \in Procs, StartWorker(p)
  PROVE  /\ proc' = [q \in Procs |-> proc'[q]] /\ \A q \in Procs : q # p => proc'[q] = proc[q]
         /\ proc'[p] \in Ups /\ proc'[p].listed = FALSE /\ proc'[p].saving = FALSE
         /\ \A t \in Traders : proc'[p].source[t].version = 0
         /\ \A i \in DOMAIN proc'[p].todo : proc'[p].source[proc'[p].todo[i]].config # Absent
<1>1. PICK yaml \in Yamls : \E up \in Registering(FromFile(yaml), FALSE) : proc' = [proc EXCEPT ![p] = up]
  BY DEF StartWorker, Yamls
<1> DEFINE source == FromFile(yaml)
<1>2. PICK up \in Registering(source, FALSE) : proc' = [proc EXCEPT ![p] = up]
  BY <1>1
<1>3. /\ proc' = [q \in Procs |-> proc'[q]] /\ proc'[p] = up
      /\ \A q \in Procs : q # p => proc'[q] = proc[q]
  BY <1>2 DEF ConfigInv, Shapes
<1>4. source \in [Traders -> Rows] /\ \A t \in Traders : source[t].version = 0
  BY FromFileShape
<1> HIDE DEF source
<1>5. /\ up \in Ups /\ up.source = source /\ up.listed = FALSE /\ up.saving = FALSE
      /\ \A i \in DOMAIN up.todo : source[up.todo[i]].config # Absent
  BY <1>4, RegisteringShape
<1> QED BY <1>3, <1>4, <1>5

(* A registration under way moves between its read and its save.           *)
LEMMA RegisterShape ==
  ASSUME ConfigInv, NEW p \in Procs, RegisterTrader(p)
  PROVE  /\ proc' = [q \in Procs |-> proc'[q]] /\ \A q \in Procs : q # p => proc'[q] = proc[q]
         /\ proc[p] \in Ups /\ proc[p].todo # <<>> /\ Current(p) \in Traders
         /\ proc'[p] \in Ups /\ proc'[p].saving = TRUE
         /\ proc'[p].source = proc[p].source /\ proc'[p].listed = proc[p].listed
         /\ proc'[p].todo = proc[p].todo
<1>1. proc[p] \in Ups /\ proc[p].todo # <<>> /\ proc = [q \in Procs |-> proc[q]]
  BY DEF RegisterTrader, Up, ConfigInv, Shapes, Sync
<1>2. Current(p) \in Traders
  BY <1>1 DEF Current, Ups, UpRecords
<1>3. proc' = [proc EXCEPT ![p].saving = TRUE]
  BY DEF RegisterTrader
<1>4. /\ proc' = [q \in Procs |-> proc'[q]] /\ proc'[p] = [proc[p] EXCEPT !.saving = TRUE]
      /\ \A q \in Procs : q # p => proc'[q] = proc[q]
  BY <1>1, <1>3
<1> QED BY <1>1, <1>2, <1>4 DEF Ups, UpRecords

(* The save that ends a registration takes the trader off the list.        *)
LEMMA RegisteredShape ==
  ASSUME ConfigInv, NEW p \in Procs, Registered(p)
  PROVE  /\ proc' = [q \in Procs |-> proc'[q]] /\ \A q \in Procs : q # p => proc'[q] = proc[q]
         /\ proc[p] \in Ups /\ Current(p) \in Traders
         /\ proc'[p] \in Ups /\ proc'[p].saving = FALSE
         /\ proc'[p].source = proc[p].source /\ proc'[p].listed = proc[p].listed
         /\ proc'[p].todo = Tail(proc[p].todo)
<1>1. proc[p] \in UpRecords /\ proc[p].todo # <<>> /\ proc = [q \in Procs |-> proc[q]]
  BY DEF Registered, Up, ConfigInv, Shapes, Sync, Ups
<1>2. Current(p) \in Traders /\ Tail(proc[p].todo) \in Seq(Traders)
  BY <1>1 DEF Current, UpRecords
<1>3. proc' = [proc EXCEPT ![p].saving = FALSE, ![p].todo = Tail(@)]
  BY DEF Registered
<1>4. /\ proc' = [q \in Procs |-> proc'[q]]
      /\ proc'[p] = [proc[p] EXCEPT !.saving = FALSE, !.todo = Tail(@)]
      /\ \A q \in Procs : q # p => proc'[q] = proc[q]
  BY <1>1, <1>3
<1> QED BY <1>1, <1>2, <1>4 DEF Ups, UpRecords

(* A step that neither syncs nor ends a sync leaves the tables alone.      *)
LEMMA IdleKeeps ==
  ASSUME ConfigInv, UNCHANGED <<conf, history, proc, starts, overlapped>>
  PROVE  ConfigInv'
<1>1. /\ conf' = conf /\ history' = history /\ proc' = proc
      /\ starts' = starts /\ overlapped' = overlapped
  OBVIOUS
<1>2. Shapes' /\ TodoSound'
  BY <1>1 DEF ConfigInv, Shapes, TodoSound, Syncing
<1>3. VersionsPaid'
  BY <1>1 DEF ConfigInv, VersionsPaid, Pending, Syncing, Current
<1>4. Undisturbed'
  BY <1>1 DEF ConfigInv, Undisturbed, Syncing, Current
<1>5. RowsRecorded' /\ VersionsIdentify'
  BY <1>1 DEF ConfigInv, RowsRecorded, VersionsIdentify
<1> QED BY <1>2, <1>3, <1>4, <1>5 DEF ConfigInv

(* Every step of the sync keeps the invariant.                             *)
LEMMA ConfigStep == ConfigInv /\ [ConfigNext]_configVars => ConfigInv'
<1> SUFFICES ASSUME ConfigInv, [ConfigNext]_configVars PROVE ConfigInv'
  OBVIOUS
<1>1. ASSUME NEW p \in Procs, Start(p) \/ FindOne(p) \/ WriteTx(p) \/ SyncFails(p)
      PROVE  ConfigInv'
  BY <1>1, StartKeeps, FindKeeps, WriteKeeps, SyncFailsKeeps
<1>2. ASSUME NEW p \in Procs,
             ListAll(p) \/ ListFails(p) \/ StartWorker(p) \/ RegisterTrader(p) \/ Registered(p) \/ Exit(p)
      PROVE  ConfigInv'
  <2>1. conf' = conf /\ history' = history /\ starts' = starts /\ overlapped' = overlapped
    BY <1>2 DEF ListAll, ListFails, StartWorker, RegisterTrader, Registered, Exit
  <2>2. /\ proc' = [q \in Procs |-> proc'[q]] /\ \A q \in Procs : q # p => proc'[q] = proc[q]
        /\ proc'[p].pc = "off" \/ proc'[p] \in Ups
    <3>1. CASE ListAll(p) \/ StartWorker(p) \/ RegisterTrader(p)
      BY <3>1, ListAllShape, StartWorkerShape, RegisterShape
    <3>2. CASE ListFails(p)
      BY <3>2, FallsBackShape DEF ListFails
    <3>3. CASE Registered(p)
      BY <3>3, RegisteredShape DEF ConfigInv, Shapes, Registered, Up
    <3>4. CASE Exit(p)
      BY <3>4 DEF Exit, Off, ConfigInv, Shapes
    <3> QED BY <1>2, <3>1, <3>2, <3>3, <3>4
  <2> QED BY <2>1, <2>2, LeaveKeeps
<1>3. CASE ControlRecords \/ (\E p \in Procs : SaveState(p)) \/ UNCHANGED configVars
  BY <1>3, IdleKeeps DEF ControlRecords, SaveState, configVars
<1> QED BY <1>1, <1>2, <1>3 DEF ConfigNext

-------------------------------------------------------------------------------
(* The inductive invariant of the tables holds for any number of           *)
(* processes, traders and starts.                                          *)
THEOREM ConfigInvariant == ConfigSpec => []ConfigInv
<1>1. ConfigInit => ConfigInv
  BY ConfigInitHolds
<1>2. ConfigInv /\ [ConfigNext]_configVars => ConfigInv'
  BY ConfigStep
<1> QED BY <1>1, <1>2, PTL DEF ConfigSpec

-------------------------------------------------------------------------------
(* Registration, on top of the tables.                                     *)

(* A version of trader t that a process or the runtime row may hold: the   *)
(* first or one of the history, and not above the table's unless overlaps  *)
(* took the table's version back.                                          *)
Sound(t, version) ==
  /\ version \in Nat
  /\ version > 1 => \E h \in history : h.trader = t /\ h.row.version = version
  /\ ~overlapped => version <= 1 \/ version <= conf[t].version

(* Only a process that is up has traders.                                  *)
RegistrationShapes ==
  /\ active \in [Traders -> Nat] /\ runs \in [Procs -> [Traders -> Rows]] /\ crossed \in BOOLEAN
  /\ \A p \in Procs : ~Up(p) => \A t \in Traders : runs[p][t] = NoRowOf

VersionsSound ==
  /\ \A t \in Traders : Sound(t, active[t])
  /\ \A p \in Procs, t \in Traders : Sound(t, runs[p][t].version)
  /\ \A p \in Procs, t \in Traders : Up(p) => Sound(t, proc[p].source[t].version)

TodoNamed ==
  \A p \in Procs : Up(p) => \A i \in DOMAIN proc[p].todo : proc[p].source[proc[p].todo[i]].config # Absent

Calm == ~overlapped /\ ~crossed

(* In calm one process at a time is between its start and its last         *)
(* registration, so what it listed is still in the table.                  *)
ListedCurrent ==
  Calm =>
    /\ \A p, q \in Procs : (Syncing(p) \/ Listing(p)) /\ (Syncing(q) \/ Listing(q)) => p = q
    /\ \A p \in Procs : Up(p) /\ Listing(p) => \A t \in Traders : proc[p].source[t] = conf[t]

ListedRecorded ==
  Calm => \A p \in Procs, t \in Traders :
    Up(p) /\ proc[p].listed /\ runs[p][t] # NoRowOf => [trader |-> t, row |-> runs[p][t]] \in history

(* The inductive invariant of registration, beside that of the tables.     *)
RegistrationInv == RegistrationShapes /\ VersionsSound /\ TodoNamed /\ ListedCurrent /\ ListedRecorded

(* Nothing is registered at first.                                         *)
LEMMA RegistrationInitHolds == ConfigInit => RegistrationInv
<1> SUFFICES ASSUME ConfigInit PROVE RegistrationInv
  OBVIOUS
<1>1. /\ \A p \in Procs : proc[p].pc = "off"
      /\ active \in [Traders -> Nat] /\ \A t \in Traders : active[t] = 0 /\ conf[t] = NoRowOf
      /\ runs \in [Procs -> [Traders -> Rows]] /\ \A p \in Procs, t \in Traders : runs[p][t] = NoRowOf
      /\ crossed \in BOOLEAN
  BY DEF ConfigInit, Off, NoRowOf, Rows
<1>2. NoRowOf.version = 0 /\ \A t \in Traders : Sound(t, 0)
  BY <1>1 DEF Sound, NoRowOf
<1> QED
  BY <1>1, <1>2 DEF RegistrationInv, RegistrationShapes, VersionsSound, TodoNamed, ListedCurrent,
                    ListedRecorded, Up, Syncing, Listing

(* The history only grows, the history variables are never reset, and      *)
(* without overlaps no version of the table goes back.                     *)
LEMMA TablesGrow ==
  ASSUME ConfigInv, ConfigNext
  PROVE  /\ history \subseteq history' /\ (Calm' => Calm) /\ (~overlapped' => ~overlapped)
         /\ \A t \in Traders : conf[t].version \in Nat
         /\ ~overlapped => \A t \in Traders : conf'[t].version \in Nat /\ conf[t].version <= conf'[t].version
<1>1. \A t \in Traders : conf[t].version \in Nat
  BY DEF ConfigInv, Shapes, Written, NoRowOf
<1>2. CASE conf' = conf /\ history' = history
  <2>1. (overlapped => overlapped') /\ (crossed => crossed')
    <3>1. ASSUME NEW p \in Procs, Start(p) PROVE (overlapped => overlapped') /\ (crossed => crossed')
      <4>1. overlapped => overlapped'
        BY <3>1 DEF Start
      <4>2. crossed => crossed'
        BY <3>1 DEF Start
      <4> QED BY <4>1, <4>2
    <3>2. \/ \E p \in Procs : Start(p)
          \/ overlapped' = overlapped /\ crossed' = crossed
      BY DEF ConfigNext, FindOne, WriteTx, SyncFails, ListAll, ListFails, Exit, StartWorker,
             RegisterTrader, Registered, SaveState, ControlRecords
    <3> QED BY <3>1, <3>2
  <2> QED BY <1>1, <1>2, <2>1 DEF Calm
<1>3. ASSUME NEW p \in Procs, proc[p].pc = "write", Commits(p), overlapped' = overlapped, crossed' = crossed
      PROVE  /\ history \subseteq history' /\ (Calm' => Calm) /\ (~overlapped' => ~overlapped)
             /\ ~overlapped => \A t \in Traders : conf'[t].version \in Nat /\ conf[t].version <= conf'[t].version
  <2> DEFINE row == buildConfigRow(p)
  <2>1. /\ Current(p) \in Traders /\ row.version = proc[p].found.version + 1
        /\ conf' = [t \in Traders |-> IF t = Current(p) THEN row ELSE conf[t]]
        /\ history \subseteq history'
    BY <1>3, CommitFacts
  <2> HIDE DEF row
  <2>2. ~overlapped => proc[p].found = conf[Current(p)]
    BY <1>3 DEF ConfigInv, Undisturbed
  <2>3. ASSUME ~overlapped, NEW t \in Traders
        PROVE  conf'[t].version \in Nat /\ conf[t].version <= conf'[t].version
    <3>1. CASE t = Current(p)
      <4>1. conf'[t].version = conf[t].version + 1
        BY <2>1, <2>2, <2>3, <3>1
      <4> QED BY <1>1, <4>1
    <3>2. CASE t # Current(p)
      BY <1>1, <2>1, <3>2
    <3> QED BY <3>1, <3>2
  <2> QED BY <1>3, <2>1, <2>3 DEF Calm
<1>4. \/ conf' = conf /\ history' = history
      \/ \E p \in Procs : /\ proc[p].pc = "write" /\ Commits(p)
                         /\ overlapped' = overlapped /\ crossed' = crossed
  BY DEF ConfigNext, Start, FindOne, WriteTx, SyncFails, ListAll, ListFails, Exit, StartWorker,
         RegisterTrader, Registered, SaveState, ControlRecords
<1> QED BY <1>1, <1>2, <1>3, <1>4

(* A sound version stays sound.                                            *)
LEMMA SoundStays ==
  ASSUME ConfigInv, ConfigNext, NEW t \in Traders, NEW version, Sound(t, version)
  PROVE  /\ version \in Nat
         /\ version > 1 => \E h \in history' : h.trader = t /\ h.row.version = version
         /\ ~overlapped' => version <= 1 \/ version <= conf'[t].version
<1>1. /\ history \subseteq history' /\ (~overlapped' => ~overlapped) /\ conf[t].version \in Nat
      /\ ~overlapped => conf'[t].version \in Nat /\ conf[t].version <= conf'[t].version
  BY TablesGrow
<1> QED BY <1>1 DEF Sound

(* A step of p that touches no runtime row keeps every version sound if    *)
(* those p itself starts from are.                                         *)
LEMMA VersionsStaySound ==
  ASSUME ConfigInv, RegistrationInv, ConfigNext, NEW p \in Procs,
         \A q \in Procs : q # p => proc'[q] = proc[q],
         active' = active, \A q \in Procs, t \in Traders : runs'[q][t] \in {runs[q][t], NoRowOf},
         Up(p)' => \A t \in Traders : Sound(t, proc'[p].source[t].version)
  PROVE  VersionsSound'
<1> SUFFICES ASSUME NEW t \in Traders
             PROVE  /\ Sound(t, active[t])'
                    /\ \A q \in Procs : Sound(t, runs[q][t].version)'
                    /\ \A q \in Procs : Up(q)' => Sound(t, proc[q].source[t].version)'
  BY DEF VersionsSound
<1>1. /\ Sound(t, active[t])
      /\ \A q \in Procs : Sound(t, runs[q][t].version)
      /\ \A q \in Procs : Up(q) => Sound(t, proc[q].source[t].version)
  BY DEF RegistrationInv, VersionsSound
<1>2. Sound(t, active[t])'
  BY <1>1, SoundStays DEF Sound
<1>3. ASSUME NEW q \in Procs PROVE Sound(t, runs[q][t].version)'
  <2>1. Sound(t, 0)
    BY DEF Sound
  <2>2. runs'[q][t].version = runs[q][t].version \/ runs'[q][t].version = 0
    BY DEF NoRowOf
  <2>3. CASE runs'[q][t].version = runs[q][t].version
    <3>1. Sound(t, runs[q][t].version)
      BY <1>1, <1>3
    <3>2. /\ runs[q][t].version \in Nat
          /\ runs[q][t].version > 1 => \E h \in history' : h.trader = t /\ h.row.version = runs[q][t].version
          /\ ~overlapped' => runs[q][t].version <= 1 \/ runs[q][t].version <= conf'[t].version
      BY <3>1, SoundStays
    <3> QED BY <2>3, <3>2 DEF Sound
  <2>4. CASE runs'[q][t].version = 0
    BY <2>1, <2>4, SoundStays DEF Sound
  <2> QED BY <2>2, <2>3, <2>4
<1>4. ASSUME NEW q \in Procs, Up(q)' PROVE Sound(t, proc[q].source[t].version)'
  <2>1. CASE q = p
    <3>1. Up(p)'
      BY <1>4, <2>1 DEF Up
    <3> QED BY <2>1, <3>1, SoundStays DEF Sound
  <2>2. CASE q # p
    <3>1. proc'[q] = proc[q] /\ Up(q)
      BY <1>4, <2>2 DEF Up
    <3>2. Sound(t, proc[q].source[t].version)
      BY <1>1, <1>4, <3>1
    <3> QED BY <3>1, <3>2, SoundStays DEF Sound
  <2> QED BY <2>1, <2>2
<1> QED BY <1>2, <1>3, <1>4

(* In calm a process in its start-up is alone: none other may be listed.   *)
LEMMA AloneKeeps ==
  ASSUME ConfigInv, RegistrationInv, ConfigNext, NEW p \in Procs,
         \A q \in Procs : q # p => proc'[q] = proc[q],
         Calm' => \A q \in Procs : q # p => ~Syncing(q) /\ ~Listing(q),
         Up(p)' /\ Listing(p)' => \A t \in Traders : proc'[p].source[t] = conf'[t]
  PROVE  ListedCurrent'
<1> SUFFICES ASSUME Calm'
             PROVE  /\ \A q, r \in Procs : (Syncing(q)' \/ Listing(q)') /\ (Syncing(r)' \/ Listing(r)') => q = r
                    /\ \A q \in Procs : Up(q)' /\ Listing(q)' => \A t \in Traders : proc'[q].source[t] = conf'[t]
  BY DEF ListedCurrent
<1>1. \A q \in Procs : q # p => ~Syncing(q)' /\ ~Listing(q)'
  BY DEF Syncing, Listing
<1> QED BY <1>1

(* Whoever was recorded stays recorded.                                    *)
LEMMA RecordedStays ==
  ASSUME ConfigInv, RegistrationInv, ConfigNext, NEW p \in Procs,
         \A q \in Procs : q # p => proc'[q] = proc[q] /\ runs'[q] = runs[q],
         Calm' /\ Up(p)' /\ proc'[p].listed =>
           \A t \in Traders : runs'[p][t] # NoRowOf => [trader |-> t, row |-> runs'[p][t]] \in history'
  PROVE  ListedRecorded'
<1> SUFFICES ASSUME Calm', NEW q \in Procs, NEW t \in Traders, Up(q)', proc'[q].listed, runs'[q][t] # NoRowOf
             PROVE  [trader |-> t, row |-> runs'[q][t]] \in history'
  BY DEF ListedRecorded
<1>1. CASE q = p
  BY <1>1
<1>2. CASE q # p
  BY <1>2, TablesGrow DEF RegistrationInv, ListedRecorded, Up
<1> QED BY <1>1, <1>2

-------------------------------------------------------------------------------
(* One lemma per kind of step.                                             *)

(* A process starts a sync or goes on with it.                             *)
LEMMA SyncRegistration ==
  ASSUME ConfigInv, RegistrationInv, NEW p \in Procs, Start(p) \/ FindOne(p) \/ WriteTx(p)
  PROVE  RegistrationInv'
<1>1. ConfigNext /\ active' = active /\ runs' = runs /\ crossed' \in BOOLEAN
  BY DEF ConfigNext, Start, FindOne, WriteTx, RegistrationInv, RegistrationShapes
<1>2. proc = [q \in Procs |-> proc[q]] /\ (FindOne(p) \/ WriteTx(p) => Syncing(p) /\ proc[p] \in Sync)
  BY SyncFacts DEF ConfigInv, Shapes, FindOne, WriteTx, Syncing
<1>3. (\A q \in Procs : q # p => proc'[q] = proc[q]) /\ proc'[p].pc \in {"find", "write", "list"}
  <2>1. CASE Start(p)
    BY <1>2, <2>1 DEF Start
  <2>2. CASE FindOne(p)
    <3>1. CASE proc' = [proc EXCEPT ![p] = Advance(p)]
      BY <1>2, <2>2, <3>1, AdvanceFacts
    <3>2. CASE proc' = [proc EXCEPT ![p] = [@ EXCEPT !.pc = "write", !.found = conf[Current(p)]]]
      BY <1>2, <2>2, <3>2 DEF Sync
    <3> QED BY <2>2, <3>1, <3>2 DEF FindOne
  <2>3. CASE WriteTx(p)
    BY <1>2, <2>3, AdvanceFacts DEF WriteTx
  <2> QED BY <2>1, <2>2, <2>3
<1>4. ~Up(p) /\ ~Up(p)' /\ \A q \in Procs : q # p => (Up(q)' <=> Up(q))
  BY <1>2, <1>3 DEF Up, Start, Off, Syncing
<1>5. Calm' => \A q \in Procs : q # p => ~Syncing(q) /\ ~Listing(q)
  <2>1. CASE Start(p)
    BY <2>1 DEF Start, Calm
  <2>2. CASE FindOne(p) \/ WriteTx(p)
    BY <1>1, <1>2, <2>2, TablesGrow DEF RegistrationInv, ListedCurrent
  <2> QED BY <2>1, <2>2
<1>6. RegistrationShapes'
  BY <1>1, <1>3, <1>4 DEF RegistrationInv, RegistrationShapes
<1>7. VersionsSound'
  BY <1>1, <1>3, <1>4, VersionsStaySound
<1>8. TodoNamed'
  BY <1>3, <1>4 DEF RegistrationInv, TodoNamed
<1>9. ListedCurrent'
  BY <1>1, <1>3, <1>4, <1>5, AloneKeeps
<1>10. ListedRecorded'
  BY <1>1, <1>3, <1>4, RecordedStays
<1> QED BY <1>6, <1>7, <1>8, <1>9, <1>10 DEF RegistrationInv

(* The sync is over, or a worker starts: a list of traders to register.    *)
LEMMA SourceRegistration ==
  ASSUME ConfigInv, RegistrationInv, NEW p \in Procs, ConfigNext, ~Up(p),
         active' = active, runs' = runs, crossed' = crossed,
         \A q \in Procs : q # p => proc'[q] = proc[q], proc'[p] \in Ups,
         \A i \in DOMAIN proc'[p].todo : proc'[p].source[proc'[p].todo[i]].config # Absent,
         \A t \in Traders : Sound(t, proc'[p].source[t].version),
         ListedCurrent'
  PROVE  RegistrationInv'
<1>1. Up(p)' /\ \A q \in Procs : q # p => (Up(q)' <=> Up(q))
  BY DEF Up, Ups, UpRecords
<1>2. RegistrationShapes'
  BY <1>1 DEF RegistrationInv, RegistrationShapes
<1>3. VersionsSound'
  BY VersionsStaySound
<1>4. TodoNamed'
  BY <1>1 DEF RegistrationInv, TodoNamed
<1>5. ListedRecorded'
  <2>1. \A t \in Traders : runs'[p][t] = NoRowOf
    BY DEF RegistrationInv, RegistrationShapes
  <2> QED BY <2>1, RecordedStays
<1> QED BY <1>2, <1>3, <1>4, <1>5 DEF RegistrationInv

(* A file's traders have no version, and the process is past its start-up  *)
(* as far as the table goes.                                               *)
LEMMA FileRegistration ==
  ASSUME ConfigInv, RegistrationInv, NEW p \in Procs, SyncFails(p) \/ ListFails(p) \/ StartWorker(p)
  PROVE  RegistrationInv'
<1>1. /\ ConfigNext /\ active' = active /\ runs' = runs /\ crossed' = crossed /\ overlapped' = overlapped
      /\ ~Up(p) /\ (conf' = conf \/ Syncing(p))
  <2>1. ConfigNext
    BY DEF ConfigNext
  <2>2. CASE SyncFails(p)
    BY <2>1, <2>2 DEF SyncFails, Up, Syncing
  <2>3. CASE ListFails(p)
    BY <2>1, <2>3 DEF ListFails, Up
  <2>4. CASE StartWorker(p)
    BY <2>1, <2>4 DEF StartWorker, Off, Up
  <2> QED BY <2>2, <2>3, <2>4
<1>2. /\ \A q \in Procs : q # p => proc'[q] = proc[q]
      /\ proc'[p] \in Ups /\ proc'[p].listed = FALSE /\ \A t \in Traders : proc'[p].source[t].version = 0
      /\ \A i \in DOMAIN proc'[p].todo : proc'[p].source[proc'[p].todo[i]].config # Absent
  BY FallsBackShape, StartWorkerShape DEF SyncFails, ListFails
<1>3. \A t \in Traders : Sound(t, proc'[p].source[t].version)
  BY <1>2 DEF Sound
<1>4. ~Syncing(p)' /\ ~Listing(p)' /\ (Calm' <=> Calm)
  BY <1>1, <1>2 DEF Syncing, Listing, Ups, UpRecords, Calm
<1>5. \A q \in Procs : q # p => (Syncing(q)' <=> Syncing(q)) /\ (Listing(q)' <=> Listing(q)) /\ (Up(q)' <=> Up(q))
  BY <1>2 DEF Syncing, Listing, Up
<1>6. ListedCurrent'
  <2> SUFFICES ASSUME Calm
               PROVE  /\ \A q, r \in Procs : (Syncing(q)' \/ Listing(q)') /\ (Syncing(r)' \/ Listing(r)') => q = r
                      /\ \A q \in Procs : Up(q)' /\ Listing(q)' => \A t \in Traders : proc'[q].source[t] = conf'[t]
    BY <1>4 DEF ListedCurrent
  <2>1. \A q, r \in Procs : (Syncing(q) \/ Listing(q)) /\ (Syncing(r) \/ Listing(r)) => q = r
    BY DEF RegistrationInv, ListedCurrent
  <2>2. ASSUME NEW q \in Procs, Up(q)', Listing(q)', NEW t \in Traders PROVE proc'[q].source[t] = conf'[t]
    <3>1. q # p /\ Listing(q) /\ Up(q)
      BY <1>4, <1>5, <2>2
    <3>2. conf' = conf
      BY <1>1, <2>1, <3>1
    <3> QED BY <1>2, <3>1, <3>2 DEF RegistrationInv, ListedCurrent
  <2> QED BY <1>4, <1>5, <2>1, <2>2
<1> QED BY <1>1, <1>2, <1>3, <1>6, SourceRegistration

(* The rows listed are those of the table, and so are their versions.      *)
LEMMA ListRegistration ==
  ASSUME ConfigInv, RegistrationInv, NEW p \in Procs, ListAll(p)
  PROVE  RegistrationInv'
<1>1. /\ ConfigNext /\ active' = active /\ runs' = runs /\ crossed' = crossed
      /\ conf' = conf /\ ~Up(p) /\ Listing(p)
  BY DEF ConfigNext, ListAll, Up, Listing
<1>2. /\ \A q \in Procs : q # p => proc'[q] = proc[q]
      /\ proc'[p] \in Ups /\ \A t \in Traders : proc'[p].source[t] = conf[t]
      /\ \A i \in DOMAIN proc'[p].todo : proc'[p].source[proc'[p].todo[i]].config # Absent
  BY ListAllShape
<1>3. ASSUME NEW t \in Traders PROVE Sound(t, proc'[p].source[t].version)
  <2>1. CASE conf[t] = NoRowOf
    BY <1>2, <2>1 DEF Sound, NoRowOf
  <2>2. CASE conf[t] # NoRowOf
    <3>1. conf[t].version \in Nat /\ [trader |-> t, row |-> conf[t]] \in history
      BY <2>2 DEF ConfigInv, Shapes, RowsRecorded, Written
    <3>2. [trader |-> t, row |-> conf[t]].trader = t /\ [trader |-> t, row |-> conf[t]].row = conf[t]
      OBVIOUS
    <3>3. \E h \in history : h.trader = t /\ h.row.version = conf[t].version
      BY <3>1, <3>2
    <3> QED BY <1>2, <3>1, <3>3 DEF Sound
  <2> QED BY <2>1, <2>2
<1>4. Calm' => \A q \in Procs : q # p => ~Syncing(q) /\ ~Listing(q)
  BY <1>1, TablesGrow DEF RegistrationInv, ListedCurrent
<1>5. ListedCurrent'
  BY <1>1, <1>2, <1>4, AloneKeeps
<1> QED BY <1>1, <1>2, <1>3, <1>5, SourceRegistration

(* The registration of one trader: in calm the table's version is the      *)
(* highest there is, and the runtime row cannot raise it.                  *)
LEMMA RegisterRegistration ==
  ASSUME ConfigInv, RegistrationInv, NEW p \in Procs, RegisterTrader(p)
  PROVE  RegistrationInv'
<1> DEFINE t0 == Current(p)
           source == proc[p].source[t0]
           first == RegisteredVersion(source.version)
<1>1. /\ ConfigNext /\ active' = active /\ crossed' = crossed /\ overlapped' = overlapped
      /\ conf' = conf /\ history' = history /\ Up(p)
  BY DEF ConfigNext, RegisterTrader
<1>2. /\ \A q \in Procs : q # p => proc'[q] = proc[q]
      /\ proc[p] \in Ups /\ proc[p].todo # <<>> /\ t0 \in Traders
      /\ proc'[p] \in Ups /\ proc'[p].source = proc[p].source /\ proc'[p].listed = proc[p].listed
      /\ proc'[p].todo = proc[p].todo
  BY RegisterShape
<1>3. PICK v \in {first, HydratedVersion(first, active[t0])} :
        runs' = [runs EXCEPT ![p][t0] = [version |-> v, config |-> source.config]]
  BY DEF RegisterTrader
<1>4. source \in Rows /\ active[t0] \in Nat /\ Sound(t0, source.version) /\ Sound(t0, active[t0])
  BY <1>1, <1>2 DEF Ups, UpRecords, RegistrationInv, RegistrationShapes, VersionsSound
<1>5. first \in Nat /\ first >= 1 /\ (source.version >= 1 => first = source.version) /\ (source.version = 0 => first = 1)
  BY <1>4 DEF RegisteredVersion, Rows
<1>6. v \in Nat /\ (v = first \/ (v = active[t0] /\ v > first))
  BY <1>3, <1>4, <1>5 DEF HydratedVersion
<1>7. Sound(t0, v)
  <2>1. Sound(t0, 1) /\ source.version \in Nat
    BY <1>4 DEF Sound, Rows
  <2>2. v \in {1, source.version, active[t0]}
    BY <1>5, <1>6, <2>1
  <2> QED BY <1>4, <2>1, <2>2
<1> DEFINE row == [version |-> v, config |-> source.config]
<1>8. row \in Rows /\ row.version = v
  BY <1>4, <1>6 DEF Rows
<1>9. /\ runs' \in [Procs -> [Traders -> Rows]] /\ runs'[p][t0] = row
      /\ \A q \in Procs, t \in Traders : q # p \/ t # t0 => runs'[q][t] = runs[q][t]
      /\ \A q \in Procs : q # p => runs'[q] = runs[q]
  <2>1. runs \in [Procs -> [Traders -> Rows]]
    BY DEF RegistrationInv, RegistrationShapes
  <2> HIDE DEF row
  <2>2. runs' = [runs EXCEPT ![p][t0] = row]
    BY <1>3 DEF row
  <2> HIDE DEF t0
  <2> QED BY <1>2, <1>8, <2>1, <2>2
<1>10. \A q \in Procs : (Syncing(q)' <=> Syncing(q)) /\ (Listing(q)' <=> Listing(q)) /\ (Up(q)' <=> Up(q))
  BY <1>1, <1>2 DEF Syncing, Listing, Up, Ups, UpRecords
<1>11. RegistrationShapes'
  BY <1>1, <1>9, <1>10 DEF RegistrationInv, RegistrationShapes
<1>12. VersionsSound'
  <2> SUFFICES ASSUME NEW t \in Traders, NEW q \in Procs
               PROVE  /\ Sound(t, active[t])' /\ Sound(t, runs[q][t].version)'
                      /\ Up(q)' => Sound(t, proc[q].source[t].version)'
    BY DEF VersionsSound
  <2>1. Sound(t, active[t]) /\ Sound(t, runs[q][t].version) /\ (Up(q) => Sound(t, proc[q].source[t].version))
    BY DEF RegistrationInv, VersionsSound
  <2>2. Sound(t, runs'[q][t].version)
    <3>1. CASE q = p /\ t = t0
      <4>1. runs'[q][t].version = v
        BY <1>8, <1>9, <3>1
      <4> QED BY <1>7, <3>1, <4>1
    <3>2. CASE q # p \/ t # t0
      BY <1>9, <2>1, <3>2
    <3> QED BY <3>1, <3>2
  <2>3. proc'[q].source = proc[q].source
    BY <1>2
  <2>4. Sound(t, active[t])'
    BY <1>1, <2>1 DEF Sound
  <2>5. Sound(t, runs[q][t].version)'
    BY <1>1, <2>2 DEF Sound
  <2>6. Up(q)' => Sound(t, proc[q].source[t].version)'
    BY <1>1, <1>10, <2>1, <2>3 DEF Sound
  <2> QED BY <2>4, <2>5, <2>6
<1>13. TodoNamed'
  <2>1. ASSUME NEW q \in Procs, Up(q)', NEW i \in DOMAIN proc'[q].todo
        PROVE  proc'[q].source[proc'[q].todo[i]].config # Absent
    <3>1. Up(q) /\ proc'[q].todo = proc[q].todo /\ proc'[q].source = proc[q].source
      BY <1>2, <1>10, <2>1
    <3> QED BY <2>1, <3>1 DEF RegistrationInv, TodoNamed
  <2> QED BY <2>1 DEF TodoNamed
<1>14. ListedCurrent'
  <2>1. Calm' <=> Calm
    BY <1>1 DEF Calm
  <2>2. \A q \in Procs : proc'[q].source = proc[q].source
    BY <1>2
  <2> QED BY <1>1, <1>10, <2>1, <2>2 DEF RegistrationInv, ListedCurrent
<1>15. ASSUME Calm, proc[p].listed PROVE row = conf[t0] /\ [trader |-> t0, row |-> row] \in history
  <2>1. Listing(p)
    BY <1>1, <1>2, <1>15 DEF Listing, Up
  <2>2. source = conf[t0]
    BY <1>1, <1>2, <1>15, <2>1 DEF RegistrationInv, ListedCurrent
  <2>3. source.config # Absent
    <3>1. 1 \in DOMAIN proc[p].todo /\ t0 = proc[p].todo[1]
      BY <1>2 DEF Current, Ups, UpRecords
    <3> QED BY <1>1, <3>1 DEF RegistrationInv, TodoNamed
  <2>4. conf[t0] \in Written /\ conf[t0] # NoRowOf
    BY <1>2, <2>2, <2>3 DEF ConfigInv, Shapes, NoRowOf
  <2>5. v = conf[t0].version
    <3>1. conf[t0].version \in Nat /\ conf[t0].version >= 1 /\ first = conf[t0].version
      BY <1>5, <2>2, <2>4 DEF Written
    <3>2. active[t0] <= 1 \/ active[t0] <= conf[t0].version
      BY <1>4, <1>15 DEF Sound, Calm
    <3> QED BY <1>4, <1>6, <3>1, <3>2
  <2>6. row = conf[t0]
    <3> HIDE DEF source
    <3> QED BY <2>2, <2>4, <2>5 DEF Written
  <2> QED BY <1>2, <2>4, <2>6 DEF ConfigInv, RowsRecorded
<1>16. ListedRecorded'
  <2> SUFFICES ASSUME Calm, proc[p].listed, NEW t \in Traders, runs'[p][t] # NoRowOf
               PROVE  [trader |-> t, row |-> runs'[p][t]] \in history'
    <3>1. Calm' <=> Calm
      BY <1>1 DEF Calm
    <3> QED BY <1>1, <1>2, <1>9, <3>1, RecordedStays
  <2>1. CASE t = t0
    BY <1>1, <1>9, <1>15, <2>1
  <2>2. CASE t # t0
    <3>1. runs'[p][t] = runs[p][t]
      BY <1>9, <2>2
    <3> QED BY <1>1, <3>1 DEF RegistrationInv, ListedRecorded
  <2> QED BY <2>1, <2>2
<1> QED BY <1>11, <1>12, <1>13, <1>14, <1>16 DEF RegistrationInv

(* A save of the runtime row: the version is that of a trader registered,  *)
(* or the zero of the control plane.                                       *)
LEMMA SaveRegistration ==
  ASSUME ConfigInv, RegistrationInv, NEW t0 \in Traders, NEW v, v = 0 \/ \E p \in Procs : v = runs[p][t0].version,
         active' \in {active, [active EXCEPT ![t0] = v]},
         conf' = conf, history' = history, runs' = runs, overlapped' = overlapped, crossed' = crossed,
         \A q \in Procs :
           /\ Up(q)' <=> Up(q)
           /\ Syncing(q)' <=> Syncing(q)
           /\ Listing(q)' => Listing(q)
           /\ Up(q) => /\ proc'[q].source = proc[q].source /\ proc'[q].listed = proc[q].listed
                       /\ \A i \in DOMAIN proc'[q].todo :
                            \E j \in DOMAIN proc[q].todo : proc'[q].todo[i] = proc[q].todo[j]
  PROVE  RegistrationInv'
<1>1. Sound(t0, v)
  <2>1. Sound(t0, 0)
    BY DEF Sound
  <2> QED BY <2>1 DEF RegistrationInv, VersionsSound
<1>2. \A t \in Traders : active'[t] = active[t] \/ (t = t0 /\ active'[t] = v)
  BY DEF RegistrationInv, RegistrationShapes
<1>3. active' \in [Traders -> Nat]
  BY <1>1 DEF RegistrationInv, RegistrationShapes, Sound
<1>4. RegistrationShapes'
  BY <1>3 DEF RegistrationInv, RegistrationShapes, Up
<1>5. VersionsSound'
  <2>1. ASSUME NEW t \in Traders PROVE Sound(t, active[t])'
    <3>1. Sound(t, active[t])
      BY <2>1 DEF RegistrationInv, VersionsSound
    <3>2. Sound(t, active'[t])
      BY <1>1, <1>2, <2>1, <3>1
    <3> QED BY <3>2 DEF Sound
  <2>2. ASSUME NEW t \in Traders, NEW q \in Procs
        PROVE  Sound(t, runs[q][t].version)' /\ (Up(q)' => Sound(t, proc[q].source[t].version)')
    <3>1. Sound(t, runs[q][t].version) /\ (Up(q) => Sound(t, proc[q].source[t].version))
      BY <2>2 DEF RegistrationInv, VersionsSound
    <3>2. Sound(t, runs[q][t].version)'
      BY <3>1 DEF Sound
    <3>3. Up(q)' => Sound(t, proc[q].source[t].version)'
      BY <2>2, <3>1 DEF Sound, Up
    <3> QED BY <3>2, <3>3
  <2> QED BY <2>1, <2>2 DEF VersionsSound
<1>6. TodoNamed'
  BY DEF RegistrationInv, TodoNamed, Up
<1>7. ListedCurrent' /\ ListedRecorded'
  <2>1. Calm' <=> Calm
    BY DEF Calm
  <2> QED BY <2>1 DEF RegistrationInv, ListedCurrent, ListedRecorded, Up, Syncing, Listing
<1> QED BY <1>4, <1>5, <1>6, <1>7 DEF RegistrationInv

(* The save that ends a registration.                                      *)
LEMMA RegisteredRegistration ==
  ASSUME ConfigInv, RegistrationInv, NEW p \in Procs, Registered(p)
  PROVE  RegistrationInv'
<1>1. /\ conf' = conf /\ history' = history /\ runs' = runs /\ overlapped' = overlapped /\ crossed' = crossed
      /\ Up(p) /\ active' \in {active, [active EXCEPT ![Current(p)] = runs[p][Current(p)].version]}
  BY DEF Registered, persistRuntimeState
<1>2. /\ \A q \in Procs : q # p => proc'[q] = proc[q]
      /\ proc[p] \in Ups /\ Current(p) \in Traders
      /\ proc'[p] \in Ups /\ proc'[p].source = proc[p].source /\ proc'[p].listed = proc[p].listed
      /\ proc'[p].todo = Tail(proc[p].todo) /\ proc[p].todo # <<>>
  BY RegisteredShape DEF Registered, Ups
<1>3. \A i \in DOMAIN Tail(proc[p].todo) : i + 1 \in DOMAIN proc[p].todo /\ Tail(proc[p].todo)[i] = proc[p].todo[i + 1]
  BY <1>2 DEF Ups, UpRecords
<1>4. ASSUME NEW q \in Procs
      PROVE  /\ Up(q)' <=> Up(q)
             /\ Syncing(q)' <=> Syncing(q)
             /\ Listing(q)' => Listing(q)
             /\ Up(q) => /\ proc'[q].source = proc[q].source /\ proc'[q].listed = proc[q].listed
                         /\ \A i \in DOMAIN proc'[q].todo :
                              \E j \in DOMAIN proc[q].todo : proc'[q].todo[i] = proc[q].todo[j]
  <2>1. CASE q # p
    BY <1>2, <2>1 DEF Up, Syncing, Listing
  <2>2. CASE q = p
    <3>1. proc[p].pc = "up" /\ proc'[p].pc = "up"
      BY <1>2 DEF Ups, UpRecords
    <3> QED BY <1>2, <1>3, <2>2, <3>1 DEF Up, Syncing, Listing
  <2> QED BY <2>1, <2>2
<1> DEFINE t0 == Current(p)
           v == runs[p][t0].version
<1>5. t0 \in Traders /\ (\E q \in Procs : v = runs[q][t0].version) /\ active' \in {active, [active EXCEPT ![t0] = v]}
  BY <1>1, <1>2
<1> HIDE DEF t0, v
<1> QED BY <1>1, <1>4, <1>5, SaveRegistration

(* What ends the process ends what it had registered.                      *)
LEMMA ExitRegistration ==
  ASSUME ConfigInv, RegistrationInv, NEW p \in Procs, Exit(p)
  PROVE  RegistrationInv'
<1>1. /\ ConfigNext /\ active' = active /\ conf' = conf /\ crossed' = crossed /\ overlapped' = overlapped
  BY DEF ConfigNext, Exit
<1> DEFINE none == [t \in Traders |-> NoRowOf]
<1>2. /\ \A q \in Procs : q # p => proc'[q] = proc[q] /\ runs'[q] = runs[q]
      /\ proc'[p].pc = "off" /\ runs'[p] = none /\ runs' \in [Procs -> [Traders -> Rows]]
  <2>1. proc = [q \in Procs |-> proc[q]] /\ runs \in [Procs -> [Traders -> Rows]]
    BY DEF ConfigInv, Shapes, RegistrationInv, RegistrationShapes
  <2>2. none \in [Traders -> Rows]
    BY DEF NoRowOf, Rows
  <2>3. proc' = [proc EXCEPT ![p] = Off] /\ runs' = [runs EXCEPT ![p] = none] /\ Off.pc = "off"
    BY DEF Exit, Off
  <2> HIDE DEF none
  <2> QED BY <2>1, <2>2, <2>3
<1>3. ~Up(p)' /\ ~Syncing(p)' /\ ~Listing(p)' /\ (Calm' <=> Calm)
  BY <1>1, <1>2 DEF Up, Syncing, Listing, Calm
<1>4. \A q \in Procs : q # p => (Syncing(q)' <=> Syncing(q)) /\ (Listing(q)' <=> Listing(q)) /\ (Up(q)' <=> Up(q))
  BY <1>2 DEF Syncing, Listing, Up
<1>5. RegistrationShapes'
  BY <1>1, <1>2, <1>3, <1>4 DEF RegistrationInv, RegistrationShapes
<1>6. VersionsSound'
  <2>1. \A q \in Procs, t \in Traders : runs'[q][t] \in {runs[q][t], NoRowOf}
    BY <1>2
  <2> QED BY <1>1, <1>2, <1>3, <2>1, VersionsStaySound
<1>7. TodoNamed'
  BY <1>2, <1>3, <1>4 DEF RegistrationInv, TodoNamed
<1>8. ListedCurrent'
  BY <1>1, <1>2, <1>3, <1>4 DEF RegistrationInv, ListedCurrent
<1>9. ListedRecorded'
  BY <1>1, <1>2, <1>3, RecordedStays
<1> QED BY <1>5, <1>6, <1>7, <1>8, <1>9 DEF RegistrationInv

(* Every step of the module keeps the invariant of registration.           *)
LEMMA RegistrationStep == ConfigInv /\ RegistrationInv /\ [ConfigNext]_configVars => RegistrationInv'
<1> SUFFICES ASSUME ConfigInv, RegistrationInv, [ConfigNext]_configVars PROVE RegistrationInv'
  OBVIOUS
<1>1. ASSUME NEW p \in Procs,
             \/ Start(p) \/ FindOne(p) \/ WriteTx(p) \/ SyncFails(p) \/ ListAll(p) \/ ListFails(p)
             \/ Exit(p) \/ StartWorker(p) \/ RegisterTrader(p) \/ Registered(p)
      PROVE  RegistrationInv'
  BY <1>1, SyncRegistration, FileRegistration, ListRegistration, RegisterRegistration,
     RegisteredRegistration, ExitRegistration
<1>2. ASSUME conf' = conf, history' = history, proc' = proc, runs' = runs, overlapped' = overlapped, crossed' = crossed,
             NEW t \in Traders, NEW v, v = 0 \/ \E p \in Procs : v = runs[p][t].version,
             active' \in {active, [active EXCEPT ![t] = v]}
      PROVE  RegistrationInv'
  <2>1. \A q \in Procs : (Up(q)' <=> Up(q)) /\ (Syncing(q)' <=> Syncing(q)) /\ (Listing(q)' => Listing(q))
    BY <1>2 DEF Up, Syncing, Listing
  <2> QED BY <1>2, <2>1, SaveRegistration
<1>3. ASSUME NEW p \in Procs, SaveState(p) PROVE RegistrationInv'
  <2>1. PICK t \in Traders : persistRuntimeState(p, t)
    BY <1>3 DEF SaveState
  <2>2. /\ conf' = conf /\ history' = history /\ proc' = proc /\ runs' = runs
        /\ overlapped' = overlapped /\ crossed' = crossed
    BY <1>3 DEF SaveState
  <2>3. PICK v : v = runs[p][t].version /\ active' = [active EXCEPT ![t] = v]
    BY <2>1 DEF persistRuntimeState
  <2> QED BY <1>2, <2>2, <2>3
<1>4. CASE ControlRecords
  <2>1. PICK t \in Traders : active' = [active EXCEPT ![t] = 0]
    BY <1>4 DEF ControlRecords
  <2>2. /\ conf' = conf /\ history' = history /\ proc' = proc /\ runs' = runs
        /\ overlapped' = overlapped /\ crossed' = crossed
    BY <1>4 DEF ControlRecords
  <2> QED BY <1>2, <2>1, <2>2
<1>5. CASE UNCHANGED configVars
  BY <1>5 DEF configVars, RegistrationInv, RegistrationShapes, VersionsSound, Sound, TodoNamed, Calm,
              ListedCurrent, ListedRecorded, Up, Syncing, Listing
<1> QED BY <1>1, <1>3, <1>4, <1>5 DEF ConfigNext

-------------------------------------------------------------------------------
(* Registration keeps its invariant for any number of processes, workers,  *)
(* traders and starts: no version is made up, and without overlap none     *)
(* passes that of the table.                                               *)
THEOREM RegistrationInvariant == ConfigSpec => [](ConfigInv /\ RegistrationInv)
<1>1. ConfigInit => ConfigInv /\ RegistrationInv
  BY ConfigInitHolds, RegistrationInitHolds
<1>2. ConfigInv /\ RegistrationInv /\ [ConfigNext]_configVars => (ConfigInv /\ RegistrationInv)'
  BY ConfigStep, RegistrationStep
<1> QED BY <1>1, <1>2, PTL DEF ConfigSpec

(* Type correctness of the tables, with the bound on versions: one start   *)
(* of cmd/llm raises the version of a trader by one at most, also when     *)
(* several overlap.                                                        *)
THEOREM ConfigTypeCorrect == ConfigSpec => []ConfigTypeOK
<1>1. ASSUME ConfigInv, RegistrationInv PROVE ConfigTypeOK
  <2>1. starts \in 0..MaxStarts /\ MaxStarts \in Nat
    BY <1>1, ConfigAssumption DEF ConfigInv, Shapes
  <2>2. ASSUME NEW t \in Traders
        PROVE  conf[t] \in [version : 0..MaxStarts, config : Configs \cup {Absent}]
    <3>1. /\ conf[t] \in {NoRowOf} \cup Written
          /\ conf[t].version + Cardinality(Pending(t)) <= starts /\ Cardinality(Pending(t)) \in Nat
      BY <1>1, PendingFinite DEF ConfigInv, Shapes, VersionsPaid
    <3>2. conf[t].version \in 0..MaxStarts
      BY <2>1, <3>1 DEF NoRowOf, Written
    <3> QED BY <3>1, <3>2 DEF NoRowOf, Written
  <2>3. ASSUME NEW h \in history
        PROVE  h \in [trader : Traders, row : [version : 1..MaxStarts, config : Configs]]
    <3>1. h \in [trader : Traders, row : Written] /\ h.row.version <= starts
      BY <1>1 DEF ConfigInv, Shapes, VersionsPaid
    <3>2. h.row \in Written /\ h.row.version \in 1..MaxStarts
      BY <2>1, <3>1 DEF Written
    <3>3. h.row \in [version : 1..MaxStarts, config : Configs]
      BY <3>2 DEF Written
    <3> QED BY <3>1, <3>3
  <2>4. \A p \in Procs : proc[p].pc \in {"off", "find", "write", "list", "up"}
    BY <1>1 DEF ConfigInv, Shapes, Sync, Ups, UpRecords
  <2>5. overlapped \in BOOLEAN /\ crossed \in BOOLEAN
    BY <1>1 DEF ConfigInv, Shapes, RegistrationInv, RegistrationShapes
  <2>6. \A t \in Traders : active[t] \in Nat /\ \A p \in Procs : runs[p][t].version \in Nat
    BY <1>1 DEF RegistrationInv, RegistrationShapes, Rows
  <2> QED BY <2>1, <2>2, <2>3, <2>4, <2>5, <2>6 DEF ConfigTypeOK
<1> QED BY <1>1, RegistrationInvariant, PTL

(* What the traders of the table decide under is in the history of         *)
(* trader_config under the version they give, for every interleaving of    *)
(* starts, saves of the runtime row and failures in which no start fell    *)
(* between another's start and its last registration; and no version at    *)
(* all is made up.                                                         *)
THEOREM TradedStaysRecorded == ConfigSpec => []TradedIsRecorded
<1>1. ASSUME ConfigInv, RegistrationInv PROVE TradedIsRecorded
  <2>1. \A t \in Traders : conf[t] # NoRowOf => [trader |-> t, row |-> conf[t]] \in history
    BY <1>1 DEF ConfigInv, RowsRecorded
  <2>2. ASSUME NEW t \in Traders, NEW v \in {active[t]} \cup {runs[p][t].version : p \in Procs}, v > 1
        PROVE  \E h \in history : h.trader = t /\ h.row.version = v
    BY <1>1, <2>2 DEF RegistrationInv, VersionsSound, Sound
  <2> QED BY <1>1, <2>1, <2>2 DEF TradedIsRecorded, RegistrationInv, ListedRecorded, Calm
<1> QED BY <1>1, RegistrationInvariant, PTL

(* Without overlapping syncs a version names one configuration of its      *)
(* trader, and the versions have no gaps.                                  *)
THEOREM VersionsStayUnique == ConfigSpec => []VersionsIdentify
<1>1. ConfigInv => VersionsIdentify
  BY DEF ConfigInv
<1> QED BY <1>1, ConfigInvariant, PTL
===============================================================================
