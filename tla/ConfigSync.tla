------------------------------ MODULE ConfigSync ------------------------------
(***************************************************************************)
(* Start-up of cmd/llm: the traders of manager.yaml are synced into        *)
(* trader_config one by one, each with a row in trader_config_history,     *)
(* and the process then registers the traders the table holds, or those of *)
(* its file when the sync fails.  Registering gives a trader the version   *)
(* it decides under: that of its source, raised to the one its row of      *)
(* trader_runtime_state says is active, which every process with the       *)
(* trader writes, the command worker (it registers its file without a      *)
(* sync) and the control plane too.  A second process may be started       *)
(* before the first has finished (a redeployment).                         *)
(* A configuration is one value; its JSON is compared in the form Go       *)
(* writes with the form Postgres gives back for a JSONB column.            *)
(***************************************************************************)
EXTENDS Naturals, FiniteSets, Sequences, SequencesExt

CONSTANTS Procs, Traders, Configs,
          Absent,     \* no row, or no entry in the YAML file
          MaxStarts   \* bound on process starts

ASSUME ConfigAssumption ==
  /\ MaxStarts \in Nat /\ Absent \notin Configs
  /\ IsFiniteSet(Procs) /\ IsFiniteSet(Traders)

VARIABLES
  conf,        \* table trader_config
  history,     \* table trader_config_history
  active,      \* active_config_version in trader_runtime_state, 0 without a row
  proc,        \* each process: its YAML, the sync or registration under way
  runs,        \* the traders each process has registered
  starts,
  overlapped,  \* history: a process started while another was syncing
  crossed      \* history: one started while another registered what it listed

configVars == <<conf, history, active, proc, runs, starts, overlapped, crossed>>

NoRowOf == [version |-> 0, config |-> Absent]

Off == [pc |-> "off"]

(* JSON of one configuration as json.Marshal writes it and as Postgres     *)
(* prints the JSONB: never the same text.                                  *)
normalizeDetail(c) == <<"marshalled", c>>

JsonbText(c) == <<"jsonb", c>>

(* Without the columns' difference there is still the detail's.            *)
computeChangedFields(row, c) ==
  (IF row.config # c THEN {"columns"} ELSE {})
  \cup (IF JsonbText(row.config) # normalizeDetail(c) THEN {"detail"} ELSE {})

(* Mutant of NextVersion: a changed row keeps its version.                 *)
NextVersionSame(row) == IF row = NoRowOf THEN 1 ELSE row.version

(* Mutant of NextVersion: counted once by the caller and once more here.   *)
NextVersionTwice(row) == row.version + 2

(* 1, or one more than the version read before the transaction.            *)
NextVersion(row) == row.version + 1

(* A trader of a file has no version: it gets the first.                   *)
RegisteredVersion(version) == IF version = 0 THEN 1 ELSE version

(* Mutant of HydratedVersion: the row's version whenever there is one.     *)
HydratedVersionOfRow(version, row) == IF row > 0 THEN row ELSE version

(* The version of the runtime row only raises that of the trader.          *)
HydratedVersion(version, row) == IF row > version THEN row ELSE version

FromFile(yaml) == [t \in Traders |-> [version |-> 0, config |-> yaml[t]]]

(* A process about to register the traders of `source`, in some order.     *)
Registering(source, listed) ==
  {[pc |-> "up", source |-> source, listed |-> listed, todo |-> todo, saving |-> FALSE] :
     todo \in SetToSeqs({t \in Traders : source[t].config # Absent})}

-------------------------------------------------------------------------------

ConfigInit ==
  /\ conf = [t \in Traders |-> NoRowOf] /\ history = {}
  /\ active = [t \in Traders |-> 0]
  /\ proc = [p \in Procs |-> Off]
  /\ runs = [p \in Procs |-> [t \in Traders |-> NoRowOf]]
  /\ starts = 0 /\ overlapped = FALSE /\ crossed = FALSE

Syncing(p) == proc[p].pc \in {"find", "write"}

(* Between the end of its sync and its last registration.                  *)
Listing(p) ==
  \/ proc[p].pc = "list"
  \/ proc[p].pc = "up" /\ proc[p].listed /\ proc[p].todo # <<>>

(* The traders of the file, in some order.  An empty file skips the sync.  *)
Start(p) ==
  /\ proc[p] = Off /\ starts < MaxStarts /\ starts' = starts + 1
  /\ \E yaml \in [Traders -> Configs \cup {Absent}] :
       \E todo \in SetToSeqs({t \in Traders : yaml[t] # Absent}) :
         /\ todo # <<>>
         /\ proc' = [proc EXCEPT ![p] = [pc |-> "find", yaml |-> yaml, found |-> NoRowOf, todo |-> todo]]
  /\ overlapped' = (overlapped \/ \E q \in Procs : Syncing(q))
  /\ crossed' = (crossed \/ \E q \in Procs : Listing(q))
  /\ UNCHANGED <<conf, history, active, runs>>

Current(p) == Head(proc[p].todo)

Wanted(p) == proc[p].yaml[Current(p)]

(* What follows the record that has just been synced.                      *)
Advance(p) ==
  [proc[p] EXCEPT !.todo = Tail(@), !.found = NoRowOf,
                  !.pc = IF Len(proc[p].todo) = 1 THEN "list" ELSE "find"]

(* syncOne looks the trader up outside any transaction.                    *)
FindOne(p) ==
  /\ proc[p].pc = "find"
  /\ LET row == conf[Current(p)]
     IN  proc' = [proc EXCEPT ![p] =
                    IF row # NoRowOf /\ computeChangedFields(row, Wanted(p)) = {} THEN Advance(p)
                    ELSE [@ EXCEPT !.pc = "write", !.found = row]]
  /\ UNCHANGED <<conf, history, active, runs, starts, overlapped, crossed>>

buildConfigRow(p) == [version |-> NextVersion(proc[p].found), config |-> Wanted(p)]

buildHistoryRow(p) == [trader |-> Current(p), row |-> buildConfigRow(p)]

(* An insert needs the id to be free; the update asks for no version.      *)
Writable(p) == proc[p].found = NoRowOf => conf[Current(p)] = NoRowOf

(* withTx: both rows or none.                                              *)
Commits(p) ==
  /\ conf' = [conf EXCEPT ![Current(p)] = buildConfigRow(p)]
  /\ history' = history \cup {buildHistoryRow(p)}

WriteTx(p) ==
  /\ proc[p].pc = "write" /\ Writable(p)
  /\ Commits(p)
  /\ proc' = [proc EXCEPT ![p] = Advance(p)]
  /\ UNCHANGED <<active, runs, starts, overlapped, crossed>>

(* The process goes on with the traders of its file.                       *)
FallsBack(p) == \E up \in Registering(FromFile(proc[p].yaml), FALSE) : proc' = [proc EXCEPT ![p] = up]

(* Any error ends the sync, one on the way back from the commit too.       *)
SyncFails(p) ==
  /\ Syncing(p)
  /\ \/ UNCHANGED <<conf, history>>
     \/ proc[p].pc = "write" /\ Writable(p) /\ Commits(p)
  /\ FallsBack(p)
  /\ UNCHANGED <<active, runs, starts, overlapped, crossed>>

TraderConfigFromModel(t) == conf[t]

(* The table's traders will be registered, those of no file included.      *)
ListAll(p) ==
  /\ proc[p].pc = "list"
  /\ \E up \in Registering([t \in Traders |-> TraderConfigFromModel(t)], TRUE) : proc' = [proc EXCEPT ![p] = up]
  /\ UNCHANGED <<conf, history, active, runs, starts, overlapped, crossed>>

ListFails(p) ==
  /\ proc[p].pc = "list" /\ FallsBack(p)
  /\ UNCHANGED <<conf, history, active, runs, starts, overlapped, crossed>>

(* The command worker builds its Manager from its file, without a sync.    *)
StartWorker(p) ==
  /\ proc[p] = Off
  /\ \E yaml \in [Traders -> Configs \cup {Absent}] :
       \E up \in Registering(FromFile(yaml), FALSE) : proc' = [proc EXCEPT ![p] = up]
  /\ UNCHANGED <<conf, history, active, runs, starts, overlapped, crossed>>

Up(p) == proc[p].pc = "up"

(* RegisterTrader up to its save; the runtime row may be unreadable.       *)
RegisterTrader(p) ==
  /\ Up(p) /\ proc[p].todo # <<>> /\ ~proc[p].saving
  /\ LET source  == proc[p].source[Current(p)]
         version == RegisteredVersion(source.version)
     IN  \E v \in {version, HydratedVersion(version, active[Current(p)])} :
           runs' = [runs EXCEPT ![p][Current(p)] = [version |-> v, config |-> source.config]]
  /\ proc' = [proc EXCEPT ![p].saving = TRUE]
  /\ UNCHANGED <<conf, history, active, starts, overlapped, crossed>>

persistRuntimeState(p, t) == active' = [active EXCEPT ![t] = runs[p][t].version]

(* The save that ends the registration; its error is logged and forgotten. *)
Registered(p) ==
  /\ Up(p) /\ proc[p].saving
  /\ persistRuntimeState(p, Current(p)) \/ UNCHANGED active
  /\ proc' = [proc EXCEPT ![p].saving = FALSE, ![p].todo = Tail(@)]
  /\ UNCHANGED <<conf, history, runs, starts, overlapped, crossed>>

(* The loop and the worker save a trader after everything they do to it.   *)
SaveState(p) ==
  /\ Up(p) /\ proc[p].todo = <<>>
  /\ \E t \in Traders : runs[p][t] # NoRowOf /\ persistRuntimeState(p, t)
  /\ UNCHANGED <<conf, history, proc, runs, starts, overlapped, crossed>>

(* The control plane writes the version of the trader in its own file.     *)
ControlRecords ==
  /\ \E t \in Traders : active' = [active EXCEPT ![t] = 0]
  /\ UNCHANGED <<conf, history, proc, runs, starts, overlapped, crossed>>

(* The process ends, on a signal or by a crash.                            *)
Exit(p) ==
  /\ proc[p] # Off
  /\ proc' = [proc EXCEPT ![p] = Off]
  /\ runs' = [runs EXCEPT ![p] = [t \in Traders |-> NoRowOf]]
  /\ UNCHANGED <<conf, history, active, starts, overlapped, crossed>>

ConfigNext ==
  \/ \E p \in Procs : \/ Start(p) \/ FindOne(p) \/ WriteTx(p) \/ SyncFails(p)
                      \/ ListAll(p) \/ ListFails(p) \/ Exit(p)
                      \/ StartWorker(p) \/ RegisterTrader(p) \/ Registered(p) \/ SaveState(p)
  \/ ControlRecords

ConfigSpec == ConfigInit /\ [][ConfigNext]_configVars

-------------------------------------------------------------------------------
(* Properties.                                                             *)

(* Tables, processes and registered traders have their types.              *)
ConfigTypeOK ==
  /\ \A t \in Traders : conf[t] \in [version : 0..MaxStarts, config : Configs \cup {Absent}]
  /\ history \subseteq [trader : Traders, row : [version : 1..MaxStarts, config : Configs]]
  /\ \A p \in Procs : proc[p].pc \in {"off", "find", "write", "list", "up"}
  /\ \A t \in Traders : active[t] \in Nat /\ \A p \in Procs : runs[p][t].version \in Nat
  /\ starts \in 0..MaxStarts /\ overlapped \in BOOLEAN /\ crossed \in BOOLEAN

(* Every current row is in the history, and so is every version above the  *)
(* first that a process gives its decisions or the runtime row says is     *)
(* active.  A process that listed the table trades what the history holds  *)
(* under its version, although the runtime row it reads at registration is *)
(* written by older processes, the worker and the control plane: unless a  *)
(* process started during its sync or before it had registered, as the row *)
(* may then name a configuration younger than the one it listed.  Nothing  *)
(* of the kind holds of a process that fell back on its file.              *)
TradedIsRecorded ==
  /\ \A t \in Traders : conf[t] # NoRowOf => [trader |-> t, row |-> conf[t]] \in history
  /\ \A t \in Traders : \A v \in {active[t]} \cup {runs[p][t].version : p \in Procs} :
       v > 1 => \E h \in history : h.trader = t /\ h.row.version = v
  /\ ~overlapped /\ ~crossed =>
       \A p \in Procs, t \in Traders :
         Up(p) /\ proc[p].listed /\ runs[p][t] # NoRowOf => [trader |-> t, row |-> runs[p][t]] \in history

(* Unless two syncs overlapped, a version names one configuration in its   *)
(* trader's history and versions have no gaps: the decisions of a process  *)
(* that listed the table (TradedIsRecorded) can be replayed by version.    *)
(* The version is read before the transaction, so overlapping syncs may    *)
(* give one version twice.                                                 *)
VersionsIdentify ==
  ~overlapped => \A t \in Traders :
    LET mine == {h.row : h \in {g \in history : g.trader = t}}
    IN  /\ \A a, b \in mine : a.version = b.version => a = b
        /\ {a.version : a \in mine} = 1..conf[t].version
===============================================================================
