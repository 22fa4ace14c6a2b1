----------------------------- MODULE DecisionCheck -----------------------------
(***************************************************************************)
(* One trader's decision cycle up to execution: buildExecutorContext of    *)
(* pkg/manager reads the account, the positions and the market (each read  *)
(* may fail and is then left out), pkg/executor asks the model, maps its   *)
(* answer to a decision and validates it against that context, and the     *)
(* trading loop hands an accepted decision on.  The account moves on while *)
(* the model is asked.                                                     *)
(***************************************************************************)
EXTENDS Integers, FiniteSets

CONSTANTS Coins, Majors,     \* the venue's coins, and BTC and ETH among them
          Equities,          \* account values
          HeldMargin,        \* margin of one held position
          Notionals,         \* position sizes the model may ask for
          Leverages,         \* leverages the model may ask for
          MajorCoinLeverage, AltcoinLeverage, \* caps of the configuration
          AssetLeverage,     \* the venue's cap, in the asset's metadata
          MajorFloor, AltFloor,       \* value bands: least equities in one position
          MajorMultiple, AltMultiple, \* value bands: most equities in one position
          MaxMarginUsagePct, \* of the risk parameters, its guard enabled
          MaxPositions,      \* of the risk parameters and of the executor
          MaxMoves,          \* bound on what others do to the account
          MaxCycles          \* bound on decision cycles

ASSUME DecisionAssumption ==
  /\ Majors \subseteq Coins /\ Equities \subseteq Nat /\ HeldMargin \in Nat
  /\ Notionals \subseteq Nat \ {0} /\ Leverages \subseteq Nat \ {0}
  /\ MaxPositions \in Nat \ {0} /\ MajorFloor \in Nat /\ AltFloor \in Nat
  /\ MajorMultiple \in Nat /\ AltMultiple \in Nat

VARIABLES held,     \* [Coins -> "none", "long" or "short"], the exchange account
          foreign,  \* coins assigned to another trader
          thin,     \* coins whose open interest is below the liquidity threshold
          equity,   \* the account's value
          ectx,     \* the cycle and the context it decides on
          failures, \* validation failures in a row, by coin
          moves, cycles

deskVars == <<held, foreign, thin, equity, ectx, failures, moves, cycles>>

Hold == [action |-> "hold", coin |-> "none", spelling |-> "blank", leverage |-> 0, size |-> 0]

(* The zero context: no equity, no positions, nothing known of any market. *)
NoContext ==
  [st |-> "idle", acctRead |-> FALSE, posRead |-> FALSE, moved |-> FALSE,
   equity |-> 0, margin |-> 0, positions |-> [c \in Coins |-> "none"],
   candidates |-> {}, illiquid |-> {}, assetMeta |-> {}, decision |-> Hold]

DeskInit ==
  /\ held = [c \in Coins |-> "none"] /\ foreign = {} /\ thin = {}
  /\ equity \in Equities
  /\ ectx = NoContext
  /\ failures = [c \in Coins |-> 0]
  /\ moves = 0 /\ cycles = 0

HeldIn(positions) == {c \in Coins : positions[c] # "none"}

filterPositionsForTrader(positions) ==
  [c \in Coins |-> IF c \in foreign THEN "none" ELSE positions[c]]

(* The ranking is left open; a coin that looks illiquid is no candidate.   *)
selectCandidates == SUBSET (Coins \ thin)

(* Account and positions first, the candidates from the market after them. *)
ReadAccount(acctRead, posRead, candidates) ==
  /\ ectx.st = "idle" /\ cycles < MaxCycles
  /\ candidates \in selectCandidates
  /\ ectx' = [NoContext EXCEPT
       !.st = "market", !.acctRead = acctRead, !.posRead = posRead,
       !.equity = IF acctRead THEN equity ELSE 0,
       !.margin = IF acctRead THEN HeldMargin * Cardinality(HeldIn(held)) ELSE 0,
       !.positions = IF posRead THEN filterPositionsForTrader(held) ELSE @,
       !.candidates = candidates]
  /\ cycles' = cycles + 1
  /\ UNCHANGED <<held, foreign, thin, equity, failures, moves>>

(* Snapshots of positions and candidates (those that could be read), and   *)
(* the metadata of coins with a position.  The candidates then only serve  *)
(* the prompt.                                                             *)
ReadMarket(snaps, listed) ==
  /\ ectx.st = "market"
  /\ snaps \subseteq HeldIn(ectx.positions) \cup ectx.candidates
  /\ ectx' = [ectx EXCEPT !.st = "asked", !.illiquid = snaps \cap thin, !.candidates = {},
                          !.assetMeta = IF listed THEN HeldIn(ectx.positions) ELSE {}]
  /\ UNCHANGED <<held, foreign, thin, equity, failures, moves, cycles>>

(* What the model may answer.  Its symbol is spelled as the venue does, in *)
(* another case, with blanks around it, or left out; "sound" stands for    *)
(* the checks on the decision alone (prices, reward and risk, confidence). *)
Answers ==
  [signal : {"buy_to_enter", "sell_to_enter", "hold", "close", "other"}, coin : Coins,
   spelling : {"exact", "folded", "padded", "blank"}, leverage : Leverages,
   size : Notionals, sound : BOOLEAN]

(* The coins a comparison finds for a spelling.                            *)
Exactly(d) == IF d.spelling = "exact" THEN {d.coin} ELSE {}

EqualFold(d) == IF d.spelling \in {"exact", "folded"} THEN {d.coin} ELSE {}

Trimmed(d) == IF d.spelling # "blank" THEN {d.coin} ELSE {}

inferSide(d) == IF \E c \in Trimmed(d) : ectx.positions[c] = "short" THEN "short" ELSE "long"

(* Unknown signals become hold.                                            *)
mapDecisionContract(d) ==
  [action |-> CASE d.signal = "buy_to_enter" -> "open_long"
                [] d.signal = "sell_to_enter" -> "open_short"
                [] d.signal = "close" /\ inferSide(d) = "short" -> "close_short"
                [] d.signal = "close" /\ inferSide(d) # "short" -> "close_long"
                [] OTHER -> "hold",
   coin |-> d.coin, spelling |-> d.spelling, leverage |-> d.leverage, size |-> d.size]

(* What is read of an accepted decision later on.                          *)
Accepted(d) ==
  CASE d.action \in {"open_long", "open_short"} -> d
    [] d.action \in {"close_long", "close_short"} -> [d EXCEPT !.leverage = 0, !.size = 0]
    [] OTHER -> Hold

IsOpen(d) == d.action \in {"open_long", "open_short"}

isBTCETH(d) == Trimmed(d) \cap Majors # {}

Least(a, b) == IF a < b THEN a ELSE b

LeverageCap(d) ==
  LET capLev == IF isBTCETH(d) THEN MajorCoinLeverage ELSE AltcoinLeverage
  IN IF Exactly(d) \cap ectx.assetMeta # {} THEN Least(AssetLeverage, capLev) ELSE capLev

ValueBand(d) == IF isBTCETH(d) THEN [least |-> MajorFloor, most |-> MajorMultiple]
                ELSE [least |-> AltFloor, most |-> AltMultiple]

(* The margin of the account with the new position, in percent of equity.  *)
WithinMargin(used, value, d) ==
  100 * (used * d.leverage + d.size) <= MaxMarginUsagePct * value * d.leverage

(* Mutant of PositionGuards: positions are compared by the exact symbol.   *)
PositionGuardsExact(d) ==
  /\ Cardinality(HeldIn(ectx.positions)) < MaxPositions
  /\ Exactly(d) \cap HeldIn(ectx.positions) = {}

(* Position count, no pyramiding and no hedging.                           *)
PositionGuards(d) ==
  /\ Cardinality(HeldIn(ectx.positions)) < MaxPositions
  /\ EqualFold(d) \cap HeldIn(ectx.positions) = {}

(* Guards that need the account's equity are skipped without one.          *)
EquityGuards(d) ==
  ectx.equity > 0 =>
    /\ ValueBand(d).least * ectx.equity <= d.size
    /\ d.size <= ValueBand(d).most * ectx.equity
    /\ WithinMargin(ectx.margin, ectx.equity, d)

(* The context has no recently closed coins and no caps on risk and size:  *)
(* the guards on them never apply.                                         *)
ValidateDecisions(d, sound) ==
  CASE IsOpen(d) ->
         /\ d.spelling # "blank" /\ sound
         /\ d.leverage <= LeverageCap(d)
         /\ Exactly(d) \cap ectx.illiquid = {}
         /\ EquityGuards(d) /\ PositionGuards(d)
    [] d.action \in {"close_long", "close_short"} ->
         \E c \in EqualFold(d) :
           ectx.positions[c] = (IF d.action = "close_short" THEN "short" ELSE "long")
    [] OTHER -> TRUE

(* trackFailure and resetFailure, by the trimmed symbol; failures without  *)
(* a symbol are counted by their message, which nothing reads.             *)
FailuresAfter(d, ok) ==
  [c \in Coins |-> IF c \notin Trimmed(d) THEN failures[c]
                   ELSE IF ok THEN 0 ELSE failures[c] + 1]

(* No answer before the deadline, one that does not parse, or one that     *)
(* breaks the schema where that is an error: the cycle has no decision.    *)
AskFails ==
  /\ ectx.st = "asked"
  /\ ectx' = NoContext
  /\ UNCHANGED <<held, foreign, thin, equity, failures, moves, cycles>>

GetFullDecision(answer) ==
  LET d == mapDecisionContract(answer)
      ok == ValidateDecisions(d, answer.sound)
  IN /\ ectx.st = "asked"
     /\ failures' = FailuresAfter(d, ok)
     /\ ectx' = IF ok THEN [ectx EXCEPT !.st = "accepted", !.decision = Accepted(d),
                                   !.illiquid = {}, !.assetMeta = {}]
                ELSE NoContext
     /\ UNCHANGED <<held, foreign, thin, equity, moves, cycles>>

(* The loop passes on what is left after capNewOpenDecisions, and the      *)
(* cycle ends; approval and execution are modelled in other modules.       *)
ForwardDecision ==
  /\ ectx.st = "accepted"
  /\ ectx' = IF IsOpen(ectx.decision) /\ MaxPositions <= Cardinality(HeldIn(ectx.positions))
             THEN NoContext ELSE [ectx EXCEPT !.st = "forwarded"]
  /\ UNCHANGED <<held, foreign, thin, equity, failures, moves, cycles>>

EndCycle ==
  /\ ectx.st = "forwarded"
  /\ ectx' = NoContext
  /\ UNCHANGED <<held, foreign, thin, equity, failures, moves, cycles>>

(* Fills, triggers, other traders and the market change the account.       *)
Moving ==
  /\ moves < MaxMoves
  /\ moves' = moves + 1
  /\ ectx' = [ectx EXCEPT !.moved = ectx.st # "idle"]
  /\ UNCHANGED <<failures, cycles>>

PositionMoves(c, side, other) ==
  /\ Moving
  /\ held' = [held EXCEPT ![c] = side]
  /\ foreign' = IF other THEN foreign \cup {c} ELSE foreign \ {c}
  /\ UNCHANGED <<thin, equity>>

EquityMoves(value) ==
  /\ Moving
  /\ equity' = value
  /\ UNCHANGED <<held, foreign, thin>>

LiquidityMoves(c) ==
  /\ moves < MaxMoves
  /\ thin' = IF c \in thin THEN thin \ {c} ELSE thin \cup {c}
  /\ moves' = moves + 1
  /\ UNCHANGED <<held, foreign, equity, ectx, failures, cycles>>

DeskNext ==
  \/ \E acctRead, posRead \in BOOLEAN, candidates \in SUBSET Coins :
       ReadAccount(acctRead, posRead, candidates)
  \/ \E snaps \in SUBSET Coins, listed \in BOOLEAN : ReadMarket(snaps, listed)
  \/ AskFails
  \/ \E answer \in Answers : GetFullDecision(answer)
  \/ ForwardDecision \/ EndCycle
  \/ \E c \in Coins, side \in {"none", "long", "short"}, other \in BOOLEAN :
       PositionMoves(c, side, other)
  \/ \E value \in Equities : EquityMoves(value)
  \/ \E c \in Coins : LiquidityMoves(c)

DeskSpec == DeskInit /\ [][DeskNext]_deskVars

----------------------------------------------------------------------------
(* A decision that is passed on fits the account as it is, as long as the  *)
(* account did not move since it was read: an open finds a free slot and   *)
(* no position of its own on the coin if the positions could be read (and  *)
(* the symbol is not padded with blanks), and stays within value band and  *)
(* margin if the equity could be read and is positive; a close finds the   *)
(* position it is for, whatever could be read.                             *)
AcceptedFits ==
  LET d == ectx.decision
      mine == filterPositionsForTrader(held)
  IN ectx.st \in {"accepted", "forwarded"} /\ ~ectx.moved =>
       /\ IsOpen(d) /\ ectx.posRead =>
            /\ Cardinality(HeldIn(mine)) < MaxPositions
            /\ d.spelling # "padded" => mine[d.coin] = "none"
       /\ IsOpen(d) /\ ectx.acctRead /\ equity > 0 =>
            /\ equity * (IF d.coin \in Majors THEN MajorFloor ELSE AltFloor) <= d.size
            /\ d.size <= equity * (IF d.coin \in Majors THEN MajorMultiple ELSE AltMultiple)
            /\ WithinMargin(HeldMargin * Cardinality(HeldIn(held)), equity, d)
       /\ d.action = "close_long" => mine[d.coin] = "long"
       /\ d.action = "close_short" => mine[d.coin] = "short"
===============================================================================
