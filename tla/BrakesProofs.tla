---------------------------- MODULE BrakesProofs ----------------------------
(***************************************************************************)
(* Proofs about Brakes, for every calendar, limit and number of trades: the *)
(* kill switch keeps what was engaged, and the tick enters nothing against  *)
(* the limits of the day, the week and the drawdown.                        *)
(*                                                                         *)
(* HardBrake and DailyBrake assume that no CLI command falls between a      *)
(* job's read of the switch and its write; without that they do not hold.   *)
(* DailyBrake rests on BrakeInv: the one switch a rollover may take back on *)
(* the day it was engaged is that of the day's first tick, and what that    *)
(* tick saw, every later tick of the day sees.  The other theorems hold in  *)
(* every interleaving: they do not rely on the switch, but on what the rows *)
(* show at the start of a bar (RowsShow) and on what the tick knows from    *)
(* there on (TickKnows).                                                    *)
(***************************************************************************)
EXTENDS Brakes, Sums

(* What a job that is about to write the switch knows of it still holds.      *)
WritersKnow ==
  /\ "pc" \in DOMAIN tick
  /\ tick.pc = "engage" => ks \in {"clear", "manual"}
  /\ tick.pc = "engaging" => ks = "clear"
  /\ roll # "idle" => ks = "daily"
  /\ commands \in Nat

-----------------------------------------------------------------------------

LEMMA WritersKnowInit == Init => WritersKnow
  BY DEF Init, WritersKnow, IdleTick

LEMMA WritersKnowStep ==
  ASSUME CommandsInterleave = FALSE, WritersKnow, [Next]_vars
  PROVE  WritersKnow'
<1> USE DEF WritersKnow
<1>1. CASE TickStep
  <2>1. CASE GetAccount
    BY <2>1 DEF GetAccount, IdleTick
  <2>2. CASE ListPositions
    BY <2>2 DEF ListPositions
  <2>3. CASE ReadRows
    BY <2>3 DEF ReadRows
  <2>4. CASE ReadSwitch
    BY <2>4 DEF ReadSwitch
  <2>5. CASE EngageReads
    BY <2>5 DEF EngageReads
  <2>6. CASE EngageWrites
    BY <2>6 DEF EngageWrites
  <2>7. CASE Evaluate
    BY <2>7 DEF Evaluate, IdleTick
  <2>8. CASE Open
    BY <2>8 DEF Open, IdleTick
  <2>9. CASE TickDies
    BY <2>9 DEF TickDies, IdleTick
  <2> QED BY <1>1, <2>1, <2>2, <2>3, <2>4, <2>5, <2>6, <2>7, <2>8, <2>9 DEF TickStep
<1>2. CASE RolloverStep
  BY <1>2 DEF RolloverStep, Rollover, ClearReads, ClearWrites, RolloverDies, AutoClearable
<1>3. CASE CliEngage
  BY <1>3 DEF CliEngage, Command, InBetween
<1>4. CASE CliClear
  BY <1>4 DEF CliClear, Command, InBetween
<1>5. ASSUME NEW n \in Trades, Sell(n) \/ Record(n) PROVE WritersKnow'
  BY <1>5 DEF Sell, Record
<1>6. CASE Pass
  BY <1>6 DEF Pass
<1>7. CASE UNCHANGED vars
  BY <1>7 DEF vars
<1> QED BY <1>1, <1>2, <1>3, <1>4, <1>5, <1>6, <1>7 DEF Next

(* "The hard brakes need a human" (pinned/risk_limits.py:32): whatever tick and *)
(* rollover do, only a CLI command takes a manual switch back.                *)
THEOREM HardBrake ==
  ASSUME CommandsInterleave = FALSE
  PROVE  Spec => HardBrakeHolds
<1>1. ASSUME WritersKnow, [Next]_vars
      PROVE  [ks = "manual" /\ ks' # "manual" => commands' # commands]_vars
  <2>1. CASE EngageWrites \/ ClearWrites
    BY <1>1, <2>1 DEF EngageWrites, ClearWrites, WritersKnow
  <2>2. CASE CliEngage
    BY <2>2 DEF CliEngage, Command
  <2>3. CASE CliClear
    BY <1>1, <2>3 DEF CliClear, Command, WritersKnow
  <2> QED
    BY <1>1, <2>1, <2>2, <2>3
       DEF Next, TickStep, RolloverStep, vars, GetAccount, ListPositions, ReadRows,
           ReadSwitch, EngageReads, Evaluate, Open, TickDies, Rollover, ClearReads,
           RolloverDies, Sell, Record, Pass
<1> QED BY WritersKnowInit, WritersKnowStep, <1>1, PTL DEF Spec, HardBrakeHolds

-----------------------------------------------------------------------------
(* The trades are entered one after the other, each when those before it have *)
(* been sold.                                                                 *)
OneByOne ==
  /\ \E k \in 0..MaxTrades : Entered = 1..k
  /\ Closed \subseteq Sold /\ Sold \subseteq Entered
  /\ \A n, m \in Entered : n < m => n \in Sold /\ trades[n].sold_at <= trades[m].opened_at

(* A tick runs at the start of its bar; what was entered before it was entered *)
(* at the start of an earlier one.                                            *)
OnTheBar ==
  /\ fired <= Bar(clock)
  /\ \A n \in Entered : trades[n].opened_at % 2 = 0 /\ Bar(trades[n].opened_at) <= fired
  /\ tick.pc # "idle" =>
       /\ clock % 2 = 0 /\ fired = Bar(clock)
       /\ \A n \in Entered : Bar(trades[n].opened_at) < fired

(* Only a sale of the last half bar may be missing from the rows.              *)
RowsLag ==
  /\ \A n \in Sold : trades[n].sold_at <= clock
  /\ \A n \in Unrecorded : trades[n].sold_at >= clock - 1

KnownThisWeek == {n \in Known : Week(trades[n].sold_at) = Week(clock)}
SoldBefore == \A n \in Sold : trades[n].sold_at < clock

(* What DayEnds, WeekEnds and DrawdownStops ask of an entry.                   *)
MayEnter ==
  /\ Cardinality({n \in KnownToday : Loss(n)}) < max_losses_per_day
  /\ Pnl(KnownToday) > -max_daily_loss
  /\ Pnl(KnownThisWeek) > -max_weekly_loss
  /\ SoldBefore => equity_high - Pnl(Sold) < max_drawdown

(* What the tick has read, and still holds when it opens a position.           *)
TickKnows ==
  /\ tick.pc \in {"positions", "rows"} =>
       (HeldTrades = {} /\ SoldBefore => tick.equity = Pnl(Sold))
  /\ tick.pc = "rows" => (tick.flat => HeldTrades = {})
  /\ tick.pc \in {"switch", "engage", "engaging", "evaluate", "open"} =>
       (tick.free => HeldTrades = {} /\ MayEnter)
  /\ tick.pc = "open" => tick.free

-----------------------------------------------------------------------------
(* Sums of results. *)

LEMMA ResultsAreInt ==
  ASSUME NEW f \in [Trades -> Trade], NEW n \in Trades
  PROVE  f[n].pnl \in Int
<1>1. f[n] \in Trade
  OBVIOUS
<1>2. f[n].pnl \in Outcomes \cup {0}
  BY <1>1 DEF Trade
<1>3. \A p \in Outcomes \cup {0} : p \in Int
  BY BrakesAssumption
<1> QED BY <1>2, <1>3

LEMMA TradesFinite ==
  ASSUME NEW S \in SUBSET Trades
  PROVE  IsFiniteSet(S) /\ Cardinality(S) \in Nat
<1>1. IsFiniteSet(1..MaxTrades)
  BY FS_Interval, BrakesAssumption
<1>2. IsFiniteSet(S)
  BY <1>1, FS_Subset DEF Trades
<1> QED BY <1>2, FS_CardinalityType

LEMMA PnlUnchanged ==
  ASSUME NEW f \in [Trades -> Trade], NEW g \in [Trades -> Trade],
         \A n \in Trades : g[n].pnl = f[n].pnl, NEW S \in SUBSET Trades
  PROVE  PnlSum(g, S) = PnlSum(f, S)
<1>1. IsFiniteSet(S) /\ \A n \in S : g[n].pnl = f[n].pnl
  BY TradesFinite
<1> QED BY <1>1, PnlEqual

LEMMA PnlTyped ==
  ASSUME NEW f \in [Trades -> Trade], NEW S \in SUBSET Trades
  PROVE  /\ IsFiniteSet(S) /\ \A n \in S : f[n].pnl \in Int
         /\ PnlSum(f, S) \in Int
<1>1. IsFiniteSet(S) /\ \A n \in S : f[n].pnl \in Int
  BY TradesFinite, ResultsAreInt
<1> QED BY <1>1, PnlType

LEMMA PnlIs ==
  ASSUME NEW S
  PROVE  Pnl(S) = PnlSum(trades, S)
BY DEF Pnl, PnlSum

-----------------------------------------------------------------------------
(* Types, and the trades one by one. *)

LEMMA SetsTyped ==
  ASSUME TypeOK
  PROVE  /\ Entered \in SUBSET Trades /\ Sold \in SUBSET Trades /\ Closed \in SUBSET Trades
         /\ Pnl(Sold) \in Int
<1>1. Entered \in SUBSET Trades /\ Sold \in SUBSET Trades /\ Closed \in SUBSET Trades
  BY DEF Entered, Sold, Closed
<1>2. PnlSum(trades, Sold) \in Int
  BY <1>1, PnlTyped DEF TypeOK
<1> QED BY <1>1, <1>2, PnlIs

LEMMA DayTyped ==
  ASSUME NEW c \in Clock
  PROVE  Day(c) \in Clock /\ Bar(c) \in Clock
<1>1. /\ Horizon \in Nat /\ DayBars \in Nat \ {0} /\ c \in Nat /\ c <= Horizon
      /\ 2 * DayBars \in Nat \ {0}
  BY BrakesAssumption DEF Clock
<1> DEFINE D == 2 * DayBars
<1>2. D \in Nat /\ D >= 1
  BY <1>1
<1> HIDE DEF D
<1> DEFINE q == c \div D
<1>3. q \in Nat /\ c = D * q + (c % D) /\ c % D >= 0
  BY <1>1, <1>2, Z3
<1>4. D * q >= q
  <2>1. PICK d \in Nat : D = d + 1
    BY <1>2
  <2>2. D * q = d * q + q /\ d * q \in Nat
    BY <1>3, <2>1
  <2> QED BY <1>3, <2>2
<1>5. q <= c
  BY <1>1, <1>2, <1>3, <1>4
<1> HIDE DEF q
<1>6. q \in Clock
  BY <1>1, <1>3, <1>5 DEF Clock
<1>7. c \div 2 \in Clock
  BY <1>1 DEF Clock
<1> QED BY <1>6, <1>7 DEF Day, Bar, q, D

LEMMA TypesInit == Init => TypeOK
<1> SUFFICES ASSUME Init PROVE TypeOK
  OBVIOUS
<1>1. 0 \in Clock /\ -1 \in -1..Horizon /\ 0 \in 0..MaxCommands /\ 0 \in Nat
  BY BrakesAssumption DEF Clock
<1>2. NoTrade \in Trade
  BY <1>1 DEF NoTrade, Trade
<1>3. IdleTick \in Tick
  BY DEF IdleTick, Tick, Levels
<1> QED BY <1>1, <1>2, <1>3 DEF Init, TypeOK, Levels

LEMMA OneByOneInit == Init => OneByOne
<1> SUFFICES ASSUME Init PROVE OneByOne
  OBVIOUS
<1>1. Entered = {} /\ Sold = {} /\ Closed = {}
  BY DEF Init, Entered, Sold, Closed, NoTrade
<1>2. 0 \in 0..MaxTrades /\ {} = 1..0
  BY BrakesAssumption
<1> QED BY <1>1, <1>2 DEF OneByOne

LEMMA EnteredCount ==
  ASSUME NEW k \in Nat, Entered = 1..k
  PROVE  Cardinality(Entered) = k
<1>1. Cardinality(1..k) = IF 1 > k THEN 0 ELSE k - 1 + 1
  BY FS_Interval
<1> QED BY <1>1

(* How the statements of the tick change it.                                  *)
LEMMA TickTyped ==
  ASSUME NEW t \in Tick
  PROVE  /\ \A f \in BOOLEAN : [t EXCEPT !.pc = "rows", !.flat = f] \in Tick
         /\ \A k \in Levels, f \in BOOLEAN :
              [t EXCEPT !.pc = "switch", !.kill = k, !.free = f] \in Tick
         /\ \A p \in {"engage", "engaging", "evaluate", "open"} :
              [t EXCEPT !.pc = p] \in Tick
         /\ \A p \in {"engage", "evaluate"}, f \in BOOLEAN :
              [t EXCEPT !.pc = p, !.free = f] \in Tick
<1>1. \A f \in BOOLEAN : [t EXCEPT !.pc = "rows", !.flat = f] \in Tick
  BY DEF Tick
<1>2. \A k \in Levels, f \in BOOLEAN :
        [t EXCEPT !.pc = "switch", !.kill = k, !.free = f] \in Tick
  BY DEF Tick
<1>3. \A p \in {"engage", "engaging", "evaluate", "open"} : [t EXCEPT !.pc = p] \in Tick
  BY DEF Tick
<1>4. \A p \in {"engage", "evaluate"}, f \in BOOLEAN :
        [t EXCEPT !.pc = p, !.free = f] \in Tick
  BY DEF Tick
<1> QED BY <1>1, <1>2, <1>3, <1>4

LEMMA IdleTyped ==
  /\ IdleTick \in Tick
  /\ \A e \in Int : [IdleTick EXCEPT !.pc = "positions", !.equity = e] \in Tick
<1>1. IdleTick \in Tick
  BY DEF IdleTick, Tick, Levels
<1>2. \A t \in Tick, e \in Int : [t EXCEPT !.pc = "positions", !.equity = e] \in Tick
  BY DEF Tick
<1> QED BY <1>1, <1>2

LEMMA TradeTyped ==
  ASSUME NEW t \in Trade
  PROVE  /\ \A by \in {"sl", "other"}, c \in Clock, p \in Outcomes :
              [t EXCEPT !.sold = by, !.sold_at = c, !.pnl = p] \in Trade
         /\ \A c \in Clock : [t EXCEPT !.row = "open", !.opened_at = c] \in Trade
         /\ [t EXCEPT !.row = "closed"] \in Trade
<1>1. \A by \in {"sl", "other"}, c \in Clock, p \in Outcomes :
        [t EXCEPT !.sold = by, !.sold_at = c, !.pnl = p] \in Trade
  BY DEF Trade
<1>2. \A c \in Clock : [t EXCEPT !.row = "open", !.opened_at = c] \in Trade
  BY DEF Trade
<1>3. [t EXCEPT !.row = "closed"] \in Trade
  BY DEF Trade
<1> QED BY <1>1, <1>2, <1>3

LEMMA TradeChanged ==
  ASSUME TypeOK, NEW n \in Trades, NEW t \in Trade, trades' = [trades EXCEPT ![n] = t]
  PROVE  trades' \in [Trades -> Trade] /\ trades'[n] = t
         /\ \A m \in Trades : m # n => trades'[m] = trades[m]
BY DEF TypeOK

(* What opening, selling and recording do to the trades.                       *)
LEMMA OpenChanges ==
  ASSUME TypeOK, OneByOne, Open
  PROVE  \E k \in 0..(MaxTrades - 1) :
           /\ Entered = 1..k /\ Entered' = 1..(k + 1)
           /\ trades' \in [Trades -> Trade]
           /\ trades'[k + 1].row = "open" /\ trades'[k + 1].opened_at = clock
           /\ trades'[k + 1].sold = trades[k + 1].sold
           /\ \A m \in Trades : m # k + 1 => trades'[m] = trades[m]
<1>1. PICK k \in 0..MaxTrades : Entered = 1..k
  BY DEF OneByOne
<1>2. Cardinality(Entered) = k
  BY <1>1, EnteredCount
<1>3. MaxTrades \in Nat
  BY BrakesAssumption
<1>4. k # MaxTrades
  BY <1>1, <1>3 DEF Open, Trades
<1>5. k \in 0..(MaxTrades - 1) /\ k + 1 \in Trades
  BY <1>1, <1>3, <1>4 DEF Trades
<1> DEFINE n == k + 1
           t == [trades[n] EXCEPT !.row = "open", !.opened_at = clock]
<1>6. trades[n] \in Trade /\ clock \in Clock
  BY <1>5 DEF TypeOK
<1>7. t \in Trade
  BY <1>6, TradeTyped
<1>8. t.row = "open" /\ t.opened_at = clock /\ t.sold = trades[n].sold
  BY <1>6 DEF Trade
<1>9. trades' = [trades EXCEPT ![n] = t]
  <2>1. trades' = [trades EXCEPT ![n].row = "open", ![n].opened_at = clock]
    BY <1>2 DEF Open
  <2> QED BY <2>1, <1>5 DEF TypeOK
<1> HIDE DEF t
<1>10. /\ trades' \in [Trades -> Trade] /\ trades'[n] = t
       /\ \A m \in Trades : m # n => trades'[m] = trades[m]
  BY <1>5, <1>7, <1>9, TradeChanged
<1>11. Entered' = 1..(k + 1)
  <2>1. \A m \in Trades : trades'[m].row # "none" <=> m \in 1..(k + 1)
    <3> SUFFICES ASSUME NEW m \in Trades PROVE trades'[m].row # "none" <=> m \in 1..(k + 1)
      OBVIOUS
    <3>1. CASE m = n
      BY <1>5, <1>8, <1>10, <3>1
    <3>2. CASE m # n
      <4>1. trades'[m].row # "none" <=> m \in 1..k
        BY <1>1, <1>10, <3>2 DEF Entered
      <4> QED BY <4>1, <1>1, <3>2 DEF Trades
    <3> QED BY <3>1, <3>2
  <2>2. 1..(k + 1) \subseteq Trades
    BY <1>3, <1>5 DEF Trades
  <2> QED BY <2>1, <2>2 DEF Entered
<1> QED BY <1>1, <1>5, <1>8, <1>10, <1>11

LEMMA SellChanges ==
  ASSUME TypeOK, NEW n \in Trades, Sell(n)
  PROVE  /\ n \in HeldTrades
         /\ trades' \in [Trades -> Trade]
         /\ trades'[n].row = trades[n].row /\ trades'[n].opened_at = trades[n].opened_at
         /\ trades'[n].sold # "no" /\ trades'[n].sold_at = clock
         /\ \A m \in Trades : m # n => trades'[m] = trades[m]
<1>1. PICK by \in {"sl", "other"}, pnl \in Outcomes :
        trades' = [trades EXCEPT ![n].sold = by, ![n].sold_at = clock, ![n].pnl = pnl]
  BY DEF Sell
<1> DEFINE t == [trades[n] EXCEPT !.sold = by, !.sold_at = clock, !.pnl = pnl]
<1>2. trades[n] \in Trade /\ clock \in Clock
  BY DEF TypeOK
<1>3. t \in Trade
  BY <1>2, TradeTyped
<1>4. /\ t.row = trades[n].row /\ t.opened_at = trades[n].opened_at
      /\ t.sold = by /\ t.sold_at = clock
  BY <1>2 DEF Trade
<1>5. trades' = [trades EXCEPT ![n] = t]
  BY <1>1 DEF TypeOK
<1> HIDE DEF t
<1>6. /\ trades' \in [Trades -> Trade] /\ trades'[n] = t
      /\ \A m \in Trades : m # n => trades'[m] = trades[m]
  BY <1>3, <1>5, TradeChanged
<1> QED BY <1>4, <1>6 DEF Sell

LEMMA RecordChanges ==
  ASSUME TypeOK, NEW n \in Trades, Record(n)
  PROVE  /\ n \in Unrecorded
         /\ trades' \in [Trades -> Trade]
         /\ trades'[n].row = "closed" /\ trades'[n].opened_at = trades[n].opened_at
         /\ trades'[n].sold = trades[n].sold /\ trades'[n].sold_at = trades[n].sold_at
         /\ trades'[n].pnl = trades[n].pnl
         /\ \A m \in Trades : m # n => trades'[m] = trades[m]
<1> DEFINE t == [trades[n] EXCEPT !.row = "closed"]
<1>1. trades[n] \in Trade
  BY DEF TypeOK
<1>2. t \in Trade
  BY <1>1, TradeTyped
<1>3. /\ t.row = "closed" /\ t.opened_at = trades[n].opened_at /\ t.sold = trades[n].sold
      /\ t.sold_at = trades[n].sold_at /\ t.pnl = trades[n].pnl
  BY <1>1 DEF Trade
<1>4. trades' = [trades EXCEPT ![n] = t]
  BY DEF Record, TypeOK
<1> HIDE DEF t
<1>5. /\ trades' \in [Trades -> Trade] /\ trades'[n] = t
      /\ \A m \in Trades : m # n => trades'[m] = trades[m]
  BY <1>2, <1>4, TradeChanged
<1> QED BY <1>3, <1>5 DEF Record

LEMMA AutoKillTyped ==
  ASSUME NEW s
  PROVE  AutoKill(s) \in Levels
BY DEF AutoKill, Levels

LEMMA GatesTyped ==
  ASSUME NEW s, NEW f
  PROVE  Gates(s, f) \in BOOLEAN
BY DEF Gates

LEMMA TypesStep ==
  ASSUME TypeOK, OneByOne, [Next]_vars
  PROVE  TypeOK'
<1>0. /\ tick \in Tick /\ ks \in Levels /\ clock \in Clock /\ equity_high \in Nat
      /\ tick.free \in BOOLEAN /\ tick.equity \in Int /\ tick.kill \in Levels
      /\ IdleTick \in Tick
  BY IdleTyped DEF TypeOK, Tick
<1>1. CASE TickStep
  <2>1. CASE GetAccount
    <3>1. PICK mark \in IF HeldTrades = {} THEN {0} ELSE Outcomes \cup {0} :
            tick' = [IdleTick EXCEPT !.pc = "positions", !.equity = Pnl(Sold) + mark]
      BY <2>1 DEF GetAccount
    <3>2. mark \in Int
      <4>1. \A p \in Outcomes \cup {0} : p \in Int
        BY BrakesAssumption
      <4> QED BY <3>1, <4>1
    <3>3. Pnl(Sold) + mark \in Int
      BY <3>2, SetsTyped
    <3>4. tick' \in Tick
      BY <3>1, <3>3, IdleTyped
    <3>5. fired' \in -1..Horizon
      <4>1. Bar(clock) \in Clock
        BY <1>0, DayTyped
      <4> QED BY <4>1, <2>1, BrakesAssumption DEF GetAccount, Clock
    <3> QED BY <2>1, <3>4, <3>5 DEF GetAccount, TypeOK
  <2>2. CASE ListPositions
    <3>1. (HeldTrades = {}) \in BOOLEAN
      OBVIOUS
    <3>2. tick' \in Tick
      BY <1>0, <2>2, <3>1, TickTyped DEF ListPositions
    <3> QED BY <2>2, <3>2 DEF ListPositions, TypeOK
  <2>3. CASE ReadRows
    <3> DEFINE high == Highest(equity_high, tick.equity)
               state == AccountState(clock, tick.equity, high)
    <3>1. high \in Nat
      BY <1>0 DEF Highest
    <3>2. /\ equity_high' = high
          /\ tick' = [tick EXCEPT !.pc = "switch", !.kill = AutoKill(state),
                                  !.free = Gates(state, tick.flat)]
      BY <2>3 DEF ReadRows
    <3>3. AutoKill(state) \in Levels /\ Gates(state, tick.flat) \in BOOLEAN
      BY AutoKillTyped, GatesTyped
    <3> HIDE DEF high, state
    <3>4. tick' \in Tick
      BY <1>0, <3>2, <3>3, TickTyped
    <3> QED BY <2>3, <3>1, <3>2, <3>4 DEF ReadRows, TypeOK
  <2>4. CASE ReadSwitch
    <3> DEFINE engage == tick.kill # "clear" /\ ks = "clear"
               free == tick.free /\ ks = "clear" /\ ~engage
               pc == IF engage THEN "engage" ELSE "evaluate"
    <3>1. tick' = [tick EXCEPT !.pc = pc, !.free = free]
      BY <2>4 DEF ReadSwitch
    <3>2. free \in BOOLEAN /\ pc \in {"engage", "evaluate"}
      OBVIOUS
    <3> HIDE DEF free, pc
    <3>3. tick' \in Tick
      BY <1>0, <3>1, <3>2, TickTyped
    <3> QED BY <2>4, <3>3 DEF ReadSwitch, TypeOK
  <2>5. CASE EngageReads
    <3>1. tick' \in Tick
      BY <1>0, <2>5, TickTyped DEF EngageReads
    <3> QED BY <2>5, <3>1 DEF EngageReads, TypeOK
  <2>6. CASE EngageWrites
    <3>1. tick' \in Tick
      BY <1>0, <2>6, TickTyped DEF EngageWrites
    <3>2. Day(clock) \in Clock
      BY <1>0, DayTyped
    <3> QED BY <1>0, <2>6, <3>1, <3>2 DEF EngageWrites, TypeOK
  <2>7. CASE Evaluate
    <3>1. tick' \in Tick
      BY <1>0, <2>7, TickTyped DEF Evaluate
    <3> QED BY <2>7, <3>1 DEF Evaluate, TypeOK
  <2>8. CASE Open
    <3>1. trades' \in [Trades -> Trade]
      BY <2>8, OpenChanges
    <3> QED BY <1>0, <2>8, <3>1 DEF Open, TypeOK
  <2>9. CASE TickDies
    BY <1>0, <2>9 DEF TickDies, TypeOK
  <2> QED BY <1>1, <2>1, <2>2, <2>3, <2>4, <2>5, <2>6, <2>7, <2>8, <2>9 DEF TickStep
<1>2. CASE RolloverStep
  <2>1. Day(clock) \in Clock
    BY <1>0, DayTyped
  <2> QED
    BY <1>2, <2>1 DEF RolloverStep, Rollover, ClearReads, ClearWrites, RolloverDies, TypeOK, Levels
<1>3. CASE CliEngage \/ CliClear
  <2>1. Day(clock) \in Clock
    BY <1>0, DayTyped
  <2>2. commands + 1 \in 0..MaxCommands
    BY <1>3, BrakesAssumption DEF CliEngage, CliClear, Command, TypeOK
  <2> QED BY <1>3, <2>1, <2>2 DEF CliEngage, CliClear, Command, TypeOK, Levels
<1>4. ASSUME NEW n \in Trades, Sell(n) \/ Record(n) PROVE TypeOK'
  <2>1. trades' \in [Trades -> Trade]
    BY <1>4, SellChanges, RecordChanges
  <2> QED BY <1>4, <2>1 DEF Sell, Record, TypeOK
<1>5. CASE Pass
  <2>1. clock + 1 \in Clock
    BY <1>0, <1>5, BrakesAssumption DEF Pass, Clock
  <2> QED BY <1>5, <2>1 DEF Pass, TypeOK
<1>6. CASE UNCHANGED vars
  BY <1>6 DEF vars, TypeOK
<1> QED BY <1>1, <1>2, <1>3, <1>4, <1>5, <1>6 DEF Next

LEMMA OpenSets ==
  ASSUME TypeOK, OneByOne, Open
  PROVE  /\ Entered \subseteq Entered' /\ Sold' = Sold /\ Closed' = Closed
         /\ \E x \in Trades : /\ Entered' = Entered \cup {x} /\ x \notin Entered
                              /\ trades'[x].opened_at = clock
                              /\ \A m \in Entered : m < x
         /\ \A m \in Entered : trades'[m] = trades[m]
<1>1. PICK k \in 0..(MaxTrades - 1) :
           /\ Entered = 1..k /\ Entered' = 1..(k + 1)
           /\ trades' \in [Trades -> Trade]
           /\ trades'[k + 1].row = "open" /\ trades'[k + 1].opened_at = clock
           /\ trades'[k + 1].sold = trades[k + 1].sold
           /\ \A m \in Trades : m # k + 1 => trades'[m] = trades[m]
  BY OpenChanges
<1>2. MaxTrades \in Nat /\ k + 1 \in Trades
  BY BrakesAssumption DEF Trades
<1>3. Sold' = Sold
  BY <1>1 DEF Sold
<1>4. k + 1 \notin Entered /\ k + 1 \notin Closed
  BY <1>1 DEF OneByOne
<1>5. Closed' = Closed
  BY <1>1, <1>4 DEF Closed
<1>6. Entered' = Entered \cup {k + 1} /\ \A m \in Entered : m < k + 1 /\ m \in Trades
  BY <1>1, <1>2 DEF Trades
<1> QED BY <1>1, <1>2, <1>3, <1>4, <1>5, <1>6

LEMMA SellSets ==
  ASSUME TypeOK, NEW n \in Trades, Sell(n)
  PROVE  /\ Entered' = Entered /\ Sold' = Sold \cup {n} /\ Closed' = Closed
         /\ n \in HeldTrades
         /\ \A m \in Trades : trades'[m].opened_at = trades[m].opened_at
         /\ \A m \in Sold : trades'[m] = trades[m]
         /\ trades'[n].sold_at = clock
<1>1. /\ n \in HeldTrades
      /\ trades' \in [Trades -> Trade]
      /\ trades'[n].row = trades[n].row /\ trades'[n].opened_at = trades[n].opened_at
      /\ trades'[n].sold # "no" /\ trades'[n].sold_at = clock
      /\ \A m \in Trades : m # n => trades'[m] = trades[m]
  BY SellChanges
<1>2. Entered' = Entered
  BY <1>1 DEF Entered
<1>3. Sold' = Sold \cup {n}
  BY <1>1 DEF Sold
<1>4. Closed' = Closed
  BY <1>1 DEF Closed
<1>5. \A m \in Sold : trades'[m] = trades[m]
  BY <1>1 DEF HeldTrades, Sold
<1> QED BY <1>1, <1>2, <1>3, <1>4, <1>5

LEMMA RecordSets ==
  ASSUME TypeOK, OneByOne, NEW n \in Trades, Record(n)
  PROVE  /\ Entered' = Entered /\ Sold' = Sold /\ Closed' = Closed \cup {n}
         /\ n \in Unrecorded
         /\ \A m \in Trades : /\ trades'[m].opened_at = trades[m].opened_at
                              /\ trades'[m].sold_at = trades[m].sold_at
                              /\ trades'[m].pnl = trades[m].pnl
<1>1. /\ n \in Unrecorded
      /\ trades' \in [Trades -> Trade]
      /\ trades'[n].row = "closed" /\ trades'[n].opened_at = trades[n].opened_at
      /\ trades'[n].sold = trades[n].sold /\ trades'[n].sold_at = trades[n].sold_at
      /\ trades'[n].pnl = trades[n].pnl
      /\ \A m \in Trades : m # n => trades'[m] = trades[m]
  BY RecordChanges
<1>2. n \in Entered
  BY <1>1 DEF OneByOne, Unrecorded
<1>3. Entered' = Entered
  BY <1>1, <1>2 DEF Entered
<1>4. Sold' = Sold
  BY <1>1 DEF Sold
<1>5. Closed' = Closed \cup {n}
  BY <1>1 DEF Closed
<1> QED BY <1>1, <1>3, <1>4, <1>5

LEMMA SameSets ==
  ASSUME UNCHANGED trades
  PROVE  /\ Entered' = Entered /\ Sold' = Sold /\ Closed' = Closed
         /\ HeldTrades' = HeldTrades /\ Unrecorded' = Unrecorded
BY DEF Entered, Sold, Closed, HeldTrades, Unrecorded

(* Few actions touch the trades.                                              *)
LEMMA WhoTrades ==
  ASSUME [Next]_vars
  PROVE  \/ UNCHANGED trades
         \/ Open
         \/ \E n \in Trades : Sell(n) \/ Record(n)
BY DEF Next, TickStep, RolloverStep, vars, GetAccount, ListPositions, ReadRows, ReadSwitch,
       EngageReads, EngageWrites, Evaluate, TickDies, Rollover, ClearReads, ClearWrites,
       RolloverDies, CliEngage, CliClear, Command, Pass

LEMMA OneByOneStep ==
  ASSUME TypeOK, OneByOne, RowsLag, TickKnows, [Next]_vars
  PROVE  OneByOne'
<1>1. CASE UNCHANGED trades
  BY <1>1, SameSets DEF OneByOne
<1>2. CASE Open
  <2>1. HeldTrades = {}
    BY <1>2 DEF Open, TickKnows
  <2>2. PICK x \in Trades : /\ Entered' = Entered \cup {x} /\ x \notin Entered
                            /\ trades'[x].opened_at = clock
                            /\ \A m \in Entered : m < x
    BY <1>2, OpenSets
  <2>3. /\ Sold' = Sold /\ Closed' = Closed
        /\ \A m \in Entered : trades'[m] = trades[m]
    BY <1>2, OpenSets
  <2>4. \E k \in 0..MaxTrades : Entered' = 1..k
    <3>1. PICK k \in 0..(MaxTrades - 1) : Entered' = 1..(k + 1)
      BY <1>2, OpenChanges
    <3> QED BY <3>1, BrakesAssumption
  <2>5. ASSUME NEW n \in Entered', NEW m \in Entered', n < m
        PROVE  n \in Sold' /\ trades'[n].sold_at <= trades'[m].opened_at
    <3>1. n \in Entered
      <4>1. CASE m = x
        BY <2>2, <2>5, <4>1 DEF Trades
      <4>2. CASE m # x
        <5>1. m < x /\ n # x
          BY <2>2, <2>5, <4>2 DEF Entered, Trades
        <5> QED BY <2>2, <5>1
      <4> QED BY <4>1, <4>2
    <3>2. CASE m = x
      <4>1. n \in Sold
        BY <2>1, <3>1 DEF HeldTrades
      <4> QED BY <2>2, <2>3, <3>1, <3>2, <4>1 DEF RowsLag
    <3>3. CASE m # x
      <4>1. m \in Entered
        BY <2>2, <3>3
      <4> QED BY <2>3, <2>5, <3>1, <4>1 DEF OneByOne
    <3> QED BY <3>2, <3>3
  <2> QED BY <2>2, <2>3, <2>4, <2>5 DEF OneByOne
<1>3. ASSUME NEW s \in Trades, Sell(s) PROVE OneByOne'
  <2>1. /\ Entered' = Entered /\ Sold' = Sold \cup {s} /\ Closed' = Closed
        /\ s \in HeldTrades
        /\ \A m \in Trades : trades'[m].opened_at = trades[m].opened_at
        /\ \A m \in Sold : trades'[m] = trades[m]
    BY <1>3, SellSets
  <2>2. s \in Entered /\ Entered \in SUBSET Trades
    BY <2>1, SetsTyped DEF HeldTrades
  <2>3. ASSUME NEW n \in Entered, NEW m \in Entered, n < m
        PROVE  n \in Sold' /\ trades'[n].sold_at <= trades'[m].opened_at
    BY <2>1, <2>2, <2>3 DEF OneByOne
  <2> QED BY <2>1, <2>2, <2>3 DEF OneByOne
<1>4. ASSUME NEW r \in Trades, Record(r) PROVE OneByOne'
  <2>1. /\ Entered' = Entered /\ Sold' = Sold /\ Closed' = Closed \cup {r}
        /\ r \in Unrecorded
        /\ \A m \in Trades : /\ trades'[m].opened_at = trades[m].opened_at
                             /\ trades'[m].sold_at = trades[m].sold_at
    BY <1>4, RecordSets
  <2>2. r \in Sold /\ Entered \in SUBSET Trades
    BY <2>1, SetsTyped DEF Unrecorded
  <2>3. ASSUME NEW n \in Entered, NEW m \in Entered, n < m
        PROVE  n \in Sold' /\ trades'[n].sold_at <= trades'[m].opened_at
    BY <2>1, <2>2, <2>3 DEF OneByOne
  <2> QED BY <2>1, <2>2, <2>3 DEF OneByOne
<1> QED BY <1>1, <1>2, <1>3, <1>4, WhoTrades

LEMMA OnTheBarInit == Init => OnTheBar /\ RowsLag /\ TickKnows
<1> SUFFICES ASSUME Init PROVE OnTheBar /\ RowsLag /\ TickKnows
  OBVIOUS
<1>1. Entered = {} /\ Sold = {} /\ Unrecorded = {}
  BY DEF Init, Entered, Sold, Unrecorded, NoTrade
<1>2. tick.pc = "idle" /\ fired = -1 /\ Bar(clock) = 0
  BY DEF Init, IdleTick, Bar
<1>3. OnTheBar
  BY <1>1, <1>2 DEF OnTheBar
<1>4. RowsLag
  BY <1>1 DEF RowsLag
<1>5. TickKnows
  BY <1>2 DEF TickKnows
<1> QED BY <1>3, <1>4, <1>5

LEMMA OnTheBarStep ==
  ASSUME TypeOK, OneByOne, OnTheBar, [Next]_vars
  PROVE  OnTheBar'
<1>0. /\ clock \in Nat /\ fired \in Int /\ tick \in Tick /\ IdleTick.pc = "idle"
      /\ \A n \in Trades : trades[n].opened_at \in Nat
  BY DEF TypeOK, Clock, IdleTick, Trade
<1>1. CASE UNCHANGED trades
  <2>0. Entered' = Entered /\ Entered \in SUBSET Trades
    BY <1>1, SameSets, SetsTyped
  <2>1. CASE GetAccount
    <3>1. tick'.pc = "positions"
      BY <2>1 DEF GetAccount, IdleTick
    <3> QED BY <1>0, <1>1, <2>0, <2>1, <3>1 DEF GetAccount, OnTheBar, Bar
  <2>2. CASE ListPositions \/ ReadRows \/ ReadSwitch \/ EngageReads \/ EngageWrites \/ Evaluate
    <3>1. tick.pc # "idle" /\ UNCHANGED <<clock, fired>>
      BY <2>2 DEF ListPositions, ReadRows, ReadSwitch, EngageReads, EngageWrites, Evaluate
    <3> QED BY <1>1, <2>0, <3>1 DEF OnTheBar, Bar
  <2>3. CASE TickDies
    BY <1>0, <1>1, <2>0, <2>3 DEF TickDies, OnTheBar, Bar
  <2>4. CASE Pass
    BY <1>0, <1>1, <2>0, <2>4 DEF Pass, OnTheBar, Bar
  <2>5. CASE UNCHANGED <<tick, clock, fired>>
    BY <1>1, <2>0, <2>5 DEF OnTheBar, Bar
  <2>6. CASE Open
    BY <1>0, <1>1, <2>0, <2>6 DEF Open, OnTheBar, Bar
  <2> QED
    BY <2>1, <2>2, <2>3, <2>4, <2>5, <2>6
       DEF Next, TickStep, RolloverStep, vars, Rollover, ClearReads, ClearWrites,
           RolloverDies, CliEngage, CliClear, Command, Sell, Record
<1>2. CASE Open
  <2>1. PICK x \in Trades : /\ Entered' = Entered \cup {x} /\ x \notin Entered
                            /\ trades'[x].opened_at = clock
    BY <1>2, OpenSets
  <2>2. \A m \in Entered : trades'[m] = trades[m]
    BY <1>2, OpenSets
  <2>3. clock % 2 = 0 /\ fired = Bar(clock) /\ tick'.pc = "idle" /\ UNCHANGED <<clock, fired>>
    BY <1>0, <1>2 DEF Open, OnTheBar
  <2> QED BY <1>0, <2>1, <2>2, <2>3 DEF OnTheBar, Bar
<1>3. ASSUME NEW n \in Trades, Sell(n) \/ Record(n) PROVE OnTheBar'
  <2>1. /\ Entered' = Entered
        /\ \A m \in Trades : trades'[m].opened_at = trades[m].opened_at
    BY <1>3, SellSets, RecordSets
  <2>2. UNCHANGED <<clock, fired, tick>>
    BY <1>3 DEF Sell, Record
  <2>3. Entered \in SUBSET Trades
    BY SetsTyped
  <2> QED BY <2>1, <2>2, <2>3 DEF OnTheBar, Bar
<1> QED BY <1>1, <1>2, <1>3, WhoTrades

LEMMA RowsLagStep ==
  ASSUME TypeOK, OneByOne, RowsLag, [Next]_vars
  PROVE  RowsLag'
<1>0. /\ clock \in Nat /\ \A n \in Trades : trades[n].sold_at \in Nat
      /\ Sold \in SUBSET Trades /\ Unrecorded \in SUBSET Sold
  BY SetsTyped DEF TypeOK, Clock, Trade, Unrecorded
<1>1. CASE UNCHANGED trades
  <2>0. Sold' = Sold /\ Unrecorded' = Unrecorded
    BY <1>1, SameSets
  <2>1. CASE Pass
    BY <1>0, <1>1, <2>0, <2>1 DEF Pass, RowsLag
  <2>2. CASE UNCHANGED clock
    BY <1>1, <2>0, <2>2 DEF RowsLag
  <2> QED
    BY <2>1, <2>2
       DEF Next, TickStep, RolloverStep, vars, GetAccount, ListPositions, ReadRows,
           ReadSwitch, EngageReads, EngageWrites, Evaluate, Open, TickDies, Rollover,
           ClearReads, ClearWrites, RolloverDies, CliEngage, CliClear, Command, Sell, Record
<1>2. CASE Open
  <2>1. Sold' = Sold /\ Closed' = Closed /\ \A m \in Entered : trades'[m] = trades[m]
    BY <1>2, OpenSets
  <2>2. Unrecorded' = Unrecorded /\ Sold \subseteq Entered /\ UNCHANGED clock
    BY <1>2, <2>1 DEF Unrecorded, Open, OneByOne
  <2> QED BY <1>0, <2>1, <2>2 DEF RowsLag
<1>3. ASSUME NEW n \in Trades, Sell(n) PROVE RowsLag'
  <2>1. /\ Sold' = Sold \cup {n} /\ Closed' = Closed
        /\ \A m \in Sold : trades'[m] = trades[m]
        /\ trades'[n].sold_at = clock
    BY <1>3, SellSets
  <2>2. UNCHANGED clock /\ Unrecorded' \subseteq Unrecorded \cup {n}
    BY <1>3, <2>1 DEF Sell, Unrecorded
  <2> QED BY <1>0, <2>1, <2>2 DEF RowsLag
<1>4. ASSUME NEW n \in Trades, Record(n) PROVE RowsLag'
  <2>1. /\ Sold' = Sold /\ Closed' = Closed \cup {n}
        /\ \A m \in Trades : trades'[m].sold_at = trades[m].sold_at
    BY <1>4, RecordSets
  <2>2. UNCHANGED clock /\ Unrecorded' \subseteq Unrecorded
    BY <1>4, <2>1 DEF Record, Unrecorded
  <2> QED BY <1>0, <2>1, <2>2 DEF RowsLag
<1> QED BY <1>1, <1>2, <1>3, <1>4, WhoTrades

-----------------------------------------------------------------------------
(* What the rows show is enough. *)

(* Without what lost and with what won, a sum is no less.                      *)
LEMMA PnlNoLess ==
  ASSUME NEW f \in [Trades -> Trade], NEW A \in SUBSET Trades, NEW B \in SUBSET Trades,
         \A n \in A \ B : f[n].pnl <= 0, \A n \in B \ A : f[n].pnl >= 0
  PROVE  PnlSum(f, A) <= PnlSum(f, B)
<1> DEFINE C == A \cap B
<1>1. PnlSum(f, A) <= PnlSum(f, C)
  <2>1. C \in SUBSET A /\ \A n \in A \ C : f[n].pnl <= 0
    OBVIOUS
  <2> HIDE DEF C
  <2> QED BY <2>1, PnlTyped, PnlShrinks
<1>2. PnlSum(f, C) <= PnlSum(f, B)
  <2>1. C \in SUBSET B /\ \A n \in B \ C : f[n].pnl >= 0
    OBVIOUS
  <2> HIDE DEF C
  <2> QED BY <2>1, PnlTyped, PnlGrows
<1>3. PnlSum(f, A) \in Int /\ PnlSum(f, B) \in Int /\ PnlSum(f, C) \in Int
  <2>1. C \in SUBSET Trades
    OBVIOUS
  <2> HIDE DEF C
  <2> QED BY <2>1, PnlTyped
<1> HIDE DEF C
<1> QED BY <1>1, <1>2, <1>3

LEMMA LastEntered ==
  ASSUME NEW k \in Nat \ {0}
  PROVE  Max(1..k) = k
<1>1. k \in 1..k /\ \A y \in 1..k : k >= y
  OBVIOUS
<1>2. Max(1..k) \in 1..k /\ \A y \in 1..k : Max(1..k) >= y
  BY <1>1 DEF Max
<1>3. Max(1..k) >= k /\ k >= Max(1..k) /\ Max(1..k) \in Nat
  BY <1>1, <1>2
<1> QED BY <1>3

(* At the start of a bar the rows show every sale but, at most, that of the    *)
(* trade entered last.                                                        *)
LEMMA RowsShow ==
  ASSUME TypeOK, OneByOne, OnTheBar, RowsLag, tick.pc # "idle", NEW n \in Unrecorded
  PROVE  n = Max(Entered) /\ trades[n].sold_at >= clock - 1
<1>1. PICK k \in 0..MaxTrades : Entered = 1..k
  BY DEF OneByOne
<1>2. n \in Entered /\ n \in 1..k /\ trades[n].sold_at >= clock - 1
  BY <1>1 DEF OneByOne, RowsLag, Unrecorded
<1>3. k \in Nat \ {0} /\ k \in Entered /\ n \in Nat /\ n <= k /\ Max(Entered) = k
  BY <1>1, <1>2, LastEntered
<1>4. n = k
  <2> SUFFICES ASSUME n < k PROVE FALSE
    BY <1>3
  <2>1. trades[n].sold_at <= trades[k].opened_at
    BY <1>2, <1>3 DEF OneByOne
  <2>2. clock % 2 = 0 /\ Bar(trades[k].opened_at) < Bar(clock) /\ trades[k].opened_at % 2 = 0
    BY <1>3 DEF OnTheBar
  <2>3. /\ clock \in Nat /\ trades[k].opened_at \in Nat /\ trades[n].sold_at \in Nat
        /\ k \in Trades /\ n \in Trades
    <3>1. k \in Trades /\ n \in Trades
      BY <1>2, <1>3, SetsTyped
    <3>2. trades[k] \in Trade /\ trades[n] \in Trade /\ clock \in Clock
      BY <3>1 DEF TypeOK
    <3> QED BY <3>1, <3>2 DEF Trade, Clock
  <2>4. trades[k].opened_at <= clock - 2
    BY <2>2, <2>3 DEF Bar
  <2> QED BY <1>2, <2>1, <2>3, <2>4
<1> QED BY <1>2, <1>3, <1>4

LEMMA GatesAsk ==
  ASSUME NEW e, NEW h, NEW f, Gates(AccountState(clock, e, h), f)
  PROVE  /\ f
         /\ Pnl(ClosedToday(clock)) > -max_daily_loss
         /\ Pnl(ClosedThisWeek(clock)) > -max_weekly_loss
         /\ Drawdown(h, e) < max_drawdown
         /\ LossesToday(clock) < max_losses_per_day
<1> DEFINE s == AccountState(clock, e, h)
<1>1. /\ s.day_pnl = Pnl(ClosedToday(clock)) /\ s.week_pnl = Pnl(ClosedThisWeek(clock))
      /\ s.drawdown = Drawdown(h, e) /\ s.losses_today = LossesToday(clock)
  BY DEF AccountState
<1> HIDE DEF s
<1>2. /\ f /\ s.day_pnl > -max_daily_loss /\ s.week_pnl > -max_weekly_loss
      /\ s.drawdown < max_drawdown /\ s.losses_today < max_losses_per_day
  BY DEF Gates, s
<1> QED BY <1>1, <1>2

(* What an entry is asked for is of the sales, not of what the rows show.      *)
LEMMA SameSales ==
  ASSUME TypeOK, trades' \in [Trades -> Trade], UNCHANGED clock,
         Entered' = Entered, Sold' = Sold,
         \A n \in Trades : trades'[n].sold_at = trades[n].sold_at /\ trades'[n].pnl = trades[n].pnl
  PROVE  /\ {n \in KnownToday : Loss(n)}' = {n \in KnownToday : Loss(n)}
         /\ Pnl(KnownToday)' = Pnl(KnownToday) /\ Pnl(KnownThisWeek)' = Pnl(KnownThisWeek)
         /\ Pnl(Sold)' = Pnl(Sold) /\ (SoldBefore' <=> SoldBefore)
<1>0. Sold \in SUBSET Trades /\ trades \in [Trades -> Trade]
  BY SetsTyped DEF TypeOK
<1>1. Known' = Known
  BY <1>0 DEF Known
<1>2. Known \in SUBSET Trades
  BY <1>0 DEF Known
<1>3. KnownToday' = KnownToday /\ KnownThisWeek' = KnownThisWeek
  BY <1>1, <1>2 DEF KnownToday, KnownThisWeek
<1>4. KnownToday \in SUBSET Trades /\ KnownThisWeek \in SUBSET Trades
  BY <1>2 DEF KnownToday, KnownThisWeek
<1>5. {n \in KnownToday : Loss(n)}' = {n \in KnownToday : Loss(n)}
  BY <1>3, <1>4 DEF Loss
<1>6. ASSUME NEW S \in SUBSET Trades
      PROVE  PnlSum(trades', S) = PnlSum(trades, S)
  BY <1>0, PnlUnchanged
<1>7. /\ Pnl(KnownToday)' = PnlSum(trades', KnownToday)
      /\ Pnl(KnownThisWeek)' = PnlSum(trades', KnownThisWeek)
      /\ Pnl(Sold)' = PnlSum(trades', Sold)
  <2>1. Pnl(KnownToday)' = PnlSum(trades', KnownToday')
    BY DEF Pnl, PnlSum, MapThenSumSet, MapThenFoldSet
  <2>2. Pnl(KnownThisWeek)' = PnlSum(trades', KnownThisWeek')
    BY DEF Pnl, PnlSum, MapThenSumSet, MapThenFoldSet
  <2>3. Pnl(Sold)' = PnlSum(trades', Sold')
    BY DEF Pnl, PnlSum, MapThenSumSet, MapThenFoldSet
  <2> QED BY <1>3, <2>1, <2>2, <2>3
<1>8. /\ Pnl(KnownToday)' = Pnl(KnownToday) /\ Pnl(KnownThisWeek)' = Pnl(KnownThisWeek)
      /\ Pnl(Sold)' = Pnl(Sold)
  BY <1>0, <1>4, <1>6, <1>7, PnlIs
<1>9. SoldBefore' <=> SoldBefore
  BY <1>0 DEF SoldBefore
<1> QED BY <1>5, <1>8, <1>9

LEMMA RowsAreEnough ==
  ASSUME TypeOK, OneByOne, OnTheBar, RowsLag, TickKnows, ReadRows, tick'.free
  PROVE  HeldTrades = {} /\ MayEnter'
<1> DEFINE high == Highest(equity_high, tick.equity)
<1>0. /\ tick.pc = "rows" /\ equity_high' = high /\ UNCHANGED <<trades, clock>>
      /\ tick.equity \in Int /\ equity_high \in Nat
      /\ trades \in [Trades -> Trade]
  BY DEF ReadRows, TypeOK, Tick
<1>1. Gates(AccountState(clock, tick.equity, high), tick.flat)
  BY DEF ReadRows, TypeOK, Tick
<1>2. /\ tick.flat
      /\ Pnl(ClosedToday(clock)) > -max_daily_loss
      /\ Pnl(ClosedThisWeek(clock)) > -max_weekly_loss
      /\ Drawdown(high, tick.equity) < max_drawdown
      /\ LossesToday(clock) < max_losses_per_day
  <2> HIDE DEF high
  <2> QED BY <1>1, GatesAsk
<1>3. HeldTrades = {}
  BY <1>0, <1>2 DEF TickKnows
<1>4. /\ \A n \in Known : n \in Sold /\ (n \in Closed \/ trades[n].pnl > 0)
      /\ \A n \in Closed : n \in Sold /\ (n \in Known \/ ~(trades[n].pnl > 0))
  <2>1. ASSUME NEW n \in Known PROVE n \in Sold /\ (n \in Closed \/ trades[n].pnl > 0)
    <3>1. CASE n \in Closed
      BY <3>1 DEF Known
    <3>2. CASE n \notin Closed
      <4>1. n \in Unrecorded
        BY <3>2 DEF Known, Unrecorded
      <4>2. n = Max(Entered) /\ trades[n].sold_at >= clock - 1
        BY <1>0, <4>1, RowsShow
      <4>3. trades[n].sold_at \in Nat /\ clock \in Nat
        <5>1. trades[n] \in Trade /\ clock \in Clock
          BY <4>1, SetsTyped DEF TypeOK, Unrecorded
        <5> QED BY <5>1 DEF Trade, Clock
      <4> QED BY <4>2, <4>3 DEF Known
    <3> QED BY <3>1, <3>2
  <2>2. ASSUME NEW n \in Closed PROVE n \in Sold /\ (n \in Known \/ ~(trades[n].pnl > 0))
    BY DEF OneByOne, Known
  <2> QED BY <2>1, <2>2
<1>5. /\ Known \in SUBSET Trades /\ Sold \in SUBSET Trades /\ Closed \in SUBSET Trades
      /\ \A n \in Trades : trades[n].pnl \in Int
  BY <1>0, <1>4, SetsTyped, ResultsAreInt
<1>6. max_daily_loss \in Int /\ max_weekly_loss \in Int /\ max_drawdown \in Int
      /\ max_losses_per_day \in Int
  BY BrakesAssumption
<1>7. Cardinality({n \in KnownToday : Loss(n)}) < max_losses_per_day
  <2> DEFINE A == {n \in ClosedToday(clock) : Loss(n)}
             B == {n \in KnownToday : Loss(n)}
  <2>1. B \subseteq A /\ A \in SUBSET Trades /\ B \in SUBSET Trades
    BY <1>4, <1>5 DEF KnownToday, ClosedToday, Loss
  <2>2. Cardinality(A) < max_losses_per_day
    BY <1>2 DEF LossesToday
  <2> HIDE DEF A, B
  <2>3. IsFiniteSet(A) /\ Cardinality(A) \in Nat /\ Cardinality(B) \in Nat
    BY <2>1, TradesFinite
  <2>4. Cardinality(B) <= Cardinality(A)
    BY <2>1, <2>3, FS_Subset
  <2>5. Cardinality(B) < max_losses_per_day
    BY <1>6, <2>2, <2>3, <2>4
  <2> QED BY <2>5 DEF B
<1>8. Pnl(KnownToday) > -max_daily_loss
  <2> DEFINE A == ClosedToday(clock)
             B == KnownToday
  <2>1. /\ A \in SUBSET Trades /\ B \in SUBSET Trades
        /\ \A n \in A \ B : trades[n].pnl <= 0
        /\ \A n \in B \ A : trades[n].pnl >= 0
    BY <1>4, <1>5 DEF KnownToday, ClosedToday
  <2>2. Pnl(A) > -max_daily_loss
    BY <1>2
  <2> HIDE DEF A, B
  <2>3. /\ PnlSum(trades, A) <= PnlSum(trades, B)
        /\ PnlSum(trades, A) \in Int /\ PnlSum(trades, B) \in Int
    BY <1>0, <2>1, PnlNoLess, PnlTyped
  <2>4. Pnl(A) = PnlSum(trades, A) /\ Pnl(B) = PnlSum(trades, B)
    BY PnlIs
  <2>5. Pnl(B) > -max_daily_loss
    BY <1>6, <2>2, <2>3, <2>4
  <2> QED BY <2>5 DEF B
<1>9. Pnl(KnownThisWeek) > -max_weekly_loss
  <2> DEFINE A == ClosedThisWeek(clock)
             B == KnownThisWeek
  <2>1. /\ A \in SUBSET Trades /\ B \in SUBSET Trades
        /\ \A n \in A \ B : trades[n].pnl <= 0
        /\ \A n \in B \ A : trades[n].pnl >= 0
    BY <1>4, <1>5 DEF KnownThisWeek, ClosedThisWeek
  <2>2. Pnl(A) > -max_weekly_loss
    BY <1>2
  <2> HIDE DEF A, B
  <2>3. /\ PnlSum(trades, A) <= PnlSum(trades, B)
        /\ PnlSum(trades, A) \in Int /\ PnlSum(trades, B) \in Int
    BY <1>0, <2>1, PnlNoLess, PnlTyped
  <2>4. Pnl(A) = PnlSum(trades, A) /\ Pnl(B) = PnlSum(trades, B)
    BY PnlIs
  <2>5. Pnl(B) > -max_weekly_loss
    BY <1>6, <2>2, <2>3, <2>4
  <2> QED BY <2>5 DEF B
<1>10. SoldBefore => high - Pnl(Sold) < max_drawdown
  <2> SUFFICES ASSUME SoldBefore PROVE high - Pnl(Sold) < max_drawdown
    OBVIOUS
  <2>1. tick.equity = Pnl(Sold)
    BY <1>0, <1>3 DEF TickKnows
  <2>2. high - tick.equity < max_drawdown
    BY <1>0, <1>2, <1>6 DEF Highest, Drawdown
  <2> QED BY <2>1, <2>2
<1> HIDE DEF high
<1>11. /\ {n \in KnownToday : Loss(n)}' = {n \in KnownToday : Loss(n)}
       /\ Pnl(KnownToday)' = Pnl(KnownToday) /\ Pnl(KnownThisWeek)' = Pnl(KnownThisWeek)
       /\ Pnl(Sold)' = Pnl(Sold) /\ (SoldBefore' <=> SoldBefore)
  BY <1>0, SameSets, SameSales
<1>12. MayEnter'
  BY <1>0, <1>7, <1>8, <1>9, <1>10, <1>11 DEF MayEnter
<1> QED BY <1>3, <1>12

LEMMA MayEnterKept ==
  ASSUME TypeOK, trades' \in [Trades -> Trade], UNCHANGED <<clock, equity_high>>,
         Entered' = Entered, Sold' = Sold,
         \A n \in Trades : trades'[n].sold_at = trades[n].sold_at /\ trades'[n].pnl = trades[n].pnl,
         MayEnter
  PROVE  MayEnter'
<1>1. /\ {n \in KnownToday : Loss(n)}' = {n \in KnownToday : Loss(n)}
      /\ Pnl(KnownToday)' = Pnl(KnownToday) /\ Pnl(KnownThisWeek)' = Pnl(KnownThisWeek)
      /\ Pnl(Sold)' = Pnl(Sold) /\ (SoldBefore' <=> SoldBefore)
  BY SameSales
<1> QED BY <1>1 DEF MayEnter

LEMMA TickKnowsStep ==
  ASSUME TypeOK, OneByOne, OnTheBar, RowsLag, TickKnows, [Next]_vars
  PROVE  TickKnows'
<1>0. tick \in Tick /\ trades \in [Trades -> Trade]
  BY DEF TypeOK
<1>1. CASE UNCHANGED <<trades, clock>>
  <2>1. /\ trades' \in [Trades -> Trade] /\ UNCHANGED clock
        /\ Entered' = Entered /\ Sold' = Sold /\ HeldTrades' = HeldTrades
        /\ \A n \in Trades : trades'[n].sold_at = trades[n].sold_at /\ trades'[n].pnl = trades[n].pnl
    BY <1>0, <1>1, SameSets
  <2>2. Pnl(Sold)' = Pnl(Sold) /\ (SoldBefore' <=> SoldBefore)
    BY <2>1, SameSales
  <2>3. UNCHANGED equity_high /\ MayEnter => MayEnter'
    BY <2>1, MayEnterKept
  <2>4. CASE GetAccount
    <3>1. PICK mark \in IF HeldTrades = {} THEN {0} ELSE Outcomes \cup {0} :
            tick' = [IdleTick EXCEPT !.pc = "positions", !.equity = Pnl(Sold) + mark]
      BY <2>4 DEF GetAccount
    <3>2. tick'.pc = "positions" /\ tick'.equity = Pnl(Sold) + mark
      BY <3>1 DEF IdleTick
    <3>3. HeldTrades = {} => tick'.equity = Pnl(Sold)
      BY <3>1, <3>2, SetsTyped
    <3> QED BY <2>1, <2>2, <3>2, <3>3 DEF TickKnows
  <2>5. CASE ListPositions
    <3>1. /\ tick.pc = "positions" /\ tick'.pc = "rows" /\ tick'.equity = tick.equity
          /\ tick'.flat => HeldTrades = {}
      BY <1>0, <2>5 DEF ListPositions, Tick
    <3> QED BY <2>1, <2>2, <3>1 DEF TickKnows
  <2>6. CASE ReadRows
    <3>1. tick'.pc = "switch"
      BY <1>0, <2>6 DEF ReadRows, Tick
    <3>2. tick'.free => HeldTrades = {} /\ MayEnter'
      BY <2>6, RowsAreEnough
    <3> QED BY <2>1, <3>1, <3>2 DEF TickKnows
  <2>7. CASE ReadSwitch
    <3>1. tick.pc = "switch" /\ tick'.pc \in {"engage", "evaluate"} /\ (tick'.free => tick.free)
          /\ UNCHANGED equity_high
      BY <1>0, <2>7 DEF ReadSwitch, Tick
    <3> QED BY <2>1, <2>3, <3>1 DEF TickKnows
  <2>8. CASE EngageReads \/ EngageWrites
    <3>1. /\ tick.pc \in {"engage", "engaging"} /\ tick'.pc \in {"engaging", "evaluate"}
          /\ tick'.free = tick.free /\ UNCHANGED equity_high
      BY <1>0, <2>8 DEF EngageReads, EngageWrites, Tick
    <3> QED BY <2>1, <2>3, <3>1 DEF TickKnows
  <2>9. CASE Evaluate
    <3>1. CASE tick' = IdleTick
      BY <3>1 DEF IdleTick, TickKnows
    <3>2. CASE tick' # IdleTick
      <4>1. /\ tick.pc = "evaluate" /\ tick.free /\ tick'.pc = "open" /\ tick'.free = tick.free
            /\ UNCHANGED equity_high
        BY <1>0, <2>9, <3>2 DEF Evaluate, Tick
      <4> QED BY <2>1, <2>3, <4>1 DEF TickKnows
    <3> QED BY <3>1, <3>2
  <2>10. CASE Open \/ TickDies
    BY <2>10 DEF Open, TickDies, IdleTick, TickKnows
  <2>11. CASE UNCHANGED <<tick, equity_high>>
    BY <2>1, <2>2, <2>3, <2>11 DEF TickKnows
  <2> QED
    BY <2>4, <2>5, <2>6, <2>7, <2>8, <2>9, <2>10, <2>11
       DEF Next, TickStep, RolloverStep, vars, Rollover, ClearReads, ClearWrites,
           RolloverDies, CliEngage, CliClear, Command, Sell, Record, Pass
<1>2. CASE Open
  BY <1>2 DEF Open, IdleTick, TickKnows
<1>3. ASSUME NEW n \in Trades, Sell(n) PROVE TickKnows'
  <2>1. /\ Sold' = Sold \cup {n} /\ n \in HeldTrades /\ trades'[n].sold_at = clock
    BY <1>3, SellSets
  <2>2. UNCHANGED <<tick, clock>> /\ clock \in Nat
    BY <1>3 DEF Sell, TypeOK, Clock
  <2>3. ~SoldBefore'
    BY <2>1, <2>2 DEF SoldBefore
  <2> QED BY <2>1, <2>2, <2>3 DEF TickKnows
<1>4. ASSUME NEW n \in Trades, Record(n) PROVE TickKnows'
  <2>1. /\ trades' \in [Trades -> Trade] /\ UNCHANGED <<clock, tick, equity_high>>
        /\ Entered' = Entered /\ Sold' = Sold
        /\ \A m \in Trades : trades'[m].sold_at = trades[m].sold_at /\ trades'[m].pnl = trades[m].pnl
    BY <1>4, RecordSets, RecordChanges DEF Record
  <2>2. Pnl(Sold)' = Pnl(Sold) /\ (SoldBefore' <=> SoldBefore)
    BY <2>1, SameSales
  <2>3. MayEnter => MayEnter'
    BY <2>1, MayEnterKept
  <2>4. HeldTrades' = HeldTrades
    BY <2>1 DEF HeldTrades
  <2> QED BY <2>1, <2>2, <2>3, <2>4 DEF TickKnows
<1>5. CASE Pass
  BY <1>5 DEF Pass, TickKnows
<1> QED
  <2>1. UNCHANGED trades => UNCHANGED <<trades, clock>> \/ Pass
    BY DEF Next, TickStep, RolloverStep, vars, GetAccount, ListPositions, ReadRows, ReadSwitch,
       EngageReads, EngageWrites, Evaluate, Open, TickDies, Rollover, ClearReads, ClearWrites,
       RolloverDies, CliEngage, CliClear, Command, Sell, Record
  <2> QED BY <1>1, <1>2, <1>3, <1>4, <1>5, <2>1, WhoTrades

-----------------------------------------------------------------------------

BrakesInv == TypeOK /\ OneByOne /\ OnTheBar /\ RowsLag /\ TickKnows

LEMMA BrakesInvariant == Spec => []BrakesInv
<1>1. Init => BrakesInv
  BY TypesInit, OneByOneInit, OnTheBarInit DEF BrakesInv
<1>2. BrakesInv /\ [Next]_vars => BrakesInv'
  BY TypesStep, OneByOneStep, OnTheBarStep, RowsLagStep, TickKnowsStep DEF BrakesInv
<1> QED BY <1>1, <1>2, PTL DEF Spec

(* Only Open enters, and what is asked of it holds.                            *)
LEMMA OnlyOpenEnters ==
  ASSUME BrakesInv, [Next]_vars, Enters
  PROVE  MayEnter
<1>1. CASE UNCHANGED trades
  BY <1>1, SameSets DEF Enters
<1>2. CASE Open
  BY <1>2 DEF Open, BrakesInv, TickKnows
<1>3. ASSUME NEW n \in Trades, Sell(n) \/ Record(n) PROVE FALSE
  BY <1>3, SellSets, RecordSets DEF BrakesInv, Enters
<1> QED BY <1>1, <1>2, <1>3, WhoTrades

(* Types, for every bound: trades are entered within it, and the equity is a   *)
(* sum of their results.                                                      *)
THEOREM BrakesTyped == Spec => []TypeOK
<1>1. BrakesInv => TypeOK
  BY DEF BrakesInv
<1> QED BY <1>1, BrakesInvariant, PTL

(* "A losing day ends the day" (pinned/risk_limits.py:19): whatever fills, is   *)
(* recorded late or is cleared meanwhile, the tick enters nothing once the    *)
(* sales known to it use up the day's losing trades or the day's loss.        *)
THEOREM LosingDayEnds == Spec => DayEnds
<1>1. ASSUME BrakesInv, [Next]_vars
      PROVE  [Enters => /\ Cardinality({n \in KnownToday : Loss(n)}) < max_losses_per_day
                        /\ Pnl(KnownToday) > -max_daily_loss]_vars
  BY <1>1, OnlyOpenEnters DEF MayEnter
<1> QED BY <1>1, BrakesInvariant, PTL DEF Spec, DayEnds

(* Nor, whether or not a person clears the switch, once they use up the week's *)
(* loss (app/risk/engine.py).                                                 *)
THEOREM LosingWeekEnds == Spec => WeekEnds
<1>1. ASSUME BrakesInv, [Next]_vars
      PROVE  [Enters => Pnl({n \in Known : Week(trades[n].sold_at) = Week(clock)})
                          > -max_weekly_loss]_vars
  BY <1>1, OnlyOpenEnters DEF MayEnter, KnownThisWeek
<1> QED BY <1>1, BrakesInvariant, PTL DEF Spec, WeekEnds

(* Nor with the account max_drawdown below its recorded high (app/risk/         *)
(* engine.py), except for a trade sold after the equity was read.             *)
THEOREM DeepDrawdownStops == Spec => DrawdownStops
<1>1. ASSUME BrakesInv, [Next]_vars
      PROVE  [Enters /\ (\A n \in Sold : trades[n].sold_at < clock)
                => equity_high - Pnl(Sold) < max_drawdown]_vars
  BY <1>1, OnlyOpenEnters DEF MayEnter, SoldBefore
<1> QED BY <1>1, BrakesInvariant, PTL DEF Spec, DrawdownStops

-----------------------------------------------------------------------------
(* The rollover may begin, or be about to clear the switch.                    *)
RolloverTime == clock % (2 * DayBars) <= misfire_grace_time

(* The rows show a limit of the day used up, and nothing is left to change that. *)
DayBreached ==
  \/ Pnl(ClosedToday(clock)) <= -max_daily_loss
  \/ LossesToday(clock) >= max_losses_per_day
Spent == Entered = Closed /\ DayBreached

(* On a day whose switch a tick has engaged, the switch stays engaged, or is    *)
(* engaged again by the next tick that would enter.                           *)
BrakeInv ==
  /\ braked <= Day(clock)
  /\ braked = Day(clock) => ks = "manual" \/ (ks = "daily" /\ ~RolloverTime) \/ Spent
  /\ roll # "idle" => RolloverTime
  /\ tick.pc \in {"switch", "engage", "engaging"} /\ tick.kill = "daily" => ~RolloverTime \/ Spent
  /\ tick.pc = "switch" /\ braked = Day(clock) =>
       ks = "manual" \/ (ks = "daily" /\ ~RolloverTime) \/ tick.kill # "clear"
  /\ tick.pc \in {"engage", "engaging"} => ~tick.free /\ tick.kill # "clear"
  /\ tick.pc \in {"evaluate", "open"} /\ tick.free => braked # Day(clock)
  /\ tick.pc = "open" => tick.free

LEMMA DayParts ==
  ASSUME NEW c \in Nat
  PROVE  /\ 2 * DayBars \in Nat \ {0} /\ Day(c) \in Nat
         /\ c % (2 * DayBars) \in 0..(2 * DayBars - 1)
         /\ c = 2 * DayBars * Day(c) + (c % (2 * DayBars))
<1>1. DayBars \in Nat /\ DayBars > 0
  BY BrakesAssumption
<1> DEFINE D == 2 * DayBars
<1>2. D \in Nat /\ D > 0
  BY <1>1
<1> HIDE DEF D
<1>3. c \div D \in Nat /\ c % D \in 0..(D - 1) /\ c = D * (c \div D) + (c % D)
  BY <1>2, Z3
<1> QED BY <1>2, <1>3 DEF Day, D

(* The half bars since midnight, and midnight.                                 *)
LEMMA SinceMidnight ==
  ASSUME NEW c \in Nat
  PROVE  \E x \in Nat, m \in Nat :
           /\ x = c % (2 * DayBars) /\ 2 * m = 2 * DayBars * Day(c) /\ c = 2 * m + x
<1> DEFINE D == 2 * DayBars
           q == Day(c)
           x == c % D
<1>1. /\ D \in Nat /\ q \in Nat /\ x \in Nat /\ c = D * q + x
  BY DayParts
<1>2. DayBars * q \in Nat /\ D * q = 2 * (DayBars * q)
  BY <1>1, BrakesAssumption
<1>3. /\ x \in Nat /\ DayBars * q \in Nat
      /\ x = c % (2 * DayBars) /\ 2 * (DayBars * q) = D * q /\ c = 2 * (DayBars * q) + x
  <2> HIDE DEF D, q
  <2>1. x = c % (2 * DayBars)
    BY DEF D
  <2> HIDE DEF x
  <2> QED BY <1>1, <1>2, <2>1
<1> QED BY <1>3

LEMMA DayGrows ==
  ASSUME NEW e \in Nat, NEW c \in Nat, e <= c
  PROVE  Day(e) <= Day(c)
<1> DEFINE D == 2 * DayBars
           p == Day(e)
           q == Day(c)
           x == e % D
           y == c % D
<1>1. /\ D \in Nat /\ D > 0 /\ p \in Nat /\ q \in Nat /\ x \in Nat /\ y \in Nat /\ y < D
      /\ e = D * p + x /\ c = D * q + y
  BY DayParts
<1> HIDE DEF D, p, q, x, y
<1>2. ASSUME q < p PROVE FALSE
  <2>1. PICK k \in Nat : p = q + 1 + k
    <3>1. p - q - 1 \in Nat /\ p = q + 1 + (p - q - 1)
      BY <1>1, <1>2
    <3> QED BY <3>1
  <2>2. D * p = D * q + D + D * k /\ D * k \in Nat /\ D * q \in Nat
    BY <1>1, <2>1
  <2> QED BY <1>1, <2>2
<1>3. p <= q
  BY <1>1, <1>2
<1> QED BY <1>3 DEF p, q

(* A tick in the rollover's time is the day's first, on the stroke of midnight.  *)
LEMMA Midnight ==
  ASSUME misfire_grace_time < 2, TypeOK, RolloverTime, clock % 2 = 0
  PROVE  clock = 2 * DayBars * Day(clock)
<1>1. clock \in Nat /\ misfire_grace_time \in Nat
  BY BrakesAssumption DEF TypeOK, Clock
<1>2. PICK x \in Nat, m \in Nat :
        x = clock % (2 * DayBars) /\ 2 * m = 2 * DayBars * Day(clock) /\ clock = 2 * m + x
  BY <1>1, SinceMidnight
<1>3. x <= misfire_grace_time
  BY <1>2 DEF RolloverTime
<1>4. x = 0
  <2>1. x < 2
    BY <1>1, <1>2, <1>3
  <2>2. (2 * m + x) % 2 = 0
    BY <1>2
  <2> QED BY <1>2, <2>1, <2>2
<1>5. clock = 2 * m
  BY <1>2, <1>4
<1> QED BY <1>2, <1>5

(* What a tick finds then to be lost today was lost by the last trade: all are  *)
(* closed.                                                                    *)
LEMMA FirstTickFinds ==
  ASSUME misfire_grace_time < 2, TypeOK, OneByOne, OnTheBar, RowsLag, tick.pc # "idle",
         RolloverTime, DayBreached
  PROVE  Entered = Closed
<1>0. /\ clock \in Nat /\ clock % 2 = 0 /\ fired = Bar(clock)
      /\ Entered \in SUBSET Trades /\ Closed \in SUBSET Trades
      /\ \A n \in Trades : trades[n].opened_at \in Nat /\ trades[n].sold_at \in Nat /\ n \in Nat
  BY SetsTyped DEF TypeOK, Clock, OnTheBar, Trade, Trades
<1>1. clock = 2 * DayBars * Day(clock)
  BY <1>0, Midnight
<1>2. ClosedToday(clock) # {}
  <2> SUFFICES ASSUME ClosedToday(clock) = {} PROVE FALSE
    OBVIOUS
  <2>1. Pnl({}) = 0
    BY PnlIs, PnlEmpty
  <2>2. {n \in ClosedToday(clock) : Loss(n)} = {}
    OBVIOUS
  <2>3. LossesToday(clock) = 0
    BY <2>2, FS_EmptySet DEF LossesToday
  <2> QED BY <2>1, <2>3, BrakesAssumption DEF DayBreached
<1>3. PICK n \in Closed : Day(trades[n].sold_at) = Day(clock)
  BY <1>2 DEF ClosedToday
<1>4. n \in Entered /\ n \in Trades /\ trades[n].sold_at >= clock
  <2>1. n \in Entered /\ n \in Trades
    BY <1>0 DEF OneByOne
  <2> DEFINE at == trades[n].sold_at
  <2>2. at \in Nat /\ Day(at) = Day(clock)
    BY <1>0, <1>3, <2>1
  <2> HIDE DEF at
  <2>3. at = 2 * DayBars * Day(at) + (at % (2 * DayBars)) /\ at % (2 * DayBars) \in Nat
    BY <2>2, DayParts
  <2>4. at = clock + (at % (2 * DayBars))
    BY <1>1, <2>2, <2>3
  <2>5. at >= clock
    BY <1>0, <2>2, <2>3, <2>4
  <2> QED BY <2>1, <2>5 DEF at
<1>5. ASSUME NEW m \in Entered PROVE m \in Closed
  <2>0. m \in Trades /\ m \in Nat /\ n \in Nat /\ trades[m].opened_at < clock
        /\ trades[n].opened_at <= clock - 2
    <3>1. ASSUME NEW t \in Entered PROVE t \in Trades /\ trades[t].opened_at <= clock - 2
      <4>1. /\ Bar(trades[t].opened_at) < Bar(clock) /\ trades[t].opened_at % 2 = 0
            /\ t \in Trades /\ trades[t].opened_at \in Nat
        BY <1>0 DEF OnTheBar
      <4> QED BY <1>0, <4>1 DEF Bar
    <3> QED BY <1>0, <1>4, <3>1
  <2>1. CASE m < n
    <3>1. m \in Sold /\ trades[m].sold_at <= trades[n].opened_at
      BY <1>4, <2>1 DEF OneByOne
    <3>2. m \notin Unrecorded
      BY <1>0, <1>4, <2>0, <3>1 DEF RowsLag
    <3> QED BY <3>1, <3>2 DEF Unrecorded
  <2>2. CASE n < m
    <3>1. trades[n].sold_at <= trades[m].opened_at
      BY <1>4, <2>2 DEF OneByOne
    <3> QED BY <1>0, <1>4, <2>0, <3>1
  <2> QED BY <2>0, <2>1, <2>2
<1> QED BY <1>5 DEF OneByOne

(* What check_auto_kill makes of the rows.                                     *)
LEMMA KillDaily ==
  ASSUME NEW e, NEW h, NEW kill, kill = AutoKill(AccountState(clock, e, h))
  PROVE  /\ kill = "daily" => DayBreached
         /\ TypeOK /\ Drawdown(h, e) \in Int /\ DayBreached => kill # "clear"
<1> DEFINE s == AccountState(clock, e, h)
<1>1. /\ s.day_pnl = Pnl(ClosedToday(clock)) /\ s.losses_today = LossesToday(clock)
      /\ s.week_pnl = Pnl(ClosedThisWeek(clock)) /\ s.drawdown = Drawdown(h, e)
  BY DEF AccountState
<1>2. kill = AutoKill(s)
  OBVIOUS
<1> HIDE DEF s
<1> DEFINE deep == s.drawdown >= max_drawdown
           low == s.drawdown < max_drawdown
           week == s.week_pnl <= -max_weekly_loss
           fine == s.week_pnl > -max_weekly_loss
           lost == s.day_pnl <= -max_daily_loss \/ s.losses_today >= max_losses_per_day
<1>3. kill = CASE deep -> "manual" [] low /\ week -> "manual" [] low /\ fine /\ lost -> "daily"
               [] OTHER -> "clear"
  BY <1>2 DEF AutoKill
<1>4. lost <=> DayBreached
  BY <1>1 DEF DayBreached
<1>5. TypeOK /\ Drawdown(h, e) \in Int => (deep \/ low) /\ (week \/ fine)
  <2> SUFFICES ASSUME TypeOK, Drawdown(h, e) \in Int PROVE (deep \/ low) /\ (week \/ fine)
    OBVIOUS
  <2>1. ClosedThisWeek(clock) \in SUBSET Trades
    BY SetsTyped DEF ClosedThisWeek
  <2>2. Pnl(ClosedThisWeek(clock)) \in Int
    BY <2>1, PnlTyped, PnlIs DEF TypeOK
  <2> QED BY <1>1, <2>2, BrakesAssumption
<1> HIDE DEF deep, low, week, fine, lost
<1>6. kill = "daily" => lost
  BY <1>3
<1>7. (deep \/ low) /\ (week \/ fine) /\ lost => kill # "clear"
  BY <1>3
<1> QED BY <1>4, <1>5, <1>6, <1>7

(* The rows say the same of the same day.                                     *)
LEMMA SameDay ==
  ASSUME TypeOK, UNCHANGED trades, Day(clock)' = Day(clock)
  PROVE  Spent' <=> Spent
<1>1. /\ Entered' = Entered /\ Closed' = Closed /\ trades \in [Trades -> Trade]
      /\ ClosedToday(clock) \in SUBSET Trades
  BY SameSets, SetsTyped DEF TypeOK, ClosedToday
<1>2. ClosedToday(clock)' = ClosedToday(clock)
  BY <1>1 DEF ClosedToday
<1>3. Pnl(ClosedToday(clock))' = PnlSum(trades', ClosedToday(clock)')
  BY DEF Pnl, PnlSum, MapThenSumSet, MapThenFoldSet
<1>4. Pnl(ClosedToday(clock))' = Pnl(ClosedToday(clock))
  BY <1>2, <1>3, PnlIs
<1>5. {n \in ClosedToday(clock) : Loss(n)}' = {n \in ClosedToday(clock) : Loss(n)}
  BY <1>1, <1>2 DEF Loss
<1>6. LossesToday(clock)' = LossesToday(clock)
  BY <1>5 DEF LossesToday
<1> QED BY <1>1, <1>4, <1>6 DEF Spent, DayBreached

LEMMA BrakeInvInit ==
  ASSUME Init
  PROVE  BrakeInv
<1>1. Day(0) \in Nat
  BY DayParts
<1> QED BY <1>1 DEF Init, BrakeInv, IdleTick, NoDay

LEMMA BrakeInvStep ==
  ASSUME misfire_grace_time < 2, BrakesInv, WritersKnow, BrakeInv, [Next]_vars
  PROVE  BrakeInv'
<1>0. /\ TypeOK /\ OneByOne /\ tick \in Tick /\ clock \in Nat /\ Day(clock) \in Nat
      /\ braked \in Int
  <2>1. TypeOK /\ OneByOne /\ tick \in Tick /\ clock \in Nat /\ braked \in Int
    BY DEF BrakesInv, TypeOK, Clock, NoDay
  <2> QED BY <2>1, DayParts
<1>1. CASE UNCHANGED <<trades, clock>>
  <2>1. (Spent' <=> Spent) /\ (RolloverTime' <=> RolloverTime) /\ Day(clock)' = Day(clock)
    BY <1>0, <1>1, SameDay DEF RolloverTime
  <2>2. CASE UNCHANGED <<ks, roll, braked>> /\ ~EngageWrites
    <3> SUFFICES
          /\ tick'.pc \in {"switch", "engage", "engaging"} /\ tick'.kill = "daily" =>
               ~RolloverTime \/ Spent
          /\ tick'.pc = "switch" /\ braked = Day(clock) =>
               ks = "manual" \/ (ks = "daily" /\ ~RolloverTime) \/ tick'.kill # "clear"
          /\ tick'.pc \in {"engage", "engaging"} => ~tick'.free /\ tick'.kill # "clear"
          /\ tick'.pc \in {"evaluate", "open"} /\ tick'.free => braked # Day(clock)
          /\ tick'.pc = "open" => tick'.free
      BY <2>1, <2>2 DEF BrakeInv
    <3>1. CASE GetAccount
      BY <3>1 DEF GetAccount, IdleTick
    <3>2. CASE ListPositions
      BY <1>0, <3>2 DEF ListPositions, Tick
    <3>3. CASE ReadRows
      <4> DEFINE high == Highest(equity_high, tick.equity)
      <4>1. /\ tick.pc = "rows" /\ tick'.pc = "switch"
            /\ tick'.kill = AutoKill(AccountState(clock, tick.equity, high))
            /\ high \in Int /\ tick.equity \in Int /\ Drawdown(high, tick.equity) \in Int
        BY <1>0, <3>3 DEF ReadRows, Tick, TypeOK, Highest, Drawdown
      <4> HIDE DEF high
      <4>2. (tick'.kill = "daily" => DayBreached) /\ (DayBreached => tick'.kill # "clear")
        BY <1>0, <4>1, KillDaily
      <4>3. RolloverTime /\ DayBreached => Spent
        BY <4>1, FirstTickFinds DEF BrakesInv, Spent
      <4> QED BY <4>1, <4>2, <4>3 DEF BrakeInv, Spent
    <3>4. CASE ReadSwitch
      <4>1. /\ tick.pc = "switch" /\ tick'.kill = tick.kill
            /\ \/ tick'.pc = "engage" /\ tick.kill # "clear" /\ ~tick'.free
               \/ tick'.pc = "evaluate" /\ (tick'.free => ks = "clear" /\ tick.kill = "clear")
        BY <1>0, <3>4 DEF ReadSwitch, Tick
      <4> QED BY <4>1 DEF BrakeInv
    <3>5. CASE EngageReads
      <4>1. /\ tick.pc = "engage" /\ tick'.kill = tick.kill /\ tick'.free = tick.free
            /\ tick'.pc \in {"evaluate", "engaging"}
        BY <1>0, <3>5 DEF EngageReads, Tick
      <4> QED BY <4>1 DEF BrakeInv
    <3>6. CASE Evaluate
      <4>1. \/ tick'.pc = "idle"
            \/ tick.pc = "evaluate" /\ tick.free /\ tick'.pc = "open" /\ tick'.free = tick.free
        BY <1>0, <3>6 DEF Evaluate, Tick, IdleTick
      <4> QED BY <4>1 DEF BrakeInv
    <3>7. CASE TickDies \/ Open
      BY <3>7 DEF TickDies, Open, IdleTick
    <3>8. CASE UNCHANGED tick
      BY <3>8 DEF BrakeInv
    <3> QED BY <3>1, <3>2, <3>3, <3>4, <3>5, <3>6, <2>2, <3>7, <3>8
            DEF Next, TickStep, RolloverStep, vars, Rollover, ClearReads, ClearWrites,
                RolloverDies, CliEngage, CliClear, Command, Sell, Record, Pass
  <2>3. CASE EngageWrites
    <3>1. /\ tick.pc = "engaging" /\ tick'.pc = "evaluate" /\ tick'.free = tick.free
          /\ ks' = tick.kill /\ braked' = Day(clock) /\ roll' = roll
          /\ tick.kill \in Levels
      BY <1>0, <2>3 DEF EngageWrites, Tick
    <3> QED BY <1>0, <2>1, <3>1 DEF BrakeInv, Levels
  <2>4. CASE Rollover \/ ClearReads \/ RolloverDies
    <3>1. UNCHANGED <<ks, tick, braked>> /\ (roll' # "idle" => RolloverTime)
      BY <2>4 DEF Rollover, ClearReads, RolloverDies, RolloverDue, RolloverTime, BrakeInv
    <3> QED BY <2>1, <3>1 DEF BrakeInv
  <2>5. CASE ClearWrites
    <3>1. /\ ks = "daily" /\ RolloverTime /\ roll' = "idle" /\ UNCHANGED <<tick, braked>>
      BY <2>5 DEF ClearWrites, WritersKnow, BrakeInv
    <3> QED BY <2>1, <3>1 DEF BrakeInv
  <2>6. CASE CliEngage
    <3>1. ks' = "manual" /\ UNCHANGED <<tick, roll, braked>>
      BY <2>6 DEF CliEngage, Command
    <3> QED BY <2>1, <3>1 DEF BrakeInv
  <2>7. CASE CliClear
    <3>1. braked' = -1 /\ UNCHANGED <<tick, roll>>
      BY <2>7 DEF CliClear, Command, NoDay
    <3>2. braked' <= Day(clock) /\ braked' # Day(clock)
      BY <1>0, <3>1
    <3> QED BY <2>1, <3>1, <3>2 DEF BrakeInv
  <2> QED BY <2>2, <2>3, <2>4, <2>5, <2>6, <2>7
          DEF Next, TickStep, RolloverStep, vars, GetAccount, ListPositions, ReadRows, ReadSwitch,
              EngageReads, Evaluate, Open, TickDies, Sell, Record, Pass
<1>2. CASE Open
  <2>1. /\ tick.pc = "open" /\ tick'.pc = "idle" /\ UNCHANGED <<clock, ks, roll, braked>>
    BY <1>2 DEF Open, IdleTick
  <2>2. (RolloverTime' <=> RolloverTime) /\ Day(clock)' = Day(clock)
    BY <2>1 DEF RolloverTime
  <2> QED BY <2>1, <2>2 DEF BrakeInv
<1>3. ASSUME NEW n \in Trades, Sell(n) \/ Record(n) PROVE BrakeInv'
  <2>1. UNCHANGED <<clock, ks, roll, braked, tick>>
    BY <1>3 DEF Sell, Record
  <2>2. (RolloverTime' <=> RolloverTime) /\ Day(clock)' = Day(clock)
    BY <2>1 DEF RolloverTime
  <2>3. ~Spent
    BY <1>0, <1>3 DEF Sell, Record, HeldTrades, Unrecorded, OneByOne, Spent
  <2> QED BY <2>1, <2>2, <2>3 DEF BrakeInv
<1>4. CASE Pass
  <2>1. /\ tick.pc = "idle" /\ roll = "idle" /\ clock' = clock + 1
        /\ UNCHANGED <<trades, ks, roll, braked, tick>>
    BY <1>4 DEF Pass
  <2>2. Day(clock)' = Day(clock') /\ Day(clock) <= Day(clock') /\ Day(clock') \in Nat
    <3>1. clock' \in Nat /\ clock <= clock'
      BY <1>0, <2>1
    <3>2. Day(clock) <= Day(clock')
      BY <1>0, <3>1, DayGrows
    <3>3. Day(clock') \in Nat
      BY <3>1, DayParts
    <3> QED BY <3>2, <3>3
  <2>3. CASE Day(clock') = Day(clock)
    <3>1. Spent' <=> Spent
      BY <1>0, <2>1, <2>2, <2>3, SameDay
    <3>2. ~RolloverTime => ~RolloverTime'
      <4>1. PICK x \in Nat, m \in Nat :
              x = clock % (2 * DayBars) /\ 2 * m = 2 * DayBars * Day(clock) /\ clock = 2 * m + x
        BY <1>0, SinceMidnight
      <4>2. PICK y \in Nat, n \in Nat :
              y = clock' % (2 * DayBars) /\ 2 * n = 2 * DayBars * Day(clock') /\ clock' = 2 * n + y
        <5>1. clock' \in Nat
          BY <1>0, <2>1
        <5> QED BY <5>1, SinceMidnight
      <4>3. 2 * n = 2 * m
        BY <2>3, <4>1, <4>2
      <4>4. y = x + 1
        BY <2>1, <4>1, <4>2, <4>3
      <4>5. x > misfire_grace_time => y > misfire_grace_time
        BY <4>1, <4>2, <4>4, BrakesAssumption
      <4>6. (RolloverTime <=> x <= misfire_grace_time) /\ (RolloverTime' <=> y <= misfire_grace_time)
        BY <4>1, <4>2 DEF RolloverTime
      <4> QED BY <4>1, <4>2, <4>5, <4>6, BrakesAssumption
    <3> QED BY <2>1, <2>2, <2>3, <3>1, <3>2 DEF BrakeInv
  <2>4. CASE Day(clock') # Day(clock)
    <3>1. braked < Day(clock')
      BY <1>0, <2>2, <2>4 DEF BrakeInv
    <3> QED BY <1>0, <2>1, <2>2, <3>1 DEF BrakeInv
  <2> QED BY <2>3, <2>4
<1> QED
  <2>1. UNCHANGED trades => UNCHANGED <<trades, clock>> \/ Pass
    BY DEF Next, TickStep, RolloverStep, vars, GetAccount, ListPositions, ReadRows, ReadSwitch,
       EngageReads, EngageWrites, Evaluate, Open, TickDies, Rollover, ClearReads, ClearWrites,
       RolloverDies, CliEngage, CliClear, Command, Sell, Record
  <2> QED BY <1>1, <1>2, <1>3, <1>4, <2>1, WhoTrades

(* "A bad day should end the day" (kill_switch.py:10): on the day a tick has    *)
(* engaged the switch nothing more is entered unless a person clears it, also *)
(* when the rollover starts late and clears it.  That is late by less than a  *)
(* bar, which cron.py:79 grants it with bars of 15 minutes or more.           *)
THEOREM DailyBrake ==
  ASSUME CommandsInterleave = FALSE, misfire_grace_time < 2
  PROVE  Spec => DailyBrakeLasts
<1> DEFINE Inv == WritersKnow /\ BrakeInv
<1>1. Init => Inv
  BY WritersKnowInit, BrakeInvInit
<1>2. BrakesInv /\ Inv /\ [Next]_vars => Inv'
  BY WritersKnowStep, BrakeInvStep
<1>3. ASSUME BrakesInv, Inv, [Next]_vars
      PROVE  [Enters => braked # Day(clock)]_vars
  <2>1. CASE UNCHANGED trades
    BY <2>1, SameSets DEF Enters
  <2>2. CASE Open
    BY <1>3, <2>2 DEF Open, BrakeInv
  <2>3. ASSUME NEW n \in Trades, Sell(n) \/ Record(n) PROVE ~Enters
    BY <1>3, <2>3, SellSets, RecordSets DEF BrakesInv, Enters
  <2> QED BY <1>3, <2>1, <2>2, <2>3, WhoTrades
<1> HIDE DEF Inv
<1> QED BY <1>1, <1>2, <1>3, BrakesInvariant, PTL DEF Spec, DailyBrakeLasts

=============================================================================
