------------------------------- MODULE Brakes -------------------------------
(***************************************************************************)
(* The loss brakes: the account state a tick derives from the trades table  *)
(* (app/risk/account_state.py), the gates of the risk engine that read it   *)
(* (app/risk/engine.py), the kill switch (app/risk/kill_switch.py) and the  *)
(* jobs and commands that engage and clear it.                              *)
(*                                                                         *)
(* The tick decides in several calls: the account, the positions, the rows, *)
(* the switch.  Meanwhile a stop may fill, the monitor may record a sale,   *)
(* the rollover may clear the switch and a person may use the CLI.  A sale  *)
(* happens at the broker first and reaches the table with the next monitor  *)
(* cycle.  The lifecycle of the position itself is in PositionManager.      *)
(*                                                                         *)
(* Time is counted in half bars: the tick runs at the start of a bar, on an *)
(* even clock.  Limits are amounts, not fractions of the day's and week's   *)
(* anchors, and a trade's result is one of Outcomes.                        *)
(***************************************************************************)
EXTENDS RiskEngine, FiniteSets, FiniteSetsExt

CONSTANTS
  MaxTrades,              \* bound: trades of a behaviour
  Horizon,                \* bound: half bars of a behaviour
  MaxCommands,            \* bound: CLI commands of a behaviour
  DayBars, WeekDays,      \* bars in a UTC day, days in an ISO week
  Outcomes,               \* what a trade, or the mark of an open one, may be worth
  CommandsInterleave,     \* may a CLI command fall between a job's read of the
                          \* switch and its write?
  misfire_grace_time      \* half bars by which the rollover may start late

ASSUME BrakesAssumption ==
  /\ MaxTrades \in Nat /\ Horizon \in Nat /\ MaxCommands \in Nat
  /\ DayBars \in Nat \ {0} /\ WeekDays \in Nat \ {0}
  /\ Outcomes \subseteq Int
  /\ {max_daily_loss, max_weekly_loss, max_drawdown, max_losses_per_day} \subseteq Int
  /\ max_daily_loss > 0 /\ max_losses_per_day > 0
  /\ CommandsInterleave \in BOOLEAN /\ misfire_grace_time \in Nat

Trades == 1..MaxTrades
Clock == 0..Horizon

Day(c) == c \div (2 * DayBars)
Week(c) == Day(c) \div WeekDays
OtherWeek(c) == (Day(c) + 1) \div WeekDays
bars_between(earlier, later) == (later - earlier) \div 2

(* A trade: its row, when it was entered, and how, when and for what the      *)
(* broker sold it, which the row shows only once it is closed.                *)
Trade == [row : {"none", "open", "closed"}, opened_at : Clock,
          sold : {"no", "sl", "other"}, sold_at : Clock, pnl : Outcomes \cup {0}]
NoTrade == [row |-> "none", opened_at |-> 0, sold |-> "no", sold_at |-> 0, pnl |-> 0]

(* system_state's kill_switch record: off, or requires_manual_clear or not. *)
Levels == {"clear", "daily", "manual"}
NoDay == -1

VARIABLES
  clock,
  trades,        \* the trades, as the broker and as the table know them
  ks,            \* the kill switch record
  equity_high,   \* system_state's equity_high
  fired,         \* the last bar whose tick the scheduler has fired
  rolled,        \* the last day whose rollover has begun
  tick,          \* the tick job
  roll,          \* the rollover job: "idle", or its next statement on the switch
  commands,      \* CLI commands given
  braked         \* history: the day in which a tick last engaged the switch,
                 \* unless a person has cleared it since

vars == <<clock, trades, ks, equity_high, fired, rolled, tick, roll, commands, braked>>

Tick == [pc : {"idle", "positions", "rows", "switch", "engage", "engaging", "evaluate", "open"},
         equity : Int,          \* get_account
         flat : BOOLEAN,        \* list_positions
         kill : Levels,         \* check_auto_kill; "clear" is None
         free : BOOLEAN]        \* do the gates below the kill switch let it pass?
IdleTick == [pc |-> "idle", equity |-> 0, flat |-> FALSE, kill |-> "clear", free |-> FALSE]

Init ==
  /\ clock = 0
  /\ trades = [n \in Trades |-> NoTrade]
  /\ ks = "clear"
  /\ equity_high = 0
  /\ fired = -1
  /\ rolled = 0
  /\ tick = IdleTick
  /\ roll = "idle"
  /\ commands = 0
  /\ braked = NoDay

-----------------------------------------------------------------------------
(* What the broker and the table say. *)

Pnl(S) == MapThenSumSet(LAMBDA n : trades[n].pnl, S)
Entered == {n \in Trades : trades[n].row # "none"}
Sold == {n \in Trades : trades[n].sold # "no"}
HeldTrades == Entered \ Sold
Closed == {n \in Trades : trades[n].row = "closed"}
Unrecorded == Sold \ Closed
Loss(n) == trades[n].pnl < 0

(* Trades are sold in the order they were entered: closed_at orders as id.    *)
LastClosed == Max(Closed)
ConsecutiveLosses == Cardinality({n \in Closed : \A m \in Closed : m >= n => Loss(m)})

ClosedOfToday(c) == {n \in Closed : Day(trades[n].opened_at) = Day(c)}
ClosedToday(c) == {n \in Closed : Day(trades[n].sold_at) = Day(c)}
ClosedOtherWeek(c) == {n \in Closed : OtherWeek(trades[n].sold_at) = OtherWeek(c)}
ClosedThisWeek(c) == {n \in Closed : Week(trades[n].sold_at) = Week(c)}
LossesToday(c) == Cardinality({n \in ClosedToday(c) : Loss(n)})
OpenedToday(c) == {n \in Entered : Day(trades[n].opened_at) = Day(c)}

(* bump_equity_high *)
HighNow(high, equity) == equity
Highest(high, equity) == IF equity > high THEN equity ELSE high

Above(high, equity) == IF equity > high THEN equity - high ELSE 0
Drawdown(high, equity) == IF high > equity THEN high - equity ELSE 0

(* build_from_db, but for the switch, from the rows at clock c.               *)
AccountState(c, equity, high) ==
  [ day_pnl    |-> Pnl(ClosedToday(c)),
    week_pnl   |-> Pnl(ClosedThisWeek(c)),
    drawdown   |-> Drawdown(high, equity),
    trades_today |-> Cardinality(OpenedToday(c)),
    losses_today |-> LossesToday(c),
    streak     |-> ConsecutiveLosses,
    last_exit  |-> IF Closed = {} THEN NoTrade ELSE trades[LastClosed],
    since_exit |-> IF Closed = {} THEN Horizon
                   ELSE bars_between(trades[LastClosed].sold_at, c),
    since_entry |-> IF Entered = {} THEN Horizon
                    ELSE bars_between(trades[Max(Entered)].opened_at, c) ]

(* check_auto_kill, in its order of severity. *)
AutoKill(s) ==
  CASE s.drawdown >= max_drawdown -> "manual"
    [] s.drawdown < max_drawdown /\ s.week_pnl <= -max_weekly_loss -> "manual"
    [] s.drawdown < max_drawdown /\ s.week_pnl > -max_weekly_loss
         /\ (s.day_pnl <= -max_daily_loss \/ s.losses_today >= max_losses_per_day) -> "daily"
    [] OTHER -> "clear"

-----------------------------------------------------------------------------
(* _tick *)

Bar(c) == c \div 2
InBetween == tick.pc = "engaging" \/ roll # "idle"

(* Cron fires once a bar.  A bar that is not new, or not there, ends the tick *)
(* here; else get_account: the equity with the mark of what is open.          *)
GetAccount ==
  /\ tick.pc = "idle"
  /\ clock % 2 = 0
  /\ fired < Bar(clock)
  /\ fired' = Bar(clock)
  /\ \E mark \in IF HeldTrades = {} THEN {0} ELSE Outcomes \cup {0} :
       tick' = [IdleTick EXCEPT !.pc = "positions", !.equity = Pnl(Sold) + mark]
  /\ UNCHANGED <<clock, trades, ks, equity_high, rolled, roll, commands, braked>>

ListPositions ==
  /\ tick.pc = "positions"
  /\ tick' = [tick EXCEPT !.pc = "rows", !.flat = HeldTrades = {}]
  /\ UNCHANGED <<clock, trades, ks, equity_high, fired, rolled, roll, commands, braked>>

ReadRows ==
  LET high == Highest(equity_high, tick.equity)
      state == AccountState(clock, tick.equity, high)
  IN /\ tick.pc = "rows"
     /\ equity_high' = high
     /\ tick' = [tick EXCEPT !.pc = "switch", !.kill = AutoKill(state),
                             !.free = Gates(state, tick.flat)]
     /\ UNCHANGED <<clock, trades, ks, fired, rolled, roll, commands, braked>>

(* load_kill_switch: an engaged switch is not engaged again, and lets nothing *)
(* pass; neither does one that is about to be engaged.                        *)
ReadSwitch ==
  LET engage == tick.kill # "clear" /\ ks = "clear"
  IN /\ tick.pc = "switch"
     /\ tick' = [tick EXCEPT !.pc = IF engage THEN "engage" ELSE "evaluate",
                             !.free = tick.free /\ ks = "clear" /\ ~engage]
     /\ UNCHANGED <<clock, trades, ks, equity_high, fired, rolled, roll, commands, braked>>

(* engage(): read, and write unless a manual switch is engaged already.       *)
EngageAnyway ==
  /\ tick.pc = "engage"
  /\ tick' = [tick EXCEPT !.pc = "engaging"]
  /\ UNCHANGED <<clock, trades, ks, equity_high, fired, rolled, roll, commands, braked>>

EngageReads ==
  /\ tick.pc = "engage"
  /\ tick' = [tick EXCEPT !.pc = IF ks = "manual" THEN "evaluate" ELSE "engaging"]
  /\ UNCHANGED <<clock, trades, ks, equity_high, fired, rolled, roll, commands, braked>>

EngageWrites ==
  /\ tick.pc = "engaging"
  /\ ks' = tick.kill
  /\ braked' = Day(clock)
  /\ tick' = [tick EXCEPT !.pc = "evaluate"]
  /\ UNCHANGED <<clock, trades, equity_high, fired, rolled, roll, commands>>

(* The bar is marked processed; a proposal that evaluate() approves is opened. *)
Evaluate ==
  /\ tick.pc = "evaluate"
  /\ \/ tick' = IdleTick
     \/ tick.free /\ tick' = [tick EXCEPT !.pc = "open"]
  /\ UNCHANGED <<clock, trades, ks, equity_high, fired, rolled, roll, commands, braked>>

Open ==
  /\ tick.pc = "open"
  /\ Entered # Trades
  /\ LET n == Cardinality(Entered) + 1
     IN trades' = [trades EXCEPT ![n].row = "open", ![n].opened_at = clock]
  /\ tick' = IdleTick
  /\ UNCHANGED <<clock, ks, equity_high, fired, rolled, roll, commands, braked>>

(* An exception or a crash ends the job. *)
TickDies ==
  /\ tick.pc # "idle"
  /\ tick' = IdleTick
  /\ UNCHANGED <<clock, trades, ks, equity_high, fired, rolled, roll, commands, braked>>

-----------------------------------------------------------------------------
(* _rollover: clear_if_daily reads the switch, and clear() reads it again and *)
(* writes.                                                                    *)

AutoClearable(level) == level = "daily"
AnyTime(c, day) == Day(c) > day
RolloverDue(c, day) == Day(c) > day /\ c % (2 * DayBars) <= misfire_grace_time

(* It is due 15 seconds before the day's first tick, but may be started late,   *)
(* and then clears a switch that tick has engaged: of the day it opens.       *)
Rollover ==
  /\ roll = "idle"
  /\ RolloverDue(clock, rolled)
  /\ rolled' = Day(clock)
  /\ roll' = IF AutoClearable(ks) THEN "clear" ELSE "idle"
  /\ UNCHANGED <<clock, trades, ks, equity_high, fired, tick, commands, braked>>

ClearReads ==
  /\ roll = "clear"
  /\ roll' = IF ks = "manual" THEN "idle" ELSE "clearing"
  /\ UNCHANGED <<clock, trades, ks, equity_high, fired, rolled, tick, commands, braked>>

ClearWrites ==
  /\ roll = "clearing"
  /\ ks' = "clear"
  /\ roll' = "idle"
  /\ UNCHANGED <<clock, trades, equity_high, fired, rolled, tick, commands, braked>>

RolloverDies ==
  /\ roll # "idle"
  /\ roll' = "idle"
  /\ UNCHANGED <<clock, trades, ks, equity_high, fired, rolled, tick, commands, braked>>

-----------------------------------------------------------------------------
(* `cli kill-switch`: a person engages the switch, or clears it by force.     *)

Command(level) ==
  /\ commands < MaxCommands
  /\ CommandsInterleave \/ ~InBetween
  /\ commands' = commands + 1
  /\ ks' = level
  /\ UNCHANGED <<clock, trades, equity_high, fired, rolled, tick, roll>>

CliEngage ==
  /\ Command("manual")
  /\ UNCHANGED braked

CliClear ==
  /\ Command("clear")
  /\ braked' = NoDay

-----------------------------------------------------------------------------
(* The market, the monitor and the clock. *)

(* A stop, at a loss, or an exit of the monitor sells at the broker. *)
Sell(n) ==
  /\ n \in HeldTrades
  /\ \E by \in {"sl", "other"}, pnl \in Outcomes :
       /\ by = "sl" => pnl < 0
       /\ trades' = [trades EXCEPT ![n].sold = by, ![n].sold_at = clock, ![n].pnl = pnl]
  /\ UNCHANGED <<clock, ks, equity_high, fired, rolled, tick, roll, commands, braked>>

(* The monitor's cycle records it: closed_at is the time of the fill. *)
Record(n) ==
  /\ n \in Unrecorded
  /\ trades' = [trades EXCEPT ![n].row = "closed"]
  /\ UNCHANGED <<clock, ks, equity_high, fired, rolled, tick, roll, commands, braked>>

(* Jobs last seconds, and the monitor runs every minute: only a sale of the   *)
(* half bar that ends may still be unrecorded.  A tick or a rollover may be   *)
(* missed.                                                                    *)
Pass ==
  /\ clock < Horizon
  /\ tick.pc = "idle" /\ roll = "idle"
  /\ \A n \in Unrecorded : trades[n].sold_at = clock
  /\ clock' = clock + 1
  /\ UNCHANGED <<trades, ks, equity_high, fired, rolled, tick, roll, commands, braked>>

TickStep == GetAccount \/ ListPositions \/ ReadRows \/ ReadSwitch \/ EngageReads
              \/ EngageWrites \/ Evaluate \/ Open \/ TickDies
RolloverStep == Rollover \/ ClearReads \/ ClearWrites \/ RolloverDies

Next ==
  \/ TickStep
  \/ RolloverStep
  \/ CliEngage
  \/ CliClear
  \/ \E n \in Trades : Sell(n) \/ Record(n)
  \/ Pass

Spec == Init /\ [][Next]_vars

-----------------------------------------------------------------------------
(* Properties. *)

TypeOK ==
  /\ clock \in Clock
  /\ trades \in [Trades -> Trade]
  /\ ks \in Levels
  /\ equity_high \in Nat
  /\ fired \in -1..Horizon
  /\ rolled \in Clock
  /\ tick \in Tick
  /\ roll \in {"idle", "clear", "clearing"}
  /\ commands \in 0..MaxCommands
  /\ braked \in Clock \cup {NoDay}

(* What an entry is sure to take into account: every sale but that of the      *)
(* trade right before it, which the rows may not show for half a bar; a win   *)
(* never makes a limit bite.                                                  *)
Enters == Entered' # Entered
Known == {n \in Sold : n # Max(Entered) \/ trades[n].sold_at < clock - 1 \/ trades[n].pnl > 0}
KnownToday == {n \in Known : Day(trades[n].sold_at) = Day(clock)}

(* "A losing day ends the day" (pinned/risk_limits.py:19): no entry once the   *)
(* sales known to it use up the day's losing trades or the day's loss.        *)
DayEnds ==
  [][Enters => /\ Cardinality({n \in KnownToday : Loss(n)}) < max_losses_per_day
               /\ Pnl(KnownToday) > -max_daily_loss]_vars

(* Nor once they use up the week's loss, not even if a person clears the       *)
(* switch meanwhile.                                                          *)
WeekEnds ==
  [][Enters => Pnl({n \in Known : Week(trades[n].sold_at) = Week(clock)}) > -max_weekly_loss]_vars

(* Nor with the account max_drawdown below its recorded high, not even after  *)
(* a person cleared the switch, unless the last trade was sold so late that   *)
(* the equity was read with it still open.                                    *)
DrawdownStops ==
  [][Enters /\ (\A n \in Sold : trades[n].sold_at < clock)
       => equity_high - Pnl(Sold) < max_drawdown]_vars

(* "The hard brakes need a human" (pinned/risk_limits.py:32): nothing but a CLI *)
(* command takes a manual switch back, in no interleaving of tick and rollover.*)
HardBrakeHolds == [][ks = "manual" /\ ks' # "manual" => commands' # commands]_vars

(* "A bad day should end the day" (kill_switch.py:10): once a tick has engaged  *)
(* the switch, nothing is entered for the rest of that UTC day, unless a      *)
(* person clears it.  The switch itself may go: a rollover that starts late   *)
(* takes what the day's first tick engaged for yesterday's and clears it; but *)
(* by then nothing is open that could make the loss up, and the next tick     *)
(* engages it again.                                                          *)
DailyBrakeLasts == [][Enters => braked # Day(clock)]_vars

(* "No revenge" (pinned/risk_limits.py:22): no entry until                     *)
(* cooldown_after_stop_out_bars have passed since a stop-out.                 *)
NoRevenge ==
  \A n \in Entered, m \in Sold :
    m < n /\ trades[m].sold = "sl" =>
      bars_between(trades[m].sold_at, trades[n].opened_at) >= cooldown_after_stop_out_bars

=============================================================================
