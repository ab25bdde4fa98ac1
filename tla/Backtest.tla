------------------------------ MODULE Backtest ------------------------------
(***************************************************************************)
(* The backtester: run() of app/evolution/backtester.py on the windows that *)
(* make_folds of app/evolution/walk_forward.py cuts, with the in-memory     *)
(* account of app/risk/account_state.py and the gates of RiskEngine.        *)
(*                                                                         *)
(* A bar is named by its slot on the calendar, the time it opens; the frame *)
(* may lack some.  Prices, indicators and the signal appear as the branch   *)
(* they select, a closed trade as one of Outcomes after costs.              *)
(***************************************************************************)
EXTENDS RiskEngine, FiniteSets, Sequences, SequencesExt, FiniteSetsExt

CONSTANTS
  Slots,                \* bound: the calendar is 0..Slots-1
  Gaps,                 \* bound: slots the frame lacks
  DayBars, WeekDays,    \* bars in a UTC day, days in an ISO week
  \* pinned/risk_limits.py; an hour is a bar
  weekend_start_weekday, weekend_start_hour_utc,
  weekend_end_weekday, weekend_end_hour_utc,
  max_position_hold_bars,
  required_bars,        \* bars before the indicators exist
  time_stop_bars,       \* of the configuration
  train_days, test_days, folds,
  Outcomes

ASSUME BacktestAssumption ==
  /\ Slots \in Nat \ {0} /\ Gaps \in 0..(Slots - 1)
  /\ DayBars \in Nat \ {0} /\ WeekDays \in Nat \ {0}
  /\ required_bars \in Nat /\ folds \in Nat
  /\ train_days \in Nat \ {0} /\ test_days \in Nat \ {0}
  /\ Outcomes \subseteq Int /\ 0 \notin Outcomes
  /\ max_position_hold_bars \in Nat /\ time_stop_bars \in Nat
  /\ {max_daily_loss, max_weekly_loss, max_drawdown, max_trades_per_day, max_losses_per_day}
       \subseteq Nat \ {0}
  /\ min_bars_between_entries \in Nat
  /\ {cooldown_after_consecutive_losses, cooldown_after_consecutive_losses_bars,
      cooldown_after_stop_out_bars, reentry_after_loss_same_direction_bars} \subseteq Nat
  /\ {weekend_start_weekday, weekend_end_weekday} \subseteq 0..(WeekDays - 1)
  /\ weekend_start_weekday < weekend_end_weekday
  /\ {weekend_start_hour_utc, weekend_end_hour_utc} \subseteq 0..(DayBars - 1)

Calendar == 0..(Slots - 1)
Day(ts) == ts \div DayBars
Week(ts) == Day(ts) \div WeekDays

WeekendWithin(day, hour) ==
  day >= weekend_start_weekday /\ day <= weekend_end_weekday /\ hour >= weekend_start_hour_utc
WeekendWindow(day, hour) ==
  \/ day = weekend_start_weekday /\ hour >= weekend_start_hour_utc
  \/ day = weekend_end_weekday /\ day # weekend_start_weekday /\ hour < weekend_end_hour_utc
  \/ day > weekend_start_weekday /\ day < weekend_end_weekday
is_weekend(ts) == WeekendWindow(Day(ts) % WeekDays, ts % DayBars)

ExitReasons == {"sl", "tp", "time_stop", "cap", "reconciled"}
Trade == [opened_at : Nat, closed_at : Calendar, pnl : Outcomes,
          sold : ExitReasons, bars_held : Nat]
Never == Slots   \* bars since what has not happened

VARIABLES
  idx,         \* the timestamps of the frame
  window,      \* the interval to evaluate, both ends included
  i,           \* the bar of the loop
  phase,       \* "manage", "enter", "end" or "done"
  state,       \* the AccountState
  position,    \* the open position
  last_entry,  \* last_entry_index
  last_exit,   \* last_exit_index
  trades,
  curve,       \* equity_curve
  weeks,       \* period_pnl
  metrics

vars == <<idx, window, i, phase, state, position, last_entry, last_exit, trades, curve, weeks,
          metrics>>

-----------------------------------------------------------------------------
(* make_folds, and the windows run() is given.                                *)

FoldFrom(cursor) ==
  [train |-> <<cursor, cursor + train_days * DayBars>>,
   test |-> <<cursor + train_days * DayBars,
              cursor + (train_days + test_days) * DayBars>>]
HalfStep == (test_days * DayBars) \div 2
Step == test_days * DayBars
make_folds(from, to) ==
  LET fold(k) == FoldFrom(from + (k - 1) * Step)
  IN [k \in {n \in 1..folds : \A m \in 1..n : fold(m).test[2] <= to} |-> fold(k)]

FoldsOf(s) == make_folds(s[1], s[Len(s)])
Windows(s) == {<<s[1], s[Len(s)]>>} \cup UNION {{f.train, f.test} : f \in ToSet(FoldsOf(s))}

InWindow(s, w) == {k \in DOMAIN s : w[1] <= s[k] /\ s[k] <= w[2]}
FirstEval(s, w) == Max({Min(InWindow(s, w)), required_bars + 1})
LastEval(s, w) == Max(InWindow(s, w))
first_eval == FirstEval(idx, window)
last_eval == LastEval(idx, window)

-----------------------------------------------------------------------------
(* account_state.py *)

NoExit == [sold |-> "none", pnl |-> 0]
empty_state ==
  [equity |-> 0, equity_high |-> 0, day_pnl |-> 0, week_pnl |-> 0, drawdown |-> 0,
   trades_today |-> 0, losses_today |-> 0, streak |-> 0, last_exit |-> NoExit,
   since_exit |-> Never, since_entry |-> Never, open_positions |-> 0, is_weekend |-> FALSE]

CloseOnly(s, pnl, sold) ==
  [s EXCEPT !.equity = @ + pnl, !.open_positions = 0, !.last_exit = [sold |-> sold, pnl |-> pnl]]
update_after_close(s, pnl, sold) ==
  LET loss == pnl < 0
      equity == s.equity + pnl
      high == Max({s.equity_high, equity})
  IN [s EXCEPT !.equity = equity, !.equity_high = high, !.drawdown = high - equity,
               !.day_pnl = @ + pnl, !.week_pnl = @ + pnl, !.open_positions = 0,
               !.losses_today = IF loss THEN @ + 1 ELSE @,
               !.streak = IF loss THEN @ + 1 ELSE 0,
               !.since_exit = 0, !.last_exit = [sold |-> sold, pnl |-> pnl]]

RollPnlOnly(s) == [s EXCEPT !.day_pnl = 0]
roll_day(s) == [s EXCEPT !.day_pnl = 0, !.trades_today = 0, !.losses_today = 0]
roll_week(s) == [s EXCEPT !.week_pnl = 0]

Rolled(s, was, ts) ==
  LET d == IF Day(ts) # Day(was) THEN roll_day(s) ELSE s
  IN IF Week(ts) # Week(was) THEN roll_week(d) ELSE d

-----------------------------------------------------------------------------
(* compute_metrics *)

DrawdownFromStart(c) == Max({0} \cup {c[1] - c[k] : k \in DOMAIN c})
_max_drawdown(c) ==
  LET peak[k \in DOMAIN c] == IF k = 1 THEN c[1] ELSE Max({peak[k - 1], c[k]})
  IN Max({0} \cup {peak[k] - c[k] : k \in DOMAIN c})

EmptyMetrics == [net |-> 0, trade_count |-> 0, max_drawdown |-> 0, wins |-> 0,
                 up_weeks |-> 0, weeks |-> 0]
compute_metrics(ts, equity, c, w) ==
  IF ts = <<>> THEN EmptyMetrics
  ELSE LET traded == {k \in DOMAIN w : w[k].traded}
       IN [net |-> equity, trade_count |-> Len(ts), max_drawdown |-> _max_drawdown(c),
           wins |-> Cardinality({k \in DOMAIN ts : ts[k].pnl > 0}),
           up_weeks |-> Cardinality({k \in traded : w[k].pnl > 0}),
           weeks |-> Cardinality(traded)]

-----------------------------------------------------------------------------
(* run() *)

NoPosition == [opened_at |-> 0, opened_index |-> 0]

(* read_bars sorts by time: the k-th timestamp has k - 1 before it.             *)
Rank(S, ts) == Cardinality({u \in S : u <= ts})
Sorted(S) == [k \in 1..Cardinality(S) |-> CHOOSE ts \in S : Rank(S, ts) = k]

Init ==
  /\ \E missing \in UNION {kSubset(g, Calendar) : g \in 0..Gaps} :
       idx = Sorted(Calendar \ missing)
  /\ window \in Windows(idx)
  /\ i = IF InWindow(idx, window) = {} THEN 0 ELSE first_eval
  /\ phase = IF i # 0 /\ i <= last_eval THEN "manage" ELSE "done"
  /\ state = empty_state
  /\ position = NoPosition
  /\ last_entry = 0
  /\ last_exit = 0
  /\ trades = <<>>
  /\ curve = <<0>>
  /\ weeks = [w \in {Week(ts) : ts \in Calendar} |-> [pnl |-> 0, traded |-> FALSE]]
  /\ metrics = EmptyMetrics

(* The stop before the target, then the time stop, then the hard cap.          *)
NoHardCap(held) == FALSE
HardCap(held) == held >= max_position_hold_bars
MayExit(held) ==
  {"sl", "tp"} \cup (IF held >= time_stop_bars THEN {"time_stop"} ELSE {})
               \cup (IF HardCap(held) THEN {"cap"} ELSE {"none"})

(* A stop loses; a target is further away than the costs of reaching it.       *)
PnlOf(sold) == CASE sold = "sl" -> {p \in Outcomes : p < 0}
                 [] sold = "tp" -> {p \in Outcomes : p > 0}
                 [] OTHER -> Outcomes

Holding == position # NoPosition

(* The trade, the account, the curve and the week after a close at bar k.      *)
ClosedAt(k, s, sold, pnl) ==
  LET held == k - position.opened_index
      after == update_after_close(s, pnl, sold)
  IN /\ trades' = Append(trades, [opened_at |-> position.opened_at, closed_at |-> idx[k],
                                  pnl |-> pnl, sold |-> sold,
                                  bars_held |-> Max({1, held})])
     /\ state' = after
     /\ curve' = Append(curve, after.equity)
     /\ weeks' = [weeks EXCEPT ![Week(idx[k])] = [pnl |-> @.pnl + pnl, traded |-> TRUE]]
     /\ position' = NoPosition

(* Rollovers, and the position that is open.                                   *)
Manage ==
  LET s == Rolled(state, idx[IF i = first_eval THEN i ELSE i - 1], idx[i])
      held == i - position.opened_index
      Keep == /\ state' = s
              /\ UNCHANGED <<position, last_exit, trades, curve, weeks>>
  IN /\ phase = "manage"
     /\ \/ ~Holding /\ Keep
        \/ Holding /\ "none" \in MayExit(held) /\ Keep
        \/ /\ Holding
           /\ \E sold \in MayExit(held) \ {"none"} : \E pnl \in PnlOf(sold) :
                ClosedAt(i, s, sold, pnl)
           /\ last_exit' = i
     /\ phase' = "enter"
     /\ UNCHANGED <<idx, window, i, last_entry, metrics>>

(* The discipline counters: in bars, not in time.                              *)
TimeSince(last) == IF last = 0 THEN Never ELSE idx[i] - idx[last]
BarsSince(last) == IF last = 0 THEN Never ELSE i - last
Aged == [state EXCEPT !.is_weekend = is_weekend(idx[i]),
                      !.since_exit = BarsSince(last_exit),
                      !.since_entry = BarsSince(last_entry)]

Approved(s) == ~s.is_weekend /\ Gates(s, s.open_positions = 0)

AlwaysFillable(k) == TRUE
Fillable(k) == k + 1 <= last_eval

NextBar ==
  /\ i' = i + 1
  /\ phase' = IF i = last_eval THEN "end" ELSE "manage"

(* No signal, a refusal, a size of zero, or the last bar of the window.        *)
StayOut ==
  /\ phase = "enter"
  /\ state' = Aged
  /\ NextBar
  /\ UNCHANGED <<idx, window, position, last_entry, last_exit, trades, curve, weeks, metrics>>

(* The signal is bar i's close, the fill the open of bar i + 1.                *)
Enter ==
  /\ phase = "enter"
  /\ ~Holding
  /\ Approved(Aged)
  /\ Fillable(i)
  /\ position' = [opened_at |-> idx[i] + 1, opened_index |-> i + 1]
  /\ last_entry' = i + 1
  /\ state' = [Aged EXCEPT !.open_positions = 1, !.trades_today = @ + 1, !.since_entry = 0]
  /\ NextBar
  /\ UNCHANGED <<idx, window, last_exit, trades, curve, weeks, metrics>>

(* What is still open is closed at the last bar's close; then the metrics.      *)
Finish ==
  /\ phase = "end"
  /\ \/ ~Holding /\ UNCHANGED <<trades, state, curve, weeks, position>>
     \/ Holding /\ \E pnl \in PnlOf("reconciled") :
          ClosedAt(last_eval, state, "reconciled", pnl)
  /\ metrics' = compute_metrics(trades', state'.equity, curve', weeks')
  /\ phase' = "done"
  /\ UNCHANGED <<idx, window, i, last_entry, last_exit>>

Next == Manage \/ StayOut \/ Enter \/ Finish

Spec == Init /\ [][Next]_vars

-----------------------------------------------------------------------------
(* What build_from_db would derive at `now` from the same trades.              *)

Pnl(S) == MapThenSumSet(LAMBDA k : trades[k].pnl, S)
ClosedTrades == DOMAIN trades
LossesIn(S) == Cardinality({k \in S : trades[k].pnl < 0})
Entries == {trades[k].opened_at : k \in ClosedTrades}
             \cup (IF Holding THEN {position.opened_at} ELSE {})
EquityAfter(k) == Pnl(1..k)

Derived(now) ==
  LET today == {k \in ClosedTrades : Day(trades[k].closed_at) = Day(now)}
      n == Len(trades)
      high == Max({EquityAfter(k) : k \in 0..n})
  IN [equity |-> EquityAfter(n), equity_high |-> high, drawdown |-> high - EquityAfter(n),
      day_pnl |-> Pnl(today),
      week_pnl |-> Pnl({k \in ClosedTrades : Week(trades[k].closed_at) = Week(now)}),
      trades_today |-> Cardinality({ts \in Entries : Day(ts) = Day(now)}),
      losses_today |-> LossesIn(today),
      streak |-> Cardinality({k \in ClosedTrades : LossesIn(k..n) = n - k + 1}),
      last_exit |-> IF n = 0 THEN NoExit ELSE [sold |-> trades[n].sold, pnl |-> trades[n].pnl],
      since_exit |-> IF n = 0 THEN Never ELSE now - trades[n].closed_at,
      since_entry |-> IF Entries = {} THEN Never ELSE now - Max(Entries),
      open_positions |-> IF Holding THEN 1 ELSE 0,
      is_weekend |-> is_weekend(now)]

(* The kill switch then: a tick looked at every bar that had closed, and saw the *)
(* trades closed before it.  check_auto_kill engages a switch that lasts, or  *)
(* one that the rollover clears at midnight; no person has cleared one.       *)
Ticks(now) == {ts + 1 : ts \in ToSet(idx)} \cap 0..now
SeenAt(tick) == {k \in ClosedTrades : trades[k].closed_at < tick}
DeepDrawdown(tick) ==
  LET n == Cardinality(SeenAt(tick))
  IN Max({EquityAfter(k) : k \in 0..n}) - EquityAfter(n) >= max_drawdown
BadWeek(tick) ==
  Pnl({k \in SeenAt(tick) : Week(trades[k].closed_at) = Week(tick)}) <= -max_weekly_loss
BadDay(tick) ==
  LET lost == {k \in SeenAt(tick) : Day(trades[k].closed_at) = Day(tick)}
  IN Pnl(lost) <= -max_daily_loss \/ LossesIn(lost) >= max_losses_per_day
is_kill_switch(now) ==
  \E tick \in Ticks(now) :
    DeepDrawdown(tick) \/ BadWeek(tick) \/ (BadDay(tick) /\ Day(tick) = Day(now))
BadWeekBefore(now) == \E tick \in Ticks(now) : BadWeek(tick) /\ Week(tick) < Week(now)

(* An entry decided on the last bar of a day is filled on the next day, whose   *)
(* rollover forgets it.                                                       *)
Forgotten(day) == {ts \in Entries : Day(ts) = day /\ Day(ts - 1) # day}

-----------------------------------------------------------------------------
(* Properties. *)

TypeOK ==
  /\ phase \in {"manage", "enter", "end", "done"}
  /\ phase \in {"manage", "enter"} => i \in first_eval..last_eval
  /\ trades \in Seq(Trade)
  /\ Holding => position.opened_index \in (first_eval + 1)..last_eval
  /\ state.open_positions \in 0..1
  /\ metrics.trade_count \in Nat

(* "The live loop re-derives from the database instead": the account the loop  *)
(* carries along is the one build_from_db would derive from the trades so far,*)
(* over every rollover, streak and high; only the trade a day's rollover      *)
(* forgets is missing.                                                        *)
StateIsDerived ==
  phase = "enter" =>
    LET d == Derived(idx[i])
    IN /\ \A f \in {"equity", "equity_high", "drawdown", "day_pnl", "week_pnl", "losses_today",
                     "streak", "last_exit", "open_positions"} : state[f] = d[f]
       /\ state.trades_today = d.trades_today - Cardinality(Forgotten(Day(idx[i])))

(* "The discipline gates that block a live trade also block it here": whenever  *)
(* the backtest enters, the live tick, which looks when the bar has closed,   *)
(* is let through by the same gates on the same trades, with three exceptions. *)
(* The weekend may begin as the bar closes; the day may have a trade its      *)
(* rollover forgot; and a week that was lost has engaged a switch that lasts  *)
(* until a person clears it, where the backtest begins the next week afresh.  *)
(* What the drawdown, the day or this week has engaged never disagrees.       *)
EnterLikeLive ==
  [][~Holding /\ Holding' =>
       LET now == idx[i] + 1
       IN /\ is_weekend(now) \/ Forgotten(Day(now)) # {} \/ Approved(Derived(now))
          /\ is_kill_switch(now) => BadWeekBefore(now)]_vars

(* "No revenge", in what run() returns: after a loss, and longer after a stop or *)
(* a streak, the next trade waits its number of bars, not of periods a gap in *)
(* the data would let pass, and for the one before it to be closed.  No trade *)
(* is decided on at a weekend: the bar whose close decides opens outside of   *)
(* it.  The fill comes a bar later, and may be at the weekend's first bar.    *)
BarsFrom(from, to) == Cardinality({ts \in ToSet(idx) : from <= ts /\ ts < to})
Streak(k) == LossesIn(k..k) = 1 /\ \A m \in (k - cooldown_after_consecutive_losses + 1)..k :
                                    m \in ClosedTrades /\ LossesIn({m}) = 1
InWeekend(ts) ==
  LET slot == ts % (WeekDays * DayBars)
  IN /\ weekend_start_weekday * DayBars + weekend_start_hour_utc <= slot
     /\ slot < weekend_end_weekday * DayBars + weekend_end_hour_utc
NoRevenge ==
  /\ \A t \in ToSet(trades) : ~InWeekend(t.opened_at - 1)
  /\ \A k \in ClosedTrades \ {1} :
      LET t == trades[k]
          last == trades[k - 1]
          waited == BarsFrom(last.closed_at, t.opened_at - 1)
      IN /\ last.closed_at < t.opened_at
         /\ last.pnl < 0 => waited >= reentry_after_loss_same_direction_bars
         /\ last.sold = "sl" => waited >= cooldown_after_stop_out_bars
         /\ Streak(k - 1) => waited >= cooldown_after_consecutive_losses_bars

(* "24h hard cap": nothing is held for longer than max_position_hold_bars after  *)
(* the bar it was filled in, a gap in the data or not, whatever the time stop *)
(* and the bars' highs and lows have let pass.  (The live monitor counts from *)
(* the fill itself and sells one bar sooner.)                                 *)
HoldIsCapped ==
  \A t \in ToSet(trades) :
    BarsFrom(t.opened_at, t.closed_at + 1) <= max_position_hold_bars + 1

(* "Test windows never overlap": they share the bar at their boundary, but no   *)
(* position of one is held in a bar a position of the other can be; a test    *)
(* follows what it was trained on, and what a window decides is done in it.   *)
HeldIn(w) == {ts \in ToSet(idx) : w[1] < ts /\ ts <= w[2]}
FoldsAreApart ==
  LET fs == FoldsOf(idx)
  IN /\ \A k, m \in DOMAIN fs :
          /\ k # m => HeldIn(fs[k].test) \cap HeldIn(fs[m].test) = {}
          /\ HeldIn(fs[k].train) \cap HeldIn(fs[k].test) = {}
     /\ \A t \in ToSet(trades) :
          /\ window[1] < t.opened_at /\ t.opened_at <= t.closed_at /\ t.closed_at <= window[2]

(* The score's ingredients agree with each other and with the trades, the one   *)
(* closed at the end included: the return is the sum of the trades and of the *)
(* weeks, and the drawdown the deepest fall between any two points.           *)
Falls == {p \in (0..Len(trades)) \X (0..Len(trades)) : p[1] <= p[2]}
MetricsAddUp ==
  phase = "done" /\ trades # <<>> =>
    /\ metrics.net = Pnl(ClosedTrades)
    /\ metrics.net = MapThenSumSet(LAMBDA w : weeks[w].pnl, DOMAIN weeks)
    /\ metrics.trade_count = Len(curve) - 1
    /\ metrics.max_drawdown = Max({EquityAfter(p[1]) - EquityAfter(p[2]) : p \in Falls})
    /\ metrics.up_weeks <= metrics.wins
    /\ metrics.weeks <= metrics.trade_count

=============================================================================
