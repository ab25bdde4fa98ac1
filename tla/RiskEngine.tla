----------------------------- MODULE RiskEngine -----------------------------
(***************************************************************************)
(* What evaluate() of app/risk/engine.py asks of the account, with the      *)
(* limits of pinned/risk_limits.py.  The live tick (Brakes) and the         *)
(* backtester (Backtest) call it on states they come by differently.        *)
(* Limits are amounts, not fractions of the day's and week's anchors.       *)
(***************************************************************************)
EXTENDS Integers

CONSTANTS
  max_daily_loss, max_weekly_loss, max_drawdown,
  max_trades_per_day, max_losses_per_day,
  cooldown_after_consecutive_losses, cooldown_after_consecutive_losses_bars,
  cooldown_after_stop_out_bars, min_bars_between_entries,
  reentry_after_loss_same_direction_bars

(* The gates of evaluate() that read the account; those on the proposal and   *)
(* the market's data only let less pass.                                      *)
Gates(s, flat) ==
  /\ s.day_pnl > -max_daily_loss
  /\ s.week_pnl > -max_weekly_loss
  /\ s.drawdown < max_drawdown
  /\ s.trades_today < max_trades_per_day
  /\ s.losses_today < max_losses_per_day
  /\ ~ /\ s.streak >= cooldown_after_consecutive_losses
       /\ s.since_exit < cooldown_after_consecutive_losses_bars
  /\ ~ /\ s.last_exit.sold = "sl"
       /\ s.since_exit < cooldown_after_stop_out_bars
  /\ ~ /\ s.last_exit.pnl < 0
       /\ s.since_exit < reentry_after_loss_same_direction_bars
  /\ s.since_entry >= min_bars_between_entries
  /\ flat

=============================================================================
