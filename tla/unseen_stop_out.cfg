SPECIFICATION Spec
CONSTANTS
  MaxTrades = 2
  Horizon = 8
  MaxCommands = 0
  DayBars = 4
  WeekDays = 1
  Outcomes <- WinOrLose
  CommandsInterleave = FALSE
  misfire_grace_time = 1
  max_daily_loss = 5
  max_weekly_loss = 5
  max_drawdown = 5
  max_trades_per_day = 4
  max_losses_per_day = 3
  cooldown_after_consecutive_losses = 3
  cooldown_after_consecutive_losses_bars = 2
  cooldown_after_stop_out_bars = 2
  min_bars_between_entries = 1
  reentry_after_loss_same_direction_bars = 2
INVARIANTS
  NoRevenge
\* Time ends at the horizon.
CHECK_DEADLOCK FALSE
