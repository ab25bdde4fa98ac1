SPECIFICATION Spec
CONSTANTS
  MaxTrades = 3
  Horizon = 10
  MaxCommands = 1
  DayBars = 3
  WeekDays = 2
  Outcomes <- WinOrLose
  CommandsInterleave = FALSE
  misfire_grace_time = 1
  max_daily_loss = 1
  max_weekly_loss = 2
  max_drawdown = 3
  max_trades_per_day = 4
  max_losses_per_day = 2
  cooldown_after_consecutive_losses = 2
  cooldown_after_consecutive_losses_bars = 1
  cooldown_after_stop_out_bars = 2
  min_bars_between_entries = 2
  reentry_after_loss_same_direction_bars = 2
INVARIANTS
  TypeOK
PROPERTIES
  DayEnds
  WeekEnds
  DrawdownStops
  HardBrakeHolds
  DailyBrakeLasts
\* Time ends at the horizon.
CHECK_DEADLOCK FALSE
