SPECIFICATION Spec
CONSTANTS
  Slots = 13
  Gaps = 1
  DayBars = 3
  WeekDays = 3
  weekend_start_weekday = 1
  weekend_start_hour_utc = 2
  weekend_end_weekday = 2
  weekend_end_hour_utc = 1
  max_position_hold_bars = 3
  required_bars = 1
  time_stop_bars = 2
  train_days = 2
  test_days = 1
  folds = 3
  Outcomes <- WinOrLose
  max_daily_loss = 2
  max_weekly_loss = 4
  max_drawdown = 5
  max_trades_per_day = 2
  max_losses_per_day = 2
  cooldown_after_consecutive_losses = 2
  cooldown_after_consecutive_losses_bars = 3
  cooldown_after_stop_out_bars = 2
  min_bars_between_entries = 1
  reentry_after_loss_same_direction_bars = 1
INVARIANTS
  TypeOK
  StateIsDerived
  NoRevenge
  HoldIsCapped
  FoldsAreApart
  MetricsAddUp
PROPERTIES
  EnterLikeLive
\* A run ends.
CHECK_DEADLOCK FALSE
