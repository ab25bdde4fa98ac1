----------------------------- MODULE MCBacktest -----------------------------
(* What a trade may be worth, for model-checking Backtest.                     *)
EXTENDS Backtest

WinOrLose == {-2, 1}

=============================================================================
