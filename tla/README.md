# TradeEvolve in TLA+

Specifications of the TradeEvolve trading agent, written from its source
(`src/app`), with the TLC configurations that check them on small instances and
TLAPS proofs for every instance. `PROJECT.json` lists components, runs, mutants,
the map from definitions to source lines, findings, hazards and theorems.

## The system

One process trades one instrument (PAXG/USD) long-only through Alpaca. APScheduler
fires its jobs from a thread pool, each with `max_instances=1`, all on **one**
autocommit sqlite connection, one broker client, one journal writer and one
`PositionManager` (`app/scheduler/deps.py`). Every job ends in `except Exception:
log`. The CLI is a second process on the same database; systemd restarts the first.

| Component | State | Operations | Talks to |
|---|---|---|---|
| Position lifecycle (`execution/position_manager.py`) | `trades` rows; failsafe strikes in memory | `open`, `monitor`, `_exit_now`, `_replace_stop`, `reconcile_on_boot`, `flatten_all` | broker, trades table, journal |
| Broker (`broker/`) | orders, position, cash at the exchange | submit, get, list, cancel, close_position | called by all jobs |
| Bar-close tick (`jobs/tick_bar_close.py`) | `last_processed_bar_ts` | fetch bars, gates, propose, evaluate, open | engine, kill switch, lifecycle |
| Risk engine, account state, sizing (`risk/`) | derived from rows on every tick | `build_from_db`, `evaluate`, `size_position` | trades table, anchors |
| Kill switch and anchors (`risk/kill_switch.py`, `db/system_state.py`) | switch record, day and week anchors, equity high | engage, clear, clear_if_daily, ensure_anchors | tick, rollover, CLI |
| Journal (`journal/`, `db/journal_store.py`) | append-only hash chain | write, verify_chain | every job; hourly audit |
| Evolution (`evolution/pipeline.py`) | experiments, strategy versions, hypotheses | weekly evolution, shadow evaluation, promotion | LLM, backtester, database |
| Backtester and statistics (`evolution/`) | none | folds, bootstrap, arbitration | pipeline |
| LLM client (`llm/client.py`) | `llm_calls` (budget) | call | reviews, pipeline |
| Bars and calendar (`market/bars.py`) | `candles` | upsert, drop_forming_bar, bars_between | tick, monitor |
| Indicators, strategy, reports, API, config | none of their own | pure or read-only | - |

What is hard: steps of the tick, the monitor, the boot, the CLI and the exchange
in any order, with snapshots of rows used after broker calls; a crash or an
exception between a broker call and the row that records it; retries under a
client order id the broker has already seen; reads that fail and are taken for an
answer; read-modify-write of the kill switch and the journal's head from several
threads; the calendar and the bounds of the day, the week and the folds.

What would make each part correct: **lifecycle** - units held are always watched
and, for more than a moment, protected; a row says CLOSED only when its units are
gone, and for good; one entry at a time. **Brakes** - a losing day or week stops
entries until the rule that clears it, and only a human clears a hard brake.
**Journal** - the audit fails only if an entry was altered. **Evolution** - one
champion, promoted only by an accepted shadow, whatever crashes in between.
**Backtester** - what it lets through, the live loop would let through, and its
account is the one the live loop would derive. **Bars** - one decision per closed
bar, at its close, and a history without holes.

## Modules

| Module | What it is |
|---|---|
| `PositionManager` | the lifecycle of positions against the trades table and the broker |
| `MCPositionManager` | the fault sets its runs use |
| `PositionBook` | the abstract specification: a book of trades against what the broker holds; `PositionManager` implements it |
| `PositionManagerProofs` | `TypeCorrect`, `OnePositionAtATime`, `ClosedStays` and `ProtectedHasStop`: what one step does to a job, a row and an order, and the invariants about rows and stops |
| `PositionBookProofs` | `ClosedIsFlat`, `ImplementsBook`, `StopOutsAreNamed` and `PositionIsManaged`, on top of those |
| `RiskEngine` | the gates of `evaluate` that read the account, shared by `Brakes` and `Backtest` |
| `Brakes` | the loss brakes: account state and kill switch against tick, rollover, CLI and monitor |
| `MCBrakes` | what a trade may be worth in its runs |
| `BrakesProofs` | `BrakesTyped`, `HardBrake`, `DailyBrake`, `LosingDayEnds`, `LosingWeekEnds`, `DeepDrawdownStops`, with their lemmas |
| `Sums` | lemmas about sums over finite sets, for the proofs about `Brakes` and `Backtest` |
| `JournalChain` | the hash chain of the journal: writers, transactions, restarts, the audit |
| `MCJournalChain` | symmetry of the jobs in its runs |
| `JournalChainProofs` | `TypeCorrect`, `OnlyRacesFork`, `AuditIsFair`, `PastStays`, with their lemmas |
| `Evolution` | how a strategy is replaced: evolutions, the shadow's verdict, promotion, `ensure_champion`, on one shared connection |
| `MCEvolution` | symmetry of the changes in its run |
| `EvolutionProofs` | a theorem for each property of that run, with their lemmas |
| `Backtest` | the backtester's loop over the bars, its account, its windows and its metrics |
| `MCBacktest` | what a trade may be worth in its run |
| `BacktestProofs` | `BacktestTyped`, `NoneAvenged`, `HoldCapped`, `FoldsApart`, `AccountDerived`, `EntersLikeLive`, `MetricsAgree`, with their lemmas |
| `Bars` | the data path: forming bars, the decision per bar, the candles table |
| `BarsProofs` | `TypeCorrect`, `ClosedBarsOnly`, `ActedOnOnce`, `NeverLate`, `Repaired`, with their lemmas |

### PositionManager

One step is one broker call or one database write, because between any two of
them another thread, the exchange or a crash may act. `job[t]` is what thread `t`
is doing: its label is the next call of the code, and its fields are the local
variables that outlive a call.

| Threads | Code |
|---|---|
| `tick` | `open()`: `SubmitEntry`, `AwaitEntry`, then place, mark or exit |
| `mon` | `monitor()`: `StartMonitor` takes the snapshot of open rows, then per row `CheckStop`, `CheckPosition`, (`BeginReplace`, `StopPlaced`/`StopRefused`, `MarkProtected`), `Decide` |
| `main` | `reconcile_on_boot()`: `Boot`, `BootPosition`, then adopt, close all, flatten an orphan, or nothing, then `Sweep` |
| `cli` | `flatten_all()` in another process, which a crash of the first does not stop |

`_exit_now` is shared by all four: `BeginExit` (PENDING_EXIT), `CancelStop`,
`ReadExitQty`, `ExitAccepted`/`ExitRefused`, `AwaitExit`, `MarkUnsold` or
`MarkClosed`. So is `_replace_stop`. A database write goes through `WriteRow`,
which aborts on a closed row as the trigger `trades_immutable_once_closed` does:
the exception ends the job (and the process, if it is the boot's). The trigger
guards the recorded numbers; an exit that would write the very same numbers
passes, and a status or `sl_order_id` write to a closed row always changes one of
the guarded columns, since each such write sets an open status.

An order is named by its client tag, because the broker refuses a tag it has
seen. The tag of a stop has an attempt number (`sl`, `sl1`..`sl3`), that of an
exit only its reason. The order of `close_position`, which the boot sends for a
position without a row, has no tag and nobody reads it: it is only how much it is
still to sell (`closing`), until the exchange fills it (`ResolveClose`) or the sweep
cancels it with every other order no row owns. The broker's own rules: an immediate-or-cancel order is
resolved some time after it is accepted; it is filled, or cancelled with none or
a part of it filled; it never sells more than is held; and, as in
`broker/fake.py`, a resting stop reserves no units, so an exit may sell them while
the stop still rests.

**Abstractions.** Prices and bar counts appear only as the branch they take
(`Decide` chooses whether the bid is below the stop, and which of the exits (b),
(c), (d) applies). Journal writes, logging, fees and excursions are left out: no
branch reads them. Units are small naturals. The kill switch is a flag here.
The tick is the gates that matter here: flat at the broker, switch off, and no
second entry before the monitor has had a cycle (bars are 15 minutes apart, the
monitor runs every minute, `cron.py`). A failed `_get_stop_order` or history read
is the `query` fault, and behaves as the code makes it behave: as if there were
nothing to read.

**Bounds.** `MaxTrades` entries, `MaxFaults` faults out of `Faults`. Two trades
are enough for an old row to meet a new position, the case that makes the boot
choose and the snapshot go stale. Each passing run allows one fault of seven kinds, at
any step; the theorems allow any number. Partial and late fills and failed reads
(`partial`, `slow`, `query`) are in no passing run, because they break what these
check (see the table below); the theorems that hold under them say so.

**Fairness.** A thread that has begun goes on (`WF` on each thread's steps): no
call of the code waits for another thread, HTTP calls have timeouts, and the
polling is bounded. APScheduler fires the monitor every minute; systemd restarts
the process; the exchange resolves an immediate-or-cancel order. Nothing is
assumed of entries, stops triggering, the operator, or faults.

### What the runs show

| Run | Threads | Faults | Checked | Result |
|---|---|---|---|---|
| `position_overlap` | all four overlap; 2 trades of 1 unit | one of crash, exception (also between an entry and its row), refused stop, failed close or cancel, unfilled order | `TypeOK`, `NeverAdds`, `ClosedMeansFlat`, `ProtectedMeansStop`, `StopOutIsNamed`, `ClosedForever`, `RefinesBook` | holds, 1.5 million states |
| `position_recovery` | jobs take turns; 2 trades of 2 units; fair | one of seven broker and operator faults | `ManagedPosition`, `NakedIsHandled`, `GoneIsRecorded` | holds, 21 thousand states |
| `swept_orphan` | jobs take turns; 1 trade | one crash | `ManagedPosition` | violated |
| `naked_forever` | jobs take turns; fair | kill switch, unfilled | `NakedIsHandled` | violated |
| `failed_read` | jobs take turns | a failed read | `ClosedMeansFlat` | violated |

The properties are those of the design note at the top of the source file: units
held are watched (`ManagedPosition`), a row is closed only when its units are gone
(`ClosedMeansFlat`) and never changes again (`ClosedForever`), `OPEN_PROTECTED` is
never a stale label (`ProtectedMeansStop`), a stop-out is recorded as one whoever
finds it (`StopOutIsNamed`), one position at a time (`NeverAdds`), no position
stays without a stop (`NakedIsHandled`), no row stays open without units
(`GoneIsRecorded`).

`RefinesBook` says all of it at once: with the units an entry has filled for
`bought`, those still held for `held`, and a row's being open or closed for `row`,
every step of the lifecycle, whichever thread takes it, is a purchase while flat,
a record, a sale, a close of a row whose units are gone, or nothing
(`PositionBook`). It also excludes what the single invariants do not: a row
without a fill, or one call that changes two of these at once. An entry that
fills in part, late or unread is not in the book's vocabulary, so this is
checked under the faults of `position_overlap` only.

Each property is checked under the faults it survives. With jobs that take turns
and a budget of two, single kinds of fault break them as follows, which is what
the three violation runs are drawn from:

| Property | Broken by |
|---|---|
| `NeverAdds` | `slow` only: an entry that fills after its polling ended, while a later tick enters again |
| `ProtectedMeansStop` | `slow` only |
| `ClosedMeansFlat` | `partial` (any fill closes the row), `slow`, `query` (a failed read is taken for flat) |
| `ManagedPosition` | `partial`, `slow`, `query`; a crash or an exception between the entry and its row, since the boot's sweep cancels the close of the orphan |
| `StopOutIsNamed` | `query` (a history that cannot be read leaves `RECONCILED`) |
| `ClosedLeavesNoStop` | any exit that is refused or unfilled and later closed by another path, a failed cancel, a lost stop, a crash, a failed read; with overlapping jobs even no fault at all |
| `NakedIsHandled` | kill switch or a refused exit together with an unfilled one (the retry reuses its tag); an exception between entry and row; a partial fill |
| `GoneIsRecorded` | a crash, an exception or a failed read while units of an unrecorded entry are taken for the row's |

**Findings.** `naked_forever`: the kill-switch exit cancels the stop, expires, and
every retry is refused under its old tag, while the branch that would re-place the
stop is never reached. `failed_read`: one failed `list_positions` closes the row of
a live position. `swept_orphan`: the process dies between an entry's fill and its
row; the boot sends a market order for the orphan, and its own sweep, which runs
right after and spares only the stops of open rows, cancels it. If the order fills
first, all is well, and that is what the fake broker does, whose `close_position`
sells at once. The journal says "flattened at market" either way. A close that fails
is only logged and ends in the same state.

Not a run, but reproduced by `ClosedLeavesNoStop` with `Faults = {"stop_lost"}` and
`PlannedExits = {"TP"}`: after a stop is lost, an exit in the very cycle
that re-placed it cancels the order id of the snapshot, and leaves the new stop
resting after the row is closed. Until the boot's sweep removes it, it may
sell the units of a later entry.

Nor is this one, which the attempt to prove `StopOutIsNamed` turned up, and TLC
reproduces with `MaxTrades = 3`, `JobsOverlap = TRUE` and no fault at all: the
monitor reaches a row between the tick's `insert_open` and its `set_status`, so
both place a stop for trade 1. One of them sells trade 1, the other rests until
it sells trade 2, and trade 2, whose row finds no sale of its own, is closed as
`RECONCILED` instead of `SL`: the loss brakes do not see it. `StopOutIsNamed`
therefore speaks of what happens as long as no trade sells twice (`SoldOnce`).

Another such attempt showed that `ManagedPosition` breaks after a crash without any
orphan to flatten. A crash between an entry's fill and its
row leaves the boot with units it takes for those of an older open row; if that
row's stop had filled already and the new stops and the exit are refused, the
first monitor cycle sees the old fill, closes the row, and nobody watches the
units (five faults, two trades, jobs that take turns).

### What is proved

All of the safety of the lifecycle, for every number of trades, units and
faults, and with jobs that overlap or not. Every theorem rests on
`ConstantsAssumption`, and on no bound of the runs (`MaxFaults` is any number).
What else it assumes is which kinds of fault do not occur:

| Theorem | States | Excluded |
|---|---|---|
| `TypeCorrect` | `TypeOK` | nothing |
| `ClosedStays` | `ClosedForever` | nothing |
| `OnePositionAtATime` | `NeverAdds` | `slow` |
| `ProtectedHasStop` | `ProtectedMeansStop` | `slow` |
| `ClosedIsFlat` | `ClosedMeansFlat` | `slow`, `partial`, `query` (`Reliable`) |
| `ImplementsBook` | `RefinesBook` | the same |
| `StopOutsAreNamed` | `StopOutIsNamed` | the same |
| `PositionIsManaged` | `ManagedPosition` | the same, `crash` and `raise_entry` (`Uninterrupted`) |

That each exclusion is needed is what the table of faults above shows, with one
exception: TLC found no counterexample to `StopOutIsNamed` under `slow` or
`partial`, but the proof uses that orders fill whole and in time.

The inductive invariant comes in parts, each about one relation, and each
theorem takes as many of them as it needs:

- `TypeInv`: types, and that a thread at any label but five has a trade in hand
  (`BoundJob`): `TypeOK` alone is not inductive, since such a thread indexes the
  trades table.
- `BookInv`: while an entry order is unresolved the broker holds nothing and no
  other entry is unresolved, and no order fills beyond its quantity. The gate
  reads the position, not the order that is about to change it, so "never more
  than one entry" is not inductive.
- `PhaseInv`, `RowInv`: the boot runs alone but for `cli flatten`; a thread has
  only trades in hand that have a row, and a row exists only after a fill. With
  the trigger this gives `ClosedStays`.
- `TagInv`, `FreshInv`, `NamedInv`: whose tag a stop carries, which tags are still
  unused, and that a row that says `OPEN_PROTECTED` names a stop that nobody has
  cancelled: `begin_exit` is written before any cancel.
- `CoverInv`: what is held was bought by the newest filled entry (`owner`), and each of
  its stops covers all of it. A stop that filled has then sold everything.
- `FlatInv`: a row that is closed, or about to be, has no units left; an exit asks for
  no less than is held; a boot's snapshot is flat once it has seen a flat
  account. Three threads work on quantities they have read earlier, so each of
  these is about two steps of different threads.
- `UnitInv`, `OrphanInv`, `OwnInv`, `ReasonInv`: nothing fills by halves; what the
  boot's close of an orphan may still sell has no row; every trade that is over sold what it
  bought by an order of its own, unless one sold twice; and so the reason a
  closing thread has found is the order's.
- `EntryInv`: what was bought has a row, or its entry is still polled.

The steps of the refinement are one lemma per kind of step of the book
(`BookBuys`, `BookSells`, `BookRecords`, `BookWrites`, `BookStutters`), and
`RowsOrBroker`: no step changes the rows and the broker at once.

### Brakes

What stops the agent after losses. A trade here is only when it was entered, how
and when the broker sold it and for what, and what its row shows: `none`, `open`,
`closed`. A sale happens at the broker (`Sell`) and reaches the row later
(`Record`, the monitor's `_finalize`), within half a bar: a bar is 15 minutes and
the monitor runs every minute. How a position is opened, watched and sold is
`PositionManager`'s subject; here an entry is one step.

| Actor | Steps | Code |
|---|---|---|
| tick | `GetAccount`, `ListPositions`, `ReadRows`, `ReadSwitch`, `EngageReads`, `EngageWrites`, `Evaluate`, `Open` | `_tick`: the account, the positions, `build_from_db` with `bump_equity_high`, the switch, `engage` (a read and a write), `evaluate`, `open` |
| rollover | `Rollover`, `ClearReads`, `ClearWrites` | `clear_if_daily` reads the switch, `clear` reads it again and writes |
| CLI | `CliEngage`, `CliClear` | `cmd_kill_switch`, in another process, `force=True` |
| exchange, monitor, time | `Sell`, `Record`, `Pass` | a stop or an exit fills; its row is closed with the time of the fill |

`AccountState` is what `build_from_db` returns, `Gates` the checks of `evaluate`
that read it, `AutoKill` is `check_auto_kill` in its order of severity. An
exception or a crash ends a job anywhere (`TickDies`, `RolloverDies`), and a tick
or a rollover may be missed altogether.

**Abstractions.** Time is in half bars, a tick runs on an even one; all steps
between two `Pass` have the same time. The limits are amounts: the day's and the
week's anchor equities that the code multiplies them with are not modelled. The
initial equity is 0, so `equity` is the profit so far, and drawdown is an amount
as well. The SELECTs of `build_from_db` are one step: a row recorded between two
of them is seen by some gates and not by others, which no property here relies
on, since they take a sale to be known only half a bar after it. The proposal and
the gates on it, the weekend and the data's age can only keep an entry from being
made, so `Evaluate` may always decline. A stop is a loss; the monitor's exits may
be either.

**Bounds.** Three trades over two days of three bars: a trade can be opened on one day
and lost on the next, and the third entry can meet two known results. One CLI
command, at any moment unless a job is between its read and its write of the switch
(`CommandsInterleave`). A result is -3, -1 or 2, so that each of the day's, the
week's and the drawdown's limit is the only one reached in some behaviour. The run ends
with its week: that a new week begins afresh is in the theorem only. The rollover
is due 15 seconds before the first tick of the day, and may start
`misfire_grace_time` half bars late: 1, because with the default bars of 15 minutes
the 600 seconds that `cron.py` grants it end in the second half of the first bar.

| Run | Checked | Result |
|---|---|---|
| `brakes` | `TypeOK`, `DayEnds`, `WeekEnds`, `DrawdownStops`, `HardBrakeHolds`, `DailyBrakeLasts` | holds, 2.4 million states |
| `unseen_stop_out` | `NoRevenge` | violated |

No entry is made once the sales the tick can know of use up the day's losing
trades or its loss (`DayEnds`), the week's loss, even if a person clears the
switch meanwhile (`WeekEnds`), or with the account `max_drawdown` below its high
(`DrawdownStops`). Only a command takes a manual switch back (`HardBrakeHolds`).
Once a tick has engaged the switch, that day sees no further entry unless a person
clears the switch (`DailyBrakeLasts`): "a bad day should end the day"
(`kill_switch.py`). The switch itself may not last that long. A tick at midnight may
overtake the rollover and engage it for the loss that was sold at that moment; the
late rollover then clears it, which is not what "auto-clears at the next UTC midnight"
says. `braked` remembers that it was engaged. The next tick engages it
again, since nothing is held that could have made the loss up. "Can know of"
leaves out exactly one thing: the loss of the trade right before the entry, if it
was sold within the last half bar. `unseen_stop_out` shows what that means.

**Finding.** `unseen_stop_out`: a stop that fills just before the tick leaves the
broker flat while its row is still open, so the tick sees neither a position nor a
stop-out and enters without the cooldown.

What the model shows besides, without a run of its own. With `misfire_grace_time = 2`
(on bars of one or five minutes, which `config.py` also allows, 600 seconds are more
than that), `DailyBrakeLasts` is violated: the rollover clears what the day's second
tick has engaged, a win of the same bar is recorded, the day is back above its limit,
and the third tick enters. With `CommandsInterleave`, `HardBrakeHolds` is violated: a
tick or a rollover that has read the switch overwrites the engagement of a
command. After a drawdown the next tick undoes the clear of a person, because the
drawdown is measured from an equity high that nothing lowers. And a weekly breach
whose row is closed after the last tick of the week engages nothing: the next tick
is in another week.

**What is proved** (`BrakesProofs`): every property of the run `brakes`, for every
calendar, set of outcomes, and number of trades and commands, from
`BrakesAssumption`, which says of the limits only that they are integers, those on the
day's loss and losing trades above zero.

`LosingDayEnds`, `LosingWeekEnds`, `DeepDrawdownStops` and `BrakesTyped` (`DayEnds`,
`WeekEnds`, `DrawdownStops`, `TypeOK`) assume nothing more: they hold wherever a
command falls and however late a rollover is, since `evaluate` looks at the limits
itself. The invariant is `BrakesInv`:

- `OneByOne`: trades are entered one after the other, each after those before it
  were sold. `OnTheBar`: a tick runs at the start of a bar, and what was entered
  before it was entered in an earlier bar. `RowsLag`: only a sale of the last half
  bar may be missing from the rows. Together (`RowsShow`): at a tick, the rows show
  every sale but, at most, that of the trade entered last.
- `TickKnows`: what the tick has read and still holds at its next statements. While
  the tick that was flat goes on, nothing is sold, so what the rows showed at
  `ReadRows` (`RowsAreEnough`) is enough until `Open` (`MayEnterKept`), although rows
  are still recorded and commands given. If the account was read with a position
  open that a stop then sold, the equity is not the sum of the sales: the exception
  in `DrawdownStops` is that case, and no other.
- The sums that the rows show and those that `DayEnds` and `WeekEnds` name differ by
  wins not yet recorded and the loss of the last trade: `PnlNoLess`, from `Sums`.

`Sums` is about `MapThenSumSet` for any finite set. It is a recursive function over
subsets that takes whichever element `CHOOSE` picks, so even that it exists, and
that its value does not depend on the picks, has to be proved: of the subsets for
which a statement fails there is one with no such subset strictly inside (`Smallest`,
from `FS_StrictSubsetOrderingWellFounded`), which takes the place of induction.

With `CommandsInterleave = FALSE` besides, which they need (see above):

- `HardBrake`: `Spec => [][...]` of `HardBrakeHolds`. The invariant is
  `WritersKnow`: a tick about to write the switch still finds it clear, a rollover
  about to clear it still finds it daily. The second read inside `engage` is
  what makes it hold: a command may fall between the tick's two reads.
- `DailyBrake`: the same for `DailyBrakeLasts`, if also `misfire_grace_time < 2`, which
  holds for bars of 15 minutes and more. While the switch is on and no rollover is
  about to clear it, nothing is entered; so the proof is about a rollover that does.
  It starts at most one half bar after midnight, hence before the day's second tick,
  and what the first one engaged a daily switch for was sold at midnight itself
  (`DayParts`, `SinceMidnight`, `Midnight`, lemmas on integer division and on what can
  have been sold by then). With nothing held since, the day's sums only stay
  (`DayGrows`, `SameDay`), and the next tick finds what the first one found
  (`FirstTickFinds`, `KillDaily`).

### JournalChain

`journal[s]` is the rows of session `s` in order of id, as the agent's connection
sees them. `write` is two statements: `ReadHead` reads the session's last hash and
computes the row, `Insert` adds it; `thread[t]` is the row in between. All jobs of
a boot share one session and one connection; `cli evolve` is another process with
a session of its own. `transaction()` is entered by one job only (`promote`), but
on the shared connection it takes in the inserts of all threads, and `Rollback`
takes them away; a restart does too (`Restart`), and ends every thread but the
CLI's. The audit lists the sessions, reads them one by one while the others keep
writing, and reports through the same writer.

**Abstractions.** A hash is the number of its write: `sha256` has no collisions,
and the canonical form of a payload survives storage, so `verify_chain` fails on
a row exactly if it was computed from another `prev_hash` than that of the row
before it. The job that opens a transaction writes no journal row inside it. An
operating system crash that loses committed rows (`synchronous = NORMAL`) is left
out, and so are two `cli evolve` at once.

**Bounds.** Two jobs and the audit are three threads of one session; five writes
are enough for two that fork, one that follows, and the audit's report; two boots
have a past and a present.

| Run | Checked | Result |
|---|---|---|
| `journal` | `TypeOK`, `ForksNeedRaces`, `NoFalseAlarm`, `PastIsSettled` | holds, 1.6 million states |
| `forked_chain` | `Chained` | violated |

`raced` records the sessions in which two writes overlapped, or a rollback came
between the two statements of a write. A chain fails to verify only in those
(`ForksNeedRaces`): crashes, failed inserts, and writers of other sessions are
harmless. The audit accuses only those (`NoFalseAlarm`), although it reads while
a transaction is open. The rows of an earlier boot never change (`PastIsSettled`).

**Finding.** `forked_chain`: the tick and the monitor overlap regularly and nothing
locks the writer, so both may read the same hash. The chain is then broken for
good, and every hour the audit reports that the journal may have been altered.

**What is proved** (`JournalChainProofs`), from `JournalAssumption` alone:
`TypeCorrect`, `OnlyRacesFork`, `AuditIsFair` and `PastStays`, one for each
property of the run. The inductive invariant is `ChainInv`: in a session that was
not raced at most one write is under way, and the hash it read is still the last
(`NotRaced`); and an open transaction has changed no session but the running
boot's (`TransactionIsLocal`), since the CLI's inserts wait for it. `AppendVerifies`
is the lemma about chains: a row that follows the last hash extends a chain that
verifies to one that does.

### Evolution

`db` is the tables as the process's one connection sees them, `committed` what
other connections see and what a crash leaves. Both agree unless a transaction is
open. A step is one statement, or several reads between which no other thread can
tell the difference; `job[t]` holds the local variables.

| Thread | Steps | Code |
|---|---|---|
| `main`, `tick` | `EnsureLoads`, `EnsureFinds`, `EnsureCrowns` or `EnsureSeeds` | `ensure_champion`, at boot and on every tick |
| `weekly`, `cli` | `LoadChampion`, `CheckActive`, `Review`, `InsertHypothesis`, `InsertChallenger`, `InsertExperiment`, `RejectOffline` | `run_weekly_evolution`; the CLI's is another process, on a connection of its own, after an `ensure_champion` |
| `shadow` | `EvaluateShadow`, `Decide`, then `Refuse` or `BeginPromotion`, `Retire`, `Crown`, `Commit` | `evaluate_shadow` and `promote`, the only user of `transaction()` |

What the schema enforces is a guard of the statement: the tag is unique, at most
one row is champion, a foreign key exists. A statement that breaks it raises, and
the exception of `promote` rolls back whatever any thread has written since
`BEGIN`; the CLI's writes wait for the transaction to end.

**Abstractions.** Candles, folds, scores and bootstraps are the branch they take.
A change is a field with its new value, and gives the version its tag. The review
may answer anything, including nothing. Journal rows are `JournalChain`'s subject.
`promotion_arbiter.arbitrate` is not modelled: nothing in the program calls it, the
pipeline has `_arbitrate_with_stored_folds`.

**Bounds.** Three changes, three evolutions, one attempt per champion, one crash or
exception at any step. One evolution promotes, a second meets its tag, its champion
and its experiment, a third runs into the plateau; the changes are symmetric.

| Run | Checked | Result |
|---|---|---|
| `evolution` | `TypeOK`, `OneChampion`, `CrownedByVerdict`, `AttemptsAreBounded`, `Settled`, `NothingReturns`, `ChampionWasBeaten` | holds, 746 thousand states |

There is one champion at every moment, also in the middle of a promotion that a
tick's `ensure_champion` falls into (`OneChampion`): the tick reads no champion
between the two updates and crowns the configured version inside the transaction,
so the promotion's own update breaks the unique index and rolls both back. Nobody
becomes champion but by a verdict (`CrownedByVerdict`), which was against the
champion it replaces (`ChampionWasBeaten`), and statuses and verdicts never go
back (`NothingReturns`). `MaxAttempts` holds (`AttemptsAreBounded`), and when all
jobs have ended, experiments and versions tell the same story (`Settled`).

Each is gated by exactly what breaks it, kept in two history variables:

- `overlapped`: two evolutions at once (the scheduler's and the CLI's), or one
  between its two reads while a promotion takes effect. Then a challenger may be
  staged against a champion that is retired by the time it is promoted, and there
  may be two experiments at a time.
- `interrupted`: a job of the pipeline that died. A crash between the verdict and the promotion
  loses the promotion, and the tag stays taken; one between `insert_experiment` and
  `decide` leaves an experiment that no shadow will decide, and with it no
  evolution starts again. Nothing repairs either.
- both (`IdsReused`): an evolution's inserts fell into a promotion that was rolled
  back, and another connection was given the same ids.

Two more things the model makes visible. A hypothesis whose tag is taken is stored
as accepted but never counted as an attempt. And once the attempts are used up,
nothing ends the plateau: the pipeline never has `different_evidence` to offer,
and refused hypotheses only add to the count. Liveness is not claimed here: a
shadow that never makes its minimum of trades blocks evolution for as long as it
runs.

**What is proved** (`EvolutionProofs`): every property of the run, for every set of
changes, number of evolutions, attempts and faults, without further hypotheses:
`EvolutionTyped`, `ChampionIsOne`, `CrownIsEarned`, `ChampionIsBeaten`, `NoReturn`,
`WorkIsFinished` and `TriesAreBounded`. What each statement does to the tables is a
lemma (`SetStatusIs` to `DecideIs`), which step arrives at which label another
(`ThreadArrives`), so that the invariants are proved per statement and not per
thread. Their parts:

- `TypeInv`, `ShapeInv`: foreign keys in both copies of the tables, of the rows the
  threads have in hand as well, `open` exactly while the shadow is inside
  `promote`, and that a champion is never a row that is not committed: a
  rollback takes rows back, and a reference to one must not survive it.
- `IdInv`, unless ids are reused (`IdsReused`): the rows a job has in hand are as
  it left them and no two jobs have the same (`Rows`), who is champion at each
  stage of a promotion, in both copies (`Switch`), and what the open transaction
  has changed of what is committed, status by status (`Drift`). From these follow
  one champion, that a verdict crowned it, and that nothing returns.
- `ApartInv`, unless evolutions overlapped: one evolution at a time, one experiment
  without a verdict, against the champion (`Alone`).
- `EffectInv`, unless a job was interrupted: a verdict without effect, an
  experiment not yet rejected or a version not yet tested is in some job's hand.
- `AttemptInv`, unless evolutions overlapped: between the count and the insert
  nobody else adds an attempt, and when every experiment has its verdict,
  experiments that did not promote are no more than the hypotheses that
  `failed_attempts` counts (`AttemptsCount`, an injection).

The history variables are where the proof needs them: a rollback takes an id
back only if the shadow's job raises inside its transaction, which is an
interruption, and a job that has such an id in hand is an evolution that fell into
that promotion, which is an overlap.

### Backtest

`run()` one bar at a time: `Manage` (rollovers, then the open position's stop,
target, time stop and hard cap), then `Enter` or `StayOut` (the gates, the fill at
the next bar's open), at last `Finish` (the position left open, the metrics). The
loop carries its account along (`state`, with `update_after_close`, `roll_day`,
`roll_week`), where the live loop derives it from the rows on every tick. Windows
are the whole frame and each training and test window of `make_folds`.

**Abstractions.** A bar is its slot on the calendar; prices and the signal are the
branch they take, a closed trade is one of `Outcomes` after costs. Limits are
amounts, not fractions of the anchors. The equity moves only when a trade closes,
as in the code. Of the metrics, the countable ones: return, trades, drawdown, wins,
weeks. The score of a run without drawdown and Sharpe ratios are not modelled.

**Bounds.** Frames of 13 slots with at most one missing, days of three bars, weeks
of three days with a weekend that begins and ends inside a day, three folds: a
trade can cross a day, a week, a weekend, a gap and the end of a window, and every
limit is small enough to be reached.

| Run | Checked | Result |
|---|---|---|
| `backtest` | `TypeOK`, `StateIsDerived`, `EnterLikeLive`, `NoRevenge`, `HoldIsCapped`, `FoldsAreApart`, `MetricsAddUp` | holds, 554 thousand states |

The account carried along is the one `build_from_db` would derive from the trades
so far (`StateIsDerived`), and an entry here is one that the live tick, which looks
at the same gates when the bar has closed, would be let through
and at which no kill switch is engaged (`EnterLikeLive`). `is_kill_switch` is what the
live ticks of all bars before would have left on the same trades: `check_auto_kill`
engages a switch for good at a drawdown or a lost week, and for the rest of the day at a
lost day. Three exceptions are in the properties. A lost week: live, its switch stays
until a person clears it, while the backtester trades on as soon as the week is over.
An entry decided on the
last bar of a day is filled on the next one, whose rollover has not happened yet
and then forgets it, so that day may have one trade more than
`max_trades_per_day`. And `is_weekend` is judged at the bar's open here, at its close
live, so the last bar before the weekend may enter here only. Every trade `run()`
returns was decided outside of the weekend and keeps the cooldowns, in bars
(`NoRevenge`); it is the bar it was decided on that is outside: the fill is one bar
later, and the run reaches one at the first bar of the weekend, where the
repository's README promises "No entries between Friday 21:00 and Sunday 22:00 UTC".
Trades keep the cap (`HoldIsCapped`: one
bar more than live, since the fill's own bar is not counted). Folds share the bar at
their boundary, but no bar in which both could hold a position (`FoldsAreApart`).

The comparison with the live loop gives it the same closed trades. Its equity also marks
the open position, which may engage a drawdown switch that no closed trade shows; its
queries end at 50, 500 and 20 rows; a person may clear a switch; and a rollover may be
late (`Brakes`). None of this is in the comparison, and neither are the seconds between
a bar's close and the tick. `is_kill_switch` is engaged by every tick that finds a
breach, also one whose weekly breach the code does not record because a daily switch
is on already: it is engaged at least as often as the code's.

**What is proved** (`BacktestProofs`), for every calendar, number of gaps, window,
limit and set of outcomes, from `BacktestAssumption` alone: all seven properties of
the run. `BacktestTyped`, `NoneAvenged`, `HoldCapped` and `FoldsApart` state `TypeOK`,
`NoRevenge`, `HoldIsCapped` and `FoldsAreApart`; `AccountDerived`, `EntersLikeLive` and
`MetricsAgree` state `StateIsDerived`, `EnterLikeLive` and `MetricsAddUp`. The
assumption says that limits are numbers, those on losses, drawdown and trades per day not zero
(an account that has lost nothing would stand at its limit), and that the weekend
begins on an earlier day of the week than it ends, at hours of a day, as
`pinned/risk_limits.py` has it. The properties speak of times, the loop of indexes;
the inductive invariant `IInv` ties the two, and was checked by TLC on the run's
instance first:

- `Frame`: the frame is in order and not empty. `Sorted` is a choice by rank:
  `Ranked` shows that there is always one to choose.
- `Walk`, `Open`: the loop is on a bar of the window, and what is open was decided
  on the bar before it was filled, not on the weekend, and held for fewer bars than
  the cap once the bar has been managed. Without that last part the cap is not
  inductive: a position is closed at the bar where it first reaches it.
- `Memory`: `last_exit` and the account's last exit are those of the last trade, and
  the account's streak is at least as long as the losses the trades end with. So the
  gates, which see the account only, speak of the trades (`ApprovedSpaces`), for the
  whole run: a rollover must not touch the streak (`Rolls`).
- `Past`: every trade has a bar it was decided on and one it was closed in, and
  waited after the trade before it. `BarsUpTo` and `BarsHeld` count the bars in
  between, as a bijection with the indexes, so a gap counts as no bar.

`WeekendSpan` shows that the engine's cases by day and hour cover the one stretch of
the week that `NoRevenge` names. The trade closed at the end of the window
(`Finish`) does not become `last_exit`; the invariant does not need it, since no
trade follows.

What is about sums and counts of trades rests on three invariants more, each proved
from `IInv` and those before it:

- `Ledger` (`BacktestLedger`): the account is the one of the trades, as of the last
  bar it was rolled over to (`Now`). Equity, high and drawdown are those of the list
  (`Money`), streak and last exit those of its end (`Lately`), the day's and week's
  sums those of the trades that closed in them (`Daily`). `StateIsDerived` is this
  with the list summed as `build_from_db` does. A close moves every one of these by
  one trade (`CloseKeepsMoney`, `CloseKeepsLately`, `CloseKeepsDaily`); a rollover
  (`RollKeepsDaily`) may zero a sum because no trade can have closed in the future,
  which is `Elapsed`: the order of the loop's steps is what makes it true.
- `Counters` (`BacktestCounters`): `last_entry` is the bar that the newest entry was
  decided on. With `Memory` it gives the bars since the last exit and entry, which
  the backtester counts in its frame and the live tick in the table of bars
  (`TimesSince`). `EnterLikeLive` then compares two accounts: the live one, rebuilt
  when the bar has closed, may be in a new day but has nothing against the entry that
  the backtester's did not have (`LiveNoWorse`, `NoWorsePasses`).
- `Gated`: when each trade was decided on, neither drawdown nor the day's and week's
  losses of the trades before it were at their limits (`MayTrade`). So a tick before the
  entry that found a breach saw every trade there is (`SeenThenTraded`), and the
  breach is still one at the entry (`SameLosses`, `HighestEquity`), unless its week is
  over (`OnlyAWeekBefore`).
- `Tally` (`BacktestTally`): the equity curve and the weeks are those of the trades.
  `DeepestFall` shows that the running peak of `_max_drawdown` finds the deepest fall
  between any two points of the curve, without induction: of the points where it
  would not be the greatest so far there is a first. A week with a gain has a trade
  with a gain (`UpWeekWon`), and weeks are no more than their trades (`WeeksOfTrades`).

### Bars

Time is in half bars. `Fetch` stores what the broker returned, forming bar
included, and drops that bar for the tick only; `CheckProcessed`, `MarkProcessed`,
`Decide` and `Open` are `_tick` in its order. The process may die between any two
(`TickRaises`, `Crash`), ticks may be missed, on H4 they fire within a bar, the
broker may be late by up to `MaxLag` bars, and `cli download-bars` (`Download`) may
write a range at any time.

**Abstractions.** What a bar holds is only whether it is final. A tick takes
seconds, so the clock stands while one runs. `fetch_bars` is the Alpaca client's: it
asks for ascending order and keeps the first `limit` bars (`Earliest`). The tick gives no
start, so where the range begins is the service's choice, and `Fetch` takes any;
`broker/fake.py`, which returns the newest bars, is not what the program runs on. A
range longer than the limit then never shows the tick the newest bar, which `_tick`
only logs ("data is behind"). `M1Age` stands for `stale_data_max_age_sec`, which an M1 bar
outlives by several of its periods.

**Bounds.** Five bars, three per fetch, two late, two crashes, one download: the
process can be away for longer than a fetch reaches back, and come back, and a range can
begin too late to have the last bar of the one before, or end before the newest.

| Run | Checked | Result |
|---|---|---|
| `bars` | `TypeOK`, `OnlyClosedBars`, `OnceOnly`, `NoChasing`, `HistoryIsRepaired` | holds, 2.4 million states |

An entry rests on closed bars only, each bar is acted on once, and (but on M1) at
its close or never. `HistoryIsRepaired` is about the other readers of the table:
`bars.py` says every consumer goes through `drop_forming_bar`, but shadow,
evolution, monitor and CLI read the candles as they are. What saves them is that
a later fetch overwrites the unfinished bar. If a fetch does not have the last bar of the
one before (`away`), that bar stays unfinished, and bars in between may be missing,
until something fetches them again; nothing in the code sees to that.

**What is proved** (`BarsProofs`), for every horizon, limit, lateness, and number of
crashes and downloads, from `BarsAssumption` alone: all five, as `TypeCorrect`,
`ClosedBarsOnly`, `ActedOnOnce`, `NeverLate` and `Repaired`. The inductive
invariant is `Inv`:

- `TickInv`: the bars in the tick's hand have closed and are final in its frame,
  and its last bar is newer than the mark until it *is* the mark. This orders the
  steps of `_tick`: marking after acting would break it.
- `ActedInv`: nothing newer than the mark was acted on, and nothing as new if the
  tick is about to act. `OnceOnly` alone says nothing about the next entry.
- `HistoryInv`: of the bars ticks have fetched, only the last may be unfinished. A
  fetch that has it rewrites it (`FetchRepairs`), and a download can
  only write the current bar as unfinished, which is that last one or beyond
  (`DownloadHarmless`).

`Max` and `Min` are choices: `GreatestBar` and `LeastBar` take a witness, which
`FetchReaches` and `ClosedBars` give, so that no induction is needed.

## Plan

1. `PositionManager`, `PositionBook`, their runs, first theorems: done.
2. `Brakes`, its runs and theorems: done.
3. `JournalChain`, its runs and theorems: done.
4. `Evolution` and its run: done.
5. `Backtest`, `RiskEngine` and their run: done.
6. `Bars`, its run and theorems: done.
7. Proofs of all safety properties of `PositionManager` and `Evolution`, and of the
   refinement of `PositionBook`: done.
8. Proofs of the properties of `Backtest` that do not depend on sums: done.
9. `Sums`, and with it the proofs of the other properties of `Brakes`: done.
10. Proofs of `StateIsDerived`, `EnterLikeLive` and `MetricsAddUp` of `Backtest`: done.

## What is not modelled

- Sizing: a division of floats with an epsilon, exact only in IEEE arithmetic. It
  reaches the models as whether there is an order.
- Indicators, strategy, bootstrap, Sharpe ratios and the score: reals without state.
- The LLM client: I/O and schema validation. Its budget is checked before a call
  and recorded after it; what two callers can overspend is one call.
- The day and week anchors: limits are amounts. `equity_high` is modelled.
- Journal payloads, reports, API, configuration, migrations, backup: input and
  output only.
- Alpaca's HTTP client beyond what the lifecycle and the tick see of it: refusals,
  fills, reads that fail.

What is only model-checked: liveness, that is `NakedIsHandled` and `GoneIsRecorded` of
`PositionManager` (the prover has no rule for fairness), and the counterexamples of
the runs that expect a violation. Every invariant and action property of a passing
run, and the refinement of `PositionBook`, is also a theorem; those of `Brakes` and
`PositionManager` that the code keeps only under a condition (`CommandsInterleave`,
`misfire_grace_time`, `Reliable`, `Uninterrupted`, no slow broker) assume it by name,
and so do the runs, through their constants.
