-------------------------------- MODULE Bars --------------------------------
(***************************************************************************)
(* The data path: how the bar-close tick (_tick of                          *)
(* app/scheduler/jobs/tick_bar_close.py) gets from the broker's bars to one *)
(* decision per bar, and what it leaves in the candles table                *)
(* (app/db/candles.py) for the monitor, the shadow and the evolution.       *)
(*                                                                         *)
(* Bar b covers the clock from 2b to 2b + 2: time is counted in half bars.  *)
(* The broker also returns the bar that is forming, and may be late with    *)
(* those that have closed.  A fetch gets the oldest bars of a range, up to  *)
(* a limit; the tick does not say where its range starts, the data service  *)
(* does.  What a bar holds is only whether it is final.                     *)
(* The decision itself, the account and the position are in Brakes and      *)
(* PositionManager.                                                         *)
(***************************************************************************)
EXTENDS Integers, Sequences, FiniteSets, FiniteSetsExt

CONSTANTS
  Horizon,       \* bound: half bars of a behaviour
  limit,         \* bars per fetch
  MaxLag,        \* bound: bars the broker may be late with
  MaxStops,      \* bound: crashes and exceptions
  MaxDownloads,  \* bound: `cli download-bars`
  M1Age          \* half bars of an M1 bar in stale_data_max_age_sec

ASSUME BarsAssumption ==
  /\ Horizon \in Nat /\ limit \in Nat \ {0} /\ MaxLag \in Nat
  /\ MaxStops \in Nat /\ MaxDownloads \in Nat /\ M1Age \in Nat

Clock == 0..Horizon
Current(c) == c \div 2
Bars == 0..Current(Horizon)
NoBar == -1

VARIABLES
  clock,
  granularity,  \* "M1", "M15" or "H4"
  newest,       \* the newest bar the broker has
  proc,         \* "down" or "up"
  candles,      \* the table: "none", "forming" or "final" per bar
  processed,    \* last_processed_bar_ts
  fired,        \* the clock of the last tick
  tick,         \* the tick job
  acted,        \* the entries handed to PositionManager.open
  covered,      \* history: the first bar of the first fetch, the last of the last
  away,         \* history: a fetch left out the last bar of the one before
  stops,        \* crashes and exceptions so far
  downloads     \* downloads so far

vars == <<clock, granularity, newest, proc, candles, processed, fired, tick, acted, covered, away,
          stops, downloads>>

Tick == [pc : {"idle", "fetch", "check", "account", "mark", "decide", "open"},
         closed : SUBSET Bars,                   \* the frame without the forming bar
         seen : [Bars -> {"none", "forming", "final"}]]  \* the frame as it was fetched
NothingSeen == [b \in Bars |-> "none"]
IdleTick == [pc |-> "idle", closed |-> {}, seen |-> NothingSeen]

Init ==
  /\ clock = 0
  /\ granularity \in {"M1", "M15", "H4"}
  /\ newest = NoBar
  /\ proc = "up"
  /\ candles = NothingSeen
  /\ processed = NoBar
  /\ fired = -1
  /\ tick = IdleTick
  /\ acted = <<>>
  /\ covered = <<>>
  /\ away = FALSE
  /\ stops = 0
  /\ downloads = 0

-----------------------------------------------------------------------------
(* fetch_bars: the bars of a range, the oldest first, until `limit` is reached.  *)

Content(b, c) == IF b = Current(c) THEN "forming" ELSE "final"
Earliest(from) == {b \in Bars : from <= b /\ b <= newest /\ b < from + limit}
Frame(S) == [b \in Bars |-> IF b \in S THEN Content(b, clock) ELSE "none"]

(* upsert_bars *)
DoNothing(b, frame) == IF candles[b] = "none" THEN frame[b] ELSE candles[b]
DoUpdate(b, frame) == IF frame[b] = "none" THEN candles[b] ELSE frame[b]
upsert_bars(frame) == [b \in Bars |-> DoUpdate(b, frame)]

(* drop_forming_bar: idx <= now - period; and granularity_seconds.             *)
DropNothing(S, now) == S
drop_forming_bar(S, now) == {b \in S : 2 * b <= now - 2}

-----------------------------------------------------------------------------
(* _tick *)

(* _bar_close_minutes: from an hour on the tick fires every hour.              *)
Due(c) == c % 2 = 0 \/ granularity = "H4"

StartTick ==
  /\ proc = "up"
  /\ tick.pc = "idle"
  /\ Due(clock) /\ fired # clock
  /\ fired' = clock
  /\ tick' = [IdleTick EXCEPT !.pc = "fetch"]
  /\ UNCHANGED <<clock, granularity, newest, proc, candles, processed, acted, covered, away, stops,
                 downloads>>

(* No start is given: the range begins where the service has it begin, and may  *)
(* end before the newest bar, or hold none.                                   *)
Fetch ==
  /\ tick.pc = "fetch"
  /\ \E from \in Bars :
       LET S == Earliest(from)
       IN /\ candles' = upsert_bars(Frame(S))
          /\ tick' = [tick EXCEPT !.pc = "check", !.seen = Frame(S),
                                  !.closed = drop_forming_bar(S, clock)]
          /\ covered' = IF S = {} THEN covered
                        ELSE <<IF covered = <<>> THEN Min(S) ELSE covered[1], Max(S)>>
          /\ away' = (away \/ (covered # <<>> /\ covered[2] \notin S))
  /\ UNCHANGED <<clock, granularity, newest, proc, processed, fired, acted, stops, downloads>>

(* An empty frame, or a bar that was processed before, ends the tick; data that *)
(* is behind is only logged.                                                  *)
LastBar == Max(tick.closed)
AnyBar(b) == TRUE
NewBar(b) == processed < b

CheckProcessed ==
  /\ tick.pc = "check"
  /\ tick' = IF tick.closed # {} /\ NewBar(LastBar) THEN [tick EXCEPT !.pc = "mark"]
             ELSE IdleTick
  /\ UNCHANGED <<clock, granularity, newest, proc, candles, processed, fired, acted, covered, away,
                 stops, downloads>>

(* The account and the switch are looked at, and then the bar is marked.       *)
MarkProcessed ==
  /\ tick.pc = "mark"
  /\ processed' = LastBar
  /\ tick' = [tick EXCEPT !.pc = "decide"]
  /\ UNCHANGED <<clock, granularity, newest, proc, candles, fired, acted, covered, away, stops,
                 downloads>>

(* The age of the bar's close against stale_data_max_age_sec: M1's many, the    *)
(* others' less than half a bar.                                              *)
AnyAge(age) == TRUE
FreshEnough(age) == age <= IF granularity = "M1" THEN M1Age ELSE 0

(* No signal, or a refusal; or an order.                                       *)
Decide ==
  /\ tick.pc = "decide"
  /\ \/ tick' = IdleTick
     \/ /\ FreshEnough(clock - 2 * (LastBar + 1))
        /\ tick' = [tick EXCEPT !.pc = "open"]
  /\ UNCHANGED <<clock, granularity, newest, proc, candles, processed, fired, acted, covered, away,
                 stops, downloads>>

Open ==
  /\ tick.pc = "open"
  /\ acted' = Append(acted, [bar |-> LastBar, at |-> clock, content |-> tick.seen[LastBar]])
  /\ tick' = IdleTick
  /\ UNCHANGED <<clock, granularity, newest, proc, candles, processed, fired, covered, away, stops,
                 downloads>>

-----------------------------------------------------------------------------
(* An exception ends the tick (run() logs it), a crash the process.            *)

Stops ==
  /\ stops < MaxStops
  /\ stops' = stops + 1
  /\ tick' = IdleTick
  /\ UNCHANGED <<clock, granularity, newest, candles, processed, fired, acted, covered, away, downloads>>

TickRaises == tick.pc # "idle" /\ Stops /\ UNCHANGED proc
Crash == proc = "up" /\ Stops /\ proc' = "down"

Restart ==
  /\ proc = "down"
  /\ proc' = "up"
  /\ UNCHANGED <<clock, granularity, newest, candles, processed, fired, tick, acted, covered, away,
                 stops, downloads>>

(* `cli download-bars`: the same of a range that is given.                      *)
Download ==
  /\ downloads < MaxDownloads
  /\ downloads' = downloads + 1
  /\ \E from \in Bars : candles' = upsert_bars(Frame(Earliest(from)))
  /\ UNCHANGED <<clock, granularity, newest, proc, processed, fired, tick, acted, covered, away, stops>>

(* A tick takes seconds.  It may be missed, and the broker may be late.        *)
Pass ==
  /\ clock < Horizon
  /\ tick.pc = "idle"
  /\ clock' = clock + 1
  /\ newest' \in {b \in newest..Current(clock') : b >= Current(clock') - MaxLag}
  /\ UNCHANGED <<granularity, proc, candles, processed, fired, tick, acted, covered, away,
                 stops, downloads>>

Next ==
  \/ StartTick \/ Fetch \/ CheckProcessed \/ MarkProcessed \/ Decide \/ Open
  \/ TickRaises \/ Crash \/ Restart \/ Download \/ Pass

Spec == Init /\ [][Next]_vars

-----------------------------------------------------------------------------
(* Properties. *)

TypeOK ==
  /\ clock \in Clock
  /\ newest \in NoBar..Current(clock)
  /\ candles \in [Bars -> {"none", "forming", "final"}]
  /\ processed \in Bars \cup {NoBar}
  /\ tick \in Tick
  /\ tick.pc \in {"mark", "decide", "open"} => tick.closed # {}
  /\ \A b \in tick.closed : b < Current(clock)
  /\ \A b \in Bars : candles[b] = "final" => b < Current(clock)
  /\ stops \in 0..MaxStops /\ downloads \in 0..MaxDownloads

(* "A strategy that reads it will see signals that later disappear": an entry   *)
(* only rests on a bar that has closed, as it was once it had, and no bar is  *)
(* marked as processed that has not closed: its own tick would skip it.       *)
OnlyClosedBars ==
  /\ \A n \in DOMAIN acted : acted[n].content = "final"
  /\ processed < Current(clock)

(* A bar is acted on once, whether the tick fires again within the bar, dies    *)
(* and is restarted, or the broker has nothing newer yet.                     *)
OnceOnly ==
  \A m, n \in DOMAIN acted : m < n => acted[m].bar < acted[n].bar

(* "No chasing": the bar acted on has just closed; a signal whose tick was      *)
(* missed, died or came before the data is discarded, never carried to a later*)
(* one.  (An M1 bar stays fresh for as long as three of its successors.)      *)
NoChasing ==
  granularity # "M1" => \A n \in DOMAIN acted : acted[n].at = 2 * (acted[n].bar + 1)

(* The tick stores the forming bar too, and other jobs read the table as it is: *)
(* a bar stored before it closed is finished by the next fetch that has it.   *)
(* So once a tick has fetched, only the bar that is forming now is unfinished, *)
(* and none is missing up to the last one fetched.  That is, as long as every *)
(* fetch has had the last bar of the one before: nothing in the code sees to  *)
(* it, as the tick sends no start, and a range that is longer than its limit  *)
(* or starts later (a new day, a process that was down) leaves that bar, or a *)
(* gap behind it, as it is.                                                   *)
HistoryIsRepaired ==
  tick.pc = "check" /\ ~away /\ covered # <<>> =>
    \A b \in covered[1]..covered[2] :
      /\ candles[b] # "none"
      /\ candles[b] = "forming" => b = Current(clock)

=============================================================================
