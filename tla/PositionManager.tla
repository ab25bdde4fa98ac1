-------------------------- MODULE PositionManager --------------------------
(***************************************************************************)
(* The lifecycle of a position: app/execution/position_manager.py, the      *)
(* trades table it writes (app/db/trades.py and the triggers of             *)
(* app/db/migrations/0001_init.sql) and the broker it talks to.             *)
(*                                                                         *)
(* Four threads run its code: "main" reconciles before the scheduler        *)
(* starts, "tick" opens, "mon" monitors once a minute, "cli" is `cli        *)
(* flatten` in a process of its own.  A step is one broker call or one      *)
(* database write, so that other threads, the broker and a crash can come   *)
(* between any two of them.  What can go wrong is listed in FaultKinds: a   *)
(* behaviour takes at most MaxFaults of those in Faults.                    *)
(*                                                                         *)
(* A broker refuses a client order id it has seen (tags.py:31), so an       *)
(* accepted order is named by its client tag: the trade and a suffix.       *)
(* Prices and bar counts appear only as the branch they select.             *)
(***************************************************************************)
EXTENDS Integers, FiniteSets

CONSTANTS
  MaxTrades,     \* bound: entry signals acted on in a behaviour
  Units,         \* what an entry order asks for
  Faults,        \* the faults that may occur
  MaxFaults,     \* bound: how many of them may occur
  JobsOverlap,   \* may the jobs of the thread pool run at the same time?
  PlannedExits   \* the exits of _monitor_one (b)-(d) that are explored

FaultKinds ==
  { "reject_stop",   \* BrokerError from submit_order of a stop
    "reject_exit",   \* BrokerError from submit_order of a market sell
    "unfilled",      \* an IOC market order expires without a fill
    "partial",       \* an order fills in part
    "slow",          \* polling ends, or fails, before the order is terminal
    "query",         \* BrokerError from a read
    "cancel",        \* BrokerError from cancel_order
    "close",         \* BrokerError from close_position
    "stop_lost",     \* the broker drops a resting stop
    "raise",         \* an exception that is not a BrokerError ends a job
    "raise_entry",   \* the same, while an entry order has no row yet
    "crash",         \* the process dies
    "flatten",       \* the operator runs `cli flatten`
    "kill_switch" }  \* the kill switch is engaged, or cleared

AllPlannedExits == {"TP", "HARD_TIME_CAP", "TIME_STOP"}

ASSUME ConstantsAssumption ==
  /\ MaxTrades \in Nat \ {0}
  /\ Units \in Nat \ {0}
  /\ MaxFaults \in Nat
  /\ Faults \subseteq FaultKinds
  /\ JobsOverlap \in BOOLEAN
  /\ PlannedExits \subseteq AllPlannedExits

Trades == 1..MaxTrades
Threads == {"main", "tick", "mon", "cli"}

(* Client tags: stop_tag(attempt) and exit_tag(reason). *)
StopSuffix(attempt) == CASE attempt = 0 -> "sl"
                         [] attempt = 1 -> "sl1"
                         [] attempt = 2 -> "sl2"
                         [] OTHER -> "sl3"
StopSuffixes == {"sl", "sl1", "sl2", "sl3"}
ExitReasons == {"UNPROTECTED", "KILL_SWITCH", "SL_FAILSAFE", "MANUAL"}
                 \cup AllPlannedExits
CloseReasons == ExitReasons \cup {"SL", "RECONCILED"}

EntryId(n) == <<n, "entry">>
StopId(n, attempt) == <<n, StopSuffix(attempt)>>
ExitId(n, reason) == <<n, reason>>
StopIds == Trades \X StopSuffixes
ExitIds == Trades \X ExitReasons
OrderIds == (Trades \X {"entry"}) \cup StopIds \cup ExitIds
NoId == <<0, "none">>

(* OrderStatus; what is rejected on acceptance is a cancel without a fill.    *)
OrderStatuses == {"none", "new", "partially_filled", "filled", "canceled", "expired"}
Order == [status : OrderStatuses, qty : Nat, filled : Nat]
NoOrder == [status |-> "none", qty |-> 0, filled |-> 0]
NewOrder(q) == [status |-> "new", qty |-> q, filled |-> 0]

(* trades.status; "NONE" is a row that was not inserted. *)
TradeStatuses == {"NONE", "OPEN_UNPROTECTED", "OPEN_PROTECTED", "PENDING_EXIT", "CLOSED"}
TradeRow == [status : TradeStatuses, units : Nat,
             sl_order_id : StopIds \cup {NoId},
             exit_reason : CloseReasons \cup {"none"}]
NoTrade == [status |-> "NONE", units |-> 0, sl_order_id |-> NoId, exit_reason |-> "none"]

VARIABLES
  proc,      \* "down", "boot" (reconcile_on_boot) or "up" (scheduler running)
  job,       \* what each thread is doing, with its local variables
  trades,    \* the trades table
  strikes,   \* _through_stop_strikes, in memory
  orders,    \* the broker's orders
  pos,       \* the units the broker holds
  owner,     \* the trade whose entry bought them last
  closing,   \* the units an order of close_position is still to sell
  ks,        \* is the kill switch engaged?
  next,      \* the next entry signal
  cycled,    \* has a monitor cycle begun since the last entry?
  faults     \* faults taken so far

broker == <<orders, pos, owner, closing>>
vars == <<proc, job, trades, strikes, broker, ks, next, cycled, faults>>

Labels == {"idle", "entry", "place", "mark", "check", "position", "replace", "decide",
           "exit", "cancel", "qty", "sell", "fill", "unsold", "history", "close",
           "boot_position", "adopt", "orphan", "sweep", "ready"}

Job == [pc : Labels,
        tr : Trades \cup {0},             \* the trade in hand
        todo : SUBSET Trades,             \* the rest of the open_trades() snapshot
        seen : [Trades -> StopIds \cup {NoId}], \* sl_order_id as the snapshot has it
        attempt : 0..3,
        qty : Nat,
        why : CloseReasons \cup {"none"},
        stop_ok : BOOLEAN,                \* _get_stop_order returned a working order
        ks : BOOLEAN]                     \* the kill_switch argument

(* _replace_stop: for attempt in range(1, 4). *)
LastAttempt == 3

IdleJob == [pc |-> "idle", tr |-> 0, todo |-> {}, seen |-> [n \in Trades |-> NoId],
            attempt |-> 0, qty |-> 0, why |-> "none", stop_ok |-> FALSE, ks |-> FALSE]

Init ==
  /\ proc = "down"
  /\ job = [t \in Threads |-> IdleJob]
  /\ trades = [n \in Trades |-> NoTrade]
  /\ strikes = [n \in Trades |-> 0]
  /\ orders = [o \in OrderIds |-> NoOrder]
  /\ pos = 0
  /\ owner = 0
  /\ closing = 0
  /\ ks = FALSE
  /\ next = 1
  /\ cycled = TRUE
  /\ faults = 0

-----------------------------------------------------------------------------
(* Helpers. *)

StatusOf(o) == IF o = NoId THEN "none" ELSE orders[o].status
Working(o) == StatusOf(o) \in {"new", "partially_filled"}
Terminal(o) == StatusOf(o) \in {"filled", "canceled", "expired"}
open_trades == {n \in Trades : trades[n].status \notin {"NONE", "CLOSED"}}
OpenStops == [n \in Trades |-> trades[n].sl_order_id]
First(S) == CHOOSE n \in S : \A m \in S : n <= m
Last(S) == CHOOSE n \in S : \A m \in S : m <= n

NoFault == faults' = faults
Fault(kind) ==
  /\ kind \in Faults
  /\ faults < MaxFaults
  /\ faults' = faults + 1

(* An immediate-or-cancel buy is resolved before the next bar or the next     *)
(* start of the process, or that too is a "slow" order.                       *)
EntriesSettled ==
  LET settled == \A n \in Trades : orders[EntryId(n)].status # "new"
  IN \/ settled /\ NoFault
     \/ ~settled /\ Fault("slow")

CanStart(t) ==
  /\ job[t].pc = "idle"
  /\ JobsOverlap \/ \A u \in Threads : job[u].pc = "idle"

At(t, label) == job[t].pc = label
Goto(t, label) == job' = [job EXCEPT ![t].pc = label]
Become(t, j) == job' = [job EXCEPT ![t] = j]

(* Where a thread goes once it is done with the trade in hand. *)
NextTrade(t) ==
  LET j == job[t]
      n == First(j.todo)
      Take(label, why) ==
        [IdleJob EXCEPT !.pc = label, !.tr = n, !.todo = j.todo \ {n},
                        !.seen = j.seen, !.ks = j.ks, !.why = why]
  IN CASE t = "main" /\ j.why = "UNPROTECTED" -> [IdleJob EXCEPT !.pc = "ready"]
       [] t = "main" /\ j.why # "UNPROTECTED" /\ j.todo = {} -> [IdleJob EXCEPT !.pc = "sweep"]
       [] t = "main" /\ j.why # "UNPROTECTED" /\ j.todo # {} -> Take("history", "none")
       [] t = "mon" /\ j.todo # {} -> Take("check", "none")
       [] t = "cli" /\ j.todo # {} -> Take("exit", "MANUAL")
       [] OTHER -> IdleJob

(* The trigger trades_immutable_once_closed aborts a write that changes a      *)
(* closed row: sqlite3.IntegrityError ends the job, or the process when it is *)
(* main's.  Closing it a second time passes if the numbers are the same too.  *)
NoTrigger(n) == FALSE
Immutable(n) == trades[n].status = "CLOSED"

WriteAborted(t, n) ==
  /\ Immutable(n)
  /\ Become(t, IdleJob)
  /\ proc' = IF t = "main" THEN "down" ELSE proc
  /\ UNCHANGED trades

WriteDone(t, n, row, j) ==
  /\ Immutable(n) => row = trades[n]
  /\ Become(t, j)
  /\ trades' = [trades EXCEPT ![n] = row]
  /\ UNCHANGED proc

(* A row write by thread t, which then becomes j. *)
WriteRow(t, n, row, j) == WriteAborted(t, n) \/ WriteDone(t, n, row, j)

(* _position_qty: an error reads as flat. *)
PositionQty(q) ==
  \/ q = pos /\ NoFault
  \/ q = 0 /\ pos # 0 /\ Fault("query")

-----------------------------------------------------------------------------
(* open(): the tick thread. *)

(* The tick reaches open() only past the gates of risk/engine.py: it counts    *)
(* the broker's positions, not the open rows.                                 *)
GateOnRows == open_trades = {} /\ ~ks
EntryGate == pos = 0 /\ ~ks

(* _submit_entry sends the market buy.  Bars are 15 minutes apart and the      *)
(* monitor runs every minute (cron.py): two entries have a cycle in between   *)
(* when there is a row for it.                                                *)
SubmitEntry ==
  /\ proc = "up"
  /\ CanStart("tick")
  /\ EntryGate
  /\ next \in Trades
  /\ open_trades # {} => cycled
  /\ EntriesSettled
  /\ next' = next + 1
  /\ cycled' = FALSE
  /\ orders' = [orders EXCEPT ![EntryId(next)] = NewOrder(Units)]
  /\ Become("tick", [IdleJob EXCEPT !.pc = "entry", !.tr = next])
  /\ UNCHANGED <<proc, trades, strikes, pos, owner, closing, ks>>

(* _await_fill, then insert_open with what was filled by then, or give up.    *)
AwaitEntry ==
  LET n == job["tick"].tr
      o == orders[EntryId(n)]
  IN /\ At("tick", "entry")
     /\ \/ Terminal(EntryId(n)) /\ NoFault
        \/ ~Terminal(EntryId(n)) /\ Fault("slow")
     /\ IF o.filled > 0
        THEN /\ trades' = [trades EXCEPT ![n] =
                             [status |-> "OPEN_UNPROTECTED", units |-> o.filled,
                              sl_order_id |-> NoId, exit_reason |-> "none"]]
             /\ Become("tick", [job["tick"] EXCEPT !.pc = "place", !.qty = o.filled])
        ELSE /\ Become("tick", IdleJob)
             /\ UNCHANGED trades
     /\ UNCHANGED <<proc, strikes, broker, ks, next, cycled>>

-----------------------------------------------------------------------------
(* Placing a stop: _place_stop from open() (attempt 0) and _replace_stop      *)
(* (attempts 1 to 3).                                                         *)

StopPlaced(t) ==
  LET j == job[t]
      o == StopId(j.tr, j.attempt)
  IN /\ At(t, "place")
     /\ orders[o].status = "none"
     /\ orders' = [orders EXCEPT ![o] = NewOrder(j.qty)]
     /\ Goto(t, "mark")
     /\ UNCHANGED <<proc, trades, strikes, pos, owner, closing, ks, next, cycled, faults>>

(* Refused: try the next tag; after the last, exit with the row as it is now  *)
(* (open(), through trades.get) or as the snapshot has it (_replace_stop).    *)
StopRefused(t) ==
  LET j == job[t]
  IN /\ At(t, "place")
     /\ \/ orders[StopId(j.tr, j.attempt)].status # "none" /\ NoFault
        \/ orders[StopId(j.tr, j.attempt)].status = "none" /\ Fault("reject_stop")
     /\ Become(t,
          IF j.attempt \in 1..(LastAttempt - 1) THEN [j EXCEPT !.attempt = j.attempt + 1]
          ELSE [j EXCEPT !.pc = "exit", !.why = "UNPROTECTED",
                         !.seen = IF t = "tick" THEN OpenStops ELSE j.seen])
     /\ UNCHANGED <<proc, trades, strikes, broker, ks, next, cycled>>

(* set_status(OPEN_PROTECTED, sl_order_id): open() is done, the monitor goes  *)
(* on with this trade, main with the older rows.                              *)
MarkProtected(t) ==
  LET j == job[t]
      row == [trades[j.tr] EXCEPT !.status = "OPEN_PROTECTED",
                                  !.sl_order_id = StopId(j.tr, j.attempt)]
  IN /\ At(t, "mark")
     /\ WriteRow(t, j.tr, row,
          IF t = "mon" THEN [j EXCEPT !.pc = "decide"] ELSE NextTrade(t))
     /\ UNCHANGED <<strikes, broker, ks, next, cycled, faults>>

(* The first line of _replace_stop. *)
BeginReplace(t) ==
  LET j == job[t]
  IN /\ At(t, "replace")
     /\ WriteRow(t, j.tr, [trades[j.tr] EXCEPT !.status = "OPEN_UNPROTECTED"],
                 [j EXCEPT !.pc = "place", !.attempt = 1])
     /\ UNCHANGED <<strikes, broker, ks, next, cycled, faults>>

-----------------------------------------------------------------------------
(* monitor(): the mon thread. *)

StartMonitor ==
  /\ proc = "up"
  /\ CanStart("mon")
  /\ open_trades # {}
  /\ LET n == First(open_trades)
     IN Become("mon", [IdleJob EXCEPT !.pc = "check", !.tr = n, !.seen = OpenStops,
                                      !.todo = open_trades \ {n}, !.ks = ks])
  /\ cycled' = TRUE
  /\ UNCHANGED <<proc, trades, strikes, broker, ks, next, faults>>

(* (a) _get_stop_order on the snapshot's sl_order_id; an error reads as None. *)
CheckStop ==
  LET j == job["mon"]
      o == j.seen[j.tr]
  IN /\ At("mon", "check")
     /\ \/ /\ StatusOf(o) = "filled"
           /\ Become("mon", [j EXCEPT !.pc = "close", !.why = "SL"])
           /\ NoFault
        \/ /\ StatusOf(o) # "filled"
           /\ Become("mon", [j EXCEPT !.pc = "position", !.stop_ok = Working(o)])
           /\ NoFault
        \/ /\ o # NoId
           /\ Fault("query")
           /\ Become("mon", [j EXCEPT !.pc = "position", !.stop_ok = FALSE])
     /\ UNCHANGED <<proc, trades, strikes, broker, ks, next, cycled>>

(* Flat, then (e) the kill switch, then (g) the missing stop, then the rest.  *)
PlanWithoutStopCheck(j, q) ==
  IF q = 0 THEN "history" ELSE IF j.ks THEN "exit" ELSE "decide"
PlanWithoutFlatCheck(j, q) ==
  IF j.ks THEN "exit" ELSE IF ~j.stop_ok /\ q > 0 THEN "replace" ELSE "decide"
MonitorPlan(j, q) ==
  CASE q = 0 -> "history"
    [] q > 0 /\ j.ks -> "exit"
    [] q > 0 /\ ~j.ks /\ ~j.stop_ok -> "replace"
    [] OTHER -> "decide"

CheckPosition ==
  LET j == job["mon"]
  IN /\ At("mon", "position")
     /\ \E q \in {0, pos} :
          /\ PositionQty(q)
          /\ LET plan == MonitorPlan(j, q)
             IN Become("mon", [j EXCEPT !.pc = plan,
                                        !.qty = IF plan = "replace" THEN q ELSE 0,
                                        !.why = IF plan = "exit" THEN "KILL_SWITCH" ELSE "none"])
     /\ UNCHANGED <<proc, trades, strikes, broker, ks, next, cycled>>

(* (f) the failsafe, (b) the target, (d) the hard cap, (c) the time stop.     *)
Decide ==
  LET j == job["mon"]
      ExitFor(why) == Become("mon", [j EXCEPT !.pc = "exit", !.why = why])
  IN /\ At("mon", "decide")
     /\ \E below \in BOOLEAN :
          \/ /\ below /\ strikes[j.tr] = 1
             /\ strikes' = [strikes EXCEPT ![j.tr] = 0]
             /\ ExitFor("SL_FAILSAFE")
          \/ /\ below => strikes[j.tr] = 0
             /\ strikes' = [strikes EXCEPT ![j.tr] = IF below THEN 1 ELSE 0]
             /\ \/ Become("mon", NextTrade("mon"))
                \/ \E why \in PlannedExits : (below => why # "TP") /\ ExitFor(why)
     /\ UNCHANGED <<proc, trades, broker, ks, next, cycled, faults>>

-----------------------------------------------------------------------------
(* _exit_now, from any thread. *)

StartFlatten ==
  /\ CanStart("cli")
  /\ open_trades # {}
  /\ Fault("flatten")
  /\ LET n == First(open_trades)
     IN Become("cli", [IdleJob EXCEPT !.pc = "exit", !.tr = n, !.seen = OpenStops,
                                      !.todo = open_trades \ {n}, !.why = "MANUAL"])
  /\ UNCHANGED <<proc, trades, strikes, broker, ks, next, cycled>>

ExitUnmarked(row) == row
Exiting(row) == [row EXCEPT !.status = "PENDING_EXIT"]

BeginExit(t) ==
  LET j == job[t]
  IN /\ At(t, "exit")
     /\ WriteRow(t, j.tr, Exiting(trades[j.tr]),
                 [j EXCEPT !.pc = IF j.seen[j.tr] = NoId THEN "qty" ELSE "cancel"])
     /\ UNCHANGED <<strikes, broker, ks, next, cycled, faults>>

(* Only the stop the snapshot names is cancelled, and a failure is only logged. *)
CancelStop(t) ==
  LET o == job[t].seen[job[t].tr]
  IN /\ At(t, "cancel")
     /\ \/ /\ orders' = IF Working(o) THEN [orders EXCEPT ![o].status = "canceled"]
                                      ELSE orders
           /\ NoFault
        \/ Working(o) /\ Fault("cancel") /\ UNCHANGED orders
     /\ Goto(t, "qty")
     /\ UNCHANGED <<proc, trades, strikes, pos, owner, closing, ks, next, cycled>>

(* self._position_qty() or trade.units *)
ReadExitQty(t) ==
  LET j == job[t]
  IN /\ At(t, "qty")
     /\ \E q \in {0, pos} :
          /\ PositionQty(q)
          /\ Become(t, [j EXCEPT !.pc = "sell",
                                 !.qty = IF q > 0 THEN q ELSE trades[j.tr].units])
     /\ UNCHANGED <<proc, trades, strikes, broker, ks, next, cycled>>

ExitAccepted(t) ==
  LET j == job[t]
      o == ExitId(j.tr, j.why)
  IN /\ At(t, "sell")
     /\ orders[o].status = "none"
     /\ j.qty <= pos
     /\ orders' = [orders EXCEPT ![o] = NewOrder(j.qty)]
     /\ Goto(t, "fill")
     /\ UNCHANGED <<proc, trades, strikes, pos, owner, closing, ks, next, cycled, faults>>

(* The broker refuses a tag it has seen and a sale of more than it holds.     *)
ExitRefused(t) ==
  LET j == job[t]
      refused == orders[ExitId(j.tr, j.why)].status # "none" \/ j.qty > pos
  IN /\ At(t, "sell")
     /\ \/ refused /\ NoFault
        \/ ~refused /\ Fault("reject_exit")
     /\ Goto(t, "unsold")
     /\ UNCHANGED <<proc, trades, strikes, broker, ks, next, cycled>>

(* _await_fill and _close_from_order: any fill at all closes the row.         *)
CloseUnfilled(o) == "close"
ExitOutcome(o) == IF orders[o].filled > 0 THEN "close" ELSE "unsold"

AwaitExit(t) ==
  LET j == job[t]
      o == ExitId(j.tr, j.why)
  IN /\ At(t, "fill")
     /\ \/ Terminal(o) /\ NoFault
        \/ ~Terminal(o) /\ Fault("slow")
     /\ Goto(t, ExitOutcome(o))
     /\ UNCHANGED <<proc, trades, strikes, broker, ks, next, cycled>>

MarkUnsold(t) ==
  LET j == job[t]
  IN /\ At(t, "unsold")
     /\ WriteRow(t, j.tr, [trades[j.tr] EXCEPT !.status = "OPEN_UNPROTECTED"], NextTrade(t))
     /\ UNCHANGED <<strikes, broker, ks, next, cycled, faults>>

(* _close_from_broker_history: a filled sell whose tag starts with the        *)
(* trade's names the reason, or there is none to attribute.                   *)
EverySaleReconciled(o) == "RECONCILED"
SuffixOfTag(o) == o[2]
SaleReason(o) == IF o \in StopIds THEN "SL" ELSE "RECONCILED"

History(t) ==
  LET j == job[t]
      soldBy == {o \in StopIds \cup ExitIds :
                   o[1] = j.tr /\ Terminal(o) /\ orders[o].filled > 0}
      Found(why) == Become(t, [j EXCEPT !.pc = "close", !.why = why])
  IN /\ At(t, "history")
     /\ \/ \E o \in soldBy :
             Found(SaleReason(o)) /\ NoFault
        \/ soldBy = {} /\ Found("RECONCILED") /\ NoFault
        \/ soldBy # {} /\ Found("RECONCILED") /\ Fault("query")
     /\ UNCHANGED <<proc, trades, strikes, broker, ks, next, cycled>>

(* _finalize: mark_closed, then the strike counter is dropped.                *)
MarkClosed(t) ==
  LET j == job[t]
      row == [trades[j.tr] EXCEPT !.status = "CLOSED", !.exit_reason = j.why]
  IN /\ At(t, "close")
     /\ \/ WriteAborted(t, j.tr) /\ UNCHANGED strikes
        \/ /\ WriteDone(t, j.tr, row, NextTrade(t))
           /\ strikes' = IF t = "cli" THEN strikes ELSE [strikes EXCEPT ![j.tr] = 0]
     /\ UNCHANGED <<broker, ks, next, cycled, faults>>

-----------------------------------------------------------------------------
(* reconcile_on_boot(): the main thread, before the scheduler starts.         *)

Boot ==
  /\ proc = "down"
  /\ CanStart("main")
  /\ EntriesSettled
  /\ proc' = "boot"
  /\ Become("main", [IdleJob EXCEPT !.pc = "boot_position", !.todo = open_trades,
                                    !.seen = OpenStops])
  /\ UNCHANGED <<trades, strikes, broker, ks, next, cycled>>

BootPlan(rows, q) ==
  CASE rows # {} /\ q > 0 -> "adopt"
    [] rows # {} /\ q = 0 -> "close_all"
    [] rows = {} /\ q > 0 -> "orphan"
    [] OTHER -> "sweep"

BootPosition ==
  LET j == job["main"]
      rows == j.todo
  IN /\ At("main", "boot_position")
     /\ \E q \in {0, pos} :
          /\ PositionQty(q)
          /\ Become("main",
               CASE BootPlan(rows, q) = "adopt" ->
                      [j EXCEPT !.pc = "adopt", !.tr = Last(rows),
                                !.todo = rows \ {Last(rows)}, !.qty = q]
                 [] BootPlan(rows, q) = "close_all" -> NextTrade("main")
                 [] OTHER -> [j EXCEPT !.pc = BootPlan(rows, q)])
     /\ UNCHANGED <<proc, trades, strikes, broker, ks, next, cycled>>

(* The newest open row is adopted, its stop re-placed when it is not working; *)
(* older rows are closed from the broker's history.                           *)
AdoptNewest ==
  LET j == job["main"]
      ok == Working(j.seen[j.tr])
  IN /\ At("main", "adopt")
     /\ \/ ok /\ Become("main", NextTrade("main")) /\ NoFault
        \/ ~ok /\ Goto("main", "replace") /\ NoFault
        \/ ok /\ Goto("main", "replace") /\ Fault("query")
     /\ UNCHANGED <<proc, trades, strikes, broker, ks, next, cycled>>

(* broker.close_position: a market order for all that is held, which nobody   *)
(* awaits; the broker refuses a second one.                                   *)
FlattenOrphan ==
  /\ At("main", "orphan")
  /\ \/ closing = 0 /\ closing' = pos /\ NoFault
     \/ closing # 0 /\ UNCHANGED closing /\ NoFault
     \/ closing = 0 /\ UNCHANGED closing /\ Fault("close")
  /\ Goto("main", "sweep")
  /\ UNCHANGED <<proc, trades, strikes, orders, pos, owner, ks, next, cycled>>

(* Cancel every open order no open row names as its stop, the one that was     *)
(* just sent to flatten an orphan included; an error ends the sweep part of   *)
(* the way through.                                                           *)
Sweep ==
  LET live == {trades[n].sl_order_id : n \in open_trades}
      stray == {o \in OrderIds \ live : Working(o)}
      Cancelled(S) == orders' = [o \in OrderIds |->
                        IF o \in S THEN [orders[o] EXCEPT !.status = "canceled"] ELSE orders[o]]
  IN /\ At("main", "sweep")
     /\ \/ Cancelled(stray) /\ closing' = 0 /\ NoFault
        \/ \E S \in SUBSET stray :
             Cancelled(S) /\ closing' \in {0, closing} /\ Fault("query")
     /\ Goto("main", "ready")
     /\ UNCHANGED <<proc, trades, strikes, pos, owner, ks, next, cycled>>

StartScheduler ==
  /\ At("main", "ready")
  /\ proc' = "up"
  /\ Become("main", IdleJob)
  /\ UNCHANGED <<trades, strikes, broker, ks, next, cycled, faults>>

-----------------------------------------------------------------------------
(* Jobs and processes that stop part of the way through. *)

JobDies(t) ==
  /\ ~At(t, "idle")
  /\ Fault(IF At(t, "entry") THEN "raise_entry" ELSE "raise")
  /\ Become(t, IdleJob)
  /\ proc' = IF t = "main" THEN "down" ELSE proc
  /\ UNCHANGED <<trades, strikes, broker, ks, next, cycled>>

Crash ==
  /\ proc # "down"
  /\ Fault("crash")
  /\ proc' = "down"
  /\ job' = [t \in Threads |-> IF t = "cli" THEN job[t] ELSE IdleJob]
  /\ strikes' = [n \in Trades |-> 0]
  /\ UNCHANGED <<trades, broker, ks, next, cycled>>

-----------------------------------------------------------------------------
(* The broker and the kill switch. *)

(* An immediate-or-cancel buy: filled, or what could not be is cancelled.     *)
ResolveEntry(n) ==
  LET o == EntryId(n)
      Bought(q, status) ==
        /\ orders' = [orders EXCEPT ![o].status = status, ![o].filled = q]
        /\ pos' = pos + q
        /\ owner' = IF q > 0 THEN n ELSE owner
  IN /\ orders[o].status = "new"
     /\ \/ Bought(orders[o].qty, "filled") /\ NoFault
        \/ \E q \in 1..(orders[o].qty - 1) : Bought(q, "canceled") /\ Fault("partial")
        \/ Bought(0, "canceled") /\ Fault("unfilled")
     /\ UNCHANGED <<proc, job, trades, strikes, closing, ks, next, cycled>>

(* An immediate-or-cancel sell, never of more than is held.                   *)
ResolveExit(o) ==
  LET most == IF orders[o].qty <= pos THEN orders[o].qty ELSE pos
      Sold(q) ==
        /\ orders' = [orders EXCEPT ![o].status = IF q = orders[o].qty THEN "filled"
                                                                       ELSE "canceled",
                                    ![o].filled = q]
        /\ pos' = pos - q
  IN /\ orders[o].status = "new"
     /\ \/ Sold(most) /\ NoFault
        \/ \E q \in 1..(most - 1) : Sold(q) /\ Fault("partial")
        \/ most > 0 /\ Sold(0) /\ Fault("unfilled")
     /\ UNCHANGED <<proc, job, trades, strikes, owner, closing, ks, next, cycled>>

(* The order of close_position: filled, or what could not be is cancelled.     *)
ResolveClose ==
  LET most == IF closing <= pos THEN closing ELSE pos
  IN /\ closing > 0
     /\ closing' = 0
     /\ \/ pos' = pos - most /\ NoFault
        \/ \E q \in 1..(most - 1) : pos' = pos - q /\ Fault("partial")
        \/ most > 0 /\ pos' = pos /\ Fault("unfilled")
     /\ UNCHANGED <<proc, job, trades, strikes, orders, owner, ks, next, cycled>>

(* A resting stop triggers. *)
TriggerStop(o) ==
  LET left == orders[o].qty - orders[o].filled
      most == IF left <= pos THEN left ELSE pos
      Sold(q) ==
        /\ orders' = [orders EXCEPT ![o].status = IF q = left THEN "filled"
                                                              ELSE "partially_filled",
                                    ![o].filled = @ + q]
        /\ pos' = pos - q
  IN /\ Working(o)
     /\ pos > 0
     /\ \/ Sold(most) /\ NoFault
        \/ \E q \in 1..(most - 1) : Sold(q) /\ Fault("partial")
     /\ UNCHANGED <<proc, job, trades, strikes, owner, closing, ks, next, cycled>>

LoseStop(o) ==
  /\ Working(o)
  /\ Fault("stop_lost")
  /\ orders' = [orders EXCEPT ![o].status = "expired"]
  /\ UNCHANGED <<proc, job, trades, strikes, pos, owner, closing, ks, next, cycled>>

SetKillSwitch ==
  /\ Fault("kill_switch")
  /\ ks' = ~ks
  /\ UNCHANGED <<proc, job, trades, strikes, broker, next, cycled>>

-----------------------------------------------------------------------------

OpenStep == SubmitEntry \/ AwaitEntry
MonitorStep == StartMonitor \/ CheckStop \/ CheckPosition \/ Decide
BootStep == Boot \/ BootPosition \/ AdoptNewest \/ FlattenOrphan \/ Sweep \/ StartScheduler
SharedStep(t) ==
  \/ StopPlaced(t) \/ StopRefused(t) \/ MarkProtected(t) \/ BeginReplace(t)
  \/ BeginExit(t) \/ CancelStop(t) \/ ReadExitQty(t) \/ ExitAccepted(t) \/ ExitRefused(t)
  \/ AwaitExit(t) \/ MarkUnsold(t) \/ History(t) \/ MarkClosed(t)
MarketStep ==
  \/ \E n \in Trades : ResolveEntry(n)
  \/ \E o \in ExitIds : ResolveExit(o)
  \/ ResolveClose
StopStep == \E o \in StopIds : TriggerStop(o) \/ LoseStop(o)
FailStep == Crash \/ \E t \in Threads : JobDies(t)

Next ==
  \/ OpenStep
  \/ MonitorStep
  \/ BootStep
  \/ StartFlatten
  \/ \E t \in Threads : SharedStep(t)
  \/ MarketStep
  \/ StopStep
  \/ FailStep
  \/ SetKillSwitch

Spec == Init /\ [][Next]_vars

(* Fairness: a started job goes on, APScheduler fires the monitor every       *)
(* minute, the supervisor restarts the process, and the broker resolves an    *)
(* immediate-or-cancel order.  Nothing obliges the tick to find an entry, a   *)
(* stop to trigger, the operator to act or a fault to occur.                  *)
Fairness ==
  /\ WF_vars(AwaitEntry)
  /\ WF_vars(MonitorStep)
  /\ WF_vars(BootStep)
  /\ \A t \in Threads : WF_vars(SharedStep(t))
  /\ WF_vars(MarketStep)

FairSpec == Spec /\ Fairness

-----------------------------------------------------------------------------
(* Properties. *)

Held(n) == IF owner = n THEN pos ELSE 0

(* The variables keep their types: the persisted statuses are those of the    *)
(* CHECK constraint on trades.status.                                         *)
TypeOK ==
  /\ proc \in {"down", "boot", "up"}
  /\ job \in [Threads -> Job]
  /\ trades \in [Trades -> TradeRow]
  /\ strikes \in [Trades -> 0..1]
  /\ orders \in [OrderIds -> Order]
  /\ pos \in Nat
  /\ owner \in Trades \cup {0}
  /\ closing \in Nat
  /\ ks \in BOOLEAN
  /\ next \in 1..(MaxTrades + 1)
  /\ cycled \in BOOLEAN
  /\ faults \in 0..MaxFaults

(* "One position at a time, ever": the broker never holds more than one       *)
(* entry's units.                                                             *)
NeverAdds == pos <= Units

(* A row is closed only when the units its entry bought are gone, whichever    *)
(* of the six paths to _finalize closes it and whoever else is selling: what  *)
(* is CLOSED is never looked at again, so units left behind would have no     *)
(* stop, no target and no time cap.                                           *)
ClosedMeansFlat == \A n \in Trades : trades[n].status = "CLOSED" => Held(n) = 0

(* OPEN_PROTECTED is not a stale label: while the units are held, the stop the *)
(* row names is working, or it is the broker that dropped it (then _monitor_one*)
(* (g) re-places it).  No exit, no boot sweep and no competing thread cancels *)
(* or uses up the stop of a row that still says OPEN_PROTECTED.               *)
ProtectedMeansStop ==
  \A n \in Trades :
    trades[n].status = "OPEN_PROTECTED" /\ Held(n) > 0 =>
      LET o == trades[n].sl_order_id
      IN o # NoId /\ orders[o].status \in {"new", "partially_filled", "expired"}

(* While the scheduler runs, units the broker holds are watched: an open row   *)
(* brings the monitor to them, or the entry is still being polled.  That is,  *)
(* unless the process dies, or _submit_entry raises, between the entry's fill *)
(* and its row: the boot then finds units without a row and flattens them,    *)
(* but its own sweep cancels the order that was to do it (swept_orphan).      *)
ManagedPosition ==
  pos > 0 /\ proc = "up" => open_trades # {} \/ At("tick", "entry")

(* A trade only its stop has sold is recorded as stopped out (reason SL), even *)
(* when the fill is found by the boot or by an exit that lost the race: the   *)
(* consecutive-loss and daily-loss brakes are fed from what was recorded.     *)
(* That is, as long as no trade sells twice: the second of two stops the tick *)
(* and the monitor placed for one trade sells the next trade's units, whose   *)
(* row then finds no sale of its own.                                         *)
Sold == {o \in StopIds \cup ExitIds : orders[o].filled > 0}
SoldOnce == \A o, p \in Sold : o[1] = p[1] => o = p
StopOutIsNamed ==
  SoldOnce =>
    \A n \in Trades :
      /\ trades[n].status = "CLOSED"
      /\ \E o \in StopIds : o[1] = n /\ orders[o].status = "filled"
      /\ \A o \in ExitIds : o[1] = n => orders[o].filled = 0
      => trades[n].exit_reason = "SL"

(* open() leaves nothing behind and _exit_now cancels the resting stop before  *)
(* it sells: no stop of a closed trade keeps resting at the broker.           *)
ClosedLeavesNoStop ==
  \A n \in Trades : trades[n].status = "CLOSED" =>
    \A o \in StopIds : o[1] = n => ~Working(o)

(* A closed row never changes again: whatever the monitor, the tick, the boot  *)
(* and the CLI do with a stale snapshot, trades_immutable_once_closed stops it.*)
ClosedForever ==
  [][\A n \in Trades : trades[n].status = "CLOSED" => trades'[n] = trades[n]]_vars

(* Units are held and no stop at all is working for them. *)
Naked == pos > 0 /\ \A o \in StopIds : ~Working(o)
(* A position without a stop does not stay so: the monitor, or the boot after  *)
(* a crash, places a stop again or sells.                                     *)
NakedIsHandled == Naked ~> ~Naked
(* An open row whose units are gone is eventually closed: the stop's fill, the *)
(* broker's history or an exit that finds nothing to sell gets it recorded.   *)
GoneIsRecorded ==
  \A n \in Trades : (n \in open_trades /\ Held(n) = 0) ~> trades[n].status = "CLOSED"

-----------------------------------------------------------------------------
(* The abstract specification. *)

RowOf(n) == CASE trades[n].status = "NONE" -> "none"
              [] trades[n].status = "CLOSED" -> "closed"
              [] OTHER -> "open"

Book == INSTANCE PositionBook WITH
  bought <- [n \in Trades |-> orders[EntryId(n)].filled],
  held <- [n \in Trades |-> Held(n)],
  row <- [n \in Trades |-> RowOf(n)]

(* With any two threads between each other's steps, and a crash, an exception, *)
(* a refused stop or an exit that does not fill: every step is one of the book*)
(* or none.  Nothing is bought on top of a position, no row without a fill, no*)
(* row closed over units that are still there, none reopened, and never two   *)
(* of these at once.                                                          *)
RefinesBook == Book!Spec

=============================================================================
