----------------------- MODULE PositionManagerProofs -----------------------
(***************************************************************************)
(* What holds of PositionManager for every number of trades, order size,    *)
(* set of faults and budget of faults, whether or not the jobs overlap.     *)
(***************************************************************************)
EXTENDS PositionManager, FiniteSetTheorems, WellFoundedInduction, TLAPS

-----------------------------------------------------------------------------
(* First and Last choose members of the set they are given: open_trades() is  *)
(* never left for a trade that it did not return.                             *)

LEMMA SmallestImage ==
  ASSUME NEW S \in SUBSET Trades, S # {},
         NEW f \in [Trades -> SUBSET Trades]
  PROVE  \E x \in S : \A y \in S : f[y] \subseteq f[x] => f[y] = f[x]
<1> DEFINE T == {f[n] : n \in S}
<1>1. T # {} /\ \A s \in T : s \in SUBSET Trades
  OBVIOUS
<1>2. T \subseteq FiniteSubsetsOf(Trades)
  BY ConstantsAssumption, FS_Interval, FS_FiniteSubsetsOfFinite, <1>1 DEF Trades
<1> HIDE DEF T
<1>3. PICK s \in T : \A t \in T : ~ (<<t, s>> \in StrictSubsetOrdering(Trades))
  BY <1>1, <1>2, FS_StrictSubsetOrderingWellFounded, WFMin
<1>4. ASSUME NEW t \in T, t \subseteq s PROVE t = s
  BY <1>1, <1>3, <1>4 DEF StrictSubsetOrdering
<1> QED BY <1>4 DEF T

LEMMA FirstIn ==
  ASSUME NEW S \in SUBSET Trades, S # {}
  PROVE First(S) \in S
<1> DEFINE f == [n \in Trades |-> 1..n]
<1>1. f \in [Trades -> SUBSET Trades]
  BY ConstantsAssumption DEF Trades
<1>2. PICK x \in S : \A y \in S : f[y] \subseteq f[x] => f[y] = f[x]
  <2> HIDE DEF f
  <2> QED BY <1>1, SmallestImage
<1>3. ASSUME NEW y \in S PROVE x <= y
  <2>1. x \in 1..x /\ x \in Nat /\ y \in Nat
    BY ConstantsAssumption DEF Trades
  <2>2. SUFFICES ASSUME y < x PROVE FALSE
    BY <2>1
  <2>3. f[y] \subseteq f[x] /\ x \notin f[y] /\ x \in f[x]
    BY <2>1, <2>2
  <2> QED BY <2>3, <1>2
<1> QED BY <1>3 DEF First

LEMMA LastIn ==
  ASSUME NEW S \in SUBSET Trades, S # {}
  PROVE Last(S) \in S /\ \A m \in S : m <= Last(S)
<1> DEFINE f == [n \in Trades |-> n..MaxTrades]
<1>1. f \in [Trades -> SUBSET Trades]
  BY ConstantsAssumption DEF Trades
<1>2. PICK x \in S : \A y \in S : f[y] \subseteq f[x] => f[y] = f[x]
  <2> HIDE DEF f
  <2> QED BY <1>1, SmallestImage
<1>3. ASSUME NEW y \in S PROVE y <= x
  <2>1. x \in x..MaxTrades /\ x \in Nat /\ y \in Nat
    BY ConstantsAssumption DEF Trades
  <2>2. SUFFICES ASSUME x < y PROVE FALSE
    BY <2>1
  <2>3. f[y] \subseteq f[x] /\ x \notin f[y] /\ x \in f[x]
    BY <2>1, <2>2
  <2> QED BY <2>3, <1>2
<1> QED BY <1>3 DEF Last

-----------------------------------------------------------------------------
(* Type correctness.  A job past its first step has a trade in hand, or the   *)
(* rows it reads and the tags it makes would not be there.                    *)

Unbound == {"idle", "boot_position", "orphan", "sweep", "ready"}
BoundJob == {j \in Job : j.pc \notin Unbound => j.tr \in Trades}
TypeInv == TypeOK /\ job \in [Threads -> BoundJob]

LEMMA IdleBound == IdleJob \in BoundJob
BY DEF IdleJob, BoundJob, Job, Labels, Unbound, CloseReasons, NoId

LEMMA BecomeBound ==
  ASSUME TypeInv, NEW t \in Threads, NEW j \in BoundJob, Become(t, j)
  PROVE  job' \in [Threads -> BoundJob]
BY DEF TypeInv, Become

LEMMA LabelBound ==
  ASSUME NEW j \in Job, NEW label \in Labels,
         label \notin Unbound => j.tr \in Trades
  PROVE  [j EXCEPT !.pc = label] \in BoundJob
BY DEF BoundJob, Job

LEMMA TakeBound ==
  ASSUME NEW j \in Job, NEW label \in Labels, NEW n \in Trades, NEW rest \in SUBSET Trades,
         NEW seen \in [Trades -> StopIds \cup {NoId}], NEW k \in BOOLEAN,
         NEW why \in CloseReasons \cup {"none"}
  PROVE  [j EXCEPT !.pc = label, !.tr = n, !.todo = rest, !.seen = seen, !.ks = k,
                   !.why = why] \in BoundJob
BY DEF BoundJob, Job

LEMMA NextTradeBound ==
  ASSUME TypeInv, NEW t \in Threads
  PROVE  NextTrade(t) \in BoundJob
<1> DEFINE n == First(job[t].todo)
           Take(label, why) ==
             [IdleJob EXCEPT !.pc = label, !.tr = n, !.todo = job[t].todo \ {n},
                             !.seen = job[t].seen, !.ks = job[t].ks, !.why = why]
<1>1. \/ NextTrade(t) \in {IdleJob, [IdleJob EXCEPT !.pc = "ready"], [IdleJob EXCEPT !.pc = "sweep"]}
      \/ /\ job[t].todo # {}
         /\ NextTrade(t) \in {Take("history", "none"), Take("check", "none"), Take("exit", "MANUAL")}
  BY DEF NextTrade
<1>2. IdleJob \in Job /\ job[t] \in Job
  BY IdleBound DEF TypeInv, TypeOK, BoundJob
<1>3. [IdleJob EXCEPT !.pc = "ready"] \in BoundJob /\ [IdleJob EXCEPT !.pc = "sweep"] \in BoundJob
  <2>1. "ready" \in Labels \cap Unbound /\ "sweep" \in Labels \cap Unbound
    BY DEF Labels, Unbound
  <2> QED BY <1>2, <2>1, LabelBound
<1>4. ASSUME job[t].todo # {}
      PROVE  /\ Take("history", "none") \in BoundJob
             /\ Take("check", "none") \in BoundJob
             /\ Take("exit", "MANUAL") \in BoundJob
  <2>1. /\ n \in Trades
        /\ job[t].todo \ {n} \in SUBSET Trades
        /\ job[t].seen \in [Trades -> StopIds \cup {NoId}]
        /\ job[t].ks \in BOOLEAN
    BY <1>2, <1>4, FirstIn DEF Job
  <2>2. {"history", "check", "exit"} \subseteq Labels
    BY DEF Labels
  <2>3. {"none", "MANUAL"} \subseteq CloseReasons \cup {"none"}
    BY DEF CloseReasons, ExitReasons
  <2>4. ASSUME NEW label \in Labels, NEW why \in CloseReasons \cup {"none"}
        PROVE  Take(label, why) \in BoundJob
    BY <1>2, <2>1, TakeBound
  <2> HIDE DEF Take
  <2>5. \A label \in Labels, why \in CloseReasons \cup {"none"} : Take(label, why) \in BoundJob
    BY <2>4
  <2>6. /\ "history" \in Labels /\ "check" \in Labels /\ "exit" \in Labels
        /\ "none" \in CloseReasons \cup {"none"} /\ "MANUAL" \in CloseReasons \cup {"none"}
    BY <2>2, <2>3
  <2> QED BY <2>5, <2>6, Zenon
<1> QED BY <1>1, <1>3, <1>4, IdleBound

LEMMA WriteRowType ==
  ASSUME TypeInv, NEW t \in Threads, NEW n, NEW row \in TradeRow, NEW j \in BoundJob,
         WriteRow(t, n, row, j)
  PROVE  /\ trades' \in [Trades -> TradeRow]
         /\ job' \in [Threads -> BoundJob]
         /\ proc' \in {"down", "boot", "up"}
<1>1. CASE WriteAborted(t, n)
  BY <1>1, IdleBound, BecomeBound DEF WriteAborted, TypeInv, TypeOK
<1>2. CASE WriteDone(t, n, row, j)
  BY <1>2, BecomeBound DEF WriteDone, TypeInv, TypeOK
<1> QED BY <1>1, <1>2 DEF WriteRow

LEMMA OrdersType ==
  ASSUME TypeInv, NEW o, NEW r \in Order, orders' = [orders EXCEPT ![o] = r]
  PROVE  orders' \in [OrderIds -> Order]
BY DEF TypeInv, TypeOK

LEMMA OrderUpdateType ==
  ASSUME NEW x \in Order, NEW status \in OrderStatuses, NEW filled \in Nat
  PROVE  /\ [x EXCEPT !.status = status] \in Order
         /\ [x EXCEPT !.status = status, !.filled = filled] \in Order
         /\ NewOrder(filled) \in Order
BY DEF Order, NewOrder, OrderStatuses

LEMMA OpenTradesType ==
  ASSUME TypeInv
  PROVE  /\ open_trades \in SUBSET Trades
         /\ OpenStops \in [Trades -> StopIds \cup {NoId}]
         /\ open_trades # {} => /\ First(open_trades) \in Trades
                               /\ open_trades \ {First(open_trades)} \in SUBSET Trades
<1>1. open_trades \in SUBSET Trades
  BY DEF open_trades
<1>2. OpenStops \in [Trades -> StopIds \cup {NoId}]
  BY DEF TypeInv, TypeOK, OpenStops, TradeRow
<1> QED BY <1>1, <1>2, FirstIn

LEMMA StatusType ==
  ASSUME NEW row \in TradeRow, NEW status \in TradeStatuses
  PROVE  [row EXCEPT !.status = status] \in TradeRow
BY DEF TradeRow

LEMMA SuffixType ==
  ASSUME NEW a \in 0..3
  PROVE  StopSuffix(a) \in StopSuffixes
BY DEF StopSuffix, StopSuffixes

LEMMA GotoBound ==
  ASSUME TypeInv, NEW t \in Threads, NEW label \in Labels,
         label \in Unbound \/ job[t].tr \in Trades, Goto(t, label)
  PROVE  job' \in [Threads -> BoundJob] /\ job' \in [Threads -> Job]
<1>1. job[t] \in Job
  BY DEF TypeInv, TypeOK
<1>2. [job[t] EXCEPT !.pc = label] \in BoundJob
  BY <1>1, LabelBound
<1> QED BY <1>1, <1>2 DEF Goto, TypeInv, TypeOK, BoundJob

LEMMA FaultType ==
  ASSUME TypeInv, NEW kind, NoFault \/ Fault(kind)
  PROVE  faults' \in 0..MaxFaults
BY ConstantsAssumption DEF TypeInv, TypeOK, NoFault, Fault

LEMMA TypeInit == Init => TypeInv
<1> SUFFICES ASSUME Init PROVE TypeInv
  OBVIOUS
<1>1. job \in [Threads -> BoundJob] /\ job \in [Threads -> Job]
  BY IdleBound DEF Init, BoundJob
<1>2. trades \in [Trades -> TradeRow]
  BY DEF Init, NoTrade, TradeRow, TradeStatuses
<1>3. orders \in [OrderIds -> Order]
  BY DEF Init, NoOrder, Order, OrderStatuses
<1>4. ks \in BOOLEAN /\ cycled \in BOOLEAN
  BY Zenon DEF Init
<1>5. /\ proc \in {"down", "boot", "up"}
      /\ strikes \in [Trades -> 0..1]
      /\ pos \in Nat
      /\ owner \in Trades \cup {0}
      /\ closing \in Nat
      /\ next \in 1..(MaxTrades + 1)
      /\ faults \in 0..MaxFaults
  BY ConstantsAssumption DEF Init
<1> QED BY <1>1, <1>2, <1>3, <1>4, <1>5 DEF TypeInv, TypeOK

(* One step of each kind. *)

LEMMA TypeOpenStep == TypeInv /\ OpenStep => TypeInv'
<1> SUFFICES ASSUME TypeInv, OpenStep PROVE TypeInv'
  OBVIOUS
<1> USE DEF TypeInv, TypeOK
<1>1. CASE SubmitEntry
  <2>1. [IdleJob EXCEPT !.pc = "entry", !.tr = next] \in BoundJob
    <3>1. ASSUME NEW j \in Job PROVE [j EXCEPT !.pc = "entry", !.tr = next] \in BoundJob
      BY <1>1 DEF SubmitEntry, BoundJob, Job, Labels
    <3> QED BY <3>1, IdleBound DEF BoundJob
  <2>2. job' \in [Threads -> BoundJob] /\ job' \in [Threads -> Job]
    BY <1>1, <2>1, BecomeBound DEF SubmitEntry, Threads, BoundJob
  <2>3. orders' \in [OrderIds -> Order]
    <3>1. NewOrder(Units) \in Order
      BY ConstantsAssumption DEF NewOrder, Order, OrderStatuses
    <3> QED BY <1>1, <3>1, OrdersType DEF SubmitEntry
  <2>4. next' \in 1..(MaxTrades + 1)
    BY <1>1, ConstantsAssumption DEF SubmitEntry, Trades
  <2>5. faults' \in 0..MaxFaults
    BY <1>1, FaultType DEF SubmitEntry, EntriesSettled
  <2>6. cycled' \in BOOLEAN /\ UNCHANGED <<proc, trades, strikes, pos, owner, closing, ks>>
    BY <1>1, Zenon DEF SubmitEntry
  <2> QED BY <2>2, <2>3, <2>4, <2>5, <2>6
<1>2. CASE AwaitEntry
  <2> DEFINE n == job["tick"].tr
             o == orders[EntryId(n)]
             row == [status |-> "OPEN_UNPROTECTED", units |-> o.filled,
                     sl_order_id |-> NoId, exit_reason |-> "none"]
  <2>1. n \in Trades /\ job["tick"] \in Job
    BY <1>2 DEF AwaitEntry, At, Threads, BoundJob, Unbound
  <2>2. o \in Order /\ o.filled \in Nat
    BY <2>1 DEF EntryId, OrderIds, Order
  <2>3. row \in TradeRow
    BY <2>2 DEF TradeRow, TradeStatuses
  <2>4. [job["tick"] EXCEPT !.pc = "place", !.qty = o.filled] \in BoundJob
    <3>1. ASSUME NEW j \in Job, j.tr \in Trades, NEW q \in Nat
          PROVE  [j EXCEPT !.pc = "place", !.qty = q] \in BoundJob
      BY <3>1 DEF BoundJob, Job, Labels
    <3> QED BY <2>1, <2>2, <3>1
  <2>5. faults' \in 0..MaxFaults
    BY <1>2, FaultType DEF AwaitEntry
  <2>6. trades' \in [Trades -> TradeRow]
    <3> HIDE DEF row
    <3>1. trades' = [trades EXCEPT ![n] = row] \/ trades' = trades
      BY <1>2, Zenon DEF AwaitEntry, row
    <3> QED BY <2>3, <3>1
  <2>7. job' \in [Threads -> BoundJob] /\ job' \in [Threads -> Job]
    BY <1>2, <2>4, IdleBound, BecomeBound DEF AwaitEntry, Threads, BoundJob
  <2> QED BY <1>2, <2>5, <2>6, <2>7 DEF AwaitEntry, broker
<1> QED BY <1>1, <1>2 DEF OpenStep

LEMMA TypePlacing ==
  ASSUME TypeInv, NEW t \in Threads,
         StopPlaced(t) \/ StopRefused(t) \/ MarkProtected(t) \/ BeginReplace(t)
  PROVE  TypeInv'
<1> USE DEF TypeInv, TypeOK
<1> DEFINE j == job[t]
<1>1. j \in Job /\ j.tr \in Trades
  BY DEF StopPlaced, StopRefused, MarkProtected, BeginReplace, At, BoundJob, Unbound
<1>2. CASE StopPlaced(t)
  <2>1. orders' \in [OrderIds -> Order]
    <3>1. NewOrder(j.qty) \in Order
      BY <1>1 DEF NewOrder, Order, OrderStatuses, Job
    <3> QED BY <1>2, <3>1, OrdersType DEF StopPlaced
  <2>2. job' \in [Threads -> BoundJob] /\ job' \in [Threads -> Job]
    BY <1>1, <1>2, GotoBound DEF StopPlaced, Labels
  <2> QED BY <1>2, <2>1, <2>2 DEF StopPlaced
<1>3. CASE StopRefused(t)
  <2> DEFINE retry == [j EXCEPT !.attempt = j.attempt + 1]
             exit == [j EXCEPT !.pc = "exit", !.why = "UNPROTECTED",
                               !.seen = IF t = "tick" THEN OpenStops ELSE j.seen]
  <2>1. j.attempt \in 1..(LastAttempt - 1) => retry \in BoundJob
    <3>1. ASSUME NEW i \in Job, i.tr \in Trades, NEW a \in 0..3
          PROVE  [i EXCEPT !.attempt = a] \in BoundJob
      BY <3>1 DEF BoundJob, Job
    <3>2. j.attempt \in 1..(LastAttempt - 1) => j.attempt + 1 \in 0..3
      BY DEF LastAttempt
    <3> QED BY <1>1, <3>1, <3>2
  <2>2. exit \in BoundJob
    <3>1. ASSUME NEW i \in Job, i.tr \in Trades, NEW seen \in [Trades -> StopIds \cup {NoId}]
          PROVE  [i EXCEPT !.pc = "exit", !.why = "UNPROTECTED", !.seen = seen] \in BoundJob
      BY <3>1 DEF BoundJob, Job, Labels, CloseReasons, ExitReasons
    <3>2. OpenStops \in [Trades -> StopIds \cup {NoId}] /\ j.seen \in [Trades -> StopIds \cup {NoId}]
      BY <1>1 DEF OpenStops, TradeRow, Job
    <3> QED BY <1>1, <3>1, <3>2
  <2>3. job' \in [Threads -> BoundJob] /\ job' \in [Threads -> Job]
    <3> HIDE DEF retry, exit
    <3>1. \/ j.attempt \in 1..(LastAttempt - 1) /\ Become(t, retry)
          \/ Become(t, exit)
      BY <1>3, Zenon DEF StopRefused, retry, exit
    <3> QED BY <2>1, <2>2, <3>1, BecomeBound DEF BoundJob
  <2>4. faults' \in 0..MaxFaults
    BY <1>3, FaultType DEF StopRefused
  <2> QED BY <1>3, <2>3, <2>4 DEF StopRefused, broker
<1>4. CASE MarkProtected(t)
  <2> DEFINE row == [trades[j.tr] EXCEPT !.status = "OPEN_PROTECTED",
                                         !.sl_order_id = StopId(j.tr, j.attempt)]
             after == IF t = "mon" THEN [j EXCEPT !.pc = "decide"] ELSE NextTrade(t)
  <2>1. row \in TradeRow
    <3>1. ASSUME NEW r \in TradeRow, NEW id \in StopIds
          PROVE  [r EXCEPT !.status = "OPEN_PROTECTED", !.sl_order_id = id] \in TradeRow
      BY DEF TradeRow, TradeStatuses
    <3>2. StopId(j.tr, j.attempt) \in StopIds
      <4>1. StopSuffix(j.attempt) \in StopSuffixes
        BY <1>1, SuffixType DEF Job
      <4> QED BY <1>1, <4>1 DEF StopId, StopIds
    <3> QED BY <1>1, <3>1, <3>2
  <2>2. after \in BoundJob
    BY <1>1, LabelBound, NextTradeBound DEF Labels
  <2>3. /\ trades' \in [Trades -> TradeRow]
        /\ job' \in [Threads -> BoundJob]
        /\ proc' \in {"down", "boot", "up"}
    <3> HIDE DEF row, after
    <3>1. WriteRow(t, j.tr, row, after)
      BY <1>4, Zenon DEF MarkProtected, row, after
    <3> QED BY <2>1, <2>2, <3>1, WriteRowType
  <2> QED BY <1>4, <2>3 DEF MarkProtected, broker, BoundJob
<1>5. CASE BeginReplace(t)
  <2> DEFINE row == [trades[j.tr] EXCEPT !.status = "OPEN_UNPROTECTED"]
             after == [j EXCEPT !.pc = "place", !.attempt = 1]
  <2>1. row \in TradeRow
    BY <1>1, StatusType DEF TradeStatuses
  <2>2. after \in BoundJob
    <3>1. ASSUME NEW i \in Job, i.tr \in Trades, NEW a \in 0..3
          PROVE  [i EXCEPT !.pc = "place", !.attempt = a] \in BoundJob
      BY <3>1 DEF BoundJob, Job, Labels
    <3>2. 1 \in 0..3
      OBVIOUS
    <3> QED BY <1>1, <3>1, <3>2
  <2>3. /\ trades' \in [Trades -> TradeRow]
        /\ job' \in [Threads -> BoundJob]
        /\ proc' \in {"down", "boot", "up"}
    <3> HIDE DEF row, after
    <3>1. WriteRow(t, j.tr, row, after)
      BY <1>5, Zenon DEF BeginReplace, row, after
    <3> QED BY <2>1, <2>2, <3>1, WriteRowType
  <2> QED BY <1>5, <2>3 DEF BeginReplace, broker, BoundJob
<1> QED BY <1>2, <1>3, <1>4, <1>5

LEMMA TypeMonitorStep == TypeInv /\ MonitorStep => TypeInv'
<1> SUFFICES ASSUME TypeInv, MonitorStep PROVE TypeInv'
  OBVIOUS
<1> USE DEF TypeInv, TypeOK
<1> DEFINE j == job["mon"]
<1>1. "mon" \in Threads /\ j \in Job
  BY DEF Threads
<1>2. CASE StartMonitor
  <2> DEFINE n == First(open_trades)
  <2>1. /\ n \in Trades
        /\ open_trades \ {n} \in SUBSET Trades
        /\ OpenStops \in [Trades -> StopIds \cup {NoId}]
    BY <1>2, OpenTradesType DEF StartMonitor
  <2>2. [IdleJob EXCEPT !.pc = "check", !.tr = n, !.seen = OpenStops,
                        !.todo = open_trades \ {n}, !.ks = ks] \in BoundJob
    <3>1. ASSUME NEW i \in Job, NEW m \in Trades, NEW rest \in SUBSET Trades,
                 NEW seen \in [Trades -> StopIds \cup {NoId}], NEW k \in BOOLEAN
          PROVE  [i EXCEPT !.pc = "check", !.tr = m, !.seen = seen, !.todo = rest, !.ks = k]
                   \in BoundJob
      BY DEF BoundJob, Job, Labels
    <3> QED BY <2>1, <3>1, IdleBound DEF BoundJob
  <2>3. job' \in [Threads -> BoundJob] /\ job' \in [Threads -> Job]
    BY <1>1, <1>2, <2>2, BecomeBound DEF StartMonitor, BoundJob
  <2>4. cycled' \in BOOLEAN /\ UNCHANGED <<proc, trades, strikes, broker, ks, next, faults>>
    BY <1>2, Zenon DEF StartMonitor
  <2> QED BY <2>3, <2>4 DEF broker
<1>3. CASE CheckStop
  <2>1. j.tr \in Trades
    BY <1>1, <1>3 DEF CheckStop, At, BoundJob, Unbound
  <2>2. /\ [j EXCEPT !.pc = "close", !.why = "SL"] \in BoundJob
        /\ \A ok \in BOOLEAN : [j EXCEPT !.pc = "position", !.stop_ok = ok] \in BoundJob
    <3>1. ASSUME NEW i \in Job, i.tr \in Trades
          PROVE  /\ [i EXCEPT !.pc = "close", !.why = "SL"] \in BoundJob
                 /\ \A ok \in BOOLEAN : [i EXCEPT !.pc = "position", !.stop_ok = ok] \in BoundJob
      BY <3>1 DEF BoundJob, Job, Labels, CloseReasons
    <3> QED BY <1>1, <2>1, <3>1
  <2>3. \E i \in BoundJob : Become("mon", i)
    <3>1. Working(j.seen[j.tr]) \in BOOLEAN /\ FALSE \in BOOLEAN
      BY DEF Working
    <3> QED BY <1>3, <2>2, <3>1 DEF CheckStop
  <2>4. job' \in [Threads -> BoundJob] /\ job' \in [Threads -> Job]
    BY <1>1, <2>3, BecomeBound DEF BoundJob
  <2>5. faults' \in 0..MaxFaults
    BY <1>3, FaultType DEF CheckStop
  <2> QED BY <1>3, <2>4, <2>5 DEF CheckStop, broker
<1>4. CASE CheckPosition
  <2>1. j.tr \in Trades
    BY <1>1, <1>4 DEF CheckPosition, At, BoundJob, Unbound
  <2>2. ASSUME NEW q \in {0, pos}
        PROVE  [j EXCEPT !.pc = MonitorPlan(j, q),
                         !.qty = IF MonitorPlan(j, q) = "replace" THEN q ELSE 0,
                         !.why = IF MonitorPlan(j, q) = "exit" THEN "KILL_SWITCH" ELSE "none"]
                 \in BoundJob
    <3>1. ASSUME NEW i \in Job, i.tr \in Trades, NEW label \in Labels, NEW k \in Nat,
                 NEW why \in CloseReasons \cup {"none"}
          PROVE  [i EXCEPT !.pc = label, !.qty = k, !.why = why] \in BoundJob
      BY <3>1 DEF BoundJob, Job
    <3>2. MonitorPlan(j, q) \in Labels
      BY Zenon DEF MonitorPlan, Labels
    <3>3. (IF MonitorPlan(j, q) = "replace" THEN q ELSE 0) \in Nat
      OBVIOUS
    <3>4. (IF MonitorPlan(j, q) = "exit" THEN "KILL_SWITCH" ELSE "none") \in CloseReasons \cup {"none"}
      BY DEF CloseReasons, ExitReasons
    <3> QED BY <1>1, <2>1, <3>1, <3>2, <3>3, <3>4
  <2>3. \E i \in BoundJob : Become("mon", i)
    BY <1>4, <2>2, Zenon DEF CheckPosition
  <2>4. job' \in [Threads -> BoundJob] /\ job' \in [Threads -> Job]
    BY <1>1, <2>3, BecomeBound DEF BoundJob
  <2>5. faults' \in 0..MaxFaults
    BY <1>4, FaultType DEF CheckPosition, PositionQty
  <2> QED BY <1>4, <2>4, <2>5 DEF CheckPosition, broker
<1>5. CASE Decide
  <2>1. j.tr \in Trades
    BY <1>1, <1>5 DEF Decide, At, BoundJob, Unbound
  <2>2. ASSUME NEW why \in ExitReasons
        PROVE  [j EXCEPT !.pc = "exit", !.why = why] \in BoundJob
    <3>1. ASSUME NEW i \in Job, i.tr \in Trades
          PROVE  [i EXCEPT !.pc = "exit", !.why = why] \in BoundJob
      BY <3>1 DEF BoundJob, Job, Labels, CloseReasons
    <3> QED BY <1>1, <2>1, <3>1
  <2>3. "SL_FAILSAFE" \in ExitReasons /\ PlannedExits \subseteq ExitReasons
    BY ConstantsAssumption DEF ExitReasons
  <2>4. \E i \in BoundJob : Become("mon", i)
    BY <1>1, <1>5, <2>2, <2>3, NextTradeBound DEF Decide
  <2>5. job' \in [Threads -> BoundJob] /\ job' \in [Threads -> Job]
    BY <1>1, <2>4, BecomeBound DEF BoundJob
  <2>6. strikes' \in [Trades -> 0..1]
    <3>1. \E v \in 0..1 : strikes' = [strikes EXCEPT ![j.tr] = v]
      <4>1. 0 \in 0..1 /\ 1 \in 0..1
        OBVIOUS
      <4> QED BY <1>5, <4>1, Zenon DEF Decide
    <3> QED BY <3>1
  <2> QED BY <1>5, <2>5, <2>6 DEF Decide, broker
<1> QED BY <1>2, <1>3, <1>4, <1>5 DEF MonitorStep

LEMMA TypeStartFlatten == TypeInv /\ StartFlatten => TypeInv'
<1> SUFFICES ASSUME TypeInv, StartFlatten PROVE TypeInv'
  OBVIOUS
<1> USE DEF TypeInv, TypeOK
<1> DEFINE n == First(open_trades)
<1>1. [IdleJob EXCEPT !.pc = "exit", !.tr = n, !.seen = OpenStops,
                      !.todo = open_trades \ {n}, !.why = "MANUAL"] \in BoundJob
  <2>1. ASSUME NEW i \in Job, NEW m \in Trades, NEW rest \in SUBSET Trades,
               NEW seen \in [Trades -> StopIds \cup {NoId}]
        PROVE  [i EXCEPT !.pc = "exit", !.tr = m, !.seen = seen, !.todo = rest, !.why = "MANUAL"]
                 \in BoundJob
    BY DEF BoundJob, Job, Labels, CloseReasons, ExitReasons
  <2>2. open_trades # {}
    BY DEF StartFlatten
  <2> QED BY <2>1, <2>2, OpenTradesType, IdleBound DEF BoundJob
<1>2. job' \in [Threads -> BoundJob] /\ job' \in [Threads -> Job]
  BY <1>1, BecomeBound DEF StartFlatten, BoundJob, Threads
<1>3. faults' \in 0..MaxFaults
  BY FaultType DEF StartFlatten
<1> QED BY <1>2, <1>3 DEF StartFlatten, broker

LEMMA TypeExiting ==
  ASSUME TypeInv, NEW t \in Threads,
         \/ BeginExit(t) \/ CancelStop(t) \/ ReadExitQty(t) \/ ExitAccepted(t)
         \/ ExitRefused(t) \/ AwaitExit(t) \/ MarkUnsold(t)
  PROVE  TypeInv'
<1> USE DEF TypeInv, TypeOK
<1> DEFINE j == job[t]
<1>1. j \in Job /\ j.tr \in Trades
  BY DEF BeginExit, CancelStop, ReadExitQty, ExitAccepted, ExitRefused, AwaitExit,
         MarkUnsold, At, BoundJob, Unbound
<1>2. CASE BeginExit(t)
  <2> DEFINE row == Exiting(trades[j.tr])
             after == [j EXCEPT !.pc = IF j.seen[j.tr] = NoId THEN "qty" ELSE "cancel"]
  <2>1. row \in TradeRow
    BY <1>1, StatusType DEF Exiting, TradeStatuses
  <2>2. after \in BoundJob
    BY <1>1, LabelBound DEF Labels
  <2>3. /\ trades' \in [Trades -> TradeRow]
        /\ job' \in [Threads -> BoundJob]
        /\ proc' \in {"down", "boot", "up"}
    <3> HIDE DEF row, after
    <3>1. WriteRow(t, j.tr, row, after)
      BY <1>2, Zenon DEF BeginExit, row, after
    <3> QED BY <2>1, <2>2, <3>1, WriteRowType
  <2> QED BY <1>2, <2>3 DEF BeginExit, broker, BoundJob
<1>3. CASE CancelStop(t)
  <2> DEFINE o == j.seen[j.tr]
  <2>1. orders' \in [OrderIds -> Order]
    <3>1. CASE orders' = [orders EXCEPT ![o].status = "canceled"]
      <4>1. \A i \in OrderIds : [orders[i] EXCEPT !.status = "canceled"] \in Order
        BY OrderUpdateType DEF OrderStatuses
      <4> QED BY <3>1, <4>1
    <3>2. CASE orders' = orders
      BY <3>2
    <3> QED BY <1>3, <3>1, <3>2, Zenon DEF CancelStop
  <2>2. job' \in [Threads -> BoundJob] /\ job' \in [Threads -> Job]
    BY <1>1, <1>3, GotoBound DEF CancelStop, Labels
  <2>3. faults' \in 0..MaxFaults
    BY <1>3, FaultType DEF CancelStop
  <2> QED BY <1>3, <2>1, <2>2, <2>3 DEF CancelStop
<1>4. CASE ReadExitQty(t)
  <2>1. ASSUME NEW q \in {0, pos}
        PROVE  [j EXCEPT !.pc = "sell", !.qty = IF q > 0 THEN q ELSE trades[j.tr].units]
                 \in BoundJob
    <3>1. ASSUME NEW i \in Job, i.tr \in Trades, NEW k \in Nat
          PROVE  [i EXCEPT !.pc = "sell", !.qty = k] \in BoundJob
      BY <3>1 DEF BoundJob, Job, Labels
    <3>2. (IF q > 0 THEN q ELSE trades[j.tr].units) \in Nat
      BY <1>1 DEF TradeRow
    <3> QED BY <1>1, <3>1, <3>2
  <2>2. job' \in [Threads -> BoundJob] /\ job' \in [Threads -> Job]
    BY <1>4, <2>1, BecomeBound DEF ReadExitQty, BoundJob
  <2>3. faults' \in 0..MaxFaults
    BY <1>4, FaultType DEF ReadExitQty, PositionQty
  <2> QED BY <1>4, <2>2, <2>3 DEF ReadExitQty, broker
<1>5. CASE ExitAccepted(t)
  <2>1. orders' \in [OrderIds -> Order]
    <3>1. NewOrder(j.qty) \in Order
      BY <1>1 DEF NewOrder, Order, OrderStatuses, Job
    <3> QED BY <1>5, <3>1, OrdersType DEF ExitAccepted
  <2>2. job' \in [Threads -> BoundJob] /\ job' \in [Threads -> Job]
    BY <1>1, <1>5, GotoBound DEF ExitAccepted, Labels
  <2> QED BY <1>5, <2>1, <2>2 DEF ExitAccepted
<1>6. CASE ExitRefused(t)
  <2>1. job' \in [Threads -> BoundJob] /\ job' \in [Threads -> Job]
    BY <1>1, <1>6, GotoBound DEF ExitRefused, Labels
  <2>2. faults' \in 0..MaxFaults
    BY <1>6, FaultType DEF ExitRefused
  <2> QED BY <1>6, <2>1, <2>2 DEF ExitRefused, broker
<1>7. CASE AwaitExit(t)
  <2>1. job' \in [Threads -> BoundJob] /\ job' \in [Threads -> Job]
    BY <1>1, <1>7, GotoBound DEF AwaitExit, ExitOutcome, Labels
  <2>2. faults' \in 0..MaxFaults
    BY <1>7, FaultType DEF AwaitExit
  <2> QED BY <1>7, <2>1, <2>2 DEF AwaitExit, broker
<1>8. CASE MarkUnsold(t)
  <2> DEFINE row == [trades[j.tr] EXCEPT !.status = "OPEN_UNPROTECTED"]
  <2>1. row \in TradeRow
    BY <1>1, StatusType DEF TradeStatuses
  <2>2. /\ trades' \in [Trades -> TradeRow]
        /\ job' \in [Threads -> BoundJob]
        /\ proc' \in {"down", "boot", "up"}
    <3> HIDE DEF row
    <3>1. WriteRow(t, j.tr, row, NextTrade(t))
      BY <1>8, Zenon DEF MarkUnsold, row
    <3> QED BY <2>1, <3>1, WriteRowType, NextTradeBound
  <2> QED BY <1>8, <2>2 DEF MarkUnsold, broker, BoundJob
<1> QED BY <1>2, <1>3, <1>4, <1>5, <1>6, <1>7, <1>8

LEMMA TypeClosing ==
  ASSUME TypeInv, NEW t \in Threads, History(t) \/ MarkClosed(t)
  PROVE  TypeInv'
<1> USE DEF TypeInv, TypeOK
<1> DEFINE j == job[t]
<1>1. j \in Job /\ j.tr \in Trades
  BY DEF History, MarkClosed, At, BoundJob, Unbound
<1>2. CASE History(t)
  <2>1. ASSUME NEW why \in CloseReasons
        PROVE  [j EXCEPT !.pc = "close", !.why = why] \in BoundJob
    <3>1. ASSUME NEW i \in Job, i.tr \in Trades
          PROVE  [i EXCEPT !.pc = "close", !.why = why] \in BoundJob
      BY <3>1 DEF BoundJob, Job, Labels
    <3> QED BY <1>1, <3>1
  <2>2. "RECONCILED" \in CloseReasons /\ \A o : SaleReason(o) \in CloseReasons
    BY DEF SaleReason, CloseReasons
  <2>3. \E i \in BoundJob : Become(t, i)
    BY <1>2, <2>1, <2>2, Zenon DEF History
  <2>4. job' \in [Threads -> BoundJob] /\ job' \in [Threads -> Job]
    BY <2>3, BecomeBound DEF BoundJob
  <2>5. faults' \in 0..MaxFaults
    BY <1>2, FaultType DEF History
  <2> QED BY <1>2, <2>4, <2>5 DEF History, broker
<1>3. CASE MarkClosed(t)
  <2> DEFINE row == [trades[j.tr] EXCEPT !.status = "CLOSED", !.exit_reason = j.why]
  <2>1. row \in TradeRow
    <3>1. ASSUME NEW r \in TradeRow, NEW why \in CloseReasons \cup {"none"}
          PROVE  [r EXCEPT !.status = "CLOSED", !.exit_reason = why] \in TradeRow
      BY DEF TradeRow, TradeStatuses
    <3> QED BY <1>1, <3>1 DEF Job
  <2>2. /\ trades' \in [Trades -> TradeRow]
        /\ job' \in [Threads -> BoundJob]
        /\ proc' \in {"down", "boot", "up"}
    <3> HIDE DEF row
    <3>1. WriteRow(t, j.tr, row, NextTrade(t))
      BY <1>3, Zenon DEF MarkClosed, WriteRow, row
    <3> QED BY <2>1, <3>1, WriteRowType, NextTradeBound
  <2>3. strikes' \in [Trades -> 0..1]
    <3>1. strikes' = strikes \/ strikes' = [strikes EXCEPT ![j.tr] = 0]
      BY <1>3, Zenon DEF MarkClosed
    <3> QED BY <3>1
  <2> QED BY <1>3, <2>2, <2>3 DEF MarkClosed, broker, BoundJob
<1> QED BY <1>2, <1>3

LEMMA TypeBootStep == TypeInv /\ BootStep => TypeInv'
<1> SUFFICES ASSUME TypeInv, BootStep PROVE TypeInv'
  OBVIOUS
<1> USE DEF TypeInv, TypeOK
<1> DEFINE j == job["main"]
<1>1. "main" \in Threads /\ j \in Job
  BY DEF Threads
<1>2. CASE Boot
  <2>1. [IdleJob EXCEPT !.pc = "boot_position", !.todo = open_trades, !.seen = OpenStops]
          \in BoundJob
    <3>1. ASSUME NEW i \in Job, NEW rest \in SUBSET Trades,
                 NEW seen \in [Trades -> StopIds \cup {NoId}]
          PROVE  [i EXCEPT !.pc = "boot_position", !.todo = rest, !.seen = seen] \in BoundJob
      BY DEF BoundJob, Job, Labels, Unbound
    <3> QED BY <3>1, OpenTradesType, IdleBound DEF BoundJob
  <2>2. job' \in [Threads -> BoundJob] /\ job' \in [Threads -> Job]
    BY <1>1, <1>2, <2>1, BecomeBound DEF Boot, BoundJob
  <2>3. faults' \in 0..MaxFaults
    BY <1>2, FaultType DEF Boot, EntriesSettled
  <2> QED BY <1>2, <2>2, <2>3 DEF Boot, broker
<1>3. CASE BootPosition
  <2>1. ASSUME NEW q \in {0, pos}, j.todo # {}
        PROVE  [j EXCEPT !.pc = "adopt", !.tr = Last(j.todo),
                         !.todo = j.todo \ {Last(j.todo)}, !.qty = q] \in BoundJob
    <3>1. ASSUME NEW i \in Job, NEW m \in Trades, NEW rest \in SUBSET Trades, NEW k \in Nat
          PROVE  [i EXCEPT !.pc = "adopt", !.tr = m, !.todo = rest, !.qty = k] \in BoundJob
      BY DEF BoundJob, Job, Labels
    <3>2. Last(j.todo) \in Trades /\ j.todo \ {Last(j.todo)} \in SUBSET Trades
      BY <1>1, <2>1, LastIn DEF Job
    <3> QED BY <1>1, <3>1, <3>2
  <2>2. [j EXCEPT !.pc = "orphan"] \in BoundJob /\ [j EXCEPT !.pc = "sweep"] \in BoundJob
    BY <1>1, LabelBound DEF Labels, Unbound
  <2>3. ASSUME NEW q
        PROVE  /\ BootPlan(j.todo, q) \in {"adopt", "close_all", "orphan", "sweep"}
               /\ BootPlan(j.todo, q) = "adopt" => j.todo # {}
    BY Zenon DEF BootPlan
  <2>4. \E i \in BoundJob : Become("main", i)
    <3>1. PICK q \in {0, pos} :
            Become("main",
               CASE BootPlan(j.todo, q) = "adopt" ->
                      [j EXCEPT !.pc = "adopt", !.tr = Last(j.todo),
                                !.todo = j.todo \ {Last(j.todo)}, !.qty = q]
                 [] BootPlan(j.todo, q) = "close_all" -> NextTrade("main")
                 [] OTHER -> [j EXCEPT !.pc = BootPlan(j.todo, q)])
      BY <1>3, Zenon DEF BootPosition
    <3>2. CASE BootPlan(j.todo, q) = "adopt"
      BY <2>1, <2>3, <3>1, <3>2, Zenon
    <3>3. CASE BootPlan(j.todo, q) = "close_all"
      BY <1>1, <3>1, <3>3, NextTradeBound, Zenon
    <3>4. CASE BootPlan(j.todo, q) \in {"orphan", "sweep"}
      BY <2>2, <3>1, <3>4, Zenon
    <3> QED BY <2>3, <3>2, <3>3, <3>4
  <2>5. job' \in [Threads -> BoundJob] /\ job' \in [Threads -> Job]
    BY <1>1, <2>4, BecomeBound DEF BoundJob
  <2>6. faults' \in 0..MaxFaults
    BY <1>3, FaultType DEF BootPosition, PositionQty
  <2> QED BY <1>3, <2>5, <2>6 DEF BootPosition, broker
<1>4. CASE AdoptNewest
  <2>1. j.tr \in Trades
    BY <1>1, <1>4 DEF AdoptNewest, At, BoundJob, Unbound
  <2>2. Become("main", NextTrade("main")) \/ Goto("main", "replace")
    BY <1>4 DEF AdoptNewest
  <2>3. job' \in [Threads -> BoundJob] /\ job' \in [Threads -> Job]
    <3>1. CASE Become("main", NextTrade("main"))
      BY <1>1, <3>1, NextTradeBound, BecomeBound DEF BoundJob
    <3>2. CASE Goto("main", "replace")
      BY <1>1, <2>1, <3>2, GotoBound DEF Labels
    <3> QED BY <2>2, <3>1, <3>2
  <2>4. faults' \in 0..MaxFaults
    BY <1>4, FaultType DEF AdoptNewest
  <2> QED BY <1>4, <2>3, <2>4 DEF AdoptNewest, broker
<1>5. CASE FlattenOrphan
  <2>1. job' \in [Threads -> BoundJob] /\ job' \in [Threads -> Job]
    BY <1>1, <1>5, GotoBound DEF FlattenOrphan, Labels, Unbound
  <2>2. closing' \in Nat
    BY <1>5 DEF FlattenOrphan
  <2>3. faults' \in 0..MaxFaults
    BY <1>5, FaultType DEF FlattenOrphan
  <2> QED BY <1>5, <2>1, <2>2, <2>3 DEF FlattenOrphan
<1>6. CASE Sweep
  <2>1. orders' \in [OrderIds -> Order]
    <3>1. PICK S : orders' = [o \in OrderIds |->
                      IF o \in S THEN [orders[o] EXCEPT !.status = "canceled"] ELSE orders[o]]
      BY <1>6, Zenon DEF Sweep
    <3>2. \A o \in OrderIds : [orders[o] EXCEPT !.status = "canceled"] \in Order
      BY OrderUpdateType DEF OrderStatuses
    <3> QED BY <3>1, <3>2
  <2>2. job' \in [Threads -> BoundJob] /\ job' \in [Threads -> Job]
    BY <1>1, <1>6, GotoBound DEF Sweep, Labels, Unbound
  <2>3. faults' \in 0..MaxFaults
    BY <1>6, FaultType DEF Sweep
  <2>4. closing' \in Nat
    BY <1>6 DEF Sweep
  <2> QED BY <1>6, <2>1, <2>2, <2>3, <2>4 DEF Sweep
<1>7. CASE StartScheduler
  <2>1. job' \in [Threads -> BoundJob] /\ job' \in [Threads -> Job]
    BY <1>1, <1>7, IdleBound, BecomeBound DEF StartScheduler, BoundJob
  <2> QED BY <1>7, <2>1 DEF StartScheduler, broker
<1> QED BY <1>2, <1>3, <1>4, <1>5, <1>6, <1>7 DEF BootStep

LEMMA TypeFailStep == TypeInv /\ FailStep => TypeInv'
<1> SUFFICES ASSUME TypeInv, FailStep PROVE TypeInv'
  OBVIOUS
<1> USE DEF TypeInv, TypeOK
<1>1. CASE Crash
  <2>1. job' \in [Threads -> BoundJob] /\ job' \in [Threads -> Job]
    BY <1>1, IdleBound DEF Crash, BoundJob
  <2>2. faults' \in 0..MaxFaults
    BY <1>1, FaultType DEF Crash
  <2>3. strikes' \in [Trades -> 0..1] /\ proc' \in {"down", "boot", "up"}
    BY <1>1 DEF Crash
  <2> QED BY <1>1, <2>1, <2>2, <2>3 DEF Crash, broker
<1>2. ASSUME NEW t \in Threads, JobDies(t) PROVE TypeInv'
  <2>1. job' \in [Threads -> BoundJob] /\ job' \in [Threads -> Job]
    BY <1>2, IdleBound, BecomeBound DEF JobDies, BoundJob
  <2>2. faults' \in 0..MaxFaults
    BY <1>2, FaultType DEF JobDies
  <2>3. proc' \in {"down", "boot", "up"}
    BY <1>2 DEF JobDies
  <2> QED BY <1>2, <2>1, <2>2, <2>3 DEF JobDies, broker
<1> QED BY <1>1, <1>2 DEF FailStep

(* An order of close_position sells what it was for, in part, or nothing.       *)
LEMMA CloseResolved ==
  ASSUME TypeInv, ResolveClose
  PROVE  /\ pos' \in Nat /\ pos' <= pos /\ closing' = 0
         /\ UNCHANGED <<proc, job, trades, strikes, orders, owner, ks, next, cycled>>
<1>1. pos \in Nat /\ closing \in Nat
  BY DEF TypeInv, TypeOK
<1> DEFINE most == IF closing <= pos THEN closing ELSE pos
<1>2. most \in Nat /\ most <= pos
  BY <1>1
<1>3. \/ pos' = pos - most
      \/ \E q \in 1..(most - 1) : pos' = pos - q
      \/ pos' = pos
  BY Zenon DEF ResolveClose
<1> HIDE DEF most
<1>4. pos' \in Nat /\ pos' <= pos
  BY <1>1, <1>2, <1>3
<1>5. closing' = 0 /\ UNCHANGED <<proc, job, trades, strikes, orders, owner, ks, next, cycled>>
  BY Zenon DEF ResolveClose
<1> QED BY <1>4, <1>5

LEMMA TypeMarketStep == TypeInv /\ MarketStep => TypeInv'
<1> SUFFICES ASSUME TypeInv, MarketStep PROVE TypeInv'
  OBVIOUS
<1> USE DEF TypeInv, TypeOK
<1>1. ASSUME NEW n \in Trades, ResolveEntry(n) PROVE TypeInv'
  <2> DEFINE o == EntryId(n)
  <2>1. orders[o] \in Order /\ orders[o].qty \in Nat
    BY DEF EntryId, OrderIds, Order
  <2>2. PICK q \in Nat, status \in OrderStatuses :
          /\ orders' = [orders EXCEPT ![o].status = status, ![o].filled = q]
          /\ pos' = pos + q
          /\ owner' = IF q > 0 THEN n ELSE owner
    <3>1. 0 \in Nat /\ 1..(orders[o].qty - 1) \subseteq Nat
      BY <2>1
    <3>2. {"filled", "canceled"} \subseteq OrderStatuses
      BY DEF OrderStatuses
    <3> QED BY <1>1, <2>1, <3>1, <3>2, Zenon DEF ResolveEntry
  <2>3. orders' \in [OrderIds -> Order]
    <3>1. \A i \in OrderIds : [orders[i] EXCEPT !.status = status, !.filled = q] \in Order
      BY OrderUpdateType
    <3>2. orders' = [orders EXCEPT ![o] = [orders[o] EXCEPT !.status = status, !.filled = q]]
      BY <2>1, <2>2 DEF EntryId, OrderIds
    <3> QED BY <3>1, <3>2
  <2>4. faults' \in 0..MaxFaults
    BY <1>1, FaultType DEF ResolveEntry
  <2>5. pos' \in Nat /\ owner' \in Trades \cup {0}
    BY <2>2
  <2> QED BY <1>1, <2>3, <2>4, <2>5 DEF ResolveEntry
<1>2. ASSUME NEW o \in ExitIds, ResolveExit(o) PROVE TypeInv'
  <2> DEFINE most == IF orders[o].qty <= pos THEN orders[o].qty ELSE pos
  <2>1. orders[o] \in Order /\ orders[o].qty \in Nat
    BY DEF OrderIds, Order
  <2>2. PICK q \in 0..most, status \in OrderStatuses :
          /\ orders' = [orders EXCEPT ![o].status = status, ![o].filled = q]
          /\ pos' = pos - q
    <3> DEFINE Ends(q) == IF q = orders[o].qty THEN "filled" ELSE "canceled"
    <3>1. 0 \in 0..most /\ most \in 0..most /\ 1..(most - 1) \subseteq 0..most
      BY <2>1
    <3>2. \A q : Ends(q) \in OrderStatuses
      BY DEF OrderStatuses
    <3>3. PICK q \in 0..most :
            /\ orders' = [orders EXCEPT ![o].status = Ends(q), ![o].filled = q]
            /\ pos' = pos - q
      BY <1>2, <3>1, Zenon DEF ResolveExit
    <3> HIDE DEF Ends
    <3> QED BY <3>2, <3>3, Zenon
  <2>3. q \in Nat /\ pos - q \in Nat
    BY <2>1
  <2>4. orders' \in [OrderIds -> Order]
    <3>1. \A i \in OrderIds : [orders[i] EXCEPT !.status = status, !.filled = q] \in Order
      BY <2>3, OrderUpdateType
    <3>2. orders' = [orders EXCEPT ![o] = [orders[o] EXCEPT !.status = status, !.filled = q]]
      BY <2>1, <2>2 DEF OrderIds
    <3> QED BY <3>1, <3>2
  <2>5. faults' \in 0..MaxFaults
    BY <1>2, FaultType DEF ResolveExit
  <2> QED BY <1>2, <2>2, <2>3, <2>4, <2>5 DEF ResolveExit
<1>3. CASE ResolveClose
  <2>1. faults' \in 0..MaxFaults
    BY <1>3, FaultType DEF ResolveClose
  <2> QED BY <1>3, <2>1, CloseResolved
<1> QED BY <1>1, <1>2, <1>3 DEF MarketStep

LEMMA TypeStopStep == TypeInv /\ StopStep => TypeInv'
<1> SUFFICES ASSUME TypeInv, StopStep PROVE TypeInv'
  OBVIOUS
<1> USE DEF TypeInv, TypeOK
<1>1. ASSUME NEW o \in StopIds, TriggerStop(o) PROVE TypeInv'
  <2> DEFINE left == orders[o].qty - orders[o].filled
             most == IF left <= pos THEN left ELSE pos
  <2>1. orders[o] \in Order /\ orders[o].qty \in Nat /\ orders[o].filled \in Nat
    BY DEF OrderIds, Order
  <2>2. PICK q \in {most} \cup 1..(most - 1), status \in OrderStatuses :
          /\ orders' = [orders EXCEPT ![o].status = status, ![o].filled = @ + q]
          /\ pos' = pos - q
    <3> DEFINE Ends(q) == IF q = left THEN "filled" ELSE "partially_filled"
    <3>1. \A q : Ends(q) \in OrderStatuses
      BY DEF OrderStatuses
    <3>2. PICK q \in {most} \cup 1..(most - 1) :
            /\ orders' = [orders EXCEPT ![o].status = Ends(q), ![o].filled = @ + q]
            /\ pos' = pos - q
      BY <1>1, Zenon DEF TriggerStop
    <3> HIDE DEF Ends
    <3> QED BY <3>1, <3>2, Zenon
  <2>3. orders[o].filled + q \in Nat /\ pos - q \in Nat
    BY <2>1
  <2>4. orders' \in [OrderIds -> Order]
    <3>1. [orders[o] EXCEPT !.status = status, !.filled = orders[o].filled + q] \in Order
      BY <2>1, <2>3, OrderUpdateType
    <3>2. orders' = [orders EXCEPT ![o] = [orders[o] EXCEPT !.status = status,
                                                            !.filled = orders[o].filled + q]]
      BY <2>1, <2>2 DEF OrderIds
    <3> QED BY <3>1, <3>2
  <2>5. faults' \in 0..MaxFaults
    BY <1>1, FaultType DEF TriggerStop
  <2> QED BY <1>1, <2>2, <2>3, <2>4, <2>5 DEF TriggerStop
<1>2. ASSUME NEW o \in StopIds, LoseStop(o) PROVE TypeInv'
  <2>1. orders' \in [OrderIds -> Order]
    <3>1. \A i \in OrderIds : [orders[i] EXCEPT !.status = "expired"] \in Order
      BY OrderUpdateType DEF OrderStatuses
    <3>2. orders' = [orders EXCEPT ![o] = [orders[o] EXCEPT !.status = "expired"]]
      BY <1>2 DEF LoseStop
    <3> QED BY <3>1, <3>2
  <2>2. faults' \in 0..MaxFaults
    BY <1>2, FaultType DEF LoseStop
  <2> QED BY <1>2, <2>1, <2>2 DEF LoseStop
<1> QED BY <1>1, <1>2 DEF StopStep

LEMMA TypeSetKillSwitch == TypeInv /\ SetKillSwitch => TypeInv'
<1> SUFFICES ASSUME TypeInv, SetKillSwitch PROVE TypeInv'
  OBVIOUS
<1> USE DEF TypeInv, TypeOK
<1>1. ks' \in BOOLEAN
  BY Zenon DEF SetKillSwitch
<1>2. faults' \in 0..MaxFaults
  BY FaultType DEF SetKillSwitch
<1> QED BY <1>1, <1>2 DEF SetKillSwitch, broker

LEMMA TypeNext == TypeInv /\ [Next]_vars => TypeInv'
<1> SUFFICES ASSUME TypeInv, [Next]_vars PROVE TypeInv'
  OBVIOUS
<1>1. CASE OpenStep
  BY <1>1, TypeOpenStep
<1>2. CASE MonitorStep
  BY <1>2, TypeMonitorStep
<1>3. CASE BootStep
  BY <1>3, TypeBootStep
<1>4. CASE StartFlatten
  BY <1>4, TypeStartFlatten
<1>5. ASSUME NEW t \in Threads, SharedStep(t) PROVE TypeInv'
  BY <1>5, TypePlacing, TypeExiting, TypeClosing DEF SharedStep
<1>6. CASE MarketStep
  BY <1>6, TypeMarketStep
<1>7. CASE StopStep
  BY <1>7, TypeStopStep
<1>8. CASE FailStep
  BY <1>8, TypeFailStep
<1>9. CASE SetKillSwitch
  BY <1>9, TypeSetKillSwitch
<1>10. CASE UNCHANGED vars
  BY <1>10 DEF TypeInv, TypeOK, vars, broker
<1> QED
  BY <1>1, <1>2, <1>3, <1>4, <1>5, <1>6, <1>7, <1>8, <1>9, <1>10 DEF Next

(* The rows, the broker's orders and the local variables of every thread keep *)
(* their types: no thread of position_manager.py writes a row or sends a      *)
(* client tag of a trade that is not there, in any interleaving.              *)
THEOREM TypeCorrect == Spec => []TypeOK
<1>1. TypeInv => TypeOK
  BY DEF TypeInv
<1> QED
  BY <1>1, TypeInit, TypeNext, PTL DEF Spec

-----------------------------------------------------------------------------
(* One position at a time.  The gate reads the position, not the order that   *)
(* is about to change it, so "at most one entry" needs the inductive          *)
(* invariant: while an entry is unresolved the broker holds nothing and no    *)
(* other entry is unresolved.  A stop's fills are bounded by its quantity, or *)
(* a trigger would buy.                                                       *)

Unresolved(n) == orders[EntryId(n)].status = "new"

BookInv ==
  /\ pos <= Units
  /\ \A o \in OrderIds : orders[o].filled <= orders[o].qty
  /\ \A n \in Trades : Unresolved(n) =>
       /\ pos = 0
       /\ orders[EntryId(n)].qty = Units
       /\ \A m \in Trades : Unresolved(m) => m = n

LEMMA EntryIsNoExit ==
  ASSUME NEW n \in Trades
  PROVE  EntryId(n) \in OrderIds /\ EntryId(n) \notin StopIds \cup ExitIds
<1>1. "entry" \notin StopSuffixes
  BY DEF StopSuffixes
<1>2. "entry" \notin ExitReasons
  BY DEF ExitReasons, AllPlannedExits
<1> QED BY <1>1, <1>2 DEF EntryId, OrderIds, StopIds, ExitIds

(* What is done to stops and exits does not disturb it, if nothing is bought.  *)
LEMMA BookSale ==
  ASSUME TypeInv, BookInv, NEW o \in StopIds \cup ExitIds, NEW r \in Order,
         r.filled <= r.qty,
         orders' = [orders EXCEPT ![o] = r],
         pos' \in Nat, pos' <= pos
  PROVE  BookInv'
<1>1. orders \in [OrderIds -> Order] /\ pos \in Nat /\ o \in OrderIds
  BY DEF TypeInv, TypeOK, OrderIds
<1>2. \A n \in Trades : orders'[EntryId(n)] = orders[EntryId(n)]
  BY <1>1, EntryIsNoExit
<1>3. pos' <= Units
  BY <1>1, ConstantsAssumption DEF BookInv
<1>4. ASSUME NEW i \in OrderIds PROVE orders'[i].filled <= orders'[i].qty
  BY <1>1 DEF BookInv
<1>5. ASSUME NEW n \in Trades, Unresolved(n)'
      PROVE  /\ pos' = 0
             /\ orders'[EntryId(n)].qty = Units
             /\ \A m \in Trades : Unresolved(m)' => m = n
  BY <1>1, <1>2, <1>5 DEF BookInv, Unresolved
<1> QED BY <1>3, <1>4, <1>5 DEF BookInv

LEMMA BookKept == BookInv /\ UNCHANGED <<orders, pos>> => BookInv'
BY DEF BookInv, Unresolved

LEMMA BookInit == Init => BookInv
BY ConstantsAssumption, EntryIsNoExit DEF Init, BookInv, Unresolved, NoOrder

LEMMA BookOpenStep ==
  ASSUME TypeInv, BookInv, "slow" \notin Faults, OpenStep
  PROVE  BookInv'
<1>1. CASE SubmitEntry
  <2>1. \A n \in Trades : ~ Unresolved(n)
    BY <1>1 DEF SubmitEntry, EntriesSettled, Fault, Unresolved
  <2>2. /\ pos = 0 /\ pos' = 0 /\ next \in Trades
        /\ orders' = [orders EXCEPT ![EntryId(next)] = NewOrder(Units)]
    BY <1>1 DEF SubmitEntry, EntryGate
  <2>3. orders \in [OrderIds -> Order]
    BY DEF TypeInv, TypeOK
  <2>4. \A n \in Trades : Unresolved(n)' => n = next
    BY <2>1, <2>2, <2>3, EntryIsNoExit DEF Unresolved, EntryId
  <2>5. orders'[EntryId(next)].qty = Units
    BY <2>2, <2>3, EntryIsNoExit DEF NewOrder
  <2>6. \A o \in OrderIds : orders'[o].filled <= orders'[o].qty
    BY <2>2, <2>3, ConstantsAssumption DEF NewOrder, BookInv
  <2> QED BY <2>2, <2>4, <2>5, <2>6, ConstantsAssumption DEF BookInv
<1>2. CASE AwaitEntry
  BY <1>2, BookKept DEF AwaitEntry, broker
<1> QED BY <1>1, <1>2 DEF OpenStep

LEMMA BookSharedStep ==
  ASSUME TypeInv, BookInv, NEW t \in Threads, SharedStep(t)
  PROVE  BookInv'
<1> DEFINE j == job[t]
<1>1. CASE UNCHANGED <<orders, pos>>
  BY <1>1, BookKept
<1>2. ASSUME NEW o \in StopIds \cup ExitIds, UNCHANGED pos,
             orders' = [orders EXCEPT ![o] = NewOrder(j.qty)]
      PROVE  BookInv'
  <2>1. j.qty \in Nat /\ pos \in Nat
    BY DEF TypeInv, TypeOK, Job
  <2>2. NewOrder(j.qty) \in Order /\ NewOrder(j.qty).filled <= NewOrder(j.qty).qty
    BY <2>1 DEF NewOrder, Order, OrderStatuses
  <2> DEFINE r == NewOrder(j.qty)
  <2>3. r \in Order /\ r.filled <= r.qty /\ orders' = [orders EXCEPT ![o] = r]
    BY <1>2, <2>2
  <2>4. pos' \in Nat /\ pos' <= pos
    BY <1>2, <2>1
  <2> HIDE DEF r
  <2> QED BY <2>3, <2>4, BookSale
<1>3. CASE StopPlaced(t)
  <2>1. j \in Job /\ j.tr \in Trades
    BY <1>3 DEF StopPlaced, At, TypeInv, TypeOK, BoundJob, Unbound
  <2>2. StopId(j.tr, j.attempt) \in StopIds
    <3>1. StopSuffix(j.attempt) \in StopSuffixes
      BY <2>1, SuffixType DEF Job
    <3> QED BY <2>1, <3>1 DEF StopId, StopIds
  <2> QED BY <1>2, <1>3, <2>2 DEF StopPlaced
<1>4. CASE ExitAccepted(t)
  <2> DEFINE o == ExitId(j.tr, j.why)
  <2>1. CASE o \in ExitIds
    BY <1>2, <1>4, <2>1 DEF ExitAccepted
  <2>2. CASE o \notin OrderIds
    <3>1. orders' = orders /\ UNCHANGED pos
      BY <1>4, <2>2 DEF ExitAccepted, TypeInv, TypeOK
    <3> QED BY <3>1, BookKept
  <2>3. o \in ExitIds \/ o \notin OrderIds
    <3>1. j.tr \in Trades /\ j.why \in CloseReasons \cup {"none"}
      BY <1>4 DEF ExitAccepted, At, TypeInv, TypeOK, BoundJob, Unbound, Job
    <3>2. j.why \in ExitReasons \/ j.why \notin {"entry"} \cup StopSuffixes \cup ExitReasons
      BY <3>1 DEF CloseReasons, StopSuffixes, ExitReasons
    <3> QED BY <3>1, <3>2 DEF ExitId, OrderIds, StopIds, ExitIds
  <2> QED BY <2>1, <2>2, <2>3
<1>5. CASE CancelStop(t)
  <2> DEFINE o == j.seen[j.tr]
             r == [orders[o] EXCEPT !.status = "canceled"]
  <2>1. CASE orders' = orders
    BY <1>5, <2>1, BookKept DEF CancelStop
  <2>2. CASE Working(o) /\ orders' = [orders EXCEPT ![o].status = "canceled"]
    <3>1. j \in Job /\ j.tr \in Trades /\ UNCHANGED pos
      BY <1>5 DEF CancelStop, At, TypeInv, TypeOK, BoundJob, Unbound
    <3>2. o \in StopIds
      BY <2>2, <3>1 DEF Job, Working, StatusOf
    <3>3. orders[o] \in Order /\ o \in OrderIds
      BY <3>2 DEF TypeInv, TypeOK, OrderIds
    <3>4. r \in Order /\ r.filled <= r.qty
      BY <3>3 DEF Order, OrderStatuses, BookInv
    <3>5. orders' = [orders EXCEPT ![o] = r]
      BY <2>2, Zenon
    <3>6. pos' \in Nat /\ pos' <= pos
      BY <3>1 DEF TypeInv, TypeOK
    <3> HIDE DEF r, o
    <3> QED BY <3>2, <3>4, <3>5, <3>6, BookSale
  <2> QED BY <1>5, <2>1, <2>2 DEF CancelStop
<1>6. CASE \/ StopRefused(t) \/ MarkProtected(t) \/ BeginReplace(t) \/ BeginExit(t)
           \/ ReadExitQty(t) \/ ExitRefused(t) \/ AwaitExit(t) \/ MarkUnsold(t)
           \/ History(t) \/ MarkClosed(t)
  <2>1. UNCHANGED broker
    BY <1>6, Zenon
       DEF StopRefused, MarkProtected, BeginReplace, BeginExit, ReadExitQty, ExitRefused,
           AwaitExit, MarkUnsold, History, MarkClosed, broker
  <2> QED BY <1>1, <2>1 DEF broker
<1> QED BY <1>3, <1>4, <1>5, <1>6 DEF SharedStep

LEMMA BookBootStep ==
  ASSUME TypeInv, BookInv, BootStep
  PROVE  BookInv'
<1>1. CASE FlattenOrphan
  <2>1. UNCHANGED <<orders, pos>>
    BY <1>1 DEF FlattenOrphan
  <2> QED BY <2>1, BookKept
<1>2. CASE Sweep
  <2>1. PICK S : orders' = [o \in OrderIds |->
                    IF o \in S THEN [orders[o] EXCEPT !.status = "canceled"] ELSE orders[o]]
    BY <1>2, Zenon DEF Sweep
  <2>2. UNCHANGED pos
    BY <1>2 DEF Sweep
  <2>3. ASSUME NEW o \in OrderIds
        PROVE  /\ orders'[o].filled = orders[o].filled
               /\ orders'[o].qty = orders[o].qty
               /\ orders'[o].status = "new" => orders[o].status = "new"
    <3>1. orders[o] \in Order
      BY DEF TypeInv, TypeOK
    <3> QED BY <2>1, <3>1 DEF Order
  <2>4. \A n \in Trades : EntryId(n) \in OrderIds
    BY EntryIsNoExit
  <2> QED BY <2>2, <2>3, <2>4 DEF BookInv, Unresolved
<1>3. CASE Boot \/ BootPosition \/ AdoptNewest \/ StartScheduler
  BY <1>3, BookKept DEF Boot, BootPosition, AdoptNewest, StartScheduler, broker
<1> QED BY <1>1, <1>2, <1>3 DEF BootStep

LEMMA BookMarketStep ==
  ASSUME TypeInv, BookInv, MarketStep
  PROVE  BookInv'
<1>1. ASSUME NEW n \in Trades, ResolveEntry(n) PROVE BookInv'
  <2> DEFINE o == EntryId(n)
  <2>1. /\ orders \in [OrderIds -> Order] /\ o \in OrderIds
        /\ orders[o].status = "new"
        /\ pos = 0 /\ orders[o].qty = Units
        /\ \A m \in Trades : Unresolved(m) => m = n
    BY <1>1, EntryIsNoExit DEF TypeInv, TypeOK, ResolveEntry, BookInv, Unresolved
  <2>2. PICK q \in 0..Units, status \in {"filled", "canceled"} :
          /\ orders' = [orders EXCEPT ![o].status = status, ![o].filled = q]
          /\ pos' = pos + q
    <3>1. 0 \in 0..Units /\ Units \in 0..Units /\ 1..(Units - 1) \subseteq 0..Units
      BY ConstantsAssumption
    <3> QED BY <1>1, <2>1, <3>1, Zenon DEF ResolveEntry
  <2>3. orders'[o].status # "new" /\ orders'[o].filled = q /\ orders'[o].qty = Units
    BY <2>1, <2>2 DEF Order
  <2>4. \A i \in OrderIds : i # o => orders'[i] = orders[i]
    BY <2>1, <2>2
  <2>5. pos' <= Units
    BY <2>1, <2>2, ConstantsAssumption
  <2>6. \A i \in OrderIds : orders'[i].filled <= orders'[i].qty
    <3>1. q <= Units
      BY ConstantsAssumption
    <3>2. ASSUME NEW i \in OrderIds PROVE orders'[i].filled <= orders'[i].qty
      <4>1. CASE i = o
        BY <2>3, <3>1, <4>1
      <4>2. CASE i # o
        BY <2>4, <4>2 DEF BookInv
      <4> QED BY <4>1, <4>2
    <3> QED BY <3>2
  <2>7. \A m \in Trades : ~ Unresolved(m)'
    BY <2>1, <2>3, <2>4, EntryIsNoExit DEF Unresolved
  <2> QED BY <2>5, <2>6, <2>7 DEF BookInv
<1>2. ASSUME NEW o \in ExitIds, ResolveExit(o) PROVE BookInv'
  <2> DEFINE most == IF orders[o].qty <= pos THEN orders[o].qty ELSE pos
             Ends(q) == IF q = orders[o].qty THEN "filled" ELSE "canceled"
  <2>1. orders \in [OrderIds -> Order] /\ o \in OrderIds /\ pos \in Nat /\ orders[o].qty \in Nat
    BY DEF TypeInv, TypeOK, OrderIds, Order
  <2>2. PICK q \in 0..most :
          /\ orders' = [orders EXCEPT ![o].status = Ends(q), ![o].filled = q]
          /\ pos' = pos - q
    <3>1. 0 \in 0..most /\ most \in 0..most /\ 1..(most - 1) \subseteq 0..most
      BY <2>1
    <3> QED BY <1>2, <3>1, Zenon DEF ResolveExit
  <2> DEFINE r == [orders[o] EXCEPT !.status = Ends(q), !.filled = q]
  <2>3. r \in Order /\ r.filled <= r.qty
    <3>1. Ends(q) \in OrderStatuses
      BY DEF OrderStatuses
    <3>2. q \in Nat /\ q <= orders[o].qty
      BY <2>1
    <3> HIDE DEF Ends
    <3>3. r \in Order
      BY <2>1, <3>1, <3>2, OrderUpdateType
    <3>4. r.filled = q /\ r.qty = orders[o].qty
      BY <2>1 DEF Order
    <3> HIDE DEF r
    <3> QED BY <3>2, <3>3, <3>4
  <2>4. orders' = [orders EXCEPT ![o] = r]
    BY <2>1, <2>2
  <2>5. pos' \in Nat /\ pos' <= pos
    BY <2>1, <2>2
  <2> HIDE DEF r
  <2> QED BY <2>3, <2>4, <2>5, BookSale
<1>3. CASE ResolveClose
  <2>1. UNCHANGED orders /\ pos' \in Nat /\ pos' <= pos /\ pos \in Nat
    BY <1>3, CloseResolved DEF TypeInv, TypeOK
  <2>2. Units \in Nat
    BY ConstantsAssumption
  <2> QED BY <2>1, <2>2 DEF BookInv, Unresolved
<1> QED BY <1>1, <1>2, <1>3 DEF MarketStep

LEMMA BookStopStep ==
  ASSUME TypeInv, BookInv, StopStep
  PROVE  BookInv'
<1>1. ASSUME NEW o \in StopIds, TriggerStop(o) PROVE BookInv'
  <2> DEFINE left == orders[o].qty - orders[o].filled
             most == IF left <= pos THEN left ELSE pos
             Ends(q) == IF q = left THEN "filled" ELSE "partially_filled"
  <2>1. /\ orders \in [OrderIds -> Order] /\ o \in OrderIds /\ pos \in Nat
        /\ orders[o].qty \in Nat /\ orders[o].filled \in Nat
        /\ left \in Nat
    <3>1. orders \in [OrderIds -> Order] /\ o \in OrderIds /\ pos \in Nat
      BY DEF TypeInv, TypeOK, OrderIds
    <3>2. orders[o].qty \in Nat /\ orders[o].filled \in Nat
      BY <3>1 DEF Order
    <3>3. orders[o].filled <= orders[o].qty
      BY <3>1 DEF BookInv
    <3> QED BY <3>1, <3>2, <3>3
  <2>2. PICK q \in 0..most :
          /\ orders' = [orders EXCEPT ![o].status = Ends(q), ![o].filled = @ + q]
          /\ pos' = pos - q
    <3>1. most \in 0..most /\ 1..(most - 1) \subseteq 0..most
      BY <2>1
    <3> QED BY <1>1, <3>1, Zenon DEF TriggerStop
  <2> DEFINE k == orders[o].filled + q
             r == [orders[o] EXCEPT !.status = Ends(q), !.filled = k]
  <2>3. r \in Order /\ r.filled <= r.qty
    <3>1. Ends(q) \in OrderStatuses
      BY DEF OrderStatuses
    <3>2. k \in Nat /\ k <= orders[o].qty
      BY <2>1
    <3> HIDE DEF Ends, k
    <3>3. r \in Order
      BY <2>1, <3>1, <3>2, OrderUpdateType
    <3>4. r.filled = k /\ r.qty = orders[o].qty
      BY <2>1 DEF Order
    <3> HIDE DEF r
    <3> QED BY <3>2, <3>3, <3>4
  <2>4. orders' = [orders EXCEPT ![o] = r]
    BY <2>1, <2>2
  <2>5. pos' \in Nat /\ pos' <= pos
    BY <2>1, <2>2
  <2> HIDE DEF r
  <2> QED BY <2>3, <2>4, <2>5, BookSale
<1>2. ASSUME NEW o \in StopIds, LoseStop(o) PROVE BookInv'
  <2> DEFINE r == [orders[o] EXCEPT !.status = "expired"]
  <2>1. orders \in [OrderIds -> Order] /\ o \in OrderIds /\ pos \in Nat
    BY DEF TypeInv, TypeOK, OrderIds
  <2>2. r \in Order /\ r.filled <= r.qty
    BY <2>1 DEF Order, OrderStatuses, BookInv
  <2>3. orders' = [orders EXCEPT ![o] = r]
    BY <1>2, <2>1 DEF LoseStop
  <2>4. pos' \in Nat /\ pos' <= pos
    BY <1>2, <2>1 DEF LoseStop
  <2> HIDE DEF r
  <2> QED BY <2>2, <2>3, <2>4, BookSale
<1> QED BY <1>1, <1>2 DEF StopStep

LEMMA BookNext ==
  ASSUME TypeInv, BookInv, "slow" \notin Faults, [Next]_vars
  PROVE  BookInv'
<1>1. CASE OpenStep
  BY <1>1, BookOpenStep
<1>2. CASE MonitorStep
  BY <1>2, BookKept DEF MonitorStep, StartMonitor, CheckStop, CheckPosition, Decide, broker
<1>3. CASE BootStep
  BY <1>3, BookBootStep
<1>4. CASE StartFlatten
  BY <1>4, BookKept DEF StartFlatten, broker
<1>5. ASSUME NEW t \in Threads, SharedStep(t) PROVE BookInv'
  BY <1>5, BookSharedStep
<1>6. CASE MarketStep
  BY <1>6, BookMarketStep
<1>7. CASE StopStep
  BY <1>7, BookStopStep
<1>8. CASE FailStep
  BY <1>8, BookKept DEF FailStep, Crash, JobDies, broker
<1>9. CASE SetKillSwitch
  BY <1>9, BookKept DEF SetKillSwitch, broker
<1>10. CASE UNCHANGED vars
  BY <1>10, BookKept DEF vars, broker
<1> QED
  BY <1>1, <1>2, <1>3, <1>4, <1>5, <1>6, <1>7, <1>8, <1>9, <1>10 DEF Next

(* "One position at a time, ever", whatever crashes, raises, is refused or    *)
(* fills in part, and however the jobs overlap, as long as an                 *)
(* immediate-or-cancel entry is not left unresolved until the next bar.       *)
THEOREM OnePositionAtATime ==
  ASSUME "slow" \notin Faults
  PROVE  Spec => []NeverAdds
<1>1. BookInv => NeverAdds
  BY DEF BookInv, NeverAdds
<1>2. TypeInv /\ BookInv /\ [Next]_vars => BookInv'
  BY BookNext
<1> QED
  BY <1>1, <1>2, TypeInit, TypeNext, BookInit, PTL DEF Spec

-----------------------------------------------------------------------------
(***************************************************************************)
(* What the rows are worth: a closed one never changes, and one that says   *)
(* OPEN_PROTECTED names a stop that is still there.                         *)
(*                                                                         *)
(* First what any step does to a job, a row and an order, whatever thread   *)
(* takes it; then the invariants, each about one relation: which phase runs *)
(* which thread (PhaseInv), which trades have a row (RowInv), whose a stop   *)
(* is (TagInv, FreshInv, NamedInv) and what it covers (CoverInv).            *)
(***************************************************************************)

-----------------------------------------------------------------------------
(* What one step does to the job of one thread. *)

CliLabels == {"idle", "exit", "cancel", "qty", "sell", "fill", "unsold", "close"}
TickLabels == CliLabels \cup {"entry", "place", "mark"}
MonLabels == CliLabels \cup {"check", "position", "replace", "place", "mark", "decide", "history"}
MainLabels == CliLabels \cup {"boot_position", "adopt", "replace", "place", "mark", "orphan",
                              "sweep", "ready", "history"}
LabelsOf(t) == CASE t = "cli" -> CliLabels
                 [] t = "tick" -> TickLabels
                 [] t = "mon" -> MonLabels
                 [] t = "main" -> MainLabels

PhaseInv ==
  /\ \A t \in Threads : job[t].pc \in LabelsOf(t)
  /\ proc # "boot" => job["main"].pc = "idle"
  /\ proc # "up" => job["tick"].pc = "idle" /\ job["mon"].pc = "idle"

InHand(j) == j.todo \cup ({j.tr} \ {0})

(* The labels a thread arrives at by one kind of step only. *)
Arrives(t) ==
  LET j == job[t]
      k == job'[t]
  IN /\ k.pc = "mark" => StopPlaced(t)
     /\ k.pc = "cancel" => BeginExit(t)
     /\ k.pc = "place" => \/ t = "tick" /\ AwaitEntry
                          \/ StopRefused(t) \/ BeginReplace(t)
     /\ k.pc = "replace" => \/ t = "mon" /\ CheckPosition
                            \/ t = "main" /\ AdoptNewest
     /\ k.pc = "boot_position" => t = "main" /\ Boot
     /\ k.pc \in {"adopt", "orphan"} => t = "main" /\ BootPosition
     /\ k.pc = "sell" => ReadExitQty(t)
     /\ k.pc = "close" => \/ t = "mon" /\ CheckStop
                          \/ AwaitExit(t) \/ History(t)
     /\ k.pc = "history" => \/ t = "mon" /\ CheckPosition
                            \/ t = "main" /\ k.tr \in j.todo

Moves(t) ==
  LET j == job[t]
      k == job'[t]
  IN \/ k \in {j, IdleJob}
     \/ t = "tick" /\ SubmitEntry
     \/ /\ k.pc \in LabelsOf(t) \ {"entry"}
        /\ InHand(k) \subseteq InHand(j) \cup open_trades
        /\ k.seen \in {j.seen, OpenStops, IdleJob.seen}
        /\ Arrives(t)

(* Done with a trade, a thread takes the next of its snapshot, or ends. *)
LEMMA NextTradeMove ==
  ASSUME TypeInv, NEW t \in Threads
  PROVE  LET j == job[t]
             k == NextTrade(t)
         IN \/ k = IdleJob
            \/ /\ k.seen \in {j.seen, IdleJob.seen}
               /\ k.tr \in j.todo \cup {0} /\ k.todo \subseteq j.todo
               /\ \/ t = "main" /\ k.pc \in {"ready", "sweep"} /\ k.todo = {}
                  \/ t = "main" /\ k.pc = "history" /\ k.tr \in j.todo
                  \/ t = "mon" /\ k.pc = "check"
                  \/ t = "cli" /\ k.pc = "exit"
<1> DEFINE k == NextTrade(t)
           n == First(job[t].todo)
           Take(label, why) ==
             [IdleJob EXCEPT !.pc = label, !.tr = n, !.todo = job[t].todo \ {n},
                             !.seen = job[t].seen, !.ks = job[t].ks, !.why = why]
<1>1. \/ k = IdleJob
      \/ t = "main" /\ k = [IdleJob EXCEPT !.pc = "ready"]
      \/ t = "main" /\ k = [IdleJob EXCEPT !.pc = "sweep"]
      \/ t = "main" /\ job[t].todo # {} /\ k = Take("history", "none")
      \/ t = "mon" /\ job[t].todo # {} /\ k = Take("check", "none")
      \/ t = "cli" /\ job[t].todo # {} /\ k = Take("exit", "MANUAL")
  BY DEF NextTrade
<1>2. job[t].todo \in SUBSET Trades
  BY DEF TypeInv, TypeOK, Job
<1>3. job[t].todo # {} => n \in job[t].todo
  BY <1>2, FirstIn
<1>4. ASSUME \/ k = Take("history", "none")
             \/ k = Take("check", "none")
             \/ k = Take("exit", "MANUAL")
      PROVE  k.tr = n /\ k.todo = job[t].todo \ {n} /\ k.seen = job[t].seen
  BY <1>4 DEF IdleJob
<1>5. ASSUME NEW label, k = [IdleJob EXCEPT !.pc = label]
      PROVE  k.pc = label /\ k.tr = 0 /\ k.todo = {} /\ k.seen = IdleJob.seen
  BY <1>5 DEF IdleJob
<1>10. /\ k = Take("history", "none") => k.pc = "history"
       /\ k = Take("check", "none") => k.pc = "check"
       /\ k = Take("exit", "MANUAL") => k.pc = "exit"
  BY DEF IdleJob
<1> HIDE DEF n, k, Take
<1>6. CASE t = "main" /\ (k = [IdleJob EXCEPT !.pc = "ready"] \/ k = [IdleJob EXCEPT !.pc = "sweep"])
  BY <1>5, <1>6 DEF k
<1>7. CASE t = "main" /\ job[t].todo # {} /\ k = Take("history", "none")
  BY <1>3, <1>4, <1>7, <1>10 DEF k
<1>8. CASE t = "mon" /\ job[t].todo # {} /\ k = Take("check", "none")
  BY <1>3, <1>4, <1>8, <1>10 DEF k
<1>9. CASE t = "cli" /\ job[t].todo # {} /\ k = Take("exit", "MANUAL")
  BY <1>3, <1>4, <1>9, <1>10 DEF k
<1> QED BY <1>1, <1>6, <1>7, <1>8, <1>9 DEF k

LEMMA BecomeMoves ==
  ASSUME TypeInv, NEW t \in Threads, NEW k, Become(t, k)
  PROVE  job'[t] = k /\ \A u \in Threads : u # t => Moves(u)
<1>1. job \in [Threads -> Job]
  BY DEF TypeInv, TypeOK
<1> QED BY <1>1 DEF Become, Moves

LEMMA GotoMoves ==
  ASSUME TypeInv, NEW t \in Threads, NEW label, Goto(t, label)
  PROVE  LET j == job[t]
             k == job'[t]
         IN /\ k.pc = label /\ InHand(k) = InHand(j) /\ k.seen = j.seen /\ k.tr = j.tr
            /\ k.todo = j.todo /\ k.attempt = j.attempt /\ k.qty = j.qty /\ k.why = j.why
            /\ \A u \in Threads : u # t => Moves(u)
<1>1. job \in [Threads -> Job]
  BY DEF TypeInv, TypeOK
<1>2. job'[t] = [job[t] EXCEPT !.pc = label]
  BY <1>1 DEF Goto
<1>3. \A u \in Threads : u # t => job'[u] = job[u]
  BY <1>1 DEF Goto
<1>4. job[t] \in Job
  BY <1>1
<1> QED BY <1>2, <1>3, <1>4 DEF Job, InHand, Moves

LEMMA IdleMoves ==
  ASSUME TypeInv, NEW t \in Threads, Become(t, IdleJob)
  PROVE  \A u \in Threads : Moves(u)
BY BecomeMoves DEF Moves

LEMMA KeptMoves == UNCHANGED job => \A u \in Threads : Moves(u)
BY DEF Moves

LEMMA WriteMoves ==
  ASSUME TypeInv, NEW t \in Threads, NEW n, NEW row, NEW k, WriteRow(t, n, row, k),
         job'[t] = k => Moves(t)
  PROVE  \A u \in Threads : Moves(u)
<1>1. CASE WriteAborted(t, n)
  BY <1>1, IdleMoves DEF WriteAborted
<1>2. CASE WriteDone(t, n, row, k)
  BY <1>2, BecomeMoves DEF WriteDone
<1> QED BY <1>1, <1>2 DEF WriteRow

LEMMA NextMoves ==
  ASSUME TypeInv, NEW t \in Threads, job'[t] = NextTrade(t)
  PROVE  Moves(t)
<1> DEFINE j == job[t]
           n == NextTrade(t)
<1>1. \/ n = IdleJob
      \/ /\ n.seen \in {j.seen, IdleJob.seen}
         /\ n.tr \in j.todo \cup {0} /\ n.todo \subseteq j.todo
         /\ \/ t = "main" /\ n.pc \in {"ready", "sweep"} /\ n.todo = {}
            \/ t = "main" /\ n.pc = "history" /\ n.tr \in j.todo
            \/ t = "mon" /\ n.pc = "check"
            \/ t = "cli" /\ n.pc = "exit"
  BY NextTradeMove
<1>2. job'[t] = n
  OBVIOUS
<1> HIDE DEF n
<1>3. CASE n = IdleJob
  BY <1>2, <1>3 DEF Moves
<1>4. CASE n # IdleJob
  <2>1. n.pc \in LabelsOf(t) \ {"entry"}
    BY <1>1, <1>4 DEF LabelsOf, CliLabels, MonLabels, MainLabels
  <2>2. InHand(n) \subseteq InHand(j) /\ n.seen \in {j.seen, OpenStops, IdleJob.seen}
    BY <1>1, <1>4 DEF InHand
  <2>3. Arrives(t)
    BY <1>1, <1>2, <1>4 DEF Arrives
  <2> QED BY <1>2, <2>1, <2>2, <2>3 DEF Moves
<1> QED BY <1>3, <1>4

(* A thread goes on with its trade, at a label that many steps lead to. *)
Elsewhere == {"mark", "cancel", "place", "replace", "adopt", "sell", "close", "history", "entry",
              "boot_position", "orphan"}
LEMMA LabelMoves ==
  ASSUME TypeInv, NEW t \in Threads, NEW label \in LabelsOf(t) \ Elsewhere,
         job'[t] = [job[t] EXCEPT !.pc = label]
  PROVE  Moves(t)
<1> DEFINE k == [job[t] EXCEPT !.pc = label]
<1>1. job[t] \in Job
  BY DEF TypeInv, TypeOK
<1>2. k.pc = label /\ InHand(k) = InHand(job[t]) /\ k.seen = job[t].seen
  BY <1>1 DEF Job, InHand
<1>3. job'[t] = k
  OBVIOUS
<1> HIDE DEF k
<1> QED BY <1>2, <1>3 DEF Moves, Arrives, Elsewhere

LEMMA OpenMoves ==
  ASSUME TypeInv, PhaseInv, OpenStep
  PROVE  \A u \in Threads : Moves(u)
<1>0. "tick" \in Threads /\ job["tick"] \in Job
  BY DEF Threads, TypeInv, TypeOK
<1>1. CASE SubmitEntry
  BY <1>0, <1>1, BecomeMoves DEF SubmitEntry, Moves
<1>2. CASE AwaitEntry
  <2>1. CASE Become("tick", IdleJob)
    BY <1>0, <2>1, IdleMoves
  <2>2. ASSUME NEW q, Become("tick", [job["tick"] EXCEPT !.pc = "place", !.qty = q])
        PROVE  \A u \in Threads : Moves(u)
    <3> DEFINE k == [job["tick"] EXCEPT !.pc = "place", !.qty = q]
    <3>1. k.pc = "place" /\ InHand(k) = InHand(job["tick"]) /\ k.seen = job["tick"].seen
      BY <1>0 DEF Job, InHand
    <3> HIDE DEF k
    <3>2. job'["tick"] = k /\ \A u \in Threads : u # "tick" => Moves(u)
      BY <1>0, <2>2, BecomeMoves DEF k
    <3>3. Moves("tick")
      BY <1>2, <3>1, <3>2 DEF Moves, Arrives, LabelsOf, TickLabels
    <3> QED BY <3>2, <3>3
  <2> QED BY <1>2, <2>1, <2>2, Zenon DEF AwaitEntry
<1> QED BY <1>1, <1>2 DEF OpenStep

LEMMA PlacingMoves ==
  ASSUME TypeInv, PhaseInv, NEW t \in Threads,
         StopPlaced(t) \/ StopRefused(t) \/ MarkProtected(t) \/ BeginReplace(t)
  PROVE  \A u \in Threads : Moves(u)
<1> DEFINE j == job[t]
<1>1. j \in Job /\ j.pc \in LabelsOf(t)
  BY DEF TypeInv, TypeOK, PhaseInv
<1>2. CASE StopPlaced(t)
  <2>1. t # "cli"
    BY <1>1, <1>2 DEF StopPlaced, At, LabelsOf, CliLabels
  <2>2. "mark" \in LabelsOf(t) \ {"entry"}
    BY <2>1 DEF Threads, LabelsOf, TickLabels, MonLabels, MainLabels
  <2>3. Goto(t, "mark")
    BY <1>2 DEF StopPlaced
  <2> QED BY <1>2, <2>2, <2>3, GotoMoves DEF Moves, Arrives
<1>3. CASE StopRefused(t)
  <2> DEFINE retry == [j EXCEPT !.attempt = j.attempt + 1]
             exit == [j EXCEPT !.pc = "exit", !.why = "UNPROTECTED",
                               !.seen = IF t = "tick" THEN OpenStops ELSE j.seen]
  <2>1. Become(t, retry) \/ Become(t, exit)
    BY <1>3, Zenon DEF StopRefused
  <2>2. CASE Become(t, retry)
    <3>1. retry.pc = j.pc /\ InHand(retry) = InHand(j) /\ retry.seen = j.seen /\ j.pc = "place"
      BY <1>1, <1>3 DEF StopRefused, At, Job, InHand
    <3>2. job'[t] = retry /\ \A u \in Threads : u # t => Moves(u)
      BY <2>2, BecomeMoves
    <3> HIDE DEF retry
    <3>3. Moves(t)
      BY <1>1, <1>3, <3>1, <3>2 DEF Moves, Arrives
    <3> QED BY <3>2, <3>3
  <2>3. CASE Become(t, exit)
    <3>1. exit.pc = "exit" /\ InHand(exit) = InHand(j) /\ exit.seen \in {j.seen, OpenStops}
      BY <1>1 DEF Job, InHand
    <3>2. job'[t] = exit /\ \A u \in Threads : u # t => Moves(u)
      BY <2>3, BecomeMoves
    <3>3. "exit" \in LabelsOf(t) \ {"entry"}
      BY DEF Threads, LabelsOf, CliLabels, TickLabels, MonLabels, MainLabels
    <3> HIDE DEF exit
    <3>4. Moves(t)
      BY <3>1, <3>2, <3>3 DEF Moves, Arrives
    <3> QED BY <3>2, <3>4
  <2> QED BY <2>1, <2>2, <2>3
<1>4. CASE MarkProtected(t)
  <2> DEFINE row == [trades[j.tr] EXCEPT !.status = "OPEN_PROTECTED",
                                         !.sl_order_id = StopId(j.tr, j.attempt)]
             decide == [j EXCEPT !.pc = "decide"]
  <2>1. \/ WriteRow(t, j.tr, row, NextTrade(t))
        \/ t = "mon" /\ WriteRow(t, j.tr, row, decide)
    BY <1>4, Zenon DEF MarkProtected
  <2> HIDE DEF row
  <2>2. ASSUME t = "mon", job'[t] = decide PROVE Moves(t)
    BY <1>1, <2>2, LabelMoves DEF LabelsOf, MonLabels, Elsewhere
  <2>3. CASE WriteRow(t, j.tr, row, NextTrade(t))
    BY <2>3, NextMoves, WriteMoves
  <2>4. CASE t = "mon" /\ WriteRow(t, j.tr, row, decide)
    <3> HIDE DEF decide
    <3> QED BY <2>2, <2>4, WriteMoves
  <2> QED BY <2>1, <2>3, <2>4
<1>5. CASE BeginReplace(t)
  <2> DEFINE row == [trades[j.tr] EXCEPT !.status = "OPEN_UNPROTECTED"]
             place == [j EXCEPT !.pc = "place", !.attempt = 1]
  <2>1. WriteRow(t, j.tr, row, place)
    BY <1>5, Zenon DEF BeginReplace
  <2>2. ASSUME job'[t] = place PROVE Moves(t)
    <3>1. place.pc = "place" /\ InHand(place) = InHand(j) /\ place.seen = j.seen
      BY <1>1 DEF Job, InHand
    <3>2. t # "cli"
      BY <1>1, <1>5 DEF BeginReplace, At, LabelsOf, CliLabels
    <3>3. "place" \in LabelsOf(t) \ {"entry"}
      BY <3>2 DEF Threads, LabelsOf, TickLabels, MonLabels, MainLabels
    <3> HIDE DEF place
    <3> QED BY <1>5, <2>2, <3>1, <3>3 DEF Moves, Arrives
  <2> HIDE DEF row, place
  <2> QED BY <2>1, <2>2, WriteMoves
<1> QED BY <1>2, <1>3, <1>4, <1>5

LEMMA MonitorMoves ==
  ASSUME TypeInv, PhaseInv, MonitorStep
  PROVE  \A u \in Threads : Moves(u)
<1> DEFINE t == "mon"
           j == job[t]
<1>0. t \in Threads /\ j \in Job
  BY DEF Threads, TypeInv, TypeOK
<1>1. CASE StartMonitor
  <2> DEFINE k == [IdleJob EXCEPT !.pc = "check", !.tr = First(open_trades), !.seen = OpenStops,
                                  !.todo = open_trades \ {First(open_trades)}, !.ks = ks]
  <2>1. Become(t, k) /\ open_trades # {}
    BY <1>1, Zenon DEF StartMonitor
  <2>2. First(open_trades) \in open_trades
    BY <2>1, FirstIn, OpenTradesType
  <2>3. k.pc = "check" /\ InHand(k) \subseteq open_trades /\ k.seen = OpenStops
    BY <2>2 DEF IdleJob, InHand
  <2> HIDE DEF k
  <2>4. job'[t] = k /\ \A u \in Threads : u # t => Moves(u)
    BY <1>0, <2>1, BecomeMoves
  <2>5. Moves(t)
    BY <2>3, <2>4 DEF Moves, Arrives, LabelsOf, MonLabels
  <2> QED BY <2>4, <2>5
<1>2. CASE CheckStop
  <2>1. \E why, ok : \/ Become(t, [j EXCEPT !.pc = "close", !.why = why])
                     \/ Become(t, [j EXCEPT !.pc = "position", !.stop_ok = ok])
    BY <1>2, Zenon DEF CheckStop
  <2>2. ASSUME NEW why, Become(t, [j EXCEPT !.pc = "close", !.why = why])
        PROVE  \A u \in Threads : Moves(u)
    <3> DEFINE k == [j EXCEPT !.pc = "close", !.why = why]
    <3>1. k.pc = "close" /\ InHand(k) = InHand(j) /\ k.seen = j.seen
      BY <1>0 DEF Job, InHand
    <3> HIDE DEF k
    <3>2. job'[t] = k /\ \A u \in Threads : u # t => Moves(u)
      BY <1>0, <2>2, BecomeMoves DEF k
    <3>3. Moves(t)
      BY <1>2, <3>1, <3>2 DEF Moves, Arrives, LabelsOf, MonLabels, CliLabels
    <3> QED BY <3>2, <3>3
  <2>3. ASSUME NEW ok, Become(t, [j EXCEPT !.pc = "position", !.stop_ok = ok])
        PROVE  \A u \in Threads : Moves(u)
    <3> DEFINE k == [j EXCEPT !.pc = "position", !.stop_ok = ok]
    <3>1. k.pc = "position" /\ InHand(k) = InHand(j) /\ k.seen = j.seen
      BY <1>0 DEF Job, InHand
    <3> HIDE DEF k
    <3>2. job'[t] = k /\ \A u \in Threads : u # t => Moves(u)
      BY <1>0, <2>3, BecomeMoves DEF k
    <3>3. Moves(t)
      BY <3>1, <3>2 DEF Moves, Arrives, LabelsOf, MonLabels
    <3> QED BY <3>2, <3>3
  <2> QED BY <2>1, <2>2, <2>3
<1>3. CASE CheckPosition
  <2>1. PICK q : Become(t, [j EXCEPT !.pc = MonitorPlan(j, q),
                              !.qty = IF MonitorPlan(j, q) = "replace" THEN q ELSE 0,
                              !.why = IF MonitorPlan(j, q) = "exit" THEN "KILL_SWITCH" ELSE "none"])
    BY <1>3, Zenon DEF CheckPosition
  <2> DEFINE plan == MonitorPlan(j, q)
             k == [j EXCEPT !.pc = plan,
                            !.qty = IF plan = "replace" THEN q ELSE 0,
                            !.why = IF plan = "exit" THEN "KILL_SWITCH" ELSE "none"]
  <2>2. plan \in LabelsOf(t) \ {"entry", "mark", "cancel", "place", "adopt", "sell", "close",
                                "boot_position", "orphan"}
    BY DEF MonitorPlan, LabelsOf, MonLabels, CliLabels
  <2>3. k.pc = plan /\ InHand(k) = InHand(j) /\ k.seen = j.seen
    BY <1>0 DEF Job, InHand
  <2>4. Become(t, k)
    BY <2>1
  <2> HIDE DEF k, plan
  <2>5. job'[t] = k /\ \A u \in Threads : u # t => Moves(u)
    BY <1>0, <2>4, BecomeMoves
  <2>6. Moves(t)
    BY <1>3, <2>2, <2>3, <2>5 DEF Moves, Arrives
  <2> QED BY <2>5, <2>6
<1>4. CASE Decide
  <2>1. \/ Become(t, NextTrade(t))
        \/ \E why : Become(t, [j EXCEPT !.pc = "exit", !.why = why])
    BY <1>4, Zenon DEF Decide
  <2>2. CASE Become(t, NextTrade(t))
    BY <1>0, <2>2, BecomeMoves, NextMoves
  <2>3. ASSUME NEW why, Become(t, [j EXCEPT !.pc = "exit", !.why = why])
        PROVE  \A u \in Threads : Moves(u)
    <3> DEFINE k == [j EXCEPT !.pc = "exit", !.why = why]
    <3>1. k.pc = "exit" /\ InHand(k) = InHand(j) /\ k.seen = j.seen
      BY <1>0 DEF Job, InHand
    <3> HIDE DEF k
    <3>2. job'[t] = k /\ \A u \in Threads : u # t => Moves(u)
      BY <1>0, <2>3, BecomeMoves DEF k
    <3>3. Moves(t)
      BY <3>1, <3>2 DEF Moves, Arrives, LabelsOf, MonLabels, CliLabels
    <3> QED BY <3>2, <3>3
  <2> QED BY <2>1, <2>2, <2>3
<1> QED BY <1>1, <1>2, <1>3, <1>4 DEF MonitorStep

LEMMA FlattenMoves ==
  ASSUME TypeInv, StartFlatten
  PROVE  \A u \in Threads : Moves(u)
<1> DEFINE k == [IdleJob EXCEPT !.pc = "exit", !.tr = First(open_trades), !.seen = OpenStops,
                                !.todo = open_trades \ {First(open_trades)}, !.why = "MANUAL"]
<1>1. Become("cli", k) /\ open_trades # {} /\ "cli" \in Threads
  BY Zenon DEF StartFlatten, Threads
<1>2. First(open_trades) \in open_trades
  BY <1>1, FirstIn, OpenTradesType
<1>3. k.pc = "exit" /\ InHand(k) \subseteq open_trades /\ k.seen = OpenStops
  BY <1>2 DEF IdleJob, InHand
<1> HIDE DEF k
<1>4. job'["cli"] = k /\ \A u \in Threads : u # "cli" => Moves(u)
  BY <1>1, BecomeMoves
<1>5. Moves("cli")
  BY <1>3, <1>4 DEF Moves, Arrives, LabelsOf, CliLabels
<1> QED BY <1>4, <1>5

LEMMA ExitMoves ==
  ASSUME TypeInv, PhaseInv, NEW t \in Threads,
         \/ BeginExit(t) \/ CancelStop(t) \/ ReadExitQty(t) \/ ExitAccepted(t)
         \/ ExitRefused(t) \/ AwaitExit(t) \/ MarkUnsold(t)
  PROVE  \A u \in Threads : Moves(u)
<1> DEFINE j == job[t]
<1>0. j \in Job /\ j.pc \in LabelsOf(t)
  BY DEF TypeInv, TypeOK, PhaseInv
<1>a. CliLabels \subseteq LabelsOf(t) /\ "entry" \notin CliLabels
  BY DEF Threads, LabelsOf, CliLabels, TickLabels, MonLabels, MainLabels
<1>1. CASE BeginExit(t)
  <2> DEFINE row == Exiting(trades[j.tr])
             k == [j EXCEPT !.pc = IF j.seen[j.tr] = NoId THEN "qty" ELSE "cancel"]
  <2>1. WriteRow(t, j.tr, row, k)
    BY <1>1, Zenon DEF BeginExit
  <2>2. k.pc \in {"qty", "cancel"} /\ InHand(k) = InHand(j) /\ k.seen = j.seen
    BY <1>0 DEF Job, InHand
  <2> HIDE DEF row, k
  <2>3. ASSUME job'[t] = k PROVE Moves(t)
    BY <1>1, <1>a, <2>2, <2>3 DEF Moves, Arrives, CliLabels
  <2> QED BY <2>1, <2>3, WriteMoves
<1>2. ASSUME NEW label \in {"qty", "fill", "unsold"}, Goto(t, label)
      PROVE  \A u \in Threads : Moves(u)
  <2>1. /\ job'[t].pc = label /\ InHand(job'[t]) = InHand(j) /\ job'[t].seen = j.seen
        /\ \A u \in Threads : u # t => Moves(u)
    BY <1>2, GotoMoves
  <2>2. Moves(t)
    BY <1>a, <2>1 DEF Moves, Arrives, CliLabels
  <2> QED BY <2>1, <2>2
<1>3. CASE CancelStop(t) \/ ExitAccepted(t) \/ ExitRefused(t)
  BY <1>2, <1>3 DEF CancelStop, ExitAccepted, ExitRefused
<1>4. CASE AwaitExit(t)
  <2>1. ASSUME Goto(t, "close") PROVE \A u \in Threads : Moves(u)
    <3>1. /\ job'[t].pc = "close" /\ InHand(job'[t]) = InHand(j) /\ job'[t].seen = j.seen
          /\ \A u \in Threads : u # t => Moves(u)
      BY <2>1, GotoMoves
    <3>2. Moves(t)
      BY <1>a, <1>4, <3>1 DEF Moves, Arrives, CliLabels
    <3> QED BY <3>1, <3>2
  <2>2. Goto(t, "close") \/ Goto(t, "unsold")
    BY <1>4 DEF AwaitExit, ExitOutcome
  <2> QED BY <1>2, <2>1, <2>2
<1>5. CASE ReadExitQty(t)
  <2>1. PICK q : Become(t, [j EXCEPT !.pc = "sell", !.qty = q])
    BY <1>5, Zenon DEF ReadExitQty
  <2> DEFINE k == [j EXCEPT !.pc = "sell", !.qty = q]
  <2>2. k.pc = "sell" /\ InHand(k) = InHand(j) /\ k.seen = j.seen
    BY <1>0 DEF Job, InHand
  <2>3. Become(t, k)
    BY <2>1
  <2> HIDE DEF k
  <2>4. job'[t] = k /\ \A u \in Threads : u # t => Moves(u)
    BY <2>3, BecomeMoves
  <2>5. Moves(t)
    BY <1>a, <1>5, <2>2, <2>4 DEF Moves, Arrives, CliLabels
  <2> QED BY <2>4, <2>5
<1>6. CASE MarkUnsold(t)
  BY <1>6, NextMoves, WriteMoves DEF MarkUnsold
<1> QED BY <1>1, <1>3, <1>4, <1>5, <1>6

LEMMA ClosingMoves ==
  ASSUME TypeInv, PhaseInv, NEW t \in Threads, History(t) \/ MarkClosed(t)
  PROVE  \A u \in Threads : Moves(u)
<1> DEFINE j == job[t]
<1>0. j \in Job
  BY DEF TypeInv, TypeOK
<1>a. CliLabels \subseteq LabelsOf(t) /\ "entry" \notin CliLabels
  BY DEF Threads, LabelsOf, CliLabels, TickLabels, MonLabels, MainLabels
<1>1. CASE History(t)
  <2>1. PICK why : Become(t, [j EXCEPT !.pc = "close", !.why = why])
    BY <1>1, Zenon DEF History
  <2> DEFINE k == [j EXCEPT !.pc = "close", !.why = why]
  <2>2. k.pc = "close" /\ InHand(k) = InHand(j) /\ k.seen = j.seen
    BY <1>0 DEF Job, InHand
  <2>3. Become(t, k)
    BY <2>1
  <2> HIDE DEF k
  <2>4. job'[t] = k /\ \A u \in Threads : u # t => Moves(u)
    BY <2>3, BecomeMoves
  <2>5. Moves(t)
    BY <1>1, <1>a, <2>2, <2>4 DEF Moves, Arrives, CliLabels
  <2> QED BY <2>4, <2>5
<1>2. CASE MarkClosed(t)
  <2>1. PICK row : WriteRow(t, j.tr, row, NextTrade(t))
    BY <1>2, Zenon DEF MarkClosed, WriteRow
  <2> QED BY <2>1, NextMoves, WriteMoves
<1> QED BY <1>1, <1>2

LEMMA BootMoves ==
  ASSUME TypeInv, PhaseInv, BootStep
  PROVE  \A u \in Threads : Moves(u)
<1> DEFINE t == "main"
           j == job[t]
<1>0. t \in Threads /\ j \in Job
  BY DEF Threads, TypeInv, TypeOK
<1>a. LabelsOf(t) = MainLabels
  BY DEF LabelsOf
<1>1. CASE Boot
  <2> DEFINE k == [IdleJob EXCEPT !.pc = "boot_position", !.todo = open_trades, !.seen = OpenStops]
  <2>1. Become(t, k)
    BY <1>1, Zenon DEF Boot
  <2>2. k.pc = "boot_position" /\ InHand(k) \subseteq open_trades /\ k.seen = OpenStops
    BY DEF IdleJob, InHand
  <2> HIDE DEF k
  <2>3. job'[t] = k /\ \A u \in Threads : u # t => Moves(u)
    BY <1>0, <2>1, BecomeMoves
  <2>4. Moves(t)
    BY <1>1, <1>a, <2>2, <2>3 DEF Moves, Arrives, MainLabels
  <2> QED BY <2>3, <2>4
<1>2. ASSUME NEW label \in MainLabels \ Elsewhere, Become(t, [j EXCEPT !.pc = label])
      PROVE  \A u \in Threads : Moves(u)
  <2>1. job'[t] = [j EXCEPT !.pc = label] /\ \A u \in Threads : u # t => Moves(u)
    BY <1>0, <1>2, BecomeMoves
  <2> QED BY <1>0, <1>a, <2>1, LabelMoves
<1>3. ASSUME NEW label, Goto(t, label) PROVE Become(t, [j EXCEPT !.pc = label])
  BY <1>3, Zenon DEF Goto, Become
<1>4. CASE BootPosition
  <2> DEFINE rows == j.todo
             Adopt(q) == [j EXCEPT !.pc = "adopt", !.tr = Last(rows),
                                   !.todo = rows \ {Last(rows)}, !.qty = q]
  <2>1. \E q : \/ BootPlan(rows, q) = "adopt" /\ Become(t, Adopt(q))
               \/ Become(t, NextTrade(t))
               \/ BootPlan(rows, q) \in {"orphan", "sweep"} /\ Become(t, [j EXCEPT !.pc = BootPlan(rows, q)])
    <3>1. \A q : BootPlan(rows, q) \in {"adopt", "close_all", "orphan", "sweep"}
      BY DEF BootPlan
    <3> HIDE DEF Adopt
    <3> QED BY <1>4, <3>1 DEF BootPosition, Adopt
  <2>2. ASSUME NEW q, BootPlan(rows, q) = "adopt", Become(t, Adopt(q))
        PROVE  \A u \in Threads : Moves(u)
    <3> DEFINE k == Adopt(q)
    <3>1. rows # {} /\ rows \in SUBSET Trades
      BY <1>0, <2>2 DEF BootPlan, Job
    <3>2. Last(rows) \in rows
      BY <3>1, LastIn
    <3>3. k.pc = "adopt" /\ InHand(k) \subseteq InHand(j) /\ k.seen = j.seen
      BY <1>0, <3>2 DEF Job, InHand
    <3>4. Become(t, k)
      BY <2>2
    <3> HIDE DEF k
    <3>5. job'[t] = k /\ \A u \in Threads : u # t => Moves(u)
      BY <1>0, <3>4, BecomeMoves
    <3>6. Moves(t)
      BY <1>4, <1>a, <3>3, <3>5 DEF Moves, Arrives, MainLabels
    <3> QED BY <3>5, <3>6
  <2>3. CASE Become(t, NextTrade(t))
    BY <1>0, <2>3, BecomeMoves, NextMoves
  <2>4. ASSUME NEW label \in {"orphan", "sweep"}, Become(t, [j EXCEPT !.pc = label])
        PROVE  \A u \in Threads : Moves(u)
    <3> DEFINE k == [j EXCEPT !.pc = label]
    <3>1. k.pc = label /\ InHand(k) = InHand(j) /\ k.seen = j.seen
      BY <1>0 DEF Job, InHand
    <3>2. Become(t, k)
      BY <2>4
    <3> HIDE DEF k
    <3>3. job'[t] = k /\ \A u \in Threads : u # t => Moves(u)
      BY <1>0, <3>2, BecomeMoves
    <3>4. Moves(t)
      BY <1>4, <1>a, <2>4, <3>1, <3>3 DEF Moves, Arrives, MainLabels
    <3> QED BY <3>3, <3>4
  <2> HIDE DEF Adopt
  <2> QED BY <2>1, <2>2, <2>3, <2>4
<1>5. CASE AdoptNewest
  <2>1. CASE Become(t, NextTrade(t))
    BY <1>0, <2>1, BecomeMoves, NextMoves
  <2>2. CASE Goto(t, "replace")
    <3>1. /\ job'[t].pc = "replace" /\ InHand(job'[t]) = InHand(j) /\ job'[t].seen = j.seen
          /\ \A u \in Threads : u # t => Moves(u)
      BY <1>0, <2>2, GotoMoves
    <3>2. Moves(t)
      BY <1>5, <1>a, <3>1 DEF Moves, Arrives, MainLabels
    <3> QED BY <3>1, <3>2
  <2> QED BY <1>5, <2>1, <2>2 DEF AdoptNewest
<1>6. CASE FlattenOrphan \/ Sweep
  <2>1. \E label \in {"sweep", "ready"} : Goto(t, label)
    BY <1>6, Zenon DEF FlattenOrphan, Sweep
  <2> QED BY <1>2, <1>3, <2>1 DEF MainLabels, CliLabels, Elsewhere
<1>7. CASE StartScheduler
  BY <1>0, <1>7, IdleMoves DEF StartScheduler
<1> QED BY <1>1, <1>4, <1>5, <1>6, <1>7 DEF BootStep

LEMMA NextMovesAll ==
  ASSUME TypeInv, PhaseInv, [Next]_vars
  PROVE  \A u \in Threads : Moves(u)
<1>1. CASE OpenStep
  BY <1>1, OpenMoves
<1>2. CASE MonitorStep
  BY <1>2, MonitorMoves
<1>3. CASE BootStep
  BY <1>3, BootMoves
<1>4. CASE StartFlatten
  BY <1>4, FlattenMoves
<1>5. ASSUME NEW t \in Threads, SharedStep(t) PROVE \A u \in Threads : Moves(u)
  BY <1>5, PlacingMoves, ExitMoves, ClosingMoves DEF SharedStep
<1>6. CASE MarketStep \/ StopStep \/ SetKillSwitch \/ UNCHANGED vars
  <2>1. UNCHANGED job
    BY <1>6 DEF MarketStep, ResolveEntry, ResolveExit, ResolveClose, StopStep, TriggerStop, LoseStop,
                SetKillSwitch, vars
  <2> QED BY <2>1, KeptMoves
<1>7. CASE FailStep
  <2>1. CASE Crash
    BY <2>1 DEF Crash, Moves
  <2>2. ASSUME NEW t \in Threads, JobDies(t) PROVE \A u \in Threads : Moves(u)
    BY <2>2, IdleMoves DEF JobDies
  <2> QED BY <1>7, <2>1, <2>2 DEF FailStep
<1> QED BY <1>1, <1>2, <1>3, <1>4, <1>5, <1>6, <1>7 DEF Next

-----------------------------------------------------------------------------
(* Phases: the boot works alone, with nothing beside it but `cli flatten`. *)

LEMMA SharedFrame ==
  ASSUME TypeInv, NEW t \in Threads, SharedStep(t)
  PROVE  /\ job[t].pc \notin {"idle", "entry"}
         /\ \A u \in Threads : u # t => job'[u] = job[u]
         /\ \/ proc' = proc
            \/ t = "main" /\ proc' = "down" /\ job'[t] = IdleJob
<1> DEFINE Frame == \A u \in Threads : u # t => job'[u] = job[u]
           Proc == proc' = proc \/ (t = "main" /\ proc' = "down" /\ job'[t] = IdleJob)
<1>0. job \in [Threads -> Job]
  BY DEF TypeInv, TypeOK
<1>1. job[t].pc \notin {"idle", "entry"}
  BY DEF SharedStep, StopPlaced, StopRefused, MarkProtected, BeginReplace, BeginExit, CancelStop,
         ReadExitQty, ExitAccepted, ExitRefused, AwaitExit, MarkUnsold, History, MarkClosed, At
<1>2. ASSUME NEW k, Become(t, k) PROVE Frame
  BY <1>0, <1>2 DEF Become
<1>3. ASSUME NEW label, Goto(t, label) PROVE Frame
  BY <1>0, <1>3 DEF Goto
<1>4. ASSUME NEW n, NEW row, NEW k, WriteRow(t, n, row, k) PROVE Frame /\ Proc
  BY <1>0, <1>4 DEF WriteRow, WriteAborted, WriteDone, Become
<1>5. CASE StopPlaced(t) \/ CancelStop(t) \/ ExitAccepted(t) \/ ExitRefused(t) \/ AwaitExit(t)
  <2>1. \E label : Goto(t, label)
    BY <1>5, Zenon DEF StopPlaced, CancelStop, ExitAccepted, ExitRefused, AwaitExit
  <2>2. proc' = proc
    BY <1>5 DEF StopPlaced, CancelStop, ExitAccepted, ExitRefused, AwaitExit
  <2> QED BY <1>1, <1>3, <2>1, <2>2
<1>6. CASE StopRefused(t) \/ ReadExitQty(t) \/ History(t)
  <2>1. \E k : Become(t, k)
    BY <1>6, Zenon DEF StopRefused, ReadExitQty, History
  <2>2. proc' = proc
    BY <1>6 DEF StopRefused, ReadExitQty, History
  <2> QED BY <1>1, <1>2, <2>1, <2>2
<1>7. CASE MarkProtected(t) \/ BeginReplace(t) \/ BeginExit(t) \/ MarkUnsold(t) \/ MarkClosed(t)
  <2>1. \E n, row, k : WriteRow(t, n, row, k)
    BY <1>7, Zenon DEF MarkProtected, BeginReplace, BeginExit, MarkUnsold, MarkClosed, WriteRow
  <2> QED BY <1>1, <1>4, <2>1
<1> QED BY <1>5, <1>6, <1>7 DEF SharedStep

LEMMA MonitorFrame ==
  ASSUME TypeInv, PhaseInv, MonitorStep
  PROVE  /\ proc = "up" /\ proc' = proc
         /\ \A u \in Threads : u # "mon" => job'[u] = job[u]
<1>0. job \in [Threads -> Job] /\ "mon" \in Threads /\ proc \in {"down", "boot", "up"}
  BY DEF Threads, TypeInv, TypeOK
<1>1. CASE StartMonitor
  BY <1>0, <1>1 DEF StartMonitor, Become
<1>2. ASSUME NEW k, Become("mon", k) PROVE \A u \in Threads : u # "mon" => job'[u] = job[u]
  BY <1>0, <1>2 DEF Become
<1>3. CASE CheckStop \/ CheckPosition \/ Decide
  <2>1. job["mon"].pc # "idle" /\ proc' = proc
    BY <1>3 DEF CheckStop, CheckPosition, Decide, At
  <2>2. \E k : Become("mon", k)
    BY <1>3, Zenon DEF CheckStop, CheckPosition, Decide
  <2> QED BY <1>0, <1>2, <2>1, <2>2 DEF PhaseInv
<1> QED BY <1>1, <1>3 DEF MonitorStep

LEMMA BootFrame ==
  ASSUME TypeInv, BootStep
  PROVE  \A u \in Threads : u # "main" => job'[u] = job[u]
<1>0. job \in [Threads -> Job] /\ "main" \in Threads
  BY DEF Threads, TypeInv, TypeOK
<1>1. \E k : Become("main", k)
  BY Zenon DEF BootStep, Boot, BootPosition, AdoptNewest, FlattenOrphan, Sweep, StartScheduler,
               Goto, Become
<1> QED BY <1>0, <1>1 DEF Become

LEMMA PhaseInit == Init => PhaseInv
BY DEF Init, PhaseInv, IdleJob, Threads, LabelsOf, CliLabels, TickLabels, MonLabels, MainLabels

LEMMA PhaseNext ==
  ASSUME TypeInv, PhaseInv, [Next]_vars
  PROVE  PhaseInv'
<1> DEFINE Apart == /\ proc # "boot" => job["main"].pc = "idle"
                    /\ proc # "up" => job["tick"].pc = "idle" /\ job["mon"].pc = "idle"
<1>0. /\ {"main", "tick", "mon", "cli"} = Threads
      /\ job \in [Threads -> Job] /\ proc \in {"down", "boot", "up"}
      /\ IdleJob.pc = "idle"
  BY DEF Threads, TypeInv, TypeOK, IdleJob
<1>1. \A t \in Threads : job'[t].pc \in LabelsOf(t)
  <2>1. \A t \in Threads : Moves(t)
    BY NextMovesAll
  <2>2. \A t \in Threads : IdleJob.pc \in LabelsOf(t)
    BY DEF IdleJob, Threads, LabelsOf, CliLabels, TickLabels, MonLabels, MainLabels
  <2>3. ASSUME SubmitEntry PROVE job'["tick"].pc \in LabelsOf("tick")
    BY <1>0, <2>3 DEF SubmitEntry, Become, IdleJob, LabelsOf, TickLabels
  <2> QED BY <2>1, <2>2, <2>3 DEF Moves, PhaseInv
<1> SUFFICES Apart'
  BY <1>1 DEF PhaseInv
<1>2. Apart
  BY DEF PhaseInv
<1>3. ASSUME NEW t \in Threads, SharedStep(t) PROVE Apart'
  BY <1>0, <1>2, <1>3, SharedFrame
<1>4. CASE OpenStep
  <2>1. /\ proc = "up" /\ proc' = proc
        /\ \A u \in Threads : u # "tick" => job'[u] = job[u]
    <3>1. CASE SubmitEntry
      BY <1>0, <3>1 DEF SubmitEntry, Become
    <3>2. CASE AwaitEntry
      BY <1>0, <1>2, <3>2 DEF AwaitEntry, Become, At
    <3> QED BY <1>4, <3>1, <3>2 DEF OpenStep
  <2> QED BY <1>0, <1>2, <2>1
<1>5. CASE MonitorStep
  BY <1>0, <1>2, <1>5, MonitorFrame
<1>6. CASE StartFlatten
  BY <1>0, <1>2, <1>6 DEF StartFlatten, Become
<1>7. CASE BootStep
  <2>1. CASE Boot
    BY <1>0, <1>2, <2>1 DEF Boot, Become
  <2>2. CASE StartScheduler
    BY <1>0, <1>2, <2>2 DEF StartScheduler, Become, At
  <2>3. CASE BootPosition \/ AdoptNewest \/ FlattenOrphan \/ Sweep
    <3>1. job["main"].pc # "idle" /\ proc' = proc
      BY <2>3 DEF BootPosition, AdoptNewest, FlattenOrphan, Sweep, At
    <3> QED BY <1>0, <1>2, <1>7, <3>1, BootFrame
  <2> QED BY <1>7, <2>1, <2>2, <2>3 DEF BootStep
<1>8. CASE FailStep
  <2>1. CASE Crash
    BY <1>0, <2>1 DEF Crash
  <2>2. ASSUME NEW t \in Threads, JobDies(t) PROVE Apart'
    BY <1>0, <1>2, <2>2 DEF JobDies, Become, At
  <2> QED BY <1>8, <2>1, <2>2 DEF FailStep
<1>9. CASE MarketStep \/ StopStep \/ SetKillSwitch \/ UNCHANGED vars
  <2>1. UNCHANGED <<job, proc>>
    BY <1>9 DEF MarketStep, ResolveEntry, ResolveExit, ResolveClose, StopStep, TriggerStop, LoseStop,
                SetKillSwitch, vars
  <2> QED BY <1>2, <2>1
<1> QED BY <1>3, <1>4, <1>5, <1>6, <1>7, <1>8, <1>9 DEF Next

-----------------------------------------------------------------------------
(* What one step does to the rows and to the broker. *)

Fresh(t) == StopId(job[t].tr, job[t].attempt)

Writes(t, n, row) ==
  /\ n = job[t].tr /\ ~At(t, "entry")
  /\ trades' = [trades EXCEPT ![n] = row]
  /\ Immutable(n) => row = trades[n]
  /\ row.units = trades[n].units
  /\ \/ /\ MarkProtected(t)
        /\ row.status = "OPEN_PROTECTED" /\ row.sl_order_id = Fresh(t)
     \/ /\ row.status \in {"OPEN_UNPROTECTED", "PENDING_EXIT", "CLOSED"}
        /\ row.sl_order_id = trades[n].sl_order_id
        /\ row.status = "CLOSED" => At(t, "close") /\ row.exit_reason = job[t].why

Inserts(n, row) ==
  /\ AwaitEntry /\ n = job["tick"].tr
  /\ orders[EntryId(n)].filled > 0
  /\ trades' = [trades EXCEPT ![n] = row]
  /\ row.status = "OPEN_UNPROTECTED" /\ row.sl_order_id = NoId
  /\ row.units = orders[EntryId(n)].filled
  /\ job'["tick"] = [job["tick"] EXCEPT !.pc = "place", !.qty = orders[EntryId(n)].filled]

RowMoves ==
  \/ UNCHANGED trades
  \/ \E n \in Trades, row \in TradeRow :
       Inserts(n, row) \/ \E t \in Threads : Writes(t, n, row)

OrderMoves(o) ==
  LET x == orders[o]
      y == orders'[o]
  IN \/ y = x
     \/ SubmitEntry /\ o = EntryId(next) /\ y = NewOrder(Units)
     \/ \E t \in Threads : /\ StopPlaced(t) /\ o = Fresh(t)
                           /\ x.status = "none" /\ y = NewOrder(job[t].qty)
     \/ \E t \in Threads : /\ ExitAccepted(t) /\ o = ExitId(job[t].tr, job[t].why)
                           /\ x.status = "none" /\ y = NewOrder(job[t].qty)
     \/ /\ Working(o) /\ y = [x EXCEPT !.status = "canceled"] /\ UNCHANGED <<pos, owner>>
        /\ \/ \E t \in Threads : CancelStop(t) /\ o = job[t].seen[job[t].tr]
           \/ Sweep /\ \A n \in open_trades : trades[n].sl_order_id # o
     \/ o \in StopIds /\ LoseStop(o) /\ y = [x EXCEPT !.status = "expired"]
     \/ \E n \in Trades : o = EntryId(n) /\ ResolveEntry(n)
     \/ o \in ExitIds /\ ResolveExit(o)
     \/ o \in StopIds /\ TriggerStop(o)

LEMMA AwaitInserts ==
  ASSUME TypeInv, AwaitEntry
  PROVE  IF orders[EntryId(job["tick"].tr)].filled > 0
         THEN \E row \in TradeRow : Inserts(job["tick"].tr, row)
         ELSE UNCHANGED trades /\ job'["tick"] = IdleJob
<1> DEFINE n == job["tick"].tr
           row == [status |-> "OPEN_UNPROTECTED", units |-> orders[EntryId(n)].filled,
                   sl_order_id |-> NoId, exit_reason |-> "none"]
<1>0. job \in [Threads -> Job] /\ "tick" \in Threads
  BY DEF TypeInv, TypeOK, Threads
<1>1. n \in Trades
  BY <1>0 DEF AwaitEntry, At, TypeInv, BoundJob, Unbound
<1>2. IF orders[EntryId(n)].filled > 0
      THEN /\ trades' = [trades EXCEPT ![n] = row]
           /\ job'["tick"] = [job["tick"] EXCEPT !.pc = "place", !.qty = orders[EntryId(n)].filled]
      ELSE UNCHANGED trades /\ job'["tick"] = IdleJob
  BY <1>0 DEF AwaitEntry, Become
<1>3. /\ row \in TradeRow /\ row.status = "OPEN_UNPROTECTED" /\ row.sl_order_id = NoId
      /\ row.units = orders[EntryId(n)].filled
  <2>1. orders[EntryId(n)].filled \in Nat
    BY <1>1, EntryIsNoExit DEF TypeInv, TypeOK, Order
  <2> QED BY <2>1 DEF TradeRow, TradeStatuses, NoId
<1> HIDE DEF row
<1> QED BY <1>2, <1>3 DEF Inserts

LEMMA RowsNext ==
  ASSUME TypeInv, [Next]_vars
  PROVE  RowMoves
<1>0. /\ trades \in [Trades -> TradeRow] /\ orders \in [OrderIds -> Order]
      /\ \A t \in Threads : /\ job[t] \in Job
                            /\ job[t].pc \notin Unbound => job[t].tr \in Trades
  BY DEF TypeInv, TypeOK, BoundJob
<1>1. CASE AwaitEntry
  <2>1. job["tick"].tr \in Trades
    BY <1>0, <1>1 DEF AwaitEntry, At, Unbound, Threads
  <2> QED BY <1>1, <2>1, AwaitInserts DEF RowMoves, AwaitEntry
<1>2. ASSUME NEW t \in Threads, SharedStep(t) PROVE RowMoves
  <2> DEFINE j == job[t]
             n == j.tr
  <2>1. CASE UNCHANGED trades
    BY <2>1 DEF RowMoves
  <2>2. CASE StopPlaced(t) \/ StopRefused(t) \/ CancelStop(t) \/ ReadExitQty(t) \/ ExitAccepted(t)
             \/ ExitRefused(t) \/ AwaitExit(t) \/ History(t)
    BY <2>1, <2>2 DEF StopPlaced, StopRefused, CancelStop, ReadExitQty, ExitAccepted, ExitRefused,
                      AwaitExit, History
  <2>3. ASSUME NEW row, NEW k, WriteRow(t, n, row, k), row \in TradeRow, n \in Trades,
               ~At(t, "entry"), row.units = trades[n].units,
               \/ MarkProtected(t) /\ row.status = "OPEN_PROTECTED" /\ row.sl_order_id = Fresh(t)
               \/ /\ row.status \in {"OPEN_UNPROTECTED", "PENDING_EXIT", "CLOSED"}
                  /\ row.sl_order_id = trades[n].sl_order_id
                  /\ row.status = "CLOSED" => At(t, "close") /\ row.exit_reason = j.why
        PROVE  RowMoves
    <3>1. CASE WriteAborted(t, n)
      BY <3>1 DEF WriteAborted, RowMoves
    <3>2. CASE WriteDone(t, n, row, k)
      BY <2>3, <3>2 DEF WriteDone, RowMoves, Writes
    <3> QED BY <2>3, <3>1, <3>2 DEF WriteRow
  <2>4. ASSUME n \in Trades
        PROVE  /\ trades[n] \in TradeRow
               /\ j \in Job
    BY <1>0, <2>4
  <2>5. CASE MarkProtected(t)
    <3> DEFINE row == [trades[n] EXCEPT !.status = "OPEN_PROTECTED", !.sl_order_id = Fresh(t)]
    <3>1. n \in Trades /\ ~At(t, "entry") /\ Fresh(t) \in StopIds
      <4>1. n \in Trades /\ ~At(t, "entry") /\ j \in Job
        BY <1>0, <2>5 DEF MarkProtected, At, Unbound
      <4> QED BY <4>1, SuffixType DEF Fresh, StopId, StopIds, Job
    <3>2. /\ row \in TradeRow /\ row.status = "OPEN_PROTECTED" /\ row.sl_order_id = Fresh(t)
          /\ row.units = trades[n].units
      BY <2>4, <3>1 DEF TradeRow, TradeStatuses
    <3>3. \E k : WriteRow(t, n, row, k)
      BY <2>5, Zenon DEF MarkProtected, Fresh
    <3> HIDE DEF row
    <3> QED BY <2>3, <2>5, <3>1, <3>2, <3>3
  <2>6. ASSUME NEW status \in {"OPEN_UNPROTECTED", "PENDING_EXIT"}, n \in Trades
        PROVE  LET row == [trades[n] EXCEPT !.status = status]
               IN /\ row \in TradeRow /\ row.status = status
                  /\ row.sl_order_id = trades[n].sl_order_id /\ row.units = trades[n].units
    BY <2>4, <2>6 DEF TradeRow, TradeStatuses
  <2>7. CASE BeginReplace(t) \/ MarkUnsold(t) \/ BeginExit(t)
    <3>1. n \in Trades /\ ~At(t, "entry")
      BY <1>0, <2>7 DEF BeginReplace, MarkUnsold, BeginExit, At, Unbound
    <3>2. PICK status \in {"OPEN_UNPROTECTED", "PENDING_EXIT"} :
            \E k : WriteRow(t, n, [trades[n] EXCEPT !.status = status], k)
      BY <2>7, Zenon DEF BeginReplace, MarkUnsold, BeginExit, Exiting
    <3> DEFINE row == [trades[n] EXCEPT !.status = status]
    <3>3. /\ row \in TradeRow /\ row.status = status
          /\ row.sl_order_id = trades[n].sl_order_id /\ row.units = trades[n].units
      BY <2>6, <3>1
    <3>4. \E k : WriteRow(t, n, row, k)
      BY <3>2
    <3> HIDE DEF row
    <3> QED BY <2>3, <3>1, <3>3, <3>4
  <2>8. CASE MarkClosed(t)
    <3> DEFINE row == [trades[n] EXCEPT !.status = "CLOSED", !.exit_reason = j.why]
    <3>1. n \in Trades /\ At(t, "close") /\ ~At(t, "entry")
      BY <1>0, <2>8 DEF MarkClosed, At, Unbound
    <3>2. /\ row \in TradeRow /\ row.status = "CLOSED" /\ row.exit_reason = j.why
          /\ row.sl_order_id = trades[n].sl_order_id /\ row.units = trades[n].units
      BY <2>4, <3>1 DEF TradeRow, TradeStatuses, Job
    <3>3. \E k : WriteRow(t, n, row, k)
      BY <2>8, Zenon DEF MarkClosed, WriteRow
    <3> HIDE DEF row
    <3> QED BY <2>3, <3>1, <3>2, <3>3
  <2> QED BY <1>2, <2>2, <2>5, <2>7, <2>8 DEF SharedStep
<1>3. CASE UNCHANGED trades
  BY <1>3 DEF RowMoves
<1>4. CASE SubmitEntry \/ MonitorStep \/ BootStep \/ StartFlatten \/ MarketStep \/ StopStep
           \/ FailStep \/ SetKillSwitch \/ UNCHANGED vars
  BY <1>3, <1>4
     DEF SubmitEntry, MonitorStep, StartMonitor, CheckStop, CheckPosition, Decide, BootStep, Boot,
         BootPosition, AdoptNewest, FlattenOrphan, Sweep, StartScheduler, StartFlatten, MarketStep,
         ResolveEntry, ResolveExit, ResolveClose, StopStep, TriggerStop, LoseStop, FailStep, Crash, JobDies,
         SetKillSwitch, vars
<1> QED BY <1>1, <1>2, <1>4 DEF Next, OpenStep

LEMMA OrdersNext ==
  ASSUME TypeInv, [Next]_vars, NEW o \in OrderIds
  PROVE  OrderMoves(o)
<1>0. /\ orders \in [OrderIds -> Order]
      /\ \A t \in Threads : /\ job[t] \in Job
                            /\ job[t].pc \notin Unbound => job[t].tr \in Trades
  BY DEF TypeInv, TypeOK, BoundJob
<1>1. CASE orders'[o] = orders[o]
  BY <1>1 DEF OrderMoves
<1>2. ASSUME NEW i, NEW r, orders' = [orders EXCEPT ![i] = r], i # o PROVE OrderMoves(o)
  BY <1>0, <1>1, <1>2
<1>3. CASE SubmitEntry
  <2>1. orders' = [orders EXCEPT ![EntryId(next)] = NewOrder(Units)]
    BY <1>3 DEF SubmitEntry
  <2> QED BY <1>0, <1>2, <1>3, <2>1 DEF OrderMoves
<1>4. ASSUME NEW t \in Threads, StopPlaced(t) PROVE OrderMoves(o)
  <2>1. /\ orders' = [orders EXCEPT ![Fresh(t)] = NewOrder(job[t].qty)]
        /\ orders[Fresh(t)].status = "none"
    BY <1>4 DEF StopPlaced, Fresh
  <2> QED BY <1>0, <1>2, <1>4, <2>1 DEF OrderMoves
<1>5. ASSUME NEW t \in Threads, ExitAccepted(t) PROVE OrderMoves(o)
  <2> DEFINE i == ExitId(job[t].tr, job[t].why)
  <2>1. /\ orders' = [orders EXCEPT ![i] = NewOrder(job[t].qty)]
        /\ orders[i].status = "none"
    BY <1>5 DEF ExitAccepted
  <2> QED BY <1>0, <1>2, <1>5, <2>1 DEF OrderMoves
<1>6. ASSUME NEW t \in Threads, CancelStop(t) PROVE OrderMoves(o)
  <2> DEFINE i == job[t].seen[job[t].tr]
  <2>1. CASE UNCHANGED orders
    BY <1>1, <2>1
  <2>2. CASE Working(i) /\ orders' = [orders EXCEPT ![i].status = "canceled"]
    <3>1. orders' = [orders EXCEPT ![i] = [orders[i] EXCEPT !.status = "canceled"]]
      BY <2>2, Zenon
    <3>2. UNCHANGED <<pos, owner>>
      BY <1>6 DEF CancelStop
    <3> DEFINE r == [orders[i] EXCEPT !.status = "canceled"]
    <3>3. CASE i = o
      BY <1>0, <1>6, <2>2, <3>1, <3>2, <3>3 DEF OrderMoves
    <3>4. CASE i # o
      BY <1>0, <1>1, <3>1, <3>4
    <3> QED BY <3>3, <3>4
  <2> QED BY <1>6, <2>1, <2>2 DEF CancelStop
<1>7. CASE Sweep
  <2> DEFINE live == {trades[n].sl_order_id : n \in open_trades}
             stray == {i \in OrderIds \ live : Working(i)}
  <2>1. PICK S \in SUBSET stray :
          orders' = [i \in OrderIds |-> IF i \in S THEN [orders[i] EXCEPT !.status = "canceled"]
                                                   ELSE orders[i]]
    BY <1>7, Zenon DEF Sweep
  <2>2. CASE o \in S
    <3>1. orders'[o] = [orders[o] EXCEPT !.status = "canceled"]
      BY <2>1, <2>2
    <3>2. Working(o) /\ \A n \in open_trades : trades[n].sl_order_id # o
      BY <2>2
    <3>3. UNCHANGED <<pos, owner>>
      BY <1>7 DEF Sweep
    <3> QED BY <1>7, <3>1, <3>2, <3>3 DEF OrderMoves
  <2>3. CASE o \notin S
    BY <1>1, <2>1, <2>3
  <2> QED BY <2>2, <2>3
<1>8. ASSUME NEW n \in Trades, ResolveEntry(n) PROVE OrderMoves(o)
  <2>1. CASE o = EntryId(n)
    BY <1>8, <2>1 DEF OrderMoves
  <2>2. CASE o # EntryId(n)
    <3>1. PICK q, status : orders' = [orders EXCEPT ![EntryId(n)].status = status,
                                                    ![EntryId(n)].filled = q]
      BY <1>8, Zenon DEF ResolveEntry
    <3> QED BY <1>0, <1>1, <2>2, <3>1
  <2> QED BY <2>1, <2>2
<1>9. ASSUME NEW i \in ExitIds, ResolveExit(i) PROVE OrderMoves(o)
  <2>1. CASE o = i
    BY <1>9, <2>1 DEF OrderMoves
  <2>2. CASE o # i
    <3>1. PICK q, status : orders' = [orders EXCEPT ![i].status = status, ![i].filled = q]
      BY <1>9, Zenon DEF ResolveExit
    <3> QED BY <1>0, <1>1, <2>2, <3>1
  <2> QED BY <2>1, <2>2
<1>10. ASSUME NEW i \in StopIds, TriggerStop(i) PROVE OrderMoves(o)
  <2>1. CASE o = i
    BY <1>10, <2>1 DEF OrderMoves
  <2>2. CASE o # i
    <3>1. PICK q, status : orders' = [orders EXCEPT ![i].status = status, ![i].filled = @ + q]
      BY <1>10, Zenon DEF TriggerStop
    <3> QED BY <1>0, <1>1, <2>2, <3>1
  <2> QED BY <2>1, <2>2
<1>11. ASSUME NEW i \in StopIds, LoseStop(i) PROVE OrderMoves(o)
  <2>1. orders' = [orders EXCEPT ![i].status = "expired"]
    BY <1>11 DEF LoseStop
  <2>2. CASE o = i
    <3>1. orders'[o] = [orders[o] EXCEPT !.status = "expired"]
      BY <1>0, <2>1, <2>2
    <3> QED BY <1>11, <2>2, <3>1 DEF OrderMoves
  <2>3. CASE o # i
    BY <1>0, <1>1, <2>1, <2>3
  <2> QED BY <2>2, <2>3
<1>12. CASE UNCHANGED orders
  BY <1>1, <1>12
<1>13. ASSUME NEW t \in Threads,
              \/ StopRefused(t) \/ MarkProtected(t) \/ BeginReplace(t) \/ BeginExit(t)
              \/ ReadExitQty(t) \/ ExitRefused(t) \/ AwaitExit(t) \/ MarkUnsold(t)
              \/ History(t) \/ MarkClosed(t)
       PROVE  OrderMoves(o)
  <2>1. UNCHANGED broker
    BY <1>13, Zenon
       DEF StopRefused, MarkProtected, BeginReplace, BeginExit, ReadExitQty, ExitRefused,
           AwaitExit, MarkUnsold, History, MarkClosed, broker
  <2> QED BY <1>12, <2>1 DEF broker
<1>14. CASE AwaitEntry \/ MonitorStep \/ StartFlatten \/ FailStep \/ SetKillSwitch \/ UNCHANGED vars
            \/ Boot \/ BootPosition \/ AdoptNewest \/ FlattenOrphan \/ StartScheduler
  BY <1>12, <1>14
     DEF AwaitEntry, MonitorStep, StartMonitor, CheckStop, CheckPosition, Decide, Boot,
         BootPosition, AdoptNewest, FlattenOrphan, StartScheduler, StartFlatten, FailStep, Crash,
         JobDies, SetKillSwitch, vars, broker
<1>15. CASE ResolveClose
  BY <1>12, <1>15, CloseResolved
<1> QED BY <1>3, <1>4, <1>5, <1>6, <1>7, <1>8, <1>9, <1>10, <1>11, <1>13, <1>14, <1>15
        DEF Next, OpenStep, BootStep, SharedStep, MarketStep, StopStep

(* What a resolved entry, a resolved exit and a triggered stop leave. *)
LEMMA EntryResolved ==
  ASSUME TypeInv, NEW n \in Trades, ResolveEntry(n)
  PROVE  LET x == orders[EntryId(n)]
             y == orders'[EntryId(n)]
         IN /\ x.status = "new"
            /\ y.status \in {"filled", "canceled"} /\ y.qty = x.qty /\ y.filled \in 0..x.qty
            /\ "partial" \notin Faults => y.filled \in {0, x.qty}
            /\ pos' = pos + y.filled
            /\ owner' = IF y.filled > 0 THEN n ELSE owner
            /\ UNCHANGED <<job, trades, next>>
<1> DEFINE o == EntryId(n)
<1>1. orders \in [OrderIds -> Order] /\ o \in OrderIds /\ orders[o].qty \in Nat
  BY EntryIsNoExit DEF TypeInv, TypeOK, Order
<1>2. PICK q \in 0..orders[o].qty, status \in {"filled", "canceled"} :
        /\ orders' = [orders EXCEPT ![o].status = status, ![o].filled = q]
        /\ pos' = pos + q
        /\ owner' = IF q > 0 THEN n ELSE owner
        /\ "partial" \notin Faults => q \in {0, orders[o].qty}
  <2>1. /\ 0 \in 0..orders[o].qty /\ orders[o].qty \in 0..orders[o].qty
        /\ 1..(orders[o].qty - 1) \subseteq 0..orders[o].qty
    BY <1>1
  <2> QED BY <2>1, Zenon DEF ResolveEntry, Fault
<1>3. orders'[o].status = status /\ orders'[o].filled = q /\ orders'[o].qty = orders[o].qty
  BY <1>1, <1>2 DEF Order
<1>4. orders[o].status = "new" /\ UNCHANGED <<job, trades, next>>
  BY DEF ResolveEntry
<1> QED BY <1>2, <1>3, <1>4

LEMMA ExitResolved ==
  ASSUME TypeInv, NEW o \in ExitIds, ResolveExit(o)
  PROVE  LET x == orders[o]
             y == orders'[o]
             most == IF x.qty <= pos THEN x.qty ELSE pos
         IN /\ x.status = "new"
            /\ y.status = (IF y.filled = x.qty THEN "filled" ELSE "canceled")
            /\ y.qty = x.qty /\ y.filled \in 0..most
            /\ "partial" \notin Faults => y.filled \in {0, most}
            /\ pos' = pos - y.filled
            /\ UNCHANGED <<job, trades, next, owner>>
<1> DEFINE most == IF orders[o].qty <= pos THEN orders[o].qty ELSE pos
           Ends(q) == IF q = orders[o].qty THEN "filled" ELSE "canceled"
<1>1. orders \in [OrderIds -> Order] /\ o \in OrderIds /\ pos \in Nat /\ orders[o].qty \in Nat
  BY DEF TypeInv, TypeOK, OrderIds, Order
<1>2. PICK q \in 0..most :
        /\ orders' = [orders EXCEPT ![o].status = Ends(q), ![o].filled = q]
        /\ pos' = pos - q
        /\ "partial" \notin Faults => q \in {0, most}
  <2>1. 0 \in 0..most /\ most \in 0..most /\ 1..(most - 1) \subseteq 0..most
    BY <1>1
  <2> QED BY <2>1, Zenon DEF ResolveExit, Fault
<1>3. orders'[o].status = Ends(q) /\ orders'[o].filled = q /\ orders'[o].qty = orders[o].qty
  BY <1>1, <1>2 DEF Order
<1>4. orders[o].status = "new" /\ UNCHANGED <<job, trades, next, owner>>
  BY DEF ResolveExit
<1> QED BY <1>2, <1>3, <1>4

LEMMA StopTriggered ==
  ASSUME TypeInv, NEW o \in StopIds, TriggerStop(o)
  PROVE  LET x == orders[o]
             y == orders'[o]
             left == x.qty - x.filled
             most == IF left <= pos THEN left ELSE pos
         IN /\ Working(o) /\ pos > 0
            /\ \E q \in {most} \cup 1..(most - 1) :
                 /\ y.status = IF q = left THEN "filled" ELSE "partially_filled"
                 /\ y.qty = x.qty /\ y.filled = x.filled + q
                 /\ pos' = pos - q
                 /\ "partial" \notin Faults => q = most
            /\ UNCHANGED <<job, trades, next, owner>>
<1> DEFINE left == orders[o].qty - orders[o].filled
           most == IF left <= pos THEN left ELSE pos
           Ends(q) == IF q = left THEN "filled" ELSE "partially_filled"
<1>1. orders \in [OrderIds -> Order] /\ o \in OrderIds
  BY DEF TypeInv, TypeOK, OrderIds
<1>2. PICK q \in {most} \cup 1..(most - 1) :
        /\ orders' = [orders EXCEPT ![o].status = Ends(q), ![o].filled = @ + q]
        /\ pos' = pos - q
        /\ "partial" \notin Faults => q = most
  BY Zenon DEF TriggerStop, Fault
<1>3. /\ orders'[o].status = Ends(q) /\ orders'[o].filled = orders[o].filled + q
      /\ orders'[o].qty = orders[o].qty
  BY <1>1, <1>2 DEF Order
<1>4. Working(o) /\ pos > 0 /\ UNCHANGED <<job, trades, next, owner>>
  BY DEF TriggerStop
<1> QED BY <1>2, <1>3, <1>4

-----------------------------------------------------------------------------
(* The rows: one for each entry that bought, from the insert on, and none for  *)
(* a trade nobody has submitted; what a thread has in hand has a row.         *)

Rowed(n) == trades[n].status # "NONE"

RowInv ==
  /\ \A n \in Trades :
       LET e == orders[EntryId(n)]
       IN /\ n >= next => ~Rowed(n) /\ e.status = "none"
          /\ Rowed(n) => e.filled > 0
          /\ e.status \in {"none", "new"} => e.filled = 0
  /\ \A t \in Threads :
       IF At(t, "entry") THEN ~Rowed(job[t].tr) /\ job[t].tr < next /\ job[t].todo = {}
                         ELSE \A n \in InHand(job[t]) : Rowed(n)

LEMMA EntryMoves ==
  ASSUME TypeInv, [Next]_vars, NEW n \in Trades
  PROVE  LET x == orders[EntryId(n)]
             y == orders'[EntryId(n)]
         IN \/ y = x
            \/ SubmitEntry /\ n = next /\ y = NewOrder(Units)
            \/ /\ Sweep /\ y = [x EXCEPT !.status = "canceled"] /\ UNCHANGED <<pos, owner>>
               /\ x.status # "none"
            \/ ResolveEntry(n)
<1> DEFINE o == EntryId(n)
<1>1. o \in OrderIds /\ o \notin StopIds \cup ExitIds /\ o # NoId
  BY EntryIsNoExit, ConstantsAssumption DEF EntryId, NoId, Trades
<1>2. OrderMoves(o)
  BY <1>1, OrdersNext
<1>3. ASSUME NEW t \in Threads, StopPlaced(t) PROVE o # Fresh(t)
  <2>1. job[t] \in Job /\ job[t].tr \in Trades
    BY <1>3 DEF StopPlaced, At, TypeInv, TypeOK, BoundJob, Unbound
  <2>2. Fresh(t) \in StopIds
    BY <2>1, SuffixType DEF Fresh, StopId, StopIds, Job
  <2> QED BY <1>1, <2>2
<1>4. ASSUME NEW t \in Threads, ExitAccepted(t) PROVE o # ExitId(job[t].tr, job[t].why)
  <2>1. job[t].why \in CloseReasons \cup {"none"}
    BY DEF TypeInv, TypeOK, Job
  <2>2. job[t].why # "entry"
    BY <2>1 DEF CloseReasons, ExitReasons, AllPlannedExits
  <2> QED BY <2>2 DEF EntryId, ExitId
<1>5. ASSUME NEW t \in Threads, CancelStop(t) PROVE o # job[t].seen[job[t].tr]
  <2>1. job[t].seen[job[t].tr] \in StopIds \cup {NoId}
    BY <1>5 DEF CancelStop, At, TypeInv, TypeOK, BoundJob, Unbound, Job
  <2> QED BY <1>1, <2>1
<1>6. \A m \in Trades : o = EntryId(m) => m = n
  BY DEF EntryId
<1>7. SubmitEntry => next \in Trades
  BY DEF SubmitEntry
<1>8. Working(o) => orders[o].status # "none"
  BY <1>1 DEF Working, StatusOf
<1> HIDE DEF o
<1> QED BY <1>1, <1>2, <1>3, <1>4, <1>5, <1>6, <1>7, <1>8 DEF OrderMoves, o

LEMMA EntryLeft ==
  ASSUME TypeInv, PhaseInv, [Next]_vars, At("tick", "entry")
  PROVE  \/ job'["tick"] \in {job["tick"], IdleJob}
         \/ \E row \in TradeRow : Inserts(job["tick"].tr, row)
<1>0. job \in [Threads -> Job] /\ "tick" \in Threads /\ job["tick"].pc = "entry"
  BY DEF TypeInv, TypeOK, Threads, At
<1>1. CASE OpenStep
  <2>1. AwaitEntry
    BY <1>0, <1>1 DEF OpenStep, SubmitEntry, CanStart
  <2> QED BY <2>1, AwaitInserts
<1>2. CASE MonitorStep
  BY <1>0, <1>2, MonitorFrame
<1>3. CASE BootStep
  BY <1>0, <1>3, BootFrame
<1>4. CASE StartFlatten
  BY <1>0, <1>4 DEF StartFlatten, Become
<1>5. ASSUME NEW t \in Threads, SharedStep(t) PROVE job'["tick"] = job["tick"]
  BY <1>0, <1>5, SharedFrame
<1>6. CASE FailStep
  BY <1>0, <1>6 DEF FailStep, Crash, JobDies, Become
<1>7. CASE MarketStep \/ StopStep \/ SetKillSwitch \/ UNCHANGED vars
  BY <1>7 DEF MarketStep, ResolveEntry, ResolveExit, ResolveClose, StopStep, TriggerStop, LoseStop,
              SetKillSwitch, vars
<1> QED BY <1>1, <1>2, <1>3, <1>4, <1>5, <1>6, <1>7 DEF Next

(* A row that is there stays; one comes only with the insert, after a fill. *)
LEMMA RowsGrow ==
  ASSUME TypeInv, RowInv, [Next]_vars, NEW n \in Trades
  PROVE  /\ Rowed(n) => Rowed(n)'
         /\ ~Rowed(n) /\ Rowed(n)' => \E row \in TradeRow : Inserts(n, row)
<1>1. trades \in [Trades -> TradeRow]
  BY DEF TypeInv, TypeOK
<1>2. RowMoves
  BY RowsNext
<1>3. ASSUME NEW m \in Trades, NEW row \in TradeRow, Inserts(m, row)
      PROVE  /\ Rowed(n) => Rowed(n)'
             /\ ~Rowed(n) /\ Rowed(n)' => \E r \in TradeRow : Inserts(n, r)
  <2>1. trades'[m] = row /\ \A i \in Trades : i # m => trades'[i] = trades[i]
    BY <1>1, <1>3 DEF Inserts
  <2> QED BY <1>3, <2>1 DEF Rowed, Inserts
<1>4. ASSUME NEW m \in Trades, NEW row \in TradeRow, NEW t \in Threads, Writes(t, m, row)
      PROVE  (Rowed(n) => Rowed(n)') /\ (Rowed(n)' => Rowed(n))
  <2>1. trades'[m] = row /\ \A i \in Trades : i # m => trades'[i] = trades[i]
    BY <1>1, <1>4 DEF Writes
  <2>2. row.status # "NONE"
    BY <1>4 DEF Writes
  <2>3. m # 0
    BY ConstantsAssumption DEF Trades
  <2>4. Rowed(m)
    BY <1>4, <2>3 DEF Writes, RowInv, InHand
  <2> QED BY <2>1, <2>2, <2>4 DEF Rowed
<1>5. CASE UNCHANGED trades
  BY <1>5 DEF Rowed
<1> QED BY <1>2, <1>3, <1>4, <1>5 DEF RowMoves

LEMMA NextGrows ==
  ASSUME TypeInv, [Next]_vars
  PROVE  \/ next' = next /\ ~SubmitEntry
         \/ SubmitEntry /\ next' = next + 1 /\ UNCHANGED <<trades, pos, owner>>
<1>0. next \in Nat
  BY ConstantsAssumption DEF TypeInv, TypeOK
<1>1. SubmitEntry => next' = next + 1 /\ UNCHANGED <<trades, pos, owner>>
  BY DEF SubmitEntry
<1>2. ASSUME NEW t \in Threads, SharedStep(t) PROVE next' = next
  <2>1. CASE StopPlaced(t) \/ StopRefused(t) \/ MarkProtected(t) \/ BeginReplace(t) \/ BeginExit(t)
             \/ CancelStop(t) \/ ReadExitQty(t)
    BY <2>1 DEF StopPlaced, StopRefused, MarkProtected, BeginReplace, BeginExit, CancelStop,
                ReadExitQty
  <2>2. CASE ExitAccepted(t) \/ ExitRefused(t) \/ AwaitExit(t) \/ MarkUnsold(t) \/ History(t)
             \/ MarkClosed(t)
    BY <2>2 DEF ExitAccepted, ExitRefused, AwaitExit, MarkUnsold, History, MarkClosed
  <2> QED BY <1>2, <2>1, <2>2 DEF SharedStep
<1>3. ASSUME AwaitEntry \/ MonitorStep \/ BootStep \/ StartFlatten \/ MarketStep \/ StopStep
             \/ FailStep \/ SetKillSwitch \/ UNCHANGED vars
      PROVE  next' = next
  BY <1>3
     DEF AwaitEntry, MonitorStep, StartMonitor, CheckStop, CheckPosition, Decide, BootStep, Boot,
         BootPosition, AdoptNewest, FlattenOrphan, Sweep, StartScheduler, StartFlatten, MarketStep,
         ResolveEntry, ResolveExit, ResolveClose, StopStep, TriggerStop, LoseStop, FailStep, Crash, JobDies,
         SetKillSwitch, vars
<1> QED BY <1>0, <1>1, <1>2, <1>3 DEF Next, OpenStep

LEMMA RowInit == Init => RowInv
<1> SUFFICES ASSUME Init PROVE RowInv
  OBVIOUS
<1>1. ASSUME NEW n \in Trades
      PROVE  ~Rowed(n) /\ orders[EntryId(n)].status = "none" /\ orders[EntryId(n)].filled = 0
  BY EntryIsNoExit DEF Init, Rowed, NoTrade, NoOrder
<1>2. ASSUME NEW t \in Threads PROVE ~At(t, "entry") /\ InHand(job[t]) = {}
  BY DEF Init, IdleJob, InHand, At
<1> QED BY <1>1, <1>2 DEF RowInv

LEMMA RowNext ==
  ASSUME TypeInv, PhaseInv, RowInv, [Next]_vars
  PROVE  RowInv'
<1>0. /\ job \in [Threads -> Job] /\ next \in Nat
      /\ \A n \in Trades : n \in Nat /\ n # 0
      /\ "tick" \in Threads
  BY ConstantsAssumption DEF TypeInv, TypeOK, Trades, Threads
<1>a. (next' = next /\ ~SubmitEntry) \/ (SubmitEntry /\ next' = next + 1)
  BY NextGrows
<1>1. ASSUME NEW n \in Trades
      PROVE  LET e == orders'[EntryId(n)]
             IN /\ n >= next' => ~Rowed(n)' /\ e.status = "none"
                /\ Rowed(n)' => e.filled > 0
                /\ e.status \in {"none", "new"} => e.filled = 0
  <2> DEFINE x == orders[EntryId(n)]
             y == orders'[EntryId(n)]
  <2>0. x \in Order /\ x.filled \in Nat
    BY EntryIsNoExit DEF TypeInv, TypeOK, Order
  <2>1. /\ n >= next => ~Rowed(n) /\ x.status = "none"
        /\ Rowed(n) => x.filled > 0
        /\ x.status \in {"none", "new"} => x.filled = 0
    BY DEF RowInv
  <2>2. \/ Rowed(n)' <=> Rowed(n)
        \/ n < next /\ x.filled > 0 /\ y = x /\ next' = next
    <3>1. ASSUME NEW row \in TradeRow, Inserts(n, row)
          PROVE  n < next /\ x.filled > 0 /\ y = x /\ next' = next
      <4>1. AwaitEntry /\ n = job["tick"].tr /\ x.filled > 0
        BY <3>1 DEF Inserts
      <4>2. At("tick", "entry") /\ y = x /\ next' = next
        BY <4>1 DEF AwaitEntry, broker
      <4> QED BY <1>0, <4>1, <4>2 DEF RowInv
    <3> QED BY <3>1, RowsGrow
  <2>3. CASE y = x
    BY <1>0, <1>a, <2>0, <2>1, <2>2, <2>3
  <2>4. CASE SubmitEntry /\ n = next /\ y = NewOrder(Units)
    <3>1. next' = next + 1 /\ UNCHANGED trades
      BY <2>4, NextGrows
    <3>2. y.status = "new" /\ y.filled = 0
      BY <2>4 DEF NewOrder
    <3> QED BY <1>0, <2>1, <2>4, <3>1, <3>2 DEF Rowed
  <2>5. CASE y = [x EXCEPT !.status = "canceled"] /\ x.status # "none"
    <3>1. y.status = "canceled" /\ y.filled = x.filled
      BY <2>0, <2>5 DEF Order
    <3> QED BY <1>0, <1>a, <2>0, <2>1, <2>2, <2>5, <3>1
  <2>6. CASE ResolveEntry(n)
    <3>1. x.status = "new" /\ y.status \in {"filled", "canceled"} /\ UNCHANGED <<trades, next>>
      BY <2>6, EntryResolved
    <3> QED BY <1>0, <2>0, <2>1, <3>1 DEF Rowed
  <2> QED BY <2>3, <2>4, <2>5, <2>6, EntryMoves
<1>2. ASSUME NEW t \in Threads
      PROVE  IF job'[t].pc = "entry"
             THEN /\ trades'[job'[t].tr].status = "NONE"
                  /\ job'[t].tr < next' /\ job'[t].todo = {}
             ELSE \A n \in InHand(job'[t]) : trades'[n].status # "NONE"
  <2> DEFINE j == job[t]
             k == job'[t]
  <2>0. j \in Job /\ InHand(j) \subseteq Trades /\ (At(t, "entry") => t = "tick" /\ j.tr \in Trades)
    <3>1. j \in Job /\ InHand(j) \subseteq Trades
      BY DEF TypeInv, TypeOK, Job, InHand
    <3>2. At(t, "entry") => t = "tick" /\ j.tr \in Trades
      BY DEF At, PhaseInv, LabelsOf, CliLabels, MonLabels, MainLabels, Threads, TypeInv, BoundJob,
             Unbound
    <3> QED BY <3>1, <3>2
  <2>1. CASE k = IdleJob
    BY <2>1 DEF IdleJob, InHand, At
  <2>2. CASE k = j
    <3>1. CASE At(t, "entry")
      <4>1. t = "tick" /\ j.pc = "entry" /\ ~Rowed(j.tr) /\ j.tr < next /\ j.todo = {}
        BY <2>0, <3>1 DEF RowInv, At
      <4>2. ASSUME NEW row \in TradeRow, Inserts(j.tr, row) PROVE FALSE
        BY <2>0, <2>2, <4>1, <4>2 DEF Inserts, Job
      <4>3. trades'[j.tr].status = "NONE"
        BY <2>0, <3>1, <4>1, <4>2, RowsGrow DEF Rowed
      <4> QED BY <1>0, <1>a, <2>0, <2>2, <3>1, <4>1, <4>3
    <3>2. CASE ~At(t, "entry")
      <4>1. j.pc # "entry" /\ \A n \in InHand(j) : Rowed(n) /\ n \in Trades
        BY <2>0, <3>2 DEF RowInv, At
      <4> QED BY <2>2, <4>1, RowsGrow DEF Rowed
    <3> QED BY <3>1, <3>2
  <2>3. CASE t = "tick" /\ SubmitEntry
    <3>1. k.pc = "entry" /\ k.tr = next /\ k.todo = {}
      BY <1>0, <2>3 DEF SubmitEntry, Become, IdleJob
    <3>2. next \in Trades /\ next' = next + 1 /\ UNCHANGED trades
      BY <2>3 DEF SubmitEntry
    <3>3. ~Rowed(next)
      BY <1>0, <3>2 DEF RowInv
    <3>4. trades'[k.tr].status = "NONE" /\ k.tr < next'
      BY <1>0, <3>1, <3>2, <3>3 DEF Rowed, Trades
    <3> QED BY <3>1, <3>4
  <2>4. CASE /\ k \notin {j, IdleJob}
             /\ k.pc # "entry"
             /\ InHand(k) \subseteq InHand(j) \cup open_trades
    <3>1. \A n \in open_trades : n \in Trades /\ Rowed(n)
      BY DEF open_trades, Rowed
    <3>2. CASE At(t, "entry")
      <4>1. PICK row \in TradeRow : Inserts(j.tr, row)
        BY <2>0, <2>4, <3>2, EntryLeft
      <4>2. trades'[j.tr].status # "NONE"
        BY <2>0, <3>2, <4>1 DEF Inserts, TypeInv, TypeOK
      <4>3. InHand(j) \subseteq {j.tr}
        BY <3>2 DEF RowInv, InHand
      <4> QED BY <2>4, <3>1, <4>2, <4>3, RowsGrow DEF Rowed
    <3>3. CASE ~At(t, "entry")
      <4>1. \A n \in InHand(j) : Rowed(n) /\ n \in Trades
        BY <2>0, <3>3 DEF RowInv
      <4> QED BY <2>4, <3>1, <4>1, RowsGrow DEF Rowed
    <3> QED BY <3>2, <3>3
  <2> QED BY <2>1, <2>2, <2>3, <2>4, NextMovesAll DEF Moves
<1> QED BY <1>1, <1>2 DEF RowInv, Rowed, At

(* A closed row never changes again, under any faults and with any number of    *)
(* threads in _finalize, mark_protected or adopt_one at once: the trigger     *)
(* trades_immutable_once_closed refuses an UPDATE, and the one INSERT, of     *)
(* open(), is for a trade that has no row yet.                                *)
THEOREM ClosedStays == Spec => ClosedForever
<1>1. ASSUME TypeInv, RowInv, [Next]_vars, NEW n \in Trades, trades[n].status = "CLOSED"
      PROVE  trades'[n] = trades[n]
  <2>0. trades \in [Trades -> TradeRow]
    BY <1>1 DEF TypeInv, TypeOK
  <2>1. ASSUME NEW m \in Trades, NEW row, Inserts(m, row) PROVE trades'[n] = trades[n]
    <3>1. ~Rowed(m) /\ trades' = [trades EXCEPT ![m] = row]
      BY <1>1, <2>1 DEF Inserts, AwaitEntry, RowInv, Threads
    <3> QED BY <1>1, <2>0, <3>1 DEF Rowed
  <2>2. ASSUME NEW m \in Trades, NEW row, NEW t \in Threads, Writes(t, m, row)
        PROVE  trades'[n] = trades[n]
    BY <1>1, <2>0, <2>2 DEF Writes, Immutable
  <2> QED BY <1>1, <2>1, <2>2, RowsNext DEF RowMoves
<1>2. TypeInv /\ RowInv /\ [Next]_vars => [\A n \in Trades : trades[n].status = "CLOSED" => trades'[n] = trades[n]]_vars
  BY <1>1
<1> QED
  BY <1>2, TypeInit, TypeNext, PhaseInit, PhaseNext, RowInit, RowNext, PTL DEF Spec, ClosedForever

-----------------------------------------------------------------------------
(* Whose stop an id is. *)

OwnStop(n, o) == o = NoId \/ (o \in StopIds /\ o[1] = n /\ orders[o].status # "none")

TagInv ==
  /\ \A o \in StopIds \cup ExitIds : orders[o].status # "none" => Rowed(o[1])
  /\ \A n \in Trades : OwnStop(n, trades[n].sl_order_id)
  /\ \A t \in Threads, n \in Trades : OwnStop(n, job[t].seen[n])

Kept == {"new", "partially_filled", "filled", "expired"}

(* A stop that was accepted and is not written down yet is known to no one.   *)
FreshInv ==
  \A t \in Threads : At(t, "mark") =>
    LET n == job[t].tr
        o == Fresh(t)
    IN /\ orders[o].status \in Kept
       /\ trades[n].sl_order_id # o
       /\ \A u \in Threads : /\ job[u].seen[n] # o
                             /\ At(u, "mark") /\ Fresh(u) = o => u = t

(* The stop an OPEN_PROTECTED row names was not cancelled, and nobody is about *)
(* to.                                                                        *)
NamedInv ==
  \A n \in Trades : trades[n].status = "OPEN_PROTECTED" =>
    LET o == trades[n].sl_order_id
    IN /\ o # NoId
       /\ orders[o].status \in Kept
       /\ \A t \in Threads : At(t, "cancel") /\ job[t].tr = n => job[t].seen[n] # o

LEMMA FreshType ==
  ASSUME TypeInv, NEW t \in Threads, job[t].pc \notin Unbound
  PROVE  job[t].tr \in Trades /\ Fresh(t) \in StopIds /\ Fresh(t)[1] = job[t].tr
<1>1. job[t] \in Job /\ job[t].tr \in Trades
  BY DEF TypeInv, TypeOK, BoundJob
<1> QED BY <1>1, SuffixType DEF Fresh, StopId, StopIds, Job

LEMMA IdsType ==
  /\ StopIds \cup ExitIds \subseteq OrderIds
  /\ NoId \notin OrderIds
  /\ \A o \in StopIds \cup ExitIds : o[1] \in Trades
  /\ StopIds \cap ExitIds = {}
<1>1. StopSuffixes \cap ExitReasons = {}
  BY DEF StopSuffixes, ExitReasons, AllPlannedExits
<1>2. 0 \notin Trades
  BY ConstantsAssumption DEF Trades
<1> QED BY <1>1, <1>2 DEF StopIds, ExitIds, OrderIds, NoId

(* An order the broker has seen, it has seen. *)
LEMMA StatusGrows ==
  ASSUME TypeInv, [Next]_vars, NEW o \in OrderIds, orders[o].status # "none"
  PROVE  orders'[o].status # "none"
<1> DEFINE x == orders[o]
           y == orders'[o]
<1>1. x \in Order
  BY DEF TypeInv, TypeOK
<1>2. \A q : NewOrder(q).status = "new"
  BY DEF NewOrder
<1>3. \A status : [x EXCEPT !.status = status].status = status
  BY <1>1 DEF Order
<1>4. ASSUME NEW n \in Trades, o = EntryId(n), ResolveEntry(n) PROVE y.status # "none"
  BY <1>4, EntryResolved
<1>5. ASSUME o \in ExitIds, ResolveExit(o) PROVE y.status # "none"
  BY <1>5, ExitResolved
<1>6. ASSUME o \in StopIds, TriggerStop(o) PROVE y.status # "none"
  <2>1. y.status \in {"filled", "partially_filled"}
    BY <1>6, StopTriggered
  <2> QED BY <2>1
<1>7. OrderMoves(o)
  BY OrdersNext
<1> QED BY <1>2, <1>3, <1>4, <1>5, <1>6, <1>7 DEF OrderMoves

(* The steps that make a stop known, and what they leave alone. *)
LEMMA PlacedStep ==
  ASSUME TypeInv, NEW t \in Threads, StopPlaced(t)
  PROVE  /\ orders[Fresh(t)].status = "none"
         /\ orders'[Fresh(t)] = NewOrder(job[t].qty)
         /\ UNCHANGED <<trades, pos, owner>>
         /\ job'[t].tr = job[t].tr /\ job'[t].attempt = job[t].attempt
         /\ job'[t].pc = "mark" /\ job'[t].seen = job[t].seen
         /\ \A u \in Threads : u # t => job'[u] = job[u]
<1>1. Fresh(t) \in OrderIds
  BY FreshType, IdsType DEF StopPlaced, At, Unbound
<1>2. orders \in [OrderIds -> Order] /\ job \in [Threads -> Job]
  BY DEF TypeInv, TypeOK
<1>3. Goto(t, "mark")
  BY DEF StopPlaced
<1>4. /\ orders[Fresh(t)].status = "none"
      /\ orders'[Fresh(t)] = NewOrder(job[t].qty)
      /\ UNCHANGED <<trades, pos, owner>>
  BY <1>1, <1>2 DEF StopPlaced, Fresh
<1>5. SharedStep(t)
  BY DEF SharedStep
<1> QED BY <1>3, <1>4, <1>5, GotoMoves, SharedFrame

LEMMA ProtectedStep ==
  ASSUME TypeInv, NEW t \in Threads, MarkProtected(t)
  PROVE  /\ At(t, "mark") /\ UNCHANGED orders
         /\ job'[t].pc \notin {"mark", "cancel"}
         /\ \A u \in Threads : u # t => job'[u] = job[u]
<1> DEFINE j == job[t]
<1>1. At(t, "mark") /\ UNCHANGED orders /\ SharedStep(t)
  BY DEF MarkProtected, SharedStep, broker
<1>2. job \in [Threads -> Job]
  BY DEF TypeInv, TypeOK
<1>3. \/ Become(t, IdleJob)
      \/ Become(t, [j EXCEPT !.pc = "decide"])
      \/ Become(t, NextTrade(t))
  BY Zenon DEF MarkProtected, WriteRow, WriteAborted, WriteDone
<1>4. IdleJob.pc = "idle" /\ [j EXCEPT !.pc = "decide"].pc = "decide"
  BY <1>2 DEF IdleJob, Job
<1>5. NextTrade(t).pc \notin {"mark", "cancel"}
  BY <1>4, NextTradeMove
<1>6. \A k : Become(t, k) => job'[t] = k
  BY <1>2 DEF Become
<1>7. job'[t].pc \notin {"mark", "cancel"}
  BY <1>3, <1>4, <1>5, <1>6
<1> QED BY <1>1, <1>7, SharedFrame

LEMMA ExitingStep ==
  ASSUME TypeInv, NEW t \in Threads, BeginExit(t), job'[t].pc = "cancel"
  PROVE  /\ trades'[job[t].tr].status = "PENDING_EXIT"
         /\ job'[t].tr = job[t].tr /\ job'[t].seen = job[t].seen
         /\ job[t].seen[job[t].tr] # NoId
<1> DEFINE j == job[t]
           n == j.tr
           k == [j EXCEPT !.pc = IF j.seen[n] = NoId THEN "qty" ELSE "cancel"]
<1>1. job \in [Threads -> Job] /\ trades \in [Trades -> TradeRow] /\ n \in Trades
  BY DEF TypeInv, TypeOK, BoundJob, BeginExit, At, Unbound
<1>2. j \in Job
  BY <1>1
<1>3. CASE WriteAborted(t, n)
  BY <1>1, <1>3 DEF WriteAborted, Become, IdleJob
<1>4. CASE WriteDone(t, n, Exiting(trades[n]), k)
  <2>1. job'[t] = k
    BY <1>1, <1>4 DEF WriteDone, Become
  <2>2. trades'[n].status = "PENDING_EXIT"
    BY <1>1, <1>4 DEF WriteDone, Exiting, TradeRow
  <2>3. j.seen[n] # NoId
    BY <1>2, <2>1 DEF Job
  <2> QED BY <1>2, <2>1, <2>2, <2>3 DEF Job
<1> QED BY <1>3, <1>4 DEF BeginExit, WriteRow

LEMMA SeenMoves ==
  ASSUME TypeInv, PhaseInv, [Next]_vars, NEW t \in Threads
  PROVE  job'[t].seen \in {job[t].seen, OpenStops, IdleJob.seen}
<1>1. Moves(t)
  BY NextMovesAll
<1>2. CASE t = "tick" /\ SubmitEntry
  <2>1. job'[t] = [IdleJob EXCEPT !.pc = "entry", !.tr = next]
    BY <1>2 DEF SubmitEntry, Become, TypeInv, TypeOK
  <2> QED BY <2>1 DEF IdleJob
<1> QED BY <1>1, <1>2 DEF Moves

LEMMA StopsInit == Init => TagInv /\ FreshInv /\ NamedInv
<1> SUFFICES ASSUME Init PROVE TagInv /\ FreshInv /\ NamedInv
  OBVIOUS
<1>1. /\ \A o \in OrderIds : orders[o].status = "none"
      /\ \A n \in Trades : trades[n].sl_order_id = NoId /\ trades[n].status = "NONE"
      /\ \A t \in Threads : ~At(t, "mark") /\ \A n \in Trades : job[t].seen[n] = NoId
  BY DEF Init, NoOrder, NoTrade, IdleJob, At
<1> QED BY <1>1, IdsType DEF TagInv, FreshInv, NamedInv, OwnStop

LEMMA OwnStopStays ==
  ASSUME TypeInv, [Next]_vars, NEW n, NEW o, OwnStop(n, o)
  PROVE  o = NoId \/ (o \in StopIds /\ o[1] = n /\ orders'[o].status # "none")
BY StatusGrows, IdsType DEF OwnStop

LEMMA TagNext ==
  ASSUME TypeInv, PhaseInv, RowInv, TagInv, FreshInv, [Next]_vars
  PROVE  TagInv'
<1>0. /\ trades \in [Trades -> TradeRow] /\ job \in [Threads -> Job]
      /\ StopIds \cup ExitIds \subseteq OrderIds
      /\ \A o \in StopIds \cup ExitIds : o[1] \in Trades
  BY IdsType DEF TypeInv, TypeOK
<1>1. ASSUME NEW o \in StopIds \cup ExitIds, orders'[o].status # "none"
      PROVE  Rowed(o[1])'
  <2>1. CASE orders[o].status # "none"
    BY <1>0, <2>1, RowsGrow DEF TagInv
  <2>2. ASSUME NEW t \in Threads, At(t, "place") \/ At(t, "sell"), o[1] = job[t].tr
        PROVE  Rowed(o[1])'
    <3>1. ~At(t, "entry") /\ o[1] \in Trades /\ o[1] # 0
      BY <1>0, <2>2, ConstantsAssumption DEF At, Trades
    <3>2. Rowed(o[1])
      BY <2>2, <3>1 DEF RowInv, InHand
    <3> QED BY <3>1, <3>2, RowsGrow
  <2>3. CASE orders[o].status = "none"
    <3>1. OrderMoves(o)
      BY <1>0, OrdersNext
    <3>2. ~Working(o) /\ ~ResolveExit(o) /\ ~TriggerStop(o)
      BY <2>3, IdsType DEF Working, StatusOf, ResolveExit, TriggerStop
    <3>3. \A n \in Trades : o # EntryId(n)
      BY EntryIsNoExit
    <3>4. \E t \in Threads : \/ StopPlaced(t) /\ o = Fresh(t)
                             \/ ExitAccepted(t) /\ o = ExitId(job[t].tr, job[t].why)
      <4>1. ~LoseStop(o) /\ ~(SubmitEntry /\ o = EntryId(next))
        BY <3>2, <3>3 DEF LoseStop, SubmitEntry
      <4> QED BY <1>1, <2>3, <3>1, <3>2, <3>3, <4>1 DEF OrderMoves
    <3>5. PICK t \in Threads : \/ StopPlaced(t) /\ o = Fresh(t)
                               \/ ExitAccepted(t) /\ o = ExitId(job[t].tr, job[t].why)
      BY <3>4
    <3>6. (At(t, "place") \/ At(t, "sell")) /\ o[1] = job[t].tr
      BY <3>5 DEF StopPlaced, ExitAccepted, Fresh, StopId, ExitId
    <3> QED BY <2>2, <3>6
  <2> QED BY <2>1, <2>3
<1>2. \A n \in Trades : OwnStop(n, trades[n].sl_order_id)'
  <2> SUFFICES ASSUME NEW n \in Trades PROVE OwnStop(n, trades[n].sl_order_id)'
    OBVIOUS
  <2>1. CASE trades'[n].sl_order_id = trades[n].sl_order_id
    BY <2>1, OwnStopStays DEF TagInv, OwnStop
  <2>2. ASSUME NEW row, Inserts(n, row) PROVE OwnStop(n, trades[n].sl_order_id)'
    BY <1>0, <2>2 DEF Inserts, OwnStop
  <2>3. ASSUME NEW t \in Threads, NEW row, Writes(t, n, row)
        PROVE  OwnStop(n, trades[n].sl_order_id)'
    <3>1. trades'[n] = row /\ n = job[t].tr
      BY <1>0, <2>3 DEF Writes
    <3>2. CASE row.sl_order_id = trades[n].sl_order_id
      BY <2>1, <3>1, <3>2
    <3>3. CASE MarkProtected(t) /\ row.sl_order_id = Fresh(t)
      <4>1. At(t, "mark") /\ UNCHANGED orders
        BY <3>3, ProtectedStep
      <4>2. Fresh(t) \in StopIds /\ Fresh(t)[1] = n /\ orders[Fresh(t)].status # "none"
        BY <3>1, <4>1, FreshType DEF FreshInv, At, Unbound, Kept
      <4> QED BY <3>1, <3>3, <4>1, <4>2 DEF OwnStop
    <3> QED BY <2>3, <3>2, <3>3 DEF Writes
  <2>4. ASSUME NEW m \in Trades, m # n, NEW row,
               Inserts(m, row) \/ \E t \in Threads : Writes(t, m, row)
        PROVE  OwnStop(n, trades[n].sl_order_id)'
    <3>1. trades' = [trades EXCEPT ![m] = row]
      BY <2>4 DEF Inserts, Writes
    <3> QED BY <1>0, <2>1, <2>4, <3>1
  <2> QED BY <2>1, <2>2, <2>3, <2>4, RowsNext DEF RowMoves
<1>3. \A t \in Threads, n \in Trades : OwnStop(n, job[t].seen[n])'
  <2> SUFFICES ASSUME NEW t \in Threads, NEW n \in Trades PROVE OwnStop(n, job[t].seen[n])'
    OBVIOUS
  <2>1. job'[t].seen[n] \in {job[t].seen[n], trades[n].sl_order_id, NoId}
    BY SeenMoves DEF OpenStops, IdleJob
  <2>2. /\ OwnStop(n, job[t].seen[n]) /\ OwnStop(n, trades[n].sl_order_id)
        /\ OwnStop(n, NoId)
    BY DEF TagInv, OwnStop
  <2> QED BY <2>1, <2>2, OwnStopStays DEF OwnStop
<1> QED BY <1>1, <1>2, <1>3 DEF TagInv, Rowed

(* Who can cancel a stop. *)
LEMMA StopKept ==
  ASSUME TypeInv, [Next]_vars, NEW o \in StopIds, orders[o].status \in Kept
  PROVE  \/ orders'[o].status \in Kept
         \/ \E t \in Threads : CancelStop(t) /\ o = job[t].seen[job[t].tr]
         \/ Sweep /\ \A n \in open_trades : trades[n].sl_order_id # o
<1> DEFINE x == orders[o]
           y == orders'[o]
<1>1. o \in OrderIds /\ x \in Order /\ x.status # "none" /\ o \notin ExitIds
  BY IdsType DEF TypeInv, TypeOK, Kept
<1>2. \A n \in Trades : o # EntryId(n)
  BY EntryIsNoExit
<1>3. ASSUME LoseStop(o), y = [x EXCEPT !.status = "expired"] PROVE y.status \in Kept
  BY <1>1, <1>3 DEF Order, Kept
<1>4. ASSUME TriggerStop(o) PROVE y.status \in Kept
  <2>1. y.status \in {"filled", "partially_filled"}
    BY <1>4, StopTriggered
  <2> QED BY <2>1 DEF Kept
<1>5. ~(SubmitEntry /\ o = EntryId(next))
  BY <1>2 DEF SubmitEntry
<1>6. OrderMoves(o)
  BY <1>1, OrdersNext
<1> QED BY <1>1, <1>2, <1>3, <1>4, <1>5, <1>6 DEF OrderMoves

LEMMA FreshNext ==
  ASSUME TypeInv, PhaseInv, TagInv, FreshInv, [Next]_vars
  PROVE  FreshInv'
<1>0. trades \in [Trades -> TradeRow] /\ job \in [Threads -> Job]
  BY DEF TypeInv, TypeOK
<1> SUFFICES ASSUME NEW t \in Threads, job'[t].pc = "mark"
             PROVE  LET n == job'[t].tr
                        o == StopId(n, job'[t].attempt)
                    IN /\ orders'[o].status \in Kept
                       /\ trades'[n].sl_order_id # o
                       /\ \A u \in Threads :
                            /\ job'[u].seen[n] # o
                            /\ job'[u].pc = "mark" /\ StopId(job'[u].tr, job'[u].attempt) = o
                               => u = t
  BY DEF FreshInv, Fresh, At
<1> DEFINE n == job[t].tr
           o == Fresh(t)
<1>1. ASSUME NEW u \in Threads, job'[u].pc = "mark", job'[u] # job[u] PROVE StopPlaced(u)
  <2>1. ~(u = "tick" /\ SubmitEntry)
    BY <1>0, <1>1 DEF SubmitEntry, Become, IdleJob
  <2>2. job'[u] # IdleJob
    BY <1>1 DEF IdleJob
  <2> QED BY <1>1, <2>1, <2>2, NextMovesAll DEF Moves, Arrives
<1>2. CASE StopPlaced(t)
  <2>1. /\ orders[o].status = "none" /\ orders'[o].status = "new" /\ UNCHANGED trades
        /\ job'[t].tr = n /\ job'[t].attempt = job[t].attempt
        /\ \A u \in Threads : job'[u].seen = job[u].seen /\ (u # t => job'[u] = job[u])
    <3>1. \A q : NewOrder(q).status = "new"
      BY DEF NewOrder
    <3> HIDE DEF o
    <3> QED BY <1>2, <3>1, PlacedStep DEF o
  <2>2. n \in Trades /\ o \in StopIds /\ o # NoId
    BY <1>2, FreshType, IdsType DEF StopPlaced, At, Unbound
  <2>3. trades[n].sl_order_id # o /\ \A u \in Threads : job[u].seen[n] # o
    BY <2>1, <2>2 DEF TagInv, OwnStop
  <2>4. ASSUME NEW u \in Threads, u # t, job'[u].pc = "mark",
               StopId(job'[u].tr, job'[u].attempt) = o
        PROVE  FALSE
    <3>1. At(u, "mark") /\ Fresh(u) = o
      BY <2>1, <2>4 DEF At, Fresh
    <3> QED BY <2>1, <3>1 DEF FreshInv, Kept
  <2> QED BY <2>1, <2>3, <2>4 DEF Fresh, Kept
<1>3. CASE job'[t] = job[t]
  <2>1. At(t, "mark")
    BY <1>3 DEF At
  <2>2. n \in Trades /\ o \in StopIds /\ o[1] = n /\ o # NoId
    BY <2>1, FreshType, IdsType DEF At, Unbound
  <2>3. /\ orders[o].status \in Kept
        /\ trades[n].sl_order_id # o
        /\ \A u \in Threads : /\ job[u].seen[n] # o
                              /\ At(u, "mark") /\ Fresh(u) = o => u = t
    BY <2>1 DEF FreshInv
  <2>4. orders'[o].status \in Kept
    <3>1. ASSUME NEW u \in Threads, CancelStop(u), o = job[u].seen[job[u].tr] PROVE FALSE
      <4>1. job[u].tr \in Trades
        BY <3>1 DEF CancelStop, At, TypeInv, TypeOK, BoundJob, Unbound
      <4>2. o[1] = job[u].tr
        BY <2>2, <3>1, <4>1 DEF TagInv, OwnStop
      <4> QED BY <2>2, <2>3, <3>1, <4>2
    <3>2. ~Sweep
      <4>1. LabelsOf("cli") = CliLabels /\ "mark" \notin CliLabels
        BY DEF LabelsOf, CliLabels
      <4> QED BY <2>1, <4>1 DEF PhaseInv, Sweep, At, Threads
    <3> QED BY <2>2, <2>3, <3>1, <3>2, StopKept
  <2>5. trades'[n].sl_order_id # o
    <3>1. ASSUME NEW row, Inserts(n, row) PROVE trades'[n].sl_order_id # o
      BY <1>0, <2>2, <3>1 DEF Inserts
    <3>2. ASSUME NEW u \in Threads, NEW row, Writes(u, n, row) PROVE trades'[n].sl_order_id # o
      <4>1. trades'[n] = row
        BY <1>0, <2>2, <3>2 DEF Writes
      <4>2. CASE row.sl_order_id = trades[n].sl_order_id
        BY <2>3, <4>1, <4>2
      <4>3. CASE MarkProtected(u) /\ row.sl_order_id = Fresh(u)
        <5>1. At(u, "mark") /\ job'[u].pc # "mark"
          BY <4>3, ProtectedStep
        <5>2. Fresh(u) # o
          BY <2>3, <5>1
        <5> QED BY <4>1, <4>3, <5>2
      <4> QED BY <3>2, <4>2, <4>3 DEF Writes
    <3>3. ASSUME NEW m \in Trades, m # n, NEW row,
                 Inserts(m, row) \/ \E u \in Threads : Writes(u, m, row)
          PROVE  trades'[n].sl_order_id # o
      <4>1. trades' = [trades EXCEPT ![m] = row]
        BY <3>3 DEF Inserts, Writes
      <4> QED BY <1>0, <2>2, <2>3, <3>3, <4>1
    <3>4. CASE UNCHANGED trades
      BY <2>3, <3>4
    <3> QED BY <3>1, <3>2, <3>3, <3>4, RowsNext DEF RowMoves
  <2>6. ASSUME NEW u \in Threads PROVE job'[u].seen[n] # o
    <3>1. job'[u].seen[n] \in {job[u].seen[n], trades[n].sl_order_id, NoId}
      BY <2>2, SeenMoves DEF OpenStops, IdleJob
    <3> QED BY <2>2, <2>3, <3>1
  <2>7. ASSUME NEW u \in Threads, job'[u].pc = "mark",
               StopId(job'[u].tr, job'[u].attempt) = o
        PROVE  u = t
    <3>1. CASE job'[u] = job[u]
      BY <2>3, <2>7, <3>1 DEF At, Fresh
    <3>2. CASE StopPlaced(u)
      <4>1. orders[Fresh(u)].status = "none" /\ Fresh(u) = o
        BY <2>7, <3>2, PlacedStep DEF Fresh
      <4> QED BY <2>3, <4>1 DEF Kept
    <3> QED BY <1>1, <2>7, <3>1, <3>2
  <2> QED BY <1>3, <2>4, <2>5, <2>6, <2>7 DEF Fresh
<1> QED BY <1>1, <1>2, <1>3

LEMMA NamedNext ==
  ASSUME TypeInv, PhaseInv, TagInv, FreshInv, NamedInv, [Next]_vars
  PROVE  NamedInv'
<1>0. trades \in [Trades -> TradeRow] /\ job \in [Threads -> Job]
  BY DEF TypeInv, TypeOK
<1> SUFFICES ASSUME NEW n \in Trades, trades'[n].status = "OPEN_PROTECTED"
             PROVE  LET o == trades'[n].sl_order_id
                    IN /\ o # NoId
                       /\ orders'[o].status \in Kept
                       /\ \A t \in Threads : job'[t].pc = "cancel" /\ job'[t].tr = n
                            => job'[t].seen[n] # o
  BY DEF NamedInv, At
<1>1. ASSUME NEW t \in Threads, job'[t].pc = "cancel", job'[t] # job[t] PROVE BeginExit(t)
  <2>1. ~(t = "tick" /\ SubmitEntry)
    BY <1>0, <1>1 DEF SubmitEntry, Become, IdleJob
  <2>2. job'[t] # IdleJob
    BY <1>1 DEF IdleJob
  <2> QED BY <1>1, <2>1, <2>2, NextMovesAll DEF Moves, Arrives
<1>2. ASSUME NEW t \in Threads, job'[t].pc = "cancel", job'[t].tr = n PROVE job'[t] = job[t]
  BY <1>1, <1>2, ExitingStep
<1>3. CASE trades'[n] = trades[n]
  <2> DEFINE o == trades[n].sl_order_id
  <2>1. /\ o # NoId /\ orders[o].status \in Kept
        /\ \A t \in Threads : At(t, "cancel") /\ job[t].tr = n => job[t].seen[n] # o
    BY <1>3 DEF NamedInv
  <2>2. o \in StopIds /\ o[1] = n /\ n \in open_trades
    BY <1>3, <2>1 DEF TagInv, OwnStop, open_trades
  <2>3. ASSUME NEW t \in Threads, CancelStop(t), o = job[t].seen[job[t].tr] PROVE FALSE
    <3>1. job[t].tr \in Trades /\ At(t, "cancel")
      BY <2>3 DEF CancelStop, At, TypeInv, TypeOK, BoundJob, Unbound
    <3>2. job[t].tr = n
      BY <2>1, <2>2, <2>3, <3>1 DEF TagInv, OwnStop
    <3> QED BY <2>1, <2>3, <3>1, <3>2
  <2>4. orders'[o].status \in Kept
    BY <2>1, <2>2, <2>3, StopKept
  <2>5. ASSUME NEW t \in Threads, job'[t].pc = "cancel", job'[t].tr = n
        PROVE  job'[t].seen[n] # o
    BY <1>2, <2>1, <2>5 DEF At
  <2> HIDE DEF o
  <2>6. trades'[n].sl_order_id = o
    BY <1>3 DEF o
  <2> QED BY <2>1, <2>4, <2>5, <2>6
<1>4. ASSUME NEW t \in Threads, MarkProtected(t), n = job[t].tr, trades'[n].sl_order_id = Fresh(t)
      PROVE  LET o == Fresh(t)
             IN /\ o # NoId
                /\ orders'[o].status \in Kept
                /\ \A u \in Threads : job'[u].pc = "cancel" /\ job'[u].tr = n
                     => job'[u].seen[n] # o
  <2>1. At(t, "mark") /\ UNCHANGED orders
    BY <1>4, ProtectedStep
  <2>2. Fresh(t) \in StopIds /\ Fresh(t) # NoId
    BY <2>1, FreshType, IdsType DEF At, Unbound
  <2>3. /\ orders[Fresh(t)].status \in Kept
        /\ \A u \in Threads : job[u].seen[n] # Fresh(t)
    BY <1>4, <2>1 DEF FreshInv
  <2> QED BY <1>2, <2>1, <2>2, <2>3
<1>5. ASSUME NEW row, Inserts(n, row) PROVE FALSE
  BY <1>0, <1>5 DEF Inserts
<1>6. ASSUME NEW t \in Threads, NEW row, Writes(t, n, row)
      PROVE  MarkProtected(t) /\ n = job[t].tr /\ trades'[n].sl_order_id = Fresh(t)
  BY <1>0, <1>6 DEF Writes
<1>7. ASSUME NEW m \in Trades, m # n, NEW row, trades' = [trades EXCEPT ![m] = row]
      PROVE  trades'[n] = trades[n]
  BY <1>0, <1>7
<1>8. \/ trades'[n] = trades[n]
      \/ \E t \in Threads : MarkProtected(t) /\ n = job[t].tr /\ trades'[n].sl_order_id = Fresh(t)
  <2>1. CASE UNCHANGED trades
    BY <2>1
  <2>2. ASSUME NEW m \in Trades, NEW row, Inserts(m, row) PROVE trades'[n] = trades[n]
    <3>1. trades' = [trades EXCEPT ![m] = row]
      BY <2>2 DEF Inserts
    <3> QED BY <1>5, <1>7, <2>2, <3>1
  <2>3. ASSUME NEW m \in Trades, m # n, NEW row, NEW t \in Threads, Writes(t, m, row)
        PROVE  trades'[n] = trades[n]
    BY <1>7, <2>3 DEF Writes
  <2> QED BY <1>6, <2>1, <2>2, <2>3, RowsNext DEF RowMoves
<1>9. ASSUME NEW t \in Threads, MarkProtected(t), n = job[t].tr, trades'[n].sl_order_id = Fresh(t)
      PROVE  LET o == trades'[n].sl_order_id
             IN /\ o # NoId
                /\ orders'[o].status \in Kept
                /\ \A u \in Threads : job'[u].pc = "cancel" /\ job'[u].tr = n
                     => job'[u].seen[n] # o
  <2> DEFINE o == Fresh(t)
  <2>1. /\ o # NoId /\ orders'[o].status \in Kept
        /\ \A u \in Threads : job'[u].pc = "cancel" /\ job'[u].tr = n => job'[u].seen[n] # o
    BY <1>4, <1>9
  <2>2. trades'[n].sl_order_id = o
    BY <1>9
  <2> HIDE DEF o
  <2> QED BY <2>1, <2>2
<1> QED BY <1>3, <1>8, <1>9

-----------------------------------------------------------------------------
(* What a stop still has to sell covers what is held. *)

Sizing == {"place", "replace", "adopt"}

CoverInv ==
  /\ owner = 0 => pos = 0
  /\ \A n \in Trades : owner = n =>
       LET e == orders[EntryId(n)]
       IN e.status \notin {"none", "new"} /\ pos <= e.filled
  /\ \A o \in StopIds : o[1] = owner =>
       /\ Working(o) => pos + orders[o].filled <= orders[o].qty
       /\ orders[o].status = "filled" => pos = 0
  /\ \A t \in Threads : job[t].pc \in Sizing /\ job[t].tr = owner => pos <= job[t].qty

(* Only a resolved entry raises the position. *)
LEMMA PosMoves ==
  ASSUME TypeInv, BookInv, [Next]_vars
  PROVE  \/ pos' \in Nat /\ pos' <= pos /\ owner' = owner
         \/ \E n \in Trades : ResolveEntry(n)
<1>0. pos \in Nat
  BY DEF TypeInv, TypeOK
<1>1. CASE UNCHANGED <<pos, owner>>
  BY <1>0, <1>1
<1>2. ASSUME NEW o \in ExitIds, ResolveExit(o) PROVE pos' \in Nat /\ pos' <= pos /\ owner' = owner
  <2>1. orders[o].qty \in Nat
    BY IdsType DEF TypeInv, TypeOK, Order
  <2> QED BY <1>0, <1>2, <2>1, ExitResolved
<1>3. ASSUME NEW o \in StopIds, TriggerStop(o) PROVE pos' \in Nat /\ pos' <= pos /\ owner' = owner
  <2> DEFINE left == orders[o].qty - orders[o].filled
             most == IF left <= pos THEN left ELSE pos
  <2>1. PICK q \in {most} \cup 1..(most - 1) : pos' = pos - q
    BY <1>3, StopTriggered
  <2>2. owner' = owner /\ pos' \in Nat
    BY <1>3, StopTriggered, TypeNext DEF TypeInv, TypeOK
  <2>3. orders[o].qty \in Nat /\ orders[o].filled \in Nat /\ orders[o].filled <= orders[o].qty
    BY IdsType DEF TypeInv, TypeOK, Order, BookInv
  <2>4. most \in Nat
    BY <1>0, <2>3
  <2> HIDE DEF most
  <2> QED BY <1>0, <2>1, <2>2, <2>4
<1>4. CASE ResolveClose
  BY <1>4, CloseResolved
<1>5. ASSUME NEW t \in Threads, SharedStep(t) PROVE UNCHANGED <<pos, owner>>
  <2>1. CASE StopPlaced(t) \/ CancelStop(t) \/ ExitAccepted(t)
    BY <2>1 DEF StopPlaced, CancelStop, ExitAccepted
  <2>2. CASE \/ StopRefused(t) \/ MarkProtected(t) \/ BeginReplace(t) \/ BeginExit(t)
             \/ ReadExitQty(t) \/ ExitRefused(t) \/ AwaitExit(t) \/ MarkUnsold(t)
             \/ History(t) \/ MarkClosed(t)
    <3>1. UNCHANGED broker
      BY <2>2, Zenon
         DEF StopRefused, MarkProtected, BeginReplace, BeginExit, ReadExitQty, ExitRefused,
             AwaitExit, MarkUnsold, History, MarkClosed, broker
    <3> QED BY <3>1 DEF broker
  <2> QED BY <1>5, <2>1, <2>2 DEF SharedStep
<1>6. CASE OpenStep \/ MonitorStep \/ StartFlatten \/ FailStep \/ SetKillSwitch \/ UNCHANGED vars
           \/ Boot \/ BootPosition \/ AdoptNewest \/ FlattenOrphan \/ Sweep \/ StartScheduler
  BY <1>1, <1>6
     DEF OpenStep, SubmitEntry, AwaitEntry, MonitorStep, StartMonitor, CheckStop, CheckPosition,
         Decide, Boot, BootPosition, AdoptNewest, FlattenOrphan, Sweep, StartScheduler,
         StartFlatten, FailStep, Crash, JobDies, SetKillSwitch, vars, broker
<1>7. CASE \E o \in StopIds : LoseStop(o)
  BY <1>1, <1>7 DEF LoseStop
<1> QED BY <1>1, <1>2, <1>3, <1>4, <1>5, <1>6, <1>7 DEF Next, BootStep, MarketStep, StopStep

(* Where the size of a stop comes from: the fill, or the position itself. *)
LEMMA SizeMoves ==
  ASSUME TypeInv, PhaseInv, [Next]_vars, NEW t \in Threads, job'[t].pc \in Sizing
  PROVE  LET j == job[t]
             k == job'[t]
         IN \/ j.pc \in Sizing /\ k.tr = j.tr /\ k.qty = j.qty
            \/ /\ AwaitEntry /\ k.tr = j.tr /\ k.tr \in Trades
               /\ k.qty = orders[EntryId(j.tr)].filled /\ k.qty > 0
            \/ k.qty = pos /\ k.qty > 0 /\ k.tr \in InHand(j)
<1> DEFINE j == job[t]
           k == job'[t]
<1>0. job \in [Threads -> Job] /\ j \in Job /\ pos \in Nat
  BY DEF TypeInv, TypeOK
<1>a. \A i : Become(t, i) => k = i
  BY <1>0 DEF Become
<1>1. CASE k = j
  BY <1>1
<1>2. CASE t = "tick" /\ AwaitEntry
  <2>1. j.tr \in Trades
    BY <1>2 DEF AwaitEntry, At, TypeInv, BoundJob, Unbound
  <2> DEFINE q == orders[EntryId(j.tr)].filled
  <2>2. k = IdleJob \/ (q > 0 /\ k = [j EXCEPT !.pc = "place", !.qty = q])
    BY <1>0, <1>2 DEF AwaitEntry, Become
  <2> HIDE DEF q
  <2>3. k # IdleJob
    BY DEF IdleJob, Sizing
  <2>4. k.tr = j.tr /\ k.qty = q /\ q > 0
    BY <1>0, <2>2, <2>3 DEF Job
  <2> QED BY <1>2, <2>1, <2>4 DEF q
<1>3. CASE StopRefused(t)
  <2>1. /\ j.pc = "place"
        /\ \/ k = [j EXCEPT !.attempt = j.attempt + 1]
           \/ \E seen : k = [j EXCEPT !.pc = "exit", !.why = "UNPROTECTED", !.seen = seen]
    <3>1. \/ Become(t, [j EXCEPT !.attempt = j.attempt + 1])
          \/ \E seen : Become(t, [j EXCEPT !.pc = "exit", !.why = "UNPROTECTED", !.seen = seen])
      BY <1>3, Zenon DEF StopRefused
    <3> QED BY <1>3, <1>a, <3>1 DEF StopRefused, At
  <2> QED BY <1>0, <2>1 DEF Job, Sizing
<1>4. CASE BeginReplace(t)
  <2>1. j.pc = "replace" /\ k \in {IdleJob, [j EXCEPT !.pc = "place", !.attempt = 1]}
    <3>1. \/ Become(t, IdleJob)
          \/ Become(t, [j EXCEPT !.pc = "place", !.attempt = 1])
      BY <1>4, Zenon DEF BeginReplace, WriteRow, WriteAborted, WriteDone
    <3> QED BY <1>4, <1>a, <3>1 DEF BeginReplace, At
  <2>2. k # IdleJob
    BY DEF IdleJob, Sizing
  <2> QED BY <1>0, <2>1, <2>2 DEF Job, Sizing
<1>5. CASE t = "mon" /\ CheckPosition
  <2>1. PICK q \in {0, pos} :
          Become(t, [j EXCEPT !.pc = MonitorPlan(j, q),
                              !.qty = IF MonitorPlan(j, q) = "replace" THEN q ELSE 0,
                              !.why = IF MonitorPlan(j, q) = "exit" THEN "KILL_SWITCH" ELSE "none"])
    BY <1>5, Zenon DEF CheckPosition
  <2>2. MonitorPlan(j, q) = "replace" => q = pos /\ q > 0
    BY <1>0, <2>1 DEF MonitorPlan
  <2>3. MonitorPlan(j, q) \notin {"place", "adopt"}
    BY DEF MonitorPlan
  <2> DEFINE plan == MonitorPlan(j, q)
             why == IF plan = "exit" THEN "KILL_SWITCH" ELSE "none"
  <2>4. k = [j EXCEPT !.pc = plan, !.qty = IF plan = "replace" THEN q ELSE 0, !.why = why]
    BY <1>a, <2>1
  <2>5. plan \notin {"place", "adopt"} /\ (plan = "replace" => q = pos /\ q > 0)
    BY <2>2, <2>3
  <2>6. j.tr \in InHand(j)
    <3>1. j.tr \in Trades
      BY <1>5 DEF CheckPosition, At, TypeInv, BoundJob, Unbound
    <3> QED BY <3>1, ConstantsAssumption DEF InHand, Trades
  <2> HIDE DEF plan, why
  <2> QED BY <1>0, <2>4, <2>5, <2>6 DEF Job, Sizing
<1>6. CASE t = "main" /\ AdoptNewest
  <2>1. j.pc = "adopt" /\ (Become(t, NextTrade(t)) \/ Goto(t, "replace"))
    BY <1>6 DEF AdoptNewest, At
  <2>2. NextTrade(t).pc \notin Sizing
    BY NextTradeMove DEF Sizing, IdleJob
  <2> QED BY <1>a, <2>1, <2>2, GotoMoves DEF Sizing
<1>7. CASE t = "main" /\ BootPosition
  <2> DEFINE rows == j.todo
             Adopt(q) == [j EXCEPT !.pc = "adopt", !.tr = Last(rows),
                                   !.todo = rows \ {Last(rows)}, !.qty = q]
  <2>1. \E q \in {0, pos} :
           \/ BootPlan(rows, q) = "adopt" /\ k = Adopt(q)
           \/ k = NextTrade(t)
           \/ \E label \in {"orphan", "sweep"} : k = [j EXCEPT !.pc = label]
    <3>1. \A q : BootPlan(rows, q) \in {"adopt", "close_all", "orphan", "sweep"}
      BY DEF BootPlan
    <3> HIDE DEF Adopt
    <3> QED BY <1>7, <1>a, <3>1 DEF BootPosition, Adopt
  <2>2. k # NextTrade(t)
    BY NextTradeMove DEF Sizing, IdleJob
  <2>3. \A label : [j EXCEPT !.pc = label].pc = label
    BY <1>0 DEF Job
  <2>4. PICK q \in {0, pos} : BootPlan(rows, q) = "adopt" /\ k = Adopt(q)
    BY <2>1, <2>2, <2>3 DEF Sizing
  <2>5. q = pos /\ q > 0 /\ rows # {} /\ rows \in SUBSET Trades
    BY <1>0, <2>4 DEF BootPlan, Job
  <2>6. Last(rows) \in rows
    BY <2>5, LastIn
  <2>7. k.qty = q /\ k.tr = Last(rows)
    BY <1>0, <2>4 DEF Job
  <2> QED BY <2>5, <2>6, <2>7 DEF InHand
<1>8. ~(t = "tick" /\ SubmitEntry)
  BY <1>0 DEF SubmitEntry, Become, IdleJob, Sizing
<1>9. k # IdleJob
  BY DEF IdleJob, Sizing
<1> QED BY <1>1, <1>2, <1>3, <1>4, <1>5, <1>6, <1>7, <1>8, <1>9, NextMovesAll
        DEF Moves, Arrives, Sizing

LEMMA CoverInit == Init => CoverInv
BY IdsType, ConstantsAssumption
   DEF Init, CoverInv, NoOrder, Working, StatusOf, IdleJob, Sizing, Trades

(* An entry is resolved before it has a row, a stop or an exit, while nothing  *)
(* is held.                                                                   *)
LEMMA Bought ==
  ASSUME TypeInv, BookInv, RowInv, TagInv, NEW n \in Trades, ResolveEntry(n)
  PROVE  LET e == EntryId(n)
         IN /\ orders[e].status = "new" /\ orders[e].filled = 0 /\ orders[e].qty = Units
            /\ orders'[e].status \in {"filled", "canceled"}
            /\ pos = 0 /\ pos' = orders'[e].filled /\ pos' \in 0..Units
            /\ owner' = IF pos' > 0 THEN n ELSE owner
            /\ UNCHANGED <<job, trades, next>>
            /\ \A o \in OrderIds : o # e => orders'[o] = orders[o]
            /\ ~Rowed(n)
            /\ \A o \in StopIds \cup ExitIds : o[1] = n => orders[o].status = "none"
            /\ \A t \in Threads : ~At(t, "entry") => job[t].tr # n /\ n \notin job[t].todo
<1> DEFINE e == EntryId(n)
<1>0. pos \in Nat /\ e \in OrderIds /\ orders[e] \in Order /\ n # 0
  BY EntryIsNoExit, ConstantsAssumption DEF TypeInv, TypeOK, Trades
<1>1. /\ orders[e].status = "new" /\ pos' = pos + orders'[e].filled
      /\ orders'[e].status \in {"filled", "canceled"} /\ orders'[e].filled \in 0..orders[e].qty
      /\ owner' = IF orders'[e].filled > 0 THEN n ELSE owner
      /\ UNCHANGED <<job, trades, next>>
  BY EntryResolved
<1>2. pos = 0 /\ orders[e].qty = Units
  BY <1>1 DEF BookInv, Unresolved
<1>3. orders[e].filled = 0 /\ ~Rowed(n)
  BY <1>0, <1>1 DEF RowInv, Order
<1>4. \A o \in OrderIds : o # e => orders'[o] = orders[o]
  <2>1. PICK q, status : orders' = [orders EXCEPT ![e].status = status, ![e].filled = q]
    BY Zenon DEF ResolveEntry
  <2> QED BY <2>1 DEF TypeInv, TypeOK
<1>5. \A t \in Threads : ~At(t, "entry") => job[t].tr # n /\ n \notin job[t].todo
  BY <1>0, <1>3 DEF RowInv, InHand
<1>6. \A o \in StopIds \cup ExitIds : o[1] = n => orders[o].status = "none"
  BY <1>3 DEF TagInv
<1>7. pos' = orders'[e].filled /\ pos' \in 0..Units
  <2> HIDE DEF e
  <2> QED BY <1>1, <1>2, ConstantsAssumption
<1> HIDE DEF e
<1> QED BY <1>1, <1>2, <1>3, <1>4, <1>5, <1>6, <1>7 DEF e

LEMMA CoverBuys ==
  ASSUME TypeInv, BookInv, RowInv, TagInv, CoverInv, NEW n \in Trades, ResolveEntry(n)
  PROVE  CoverInv'
<1> DEFINE e == EntryId(n)
<1>0. /\ \A m \in Trades : EntryId(m) \in OrderIds /\ (EntryId(m) = e => m = n)
      /\ \A o \in StopIds : o \in OrderIds /\ o # e /\ o # NoId
      /\ \A o \in OrderIds : orders[o].qty \in Nat /\ orders[o].filled \in 0..orders[o].qty
      /\ \A t \in Threads : job[t].qty \in Nat
  <2>1. \A t \in Threads : job[t].qty \in Nat
    BY DEF TypeInv, TypeOK, Job
  <2>2. \A o \in OrderIds : orders[o].qty \in Nat /\ orders[o].filled \in 0..orders[o].qty
    BY DEF TypeInv, TypeOK, Order, BookInv
  <2>3. \A m \in Trades : EntryId(m) \in OrderIds /\ (EntryId(m) = e => m = n)
    BY EntryIsNoExit DEF EntryId
  <2> QED BY <2>1, <2>2, <2>3, EntryIsNoExit, IdsType
<1>1. /\ orders'[e].status \in {"filled", "canceled"}
      /\ pos = 0 /\ pos' = orders'[e].filled /\ pos' \in Nat
      /\ owner' = IF pos' > 0 THEN n ELSE owner
      /\ UNCHANGED job
      /\ \A o \in OrderIds : o # e => orders'[o] = orders[o]
      /\ \A o \in StopIds : o[1] = n => orders[o].status = "none"
      /\ \A t \in Threads : job[t].pc \in Sizing => job[t].tr # n
  BY Bought, ConstantsAssumption DEF At, Sizing
<1> HIDE DEF e
<1>4. owner' = 0 => pos' = 0
  BY <1>1, ConstantsAssumption DEF Trades
<1>5. ASSUME NEW m \in Trades, owner' = m
      PROVE  /\ orders'[EntryId(m)].status \notin {"none", "new"}
             /\ pos' <= orders'[EntryId(m)].filled
  <2>1. CASE m = n
    BY <1>1, <2>1 DEF e
  <2>2. CASE m # n
    <3>1. owner = m /\ pos' = 0
      BY <1>1, <1>5, <2>2
    <3>2. orders'[EntryId(m)] = orders[EntryId(m)]
      BY <1>0, <1>1, <2>2
    <3> QED BY <1>0, <3>1, <3>2 DEF CoverInv
  <2> QED BY <2>1, <2>2
<1>6. ASSUME NEW o \in StopIds, o[1] = owner'
      PROVE  /\ orders'[o].status \in {"new", "partially_filled"}
                  => pos' + orders'[o].filled <= orders'[o].qty
             /\ orders'[o].status = "filled" => pos' = 0
  BY <1>0, <1>1, <1>6
<1>7. \A t \in Threads : job'[t].pc \in Sizing /\ job'[t].tr = owner' => pos' <= job'[t].qty
  BY <1>0, <1>1
<1>8. \A o \in StopIds : Working(o)' => orders'[o].status \in {"new", "partially_filled"}
  BY <1>0 DEF Working, StatusOf
<1> QED BY <1>4, <1>5, <1>6, <1>7, <1>8 DEF CoverInv

LEMMA CoverNext ==
  ASSUME TypeInv, BookInv, PhaseInv, RowInv, TagInv, CoverInv, [Next]_vars
  PROVE  CoverInv'
<1>1. ASSUME NEW n \in Trades, ResolveEntry(n) PROVE CoverInv'
  BY <1>1, CoverBuys
<1>2. CASE pos' \in Nat /\ pos' <= pos /\ owner' = owner
  <2>0. /\ pos \in Nat
        /\ \A o \in StopIds : o \in OrderIds /\ o # NoId
        /\ \A o \in OrderIds : /\ orders[o] \in Order /\ orders[o].qty \in Nat
                               /\ orders[o].filled \in Nat
        /\ \A t \in Threads : job[t].qty \in Nat
    BY IdsType DEF TypeInv, TypeOK, Job, Order
  <2>1. owner' = 0 => pos' = 0
    BY <1>2, <2>0 DEF CoverInv
  <2>2. ASSUME NEW n \in Trades, owner' = n
        PROVE  /\ orders'[EntryId(n)].status \notin {"none", "new"}
               /\ pos' <= orders'[EntryId(n)].filled
    <3> DEFINE x == orders[EntryId(n)]
               y == orders'[EntryId(n)]
    <3>1. x \in Order /\ x.filled \in Nat /\ x.status \notin {"none", "new"} /\ pos <= x.filled
      BY <1>2, <2>0, <2>2, EntryIsNoExit DEF CoverInv
    <3>2. y = x \/ y = [x EXCEPT !.status = "canceled"]
      <4>1. ~ResolveEntry(n)
        BY <3>1 DEF ResolveEntry
      <4>2. n # next
        BY <3>1, ConstantsAssumption DEF RowInv, TypeInv, TypeOK, Trades
      <4> QED BY <4>1, <4>2, EntryMoves
    <3>3. y.status \notin {"none", "new"} /\ y.filled = x.filled
      BY <3>1, <3>2 DEF Order
    <3> HIDE DEF x, y
    <3>4. pos' <= y.filled
      BY <1>2, <2>0, <3>1, <3>3
    <3> QED BY <3>3, <3>4 DEF y
  <2>3. ASSUME NEW o \in StopIds, o[1] = owner'
        PROVE  /\ orders'[o].status \in {"new", "partially_filled"}
                    => pos' + orders'[o].filled <= orders'[o].qty
               /\ orders'[o].status = "filled" => pos' = 0
    <3> DEFINE x == orders[o]
               y == orders'[o]
               Good == /\ y.status \in {"new", "partially_filled"} => pos' + y.filled <= y.qty
                       /\ y.status = "filled" => pos' = 0
    <3> SUFFICES Good
      OBVIOUS
    <3>1. /\ x \in Order /\ x.qty \in Nat /\ x.filled \in Nat
          /\ x.status \in {"new", "partially_filled"} => pos + x.filled <= x.qty
          /\ x.status = "filled" => pos = 0
      BY <1>2, <2>0, <2>3 DEF CoverInv, Working, StatusOf
    <3>2. CASE y = x
      <4> HIDE DEF x, y
      <4> QED BY <1>2, <2>0, <3>1, <3>2
    <3>3. ASSUME NEW t \in Threads, StopPlaced(t), o = Fresh(t), y = NewOrder(job[t].qty)
          PROVE  Good
      <4>1. y.status = "new" /\ y.qty = job[t].qty /\ y.filled = 0
        BY <3>3 DEF NewOrder
      <4>2. job[t].pc = "place" /\ job[t].tr = owner
        BY <1>2, <2>3, <3>3 DEF StopPlaced, At, Fresh, StopId
      <4>3. pos <= job[t].qty /\ job[t].qty \in Nat
        BY <2>0, <4>2 DEF CoverInv, Sizing
      <4> HIDE DEF y
      <4> QED BY <1>2, <2>0, <4>1, <4>3
    <3>4. CASE \E status \in {"canceled", "expired"} : y = [x EXCEPT !.status = status]
      <4>1. y.status \in {"canceled", "expired"}
        BY <3>1, <3>4 DEF Order
      <4> QED BY <4>1
    <3>5. CASE TriggerStop(o)
      <4> DEFINE left == x.qty - x.filled
                 most == IF left <= pos THEN left ELSE pos
      <4>1. /\ Working(o) /\ pos > 0
            /\ \E q \in {most} \cup 1..(most - 1) :
                 /\ y.status = IF q = left THEN "filled" ELSE "partially_filled"
                 /\ y.qty = x.qty /\ y.filled = x.filled + q
                 /\ pos' = pos - q
        BY <3>5, StopTriggered
      <4>2. pos + x.filled <= x.qty
        BY <2>0, <3>1, <4>1 DEF Working, StatusOf
      <4>3. most = pos
        BY <2>0, <3>1, <4>2
      <4> HIDE DEF most, x, y
      <4> QED BY <2>0, <3>1, <4>1, <4>2, <4>3
    <3>6. /\ o \notin ExitIds
          /\ \A n \in Trades : o # EntryId(n)
          /\ ~(SubmitEntry /\ o = EntryId(next))
          /\ \A t \in Threads : ~(ExitAccepted(t) /\ o = ExitId(job[t].tr, job[t].why))
      <4>1. o \notin ExitIds /\ \A n \in Trades : o # EntryId(n)
        BY IdsType, EntryIsNoExit
      <4>2. ~(SubmitEntry /\ o = EntryId(next))
        BY <4>1 DEF SubmitEntry
      <4>3. \A t \in Threads : ~(ExitAccepted(t) /\ o = ExitId(job[t].tr, job[t].why))
        <5>1. ASSUME NEW t \in Threads PROVE job[t].why \notin StopSuffixes
          <6>1. job[t].why \in CloseReasons \cup {"none"}
            BY DEF TypeInv, TypeOK, Job
          <6> QED BY <6>1 DEF CloseReasons, ExitReasons, AllPlannedExits, StopSuffixes
        <5>2. o[2] \in StopSuffixes
          BY DEF StopIds
        <5> QED BY <5>1, <5>2 DEF ExitId
      <4> QED BY <4>1, <4>2, <4>3
    <3>7. OrderMoves(o)
      BY <2>0, OrdersNext
    <3> HIDE DEF Good
    <3> QED BY <3>2, <3>3, <3>4, <3>5, <3>6, <3>7 DEF OrderMoves
  <2>4. ASSUME NEW t \in Threads, job'[t].pc \in Sizing, job'[t].tr = owner'
        PROVE  pos' <= job'[t].qty
    <3>1. CASE job[t].pc \in Sizing /\ job'[t].tr = job[t].tr /\ job'[t].qty = job[t].qty
      BY <1>2, <2>0, <2>4, <3>1 DEF CoverInv
    <3>2. CASE /\ job'[t].tr = job[t].tr /\ job'[t].tr \in Trades
               /\ job'[t].qty = orders[EntryId(job[t].tr)].filled
      BY <1>2, <2>0, <2>4, <3>2, EntryIsNoExit DEF CoverInv
    <3>3. CASE job'[t].qty = pos
      BY <1>2, <2>0, <3>3
    <3> QED BY <2>4, <3>1, <3>2, <3>3, SizeMoves
  <2>5. \A o \in StopIds : Working(o)' => orders'[o].status \in {"new", "partially_filled"}
    BY <2>0 DEF Working, StatusOf
  <2> QED BY <2>1, <2>2, <2>3, <2>4, <2>5 DEF CoverInv
<1> QED BY <1>1, <1>2, PosMoves

(* A row that says OPEN_PROTECTED while its units are held names a stop that is *)
(* working, or that the broker itself dropped: nobody cancels a stop before   *)
(* the row has left OPEN_PROTECTED, because begin_exit is written first and a  *)
(* cancel goes to the stop the thread has read, and a stop that has sold all   *)
(* of its size has sold all that is held.  The latter needs every entry to    *)
(* be resolved when open() stops polling it: one that fills later is sold     *)
(* off by a stop sized to what had filled by then.                            *)
THEOREM ProtectedHasStop ==
  ASSUME "slow" \notin Faults
  PROVE  Spec => []ProtectedMeansStop
<1>1. ASSUME TypeInv, TagInv, NamedInv, CoverInv PROVE ProtectedMeansStop
  <2> SUFFICES ASSUME NEW n \in Trades, trades[n].status = "OPEN_PROTECTED", Held(n) > 0
               PROVE  LET o == trades[n].sl_order_id
                      IN o # NoId /\ orders[o].status \in {"new", "partially_filled", "expired"}
    BY DEF ProtectedMeansStop
  <2> DEFINE o == trades[n].sl_order_id
  <2>1. owner = n /\ pos > 0
    BY ConstantsAssumption DEF Held
  <2>2. o # NoId /\ orders[o].status \in Kept
    BY <1>1 DEF NamedInv
  <2>3. o \in StopIds /\ o[1] = owner
    BY <1>1, <2>1, <2>2 DEF TagInv, OwnStop
  <2>4. orders[o].status # "filled"
    BY <1>1, <2>1, <2>3 DEF CoverInv
  <2> QED BY <2>2, <2>4 DEF Kept
<1>2. TypeInv /\ BookInv /\ [Next]_vars => BookInv'
  BY BookNext
<1>3. TypeInv /\ PhaseInv /\ RowInv /\ [Next]_vars => RowInv'
  BY RowNext
<1>4. TypeInv /\ PhaseInv /\ RowInv /\ TagInv /\ FreshInv /\ NamedInv /\ [Next]_vars
        => TagInv' /\ FreshInv' /\ NamedInv'
  BY TagNext, FreshNext, NamedNext
<1>5. TypeInv /\ BookInv /\ PhaseInv /\ RowInv /\ TagInv /\ CoverInv /\ [Next]_vars => CoverInv'
  BY CoverNext
<1> QED
  BY <1>1, <1>2, <1>3, <1>4, <1>5, TypeInit, TypeNext, PhaseInit, PhaseNext, RowInit, StopsInit,
     BookInit, CoverInit, PTL DEF Spec

=============================================================================
