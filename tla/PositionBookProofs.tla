------------------------- MODULE PositionBookProofs -------------------------
(***************************************************************************)
(* What PositionManager's books are worth as long as the broker's answers   *)
(* are the whole truth (Reliable): a row is closed over nothing but what is *)
(* gone, every step is one of PositionBook's or none, a trade its stop sold *)
(* is recorded as stopped out, and what is held is looked after.            *)
(*                                                                         *)
(* FlatInv says who may sell how much of whose position, and with it        *)
(* ImplementsBook follows step by step; UnitInv, CloseInv and OwnInv say     *)
(* that every trade sold what it bought, from which ReasonInv reads the      *)
(* reason; EntryInv says that what was bought has a row, or is polled.      *)
(***************************************************************************)
EXTENDS PositionManagerProofs

-----------------------------------------------------------------------------
(* An exit is made for one of the reasons the trades table knows.             *)

Selling == {"exit", "cancel", "qty", "sell", "fill"}
WhyInv == \A t \in Threads : job[t].pc \in Selling => job[t].why \in ExitReasons

LEMMA NextTradeWhy ==
  ASSUME TypeInv, NEW t \in Threads, NextTrade(t).pc \in Selling
  PROVE  NextTrade(t).why \in ExitReasons
<1> DEFINE k == NextTrade(t)
           n == First(job[t].todo)
           Take(label, why) ==
             [IdleJob EXCEPT !.pc = label, !.tr = n, !.todo = job[t].todo \ {n},
                             !.seen = job[t].seen, !.ks = job[t].ks, !.why = why]
<1>1. \/ k = IdleJob
      \/ \E label \in {"ready", "sweep"} : k = [IdleJob EXCEPT !.pc = label]
      \/ k = Take("history", "none")
      \/ k = Take("check", "none")
      \/ k = Take("exit", "MANUAL")
  BY DEF NextTrade
<1>2. /\ IdleJob.pc = "idle"
      /\ \A label : [IdleJob EXCEPT !.pc = label].pc = label
      /\ Take("history", "none").pc = "history" /\ Take("check", "none").pc = "check"
      /\ Take("exit", "MANUAL").why = "MANUAL"
  BY DEF IdleJob
<1> HIDE DEF k, Take
<1>3. k.pc \in Selling
  BY DEF k
<1>4. k.why = "MANUAL"
  BY <1>1, <1>2, <1>3 DEF Selling
<1> QED BY <1>4 DEF k, ExitReasons

LEMMA WhyShared ==
  ASSUME TypeInv, WhyInv, NEW t \in Threads, SharedStep(t), job'[t].pc \in Selling
  PROVE  job'[t].why \in ExitReasons
<1> DEFINE j == job[t]
           k == job'[t]
<1>0. job \in [Threads -> Job] /\ j \in Job
  BY DEF TypeInv, TypeOK
<1>a. \A i : Become(t, i) => k = i
  BY <1>0 DEF Become
<1>b. \A label : [j EXCEPT !.pc = label].pc = label
  BY <1>0 DEF Job
<1>c. j.pc \in Selling => j.why \in ExitReasons
  BY DEF WhyInv
<1>d. k # IdleJob
  BY DEF IdleJob, Selling
<1>1. ASSUME NEW label, Goto(t, label) PROVE k.pc = label /\ k.why = j.why
  BY <1>1, GotoMoves
<1>2. CASE \/ MarkProtected(t) \/ MarkUnsold(t) \/ MarkClosed(t)
  <2>1. \/ Become(t, IdleJob) \/ Become(t, [j EXCEPT !.pc = "decide"]) \/ Become(t, NextTrade(t))
    BY <1>2, Zenon DEF MarkProtected, MarkUnsold, MarkClosed, WriteRow, WriteAborted, WriteDone
  <2>2. k = NextTrade(t)
    BY <1>a, <1>b, <1>d, <2>1 DEF Selling
  <2> QED BY <2>2, NextTradeWhy
<1>3. CASE StopPlaced(t) \/ ExitRefused(t) \/ AwaitExit(t)
  <2>1. \E label \in {"mark", "unsold", "close"} : Goto(t, label)
    BY <1>3 DEF StopPlaced, ExitRefused, AwaitExit, ExitOutcome
  <2> QED BY <1>1, <2>1 DEF Selling
<1>4. CASE CancelStop(t) \/ ExitAccepted(t)
  <2>1. j.pc \in Selling /\ \E label : Goto(t, label)
    BY <1>4 DEF CancelStop, ExitAccepted, At, Selling
  <2> QED BY <1>1, <1>c, <2>1
<1>5. CASE BeginExit(t) \/ ReadExitQty(t)
  <2>1. \/ Become(t, IdleJob)
        \/ \E label : Become(t, [j EXCEPT !.pc = label])
        \/ \E q : Become(t, [j EXCEPT !.pc = "sell", !.qty = q])
    BY <1>5, Zenon DEF BeginExit, ReadExitQty, WriteRow, WriteAborted, WriteDone
  <2>2. /\ \A label : [j EXCEPT !.pc = label].why = j.why
        /\ \A q : [j EXCEPT !.pc = "sell", !.qty = q].why = j.why
    BY <1>0 DEF Job
  <2>3. j.pc \in Selling
    BY <1>5 DEF BeginExit, ReadExitQty, At, Selling
  <2> QED BY <1>a, <1>c, <1>d, <2>1, <2>2, <2>3
<1>6. CASE StopRefused(t)
  <2>1. /\ j.pc = "place"
        /\ \/ Become(t, [j EXCEPT !.attempt = j.attempt + 1])
           \/ \E seen : Become(t, [j EXCEPT !.pc = "exit", !.why = "UNPROTECTED", !.seen = seen])
    <3>1. \/ Become(t, [j EXCEPT !.attempt = j.attempt + 1])
          \/ \E seen : Become(t, [j EXCEPT !.pc = "exit", !.why = "UNPROTECTED", !.seen = seen])
      BY <1>6, Zenon DEF StopRefused
    <3> QED BY <1>6, <3>1 DEF StopRefused, At
  <2>2. /\ [j EXCEPT !.attempt = j.attempt + 1].pc = j.pc
        /\ \A seen : [j EXCEPT !.pc = "exit", !.why = "UNPROTECTED", !.seen = seen].why = "UNPROTECTED"
    BY <1>0 DEF Job
  <2>3. "UNPROTECTED" \in ExitReasons
    BY DEF ExitReasons
  <2>4. CASE Become(t, [j EXCEPT !.attempt = j.attempt + 1])
    <3>1. k.pc = "place"
      BY <1>a, <2>1, <2>2, <2>4
    <3> QED BY <3>1 DEF Selling
  <2>5. ASSUME NEW seen, Become(t, [j EXCEPT !.pc = "exit", !.why = "UNPROTECTED", !.seen = seen])
        PROVE  job'[t].why \in ExitReasons
    <3>1. k = [j EXCEPT !.pc = "exit", !.why = "UNPROTECTED", !.seen = seen]
      BY <1>a, <2>5
    <3>2. k.why = "UNPROTECTED"
      BY <1>0, <3>1 DEF Job
    <3> QED BY <2>3, <3>2
  <2> QED BY <2>1, <2>4, <2>5
<1>7. CASE BeginReplace(t) \/ History(t)
  <2>1. \/ Become(t, IdleJob)
        \/ Become(t, [j EXCEPT !.pc = "place", !.attempt = 1])
        \/ \E why : Become(t, [j EXCEPT !.pc = "close", !.why = why])
    BY <1>7, Zenon DEF BeginReplace, History, WriteRow, WriteAborted, WriteDone
  <2>2. /\ [j EXCEPT !.pc = "place", !.attempt = 1].pc = "place"
        /\ \A why : [j EXCEPT !.pc = "close", !.why = why].pc = "close"
    BY <1>0 DEF Job
  <2> QED BY <1>a, <1>d, <2>1, <2>2 DEF Selling
<1> QED BY <1>2, <1>3, <1>4, <1>5, <1>6, <1>7 DEF SharedStep

LEMMA WhyMonitor ==
  ASSUME TypeInv, MonitorStep, job'["mon"].pc \in Selling
  PROVE  job'["mon"].why \in ExitReasons
<1> DEFINE j == job["mon"]
           k == job'["mon"]
<1>0. job \in [Threads -> Job] /\ j \in Job /\ "mon" \in Threads
  BY DEF TypeInv, TypeOK, Threads
<1>a. \A i : Become("mon", i) => k = i
  BY <1>0 DEF Become
<1>1. CASE StartMonitor
  <2>1. k.pc = "check"
    BY <1>a, <1>1 DEF StartMonitor, IdleJob
  <2> QED BY <2>1 DEF Selling
<1>2. CASE CheckStop
  <2>1. \E why, ok : \/ Become("mon", [j EXCEPT !.pc = "close", !.why = why])
                     \/ Become("mon", [j EXCEPT !.pc = "position", !.stop_ok = ok])
    BY <1>2, Zenon DEF CheckStop
  <2>2. /\ \A why : [j EXCEPT !.pc = "close", !.why = why].pc = "close"
        /\ \A ok : [j EXCEPT !.pc = "position", !.stop_ok = ok].pc = "position"
    BY <1>0 DEF Job
  <2> QED BY <1>a, <2>1, <2>2 DEF Selling
<1>3. CASE CheckPosition
  <2>1. PICK plan, qty :
          Become("mon", [j EXCEPT !.pc = plan, !.qty = qty,
                                  !.why = IF plan = "exit" THEN "KILL_SWITCH" ELSE "none"])
            /\ plan \in {"history", "exit", "replace", "decide"}
    <3>1. \A q : MonitorPlan(j, q) \in {"history", "exit", "replace", "decide"}
      BY DEF MonitorPlan
    <3> QED BY <1>3, <3>1, Zenon DEF CheckPosition
  <2> DEFINE why == IF plan = "exit" THEN "KILL_SWITCH" ELSE "none"
  <2>2. k = [j EXCEPT !.pc = plan, !.qty = qty, !.why = why]
    BY <1>a, <2>1
  <2>3. plan = "exit" => why = "KILL_SWITCH"
    OBVIOUS
  <2> HIDE DEF why
  <2>4. k.pc = plan /\ k.why = why
    BY <1>0, <2>2 DEF Job
  <2> QED BY <2>1, <2>3, <2>4 DEF Selling, ExitReasons
<1>4. CASE Decide
  <2>1. \/ Become("mon", NextTrade("mon"))
        \/ \E why \in {"SL_FAILSAFE"} \cup PlannedExits :
             Become("mon", [j EXCEPT !.pc = "exit", !.why = why])
    BY <1>4, Zenon DEF Decide
  <2>2. \A why : [j EXCEPT !.pc = "exit", !.why = why].why = why
    BY <1>0 DEF Job
  <2>3. {"SL_FAILSAFE"} \cup PlannedExits \subseteq ExitReasons
    BY ConstantsAssumption DEF ExitReasons
  <2>4. CASE Become("mon", NextTrade("mon"))
    BY <1>0, <1>a, <2>4, NextTradeWhy
  <2>5. CASE \E why \in {"SL_FAILSAFE"} \cup PlannedExits :
               Become("mon", [j EXCEPT !.pc = "exit", !.why = why])
    <3>1. PICK why \in {"SL_FAILSAFE"} \cup PlannedExits :
                 Become("mon", [j EXCEPT !.pc = "exit", !.why = why])
      BY <2>5
    <3>2. k = [j EXCEPT !.pc = "exit", !.why = why]
      BY <1>a, <3>1
    <3>3. k.why = why
      BY <2>2, <3>2
    <3> QED BY <2>3, <3>1, <3>3
  <2> QED BY <2>1, <2>4, <2>5
<1> QED BY <1>1, <1>2, <1>3, <1>4 DEF MonitorStep

LEMMA WhyBoot ==
  ASSUME TypeInv, BootStep, job'["main"].pc \in Selling
  PROVE  job'["main"].why \in ExitReasons
<1> DEFINE j == job["main"]
           k == job'["main"]
<1>0. job \in [Threads -> Job] /\ j \in Job /\ "main" \in Threads
  BY DEF TypeInv, TypeOK, Threads
<1>a. \A i : Become("main", i) => k = i
  BY <1>0 DEF Become
<1>1. CASE Boot
  <2>1. k.pc = "boot_position"
    BY <1>a, <1>1 DEF Boot, IdleJob
  <2> QED BY <2>1 DEF Selling
<1>2. CASE BootPosition
  <2>1. \/ \E n, todo, q : Become("main", [j EXCEPT !.pc = "adopt", !.tr = n, !.todo = todo, !.qty = q])
        \/ Become("main", NextTrade("main"))
        \/ \E label \in {"orphan", "sweep"} : Become("main", [j EXCEPT !.pc = label])
    <3>1. \A q : BootPlan(j.todo, q) \in {"adopt", "close_all", "orphan", "sweep"}
      BY DEF BootPlan
    <3>2. PICK q : Become("main",
               CASE BootPlan(j.todo, q) = "adopt" ->
                      [j EXCEPT !.pc = "adopt", !.tr = Last(j.todo),
                                !.todo = j.todo \ {Last(j.todo)}, !.qty = q]
                 [] BootPlan(j.todo, q) = "close_all" -> NextTrade("main")
                 [] OTHER -> [j EXCEPT !.pc = BootPlan(j.todo, q)])
      BY <1>2 DEF BootPosition
    <3>3. CASE BootPlan(j.todo, q) = "adopt"
      BY <3>2, <3>3
    <3>4. CASE BootPlan(j.todo, q) = "close_all"
      BY <3>2, <3>4
    <3>5. CASE BootPlan(j.todo, q) \in {"orphan", "sweep"}
      BY <3>2, <3>5
    <3> QED BY <3>1, <3>3, <3>4, <3>5
  <2>2. /\ \A n, todo, q : [j EXCEPT !.pc = "adopt", !.tr = n, !.todo = todo, !.qty = q].pc = "adopt"
        /\ \A label : [j EXCEPT !.pc = label].pc = label
    BY <1>0 DEF Job
  <2>3. CASE \E n, todo, q :
               Become("main", [j EXCEPT !.pc = "adopt", !.tr = n, !.todo = todo, !.qty = q])
    <3>1. PICK n, todo, q :
            Become("main", [j EXCEPT !.pc = "adopt", !.tr = n, !.todo = todo, !.qty = q])
      BY <2>3
    <3>2. k = [j EXCEPT !.pc = "adopt", !.tr = n, !.todo = todo, !.qty = q]
      BY <1>a, <3>1
    <3>3. k.pc = "adopt"
      BY <2>2, <3>2
    <3> QED BY <3>3 DEF Selling
  <2>4. CASE Become("main", NextTrade("main"))
    BY <1>0, <1>a, <2>4, NextTradeWhy
  <2>5. CASE \E label \in {"orphan", "sweep"} : Become("main", [j EXCEPT !.pc = label])
    <3>1. PICK label \in {"orphan", "sweep"} : Become("main", [j EXCEPT !.pc = label])
      BY <2>5
    <3>2. k = [j EXCEPT !.pc = label]
      BY <1>a, <3>1
    <3>3. k.pc = label
      BY <2>2, <3>2
    <3> QED BY <3>1, <3>3 DEF Selling
  <2> QED BY <2>1, <2>3, <2>4, <2>5
<1>3. CASE AdoptNewest \/ FlattenOrphan \/ Sweep
  <2>1. \/ Become("main", NextTrade("main"))
        \/ \E label \in {"replace", "sweep", "ready"} : Goto("main", label)
    BY <1>3 DEF AdoptNewest, FlattenOrphan, Sweep
  <2> QED BY <1>0, <1>a, <2>1, NextTradeWhy, GotoMoves DEF Selling
<1>4. CASE StartScheduler
  BY <1>a, <1>4 DEF StartScheduler, IdleJob, Selling
<1> QED BY <1>1, <1>2, <1>3, <1>4 DEF BootStep

LEMMA WhyNext ==
  ASSUME TypeInv, PhaseInv, WhyInv, [Next]_vars
  PROVE  WhyInv'
<1> SUFFICES ASSUME NEW u \in Threads, job'[u].pc \in Selling PROVE job'[u].why \in ExitReasons
  BY DEF WhyInv
<1>0. job \in [Threads -> Job] /\ \A t \in Threads : t \in {"main", "tick", "mon", "cli"}
  BY DEF TypeInv, TypeOK, Threads
<1>1. CASE job'[u] = job[u]
  BY <1>1 DEF WhyInv
<1>2. ASSUME NEW t \in Threads, SharedStep(t) PROVE job'[u].why \in ExitReasons
  BY <1>1, <1>2, WhyShared, SharedFrame
<1>3. CASE MonitorStep
  BY <1>1, <1>3, WhyMonitor, MonitorFrame
<1>4. CASE BootStep
  BY <1>1, <1>4, WhyBoot, BootFrame
<1>5. CASE OpenStep
  <2>1. u # "tick" => job'[u] = job[u]
    BY <1>0, <1>5 DEF OpenStep, SubmitEntry, AwaitEntry, Become
  <2>2. job["tick"] \in Job /\ "tick" \in Threads
    BY <1>0 DEF Threads
  <2>3. job'["tick"].pc \notin Selling
    <3>1. CASE SubmitEntry
      BY <1>0, <2>2, <3>1 DEF SubmitEntry, Become, IdleJob, Selling
    <3>2. CASE AwaitEntry
      <4> DEFINE q == orders[EntryId(job["tick"].tr)].filled
                 place == [job["tick"] EXCEPT !.pc = "place", !.qty = q]
      <4>1. job'["tick"] \in {IdleJob, place}
        BY <1>0, <2>2, <3>2 DEF AwaitEntry, Become
      <4> HIDE DEF q
      <4>2. place.pc = "place" /\ IdleJob.pc = "idle"
        BY <2>2 DEF IdleJob, Job
      <4> HIDE DEF place
      <4> QED BY <4>1, <4>2 DEF Selling
    <3> QED BY <1>5, <3>1, <3>2 DEF OpenStep
  <2> QED BY <1>1, <2>1, <2>3
<1>6. CASE StartFlatten
  <2>1. u # "cli" => job'[u] = job[u]
    BY <1>0, <1>6 DEF StartFlatten, Become
  <2>2. job'["cli"].why = "MANUAL"
    BY <1>0, <1>6 DEF StartFlatten, Become, IdleJob, Threads
  <2> QED BY <1>1, <2>1, <2>2 DEF ExitReasons
<1>7. CASE FailStep
  <2>1. job'[u] \in {job[u], IdleJob}
    BY <1>0, <1>7 DEF FailStep, Crash, JobDies, Become
  <2> QED BY <1>1, <2>1 DEF IdleJob, Selling
<1>8. CASE MarketStep \/ StopStep \/ SetKillSwitch \/ UNCHANGED vars
  BY <1>1, <1>8 DEF MarketStep, ResolveEntry, ResolveExit, ResolveClose, StopStep, TriggerStop, LoseStop,
                    SetKillSwitch, vars
<1> QED BY <1>2, <1>3, <1>4, <1>5, <1>6, <1>7, <1>8 DEF Next

LEMMA WhyInit == Init => WhyInv
BY DEF Init, WhyInv, IdleJob, Selling

-----------------------------------------------------------------------------
(* What is closed is gone. *)

FlatInv ==
  /\ ClosedMeansFlat
  /\ \A n \in Trades :
       /\ orders[EntryId(n)].filled > 0 => n <= owner
       /\ Unresolved(n) => n + 1 = next
  /\ \A t \in Threads : job[t].pc \in {"history", "close"} => Held(job[t].tr) = 0
  /\ ~At("main", "boot_position") => \A n \in job["main"].todo : Held(n) = 0
  /\ \A o \in ExitIds :
       /\ orders[o].status = "none" => orders[o].filled = 0
       /\ o[1] = owner => /\ orders[o].status = "new" => pos <= orders[o].qty
                          /\ orders[o].filled > 0 => pos = 0
  /\ \A t \in Threads : At(t, "sell") /\ job[t].tr = owner => pos <= job[t].qty

(* No read of the position fails, none of its orders fills in part, and no     *)
(* entry is left unresolved.                                                  *)
Reliable == {"slow", "partial", "query"} \cap Faults = {}

LEMMA HeldMoves ==
  ASSUME TypeInv, BookInv, [Next]_vars, ~\E n \in Trades : ResolveEntry(n)
  PROVE  /\ pos' \in Nat /\ pos' <= pos /\ owner' = owner
         /\ \A n : Held(n) = 0 => Held(n)' = 0
<1>1. pos' \in Nat /\ pos' <= pos /\ owner' = owner /\ pos \in Nat
  BY PosMoves DEF TypeInv, TypeOK
<1> QED BY <1>1 DEF Held

LEMMA PositionRead ==
  ASSUME Reliable, TypeInv, NEW q, PositionQty(q)
  PROVE  q = pos
BY DEF Reliable, PositionQty, Fault

(* A trade is at "history" or "close" only when its units are gone. *)
LEMMA HistoryArrives ==
  ASSUME Reliable, TypeInv, BookInv, PhaseInv, FlatInv, [Next]_vars, NEW t \in Threads,
         job'[t].pc = "history", job'[t] # job[t]
  PROVE  Held(job'[t].tr) = 0
<1> DEFINE j == job[t]
           k == job'[t]
<1>0. job \in [Threads -> Job] /\ j \in Job /\ pos \in Nat
  BY DEF TypeInv, TypeOK
<1>1. CASE t = "mon" /\ CheckPosition
  <2>1. PICK q \in {0, pos} :
          /\ PositionQty(q)
          /\ Become(t, [j EXCEPT !.pc = MonitorPlan(j, q),
                                 !.qty = IF MonitorPlan(j, q) = "replace" THEN q ELSE 0,
                                 !.why = IF MonitorPlan(j, q) = "exit" THEN "KILL_SWITCH" ELSE "none"])
    BY <1>1, Zenon DEF CheckPosition
  <2> DEFINE plan == MonitorPlan(j, q)
             qty == IF plan = "replace" THEN q ELSE 0
             why == IF plan = "exit" THEN "KILL_SWITCH" ELSE "none"
  <2>2. k = [j EXCEPT !.pc = plan, !.qty = qty, !.why = why]
    BY <1>0, <2>1 DEF Become
  <2>3. q \in Nat /\ (plan = "history" => q = 0)
    BY <1>0, <2>1 DEF MonitorPlan
  <2> HIDE DEF plan, qty, why
  <2>4. k.pc = plan
    BY <1>0, <2>2 DEF Job
  <2> QED BY <2>1, <2>3, <2>4, PositionRead DEF Held
<1>2. CASE t = "main" /\ k.tr \in j.todo
  <2>1. CASE ~At("main", "boot_position")
    BY <1>2, <2>1 DEF FlatInv
  <2>2. CASE At("main", "boot_position")
    <3>1. ASSUME NEW u \in Threads, SharedStep(u) PROVE FALSE
      <4>1. u # "main" /\ job'["main"] = job["main"]
        <5>1. CASE u = "main"
          BY <2>2, <3>1, <5>1
             DEF SharedStep, StopPlaced, StopRefused, MarkProtected, BeginReplace, BeginExit,
                 CancelStop, ReadExitQty, ExitAccepted, ExitRefused, AwaitExit, MarkUnsold, History,
                 MarkClosed, At
        <5>2. CASE u # "main"
          BY <1>2, <3>1, <5>2, SharedFrame
        <5> QED BY <5>1, <5>2
      <4> QED BY <1>2, <4>1
    <3>2. CASE BootStep
      <4>1. BootPosition
        BY <2>2, <3>2 DEF BootStep, Boot, BootPosition, AdoptNewest, FlattenOrphan, Sweep,
                          StartScheduler, CanStart, At
      <4>2. PICK q : /\ PositionQty(q)
                     /\ Become("main",
                          CASE BootPlan(j.todo, q) = "adopt" ->
                                 [j EXCEPT !.pc = "adopt", !.tr = Last(j.todo),
                                           !.todo = j.todo \ {Last(j.todo)}, !.qty = q]
                            [] BootPlan(j.todo, q) = "close_all" -> NextTrade("main")
                            [] OTHER -> [j EXCEPT !.pc = BootPlan(j.todo, q)])
        BY <1>2, <4>1, Zenon DEF BootPosition
      <4>3. q = pos
        BY <4>2, PositionRead
      <4>4. ASSUME q # 0 PROVE FALSE
        <5>1. BootPlan(j.todo, q) = "adopt"
          BY <1>0, <1>2, <4>3, <4>4 DEF BootPlan
        <5>2. k = [j EXCEPT !.pc = "adopt", !.tr = Last(j.todo),
                            !.todo = j.todo \ {Last(j.todo)}, !.qty = q]
          BY <1>0, <1>2, <4>2, <5>1 DEF Become
        <5>3. k.pc = "adopt"
          BY <1>0, <5>2 DEF Job
        <5> QED BY <5>3
      <4> QED BY <4>3, <4>4 DEF Held
    <3>3. CASE ~BootStep /\ ~\E u \in Threads : SharedStep(u)
      <4>1. job'["main"] \in {job["main"], IdleJob}
        <5>1. OpenStep \/ MonitorStep \/ StartFlatten \/ MarketStep \/ StopStep \/ FailStep
                \/ SetKillSwitch \/ UNCHANGED vars
          BY <3>3 DEF Next
        <5>2. CASE OpenStep
          BY <1>0, <5>2 DEF OpenStep, SubmitEntry, AwaitEntry, Become, Threads
        <5>3. CASE MonitorStep
          BY <5>3, MonitorFrame DEF Threads
        <5>4. CASE StartFlatten
          BY <1>0, <5>4 DEF StartFlatten, Become, Threads
        <5>5. CASE FailStep
          BY <1>0, <5>5 DEF FailStep, Crash, JobDies, Become, Threads
        <5>6. CASE MarketStep \/ StopStep \/ SetKillSwitch \/ UNCHANGED vars
          BY <5>6 DEF MarketStep, ResolveEntry, ResolveExit, ResolveClose, StopStep, TriggerStop, LoseStop,
                      SetKillSwitch, vars
        <5> QED BY <5>1, <5>2, <5>3, <5>4, <5>5, <5>6
      <4> QED BY <1>2, <4>1 DEF IdleJob
    <3> QED BY <3>1, <3>2, <3>3
  <2> QED BY <2>1, <2>2
<1>3. ~(t = "tick" /\ SubmitEntry)
  BY <1>0 DEF SubmitEntry, Become, IdleJob
<1>4. k # IdleJob
  BY DEF IdleJob
<1> QED BY <1>1, <1>2, <1>3, <1>4, NextMovesAll DEF Moves, Arrives

LEMMA CloseArrives ==
  ASSUME Reliable, TypeInv, PhaseInv, TagInv, CoverInv, WhyInv, FlatInv, [Next]_vars,
         NEW t \in Threads, job'[t].pc = "close", job'[t] # job[t]
  PROVE  Held(job'[t].tr) = 0
<1> DEFINE j == job[t]
           k == job'[t]
<1>0. job \in [Threads -> Job] /\ j \in Job /\ pos \in Nat
  BY DEF TypeInv, TypeOK
<1>1. CASE t = "mon" /\ CheckStop
  <2>1. \/ /\ StatusOf(j.seen[j.tr]) = "filled"
           /\ Become(t, [j EXCEPT !.pc = "close", !.why = "SL"])
        \/ \E ok : Become(t, [j EXCEPT !.pc = "position", !.stop_ok = ok])
    BY <1>1, Zenon DEF CheckStop
  <2>2. \A ok : [j EXCEPT !.pc = "position", !.stop_ok = ok].pc = "position"
    BY <1>0 DEF Job
  <2>3. StatusOf(j.seen[j.tr]) = "filled" /\ k = [j EXCEPT !.pc = "close", !.why = "SL"]
    BY <1>0, <2>1, <2>2 DEF Become
  <2>4. k.tr = j.tr /\ j.tr \in Trades
    BY <1>0, <1>1, <2>3 DEF CheckStop, At, TypeInv, BoundJob, Unbound, Job
  <2>5. /\ j.seen[j.tr] \in StopIds /\ j.seen[j.tr][1] = j.tr
        /\ orders[j.seen[j.tr]].status = "filled"
    BY <2>3, <2>4 DEF TagInv, OwnStop, StatusOf
  <2> QED BY <2>4, <2>5 DEF CoverInv, Held
<1>2. CASE AwaitExit(t)
  <2> DEFINE o == ExitId(j.tr, j.why)
  <2>1. At(t, "fill") /\ (Goto(t, "close") \/ Goto(t, "unsold")) /\ (Goto(t, "close") => orders[o].filled > 0)
    BY <1>2, GotoMoves DEF AwaitExit, ExitOutcome
  <2>2. orders[o].filled > 0 /\ k.tr = j.tr
    BY <2>1, GotoMoves
  <2>3. o \in ExitIds /\ o[1] = j.tr
    BY <2>1 DEF WhyInv, Selling, At, TypeInv, BoundJob, Unbound, ExitId, ExitIds
  <2> QED BY <2>2, <2>3 DEF FlatInv, Held
<1>3. CASE History(t)
  <2>1. PICK why : Become(t, [j EXCEPT !.pc = "close", !.why = why])
    BY <1>3, Zenon DEF History
  <2>2. k = [j EXCEPT !.pc = "close", !.why = why]
    BY <1>0, <2>1 DEF Become
  <2>3. k.tr = j.tr
    BY <1>0, <2>2 DEF Job
  <2>4. j.pc = "history"
    BY <1>3 DEF History, At
  <2> QED BY <2>3, <2>4 DEF FlatInv
<1>4. ~(t = "tick" /\ SubmitEntry)
  BY <1>0 DEF SubmitEntry, Become, IdleJob
<1>5. k # IdleJob
  BY DEF IdleJob
<1> QED BY <1>1, <1>2, <1>3, <1>4, <1>5, NextMovesAll DEF Moves, Arrives

LEMMA TodoShared ==
  ASSUME TypeInv, NEW t \in Threads, SharedStep(t)
  PROVE  job'[t].todo \subseteq job[t].todo
<1> DEFINE j == job[t]
           k == job'[t]
<1>0. job \in [Threads -> Job] /\ j \in Job
  BY DEF TypeInv, TypeOK
<1>a. \A i : Become(t, i) => k = i
  BY <1>0 DEF Become
<1>b. /\ IdleJob.todo = {} /\ NextTrade(t).todo \subseteq j.todo
  BY NextTradeMove DEF IdleJob
<1>1. CASE StopPlaced(t) \/ CancelStop(t) \/ ExitAccepted(t) \/ ExitRefused(t) \/ AwaitExit(t)
  <2>1. \E label : Goto(t, label)
    BY <1>1, Zenon DEF StopPlaced, CancelStop, ExitAccepted, ExitRefused, AwaitExit
  <2> QED BY <2>1, GotoMoves
<1>2. CASE MarkProtected(t) \/ MarkUnsold(t) \/ MarkClosed(t)
  <2>1. Become(t, IdleJob) \/ Become(t, [j EXCEPT !.pc = "decide"]) \/ Become(t, NextTrade(t))
    BY <1>2, Zenon DEF MarkProtected, MarkUnsold, MarkClosed, WriteRow, WriteAborted, WriteDone
  <2>2. [j EXCEPT !.pc = "decide"].todo = j.todo
    BY <1>0 DEF Job
  <2> QED BY <1>a, <1>b, <2>1, <2>2
<1>3. CASE BeginReplace(t) \/ BeginExit(t)
  <2>1. \/ Become(t, IdleJob) \/ Become(t, [j EXCEPT !.pc = "place", !.attempt = 1])
        \/ \E label : Become(t, [j EXCEPT !.pc = label])
    BY <1>3, Zenon DEF BeginReplace, BeginExit, WriteRow, WriteAborted, WriteDone
  <2>2. /\ [j EXCEPT !.pc = "place", !.attempt = 1].todo = j.todo
        /\ \A label : [j EXCEPT !.pc = label].todo = j.todo
    BY <1>0 DEF Job
  <2> QED BY <1>a, <1>b, <2>1, <2>2
<1>4. CASE ReadExitQty(t) \/ History(t)
  <2>1. \/ \E q : Become(t, [j EXCEPT !.pc = "sell", !.qty = q])
        \/ \E why : Become(t, [j EXCEPT !.pc = "close", !.why = why])
    BY <1>4, Zenon DEF ReadExitQty, History
  <2>2. /\ \A q : [j EXCEPT !.pc = "sell", !.qty = q].todo = j.todo
        /\ \A why : [j EXCEPT !.pc = "close", !.why = why].todo = j.todo
    BY <1>0 DEF Job
  <2> QED BY <1>a, <2>1, <2>2
<1>5. CASE StopRefused(t)
  <2>1. \/ Become(t, [j EXCEPT !.attempt = j.attempt + 1])
        \/ \E seen : Become(t, [j EXCEPT !.pc = "exit", !.why = "UNPROTECTED", !.seen = seen])
    BY <1>5, Zenon DEF StopRefused
  <2>2. /\ [j EXCEPT !.attempt = j.attempt + 1].todo = j.todo
        /\ \A seen : [j EXCEPT !.pc = "exit", !.why = "UNPROTECTED", !.seen = seen].todo = j.todo
    BY <1>0 DEF Job
  <2> QED BY <1>a, <2>1, <2>2
<1> QED BY <1>1, <1>2, <1>3, <1>4, <1>5 DEF SharedStep

(* The rows the boot has still to close are older than the one that is held. *)
LEMMA TodoFlat ==
  ASSUME Reliable, TypeInv, PhaseInv, RowInv, FlatInv, [Next]_vars,
         job'["main"].pc # "boot_position", NEW n \in job'["main"].todo
  PROVE  Held(n) = 0
<1> DEFINE t == "main"
           j == job[t]
           k == job'[t]
<1>0. job \in [Threads -> Job] /\ j \in Job /\ t \in Threads /\ pos \in Nat
  BY DEF TypeInv, TypeOK, Threads
<1>a. \A i : Become(t, i) => k = i
  BY <1>0 DEF Become
<1>1. CASE k.todo \subseteq j.todo /\ ~At(t, "boot_position")
  BY <1>1 DEF FlatInv
<1>2. CASE k = j
  BY <1>1, <1>2 DEF At
<1>3. CASE k = IdleJob
  BY <1>3 DEF IdleJob
<1>4. ASSUME NEW u \in Threads, SharedStep(u) PROVE Held(n) = 0
  <2>1. CASE u = t
    <3>1. ~At(t, "boot_position")
      BY <1>4, <2>1
         DEF SharedStep, StopPlaced, StopRefused, MarkProtected, BeginReplace, BeginExit,
             CancelStop, ReadExitQty, ExitAccepted, ExitRefused, AwaitExit, MarkUnsold, History,
             MarkClosed, At
    <3> QED BY <1>1, <1>4, <2>1, <3>1, TodoShared
  <2>2. CASE u # t
    BY <1>0, <1>2, <1>4, <2>2, SharedFrame
  <2> QED BY <2>1, <2>2
<1>5. CASE BootStep
  <2>1. CASE Boot
    <3>1. k.pc = "boot_position"
      BY <1>a, <2>1 DEF Boot, IdleJob
    <3> QED BY <3>1
  <2>2. CASE AdoptNewest \/ FlattenOrphan \/ Sweep
    <3>1. Become(t, NextTrade(t)) \/ \E label : Goto(t, label)
      BY <2>2 DEF AdoptNewest, FlattenOrphan, Sweep
    <3>2. k.todo \subseteq j.todo
      <4>1. NextTrade(t).todo \subseteq j.todo
        BY <1>0, NextTradeMove DEF IdleJob
      <4> QED BY <1>0, <1>a, <3>1, <4>1, GotoMoves
    <3>3. ~At(t, "boot_position")
      BY <2>2 DEF AdoptNewest, FlattenOrphan, Sweep, At
    <3> QED BY <1>1, <3>2, <3>3
  <2>3. CASE BootPosition
    <3>1. PICK q : /\ PositionQty(q)
                   /\ Become("main",
                        CASE BootPlan(j.todo, q) = "adopt" ->
                               [j EXCEPT !.pc = "adopt", !.tr = Last(j.todo),
                                         !.todo = j.todo \ {Last(j.todo)}, !.qty = q]
                          [] BootPlan(j.todo, q) = "close_all" -> NextTrade("main")
                          [] OTHER -> [j EXCEPT !.pc = BootPlan(j.todo, q)])
      BY <2>3, Zenon DEF BootPosition
    <3>2. q = pos
      BY <3>1, PositionRead
    <3>3. CASE q = 0
      BY <3>2, <3>3 DEF Held
    <3>4. CASE q > 0 /\ j.todo # {}
      <4>1. k = [j EXCEPT !.pc = "adopt", !.tr = Last(j.todo),
                          !.todo = j.todo \ {Last(j.todo)}, !.qty = q]
        <5>1. BootPlan(j.todo, q) = "adopt"
          BY <3>4 DEF BootPlan
        <5> QED BY <1>a, <3>1, <5>1
      <4>2. k.todo = j.todo \ {Last(j.todo)}
        BY <1>0, <4>1 DEF Job
      <4>3. j.todo \in SUBSET Trades
        BY <1>0 DEF Job
      <4>4. Last(j.todo) \in j.todo /\ n <= Last(j.todo) /\ n # Last(j.todo)
        BY <3>4, <4>2, <4>3, LastIn
      <4>5. Rowed(Last(j.todo))
        BY <1>0, <2>3, <4>4 DEF RowInv, BootPosition, InHand, At
      <4>6. Last(j.todo) <= owner
        BY <4>3, <4>4, <4>5 DEF RowInv, FlatInv
      <4>7. n # owner
        <5>1. owner \in Nat /\ n \in Nat /\ Last(j.todo) \in Nat
          BY <4>2, <4>3, <4>4, ConstantsAssumption DEF TypeInv, TypeOK, Trades
        <5> QED BY <4>4, <4>6, <5>1
      <4> QED BY <4>7 DEF Held
    <3>5. CASE q > 0 /\ j.todo = {}
      <4>1. k = [j EXCEPT !.pc = "orphan"]
        <5>1. BootPlan(j.todo, q) = "orphan"
          BY <3>5 DEF BootPlan
        <5> QED BY <1>a, <3>1, <5>1
      <4>2. k.todo = j.todo
        BY <1>0, <4>1 DEF Job
      <4> QED BY <3>5, <4>2
    <3> QED BY <1>0, <3>2, <3>3, <3>4, <3>5
  <2>4. CASE StartScheduler
    BY <1>3, <1>a, <2>4 DEF StartScheduler
  <2> QED BY <1>5, <2>1, <2>2, <2>3, <2>4 DEF BootStep
<1>6. CASE ~BootStep /\ ~\E u \in Threads : SharedStep(u)
  <2>1. OpenStep \/ MonitorStep \/ StartFlatten \/ MarketStep \/ StopStep \/ FailStep
          \/ SetKillSwitch \/ UNCHANGED vars
    BY <1>6 DEF Next
  <2>2. CASE OpenStep
    BY <1>0, <1>2, <2>2 DEF OpenStep, SubmitEntry, AwaitEntry, Become
  <2>3. CASE MonitorStep
    BY <1>0, <1>2, <2>3, MonitorFrame
  <2>4. CASE StartFlatten
    BY <1>0, <1>2, <2>4 DEF StartFlatten, Become
  <2>5. CASE FailStep
    BY <1>0, <1>2, <1>3, <2>5 DEF FailStep, Crash, JobDies, Become
  <2>6. CASE MarketStep \/ StopStep \/ SetKillSwitch \/ UNCHANGED vars
    BY <1>2, <2>6 DEF MarketStep, ResolveEntry, ResolveExit, ResolveClose, StopStep, TriggerStop, LoseStop,
                      SetKillSwitch, vars
  <2> QED BY <2>1, <2>2, <2>3, <2>4, <2>5, <2>6
<1> QED BY <1>4, <1>5, <1>6

LEMMA SellArrives ==
  ASSUME Reliable, TypeInv, PhaseInv, [Next]_vars, NEW t \in Threads,
         job'[t].pc = "sell", job'[t] # job[t]
  PROVE  pos <= job'[t].qty
<1> DEFINE j == job[t]
           k == job'[t]
<1>0. job \in [Threads -> Job] /\ j \in Job /\ pos \in Nat
  BY DEF TypeInv, TypeOK
<1>1. ReadExitQty(t)
  <2>1. ~(t = "tick" /\ SubmitEntry)
    BY <1>0 DEF SubmitEntry, Become, IdleJob
  <2>2. k # IdleJob
    BY DEF IdleJob
  <2> QED BY <2>1, <2>2, NextMovesAll DEF Moves, Arrives
<1>2. PICK q : /\ PositionQty(q)
               /\ Become(t, [j EXCEPT !.pc = "sell",
                                      !.qty = IF q > 0 THEN q ELSE trades[j.tr].units])
  BY <1>1, Zenon DEF ReadExitQty
<1>3. j.tr \in Trades
  BY <1>1 DEF ReadExitQty, At, TypeInv, BoundJob, Unbound
<1>4. trades[j.tr] \in TradeRow
  BY <1>3 DEF TypeInv, TypeOK
<1>5. trades[j.tr].units \in Nat
  BY <1>4 DEF TradeRow
<1> DEFINE qty == IF q > 0 THEN q ELSE trades[j.tr].units
<1>6. q = pos
  BY <1>2, PositionRead
<1>7. pos <= qty
  BY <1>0, <1>5, <1>6
<1>8. k = [j EXCEPT !.pc = "sell", !.qty = qty]
  BY <1>0, <1>2 DEF Become
<1> HIDE DEF qty
<1>9. k.qty = qty
  BY <1>0, <1>8 DEF Job
<1> QED BY <1>7, <1>9

LEMMA FlatBuys ==
  ASSUME TypeInv, BookInv, RowInv, TagInv, FlatInv, NEW n \in Trades, ResolveEntry(n)
  PROVE  FlatInv'
<1> DEFINE e == EntryId(n)
<1>0. /\ \A m \in Trades : m \in Nat /\ (m # n => EntryId(m) \in OrderIds /\ EntryId(m) # e)
      /\ \A o \in ExitIds : o \in OrderIds /\ o # e
      /\ \A o \in OrderIds : orders[o].qty \in Nat
      /\ \A t \in Threads : job[t].qty \in Nat
      /\ owner \in Nat /\ n \in Nat
  <2>1. /\ \A t \in Threads : job[t].qty \in Nat
        /\ \A o \in OrderIds : orders[o].qty \in Nat
        /\ owner \in Nat
    <3>1. /\ \A t \in Threads : job[t] \in Job
          /\ \A o \in OrderIds : orders[o] \in Order
          /\ owner \in Trades \cup {0}
      BY DEF TypeInv, TypeOK
    <3>2. owner \in Nat
      BY <3>1, ConstantsAssumption DEF Trades
    <3> QED BY <3>1, <3>2 DEF Job, Order
  <2>2. \A m \in Trades : m \in Nat /\ (m # n => EntryId(m) \in OrderIds /\ EntryId(m) # e)
    <3>1. \A m \in Trades : m \in Nat
      BY ConstantsAssumption DEF Trades
    <3>2. \A m \in Trades : EntryId(m) \in OrderIds /\ (EntryId(m) = e => m = n)
      BY EntryIsNoExit DEF EntryId
    <3> QED BY <3>1, <3>2
  <2> QED BY <2>1, <2>2, EntryIsNoExit, IdsType
<1>1. /\ orders[e].status = "new" /\ orders'[e].status \in {"filled", "canceled"}
      /\ pos = 0 /\ pos' = orders'[e].filled /\ pos' \in Nat
      /\ owner' = IF pos' > 0 THEN n ELSE owner
      /\ UNCHANGED <<job, trades, next>>
      /\ \A o \in OrderIds : o # e => orders'[o] = orders[o]
      /\ ~Rowed(n)
      /\ \A o \in ExitIds : o[1] = n => orders[o].status = "none"
      /\ \A t \in Threads : ~At(t, "entry") => job[t].tr # n /\ n \notin job[t].todo
  BY Bought, ConstantsAssumption
<1>2. \A m : m # n => Held(m)' = 0
  BY <1>1 DEF Held
<1>a. Unresolved(n) <=> orders[e].status = "new"
  BY DEF Unresolved
<1> HIDE DEF e
<1>3. ClosedMeansFlat'
  BY <1>1, <1>2 DEF ClosedMeansFlat, Rowed
<1>4. ASSUME NEW m \in Trades
      PROVE  /\ orders'[EntryId(m)].filled > 0 => m <= owner'
             /\ orders'[EntryId(m)].status = "new" => m + 1 = next'
  <2>1. CASE m = n
    BY <1>0, <1>1, <2>1 DEF e
  <2>2. CASE m # n
    <3>1. orders'[EntryId(m)] = orders[EntryId(m)]
      BY <1>0, <1>1, <2>2
    <3>2. orders'[EntryId(m)].status = "new" => m + 1 = next'
      BY <1>1, <3>1 DEF FlatInv, Unresolved
    <3>3. orders[EntryId(m)].filled > 0 => m <= owner /\ m <= n
      <4>1. n + 1 = next
        BY <1>1, <1>a DEF FlatInv
      <4>2. ASSUME orders[EntryId(m)].filled > 0 PROVE m < next
        <5>1. orders[EntryId(m)].status # "none"
          BY <4>2, EntryIsNoExit DEF RowInv, TypeInv, TypeOK, Order
        <5>2. m >= next => orders[EntryId(m)].status = "none"
          BY DEF RowInv
        <5> QED BY <1>0, <4>1, <5>1, <5>2
      <4> QED BY <1>0, <4>1, <4>2 DEF FlatInv
    <3> QED BY <1>0, <1>1, <3>1, <3>2, <3>3
  <2> QED BY <2>1, <2>2
<1>5. \A t \in Threads : job'[t].pc \in {"history", "close"} => Held(job[t].tr)' = 0
  <2>1. \A t \in Threads : job'[t].pc \in {"history", "close"} => job'[t].tr # n
    BY <1>1 DEF At
  <2> QED BY <1>1, <1>2, <2>1
<1>6. At("main", "boot_position")' \/ \A m \in job'["main"].todo : Held(m)' = 0
  <2>1. ~At("main", "entry") \/ job["main"].todo = {}
    BY DEF RowInv, Threads
  <2>2. n \notin job'["main"].todo
    BY <1>1, <2>1 DEF Threads
  <2> QED BY <1>2, <2>2
<1>7. ASSUME NEW o \in ExitIds
      PROVE  /\ orders'[o].status = "none" => orders'[o].filled = 0
             /\ o[1] = owner' => /\ orders'[o].status = "new" => pos' <= orders'[o].qty
                                 /\ orders'[o].filled > 0 => pos' = 0
  <2>1. orders'[o] = orders[o]
    BY <1>0, <1>1
  <2>2. CASE pos' > 0
    BY <1>0, <1>1, <2>1, <2>2 DEF FlatInv
  <2>3. CASE pos' = 0
    BY <1>0, <2>1, <2>3 DEF FlatInv
  <2> QED BY <1>1, <2>2, <2>3
<1>8. ASSUME NEW t \in Threads, job'[t].pc = "sell", job'[t].tr = owner'
      PROVE  pos' <= job'[t].qty
  BY <1>0, <1>1, <1>8 DEF At
<1> QED BY <1>3, <1>4, <1>5, <1>6, <1>7, <1>8 DEF FlatInv, Unresolved, At

LEMMA FlatNext ==
  ASSUME Reliable, TypeInv, BookInv, PhaseInv, RowInv, TagInv, CoverInv, WhyInv, FlatInv,
         [Next]_vars
  PROVE  FlatInv'
<1>1. ASSUME NEW n \in Trades, ResolveEntry(n) PROVE FlatInv'
  BY <1>1, FlatBuys
<1>2. CASE ~\E n \in Trades : ResolveEntry(n)
  <2>0. /\ trades \in [Trades -> TradeRow] /\ pos \in Nat /\ next \in Nat
        /\ \A n \in Trades : n \in Nat
        /\ \A o \in OrderIds : orders[o] \in Order /\ orders[o].qty \in Nat /\ orders[o].filled \in Nat
        /\ \A t \in Threads : job[t].qty \in Nat
    BY ConstantsAssumption DEF TypeInv, TypeOK, Job, Order, Trades
  <2>1. /\ pos' \in Nat /\ pos' <= pos /\ owner' = owner
        /\ \A n : Held(n) = 0 => Held(n)' = 0
    BY <1>2, HeldMoves
  <2>2. ASSUME NEW n \in Trades, trades'[n].status = "CLOSED" PROVE Held(n)' = 0
    <3>1. CASE trades[n].status = "CLOSED"
      BY <2>1, <3>1 DEF FlatInv, ClosedMeansFlat
    <3>2. ASSUME NEW m \in Trades, NEW row, Inserts(m, row), trades[n].status # "CLOSED" PROVE FALSE
      <4>1. trades' = [trades EXCEPT ![m] = row] /\ row.status = "OPEN_UNPROTECTED"
        BY <3>2 DEF Inserts
      <4> QED BY <2>0, <2>2, <3>2, <4>1
    <3>3. ASSUME NEW m \in Trades, NEW row, NEW t \in Threads, Writes(t, m, row),
                 trades[n].status # "CLOSED"
          PROVE  Held(n)' = 0
      <4>1. trades' = [trades EXCEPT ![m] = row] /\ m = job[t].tr
        BY <3>3 DEF Writes
      <4>2. m = n /\ row.status = "CLOSED"
        BY <2>0, <2>2, <3>3, <4>1
      <4>3. At(t, "close")
        BY <3>3, <4>2 DEF Writes
      <4>4. Held(n) = 0
        BY <4>1, <4>2, <4>3 DEF FlatInv, At
      <4> QED BY <2>1, <4>4
    <3> QED BY <2>2, <3>1, <3>2, <3>3, RowsNext DEF RowMoves
  <2>3. ASSUME NEW n \in Trades
        PROVE  /\ orders'[EntryId(n)].filled > 0 => n <= owner'
               /\ orders'[EntryId(n)].status = "new" => n + 1 = next'
    <3> DEFINE x == orders[EntryId(n)]
               y == orders'[EntryId(n)]
    <3>1. /\ x \in Order
          /\ x.filled > 0 => n <= owner
          /\ x.status = "new" => n + 1 = next
      BY <2>0, EntryIsNoExit DEF FlatInv, Unresolved
    <3>2. CASE SubmitEntry
      <4>1. \A m \in Trades : ~Unresolved(m)
        BY <3>2 DEF SubmitEntry, EntriesSettled, Fault, Unresolved, Reliable
      <4>2. x.status # "new"
        BY <4>1 DEF Unresolved
      <4>3. next' = next + 1 /\ ~Sweep /\ ~ResolveEntry(n)
        BY <2>0, <3>2, <4>2 DEF SubmitEntry, Sweep, ResolveEntry
      <4>4. y = x \/ (n = next /\ y = NewOrder(Units))
        BY <4>3, EntryMoves
      <4>5. NewOrder(Units).filled = 0
        BY DEF NewOrder
      <4> HIDE DEF x, y
      <4>6. y.filled > 0 => n <= owner'
        BY <2>1, <3>1, <4>4, <4>5
      <4>7. y.status = "new" => n + 1 = next'
        BY <4>2, <4>3, <4>4
      <4> QED BY <4>6, <4>7 DEF y
    <3>3. CASE ~SubmitEntry
      <4>1. y = x \/ y = [x EXCEPT !.status = "canceled"]
        BY <1>2, <3>3, EntryMoves
      <4>2. y.filled = x.filled /\ (y.status = "new" => x.status = "new")
        BY <3>1, <4>1 DEF Order
      <4>3. next' = next
        BY <3>3, NextGrows
      <4> QED BY <2>1, <3>1, <4>2, <4>3
    <3> QED BY <3>2, <3>3
  <2>4. ASSUME NEW t \in Threads, job'[t].pc \in {"history", "close"} PROVE Held(job'[t].tr) = 0
    <3>1. CASE job'[t] = job[t]
      BY <2>4, <3>1 DEF FlatInv
    <3> QED BY <2>4, <3>1, HistoryArrives, CloseArrives
  <2>5. ASSUME job'["main"].pc # "boot_position", NEW n \in job'["main"].todo PROVE Held(n) = 0
    BY <2>5, TodoFlat
  <2>6. ASSUME NEW o \in ExitIds
        PROVE  /\ orders'[o].status = "none" => orders'[o].filled = 0
               /\ o[1] = owner' => /\ orders'[o].status = "new" => pos' <= orders'[o].qty
                                   /\ orders'[o].filled > 0 => pos' = 0
    <3> DEFINE x == orders[o]
               y == orders'[o]
               Good == /\ y.status = "none" => y.filled = 0
                       /\ o[1] = owner' => /\ y.status = "new" => pos' <= y.qty
                                           /\ y.filled > 0 => pos' = 0
    <3> SUFFICES Good
      OBVIOUS
    <3>1. /\ x \in Order /\ x.qty \in Nat /\ x.filled \in Nat
          /\ x.status = "none" => x.filled = 0
          /\ o[1] = owner => /\ x.status = "new" => pos <= x.qty
                             /\ x.filled > 0 => pos = 0
      BY <2>0, IdsType DEF FlatInv
    <3>2. CASE y = x
      <4> HIDE DEF x, y
      <4> QED BY <2>0, <2>1, <3>1, <3>2
    <3>3. ASSUME NEW t \in Threads, ExitAccepted(t), o = ExitId(job[t].tr, job[t].why),
                 y = NewOrder(job[t].qty)
          PROVE  Good
      <4>1. y.status = "new" /\ y.qty = job[t].qty /\ y.filled = 0
        BY <3>3 DEF NewOrder
      <4>2. At(t, "sell") /\ o[1] = job[t].tr
        BY <3>3 DEF ExitAccepted, ExitId
      <4>3. o[1] = owner' => pos <= job[t].qty /\ job[t].qty \in Nat
        BY <2>0, <2>1, <4>2 DEF FlatInv
      <4> HIDE DEF y
      <4> QED BY <2>0, <2>1, <4>1, <4>3
    <3>4. CASE y = [x EXCEPT !.status = "canceled"]
      <4>1. y.status = "canceled" /\ y.filled = x.filled
        BY <3>1, <3>4 DEF Order
      <4> HIDE DEF x, y
      <4> QED BY <2>0, <2>1, <3>1, <4>1
    <3>5. CASE ResolveExit(o)
      <4> DEFINE most == IF x.qty <= pos THEN x.qty ELSE pos
      <4>1. /\ x.status = "new" /\ y.status \in {"filled", "canceled"}
            /\ y.filled \in {0, most} /\ pos' = pos - y.filled
        BY <3>5, ExitResolved DEF Reliable
      <4>2. o[1] = owner => most = pos
        BY <2>0, <3>1, <4>1
      <4> HIDE DEF most, x, y
      <4> QED BY <2>0, <2>1, <4>1, <4>2
    <3>6. /\ o \in OrderIds /\ o \notin StopIds
          /\ \A n \in Trades : o # EntryId(n)
          /\ ~(SubmitEntry /\ o = EntryId(next))
          /\ \A t \in Threads : ~(StopPlaced(t) /\ o = Fresh(t))
      <4>1. o \in OrderIds /\ o \notin StopIds /\ \A n \in Trades : o # EntryId(n)
        BY IdsType, EntryIsNoExit
      <4>2. ~(SubmitEntry /\ o = EntryId(next))
        BY <4>1 DEF SubmitEntry
      <4>3. ASSUME NEW t \in Threads, StopPlaced(t) PROVE Fresh(t) \in StopIds
        BY <4>3, FreshType DEF StopPlaced, At, Unbound
      <4> QED BY <4>1, <4>2, <4>3
    <3>7. OrderMoves(o)
      BY <3>6, OrdersNext
    <3> HIDE DEF Good
    <3> QED BY <3>2, <3>3, <3>4, <3>5, <3>6, <3>7 DEF OrderMoves
  <2>7. ASSUME NEW t \in Threads, job'[t].pc = "sell", job'[t].tr = owner'
        PROVE  pos' <= job'[t].qty
    <3>1. CASE job'[t] = job[t]
      BY <2>0, <2>1, <2>7, <3>1 DEF FlatInv, At
    <3>2. CASE job'[t] # job[t]
      <4>1. pos <= job'[t].qty /\ job'[t].qty \in Nat
        BY <2>7, <3>2, SellArrives, TypeNext DEF TypeInv, TypeOK, Job
      <4> QED BY <2>0, <2>1, <4>1
    <3> QED BY <3>1, <3>2
  <2>8. \A t \in Threads : job'[t].pc \in {"history", "close"} => Held(job[t].tr)' = 0
    BY <2>1, <2>4 DEF Held
  <2>9. job'["main"].pc # "boot_position" => \A n \in job'["main"].todo : Held(n)' = 0
    BY <2>1, <2>5
  <2> QED BY <2>2, <2>3, <2>6, <2>7, <2>8, <2>9 DEF FlatInv, ClosedMeansFlat, Unresolved, At
<1> QED BY <1>1, <1>2

LEMMA FlatInit == Init => FlatInv
<1> SUFFICES ASSUME Init PROVE FlatInv
  OBVIOUS
<1>1. \A o \in OrderIds : orders[o].status = "none" /\ orders[o].filled = 0
  BY DEF Init, NoOrder
<1>2. \A n \in Trades : trades[n].status = "NONE" /\ Held(n) = 0
  BY DEF Init, NoTrade, Held
<1>3. \A t \in Threads : job[t].pc = "idle" /\ job[t].todo = {}
  BY DEF Init, IdleJob
<1>4. ClosedMeansFlat
  BY <1>2 DEF ClosedMeansFlat
<1>5. "main" \in Threads
  BY DEF Threads
<1> QED BY <1>1, <1>3, <1>4, <1>5, EntryIsNoExit, IdsType DEF FlatInv, Unresolved, At

LEMMA AlwaysFlat ==
  ASSUME Reliable
  PROVE  Spec => [](TypeInv /\ BookInv /\ PhaseInv /\ RowInv /\ TagInv /\ FreshInv /\ CoverInv
                      /\ WhyInv /\ FlatInv)
<1>1. TypeInv /\ BookInv /\ [Next]_vars => BookInv'
  BY BookNext DEF Reliable
<1>2. /\ TypeInv /\ PhaseInv /\ [Next]_vars => PhaseInv'
      /\ TypeInv /\ PhaseInv /\ RowInv /\ [Next]_vars => RowInv'
      /\ TypeInv /\ PhaseInv /\ RowInv /\ TagInv /\ FreshInv /\ [Next]_vars => TagInv'
      /\ TypeInv /\ PhaseInv /\ TagInv /\ FreshInv /\ [Next]_vars => FreshInv'
  BY PhaseNext, RowNext, TagNext, FreshNext
<1>3. TypeInv /\ BookInv /\ PhaseInv /\ RowInv /\ TagInv /\ CoverInv /\ [Next]_vars => CoverInv'
  BY CoverNext
<1>4. TypeInv /\ PhaseInv /\ WhyInv /\ [Next]_vars => WhyInv'
  BY WhyNext
<1>5. TypeInv /\ BookInv /\ PhaseInv /\ RowInv /\ TagInv /\ CoverInv /\ WhyInv /\ FlatInv
        /\ [Next]_vars => FlatInv'
  BY FlatNext
<1> QED
  BY <1>1, <1>2, <1>3, <1>4, <1>5, TypeInit, TypeNext, PhaseInit, RowInit, StopsInit,
     BookInit, CoverInit, WhyInit, FlatInit, PTL DEF Spec

(* A row is closed only when its units are gone, on each of the paths that lead *)
(* to _finalize: the stop's fill, the history, the exit's fill, the exit that *)
(* finds nothing to sell, the boot.  Each works on a row and a quantity read   *)
(* earlier, while other threads sell.  Without Reliable it is false: a failed  *)
(* read of the position counts as none, an exit that filled in part closes    *)
(* the row over the rest, and so does what fills after the entry was polled.  *)
THEOREM ClosedIsFlat ==
  ASSUME Reliable
  PROVE  Spec => []ClosedMeansFlat
<1>1. FlatInv => ClosedMeansFlat
  BY DEF FlatInv
<1> QED BY <1>1, AlwaysFlat, PTL

-----------------------------------------------------------------------------
(* The refinement: a step changes the rows or the broker, not both; what changes *)
(* at the broker buys or reduces, what changes in the rows records or closes. *)

LEMMA RowsOrBroker ==
  ASSUME [Next]_vars
  PROVE  UNCHANGED trades \/ UNCHANGED <<orders, pos, owner>>
<1>1. ASSUME NEW t \in Threads, SharedStep(t)
      PROVE  UNCHANGED trades \/ UNCHANGED <<orders, pos, owner>>
  <2>1. CASE StopPlaced(t) \/ CancelStop(t) \/ ExitAccepted(t)
    BY <2>1 DEF StopPlaced, CancelStop, ExitAccepted
  <2>2. CASE \/ StopRefused(t) \/ MarkProtected(t) \/ BeginReplace(t) \/ BeginExit(t)
             \/ ReadExitQty(t) \/ ExitRefused(t) \/ AwaitExit(t) \/ MarkUnsold(t)
             \/ History(t) \/ MarkClosed(t)
    <3>1. UNCHANGED broker
      BY <2>2, Zenon
         DEF StopRefused, MarkProtected, BeginReplace, BeginExit, ReadExitQty, ExitRefused,
             AwaitExit, MarkUnsold, History, MarkClosed, broker
    <3> QED BY <3>1 DEF broker
  <2> QED BY <1>1, <2>1, <2>2 DEF SharedStep
<1>2. CASE OpenStep \/ StartFlatten \/ MarketStep \/ StopStep \/ FailStep \/ SetKillSwitch
           \/ UNCHANGED vars
  BY <1>2 DEF OpenStep, SubmitEntry, AwaitEntry, StartFlatten, MarketStep, ResolveEntry,
              ResolveExit, ResolveClose, StopStep, TriggerStop, LoseStop, FailStep, Crash,
              JobDies, SetKillSwitch, vars, broker
<1>3. CASE MonitorStep \/ BootStep
  BY <1>3 DEF MonitorStep, StartMonitor, CheckStop, CheckPosition, Decide, BootStep, Boot,
              BootPosition, AdoptNewest, FlattenOrphan, Sweep, StartScheduler
<1> QED BY <1>1, <1>2, <1>3 DEF Next

(* Only a resolved entry buys. *)
LEMMA BoughtMoves ==
  ASSUME TypeInv, RowInv, [Next]_vars, NEW n \in Trades, ~ResolveEntry(n)
  PROVE  orders'[EntryId(n)].filled = orders[EntryId(n)].filled
<1> DEFINE x == orders[EntryId(n)]
           y == orders'[EntryId(n)]
<1>1. x \in Order
  BY EntryIsNoExit DEF TypeInv, TypeOK
<1>2. CASE y = [x EXCEPT !.status = "canceled"]
  BY <1>1, <1>2 DEF Order
<1>3. CASE SubmitEntry /\ n = next /\ y = NewOrder(Units)
  <2>1. y.filled = 0
    BY <1>3 DEF NewOrder
  <2>2. n >= next
    BY <1>3, ConstantsAssumption DEF Trades
  <2>3. x.filled = 0
    BY <2>2 DEF RowInv
  <2> QED BY <2>1, <2>3
<1> QED BY <1>2, <1>3, EntryMoves

BookState(n) == <<orders[EntryId(n)].filled, Held(n), RowOf(n)>>

LEMMA BookStutters ==
  (\A n \in Trades : UNCHANGED BookState(n)) => UNCHANGED Book!vars
BY DEF BookState, Book!vars

LEMMA BookBuys ==
  ASSUME TypeInv, BookInv, RowInv, TagInv, NEW n \in Trades, ResolveEntry(n)
  PROVE  [Book!Next]_Book!vars
<1> DEFINE e == EntryId(n)
<1>1. /\ orders[e].filled = 0 /\ pos = 0 /\ pos' = orders'[e].filled /\ pos' \in 0..Units
      /\ owner' = IF pos' > 0 THEN n ELSE owner
      /\ UNCHANGED trades
      /\ \A o \in OrderIds : o # e => orders'[o] = orders[o]
      /\ ~Rowed(n)
  BY Bought
<1>2. \A m \in Trades : m # n => orders'[EntryId(m)].filled = orders[EntryId(m)].filled
  BY <1>1, EntryIsNoExit DEF EntryId
<1>3. \A m \in Trades : Held(m) = 0 /\ (m # n => Held(m)' = 0) /\ RowOf(m)' = RowOf(m)
  BY <1>1 DEF Held, RowOf
<1> HIDE DEF e
<1>4. CASE pos' = 0
  <2>1. \A m \in Trades : Held(m)' = 0
    BY <1>4 DEF Held
  <2>2. orders'[e].filled = orders[e].filled
    BY <1>1, <1>4
  <2>3. \A m \in Trades : orders'[EntryId(m)].filled = orders[EntryId(m)].filled
    BY <1>2, <2>2 DEF e
  <2>4. \A m \in Trades : UNCHANGED BookState(m)
    BY <1>3, <2>1, <2>3 DEF BookState
  <2> QED BY <2>4, BookStutters
<1>5. CASE pos' > 0
  <2> DEFINE bought == [m \in Trades |-> orders[EntryId(m)].filled]
             held == [m \in Trades |-> Held(m)]
             row == [m \in Trades |-> RowOf(m)]
  <2>1. pos' \in 1..Units
    BY <1>1, <1>5, ConstantsAssumption
  <2>2. bought' = [bought EXCEPT ![n] = pos']
    BY <1>1, <1>2 DEF e
  <2>3. held' = [held EXCEPT ![n] = pos']
    <3>1. Held(n)' = pos'
      BY <1>1, <1>5 DEF Held
    <3> QED BY <1>3, <3>1
  <2>4. row' = row /\ row[n] = "none"
    BY <1>1, <1>3 DEF RowOf, Rowed
  <2>5. bought[n] = 0 /\ \A m \in Trades : held[m] = 0
    BY <1>1, <1>3 DEF e
  <2>6. Book!Buy(n)
    BY <2>1, <2>2, <2>3, <2>4, <2>5 DEF Book!Buy
  <2> QED BY <2>6 DEF Book!Next
<1>6. pos' = 0 \/ pos' > 0
  BY <1>1, ConstantsAssumption
<1> QED BY <1>4, <1>5, <1>6

LEMMA BookSells ==
  ASSUME TypeInv, BookInv, RowInv, CoverInv, [Next]_vars, UNCHANGED trades,
         ~\E n \in Trades : ResolveEntry(n)
  PROVE  [Book!Next]_Book!vars
<1> DEFINE bought == [m \in Trades |-> orders[EntryId(m)].filled]
           held == [m \in Trades |-> Held(m)]
           row == [m \in Trades |-> RowOf(m)]
<1>1. pos' \in Nat /\ pos' <= pos /\ owner' = owner /\ pos \in Nat /\ owner \in Trades \cup {0}
  BY PosMoves DEF TypeInv, TypeOK
<1>2. bought' = bought
  BY BoughtMoves
<1>3. row' = row
  BY DEF RowOf
<1>4. CASE pos' = pos
  <2>1. held' = held
    BY <1>1, <1>4 DEF Held
  <2> QED BY <1>2, <1>3, <2>1 DEF Book!vars
<1>5. CASE pos' < pos
  <2>1. owner \in Trades
    BY <1>1, <1>5 DEF CoverInv
  <2>2. held[owner] = pos /\ held' = [held EXCEPT ![owner] = pos']
    BY <1>1, <2>1 DEF Held
  <2>3. pos' \in 0..(held[owner] - 1)
    BY <1>1, <1>5, <2>2
  <2>4. Book!Reduce(owner)
    BY <1>2, <1>3, <2>2, <2>3 DEF Book!Reduce
  <2> QED BY <2>1, <2>4 DEF Book!Next
<1> QED BY <1>1, <1>4, <1>5

LEMMA BookRecords ==
  ASSUME TypeInv, RowInv, NEW n \in Trades, NEW r, Inserts(n, r), UNCHANGED <<orders, pos, owner>>
  PROVE  Book!Next
<1> DEFINE bought == [m \in Trades |-> orders[EntryId(m)].filled]
           held == [m \in Trades |-> Held(m)]
           row == [m \in Trades |-> RowOf(m)]
<1>0. trades \in [Trades -> TradeRow]
  BY DEF TypeInv, TypeOK
<1>1. bought' = bought /\ held' = held
  BY DEF Held
<1>2. bought[n] > 0
  BY DEF Inserts
<1>3. row[n] = "none"
  BY DEF Inserts, AwaitEntry, RowInv, Rowed, RowOf, Threads
<1>4. trades' = [trades EXCEPT ![n] = r] /\ r.status = "OPEN_UNPROTECTED"
  BY DEF Inserts
<1>5. row' = [row EXCEPT ![n] = "open"]
  BY <1>0, <1>4 DEF RowOf
<1>6. Book!Record(n)
  BY <1>1, <1>2, <1>3, <1>5 DEF Book!Record
<1> QED BY <1>6 DEF Book!Next

LEMMA BookWrites ==
  ASSUME TypeInv, RowInv, FlatInv, NEW n \in Trades, NEW r, NEW t \in Threads, Writes(t, n, r),
         UNCHANGED <<orders, pos, owner>>
  PROVE  [Book!Next]_Book!vars
<1> DEFINE bought == [m \in Trades |-> orders[EntryId(m)].filled]
           held == [m \in Trades |-> Held(m)]
           row == [m \in Trades |-> RowOf(m)]
<1>0. trades \in [Trades -> TradeRow] /\ n # 0
  BY ConstantsAssumption DEF TypeInv, TypeOK, Trades
<1>1. bought' = bought /\ held' = held
  BY DEF Held
<1>2. trades' = [trades EXCEPT ![n] = r]
  BY DEF Writes
<1>3. Rowed(n)
  BY <1>0 DEF Writes, RowInv, InHand
<1>4. CASE trades[n].status = "CLOSED"
  <2>1. trades' = trades
    BY <1>0, <1>2, <1>4 DEF Writes, Immutable
  <2>2. row' = row
    BY <2>1 DEF RowOf
  <2> QED BY <1>1, <2>2 DEF Book!vars
<1>5. CASE trades[n].status # "CLOSED" /\ r.status # "CLOSED"
  <2>1. r.status \notin {"NONE", "CLOSED"}
    BY <1>5 DEF Writes
  <2>2. row' = row
    BY <1>0, <1>2, <1>3, <1>5, <2>1 DEF RowOf, Rowed
  <2> QED BY <1>1, <2>2 DEF Book!vars
<1>6. CASE trades[n].status # "CLOSED" /\ r.status = "CLOSED"
  <2>1. row[n] = "open"
    BY <1>3, <1>6 DEF RowOf, Rowed
  <2>2. held[n] = 0
    BY <1>6 DEF Writes, FlatInv, At
  <2>3. row' = [row EXCEPT ![n] = "closed"]
    BY <1>0, <1>2, <1>6 DEF RowOf
  <2>4. Book!Close(n)
    BY <1>1, <2>1, <2>2, <2>3 DEF Book!Close
  <2> QED BY <2>4 DEF Book!Next
<1> QED BY <1>4, <1>5, <1>6

LEMMA BookInitially == Init => Book!Init
<1> SUFFICES ASSUME Init PROVE Book!Init
  OBVIOUS
<1>1. \A n \in Trades : orders[EntryId(n)].filled = 0 /\ Held(n) = 0 /\ RowOf(n) = "none"
  BY EntryIsNoExit DEF Init, NoOrder, NoTrade, Held, RowOf
<1> QED BY <1>1 DEF Book!Init

LEMMA BookSteps ==
  ASSUME TypeInv, BookInv, RowInv, TagInv, CoverInv, FlatInv, [Next]_vars
  PROVE  [Book!Next]_Book!vars
<1>1. ASSUME NEW n \in Trades, ResolveEntry(n) PROVE [Book!Next]_Book!vars
  BY <1>1, BookBuys
<1>2. CASE UNCHANGED trades /\ ~\E n \in Trades : ResolveEntry(n)
  BY <1>2, BookSells
<1>3. CASE UNCHANGED <<orders, pos, owner>> /\ ~UNCHANGED trades
  <2>1. PICK n \in Trades, r \in TradeRow : Inserts(n, r) \/ \E t \in Threads : Writes(t, n, r)
    BY <1>3, RowsNext DEF RowMoves
  <2>2. CASE Inserts(n, r)
    BY <1>3, <2>2, BookRecords
  <2>3. ASSUME NEW t \in Threads, Writes(t, n, r) PROVE [Book!Next]_Book!vars
    BY <1>3, <2>3, BookWrites
  <2> QED BY <2>1, <2>2, <2>3
<1> QED BY <1>1, <1>2, <1>3, RowsOrBroker

(* The threads, the orders, the stops and the crashes together do what the book  *)
(* says: one position is bought while nothing is held, recorded, reduced,     *)
(* closed in the book once it is gone, and not touched again.  Crashes, dying *)
(* jobs, refused and lost stops and the kill switch are all included.         *)
THEOREM ImplementsBook ==
  ASSUME Reliable
  PROVE  Spec => RefinesBook
<1>1. TypeInv /\ BookInv /\ RowInv /\ TagInv /\ CoverInv /\ FlatInv /\ [Next]_vars
        => [Book!Next]_Book!vars
  BY BookSteps
<1> QED BY <1>1, AlwaysFlat, BookInitially, PTL DEF Spec, RefinesBook, Book!Spec

-----------------------------------------------------------------------------
(* The order that is to flatten an orphan is for all that was bought, and while *)
(* it rests there is no open row, and the scheduler does not run: the boot    *)
(* that sends it sweeps it away before it is done.                            *)
Booting == {"idle", "boot_position", "orphan", "sweep"}
CloseInv ==
  /\ closing \in {0, Units}
  /\ closing # 0 =>
       /\ open_trades = {}
       /\ proc # "up"
       /\ job["main"].pc \in Booting
       /\ At("main", "boot_position") => job["main"].todo = {}

(* Nothing is bought or sold by halves, unless the broker fills in part.       *)

SaleIds == StopIds \cup ExitIds

UnitInv ==
  /\ pos \in {0, Units}
  /\ \A n \in Trades : /\ orders[EntryId(n)].filled \in {0, Units}
                       /\ Rowed(n) => trades[n].units = Units
  /\ \A o \in SaleIds :
       /\ orders[o].status # "none" => orders[o].qty = Units
       /\ orders[o].filled = 0 \/ (orders[o].filled = Units /\ orders[o].status = "filled")
  /\ \A t \in Threads : job[t].pc \in Sizing \cup {"sell"} => job[t].qty = Units

(* What one step does to a stop or an exit.                                    *)
LEMMA SaleMoves ==
  ASSUME TypeInv, [Next]_vars, NEW o \in SaleIds
  PROVE  LET x == orders[o]
             y == orders'[o]
         IN \/ y = x
            \/ \E t \in Threads : /\ job[t].pc \in {"place", "sell"}
                                  /\ x.status = "none" /\ y = NewOrder(job[t].qty)
            \/ \E status \in {"canceled", "expired"} :
                 Working(o) /\ y = [x EXCEPT !.status = status]
            \/ o \in ExitIds /\ ResolveExit(o)
            \/ o \in StopIds /\ TriggerStop(o)
<1>1. o \in OrderIds /\ \A n \in Trades : o # EntryId(n)
  BY IdsType, EntryIsNoExit DEF SaleIds
<1>2. OrderMoves(o)
  BY <1>1, OrdersNext
<1>3. /\ \A t \in Threads : StopPlaced(t) => job[t].pc = "place"
      /\ \A t \in Threads : ExitAccepted(t) => job[t].pc = "sell"
      /\ SubmitEntry => next \in Trades
      /\ LoseStop(o) => Working(o)
  BY DEF StopPlaced, ExitAccepted, SubmitEntry, LoseStop, At
<1> QED BY <1>1, <1>2, <1>3 DEF OrderMoves

(* What one step does to the position. *)
LEMMA PosSteps ==
  ASSUME [Next]_vars
  PROVE  \/ UNCHANGED <<pos, owner>>
         \/ ResolveClose
         \/ \E n \in Trades : ResolveEntry(n)
         \/ \E o \in ExitIds : ResolveExit(o)
         \/ \E o \in StopIds : TriggerStop(o)
<1>1. ASSUME NEW t \in Threads, SharedStep(t) PROVE UNCHANGED <<pos, owner>>
  <2>1. CASE StopPlaced(t) \/ StopRefused(t) \/ MarkProtected(t) \/ BeginReplace(t) \/ BeginExit(t)
             \/ CancelStop(t) \/ ReadExitQty(t)
    BY <2>1 DEF StopPlaced, StopRefused, MarkProtected, BeginReplace, BeginExit, CancelStop,
                ReadExitQty, broker
  <2>2. CASE ExitAccepted(t) \/ ExitRefused(t) \/ AwaitExit(t) \/ MarkUnsold(t) \/ History(t)
             \/ MarkClosed(t)
    BY <2>2 DEF ExitAccepted, ExitRefused, AwaitExit, MarkUnsold, History, MarkClosed, broker
  <2> QED BY <1>1, <2>1, <2>2 DEF SharedStep
<1>2. CASE OpenStep \/ MonitorStep \/ StartFlatten \/ FailStep \/ SetKillSwitch \/ UNCHANGED vars
  BY <1>2
     DEF OpenStep, SubmitEntry, AwaitEntry, MonitorStep, StartMonitor, CheckStop, CheckPosition,
         Decide, StartFlatten, FailStep, Crash, JobDies, SetKillSwitch, vars, broker
<1>3. CASE BootStep
  BY <1>3 DEF BootStep, Boot, BootPosition, AdoptNewest, FlattenOrphan, Sweep, StartScheduler,
              broker
<1>4. CASE MarketStep
  BY <1>4 DEF MarketStep
<1>5. ASSUME NEW o \in StopIds, LoseStop(o) PROVE UNCHANGED <<pos, owner>>
  BY <1>5 DEF LoseStop
<1> QED BY <1>1, <1>2, <1>3, <1>4, <1>5 DEF Next, StopStep

LEMMA UnitSale ==
  ASSUME Reliable, TypeInv, UnitInv, [Next]_vars, NEW o \in SaleIds
  PROVE  LET x == orders[o]
             y == orders'[o]
         IN /\ y.status # "none" => y.qty = Units
            /\ y.filled = 0 \/ (y.filled = Units /\ y.status = "filled")
            /\ x.filled > 0 => y.filled > 0
            /\ y.filled > 0 => x.status # "none"
<1> DEFINE x == orders[o]
           y == orders'[o]
           Good == /\ y.status # "none" => y.qty = Units
                   /\ y.filled = 0 \/ (y.filled = Units /\ y.status = "filled")
                   /\ x.filled > 0 => y.filled > 0
                   /\ y.filled > 0 => x.status # "none"
<1> SUFFICES Good
  OBVIOUS
<1>0. /\ x \in Order /\ x.qty \in Nat /\ x.filled \in Nat /\ pos \in {0, Units}
      /\ Units \in Nat /\ Units > 0
  BY IdsType, ConstantsAssumption DEF TypeInv, TypeOK, Order, SaleIds, UnitInv
<1>1. /\ x.status # "none" => x.qty = Units
      /\ x.filled = 0 \/ (x.filled = Units /\ x.status = "filled")
  BY DEF UnitInv
<1>2. CASE y = x
  <2> HIDE DEF x, y
  <2> QED BY <1>0, <1>1, <1>2
<1>3. ASSUME NEW t \in Threads, job[t].pc \in {"place", "sell"}, x.status = "none",
             y = NewOrder(job[t].qty)
      PROVE  y.qty = Units /\ y.filled = 0 /\ x.filled = 0
  <2>1. y.qty = job[t].qty /\ y.filled = 0
    BY <1>3 DEF NewOrder
  <2>2. job[t].qty = Units
    BY <1>3 DEF UnitInv, Sizing
  <2> HIDE DEF x, y
  <2> QED BY <1>1, <1>3, <2>1, <2>2
<1>4. ASSUME NEW status \in {"canceled", "expired"}, Working(o), y = [x EXCEPT !.status = status]
      PROVE  y.qty = Units /\ y.filled = 0 /\ x.filled = 0
  <2>1. x.status \in {"new", "partially_filled"}
    BY <1>4, IdsType DEF Working, StatusOf, SaleIds
  <2>2. y.qty = x.qty /\ y.filled = x.filled
    BY <1>0, <1>4 DEF Order
  <2> HIDE DEF x, y
  <2> QED BY <1>1, <2>1, <2>2
<1>5. CASE o \in ExitIds /\ ResolveExit(o)
  <2> DEFINE most == IF x.qty <= pos THEN x.qty ELSE pos
  <2>1. /\ x.status = "new" /\ y.qty = x.qty /\ y.filled \in {0, most}
        /\ y.status = (IF y.filled = x.qty THEN "filled" ELSE "canceled")
    BY <1>5, ExitResolved DEF Reliable
  <2>2. x.filled = 0 /\ x.qty = Units
    BY <1>1, <2>1
  <2>3. most \in {0, Units}
    BY <1>0, <2>2
  <2> HIDE DEF x, y, most
  <2> QED BY <1>0, <2>1, <2>2, <2>3
<1>6. CASE o \in StopIds /\ TriggerStop(o)
  <2> DEFINE left == x.qty - x.filled
             most == IF left <= pos THEN left ELSE pos
  <2>1. PICK q : /\ y.status = IF q = left THEN "filled" ELSE "partially_filled"
                 /\ y.qty = x.qty /\ y.filled = x.filled + q
                 /\ q = most
    BY <1>6, StopTriggered DEF Reliable
  <2>2. x.status \in {"new", "partially_filled"} /\ pos > 0
    BY <1>6, StopTriggered, IdsType DEF Working, StatusOf
  <2>3. x.filled = 0 /\ x.qty = Units /\ pos = Units
    BY <1>0, <1>1, <2>2
  <2>4. left = Units /\ most = Units
    BY <1>0, <2>3
  <2> HIDE DEF x, y, left, most
  <2> QED BY <1>0, <2>1, <2>2, <2>3, <2>4
<1>7. \/ y = x
      \/ \E t \in Threads : /\ job[t].pc \in {"place", "sell"}
                            /\ x.status = "none" /\ y = NewOrder(job[t].qty)
      \/ \E status \in {"canceled", "expired"} : Working(o) /\ y = [x EXCEPT !.status = status]
      \/ o \in ExitIds /\ ResolveExit(o)
      \/ o \in StopIds /\ TriggerStop(o)
  BY SaleMoves
<1>8. CASE y.qty = Units /\ y.filled = 0 /\ x.filled = 0
  BY <1>8
<1> HIDE DEF Good
<1> QED BY <1>2, <1>3, <1>4, <1>5, <1>6, <1>7, <1>8

(* A sale sells all there is. *)
LEMMA SaleEmpties ==
  ASSUME Reliable, TypeInv, UnitInv, NEW o \in SaleIds,
         (o \in ExitIds /\ ResolveExit(o)) \/ (o \in StopIds /\ TriggerStop(o))
  PROVE  /\ pos' = pos \/ (pos' = 0 /\ orders'[o].filled > 0)
         /\ orders[o].filled = 0 /\ orders[o].status # "none"
         /\ owner' = owner
<1> DEFINE x == orders[o]
           y == orders'[o]
<1>0. /\ x \in Order /\ x.qty \in Nat /\ x.filled \in Nat /\ pos \in {0, Units}
      /\ Units \in Nat /\ Units > 0
  BY IdsType, ConstantsAssumption DEF TypeInv, TypeOK, Order, SaleIds, UnitInv
<1>1. /\ x.status # "none" => x.qty = Units
      /\ x.filled = 0 \/ (x.filled = Units /\ x.status = "filled")
  BY DEF UnitInv
<1> DEFINE Goal == /\ pos' = pos \/ (pos' = 0 /\ y.filled > 0)
                   /\ x.filled = 0 /\ x.status # "none"
                   /\ owner' = owner
<1> SUFFICES Goal
  OBVIOUS
<1>2. CASE o \in ExitIds /\ ResolveExit(o)
  <2> DEFINE most == IF x.qty <= pos THEN x.qty ELSE pos
  <2>1. /\ x.status = "new" /\ y.filled \in {0, most} /\ pos' = pos - y.filled
        /\ owner' = owner
    BY <1>2, ExitResolved DEF Reliable
  <2>2. x.filled = 0 /\ x.qty = Units
    BY <1>1, <2>1
  <2>3. most = pos
    BY <1>0, <2>2
  <2> HIDE DEF x, y, most
  <2> QED BY <1>0, <2>1, <2>2, <2>3
<1>3. CASE o \in StopIds /\ TriggerStop(o)
  <2> DEFINE left == x.qty - x.filled
             most == IF left <= pos THEN left ELSE pos
  <2>1. PICK q : y.filled = x.filled + q /\ pos' = pos - q /\ q = most
    BY <1>3, StopTriggered DEF Reliable
  <2>2. x.status \in {"new", "partially_filled"} /\ pos > 0 /\ owner' = owner
    BY <1>3, StopTriggered, IdsType DEF Working, StatusOf
  <2>3. x.filled = 0 /\ x.qty = Units /\ pos = Units
    BY <1>0, <1>1, <2>2
  <2>4. most = Units
    BY <1>0, <2>3
  <2> HIDE DEF x, y, left, most
  <2> QED BY <1>0, <2>1, <2>2, <2>3, <2>4
<1> HIDE DEF Goal
<1> QED BY <1>2, <1>3

LEMMA UnitBought ==
  ASSUME Reliable, TypeInv, BookInv, RowInv, UnitInv, CloseInv, [Next]_vars
  PROVE  /\ pos' \in {0, Units}
         /\ \A n \in Trades : orders'[EntryId(n)].filled \in {0, Units}
<1>0. pos \in {0, Units} /\ Units \in Nat /\ Units > 0
  BY ConstantsAssumption DEF UnitInv
<1>1. ASSUME NEW n \in Trades, ResolveEntry(n)
      PROVE  pos' \in {0, Units} /\ orders'[EntryId(n)].filled \in {0, Units}
  <2> DEFINE x == orders[EntryId(n)]
             y == orders'[EntryId(n)]
  <2>1. /\ x.status = "new" /\ y.filled \in {0, x.qty} /\ pos' = pos + y.filled
    BY <1>1, EntryResolved DEF Reliable
  <2>2. pos = 0 /\ x.qty = Units
    BY <2>1 DEF BookInv, Unresolved
  <2> HIDE DEF x, y
  <2>3. pos' \in {0, Units} /\ y.filled \in {0, Units}
    BY <1>0, <2>1, <2>2
  <2> QED BY <2>3 DEF y
<1>2. pos' \in {0, Units}
  <2>1. CASE ResolveClose
    <3> DEFINE most == IF closing <= pos THEN closing ELSE pos
    <3>1. pos' \in {pos, pos - most} /\ closing = Units
      BY <2>1 DEF ResolveClose, CloseInv, Fault, Reliable
    <3>2. most \in {0, Units} /\ pos - most \in {0, Units}
      BY <1>0, <3>1
    <3> HIDE DEF most
    <3> QED BY <1>0, <3>1, <3>2
  <2>2. ASSUME NEW o \in SaleIds,
               (o \in ExitIds /\ ResolveExit(o)) \/ (o \in StopIds /\ TriggerStop(o))
        PROVE  pos' \in {0, Units}
    BY <1>0, <2>2, SaleEmpties
  <2> QED BY <1>0, <1>1, <2>1, <2>2, PosSteps DEF SaleIds
<1>3. ASSUME NEW n \in Trades, ~ResolveEntry(n) PROVE orders'[EntryId(n)].filled \in {0, Units}
  BY <1>3, BoughtMoves DEF UnitInv
<1> QED BY <1>1, <1>2, <1>3

LEMMA UnitRows ==
  ASSUME TypeInv, PhaseInv, RowInv, UnitInv, [Next]_vars, NEW n \in Trades, Rowed(n)'
  PROVE  trades'[n].units = Units
<1>0. trades \in [Trades -> TradeRow]
  BY DEF TypeInv, TypeOK
<1>1. ASSUME NEW m \in Trades, NEW row, Inserts(m, row) PROVE trades'[n].units = Units
  <2>1. trades' = [trades EXCEPT ![m] = row]
    BY <1>1 DEF Inserts
  <2>2. CASE m = n
    <3>1. row.units = orders[EntryId(n)].filled /\ orders[EntryId(n)].filled > 0
      BY <1>1, <2>2 DEF Inserts
    <3>2. row.units = Units
      BY <3>1 DEF UnitInv
    <3> QED BY <1>0, <2>1, <2>2, <3>2
  <2>3. CASE m # n
    <3>1. trades'[n] = trades[n]
      BY <1>0, <2>1, <2>3
    <3> QED BY <3>1 DEF UnitInv, Rowed
  <2> QED BY <2>2, <2>3
<1>2. ASSUME NEW m \in Trades, NEW row, NEW t \in Threads, Writes(t, m, row)
      PROVE  trades'[n].units = Units
  <2>1. trades' = [trades EXCEPT ![m] = row] /\ row.units = trades[m].units
    BY <1>2 DEF Writes
  <2>2. trades'[n].units = trades[n].units
    BY <1>0, <2>1
  <2>3. Rowed(n)
    <3>1. CASE m = n
      <4>1. n # 0 /\ n = job[t].tr /\ ~At(t, "entry")
        BY <1>2, <3>1, ConstantsAssumption DEF Writes, Trades
      <4> QED BY <4>1 DEF RowInv, InHand
    <3>2. CASE m # n
      <4>1. trades'[n] = trades[n]
        BY <1>0, <2>1, <3>2
      <4> QED BY <4>1 DEF Rowed
    <3> QED BY <3>1, <3>2
  <2> QED BY <2>2, <2>3 DEF UnitInv
<1>3. CASE UNCHANGED trades
  BY <1>3 DEF UnitInv, Rowed
<1> QED BY <1>1, <1>2, <1>3, RowsNext DEF RowMoves

LEMMA UnitJobs ==
  ASSUME Reliable, TypeInv, PhaseInv, RowInv, UnitInv, [Next]_vars, NEW t \in Threads,
         job'[t].pc \in Sizing \cup {"sell"}
  PROVE  job'[t].qty = Units
<1> DEFINE j == job[t]
           k == job'[t]
<1>0. /\ job \in [Threads -> Job] /\ j \in Job /\ pos \in {0, Units}
      /\ Units \in Nat /\ Units > 0
  BY ConstantsAssumption DEF TypeInv, TypeOK, UnitInv
<1>1. CASE k.pc \in Sizing
  <2>1. CASE j.pc \in Sizing /\ k.qty = j.qty
    BY <2>1 DEF UnitInv
  <2>2. CASE k.tr \in Trades /\ k.qty = orders[EntryId(k.tr)].filled /\ k.qty > 0
    BY <2>2 DEF UnitInv
  <2>3. CASE k.qty = pos /\ k.qty > 0
    BY <1>0, <2>3
  <2> QED BY <1>1, <2>1, <2>2, <2>3, SizeMoves
<1>2. CASE k.pc = "sell" /\ k = j
  BY <1>2 DEF UnitInv
<1>3. CASE k.pc = "sell" /\ k # j
  <2>1. ReadExitQty(t)
    <3>1. ~(t = "tick" /\ SubmitEntry)
      BY <1>0, <1>3 DEF SubmitEntry, Become, IdleJob
    <3>2. k # IdleJob
      BY <1>3 DEF IdleJob
    <3> QED BY <1>3, <3>1, <3>2, NextMovesAll DEF Moves, Arrives
  <2>2. PICK q : /\ PositionQty(q)
                 /\ Become(t, [j EXCEPT !.pc = "sell",
                                        !.qty = IF q > 0 THEN q ELSE trades[j.tr].units])
    BY <2>1, Zenon DEF ReadExitQty
  <2>3. j.tr \in Trades /\ j.tr # 0 /\ ~At(t, "entry")
    BY <2>1, ConstantsAssumption DEF ReadExitQty, At, TypeInv, BoundJob, Unbound, Trades
  <2>4. trades[j.tr].units = Units
    BY <2>3 DEF RowInv, InHand, UnitInv
  <2>5. q = pos
    BY <2>2, PositionRead
  <2> DEFINE qty == IF q > 0 THEN q ELSE trades[j.tr].units
  <2>6. qty = Units
    BY <1>0, <2>4, <2>5
  <2>7. k = [j EXCEPT !.pc = "sell", !.qty = qty]
    BY <1>0, <2>2 DEF Become
  <2> HIDE DEF qty
  <2>8. k.qty = qty
    BY <1>0, <2>7 DEF Job
  <2> QED BY <2>6, <2>8
<1> QED BY <1>1, <1>2, <1>3

LEMMA UnitNext ==
  ASSUME Reliable, TypeInv, BookInv, PhaseInv, RowInv, UnitInv, CloseInv, [Next]_vars
  PROVE  UnitInv'
<1>1. ASSUME NEW o \in SaleIds
      PROVE  /\ orders'[o].status # "none" => orders'[o].qty = Units
             /\ orders'[o].filled = 0 \/ (orders'[o].filled = Units /\ orders'[o].status = "filled")
  BY UnitSale
<1>2. \A n \in Trades : Rowed(n)' => trades'[n].units = Units
  BY UnitRows
<1>3. \A t \in Threads : job'[t].pc \in Sizing \cup {"sell"} => job'[t].qty = Units
  BY UnitJobs
<1> QED BY <1>1, <1>2, <1>3, UnitBought DEF UnitInv

LEMMA UnitInit == Init => UnitInv
<1> SUFFICES ASSUME Init PROVE UnitInv
  OBVIOUS
<1>1. \A o \in OrderIds : orders[o].status = "none" /\ orders[o].filled = 0
  BY DEF Init, NoOrder
<1>2. \A n \in Trades : ~Rowed(n)
  BY DEF Init, NoTrade, Rowed
<1>3. \A t \in Threads : job[t].pc = "idle"
  BY DEF Init, IdleJob
<1>4. \A n \in Trades : EntryId(n) \in OrderIds
  BY EntryIsNoExit
<1> QED BY <1>1, <1>2, <1>3, <1>4, IdsType DEF UnitInv, SaleIds, Sizing, Init

-----------------------------------------------------------------------------
(* What the boot takes for an orphan has no open row: no row is opened beside  *)
(* the boot.                                                                  *)

OrphanInv ==
  /\ At("main", "boot_position") => open_trades \subseteq job["main"].todo
  /\ At("main", "orphan") => open_trades = {}

LEMMA OpenRowsShrink ==
  ASSUME TypeInv, RowInv, [Next]_vars, ~At("tick", "entry")
  PROVE  open_trades' \subseteq open_trades
<1>0. trades \in [Trades -> TradeRow]
  BY DEF TypeInv, TypeOK
<1> SUFFICES ASSUME NEW n \in Trades, trades'[n].status \notin {"NONE", "CLOSED"}
             PROVE  trades[n].status \notin {"NONE", "CLOSED"}
  BY DEF open_trades
<1>1. ASSUME NEW m \in Trades, NEW row, Inserts(m, row) PROVE FALSE
  BY <1>1 DEF Inserts, AwaitEntry
<1>2. ASSUME NEW m \in Trades, NEW row, NEW t \in Threads, Writes(t, m, row)
      PROVE  trades[n].status \notin {"NONE", "CLOSED"}
  <2>1. trades' = [trades EXCEPT ![m] = row] /\ (Immutable(m) => row = trades[m])
    BY <1>2 DEF Writes
  <2>2. CASE m = n
    <3>1. trades'[n] = row
      BY <1>0, <2>1, <2>2
    <3>2. n # 0 /\ n = job[t].tr /\ ~At(t, "entry")
      BY <1>2, <2>2, ConstantsAssumption DEF Writes, Trades
    <3>3. Rowed(n)
      BY <3>2 DEF RowInv, InHand
    <3> QED BY <2>1, <2>2, <3>1, <3>3 DEF Rowed, Immutable
  <2>3. CASE m # n
    <3>1. trades'[n] = trades[n]
      BY <1>0, <2>1, <2>3
    <3> QED BY <3>1
  <2> QED BY <2>2, <2>3
<1>3. CASE UNCHANGED trades
  BY <1>3
<1> QED BY <1>1, <1>2, <1>3, RowsNext DEF RowMoves

LEMMA OrphanNext ==
  ASSUME TypeInv, PhaseInv, RowInv, OrphanInv, [Next]_vars
  PROVE  OrphanInv'
<1> DEFINE j == job["main"]
           k == job'["main"]
<1>0. job \in [Threads -> Job] /\ j \in Job /\ "main" \in Threads
  BY DEF TypeInv, TypeOK, Threads
<1>a. \A i : Become("main", i) => k = i
  BY <1>0 DEF Become
<1> SUFFICES ASSUME k.pc \in {"boot_position", "orphan"}
             PROVE  /\ k.pc = "boot_position" => open_trades' \subseteq k.todo
                    /\ k.pc = "orphan" => open_trades' = {}
  BY DEF OrphanInv, At
<1>1. CASE k = j
  <2>1. open_trades' \subseteq open_trades
    BY <1>1, OpenRowsShrink DEF PhaseInv, At
  <2> QED BY <1>1, <2>1 DEF OrphanInv, At
<1>2. CASE Boot /\ k.pc = "boot_position"
  <2>1. /\ k = [IdleJob EXCEPT !.pc = "boot_position", !.todo = open_trades, !.seen = OpenStops]
        /\ UNCHANGED trades
    BY <1>a, <1>2, Zenon DEF Boot
  <2>2. k.todo = open_trades /\ open_trades' = open_trades
    BY <2>1 DEF IdleJob, open_trades
  <2> QED BY <1>2, <2>2
<1>3. CASE BootPosition /\ k.pc = "orphan"
  <2>1. j.pc = "boot_position" /\ UNCHANGED trades
    BY <1>3 DEF BootPosition, At
  <2>2. j.todo = {}
    <3> DEFINE Adopt(q) == [j EXCEPT !.pc = "adopt", !.tr = Last(j.todo),
                                     !.todo = j.todo \ {Last(j.todo)}, !.qty = q]
    <3>1. PICK q : \/ k = Adopt(q)
                   \/ k = NextTrade("main")
                   \/ k = [j EXCEPT !.pc = BootPlan(j.todo, q)]
      <4> HIDE DEF Adopt
      <4> QED BY <1>3, <1>a, Zenon DEF BootPosition, Adopt
    <3>2. Adopt(q).pc = "adopt" /\ [j EXCEPT !.pc = BootPlan(j.todo, q)].pc = BootPlan(j.todo, q)
      BY <1>0 DEF Job
    <3>3. NextTrade("main").pc # "orphan"
      BY <1>0, NextTradeMove DEF IdleJob
    <3>4. BootPlan(j.todo, q) = "orphan"
      BY <1>3, <3>1, <3>2, <3>3
    <3> QED BY <3>4 DEF BootPlan
  <2>3. open_trades = {} /\ open_trades' = open_trades
    BY <2>1, <2>2 DEF OrphanInv, At, open_trades
  <2> QED BY <1>3, <2>3
<1>4. k # IdleJob /\ ~("main" = "tick" /\ SubmitEntry)
  BY DEF IdleJob
<1>5. k.pc = "boot_position" => Boot \/ k = j
  BY <1>0, <1>4, NextMovesAll DEF Moves, Arrives
<1>6. k.pc = "orphan" => BootPosition \/ k = j
  BY <1>0, <1>4, NextMovesAll DEF Moves, Arrives
<1> QED BY <1>1, <1>2, <1>3, <1>5, <1>6

LEMMA OrphanInit == Init => OrphanInv
BY DEF Init, OrphanInv, IdleJob, At, Threads

(* CloseInv is kept: the order that flattens an orphan does not outlive the boot. *)
LEMMA CloseMoves ==
  ASSUME Reliable, [Next]_vars
  PROVE  closing' \in {0, closing} \/ FlattenOrphan
<1>1. ASSUME NEW t \in Threads, SharedStep(t) PROVE closing' = closing
  <2>1. CASE StopPlaced(t) \/ StopRefused(t) \/ MarkProtected(t) \/ BeginReplace(t) \/ BeginExit(t)
             \/ CancelStop(t) \/ ReadExitQty(t)
    BY <2>1 DEF StopPlaced, StopRefused, MarkProtected, BeginReplace, BeginExit, CancelStop,
                ReadExitQty, broker
  <2>2. CASE ExitAccepted(t) \/ ExitRefused(t) \/ AwaitExit(t) \/ MarkUnsold(t) \/ History(t)
             \/ MarkClosed(t)
    BY <2>2 DEF ExitAccepted, ExitRefused, AwaitExit, MarkUnsold, History, MarkClosed, broker
  <2> QED BY <1>1, <2>1, <2>2 DEF SharedStep
<1>2. CASE OpenStep \/ MonitorStep \/ StartFlatten \/ FailStep \/ SetKillSwitch \/ UNCHANGED vars
  BY <1>2
     DEF OpenStep, SubmitEntry, AwaitEntry, MonitorStep, StartMonitor, CheckStop, CheckPosition,
         Decide, StartFlatten, FailStep, Crash, JobDies, SetKillSwitch, vars, broker
<1>3. CASE BootStep
  BY <1>3 DEF BootStep, Boot, BootPosition, AdoptNewest, Sweep, StartScheduler, broker
<1>4. CASE MarketStep \/ StopStep
  BY <1>4 DEF MarketStep, ResolveEntry, ResolveExit, ResolveClose, StopStep, TriggerStop, LoseStop
<1> QED BY <1>1, <1>2, <1>3, <1>4 DEF Next

LEMMA SweepCloses ==
  ASSUME Reliable, Sweep
  PROVE  closing' = 0
BY DEF Reliable, Sweep, Fault

(* While it rests, the boot reads an empty table, sends no other and sweeps.    *)
LEMMA BootGoesOn ==
  ASSUME Reliable, TypeInv, PhaseInv, CloseInv, [Next]_vars, closing # 0, closing' # 0
  PROVE  /\ proc' # "up"
         /\ job'["main"].pc \in Booting
         /\ job'["main"].pc = "boot_position" => job'["main"].todo = {}
<1> DEFINE j == job["main"]
           k == job'["main"]
           Goal == /\ proc' # "up"
                   /\ k.pc \in Booting
                   /\ k.pc = "boot_position" => k.todo = {}
<1> SUFFICES Goal
  OBVIOUS
<1>0. job \in [Threads -> Job] /\ j \in Job /\ {"main", "tick", "mon", "cli"} = Threads
  BY DEF TypeInv, TypeOK, Threads
<1>a. \A i : Become("main", i) => k = i
  BY <1>0 DEF Become
<1>b. \A label : Goto("main", label) => k.pc = label
  BY <1>0 DEF Goto, Job
<1>c. /\ open_trades = {} /\ proc # "up" /\ j.pc \in Booting
      /\ j.pc = "boot_position" => j.todo = {}
  BY DEF CloseInv, At
<1>d. job["tick"].pc = "idle" /\ job["mon"].pc = "idle"
  BY <1>c DEF PhaseInv
<1>1. CASE UNCHANGED job /\ UNCHANGED proc
  BY <1>1, <1>c
<1>2. CASE proc' # "up" /\ k \in {j, IdleJob}
  BY <1>2, <1>c DEF IdleJob, Booting
<1>3. CASE OpenStep \/ MonitorStep
  BY <1>3, <1>c, <1>d, MonitorFrame DEF OpenStep, SubmitEntry, AwaitEntry, At
<1>4. CASE Boot
  <2>1. k = [IdleJob EXCEPT !.pc = "boot_position", !.todo = open_trades, !.seen = OpenStops]
        /\ proc' = "boot"
    BY <1>a, <1>4, Zenon DEF Boot
  <2> QED BY <2>1, <1>c DEF IdleJob, Booting
<1>5. CASE BootPosition
  <2>1. j.pc = "boot_position" /\ UNCHANGED proc
    BY <1>5 DEF BootPosition, At
  <2>2. \E q : k = [j EXCEPT !.pc = BootPlan({}, q)] /\ BootPlan({}, q) \in {"orphan", "sweep"}
    <3>1. \A q : BootPlan({}, q) \in {"orphan", "sweep"}
      BY DEF BootPlan
    <3>2. j.todo = {}
      BY <1>c, <2>1
    <3>3. PICK q : Become("main",
                     CASE BootPlan({}, q) = "adopt" ->
                            [j EXCEPT !.pc = "adopt", !.tr = Last({}),
                                      !.todo = {} \ {Last({})}, !.qty = q]
                       [] BootPlan({}, q) = "close_all" -> NextTrade("main")
                       [] OTHER -> [j EXCEPT !.pc = BootPlan({}, q)])
      BY <1>5, <3>2 DEF BootPosition
    <3>4. BootPlan({}, q) # "adopt" /\ BootPlan({}, q) # "close_all"
      BY <3>1
    <3> QED BY <1>a, <3>1, <3>3, <3>4
  <2>3. k.pc \in {"orphan", "sweep"}
    BY <1>0, <2>2 DEF Job
  <2> QED BY <1>c, <2>1, <2>3 DEF Booting
<1>6. CASE AdoptNewest \/ StartScheduler
  BY <1>6, <1>c DEF AdoptNewest, StartScheduler, At, Booting
<1>7. CASE FlattenOrphan
  BY <1>7, <1>b, <1>c DEF FlattenOrphan, Booting
<1>8. CASE Sweep
  BY <1>8, SweepCloses
<1>9. CASE StartFlatten
  BY <1>9, <1>c DEF StartFlatten
<1>10. ASSUME NEW t \in Threads, SharedStep(t) PROVE Goal
  <2>1. t # "main"
    <3>1. SharedStep("main") => j.pc \notin Booting
      BY DEF SharedStep, StopPlaced, StopRefused, MarkProtected, BeginReplace, BeginExit,
             CancelStop, ReadExitQty, ExitAccepted, ExitRefused, AwaitExit, MarkUnsold, History,
             MarkClosed, At, Booting
    <3> QED BY <1>10, <1>c, <3>1
  <2>2. k = j /\ proc' = proc
    BY <1>0, <1>10, <2>1, SharedFrame
  <2> QED BY <1>c, <2>2
<1>11. CASE MarketStep \/ StopStep \/ SetKillSwitch \/ UNCHANGED vars
  BY <1>1, <1>11 DEF MarketStep, ResolveEntry, ResolveExit, ResolveClose, StopStep, TriggerStop,
                     LoseStop, SetKillSwitch, vars
<1>12. CASE FailStep
  <2>1. proc' # "up" /\ k \in {j, IdleJob}
    BY <1>0, <1>12, <1>c DEF FailStep, Crash, JobDies, Become
  <2> QED BY <1>2, <2>1
<1> HIDE DEF Goal
<1> QED BY <1>3, <1>4, <1>5, <1>6, <1>7, <1>8, <1>9, <1>10, <1>11, <1>12 DEF Next, BootStep

LEMMA CloseNext ==
  ASSUME Reliable, TypeInv, PhaseInv, RowInv, UnitInv, OrphanInv, CloseInv, [Next]_vars
  PROVE  CloseInv'
<1>0. job \in [Threads -> Job] /\ "main" \in Threads
  BY DEF TypeInv, TypeOK, Threads
<1>1. CASE closing' = 0
  BY <1>1 DEF CloseInv
<1>2. CASE FlattenOrphan /\ closing = 0
  <2>1. /\ At("main", "orphan") /\ UNCHANGED <<trades, proc, pos>> /\ closing' \in {0, pos}
        /\ Goto("main", "sweep")
    BY <1>2 DEF FlattenOrphan
  <2>2. open_trades = {} /\ open_trades' = open_trades /\ proc # "up"
    BY <2>1 DEF OrphanInv, open_trades, PhaseInv, At
  <2>3. job'["main"].pc = "sweep"
    BY <1>0, <2>1 DEF Goto, Job
  <2> QED BY <2>1, <2>2, <2>3 DEF CloseInv, UnitInv, Booting, At
<1>3. CASE closing # 0 /\ closing' = closing /\ closing' # 0
  <2>1. ~At("tick", "entry")
    BY <1>3 DEF CloseInv, PhaseInv, At
  <2>2. open_trades' = {}
    BY <1>3, <2>1, OpenRowsShrink DEF CloseInv
  <2> QED BY <1>3, <2>2, BootGoesOn DEF CloseInv, At
<1>4. FlattenOrphan /\ closing # 0 => closing' = closing
  BY DEF FlattenOrphan
<1> QED BY <1>1, <1>2, <1>3, <1>4, CloseMoves

LEMMA CloseInit == Init => CloseInv
BY DEF Init, CloseInv

-----------------------------------------------------------------------------
(* As long as no trade sells twice, each sells what it bought: an order of      *)
(* another trade is an order of an older one, which then had sold already.    *)

OwnSale(n) == \E o \in SaleIds : o[1] = n /\ orders[o].filled > 0
Opening(n) == At("tick", "entry") /\ job["tick"].tr = n

OwnInv ==
  SoldOnce => \A n \in Trades :
    /\ orders[EntryId(n)].filled > 0 /\ Held(n) = 0
    /\ Rowed(n) \/ Opening(n)
    => OwnSale(n)

LEMMA SoldGrows ==
  ASSUME Reliable, TypeInv, UnitInv, [Next]_vars
  PROVE  /\ SoldOnce' => SoldOnce
         /\ \A n \in Trades : OwnSale(n) => OwnSale(n)'
<1>0. \A o \in SaleIds : orders[o].filled \in Nat /\ orders'[o].filled \in Nat
  BY IdsType, TypeNext DEF TypeInv, TypeOK, Order, SaleIds
<1>1. \A o \in SaleIds : orders[o].filled > 0 => orders'[o].filled > 0
  BY UnitSale
<1> QED BY <1>0, <1>1 DEF SoldOnce, Sold, OwnSale, SaleIds

(* The last of what n bought is sold by an order of its own, or a trade sells  *)
(* for the second time.                                                       *)
LEMMA SoldByOwner ==
  ASSUME Reliable, TypeInv, RowInv, TagInv, UnitInv, OwnInv, [Next]_vars, SoldOnce', SoldOnce,
         NEW n \in Trades, n = owner, NEW o \in SaleIds,
         orders[o].filled = 0, orders[o].status # "none", orders'[o].filled > 0
  PROVE  OwnSale(n)'
<1> DEFINE k == o[1]
<1>1. k \in Trades /\ Rowed(k)
  BY IdsType DEF TagInv, SaleIds
<1>2. CASE k = n
  BY <1>2 DEF OwnSale
<1>3. CASE k # n
  <2>1. orders[EntryId(k)].filled > 0 /\ Held(k) = 0
    BY <1>1, <1>3 DEF RowInv, Held
  <2>2. OwnSale(k)
    BY <1>1, <2>1 DEF OwnInv
  <2>3. PICK p \in SaleIds : p[1] = k /\ orders[p].filled > 0
    BY <2>2 DEF OwnSale
  <2>4. orders'[p].filled > 0
    BY <2>3, UnitSale
  <2>5. p = o
    BY <2>3, <2>4 DEF SoldOnce, Sold, SaleIds
  <2>6. orders[p].filled \in Nat
    BY IdsType DEF TypeInv, TypeOK, Order, SaleIds
  <2> QED BY <2>3, <2>5, <2>6
<1> QED BY <1>2, <1>3

(* A trade that has a row, or whose entry is polled, is one of those before.   *)
LEMMA OwnersBefore ==
  ASSUME TypeInv, PhaseInv, RowInv, [Next]_vars, NEW n \in Trades,
         orders'[EntryId(n)].filled > 0, ~ResolveEntry(n), (Rowed(n) \/ Opening(n))'
  PROVE  orders[EntryId(n)].filled > 0 /\ (Rowed(n) \/ Opening(n))
<1>1. orders[EntryId(n)].filled > 0
  BY BoughtMoves
<1>2. CASE Rowed(n)'
  <2>1. Rowed(n) \/ \E row \in TradeRow : Inserts(n, row)
    BY <1>2, RowsGrow
  <2> QED BY <1>1, <2>1 DEF Inserts, AwaitEntry, Opening
<1>3. CASE Opening(n)'
  <2>0. job \in [Threads -> Job] /\ "tick" \in Threads
    BY DEF TypeInv, TypeOK, Threads
  <2>1. job'["tick"].pc = "entry" /\ job'["tick"].tr = n
    BY <1>3 DEF Opening, At
  <2>2. job'["tick"] # IdleJob
    BY <2>1 DEF IdleJob
  <2>3. ASSUME SubmitEntry PROVE FALSE
    <3>1. n = next
      BY <2>0, <2>1, <2>3 DEF SubmitEntry, Become, IdleJob
    <3>2. n >= next
      BY <3>1, ConstantsAssumption DEF Trades
    <3> QED BY <1>1, <3>2 DEF RowInv
  <2>4. job'["tick"] = job["tick"]
    BY <2>0, <2>1, <2>2, <2>3, NextMovesAll DEF Moves
  <2> QED BY <1>1, <2>1, <2>4 DEF Opening, At
<1> QED BY <1>2, <1>3

LEMMA OwnNext ==
  ASSUME Reliable, TypeInv, BookInv, PhaseInv, RowInv, TagInv, FlatInv, UnitInv, CloseInv, OwnInv,
         [Next]_vars
  PROVE  OwnInv'
<1> SUFFICES ASSUME SoldOnce', NEW n \in Trades, orders'[EntryId(n)].filled > 0, Held(n)' = 0,
                    (Rowed(n) \/ Opening(n))'
             PROVE  OwnSale(n)'
  BY DEF OwnInv
<1>0. SoldOnce /\ (OwnSale(n) => OwnSale(n)')
  BY SoldGrows
<1>a. pos \in Nat /\ pos' \in Nat
  BY TypeNext DEF TypeInv, TypeOK
<1>1. ~ResolveEntry(n)
  <2>1. ASSUME ResolveEntry(n) PROVE FALSE
    <3>1. owner' = n /\ pos' = pos + orders'[EntryId(n)].filled
      BY <2>1, EntryResolved
    <3>2. pos' = 0
      BY <3>1 DEF Held
    <3>3. orders'[EntryId(n)].filled \in Nat
      BY EntryIsNoExit, TypeNext DEF TypeInv, TypeOK, Order
    <3> QED BY <1>a, <3>1, <3>2, <3>3
  <2> QED BY <2>1
<1>2. orders[EntryId(n)].filled > 0 /\ (Rowed(n) \/ Opening(n))
  BY <1>1, OwnersBefore
<1>3. CASE Held(n) = 0
  BY <1>0, <1>2, <1>3 DEF OwnInv
<1>4. CASE Held(n) # 0
  <2>1. n = owner /\ pos > 0
    BY <1>a, <1>4 DEF Held
  <2>2. ~UNCHANGED <<pos, owner>>
    BY <1>4 DEF Held
  <2>3. ASSUME NEW m \in Trades, ResolveEntry(m) PROVE FALSE
    <3>1. orders[EntryId(m)].status = "new"
      BY <2>3, EntryResolved
    <3> QED BY <2>1, <3>1 DEF BookInv, Unresolved
  <2>4. ASSUME ResolveClose PROVE FALSE
    <3>1. open_trades = {} /\ proc # "up"
      BY <2>4 DEF ResolveClose, CloseInv
    <3>2. ~Opening(n)
      BY <3>1 DEF Opening, PhaseInv, At
    <3>3. trades[n].status \notin {"NONE", "CLOSED"}
      BY <1>2, <1>4, <3>2 DEF Rowed, FlatInv, ClosedMeansFlat
    <3> QED BY <3>1, <3>3 DEF open_trades
  <2>5. ASSUME NEW o \in SaleIds,
               (o \in ExitIds /\ ResolveExit(o)) \/ (o \in StopIds /\ TriggerStop(o))
        PROVE  OwnSale(n)'
    <3>1. /\ pos' = pos \/ (pos' = 0 /\ orders'[o].filled > 0)
          /\ orders[o].filled = 0 /\ orders[o].status # "none"
          /\ owner' = owner
      BY <2>5, SaleEmpties
    <3>2. orders'[o].filled > 0
      BY <2>2, <3>1
    <3> QED BY <1>0, <2>1, <3>1, <3>2, SoldByOwner
  <2> QED BY <2>2, <2>3, <2>4, <2>5, PosSteps DEF SaleIds
<1> QED BY <1>3, <1>4

LEMMA OwnInit == Init => OwnInv
BY EntryIsNoExit DEF Init, OwnInv, NoOrder

-----------------------------------------------------------------------------
(* What no exit sold is closed as a stop-out. *)

Unexited(n) == \A o \in ExitIds : o[1] = n => orders[o].filled = 0

ReasonInv ==
  SoldOnce => \A n \in Trades : Unexited(n) =>
    /\ trades[n].status = "CLOSED" => trades[n].exit_reason = "SL"
    /\ \A t \in Threads : At(t, "close") /\ job[t].tr = n => job[t].why = "SL"

LEMMA ReasonArrives ==
  ASSUME Reliable, TypeInv, PhaseInv, RowInv, WhyInv, FlatInv, UnitInv, OwnInv, [Next]_vars,
         SoldOnce, NEW n \in Trades, Unexited(n), NEW t \in Threads,
         job'[t].pc = "close", job'[t] # job[t], job'[t].tr = n
  PROVE  job'[t].why = "SL"
<1> DEFINE j == job[t]
           k == job'[t]
<1>0. job \in [Threads -> Job] /\ j \in Job
  BY DEF TypeInv, TypeOK
<1>a. \A i : Become(t, i) => k = i
  BY <1>0 DEF Become
<1>b. \A why : /\ [j EXCEPT !.pc = "close", !.why = why].why = why
               /\ [j EXCEPT !.pc = "close", !.why = why].tr = j.tr
  BY <1>0 DEF Job
<1>1. CASE t = "mon" /\ CheckStop
  <2>1. \/ Become(t, [j EXCEPT !.pc = "close", !.why = "SL"])
        \/ \E ok : Become(t, [j EXCEPT !.pc = "position", !.stop_ok = ok])
    BY <1>1, Zenon DEF CheckStop
  <2>2. \A ok : [j EXCEPT !.pc = "position", !.stop_ok = ok].pc = "position"
    BY <1>0 DEF Job
  <2>3. CASE Become(t, [j EXCEPT !.pc = "close", !.why = "SL"])
    <3>1. k = [j EXCEPT !.pc = "close", !.why = "SL"]
      BY <1>a, <2>3
    <3> QED BY <1>b, <3>1
  <2>4. CASE \E ok : Become(t, [j EXCEPT !.pc = "position", !.stop_ok = ok])
    <3>1. PICK ok : Become(t, [j EXCEPT !.pc = "position", !.stop_ok = ok])
      BY <2>4
    <3>2. k = [j EXCEPT !.pc = "position", !.stop_ok = ok]
      BY <1>a, <3>1
    <3>3. k.pc = "position"
      BY <2>2, <3>2
    <3> QED BY <3>3
  <2> QED BY <2>1, <2>3, <2>4
<1>2. ASSUME AwaitExit(t) PROVE FALSE
  <2> DEFINE o == ExitId(j.tr, j.why)
  <2>1. At(t, "fill") /\ (Goto(t, "close") => orders[o].filled > 0)
            /\ (Goto(t, "close") \/ Goto(t, "unsold"))
    BY <1>2, GotoMoves DEF AwaitExit, ExitOutcome
  <2>2. orders[o].filled > 0 /\ k.tr = j.tr
    BY <2>1, GotoMoves
  <2>3. o \in ExitIds /\ o[1] = j.tr
    BY <2>1 DEF WhyInv, Selling, At, TypeInv, BoundJob, Unbound, ExitId, ExitIds
  <2> QED BY <2>2, <2>3 DEF Unexited
<1>3. CASE History(t)
  <2> DEFINE soldBy == {o \in StopIds \cup ExitIds :
                          o[1] = j.tr /\ Terminal(o) /\ orders[o].filled > 0}
             Found(why) == Become(t, [j EXCEPT !.pc = "close", !.why = why])
  <2>1. /\ At(t, "history")
        /\ \/ \E o \in soldBy : Found(SaleReason(o))
           \/ soldBy = {} /\ Found("RECONCILED")
    BY <1>3, Zenon DEF History, Reliable, Fault
  <2>2. j.tr = n
    <3>1. PICK why : Found(why)
      BY <2>1
    <3>2. k = [j EXCEPT !.pc = "close", !.why = why]
      BY <1>a, <3>1
    <3>3. k.tr = j.tr
      BY <1>b, <3>2
    <3> QED BY <3>3
  <2>3. Rowed(n) /\ Held(n) = 0
    <3>0. n # 0
      BY DEF Trades
    <3>1. n \in InHand(j) /\ ~At(t, "entry") /\ j.pc = "history"
      <4>1. j.pc = "history"
        BY <1>3 DEF History, At
      <4>2. n \in InHand(j)
        BY <2>2, <3>0 DEF InHand
      <4> QED BY <4>1, <4>2 DEF At
    <3>2. Rowed(n)
      BY <3>1 DEF RowInv
    <3>3. Held(n) = 0
      BY <2>2, <3>1 DEF FlatInv
    <3> QED BY <3>2, <3>3
  <2>4. OwnSale(n)
    BY <2>3 DEF OwnInv, RowInv
  <2>5. ASSUME NEW o \in SaleIds, orders[o].filled > 0 PROVE Terminal(o)
    BY <2>5, IdsType DEF UnitInv, Terminal, StatusOf, SaleIds
  <2>6. soldBy # {}
    BY <2>2, <2>4, <2>5 DEF OwnSale, SaleIds
  <2>7. PICK o \in soldBy : Found(SaleReason(o))
    BY <2>1, <2>6
  <2>8. o \in StopIds
    BY <2>2, <2>7 DEF Unexited
  <2>9. SaleReason(o) = "SL"
    BY <2>8 DEF SaleReason
  <2> QED BY <1>a, <1>b, <2>7, <2>9
<1>4. ~(t = "tick" /\ SubmitEntry)
  BY <1>0 DEF SubmitEntry, Become, IdleJob
<1>5. k # IdleJob
  BY DEF IdleJob
<1> QED BY <1>1, <1>2, <1>3, <1>4, <1>5, NextMovesAll DEF Moves, Arrives

LEMMA ReasonNext ==
  ASSUME Reliable, TypeInv, PhaseInv, RowInv, WhyInv, FlatInv, UnitInv, OwnInv, ReasonInv,
         [Next]_vars
  PROVE  ReasonInv'
<1> SUFFICES ASSUME SoldOnce', NEW n \in Trades, Unexited(n)'
             PROVE  /\ trades'[n].status = "CLOSED" => trades'[n].exit_reason = "SL"
                    /\ \A t \in Threads : job'[t].pc = "close" /\ job'[t].tr = n =>
                                            job'[t].why = "SL"
  BY DEF ReasonInv, At
<1>0. SoldOnce
  BY SoldGrows
<1>1. Unexited(n)
  <2> SUFFICES ASSUME NEW o \in ExitIds, o[1] = n PROVE orders[o].filled = 0
    BY DEF Unexited
  <2>1. orders'[o].filled = 0 /\ orders[o].filled \in Nat
    BY IdsType DEF Unexited, TypeInv, TypeOK, Order
  <2>2. orders[o].filled > 0 => orders'[o].filled > 0
    BY UnitSale DEF SaleIds
  <2> QED BY <2>1, <2>2
<1>2. /\ trades[n].status = "CLOSED" => trades[n].exit_reason = "SL"
      /\ \A t \in Threads : At(t, "close") /\ job[t].tr = n => job[t].why = "SL"
  BY <1>0, <1>1 DEF ReasonInv
<1>3. ASSUME NEW t \in Threads, job'[t].pc = "close", job'[t].tr = n PROVE job'[t].why = "SL"
  <2>1. CASE job'[t] = job[t]
    BY <1>2, <1>3, <2>1 DEF At
  <2>2. CASE job'[t] # job[t]
    BY <1>0, <1>1, <1>3, <2>2, ReasonArrives
  <2> QED BY <2>1, <2>2
<1>4. ASSUME trades'[n].status = "CLOSED" PROVE trades'[n].exit_reason = "SL"
  <2>0. trades \in [Trades -> TradeRow]
    BY DEF TypeInv, TypeOK
  <2>1. CASE trades'[n] = trades[n]
    BY <1>2, <1>4, <2>1
  <2>2. ASSUME NEW m \in Trades, NEW row, Inserts(m, row) PROVE trades'[n] = trades[n]
    <3>1. trades' = [trades EXCEPT ![m] = row] /\ row.status = "OPEN_UNPROTECTED"
      BY <2>2 DEF Inserts
    <3> QED BY <1>4, <2>0, <3>1
  <2>3. ASSUME NEW m \in Trades, NEW row, NEW t \in Threads, Writes(t, m, row)
        PROVE  trades'[n].exit_reason = "SL"
    <3>1. trades' = [trades EXCEPT ![m] = row] /\ m = job[t].tr
      BY <2>3 DEF Writes
    <3>2. CASE m # n
      BY <2>0, <2>1, <3>1, <3>2
    <3>3. CASE m = n
      <4>1. trades'[n] = row
        BY <2>0, <3>1, <3>3
      <4>2. At(t, "close") /\ row.exit_reason = job[t].why
        BY <1>4, <2>3, <4>1 DEF Writes
      <4> QED BY <1>2, <3>1, <3>3, <4>1, <4>2
    <3> QED BY <3>2, <3>3
  <2>4. CASE UNCHANGED trades
    BY <2>1, <2>4
  <2> QED BY <2>1, <2>2, <2>3, <2>4, RowsNext DEF RowMoves
<1> QED BY <1>3, <1>4

LEMMA ReasonInit == Init => ReasonInv
BY DEF Init, ReasonInv, NoTrade, IdleJob, At

(* No loss goes unnamed: a trade that no exit has sold is closed with reason SL, *)
(* by the monitor that sees the fill (g), by an exit that lost the race to the *)
(* stop, or by the boot that reads the order history.  All three look for an  *)
(* order of the trade itself: OwnInv says that there is one.  A history that   *)
(* cannot be read leaves RECONCILED, so "query" has to be excluded; that      *)
(* orders are not filled in part or late is what UnitInv and FlatInv need.     *)
THEOREM StopOutsAreNamed ==
  ASSUME Reliable
  PROVE  Spec => []StopOutIsNamed
<1>1. ReasonInv => StopOutIsNamed
  BY DEF ReasonInv, StopOutIsNamed, Unexited
<1>2. TypeInv /\ BookInv /\ PhaseInv /\ RowInv /\ UnitInv /\ CloseInv /\ [Next]_vars => UnitInv'
  BY UnitNext
<1>3. TypeInv /\ PhaseInv /\ RowInv /\ OrphanInv /\ [Next]_vars => OrphanInv'
  BY OrphanNext
<1>6. TypeInv /\ PhaseInv /\ RowInv /\ UnitInv /\ OrphanInv /\ CloseInv /\ [Next]_vars => CloseInv'
  BY CloseNext
<1>4. TypeInv /\ BookInv /\ PhaseInv /\ RowInv /\ TagInv /\ FlatInv /\ UnitInv /\ CloseInv
        /\ OwnInv /\ [Next]_vars => OwnInv'
  BY OwnNext
<1>5. TypeInv /\ PhaseInv /\ RowInv /\ WhyInv /\ FlatInv /\ UnitInv /\ OwnInv /\ ReasonInv
        /\ [Next]_vars => ReasonInv'
  BY ReasonNext
<1> QED
  BY <1>1, <1>2, <1>3, <1>4, <1>5, <1>6, AlwaysFlat, UnitInit, OrphanInit, CloseInit, OwnInit,
     ReasonInit, PTL
     DEF Spec

-----------------------------------------------------------------------------
(* What was bought is on the books, or its entry is still polled.              *)

EntryInv ==
  \A n \in Trades :
    (orders[EntryId(n)].filled > 0 \/ orders[EntryId(n)].status = "new")
    => Rowed(n) \/ Opening(n)

(* The process lives, and the polling of an entry always answers. *)
Uninterrupted == {"crash", "raise_entry"} \cap Faults = {}

LEMMA EntryEnds ==
  ASSUME TypeInv, PhaseInv, [Next]_vars, Reliable, Uninterrupted,
         At("tick", "entry"), job'["tick"] = IdleJob
  PROVE  /\ UNCHANGED orders
         /\ orders[EntryId(job["tick"].tr)].filled = 0
         /\ orders[EntryId(job["tick"].tr)].status # "new"
<1>0. /\ job \in [Threads -> Job] /\ "tick" \in Threads /\ job["tick"].pc = "entry"
      /\ job["tick"].tr \in Trades
  BY DEF TypeInv, TypeOK, Threads, At, BoundJob, Unbound
<1>a. job'["tick"] # job["tick"]
  BY <1>0 DEF IdleJob
<1>1. CASE OpenStep
  <2>1. AwaitEntry
    BY <1>0, <1>1 DEF OpenStep, SubmitEntry, CanStart
  <2>2. UNCHANGED orders /\ Terminal(EntryId(job["tick"].tr))
    BY <2>1 DEF AwaitEntry, broker, Fault, Reliable
  <2>3. ~(orders[EntryId(job["tick"].tr)].filled > 0)
    <3> DEFINE k == [job["tick"] EXCEPT !.pc = "place",
                                        !.qty = orders[EntryId(job["tick"].tr)].filled]
    <3>1. k.pc = "place" /\ k # IdleJob
      BY <1>0 DEF Job, IdleJob
    <3>2. orders[EntryId(job["tick"].tr)].filled > 0 => Become("tick", k)
      BY <2>1 DEF AwaitEntry
    <3>3. Become("tick", k) => job'["tick"] = k
      BY <1>0 DEF Become
    <3> QED BY <3>1, <3>2, <3>3
  <2>4. /\ orders[EntryId(job["tick"].tr)].filled \in Nat
        /\ EntryId(job["tick"].tr) # NoId
    BY <1>0, EntryIsNoExit, ConstantsAssumption
    DEF TypeInv, TypeOK, Order, EntryId, NoId, Trades
  <2>5. orders[EntryId(job["tick"].tr)].status # "new"
    BY <2>2, <2>4 DEF Terminal, StatusOf
  <2> QED BY <2>2, <2>3, <2>4, <2>5
<1>2. CASE MonitorStep
  BY <1>0, <1>a, <1>2, MonitorFrame
<1>3. CASE BootStep
  BY <1>0, <1>a, <1>3, BootFrame
<1>4. CASE StartFlatten
  BY <1>0, <1>a, <1>4 DEF StartFlatten, Become
<1>5. ASSUME NEW t \in Threads, SharedStep(t) PROVE FALSE
  BY <1>0, <1>a, <1>5, SharedFrame
<1>6. CASE FailStep
  <2>1. ~Crash
    BY DEF Crash, Fault, Uninterrupted
  <2>2. ASSUME NEW t \in Threads, JobDies(t) PROVE FALSE
    <3>1. CASE t = "tick"
      BY <2>2, <3>1 DEF JobDies, Fault, Uninterrupted
    <3>2. CASE t # "tick"
      BY <1>0, <1>a, <2>2, <3>2 DEF JobDies, Become
    <3> QED BY <3>1, <3>2
  <2> QED BY <1>6, <2>1, <2>2 DEF FailStep
<1>7. CASE MarketStep \/ StopStep \/ SetKillSwitch \/ UNCHANGED vars
  BY <1>a, <1>7 DEF MarketStep, ResolveEntry, ResolveExit, ResolveClose, StopStep, TriggerStop, LoseStop,
              SetKillSwitch, vars
<1> QED BY <1>1, <1>2, <1>3, <1>4, <1>5, <1>6, <1>7 DEF Next

LEMMA EntryNext ==
  ASSUME Reliable, Uninterrupted, TypeInv, PhaseInv, RowInv, EntryInv, [Next]_vars
  PROVE  EntryInv'
<1> SUFFICES ASSUME NEW n \in Trades, ~Rowed(n)',
                    orders'[EntryId(n)].filled > 0 \/ orders'[EntryId(n)].status = "new"
             PROVE  Opening(n)'
  BY DEF EntryInv
<1>0. job \in [Threads -> Job] /\ "tick" \in Threads
  BY DEF TypeInv, TypeOK, Threads
<1>1. ~Rowed(n)
  BY RowsGrow
<1>2. CASE SubmitEntry /\ n = next
  <2>1. PICK k \in Job : Become("tick", k) /\ k.pc = "entry" /\ k.tr = n
    <3> DEFINE k == [IdleJob EXCEPT !.pc = "entry", !.tr = next]
    <3>1. Become("tick", k) /\ k.pc = "entry" /\ k.tr = next
      BY <1>2 DEF SubmitEntry, IdleJob
    <3>2. job'["tick"] = k /\ job'["tick"] \in Job
      BY <1>0, <3>1, TypeNext DEF Become, TypeInv, TypeOK
    <3> QED BY <1>2, <3>1, <3>2
  <2> QED BY <1>0, <2>1 DEF Become, Opening, At
<1>3. CASE ~(SubmitEntry /\ n = next)
  <2>1. orders[EntryId(n)].filled > 0 \/ orders[EntryId(n)].status = "new"
    <3>1. orders[EntryId(n)] \in Order
      BY EntryIsNoExit DEF TypeInv, TypeOK
    <3>2. CASE ResolveEntry(n)
      BY <3>2, EntryResolved
    <3>3. ASSUME orders'[EntryId(n)] = [orders[EntryId(n)] EXCEPT !.status = "canceled"]
          PROVE  orders'[EntryId(n)].filled = orders[EntryId(n)].filled
                 /\ orders'[EntryId(n)].status = "canceled"
      BY <3>1, <3>3 DEF Order
    <3> QED BY <1>3, <3>2, <3>3, EntryMoves
  <2>2. Opening(n)
    BY <1>1, <2>1 DEF EntryInv
  <2>3. job'["tick"] # IdleJob
    <3> SUFFICES ASSUME job'["tick"] = IdleJob PROVE FALSE
      OBVIOUS
    <3>1. /\ UNCHANGED orders /\ orders[EntryId(n)].filled = 0
          /\ orders[EntryId(n)].status # "new"
      BY <2>2, EntryEnds DEF Opening
    <3> QED BY <3>1
  <2>4. ASSUME NEW row \in TradeRow, Inserts(n, row) PROVE FALSE
    <3>1. trades \in [Trades -> TradeRow]
      BY DEF TypeInv, TypeOK
    <3> QED BY <2>4, <3>1 DEF Inserts, Rowed
  <2>5. job'["tick"] = job["tick"]
    BY <2>2, <2>3, <2>4, EntryLeft DEF Opening
  <2> QED BY <2>2, <2>5 DEF Opening, At
<1> QED BY <1>2, <1>3

LEMMA EntryInit == Init => EntryInv
BY EntryIsNoExit DEF Init, EntryInv, NoOrder

LEMMA BoughtIsManaged ==
  ASSUME TypeInv, RowInv, CoverInv, FlatInv, EntryInv
  PROVE  ManagedPosition
<1> SUFFICES ASSUME pos > 0, open_trades = {}
             PROVE  At("tick", "entry")
  BY DEF ManagedPosition
<1>1. owner \in Trades /\ pos \in Nat
  BY DEF TypeInv, TypeOK, CoverInv, Trades
<1>2. orders[EntryId(owner)].filled > 0
  <2>1. orders[EntryId(owner)].filled \in Nat /\ pos <= orders[EntryId(owner)].filled
    BY <1>1, EntryIsNoExit DEF CoverInv, TypeInv, TypeOK, Order
  <2> QED BY <1>1, <2>1
<1>3. ~Rowed(owner)
  <2>1. trades[owner].status \in {"NONE", "CLOSED"}
    BY <1>1 DEF open_trades
  <2>2. trades[owner].status # "CLOSED"
    BY <1>1 DEF FlatInv, ClosedMeansFlat, Held
  <2> QED BY <2>1, <2>2 DEF Rowed
<1> QED BY <1>1, <1>2, <1>3 DEF EntryInv, Opening

(* While the scheduler runs, no units are held that nobody watches: an open row  *)
(* brings the monitor to them, or open() is still polling the entry.  A crash  *)
(* or an exception between the entry's fill and its row is excluded: the units *)
(* are then unknown to the trades table, and the boot may take an older open   *)
(* row for theirs; Reliable, because a close over a failed read or an exit     *)
(* that filled in part leaves units without a row as well.                    *)
THEOREM PositionIsManaged ==
  ASSUME Reliable, Uninterrupted
  PROVE  Spec => []ManagedPosition
<1>1. TypeInv /\ RowInv /\ CoverInv /\ FlatInv /\ EntryInv => ManagedPosition
  BY BoughtIsManaged
<1>2. TypeInv /\ PhaseInv /\ RowInv /\ EntryInv /\ [Next]_vars => EntryInv'
  BY EntryNext
<1> QED BY <1>1, <1>2, AlwaysFlat, EntryInit, PTL DEF Spec

=============================================================================
