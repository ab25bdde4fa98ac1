----------------------------- MODULE BarsProofs -----------------------------
(***************************************************************************)
(* Proofs about Bars: its properties hold for every horizon, fetch limit,   *)
(* lateness of the broker, and number of crashes and downloads.             *)
(***************************************************************************)
EXTENDS Bars, TLAPS

(* What the tick has in hand: bars that have closed, as they are for good; and *)
(* how its last bar stands to the one that was marked.                        *)
TickInv ==
  /\ tick.closed # {} => LastBar \in tick.closed
  /\ \A b \in tick.closed : 2 * b + 2 <= clock /\ tick.seen[b] = "final"
  /\ tick.pc = "mark" => processed < LastBar
  /\ tick.pc \in {"decide", "open"} => processed = LastBar
  /\ tick.pc = "open" => FreshEnough(clock - 2 * (LastBar + 1))

(* What was acted on was marked before, and is older than a bar that has been   *)
(* marked and is about to be acted on.                                        *)
Acted == [bar : Bars, at : Clock, content : {"none", "forming", "final"}]
ActedInv ==
  /\ acted \in Seq(Acted)
  /\ \A n \in DOMAIN acted :
       /\ acted[n].content = "final"
       /\ acted[n].bar <= processed
       /\ tick.pc \in {"decide", "open"} => acted[n].bar < processed
  /\ OnceOnly
  /\ NoChasing

(* Of the bars ticks have fetched only the last may be unfinished.  The next    *)
(* fetch includes it, and a download writes no other unfinished bar.          *)
HistoryInv ==
  /\ covered = <<>> \/ covered \in Bars \X Bars
  /\ covered # <<>> => covered[2] <= newest
  /\ ~away /\ covered # <<>> =>
       \A b \in covered[1]..covered[2] :
         /\ candles[b] # "none"
         /\ candles[b] = "forming" => b = covered[2]
  /\ HistoryIsRepaired

Inv == TypeOK /\ TickInv /\ ActedInv /\ processed < Current(clock) /\ HistoryInv

-----------------------------------------------------------------------------
(* The clock, and greatest and least bars. *)

LEMMA Halves ==
  ASSUME NEW c \in Nat
  PROVE  Current(c) \in Nat /\ 2 * Current(c) <= c /\ c < 2 * Current(c) + 2
  BY Z3 DEF Current

LEMMA HalvesGrow ==
  ASSUME NEW c \in Nat, NEW d \in Nat, c <= d
  PROVE  Current(c) <= Current(d)
  BY Halves

LEMMA LeastBar ==
  ASSUME NEW S, S \subseteq Nat, NEW g \in S, \A b \in S : g <= b
  PROVE  Min(S) \in S /\ \A b \in S : Min(S) <= b
  BY DEF Min

LEMMA GreatestBar ==
  ASSUME NEW S, S \subseteq Nat, NEW g \in S, \A b \in S : b <= g
  PROVE  Max(S) \in S /\ \A b \in S : b <= Max(S)
  BY DEF Max

LEMMA BarsAreNat == Bars \subseteq Nat /\ \A c \in Clock : Current(c) \in Bars
  BY Halves, HalvesGrow, BarsAssumption DEF Bars, Clock

LEMMA EarlierBar ==
  ASSUME NEW b \in Nat, NEW c \in Bars, b <= c
  PROVE  b \in Bars
<1>1. Current(Horizon) \in Nat
  BY Halves, BarsAssumption
<1> QED BY <1>1 DEF Bars

(* What a fetch returns: the first bar of the range and those after it, up to  *)
(* its limit or the newest bar.                                               *)
LEMMA FetchReaches ==
  ASSUME newest \in NoBar..Current(clock), clock \in Clock, NEW from \in Bars,
         NEW S, S = Earliest(from), S # {}
  PROVE  /\ S \subseteq Bars /\ Min(S) \in S /\ Max(S) \in S
         /\ Max(S) <= newest /\ S = Min(S)..Max(S)
<1>1. /\ newest \in Int /\ limit \in Nat \ {0} /\ from \in Nat /\ S \subseteq Bars
      /\ Bars \subseteq Nat
  <2>1. clock \in Nat
    BY BarsAssumption DEF Clock
  <2>2. Current(clock) \in Nat
    BY <2>1, Halves
  <2> QED BY <2>2, BarsAreNat, BarsAssumption DEF Earliest, NoBar
<1> DEFINE last == IF from + limit - 1 <= newest THEN from + limit - 1 ELSE newest
<1>2. from <= newest
  <2>1. PICK b \in S : b \in Nat /\ from <= b /\ b <= newest
    BY <1>1 DEF Earliest
  <2> QED BY <1>1, <2>1
<1>3. from <= last /\ last <= newest /\ last \in Nat /\ from + limit - 1 >= last
  BY <1>1, <1>2
<1>4. last \in Bars
  <2>1. PICK c \in Bars : c = Current(clock)
    BY BarsAreNat
  <2>2. last <= c
    <3>1. c \in Nat
      BY <1>1, <2>1
    <3> QED BY <1>1, <1>3, <2>1, <3>1 DEF NoBar
  <2> HIDE DEF last
  <2> QED BY <1>3, <2>2, EarlierBar
<1>5. \A b \in Nat : b <= last <=> b <= newest /\ b < from + limit
  BY <1>1
<1> HIDE DEF last
<1>6. S = from..last
  <2>1. ASSUME NEW b \in from..last PROVE b \in S
    <3>1. b \in Nat /\ from <= b /\ b <= last
      BY <1>1, <1>3, <2>1
    <3>2. b \in Bars
      BY <1>4, <3>1, EarlierBar
    <3> QED BY <1>5, <3>1, <3>2 DEF Earliest
  <2>2. ASSUME NEW b \in S PROVE b \in from..last
    BY <1>1, <1>3, <1>5, <2>2 DEF Earliest
  <2> QED BY <2>1, <2>2
<1>7. from \in S /\ last \in S /\ S \subseteq Nat /\ \A b \in S : from <= b /\ b <= last
  BY <1>1, <1>3, <1>6
<1>8. Min(S) \in S /\ \A b \in S : Min(S) <= b
  BY <1>7, LeastBar
<1>9. Max(S) \in S /\ \A b \in S : b <= Max(S)
  BY <1>7, GreatestBar
<1>10. Min(S) = from /\ Max(S) = last
  <2> DEFINE lo == Min(S)
             hi == Max(S)
  <2>1. lo \in Nat /\ hi \in Nat /\ lo <= from /\ from <= lo /\ hi <= last /\ last <= hi
    BY <1>7, <1>8, <1>9
  <2> HIDE DEF lo, hi
  <2>2. lo = from /\ hi = last
    BY <1>1, <1>3, <2>1
  <2> QED BY <2>2 DEF lo, hi
<1> QED BY <1>1, <1>3, <1>6, <1>8, <1>9, <1>10

(* The last bar of a frame without the forming one, if there is any.           *)
LEMMA ClosedBars ==
  ASSUME newest \in NoBar..Current(clock), clock \in Clock, NEW from \in Bars,
         NEW S, S = drop_forming_bar(Earliest(from), clock)
  PROVE  /\ S \subseteq Bars
         /\ \A b \in S : 2 * b + 2 <= clock /\ b # Current(clock)
         /\ S # {} => \E g \in S : \A b \in S : b <= g
<1> DEFINE F == Earliest(from)
<1>1. /\ F \subseteq Bars /\ clock \in Nat /\ Current(clock) \in Nat
      /\ 2 * Current(clock) <= clock /\ clock < 2 * Current(clock) + 2
  BY Halves, BarsAssumption DEF Clock, Earliest
<1>2. S \subseteq Bars /\ Bars \subseteq Nat
  BY <1>1, BarsAreNat DEF drop_forming_bar
<1>3. \A b \in S : 2 * b + 2 <= clock /\ b # Current(clock)
  BY <1>1, <1>2 DEF drop_forming_bar
<1>4. ASSUME S # {} PROVE \E g \in S : \A b \in S : b <= g
  <2> DEFINE lo == Min(F)
             hi == Max(F)
             g == IF hi < Current(clock) THEN hi ELSE Current(clock) - 1
  <2>1. PICK b0 \in S : b0 \in F /\ 2 * b0 <= clock - 2
    BY <1>4 DEF drop_forming_bar
  <2>2. F = lo..hi /\ lo \in Nat /\ hi \in Nat
    <3>1. F # {}
      BY <2>1
    <3> HIDE DEF F
    <3>2. F \subseteq Nat /\ Min(F) \in F /\ Max(F) \in F /\ F = Min(F)..Max(F)
      BY <1>1, <1>2, <3>1, FetchReaches DEF F
    <3> QED BY <3>2
  <2>0. S = {b \in F : 2 * b <= clock - 2}
    BY DEF drop_forming_bar
  <2> HIDE DEF lo, hi, F
  <2>3. b0 \in Nat /\ b0 <= g /\ lo <= b0
    BY <1>1, <1>2, <2>1, <2>2
  <2>4. g \in S
    BY <2>0, <2>2, <2>3, <1>1
  <2>5. \A b \in S : b <= g
    BY <1>1, <1>2, <2>0, <2>2
  <2> QED BY <2>4, <2>5
<1> QED BY <1>2, <1>3, <1>4

-----------------------------------------------------------------------------

LEMMA InvInit == Init => Inv
<1> SUFFICES ASSUME Init PROVE Inv
  OBVIOUS
<1>1. 0 \in Clock /\ Current(0) = 0
  <2>1. Current(0) \in Nat /\ 2 * Current(0) <= 0
    BY Halves
  <2> QED BY <2>1, BarsAssumption DEF Clock
<1>2. TypeOK
  BY <1>1, BarsAssumption, BarsAreNat
     DEF Init, TypeOK, IdleTick, NothingSeen, Tick, NoBar
<1>3. TickInv
  BY DEF Init, TickInv, IdleTick
<1>4. ActedInv
  BY DEF Init, ActedInv, OnceOnly, NoChasing
<1>5. processed < Current(clock)
  BY <1>1 DEF Init, NoBar
<1>6. HistoryInv
  BY DEF Init, HistoryInv, HistoryIsRepaired
<1> QED BY <1>2, <1>3, <1>4, <1>5, <1>6 DEF Inv

(* A table after an upsert of a frame the broker returned: nothing is lost, and *)
(* what the frame holds is as it is now.                                      *)
LEMMA UpsertFrame ==
  ASSUME NEW S \in SUBSET Bars, candles \in [Bars -> {"none", "forming", "final"}],
         candles' = upsert_bars(Frame(S))
  PROVE  /\ Frame(S) \in [Bars -> {"none", "forming", "final"}]
         /\ candles' \in [Bars -> {"none", "forming", "final"}]
         /\ \A b \in S : candles'[b] = Content(b, clock)
         /\ \A b \in Bars \ S : candles'[b] = candles[b]
<1>1. \A b \in Bars : Frame(S)[b] = IF b \in S THEN Content(b, clock) ELSE "none"
  BY DEF Frame
<1>2. \A b \in Bars : Content(b, clock) \in {"forming", "final"}
  BY DEF Content
<1>3. Frame(S) \in [Bars -> {"none", "forming", "final"}]
  BY <1>2 DEF Frame
<1>4. \A b \in Bars : candles'[b] = IF b \in S THEN Content(b, clock) ELSE candles[b]
  <2>1. \A b \in Bars : candles'[b] = DoUpdate(b, Frame(S))
    BY DEF upsert_bars
  <2> QED BY <2>1, <1>1, <1>2 DEF DoUpdate
<1>5. candles' \in [Bars -> {"none", "forming", "final"}]
  <2>1. candles' = [b \in Bars |-> DoUpdate(b, Frame(S))]
    BY DEF upsert_bars
  <2>2. \A b \in Bars : DoUpdate(b, Frame(S)) \in {"none", "forming", "final"}
    BY <1>3 DEF DoUpdate
  <2> QED BY <2>1, <2>2
<1> QED BY <1>3, <1>4, <1>5

(* The half bars of a bar that is still to come.                               *)
LEMMA FinalStays ==
  ASSUME TypeOK, NEW S \in SUBSET Bars, S \subseteq {b \in Bars : b <= newest},
         candles' = upsert_bars(Frame(S))
  PROVE  /\ candles' \in [Bars -> {"none", "forming", "final"}]
         /\ \A b \in Bars : candles'[b] = "final" => b < Current(clock)
<1>1. /\ Current(clock) \in Nat /\ newest \in Int /\ newest <= Current(clock)
  BY Halves, BarsAssumption DEF TypeOK, Clock, NoBar
<1>2. Bars \subseteq Nat
  BY BarsAreNat
<1>3. \A b \in S : candles'[b] = "final" => b < Current(clock)
  BY <1>1, <1>2, UpsertFrame DEF Content, TypeOK
<1>4. \A b \in Bars \ S : candles'[b] = "final" => b < Current(clock)
  BY UpsertFrame DEF TypeOK
<1> QED BY <1>3, <1>4, UpsertFrame DEF TypeOK

-----------------------------------------------------------------------------
(* What a step leaves behind. *)

(* The tick after its fetch. *)
LEMMA FetchedTick ==
  ASSUME TypeOK, Fetch
  PROVE  /\ tick' \in Tick /\ tick'.pc = "check"
         /\ \A b \in tick'.closed : b < Current(clock) /\ 2 * b + 2 <= clock
                                    /\ tick'.seen[b] = "final"
         /\ tick'.closed # {} => LastBar' \in tick'.closed
<1>0. PICK from \in Bars :
        tick' = [tick EXCEPT !.pc = "check", !.seen = Frame(Earliest(from)),
                             !.closed = drop_forming_bar(Earliest(from), clock)]
  BY DEF Fetch
<1> DEFINE F == Earliest(from)
           S == drop_forming_bar(F, clock)
<1>1. /\ S \subseteq Bars /\ S \subseteq F /\ Bars \subseteq Nat
      /\ \A b \in S : 2 * b + 2 <= clock /\ b # Current(clock)
      /\ S # {} => \E g \in S : \A b \in S : b <= g
  BY ClosedBars, BarsAreNat DEF TypeOK, drop_forming_bar
<1>2. Current(clock) \in Nat /\ clock \in Nat /\ clock < 2 * Current(clock) + 2
  BY Halves, BarsAssumption DEF TypeOK, Clock
<1>3. tick' = [tick EXCEPT !.pc = "check", !.seen = Frame(F), !.closed = S]
  BY <1>0
<1> HIDE DEF F, S
<1>4. \A b \in S : b < Current(clock)
  BY <1>1, <1>2
<1>5. \A b \in S : Frame(F)[b] = "final"
  BY <1>1 DEF Frame, Content
<1>6. Frame(F) \in [Bars -> {"none", "forming", "final"}]
  BY DEF Frame, Content
<1>7. tick' \in Tick /\ tick'.pc = "check" /\ tick'.closed = S /\ tick'.seen = Frame(F)
  BY <1>1, <1>3, <1>6 DEF TypeOK, Tick
<1>8. S # {} => Max(S) \in S
  BY <1>1, GreatestBar
<1> QED BY <1>1, <1>4, <1>5, <1>7, <1>8 DEF LastBar

LEMMA TypeStep ==
  ASSUME Inv, [Next]_vars
  PROVE  TypeOK'
<1> USE DEF Inv, TypeOK
<1>1. CASE StartTick
  BY <1>1 DEF StartTick, IdleTick, NothingSeen, Tick
<1>2. CASE Fetch
  <2>0. PICK from \in Bars : candles' = upsert_bars(Frame(Earliest(from)))
    BY <1>2 DEF Fetch
  <2>1. /\ candles' \in [Bars -> {"none", "forming", "final"}]
        /\ \A b \in Bars : candles'[b] = "final" => b < Current(clock)
    BY <2>0, FinalStays DEF Earliest
  <2> QED BY <1>2, <2>1, FetchedTick DEF Fetch
<1>3. CASE CheckProcessed
  BY <1>3 DEF CheckProcessed, IdleTick, NothingSeen, Tick
<1>4. CASE MarkProcessed
  BY <1>4 DEF MarkProcessed, Tick, TickInv
<1>5. CASE Decide
  BY <1>5 DEF Decide, IdleTick, NothingSeen, Tick
<1>6. CASE Open
  BY <1>6 DEF Open, IdleTick, NothingSeen, Tick
<1>7. CASE TickRaises \/ Crash
  BY <1>7, BarsAssumption DEF TickRaises, Crash, Stops, IdleTick, NothingSeen, Tick
<1>8. CASE Restart
  BY <1>8 DEF Restart
<1>9. CASE Download
  <2>1. PICK from \in Bars : candles' = upsert_bars(Frame(Earliest(from)))
    BY <1>9 DEF Download
  <2>2. /\ candles' \in [Bars -> {"none", "forming", "final"}]
        /\ \A b \in Bars : candles'[b] = "final" => b < Current(clock)
    BY <2>1, FinalStays DEF Earliest
  <2> QED BY <1>9, <2>2, BarsAssumption DEF Download
<1>10. CASE Pass
  <2>1. clock' \in Clock /\ clock <= clock' /\ clock \in Nat /\ clock' \in Nat
    BY <1>10, BarsAssumption DEF Pass, Clock
  <2>2. Current(clock) <= Current(clock') /\ Current(clock) \in Nat /\ Current(clock') \in Nat
    BY <2>1, Halves, HalvesGrow
  <2>3. newest' \in newest..Current(clock') /\ newest \in NoBar..Current(clock)
    BY <1>10 DEF Pass
  <2>4. newest' \in NoBar..Current(clock')
    BY <2>2, <2>3 DEF NoBar
  <2>5. Bars \subseteq Nat
    BY BarsAreNat
  <2>6. \A b \in Bars : candles[b] = "final" => b < Current(clock')
    BY <2>2, <2>5
  <2>7. \A b \in tick.closed : b < Current(clock')
    BY <2>2, <2>5 DEF Tick
  <2> QED BY <1>10, <2>1, <2>4, <2>6, <2>7 DEF Pass
<1>11. CASE UNCHANGED vars
  BY <1>11 DEF vars
<1> QED
  BY <1>1, <1>2, <1>3, <1>4, <1>5, <1>6, <1>7, <1>8, <1>9, <1>10, <1>11 DEF Next

(* The numbers a step compares.                                                *)
LEMMA Numbers ==
  ASSUME Inv
  PROVE  /\ tick \in Tick /\ tick.closed \subseteq Bars /\ Bars \subseteq Nat
         /\ clock \in Nat /\ processed \in Int
         /\ tick.closed # {} => LastBar \in Bars /\ LastBar \in Nat
<1>1. tick \in Tick /\ tick.closed \subseteq Bars /\ Bars \subseteq Nat
  BY BarsAreNat DEF Inv, TypeOK, Tick
<1>2. clock \in Nat
  BY BarsAssumption DEF Inv, TypeOK, Clock
<1>3. processed \in Int
  BY <1>1 DEF Inv, TypeOK, NoBar
<1>4. tick.closed # {} => LastBar \in tick.closed
  BY DEF Inv, TickInv
<1> QED BY <1>1, <1>2, <1>3, <1>4

LEMMA TickInvStep ==
  ASSUME Inv, [Next]_vars
  PROVE  TickInv'
<1> USE DEF Inv, TickInv
<1>a. /\ tick \in Tick /\ Bars \subseteq Nat /\ clock \in Nat
      /\ processed \in Int
      /\ tick.closed # {} => LastBar \in Nat
  BY Numbers
<1>1. CASE StartTick \/ TickRaises \/ Crash \/ Open
  BY <1>1 DEF StartTick, TickRaises, Crash, Stops, Open, IdleTick, NothingSeen
<1>2. CASE Fetch
  BY <1>2, FetchedTick DEF Fetch
<1>3. CASE CheckProcessed
  <2>1. CASE tick' = IdleTick
    BY <2>1 DEF IdleTick, NothingSeen
  <2>2. CASE tick' = [tick EXCEPT !.pc = "mark"] /\ tick.closed # {} /\ NewBar(LastBar)
    <3>1. tick'.closed = tick.closed /\ tick'.seen = tick.seen /\ tick'.pc = "mark"
      BY <2>2, <1>a DEF Tick
    <3>2. LastBar' = LastBar
      BY <3>1 DEF LastBar
    <3> QED BY <1>3, <2>2, <3>1, <3>2 DEF CheckProcessed, NewBar
  <2> QED BY <1>3, <2>1, <2>2 DEF CheckProcessed
<1>4. CASE MarkProcessed
  <2>1. tick'.closed = tick.closed /\ tick'.seen = tick.seen /\ tick'.pc = "decide"
    BY <1>4, <1>a DEF MarkProcessed, Tick
  <2>2. LastBar' = LastBar
    BY <2>1 DEF LastBar
  <2> QED BY <1>4, <2>1, <2>2 DEF MarkProcessed
<1>5. CASE Decide
  <2>1. CASE tick' = IdleTick
    BY <2>1 DEF IdleTick, NothingSeen
  <2>2. CASE tick' = [tick EXCEPT !.pc = "open"] /\ FreshEnough(clock - 2 * (LastBar + 1))
    <3>1. tick'.closed = tick.closed /\ tick'.seen = tick.seen /\ tick'.pc = "open"
      BY <2>2, <1>a DEF Tick
    <3>2. LastBar' = LastBar
      BY <3>1 DEF LastBar
    <3>3. processed' = processed /\ clock' = clock /\ granularity' = granularity
      BY <1>5 DEF Decide
    <3>4. FreshEnough(clock - 2 * (LastBar + 1))'
      BY <2>2, <3>2, <3>3 DEF FreshEnough
    <3> QED BY <1>5, <2>2, <3>1, <3>2, <3>3, <3>4 DEF Decide, FreshEnough
  <2> QED BY <1>5, <2>1, <2>2 DEF Decide
<1>6. CASE Restart \/ Download
  <2>1. UNCHANGED <<tick, processed, clock, granularity>>
    BY <1>6 DEF Restart, Download
  <2> QED BY <2>1 DEF LastBar, FreshEnough
<1>7. CASE Pass
  <2>1. tick.pc = "idle" /\ UNCHANGED <<tick, processed>> /\ clock' = clock + 1
    BY <1>7 DEF Pass
  <2>2. \A b \in tick.closed : b \in Nat
    BY <1>a DEF Tick
  <2> QED BY <2>1, <2>2, <1>a DEF LastBar
<1>8. CASE UNCHANGED vars
  BY <1>8 DEF vars, LastBar, FreshEnough
<1> QED BY <1>1, <1>2, <1>3, <1>4, <1>5, <1>6, <1>7, <1>8 DEF Next

LEMMA ActedStep ==
  ASSUME Inv, [Next]_vars
  PROVE  ActedInv'
<1> USE DEF Inv
<1>a. /\ tick \in Tick /\ Bars \subseteq Nat /\ clock \in Nat
      /\ processed \in Int
  BY Numbers
<1>c. /\ acted \in Seq(Acted)
      /\ \A n \in DOMAIN acted : acted[n].bar \in Int /\ acted[n].bar <= processed
  <2>1. acted \in Seq(Acted) /\ \A n \in DOMAIN acted : acted[n].bar <= processed
    BY DEF ActedInv
  <2>2. \A n \in DOMAIN acted : acted[n] \in Acted
    BY <2>1
  <2>3. \A n \in DOMAIN acted : acted[n].bar \in Bars
    BY <2>2 DEF Acted
  <2>4. \A n \in DOMAIN acted : acted[n].bar \in Int
    <3>1. \A n \in DOMAIN acted : acted[n].bar \in Nat
      BY <2>3, <1>a, Zenon
    <3> QED BY <3>1
  <2> QED BY <2>1, <2>4
<1>b. granularity' = granularity
  BY DEF Next, StartTick, Fetch, CheckProcessed, MarkProcessed, Decide, Open, TickRaises, Crash,
         Stops, Restart, Download, Pass, vars
<1>1. ASSUME acted' = acted, processed' = processed,
             tick'.pc \in {"decide", "open"} => tick.pc \in {"decide", "open"}
      PROVE  ActedInv'
  BY <1>1, <1>b DEF ActedInv, OnceOnly, NoChasing
<1>2. CASE StartTick \/ Fetch \/ CheckProcessed \/ TickRaises \/ Crash \/ Restart \/ Download
           \/ Pass \/ UNCHANGED vars
  <2>1. acted' = acted /\ processed' = processed
    BY <1>2 DEF StartTick, Fetch, CheckProcessed, TickRaises, Crash, Stops, Restart, Download,
         Pass, vars
  <2>2. CASE StartTick \/ Fetch
    BY <1>1, <2>1, <2>2, FetchedTick DEF StartTick, IdleTick
  <2>5. CASE CheckProcessed
    <3>1. tick'.pc \in {"idle", "mark"}
      BY <2>5, <1>a DEF CheckProcessed, IdleTick, Tick
    <3> QED BY <1>1, <2>1, <3>1
  <2>3. CASE TickRaises \/ Crash
    BY <1>1, <2>1, <2>3 DEF TickRaises, Crash, Stops, IdleTick
  <2>4. CASE Restart \/ Download \/ Pass \/ UNCHANGED vars
    BY <1>1, <2>1, <2>4 DEF Restart, Download, Pass, vars
  <2> QED BY <1>2, <2>2, <2>3, <2>4, <2>5
<1>3. CASE Decide
  <2>1. acted' = acted /\ processed' = processed /\ tick.pc = "decide"
    BY <1>3 DEF Decide
  <2> QED BY <1>1, <2>1
<1>4. CASE MarkProcessed
  <2>1. /\ acted' = acted /\ processed' = LastBar /\ processed < LastBar
        /\ LastBar \in Int
    BY <1>4, <1>a DEF MarkProcessed, TickInv, Tick, TypeOK
  <2>2. \A n \in DOMAIN acted : acted[n].bar < processed'
    BY <2>1, <1>c, <1>a
  <2>3. \A n \in DOMAIN acted : acted[n].bar <= processed'
    BY <2>1, <1>c, <1>a
  <2> QED BY <2>1, <2>2, <2>3, <1>b DEF ActedInv, OnceOnly, NoChasing
<1>5. CASE Open
  <2> DEFINE entry == [bar |-> LastBar, at |-> clock, content |-> tick.seen[LastBar]]
  <2>1. /\ acted' = Append(acted, entry) /\ processed' = processed /\ tick'.pc = "idle"
        /\ processed = LastBar /\ LastBar \in tick.closed /\ LastBar \in Bars
        /\ LastBar \in Nat
        /\ tick.pc = "open"
    BY <1>5, <1>a DEF Open, TickInv, IdleTick, Tick, TypeOK
  <2>2. /\ entry.bar = processed /\ entry.at = clock /\ entry.content = "final"
        /\ entry \in Acted
        /\ granularity # "M1" => entry.at = 2 * (entry.bar + 1)
    <3>1. tick.seen[LastBar] = "final" /\ 2 * LastBar + 2 <= clock
      BY <2>1 DEF TickInv
    <3>2. granularity # "M1" => clock - 2 * (LastBar + 1) <= 0
      BY <2>1 DEF TickInv, FreshEnough
    <3>3. granularity # "M1" => clock = 2 * (LastBar + 1)
      BY <3>1, <3>2, <2>1, <1>a
    <3> QED BY <2>1, <3>1, <3>3 DEF TypeOK, Acted
  <2> HIDE DEF entry
  <2>3. /\ acted' \in Seq(Acted)
        /\ Len(acted) \in Nat /\ DOMAIN acted = 1..Len(acted)
        /\ DOMAIN acted' = 1..(Len(acted) + 1)
        /\ \A n \in DOMAIN acted : acted'[n] = acted[n]
        /\ acted'[Len(acted) + 1] = entry
    BY <2>1, <2>2, <1>c
  <2>4. \A n \in DOMAIN acted : acted[n].bar \in Int /\ acted[n].bar < processed
    BY <2>1, <1>c DEF ActedInv
  <2>5. OnceOnly'
    BY <2>1, <2>2, <2>3, <2>4 DEF OnceOnly, ActedInv
  <2>6. NoChasing'
    BY <2>2, <2>3, <1>b DEF NoChasing, ActedInv
  <2>7. \A n \in DOMAIN acted' : acted'[n].content = "final" /\ acted'[n].bar <= processed'
    BY <2>1, <2>2, <2>3, <2>4, <1>a DEF ActedInv
  <2> QED BY <2>1, <2>3, <2>5, <2>6, <2>7 DEF ActedInv
<1> QED BY <1>2, <1>3, <1>4, <1>5 DEF Next

LEMMA ProcessedStep ==
  ASSUME Inv, [Next]_vars
  PROVE  processed' < Current(clock')
<1> USE DEF Inv
<1>1. CASE MarkProcessed
  BY <1>1 DEF MarkProcessed, TickInv, TypeOK
<1>2. CASE Pass
  <2>1. /\ clock \in Nat /\ clock' \in Nat /\ clock <= clock' /\ processed' = processed
        /\ processed \in Int
    BY <1>2, Numbers DEF Pass
  <2>2. /\ Current(clock) \in Nat /\ Current(clock') \in Nat
        /\ Current(clock) <= Current(clock')
    BY <2>1, Halves, HalvesGrow
  <2> QED BY <2>1, <2>2
<1> QED
  BY <1>1, <1>2
     DEF Next, StartTick, Fetch, CheckProcessed, Decide, Open, TickRaises, Crash, Stops, Restart,
         Download, vars

(* A fetch has the last bar of the one before it or sets `away`; what it returns *)
(* is stored as it is now, so the bar that was unfinished then is not any more. *)
LEMMA FetchRepairs ==
  ASSUME Inv, Fetch
  PROVE  HistoryInv'
<1>0. PICK from \in Bars :
        /\ candles' = upsert_bars(Frame(Earliest(from)))
        /\ covered' = IF Earliest(from) = {} THEN covered
                      ELSE <<IF covered = <<>> THEN Min(Earliest(from)) ELSE covered[1],
                             Max(Earliest(from))>>
        /\ away' = (away \/ (covered # <<>> /\ covered[2] \notin Earliest(from)))
  BY DEF Fetch
<1> DEFINE S == Earliest(from)
           m == Min(S)
           top == Max(S)
           lo == IF covered = <<>> THEN m ELSE covered[1]
<1>1. /\ Current(clock) \in Nat /\ newest \in Int /\ newest <= Current(clock)
      /\ Bars \subseteq Nat
  <2>1. clock \in Nat /\ Bars \subseteq Nat
    BY Numbers
  <2>2. Current(clock) \in Nat
    BY <2>1, Halves
  <2> QED BY <2>1, <2>2 DEF Inv, TypeOK, NoBar
<1>2. covered = <<>> \/ (covered \in Bars \X Bars /\ covered[2] <= newest)
  BY Zenon DEF Inv, HistoryInv
<1>3. CASE S = {}
  <2>1. covered' = covered /\ newest' = newest
    BY <1>0, <1>3 DEF Fetch
  <2>2. covered = <<>> \/ away'
    BY <1>0, <1>3, Zenon
  <2> QED BY <1>2, <2>1, <2>2 DEF HistoryInv, HistoryIsRepaired
<1>4. CASE S # {}
  <2> HIDE DEF S
  <2>1. S \subseteq Bars /\ m \in S /\ top \in S /\ top <= newest /\ S = m..top
    BY <1>4, FetchReaches DEF Inv, TypeOK, S
  <2>2. m \in Bars /\ m \in Nat /\ top \in Bars /\ top \in Nat /\ lo \in Bars /\ lo \in Nat
    BY <2>1, <1>1, <1>2
  <2>3. covered' = <<lo, top>> /\ newest' = newest /\ clock' = clock
    BY <1>0, <1>4 DEF Fetch, S
  <2>4. covered' \in Bars \X Bars /\ covered'[1] = lo /\ covered'[2] = top
    BY <2>2, <2>3
  <2>5. /\ \A b \in S : candles'[b] = Content(b, clock)
        /\ \A b \in Bars \ S : candles'[b] = candles[b]
    BY <1>0, <2>1, UpsertFrame DEF Inv, TypeOK, S
  <2>6. ~away' => ~away /\ (covered = <<>> \/ covered[2] \in S)
    BY <1>0, Zenon DEF S
  <2> HIDE DEF m, top, lo
  <2>7. ASSUME ~away', NEW b \in lo..top
        PROVE  /\ candles'[b] # "none"
               /\ candles'[b] = "forming" => b = top /\ b = Current(clock)
    <3>1. CASE b \in S
      <4>1. candles'[b] = IF b = Current(clock) THEN "forming" ELSE "final"
        BY <3>1, <2>5 DEF Content
      <4>2. b = Current(clock) => b = top
        BY <1>1, <2>1, <2>2, <2>7
      <4> QED BY <4>1, <4>2
    <3>2. CASE b \notin S
      <4>1. b \in Int /\ lo <= b /\ b <= top /\ b < m
        BY <3>2, <2>1, <2>2, <2>7, <1>1
      <4>2. covered # <<>> /\ lo = covered[1] /\ ~away
        <5>1. lo # m
          BY <4>1, <2>2
        <5> QED BY <5>1, <2>6, <2>7, Zenon DEF lo
      <4>3. covered[1] \in Nat /\ covered[2] \in Nat
        BY <4>2, <1>1, <1>2
      <4>4. m <= covered[2]
        BY <4>2, <4>3, <2>1, <2>2, <2>6, <2>7
      <4>5. b \in covered[1]..covered[2] /\ b # covered[2]
        BY <4>1, <4>2, <4>3, <4>4, <2>2
      <4>6. candles[b] # "none" /\ candles[b] # "forming"
        BY <4>2, <4>5 DEF Inv, HistoryInv
      <4>7. b \in Bars
        BY <4>1, <2>2, EarlierBar
      <4> QED BY <4>6, <4>7, <3>2, <2>5
    <3> QED BY <3>1, <3>2
  <2> QED BY <2>1, <2>3, <2>4, <2>7, <1>1 DEF HistoryInv, HistoryIsRepaired
<1> QED BY <1>3, <1>4

LEMMA DownloadHarmless ==
  ASSUME Inv, Download
  PROVE  HistoryInv'
<1>1. PICK from \in Bars : candles' = upsert_bars(Frame(Earliest(from)))
  BY DEF Download
<1> DEFINE S == Earliest(from)
<1>2. S \in SUBSET Bars
  BY DEF Earliest
<1> HIDE DEF S
<1>3. /\ \A b \in S : candles'[b] = Content(b, clock)
      /\ \A b \in Bars \ S : candles'[b] = candles[b]
  BY <1>1, <1>2, UpsertFrame DEF Inv, TypeOK, S
<1>4. UNCHANGED <<clock, newest, covered, away, tick>>
  BY DEF Download
<1>5. /\ Current(clock) \in Nat /\ newest \in Int /\ newest <= Current(clock)
      /\ Bars \subseteq Nat
  <2>1. clock \in Nat /\ Bars \subseteq Nat
    BY Numbers
  <2>2. Current(clock) \in Nat
    BY <2>1, Halves
  <2> QED BY <2>1, <2>2 DEF Inv, TypeOK, NoBar
<1>6. ASSUME ~away, covered # <<>>, NEW b \in covered[1]..covered[2]
      PROVE  /\ candles'[b] # "none"
             /\ candles'[b] = "forming" => b = covered[2]
             /\ (tick.pc = "check" /\ candles'[b] = "forming") => b = Current(clock)
  <2>1. covered \in Bars \X Bars /\ covered[2] <= newest
    BY <1>6 DEF Inv, HistoryInv
  <2>2. covered[1] \in Nat /\ covered[2] \in Nat /\ covered[2] \in Bars
    BY <2>1, <1>5
  <2>3. b \in Nat /\ b <= covered[2] /\ b \in Bars
    BY <1>6, <2>2, EarlierBar
  <2>4. CASE b \in S
    <3>1. candles'[b] = IF b = Current(clock) THEN "forming" ELSE "final"
      BY <2>4, <1>3 DEF Content
    <3> QED BY <3>1, <2>1, <2>2, <2>3, <1>5
  <2>5. CASE b \notin S
    <3>1. candles'[b] = candles[b]
      BY <2>3, <2>5, <1>3
    <3> QED BY <3>1, <1>6 DEF Inv, HistoryInv, HistoryIsRepaired
  <2> QED BY <2>4, <2>5
<1> QED BY <1>4, <1>6 DEF Inv, HistoryInv, HistoryIsRepaired

LEMMA HistoryStep ==
  ASSUME Inv, [Next]_vars
  PROVE  HistoryInv'
<1>1. CASE StartTick \/ CheckProcessed \/ MarkProcessed \/ Decide \/ Open \/ TickRaises \/ Crash
  <2>1. UNCHANGED <<candles, covered, away, newest>>
    BY <1>1 DEF StartTick, CheckProcessed, MarkProcessed, Decide, Open, TickRaises, Crash, Stops
  <2>2. tick'.pc # "check"
    BY <1>1, Numbers
       DEF StartTick, CheckProcessed, MarkProcessed, Decide, Open, TickRaises, Crash, Stops,
           IdleTick, Tick
  <2> QED BY <2>1, <2>2 DEF Inv, HistoryInv, HistoryIsRepaired
<1>2. CASE Restart \/ UNCHANGED vars
  BY <1>2 DEF Restart, vars, Inv, HistoryInv, HistoryIsRepaired
<1>3. CASE Pass
  <2>1. /\ UNCHANGED <<candles, covered, away, tick>> /\ tick.pc = "idle"
        /\ newest' \in newest..Current(clock')
    BY <1>3 DEF Pass
  <2>2. newest \in Int /\ Current(clock') \in Int
    <3>1. clock \in Nat /\ clock' \in Nat
      BY <1>3, Numbers DEF Pass
    <3>2. Current(clock) \in Nat /\ Current(clock') \in Nat
      BY <3>1, Halves
    <3> QED BY <3>2 DEF Inv, TypeOK, NoBar
  <2>3. newest' \in Int /\ newest <= newest'
    BY <2>1, <2>2
  <2>4. covered # <<>> => covered[2] \in Int /\ covered[2] <= newest
    BY Numbers DEF Inv, HistoryInv
  <2>5. covered # <<>> => covered[2] <= newest'
    BY <2>2, <2>3, <2>4
  <2> QED BY <2>1, <2>5 DEF Inv, HistoryInv, HistoryIsRepaired
<1> QED BY <1>1, <1>2, <1>3, FetchRepairs, DownloadHarmless DEF Next

-----------------------------------------------------------------------------

LEMMA InvStep == Inv /\ [Next]_vars => Inv'
<1> SUFFICES ASSUME Inv, [Next]_vars PROVE Inv'
  OBVIOUS
<1>1. TypeOK' /\ TickInv' /\ ActedInv' /\ processed' < Current(clock') /\ HistoryInv'
  BY TypeStep, TickInvStep, ActedStep, ProcessedStep, HistoryStep
<1> QED BY <1>1 DEF Inv

(* The inductive invariant holds of every behaviour of a tick.                 *)
THEOREM InvHolds == Spec => []Inv
  BY InvInit, InvStep, PTL DEF Spec

(* Every reachable state is well typed: no bar is final before it has closed.   *)
THEOREM TypeCorrect == Spec => []TypeOK
  BY InvHolds, PTL DEF Inv

(* An entry rests on a closed bar (bars.py:1, "strip the forming bar").         *)
THEOREM ClosedBarsOnly == Spec => []OnlyClosedBars
<1>1. Inv => OnlyClosedBars
  BY DEF Inv, ActedInv, OnlyClosedBars
<1> QED BY <1>1, InvHolds, PTL

(* However often a tick fires, dies or is restarted, a bar is acted on once.   *)
THEOREM ActedOnOnce == Spec => []OnceOnly
<1>1. Inv => OnceOnly
  BY DEF Inv, ActedInv
<1> QED BY <1>1, InvHolds, PTL

(* With bars of 15 minutes or more an entry is made at the close of its bar, or *)
(* not at all.                                                                *)
THEOREM NeverLate == Spec => []NoChasing
<1>1. Inv => NoChasing
  BY DEF Inv, ActedInv
<1> QED BY <1>1, InvHolds, PTL

(* As long as each fetch has the last bar of the one before, wherever the range *)
(* starts and the limit cuts it, the candles table has no hole and no bar that *)
(* is left unfinished, downloads and crashes or not.                          *)
THEOREM Repaired == Spec => []HistoryIsRepaired
<1>1. Inv => HistoryIsRepaired
  BY DEF Inv, HistoryInv
<1> QED BY <1>1, InvHolds, PTL

=============================================================================
