--------------------------- MODULE EvolutionProofs ---------------------------
(***************************************************************************)
(* The invariants of the evolution pipeline, for any number of attempts,    *)
(* changes, evolutions and faults.  Two jobs run side by side beside the    *)
(* boot, the tick and a second process (the CLI); what they do to the       *)
(* tables is stated once per statement (SetStatusIs to DecideIs), then per  *)
(* step, by the label the step arrives at (ThreadArrives, Alters).          *)
(*                                                                         *)
(* The inductive invariant comes in parts, the later ones with a condition *)
(* under which the code keeps them:                                        *)
(*   TypeInv, ShapeInv  types, foreign keys, what is committed: always.     *)
(*   IdInv      ~IdsReused: a job's rows are still as it left them (Rows),  *)
(*              the stages of promote() (Switch), what it has changed but   *)
(*              not committed (Drift), and the verdicts.                    *)
(*   ApartInv   ~overlapped: one evolution and one experiment at a time,    *)
(*              against the champion (Alone).                              *)
(*   EffectInv  ~interrupted: what is not done yet, a job is about to do.   *)
(*   AttemptInv ~overlapped: how much room an evolution has seen.           *)
(* IdsReused is overlapped and interrupted at once because a rollback takes *)
(* ids back only if the shadow job raises inside its transaction, and only  *)
(* an evolution that fell into the promotion has such an id in hand.        *)
(***************************************************************************)
EXTENDS Evolution, FiniteSetTheorems, SequenceTheorems, WellFoundedInduction, TLAPS

-----------------------------------------------------------------------------
(* The tables. *)

EnsureLabels == {"ensure", "find", "recrown", "seed"}
EvolveLabels == {"load", "active", "review", "hypothesis", "version", "experiment", "reject"}
PromoteLabels == {"begin", "retire", "crown", "commit"}
ShadowLabels == {"decide", "refuse"} \cup PromoteLabels
LabelsOf(t) == {"idle"} \cup CASE t \in {"main", "tick"} -> EnsureLabels
                 [] t = "weekly" -> EvolveLabels
                 [] t = "cli" -> EnsureLabels \cup EvolveLabels
                 [] t = "shadow" -> ShadowLabels

Version == [tag : Changes \cup {"seed"}, status : Statuses]
Hypothesis == [champion : Nat, accepted : BOOLEAN]
Experiment == [hyp : Nat, champion : Nat, challenger : Nat, shadow : BOOLEAN,
               decision : Verdicts \cup {"none"}]
Tables == [versions : Seq(Version), hypotheses : Seq(Hypothesis), experiments : Seq(Experiment)]
Job == [pc : {"idle"} \cup EnsureLabels \cup EvolveLabels \cup ShadowLabels,
        champion : Nat, change : Changes \cup {"seed"}, accepted : BOOLEAN, passed : BOOLEAN,
        hyp : Nat, challenger : Nat, exp : Nat, plateau : BOOLEAN, verdict : Verdicts]

LEMMA TablesType ==
  ASSUME NEW d \in Tables
  PROVE  /\ Len(d.versions) \in Nat /\ Ids(d.versions) = 1..Len(d.versions)
         /\ Len(d.hypotheses) \in Nat /\ Ids(d.hypotheses) = 1..Len(d.hypotheses)
         /\ Len(d.experiments) \in Nat /\ Ids(d.experiments) = 1..Len(d.experiments)
         /\ \A v \in Ids(d.versions) : v \in Nat /\ d.versions[v] \in Version
         /\ \A h \in Ids(d.hypotheses) : h \in Nat /\ d.hypotheses[h] \in Hypothesis
         /\ \A e \in Ids(d.experiments) : e \in Nat /\ d.experiments[e] \in Experiment
<1>1. /\ d.versions \in Seq(Version) /\ d.hypotheses \in Seq(Hypothesis)
      /\ d.experiments \in Seq(Experiment)
  BY DEF Tables
<1> QED BY <1>1, LenProperties, ElementOfSeq DEF Ids

LEMMA VersionsMake ==
  ASSUME NEW d \in Tables, NEW rows \in Seq(Version)
  PROVE  /\ [d EXCEPT !.versions = rows] \in Tables
         /\ [d EXCEPT !.versions = rows].versions = rows
         /\ [d EXCEPT !.versions = rows].hypotheses = d.hypotheses
         /\ [d EXCEPT !.versions = rows].experiments = d.experiments
BY DEF Tables

LEMMA HypothesesMake ==
  ASSUME NEW d \in Tables, NEW rows \in Seq(Hypothesis)
  PROVE  /\ [d EXCEPT !.hypotheses = rows] \in Tables
         /\ [d EXCEPT !.hypotheses = rows].hypotheses = rows
         /\ [d EXCEPT !.hypotheses = rows].versions = d.versions
         /\ [d EXCEPT !.hypotheses = rows].experiments = d.experiments
BY DEF Tables

LEMMA ExperimentsMake ==
  ASSUME NEW d \in Tables, NEW rows \in Seq(Experiment)
  PROVE  /\ [d EXCEPT !.experiments = rows] \in Tables
         /\ [d EXCEPT !.experiments = rows].experiments = rows
         /\ [d EXCEPT !.experiments = rows].versions = d.versions
         /\ [d EXCEPT !.experiments = rows].hypotheses = d.hypotheses
BY DEF Tables

LEMMA SetStatusIs ==
  ASSUME NEW d \in Tables, NEW v \in Ids(d.versions), NEW s \in Statuses,
         NEW e, e = SetStatus(d, v, s)
  PROVE  /\ e \in Tables /\ e.hypotheses = d.hypotheses /\ e.experiments = d.experiments
         /\ Len(e.versions) = Len(d.versions) /\ Ids(e.versions) = Ids(d.versions)
         /\ \A u \in Ids(d.versions) :
              /\ e.versions[u].tag = d.versions[u].tag
              /\ e.versions[u].status = IF u = v THEN s ELSE d.versions[u].status
<1> DEFINE row == [d.versions[v] EXCEPT !.status = s]
           rows == [d.versions EXCEPT ![v] = row]
<1>1. d.versions \in Seq(Version) /\ d.versions[v] \in Version
  BY TablesType DEF Tables
<1>2. row \in Version /\ row.tag = d.versions[v].tag /\ row.status = s
  BY <1>1 DEF Version
<1> HIDE DEF row
<1>3. rows \in Seq(Version) /\ Len(rows) = Len(d.versions)
      /\ \A u \in Ids(d.versions) : rows[u] = IF u = v THEN row ELSE d.versions[u]
  BY <1>1, <1>2, ExceptSeq, TablesType DEF Ids
<1>4. e = [d EXCEPT !.versions = rows]
  BY DEF SetStatus, row
<1> HIDE DEF rows
<1>5. e \in Tables /\ e.versions = rows /\ e.hypotheses = d.hypotheses /\ e.experiments = d.experiments
  BY <1>3, <1>4, VersionsMake
<1>6. Ids(e.versions) = Ids(d.versions)
  BY <1>3, <1>5, TablesType
<1> QED BY <1>2, <1>3, <1>5, <1>6

VersionAdded(d, e, n, tag, s) ==
  /\ e \in Tables /\ e.hypotheses = d.hypotheses /\ e.experiments = d.experiments
  /\ Len(e.versions) = n
  /\ n \in Ids(e.versions) /\ Ids(d.versions) \subseteq Ids(e.versions)
  /\ \A u \in Ids(e.versions) : u = n \/ u \in Ids(d.versions)
  /\ n \notin Ids(d.versions)
  /\ e.versions[n].tag = tag /\ e.versions[n].status = s
  /\ \A u \in Ids(d.versions) : e.versions[u] = d.versions[u]

LEMMA InsertVersionIs ==
  ASSUME NEW d \in Tables, NEW tag \in Changes \cup {"seed"}, NEW s \in Statuses,
         NEW e, e = InsertVersion(d, tag, s), NEW n \in Nat, n = Len(d.versions) + 1
  PROVE  VersionAdded(d, e, n, tag, s)
<1> DEFINE row == [tag |-> tag, status |-> s]
           rows == Append(d.versions, row)
<1>1. row \in Version /\ row.tag = tag /\ row.status = s
  BY DEF Version
<1> HIDE DEF row
<1>2. rows \in Seq(Version) /\ Len(rows) = n /\ rows[n] = row
      /\ \A u \in 1..Len(d.versions) : rows[u] = d.versions[u]
  BY <1>1, AppendProperties DEF Tables
<1>3. e = [d EXCEPT !.versions = rows]
  BY DEF InsertVersion, row
<1> HIDE DEF rows
<1>4. e \in Tables /\ e.versions = rows /\ e.hypotheses = d.hypotheses /\ e.experiments = d.experiments
  BY <1>2, <1>3, VersionsMake
<1>5. /\ n \in Ids(e.versions) /\ Ids(d.versions) \subseteq Ids(e.versions)
      /\ \A u \in Ids(e.versions) : u = n \/ u \in Ids(d.versions)
      /\ n \notin Ids(d.versions)
  BY <1>2, <1>4, TablesType
<1> QED BY <1>1, <1>2, <1>4, <1>5, TablesType DEF VersionAdded

HypothesisAdded(d, e, n, champion, accepted) ==
  /\ e \in Tables /\ e.versions = d.versions /\ e.experiments = d.experiments
  /\ Len(e.hypotheses) = n
  /\ n \in Ids(e.hypotheses) /\ Ids(d.hypotheses) \subseteq Ids(e.hypotheses)
  /\ \A u \in Ids(e.hypotheses) : u = n \/ u \in Ids(d.hypotheses)
  /\ n \notin Ids(d.hypotheses)
  /\ e.hypotheses[n] = [champion |-> champion, accepted |-> accepted]
  /\ \A u \in Ids(d.hypotheses) : e.hypotheses[u] = d.hypotheses[u]

LEMMA InsertHypothesisIs ==
  ASSUME NEW d \in Tables, NEW champion \in Nat, NEW accepted \in BOOLEAN,
         NEW e, e = insert_hypothesis(d, champion, accepted), NEW n \in Nat, n = Len(d.hypotheses) + 1
  PROVE  HypothesisAdded(d, e, n, champion, accepted)
<1> DEFINE row == [champion |-> champion, accepted |-> accepted]
           rows == Append(d.hypotheses, row)
<1>1. row \in Hypothesis
  BY DEF Hypothesis
<1> HIDE DEF row
<1>2. rows \in Seq(Hypothesis) /\ Len(rows) = n /\ rows[n] = row
      /\ \A u \in 1..Len(d.hypotheses) : rows[u] = d.hypotheses[u]
  BY <1>1, AppendProperties DEF Tables
<1>3. e = [d EXCEPT !.hypotheses = rows]
  BY DEF insert_hypothesis, row
<1> HIDE DEF rows
<1>4. e \in Tables /\ e.hypotheses = rows /\ e.versions = d.versions /\ e.experiments = d.experiments
  BY <1>2, <1>3, HypothesesMake
<1>5. /\ n \in Ids(e.hypotheses) /\ Ids(d.hypotheses) \subseteq Ids(e.hypotheses)
      /\ \A u \in Ids(e.hypotheses) : u = n \/ u \in Ids(d.hypotheses)
      /\ n \notin Ids(d.hypotheses)
  BY <1>2, <1>4, TablesType
<1> QED BY <1>1, <1>2, <1>4, <1>5, TablesType DEF row, HypothesisAdded

ExperimentAdded(d, e, n, hyp, champion, challenger, passed) ==
  /\ e \in Tables /\ e.versions = d.versions /\ e.hypotheses = d.hypotheses
  /\ Len(e.experiments) = n
  /\ n \in Ids(e.experiments) /\ Ids(d.experiments) \subseteq Ids(e.experiments)
  /\ \A u \in Ids(e.experiments) : u = n \/ u \in Ids(d.experiments)
  /\ n \notin Ids(d.experiments)
  /\ e.experiments[n] = [hyp |-> hyp, champion |-> champion, challenger |-> challenger,
                         shadow |-> passed, decision |-> "none"]
  /\ \A u \in Ids(d.experiments) : e.experiments[u] = d.experiments[u]

LEMMA InsertExperimentIs ==
  ASSUME NEW d \in Tables, NEW hyp \in Nat, NEW champion \in Nat, NEW challenger \in Nat,
         NEW passed \in BOOLEAN,
         NEW e, e = insert_experiment(d, hyp, champion, challenger, passed), NEW n \in Nat, n = Len(d.experiments) + 1
  PROVE  ExperimentAdded(d, e, n, hyp, champion, challenger, passed)
<1> DEFINE row == [hyp |-> hyp, champion |-> champion, challenger |-> challenger,
                   shadow |-> passed, decision |-> "none"]
           rows == Append(d.experiments, row)
<1>1. row \in Experiment
  BY DEF Experiment
<1> HIDE DEF row
<1>2. rows \in Seq(Experiment) /\ Len(rows) = n /\ rows[n] = row
      /\ \A u \in 1..Len(d.experiments) : rows[u] = d.experiments[u]
  BY <1>1, AppendProperties DEF Tables
<1>3. e = [d EXCEPT !.experiments = rows]
  BY DEF insert_experiment, row
<1> HIDE DEF rows
<1>4. e \in Tables /\ e.experiments = rows /\ e.versions = d.versions /\ e.hypotheses = d.hypotheses
  BY <1>2, <1>3, ExperimentsMake
<1>5. /\ n \in Ids(e.experiments) /\ Ids(d.experiments) \subseteq Ids(e.experiments)
      /\ \A u \in Ids(e.experiments) : u = n \/ u \in Ids(d.experiments)
      /\ n \notin Ids(d.experiments)
  BY <1>2, <1>4, TablesType
<1> QED BY <1>1, <1>2, <1>4, <1>5, TablesType DEF row, ExperimentAdded

LEMMA DecideIs ==
  ASSUME NEW d \in Tables, NEW n \in Nat, NEW verdict \in Verdicts,
         NEW e, e = decide(d, n, verdict)
  PROVE  /\ e \in Tables /\ e.versions = d.versions /\ e.hypotheses = d.hypotheses
         /\ Len(e.experiments) = Len(d.experiments) /\ Ids(e.experiments) = Ids(d.experiments)
         /\ \A u \in Ids(d.experiments) :
              LET x == d.experiments[u]
                  y == e.experiments[u]
              IN /\ y.hyp = x.hyp /\ y.champion = x.champion /\ y.challenger = x.challenger
                 /\ y.shadow = x.shadow
                 /\ y.decision = IF u = n THEN verdict ELSE x.decision
                 /\ u # n => y = x
<1>1. CASE n \notin Ids(d.experiments)
  BY <1>1 DEF decide
<1>2. CASE n \in Ids(d.experiments)
  <2> DEFINE row == [d.experiments[n] EXCEPT !.decision = verdict]
             rows == [d.experiments EXCEPT ![n] = row]
  <2>1. d.experiments \in Seq(Experiment) /\ d.experiments[n] \in Experiment
    BY <1>2, TablesType DEF Tables
  <2>2. /\ row \in Experiment /\ row.decision = verdict
        /\ row.hyp = d.experiments[n].hyp /\ row.champion = d.experiments[n].champion
        /\ row.challenger = d.experiments[n].challenger /\ row.shadow = d.experiments[n].shadow
    BY <2>1 DEF Experiment
  <2> HIDE DEF row
  <2>3. rows \in Seq(Experiment) /\ Len(rows) = Len(d.experiments)
        /\ \A u \in Ids(d.experiments) : rows[u] = IF u = n THEN row ELSE d.experiments[u]
    BY <1>2, <2>1, <2>2, ExceptSeq, TablesType DEF Ids
  <2>4. e = [d EXCEPT !.experiments = rows]
    BY <1>2 DEF decide, row
  <2> HIDE DEF rows
  <2>5. e \in Tables /\ e.experiments = rows /\ e.versions = d.versions /\ e.hypotheses = d.hypotheses
    BY <2>3, <2>4, ExperimentsMake
  <2>6. Ids(e.experiments) = Ids(d.experiments)
    BY <2>3, <2>5, TablesType
  <2> QED BY <2>2, <2>3, <2>5, <2>6
<1> QED BY <1>1, <1>2

-----------------------------------------------------------------------------
(* The steps of a thread: the label they arrive at, what they do to the tables. *)

TypeInv ==
  /\ proc \in {"down", "boot", "up"}
  /\ db \in Tables /\ committed \in Tables
  /\ open \in BOOLEAN
  /\ job \in [Threads -> Job]
  /\ evolves \in 0..MaxEvolves
  /\ faults \in 0..MaxFaults
  /\ overlapped \in BOOLEAN
  /\ interrupted \in BOOLEAN

(* The foreign keys.                                                          *)
Refs(d) ==
  /\ \A h \in Ids(d.hypotheses) : d.hypotheses[h].champion \in Ids(d.versions)
  /\ \A e \in Ids(d.experiments) :
       /\ d.experiments[e].hyp \in Ids(d.hypotheses)
       /\ d.experiments[e].champion \in Ids(d.versions)
       /\ d.experiments[e].challenger \in Ids(d.versions)
(* The configured version comes first.                                        *)
Seeded(d) == \A v \in Ids(d.versions) : d.versions[v].tag = "seed" <=> v = 1

ShapeInv ==
  /\ Refs(db) /\ Refs(committed)
  /\ Seeded(db) /\ Seeded(committed)
  /\ ~open => db = committed
  /\ open <=> job["shadow"].pc \in {"retire", "crown", "commit"}
  /\ Len(committed.versions) <= Len(db.versions)
  /\ Len(committed.hypotheses) <= Len(db.hypotheses)
  /\ Len(committed.experiments) <= Len(db.experiments)
  /\ WithStatus(db, "champion") \subseteq Ids(committed.versions)
  /\ \A t \in Threads :
       LET j == job[t]
       IN /\ j.pc \in LabelsOf(t)
          /\ j.pc \in EvolveLabels \ {"load"} => j.champion \in Ids(committed.versions)
          /\ j.pc = "recrown" => j.champion = 1 /\ 1 \in Ids(committed.versions)
          /\ j.pc \in ShadowLabels => j.challenger \in Ids(committed.versions)
          /\ j.pc = "retire" => j.champion \in {None} \cup Ids(committed.versions)

ThreadStep(t) ==
  \/ t = "main" /\ Boot
  \/ t = "tick" /\ StartTick
  \/ t \in {"main", "tick", "cli"} /\ EnsureStep(t)
  \/ t \in Evolvers /\ EvolveStep(t)
  \/ t = "shadow" /\ ShadowStep
  \/ JobRaises(t)

LEMMA Actors ==
  [Next]_vars <=> (\E t \in Threads : ThreadStep(t)) \/ Crash \/ UNCHANGED vars
BY DEF Next, ThreadStep, Threads, Evolvers

(* The label a thread arrives at tells the step it took.                      *)
Arrives(t) ==
  LET pc == job'[t].pc
  IN /\ pc \in LabelsOf(t)
     /\ pc = "recrown" => EnsureFinds(t)
     /\ pc = "active" => LoadChampion(t)
     /\ pc = "review" => CheckActive(t)
     /\ pc = "hypothesis" => Review(t)
     /\ pc = "version" => InsertHypothesis(t)
     /\ pc = "experiment" => InsertChallenger(t)
     /\ pc = "reject" => InsertExperiment(t)
     /\ pc = "decide" => t = "shadow" /\ EvaluateShadow
     /\ pc \in {"begin", "refuse"} => t = "shadow" /\ Decide
     /\ pc = "retire" => t = "shadow" /\ BeginPromotion
     /\ pc = "crown" => t = "shadow" /\ Retire
     /\ pc = "commit" => t = "shadow" /\ Crown

LEMMA BecomeMoves ==
  ASSUME TypeInv, NEW t \in Threads, NEW k, Become(t, k)
  PROVE  /\ job'[t] = k /\ \A u \in Threads : u # t => job'[u] = job[u]
         /\ job' \in [Threads -> {job'[u] : u \in Threads}]
         /\ overlapped' = (overlapped \/ Overlap(job'))
BY DEF TypeInv, Become, Jobs

LEMMA GotoMoves ==
  ASSUME TypeInv, NEW t \in Threads, NEW label, Goto(t, label)
  PROVE  /\ job'[t].pc = label
         /\ job'[t] = [job[t] EXCEPT !.pc = label]
         /\ job[t] \in Job
BY BecomeMoves DEF Goto, TypeInv, Job

LEMMA ThreadArrives ==
  ASSUME TypeInv, NEW t \in Threads, ThreadStep(t)
  PROVE  /\ Arrives(t)
         /\ \A u \in Threads : u # t => job'[u] = job[u]
         /\ job' \in [Threads -> {job'[u] : u \in Threads}]
         /\ overlapped' = (overlapped \/ Overlap(job'))
<1> DEFINE Frame == /\ \A u \in Threads : u # t => job'[u] = job[u]
                    /\ job' \in [Threads -> {job'[u] : u \in Threads}]
                    /\ overlapped' = (overlapped \/ Overlap(job'))
<1> SUFFICES Frame /\ Arrives(t)
  OBVIOUS
<1>a. ASSUME NEW k, Become(t, k) PROVE Frame /\ job'[t] = k
  BY <1>a, BecomeMoves
<1>b. ASSUME NEW label, Goto(t, label) PROVE Frame /\ job'[t].pc = label
  BY <1>b, BecomeMoves, GotoMoves DEF Goto
<1>c. CASE Ends(t)
  BY <1>c, <1>a DEF Ends, IdleJob, Arrives, LabelsOf
<1>d. CASE Raises(t)
  BY <1>d, <1>c DEF Raises
<1>e. job[t] \in Job
  BY DEF TypeInv
<1> HIDE DEF Frame
<1>1. CASE Boot /\ t = "main"
  BY <1>1, <1>b DEF Boot, Starts, Arrives, LabelsOf, EnsureLabels
<1>2. CASE StartTick /\ t = "tick"
  BY <1>2, <1>b DEF StartTick, Starts, Arrives, LabelsOf, EnsureLabels
<1>3. CASE t \in {"main", "tick", "cli"} /\ EnsureStep(t)
  <2>1. CASE Ensured(t)
    BY <1>3, <2>1, <1>b, <1>c DEF Ensured, Arrives, LabelsOf, EvolveLabels
  <2>2. CASE EnsureLoads(t)
    BY <1>3, <2>1, <2>2, <1>b DEF EnsureLoads, Arrives, LabelsOf, EnsureLabels
  <2>3. CASE EnsureFinds(t)
    <3> DEFINE v == get_by_tag(View(t), "seed")
               k == [job[t] EXCEPT !.pc = IF v # None THEN "recrown" ELSE "seed", !.champion = v]
    <3>1. job'[t] = k /\ Frame
      BY <2>3, <1>a DEF EnsureFinds
    <3> HIDE DEF v
    <3>2. k.pc \in {"recrown", "seed"}
      BY <1>e DEF Job
    <3> QED BY <1>3, <2>3, <3>1, <3>2 DEF Arrives, LabelsOf, EnsureLabels
  <2>4. CASE EnsureCrowns(t) \/ EnsureSeeds(t)
    BY <2>1, <2>4, <1>d DEF EnsureCrowns, EnsureSeeds
  <2> QED BY <1>3, <2>2, <2>3, <2>4 DEF EnsureStep
<1>4. CASE t \in Evolvers /\ EvolveStep(t)
  <2>1. CASE StartEvolve(t)
    BY <1>4, <2>1, <1>b DEF StartEvolve, Starts, Arrives, LabelsOf, EnsureLabels, EvolveLabels, Evolvers
  <2>2. ASSUME NEW label \in LabelsOf(t) \ {"recrown"}, Frame, job'[t].pc = label,
               \/ label = "active" /\ LoadChampion(t)
               \/ label = "review" /\ CheckActive(t)
               \/ label = "hypothesis" /\ Review(t)
               \/ label = "version" /\ InsertHypothesis(t)
               \/ label = "experiment" /\ InsertChallenger(t)
               \/ label = "reject" /\ InsertExperiment(t)
        PROVE  Frame /\ Arrives(t)
    BY <2>2 DEF Arrives
  <2>3. {"active", "review", "hypothesis", "version", "experiment", "reject"} \subseteq LabelsOf(t) \ {"recrown"}
    BY <1>4 DEF LabelsOf, EvolveLabels, Evolvers
  <2>4. CASE LoadChampion(t)
    <3> DEFINE v == load_champion(View(t))
               k == [job[t] EXCEPT !.pc = "active", !.champion = v]
    <3> HIDE DEF v
    <3>1. k.pc = "active"
      BY <1>e DEF Job
    <3>2. Ends(t) \/ Become(t, k)
      BY <2>4 DEF LoadChampion, v
    <3> QED BY <1>a, <1>c, <2>2, <2>3, <2>4, <3>1, <3>2
  <2>5. CASE CheckActive(t)
    <3> DEFINE p == failed_attempts(View(t), job[t].champion) >= MaxAttempts
               k == [job[t] EXCEPT !.pc = "review", !.plateau = p]
    <3> HIDE DEF p
    <3>1. k.pc = "review"
      BY <1>e DEF Job
    <3>2. Ends(t) \/ Become(t, k)
      BY <2>5 DEF CheckActive, p
    <3> QED BY <1>a, <1>c, <2>2, <2>3, <2>5, <3>1, <3>2
  <2>6. CASE Review(t)
    <3>1. Ends(t) \/ \E c, ok, passed : Become(t, [job[t] EXCEPT !.pc = "hypothesis", !.change = c,
                                                               !.accepted = ok, !.passed = passed])
      BY <2>6, Zenon DEF Review
    <3>2. ASSUME NEW c, NEW ok, NEW passed,
                 Become(t, [job[t] EXCEPT !.pc = "hypothesis", !.change = c, !.accepted = ok, !.passed = passed])
          PROVE  Frame /\ job'[t].pc = "hypothesis"
      <4> DEFINE k == [job[t] EXCEPT !.pc = "hypothesis", !.change = c, !.accepted = ok, !.passed = passed]
      <4>1. k.pc = "hypothesis"
        BY <1>e DEF Job
      <4>2. Become(t, k)
        BY <3>2
      <4> HIDE DEF k
      <4> QED BY <1>a, <4>1, <4>2
    <3> QED BY <1>c, <2>2, <2>3, <2>6, <3>1, <3>2
  <2>7. CASE InsertHypothesis(t)
    <3> DEFINE n == Len(db.hypotheses) + 1
               k == [job[t] EXCEPT !.pc = "version", !.hyp = n]
    <3> HIDE DEF n
    <3>1. k.pc = "version"
      BY <1>e DEF Job
    <3>2. Ends(t) \/ Become(t, k)
      BY <2>7 DEF InsertHypothesis, n
    <3> QED BY <1>a, <1>c, <2>2, <2>3, <2>7, <3>1, <3>2
  <2>8. CASE InsertChallenger(t)
    <3> DEFINE n == Len(db.versions) + 1
               k == [job[t] EXCEPT !.pc = "experiment", !.challenger = n]
    <3> HIDE DEF n
    <3>1. k.pc = "experiment"
      BY <1>e DEF Job
    <3>2. Ends(t) \/ Become(t, k)
      BY <2>8 DEF InsertChallenger, n
    <3> QED BY <1>a, <1>c, <2>2, <2>3, <2>8, <3>1, <3>2
  <2>9. CASE InsertExperiment(t)
    <3> DEFINE n == Len(db.experiments) + 1
               k == [job[t] EXCEPT !.pc = "reject", !.exp = n]
    <3> HIDE DEF n
    <3>1. k.pc = "reject"
      BY <1>e DEF Job
    <3>2. Ends(t) \/ Become(t, k)
      BY <2>9 DEF InsertExperiment, n, Raises
    <3> QED BY <1>a, <1>c, <2>2, <2>3, <2>9, <3>1, <3>2
  <2>10. CASE RejectOffline(t)
    BY <2>10, <1>c DEF RejectOffline
  <2> QED BY <1>4, <2>1, <2>4, <2>5, <2>6, <2>7, <2>8, <2>9, <2>10 DEF EvolveStep
<1>5. CASE t = "shadow" /\ ShadowStep
  <2>1. {"decide", "refuse", "begin", "retire", "crown", "commit"} \subseteq LabelsOf(t)
    BY <1>5 DEF LabelsOf, ShadowLabels, PromoteLabels
  <2>2. CASE EvaluateShadow
    <3>1. \E e, verdict, c : Become("shadow", [IdleJob EXCEPT !.pc = "decide", !.exp = e,
                                               !.verdict = verdict, !.challenger = c])
      BY <2>2, Zenon DEF EvaluateShadow
    <3>2. ASSUME NEW e, NEW verdict, NEW c,
                 Become(t, [IdleJob EXCEPT !.pc = "decide", !.exp = e, !.verdict = verdict, !.challenger = c])
          PROVE  Frame /\ job'[t].pc = "decide"
      <4> DEFINE k == [IdleJob EXCEPT !.pc = "decide", !.exp = e, !.verdict = verdict, !.challenger = c]
      <4>1. k.pc = "decide"
        BY DEF IdleJob
      <4>2. Become(t, k)
        BY <3>2
      <4> HIDE DEF k
      <4> QED BY <1>a, <4>1, <4>2
    <3> QED BY <1>5, <2>1, <2>2, <3>1, <3>2 DEF Arrives
  <2>3. CASE Decide
    <3>1. Goto(t, "begin") \/ Goto(t, "refuse")
      BY <1>5, <2>3 DEF Decide
    <3> QED BY <1>5, <2>1, <2>3, <1>b, <3>1 DEF Arrives
  <2>4. CASE Refuse \/ Commit
    BY <1>5, <2>4, <1>c DEF Refuse, Commit
  <2>5. CASE BeginPromotion
    <3> DEFINE v == load_champion(db)
               k == [job[t] EXCEPT !.pc = "retire", !.champion = v]
    <3> HIDE DEF v
    <3>1. k.pc = "retire"
      BY <1>e DEF Job
    <3>2. Become(t, k)
      BY <1>5, <2>5 DEF BeginPromotion, v
    <3> QED BY <1>5, <1>a, <2>1, <2>5, <3>1, <3>2 DEF Arrives
  <2>6. CASE Retire
    BY <1>5, <2>1, <2>6, <1>b DEF Retire, Arrives
  <2>7. CASE Crown
    <3>1. Raises(t) \/ Goto(t, "commit")
      BY <1>5, <2>7 DEF Crown
    <3> QED BY <1>5, <1>b, <1>d, <2>1, <2>7, <3>1 DEF Arrives
  <2> QED BY <1>5, <2>2, <2>3, <2>4, <2>5, <2>6, <2>7 DEF ShadowStep
<1>6. CASE JobRaises(t)
  BY <1>6, <1>d DEF JobRaises
<1> QED BY <1>1, <1>2, <1>3, <1>4, <1>5, <1>6 DEF ThreadStep

(* What a statement of a thread does to the tables of its connection.         *)
Crowns(t) ==
  LET v == job[t].champion
  IN At(t, "recrown") /\ MayBe(db, v, "champion") /\ db' = SetStatus(db, v, "champion")
Seeds(t) ==
  At(t, "seed") /\ TagFree(db, "seed") /\ db' = InsertVersion(db, "seed", "champion")
Proposes(t) ==
  At(t, "hypothesis") /\ db' = insert_hypothesis(db, job[t].champion, job[t].accepted)
Stages(t) ==
  LET j == job[t]
  IN /\ At(t, "version") /\ TagFree(db, j.change)
     /\ db' = InsertVersion(db, j.change, IF j.passed THEN "shadow" ELSE "rejected")
Records(t) ==
  LET j == job[t]
  IN /\ At(t, "experiment")
     /\ j.challenger \in Ids(db.versions) /\ j.hyp \in Ids(db.hypotheses)
     /\ db' = insert_experiment(db, j.hyp, j.champion, j.challenger, j.passed)
Rejects(t) == At(t, "reject") /\ db' = decide(db, job[t].exp, "rejected")
Decides(t) == At(t, "decide") /\ db' = decide(db, job[t].exp, job[t].verdict)
Refuses(t) == At(t, "refuse") /\ db' = SetStatus(db, job[t].challenger, "rejected")
Retires(t) ==
  LET v == job[t].champion
  IN At(t, "retire") /\ db' = (IF v = None THEN db ELSE SetStatus(db, v, "retired"))
Promotes(t) ==
  LET v == job[t].challenger
  IN At(t, "crown") /\ MayBe(db, v, "champion") /\ db' = SetStatus(db, v, "champion")
Alters(t) ==
  \/ Crowns(t) \/ Seeds(t) \/ Proposes(t) \/ Stages(t) \/ Records(t) \/ Rejects(t)
  \/ Decides(t) \/ Refuses(t) \/ Retires(t) \/ Promotes(t)

Undone ==
  /\ open /\ open' = FALSE
  /\ db' = committed /\ committed' = committed
  /\ job'["shadow"].pc = "idle" /\ interrupted'

DataMoves(t) ==
  \/ UNCHANGED <<db, committed, open>>
  \/ Write(t, db') /\ Alters(t)
  \/ t = "shadow" /\ BeginPromotion
  \/ t = "shadow" /\ Commit
  \/ t = "shadow" /\ Undone

LEMMA RaisesMoves ==
  ASSUME TypeInv, NEW t \in Threads, Raises(t)
  PROVE  DataMoves(t)
<1>1. CASE RollsBack(t)
  <2>1. job'[t] = IdleJob
    BY BecomeMoves DEF Raises, Ends
  <2>2. job'[t].pc = "idle" /\ t = "shadow" /\ t \in Evolvers \cup {"shadow"}
    BY <1>1, <2>1 DEF RollsBack, IdleJob
  <2>3. open /\ open' = FALSE /\ db' = committed /\ committed' = committed
    BY <1>1 DEF Raises, RollsBack
  <2>4. interrupted'
    BY <2>2, Zenon DEF Raises
  <2> QED BY <2>2, <2>3, <2>4 DEF DataMoves, Undone
<1>2. CASE ~RollsBack(t)
  BY <1>2 DEF Raises, DataMoves
<1> QED BY <1>1, <1>2

LEMMA WriteMoves ==
  ASSUME NEW t, NEW d, Write(t, d)
  PROVE  Write(t, db') /\ db' = d
BY DEF Write

LEMMA ThreadMoves ==
  ASSUME TypeInv, NEW t \in Threads, ThreadStep(t)
  PROVE  DataMoves(t)
<1>a. ASSUME NoWrite PROVE DataMoves(t)
  BY <1>a DEF NoWrite, DataMoves
<1>b. ASSUME NEW d, Write(t, d), db' = d => Alters(t) PROVE DataMoves(t)
  BY <1>b, WriteMoves DEF DataMoves
<1>1. CASE Boot \/ StartTick
  BY <1>a, <1>1 DEF Boot, StartTick
<1>2. CASE EnsureStep(t)
  <2>1. CASE EnsureLoads(t) \/ EnsureFinds(t)
    BY <1>a, <2>1 DEF EnsureLoads, EnsureFinds
  <2>2. CASE EnsureCrowns(t)
    BY <1>b, <2>2, RaisesMoves DEF EnsureCrowns, Alters, Crowns
  <2>3. CASE EnsureSeeds(t)
    BY <1>b, <2>3, RaisesMoves DEF EnsureSeeds, Alters, Seeds
  <2> QED BY <1>2, <2>1, <2>2, <2>3 DEF EnsureStep
<1>3. CASE EvolveStep(t)
  <2>1. CASE StartEvolve(t) \/ LoadChampion(t) \/ CheckActive(t) \/ Review(t)
    BY <1>a, <2>1, Zenon DEF StartEvolve, LoadChampion, CheckActive, Review
  <2>2. CASE InsertHypothesis(t)
    BY <1>b, <2>2 DEF InsertHypothesis, Alters, Proposes
  <2>3. CASE InsertChallenger(t)
    BY <1>a, <1>b, <2>3 DEF InsertChallenger, Alters, Stages
  <2>4. CASE InsertExperiment(t)
    BY <1>b, <2>4, RaisesMoves DEF InsertExperiment, Alters, Records, References
  <2>5. CASE RejectOffline(t)
    BY <1>b, <2>5 DEF RejectOffline, Alters, Rejects
  <2> QED BY <1>3, <2>1, <2>2, <2>3, <2>4, <2>5 DEF EvolveStep
<1>4. CASE t = "shadow" /\ ShadowStep
  <2>1. CASE EvaluateShadow
    BY <1>a, <2>1, Zenon DEF EvaluateShadow
  <2>2. CASE Decide
    BY <1>4, <1>b, <2>2 DEF Decide, Alters, Decides
  <2>3. CASE Refuse
    BY <1>4, <1>b, <2>3 DEF Refuse, Alters, Refuses
  <2>4. CASE Retire
    BY <1>4, <1>b, <2>4 DEF Retire, Alters, Retires
  <2>5. CASE Crown
    BY <1>4, <1>b, <2>5, RaisesMoves DEF Crown, Alters, Promotes
  <2>6. CASE BeginPromotion \/ Commit
    BY <1>4, <2>6 DEF DataMoves
  <2> QED BY <1>4, <2>1, <2>2, <2>3, <2>4, <2>5, <2>6 DEF ShadowStep
<1>5. CASE JobRaises(t)
  BY <1>5, RaisesMoves DEF JobRaises
<1> QED BY <1>1, <1>2, <1>3, <1>4, <1>5 DEF ThreadStep

LEMMA CrashMoves ==
  ASSUME TypeInv, Crash
  PROVE  /\ \A t \in Threads : job'[t] = IF t = "cli" THEN job[t] ELSE IdleJob
         /\ db' = committed /\ committed' = committed /\ open' = FALSE
         /\ job["shadow"].pc # "idle" => interrupted'
         /\ overlapped' = (overlapped \/ Overlap(job'))
BY DEF TypeInv, Crash, Jobs, At

LEMMA HistoryGrows ==
  ASSUME TypeInv, [Next]_vars
  PROVE  (overlapped => overlapped') /\ (interrupted => interrupted')
<1>1. overlapped => overlapped'
  BY Actors, ThreadArrives, CrashMoves DEF vars
<1>2. ASSUME NEW t \in Threads, ThreadStep(t) PROVE interrupted => interrupted'
  BY <1>2, Zenon
     DEF ThreadStep, Boot, StartTick, EnsureStep, EnsureLoads, EnsureFinds, EnsureCrowns,
         EnsureSeeds, EvolveStep, StartEvolve, LoadChampion, CheckActive, Review,
         InsertHypothesis, InsertChallenger, InsertExperiment, RejectOffline, ShadowStep,
         EvaluateShadow, Decide, Refuse, BeginPromotion, Retire, Crown, Commit, JobRaises,
         Raises, Quiet
<1>3. interrupted => interrupted'
  BY <1>2, Actors DEF Crash, vars
<1> QED BY <1>1, <1>3

-----------------------------------------------------------------------------
(* Types. *)

LEMMA OneOfIn ==
  ASSUME NEW S, None \notin S
  PROVE  /\ S = {} => OneOf(S) = None
         /\ S # {} => OneOf(S) \in S
         /\ OneOf(S) = None => S = {}
<1>1. CASE S = {}
  BY <1>1 DEF OneOf
<1>2. CASE S # {}
  <2>1. \E x \in S : TRUE
    BY <1>2
  <2>2. OneOf(S) = CHOOSE x \in S : TRUE
    BY <1>2 DEF OneOf
  <2>3. OneOf(S) \in S
    BY <2>1, <2>2
  <2> QED BY <1>2, <2>3
<1> QED BY <1>1, <1>2

LEMMA NewestIn ==
  ASSUME NEW n \in Nat, NEW S \in SUBSET (1..n), S # {}
  PROVE  Newest(S) \in S
<1> DEFINE T == {m..n : m \in S}
<1>1. T # {} /\ T \subseteq FiniteSubsetsOf(1..n)
  <2>1. \A m \in S : m..n \in SUBSET (1..n)
    OBVIOUS
  <2>2. IsFiniteSet(1..n)
    BY FS_Interval
  <2>3. FiniteSubsetsOf(1..n) = SUBSET (1..n)
    BY <2>2, FS_FiniteSubsetsOfFinite
  <2>4. T # {} /\ \A x \in T : x \in SUBSET (1..n)
    BY <2>1
  <2> HIDE DEF T
  <2> QED BY <2>3, <2>4
<1>2. PICK s \in T : \A u \in T : ~ (<<u, s>> \in StrictSubsetOrdering(1..n))
  <2> HIDE DEF T
  <2> QED BY <1>1, FS_Interval, FS_StrictSubsetOrderingWellFounded, WFMin
<1>3. PICK x \in S : s = x..n
  BY <1>2
<1>4. ASSUME NEW y \in S PROVE y <= x
  <2> SUFFICES ASSUME x < y PROVE FALSE
    OBVIOUS
  <2>1. y..n \in T /\ y..n \subseteq s /\ x \in s /\ x \notin y..n /\ s \in SUBSET (1..n)
    BY <1>3
  <2>2. <<y..n, s>> \in StrictSubsetOrdering(1..n)
    BY <2>1 DEF StrictSubsetOrdering
  <2> QED BY <1>2, <2>1, <2>2
<1> QED BY <1>4 DEF Newest

LEMMA TagIn ==
  ASSUME NEW d \in Tables, NEW tag
  PROVE  /\ get_by_tag(d, tag) # None =>
              get_by_tag(d, tag) \in Ids(d.versions) /\ d.versions[get_by_tag(d, tag)].tag = tag
         /\ TagFree(d, tag) => \A v \in Ids(d.versions) : d.versions[v].tag # tag
<1> DEFINE S == {v \in Ids(d.versions) : d.versions[v].tag = tag}
<1>1. None \notin S
  BY TablesType DEF None
<1>2. OneOf(S) # None => OneOf(S) \in S
  BY <1>1, OneOfIn
<1>3. OneOf(S) = None => S = {}
  BY <1>1, OneOfIn
<1> QED BY <1>2, <1>3 DEF get_by_tag, TagFree

LEMMA ChampionIn ==
  ASSUME NEW d \in Tables
  PROVE  /\ load_champion(d) # None => load_champion(d) \in WithStatus(d, "champion")
         /\ load_champion(d) = None => WithStatus(d, "champion") = {}
         /\ \A c : WithStatus(d, "champion") = {c} => load_champion(d) = c
<1>1. None \notin WithStatus(d, "champion")
  BY TablesType DEF None, WithStatus
<1> QED BY <1>1, OneOfIn DEF load_champion

LEMMA ActiveIn ==
  ASSUME NEW d \in Tables
  PROVE  /\ active_experiment(d) # None => active_experiment(d) \in Undecided(d)
         /\ active_experiment(d) = None => Undecided(d) = {}
<1>1. Undecided(d) \in SUBSET (1..Len(d.experiments)) /\ Len(d.experiments) \in Nat
  BY TablesType DEF Undecided
<1>2. Undecided(d) # {} => Newest(Undecided(d)) \in Undecided(d)
  BY <1>1, NewestIn
<1>3. Undecided(d) = {} => Newest(Undecided(d)) = None
  BY DEF Newest
<1>4. None \notin Undecided(d)
  BY <1>1 DEF None
<1> QED BY <1>2, <1>3, <1>4 DEF active_experiment

LEMMA IdlePc == IdleJob \in Job /\ IdleJob.pc = "idle"
BY DEF IdleJob, Job, None, Verdicts

LEMMA ViewType == ASSUME TypeInv, NEW t PROVE View(t) \in Tables
BY DEF TypeInv, View

(* The local variables a step sets.                                           *)
LEMMA ThreadJob ==
  ASSUME TypeInv, ShapeInv, NEW t \in Threads, ThreadStep(t)
  PROVE  job'[t] \in Job
<1>a. ASSUME NEW k \in Job, Become(t, k) PROVE job'[t] \in Job
  BY <1>a, BecomeMoves
<1>b. ASSUME NEW label \in {"idle"} \cup EnsureLabels \cup EvolveLabels \cup ShadowLabels,
             Goto(t, label)
      PROVE  job'[t] \in Job
  <2>1. job'[t] = [job[t] EXCEPT !.pc = label] /\ job[t] \in Job
    BY <1>b, GotoMoves
  <2> QED BY <1>b, <2>1 DEF Job
<1>c. Ends(t) => job'[t] \in Job
  BY <1>a, IdlePc DEF Ends
<1>d. Raises(t) => job'[t] \in Job
  BY <1>c DEF Raises
<1>e. job[t] \in Job
  BY DEF TypeInv
<1>f. None \in Nat /\ \A d \in Tables : load_champion(d) \in Nat
  BY ChampionIn, TablesType DEF None, WithStatus
<1>g. ASSUME NEW label, Goto(t, label),
             label \in {"ensure", "find", "load", "begin", "refuse", "crown", "commit"}
      PROVE  job'[t] \in Job
  BY <1>b, <1>g DEF EnsureLabels, EvolveLabels, ShadowLabels, PromoteLabels
<1>1. CASE (t = "main" /\ Boot) \/ (t = "tick" /\ StartTick) \/ StartEvolve(t)
  BY <1>1, <1>g DEF Boot, StartTick, StartEvolve, Starts
<1>2. CASE EnsureStep(t)
  <2>1. Ensured(t) => job'[t] \in Job
    BY <1>c, <1>g DEF Ensured
  <2>2. CASE EnsureLoads(t)
    BY <2>1, <2>2, <1>g DEF EnsureLoads
  <2>3. CASE EnsureFinds(t)
    <3> DEFINE v == get_by_tag(View(t), "seed")
               label == IF v # None THEN "recrown" ELSE "seed"
               k == [job[t] EXCEPT !.pc = label, !.champion = v]
    <3>1. v \in Nat
      BY ViewType, TagIn, TablesType DEF None
    <3>2. label \in EnsureLabels
      BY DEF EnsureLabels
    <3>3. Become(t, k)
      BY <2>3 DEF EnsureFinds
    <3> HIDE DEF v, label
    <3>4. k \in Job
      BY <1>e, <3>1, <3>2 DEF Job
    <3> QED BY <1>a, <3>3, <3>4
  <2>4. CASE EnsureCrowns(t) \/ EnsureSeeds(t)
    BY <2>1, <2>4, <1>d DEF EnsureCrowns, EnsureSeeds
  <2> QED BY <1>2, <2>2, <2>3, <2>4 DEF EnsureStep
<1>3. CASE EvolveStep(t)
  <2>1. CASE LoadChampion(t)
    <3> DEFINE v == load_champion(View(t))
               k == [job[t] EXCEPT !.pc = "active", !.champion = v]
    <3>1. v \in Nat
      BY <1>f, ViewType
    <3>2. Ends(t) \/ Become(t, k)
      BY <2>1 DEF LoadChampion
    <3> HIDE DEF v
    <3>3. k \in Job
      BY <1>e, <3>1 DEF Job, EvolveLabels
    <3> QED BY <1>a, <1>c, <3>2, <3>3
  <2>2. CASE CheckActive(t)
    <3> DEFINE p == failed_attempts(View(t), job[t].champion) >= MaxAttempts
               k == [job[t] EXCEPT !.pc = "review", !.plateau = p]
    <3>2. Ends(t) \/ Become(t, k)
      BY <2>2 DEF CheckActive
    <3>1. p \in BOOLEAN
      OBVIOUS
    <3> HIDE DEF p
    <3>3. k \in Job
      BY <1>e, <3>1 DEF Job, EvolveLabels
    <3> QED BY <1>a, <1>c, <3>2, <3>3
  <2>3. CASE Review(t)
    <3>1. Ends(t) \/ \E c \in Changes, ok, passed \in BOOLEAN :
            Become(t, [job[t] EXCEPT !.pc = "hypothesis", !.change = c, !.accepted = ok,
                                     !.passed = passed])
      BY <2>3, Zenon DEF Review, apply_candidate, PassesOffline
    <3>2. ASSUME NEW c \in Changes, NEW ok \in BOOLEAN, NEW passed \in BOOLEAN,
                 Become(t, [job[t] EXCEPT !.pc = "hypothesis", !.change = c, !.accepted = ok,
                                          !.passed = passed])
          PROVE  job'[t] \in Job
      <4> DEFINE k == [job[t] EXCEPT !.pc = "hypothesis", !.change = c, !.accepted = ok,
                                     !.passed = passed]
      <4>1. k \in Job
        BY <1>e DEF Job, EvolveLabels
      <4> QED BY <1>a, <3>2, <4>1
    <3> QED BY <1>c, <3>1, <3>2
  <2>4. CASE InsertHypothesis(t)
    <3> DEFINE n == Len(db.hypotheses) + 1
               k == [job[t] EXCEPT !.pc = "version", !.hyp = n]
    <3>1. n \in Nat
      BY TablesType DEF TypeInv
    <3>2. Ends(t) \/ Become(t, k)
      BY <2>4 DEF InsertHypothesis
    <3> HIDE DEF n
    <3>3. k \in Job
      BY <1>e, <3>1 DEF Job, EvolveLabels
    <3> QED BY <1>a, <1>c, <3>2, <3>3
  <2>5. CASE InsertChallenger(t)
    <3> DEFINE n == Len(db.versions) + 1
               k == [job[t] EXCEPT !.pc = "experiment", !.challenger = n]
    <3>1. n \in Nat
      BY TablesType DEF TypeInv
    <3>2. Ends(t) \/ Become(t, k)
      BY <2>5 DEF InsertChallenger
    <3> HIDE DEF n
    <3>3. k \in Job
      BY <1>e, <3>1 DEF Job, EvolveLabels
    <3> QED BY <1>a, <1>c, <3>2, <3>3
  <2>6. CASE InsertExperiment(t)
    <3> DEFINE n == Len(db.experiments) + 1
               k == [job[t] EXCEPT !.pc = "reject", !.exp = n]
    <3>1. n \in Nat
      BY TablesType DEF TypeInv
    <3>2. Ends(t) \/ Become(t, k) \/ Raises(t)
      BY <2>6 DEF InsertExperiment
    <3> HIDE DEF n
    <3>3. k \in Job
      BY <1>e, <3>1 DEF Job, EvolveLabels
    <3> QED BY <1>a, <1>c, <1>d, <3>2, <3>3
  <2>7. CASE RejectOffline(t)
    BY <2>7, <1>c DEF RejectOffline
  <2> QED BY <1>1, <1>3, <2>1, <2>2, <2>3, <2>4, <2>5, <2>6, <2>7 DEF EvolveStep
<1>4. CASE t = "shadow" /\ ShadowStep
  <2>1. CASE EvaluateShadow
    <3> DEFINE e == active_experiment(db)
               c == db.experiments[e].challenger
    <3>1. e \in Ids(db.experiments)
      BY <2>1, ActiveIn DEF EvaluateShadow, TypeInv, Undecided
    <3>2. e \in Nat /\ c \in Nat
      BY <3>1, TablesType DEF TypeInv, Experiment
    <3>3. \E verdict \in Verdicts :
            Become(t, [IdleJob EXCEPT !.pc = "decide", !.exp = e, !.verdict = verdict,
                                      !.challenger = c])
      BY <1>4, <2>1 DEF EvaluateShadow, Arbitrate, Verdicts
    <3> HIDE DEF e, c
    <3>4. ASSUME NEW verdict \in Verdicts,
                 Become(t, [IdleJob EXCEPT !.pc = "decide", !.exp = e, !.verdict = verdict,
                                           !.challenger = c])
          PROVE  job'[t] \in Job
      <4> DEFINE k == [IdleJob EXCEPT !.pc = "decide", !.exp = e, !.verdict = verdict,
                                      !.challenger = c]
      <4>1. k \in Job
        BY <3>2, IdlePc DEF Job, ShadowLabels
      <4> QED BY <1>a, <3>4, <4>1
    <3> QED BY <3>3, <3>4
  <2>2. CASE Decide \/ Retire
    BY <1>4, <2>2, <1>g DEF Decide, Retire
  <2>3. CASE Refuse \/ Commit
    BY <1>4, <2>3, <1>c DEF Refuse, Commit
  <2>4. CASE BeginPromotion
    <3> DEFINE v == load_champion(db)
               k == [job[t] EXCEPT !.pc = "retire", !.champion = v]
    <3>1. v \in Nat
      BY <1>f DEF TypeInv
    <3>2. Become(t, k)
      BY <1>4, <2>4 DEF BeginPromotion
    <3> HIDE DEF v
    <3>3. k \in Job
      BY <1>e, <3>1 DEF Job, ShadowLabels, PromoteLabels
    <3> QED BY <1>a, <3>2, <3>3
  <2>5. CASE Crown
    BY <1>4, <2>5, <1>d, <1>g DEF Crown
  <2> QED BY <1>4, <2>1, <2>2, <2>3, <2>4, <2>5 DEF ShadowStep
<1>5. CASE JobRaises(t)
  BY <1>5, <1>d DEF JobRaises
<1> QED BY <1>1, <1>2, <1>3, <1>4, <1>5 DEF ThreadStep

(* Every statement keeps the tables well-formed and takes nothing away.        *)
Grows(d, e) ==
  /\ e \in Tables
  /\ Len(d.versions) <= Len(e.versions)
  /\ Len(d.hypotheses) <= Len(e.hypotheses)
  /\ Len(d.experiments) <= Len(e.experiments)
  /\ Ids(d.versions) \subseteq Ids(e.versions)
  /\ Ids(d.hypotheses) \subseteq Ids(e.hypotheses)
  /\ Ids(d.experiments) \subseteq Ids(e.experiments)

LEMMA GrowsOn ==
  ASSUME NEW d \in Tables, NEW e \in Tables, NEW f, Grows(d, e), Grows(e, f)
  PROVE  Grows(d, f)
<1>1. f \in Tables
  BY DEF Grows
<1>2. \A g \in {d, e, f} : /\ Len(g.versions) \in Nat
                          /\ Len(g.hypotheses) \in Nat
                          /\ Len(g.experiments) \in Nat
  BY <1>1, TablesType
<1> QED BY <1>1, <1>2 DEF Grows

LEMMA LongerHolds ==
  ASSUME TypeInv, ShapeInv
  PROVE  /\ Ids(committed.versions) \subseteq Ids(db.versions)
         /\ Ids(committed.hypotheses) \subseteq Ids(db.hypotheses)
         /\ Ids(committed.experiments) \subseteq Ids(db.experiments)
BY TablesType DEF TypeInv, ShapeInv

LEMMA SetStatusShape ==
  ASSUME NEW d \in Tables, Refs(d), Seeded(d), NEW v \in Ids(d.versions), NEW s \in Statuses,
         NEW e, e = SetStatus(d, v, s)
  PROVE  /\ Grows(d, e) /\ Refs(e) /\ Seeded(e)
         /\ WithStatus(e, "champion") = IF s = "champion" THEN WithStatus(d, "champion") \cup {v}
                                                          ELSE WithStatus(d, "champion") \ {v}
<1>1. /\ e \in Tables /\ e.hypotheses = d.hypotheses /\ e.experiments = d.experiments
      /\ Len(e.versions) = Len(d.versions) /\ Ids(e.versions) = Ids(d.versions)
      /\ \A u \in Ids(d.versions) :
           /\ e.versions[u].tag = d.versions[u].tag
           /\ e.versions[u].status = IF u = v THEN s ELSE d.versions[u].status
  BY SetStatusIs
<1>2. Len(d.versions) \in Nat /\ Len(d.hypotheses) \in Nat /\ Len(d.experiments) \in Nat
  BY TablesType
<1>3. Grows(d, e)
  BY <1>1, <1>2 DEF Grows
<1>4. Refs(e) /\ Seeded(e)
  BY <1>1 DEF Refs, Seeded
<1>5. WithStatus(e, "champion") = IF s = "champion" THEN WithStatus(d, "champion") \cup {v}
                                                    ELSE WithStatus(d, "champion") \ {v}
  BY <1>1 DEF WithStatus
<1> QED BY <1>3, <1>4, <1>5

LEMMA InsertVersionShape ==
  ASSUME NEW d \in Tables, Refs(d), Seeded(d), NEW tag \in Changes \cup {"seed"}, TagFree(d, tag),
         tag = "seed" \/ d.versions # <<>>,
         NEW s \in Statuses, NEW e, e = InsertVersion(d, tag, s), NEW n \in Nat, n = Len(d.versions) + 1
  PROVE  /\ Grows(d, e) /\ Refs(e) /\ Seeded(e)
         /\ s = "champion" => WithStatus(e, "champion") = WithStatus(d, "champion") \cup {n}
         /\ s # "champion" => WithStatus(e, "champion") = WithStatus(d, "champion")
         /\ tag = "seed" => Len(d.versions) = 0
<1>a. VersionAdded(d, e, n, tag, s)
  BY InsertVersionIs
<1>1. /\ e \in Tables /\ e.hypotheses = d.hypotheses /\ e.experiments = d.experiments
      /\ Len(e.versions) = n
      /\ n \in Ids(e.versions) /\ Ids(d.versions) \subseteq Ids(e.versions)
      /\ \A u \in Ids(e.versions) : u = n \/ u \in Ids(d.versions)
      /\ n \notin Ids(d.versions)
      /\ e.versions[n].tag = tag /\ e.versions[n].status = s
      /\ \A u \in Ids(d.versions) : e.versions[u] = d.versions[u]
  BY <1>a DEF VersionAdded
<1>2. Len(d.versions) \in Nat /\ Len(d.hypotheses) \in Nat /\ Len(d.experiments) \in Nat
      /\ Ids(d.versions) = 1..Len(d.versions)
  BY TablesType
<1>3. Grows(d, e)
  BY <1>1, <1>2 DEF Grows
<1>4. Refs(e)
  BY <1>1 DEF Refs
<1>5. tag = "seed" => Len(d.versions) = 0
  <2> SUFFICES ASSUME tag = "seed", Len(d.versions) # 0 PROVE FALSE
    OBVIOUS
  <2>1. 1 \in Ids(d.versions)
    BY <1>2
  <2> QED BY <2>1, TagIn DEF Seeded
<1>6. d.versions # <<>> => Len(d.versions) # 0
  BY EmptySeq DEF Tables
<1>7. tag = "seed" <=> n = 1
  BY <1>2, <1>5, <1>6
<1>8. Seeded(e)
  BY <1>1, <1>7 DEF Seeded
<1>9. /\ s = "champion" => WithStatus(e, "champion") = WithStatus(d, "champion") \cup {n}
      /\ s # "champion" => WithStatus(e, "champion") = WithStatus(d, "champion")
  BY <1>1 DEF WithStatus
<1> QED BY <1>3, <1>4, <1>5, <1>8, <1>9

LEMMA InsertHypothesisShape ==
  ASSUME NEW d \in Tables, Refs(d), Seeded(d), NEW champion \in Ids(d.versions),
         NEW accepted \in BOOLEAN, NEW e, e = insert_hypothesis(d, champion, accepted)
  PROVE  /\ Grows(d, e) /\ Refs(e) /\ Seeded(e)
         /\ WithStatus(e, "champion") = WithStatus(d, "champion")
<1> DEFINE n == Len(d.hypotheses) + 1
<1>n. n \in Nat /\ n = Len(d.hypotheses) + 1
  BY TablesType
<1> HIDE DEF n
<1>0. champion \in Nat
  BY TablesType
<1>a. HypothesisAdded(d, e, n, champion, accepted)
  BY <1>0, <1>n, InsertHypothesisIs
<1>1. /\ e \in Tables /\ e.versions = d.versions /\ e.experiments = d.experiments
      /\ Len(e.hypotheses) = n
      /\ n \in Ids(e.hypotheses) /\ Ids(d.hypotheses) \subseteq Ids(e.hypotheses)
      /\ \A u \in Ids(e.hypotheses) : u = n \/ u \in Ids(d.hypotheses)
      /\ e.hypotheses[n] = [champion |-> champion, accepted |-> accepted]
      /\ \A u \in Ids(d.hypotheses) : e.hypotheses[u] = d.hypotheses[u]
  BY <1>a DEF HypothesisAdded
<1>2. Len(d.versions) \in Nat /\ Len(d.hypotheses) \in Nat /\ Len(d.experiments) \in Nat
  BY TablesType
<1>3. Grows(d, e)
  BY <1>1, <1>2, <1>n DEF Grows
<1> QED BY <1>1, <1>3 DEF Refs, Seeded, WithStatus

LEMMA InsertExperimentShape ==
  ASSUME NEW d \in Tables, Refs(d), Seeded(d), NEW hyp \in Ids(d.hypotheses),
         NEW champion \in Ids(d.versions), NEW challenger \in Ids(d.versions),
         NEW passed \in BOOLEAN,
         NEW e, e = insert_experiment(d, hyp, champion, challenger, passed)
  PROVE  /\ Grows(d, e) /\ Refs(e) /\ Seeded(e)
         /\ WithStatus(e, "champion") = WithStatus(d, "champion")
<1> DEFINE n == Len(d.experiments) + 1
<1>n. n \in Nat /\ n = Len(d.experiments) + 1
  BY TablesType
<1> HIDE DEF n
<1>0. hyp \in Nat /\ champion \in Nat /\ challenger \in Nat
  BY TablesType
<1>a. ExperimentAdded(d, e, n, hyp, champion, challenger, passed)
  BY <1>0, <1>n, InsertExperimentIs
<1>1. /\ e \in Tables /\ e.versions = d.versions /\ e.hypotheses = d.hypotheses
      /\ Len(e.experiments) = n
      /\ n \in Ids(e.experiments) /\ Ids(d.experiments) \subseteq Ids(e.experiments)
      /\ \A u \in Ids(e.experiments) : u = n \/ u \in Ids(d.experiments)
      /\ e.experiments[n] = [hyp |-> hyp, champion |-> champion, challenger |-> challenger,
                             shadow |-> passed, decision |-> "none"]
      /\ \A u \in Ids(d.experiments) : e.experiments[u] = d.experiments[u]
  BY <1>a DEF ExperimentAdded
<1>2. Len(d.versions) \in Nat /\ Len(d.hypotheses) \in Nat /\ Len(d.experiments) \in Nat
  BY TablesType
<1>3. Grows(d, e)
  BY <1>1, <1>2, <1>n DEF Grows
<1> QED BY <1>1, <1>3 DEF Refs, Seeded, WithStatus

LEMMA DecideShape ==
  ASSUME NEW d \in Tables, Refs(d), Seeded(d), NEW n \in Nat, NEW verdict \in Verdicts,
         NEW e, e = decide(d, n, verdict)
  PROVE  /\ Grows(d, e) /\ Refs(e) /\ Seeded(e)
         /\ WithStatus(e, "champion") = WithStatus(d, "champion")
<1>1. /\ e \in Tables /\ e.versions = d.versions /\ e.hypotheses = d.hypotheses
      /\ Len(e.experiments) = Len(d.experiments) /\ Ids(e.experiments) = Ids(d.experiments)
      /\ \A u \in Ids(d.experiments) :
           /\ e.experiments[u].hyp = d.experiments[u].hyp
           /\ e.experiments[u].champion = d.experiments[u].champion
           /\ e.experiments[u].challenger = d.experiments[u].challenger
  BY DecideIs
<1>2. Len(d.versions) \in Nat /\ Len(d.hypotheses) \in Nat /\ Len(d.experiments) \in Nat
  BY TablesType
<1>3. Grows(d, e)
  BY <1>1, <1>2 DEF Grows
<1> QED BY <1>1, <1>3 DEF Refs, Seeded, WithStatus

LEMMA AltersShape ==
  ASSUME TypeInv, ShapeInv, NEW t \in Threads, Alters(t)
  PROVE  /\ Grows(db, db') /\ Refs(db') /\ Seeded(db')
         /\ WithStatus(db', "champion") \subseteq
              Ids(committed.versions) \cup (IF open THEN {} ELSE Ids(db'.versions))
<1> DEFINE j == job[t]
           Shape(S) == /\ Grows(db, db') /\ Refs(db') /\ Seeded(db')
                       /\ WithStatus(db', "champion") = S
           Was == WithStatus(db, "champion")
<1>0. /\ j \in Job /\ db \in Tables /\ Refs(db) /\ Seeded(db)
      /\ Was \subseteq Ids(committed.versions)
      /\ Ids(committed.versions) \subseteq Ids(db.versions)
  BY LongerHolds DEF TypeInv, ShapeInv
<1>1. /\ "champion" \in Statuses /\ "retired" \in Statuses /\ "rejected" \in Statuses
      /\ "shadow" \in Statuses /\ "rejected" \in Verdicts
  BY DEF Statuses, Verdicts
<1>2. j.pc \in EvolveLabels \ {"load"} => j.champion \in Ids(committed.versions)
  BY DEF ShapeInv
<1>3. j.pc \in ShadowLabels => j.challenger \in Ids(committed.versions)
  BY DEF ShapeInv
<1>4. CASE Crowns(t)
  <2>1. j.champion \in Ids(committed.versions)
    BY <1>4 DEF Crowns, At, ShapeInv
  <2>2. Shape(Was \cup {j.champion})
    BY <1>0, <1>1, <1>4, <2>1, SetStatusShape DEF Crowns
  <2> QED BY <1>0, <2>1, <2>2
<1>5. CASE Seeds(t)
  <2> DEFINE n == Len(db.versions) + 1
  <2>a. n \in Nat /\ n = Len(db.versions) + 1
    BY <1>0, TablesType
  <2> HIDE DEF n
  <2>b. TagFree(db, "seed") /\ db' = InsertVersion(db, "seed", "champion")
    BY <1>5 DEF Seeds
  <2>c. Shape(Was \cup {n}) /\ Len(db.versions) = 0
    BY <1>0, <1>1, <2>a, <2>b, InsertVersionShape
  <2>1. \E m : Shape(Was \cup {m}) /\ Len(db.versions) = 0
    BY <2>c
  <2>2. ~open
    <3> SUFFICES ASSUME open PROVE FALSE
      OBVIOUS
    <3>1. job["shadow"].challenger \in Ids(committed.versions) /\ "shadow" \in Threads
      BY DEF ShapeInv, ShadowLabels, PromoteLabels, Threads
    <3> QED BY <1>0, <2>1, <3>1, TablesType
  <2> QED BY <2>1, <2>2 DEF WithStatus
<1>6. CASE Proposes(t)
  <2>1. j.champion \in Ids(committed.versions)
    BY <1>2, <1>6 DEF Proposes, At, EvolveLabels
  <2>2. Shape(Was)
    BY <1>0, <1>6, <2>1, InsertHypothesisShape DEF Proposes, Job
  <2> QED BY <1>0, <2>2
<1>7. CASE Stages(t)
  <2> DEFINE s == IF j.passed THEN "shadow" ELSE "rejected"
  <2>1. j.champion \in Ids(committed.versions)
    BY <1>2, <1>7 DEF Stages, At, EvolveLabels
  <2>2. db.versions # <<>>
    BY <1>0, <2>1 DEF Ids
  <2>3. s \in Statuses /\ s # "champion"
    BY <1>1
  <2>4. TagFree(db, j.change) /\ db' = InsertVersion(db, j.change, s) /\ j.change \in Changes \cup {"seed"}
    BY <1>0, <1>7 DEF Stages, Job
  <2> HIDE DEF s
  <2>5. Shape(Was)
    <3> DEFINE n == Len(db.versions) + 1
    <3>1. n \in Nat /\ n = Len(db.versions) + 1
      BY <1>0, TablesType
    <3> HIDE DEF n
    <3> QED BY <1>0, <2>2, <2>3, <2>4, <3>1, InsertVersionShape
  <2> QED BY <1>0, <2>5
<1>8. CASE Records(t)
  <2>1. j.champion \in Ids(committed.versions)
    BY <1>2, <1>8 DEF Records, At, EvolveLabels
  <2>2. Shape(Was)
    BY <1>0, <1>8, <2>1, InsertExperimentShape DEF Records, Job
  <2> QED BY <1>0, <2>2
<1>9. CASE Rejects(t) \/ Decides(t)
  <2>1. Shape(Was)
    BY <1>0, <1>1, <1>9, DecideShape DEF Rejects, Decides, Job
  <2> QED BY <1>0, <2>1
<1>10. CASE Refuses(t)
  <2>1. j.challenger \in Ids(committed.versions)
    BY <1>3, <1>10 DEF Refuses, At, ShadowLabels
  <2>2. Shape(Was \ {j.challenger})
    BY <1>0, <1>1, <1>10, <2>1, SetStatusShape DEF Refuses
  <2> QED BY <1>0, <2>2
<1>11. CASE Retires(t)
  <2>1. j.champion \in {None} \cup Ids(committed.versions)
    BY <1>11 DEF Retires, At, ShapeInv
  <2>2. CASE j.champion = None
    <3>1. db' = db
      BY <1>11, <2>2 DEF Retires
    <3> QED BY <1>0, <3>1, TablesType DEF Grows
  <2>3. CASE j.champion # None
    <3>1. Shape(Was \ {j.champion})
      BY <1>0, <1>1, <1>11, <2>1, <2>3, SetStatusShape DEF Retires
    <3> QED BY <1>0, <3>1
  <2> QED BY <2>2, <2>3
<1>12. CASE Promotes(t)
  <2>1. j.challenger \in Ids(committed.versions)
    BY <1>3, <1>12 DEF Promotes, At, ShadowLabels, PromoteLabels
  <2>2. Shape(Was \cup {j.challenger})
    BY <1>0, <1>1, <1>12, <2>1, SetStatusShape DEF Promotes
  <2> QED BY <1>0, <2>1, <2>2
<1> QED
  BY <1>4, <1>5, <1>6, <1>7, <1>8, <1>9, <1>10, <1>11, <1>12 DEF Alters

-----------------------------------------------------------------------------
(* What a step that arrives at a label has set. *)

LEMMA ToRecrown ==
  ASSUME TypeInv, NEW t \in Threads, EnsureFinds(t), job'[t].pc = "recrown"
  PROVE  /\ At(t, "find") /\ NoWrite
         /\ job'[t].champion = get_by_tag(View(t), "seed") /\ job'[t].champion # None
<1> DEFINE v == get_by_tag(View(t), "seed")
           label == IF v # None THEN "recrown" ELSE "seed"
<1> DEFINE k == [job[t] EXCEPT !.pc = label, !.champion = v]
<1>1. job[t] \in Job
  BY DEF TypeInv
<1>2. Become(t, k)
  BY DEF EnsureFinds
<1> HIDE DEF v, label
<1>3. k.pc = label /\ k.champion = v
  BY <1>1 DEF Job
<1> HIDE DEF k
<1>4. job'[t] = k
  BY <1>2, BecomeMoves, IdlePc
<1>5. ~Ends(t) /\ ~Raises(t)
  BY BecomeMoves, IdlePc DEF Ends, Raises
<1> QED BY <1>3, <1>4, <1>5 DEF EnsureFinds, v, label

LEMMA ToActive ==
  ASSUME TypeInv, NEW t \in Threads, LoadChampion(t), job'[t].pc = "active"
  PROVE  /\ At(t, "load") /\ NoWrite
         /\ job'[t].champion = load_champion(View(t)) /\ job'[t].champion # None
<1> DEFINE v == load_champion(View(t))
<1> DEFINE k == [job[t] EXCEPT !.pc = "active", !.champion = v]
<1>1. job[t] \in Job
  BY DEF TypeInv
<1>2. Become(t, k) \/ (Ends(t) /\ v = None)
  BY DEF LoadChampion
<1> HIDE DEF v
<1>3. k.pc = "active" /\ k.champion = v
  BY <1>1 DEF Job
<1> HIDE DEF k
<1>4. job'[t] = k
  BY <1>2, BecomeMoves, IdlePc DEF Ends, Raises
<1>5. ~Ends(t) /\ ~Raises(t)
  BY BecomeMoves, IdlePc DEF Ends, Raises
<1> QED BY <1>3, <1>4, <1>5 DEF LoadChampion, v

LEMMA ToReview ==
  ASSUME TypeInv, NEW t \in Threads, CheckActive(t), job'[t].pc = "review"
  PROVE  /\ At(t, "active") /\ NoWrite /\ ~Busy(View(t))
         /\ job'[t].champion = job[t].champion
         /\ job'[t].plateau = (failed_attempts(View(t), job[t].champion) >= MaxAttempts)
<1> DEFINE p == failed_attempts(View(t), job[t].champion) >= MaxAttempts
<1> DEFINE k == [job[t] EXCEPT !.pc = "review", !.plateau = p]
<1>1. job[t] \in Job
  BY DEF TypeInv
<1>2. Become(t, k) \/ (Ends(t) /\ Busy(View(t)))
  BY DEF CheckActive
<1> HIDE DEF p
<1>3. k.pc = "review" /\ k.plateau = p /\ k.champion = job[t].champion
  BY <1>1 DEF Job
<1> HIDE DEF k
<1>4. job'[t] = k
  BY <1>2, BecomeMoves, IdlePc DEF Ends, Raises
<1>5. ~Ends(t) /\ ~Raises(t)
  BY BecomeMoves, IdlePc DEF Ends, Raises
<1> QED BY <1>3, <1>4, <1>5 DEF CheckActive, p

LEMMA ToVersion ==
  ASSUME TypeInv, NEW t \in Threads, InsertHypothesis(t), job'[t].pc = "version"
  PROVE  /\ At(t, "hypothesis") /\ job[t].accepted
         /\ job'[t].champion = job[t].champion
         /\ job'[t].accepted = job[t].accepted
         /\ job'[t].passed = job[t].passed
         /\ job'[t].hyp = Len(db.hypotheses) + 1
         /\ Write(t, insert_hypothesis(db, job[t].champion, job[t].accepted))
<1> DEFINE n == Len(db.hypotheses) + 1
<1> DEFINE k == [job[t] EXCEPT !.pc = "version", !.hyp = n]
<1>1. job[t] \in Job
  BY DEF TypeInv
<1>2. Become(t, k) \/ (Ends(t) /\ ~job[t].accepted)
  BY DEF InsertHypothesis
<1> HIDE DEF n
<1>3. k.pc = "version" /\ k.hyp = n /\ k.champion = job[t].champion /\ k.accepted = job[t].accepted /\ k.passed = job[t].passed
  BY <1>1 DEF Job
<1> HIDE DEF k
<1>4. job'[t] = k
  BY <1>2, BecomeMoves, IdlePc DEF Ends, Raises
<1>5. ~Ends(t) /\ ~Raises(t)
  BY BecomeMoves, IdlePc DEF Ends, Raises
<1> QED BY <1>3, <1>4, <1>5 DEF InsertHypothesis, n

LEMMA ToExperiment ==
  ASSUME TypeInv, NEW t \in Threads, InsertChallenger(t), job'[t].pc = "experiment"
  PROVE  /\ At(t, "version") /\ TagFree(db, job[t].change)
         /\ job'[t].champion = job[t].champion
         /\ job'[t].hyp = job[t].hyp
         /\ job'[t].accepted = job[t].accepted
         /\ job'[t].passed = job[t].passed
         /\ job'[t].challenger = Len(db.versions) + 1
         /\ Write(t, InsertVersion(db, job[t].change, IF job[t].passed THEN "shadow" ELSE "rejected"))
<1> DEFINE n == Len(db.versions) + 1
<1> DEFINE k == [job[t] EXCEPT !.pc = "experiment", !.challenger = n]
<1>1. job[t] \in Job
  BY DEF TypeInv
<1>2. Become(t, k) \/ (Ends(t) /\ ~TagFree(db, job[t].change))
  BY DEF InsertChallenger
<1> HIDE DEF n
<1>3. k.pc = "experiment" /\ k.challenger = n /\ k.champion = job[t].champion /\ k.hyp = job[t].hyp /\ k.accepted = job[t].accepted /\ k.passed = job[t].passed
  BY <1>1 DEF Job
<1> HIDE DEF k
<1>4. job'[t] = k
  BY <1>2, BecomeMoves, IdlePc DEF Ends, Raises
<1>5. ~Ends(t) /\ ~Raises(t)
  BY BecomeMoves, IdlePc DEF Ends, Raises
<1> QED BY <1>3, <1>4, <1>5 DEF InsertChallenger, n

LEMMA ToReject ==
  ASSUME TypeInv, NEW t \in Threads, InsertExperiment(t), job'[t].pc = "reject"
  PROVE  /\ At(t, "experiment") /\ ~job[t].passed
         /\ job'[t].champion = job[t].champion
         /\ job'[t].exp = Len(db.experiments) + 1
         /\ job[t].challenger \in Ids(db.versions) /\ job[t].hyp \in Ids(db.hypotheses)
         /\ Write(t, insert_experiment(db, job[t].hyp, job[t].champion, job[t].challenger, job[t].passed))
<1> DEFINE n == Len(db.experiments) + 1
<1> DEFINE k == [job[t] EXCEPT !.pc = "reject", !.exp = n]
<1>1. job[t] \in Job
  BY DEF TypeInv
<1>2. Become(t, k) \/ (Ends(t) /\ job[t].passed) \/ Raises(t)
  BY DEF InsertExperiment, References
<1> HIDE DEF n
<1>3. k.pc = "reject" /\ k.exp = n /\ k.champion = job[t].champion
  BY <1>1 DEF Job
<1> HIDE DEF k
<1>4. job'[t] = k
  BY <1>2, BecomeMoves, IdlePc DEF Ends, Raises
<1>5. ~Ends(t) /\ ~Raises(t)
  BY BecomeMoves, IdlePc DEF Ends, Raises
<1> QED BY <1>3, <1>4, <1>5 DEF InsertExperiment, References, n

LEMMA ToRetire ==
  ASSUME TypeInv, NEW t \in Threads, t = "shadow", BeginPromotion, job'[t].pc = "retire"
  PROVE  /\ At(t, "begin") /\ UNCHANGED <<db, committed>> /\ open'
         /\ job'[t].exp = job[t].exp
         /\ job'[t].challenger = job[t].challenger
         /\ job'[t].champion = load_champion(db)
<1> DEFINE v == load_champion(db)
<1> DEFINE k == [job[t] EXCEPT !.pc = "retire", !.champion = v]
<1>1. job[t] \in Job
  BY DEF TypeInv
<1>2. Become(t, k)
  BY DEF BeginPromotion, Transaction
<1> HIDE DEF v
<1>3. k.pc = "retire" /\ k.champion = v /\ k.exp = job[t].exp /\ k.challenger = job[t].challenger
  BY <1>1 DEF Job
<1> HIDE DEF k
<1>4. job'[t] = k
  BY <1>2, BecomeMoves, IdlePc
<1>5. ~Ends(t) /\ ~Raises(t)
  BY BecomeMoves, IdlePc DEF Ends, Raises
<1> QED BY <1>3, <1>4, <1>5 DEF BeginPromotion, Transaction, v

LEMMA ToHypothesis ==
  ASSUME TypeInv, NEW t \in Threads, Review(t), job'[t].pc = "hypothesis"
  PROVE  /\ At(t, "review") /\ NoWrite
         /\ job'[t].champion = job[t].champion
         /\ job'[t].accepted => ~job[t].plateau
<1>1. job[t] \in Job
  BY DEF TypeInv
<1>2. Ends(t) \/ \E c \in Changes, ok, passed \in BOOLEAN :
        /\ Become(t, [job[t] EXCEPT !.pc = "hypothesis", !.change = c, !.accepted = ok,
                                    !.passed = passed])
        /\ ok => ~job[t].plateau
  BY Zenon DEF Review, apply_candidate, PassesOffline, enforce
<1>3. ASSUME NEW c \in Changes, NEW ok \in BOOLEAN, NEW passed \in BOOLEAN,
             Become(t, [job[t] EXCEPT !.pc = "hypothesis", !.change = c, !.accepted = ok,
                                      !.passed = passed]),
             ok => ~job[t].plateau
      PROVE  job'[t].champion = job[t].champion /\ (job'[t].accepted => ~job[t].plateau)
  <2> DEFINE k == [job[t] EXCEPT !.pc = "hypothesis", !.change = c, !.accepted = ok,
                                 !.passed = passed]
  <2>1. k.champion = job[t].champion /\ k.accepted = ok
    BY <1>1 DEF Job
  <2>2. Become(t, k)
    BY <1>3
  <2> HIDE DEF k
  <2>3. job'[t] = k
    BY <2>2, BecomeMoves
  <2> QED BY <1>3, <2>1, <2>3
<1>4. ~Ends(t)
  BY BecomeMoves, IdlePc DEF Ends
<1>5. At(t, "review") /\ NoWrite
  BY Zenon DEF Review
<1> QED BY <1>2, <1>3, <1>4, <1>5

LEMMA ToDecide ==
  ASSUME TypeInv, NEW t \in Threads, t = "shadow", EvaluateShadow
  PROVE  LET e == active_experiment(db)
         IN /\ At(t, "idle") /\ NoWrite
            /\ e # None /\ db.experiments[e].shadow
            /\ job'[t].exp = e /\ job'[t].challenger = db.experiments[e].challenger
<1> DEFINE e == active_experiment(db)
           c == db.experiments[e].challenger
<1>1. \E verdict : Become(t, [IdleJob EXCEPT !.pc = "decide", !.exp = e, !.verdict = verdict,
                                             !.challenger = c])
  BY Zenon DEF EvaluateShadow
<1>2. At(t, "idle") /\ NoWrite /\ e # None /\ db.experiments[e].shadow
  BY Zenon DEF EvaluateShadow
<1> HIDE DEF e, c
<1>3. ASSUME NEW verdict,
             Become(t, [IdleJob EXCEPT !.pc = "decide", !.exp = e, !.verdict = verdict,
                                       !.challenger = c])
      PROVE  job'[t].exp = e /\ job'[t].challenger = c
  <2> DEFINE k == [IdleJob EXCEPT !.pc = "decide", !.exp = e, !.verdict = verdict,
                                  !.challenger = c]
  <2>1. k.exp = e /\ k.challenger = c
    BY DEF IdleJob
  <2>2. Become(t, k)
    BY <1>3
  <2> HIDE DEF k
  <2> QED BY <2>1, <2>2, BecomeMoves
<1> QED BY <1>1, <1>2, <1>3 DEF e, c

LEMMA ToVerdict ==
  ASSUME TypeInv, NEW t \in Threads, t = "shadow", Decide
  PROVE  /\ At(t, "decide") /\ Write(t, decide(db, job[t].exp, job[t].verdict))
         /\ job'[t].exp = job[t].exp /\ job'[t].challenger = job[t].challenger
         /\ job'[t].pc = IF job[t].verdict = "promoted" THEN "begin" ELSE "refuse"
<1>1. \E label \in {"begin", "refuse"} :
        Goto(t, label) /\ label = IF job[t].verdict = "promoted" THEN "begin" ELSE "refuse"
  BY DEF Decide
<1>2. \E label : job'[t] = [job[t] EXCEPT !.pc = label] /\ job[t] \in Job
  BY <1>1, GotoMoves
<1>3. job'[t].exp = job[t].exp /\ job'[t].challenger = job[t].challenger
  BY <1>2 DEF Job
<1> QED BY <1>1, <1>3, GotoMoves DEF Decide

LEMMA ToCrown ==
  ASSUME TypeInv, NEW t \in Threads, t = "shadow", Retire
  PROVE  /\ At(t, "retire")
         /\ Write(t, IF job[t].champion = None THEN db ELSE SetStatus(db, job[t].champion, "retired"))
         /\ job'[t].exp = job[t].exp /\ job'[t].challenger = job[t].challenger
         /\ job'[t].champion = job[t].champion /\ job'[t].pc = "crown"
<1>1. job'[t] = [job[t] EXCEPT !.pc = "crown"] /\ job[t] \in Job
  BY GotoMoves DEF Retire
<1> QED BY <1>1 DEF Retire, Job

LEMMA ToCommit ==
  ASSUME TypeInv, NEW t \in Threads, t = "shadow", Crown, job'[t].pc = "commit"
  PROVE  /\ At(t, "crown") /\ MayBe(db, job[t].challenger, "champion")
         /\ Write(t, SetStatus(db, job[t].challenger, "champion"))
         /\ job'[t].exp = job[t].exp /\ job'[t].challenger = job[t].challenger
<1>1. ~Raises(t)
  BY BecomeMoves, IdlePc DEF Raises, Ends
<1>2. job'[t] = [job[t] EXCEPT !.pc = "commit"] /\ job[t] \in Job
  BY <1>1, GotoMoves DEF Crown
<1> QED BY <1>1, <1>2 DEF Crown, Job

-----------------------------------------------------------------------------
(* Type correctness. *)

Opened == {"retire", "crown", "commit"}

LEMMA OpenNext ==
  ASSUME TypeInv, ShapeInv, ThreadStep("shadow")
  PROVE  open' <=> job'["shadow"].pc \in Opened
<1>0. /\ "shadow" \in Threads /\ job["shadow"] \in Job
      /\ open <=> job["shadow"].pc \in Opened
      /\ open \in BOOLEAN
  BY DEF ShapeInv, TypeInv, Threads, Opened
<1>1. ASSUME Ends("shadow") PROVE job'["shadow"].pc \notin Opened
  BY <1>0, <1>1, BecomeMoves, IdlePc DEF Ends, Opened
<1>2. ASSUME Raises("shadow") PROVE open' <=> job'["shadow"].pc \in Opened
  BY <1>1, <1>2 DEF Raises, RollsBack
<1>3. CASE EvaluateShadow
  <2>1. job'["shadow"].pc = "decide" \/ job'["shadow"].pc \notin Opened
    <3>1. Arrives("shadow")
      BY <1>0, ThreadArrives
    <3>2. At("shadow", "idle")
      BY <1>3 DEF EvaluateShadow
    <3> QED BY <3>1, <3>2 DEF Arrives, Opened, BeginPromotion, Retire, Crown, At
  <2>2. open' = open /\ job["shadow"].pc = "idle"
    BY <1>3, Zenon DEF EvaluateShadow, NoWrite, At
  <2> QED BY <1>0, <2>1, <2>2 DEF Opened
<1>4. CASE Decide
  BY <1>0, <1>4, ToVerdict DEF Write, At, Opened
<1>5. CASE Refuse
  BY <1>0, <1>1, <1>5 DEF Refuse, Write, At, Opened
<1>6. CASE BeginPromotion
  <2>1. open' = TRUE
    BY <1>6 DEF BeginPromotion, Transaction
  <2>2. job'["shadow"].pc = "retire"
    <3> DEFINE v == load_champion(db)
               k == [job["shadow"] EXCEPT !.pc = "retire", !.champion = v]
    <3>1. Become("shadow", k)
      BY <1>6 DEF BeginPromotion
    <3> HIDE DEF v
    <3>2. k.pc = "retire"
      BY <1>0 DEF Job
    <3> QED BY <1>0, <3>1, <3>2, BecomeMoves
  <2> QED BY <2>1, <2>2 DEF Opened
<1>7. CASE Retire
  BY <1>0, <1>7, ToCrown DEF Write, At, Opened
<1>8. CASE Crown
  <2>1. CASE Raises("shadow")
    BY <1>2, <2>1
  <2>2. CASE ~Raises("shadow")
    <3>1. /\ open' = open /\ At("shadow", "crown") /\ Goto("shadow", "commit")
      BY <1>8, <2>2 DEF Crown, Write
    <3> QED BY <1>0, <3>1, GotoMoves DEF At, Opened
  <2> QED BY <2>1, <2>2
<1>9. CASE Commit
  BY <1>1, <1>9 DEF Commit
<1>10. CASE JobRaises("shadow")
  BY <1>2, <1>10 DEF JobRaises
<1> QED
  BY <1>3, <1>4, <1>5, <1>6, <1>7, <1>8, <1>9, <1>10 DEF ThreadStep, ShadowStep, Evolvers

(* The tables after a step.                                                   *)
LEMMA DataNext ==
  ASSUME TypeInv, ShapeInv, NEW t \in Threads, ThreadStep(t)
  PROVE  /\ db' \in Tables /\ committed' \in Tables
         /\ Refs(db') /\ Refs(committed') /\ Seeded(db') /\ Seeded(committed')
         /\ Grows(committed, committed')
         /\ WithStatus(db, "champion")' \subseteq Ids(committed'.versions)
         /\ t # "shadow" => open' = open
         /\ open' \in BOOLEAN
         /\ ~open' => db' = committed'
         /\ Grows(committed', db')
<1>0. /\ db \in Tables /\ committed \in Tables /\ open \in BOOLEAN
      /\ Refs(db) /\ Refs(committed) /\ Seeded(db) /\ Seeded(committed)
      /\ ~open => db = committed
      /\ WithStatus(db, "champion") \subseteq Ids(committed.versions)
  BY DEF TypeInv, ShapeInv
<1>1. Grows(committed, db) /\ Grows(committed, committed) /\ Grows(db, db)
  BY <1>0, LongerHolds, TablesType DEF Grows, ShapeInv
<1>2. WithStatus(committed, "champion") \subseteq Ids(committed.versions)
      /\ WithStatus(db', "champion") \subseteq Ids(db'.versions)
  BY DEF WithStatus
<1>3. CASE UNCHANGED <<db, committed, open>>
  BY <1>0, <1>1, <1>3
<1>4. CASE Write(t, db') /\ Alters(t)
  <2>1. Grows(db, db') /\ Refs(db') /\ Seeded(db') /\ open' = open /\ db' \in Tables
    BY <1>4, AltersShape DEF Write, Grows
  <2>2. CASE open
    <3>1. committed' = committed /\ WithStatus(db', "champion") \subseteq Ids(committed.versions)
      BY <1>4, <2>2, AltersShape DEF Write
    <3>2. Grows(committed, db')
      BY <1>0, <1>1, <2>1, GrowsOn
    <3> QED BY <1>0, <1>1, <2>1, <2>2, <3>1, <3>2
  <2>3. CASE ~open
    <3>1. committed' = db'
      BY <1>4, <2>3 DEF Write
    <3>2. Grows(db', db')
      BY <2>1, TablesType DEF Grows
    <3> QED BY <1>0, <1>2, <2>1, <2>3, <3>1, <3>2
  <2> QED BY <1>0, <2>2, <2>3
<1>5. CASE t = "shadow" /\ BeginPromotion
  BY <1>0, <1>1, <1>5 DEF BeginPromotion, Transaction
<1>6. CASE t = "shadow" /\ Commit
  BY <1>0, <1>1, <1>2, <1>6 DEF Commit
<1>7. CASE t = "shadow" /\ Undone
  BY <1>0, <1>1, <1>2, <1>7, OpenNext DEF Undone, Opened
<1> QED BY <1>3, <1>4, <1>5, <1>6, <1>7, ThreadMoves DEF DataMoves

LEMMA JobNext ==
  ASSUME TypeInv, ShapeInv, NEW t \in Threads, ThreadStep(t)
  PROVE  LET j == job'[t]
         IN /\ j.pc \in LabelsOf(t)
            /\ j.pc \in EvolveLabels \ {"load"} => j.champion \in Ids(committed.versions)
            /\ j.pc = "recrown" => j.champion = 1 /\ 1 \in Ids(committed.versions)
            /\ j.pc \in ShadowLabels => j.challenger \in Ids(committed.versions)
            /\ j.pc = "retire" => j.champion \in {None} \cup Ids(committed.versions)
<1> DEFINE j == job[t]
           k == job'[t]
<1>0. /\ Arrives(t) /\ j \in Job
      /\ db \in Tables /\ committed \in Tables
  BY ThreadArrives DEF TypeInv
<1>1. /\ j.pc \in EvolveLabels \ {"load"} => j.champion \in Ids(committed.versions)
      /\ j.pc \in ShadowLabels => j.challenger \in Ids(committed.versions)
  BY DEF ShapeInv
<1>2. WithStatus(View(t), "champion") \subseteq Ids(committed.versions)
  BY DEF View, ShapeInv, WithStatus
<1>3. ASSUME k.pc \in EvolveLabels \ {"load"} PROVE k.champion \in Ids(committed.versions)
  <2>1. CASE k.pc = "active"
    BY <1>0, <1>2, <2>1, ToActive, ViewType, ChampionIn DEF Arrives
  <2>2. CASE k.pc \in {"review", "hypothesis", "version", "experiment", "reject"}
    <3>1. k.champion = j.champion /\ j.pc \in EvolveLabels \ {"load"}
      BY <1>0, <2>2, ToReview, ToHypothesis, ToVersion, ToExperiment, ToReject
         DEF Arrives, At, EvolveLabels
    <3> QED BY <1>1, <3>1
  <2> QED BY <1>3, <2>1, <2>2 DEF EvolveLabels
<1>4. ASSUME k.pc = "recrown" PROVE k.champion = 1 /\ 1 \in Ids(committed.versions)
  <2>1. k.champion = get_by_tag(View(t), "seed") /\ k.champion # None
    BY <1>0, <1>4, ToRecrown DEF Arrives
  <2>2. k.champion \in Ids(View(t).versions) /\ View(t).versions[k.champion].tag = "seed"
    BY <2>1, ViewType, TagIn
  <2>3. k.champion = 1 /\ 1 \in Ids(View(t).versions)
    BY <2>2 DEF View, ShapeInv, Seeded
  <2>4. 1 \in Ids(db.versions) => 1 \in Ids(committed.versions)
    <3>1. CASE open
      <4>1. job["shadow"].challenger \in Ids(committed.versions) /\ "shadow" \in Threads
        BY <3>1 DEF ShapeInv, ShadowLabels, PromoteLabels, Threads
      <4> QED BY <1>0, <4>1, TablesType
    <3> QED BY <3>1 DEF ShapeInv
  <2> QED BY <2>3, <2>4 DEF View
<1>5. ASSUME k.pc \in ShadowLabels PROVE k.challenger \in Ids(committed.versions)
  <2>1. CASE k.pc = "decide"
    <3> DEFINE e == active_experiment(db)
    <3>1. /\ t = "shadow" /\ At(t, "idle") /\ e # None
          /\ k.challenger = db.experiments[e].challenger
      BY <1>0, <2>1, ToDecide DEF Arrives
    <3>2. db = committed /\ Refs(db)
      BY <3>1 DEF ShapeInv, At
    <3>3. e \in Ids(db.experiments)
      BY <1>0, <3>1, ActiveIn DEF Undecided
    <3> QED BY <3>1, <3>2, <3>3 DEF Refs
  <2>2. CASE k.pc \in {"begin", "refuse", "retire", "crown", "commit"}
    <3>1. k.challenger = j.challenger /\ j.pc \in ShadowLabels
      BY <1>0, <2>2, ToVerdict, ToRetire, ToCrown, ToCommit
         DEF Arrives, At, ShadowLabels, PromoteLabels
    <3> QED BY <1>1, <3>1
  <2> QED BY <1>5, <2>1, <2>2 DEF ShadowLabels, PromoteLabels
<1>6. ASSUME k.pc = "retire" PROVE k.champion \in {None} \cup Ids(committed.versions)
  <2>1. k.champion = load_champion(db)
    BY <1>0, <1>6, ToRetire DEF Arrives
  <2> QED BY <1>0, <2>1, ChampionIn DEF ShapeInv
<1>7. k.pc \in LabelsOf(t)
  BY <1>0 DEF Arrives
<1> QED BY <1>3, <1>4, <1>5, <1>6, <1>7

LEMMA ShapeNext ==
  ASSUME TypeInv, ShapeInv, [Next]_vars
  PROVE  ShapeInv'
<1>1. ASSUME NEW t \in Threads, ThreadStep(t) PROVE ShapeInv'
  <2>1. /\ Refs(db') /\ Refs(committed') /\ Seeded(db') /\ Seeded(committed')
        /\ ~open' => db' = committed'
        /\ WithStatus(db, "champion")' \subseteq Ids(committed'.versions)
        /\ Len(committed'.versions) <= Len(db'.versions)
        /\ Len(committed'.hypotheses) <= Len(db'.hypotheses)
        /\ Len(committed'.experiments) <= Len(db'.experiments)
        /\ Ids(committed.versions) \subseteq Ids(committed'.versions)
    BY <1>1, DataNext DEF Grows
  <2>2. open' <=> job'["shadow"].pc \in Opened
    <3>1. CASE t = "shadow"
      BY <1>1, <3>1, OpenNext
    <3>2. CASE t # "shadow"
      BY <1>1, <3>2, DataNext, ThreadArrives DEF ShapeInv, Opened, Threads
    <3> QED BY <3>1, <3>2
  <2>3. \A u \in Threads :
          LET j == job'[u]
          IN /\ j.pc \in LabelsOf(u)
             /\ j.pc \in EvolveLabels \ {"load"} => j.champion \in Ids(committed'.versions)
             /\ j.pc = "recrown" => j.champion = 1 /\ 1 \in Ids(committed'.versions)
             /\ j.pc \in ShadowLabels => j.challenger \in Ids(committed'.versions)
             /\ j.pc = "retire" => j.champion \in {None} \cup Ids(committed'.versions)
    <3> TAKE u \in Threads
    <3>1. CASE u = t
      BY <1>1, <2>1, <3>1, JobNext
    <3>2. CASE u # t
      <4>1. job'[u] = job[u]
        BY <1>1, <3>2, ThreadArrives
      <4> QED BY <2>1, <4>1 DEF ShapeInv
    <3> QED BY <3>1, <3>2
  <2> QED BY <2>1, <2>2, <2>3 DEF ShapeInv, Opened
<1>2. CASE Crash
  <2>1. /\ \A u \in Threads : job'[u] = IF u = "cli" THEN job[u] ELSE IdleJob
        /\ db' = committed /\ committed' = committed /\ ~open'
    BY <1>2, CrashMoves
  <2>2. /\ Refs(db') /\ Refs(committed') /\ Seeded(db') /\ Seeded(committed')
        /\ WithStatus(db', "champion") \subseteq Ids(committed'.versions)
        /\ Len(committed'.versions) <= Len(db'.versions)
        /\ Len(committed'.hypotheses) <= Len(db'.hypotheses)
        /\ Len(committed'.experiments) <= Len(db'.experiments)
    BY <2>1, TablesType DEF ShapeInv, TypeInv, WithStatus
  <2>3. ~(job'["shadow"].pc \in Opened)
    BY <2>1, IdlePc DEF Threads, Opened
  <2>4. \A u \in Threads :
          LET j == job'[u]
          IN /\ j.pc \in LabelsOf(u)
             /\ j.pc \in EvolveLabels \ {"load"} => j.champion \in Ids(committed'.versions)
             /\ j.pc = "recrown" => j.champion = 1 /\ 1 \in Ids(committed'.versions)
             /\ j.pc \in ShadowLabels => j.challenger \in Ids(committed'.versions)
             /\ j.pc = "retire" => j.champion \in {None} \cup Ids(committed'.versions)
    <3> TAKE u \in Threads
    <3>1. CASE u = "cli"
      BY <2>1, <3>1 DEF ShapeInv
    <3>2. CASE u # "cli"
      BY <2>1, <3>2, IdlePc DEF LabelsOf, EvolveLabels, ShadowLabels, PromoteLabels
    <3> QED BY <3>1, <3>2
  <2> QED BY <2>1, <2>2, <2>3, <2>4 DEF ShapeInv, Opened
<1>3. CASE UNCHANGED vars
  <2>1. db' = db /\ committed' = committed /\ open' = open /\ job' = job
    BY <1>3 DEF vars
  <2>2. WithStatus(db, "champion")' = WithStatus(db, "champion")
    BY <2>1
  <2> QED BY <2>1, <2>2, Zenon DEF ShapeInv
<1> QED BY <1>1, <1>2, <1>3, Actors

LEMMA TypeNext ==
  ASSUME TypeInv, ShapeInv, [Next]_vars
  PROVE  TypeInv'
<1>1. job' \in [Threads -> Job]
  <2>1. ASSUME NEW t \in Threads, ThreadStep(t) PROVE job' \in [Threads -> Job]
    <3>1. \A u \in Threads : job'[u] \in Job
      BY <2>1, ThreadJob, ThreadArrives DEF TypeInv
    <3> QED BY <2>1, <3>1, ThreadArrives
  <2>2. CASE Crash
    BY <2>2, IdlePc DEF Crash, Jobs, TypeInv
  <2> QED BY <2>1, <2>2, Actors DEF TypeInv, vars
<1>2. db' \in Tables /\ committed' \in Tables /\ open' \in BOOLEAN
  <2>1. ASSUME NEW t \in Threads, ThreadStep(t)
        PROVE  db' \in Tables /\ committed' \in Tables /\ open' \in BOOLEAN
    BY <2>1, DataNext
  <2>2. CASE Crash
    BY <2>2, CrashMoves DEF TypeInv
  <2>3. CASE UNCHANGED vars
    BY <2>3 DEF TypeInv, vars
  <2> QED BY <2>1, <2>2, <2>3, Actors
<1>3. overlapped' \in BOOLEAN
  <2>1. ASSUME NEW t \in Threads, ThreadStep(t) PROVE overlapped' \in BOOLEAN
    BY <2>1, ThreadArrives DEF Overlap
  <2>2. CASE Crash
    BY <2>2, CrashMoves DEF Overlap
  <2> QED BY <2>1, <2>2, Actors DEF TypeInv, vars
<1>4. /\ proc' \in {"down", "boot", "up"} /\ evolves' \in 0..MaxEvolves /\ faults' \in 0..MaxFaults
      /\ interrupted' \in BOOLEAN
  <2> DEFINE Good == /\ proc' \in {"down", "boot", "up"} /\ evolves' \in 0..MaxEvolves
                     /\ faults' \in 0..MaxFaults /\ interrupted' \in BOOLEAN
  <2>0. /\ proc \in {"down", "boot", "up"} /\ evolves \in 0..MaxEvolves
        /\ faults \in 0..MaxFaults /\ interrupted \in BOOLEAN
    BY DEF TypeInv
  <2>a. ASSUME Quiet PROVE Good
    BY <2>0, <2>a DEF Quiet
  <2>b. ASSUME NEW t, Raises(t), evolves' = evolves, faults' \in 0..MaxFaults PROVE Good
    BY <2>0, <2>b DEF Raises
  <2>c. ASSUME NEW t \in Threads, EnsureStep(t) PROVE Good
    BY <2>0, <2>b, <2>c
       DEF EnsureStep, EnsureLoads, EnsureFinds, EnsureCrowns, EnsureSeeds, Ensured, Quiet
  <2>d. ASSUME NEW t \in Threads, EvolveStep(t) PROVE Good
    <3>1. CASE StartEvolve(t)
      BY <2>0, <3>1, EvolutionAssumption DEF StartEvolve
    <3>2. CASE LoadChampion(t) \/ CheckActive(t) \/ Review(t) \/ InsertHypothesis(t)
               \/ InsertChallenger(t) \/ RejectOffline(t)
      BY <2>a, <3>2, Zenon
         DEF LoadChampion, CheckActive, Review, InsertHypothesis, InsertChallenger, RejectOffline
    <3>3. CASE InsertExperiment(t)
      BY <2>0, <2>a, <2>b, <3>3 DEF InsertExperiment
    <3> QED BY <2>d, <3>1, <3>2, <3>3 DEF EvolveStep
  <2>e. ASSUME ShadowStep PROVE Good
    <3>1. CASE EvaluateShadow \/ Decide \/ Refuse \/ BeginPromotion \/ Retire \/ Commit
      BY <2>a, <3>1, Zenon DEF EvaluateShadow, Decide, Refuse, BeginPromotion, Retire, Commit
    <3>2. CASE Crown
      BY <2>0, <2>a, <2>b, <3>2 DEF Crown
    <3> QED BY <2>e, <3>1, <3>2 DEF ShadowStep
  <2>1. ASSUME NEW t \in Threads, ThreadStep(t) PROVE Good
    <3>1. CASE Boot \/ StartTick
      BY <2>0, <3>1 DEF Boot, StartTick, Quiet
    <3>2. CASE JobRaises(t)
      BY <2>0, <2>b, <3>2, EvolutionAssumption DEF JobRaises
    <3> QED BY <2>1, <2>c, <2>d, <2>e, <3>1, <3>2 DEF ThreadStep
  <2>2. CASE Crash
    BY <2>0, <2>2, EvolutionAssumption DEF Crash
  <2>3. CASE UNCHANGED vars
    BY <2>0, <2>3 DEF vars
  <2> QED BY <2>1, <2>2, <2>3, Actors
<1> QED BY <1>1, <1>2, <1>3, <1>4 DEF TypeInv

LEMMA InitShape == Init => TypeInv /\ ShapeInv
<1> SUFFICES ASSUME Init PROVE TypeInv /\ ShapeInv
  OBVIOUS
<1>1. EmptyDb \in Tables
  BY EmptySeq DEF EmptyDb, Tables
<1>2. /\ Ids(EmptyDb.versions) = {} /\ Ids(EmptyDb.hypotheses) = {} /\ Ids(EmptyDb.experiments) = {}
      /\ Len(EmptyDb.versions) = 0 /\ Len(EmptyDb.hypotheses) = 0 /\ Len(EmptyDb.experiments) = 0
  BY EmptySeq DEF EmptyDb, Ids
<1>3. job \in [Threads -> Job]
  BY IdlePc DEF Init
<1>4. TypeInv
  <2>1. /\ proc \in {"down", "boot", "up"} /\ open \in BOOLEAN
        /\ overlapped \in BOOLEAN /\ interrupted \in BOOLEAN
    BY DEF Init
  <2>2. evolves \in 0..MaxEvolves /\ faults \in 0..MaxFaults
    BY EvolutionAssumption DEF Init
  <2>3. db \in Tables /\ committed \in Tables
    BY <1>1 DEF Init
  <2> QED BY <1>3, <2>1, <2>2, <2>3 DEF TypeInv
<1>5. \A t \in Threads : job[t].pc = "idle"
  BY IdlePc DEF Init
<1>6. Refs(EmptyDb) /\ Seeded(EmptyDb) /\ WithStatus(EmptyDb, "champion") = {}
  BY <1>2 DEF Refs, Seeded, WithStatus
<1>7. ShapeInv
  BY <1>2, <1>5, <1>6 DEF ShapeInv, Init, Threads, LabelsOf, EvolveLabels, ShadowLabels, PromoteLabels
<1> QED BY <1>4, <1>7

LEMMA SeqOf ==
  ASSUME NEW S, NEW T, NEW s \in Seq(S), \A n \in DOMAIN s : s[n] \in T
  PROVE  s \in Seq(T)
<1>1. Len(s) \in Nat /\ DOMAIN s = 1..Len(s) /\ s \in [1..Len(s) -> S]
  BY LenProperties
<1>2. s \in [1..Len(s) -> T]
  BY <1>1
<1> QED BY <1>1, <1>2

LEMMA WellFormedTables ==
  ASSUME NEW d \in Tables, Refs(d)
  PROVE  WellFormed(d)
<1>1. d.versions \in Seq([tag : Changes \cup {"seed"}, status : Statuses])
  BY DEF Tables, Version
<1>2. d.hypotheses \in Seq([champion : Ids(d.versions), accepted : BOOLEAN])
  <2>1. \A h \in DOMAIN d.hypotheses : d.hypotheses[h] \in [champion : Ids(d.versions), accepted : BOOLEAN]
    BY TablesType DEF Refs, Ids, Hypothesis
  <2> QED BY <2>1, SeqOf DEF Tables
<1>3. d.experiments \in Seq([hyp : Ids(d.hypotheses), champion : Ids(d.versions),
                            challenger : Ids(d.versions), shadow : BOOLEAN,
                            decision : Verdicts \cup {"none"}])
  <2>1. \A e \in DOMAIN d.experiments :
          d.experiments[e] \in [hyp : Ids(d.hypotheses), champion : Ids(d.versions),
                                challenger : Ids(d.versions), shadow : BOOLEAN,
                                decision : Verdicts \cup {"none"}]
    BY TablesType DEF Refs, Ids, Experiment
  <2> QED BY <2>1, SeqOf DEF Tables
<1> QED BY <1>1, <1>2, <1>3 DEF WellFormed

(* Every row refers to rows that exist, in the tables the threads see and in    *)
(* what a crash leaves, whatever rollback takes the ids back a thread has in  *)
(* hand; and unless a transaction is open the two are the same.               *)
THEOREM EvolutionTyped == Spec => []TypeOK
<1>0. Init => TypeInv /\ ShapeInv
  BY InitShape
<1>1. TypeInv /\ ShapeInv => TypeOK
  <2> SUFFICES ASSUME TypeInv, ShapeInv PROVE TypeOK
    OBVIOUS
  <2> QED BY WellFormedTables DEF TypeInv, ShapeInv, TypeOK
<1>2. TypeInv /\ ShapeInv /\ [Next]_vars => TypeInv' /\ ShapeInv'
  BY TypeNext, ShapeNext
<1> QED BY <1>0, <1>1, <1>2, PTL DEF Spec

-----------------------------------------------------------------------------
(* The rows a thread has in hand. *)

(* What a version's status says of its experiment.                            *)
Sound(d) ==
  /\ 1 \in Ids(d.versions) => d.versions[1].status \in {"champion", "retired"}
  /\ \A e, f \in Ids(d.experiments) :
       d.experiments[e].challenger = d.experiments[f].challenger => e = f
  /\ \A e \in Ids(d.experiments) :
       LET x == d.experiments[e]
           status == d.versions[x.challenger].status
       IN /\ x.challenger # 1
          /\ ~x.shadow => status = "rejected" /\ x.decision # "promoted"
          /\ x.shadow /\ x.decision = "none" => status = "shadow"
  /\ \A v \in Ids(d.versions) \ {1} : d.versions[v].status \in {"champion", "retired"} =>
       \E e \in Ids(d.experiments) : /\ d.experiments[e].challenger = v
                                     /\ d.experiments[e].decision = "promoted"

(* The rows of d that job j has in hand are still as it left them.             *)
HoldsHyp(j) == j.pc \in {"version", "experiment"}
Holds(j, d) ==
  /\ HoldsHyp(j) =>
       /\ j.hyp \in Ids(d.hypotheses)
       /\ \A e \in Ids(d.experiments) : d.experiments[e].hyp # j.hyp
       /\ d.hypotheses[j.hyp].champion = j.champion
  /\ j.pc = "experiment" =>
       /\ j.challenger \in Ids(d.versions) \ {1}
       /\ d.versions[j.challenger].status = IF j.passed THEN "shadow" ELSE "rejected"
       /\ \A e \in Ids(d.experiments) : d.experiments[e].challenger # j.challenger
  /\ j.pc = "reject" =>
       /\ j.exp \in Ids(d.experiments)
       /\ ~d.experiments[j.exp].shadow
       /\ d.experiments[j.exp].decision = "none"
  /\ j.pc \in ShadowLabels =>
       LET x == d.experiments[j.exp]
       IN /\ j.exp \in Ids(d.experiments)
          /\ x.shadow
          /\ x.challenger = j.challenger
          /\ j.pc = "decide" => x.decision = "none"
          /\ j.pc = "refuse" => x.decision = "rejected"
          /\ j.pc \in PromoteLabels => x.decision = "promoted"

(* No two jobs have the same row in hand.                                      *)
Apart(j, k) ==
  /\ HoldsHyp(j) /\ HoldsHyp(k) => j.hyp # k.hyp
  /\ j.pc = "experiment" /\ k.pc = "experiment" => j.challenger # k.challenger
  /\ j.pc = "reject" /\ k.pc = "reject" => j.exp # k.exp

LEMMA SetStatusSound ==
  ASSUME NEW d \in Tables, Refs(d), Sound(d), NEW v \in Ids(d.versions), NEW s \in Statuses,
         NEW e, e = SetStatus(d, v, s),
         v = 1 => s \in {"champion", "retired"},
         \A x \in Ids(d.experiments) : d.experiments[x].challenger = v =>
           d.experiments[x].shadow /\ d.experiments[x].decision # "none",
         v # 1 /\ s \in {"champion", "retired"} =>
           \E x \in Ids(d.experiments) : /\ d.experiments[x].challenger = v
                                         /\ d.experiments[x].decision = "promoted"
  PROVE  Sound(e)
<1>1. /\ e.experiments = d.experiments /\ Ids(e.versions) = Ids(d.versions)
      /\ \A u \in Ids(d.versions) : e.versions[u].status = IF u = v THEN s ELSE d.versions[u].status
  BY SetStatusIs
<1>2. 1 \in Ids(e.versions) => e.versions[1].status \in {"champion", "retired"}
  BY <1>1 DEF Sound
<1>3. \A x, y \in Ids(e.experiments) :
        e.experiments[x].challenger = e.experiments[y].challenger => x = y
  BY <1>1 DEF Sound
<1>4. ASSUME NEW x \in Ids(e.experiments)
      PROVE  LET r == e.experiments[x]
                 status == e.versions[r.challenger].status
             IN /\ r.challenger # 1
                /\ ~r.shadow => status = "rejected" /\ r.decision # "promoted"
                /\ r.shadow /\ r.decision = "none" => status = "shadow"
  <2>1. d.experiments[x].challenger \in Ids(d.versions)
    BY <1>1 DEF Refs
  <2> QED BY <1>1, <2>1 DEF Sound
<1>5. ASSUME NEW u \in Ids(e.versions) \ {1}, e.versions[u].status \in {"champion", "retired"}
      PROVE  \E x \in Ids(e.experiments) : /\ e.experiments[x].challenger = u
                                           /\ e.experiments[x].decision = "promoted"
  BY <1>1, <1>5 DEF Sound
<1> QED BY <1>2, <1>3, <1>4, <1>5 DEF Sound

LEMMA SetStatusHolds ==
  ASSUME NEW d \in Tables, NEW v \in Ids(d.versions), NEW s \in Statuses,
         NEW e, e = SetStatus(d, v, s),
         NEW j, Holds(j, d), j.pc = "experiment" => j.challenger # v
  PROVE  Holds(j, e)
<1>1. /\ e.experiments = d.experiments /\ e.hypotheses = d.hypotheses
      /\ Ids(e.versions) = Ids(d.versions)
      /\ \A u \in Ids(d.versions) \ {v} : e.versions[u].status = d.versions[u].status
  BY SetStatusIs
<1> QED BY <1>1 DEF Holds

LEMMA InsertVersionSound ==
  ASSUME NEW d \in Tables, Refs(d), Sound(d), NEW e, NEW n, NEW tag, NEW s,
         VersionAdded(d, e, n, tag, s),
         s = "champion" => n = 1, s # "retired",
         n = 1 => s = "champion"
  PROVE  Sound(e)
<1>1. /\ e.experiments = d.experiments
      /\ \A u \in Ids(e.versions) : u = n \/ u \in Ids(d.versions)
      /\ n \notin Ids(d.versions) /\ e.versions[n].status = s
      /\ \A u \in Ids(d.versions) : e.versions[u] = d.versions[u]
  BY DEF VersionAdded
<1>2. 1 \in Ids(e.versions) => e.versions[1].status \in {"champion", "retired"}
  BY <1>1 DEF Sound
<1>3. \A x, y \in Ids(e.experiments) :
        e.experiments[x].challenger = e.experiments[y].challenger => x = y
  BY <1>1 DEF Sound
<1>4. ASSUME NEW x \in Ids(e.experiments)
      PROVE  LET r == e.experiments[x]
                 status == e.versions[r.challenger].status
             IN /\ r.challenger # 1
                /\ ~r.shadow => status = "rejected" /\ r.decision # "promoted"
                /\ r.shadow /\ r.decision = "none" => status = "shadow"
  <2>1. d.experiments[x].challenger \in Ids(d.versions)
    BY <1>1 DEF Refs
  <2> QED BY <1>1, <2>1 DEF Sound
<1>5. ASSUME NEW u \in Ids(e.versions) \ {1}, e.versions[u].status \in {"champion", "retired"}
      PROVE  \E x \in Ids(e.experiments) : /\ e.experiments[x].challenger = u
                                           /\ e.experiments[x].decision = "promoted"
  BY <1>1, <1>5 DEF Sound
<1> QED BY <1>2, <1>3, <1>4, <1>5 DEF Sound

LEMMA InsertVersionHolds ==
  ASSUME NEW d \in Tables, NEW e, NEW n, NEW tag, NEW s, VersionAdded(d, e, n, tag, s),
         NEW j, Holds(j, d)
  PROVE  Holds(j, e)
<1>1. /\ e.experiments = d.experiments /\ e.hypotheses = d.hypotheses
      /\ Ids(d.versions) \subseteq Ids(e.versions)
      /\ \A u \in Ids(d.versions) : e.versions[u] = d.versions[u]
  BY DEF VersionAdded
<1> QED BY <1>1 DEF Holds

LEMMA InsertHypothesisHolds ==
  ASSUME NEW d \in Tables, NEW e, NEW n, NEW champion, NEW accepted,
         HypothesisAdded(d, e, n, champion, accepted), Sound(d), NEW j, Holds(j, d)
  PROVE  Sound(e) /\ Holds(j, e)
<1>1. /\ e.experiments = d.experiments /\ e.versions = d.versions
      /\ Ids(d.hypotheses) \subseteq Ids(e.hypotheses)
      /\ \A u \in Ids(d.hypotheses) : e.hypotheses[u] = d.hypotheses[u]
  BY DEF HypothesisAdded
<1> QED BY <1>1 DEF Holds, Sound

LEMMA InsertExperimentSound ==
  ASSUME NEW d \in Tables, Refs(d), Sound(d), NEW e, NEW n,
         NEW hyp, NEW champion, NEW challenger, NEW passed \in BOOLEAN,
         ExperimentAdded(d, e, n, hyp, champion, challenger, passed),
         challenger # 1,
         d.versions[challenger].status = IF passed THEN "shadow" ELSE "rejected",
         \A x \in Ids(d.experiments) : d.experiments[x].challenger # challenger
  PROVE  Sound(e)
<1>1. /\ e.versions = d.versions
      /\ n \in Ids(e.experiments) /\ Ids(d.experiments) \subseteq Ids(e.experiments)
      /\ \A u \in Ids(e.experiments) : u = n \/ u \in Ids(d.experiments)
      /\ n \notin Ids(d.experiments)
      /\ \A u \in Ids(d.experiments) : e.experiments[u] = d.experiments[u]
  BY DEF ExperimentAdded
<1>2. /\ e.experiments[n].challenger = challenger /\ e.experiments[n].shadow = passed
      /\ e.experiments[n].decision = "none"
  BY DEF ExperimentAdded
<1>3. \A x, y \in Ids(e.experiments) :
        e.experiments[x].challenger = e.experiments[y].challenger => x = y
  BY <1>1, <1>2 DEF Sound
<1>4. ASSUME NEW x \in Ids(e.experiments)
      PROVE  LET r == e.experiments[x]
                 status == e.versions[r.challenger].status
             IN /\ r.challenger # 1
                /\ ~r.shadow => status = "rejected" /\ r.decision # "promoted"
                /\ r.shadow /\ r.decision = "none" => status = "shadow"
  <2>1. CASE x = n
    BY <1>1, <1>2, <2>1
  <2>2. CASE x \in Ids(d.experiments)
    BY <1>1, <2>2 DEF Sound
  <2> QED BY <1>1, <2>1, <2>2
<1>5. ASSUME NEW u \in Ids(e.versions) \ {1}, e.versions[u].status \in {"champion", "retired"}
      PROVE  \E x \in Ids(e.experiments) : /\ e.experiments[x].challenger = u
                                           /\ e.experiments[x].decision = "promoted"
  BY <1>1, <1>5 DEF Sound
<1> QED BY <1>1, <1>3, <1>4, <1>5 DEF Sound

LEMMA InsertExperimentHolds ==
  ASSUME NEW d \in Tables, NEW e, NEW n,
         NEW hyp, NEW champion, NEW challenger, NEW passed,
         ExperimentAdded(d, e, n, hyp, champion, challenger, passed),
         NEW j, Holds(j, d),
         HoldsHyp(j) => j.hyp # hyp,
         j.pc = "experiment" => j.challenger # challenger
  PROVE  Holds(j, e)
<1>1. /\ e.versions = d.versions /\ e.hypotheses = d.hypotheses
      /\ Ids(d.experiments) \subseteq Ids(e.experiments)
      /\ \A u \in Ids(e.experiments) : u = n \/ u \in Ids(d.experiments)
      /\ \A u \in Ids(d.experiments) : e.experiments[u] = d.experiments[u]
  BY DEF ExperimentAdded
<1>2. e.experiments[n].challenger = challenger /\ e.experiments[n].hyp = hyp
  BY DEF ExperimentAdded
<1> QED BY <1>1, <1>2 DEF Holds

LEMMA SetStatusKeeps ==
  ASSUME NEW d \in Tables, NEW v \in Ids(d.versions), NEW s \in Statuses,
         NEW e, e = SetStatus(d, v, s)
  PROVE  e.experiments = d.experiments /\ e.hypotheses = d.hypotheses
BY SetStatusIs

LEMMA SetStatusIds ==
  ASSUME NEW d \in Tables, NEW v \in Ids(d.versions), NEW s \in Statuses,
         NEW e, e = SetStatus(d, v, s)
  PROVE  Ids(e.versions) = Ids(d.versions)
BY SetStatusIs

LEMMA DecideKeeps ==
  ASSUME NEW d \in Tables, NEW n \in Nat, NEW verdict \in Verdicts,
         NEW e, e = decide(d, n, verdict)
  PROVE  e.versions = d.versions /\ e.hypotheses = d.hypotheses
BY DecideIs

LEMMA DecidedRow ==
  ASSUME NEW d \in Tables, NEW n \in Ids(d.experiments), NEW verdict \in Verdicts,
         NEW e, e = decide(d, n, verdict)
  PROVE  /\ n \in Ids(e.experiments)
         /\ e.experiments[n].hyp = d.experiments[n].hyp
         /\ e.experiments[n].champion = d.experiments[n].champion
         /\ e.experiments[n].challenger = d.experiments[n].challenger
         /\ e.experiments[n].shadow = d.experiments[n].shadow
         /\ e.experiments[n].decision = verdict
<1>1. n \in Nat
  BY TablesType
<1> QED BY <1>1, DecideIs

LEMMA DecideSound ==
  ASSUME NEW d \in Tables, Sound(d), NEW n \in Ids(d.experiments), NEW verdict \in Verdicts,
         NEW e, e = decide(d, n, verdict),
         d.experiments[n].decision = "none",
         verdict = "promoted" => d.experiments[n].shadow
  PROVE  Sound(e)
<1>0. n \in Nat /\ "none" \notin Verdicts
  BY TablesType DEF Verdicts
<1>1. /\ e.versions = d.versions /\ Ids(e.experiments) = Ids(d.experiments)
      /\ \A u \in Ids(d.experiments) :
           /\ e.experiments[u].challenger = d.experiments[u].challenger
           /\ e.experiments[u].shadow = d.experiments[u].shadow
           /\ e.experiments[u].decision = IF u = n THEN verdict ELSE d.experiments[u].decision
  BY <1>0, DecideIs
<1>3. \A x, y \in Ids(e.experiments) :
        e.experiments[x].challenger = e.experiments[y].challenger => x = y
  BY <1>1 DEF Sound
<1>4. ASSUME NEW x \in Ids(e.experiments)
      PROVE  LET r == e.experiments[x]
                 status == e.versions[r.challenger].status
             IN /\ r.challenger # 1
                /\ ~r.shadow => status = "rejected" /\ r.decision # "promoted"
                /\ r.shadow /\ r.decision = "none" => status = "shadow"
  BY <1>0, <1>1 DEF Sound
<1>5. ASSUME NEW u \in Ids(e.versions) \ {1}, e.versions[u].status \in {"champion", "retired"}
      PROVE  \E x \in Ids(e.experiments) : /\ e.experiments[x].challenger = u
                                           /\ e.experiments[x].decision = "promoted"
  BY <1>1, <1>5 DEF Sound
<1> QED BY <1>1, <1>3, <1>4, <1>5 DEF Sound

LEMMA DecideHolds ==
  ASSUME NEW d \in Tables, NEW n \in Nat, NEW verdict \in Verdicts,
         NEW e, e = decide(d, n, verdict),
         NEW j, Holds(j, d), j.pc \in {"reject"} \cup ShadowLabels => j.exp # n
  PROVE  Holds(j, e)
<1>1. /\ e.versions = d.versions /\ e.hypotheses = d.hypotheses
      /\ Ids(e.experiments) = Ids(d.experiments)
      /\ \A u \in Ids(d.experiments) :
           /\ e.experiments[u].challenger = d.experiments[u].challenger
           /\ e.experiments[u].hyp = d.experiments[u].hyp
           /\ u # n => e.experiments[u] = d.experiments[u]
  BY DecideIs
<1> QED BY <1>1 DEF Holds

Rows ==
  /\ Sound(db) /\ Sound(committed)
  /\ \A t \in Threads : Holds(job[t], db)
  /\ \A t \in Threads \ {"weekly"} : Holds(job[t], committed)
  /\ Apart(job["weekly"], job["cli"])

(* Where a promotion stands.                                                   *)
Switch ==
  LET j == job["shadow"]
  IN /\ j.pc \in ShadowLabels => committed.versions[j.challenger].status = "shadow"
     /\ j.pc \in ShadowLabels \ {"commit"} => db.versions[j.challenger].status = "shadow"
     /\ j.pc = "retire" => /\ WithStatus(db, "champion") = {j.champion}
                           /\ WithStatus(committed, "champion") = {j.champion}
     /\ j.pc = "crown" => WithStatus(db, "champion") \subseteq {1}
     /\ j.pc = "commit" => WithStatus(db, "champion") = {j.challenger}
     /\ 1 \in Ids(committed.versions) =>
          \E c \in Ids(committed.versions) : WithStatus(committed, "champion") = {c}

LEMMA Roles ==
  ASSUME NEW t \in Threads, NEW pc, pc \in LabelsOf(t)
  PROVE  /\ pc \in ShadowLabels => t = "shadow"
         /\ pc \in EvolveLabels => t \in Evolvers
         /\ pc \in EnsureLabels => t \in {"main", "tick", "cli"}
BY DEF Threads, LabelsOf, ShadowLabels, PromoteLabels, EvolveLabels, EnsureLabels, Evolvers

(* The version that ensure_champion would crown is champion already.           *)
LEMMA CrownsSeed ==
  ASSUME TypeInv, ShapeInv, Rows, Switch, NEW t \in Threads, Crowns(t)
  PROVE  /\ job[t].champion = 1 /\ 1 \in Ids(committed.versions) /\ 1 \in Ids(db.versions)
         /\ ~open => WithStatus(db, "champion") = {1}
         /\ open => job["shadow"].pc \in {"retire", "crown"}
         /\ open /\ job["shadow"].pc = "retire" => WithStatus(db, "champion") = {1}
<1>1. job[t].champion = 1 /\ 1 \in Ids(committed.versions) /\ 1 \in Ids(db.versions)
  BY LongerHolds DEF Crowns, At, ShapeInv
<1>2. WithStatus(db, "champion") \subseteq {1}
  BY <1>1 DEF Crowns, MayBe
<1>3. ~open => WithStatus(db, "champion") = {1}
  BY <1>1, <1>2 DEF ShapeInv, Switch
<1>4. ASSUME open PROVE job["shadow"].pc \in {"retire", "crown"}
  <2> SUFFICES ASSUME job["shadow"].pc = "commit" PROVE FALSE
    BY <1>4 DEF ShapeInv
  <2>1. job["shadow"].challenger \in Ids(committed.versions)
        /\ committed.versions[job["shadow"].challenger].status = "shadow"
        /\ WithStatus(db, "champion") = {job["shadow"].challenger}
    BY DEF Switch, ShapeInv, ShadowLabels, PromoteLabels, Threads
  <2> QED BY <1>2, <2>1 DEF Rows, Sound
<1> QED BY <1>1, <1>2, <1>3, <1>4 DEF Switch

LEMMA AltersRows ==
  ASSUME TypeInv, ShapeInv, Rows, Switch, NEW t \in Threads, Alters(t)
  PROVE  /\ Sound(db')
         /\ \A u \in Threads \ {t} : Holds(job[u], db')
<1> DEFINE j == job[t]
<1>0. /\ j \in Job /\ db \in Tables /\ Refs(db) /\ Seeded(db) /\ Sound(db) /\ Holds(j, db)
      /\ Ids(committed.versions) \subseteq Ids(db.versions)
      /\ j.pc \in LabelsOf(t)
  BY LongerHolds DEF TypeInv, ShapeInv, Rows
<1>1. /\ "champion" \in Statuses /\ "retired" \in Statuses /\ "rejected" \in Statuses
      /\ "shadow" \in Statuses /\ "rejected" \in Verdicts
  BY DEF Statuses, Verdicts
<1>2. \A u \in Threads : Holds(job[u], db)
  BY DEF Rows
<1>3. ASSUME NEW u \in Threads, job[u].pc = "experiment"
      PROVE  /\ job[u].challenger \in Ids(db.versions) \ {1}
             /\ db.versions[job[u].challenger].status # "champion"
             /\ \A e \in Ids(db.experiments) : db.experiments[e].challenger # job[u].challenger
  BY <1>2, <1>3 DEF Holds
<1>4. CASE Crowns(t)
  <2>1. db' = SetStatus(db, 1, "champion") /\ 1 \in Ids(db.versions)
    BY <1>4, CrownsSeed DEF Crowns
  <2>2. \A e \in Ids(db.experiments) : db.experiments[e].challenger # 1
    BY <1>0 DEF Sound
  <2>3. Sound(db')
    BY <1>0, <1>1, <2>1, <2>2, SetStatusSound
  <2>4. \A u \in Threads : job[u].pc = "experiment" => job[u].challenger # 1
    BY <1>3
  <2> QED BY <1>0, <1>1, <1>2, <2>1, <2>3, <2>4, SetStatusHolds
<1>5. CASE Seeds(t)
  <2> DEFINE n == Len(db.versions) + 1
  <2>n. n \in Nat /\ n = Len(db.versions) + 1
    BY <1>0, TablesType
  <2>1. n = 1
    BY <1>0, <1>1, <1>5, <2>n, InsertVersionShape DEF Seeds
  <2> HIDE DEF n
  <2>2. VersionAdded(db, db', n, "seed", "champion")
    BY <1>0, <1>1, <1>5, <2>n, InsertVersionIs DEF Seeds
  <2>3. Sound(db')
    BY <1>0, <2>1, <2>2, InsertVersionSound
  <2> QED BY <1>0, <1>2, <2>2, <2>3, InsertVersionHolds
<1>6. CASE Proposes(t)
  <2> DEFINE n == Len(db.hypotheses) + 1
  <2>n. n \in Nat /\ n = Len(db.hypotheses) + 1
    BY <1>0, TablesType
  <2> HIDE DEF n
  <2>1. HypothesisAdded(db, db', n, j.champion, j.accepted)
    BY <1>0, <1>6, <2>n, InsertHypothesisIs DEF Proposes, Job
  <2> QED BY <1>0, <1>2, <2>1, InsertHypothesisHolds
<1>7. CASE Stages(t)
  <2> DEFINE n == Len(db.versions) + 1
             s == IF j.passed THEN "shadow" ELSE "rejected"
  <2>n. n \in Nat /\ n = Len(db.versions) + 1
    BY <1>0, TablesType
  <2>1. j.champion \in Ids(db.versions)
    BY <1>0, <1>7 DEF Stages, At, EvolveLabels, ShapeInv
  <2>2. n # 1
    BY <1>0, <2>1, TablesType
  <2> HIDE DEF n
  <2>3. s \in Statuses /\ s # "champion" /\ s # "retired"
    BY <1>1
  <2>4. db' = InsertVersion(db, j.change, s) /\ j.change \in Changes \cup {"seed"}
    BY <1>0, <1>7 DEF Stages, Job
  <2> HIDE DEF s
  <2>5. VersionAdded(db, db', n, j.change, s)
    BY <1>0, <2>n, <2>3, <2>4, InsertVersionIs
  <2>6. Sound(db')
    BY <1>0, <2>2, <2>3, <2>5, InsertVersionSound
  <2> QED BY <1>0, <1>2, <2>5, <2>6, InsertVersionHolds
<1>8. CASE Records(t)
  <2> DEFINE n == Len(db.experiments) + 1
  <2>n. n \in Nat /\ n = Len(db.experiments) + 1
    BY <1>0, TablesType
  <2> HIDE DEF n
  <2>1. ExperimentAdded(db, db', n, j.hyp, j.champion, j.challenger, j.passed)
    BY <1>0, <1>8, <2>n, InsertExperimentIs DEF Records, Job
  <2>2. /\ j.challenger # 1 /\ j.passed \in BOOLEAN
        /\ db.versions[j.challenger].status = IF j.passed THEN "shadow" ELSE "rejected"
        /\ \A e \in Ids(db.experiments) : db.experiments[e].challenger # j.challenger
    BY <1>0, <1>8 DEF Records, At, Holds, Job
  <2>3. Sound(db')
    BY <1>0, <2>1, <2>2, InsertExperimentSound
  <2>4. ASSUME NEW u \in Threads \ {t}
        PROVE  /\ HoldsHyp(job[u]) => job[u].hyp # j.hyp
               /\ job[u].pc = "experiment" => job[u].challenger # j.challenger
    <3>1. t \in Evolvers /\ HoldsHyp(j) /\ j.pc = "experiment"
      BY <1>0, <1>8, Roles DEF Records, At, EvolveLabels, HoldsHyp
    <3>2. HoldsHyp(job[u]) => u \in Evolvers
      BY Roles DEF ShapeInv, EvolveLabels, HoldsHyp
    <3> QED BY <3>1, <3>2 DEF Rows, Apart, Evolvers, HoldsHyp
  <2> QED BY <1>0, <1>2, <2>1, <2>3, <2>4, InsertExperimentHolds
<1>9. CASE Rejects(t)
  <2>1. /\ j.exp \in Ids(db.experiments) /\ j.exp \in Nat
        /\ ~db.experiments[j.exp].shadow /\ db.experiments[j.exp].decision = "none"
        /\ db' = decide(db, j.exp, "rejected")
    BY <1>0, <1>9 DEF Rejects, At, Holds, Job
  <2>2. Sound(db')
    BY <1>0, <1>1, <2>1, DecideSound
  <2>3. ASSUME NEW u \in Threads \ {t}, job[u].pc \in {"reject"} \cup ShadowLabels
        PROVE  job[u].exp # j.exp
    <3>1. CASE job[u].pc = "reject"
      <4>1. t \in Evolvers /\ u \in Evolvers /\ j.pc = "reject"
        BY <1>0, <1>9, <3>1, Roles DEF Rejects, At, EvolveLabels, ShapeInv
      <4> QED BY <3>1, <4>1 DEF Rows, Apart, Evolvers
    <3>2. CASE job[u].pc \in ShadowLabels
      BY <1>2, <2>1, <3>2 DEF Holds
    <3> QED BY <2>3, <3>1, <3>2
  <2> QED BY <1>0, <1>1, <1>2, <2>1, <2>2, <2>3, DecideHolds
<1>10. CASE Decides(t)
  <2>1. /\ j.exp \in Ids(db.experiments) /\ j.exp \in Nat /\ j.verdict \in Verdicts
        /\ db.experiments[j.exp].shadow /\ db.experiments[j.exp].decision = "none"
        /\ db' = decide(db, j.exp, j.verdict) /\ t = "shadow"
    BY <1>0, <1>10, Roles DEF Decides, At, Holds, Job, ShadowLabels
  <2>2. Sound(db')
    BY <1>0, <1>1, <2>1, DecideSound
  <2>3. ASSUME NEW u \in Threads \ {t}, job[u].pc \in {"reject"} \cup ShadowLabels
        PROVE  job[u].exp # j.exp
    <3>1. job[u].pc = "reject"
      BY <2>1, <2>3, Roles DEF ShapeInv
    <3> QED BY <1>2, <2>1, <3>1 DEF Holds
  <2>4. ASSUME NEW u \in Threads \ {t} PROVE Holds(job[u], db')
    <3>1. Holds(job[u], db) /\ (job[u].pc \in {"reject"} \cup ShadowLabels => job[u].exp # j.exp)
      BY <1>2, <2>3
    <3> QED BY <1>0, <2>1, <3>1, DecideHolds
  <2> QED BY <2>2, <2>4
<1>11. CASE Refuses(t) \/ Promotes(t)
  <2> DEFINE s == IF j.pc = "refuse" THEN "rejected" ELSE "champion"
  <2>1. /\ db' = SetStatus(db, j.challenger, s) /\ j.pc \in ShadowLabels \ {"decide"}
        /\ s \in Statuses /\ (j.pc \in PromoteLabels \/ s = "rejected")
    BY <1>1, <1>11 DEF Refuses, Promotes, At, ShadowLabels, PromoteLabels
  <2> HIDE DEF s
  <2>2. /\ j.exp \in Ids(db.experiments) /\ db.experiments[j.exp].shadow
        /\ db.experiments[j.exp].challenger = j.challenger
        /\ db.experiments[j.exp].decision \in {"rejected", "promoted"}
        /\ j.pc \in PromoteLabels => db.experiments[j.exp].decision = "promoted"
    BY <1>0, <2>1 DEF Holds, ShadowLabels, PromoteLabels
  <2>3. j.challenger # 1 /\ j.challenger \in Ids(db.versions)
    <3>1. j.challenger # 1
      BY <1>0, <2>2 DEF Sound
    <3>2. j.challenger \in Ids(db.versions)
      BY <1>0, <2>2 DEF Refs
    <3> QED BY <3>1, <3>2
  <2>4. \A e \in Ids(db.experiments) : db.experiments[e].challenger = j.challenger => e = j.exp
    BY <1>0, <2>2 DEF Sound
  <2>5. Sound(db')
    <3>1. \A e \in Ids(db.experiments) : db.experiments[e].challenger = j.challenger =>
            db.experiments[e].shadow /\ db.experiments[e].decision # "none"
      BY <2>2, <2>4
    <3>2. s \in {"champion", "retired"} =>
            \E e \in Ids(db.experiments) : /\ db.experiments[e].challenger = j.challenger
                                           /\ db.experiments[e].decision = "promoted"
      BY <2>1, <2>2
    <3> QED BY <1>0, <2>1, <2>3, <3>1, <3>2, SetStatusSound
  <2>6. \A u \in Threads : job[u].pc = "experiment" => job[u].challenger # j.challenger
    BY <1>3, <2>2
  <2> QED BY <1>0, <1>2, <2>1, <2>3, <2>5, <2>6, SetStatusHolds
<1>12. CASE Retires(t)
  <2>1. t = "shadow" /\ j.pc = "retire"
    BY <1>0, <1>12, Roles DEF Retires, At, ShadowLabels, PromoteLabels
  <2>2. j.champion \in WithStatus(db, "champion")
    BY <2>1 DEF Switch
  <2>3. j.champion \in Ids(db.versions) /\ db.versions[j.champion].status = "champion"
    BY <2>2 DEF WithStatus
  <2>4. db' = SetStatus(db, j.champion, "retired")
    BY <1>0, <1>12, <2>3, TablesType DEF Retires, None
  <2>5. Sound(db')
    <3>1. \A e \in Ids(db.experiments) : db.experiments[e].challenger = j.champion =>
            db.experiments[e].shadow /\ db.experiments[e].decision # "none"
      BY <1>0, <2>3 DEF Sound
    <3>2. j.champion # 1 =>
            \E e \in Ids(db.experiments) : /\ db.experiments[e].challenger = j.champion
                                           /\ db.experiments[e].decision = "promoted"
      BY <1>0, <2>3 DEF Sound
    <3> QED BY <1>0, <1>1, <2>3, <2>4, <3>1, <3>2, SetStatusSound
  <2>6. \A u \in Threads : job[u].pc = "experiment" => job[u].challenger # j.champion
    BY <1>3, <2>3
  <2> QED BY <1>0, <1>1, <1>2, <2>3, <2>4, <2>5, <2>6, SetStatusHolds
<1> QED
  BY <1>4, <1>5, <1>6, <1>7, <1>8, <1>9, <1>10, <1>11, <1>12 DEF Alters

(* The rows a job has just written or read.                                    *)
LEMMA ArrivesRows ==
  ASSUME TypeInv, ShapeInv, Rows, NEW t \in Threads, ThreadStep(t)
  PROVE  /\ Holds(job'[t], db')
         /\ t # "weekly" => Holds(job'[t], committed')
         /\ \A u \in Threads \ {t} : /\ Holds(job[u], db)
                                     /\ Apart(job'[t], job[u]) /\ Apart(job[u], job'[t])
<1> DEFINE j == job[t]
           k == job'[t]
<1>0. /\ j \in Job /\ db \in Tables /\ committed \in Tables /\ Refs(db) /\ Seeded(db) /\ Sound(db)
      /\ Holds(j, db) /\ (t # "weekly" => Holds(j, committed))
      /\ Ids(committed.versions) \subseteq Ids(db.versions)
      /\ j.pc \in LabelsOf(t) /\ k.pc \in LabelsOf(t)
      /\ ~open => db = committed
  BY LongerHolds, ThreadArrives DEF TypeInv, ShapeInv, Rows, Arrives
<1>1. \A u \in Threads : Holds(job[u], db)
  BY DEF Rows
<1>2. ASSUME NEW d, Write(t, d), t \in {"weekly", "cli"} PROVE t # "weekly" => committed' = db'
  BY <1>2 DEF Write
<1>3. k.pc \in {"version", "experiment", "reject"} => t \in {"weekly", "cli"}
  BY <1>0, Roles DEF EvolveLabels, Evolvers
<1>4. /\ k.pc = "version" => InsertHypothesis(t)
      /\ k.pc = "experiment" => InsertChallenger(t)
      /\ k.pc = "reject" => InsertExperiment(t)
      /\ k.pc = "decide" => t = "shadow" /\ EvaluateShadow
      /\ k.pc \in {"begin", "refuse"} => t = "shadow" /\ Decide
      /\ k.pc = "retire" => t = "shadow" /\ BeginPromotion
      /\ k.pc = "crown" => t = "shadow" /\ Retire
      /\ k.pc = "commit" => t = "shadow" /\ Crown
  BY ThreadArrives DEF Arrives
<1> HIDE DEF k
<1> DEFINE Goal == /\ Holds(k, db') /\ (t # "weekly" => Holds(k, committed'))
                   /\ \A u \in Threads \ {t} : Apart(k, job[u]) /\ Apart(job[u], k)
<1>5. CASE k.pc = "version"
  <2> DEFINE n == Len(db.hypotheses) + 1
  <2>n. n \in Nat /\ n = Len(db.hypotheses) + 1 /\ n \notin Ids(db.hypotheses)
    BY <1>0, TablesType
  <2>1. /\ k.hyp = n /\ k.champion = j.champion
        /\ Write(t, insert_hypothesis(db, j.champion, j.accepted))
    BY <1>4, <1>5, ToVersion DEF k
  <2> HIDE DEF n
  <2>2. HypothesisAdded(db, db', n, j.champion, j.accepted)
    BY <1>0, <2>n, <2>1, InsertHypothesisIs DEF Write, Job
  <2>3. n \in Ids(db'.hypotheses) /\ db'.experiments = db.experiments
        /\ db'.hypotheses[n].champion = j.champion
    BY <2>2 DEF HypothesisAdded
  <2>4. \A e \in Ids(db.experiments) : db.experiments[e].hyp # n
    BY <1>0, <2>n DEF Refs
  <2>5. Holds(k, db')
    BY <1>5, <2>1, <2>3, <2>4 DEF Holds, HoldsHyp, ShadowLabels, PromoteLabels
  <2>6. \A u \in Threads : HoldsHyp(job[u]) => job[u].hyp # n
    BY <1>1, <2>n DEF Holds
  <2>7. \A u \in Threads : Apart(k, job[u]) /\ Apart(job[u], k)
    BY <1>5, <2>1, <2>6 DEF Apart
  <2>8. Goal
    BY <1>2, <1>3, <1>5, <2>1, <2>5, <2>7
  <2> QED BY <1>1, <2>8 DEF k
<1>6. CASE k.pc = "experiment"
  <2> DEFINE n == Len(db.versions) + 1
             s == IF j.passed THEN "shadow" ELSE "rejected"
  <2>n. n \in Nat /\ n = Len(db.versions) + 1 /\ n \notin Ids(db.versions)
    BY <1>0, TablesType
  <2>1. /\ k.hyp = j.hyp /\ k.champion = j.champion /\ k.challenger = n /\ k.passed = j.passed
        /\ Write(t, InsertVersion(db, j.change, s)) /\ j.pc = "version"
    BY <1>4, <1>6, ToExperiment DEF k, At
  <2>2. s \in Statuses /\ s = IF k.passed THEN "shadow" ELSE "rejected"
    BY <2>1 DEF Statuses
  <2>3. n # 1
    <3>1. j.champion \in Ids(db.versions)
      BY <1>0, <2>1 DEF ShapeInv, EvolveLabels
    <3> QED BY <1>0, <3>1, TablesType
  <2> HIDE DEF n, s
  <2>4. VersionAdded(db, db', n, j.change, s)
    BY <1>0, <2>n, <2>1, <2>2, InsertVersionIs DEF Write, Job
  <2>5. /\ n \in Ids(db'.versions) /\ db'.experiments = db.experiments
        /\ db'.hypotheses = db.hypotheses /\ db'.versions[n].status = s
    BY <2>4 DEF VersionAdded
  <2>6. \A e \in Ids(db.experiments) : db.experiments[e].challenger # n
    BY <1>0, <2>n DEF Refs
  <2>7. Holds(k, db')
    <3>1. /\ k.hyp \in Ids(db.hypotheses)
          /\ \A e \in Ids(db.experiments) : db.experiments[e].hyp # k.hyp
          /\ db.hypotheses[k.hyp].champion = k.champion
      BY <1>0, <2>1 DEF Holds, HoldsHyp
    <3> QED BY <1>6, <2>1, <2>2, <2>3, <2>5, <2>6, <3>1 DEF Holds, ShadowLabels, PromoteLabels
  <2>8. \A u \in Threads : job[u].pc = "experiment" => job[u].challenger # n
    BY <1>1, <2>n DEF Holds
  <2>9. ASSUME NEW u \in Threads \ {t} PROVE Apart(k, job[u]) /\ Apart(job[u], k)
    <3>1. HoldsHyp(job[u]) => u \in Evolvers
      BY Roles DEF ShapeInv, EvolveLabels, HoldsHyp
    <3>2. HoldsHyp(job[u]) => job[u].hyp # j.hyp
      BY <1>3, <1>6, <2>1, <3>1 DEF Rows, Apart, Evolvers, HoldsHyp
    <3> QED BY <1>6, <2>1, <2>8, <3>2 DEF Apart
  <2>10. Goal
    BY <1>2, <1>3, <1>6, <2>1, <2>7, <2>9
  <2> QED BY <1>1, <2>10 DEF k
<1>7. CASE k.pc = "reject"
  <2> DEFINE n == Len(db.experiments) + 1
  <2>n. n \in Nat /\ n = Len(db.experiments) + 1 /\ n \notin Ids(db.experiments)
    BY <1>0, TablesType
  <2>1. /\ k.exp = n /\ ~j.passed
        /\ Write(t, insert_experiment(db, j.hyp, j.champion, j.challenger, j.passed))
    BY <1>4, <1>7, ToReject DEF k
  <2> HIDE DEF n
  <2>2. ExperimentAdded(db, db', n, j.hyp, j.champion, j.challenger, j.passed)
    BY <1>0, <2>n, <2>1, InsertExperimentIs DEF Write, Job
  <2>3. /\ n \in Ids(db'.experiments) /\ ~db'.experiments[n].shadow
        /\ db'.experiments[n].decision = "none"
    BY <2>1, <2>2 DEF ExperimentAdded
  <2>4. Holds(k, db')
    BY <1>7, <2>1, <2>3 DEF Holds, HoldsHyp, ShadowLabels, PromoteLabels
  <2>5. \A u \in Threads : job[u].pc = "reject" => job[u].exp # n
    BY <1>1, <2>n DEF Holds
  <2>6. \A u \in Threads : Apart(k, job[u]) /\ Apart(job[u], k)
    BY <1>7, <2>1, <2>5 DEF Apart, HoldsHyp
  <2>7. Goal
    BY <1>2, <1>3, <1>7, <2>1, <2>4, <2>6
  <2> QED BY <1>1, <2>7 DEF k
<1>8. CASE k.pc \in ShadowLabels
  <2>0. t = "shadow"
    BY <1>0, <1>8, Roles
  <2>1. \A u \in Threads : Apart(k, job[u]) /\ Apart(job[u], k)
    BY <1>8 DEF Apart, HoldsHyp, ShadowLabels, PromoteLabels
  <2>2. ASSUME NEW d, d \in {db', committed'} PROVE Holds(k, d)
    <3>1. CASE k.pc = "decide"
      <4>1. /\ EvaluateShadow /\ At(t, "idle") /\ NoWrite
            /\ active_experiment(db) # None /\ db.experiments[active_experiment(db)].shadow
            /\ k.exp = active_experiment(db)
            /\ k.challenger = db.experiments[active_experiment(db)].challenger
        BY <1>4, <2>0, <3>1, ToDecide DEF k
      <4>2. k.exp \in Ids(db.experiments) /\ db.experiments[k.exp].decision = "none"
        BY <1>0, <4>1, ActiveIn DEF Undecided
      <4>3. d = db
        BY <1>0, <2>0, <2>2, <4>1 DEF ShapeInv, At, NoWrite
      <4> QED BY <3>1, <4>1, <4>2, <4>3 DEF Holds, HoldsHyp, PromoteLabels
    <3>2. CASE k.pc \in {"begin", "refuse"}
      <4>1. /\ At(t, "decide") /\ Write(t, decide(db, j.exp, j.verdict))
            /\ k.exp = j.exp /\ k.challenger = j.challenger
            /\ k.pc = IF j.verdict = "promoted" THEN "begin" ELSE "refuse"
        BY <1>4, <2>0, <3>2, ToVerdict DEF k
      <4>2. /\ j.exp \in Ids(db.experiments) /\ db.experiments[j.exp].shadow
            /\ db.experiments[j.exp].challenger = j.challenger
        BY <1>0, <4>1 DEF Holds, At, ShadowLabels
      <4>3. ~open /\ d = db'
        BY <2>0, <2>2, <4>1 DEF ShapeInv, At, Write
      <4>4. /\ j.exp \in Ids(d.experiments) /\ d.experiments[j.exp].shadow
            /\ d.experiments[j.exp].challenger = j.challenger
            /\ d.experiments[j.exp].decision = j.verdict
        <5>1. j.exp \in Nat /\ j.verdict \in Verdicts /\ d = decide(db, j.exp, j.verdict)
          BY <1>0, <4>1, <4>3 DEF Write, Job
        <5> QED BY <1>0, <4>2, <5>1, DecidedRow
      <4>5. j.verdict \in {"promoted", "rejected"}
        BY <1>0 DEF Job, Verdicts
      <4> QED BY <3>2, <4>1, <4>4, <4>5 DEF Holds, HoldsHyp, PromoteLabels
    <3>3. CASE k.pc \in {"retire", "crown", "commit"}
      <4>1. /\ k.exp = j.exp /\ k.challenger = j.challenger /\ j.pc \in PromoteLabels
        BY <1>4, <2>0, <3>3, ToRetire, ToCrown, ToCommit DEF k, At, PromoteLabels
      <4>2. ASSUME NEW c \in {db, committed}
            PROVE  /\ j.exp \in Ids(c.experiments) /\ c.experiments[j.exp].shadow
                   /\ c.experiments[j.exp].challenger = j.challenger
                   /\ c.experiments[j.exp].decision = "promoted"
        BY <1>0, <2>0, <4>1 DEF Holds, ShadowLabels
      <4>3. d.experiments = db.experiments \/ d.experiments = committed.experiments
        <5>1. CASE k.pc = "retire"
          BY <1>4, <2>0, <2>2, <5>1, ToRetire DEF k
        <5>2. CASE k.pc \in {"crown", "commit"}
          <6>1. db'.experiments = db.experiments
            <7>1. CASE k.pc = "crown"
              <8>1. /\ db' = (IF j.champion = None THEN db ELSE SetStatus(db, j.champion, "retired"))
                    /\ j.pc = "retire"
                BY <1>4, <7>1, ToCrown DEF k, Write, At
              <8>2. j.champion = None \/ j.champion \in Ids(db.versions)
                BY <1>0, <8>1 DEF ShapeInv
              <8> QED BY <1>0, <8>1, <8>2, SetStatusIs DEF Statuses
            <7>2. CASE k.pc = "commit"
              <8>1. db' = SetStatus(db, j.challenger, "champion") /\ j.pc = "crown"
                BY <1>4, <7>2, ToCommit DEF k, Write, At
              <8>2. j.challenger \in Ids(db.versions)
                BY <1>0, <8>1 DEF ShapeInv, ShadowLabels, PromoteLabels
              <8> QED BY <1>0, <8>1, <8>2, SetStatusIs DEF Statuses
            <7> QED BY <5>2, <7>1, <7>2
          <6>2. committed' = committed \/ committed' = db'
            BY <1>4, <2>0, <5>2, ToCrown, ToCommit DEF k, Write
          <6> QED BY <2>2, <6>1, <6>2
        <5> QED BY <3>3, <5>1, <5>2
      <4> QED BY <3>3, <4>1, <4>2, <4>3 DEF Holds, HoldsHyp
    <3> QED BY <1>8, <3>1, <3>2, <3>3 DEF ShadowLabels, PromoteLabels
  <2> QED BY <1>1, <2>1, <2>2 DEF k
<1>9. CASE k.pc \notin {"version", "experiment", "reject"} \cup ShadowLabels
  <2>1. Goal
    BY <1>9 DEF Holds, Apart, HoldsHyp
  <2> QED BY <1>1, <2>1 DEF k
<1> QED BY <1>5, <1>6, <1>7, <1>8, <1>9

(* Which job holds what, when a rollback takes back what the process wrote.    *)
Undisturbed ==
  ~overlapped /\ job["shadow"].pc \in PromoteLabels =>
    \A t \in Evolvers : job[t].pc \in {"idle", "load"} \cup EnsureLabels

LEMMA RowsNext ==
  ASSUME TypeInv, ShapeInv, Rows, Switch, Undisturbed, [Next]_vars, ~IdsReused'
  PROVE  Rows'
<1>0. /\ db \in Tables /\ committed \in Tables
      /\ Sound(db) /\ Sound(committed) /\ (~open => db = committed)
  BY DEF TypeInv, ShapeInv, Rows
<1>1. ASSUME NEW t \in Threads, ThreadStep(t) PROVE Rows'
  <2>1. /\ \A u \in Threads : u # t => job'[u] = job[u]
        /\ Holds(job'[t], db')
        /\ t # "weekly" => Holds(job'[t], committed')
        /\ \A u \in Threads \ {t} : Apart(job'[t], job[u]) /\ Apart(job[u], job'[t])
    BY <1>1, ThreadArrives, ArrivesRows
  <2>2. Apart(job'["weekly"], job'["cli"])
    <3>1. "weekly" \in Threads /\ "cli" \in Threads
      BY DEF Threads
    <3> QED BY <2>1, <3>1 DEF Rows
  <2>3. /\ Sound(db') /\ Sound(committed')
        /\ \A u \in Threads \ {t} : Holds(job[u], db')
        /\ \A u \in Threads \ {t, "weekly"} : Holds(job[u], committed')
    <3>1. CASE UNCHANGED <<db, committed, open>>
      BY <3>1 DEF Rows
    <3>2. CASE Write(t, db') /\ Alters(t)
      <4>1. Sound(db') /\ \A u \in Threads \ {t} : Holds(job[u], db')
        BY <3>2, AltersRows
      <4>2. committed' = committed \/ committed' = db'
        BY <3>2 DEF Write
      <4> QED BY <4>1, <4>2 DEF Rows
    <3>3. CASE t = "shadow" /\ BeginPromotion
      BY <3>3 DEF BeginPromotion, Rows
    <3>4. CASE t = "shadow" /\ Commit
      BY <3>4 DEF Commit, Rows
    <3>5. CASE t = "shadow" /\ Undone
      <4>1. db' = committed /\ committed' = committed /\ open /\ interrupted'
        BY <3>5 DEF Undone
      <4>2. ~overlapped
        BY <4>1, HistoryGrows DEF IdsReused
      <4>3. job["weekly"].pc \in {"idle", "load"} \cup EnsureLabels
        BY <4>1, <4>2 DEF Undisturbed, ShapeInv, PromoteLabels, Evolvers
      <4>4. Holds(job["weekly"], committed)
        BY <4>3 DEF Holds, HoldsHyp, EnsureLabels, ShadowLabels, PromoteLabels
      <4>5. \A u \in Threads : Holds(job[u], committed)
        BY <4>4 DEF Rows
      <4> QED BY <1>0, <4>1, <4>5
    <3> QED BY <1>1, <3>1, <3>2, <3>3, <3>4, <3>5, ThreadMoves DEF DataMoves
  <2>4. \A u \in Threads : /\ Holds(job'[u], db')
                           /\ u # "weekly" => Holds(job'[u], committed')
    BY <2>1, <2>3
  <2> QED BY <2>2, <2>3, <2>4 DEF Rows
<1>2. CASE Crash
  <2>1. /\ db' = committed /\ committed' = committed
        /\ \A u \in Threads : job'[u] = IF u = "cli" THEN job[u] ELSE IdleJob
    BY <1>2, CrashMoves
  <2>2. \A d : Holds(IdleJob, d)
    BY IdlePc DEF Holds, HoldsHyp, ShadowLabels, PromoteLabels
  <2>3. \A u \in Threads : Holds(job'[u], committed)
    <3>1. Holds(job["cli"], committed)
      BY DEF Rows, Threads
    <3> QED BY <2>1, <2>2, <3>1
  <2>4. Apart(job'["weekly"], job'["cli"])
    BY <2>1, IdlePc DEF Apart, HoldsHyp, Threads
  <2> QED BY <1>0, <2>1, <2>3, <2>4 DEF Rows
<1>3. CASE UNCHANGED vars
  <2>1. db' = db /\ committed' = committed /\ job' = job
    BY <1>3 DEF vars
  <2> QED BY <2>1 DEF Rows
<1> QED BY <1>1, <1>2, <1>3, Actors

(* What a statement makes of the status of each version, of the set of         *)
(* champions and of the verdicts.                                             *)
StatusMoves(t, v) ==
  LET was == db.versions[v].status
      is == db'.versions[v].status
  IN \/ is = was
     \/ Crowns(t) /\ v = 1 /\ is = "champion" /\ open /\ job["shadow"].pc = "crown"
     \/ Refuses(t) /\ v = job[t].challenger /\ is = "rejected"
     \/ Retires(t) /\ v = job[t].champion /\ is = "retired"
     \/ Promotes(t) /\ v = job[t].challenger /\ is = "champion"
ChampionsMove(t) ==
  LET was == WithStatus(db, "champion")
      is == WithStatus(db', "champion")
  IN \/ is = was /\ ~Seeds(t) /\ ~Retires(t) /\ ~Promotes(t)
     \/ Crowns(t) /\ is = {1} /\ open /\ job["shadow"].pc = "crown"
     \/ Seeds(t) /\ is = {1} /\ ~open /\ 1 \in Ids(db'.versions)
     \/ Retires(t) /\ is = {}
     \/ Promotes(t) /\ is = {job[t].challenger}
VerdictsStay ==
  \A e \in Ids(db.experiments) :
    /\ e \in Ids(db'.experiments)
    /\ db.experiments[e].decision # "none" => db'.experiments[e] = db.experiments[e]

LEMMA AltersStatus ==
  ASSUME TypeInv, ShapeInv, Rows, Switch, NEW t \in Threads, Alters(t)
  PROVE  /\ \A v \in Ids(db.versions) : v \in Ids(db'.versions) /\ StatusMoves(t, v)
         /\ ChampionsMove(t)
         /\ VerdictsStay
<1> DEFINE j == job[t]
           Was == WithStatus(db, "champion")
           Is == WithStatus(db', "champion")
           Same == /\ \A v \in Ids(db.versions) :
                        v \in Ids(db'.versions) /\ db'.versions[v].status = db.versions[v].status
           Goal == /\ \A v \in Ids(db.versions) : v \in Ids(db'.versions) /\ StatusMoves(t, v)
                   /\ ChampionsMove(t)
                   /\ VerdictsStay
<1>0. /\ j \in Job /\ db \in Tables /\ Refs(db) /\ Seeded(db) /\ Sound(db) /\ Holds(j, db)
      /\ Ids(committed.versions) \subseteq Ids(db.versions)
      /\ j.pc \in LabelsOf(t)
  BY LongerHolds DEF TypeInv, ShapeInv, Rows
<1>1. /\ "champion" \in Statuses /\ "retired" \in Statuses /\ "rejected" \in Statuses
      /\ "shadow" \in Statuses /\ "rejected" \in Verdicts
  BY DEF Statuses, Verdicts
<1>2. ASSUME Same, Is = Was, ~At(t, "seed"), ~At(t, "retire"), ~At(t, "crown"), VerdictsStay
      PROVE  Goal
  BY <1>2 DEF StatusMoves, ChampionsMove, Seeds, Retires, Promotes
<1>3. ASSUME db'.experiments = db.experiments PROVE VerdictsStay
  BY <1>3 DEF VerdictsStay
<1>4. CASE Crowns(t)
  <2>1. db' = SetStatus(db, 1, "champion") /\ 1 \in Ids(db.versions) /\ At(t, "recrown")
    BY <1>4, CrownsSeed DEF Crowns
  <2>2. /\ Ids(db'.versions) = Ids(db.versions) /\ db'.experiments = db.experiments
        /\ \A v \in Ids(db.versions) :
             db'.versions[v].status = IF v = 1 THEN "champion" ELSE db.versions[v].status
    <3> DEFINE w == 1
               s == "champion"
    <3>1. w \in Ids(db.versions) /\ s \in Statuses /\ db' = SetStatus(db, w, s)
      BY <1>1, <2>1
    <3> HIDE DEF w, s
    <3>2. /\ Ids(db'.versions) = Ids(db.versions) /\ db'.experiments = db.experiments
          /\ \A v \in Ids(db.versions) :
               db'.versions[v].status = IF v = w THEN s ELSE db.versions[v].status
      BY <1>0, <3>1, SetStatusIs
    <3> QED BY <3>2 DEF w, s
  <2>3. Is = Was \cup {1}
    BY <1>0, <1>1, <2>1, SetStatusShape
  <2>4. CASE Was = {1}
    <3>1. db.versions[1].status = "champion"
      BY <2>4 DEF WithStatus
    <3>2. Same /\ Is = Was
      BY <2>2, <2>3, <2>4, <3>1
    <3> QED BY <1>2, <1>3, <2>1, <2>2, <3>2 DEF At
  <2>5. CASE Was # {1}
    <3>1. open /\ job["shadow"].pc = "crown"
      BY <1>4, <2>5, CrownsSeed DEF Crowns
    <3>2. Was \subseteq {1}
      BY <1>4, CrownsSeed DEF Crowns, MayBe
    <3>3. Is = {1}
      BY <2>3, <3>2
    <3>4. \A v \in Ids(db.versions) : StatusMoves(t, v)
      BY <1>4, <2>2, <3>1 DEF StatusMoves
    <3>5. ChampionsMove(t)
      BY <1>4, <3>1, <3>3 DEF ChampionsMove
    <3> QED BY <1>3, <2>2, <3>4, <3>5
  <2> QED BY <2>4, <2>5
<1>5. CASE Seeds(t)
  <2> DEFINE n == Len(db.versions) + 1
  <2>n. n \in Nat /\ n = Len(db.versions) + 1
    BY <1>0, TablesType
  <2>1. /\ n = 1 /\ Is = Was \cup {n}
    BY <1>0, <1>1, <1>5, <2>n, InsertVersionShape DEF Seeds
  <2> HIDE DEF n
  <2>2. VersionAdded(db, db', n, "seed", "champion")
    BY <1>0, <1>1, <1>5, <2>n, InsertVersionIs DEF Seeds
  <2>3. Ids(db.versions) = {}
    BY <1>0, <2>n, <2>1, TablesType
  <2>4. Is = {1} /\ 1 \in Ids(db'.versions)
    BY <2>1, <2>2, <2>3 DEF VersionAdded, WithStatus
  <2>5. ~open
    <3> SUFFICES ASSUME open PROVE FALSE
      OBVIOUS
    <3>1. job["shadow"].challenger \in Ids(committed.versions)
      BY DEF ShapeInv, ShadowLabels, PromoteLabels, Threads
    <3> QED BY <1>0, <2>3, <3>1
  <2>6. ChampionsMove(t)
    BY <1>5, <2>4, <2>5 DEF ChampionsMove
  <2> QED BY <1>3, <2>2, <2>3, <2>6 DEF VersionAdded
<1>6. CASE Proposes(t)
  <2> DEFINE n == Len(db.hypotheses) + 1
  <2>n. n \in Nat /\ n = Len(db.hypotheses) + 1
    BY <1>0, TablesType
  <2> HIDE DEF n
  <2>1. HypothesisAdded(db, db', n, j.champion, j.accepted)
    BY <1>0, <1>6, <2>n, InsertHypothesisIs DEF Proposes, Job
  <2>2. db'.versions = db.versions /\ db'.experiments = db.experiments
    BY <2>1 DEF HypothesisAdded
  <2>3. Same /\ Is = Was
    BY <2>2 DEF WithStatus
  <2> QED BY <1>2, <1>3, <1>6, <2>2, <2>3 DEF Proposes, At
<1>7. CASE Stages(t)
  <2> DEFINE n == Len(db.versions) + 1
             s == IF j.passed THEN "shadow" ELSE "rejected"
  <2>n. n \in Nat /\ n = Len(db.versions) + 1
    BY <1>0, TablesType
  <2> HIDE DEF n
  <2>3. s \in Statuses /\ s # "champion"
    BY <1>1
  <2>4. db' = InsertVersion(db, j.change, s) /\ j.change \in Changes \cup {"seed"}
    BY <1>0, <1>7 DEF Stages, Job
  <2> HIDE DEF s
  <2>5. VersionAdded(db, db', n, j.change, s)
    BY <1>0, <2>n, <2>3, <2>4, InsertVersionIs
  <2>6. Same /\ db'.experiments = db.experiments
    BY <2>5 DEF VersionAdded
  <2>7. Is = Was
    BY <2>3, <2>5 DEF VersionAdded, WithStatus
  <2> QED BY <1>2, <1>3, <1>7, <2>6, <2>7 DEF Stages, At
<1>8. CASE Records(t)
  <2> DEFINE n == Len(db.experiments) + 1
  <2>n. n \in Nat /\ n = Len(db.experiments) + 1
    BY <1>0, TablesType
  <2> HIDE DEF n
  <2>1. ExperimentAdded(db, db', n, j.hyp, j.champion, j.challenger, j.passed)
    BY <1>0, <1>8, <2>n, InsertExperimentIs DEF Records, Job
  <2>2. Same /\ Is = Was
    BY <2>1 DEF ExperimentAdded, WithStatus
  <2>3. VerdictsStay
    BY <2>1 DEF ExperimentAdded, VerdictsStay
  <2> QED BY <1>2, <1>8, <2>2, <2>3 DEF Records, At
<1>9. CASE Rejects(t) \/ Decides(t)
  <2> DEFINE s == IF j.pc = "reject" THEN "rejected" ELSE j.verdict
  <2>1. /\ db' = decide(db, j.exp, s) /\ j.pc \in {"reject", "decide"}
        /\ s \in Verdicts /\ j.exp \in Nat
    BY <1>0, <1>1, <1>9 DEF Rejects, Decides, At, Job
  <2> HIDE DEF s
  <2>2. db.experiments[j.exp].decision = "none"
    BY <1>0, <2>1 DEF Holds, ShadowLabels
  <2>3. db'.versions = db.versions /\ Ids(db'.experiments) = Ids(db.experiments)
        /\ \A e \in Ids(db.experiments) : e # j.exp => db'.experiments[e] = db.experiments[e]
    BY <1>0, <2>1, DecideIs
  <2>4. Same /\ Is = Was /\ VerdictsStay
    BY <2>2, <2>3 DEF WithStatus, VerdictsStay
  <2> QED BY <1>2, <2>1, <2>4 DEF At
<1>10. CASE Refuses(t) \/ Promotes(t) \/ Retires(t)
  <2> DEFINE v == IF j.pc = "retire" THEN j.champion ELSE j.challenger
             s == CASE j.pc = "refuse" -> "rejected" [] j.pc = "retire" -> "retired"
                    [] OTHER -> "champion"
  <2>1. t = "shadow" /\ j.pc \in {"refuse", "crown", "retire"}
    BY <1>0, <1>10, Roles DEF Refuses, Promotes, Retires, At, ShadowLabels, PromoteLabels
  <2>2. j.pc # "retire" => j.challenger \in Ids(db.versions)
    BY <1>0, <2>1 DEF ShapeInv, ShadowLabels, PromoteLabels
  <2>3. j.pc = "retire" => j.champion \in Ids(db.versions) /\ Was = {j.champion}
    BY <2>1 DEF Switch, WithStatus
  <2>4. v \in Ids(db.versions) /\ s \in Statuses
    BY <1>1, <2>1, <2>2, <2>3
  <2>5. db' = SetStatus(db, v, s)
    <3>1. None \notin Ids(db.versions)
      BY <1>0, TablesType DEF None
    <3> QED BY <1>10, <2>1, <2>3, <3>1 DEF Refuses, Promotes, Retires, At
  <2>6. /\ Refuses(t) => s = "rejected" /\ v = j.challenger /\ j.pc = "refuse"
        /\ Promotes(t) => s = "champion" /\ v = j.challenger /\ j.pc = "crown"
        /\ Retires(t) => s = "retired" /\ v = j.champion /\ j.pc = "retire"
    BY DEF Refuses, Promotes, Retires, At
  <2> HIDE DEF v, s
  <2>7. /\ Ids(db'.versions) = Ids(db.versions) /\ db'.experiments = db.experiments
        /\ \A u \in Ids(db.versions) :
             db'.versions[u].status = IF u = v THEN s ELSE db.versions[u].status
    BY <1>0, <2>4, <2>5, SetStatusIs
  <2>8. \A u \in Ids(db.versions) : StatusMoves(t, u)
    BY <1>10, <2>6, <2>7 DEF StatusMoves
  <2>9. ChampionsMove(t)
    <3>1. Is = IF s = "champion" THEN Was \cup {v} ELSE Was \ {v}
      BY <1>0, <2>4, <2>5, SetStatusShape
    <3>2. CASE Refuses(t)
      <4>1. db.versions[j.challenger].status = "shadow"
        BY <2>1, <2>6, <3>2 DEF Switch, ShadowLabels, PromoteLabels
      <4>2. Is = Was
        BY <2>6, <3>1, <3>2, <4>1 DEF WithStatus
      <4>3. ~Seeds(t) /\ ~Retires(t) /\ ~Promotes(t)
        BY <3>2 DEF Refuses, Seeds, Retires, Promotes, At
      <4> QED BY <4>2, <4>3 DEF ChampionsMove
    <3>3. CASE Promotes(t)
      <4>1. Was \subseteq {j.challenger}
        BY <3>3 DEF Promotes, MayBe
      <4> QED BY <2>6, <3>1, <3>3, <4>1 DEF ChampionsMove
    <3>4. CASE Retires(t)
      BY <2>3, <2>6, <3>1, <3>4 DEF ChampionsMove
    <3> QED BY <1>10, <3>2, <3>3, <3>4
  <2> QED BY <1>3, <2>7, <2>8, <2>9
<1> QED
  BY <1>4, <1>5, <1>6, <1>7, <1>8, <1>9, <1>10 DEF Alters

LEMMA ShadowMoves ==
  ASSUME TypeInv, ShapeInv, ThreadStep("shadow")
  PROVE  LET j == job["shadow"]
             k == job'["shadow"]
         IN /\ k.pc \in ShadowLabels => \/ j.pc = "idle" /\ k.pc = "decide" /\ NoWrite
                                        \/ j.pc \in ShadowLabels /\ k.challenger = j.challenger
            /\ k.pc = "decide" => /\ j.pc = "idle" /\ NoWrite
                                  /\ active_experiment(db) \in Ids(db.experiments)
                                  /\ k.challenger = db.experiments[active_experiment(db)].challenger
                                  /\ db.experiments[active_experiment(db)].shadow
                                  /\ db.experiments[active_experiment(db)].decision = "none"
            /\ k.pc \in {"begin", "refuse"} => j.pc = "decide" /\ Decides("shadow") /\ Write("shadow", db')
            /\ k.pc = "retire" => /\ j.pc = "begin" /\ db' = db /\ committed' = committed
                                  /\ k.champion = load_champion(db)
            /\ k.pc = "crown" => j.pc = "retire" /\ Retires("shadow") /\ Write("shadow", db')
            /\ k.pc = "commit" => j.pc = "crown" /\ Promotes("shadow") /\ Write("shadow", db')
<1> DEFINE j == job["shadow"]
           k == job'["shadow"]
<1>0. /\ "shadow" \in Threads /\ Arrives("shadow") /\ db \in Tables
  BY ThreadArrives DEF TypeInv, Threads
<1>1. CASE k.pc = "decide"
  <2>1. /\ j.pc = "idle" /\ NoWrite /\ active_experiment(db) # None
        /\ k.challenger = db.experiments[active_experiment(db)].challenger
        /\ db.experiments[active_experiment(db)].shadow
    BY <1>0, <1>1, ToDecide DEF Arrives, At
  <2>2. active_experiment(db) \in Undecided(db)
    BY <1>0, <2>1, ActiveIn
  <2> QED BY <1>1, <2>1, <2>2 DEF Undecided
<1>2. CASE k.pc \in {"begin", "refuse"}
  <2>1. /\ j.pc = "decide" /\ Write("shadow", decide(db, j.exp, j.verdict))
        /\ k.challenger = j.challenger
    BY <1>0, <1>2, ToVerdict DEF Arrives, At
  <2>2. Decides("shadow") /\ Write("shadow", db')
    BY <2>1 DEF Decides, At, Write
  <2> QED BY <1>2, <2>1, <2>2 DEF ShadowLabels
<1>3. CASE k.pc = "retire"
  BY <1>0, <1>3, ToRetire DEF Arrives, At, ShadowLabels, PromoteLabels
<1>4. CASE k.pc = "crown"
  <2>1. /\ j.pc = "retire" /\ k.challenger = j.challenger
        /\ Write("shadow", IF j.champion = None THEN db ELSE SetStatus(db, j.champion, "retired"))
    BY <1>0, <1>4, ToCrown DEF Arrives, At
  <2>2. Retires("shadow") /\ Write("shadow", db')
    BY <2>1 DEF Retires, At, Write
  <2> QED BY <1>4, <2>1, <2>2 DEF ShadowLabels, PromoteLabels
<1>5. CASE k.pc = "commit"
  <2>1. /\ j.pc = "crown" /\ k.challenger = j.challenger /\ MayBe(db, j.challenger, "champion")
        /\ Write("shadow", SetStatus(db, j.challenger, "champion"))
    BY <1>0, <1>5, ToCommit DEF Arrives, At
  <2>2. Promotes("shadow") /\ Write("shadow", db')
    BY <2>1 DEF Promotes, At, Write
  <2> QED BY <1>5, <2>1, <2>2 DEF ShadowLabels, PromoteLabels
<1>6. CASE k.pc \notin ShadowLabels
  BY <1>6 DEF ShadowLabels, PromoteLabels
<1> QED BY <1>1, <1>2, <1>3, <1>4, <1>5, <1>6 DEF ShadowLabels, PromoteLabels

(* Of what a promotion has changed, nothing is committed.                      *)
Drift ==
  LET j == job["shadow"]
  IN \A v \in Ids(committed.versions) :
       LET was == committed.versions[v].status
           is == db.versions[v].status
       IN \/ is = was
          \/ was = "champion" /\ is = "retired" /\ j.pc \in {"crown", "commit"}
          \/ v = 1 /\ is = "champion" /\ j.pc = "crown"
          \/ v = j.challenger /\ is = "champion" /\ j.pc = "commit"
VerdictsKept ==
  \A e \in Ids(committed.experiments) :
    committed.experiments[e].decision # "none" => db.experiments[e] = committed.experiments[e]

LEMMA SeedsFirst ==
  ASSUME TypeInv, ShapeInv, NEW t \in Threads, Alters(t), 1 \notin Ids(db.versions)
  PROVE  Seeds(t)
<1> SUFFICES ASSUME ~Seeds(t) PROVE FALSE
  OBVIOUS
<1>1. CASE Crowns(t)
  BY <1>1, LongerHolds DEF Crowns, At, ShapeInv
<1>2. CASE ~Crowns(t)
  <2>1. job[t].pc \in (EvolveLabels \ {"load"}) \cup ShadowLabels
    BY <1>2 DEF Alters, Proposes, Stages, Records, Rejects, Decides, Refuses, Retires, Promotes,
                At, EvolveLabels, ShadowLabels, PromoteLabels
  <2>2. \E v : v \in Ids(committed.versions)
    BY <2>1 DEF ShapeInv
  <2> QED BY <2>2, LongerHolds, TablesType DEF TypeInv
<1> QED BY <1>1, <1>2

LEMMA SwitchNext ==
  ASSUME TypeInv, ShapeInv, Rows, Switch, [Next]_vars
  PROVE  Switch'
<1>0. /\ db \in Tables /\ committed \in Tables /\ "shadow" \in Threads
      /\ Ids(committed.versions) \subseteq Ids(db.versions)
      /\ (~open => db = committed) /\ (open <=> job["shadow"].pc \in Opened)
      /\ Sound(db) /\ Sound(committed)
  BY LongerHolds DEF TypeInv, ShapeInv, Rows, Threads, Opened
<1> DEFINE j == job["shadow"]
           k == job'["shadow"]
           One(d) == 1 \in Ids(d.versions) =>
                       \E c \in Ids(d.versions) : WithStatus(d, "champion") = {c}
<1>s. /\ j.pc \in ShadowLabels => /\ j.challenger \in Ids(committed.versions) \ {1}
                                  /\ committed.versions[j.challenger].status = "shadow"
      /\ j.pc \in ShadowLabels \ {"commit"} => db.versions[j.challenger].status = "shadow"
  <2>1. j.pc \in ShadowLabels => j.challenger \in Ids(committed.versions)
    BY <1>0 DEF ShapeInv
  <2>2. j.pc \in ShadowLabels => committed.versions[j.challenger].status = "shadow"
    BY DEF Switch
  <2> QED BY <1>0, <2>1, <2>2 DEF Sound, Switch
<1>1. ASSUME NEW t \in Threads \ {"shadow"}, ThreadStep(t) PROVE Switch'
  <2>1. k = j /\ open' = open
    BY <1>0, <1>1, ThreadArrives, DataNext
  <2>2. CASE UNCHANGED <<db, committed, open>>
    BY <2>1, <2>2 DEF Switch
  <2>3. CASE Write(t, db') /\ Alters(t)
    <3>1. /\ \A v \in Ids(db.versions) : v \in Ids(db'.versions) /\ StatusMoves(t, v)
          /\ ChampionsMove(t)
      BY <2>3, AltersStatus
    <3>2. ~Refuses(t) /\ ~Retires(t) /\ ~Promotes(t)
      BY <1>1, Roles DEF Refuses, Retires, Promotes, At, ShapeInv, ShadowLabels, PromoteLabels
    <3>3. \A v \in Ids(db.versions) \ {1} : db'.versions[v].status = db.versions[v].status
      BY <3>1, <3>2 DEF StatusMoves
    <3>4. /\ committed' = IF open THEN committed ELSE db'
      BY <2>3 DEF Write
    <3>5. k.pc \in ShadowLabels \ {"commit"} => db'.versions[k.challenger].status = "shadow"
      BY <1>0, <1>s, <2>1, <3>3
    <3>6. k.pc \in ShadowLabels => committed'.versions[k.challenger].status = "shadow"
      <4>1. CASE open
        BY <1>s, <2>1, <3>4, <4>1
      <4>2. CASE ~open
        BY <1>0, <2>1, <3>4, <3>5, <4>2 DEF Opened
      <4> QED BY <4>1, <4>2
    <3>7. k.pc = "retire" => /\ WithStatus(db', "champion") = {k.champion}
                             /\ WithStatus(committed', "champion") = {k.champion}
      BY <1>0, <2>1, <3>1, <3>2, <3>4 DEF ChampionsMove, Switch, Opened
    <3>8. k.pc = "crown" => WithStatus(db', "champion") \subseteq {1}
      BY <1>0, <2>1, <3>1, <3>2 DEF ChampionsMove, Switch, Opened
    <3>9. k.pc = "commit" => WithStatus(db', "champion") = {k.challenger}
      BY <1>0, <2>1, <3>1, <3>2 DEF ChampionsMove, Switch, Opened
    <3>10. One(committed')
      <4>1. CASE open
        BY <3>4, <4>1 DEF Switch
      <4>2. CASE ~open
        <5>1. One(db)
          BY <1>0, <4>2 DEF Switch
        <5>2. WithStatus(db', "champion") \in {WithStatus(db, "champion"), {1}}
              /\ (WithStatus(db', "champion") # WithStatus(db, "champion") => 1 \in Ids(db'.versions))
          BY <1>0, <3>1, <3>2, <4>2 DEF ChampionsMove, Opened
        <5>3. 1 \notin Ids(db.versions) => WithStatus(db', "champion") = {1}
          BY <1>0, <2>3, <3>1, <3>2, <4>2, SeedsFirst DEF ChampionsMove, Opened
        <5>4. Ids(db.versions) \subseteq Ids(db'.versions)
          BY <3>1
        <5> QED BY <3>4, <4>2, <5>1, <5>2, <5>3, <5>4
      <4> QED BY <4>1, <4>2
    <3> QED BY <3>5, <3>6, <3>7, <3>8, <3>9, <3>10 DEF Switch
  <2> QED BY <1>1, <2>2, <2>3, ThreadMoves DEF DataMoves
<1>2. ASSUME ThreadStep("shadow") PROVE Switch'
  <2>a. /\ ~Crowns("shadow") /\ ~Seeds("shadow")
    BY <1>0, Roles DEF Crowns, Seeds, At, ShapeInv, EnsureLabels
  <2>b. Alters("shadow") => /\ \A v \in Ids(db.versions) : v \in Ids(db'.versions) /\ StatusMoves("shadow", v)
                            /\ ChampionsMove("shadow")
    BY <1>0, AltersStatus
  <2>c. Write("shadow", db') => committed' = IF open THEN committed ELSE db'
    BY DEF Write
  <2>d. 1 \in Ids(committed.versions) =>
          \E c \in Ids(committed.versions) : WithStatus(committed, "champion") = {c}
    BY DEF Switch
  <2>e. j.pc \in ShadowLabels => 1 \in Ids(committed.versions)
    BY <1>0, <1>s, TablesType
  <2>1. CASE k.pc = "decide"
    <3> DEFINE e == active_experiment(db)
    <3>1. /\ j.pc = "idle" /\ NoWrite /\ e \in Ids(db.experiments)
          /\ k.challenger = db.experiments[e].challenger
          /\ db.experiments[e].shadow /\ db.experiments[e].decision = "none"
      BY <1>2, <2>1, ShadowMoves DEF ShadowLabels, PromoteLabels
    <3>2. db.versions[k.challenger].status = "shadow"
      BY <1>0, <3>1 DEF Sound
    <3>3. db' = db /\ committed' = committed /\ db = committed
      BY <1>0, <3>1 DEF NoWrite, Opened
    <3> QED BY <2>1, <2>d, <3>2, <3>3 DEF Switch
  <2>2. CASE k.pc \in {"begin", "refuse"}
    <3>1. /\ j.pc = "decide" /\ Decides("shadow") /\ Write("shadow", db')
          /\ k.challenger = j.challenger
      BY <1>2, <2>2, ShadowMoves DEF ShadowLabels, PromoteLabels
    <3>2. /\ ~Refuses("shadow") /\ ~Retires("shadow") /\ ~Promotes("shadow")
          /\ Alters("shadow") /\ ~open
      BY <1>0, <3>1 DEF Refuses, Retires, Promotes, At, Alters, Opened
    <3>3. /\ \A v \in Ids(db.versions) : db'.versions[v].status = db.versions[v].status
          /\ WithStatus(db', "champion") = WithStatus(db, "champion")
          /\ Ids(db.versions) \subseteq Ids(db'.versions)
      BY <2>a, <2>b, <3>2 DEF StatusMoves, ChampionsMove
    <3>4. committed' = db' /\ committed = db
      BY <1>0, <2>c, <3>1, <3>2
    <3>5. db'.versions[k.challenger].status = "shadow"
      BY <1>0, <1>s, <3>1, <3>3 DEF ShadowLabels
    <3>6. \E c \in Ids(committed'.versions) : WithStatus(committed', "champion") = {c}
      BY <2>d, <2>e, <3>1, <3>3, <3>4 DEF ShadowLabels
    <3> QED BY <2>2, <3>4, <3>5, <3>6 DEF Switch
  <2>3. CASE k.pc = "retire"
    <3>1. /\ j.pc = "begin" /\ db' = db /\ committed' = committed
          /\ k.champion = load_champion(db) /\ k.challenger = j.challenger
      BY <1>2, <2>3, ShadowMoves DEF ShadowLabels, PromoteLabels
    <3>2. db = committed
      BY <1>0, <3>1 DEF Opened
    <3>3. WithStatus(db, "champion") = {k.champion}
      BY <1>0, <2>d, <2>e, <3>1, <3>2, ChampionIn DEF ShadowLabels, PromoteLabels
    <3>4. db.versions[k.challenger].status = "shadow"
      BY <1>s, <3>1 DEF ShadowLabels, PromoteLabels
    <3> QED BY <2>3, <2>d, <3>1, <3>2, <3>3, <3>4 DEF Switch
  <2>4. CASE k.pc \in {"crown", "commit"}
    <3>1. /\ j.pc \in {"retire", "crown"} /\ Write("shadow", db') /\ k.challenger = j.challenger
          /\ k.pc = "crown" => Retires("shadow") /\ j.pc = "retire"
          /\ k.pc = "commit" => Promotes("shadow") /\ j.pc = "crown"
      BY <1>2, <2>4, ShadowMoves DEF ShadowLabels, PromoteLabels
    <3>2. Alters("shadow") /\ ~Refuses("shadow")
          /\ (k.pc = "crown" => ~Promotes("shadow")) /\ (k.pc = "commit" => ~Retires("shadow"))
      BY <2>4, <3>1 DEF Alters, Refuses, Retires, Promotes, At
    <3>3. committed' = committed
      BY <1>0, <2>c, <3>1 DEF Opened
    <3>4. /\ committed.versions[k.challenger].status = "shadow"
          /\ db.versions[k.challenger].status = "shadow"
          /\ k.challenger \in Ids(db.versions)
      BY <1>0, <1>s, <3>1 DEF ShadowLabels, PromoteLabels
    <3>5. CASE k.pc = "crown"
      <4>1. WithStatus(db', "champion") = {}
        BY <2>a, <2>b, <3>1, <3>2, <3>5 DEF ChampionsMove
      <4>2. j.champion \in WithStatus(db, "champion")
        BY <3>1, <3>5 DEF Switch
      <4>3. db'.versions[k.challenger].status = "shadow"
        BY <2>a, <2>b, <3>2, <3>4, <3>5, <4>2 DEF StatusMoves, WithStatus
      <4> QED BY <2>d, <3>3, <3>4, <3>5, <4>1, <4>3 DEF Switch
    <3>6. CASE k.pc = "commit"
      <4>1. WithStatus(db', "champion") = {k.challenger}
        BY <2>a, <2>b, <3>1, <3>2, <3>6 DEF ChampionsMove
      <4> QED BY <2>d, <3>3, <3>4, <3>6, <4>1 DEF Switch
    <3> QED BY <2>4, <3>5, <3>6
  <2>5. CASE k.pc \notin ShadowLabels
    <3>1. 1 \in Ids(committed'.versions) =>
            \E c \in Ids(committed'.versions) : WithStatus(committed', "champion") = {c}
      <4>1. CASE UNCHANGED <<db, committed, open>>
        BY <2>d, <4>1
      <4>2. CASE Write("shadow", db') /\ Alters("shadow")
        <5>1. CASE open
          BY <2>c, <2>d, <4>2, <5>1
        <5>2. CASE ~open
          <6>1. ~Retires("shadow") /\ ~Promotes("shadow")
            BY <1>0, <5>2 DEF Retires, Promotes, At, Opened
          <6>2. WithStatus(db', "champion") = WithStatus(db, "champion")
                /\ Ids(db.versions) \subseteq Ids(db'.versions)
            BY <2>a, <2>b, <4>2, <6>1 DEF ChampionsMove
          <6>3. 1 \in Ids(db.versions)
            BY <1>0, <2>a, <4>2, SeedsFirst
          <6> QED BY <1>0, <2>c, <2>d, <4>2, <5>2, <6>2, <6>3
        <5> QED BY <5>1, <5>2
      <4>3. CASE BeginPromotion \/ Undone
        BY <2>d, <4>3 DEF BeginPromotion, Undone
      <4>4. CASE Commit
        <5>1. committed' = db /\ j.pc = "commit"
          BY <4>4 DEF Commit, At
        <5>2. WithStatus(db, "champion") = {j.challenger} /\ j.challenger \in Ids(db.versions)
          BY <1>0, <1>s, <5>1 DEF Switch, ShadowLabels, PromoteLabels
        <5> QED BY <5>1, <5>2
      <4> QED BY <1>0, <1>2, <4>1, <4>2, <4>3, <4>4, ThreadMoves DEF DataMoves
    <3> QED BY <2>5, <3>1 DEF Switch, ShadowLabels, PromoteLabels
  <2> QED BY <2>1, <2>2, <2>3, <2>4, <2>5 DEF ShadowLabels, PromoteLabels
<1>3. CASE Crash
  <2>1. k.pc = "idle" /\ committed' = committed
    BY <1>0, <1>3, CrashMoves, IdlePc
  <2> QED BY <2>1 DEF Switch, ShadowLabels, PromoteLabels
<1>4. CASE UNCHANGED vars
  <2>1. db' = db /\ committed' = committed /\ job' = job
    BY <1>4 DEF vars
  <2> QED BY <2>1 DEF Switch
<1> QED BY <1>1, <1>2, <1>3, <1>4, Actors

LEMMA KeptNext ==
  ASSUME TypeInv, ShapeInv, Rows, Switch, Drift, VerdictsKept, [Next]_vars
  PROVE  Drift' /\ VerdictsKept'
<1>0. /\ db \in Tables /\ committed \in Tables /\ "shadow" \in Threads
      /\ Ids(committed.versions) \subseteq Ids(db.versions)
      /\ Ids(committed.experiments) \subseteq Ids(db.experiments)
      /\ (~open => db = committed) /\ (open <=> job["shadow"].pc \in Opened)
      /\ Sound(db) /\ Sound(committed)
  BY LongerHolds DEF TypeInv, ShapeInv, Rows, Threads, Opened
<1> DEFINE j == job["shadow"]
           k == job'["shadow"]
<1>a. db' = committed' => Drift' /\ VerdictsKept'
  BY DEF Drift, VerdictsKept
<1>b. UNCHANGED <<db, committed, open>> /\ ~open => Drift' /\ VerdictsKept'
  BY <1>0, <1>a
<1>1. ASSUME NEW t \in Threads, ThreadStep(t), Write(t, db'), Alters(t), open, t # "cli"
      PROVE  Drift' /\ VerdictsKept'
  <2>1. /\ \A v \in Ids(db.versions) : v \in Ids(db'.versions) /\ StatusMoves(t, v)
        /\ ChampionsMove(t) /\ VerdictsStay /\ committed' = committed
    BY <1>1, AltersStatus DEF Write
  <2>2. VerdictsKept'
    <3>1. ASSUME NEW e \in Ids(committed.experiments), committed.experiments[e].decision # "none"
          PROVE  db'.experiments[e] = committed.experiments[e]
      BY <1>0, <2>1, <3>1 DEF VerdictsKept, VerdictsStay
    <3> QED BY <2>1, <3>1 DEF VerdictsKept
  <2>3. CASE t # "shadow"
    <3>1. k = j /\ ~Refuses(t) /\ ~Retires(t) /\ ~Promotes(t)
      BY <1>0, <1>1, <2>3, ThreadArrives, Roles
         DEF Refuses, Retires, Promotes, At, ShapeInv, ShadowLabels, PromoteLabels
    <3>2. ASSUME NEW v \in Ids(committed.versions)
          PROVE  LET was == committed'.versions[v].status
                     is == db'.versions[v].status
                 IN \/ is = was
                    \/ was = "champion" /\ is = "retired" /\ k.pc \in {"crown", "commit"}
                    \/ v = 1 /\ is = "champion" /\ k.pc = "crown"
                    \/ v = k.challenger /\ is = "champion" /\ k.pc = "commit"
      <4>1. v \in Ids(db.versions) /\ StatusMoves(t, v)
        BY <1>0, <2>1
      <4>2. \/ db'.versions[v].status = db.versions[v].status
            \/ v = 1 /\ db'.versions[v].status = "champion" /\ k.pc = "crown"
        BY <3>1, <4>1 DEF StatusMoves
      <4> QED BY <2>1, <3>1, <4>2 DEF Drift
    <3> QED BY <2>1, <2>2, <3>2 DEF Drift
  <2>4. CASE t = "shadow"
    <3>1. ~Crowns(t) /\ ~Seeds(t) /\ ~Refuses(t) /\ j.pc \in {"retire", "crown", "commit"}
      BY <1>0, <1>1, <2>4, Roles DEF Crowns, Seeds, Refuses, At, ShapeInv, EnsureLabels, Opened
    <3>2. Retires(t) \/ Promotes(t)
      BY <1>1, <2>4, <3>1 DEF Alters, Proposes, Stages, Records, Rejects, Decides, At
    <3>3. j.challenger \in Ids(committed.versions) /\ committed.versions[j.challenger].status = "shadow"
      BY <1>0, <3>1 DEF ShapeInv, Switch, ShadowLabels, PromoteLabels
    <3>4. CASE Retires(t) /\ ~Promotes(t) /\ j.pc = "retire"
      <4>1. k.pc = "crown" \/ k.pc = "idle"
        BY <1>1, <2>4, <3>4, ShadowMoves, ThreadArrives
           DEF Arrives, LabelsOf, ShadowLabels, PromoteLabels
      <4>2. CASE k.pc = "idle"
        BY <1>0, <1>1, <1>a, <2>4, <4>2, OpenNext, DataNext DEF Opened
      <4>3. CASE k.pc = "crown"
        <5>1. ASSUME NEW v \in Ids(committed.versions)
              PROVE  \/ db'.versions[v].status = committed.versions[v].status
                     \/ committed.versions[v].status = "champion" /\ db'.versions[v].status = "retired"
          <6>1. db.versions[v].status = committed.versions[v].status /\ StatusMoves(t, v)
            BY <1>0, <2>1, <3>4 DEF Drift
          <6>2. j.champion \in WithStatus(committed, "champion")
            BY <3>4 DEF Switch
          <6> QED BY <2>4, <3>1, <3>4, <6>1, <6>2 DEF StatusMoves, WithStatus
        <5> QED BY <2>1, <2>2, <4>3, <5>1 DEF Drift
      <4> QED BY <4>1, <4>2, <4>3
    <3>5. CASE Promotes(t) /\ ~Retires(t) /\ j.pc = "crown"
      <4>1. k.pc = "commit" \/ k.pc = "idle"
        BY <1>1, <2>4, <3>5, ShadowMoves, ThreadArrives
           DEF Arrives, LabelsOf, ShadowLabels, PromoteLabels
      <4>2. CASE k.pc = "idle"
        BY <1>0, <1>1, <1>a, <2>4, <4>2, OpenNext, DataNext DEF Opened
      <4>3. CASE k.pc = "commit"
        <5>0. k.challenger = j.challenger /\ j.challenger # 1
          BY <1>0, <1>1, <2>4, <3>3, <3>5, <4>3, ShadowMoves DEF ShadowLabels, PromoteLabels, Sound
        <5>1. ASSUME NEW v \in Ids(committed.versions)
              PROVE  \/ db'.versions[v].status = committed.versions[v].status
                     \/ committed.versions[v].status = "champion" /\ db'.versions[v].status = "retired"
                     \/ v = j.challenger /\ db'.versions[v].status = "champion"
          <6>1. StatusMoves(t, v) /\ v \in Ids(db.versions)
            BY <1>0, <2>1
          <6>2. \/ db.versions[v].status = committed.versions[v].status
                \/ committed.versions[v].status = "champion" /\ db.versions[v].status = "retired"
            <7>1. ~(v = 1 /\ db.versions[v].status = "champion")
              BY <2>4, <3>5, <5>0, <6>1 DEF Promotes, MayBe, WithStatus
            <7> QED BY <3>5, <7>1 DEF Drift
          <6> QED BY <2>4, <3>1, <3>5, <6>1, <6>2 DEF StatusMoves
        <5> QED BY <2>1, <2>2, <4>3, <5>0, <5>1 DEF Drift
      <4> QED BY <4>1, <4>2, <4>3
    <3> QED BY <2>4, <3>2, <3>4, <3>5 DEF Retires, Promotes, At
  <2> QED BY <2>3, <2>4
<1>2. ASSUME NEW t \in Threads, ThreadStep(t) PROVE Drift' /\ VerdictsKept'
  <2>1. CASE UNCHANGED <<db, committed, open>>
    <3>1. CASE ~open
      BY <1>b, <2>1, <3>1
    <3>2. CASE open
      <4>1. k = j
        <5>1. CASE t # "shadow"
          BY <1>0, <1>2, <5>1, ThreadArrives
        <5>2. CASE t = "shadow"
          <6>1. k.pc \in Opened /\ j.pc \in Opened
            BY <1>0, <1>2, <2>1, <3>2, <5>2, OpenNext
          <6>2. \/ k.pc = "crown" /\ Retires("shadow")
                \/ k.pc = "commit" /\ Promotes("shadow") /\ j.pc = "crown"
            BY <1>2, <5>2, <6>1, ShadowMoves DEF Opened
          <6>3. WithStatus(db, "champion") # WithStatus(db', "champion")
            <7>1. CASE k.pc = "crown" /\ Retires("shadow")
              <8>1. Alters("shadow") /\ j.pc = "retire"
                BY <7>1 DEF Alters, Retires, At
              <8>2. ChampionsMove("shadow")
                BY <1>0, <8>1, AltersStatus
              <8>3. WithStatus(db, "champion") = {j.champion} /\ WithStatus(db', "champion") # {j.champion}
                BY <7>1, <8>1, <8>2
                   DEF ChampionsMove, Switch, Retires, Crowns, Seeds, Promotes, At
              <8> QED BY <8>3
            <7>2. CASE k.pc = "commit" /\ Promotes("shadow") /\ j.pc = "crown"
              <8>1. Alters("shadow")
                BY <7>2 DEF Alters
              <8>2. ChampionsMove("shadow")
                BY <1>0, <8>1, AltersStatus
              <8>3. /\ WithStatus(db', "champion") = {j.challenger}
                    /\ db.versions[j.challenger].status = "shadow"
                BY <7>2, <8>2 DEF ChampionsMove, Switch, Retires, Crowns, Seeds, Promotes, At,
                                  ShadowLabels, PromoteLabels
              <8> QED BY <8>3 DEF WithStatus
            <7> QED BY <6>2, <7>1, <7>2
          <6> QED BY <2>1, <6>3
        <5> QED BY <5>1, <5>2
      <4> QED BY <2>1, <4>1 DEF Drift, VerdictsKept
    <3> QED BY <3>1, <3>2
  <2>2. CASE Write(t, db') /\ Alters(t)
    <3>1. CASE open
      BY <1>1, <1>2, <2>2, <3>1 DEF Write
    <3>2. CASE ~open
      BY <1>a, <2>2, <3>2 DEF Write
    <3> QED BY <3>1, <3>2
  <2>3. CASE t = "shadow" /\ BeginPromotion
    <3>1. ~open /\ db' = db /\ committed' = committed
      BY <1>0, <2>3 DEF BeginPromotion, At, Opened
    <3> QED BY <1>0, <1>a, <3>1
  <2>4. CASE t = "shadow" /\ (Commit \/ Undone)
    BY <1>a, <2>4 DEF Commit, Undone
  <2> QED BY <1>2, <2>1, <2>2, <2>3, <2>4, ThreadMoves DEF DataMoves
<1>3. CASE Crash
  BY <1>a, <1>3, CrashMoves
<1>4. CASE UNCHANGED vars
  <2>1. db' = db /\ committed' = committed /\ job' = job
    BY <1>4 DEF vars
  <2> QED BY <2>1 DEF Drift, VerdictsKept
<1> QED BY <1>2, <1>3, <1>4, Actors

-----------------------------------------------------------------------------
(* One evolution at a time, and none in the middle of a promotion.             *)

Past == {"active", "review", "hypothesis", "version", "experiment", "reject"}

Lone == ~(Evolving(job["weekly"]) /\ Evolving(job["cli"]))
(* One experiment at a time is without a verdict.                              *)
Pending ==
  /\ \A e, f \in Undecided(db) : e = f
  /\ job["shadow"].pc \in PromoteLabels => Undecided(db) = {}
  /\ \A t \in Evolvers :
       LET j == job[t]
       IN /\ j.pc \in Past \ {"active", "reject"} => Undecided(db) = {}
          /\ j.pc = "reject" => Undecided(db) = {j.exp}
(* An evolution works against the champion.                                    *)
Current ==
  \A t \in Evolvers :
    LET j == job[t]
    IN j.pc \in Past => /\ job["shadow"].pc \notin PromoteLabels
                        /\ j.champion = load_champion(committed)
Recorded ==
  /\ db.experiments = committed.experiments
  /\ db.hypotheses = committed.hypotheses
Judged ==
  /\ \A e \in Ids(db.experiments) :
       LET x == db.experiments[e]
       IN /\ x.decision = "none" => x.champion = load_champion(committed)
          /\ x.champion = db.hypotheses[x.hyp].champion
  /\ \A e, f \in Ids(db.experiments) : db.experiments[e].hyp = db.experiments[f].hyp => e = f
  /\ job["shadow"].pc \in PromoteLabels =>
       db.experiments[job["shadow"].exp].champion = load_champion(committed)

Alone == Lone /\ Pending /\ Current /\ Recorded /\ Judged

(* What a statement does to the experiments and the hypotheses.                *)
LEMMA AltersEvidence ==
  ASSUME TypeInv, ShapeInv, Rows, Switch, NEW t \in Threads, Alters(t)
  PROVE  /\ ~Records(t) /\ ~Rejects(t) /\ ~Decides(t) => db'.experiments = db.experiments
         /\ ~Proposes(t) => db'.hypotheses = db.hypotheses
<1> DEFINE j == job[t]
<1>0. /\ j \in Job /\ db \in Tables
      /\ "champion" \in Statuses /\ "retired" \in Statuses /\ "rejected" \in Statuses
      /\ "shadow" \in Statuses /\ "rejected" \in Verdicts
      /\ Ids(committed.versions) \subseteq Ids(db.versions)
  BY LongerHolds DEF TypeInv, Statuses, Verdicts
<1>1. CASE Seeds(t) \/ Stages(t)
  <2> DEFINE n == Len(db.versions) + 1
             tag == IF At(t, "seed") THEN "seed" ELSE j.change
             s == IF At(t, "seed") THEN "champion" ELSE IF j.passed THEN "shadow" ELSE "rejected"
  <2>1. n \in Nat /\ n = Len(db.versions) + 1
    BY <1>0, TablesType
  <2>2. tag \in Changes \cup {"seed"} /\ s \in Statuses /\ db' = InsertVersion(db, tag, s)
    BY <1>0, <1>1 DEF Seeds, Stages, Job, At
  <2> HIDE DEF n, tag, s
  <2>3. VersionAdded(db, db', n, tag, s)
    BY <1>0, <2>1, <2>2, InsertVersionIs
  <2> QED BY <2>3 DEF VersionAdded
<1>2. CASE Proposes(t)
  <2> DEFINE n == Len(db.hypotheses) + 1
  <2>1. n \in Nat /\ n = Len(db.hypotheses) + 1
    BY <1>0, TablesType
  <2> HIDE DEF n
  <2>2. HypothesisAdded(db, db', n, j.champion, j.accepted)
    BY <1>0, <1>2, <2>1, InsertHypothesisIs DEF Proposes, Job
  <2> QED BY <1>2, <2>2 DEF HypothesisAdded
<1>3. CASE Records(t)
  <2> DEFINE n == Len(db.experiments) + 1
  <2>1. n \in Nat /\ n = Len(db.experiments) + 1
    BY <1>0, TablesType
  <2> HIDE DEF n
  <2>2. ExperimentAdded(db, db', n, j.hyp, j.champion, j.challenger, j.passed)
    BY <1>0, <1>3, <2>1, InsertExperimentIs DEF Records, Job
  <2> QED BY <1>3, <2>2 DEF ExperimentAdded
<1>4. CASE Rejects(t) \/ Decides(t)
  <2> DEFINE s == IF At(t, "reject") THEN "rejected" ELSE j.verdict
  <2>1. s \in Verdicts /\ j.exp \in Nat /\ db' = decide(db, j.exp, s)
    BY <1>0, <1>4 DEF Rejects, Decides, Job, At
  <2> HIDE DEF s
  <2> QED BY <1>0, <1>4, <2>1, DecideKeeps
<1>5. CASE Crowns(t) \/ Refuses(t) \/ Retires(t) \/ Promotes(t)
  <2>1. db' = db \/ \E v \in Ids(db.versions), s \in Statuses : db' = SetStatus(db, v, s)
    <3>1. CASE Crowns(t)
      BY <1>0, <3>1, CrownsSeed DEF Crowns
    <3>2. CASE Refuses(t) \/ Promotes(t)
      <4>1. j.challenger \in Ids(db.versions)
        BY <1>0, <3>2 DEF Refuses, Promotes, At, ShapeInv, ShadowLabels, PromoteLabels
      <4> QED BY <1>0, <3>2, <4>1 DEF Refuses, Promotes
    <3>3. CASE Retires(t)
      <4>1. j.champion \in {None} \cup Ids(db.versions)
        BY <1>0, <3>3 DEF Retires, At, ShapeInv
      <4> QED BY <1>0, <3>3, <4>1 DEF Retires
    <3> QED BY <1>5, <3>1, <3>2, <3>3
  <2>2. ASSUME NEW v \in Ids(db.versions), NEW s \in Statuses, db' = SetStatus(db, v, s)
        PROVE  db'.experiments = db.experiments /\ db'.hypotheses = db.hypotheses
    BY <1>0, <2>2, SetStatusKeeps
  <2> QED BY <2>1, <2>2
<1> QED BY <1>1, <1>2, <1>3, <1>4, <1>5 DEF Alters

(* Which experiments are without a verdict.                                    *)
NewExperiment(n, t) ==
  /\ n = Len(db.experiments) + 1
  /\ ExperimentAdded(db, db', n, job[t].hyp, job[t].champion, job[t].challenger, job[t].passed)
PendingMoves(t) ==
  \/ /\ db'.experiments = db.experiments
     /\ ~Records(t) /\ ~Rejects(t) /\ ~Decides(t)
  \/ /\ Records(t) /\ Undecided(db) = {}
     /\ \E n \in Nat : NewExperiment(n, t) /\ Undecided(db') = {n}
  \/ /\ Rejects(t) \/ Decides(t)
     /\ Undecided(db) = {job[t].exp} /\ Undecided(db') = {}

LEMMA AltersPending ==
  ASSUME TypeInv, ShapeInv, Rows, Switch, Alone, NEW t \in Threads, Alters(t)
  PROVE  PendingMoves(t)
<1> DEFINE j == job[t]
<1>0. /\ j \in Job /\ db \in Tables /\ Holds(j, db) /\ j.pc \in LabelsOf(t)
  BY DEF TypeInv, Rows, ShapeInv
<1>1. CASE Records(t)
  <2> DEFINE n == Len(db.experiments) + 1
  <2>1. n \in Nat /\ n = Len(db.experiments) + 1
    BY <1>0, TablesType
  <2> HIDE DEF n
  <2>2. ExperimentAdded(db, db', n, j.hyp, j.champion, j.challenger, j.passed)
    BY <1>0, <1>1, <2>1, InsertExperimentIs DEF Records, Job
  <2>3. j.pc = "experiment" /\ t \in Evolvers
    BY <1>0, <1>1, Roles DEF Records, At, EvolveLabels
  <2>4. Undecided(db) = {}
    BY <2>3 DEF Alone, Pending, Past
  <2>5. Undecided(db') = {n}
    <3>1. \A e \in Ids(db.experiments) : db.experiments[e].decision # "none"
      BY <2>4 DEF Undecided
    <3>2. db'.experiments[n].decision = "none" /\ n \in Ids(db'.experiments)
      BY <2>2 DEF ExperimentAdded
    <3>3. \A e \in Ids(db'.experiments) : e = n \/ db'.experiments[e].decision # "none"
      BY <2>2, <3>1 DEF ExperimentAdded
    <3> QED BY <3>2, <3>3 DEF Undecided
  <2>6. NewExperiment(n, t)
    BY <2>1, <2>2 DEF NewExperiment
  <2> QED BY <1>1, <2>1, <2>4, <2>5, <2>6 DEF PendingMoves
<1>2. CASE Rejects(t) \/ Decides(t)
  <2> DEFINE s == IF At(t, "reject") THEN "rejected" ELSE j.verdict
  <2>1. s \in Verdicts /\ j.exp \in Nat /\ db' = decide(db, j.exp, s) /\ j.pc \in {"reject", "decide"}
    BY <1>0, <1>2 DEF Rejects, Decides, Job, At, Verdicts
  <2> HIDE DEF s
  <2>2. j.exp \in Undecided(db)
    BY <1>0, <2>1 DEF Holds, ShadowLabels, Undecided
  <2>3. Undecided(db) = {j.exp}
    BY <2>2 DEF Alone, Pending
  <2>4. /\ Ids(db'.experiments) = Ids(db.experiments)
        /\ \A e \in Ids(db.experiments) : e # j.exp => db'.experiments[e] = db.experiments[e]
    BY <1>0, <2>1, DecideIs
  <2>5. db'.experiments[j.exp].decision # "none"
    <3>1. db'.experiments[j.exp].decision = s
      BY <1>0, <2>1, <2>2, DecidedRow DEF Undecided
    <3> QED BY <2>1, <3>1 DEF Verdicts
  <2>6. Undecided(db') = {}
    BY <2>3, <2>4, <2>5 DEF Undecided
  <2> QED BY <1>2, <2>3, <2>6 DEF PendingMoves
<1>3. CASE ~Records(t) /\ ~Rejects(t) /\ ~Decides(t)
  BY <1>3, AltersEvidence DEF PendingMoves
<1> QED BY <1>1, <1>2, <1>3

(* The champion that other connections read.                                   *)
LEMMA ChampionStays ==
  ASSUME TypeInv, ShapeInv, Rows, Switch, NEW t \in Threads, ThreadStep(t)
  PROVE  \/ load_champion(committed') = load_champion(committed)
         \/ Seeds(t) /\ Ids(committed.versions) = {}
         \/ t = "shadow" /\ Commit
<1>0. /\ db \in Tables /\ committed \in Tables /\ (~open => db = committed)
      /\ (open <=> job["shadow"].pc \in Opened)
  BY DEF TypeInv, ShapeInv, Opened
<1>1. CASE Write(t, db') /\ Alters(t) /\ ~open
  <2>1. db = committed /\ committed' = db' /\ ChampionsMove(t)
    BY <1>0, <1>1, AltersStatus DEF Write
  <2>2. CASE Seeds(t)
    <3> DEFINE n == Len(db.versions) + 1
    <3>1. n \in Nat /\ n = Len(db.versions) + 1
      BY <1>0, TablesType
    <3>2. Len(db.versions) = 0
      BY <1>0, <2>2, <3>1, InsertVersionShape DEF Seeds, ShapeInv, Statuses
    <3>3. Ids(committed.versions) = {}
      BY <1>0, <2>1, <3>2, TablesType
    <3> QED BY <2>2, <3>3
  <2>3. CASE Retires(t) \/ Promotes(t)
    <3>1. t = "shadow" /\ job[t].pc \in Opened
      BY <2>3, Roles DEF Retires, Promotes, At, ShapeInv, ShadowLabels, PromoteLabels, Opened
    <3> QED BY <1>0, <1>1, <3>1
  <2>4. CASE ~Seeds(t) /\ ~Retires(t) /\ ~Promotes(t)
    <3>1. WithStatus(committed', "champion") = WithStatus(committed, "champion")
      BY <1>1, <2>1, <2>4 DEF ChampionsMove
    <3> QED BY <3>1 DEF load_champion
  <2> QED BY <2>2, <2>3, <2>4
<1>2. CASE committed' = committed
  BY <1>2
<1> QED BY <1>1, <1>2, ThreadMoves DEF DataMoves, Write, BeginPromotion, Undone

LEMMA EvidenceNext ==
  ASSUME TypeInv, ShapeInv, Rows, Switch, Alone, NEW t \in Threads, ThreadStep(t)
  PROVE  /\ PendingMoves(t)
         /\ ~Proposes(t) => db'.hypotheses = db.hypotheses
         /\ Recorded'
<1>0. /\ "shadow" \in Threads /\ (~open => db = committed)
      /\ (open <=> job["shadow"].pc \in Opened)
      /\ db.experiments = committed.experiments /\ db.hypotheses = committed.hypotheses
      /\ job[t].pc \in LabelsOf(t)
  BY DEF ShapeInv, Alone, Recorded, Opened, Threads
<1>1. CASE Alters(t)
  <2>1. /\ PendingMoves(t)
        /\ ~Proposes(t) => db'.hypotheses = db.hypotheses
        /\ ~Records(t) /\ ~Rejects(t) /\ ~Decides(t) => db'.experiments = db.experiments
    BY <1>1, AltersPending, AltersEvidence
  <2>2. CASE Write(t, db') /\ open
    <3>1. job["shadow"].pc \in PromoteLabels
      BY <1>0, <2>2 DEF Opened, PromoteLabels
    <3>2. ~(job[t].pc \in Past)
      BY <1>0, <3>1, Roles DEF Alone, Current, Past, EvolveLabels
    <3>3. ~Records(t) /\ ~Rejects(t) /\ ~Proposes(t)
      BY <3>2 DEF Records, Rejects, Proposes, At, Past
    <3>4. ~Decides(t)
      BY <1>0, <3>1, Roles DEF Decides, At, ShadowLabels, PromoteLabels
    <3> QED BY <1>0, <2>1, <2>2, <3>3, <3>4 DEF Write, Recorded
  <2>3. CASE Write(t, db') /\ ~open
    BY <2>1, <2>3 DEF Write, Recorded
  <2>4. CASE ~Write(t, db')
    <3>1. \/ UNCHANGED <<db, committed, open>>
          \/ t = "shadow" /\ (BeginPromotion \/ Commit \/ Undone)
      BY <2>4, ThreadMoves DEF DataMoves
    <3> QED BY <1>0, <2>1, <3>1 DEF BeginPromotion, Commit, Undone, Recorded
  <2> QED BY <2>2, <2>3, <2>4
<1>2. CASE ~Alters(t)
  <2>1. \/ UNCHANGED <<db, committed, open>>
        \/ t = "shadow" /\ (BeginPromotion \/ Commit \/ Undone)
    BY <1>2, ThreadMoves DEF DataMoves
  <2>2. ~Records(t) /\ ~Rejects(t) /\ ~Decides(t)
    BY <1>2 DEF Alters
  <2> QED BY <1>0, <2>1, <2>2 DEF BeginPromotion, Commit, Undone, Recorded, PendingMoves
<1> QED BY <1>1, <1>2

LEMMA UndecidedSame ==
  ASSUME NEW d, NEW e, e.experiments = d.experiments
  PROVE  Undecided(e) = Undecided(d) /\ active_experiment(e) = active_experiment(d)
<1>1. Undecided(e) = Undecided(d)
  BY DEF Undecided
<1> QED BY <1>1 DEF active_experiment

(* What the steps of the evolutions and of the shadow say of the others.       *)
LEMMA PastMoves ==
  ASSUME TypeInv, ShapeInv, Rows, Switch, Alone, NEW t \in Threads, ThreadStep(t)
  PROVE  LET j == job[t]
             k == job'[t]
         IN /\ k.pc \in Past \ {"active"} => j.pc \in Past \ {"reject"} /\ k.champion = j.champion
            /\ k.pc = "active" => /\ k.champion = load_champion(committed) \/ open
                                  /\ db' = db /\ committed' = committed /\ j.pc = "load"
            /\ k.pc = "review" => Undecided(db) = {} /\ db' = db
            /\ k.pc \in {"hypothesis", "version", "experiment"} =>
                 Undecided(db) = {} /\ db'.experiments = db.experiments
            /\ k.pc = "reject" => Records(t) /\ k.exp = Len(db.experiments) + 1
<1> DEFINE j == job[t]
           k == job'[t]
<1>0. Arrives(t) /\ db \in Tables /\ committed \in Tables /\ db.experiments = committed.experiments
      /\ (~open => db = committed) /\ j.pc \in LabelsOf(t) /\ k.pc \in LabelsOf(t)
  BY ThreadArrives DEF TypeInv, Alone, Recorded, ShapeInv, Arrives
<1>1. ASSUME j.pc \in Past \ {"active", "reject"} PROVE Undecided(db) = {}
  <2>1. t \in Evolvers
    BY <1>0, <1>1, Roles DEF Past, EvolveLabels
  <2> QED BY <1>1, <2>1 DEF Alone, Pending
<1>2. CASE k.pc = "active"
  BY <1>0, <1>2, ToActive DEF Arrives, NoWrite, At, View, Past
<1>3. CASE k.pc = "review"
  <2>1. /\ j.pc = "active" /\ NoWrite /\ ~Busy(View(t)) /\ k.champion = j.champion
    BY <1>0, <1>3, ToReview DEF Arrives, At
  <2>2. Undecided(View(t)) = {}
    BY <2>1, ViewType, ActiveIn DEF Busy
  <2>3. Undecided(View(t)) = Undecided(db)
    BY <1>0, UndecidedSame DEF View
  <2> QED BY <1>3, <2>1, <2>2, <2>3 DEF NoWrite, Past
<1>4. CASE k.pc = "hypothesis"
  BY <1>0, <1>1, <1>4, ToHypothesis DEF Arrives, At, NoWrite, Past
<1>5. CASE k.pc = "version"
  <2>1. /\ j.pc = "hypothesis" /\ k.champion = j.champion
        /\ Write(t, insert_hypothesis(db, j.champion, j.accepted))
    BY <1>0, <1>5, ToVersion DEF Arrives, At
  <2>2. Alters(t) /\ ~Records(t) /\ ~Rejects(t) /\ ~Decides(t)
    BY <2>1 DEF Alters, Proposes, Records, Rejects, Decides, Write, At
  <2> QED BY <1>1, <1>5, <2>1, <2>2, AltersEvidence DEF Past
<1>6. CASE k.pc = "experiment"
  <2>1. /\ j.pc = "version" /\ k.champion = j.champion /\ TagFree(db, j.change)
        /\ Write(t, InsertVersion(db, j.change, IF j.passed THEN "shadow" ELSE "rejected"))
    BY <1>0, <1>6, ToExperiment DEF Arrives, At
  <2>2. Alters(t) /\ ~Records(t) /\ ~Rejects(t) /\ ~Decides(t)
    BY <2>1 DEF Alters, Stages, Records, Rejects, Decides, Write, At
  <2> QED BY <1>1, <1>6, <2>1, <2>2, AltersEvidence DEF Past
<1>7. CASE k.pc = "reject"
  <2>1. /\ j.pc = "experiment" /\ k.champion = j.champion /\ k.exp = Len(db.experiments) + 1
        /\ j.challenger \in Ids(db.versions) /\ j.hyp \in Ids(db.hypotheses)
        /\ Write(t, insert_experiment(db, j.hyp, j.champion, j.challenger, j.passed))
    BY <1>0, <1>7, ToReject DEF Arrives, At
  <2>2. Records(t)
    BY <2>1 DEF Records, Write, At
  <2> QED BY <1>7, <2>1, <2>2 DEF Past
<1>8. CASE k.pc \notin Past
  BY <1>8 DEF Past
<1> QED BY <1>2, <1>3, <1>4, <1>5, <1>6, <1>7, <1>8 DEF Past

(* A verdict comes when no evolution is past its check, except one that has    *)
(* just begun.                                                                *)
LEMMA VerdictAlone ==
  ASSUME TypeInv, ShapeInv, Rows, Alone, NEW t \in Threads, Decides(t)
  PROVE  /\ t = "shadow"
         /\ \A u \in Evolvers : job[u].pc \notin Past \ {"active"}
         /\ job[t].exp \in Undecided(db)
<1> DEFINE j == job[t]
<1>1. t = "shadow" /\ j.pc = "decide" /\ j.pc \in ShadowLabels
  BY Roles DEF Decides, At, ShapeInv, ShadowLabels
<1>2. /\ j.exp \in Ids(db.experiments) /\ db.experiments[j.exp].shadow
      /\ db.experiments[j.exp].decision = "none"
  BY <1>1 DEF Rows, Holds
<1>3. j.exp \in Undecided(db)
  BY <1>2 DEF Undecided
<1>4. ASSUME NEW u \in Evolvers, job[u].pc \in Past \ {"active"} PROVE FALSE
  <2>1. Undecided(db) = {job[u].exp} /\ job[u].pc = "reject"
    BY <1>3, <1>4 DEF Alone, Pending
  <2>2. ~db.experiments[job[u].exp].shadow
    BY <2>1 DEF Rows, Holds, Evolvers, Threads
  <2> QED BY <1>2, <1>3, <2>1, <2>2
<1> QED BY <1>1, <1>3, <1>4

LEMMA PromotionBegins ==
  ASSUME TypeInv, ShapeInv, NEW t \in Threads, ThreadStep(t),
         job'["shadow"].pc \in PromoteLabels
  PROVE  \/ /\ job["shadow"].pc \in PromoteLabels
            /\ job'["shadow"].exp = job["shadow"].exp
         \/ /\ t = "shadow" /\ Decides(t) /\ job'["shadow"].exp = job["shadow"].exp
            /\ job'["shadow"].pc = "begin"
<1>0. "shadow" \in Threads /\ Arrives(t)
  BY ThreadArrives DEF Threads
<1>1. CASE t # "shadow"
  BY <1>0, <1>1, ThreadArrives
<1>2. CASE t = "shadow"
  <2>1. CASE job'[t].pc = "begin"
    <3>1. /\ At(t, "decide") /\ Write(t, decide(db, job[t].exp, job[t].verdict))
          /\ job'[t].exp = job[t].exp
      BY <1>0, <1>2, <2>1, ToVerdict DEF Arrives
    <3> QED BY <1>2, <2>1, <3>1 DEF Decides, Write
  <2>2. CASE job'[t].pc \in {"retire", "crown", "commit"}
    BY <1>0, <1>2, <2>2, ToRetire, ToCrown, ToCommit DEF Arrives, At, PromoteLabels
  <2> QED BY <1>2, <2>1, <2>2 DEF PromoteLabels
<1> QED BY <1>1, <1>2

LEMMA PendingNext ==
  ASSUME TypeInv, ShapeInv, Rows, Switch, Alone, NEW t \in Threads, ThreadStep(t)
  PROVE  Pending'
<1>0. /\ PendingMoves(t)
      /\ \A u \in Threads : u # t => job'[u] = job[u]
      /\ job[t].pc \in LabelsOf(t) /\ "shadow" \in Threads /\ Evolvers \subseteq Threads
  BY EvidenceNext, ThreadArrives DEF ShapeInv, Threads, Evolvers
<1>a. db'.experiments = db.experiments => Undecided(db') = Undecided(db)
  BY UndecidedSame
<1>b. ASSUME Records(t) PROVE t \in Evolvers /\ job[t].pc = "experiment"
  BY <1>0, <1>b, Roles DEF Records, At, EvolveLabels
<1>c. ASSUME NEW u \in Evolvers, u # t, job[u].pc \in Past, t \in Evolvers, job[t].pc \in Past
      PROVE  FALSE
  BY <1>c DEF Alone, Lone, Evolving, Evolvers, Past
<1>1. \A e, f \in Undecided(db') : e = f
  BY <1>0, <1>a DEF PendingMoves, Alone, Pending
<1>2. ASSUME job'["shadow"].pc \in PromoteLabels PROVE Undecided(db') = {}
  <2>1. CASE job["shadow"].pc \in PromoteLabels
    <3>1. Undecided(db) = {}
      BY <2>1 DEF Alone, Pending
    <3>2. ~Records(t)
      BY <1>b, <2>1 DEF Alone, Current, Past
    <3> QED BY <1>0, <1>a, <3>1, <3>2 DEF PendingMoves
  <2>2. CASE Decides(t)
    BY <1>0, <2>2 DEF PendingMoves, Decides, Records, At
  <2> QED BY <1>2, <2>1, <2>2, PromotionBegins
<1>3. ASSUME NEW u \in Evolvers, job'[u].pc \in Past \ {"active", "reject"}
      PROVE  Undecided(db') = {}
  <2>1. CASE u = t
    <3>1. Undecided(db) = {} /\ db'.experiments = db.experiments
      BY <1>3, <2>1, PastMoves DEF Past
    <3> QED BY <1>a, <3>1
  <2>2. CASE u # t
    <3>1. Undecided(db) = {} /\ job[u].pc \in Past
      BY <1>0, <1>3, <2>2 DEF Alone, Pending
    <3>2. ~Records(t)
      BY <1>b, <1>c, <2>2, <3>1 DEF Past
    <3> QED BY <1>0, <1>a, <3>1, <3>2 DEF PendingMoves
  <2> QED BY <2>1, <2>2
<1>4. ASSUME NEW u \in Evolvers, job'[u].pc = "reject" PROVE Undecided(db') = {job'[u].exp}
  <2>1. CASE u = t
    <3>1. Records(t) /\ job'[u].exp = Len(db.experiments) + 1
      BY <1>4, <2>1, PastMoves
    <3>2. \E n \in Nat : NewExperiment(n, t) /\ Undecided(db') = {n}
      BY <1>0, <3>1 DEF PendingMoves, Records, Rejects, Decides, At
    <3> QED BY <3>1, <3>2 DEF NewExperiment
  <2>2. CASE u # t
    <3>1. Undecided(db) = {job[u].exp} /\ job[u].pc = "reject" /\ job'[u] = job[u]
      BY <1>0, <1>4, <2>2 DEF Alone, Pending
    <3>2. ~Rejects(t)
      <4> SUFFICES ASSUME Rejects(t) PROVE FALSE
        OBVIOUS
      <4>1. t \in Evolvers /\ job[t].pc = "reject"
        BY <1>0, Roles DEF Rejects, At, EvolveLabels
      <4> QED BY <1>c, <2>2, <3>1, <4>1 DEF Past
    <3>3. ~Decides(t)
      BY <3>1, VerdictAlone DEF Past
    <3> QED BY <1>0, <1>a, <3>1, <3>2, <3>3 DEF PendingMoves
  <2> QED BY <2>1, <2>2
<1> QED BY <1>1, <1>2, <1>3, <1>4 DEF Pending

LEMMA CurrentNext ==
  ASSUME TypeInv, ShapeInv, Rows, Switch, Alone, NEW t \in Threads, ThreadStep(t),
         ~overlapped'
  PROVE  Current' /\ Lone'
<1>0. /\ \A u \in Threads : u # t => job'[u] = job[u]
      /\ ~Overlap(job')
      /\ "shadow" \in Threads /\ Evolvers \subseteq Threads
      /\ (open <=> job["shadow"].pc \in Opened)
  BY ThreadArrives DEF ShapeInv, Threads, Evolvers, Opened
<1>1. Lone'
  BY <1>0 DEF Overlap, Lone, Evolvers
<1>2. ASSUME NEW u \in Evolvers, job'[u].pc \in Past
      PROVE  job'["shadow"].pc \notin PromoteLabels
  <2>1. CASE job'[u].pc = "active"
    BY <1>0, <2>1 DEF Overlap, PromoteLabels
  <2>2. CASE job'[u].pc # "active"
    <3>1. job[u].pc \in Past
      BY <1>0, <1>2, <2>2, PastMoves
    <3> SUFFICES ASSUME job'["shadow"].pc \in PromoteLabels PROVE FALSE
      OBVIOUS
    <3>2. job["shadow"].pc \notin PromoteLabels
      BY <3>1 DEF Alone, Current
    <3>3. t = "shadow" /\ Decides(t)
      BY <3>2, PromotionBegins
    <3>4. job'[u] = job[u]
      BY <1>0, <3>3 DEF Evolvers
    <3> QED BY <1>2, <2>2, <3>3, <3>4, VerdictAlone
  <2> QED BY <2>1, <2>2
<1>3. ASSUME NEW u \in Evolvers, job'[u].pc \in Past
      PROVE  job'[u].champion = load_champion(committed')
  <2>1. CASE u = t /\ job'[u].pc = "active"
    <3>1. /\ job'[u].champion = load_champion(committed) \/ open
          /\ committed' = committed
      BY <2>1, PastMoves
    <3>2. ~open
      <4>1. t # "shadow"
        BY <2>1 DEF Evolvers
      <4>2. job'["shadow"].pc \notin PromoteLabels
        BY <1>2, <1>3
      <4> QED BY <1>0, <4>1, <4>2 DEF Opened, PromoteLabels
    <3> QED BY <3>1, <3>2
  <2>2. CASE ~(u = t /\ job'[u].pc = "active")
    <3>1. job[u].pc \in Past /\ job'[u].champion = job[u].champion
      BY <1>0, <1>3, <2>2, PastMoves
    <3>2. job[u].champion = load_champion(committed) /\ job["shadow"].pc \notin PromoteLabels
      BY <3>1 DEF Alone, Current
    <3>3. ~Commit
      BY <3>2 DEF Commit, At, PromoteLabels
    <3>4. Ids(committed.versions) # {}
      BY <1>0, <3>1 DEF ShapeInv, Past, EvolveLabels
    <3> QED BY <3>1, <3>2, <3>3, <3>4, ChampionStays
  <2> QED BY <2>1, <2>2
<1> QED BY <1>1, <1>2, <1>3 DEF Current

(* What a statement leaves of the rows an experiment refers to.                *)
LEMMA EvidenceRows ==
  ASSUME TypeInv, ShapeInv, Rows, Switch, Alone, NEW t \in Threads, ThreadStep(t)
  PROVE  /\ \A h \in Ids(db.hypotheses) : db'.hypotheses[h] = db.hypotheses[h]
         /\ \A e \in Ids(db.experiments) :
              /\ e \in Ids(db'.experiments)
              /\ db'.experiments[e].hyp = db.experiments[e].hyp
              /\ db'.experiments[e].champion = db.experiments[e].champion
         /\ \A e \in Ids(db'.experiments) \ Ids(db.experiments) :
              /\ Records(t)
              /\ db'.experiments[e].hyp = job[t].hyp
              /\ db'.experiments[e].champion = job[t].champion
              /\ \A f \in Ids(db'.experiments) \ Ids(db.experiments) : f = e
<1>0. PendingMoves(t) /\ (~Proposes(t) => db'.hypotheses = db.hypotheses)
      /\ db \in Tables /\ job[t] \in Job
  BY EvidenceNext DEF TypeInv
<1>1. \A h \in Ids(db.hypotheses) : db'.hypotheses[h] = db.hypotheses[h]
  <2>1. CASE Proposes(t)
    <3> DEFINE n == Len(db.hypotheses) + 1
    <3>1. n \in Nat /\ n = Len(db.hypotheses) + 1
      BY <1>0, TablesType
    <3> HIDE DEF n
    <3>2. HypothesisAdded(db, db', n, job[t].champion, job[t].accepted)
      BY <1>0, <2>1, <3>1, InsertHypothesisIs DEF Proposes, Job
    <3> QED BY <3>2 DEF HypothesisAdded
  <2>2. CASE ~Proposes(t)
    BY <1>0, <2>2
  <2> QED BY <2>1, <2>2
<1>2. CASE db'.experiments = db.experiments
  BY <1>1, <1>2
<1>3. ASSUME NEW n \in Nat, NewExperiment(n, t), Records(t)
      PROVE  /\ \A e \in Ids(db.experiments) :
                  e \in Ids(db'.experiments) /\ db'.experiments[e] = db.experiments[e]
             /\ \A e \in Ids(db'.experiments) \ Ids(db.experiments) :
                  /\ e = n
                  /\ db'.experiments[e].hyp = job[t].hyp
                  /\ db'.experiments[e].champion = job[t].champion
  BY <1>3 DEF NewExperiment, ExperimentAdded
<1>4. CASE Records(t) /\ \E n \in Nat : NewExperiment(n, t)
  BY <1>1, <1>3, <1>4
<1>5. CASE Rejects(t) \/ Decides(t)
  <2> DEFINE s == IF At(t, "reject") THEN "rejected" ELSE job[t].verdict
             n == job[t].exp
  <2>1. s \in Verdicts /\ n \in Nat /\ db' = decide(db, n, s)
    BY <1>0, <1>5 DEF Rejects, Decides, Job, At, Verdicts
  <2> HIDE DEF s, n
  <2>2. /\ Ids(db'.experiments) = Ids(db.experiments)
        /\ \A e \in Ids(db.experiments) :
             /\ db'.experiments[e].hyp = db.experiments[e].hyp
             /\ db'.experiments[e].champion = db.experiments[e].champion
    BY <1>0, <2>1, DecideIs
  <2> QED BY <1>1, <2>2
<1> QED BY <1>0, <1>2, <1>4, <1>5 DEF PendingMoves

LEMMA JudgedNext ==
  ASSUME TypeInv, ShapeInv, Rows, Switch, Alone, NEW t \in Threads, ThreadStep(t)
  PROVE  Judged'
<1> DEFINE L == load_champion(committed)
           M == load_champion(committed')
<1>0. /\ Refs(db) /\ Refs(committed) /\ Ids(committed.experiments) = Ids(db.experiments)
      /\ job[t].pc \in LabelsOf(t) /\ "shadow" \in Threads /\ PendingMoves(t)
      /\ Judged
  BY EvidenceNext DEF ShapeInv, Threads, Alone, Recorded
<1>1. /\ \A h \in Ids(db.hypotheses) : db'.hypotheses[h] = db.hypotheses[h]
      /\ \A e \in Ids(db.experiments) :
           /\ e \in Ids(db'.experiments)
           /\ db'.experiments[e].hyp = db.experiments[e].hyp
           /\ db'.experiments[e].champion = db.experiments[e].champion
      /\ \A e \in Ids(db'.experiments) \ Ids(db.experiments) :
           /\ Records(t)
           /\ db'.experiments[e].hyp = job[t].hyp
           /\ db'.experiments[e].champion = job[t].champion
           /\ \A f \in Ids(db'.experiments) \ Ids(db.experiments) : f = e
  BY EvidenceRows
<1>2. \A e \in Ids(db.experiments) :
        /\ db.experiments[e].hyp \in Ids(db.hypotheses)
        /\ db.experiments[e].champion = db.hypotheses[db.experiments[e].hyp].champion
  BY <1>0 DEF Refs, Judged
<1>3. Records(t) => /\ job[t].hyp \in Ids(db.hypotheses)
                    /\ db.hypotheses[job[t].hyp].champion = job[t].champion
                    /\ \A e \in Ids(db.experiments) : db.experiments[e].hyp # job[t].hyp
                    /\ job[t].champion = L /\ job["shadow"].pc \notin PromoteLabels
                    /\ t \in Evolvers
  <2> SUFFICES ASSUME Records(t)
               PROVE  /\ job[t].hyp \in Ids(db.hypotheses)
                      /\ db.hypotheses[job[t].hyp].champion = job[t].champion
                      /\ \A e \in Ids(db.experiments) : db.experiments[e].hyp # job[t].hyp
                      /\ job[t].champion = L /\ job["shadow"].pc \notin PromoteLabels
                      /\ t \in Evolvers
    OBVIOUS
  <2>1. job[t].pc = "experiment" /\ t \in Evolvers
    BY <1>0, Roles DEF Records, At, EvolveLabels
  <2>2. job[t].champion = L /\ job["shadow"].pc \notin PromoteLabels
    BY <2>1 DEF Alone, Current, Past
  <2> QED BY <2>1, <2>2 DEF Rows, Holds, HoldsHyp
<1>4. \A e \in Ids(db'.experiments) :
        db'.experiments[e].champion = db'.hypotheses[db'.experiments[e].hyp].champion
  BY <1>1, <1>2, <1>3
<1>5. \A e, f \in Ids(db'.experiments) : db'.experiments[e].hyp = db'.experiments[f].hyp => e = f
  <2>1. \A e, f \in Ids(db.experiments) : db.experiments[e].hyp = db.experiments[f].hyp => e = f
    BY <1>0 DEF Judged
  <2> TAKE e, f \in Ids(db'.experiments)
  <2>2. CASE e \in Ids(db.experiments) /\ f \in Ids(db.experiments)
    BY <1>1, <2>1, <2>2
  <2>3. CASE e \notin Ids(db.experiments) /\ f \in Ids(db.experiments)
    BY <1>1, <1>3, <2>3
  <2>4. CASE e \in Ids(db.experiments) /\ f \notin Ids(db.experiments)
    BY <1>1, <1>3, <2>4
  <2>5. CASE e \notin Ids(db.experiments) /\ f \notin Ids(db.experiments)
    BY <1>1, <2>5
  <2> QED BY <2>2, <2>3, <2>4, <2>5
<1>6. \/ M = L
      \/ Ids(db.experiments) = {} /\ ~Records(t) /\ job["shadow"].pc \notin ShadowLabels
      \/ Undecided(db') = {} /\ job'["shadow"].pc = "idle"
  <2>1. CASE Seeds(t) /\ Ids(committed.versions) = {}
    <3>1. Ids(db.experiments) = {}
      BY <1>0, <2>1 DEF Refs
    <3>2. job["shadow"].pc \notin ShadowLabels
      BY <1>0, <2>1 DEF ShapeInv
    <3> QED BY <2>1, <3>1, <3>2 DEF Seeds, Records, At
  <2>2. CASE t = "shadow" /\ Commit
    <3>1. job'["shadow"].pc = "idle"
      BY <1>0, <2>2, BecomeMoves, IdlePc DEF Commit, Ends
    <3>2. Undecided(db) = {} /\ db' = db
      BY <2>2 DEF Alone, Pending, Commit, At, PromoteLabels
    <3> QED BY <3>1, <3>2
  <2> QED BY <2>1, <2>2, ChampionStays
<1>7. ASSUME NEW e \in Ids(db'.experiments), db'.experiments[e].decision = "none"
      PROVE  db'.experiments[e].champion = M
  <2>1. e \in Undecided(db')
    BY <1>7 DEF Undecided
  <2>2. CASE e \in Ids(db.experiments)
    <3>1. M = L
      BY <1>6, <2>1, <2>2
    <3>2. db.experiments[e].decision = "none"
      <4>1. CASE db'.experiments = db.experiments
        BY <1>7, <4>1
      <4>2. ASSUME NEW n \in Nat, NewExperiment(n, t) PROVE db.experiments[e].decision = "none"
        <5>1. db'.experiments[e] = db.experiments[e]
          BY <2>2, <4>2 DEF NewExperiment, ExperimentAdded
        <5> QED BY <1>7, <5>1
      <4> QED BY <1>0, <2>1, <4>1, <4>2 DEF PendingMoves
    <3> QED BY <1>0, <1>1, <2>2, <3>1, <3>2 DEF Judged
  <2>3. CASE e \notin Ids(db.experiments)
    <3>1. Records(t) /\ db'.experiments[e].champion = L
      BY <1>1, <1>3, <2>3
    <3>2. M = L
      BY <1>6, <2>1, <3>1
    <3> QED BY <3>1, <3>2
  <2> QED BY <2>2, <2>3
<1>8. ASSUME job'["shadow"].pc \in PromoteLabels
      PROVE  db'.experiments[job'["shadow"].exp].champion = M
  <2> DEFINE x == job["shadow"].exp
  <2>1. job'["shadow"].exp = x /\ x \in Ids(db.experiments)
        /\ (job["shadow"].pc \in PromoteLabels \/ (Decides(t) /\ t = "shadow"))
    <3>1. /\ job'["shadow"].exp = x
          /\ job["shadow"].pc \in PromoteLabels \/ (Decides(t) /\ t = "shadow")
      BY <1>8, PromotionBegins
    <3>2. job["shadow"].pc \in ShadowLabels
      BY <3>1 DEF Decides, At, ShadowLabels
    <3> QED BY <1>0, <3>1, <3>2 DEF Rows, Holds
  <2>2. M = L
    BY <1>6, <1>8, <2>1 DEF PromoteLabels
  <2>3. db.experiments[x].champion = L
    <3>1. CASE job["shadow"].pc \in PromoteLabels
      BY <1>0, <3>1 DEF Judged
    <3>2. CASE Decides(t) /\ t = "shadow"
      <4>1. x \in Undecided(db)
        BY <3>2, VerdictAlone
      <4> QED BY <1>0, <4>1 DEF Judged, Undecided
    <3> QED BY <2>1, <3>1, <3>2
  <2> QED BY <1>1, <2>1, <2>2, <2>3
<1> QED BY <1>4, <1>5, <1>7, <1>8 DEF Judged

(* Without an overlap the evolutions stay alone; a crash leaves only the CLI's. *)
LEMMA AloneNext ==
  ASSUME TypeInv, ShapeInv, Rows, Switch, Alone, [Next]_vars, ~overlapped'
  PROVE  Alone'
<1>1. ASSUME NEW t \in Threads, ThreadStep(t) PROVE Alone'
  <2>1. Pending' /\ Recorded' /\ Judged'
    BY <1>1, PendingNext, EvidenceNext, JudgedNext
  <2>2. Current' /\ Lone'
    BY <1>1, CurrentNext
  <2> QED BY <2>1, <2>2 DEF Alone
<1>2. CASE Crash
  <2>1. /\ \A u \in Threads : job'[u] = IF u = "cli" THEN job[u] ELSE IdleJob
        /\ db' = committed /\ committed' = committed /\ ~Overlap(job')
    BY <1>2, CrashMoves
  <2>2. job'["cli"] = job["cli"] /\ job'["weekly"].pc = "idle" /\ job'["shadow"].pc = "idle"
    BY <2>1, IdlePc DEF Threads
  <2>3. Undecided(db') = Undecided(db) /\ db'.experiments = db.experiments
        /\ db'.hypotheses = db.hypotheses
    BY <2>1, UndecidedSame DEF Alone, Recorded
  <2>4. Lone' /\ Recorded'
    BY <2>1, <2>2 DEF Lone, Evolving, Recorded
  <2>5. Pending'
    BY <2>2, <2>3 DEF Alone, Pending, PromoteLabels, Evolvers, Past
  <2>6. Current'
    BY <2>1, <2>2 DEF Alone, Current, PromoteLabels, Evolvers, Past
  <2>7. Judged'
    BY <2>1, <2>2, <2>3 DEF Alone, Judged, PromoteLabels
  <2> QED BY <2>4, <2>5, <2>6, <2>7 DEF Alone
<1>3. CASE UNCHANGED vars
  <2>1. db' = db /\ committed' = committed /\ job' = job
    BY <1>3 DEF vars
  <2>2. Undecided(db') = Undecided(db) /\ load_champion(committed') = load_champion(committed)
    BY <2>1
  <2>3. Lone' /\ Recorded' /\ Current'
    BY <2>1, <2>2 DEF Alone, Lone, Recorded, Current
  <2>4. Pending'
    BY <2>1, <2>2 DEF Alone, Pending
  <2>5. Judged'
    BY <2>1, <2>2 DEF Alone, Judged
  <2> QED BY <2>3, <2>4, <2>5 DEF Alone
<1> QED BY <1>1, <1>2, <1>3, Actors

(* The ids a job has in hand, the champions, and what a promotion has not      *)
(* committed yet.                                                             *)
IdInv == ~IdsReused => Rows /\ Switch /\ Drift /\ VerdictsKept
ApartInv == ~overlapped => Alone

LEMMA InitId == Init => IdInv /\ ApartInv
<1> SUFFICES ASSUME Init PROVE IdInv /\ ApartInv
  OBVIOUS
<1>1. /\ Ids(EmptyDb.versions) = {} /\ Ids(EmptyDb.hypotheses) = {} /\ Ids(EmptyDb.experiments) = {}
  BY EmptySeq DEF EmptyDb, Ids
<1>2. db = EmptyDb /\ committed = EmptyDb /\ \A t \in Threads : job[t].pc = "idle"
  BY IdlePc DEF Init
<1>3. "weekly" \in Threads /\ "cli" \in Threads /\ "shadow" \in Threads /\ Evolvers \subseteq Threads
  BY DEF Threads, Evolvers
<1>4. Rows
  BY <1>1, <1>2, <1>3 DEF Rows, Sound, Holds, HoldsHyp, Apart, ShadowLabels, PromoteLabels
<1>5. Switch /\ Drift /\ VerdictsKept
  BY <1>1, <1>2, <1>3 DEF Switch, Drift, VerdictsKept, ShadowLabels, PromoteLabels
<1>6. Undecided(db) = {}
  BY <1>1, <1>2 DEF Undecided
<1>7. Alone
  BY <1>1, <1>2, <1>3, <1>6
     DEF Alone, Lone, Pending, Current, Recorded, Judged, Evolving, PromoteLabels, Past
<1> QED BY <1>4, <1>5, <1>7 DEF IdInv, ApartInv

LEMMA IdNext ==
  ASSUME TypeInv, ShapeInv, IdInv, ApartInv, [Next]_vars
  PROVE  IdInv' /\ ApartInv'
<1>0. (overlapped => overlapped') /\ (interrupted => interrupted')
  BY HistoryGrows
<1>1. ASSUME ~IdsReused' PROVE Rows' /\ Switch' /\ Drift' /\ VerdictsKept'
  <2>1. Rows /\ Switch /\ Drift /\ VerdictsKept
    BY <1>0, <1>1 DEF IdInv, IdsReused
  <2>2. Undisturbed
    <3> SUFFICES ASSUME ~overlapped, job["shadow"].pc \in PromoteLabels, NEW t \in Evolvers
                 PROVE  job[t].pc \in {"idle", "load"} \cup EnsureLabels
      BY DEF Undisturbed
    <3>1. job[t].pc \notin Past
      BY DEF ApartInv, Alone, Current
    <3>2. job[t].pc \in LabelsOf(t) /\ t \in Threads
      BY DEF ShapeInv, Evolvers, Threads
    <3> QED BY <3>1, <3>2 DEF LabelsOf, EvolveLabels, EnsureLabels, Past, Evolvers
  <2> QED BY <1>1, <2>1, <2>2, RowsNext, SwitchNext, KeptNext
<1>2. ASSUME ~overlapped' PROVE Alone'
  <2>1. Rows /\ Switch /\ Alone
    BY <1>0, <1>2 DEF IdInv, IdsReused, ApartInv
  <2> QED BY <1>2, <2>1, AloneNext
<1> QED BY <1>1, <1>2 DEF IdInv, ApartInv

LEMMA EvolutionInvariant == Spec => [](TypeInv /\ ShapeInv /\ IdInv /\ ApartInv)
<1>1. Init => TypeInv /\ ShapeInv /\ IdInv /\ ApartInv
  BY InitShape, InitId
<1>2. TypeInv /\ ShapeInv /\ IdInv /\ ApartInv /\ [Next]_vars
      => TypeInv' /\ ShapeInv' /\ IdInv' /\ ApartInv'
  BY TypeNext, ShapeNext, IdNext
<1> QED BY <1>1, <1>2, PTL DEF Spec

(* From the first version on there is exactly one champion in what is committed: *)
(* promote() retires the old one and crowns the new one inside one            *)
(* transaction, another thread's write on the shared connection is part of    *)
(* that transaction or waits, and ensure_champion crowns only what it has     *)
(* found missing.  By Switch, at every stage of a promotion.                  *)
THEOREM ChampionIsOne == Spec => []OneChampion
<1>1. TypeInv /\ ShapeInv /\ IdInv /\ ApartInv => OneChampion
  <2> SUFFICES ASSUME TypeInv, IdInv, ~IdsReused, committed.versions # <<>>
               PROVE  Cardinality(WithStatus(committed, "champion")) = 1
    BY DEF OneChampion
  <2>1. 1 \in Ids(committed.versions)
    BY EmptySeq, TablesType DEF TypeInv, Tables
  <2>2. PICK c \in Ids(committed.versions) : WithStatus(committed, "champion") = {c}
    BY <2>1 DEF IdInv, Switch
  <2> QED BY <2>2, FS_Singleton
<1> QED BY <1>1, EvolutionInvariant, PTL

(* A version other than the configured one is champion, or was, only if an      *)
(* experiment has promoted it, and the verdict is committed no later than the *)
(* status: decide() comes before promote(), and no other job crowns.          *)
THEOREM CrownIsEarned == Spec => []CrownedByVerdict
<1>1. TypeInv /\ ShapeInv /\ IdInv /\ ApartInv => CrownedByVerdict
  <2> SUFFICES ASSUME ShapeInv, IdInv, ~IdsReused, NEW v \in Ids(committed.versions),
                      committed.versions[v].status \in {"champion", "retired"},
                      committed.versions[v].tag # "seed"
               PROVE  \E e \in Ids(committed.experiments) :
                        /\ committed.experiments[e].challenger = v
                        /\ committed.experiments[e].decision = "promoted"
    BY DEF CrownedByVerdict
  <2>1. v # 1
    BY DEF ShapeInv, Seeded
  <2> QED BY <2>1 DEF IdInv, Rows, Sound
<1> QED BY <1>1, EvolutionInvariant, PTL

(* Whoever takes a champion's place was tested against it: between the start of *)
(* an experiment and its verdict no other version becomes champion, because   *)
(* one experiment at a time is without a verdict (Alone).  With two evolutions *)
(* under way, weekly and CLI, a challenger of the last champion may follow     *)
(* the new one: hence ~overlapped in the property.                            *)
THEOREM ChampionIsBeaten == Spec => ChampionWasBeaten
<1> DEFINE Beaten ==
      LET old == load_champion(committed)
          new == load_champion(committed')
      IN old # None /\ old # new /\ ~overlapped' =>
           \E e \in Ids(committed.experiments) :
             /\ committed.experiments[e].champion = old
             /\ committed.experiments[e].challenger = new
             /\ committed.experiments[e].decision = "promoted"
<1>1. ASSUME TypeInv, ShapeInv, IdInv, ApartInv, [Next]_vars PROVE [Beaten]_vars
  <2> SUFFICES ASSUME load_champion(committed) # None,
                      load_champion(committed') # load_champion(committed), ~overlapped'
               PROVE  \E e \in Ids(committed.experiments) :
                        /\ committed.experiments[e].champion = load_champion(committed)
                        /\ committed.experiments[e].challenger = load_champion(committed')
                        /\ committed.experiments[e].decision = "promoted"
    OBVIOUS
  <2>1. ~overlapped /\ Rows /\ Switch /\ Alone
    BY <1>1, HistoryGrows DEF IdInv, ApartInv, IdsReused
  <2>2. committed' # committed
    OBVIOUS
  <2>3. PICK t \in Threads : ThreadStep(t)
    BY <1>1, <2>2, Actors, CrashMoves DEF vars
  <2>4. load_champion(committed) \in Ids(committed.versions)
    BY <1>1, ChampionIn DEF TypeInv, WithStatus
  <2>5. Commit
    BY <1>1, <2>1, <2>3, <2>4, ChampionStays
  <2> DEFINE j == job["shadow"]
  <2>6. j.pc = "commit" /\ committed' = db
    BY <2>5 DEF Commit, At
  <2>7. WithStatus(db, "champion") = {j.challenger}
    BY <2>1, <2>6 DEF Switch
  <2>8. load_champion(committed') = j.challenger
    BY <1>1, <2>6, <2>7, ChampionIn DEF TypeInv
  <2>9. /\ j.exp \in Ids(committed.experiments)
        /\ committed.experiments[j.exp].challenger = j.challenger
        /\ committed.experiments[j.exp].decision = "promoted"
    BY <2>1, <2>6 DEF Rows, Holds, ShadowLabels, PromoteLabels, Threads
  <2>10. committed.experiments[j.exp].champion = load_champion(committed)
    BY <2>1, <2>6 DEF Alone, Judged, Recorded, PromoteLabels
  <2> QED BY <2>8, <2>9, <2>10
<1> QED BY <1>1, EvolutionInvariant, PTL DEF Spec, ChampionWasBeaten

(* No step, not a crash nor a rollback either, undoes what is committed: a       *)
(* version goes from shadow to champion or rejected and from champion to      *)
(* retired, and a verdict stays.  By Drift the transaction that commits or is  *)
(* rolled back has changed nothing else.                                      *)
THEOREM NoReturn == Spec => NothingReturns
<1> DEFINE Lasts ==
      ~IdsReused' =>
        /\ \A v \in Ids(committed.versions) :
             LET was == committed.versions[v].status
                 is == committed'.versions[v].status
             IN was = is \/ <<was, is>> \in {<<"shadow", "champion">>, <<"shadow", "rejected">>,
                                            <<"champion", "retired">>}
        /\ \A e \in Ids(committed.experiments) :
             committed.experiments[e].decision # "none" =>
               committed'.experiments[e] = committed.experiments[e]
<1>1. ASSUME TypeInv, ShapeInv, IdInv, [Next]_vars PROVE [Lasts]_vars
  <2> SUFFICES ASSUME ~IdsReused' PROVE Lasts
    OBVIOUS
  <2>1. Rows /\ Switch /\ Drift /\ VerdictsKept
    BY <1>1, HistoryGrows DEF IdInv, IdsReused
  <2>2. CASE committed' = committed
    BY <2>2
  <2>3. CASE committed' # committed
    <3>1. PICK t \in Threads : ThreadStep(t)
      BY <1>1, <2>3, Actors, CrashMoves DEF vars
    <3>2. CASE Write(t, db') /\ Alters(t)
      <4>1. ~open /\ committed' = db' /\ committed = db
        BY <1>1, <2>3, <3>2 DEF Write, ShapeInv
      <4>2. /\ \A v \in Ids(db.versions) : StatusMoves(t, v)
            /\ VerdictsStay
        BY <1>1, <2>1, <3>2, AltersStatus
      <4>3. ~Retires(t) /\ ~Promotes(t)
        BY <1>1, <4>1, Roles DEF Retires, Promotes, At, ShapeInv, ShadowLabels, PromoteLabels
      <4>4. Refuses(t) => db.versions[job[t].challenger].status = "shadow"
        <5>1. ASSUME Refuses(t) PROVE t = "shadow" /\ job["shadow"].pc = "refuse"
          BY <1>1, <5>1, Roles DEF Refuses, At, ShapeInv, ShadowLabels
        <5> QED BY <2>1, <5>1 DEF Switch, ShadowLabels
      <4>5. ASSUME NEW v \in Ids(db.versions)
            PROVE  \/ db'.versions[v].status = db.versions[v].status
                   \/ db.versions[v].status = "shadow" /\ db'.versions[v].status = "rejected"
        BY <4>1, <4>2, <4>3, <4>4 DEF StatusMoves
      <4> QED BY <4>1, <4>2, <4>5 DEF VerdictsStay
    <3>3. CASE Commit
      <4>1. committed' = db /\ job["shadow"].pc = "commit"
        BY <3>3 DEF Commit, At
      <4>2. committed.versions[job["shadow"].challenger].status = "shadow"
        BY <2>1, <4>1 DEF Switch, ShadowLabels, PromoteLabels
      <4>3. ASSUME NEW v \in Ids(committed.versions)
            PROVE  \/ db.versions[v].status = committed.versions[v].status
                   \/ committed.versions[v].status = "champion" /\ db.versions[v].status = "retired"
                   \/ committed.versions[v].status = "shadow" /\ db.versions[v].status = "champion"
        BY <2>1, <4>1, <4>2 DEF Drift
      <4> QED BY <2>1, <4>1, <4>3 DEF VerdictsKept
    <3>4. CASE UNCHANGED <<db, committed, open>> \/ BeginPromotion \/ Undone
      BY <2>3, <3>4 DEF BeginPromotion, Undone
    <3> QED BY <1>1, <3>1, <3>2, <3>3, <3>4, ThreadMoves DEF DataMoves
  <2> QED BY <2>2, <2>3
<1> QED BY <1>1, EvolutionInvariant, PTL DEF Spec, NothingReturns

-----------------------------------------------------------------------------
(* What was begun is finished, unless a job is interrupted.                    *)

Unsettled == {"reject", "experiment", "version", "refuse", "decide", "begin", "retire", "crown"}

(* At these labels a thread has one statement to make.                         *)
LEMMA OneStatement ==
  ASSUME TypeInv, NEW t \in Threads, ThreadStep(t), ~interrupted', job[t].pc \in Unsettled,
         job[t].pc \in LabelsOf(t)
  PROVE  LET pc == job[t].pc
         IN /\ pc = "reject" => RejectOffline(t)
            /\ pc = "experiment" => InsertExperiment(t) /\ ~Raises(t)
            /\ pc = "version" => InsertChallenger(t)
            /\ pc \in Unsettled \ {"reject", "experiment", "version"} => t = "shadow"
            /\ pc = "decide" => Decide
            /\ pc = "refuse" => Refuse
            /\ pc = "begin" => BeginPromotion
            /\ pc = "retire" => Retire
            /\ pc = "crown" => Crown /\ ~Raises(t)
<1>1. /\ job[t].pc \in {"reject", "experiment", "version"} => t \in Evolvers
      /\ job[t].pc \in Unsettled \ {"reject", "experiment", "version"} => t = "shadow"
  BY Roles DEF Unsettled, EvolveLabels, ShadowLabels, PromoteLabels
<1>2. ~Raises(t)
  <2> SUFFICES ASSUME Raises(t) PROVE FALSE
    OBVIOUS
  <2>1. t \in Evolvers \cup {"shadow"}
    BY <1>1
  <2> QED BY <2>1, Zenon DEF Raises
<1>3. ~JobRaises(t)
  BY <1>2 DEF JobRaises
<1>4. ~EnsureStep(t) /\ ~(t = "main" /\ Boot) /\ ~(t = "tick" /\ StartTick)
  BY DEF EnsureStep, EnsureLoads, EnsureFinds, EnsureCrowns, EnsureSeeds, Boot, StartTick, Starts,
         At, Unsettled
<1>5. CASE job[t].pc \in {"reject", "experiment", "version"}
  <2>1. EvolveStep(t)
    BY <1>1, <1>3, <1>4, <1>5 DEF ThreadStep, Evolvers
  <2>2. ~StartEvolve(t) /\ ~LoadChampion(t) /\ ~CheckActive(t) /\ ~Review(t) /\ ~InsertHypothesis(t)
    BY <1>5, Zenon DEF StartEvolve, Starts, LoadChampion, CheckActive, Review, InsertHypothesis, At
  <2>3. InsertChallenger(t) \/ InsertExperiment(t) \/ RejectOffline(t)
    BY <2>1, <2>2 DEF EvolveStep
  <2> QED BY <1>2, <1>5, <2>3 DEF InsertChallenger, InsertExperiment, RejectOffline, At
<1>6. CASE job[t].pc \in Unsettled \ {"reject", "experiment", "version"}
  <2>1. t = "shadow" /\ ShadowStep
    BY <1>1, <1>3, <1>4, <1>6 DEF ThreadStep, Evolvers
  <2>2. ~EvaluateShadow
    BY <1>6, <2>1, Zenon DEF EvaluateShadow, At, Unsettled
  <2> QED BY <1>2, <1>6, <2>1, <2>2
          DEF ShadowStep, Decide, Refuse, BeginPromotion, Retire, Crown, Commit, At, Unsettled
<1> QED BY <1>5, <1>6

LEMMA Departs ==
  ASSUME TypeInv, ShapeInv, NEW t \in Threads, ThreadStep(t), ~interrupted'
  PROVE  LET j == job[t]
             k == job'[t]
         IN /\ j.pc = "reject" => Rejects(t)
            /\ j.pc = "experiment" =>
                 Records(t) /\ (~j.passed => k.pc = "reject" /\ k.exp = Len(db.experiments) + 1)
            /\ Stages(t) => k.pc = "experiment" /\ k.challenger = Len(db.versions) + 1
            /\ Decides(t) => /\ t = "shadow" /\ k.exp = j.exp
                             /\ k.pc = IF j.verdict = "promoted" THEN "begin" ELSE "refuse"
            /\ j.pc = "refuse" => Refuses(t)
            /\ j.pc = "begin" => k.pc = "retire" /\ k.exp = j.exp
            /\ j.pc = "retire" => k.pc = "crown" /\ k.exp = j.exp
            /\ j.pc = "crown" => Promotes(t)
<1> DEFINE j == job[t]
           k == job'[t]
<1>0. j \in Job /\ j.pc \in LabelsOf(t)
  BY DEF TypeInv, ShapeInv
<1>1. ASSUME j.pc = "reject" PROVE Rejects(t)
  <2>1. RejectOffline(t)
    BY <1>0, <1>1, OneStatement DEF Unsettled
  <2> QED BY <2>1 DEF RejectOffline, Rejects, Write
<1>2. ASSUME j.pc = "experiment"
      PROVE  Records(t) /\ (~j.passed => k.pc = "reject" /\ k.exp = Len(db.experiments) + 1)
  <2>1. InsertExperiment(t) /\ ~Raises(t)
    BY <1>0, <1>2, OneStatement DEF Unsettled
  <2>2. Records(t)
    BY <2>1 DEF InsertExperiment, Records, Write, References
  <2>3. ASSUME ~j.passed PROVE k.pc = "reject" /\ k.exp = Len(db.experiments) + 1
    <3> DEFINE n == Len(db.experiments) + 1
               r == [j EXCEPT !.pc = "reject", !.exp = n]
    <3>1. Become(t, r)
      BY <2>1, <2>3 DEF InsertExperiment
    <3> HIDE DEF n
    <3>2. r.pc = "reject" /\ r.exp = n
      BY <1>0 DEF Job
    <3> HIDE DEF r
    <3>3. k = r
      BY <3>1, BecomeMoves
    <3> QED BY <3>2, <3>3 DEF n
  <2> QED BY <2>2, <2>3
<1>3. ASSUME Stages(t) PROVE k.pc = "experiment" /\ k.challenger = Len(db.versions) + 1
  <2>1. InsertChallenger(t) /\ TagFree(db, j.change)
    BY <1>0, <1>3, OneStatement DEF Unsettled, Stages, At
  <2> DEFINE n == Len(db.versions) + 1
             r == [j EXCEPT !.pc = "experiment", !.challenger = n]
  <2>2. Become(t, r)
    BY <2>1 DEF InsertChallenger
  <2> HIDE DEF n
  <2>3. r.pc = "experiment" /\ r.challenger = n
    BY <1>0 DEF Job
  <2> HIDE DEF r
  <2>4. k = r
    BY <2>2, BecomeMoves
  <2> QED BY <2>3, <2>4 DEF n
<1>4. ASSUME Decides(t)
      PROVE  /\ t = "shadow" /\ k.exp = j.exp
             /\ k.pc = IF j.verdict = "promoted" THEN "begin" ELSE "refuse"
  <2>1. t = "shadow" /\ Decide
    BY <1>0, <1>4, OneStatement DEF Unsettled, Decides, At
  <2> QED BY <2>1, ToVerdict
<1>5. ASSUME j.pc = "refuse" PROVE Refuses(t)
  <2>1. t = "shadow" /\ Refuse
    BY <1>0, <1>5, OneStatement DEF Unsettled
  <2> QED BY <2>1 DEF Refuse, Refuses, Write
<1>6. ASSUME j.pc = "begin" PROVE k.pc = "retire" /\ k.exp = j.exp
  <2>1. t = "shadow" /\ BeginPromotion
    BY <1>0, <1>6, OneStatement DEF Unsettled
  <2> DEFINE v == load_champion(db)
             r == [j EXCEPT !.pc = "retire", !.champion = v]
  <2>2. Become(t, r)
    BY <2>1 DEF BeginPromotion
  <2> HIDE DEF v
  <2>3. r.pc = "retire" /\ r.exp = j.exp
    BY <1>0 DEF Job
  <2> HIDE DEF r
  <2> QED BY <2>2, <2>3, BecomeMoves
<1>7. ASSUME j.pc = "retire" PROVE k.pc = "crown" /\ k.exp = j.exp
  <2>1. t = "shadow" /\ Retire
    BY <1>0, <1>7, OneStatement DEF Unsettled
  <2> QED BY <2>1, ToCrown
<1>8. ASSUME j.pc = "crown" PROVE Promotes(t)
  <2>1. t = "shadow" /\ Crown /\ ~Raises("shadow")
    BY <1>0, <1>8, OneStatement DEF Unsettled
  <2> QED BY <2>1 DEF Crown, Promotes, Write
<1> QED BY <1>1, <1>2, <1>3, <1>4, <1>5, <1>6, <1>7, <1>8

(* What a statement makes of the experiments and of the versions.              *)
VerdictMoves(t, e) ==
  LET was == db.experiments[e].decision
      is == db'.experiments[e].decision
  IN \/ is = was /\ ~((Rejects(t) \/ Decides(t)) /\ e = job[t].exp)
     \/ Rejects(t) /\ e = job[t].exp /\ is = "rejected"
     \/ Decides(t) /\ e = job[t].exp /\ is = job[t].verdict
LEMMA AltersVerdicts ==
  ASSUME TypeInv, ShapeInv, Rows, Switch, NEW t \in Threads, Alters(t)
  PROVE  /\ \A e \in Ids(db.experiments) :
              /\ e \in Ids(db'.experiments) /\ VerdictMoves(t, e)
              /\ db'.experiments[e].challenger = db.experiments[e].challenger
              /\ db'.experiments[e].shadow = db.experiments[e].shadow
         /\ \A e \in Ids(db'.experiments) \ Ids(db.experiments) : Records(t)
<1> DEFINE j == job[t]
<1>0. j \in Job /\ db \in Tables /\ Holds(j, db)
  BY DEF TypeInv, Rows
<1>1. CASE Records(t)
  <2> DEFINE n == Len(db.experiments) + 1
  <2>1. n \in Nat /\ n = Len(db.experiments) + 1
    BY <1>0, TablesType
  <2> HIDE DEF n
  <2>2. ExperimentAdded(db, db', n, j.hyp, j.champion, j.challenger, j.passed)
    BY <1>0, <1>1, <2>1, InsertExperimentIs DEF Records, Job
  <2>3. ~Rejects(t) /\ ~Decides(t)
    BY <1>1 DEF Records, Rejects, Decides, At
  <2> QED BY <1>1, <2>2, <2>3 DEF ExperimentAdded, VerdictMoves
<1>2. CASE Rejects(t) \/ Decides(t)
  <2> DEFINE s == IF At(t, "reject") THEN "rejected" ELSE j.verdict
             n == j.exp
  <2>1. s \in Verdicts /\ n \in Nat /\ db' = decide(db, n, s) /\ j.pc \in {"reject", "decide"}
        /\ (Rejects(t) => s = "rejected") /\ (~Rejects(t) => s = j.verdict)
    BY <1>0, <1>2 DEF Rejects, Decides, Job, At, Verdicts
  <2>2. n \in Ids(db.experiments)
    BY <1>0, <2>1 DEF Holds, ShadowLabels
  <2> HIDE DEF s, n
  <2>3. /\ Ids(db'.experiments) = Ids(db.experiments)
        /\ \A e \in Ids(db.experiments) :
             /\ db'.experiments[e].challenger = db.experiments[e].challenger
             /\ db'.experiments[e].shadow = db.experiments[e].shadow
             /\ e # n => db'.experiments[e] = db.experiments[e]
    BY <1>0, <2>1, DecideIs
  <2>4. db'.experiments[n].decision = s
    BY <1>0, <2>1, <2>2, DecidedRow
  <2>5. \A e \in Ids(db.experiments) : VerdictMoves(t, e)
    BY <1>2, <2>1, <2>3, <2>4 DEF VerdictMoves, n
  <2> QED BY <2>3, <2>5
<1>3. CASE ~Records(t) /\ ~Rejects(t) /\ ~Decides(t)
  BY <1>3, AltersEvidence DEF VerdictMoves
<1> QED BY <1>1, <1>2, <1>3

LEMMA AltersVersions ==
  ASSUME TypeInv, ShapeInv, Rows, Switch, NEW t \in Threads, Alters(t)
  PROVE  /\ \A v \in Ids(db'.versions) \ Ids(db.versions) :
              v # 1 => Stages(t) /\ v = Len(db.versions) + 1
         /\ Refuses(t) => db'.versions[job[t].challenger].status = "rejected"
         /\ Promotes(t) => db'.versions[job[t].challenger].status = "champion"
<1> DEFINE j == job[t]
<1>0. /\ j \in Job /\ db \in Tables
      /\ "champion" \in Statuses /\ "retired" \in Statuses /\ "rejected" \in Statuses
      /\ "shadow" \in Statuses /\ "rejected" \in Verdicts
      /\ Ids(committed.versions) \subseteq Ids(db.versions)
  BY LongerHolds DEF TypeInv, Statuses, Verdicts
<1>1. ASSUME Refuses(t) \/ Promotes(t)
      PROVE  /\ Ids(db'.versions) = Ids(db.versions)
             /\ Refuses(t) => db'.versions[j.challenger].status = "rejected"
             /\ Promotes(t) => db'.versions[j.challenger].status = "champion"
  <2> DEFINE s == IF At(t, "refuse") THEN "rejected" ELSE "champion"
  <2>1. j.challenger \in Ids(db.versions)
    BY <1>0, <1>1 DEF Refuses, Promotes, At, ShapeInv, ShadowLabels, PromoteLabels
  <2>2. s \in Statuses /\ db' = SetStatus(db, j.challenger, s)
        /\ (Refuses(t) => s = "rejected") /\ (Promotes(t) => s = "champion")
    BY <1>0, <1>1 DEF Refuses, Promotes, At
  <2> HIDE DEF s
  <2>3. /\ Ids(db'.versions) = Ids(db.versions)
        /\ \A u \in Ids(db.versions) :
             db'.versions[u].status = IF u = j.challenger THEN s ELSE db.versions[u].status
    BY <1>0, <2>1, <2>2, SetStatusIs
  <2> QED BY <2>1, <2>2, <2>3
<1>2. CASE Seeds(t) \/ Stages(t)
  <2> DEFINE n == Len(db.versions) + 1
             tag == IF At(t, "seed") THEN "seed" ELSE j.change
             s == IF At(t, "seed") THEN "champion" ELSE IF j.passed THEN "shadow" ELSE "rejected"
  <2>1. n \in Nat /\ n = Len(db.versions) + 1
    BY <1>0, TablesType
  <2>2. tag \in Changes \cup {"seed"} /\ s \in Statuses /\ db' = InsertVersion(db, tag, s)
    BY <1>0, <1>2 DEF Seeds, Stages, Job, At
  <2>3. Seeds(t) => n = 1
    <3>1. ASSUME Seeds(t) PROVE Len(db.versions) = 0
      BY <1>0, <2>1, <3>1, InsertVersionShape DEF Seeds, ShapeInv, Statuses
    <3> QED BY <3>1
  <2> HIDE DEF n, tag, s
  <2>4. VersionAdded(db, db', n, tag, s)
    BY <1>0, <2>1, <2>2, InsertVersionIs
  <2>5. ~Refuses(t) /\ ~Promotes(t)
    BY <1>2 DEF Seeds, Stages, Refuses, Promotes, At
  <2> QED BY <1>2, <2>1, <2>3, <2>4, <2>5 DEF VersionAdded
<1>3. CASE Proposes(t)
  <2> DEFINE n == Len(db.hypotheses) + 1
  <2>1. n \in Nat /\ n = Len(db.hypotheses) + 1
    BY <1>0, TablesType
  <2> HIDE DEF n
  <2>2. HypothesisAdded(db, db', n, j.champion, j.accepted)
    BY <1>0, <1>3, <2>1, InsertHypothesisIs DEF Proposes, Job
  <2>3. ~Refuses(t) /\ ~Promotes(t)
    BY <1>3 DEF Proposes, Refuses, Promotes, At
  <2> QED BY <2>2, <2>3 DEF HypothesisAdded
<1>4. CASE Records(t)
  <2> DEFINE n == Len(db.experiments) + 1
  <2>1. n \in Nat /\ n = Len(db.experiments) + 1
    BY <1>0, TablesType
  <2> HIDE DEF n
  <2>2. ExperimentAdded(db, db', n, j.hyp, j.champion, j.challenger, j.passed)
    BY <1>0, <1>4, <2>1, InsertExperimentIs DEF Records, Job
  <2>3. ~Refuses(t) /\ ~Promotes(t)
    BY <1>4 DEF Records, Refuses, Promotes, At
  <2> QED BY <2>2, <2>3 DEF ExperimentAdded
<1>5. CASE Rejects(t) \/ Decides(t)
  <2> DEFINE s == IF At(t, "reject") THEN "rejected" ELSE j.verdict
  <2>1. s \in Verdicts /\ j.exp \in Nat /\ db' = decide(db, j.exp, s)
    BY <1>0, <1>5 DEF Rejects, Decides, Job, At
  <2> HIDE DEF s
  <2>2. db'.versions = db.versions
    BY <1>0, <2>1, DecideKeeps
  <2>3. ~Refuses(t) /\ ~Promotes(t)
    BY <1>5 DEF Rejects, Decides, Refuses, Promotes, At
  <2> QED BY <2>2, <2>3
<1>6. CASE Crowns(t) \/ Retires(t)
  <2>1. db' = db \/ \E v \in Ids(db.versions), s \in Statuses : db' = SetStatus(db, v, s)
    <3>1. CASE Crowns(t)
      BY <1>0, <3>1, CrownsSeed DEF Crowns
    <3>2. CASE Retires(t)
      <4>1. j.champion \in {None} \cup Ids(db.versions)
        BY <1>0, <3>2 DEF Retires, At, ShapeInv
      <4> QED BY <1>0, <3>2, <4>1 DEF Retires
    <3> QED BY <1>6, <3>1, <3>2
  <2>2. ASSUME NEW v \in Ids(db.versions), NEW s \in Statuses, db' = SetStatus(db, v, s)
        PROVE  Ids(db'.versions) = Ids(db.versions)
    BY <1>0, <2>2, SetStatusIds
  <2>3. ~Refuses(t) /\ ~Promotes(t)
    BY <1>6 DEF Crowns, Retires, Refuses, Promotes, At
  <2> QED BY <2>1, <2>2, <2>3
<1> QED BY <1>1, <1>2, <1>3, <1>4, <1>5, <1>6 DEF Alters

(* Every verdict takes effect, every version gets its experiment: what is not  *)
(* done yet, a job is about to do.                                            *)
Effective(e) ==
  LET x == db.experiments[e]
      status == db.versions[x.challenger].status
      j == job["shadow"]
  IN /\ x.decision = "none" /\ ~x.shadow => \E t \in Evolvers : At(t, "reject") /\ job[t].exp = e
     /\ x.decision = "rejected" => status = "rejected" \/ (j.pc = "refuse" /\ j.exp = e)
     /\ x.decision = "promoted" => \/ status \in {"champion", "retired"}
                                   \/ j.pc \in {"begin", "retire", "crown"} /\ j.exp = e
Tested(v) ==
  \/ \E e \in Ids(db.experiments) : db.experiments[e].challenger = v
  \/ \E t \in Evolvers : At(t, "experiment") /\ job[t].challenger = v
Effects ==
  /\ \A e \in Ids(db.experiments) : Effective(e)
  /\ \A v \in Ids(db.versions) \ {1} : Tested(v)

LEMMA EffectsAlter ==
  ASSUME TypeInv, ShapeInv, Rows, Switch, Effects, NEW t \in Threads, ThreadStep(t), ~interrupted',
         Alters(t)
  PROVE  Effects'
<1> DEFINE j == job[t]
           k == job'[t]
<1>0. /\ j \in Job /\ db \in Tables /\ Refs(db) /\ Holds(j, db) /\ Sound(db)
      /\ j.pc \in LabelsOf(t) /\ "shadow" \in Threads /\ Evolvers \subseteq Threads
      /\ \A u \in Threads : u # t => job'[u] = job[u]
  BY ThreadArrives DEF TypeInv, ShapeInv, Rows, Threads, Evolvers
<1>1. \A v \in Ids(db.versions) : v \in Ids(db'.versions) /\ StatusMoves(t, v)
  BY AltersStatus
<1>2. /\ \A e \in Ids(db.experiments) :
           /\ e \in Ids(db'.experiments) /\ VerdictMoves(t, e)
           /\ db'.experiments[e].challenger = db.experiments[e].challenger
           /\ db'.experiments[e].shadow = db.experiments[e].shadow
      /\ \A e \in Ids(db'.experiments) \ Ids(db.experiments) : Records(t)
  BY AltersVerdicts
<1>3. /\ \A v \in Ids(db'.versions) \ Ids(db.versions) :
           v # 1 => Stages(t) /\ v = Len(db.versions) + 1
      /\ Refuses(t) => db'.versions[j.challenger].status = "rejected"
      /\ Promotes(t) => db'.versions[j.challenger].status = "champion"
  BY AltersVersions
<1>4. /\ j.pc = "reject" => Rejects(t)
      /\ j.pc = "experiment" =>
           Records(t) /\ (~j.passed => k.pc = "reject" /\ k.exp = Len(db.experiments) + 1)
      /\ Stages(t) => k.pc = "experiment" /\ k.challenger = Len(db.versions) + 1
      /\ Decides(t) => /\ t = "shadow" /\ k.exp = j.exp
                       /\ k.pc = IF j.verdict = "promoted" THEN "begin" ELSE "refuse"
      /\ j.pc = "refuse" => Refuses(t)
      /\ j.pc = "begin" => k.pc = "retire" /\ k.exp = j.exp
      /\ j.pc = "retire" => k.pc = "crown" /\ k.exp = j.exp
      /\ j.pc = "crown" => Promotes(t)
  BY Departs
<1>5. /\ Refuses(t) \/ Retires(t) \/ Promotes(t) => t = "shadow" /\ j.pc \in ShadowLabels
      /\ Rejects(t) \/ Records(t) \/ Stages(t) => t \in Evolvers
  BY <1>0, Roles DEF Refuses, Retires, Promotes, Rejects, Records, Stages, At, ShadowLabels,
                     PromoteLabels, EvolveLabels
<1>6. j.pc \in ShadowLabels => j.exp \in Ids(db.experiments) /\ db.experiments[j.exp].challenger = j.challenger
  BY <1>0 DEF Holds
<1>7. ASSUME NEW e \in Ids(db.experiments) PROVE Effective(e)'
  <2> DEFINE x == db.experiments[e]
             y == db'.experiments[e]
             c == x.challenger
             was == db.versions[c].status
             is == db'.versions[c].status
  <2>0. /\ Effective(e) /\ c \in Ids(db.versions) \ {1} /\ y.challenger = c /\ y.shadow = x.shadow
        /\ VerdictMoves(t, e) /\ StatusMoves(t, c)
    BY <1>0, <1>1, <1>2 DEF Effects, Refs, Sound
  <2>1. /\ was = "rejected" => is = "rejected"
        /\ was \in {"champion", "retired"} => is \in {"champion", "retired"}
    <3>1. Refuses(t) \/ Promotes(t) => db.versions[j.challenger].status = "shadow"
      BY <1>5 DEF Switch, ShadowLabels, PromoteLabels, Refuses, Promotes, At
    <3>2. Retires(t) => WithStatus(db, "champion") = {j.champion}
      BY <1>5 DEF Switch, Retires, At
    <3>3. Retires(t) => db.versions[j.champion].status = "champion"
      BY <3>2 DEF WithStatus
    <3> QED BY <2>0, <3>1, <3>3 DEF StatusMoves
  <2>2. ASSUME y.decision = "none", ~y.shadow
        PROVE  \E u \in Evolvers : At(u, "reject")' /\ job'[u].exp = e
    <3>1. x.decision = "none" /\ ~((Rejects(t) \/ Decides(t)) /\ e = j.exp)
      BY <1>0, <2>0, <2>2 DEF VerdictMoves, Job, Verdicts
    <3>2. PICK u \in Evolvers : At(u, "reject") /\ job[u].exp = e
      BY <2>0, <2>2, <3>1 DEF Effective
    <3>3. u # t
      BY <1>4, <3>1, <3>2 DEF At
    <3> QED BY <1>0, <3>2, <3>3 DEF At
  <2>3. ASSUME y.decision = "rejected"
        PROVE  is = "rejected" \/ (job'["shadow"].pc = "refuse" /\ job'["shadow"].exp = e)
    <3>1. CASE Rejects(t) /\ e = j.exp
      <4>1. was = "rejected"
        BY <1>0, <3>1 DEF Holds, Rejects, At, Sound
      <4> QED BY <2>1, <4>1
    <3>2. CASE Decides(t) /\ e = j.exp /\ j.verdict = "rejected"
      BY <1>4, <3>2
    <3>3. CASE x.decision = "rejected"
      <4>1. CASE was = "rejected"
        BY <2>1, <4>1
      <4>2. CASE job["shadow"].pc = "refuse" /\ job["shadow"].exp = e
        <5>1. CASE t = "shadow"
          BY <1>3, <1>4, <1>6, <4>2, <5>1 DEF ShadowLabels
        <5> QED BY <1>0, <4>2, <5>1
      <4> QED BY <2>0, <3>3, <4>1, <4>2 DEF Effective
    <3> QED BY <2>0, <2>3, <3>1, <3>2, <3>3 DEF VerdictMoves
  <2>4. ASSUME y.decision = "promoted"
        PROVE  \/ is \in {"champion", "retired"}
               \/ job'["shadow"].pc \in {"begin", "retire", "crown"} /\ job'["shadow"].exp = e
    <3>1. CASE Decides(t) /\ e = j.exp /\ j.verdict = "promoted"
      BY <1>4, <3>1
    <3>2. CASE x.decision = "promoted"
      <4>1. CASE was \in {"champion", "retired"}
        BY <2>1, <4>1
      <4>2. CASE job["shadow"].pc \in {"begin", "retire", "crown"} /\ job["shadow"].exp = e
        <5>1. CASE t = "shadow"
          BY <1>3, <1>4, <1>6, <4>2, <5>1 DEF ShadowLabels, PromoteLabels
        <5> QED BY <1>0, <4>2, <5>1
      <4> QED BY <2>0, <3>2, <4>1, <4>2 DEF Effective
    <3> QED BY <2>0, <2>4, <3>1, <3>2 DEF VerdictMoves
  <2> QED BY <2>0, <2>2, <2>3, <2>4 DEF Effective
<1>8. ASSUME NEW e \in Ids(db'.experiments) \ Ids(db.experiments) PROVE Effective(e)'
  <2> DEFINE n == Len(db.experiments) + 1
  <2>1. n \in Nat /\ n = Len(db.experiments) + 1
    BY <1>0, TablesType
  <2>2. Records(t) /\ j.pc = "experiment" /\ t \in Evolvers
    BY <1>2, <1>5 DEF Records, At
  <2>3. ~j.passed => k.pc = "reject" /\ k.exp = n
    BY <1>4, <2>2
  <2> HIDE DEF n
  <2>4. ExperimentAdded(db, db', n, j.hyp, j.champion, j.challenger, j.passed)
    BY <1>0, <2>1, <2>2, InsertExperimentIs DEF Records, Job
  <2>5. e = n /\ db'.experiments[e].decision = "none" /\ db'.experiments[e].shadow = j.passed
    BY <2>4 DEF ExperimentAdded
  <2> QED BY <2>2, <2>3, <2>5 DEF Effective, At
<1>9. ASSUME NEW v \in Ids(db'.versions) \ {1} PROVE Tested(v)'
  <2>1. CASE v \in Ids(db.versions)
    <3>1. CASE \E e \in Ids(db.experiments) : db.experiments[e].challenger = v
      BY <1>2, <3>1 DEF Tested
    <3>2. ASSUME NEW u \in Evolvers, At(u, "experiment"), job[u].challenger = v PROVE Tested(v)'
      <4>1. CASE u = t
        <5> DEFINE n == Len(db.experiments) + 1
        <5>1. n \in Nat /\ n = Len(db.experiments) + 1
          BY <1>0, TablesType
        <5> HIDE DEF n
        <5>2. Records(t)
          BY <1>4, <3>2, <4>1 DEF At
        <5>3. ExperimentAdded(db, db', n, j.hyp, j.champion, j.challenger, j.passed)
          BY <1>0, <5>1, <5>2, InsertExperimentIs DEF Records, Job
        <5>4. n \in Ids(db'.experiments) /\ db'.experiments[n].challenger = v
          BY <3>2, <4>1, <5>3 DEF ExperimentAdded
        <5> QED BY <5>4 DEF Tested
      <4>2. CASE u # t
        BY <1>0, <3>2, <4>2 DEF Tested, At
      <4> QED BY <4>1, <4>2
    <3> QED BY <2>1, <3>1, <3>2 DEF Effects, Tested
  <2>2. CASE v \notin Ids(db.versions)
    <3>1. Stages(t) /\ v = Len(db.versions) + 1 /\ t \in Evolvers
      BY <1>3, <1>5, <2>2
    <3> QED BY <1>4, <3>1 DEF Tested, At
  <2> QED BY <2>1, <2>2
<1> QED BY <1>7, <1>8, <1>9 DEF Effects

LEMMA EffectsNext ==
  ASSUME TypeInv, ShapeInv, Rows, Switch, Effects, [Next]_vars, ~interrupted'
  PROVE  Effects'
<1>1. ASSUME NEW t \in Threads, ThreadStep(t), ~Alters(t) PROVE Effects'
  <2>0. \A u \in Threads : u # t => job'[u] = job[u]
    BY <1>1, ThreadArrives
  <2>1. db' = db
    BY <1>1, ThreadMoves DEF DataMoves, BeginPromotion, Commit, Undone
  <2>2. ~At(t, "reject") /\ ~At(t, "experiment") /\ ~At(t, "refuse") /\ ~At(t, "crown")
        /\ (At(t, "begin") => job'[t].pc = "retire" /\ job'[t].exp = job[t].exp)
        /\ (At(t, "retire") => job'[t].pc = "crown" /\ job'[t].exp = job[t].exp)
    BY <1>1, Departs DEF Alters, At
  <2>3. ASSUME NEW e \in Ids(db.experiments) PROVE Effective(e)'
    <3>0. Effective(e) /\ "shadow" \in Threads /\ Evolvers \subseteq Threads
      BY DEF Effects, Threads, Evolvers
    <3>1. ASSUME NEW u \in Evolvers, At(u, "reject") PROVE job'[u] = job[u]
      BY <2>0, <2>2, <3>0, <3>1
    <3>2. job["shadow"].pc = "refuse" => job'["shadow"] = job["shadow"]
      BY <2>0, <2>2, <3>0 DEF At
    <3>3. job["shadow"].pc \in {"begin", "retire", "crown"} =>
            job'["shadow"].pc \in {"begin", "retire", "crown"}
            /\ job'["shadow"].exp = job["shadow"].exp
      BY <2>0, <2>2, <3>0 DEF At
    <3> QED BY <2>1, <3>0, <3>1, <3>2, <3>3 DEF Effective, At
  <2>4. ASSUME NEW v \in Ids(db.versions) \ {1} PROVE Tested(v)'
    <3>0. Tested(v) /\ Evolvers \subseteq Threads
      BY DEF Effects, Threads, Evolvers
    <3>1. ASSUME NEW u \in Evolvers, At(u, "experiment") PROVE job'[u] = job[u]
      BY <2>0, <2>2, <3>0, <3>1
    <3> QED BY <2>1, <3>0, <3>1 DEF Tested, At
  <2> QED BY <2>1, <2>3, <2>4 DEF Effects
<1>2. CASE Crash
  <2>0. /\ \A u \in Threads : job'[u] = IF u = "cli" THEN job[u] ELSE IdleJob
        /\ db' = committed
    BY <1>2, CrashMoves
  <2>1. At("weekly", "idle") /\ At("shadow", "idle")
    BY <1>2, Zenon DEF Crash
  <2>2. db' = db
    BY <2>0, <2>1 DEF ShapeInv, At
  <2>3. job'["cli"] = job["cli"]
    BY <2>0 DEF Threads
  <2>4. \A u \in Evolvers : At(u, "reject") \/ At(u, "experiment") => job'[u] = job[u]
    BY <2>1, <2>3 DEF Evolvers, At
  <2>5. ASSUME NEW e \in Ids(db.experiments) PROVE Effective(e)'
    <3>1. Effective(e)
      BY DEF Effects
    <3> QED BY <2>1, <2>2, <2>4, <3>1 DEF Effective, At
  <2>6. ASSUME NEW v \in Ids(db.versions) \ {1} PROVE Tested(v)'
    <3>1. Tested(v)
      BY DEF Effects
    <3> QED BY <2>2, <2>4, <3>1 DEF Tested, At
  <2> QED BY <2>2, <2>5, <2>6 DEF Effects
<1>3. CASE UNCHANGED vars
  <2>1. db' = db /\ job' = job
    BY <1>3 DEF vars
  <2>2. \A e \in Ids(db.experiments) : Effective(e)'
    BY <2>1 DEF Effects, Effective, At
  <2>3. \A v \in Ids(db.versions) \ {1} : Tested(v)'
    BY <2>1 DEF Effects, Tested, At
  <2> QED BY <2>1, <2>2, <2>3 DEF Effects
<1> QED BY <1>1, <1>2, <1>3, EffectsAlter, Actors

EffectInv == ~interrupted => Effects

LEMMA EffectInvariant == Spec => []EffectInv
<1>1. Init => EffectInv
  <2> SUFFICES ASSUME Init PROVE Effects
    BY DEF EffectInv
  <2>1. Ids(db.experiments) = {} /\ Ids(db.versions) = {}
    BY EmptySeq DEF Init, EmptyDb, Ids
  <2> QED BY <2>1 DEF Effects
<1>2. ASSUME TypeInv, ShapeInv, IdInv, EffectInv, [Next]_vars PROVE EffectInv'
  <2> SUFFICES ASSUME ~interrupted' PROVE Effects'
    BY DEF EffectInv
  <2>1. ~interrupted
    BY <1>2, HistoryGrows
  <2>2. Rows /\ Switch /\ Effects
    BY <1>2, <2>1 DEF IdInv, EffectInv, IdsReused
  <2> QED BY <1>2, <2>2, EffectsNext
<1> QED BY <1>1, <1>2, EvolutionInvariant, PTL DEF Spec

(* When all jobs are idle and none has died on its way, nothing is half done:   *)
(* run_weekly_evolution and the shadow evaluation make their changes in       *)
(* several statements (version, experiment, reject; decide, retire, crown)    *)
(* and between two of them a job is there to make the next.                   *)
THEOREM WorkIsFinished == Spec => []Settled
<1>1. TypeInv /\ ShapeInv /\ IdInv /\ EffectInv => Settled
  <2> SUFFICES ASSUME TypeInv, ShapeInv, IdInv, EffectInv,
                      \A t \in Threads : At(t, "idle"), ~interrupted
               PROVE  Settled
    BY DEF Settled
  <2>1. Rows /\ Effects /\ Seeded(committed)
    BY DEF IdInv, EffectInv, IdsReused, ShapeInv
  <2>2. db = committed
    BY DEF ShapeInv, At, Threads
  <2>3. job["shadow"].pc = "idle" /\ \A t \in Evolvers : job[t].pc = "idle"
    BY DEF At, Threads, Evolvers
  <2>4. ASSUME NEW e \in Ids(committed.experiments)
        PROVE  LET x == committed.experiments[e]
                   status == committed.versions[x.challenger].status
               IN /\ x.decision \in {"none", "rejected", "promoted"}
                  /\ x.decision = "none" => x.shadow /\ status = "shadow"
                  /\ x.decision = "rejected" => status = "rejected"
                  /\ x.decision = "promoted" => status \in {"champion", "retired"}
    <3>1. Effective(e) /\ Sound(committed)
      BY <2>1, <2>2 DEF Effects, Rows
    <3>2. committed.experiments[e] \in Experiment
      BY TablesType DEF TypeInv
    <3>3. committed.experiments[e].decision \in {"none", "rejected", "promoted"}
      BY <3>2 DEF Experiment, Verdicts
    <3>4. committed.experiments[e].decision = "none" => committed.experiments[e].shadow
      BY <2>2, <2>3, <3>1 DEF Effective, At
    <3> QED BY <2>2, <2>3, <3>1, <3>3, <3>4 DEF Effective, Sound
  <2>5. ASSUME NEW v \in Ids(committed.versions), committed.versions[v].tag # "seed"
        PROVE  \E e \in Ids(committed.experiments) : committed.experiments[e].challenger = v
    <3>1. v # 1
      BY <2>1, <2>5 DEF Seeded
    <3>2. Tested(v)
      BY <2>1, <2>2, <2>5, <3>1 DEF Effects
    <3> QED BY <2>2, <2>3, <3>2 DEF Tested, At
  <2> QED BY <2>4, <2>5 DEF Settled
<1> QED BY <1>1, EffectInvariant, EvolutionInvariant, PTL

-----------------------------------------------------------------------------
(* The attempts against a champion.                                            *)

NotPromoted(d, v) ==
  {e \in Ids(d.experiments) :
     d.experiments[e].champion = v /\ d.experiments[e].decision # "promoted"}
Failed(d, v) ==
  {h \in Ids(d.hypotheses) :
     /\ d.hypotheses[h].champion = v
     /\ \/ ~d.hypotheses[h].accepted
        \/ \E e \in Ids(d.experiments) :
             d.experiments[e].hyp = h /\ d.experiments[e].decision = "rejected"}
Room(v) == Cardinality(NotPromoted(db, v)) < MaxAttempts
Attempted ==
  /\ \A v \in Nat : Cardinality(NotPromoted(db, v)) <= MaxAttempts
  /\ \A t \in Evolvers :
       LET j == job[t]
       IN /\ j.pc = "review" /\ ~j.plateau => failed_attempts(db, j.champion) < MaxAttempts
          /\ j.pc = "hypothesis" /\ j.accepted => Room(j.champion)
          /\ HoldsHyp(j) => Room(j.champion)

LEMMA FailedCount ==
  ASSUME NEW d, NEW v
  PROVE  failed_attempts(d, v) = Cardinality(Failed(d, v))
BY Zenon DEF failed_attempts, Failed

LEMMA AttemptsFinite ==
  ASSUME NEW d \in Tables, NEW v
  PROVE  /\ IsFiniteSet(NotPromoted(d, v)) /\ Cardinality(NotPromoted(d, v)) \in Nat
         /\ IsFiniteSet(Failed(d, v)) /\ Cardinality(Failed(d, v)) \in Nat
<1>0. \A n \in Nat : IsFiniteSet(1..n)
  BY FS_Interval
<1>1. IsFiniteSet(Ids(d.experiments)) /\ IsFiniteSet(Ids(d.hypotheses))
  BY <1>0, TablesType
<1>2. NotPromoted(d, v) \in SUBSET Ids(d.experiments) /\ Failed(d, v) \in SUBSET Ids(d.hypotheses)
  BY DEF NotPromoted, Failed
<1>3. IsFiniteSet(NotPromoted(d, v)) /\ IsFiniteSet(Failed(d, v))
  BY <1>1, <1>2, FS_Subset
<1> QED BY <1>3, FS_CardinalityType

(* When every experiment has its verdict, each one that was not promoted is an *)
(* attempt that failed, and no two are the same attempt.                      *)
LEMMA AttemptsCount ==
  ASSUME TypeInv, ShapeInv, Judged, Undecided(db) = {}, NEW v
  PROVE  Cardinality(NotPromoted(db, v)) <= failed_attempts(db, v)
<1> DEFINE N == NotPromoted(db, v)
           F == Failed(db, v)
           hyp == [e \in N |-> db.experiments[e].hyp]
<1>1. db \in Tables /\ Refs(db)
  BY DEF TypeInv, ShapeInv
<1>2. ASSUME NEW e \in N PROVE db.experiments[e].hyp \in F
  <2>1. /\ e \in Ids(db.experiments) /\ db.experiments[e].champion = v
        /\ db.experiments[e].decision # "promoted" /\ db.experiments[e].decision # "none"
    BY DEF NotPromoted, Undecided
  <2>2. db.experiments[e].decision = "rejected"
    BY <1>1, <2>1, TablesType DEF Experiment, Verdicts
  <2>3. /\ db.experiments[e].hyp \in Ids(db.hypotheses)
        /\ db.hypotheses[db.experiments[e].hyp].champion = v
    BY <1>1, <2>1 DEF Refs, Judged
  <2> QED BY <2>1, <2>2, <2>3 DEF Failed
<1>3. hyp \in [N -> F]
  BY <1>2
<1>4. \A e, f \in N : hyp[e] = hyp[f] => e = f
  BY DEF Judged, NotPromoted
<1>5. /\ IsFiniteSet(N) /\ Cardinality(N) \in Nat
      /\ IsFiniteSet(F) /\ Cardinality(F) \in Nat
  BY <1>1, AttemptsFinite
<1> HIDE DEF N, F, hyp
<1>6. ~(Cardinality(F) < Cardinality(N))
  BY <1>3, <1>4, <1>5, FS_PigeonHole
<1>7. Cardinality(N) <= Cardinality(F)
  BY <1>5, <1>6
<1> QED BY <1>7, FailedCount DEF N, F

LEMMA CountSame ==
  ASSUME NEW d, NEW e, NEW v, e.experiments = d.experiments
  PROVE  /\ NotPromoted(e, v) = NotPromoted(d, v)
         /\ e.hypotheses = d.hypotheses => failed_attempts(e, v) = failed_attempts(d, v)
<1>1. NotPromoted(e, v) = NotPromoted(d, v)
  BY DEF NotPromoted
<1>2. e.hypotheses = d.hypotheses => Failed(e, v) = Failed(d, v)
  BY DEF Failed
<1> QED BY <1>1, <1>2, FailedCount

(* Only the recording of an experiment adds one.                               *)
LEMMA AttemptsMove ==
  ASSUME TypeInv, ShapeInv, Rows, Switch, Alone, NEW t \in Threads, ThreadStep(t), NEW v
  PROVE  /\ ~Records(t) => Cardinality(NotPromoted(db', v)) <= Cardinality(NotPromoted(db, v))
         /\ v # job[t].champion =>
              Cardinality(NotPromoted(db', v)) <= Cardinality(NotPromoted(db, v))
         /\ Cardinality(NotPromoted(db', v)) <= Cardinality(NotPromoted(db, v)) + 1
<1> DEFINE N == NotPromoted(db, v)
           M == NotPromoted(db', v)
           j == job[t]
<1>0. db \in Tables /\ db' \in Tables /\ PendingMoves(t) /\ j \in Job
  BY DataNext, EvidenceNext DEF TypeInv
<1>1. /\ IsFiniteSet(N) /\ Cardinality(N) \in Nat /\ IsFiniteSet(M) /\ Cardinality(M) \in Nat
  BY <1>0, AttemptsFinite
<1>2. CASE db'.experiments = db.experiments
  <2>1. M = N
    BY <1>2, CountSame
  <2> HIDE DEF M, N
  <2> QED BY <1>1, <2>1 DEF M, N
<1>3. CASE Rejects(t) \/ Decides(t)
  <2>1. VerdictsStay /\ Ids(db'.experiments) = Ids(db.experiments)
        /\ \A e \in Ids(db.experiments) : db'.experiments[e].champion = db.experiments[e].champion
    <3>1. Alters(t) /\ ~Records(t)
      BY <1>3 DEF Alters, Rejects, Decides, Records, At
    <3> QED BY <3>1, AltersStatus, EvidenceRows
  <2>2. M \in SUBSET N
    BY <2>1 DEF VerdictsStay, NotPromoted
  <2>3. Cardinality(M) <= Cardinality(N)
    BY <1>1, <2>2, FS_Subset
  <2> HIDE DEF M, N
  <2> QED BY <1>1, <2>3 DEF M, N
<1>4. ASSUME Records(t), NEW n \in Nat, NewExperiment(n, t)
      PROVE  /\ v # j.champion => Cardinality(M) <= Cardinality(N)
             /\ Cardinality(M) <= Cardinality(N) + 1
  <2>1. /\ n \in Ids(db'.experiments) /\ n \notin Ids(db.experiments)
        /\ db'.experiments[n].champion = j.champion
        /\ \A e \in Ids(db'.experiments) : e = n \/ e \in Ids(db.experiments)
        /\ \A e \in Ids(db.experiments) : db'.experiments[e] = db.experiments[e]
    BY <1>4 DEF NewExperiment, ExperimentAdded
  <2>2. M \in SUBSET (N \cup {n}) /\ (v # j.champion => M \in SUBSET N)
    BY <2>1 DEF NotPromoted
  <2>3. IsFiniteSet(N \cup {n}) /\ Cardinality(N \cup {n}) <= Cardinality(N) + 1
    <3> HIDE DEF N
    <3>1. IsFiniteSet(N \cup {n})
          /\ Cardinality(N \cup {n}) = IF n \in N THEN Cardinality(N) ELSE Cardinality(N) + 1
      BY <1>1, FS_AddElement
    <3> QED BY <1>1, <3>1
  <2>4. Cardinality(M) <= Cardinality(N \cup {n}) /\ (v # j.champion => Cardinality(M) <= Cardinality(N))
    <3>1. \A T \in SUBSET (N \cup {n}) : Cardinality(T) <= Cardinality(N \cup {n})
      BY <2>3, FS_Subset
    <3>2. \A T \in SUBSET N : Cardinality(T) <= Cardinality(N)
      BY <1>1, FS_Subset
    <3> HIDE DEF M, N
    <3> QED BY <2>2, <3>1, <3>2
  <2>5. Cardinality(N \cup {n}) \in Nat
    BY <2>3, FS_CardinalityType
  <2> HIDE DEF M, N
  <2> QED BY <1>1, <2>3, <2>4, <2>5
<1> QED BY <1>0, <1>2, <1>3, <1>4 DEF PendingMoves

(* What an evolution knows of the attempts when it goes on.                    *)
LEMMA AttemptsKnown ==
  ASSUME TypeInv, ShapeInv, Rows, Switch, Alone, Attempted, NEW t \in Evolvers, ThreadStep(t),
         job'[t].pc \in Past \ {"active", "reject"}
  PROVE  LET j == job[t]
             k == job'[t]
         IN /\ k.pc = "review" /\ ~k.plateau => failed_attempts(db', k.champion) < MaxAttempts
            /\ k.pc = "hypothesis" /\ k.accepted =>
                 Cardinality(NotPromoted(db', k.champion)) < MaxAttempts
            /\ HoldsHyp(k) => Cardinality(NotPromoted(db', k.champion)) < MaxAttempts
<1> DEFINE j == job[t]
           k == job'[t]
<1>0. /\ t \in Threads /\ Arrives(t) /\ db \in Tables /\ committed \in Tables
      /\ db.experiments = committed.experiments /\ db.hypotheses = committed.hypotheses
      /\ MaxAttempts \in Nat
  BY ThreadArrives, EvolutionAssumption DEF TypeInv, Alone, Recorded, Evolvers, Threads
<1>1. \A v : /\ Cardinality(NotPromoted(db, v)) \in Nat
             /\ failed_attempts(db, v) \in Nat
             /\ failed_attempts(committed, v) = failed_attempts(db, v)
  BY <1>0, AttemptsFinite, FailedCount, CountSame
<1>2. CASE k.pc = "review"
  <2>1. /\ db' = db /\ k.champion = j.champion
        /\ k.plateau = (failed_attempts(View(t), j.champion) >= MaxAttempts)
    <3>1. db' = db
      BY <1>0, <1>2, PastMoves
    <3>2. CheckActive(t)
      BY <1>0, <1>2 DEF Arrives
    <3> QED BY <1>0, <1>2, <3>1, <3>2, ToReview
  <2>2. failed_attempts(View(t), j.champion) = failed_attempts(db, j.champion)
    BY <1>1 DEF View
  <2>3. ~k.plateau => failed_attempts(db, j.champion) < MaxAttempts
    <3>1. ~k.plateau => ~(failed_attempts(View(t), j.champion) >= MaxAttempts)
      BY <2>1, Zenon
    <3> QED BY <1>0, <1>1, <2>2, <3>1
  <2>4. failed_attempts(db', k.champion) = failed_attempts(db, j.champion)
    BY <2>1
  <2> QED BY <1>2, <2>3, <2>4 DEF HoldsHyp
<1>3. CASE k.pc = "hypothesis"
  <2>1. /\ At(t, "review") /\ k.champion = j.champion
        /\ k.accepted => ~j.plateau
        /\ Undecided(db) = {} /\ db'.experiments = db.experiments
    BY <1>0, <1>3, PastMoves, ToHypothesis DEF Arrives
  <2>2. k.accepted => failed_attempts(db, j.champion) < MaxAttempts
    BY <2>1 DEF Attempted, At
  <2>3. Cardinality(NotPromoted(db, j.champion)) <= failed_attempts(db, j.champion)
    BY <2>1, AttemptsCount DEF Alone
  <2>4. NotPromoted(db', j.champion) = NotPromoted(db, j.champion)
    BY <2>1, CountSame
  <2>5. k.accepted => Cardinality(NotPromoted(db, j.champion)) < MaxAttempts
    BY <1>0, <1>1, <2>2, <2>3
  <2> QED BY <1>3, <2>1, <2>4, <2>5 DEF HoldsHyp
<1>4. CASE HoldsHyp(k)
  <2>1. /\ k.champion = j.champion /\ db'.experiments = db.experiments
        /\ (At(t, "hypothesis") /\ j.accepted) \/ At(t, "version")
    BY <1>0, <1>4, PastMoves, ToVersion, ToExperiment DEF Arrives, HoldsHyp, Past
  <2>2. Room(j.champion)
    BY <2>1 DEF Attempted, At, HoldsHyp
  <2>3. NotPromoted(db', j.champion) = NotPromoted(db, j.champion)
    BY <2>1, CountSame
  <2> QED BY <1>4, <2>1, <2>2, <2>3 DEF Room, HoldsHyp
<1> QED BY <1>2, <1>3, <1>4 DEF Past, HoldsHyp

(* While one evolution is past its check, nobody else adds an attempt.         *)
LEMMA AttemptsRest ==
  ASSUME TypeInv, ShapeInv, Rows, Switch, Alone, NEW t \in Threads, ThreadStep(t),
         NEW u \in Evolvers, u # t, job[u].pc \in Past \ {"active", "reject"}
  PROVE  db'.experiments = db.experiments /\ db'.hypotheses = db.hypotheses
<1>0. /\ PendingMoves(t) /\ (~Proposes(t) => db'.hypotheses = db.hypotheses)
      /\ job[t].pc \in LabelsOf(t)
  BY EvidenceNext DEF ShapeInv
<1>1. ~(t \in Evolvers /\ job[t].pc \in Past)
  BY DEF Alone, Lone, Evolving, Evolvers, Past
<1>2. ~Records(t) /\ ~Rejects(t) /\ ~Proposes(t)
  BY <1>0, <1>1, Roles DEF Records, Rejects, Proposes, At, EvolveLabels, Past
<1>3. ~Decides(t)
  BY VerdictAlone
<1> QED BY <1>0, <1>2, <1>3 DEF PendingMoves

LEMMA AttemptedNext ==
  ASSUME TypeInv, ShapeInv, Rows, Switch, Alone, Attempted, [Next]_vars
  PROVE  Attempted'
<1>0. db \in Tables /\ MaxAttempts \in Nat /\ db' \in Tables
  BY TypeNext, EvolutionAssumption DEF TypeInv
<1>1. \A v : Cardinality(NotPromoted(db, v)) \in Nat /\ Cardinality(NotPromoted(db', v)) \in Nat
  BY <1>0, AttemptsFinite
<1>2. ASSUME NEW t \in Threads, ThreadStep(t) PROVE Attempted'
  <2>1. ASSUME NEW v \in Nat PROVE Cardinality(NotPromoted(db', v)) <= MaxAttempts
    <3>0. /\ Cardinality(NotPromoted(db, v)) \in Nat /\ Cardinality(NotPromoted(db', v)) \in Nat
          /\ Cardinality(NotPromoted(db, v)) <= MaxAttempts
      BY <1>1 DEF Attempted
    <3>1. CASE Records(t) /\ v = job[t].champion
      <4>1. t \in Evolvers /\ HoldsHyp(job[t])
        BY <3>1, Roles DEF Records, At, ShapeInv, EvolveLabels, HoldsHyp
      <4>2. Cardinality(NotPromoted(db, v)) < MaxAttempts
        BY <3>1, <4>1 DEF Attempted, Room
      <4>3. Cardinality(NotPromoted(db', v)) <= Cardinality(NotPromoted(db, v)) + 1
        BY <1>2, AttemptsMove
      <4> QED BY <1>0, <3>0, <4>2, <4>3
    <3>2. CASE ~(Records(t) /\ v = job[t].champion)
      <4>1. Cardinality(NotPromoted(db', v)) <= Cardinality(NotPromoted(db, v))
        BY <1>2, <3>2, AttemptsMove
      <4> QED BY <1>0, <3>0, <4>1
    <3> QED BY <3>1, <3>2
  <2>2. ASSUME NEW u \in Evolvers
        PROVE  LET k == job'[u]
               IN /\ k.pc = "review" /\ ~k.plateau => failed_attempts(db', k.champion) < MaxAttempts
                  /\ k.pc = "hypothesis" /\ k.accepted =>
                       Cardinality(NotPromoted(db', k.champion)) < MaxAttempts
                  /\ HoldsHyp(k) => Cardinality(NotPromoted(db', k.champion)) < MaxAttempts
    <3>0. u \in Threads
      BY DEF Evolvers, Threads
    <3>1. CASE job'[u].pc \notin Past \ {"active", "reject"}
      BY <3>1 DEF Past, HoldsHyp
    <3>2. CASE job'[u].pc \in Past \ {"active", "reject"} /\ u = t
      BY <1>2, <3>2, AttemptsKnown
    <3>3. CASE job'[u].pc \in Past \ {"active", "reject"} /\ u # t
      <4>1. job'[u] = job[u]
        BY <1>2, <3>0, <3>3, ThreadArrives
      <4>2. db'.experiments = db.experiments /\ db'.hypotheses = db.hypotheses
        BY <1>2, <3>3, <4>1, AttemptsRest
      <4>3. /\ NotPromoted(db', job[u].champion) = NotPromoted(db, job[u].champion)
            /\ failed_attempts(db', job[u].champion) = failed_attempts(db, job[u].champion)
        BY <4>2, CountSame
      <4> QED BY <4>1, <4>3 DEF Attempted, Room
    <3> QED BY <3>1, <3>2, <3>3
  <2> QED BY <2>1, <2>2 DEF Attempted, Room
<1>3. CASE Crash \/ UNCHANGED vars
  <2>1. /\ db'.experiments = db.experiments /\ db'.hypotheses = db.hypotheses
        /\ \A u \in Evolvers : job'[u] = job[u] \/ job'[u].pc = "idle"
    <3>1. CASE Crash
      BY <3>1, CrashMoves, IdlePc DEF Alone, Recorded, Evolvers, Threads
    <3>2. CASE UNCHANGED vars
      BY <3>2 DEF vars
    <3> QED BY <1>3, <3>1, <3>2
  <2>2. \A v : /\ NotPromoted(db', v) = NotPromoted(db, v)
               /\ failed_attempts(db', v) = failed_attempts(db, v)
    BY <2>1, CountSame
  <2>3. ASSUME NEW u \in Evolvers
        PROVE  LET k == job'[u]
               IN /\ k.pc = "review" /\ ~k.plateau => failed_attempts(db', k.champion) < MaxAttempts
                  /\ k.pc = "hypothesis" /\ k.accepted =>
                       Cardinality(NotPromoted(db', k.champion)) < MaxAttempts
                  /\ HoldsHyp(k) => Cardinality(NotPromoted(db', k.champion)) < MaxAttempts
    <3>1. CASE job'[u] = job[u]
      BY <2>2, <3>1 DEF Attempted, Room
    <3>2. CASE job'[u].pc = "idle"
      BY <3>2 DEF HoldsHyp
    <3> QED BY <2>1, <3>1, <3>2
  <2>4. \A v \in Nat : Cardinality(NotPromoted(db', v)) <= MaxAttempts
    BY <2>2 DEF Attempted
  <2> QED BY <2>3, <2>4 DEF Attempted, Room
<1> QED BY <1>2, <1>3, Actors

AttemptInv == ~overlapped => Attempted

LEMMA AttemptInvariant == Spec => []AttemptInv
<1>1. Init => AttemptInv
  <2> SUFFICES ASSUME Init PROVE Attempted
    BY DEF AttemptInv
  <2>1. \A v : NotPromoted(db, v) = {}
    <3>1. Ids(db.experiments) = {}
      BY EmptySeq DEF Init, EmptyDb, Ids
    <3> QED BY <3>1 DEF NotPromoted
  <2>2. \A v : Cardinality(NotPromoted(db, v)) = 0
    BY <2>1, FS_EmptySet
  <2>3. \A t \in Evolvers : job[t].pc = "idle"
    BY IdlePc DEF Init, Evolvers, Threads
  <2>4. MaxAttempts \in Nat
    BY EvolutionAssumption
  <2> QED BY <2>2, <2>3, <2>4 DEF Attempted, HoldsHyp
<1>2. ASSUME TypeInv, ShapeInv, IdInv, ApartInv, AttemptInv, [Next]_vars PROVE AttemptInv'
  <2> SUFFICES ASSUME ~overlapped' PROVE Attempted'
    BY DEF AttemptInv
  <2>1. ~overlapped
    BY <1>2, HistoryGrows
  <2>2. Rows /\ Switch /\ Alone /\ Attempted
    BY <1>2, <2>1 DEF IdInv, ApartInv, AttemptInv, IdsReused
  <2> QED BY <1>2, <2>2, AttemptedNext
<1> QED BY <1>1, <1>2, EvolutionInvariant, PTL DEF Spec

(* The budget of attempts holds although it is read long before the experiment  *)
(* is written: between the two nobody else adds one, unless a second          *)
(* evolution runs beside it (~overlapped in the property).  The code counts   *)
(* hypotheses, the property experiments; when every experiment has its        *)
(* verdict, the latter are no more than the former (AttemptsCount).           *)
THEOREM TriesAreBounded == Spec => []AttemptsAreBounded
<1>1. TypeInv /\ ShapeInv /\ ApartInv /\ AttemptInv => AttemptsAreBounded
  <2> SUFFICES ASSUME TypeInv, ApartInv, AttemptInv, ~overlapped,
                      NEW v \in Ids(committed.versions)
               PROVE  Cardinality({e \in Ids(committed.experiments) :
                        /\ committed.experiments[e].champion = v
                        /\ committed.experiments[e].decision # "promoted"}) <= MaxAttempts
    BY DEF AttemptsAreBounded
  <2>1. v \in Nat
    BY TablesType DEF TypeInv
  <2>2. Cardinality(NotPromoted(db, v)) <= MaxAttempts
    BY <2>1 DEF AttemptInv, Attempted
  <2>3. NotPromoted(committed, v) = NotPromoted(db, v)
    BY CountSame DEF ApartInv, Alone, Recorded
  <2>4. Cardinality(NotPromoted(committed, v)) <= MaxAttempts
    BY <2>2, <2>3
  <2> QED BY <2>4 DEF NotPromoted
<1> QED BY <1>1, AttemptInvariant, EvolutionInvariant, PTL

=============================================================================
