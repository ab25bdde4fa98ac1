----------------------------- MODULE Evolution -----------------------------
(***************************************************************************)
(* How a strategy is replaced: app/evolution/pipeline.py, the tables it     *)
(* writes (app/db/strategy_versions.py, app/db/experiments.py) and          *)
(* transaction() of app/db/sqlite.py, which is opened on the one connection *)
(* that every thread of the process shares.                                 *)
(*                                                                         *)
(* "main" is the boot, "tick" the bar-close tick (both ensure_champion),    *)
(* "weekly" run_weekly_evolution, "shadow" evaluate_shadow; "cli" is        *)
(* `cli evolve` in a process and on a connection of its own.  A step is one *)
(* statement, or several reads whose order no other thread can tell.        *)
(*                                                                         *)
(* Candles, scores and folds are evidence: they appear as the branch they   *)
(* select.  A change is a field and its new value, and names the version.   *)
(***************************************************************************)
EXTENDS Integers, Sequences, FiniteSets

CONSTANTS
  Changes,      \* what the review may propose
  MaxAttempts,  \* max_hypothesis_attempts_per_champion
  MaxEvolves,   \* bound: evolutions started
  MaxFaults     \* bound: crashes and exceptions

ASSUME EvolutionAssumption ==
  /\ MaxAttempts \in Nat \ {0}
  /\ MaxEvolves \in Nat
  /\ MaxFaults \in Nat
  /\ "seed" \notin Changes

Threads == {"main", "tick", "weekly", "shadow", "cli"}
Evolvers == {"weekly", "cli"}
Statuses == {"champion", "shadow", "retired", "rejected"}
Verdicts == {"promoted", "rejected"}
None == 0

VARIABLES
  proc,        \* "down", "boot" or "up"
  db,          \* the tables as the process's connection sees them
  committed,   \* the tables as other connections see them, and a crash leaves them
  open,        \* is a transaction open on the process's connection?
  job,         \* what each thread is doing, with its local variables
  evolves,     \* evolutions started so far
  faults,      \* faults taken so far
  overlapped,  \* history: an evolution read what another job was changing
  interrupted  \* history: a job ended part of the way through

vars == <<proc, db, committed, open, job, evolves, faults, overlapped, interrupted>>

EmptyDb == [versions |-> <<>>, hypotheses |-> <<>>, experiments |-> <<>>]

IdleJob == [pc |-> "idle", champion |-> None, change |-> "seed", accepted |-> FALSE,
            passed |-> FALSE, hyp |-> None, challenger |-> None, exp |-> None,
            plateau |-> FALSE, verdict |-> "promoted"]

Init ==
  /\ proc = "down"
  /\ db = EmptyDb
  /\ committed = EmptyDb
  /\ open = FALSE
  /\ job = [t \in Threads |-> IdleJob]
  /\ evolves = 0
  /\ faults = 0
  /\ overlapped = FALSE
  /\ interrupted = FALSE

-----------------------------------------------------------------------------
(* Connections. *)

View(t) == IF t = "cli" THEN committed ELSE db

(* A write is committed at once, unless a transaction is open: then the        *)
(* process's own join it, whichever thread makes them, and the CLI's wait.    *)
Write(t, tables) ==
  /\ t = "cli" => ~open
  /\ db' = tables
  /\ committed' = IF open THEN committed ELSE tables
  /\ open' = open

NoWrite == UNCHANGED <<db, committed, open>>

-----------------------------------------------------------------------------
(* Queries. *)

Ids(s) == DOMAIN s
WithStatus(d, status) == {v \in Ids(d.versions) : d.versions[v].status = status}
OneOf(S) == IF S = {} THEN None ELSE CHOOSE x \in S : TRUE
Newest(S) == IF S = {} THEN None ELSE CHOOSE x \in S : \A y \in S : y <= x

load_champion(d) == OneOf(WithStatus(d, "champion"))
get_by_tag(d, tag) == OneOf({v \in Ids(d.versions) : d.versions[v].tag = tag})
AnyExperiment(d) == Ids(d.experiments)
Undecided(d) == {e \in Ids(d.experiments) : d.experiments[e].decision = "none"}
active_experiment(d) == Newest(Undecided(d))
NeverBusy(d) == FALSE
Busy(d) == active_experiment(d) # None

(* The hypotheses that were refused, or whose experiment was rejected.         *)
OnlyRefused(d, champion) ==
  Cardinality({h \in Ids(d.hypotheses) :
    d.hypotheses[h].champion = champion /\ ~d.hypotheses[h].accepted})
failed_attempts(d, champion) ==
  LET failed(h) == \/ ~d.hypotheses[h].accepted
                   \/ \E e \in Ids(d.experiments) :
                        d.experiments[e].hyp = h /\ d.experiments[e].decision = "rejected"
  IN Cardinality({h \in Ids(d.hypotheses) : d.hypotheses[h].champion = champion /\ failed(h)})

-----------------------------------------------------------------------------
(* The schema: version_tag is unique, one champion, foreign keys.  A statement *)
(* that breaks it changes nothing and raises.                                 *)

TagFree(d, tag) == get_by_tag(d, tag) = None
MayBe(d, v, status) == status = "champion" => WithStatus(d, "champion") \subseteq {v}

AnyReference(d, v) == TRUE
References(d, v) == v \in Ids(d.versions)

SetStatus(d, v, status) == [d EXCEPT !.versions = [@ EXCEPT ![v].status = status]]
InsertVersion(d, tag, status) ==
  [d EXCEPT !.versions = Append(@, [tag |-> tag, status |-> status])]
insert_hypothesis(d, champion, accepted) ==
  [d EXCEPT !.hypotheses = Append(@, [champion |-> champion, accepted |-> accepted])]
insert_experiment(d, hyp, champion, challenger, passed) ==
  [d EXCEPT !.experiments =
     Append(@, [hyp |-> hyp, champion |-> champion, challenger |-> challenger,
                shadow |-> passed, decision |-> "none"])]
Undecidable(d, e, decision) == d
decide(d, e, decision) ==
  IF e \in Ids(d.experiments)
  THEN [d EXCEPT !.experiments = [@ EXCEPT ![e].decision = decision]] ELSE d

-----------------------------------------------------------------------------
(* Jobs. *)

(* Two evolutions are under way, or one is between its two reads while a        *)
(* verdict is taking effect.                                                  *)
Evolving(j) == j.pc \notin {"idle", "ensure", "find", "recrown", "seed"}
Overlap(jobs) ==
  \/ \A t \in Evolvers : Evolving(jobs[t])
  \/ /\ jobs["shadow"].pc \in {"begin", "retire", "crown", "commit"}
     /\ \E t \in Evolvers : jobs[t].pc = "active"

Jobs(jobs) ==
  /\ job' = jobs
  /\ overlapped' = (overlapped \/ Overlap(jobs))

At(t, label) == job[t].pc = label
Become(t, j) == Jobs([job EXCEPT ![t] = j])
Goto(t, label) == Become(t, [job[t] EXCEPT !.pc = label])
Ends(t) == Become(t, IdleJob)

(* An exception ends the job; in promote() it rolls the transaction back, with *)
(* what other threads have written since it began.                            *)
RollsBack(t) == open /\ t = "shadow"
Raises(t) ==
  /\ Ends(t)
  /\ proc' = IF t = "main" THEN "down" ELSE proc
  /\ open' = IF RollsBack(t) THEN FALSE ELSE open
  /\ db' = IF RollsBack(t) THEN committed ELSE db
  /\ UNCHANGED committed
  /\ interrupted' = (interrupted \/ t \in Evolvers \cup {"shadow"})

Quiet == UNCHANGED <<proc, evolves, faults, interrupted>>

Starts(t, label) == At(t, "idle") /\ Goto(t, label)

Boot ==
  /\ proc = "down"
  /\ proc' = "boot"
  /\ Starts("main", "ensure")
  /\ NoWrite
  /\ UNCHANGED <<evolves, faults, interrupted>>

StartTick ==
  /\ proc = "up"
  /\ Starts("tick", "ensure")
  /\ NoWrite /\ Quiet

(* `cli evolve` opens the database, which ensures a champion, and then runs    *)
(* the pipeline; other commands only do the first.                            *)
StartEvolve(t) ==
  /\ t = "weekly" => proc = "up"
  /\ evolves < MaxEvolves
  /\ evolves' = evolves + 1
  /\ Starts(t, IF t = "cli" THEN "ensure" ELSE "load")
  /\ NoWrite
  /\ UNCHANGED <<proc, faults, interrupted>>

-----------------------------------------------------------------------------
(* ensure_champion: the champion, or the configured version made champion.     *)

Ensured(t) ==
  /\ IF t = "cli" THEN Goto(t, "load") ELSE Ends(t)
  /\ proc' = IF t = "main" THEN "up" ELSE proc

EnsureLoads(t) ==
  /\ At(t, "ensure")
  /\ \/ load_champion(View(t)) # None /\ Ensured(t)
     \/ load_champion(View(t)) = None /\ Goto(t, "find") /\ UNCHANGED proc
  /\ NoWrite
  /\ UNCHANGED <<evolves, faults, interrupted>>

EnsureFinds(t) ==
  LET v == get_by_tag(View(t), "seed")
  IN /\ At(t, "find")
     /\ Become(t, [job[t] EXCEPT !.pc = IF v # None THEN "recrown" ELSE "seed", !.champion = v])
     /\ NoWrite /\ Quiet

EnsureCrowns(t) ==
  LET v == job[t].champion
  IN /\ At(t, "recrown")
     /\ t = "cli" => ~open
     /\ \/ /\ MayBe(db, v, "champion")
           /\ Write(t, SetStatus(db, v, "champion"))
           /\ Ensured(t)
           /\ UNCHANGED interrupted
        \/ ~MayBe(db, v, "champion") /\ Raises(t)
     /\ UNCHANGED <<evolves, faults>>

EnsureSeeds(t) ==
  /\ At(t, "seed")
  /\ t = "cli" => ~open
  /\ \/ /\ TagFree(db, "seed")
        /\ Write(t, InsertVersion(db, "seed", "champion"))
        /\ Ensured(t)
        /\ UNCHANGED interrupted
     \/ ~TagFree(db, "seed") /\ Raises(t)
  /\ UNCHANGED <<evolves, faults>>

-----------------------------------------------------------------------------
(* run_weekly_evolution. *)

LoadChampion(t) ==
  LET v == load_champion(View(t))
  IN /\ At(t, "load")
     /\ IF v = None THEN Ends(t)
        ELSE Become(t, [job[t] EXCEPT !.pc = "active", !.champion = v])
     /\ NoWrite /\ Quiet

(* One experiment at a time; then the attempts against this champion.          *)
CheckActive(t) ==
  /\ At(t, "active")
  /\ IF Busy(View(t)) THEN Ends(t)
     ELSE Become(t, [job[t] EXCEPT !.pc = "review",
                       !.plateau = failed_attempts(View(t), job[t].champion) >= MaxAttempts])
  /\ NoWrite /\ Quiet

(* apply_candidate refuses a change that is none; what else it checks is the    *)
(* candidate's.                                                               *)
apply_candidate(champion) == {c \in Changes : champion.tag # c}

(* p_hacking.enforce; the pipeline never has different evidence to offer.       *)
enforce(plateau, different) == ~plateau \/ different

(* _run_phases: what it may find wanting.                                      *)
PassesOffline(folds, trades, score) == folds /\ trades /\ score

(* The review's answer: none (or the call failed), a candidate the builder      *)
(* refuses, or one it applies.  On a plateau that one is refused as well.      *)
(* Otherwise the phases tell whether it passes; a dry run stops there.         *)
Review(t) ==
  LET j == job[t]
      Propose(c, ok, passed) ==
        Become(t, [j EXCEPT !.pc = "hypothesis", !.change = c, !.accepted = ok, !.passed = passed])
  IN /\ At(t, "review")
     /\ \/ Ends(t)
        \/ \E c \in Changes : Propose(c, FALSE, FALSE)
        \/ \E c \in apply_candidate(View(t).versions[j.champion]), folds, trades, score \in BOOLEAN :
             /\ enforce(j.plateau, FALSE)
             /\ Propose(c, TRUE, PassesOffline(folds, trades, score))
     /\ NoWrite /\ Quiet

InsertHypothesis(t) ==
  LET j == job[t]
  IN /\ At(t, "hypothesis")
     /\ Write(t, insert_hypothesis(db, j.champion, j.accepted))
     /\ IF j.accepted
        THEN Become(t, [j EXCEPT !.pc = "version", !.hyp = Len(db.hypotheses) + 1])
        ELSE Ends(t)
     /\ Quiet

(* The tag names the change only: one that was tried before, against whatever  *)
(* champion, is taken.                                                        *)
InsertChallenger(t) ==
  LET j == job[t]
  IN /\ At(t, "version")
     /\ t = "cli" => ~open
     /\ \/ /\ TagFree(db, j.change)
           /\ Write(t, InsertVersion(db, j.change, IF j.passed THEN "shadow" ELSE "rejected"))
           /\ Become(t, [j EXCEPT !.pc = "experiment", !.challenger = Len(db.versions) + 1])
        \/ /\ ~TagFree(db, j.change)
           /\ Ends(t)
           /\ NoWrite
     /\ Quiet

InsertExperiment(t) ==
  LET j == job[t]
      refers == References(db, j.challenger) /\ j.hyp \in Ids(db.hypotheses)
  IN /\ At(t, "experiment")
     /\ t = "cli" => ~open
     /\ \/ /\ refers
           /\ Write(t, insert_experiment(db, j.hyp, j.champion, j.challenger, j.passed))
           /\ IF j.passed THEN Ends(t)
              ELSE Become(t, [j EXCEPT !.pc = "reject", !.exp = Len(db.experiments) + 1])
           /\ Quiet
        \/ ~refers /\ Raises(t) /\ UNCHANGED <<evolves, faults>>

RejectOffline(t) ==
  /\ At(t, "reject")
  /\ Write(t, decide(db, job[t].exp, "rejected"))
  /\ Ends(t)
  /\ Quiet

-----------------------------------------------------------------------------
(* evaluate_shadow. *)

(* shadow.observe: hours since the start, not since the last candle.            *)
Ready(hours, trades) == hours /\ trades

(* The arbiter: what was stored when the challenger was staged passed then, so *)
(* it is the shadow's length, the bootstrap and the comparison that decide.    *)
Arbitrate(ready, bootstrap, beats) ==
  CASE ~ready -> "deferred"
    [] ready /\ ~(bootstrap /\ beats) -> "rejected"
    [] OTHER -> "promoted"

EvaluateShadow ==
  LET e == active_experiment(db)
  IN /\ proc = "up"
     /\ At("shadow", "idle")
     /\ e # None
     /\ db.experiments[e].shadow
     /\ \E hours, trades, bootstrap, beats \in BOOLEAN :
          LET verdict == Arbitrate(Ready(hours, trades), bootstrap, beats)
          IN /\ verdict # "deferred"
             /\ Become("shadow", [IdleJob EXCEPT !.pc = "decide", !.exp = e, !.verdict = verdict,
                                    !.challenger = db.experiments[e].challenger])
     /\ NoWrite /\ Quiet

Decide ==
  LET j == job["shadow"]
  IN /\ At("shadow", "decide")
     /\ Write("shadow", decide(db, j.exp, j.verdict))
     /\ Goto("shadow", IF j.verdict = "promoted" THEN "begin" ELSE "refuse")
     /\ Quiet

(* set_status(challenger, REJECTED) *)
Refuse ==
  /\ At("shadow", "refuse")
  /\ Write("shadow", SetStatus(db, job["shadow"].challenger, "rejected"))
  /\ Ends("shadow")
  /\ Quiet

(* promote: BEGIN IMMEDIATE and load_champion, two UPDATEs, COMMIT.             *)
NoTransaction == FALSE
Transaction == TRUE

BeginPromotion ==
  /\ At("shadow", "begin")
  /\ Become("shadow", [job["shadow"] EXCEPT !.pc = "retire", !.champion = load_champion(db)])
  /\ open' = Transaction
  /\ UNCHANGED <<db, committed>>
  /\ Quiet

Retire ==
  LET v == job["shadow"].champion
  IN /\ At("shadow", "retire")
     /\ Write("shadow", IF v = None THEN db ELSE SetStatus(db, v, "retired"))
     /\ Goto("shadow", "crown")
     /\ Quiet

Crown ==
  LET v == job["shadow"].challenger
  IN /\ At("shadow", "crown")
     /\ \/ /\ MayBe(db, v, "champion")
           /\ Write("shadow", SetStatus(db, v, "champion"))
           /\ Goto("shadow", "commit")
           /\ Quiet
        \/ ~MayBe(db, v, "champion") /\ Raises("shadow") /\ UNCHANGED <<evolves, faults>>

Commit ==
  /\ At("shadow", "commit")
  /\ open' = FALSE
  /\ committed' = db
  /\ Ends("shadow")
  /\ UNCHANGED db
  /\ Quiet

-----------------------------------------------------------------------------
(* Faults. *)

JobRaises(t) ==
  /\ ~At(t, "idle")
  /\ faults < MaxFaults
  /\ faults' = faults + 1
  /\ Raises(t)
  /\ UNCHANGED evolves

Crash ==
  /\ proc # "down"
  /\ faults < MaxFaults
  /\ faults' = faults + 1
  /\ proc' = "down"
  /\ Jobs([t \in Threads |-> IF t = "cli" THEN job[t] ELSE IdleJob])
  /\ db' = committed
  /\ open' = FALSE
  /\ interrupted' = (interrupted \/ \E t \in {"weekly", "shadow"} : ~At(t, "idle"))
  /\ UNCHANGED <<committed, evolves>>

-----------------------------------------------------------------------------

EnsureStep(t) == EnsureLoads(t) \/ EnsureFinds(t) \/ EnsureCrowns(t) \/ EnsureSeeds(t)
EvolveStep(t) ==
  \/ StartEvolve(t) \/ LoadChampion(t) \/ CheckActive(t) \/ Review(t)
  \/ InsertHypothesis(t) \/ InsertChallenger(t) \/ InsertExperiment(t) \/ RejectOffline(t)
ShadowStep ==
  \/ EvaluateShadow \/ Decide \/ Refuse
  \/ BeginPromotion \/ Retire \/ Crown \/ Commit
Next ==
  \/ Boot \/ StartTick
  \/ \E t \in {"main", "tick", "cli"} : EnsureStep(t)
  \/ \E t \in Evolvers : EvolveStep(t)
  \/ ShadowStep
  \/ Crash \/ \E t \in Threads : JobRaises(t)

Spec == Init /\ [][Next]_vars

-----------------------------------------------------------------------------
(* Properties. *)

(* Types, and the foreign keys of what is stored.                              *)
WellFormed(d) ==
  /\ d.versions \in Seq([tag : Changes \cup {"seed"}, status : Statuses])
  /\ d.hypotheses \in Seq([champion : Ids(d.versions), accepted : BOOLEAN])
  /\ d.experiments \in Seq([hyp : Ids(d.hypotheses), champion : Ids(d.versions),
                            challenger : Ids(d.versions), shadow : BOOLEAN,
                            decision : Verdicts \cup {"none"}])

TypeOK ==
  /\ proc \in {"down", "boot", "up"}
  /\ WellFormed(db) /\ WellFormed(committed)
  /\ ~open => db = committed
  /\ evolves \in 0..MaxEvolves
  /\ faults \in 0..MaxFaults

(* An id that a rollback took back may be given out again, by the other process, *)
(* while a thread still has it in hand.  This needs an evolution that fell     *)
(* into a promotion, a second one, and the promotion's rollback.              *)
IdsReused == overlapped /\ interrupted

(* From the first version on there is one champion, never none and never two,  *)
(* in what other connections read and in what a crash leaves: the tick, the   *)
(* boot and the CLI do not have to pick one in the middle of a promotion.     *)
OneChampion ==
  ~IdsReused /\ committed.versions # <<>> => Cardinality(WithStatus(committed, "champion")) = 1

(* Nobody trades a version that no experiment has promoted, except the one the *)
(* system was started with.                                                   *)
CrownedByVerdict ==
  ~IdsReused => \A v \in Ids(committed.versions) :
    committed.versions[v].status \in {"champion", "retired"} =>
      \/ committed.versions[v].tag = "seed"
      \/ \E e \in Ids(committed.experiments) :
           /\ committed.experiments[e].challenger = v
           /\ committed.experiments[e].decision = "promoted"

(* What is committed is not taken back: a retired champion or a rejected        *)
(* challenger does not return (not even as the configured version that        *)
(* ensure_champion crowns), and a verdict stays what it is.                   *)
NothingReturns ==
  [][~IdsReused' =>
       /\ \A v \in Ids(committed.versions) :
            LET was == committed.versions[v].status
                is == committed'.versions[v].status
            IN was = is \/ <<was, is>> \in {<<"shadow", "champion">>, <<"shadow", "rejected">>,
                                           <<"champion", "retired">>}
       /\ \A e \in Ids(committed.experiments) :
            committed.experiments[e].decision # "none" =>
              committed'.experiments[e] = committed.experiments[e]]_vars

(* "Its metrics must beat the champion's": a champion is only replaced by a     *)
(* challenger whose experiment was against this very champion.                *)
ChampionWasBeaten ==
  [][LET old == load_champion(committed)
         new == load_champion(committed')
     IN old # None /\ old # new /\ ~overlapped' =>
          \E e \in Ids(committed.experiments) :
            /\ committed.experiments[e].champion = old
            /\ committed.experiments[e].challenger = new
            /\ committed.experiments[e].decision = "promoted"]_vars

(* No champion is tried more than MaxAttempts times without success.           *)
AttemptsAreBounded ==
  ~overlapped =>
    \A v \in Ids(committed.versions) :
      Cardinality({e \in Ids(committed.experiments) :
        /\ committed.experiments[e].champion = v
        /\ committed.experiments[e].decision # "promoted"}) <= MaxAttempts

(* Once no job is under way, and unless one was interrupted, every verdict has  *)
(* taken effect, every experiment without one is in shadow (the next          *)
(* evolution waits for it), and every version was given its experiment.       *)
Settled ==
  (\A t \in Threads : At(t, "idle")) /\ ~interrupted =>
    /\ \A e \in Ids(committed.experiments) :
         LET x == committed.experiments[e]
             status == committed.versions[x.challenger].status
         IN CASE x.decision = "none" -> x.shadow /\ status = "shadow"
              [] x.decision = "rejected" -> status = "rejected"
              [] x.decision = "promoted" -> status \in {"champion", "retired"}
    /\ \A v \in Ids(committed.versions) :
         committed.versions[v].tag # "seed" =>
           \E e \in Ids(committed.experiments) : committed.experiments[e].challenger = v

=============================================================================
