------------------------------ MODULE Verdicts ------------------------------
(***************************************************************************)
(* What a load report says of its steps: the profile that is accepted, the *)
(* verdict on speed and the one on quality of every step, recovery, the    *)
(* breakpoints, and how the cohorts of a matrix are compared.  What a step *)
(* measured is an element of Measured; times are in tenths of a second,    *)
(* rates in thousandths.                                                   *)
(***************************************************************************)
EXTENDS Integers, Sequences, SequencesExt, FiniteSetsExt

CONSTANTS
    StepChoices,  \* steps a profile file may hold
    Baselines,    \* names its baseline field may hold, Unnamed included
    Unnamed,      \* a name left out
    DefaultName,  \* step-1, step-2 ...
    Measured,     \* what a step can have measured
    JudgeRates,   \* what the judge can find of a step: [rate, n]
    Impaired,     \* how many impaired cohorts follow the control
    MaxSteps      \* bound on the steps of a profile

(* A step as a file may hold it, and what one can have measured: so many   *)
(* calls and turns, percentiles of n response times, rates that rest on n  *)
(* samples, and its calls one by one.                                      *)
Step == [name : STRING, kind : STRING, conc : Int, calls : Int, hold : Int]
Rate == [rate : Nat, n : Nat]
Measures ==
    [attempted : Nat, connected : Nat, n : Nat, p50 : Nat, p95 : Nat,
     turns : Nat, failed : Nat, node : Rate, wer : Rate, talk : Rate,
     timeline : Seq([failed : BOOLEAN, ttfa : Nat])]

ASSUME VerdictsAssumption ==
    /\ StepChoices \subseteq Step
    /\ Measured \subseteq Measures /\ \A m \in Measured : m.connected <= m.attempted
    /\ JudgeRates \subseteq Rate
    /\ {Impaired, MaxSteps} \subseteq Nat
    /\ DefaultName \in Seq(STRING) /\ MaxSteps <= Len(DefaultName)

VARIABLES
    profile, baseline,   \* the profile, defaults applied once it is loaded
    stage,               \* "writing", "running", "scored", "refused"
    measured,            \* what the steps of the cohort being run measured
    cohorts              \* the scored steps of every cohort, the control first

verdictVars == <<profile, baseline, stage, measured, cohorts>>

-----------------------------------------------------------------------------
(* profile.validate and validateRecovery. *)

Named(steps) ==
    [i \in DOMAIN steps |->
        [steps[i] EXCEPT !.name = IF @ = Unnamed THEN DefaultName[i] ELSE @,
                         !.calls = IF steps[i].hold = 0 /\ @ < 1 THEN steps[i].conc ELSE @]]

StepsAreSound(steps) ==
    /\ steps # <<>>
    /\ \A i, j \in DOMAIN steps : steps[i].name = steps[j].name => i = j
    /\ \A i \in DOMAIN steps : LET s == steps[i] IN
        /\ s.conc >= 1 /\ s.hold >= 0
        /\ ~(s.hold > 0 /\ s.calls > 0)
        /\ s.hold = 0 => s.calls >= s.conc

ConcurrencyOf(steps, name) ==
    LET at == {i \in DOMAIN steps : steps[i].name = name}
    IN IF at = {} THEN 0 ELSE steps[Max(at)].conc

RecoveryIsReadable(steps, base) ==
    \A i \in DOMAIN steps : steps[i].kind = "recovery" =>
        /\ steps[i].conc = ConcurrencyOf(steps, base)
        /\ \E j \in 1..(i - 1) : /\ steps[j].kind # "recovery"
                                 /\ steps[j].conc > ConcurrencyOf(steps, base)

-----------------------------------------------------------------------------
(* The verdict on speed. *)

(* math.Round(x / y * 100), for x >= 0 and y > 0. *)
Hundredths(x, y) == (200 * x + y) \div (2 * y)

(* scoreAgainst, for one step against the p95 of a baseline. *)
SpeedVerdict(m, base) ==
    IF 100 * m.connected < 97 * m.attempted THEN "fail"
    ELSE IF base <= 0 \/ m.n = 0 THEN "n/a"
    ELSE IF Hundredths(m.p95, base) > 200 THEN "fail"
    ELSE IF Hundredths(m.p95, base) > 150 THEN "warn"
    ELSE "pass"

(* The ratio stays 0 when the verdict was reached without it. *)
P95Ratio(m, base) ==
    IF 100 * m.connected < 97 * m.attempted \/ base <= 0 \/ m.n = 0
    THEN 0 ELSE Hundredths(m.p95, base)

Recovered(m, base) == P95Ratio(m, base) \in 1..120

(* backToNormal: the first call of the unbroken run of normal calls that   *)
(* finishes the step, or 0.                                                *)
BackToNormal(m, baseP50) ==
    LET normal(p) == ~p.failed /\ p.ttfa > 0 /\ 10 * p.ttfa <= 12 * baseP50
        runs == {i \in DOMAIN m.timeline :
                    \A j \in i..Len(m.timeline) : normal(m.timeline[j])}
    IN IF baseP50 <= 0 \/ runs = {} THEN 0 ELSE Min(runs)

-----------------------------------------------------------------------------
(* The verdict on quality. *)

MinSample == 30
Enough(a, b) == a.n >= MinSample /\ b.n >= MinSample
DropLevel(drop) == IF drop > 100 THEN "fail" ELSE IF drop > 50 THEN "warn" ELSE "pass"
RiseLevel(rate, base, tolerated, poor) ==
    IF rate - base <= tolerated THEN "pass" ELSE IF rate > poor THEN "fail" ELSE "warn"

Worst(levels) ==
    IF "fail" \in levels THEN "fail" ELSE IF "warn" \in levels THEN "warn" ELSE "pass"

FailedTurns(m) ==
    IF 100 * m.failed > m.turns THEN "fail"
    ELSE IF 200 * m.failed > m.turns THEN "warn" ELSE "pass"

(* qualityOf; judged is what the judge found of the two steps.  One node   *)
(* stands for the scenario's.                                              *)
QualityOf(m, base, judged, baseJudged) ==
    IF m.turns = 0 THEN "n/a"
    ELSE Worst({FailedTurns(m)}
      \cup {DropLevel(p[2].rate - p[1].rate) : p \in
              {p \in {<<m.node, base.node>>, <<judged, baseJudged>>} : Enough(p[1], p[2])}}
      \cup (IF Enough(m.wer, base.wer)
            THEN {RiseLevel(m.wer.rate, base.wer.rate, 20, 150)} ELSE {})
      \cup (IF Enough(m.talk, base.talk)
            THEN {RiseLevel(m.talk.rate, base.talk.rate, 50, 100)} ELSE {}))

-----------------------------------------------------------------------------
(* A run of the profile, and its cohorts. *)

(* No step: baselineP95, baselineP50Ms and baselineStep find none. *)
Unjudged == [rate |-> 0, n |-> 0]
Nothing == [attempted |-> 1, connected |-> 1, n |-> 0, p50 |-> 0, p95 |-> 0,
            turns |-> 0, failed |-> 0, node |-> Unjudged, wer |-> Unjudged,
            talk |-> Unjudged, timeline |-> <<>>]

(* The baseline step among what a run measured: an interrupted run may not *)
(* have come to it.                                                        *)
BaselineOf(ms) ==
    LET at == {i \in DOMAIN ms : profile[i].name = baseline}
    IN IF at = {} THEN Nothing ELSE ms[Min(at)]

(* Slip: a cohort is scored against its own baseline. *)
OwnBaseline(ms) == BaselineOf(ms)

(* compareToClean *)
ScoringBaseline(ms) == IF cohorts = <<>> THEN BaselineOf(ms)
                       ELSE BaselineOf([i \in DOMAIN cohorts[1] |-> cohorts[1][i].m])

(* score, or score and then compareToClean, and markVsClean.  Recovery's   *)
(* way back is read from the run's own baseline in either case.            *)
ScoredStep(ms, i, judged) ==
    LET base == ScoringBaseline(ms)
        m == ms[i]
        clean == IF cohorts = <<>> THEN m
                 ELSE IF i <= Len(cohorts[1]) THEN cohorts[1][i].m ELSE Nothing
        at == {j \in DOMAIN ms : profile[j].name = baseline}
        baseJudged == IF at = {} THEN Unjudged ELSE judged[Min(at)]
        recovery == profile[i].kind = "recovery"
    IN [m |-> m,
        verdict |-> SpeedVerdict(m, base.p95),
        quality |-> QualityOf(m, base, judged[i], baseJudged),
        recovered |-> recovery /\ Recovered(m, base.p95),
        back |-> IF recovery THEN BackToNormal(m, BaselineOf(ms).p50) ELSE 0,
        vsClean |-> IF clean.p95 > 0 /\ m.p95 > 0 THEN Hundredths(m.p95, clean.p95) ELSE 0]

(* Breakpoint and QualityBreakpoint: the first step that failed, or 0. *)
FirstFailed(fails) == IF fails = {} THEN 0 ELSE Min(fails)
Breakpoint(steps) == FirstFailed({i \in DOMAIN steps : steps[i].verdict = "fail"})
QualityBreakpoint(steps) == FirstFailed({i \in DOMAIN steps : steps[i].quality = "fail"})

-----------------------------------------------------------------------------
VerdictsInit ==
    /\ profile = <<>> /\ baseline = Unnamed
    /\ stage = "writing"
    /\ measured = <<>> /\ cohorts = <<>>

WriteStep(s) ==
    /\ stage = "writing" /\ Len(profile) < MaxSteps
    /\ profile' = Append(profile, s)
    /\ UNCHANGED <<baseline, stage, measured, cohorts>>

LoadProfile(name) ==
    /\ stage = "writing"
    /\ LET steps == Named(profile)
           base == IF name = Unnamed /\ steps # <<>> THEN steps[1].name ELSE name
           sound == /\ StepsAreSound(steps)
                    /\ \E i \in DOMAIN steps : steps[i].name = base
                    /\ RecoveryIsReadable(steps, base)
       IN IF sound
          THEN profile' = steps /\ baseline' = base /\ stage' = "running"
          ELSE stage' = "refused" /\ UNCHANGED <<profile, baseline>>
    /\ UNCHANGED <<measured, cohorts>>

RunStep(m) ==
    /\ stage = "running" /\ Len(measured) < Len(profile)
    /\ measured' = Append(measured, m)
    /\ UNCHANGED <<profile, baseline, stage, cohorts>>

(* Run and RunMatrix, after the last step or after the one that was        *)
(* interrupted, which is the run's last.                                   *)
EndCohort(interrupted) ==
    /\ stage = "running" /\ measured # <<>>
    /\ interrupted \/ Len(measured) = Len(profile)
    /\ LET unjudged == [i \in DOMAIN measured |-> Unjudged]
       IN cohorts' = Append(cohorts,
                [i \in DOMAIN measured |-> ScoredStep(measured, i, unjudged)])
    /\ measured' = <<>>
    /\ IF interrupted \/ Len(cohorts') > Impaired
       THEN stage' = "scored" ELSE UNCHANGED stage
    /\ UNCHANGED <<profile, baseline>>

(* judgeRun, and rejudging: task success joins the quality of the run's    *)
(* own steps, which are the control's.                                     *)
Judge(judged) ==
    /\ stage = "scored" /\ Len(cohorts) = 1
    /\ LET ms == [i \in DOMAIN cohorts[1] |-> cohorts[1][i].m]
           at == {j \in DOMAIN ms : profile[j].name = baseline}
           baseJudged == IF at = {} THEN Unjudged ELSE judged[Min(at)]
       IN cohorts' = <<[i \in DOMAIN ms |-> [cohorts[1][i] EXCEPT !.quality =
                QualityOf(ms[i], BaselineOf(ms), judged[i], baseJudged)]]>>
    /\ UNCHANGED <<profile, baseline, stage, measured>>

VerdictsNext ==
    \/ \E s \in StepChoices : WriteStep(s)
    \/ \E name \in Baselines : LoadProfile(name)
    \/ \E m \in Measured : RunStep(m)
    \/ \E interrupted \in BOOLEAN : EndCohort(interrupted)
    \/ \E judged \in [1..MaxSteps -> JudgeRates] : Judge(judged)

VerdictsSpec == VerdictsInit /\ [][VerdictsNext]_verdictVars

-----------------------------------------------------------------------------
Rank(v) == CASE v = "pass" -> 1 [] v = "warn" -> 2 [] v = "fail" -> 3 [] OTHER -> 0
ScoredSteps ==
    {x \in (DOMAIN cohorts) \X (1..MaxSteps) : x[2] \in DOMAIN cohorts[x[1]]}
StepAt(x) == cohorts[x[1]][x[2]]
Connects(m) == 100 * m.connected >= 97 * m.attempted

(* Verdicts can be set side by side, within a run and between the cohorts  *)
(* of a matrix: of two steps that connected their calls the slower one is  *)
(* never judged better, under whatever network either ran; and a report    *)
(* without a baseline, as an interrupted run leaves it, says "n/a" and     *)
(* claims no recovery.                                                     *)
VerdictsAreComparable ==
    cohorts # <<>> =>
    LET base == BaselineOf([i \in DOMAIN cohorts[1] |-> cohorts[1][i].m])
    IN \A x, y \in ScoredSteps :
        LET a == StepAt(x)
            b == StepAt(y)
        IN /\ (Connects(a.m) /\ Connects(b.m) /\ a.m.n > 0 /\ b.m.n > 0 /\ a.m.p95 <= b.m.p95)
                => Rank(a.verdict) <= Rank(b.verdict)
           /\ base.p95 = 0 => a.verdict \in {"n/a", "fail"} /\ ~a.recovered
           /\ a.verdict \in {"pass", "warn"} => a.m.n > 0 /\ Connects(a.m)

(* A recovery that is claimed is one: the step ran at the baseline's load, *)
(* after a heavier one, passes on speed, and no breakpoint lies at it.     *)
RecoveryIsEarned ==
    \A x \in ScoredSteps : StepAt(x).recovered =>
        /\ StepAt(x).verdict = "pass"
        /\ profile[x[2]].conc = ConcurrencyOf(profile, baseline)
        /\ \E j \in 1..(x[2] - 1) : profile[j].conc > profile[x[2]].conc
        /\ Breakpoint(cohorts[x[1]]) # x[2]

(* The baseline is not found wanting against itself: only failed turns and *)
(* calls that did not connect are held against it, also when the judge's   *)
(* verdicts arrive later.                                                  *)
BaselineIsItsOwnMeasure ==
    cohorts # <<>> =>
        \A i \in DOMAIN cohorts[1] : profile[i].name = baseline =>
            LET s == cohorts[1][i] IN
                /\ Connects(s.m) => s.verdict \in {"pass", "n/a"}
                /\ s.quality = (IF s.m.turns = 0 THEN "n/a" ELSE FailedTurns(s.m))

VerdictsHold == VerdictsAreComparable /\ RecoveryIsEarned /\ BaselineIsItsOwnMeasure
=============================================================================
