---------------------------- MODULE ReportProofs ----------------------------
(***************************************************************************)
(* Proofs about what is made of a load run: the verdicts on its steps, for *)
(* any profile, any number of impaired cohorts and whatever the steps      *)
(* measured; and the grading of its conversations, for any log, whatever   *)
(* was said, heard and answered, however many criteria a scenario has and  *)
(* however many calls are sampled.                                         *)
(***************************************************************************)
EXTENDS Verdicts, Grading, FiniteSetTheorems, WellFoundedInduction, SequenceTheorems, TLAPS

-----------------------------------------------------------------------------
(* The verdicts on the steps: the inductive invariant.                     *)

(* What the scoring of a step leaves.                                      *)
Verdict == {"pass", "warn", "fail", "n/a"}
Scored == [m : Measures, verdict : Verdict, quality : Verdict, recovered : BOOLEAN,
           back : Nat, vsClean : Nat]

ProfileInv ==
    /\ profile \in Seq(Step) /\ Len(profile) <= MaxSteps
    /\ stage \in {"writing", "running", "scored", "refused"}
    /\ stage \in {"running", "scored"} =>
           StepsAreSound(profile) /\ RecoveryIsReadable(profile, baseline)

CohortsInv ==
    /\ stage \in {"writing", "refused"} => measured = <<>> /\ cohorts = <<>>
    /\ measured \in Seq(Measured) /\ Len(measured) <= Len(profile)
    /\ cohorts \in Seq(Seq(Scored))
    /\ \A c \in 1..Len(cohorts) : Len(cohorts[c]) <= Len(profile)

(* The measures of a cohort's steps, and the control's baseline.           *)
MeasuresOf(c) == [i \in DOMAIN cohorts[c] |-> cohorts[c][i].m]
Control == BaselineOf(MeasuresOf(1))

(* Every verdict is the one on the step's measures against the control's   *)
(* baseline.                                                               *)
SpeedInv ==
    \A c \in 1..Len(cohorts) : \A i \in 1..Len(cohorts[c]) :
        LET s == cohorts[c][i] IN
        /\ s.verdict = SpeedVerdict(s.m, Control.p95)
        /\ s.recovered = (profile[i].kind = "recovery" /\ Recovered(s.m, Control.p95))

(* The control's baseline is held to its failed turns alone.               *)
QualityInv ==
    cohorts # <<>> =>
        \A i \in 1..Len(cohorts[1]) : profile[i].name = baseline =>
            LET s == cohorts[1][i] IN
            s.quality = (IF s.m.turns = 0 THEN "n/a" ELSE FailedTurns(s.m))

VInv == ProfileInv /\ CohortsInv /\ SpeedInv /\ QualityInv

-----------------------------------------------------------------------------
(* Numbers.                                                                *)

(* A nonempty set of natural numbers has a least element.                  *)
LEMMA LeastNat ==
    ASSUME NEW T \in SUBSET Nat, T # {}
    PROVE  Min(T) \in T /\ \A n \in T : Min(T) <= n
<1> DEFINE Before == OpToRel(<, Nat)
<1>1. IsWellFoundedOn(Before, Nat)
  BY NatLessThanWellFounded
<1>2. PICK m \in T : \A n \in T : <<n, m>> \notin Before
  <2> HIDE DEF Before
  <2>1. QED
    BY <1>1, WFMin
<1>3. \A n \in T : ~(n < m)
  BY <1>2 DEF OpToRel
<1>4. m \in T /\ \A n \in T : m <= n
  BY <1>3
<1>5. QED
  BY <1>4 DEF Min

(* What a quotient is.                                                     *)
LEMMA Quotient ==
    ASSUME NEW a \in Nat, NEW d \in Nat \ {0}
    PROVE  /\ a \div d \in Nat
           /\ d * (a \div d) <= a /\ a < d * ((a \div d) + 1)
<1>1. a \div d \in Int /\ a = d * (a \div d) + (a % d) /\ (a % d) \in 0..(d - 1)
  OBVIOUS
<1>2. QED
  BY <1>1

(* A quotient rises with what is divided.                                  *)
LEMMA QuotientsRise ==
    ASSUME NEW a \in Nat, NEW b \in Nat, a <= b, NEW d \in Nat \ {0}
    PROVE  a \div d <= b \div d
<1>1. /\ a \div d \in Nat /\ d * (a \div d) <= a
      /\ b \div d \in Nat /\ b < d * ((b \div d) + 1)
  BY Quotient
<1>2. \A p, q \in Nat : q >= p + 1 => d * q >= d * (p + 1)
  OBVIOUS
<1>3. QED
  BY <1>1, <1>2

(* The slower of two steps has the higher ratio.                           *)
LEMMA RatiosRise ==
    ASSUME NEW x \in Nat, NEW y \in Nat, x <= y, NEW base \in Nat \ {0}
    PROVE  /\ Hundredths(x, base) \in Nat /\ Hundredths(y, base) \in Nat
           /\ Hundredths(x, base) <= Hundredths(y, base)
<1>1. /\ 200 * x + base \in Nat /\ 200 * y + base \in Nat /\ 200 * x + base <= 200 * y + base
      /\ 2 * base \in Nat \ {0}
  OBVIOUS
<1>2. QED
  BY <1>1, Quotient, QuotientsRise DEF Hundredths

-----------------------------------------------------------------------------
(* Operators of the scoring.                                               *)

(* No step measured nothing, which is a measure too.                       *)
LEMMA NothingMeasured == Nothing \in Measures
<1>1. <<>> \in Seq([failed : BOOLEAN, ttfa : Nat])
  OBVIOUS
<1>2. QED
  BY <1>1 DEF Nothing, Measures, Unjudged, Rate

(* The baseline of some steps is one of them, or nothing.                  *)
LEMMA BaselineTyped ==
    ASSUME NEW ms \in Seq(Measures) PROVE BaselineOf(ms) \in Measures
<1> DEFINE at == {i \in DOMAIN ms : profile[i].name = baseline}
<1>1. at \in SUBSET Nat /\ at \subseteq DOMAIN ms
  OBVIOUS
<1>2. CASE at = {}
  BY <1>2, NothingMeasured DEF BaselineOf
<1>3. CASE at # {}
  <2>1. Min(at) \in DOMAIN ms
    BY <1>1, <1>3, LeastNat
  <2>2. BaselineOf(ms) = ms[Min(at)]
    BY <1>3 DEF BaselineOf
  <2>3. QED
    BY <2>1, <2>2
<1>4. QED
  BY <1>2, <1>3

(* Names are unique, so the step called the baseline is the baseline.      *)
LEMMA BaselineIsTheStep ==
    ASSUME StepsAreSound(profile), NEW ms, DOMAIN ms \subseteq DOMAIN profile, DOMAIN ms \subseteq Nat,
           NEW i \in DOMAIN ms, profile[i].name = baseline
    PROVE  /\ {j \in DOMAIN ms : profile[j].name = baseline} = {i}
           /\ Min({j \in DOMAIN ms : profile[j].name = baseline}) = i
           /\ BaselineOf(ms) = ms[i]
<1>1. {j \in DOMAIN ms : profile[j].name = baseline} = {i}
  BY DEF StepsAreSound
<1>2. Min({i}) = i
  BY LeastNat
<1>3. QED
  BY <1>1, <1>2 DEF BaselineOf

(* The verdict of a step against itself.                                   *)
LEMMA QualityOfItself ==
    ASSUME NEW m \in Measures, NEW judged \in Rate
    PROVE  QualityOf(m, m, judged, judged) = IF m.turns = 0 THEN "n/a" ELSE FailedTurns(m)
<1> DEFINE Pairs == {p \in {<<m.node, m.node>>, <<judged, judged>>} : Enough(p[1], p[2])}
           Drops == {DropLevel(p[2].rate - p[1].rate) : p \in Pairs}
           WordErrors == IF Enough(m.wer, m.wer)
                         THEN {RiseLevel(m.wer.rate, m.wer.rate, 20, 150)} ELSE {}
           Talks == IF Enough(m.talk, m.talk)
                    THEN {RiseLevel(m.talk.rate, m.talk.rate, 50, 100)} ELSE {}
<1>1. /\ m.node.rate \in Nat /\ judged.rate \in Nat /\ m.wer.rate \in Nat /\ m.talk.rate \in Nat
  BY DEF Measures, Rate
<1>2. \A r \in Nat : DropLevel(r - r) = "pass" /\ RiseLevel(r, r, 20, 150) = "pass"
                     /\ RiseLevel(r, r, 50, 100) = "pass"
  BY DEF DropLevel, RiseLevel
<1>3. Drops \subseteq {"pass"}
  BY <1>1, <1>2
<1>4. WordErrors \subseteq {"pass"} /\ Talks \subseteq {"pass"}
  BY <1>1, <1>2
<1>5. QualityOf(m, m, judged, judged) =
          IF m.turns = 0 THEN "n/a" ELSE Worst({FailedTurns(m)} \cup Drops \cup WordErrors \cup Talks)
  BY DEF QualityOf
<1> HIDE DEF Drops, WordErrors, Talks
<1>6. FailedTurns(m) \in {"pass", "warn", "fail"}
  BY DEF FailedTurns
<1>7. Worst({FailedTurns(m)} \cup Drops \cup WordErrors \cup Talks) = FailedTurns(m)
  BY <1>3, <1>4, <1>6 DEF Worst
<1>8. QED
  BY <1>5, <1>7

(* A recovery that counts passes.                                          *)
LEMMA RecoveredPasses ==
    ASSUME NEW m \in Measures, NEW base \in Nat, Recovered(m, base)
    PROVE  SpeedVerdict(m, base) = "pass" /\ base > 0
<1>1. P95Ratio(m, base) \in 1..120
  BY DEF Recovered
<1>2. /\ ~(100 * m.connected < 97 * m.attempted) /\ ~(base <= 0) /\ m.n # 0
      /\ Hundredths(m.p95, base) \in 1..120
  BY <1>1 DEF P95Ratio
<1>3. QED
  BY <1>2 DEF SpeedVerdict

(* What a step may be scored as.                                           *)
LEMMA ScoresTyped ==
    ASSUME NEW m \in Measures, NEW base \in Measures, NEW p50 \in Nat,
           NEW judged \in Rate, NEW baseJudged \in Rate
    PROVE  /\ SpeedVerdict(m, base.p95) \in Verdict
           /\ QualityOf(m, base, judged, baseJudged) \in Verdict
           /\ BackToNormal(m, p50) \in Nat
           /\ Recovered(m, base.p95) \in BOOLEAN
<1>1. SpeedVerdict(m, base.p95) \in Verdict
  BY DEF SpeedVerdict, Verdict
<1>2. QualityOf(m, base, judged, baseJudged) \in Verdict
  BY DEF QualityOf, Worst, Verdict
<1>3. BackToNormal(m, p50) \in Nat
  <2> DEFINE normal(p) == ~p.failed /\ p.ttfa > 0 /\ 10 * p.ttfa <= 12 * p50
             runs == {i \in DOMAIN m.timeline :
                         \A j \in i..Len(m.timeline) : normal(m.timeline[j])}
  <2>1. runs \in SUBSET Nat
    <3>1. PICK S : m.timeline \in Seq(S)
      BY DEF Measures
    <3>2. DOMAIN m.timeline \subseteq Nat
      BY <3>1
    <3>3. runs \subseteq DOMAIN m.timeline
      OBVIOUS
    <3>4. QED
      BY <3>2, <3>3, Zenon
  <2>2. BackToNormal(m, p50) = IF p50 <= 0 \/ runs = {} THEN 0 ELSE Min(runs)
    BY DEF BackToNormal
  <2> HIDE DEF runs
  <2>3. runs # {} => Min(runs) \in Nat
    BY <2>1, LeastNat
  <2>4. QED
    BY <2>2, <2>3
<1>4. Recovered(m, base.p95) \in BOOLEAN
  BY DEF Recovered
<1>5. QED
  BY <1>1, <1>2, <1>3, <1>4

-----------------------------------------------------------------------------
(* The steps of the machine.                                               *)

(* Nothing is written, measured or scored at first.                        *)
LEMMA VerdictsStart == VerdictsInit => VInv
<1> SUFFICES ASSUME VerdictsInit PROVE VInv
  OBVIOUS
<1>1. profile = <<>> /\ measured = <<>> /\ cohorts = <<>> /\ stage = "writing"
  BY DEF VerdictsInit
<1>2. Len(<<>>) = 0 /\ MaxSteps \in Nat /\ \A S : <<>> \in Seq(S)
  BY VerdictsAssumption
<1>3. ProfileInv /\ CohortsInv
  BY <1>1, <1>2 DEF ProfileInv, CohortsInv
<1>4. SpeedInv /\ QualityInv
  BY <1>1, <1>2 DEF SpeedInv, QualityInv
<1>5. QED
  BY <1>3, <1>4 DEF VInv

(* The profile is written, and accepted or refused, before anything runs.  *)
LEMMA LoadingKeeps ==
    ASSUME VInv, NEW s, NEW name, (s \in StepChoices /\ WriteStep(s)) \/ LoadProfile(name)
    PROVE  VInv'
<1>1. /\ stage = "writing" /\ measured' = <<>> /\ cohorts' = <<>>
      /\ profile \in Seq(Step) /\ Len(profile) <= MaxSteps
  BY DEF WriteStep, LoadProfile, VInv, CohortsInv, ProfileInv
<1>2. SpeedInv' /\ QualityInv'
  BY <1>1 DEF SpeedInv, QualityInv
<1>3. ASSUME profile' \in Seq(Step), Len(profile') <= MaxSteps PROVE CohortsInv'
  <2>1. Len(profile') \in Nat /\ Len(<<>>) = 0 /\ \A S : <<>> \in Seq(S)
    BY <1>3
  <2>2. QED
    BY <1>1, <2>1 DEF CohortsInv
<1>4. CASE s \in StepChoices /\ WriteStep(s)
  <2>1. /\ profile' = Append(profile, s) /\ stage' = "writing" /\ Len(profile) < MaxSteps
        /\ s \in Step /\ MaxSteps \in Nat
    BY <1>4, VerdictsAssumption DEF WriteStep
  <2>2. profile' \in Seq(Step) /\ Len(profile') <= MaxSteps
    BY <1>1, <2>1
  <2>3. QED
    BY <1>2, <1>3, <2>1, <2>2 DEF VInv, ProfileInv
<1>5. CASE LoadProfile(name)
  <2> DEFINE steps == Named(profile)
             base == IF name = Unnamed /\ steps # <<>> THEN steps[1].name ELSE name
             sound == /\ StepsAreSound(steps)
                      /\ \E i \in DOMAIN steps : steps[i].name = base
                      /\ RecoveryIsReadable(steps, base)
  <2>1. steps \in Seq(Step) /\ Len(steps) = Len(profile)
    <3>1. /\ Len(profile) \in Nat /\ DOMAIN profile = 1..Len(profile)
          /\ \A i \in 1..Len(profile) : profile[i] \in Step
          /\ MaxSteps \in Nat /\ Len(DefaultName) \in Nat
          /\ \A i \in 1..MaxSteps : DefaultName[i] \in STRING
      BY <1>1, VerdictsAssumption
    <3>2. \A t \in Step, n \in STRING, d \in Step :
             [t EXCEPT !.name = IF @ = Unnamed THEN n ELSE @,
                       !.calls = IF d.hold = 0 /\ @ < 1 THEN d.conc ELSE @] \in Step
      BY DEF Step
    <3>3. \A i \in 1..Len(profile) :
             [profile[i] EXCEPT !.name = IF @ = Unnamed THEN DefaultName[i] ELSE @,
                                !.calls = IF profile[i].hold = 0 /\ @ < 1
                                          THEN profile[i].conc ELSE @] \in Step
      <4> TAKE i \in 1..Len(profile)
      <4>1. i \in 1..MaxSteps
        BY <1>1, <3>1
      <4>2. profile[i] \in Step /\ DefaultName[i] \in STRING
        BY <3>1, <4>1
      <4>3. QED
        BY <3>2, <4>2
    <3>4. steps \in [1..Len(profile) -> Step]
      BY <3>1, <3>3 DEF Named
    <3>5. QED
      BY <3>1, <3>4
  <2> HIDE DEF steps
  <2>2. CASE sound
    <3>1. profile' = steps /\ baseline' = base /\ stage' = "running"
      BY <1>5, <2>2 DEF LoadProfile, steps
    <3>2. StepsAreSound(profile)' /\ RecoveryIsReadable(profile, baseline)'
      BY <2>2, <3>1 DEF StepsAreSound, RecoveryIsReadable, ConcurrencyOf
    <3>3. QED
      BY <1>1, <1>2, <1>3, <2>1, <3>1, <3>2 DEF VInv, ProfileInv
  <2>3. CASE ~sound
    <3>1. profile' = profile /\ stage' = "refused"
      BY <1>5, <2>3 DEF LoadProfile, steps
    <3>2. QED
      BY <1>1, <1>2, <1>3, <3>1 DEF VInv, ProfileInv
  <2>4. QED
    BY <2>2, <2>3
<1>6. QED
  BY <1>4, <1>5

(* What is kept when neither the profile nor the scored cohorts change.    *)
LEMMA ScoresStay ==
    ASSUME VInv, UNCHANGED <<profile, baseline, stage, cohorts>>,
           measured' \in Seq(Measured), Len(measured') <= Len(profile),
           stage \in {"writing", "refused"} => measured' = <<>>
    PROVE  VInv'
<1>1. ProfileInv' /\ CohortsInv'
  BY DEF VInv, ProfileInv, CohortsInv, StepsAreSound, RecoveryIsReadable, ConcurrencyOf
<1>2. Control' = Control
  BY DEF Control, MeasuresOf, BaselineOf
<1>3. SpeedInv' /\ QualityInv'
  BY <1>2 DEF VInv, SpeedInv, QualityInv
<1>4. QED
  BY <1>1, <1>3 DEF VInv

(* A step that runs adds to what was measured and scores nothing.          *)
LEMMA RunningKeeps ==
    ASSUME VInv, NEW m \in Measured, RunStep(m) PROVE VInv'
<1>1. /\ stage = "running" /\ measured' = Append(measured, m) /\ Len(measured) < Len(profile)
      /\ UNCHANGED <<profile, baseline, stage, cohorts>>
      /\ measured \in Seq(Measured) /\ profile \in Seq(Step)
  BY DEF RunStep, VInv, ProfileInv, CohortsInv
<1>2. Len(profile) \in Nat /\ Len(measured) \in Nat
  BY <1>1
<1>3. measured' \in Seq(Measured) /\ Len(measured') = Len(measured) + 1
  BY <1>1
<1>4. Len(measured') <= Len(profile)
  BY <1>1, <1>2, <1>3
<1>5. QED
  BY <1>1, <1>3, <1>4, ScoresStay

(* What the control's steps measured, and the baseline among them.         *)
LEMMA ControlTyped ==
    ASSUME cohorts \in Seq(Seq(Scored)), cohorts # <<>>
    PROVE  /\ cohorts[1] \in Seq(Scored) /\ Len(cohorts[1]) \in Nat
           /\ DOMAIN cohorts[1] = 1..Len(cohorts[1])
           /\ \A i \in 1..Len(cohorts[1]) : cohorts[1][i] \in Scored
           /\ MeasuresOf(1) \in Seq(Measures) /\ DOMAIN MeasuresOf(1) = 1..Len(cohorts[1])
           /\ Control \in Measures
<1>1. 1 \in 1..Len(cohorts) /\ Len(cohorts) \in Nat
  OBVIOUS
<1>2. cohorts[1] \in Seq(Scored)
  BY <1>1
<1>3. /\ Len(cohorts[1]) \in Nat /\ DOMAIN cohorts[1] = 1..Len(cohorts[1])
      /\ \A i \in 1..Len(cohorts[1]) : cohorts[1][i] \in Scored
  BY <1>2
<1>4. MeasuresOf(1) \in [1..Len(cohorts[1]) -> Measures]
  BY <1>3 DEF MeasuresOf, Scored
<1>5. MeasuresOf(1) \in Seq(Measures) /\ DOMAIN MeasuresOf(1) = 1..Len(cohorts[1])
  <2>1. \A n \in Nat : \A f \in [1..n -> Measures] : f \in Seq(Measures) /\ DOMAIN f = 1..n
    OBVIOUS
  <2>2. QED
    BY <1>3, <1>4, <2>1
<1>6. QED
  BY <1>2, <1>3, <1>5, BaselineTyped DEF Control

(* What a step that has run is scored as.                                  *)
LEMMA StepScored ==
    ASSUME VInv, stage = "running", NEW i \in 1..Len(measured),
           NEW judged, \A j \in 1..Len(measured) : judged[j] \in Rate
    PROVE  /\ ScoringBaseline(measured) \in Measures
           /\ ScoredStep(measured, i, judged) \in Scored
           /\ LET s == ScoredStep(measured, i, judged)
                  base == ScoringBaseline(measured) IN
              /\ s.m = measured[i]
              /\ s.verdict = SpeedVerdict(s.m, base.p95)
              /\ s.recovered = (profile[i].kind = "recovery" /\ Recovered(s.m, base.p95))
<1> DEFINE ms == measured
           base == ScoringBaseline(ms)
           m == ms[i]
           clean == IF cohorts = <<>> THEN m
                    ELSE IF i <= Len(cohorts[1]) THEN cohorts[1][i].m ELSE Nothing
           at == {j \in DOMAIN ms : profile[j].name = baseline}
           baseJudged == IF at = {} THEN Unjudged ELSE judged[Min(at)]
           recovery == profile[i].kind = "recovery"
           back == IF recovery THEN BackToNormal(m, BaselineOf(ms).p50) ELSE 0
           vsClean == IF clean.p95 > 0 /\ m.p95 > 0 THEN Hundredths(m.p95, clean.p95) ELSE 0
<1>1. ms \in Seq(Measures) /\ Len(ms) \in Nat /\ DOMAIN ms = 1..Len(ms) /\ m \in Measures
  <2>1. measured \in Seq(Measured) /\ Measured \subseteq Measures
    BY VerdictsAssumption DEF VInv, CohortsInv
  <2>2. QED
    BY <2>1
<1>2. cohorts \in Seq(Seq(Scored))
  BY DEF VInv, CohortsInv
<1>3. base \in Measures /\ BaselineOf(ms) \in Measures
  BY <1>1, <1>2, BaselineTyped, ControlTyped DEF ScoringBaseline, Control, MeasuresOf
<1>4. clean \in Measures
  <2>1. CASE cohorts = <<>>
    BY <1>1, <2>1
  <2>2. CASE cohorts # <<>>
    <3>1. CASE i <= Len(cohorts[1])
      <4>1. i \in 1..Len(cohorts[1])
        BY <1>1, <1>2, <2>2, <3>1, ControlTyped
      <4>2. QED
        BY <1>2, <2>2, <3>1, <4>1, ControlTyped DEF Scored
    <3>2. CASE ~(i <= Len(cohorts[1]))
      BY <2>2, <3>2, NothingMeasured
    <3>3. QED
      BY <3>1, <3>2
  <2>3. QED
    BY <2>1, <2>2
<1>5. baseJudged \in Rate
  <2>1. Unjudged \in Rate
    BY DEF Unjudged, Rate
  <2>2. at \in SUBSET Nat /\ at \subseteq 1..Len(measured)
    BY <1>1
  <2> HIDE DEF at
  <2>3. at # {} => Min(at) \in 1..Len(measured)
    BY <2>2, LeastNat
  <2>4. QED
    BY <2>1, <2>3
<1>6. judged[i] \in Rate
  OBVIOUS
<1>7. ScoredStep(ms, i, judged) =
          [m |-> m, verdict |-> SpeedVerdict(m, base.p95),
           quality |-> QualityOf(m, base, judged[i], baseJudged),
           recovered |-> recovery /\ Recovered(m, base.p95),
           back |-> back, vsClean |-> vsClean]
  BY DEF ScoredStep
<1>8. BaselineOf(ms).p50 \in Nat /\ m.p95 \in Nat /\ clean.p95 \in Nat
  BY <1>1, <1>3, <1>4 DEF Measures
<1> HIDE DEF base, m, clean, baseJudged, back, vsClean, recovery
<1>9. back \in Nat
  <2>1. BackToNormal(m, BaselineOf(ms).p50) \in Nat
    BY <1>1, <1>3, <1>5, <1>6, <1>8, ScoresTyped
  <2>2. CASE recovery
    BY <2>1, <2>2 DEF back
  <2>3. CASE ~recovery
    BY <2>3 DEF back
  <2>4. QED
    BY <2>2, <2>3
<1>10. vsClean \in Nat
  <2>1. CASE clean.p95 > 0 /\ m.p95 > 0
    <3>1. clean.p95 \in Nat \ {0} /\ m.p95 <= m.p95
      BY <1>8, <2>1
    <3>2. Hundredths(m.p95, clean.p95) \in Nat
      BY <1>8, <3>1, RatiosRise
    <3>3. QED
      BY <2>1, <3>2 DEF vsClean
  <2>2. CASE ~(clean.p95 > 0 /\ m.p95 > 0)
    BY <2>2 DEF vsClean
  <2>3. QED
    BY <2>1, <2>2
<1>11. /\ SpeedVerdict(m, base.p95) \in Verdict
       /\ QualityOf(m, base, judged[i], baseJudged) \in Verdict
       /\ (recovery /\ Recovered(m, base.p95)) \in BOOLEAN
  BY <1>1, <1>3, <1>5, <1>6, <1>8, ScoresTyped
<1>12. ScoredStep(ms, i, judged) \in Scored
  BY <1>1, <1>7, <1>9, <1>10, <1>11 DEF Scored
<1>13. QED
  BY <1>3, <1>7, <1>12 DEF base, m, recovery

(* A baseline step is judged by its failed turns.                          *)
LEMMA BaselineScored ==
    ASSUME VInv, stage = "running", cohorts = <<>>, NEW i \in 1..Len(measured),
           profile[i].name = baseline,
           NEW judged, \A j \in 1..Len(measured) : judged[j] \in Rate
    PROVE  LET s == ScoredStep(measured, i, judged) IN
           s.quality = (IF s.m.turns = 0 THEN "n/a" ELSE FailedTurns(s.m))
<1> DEFINE at == {j \in DOMAIN measured : profile[j].name = baseline}
           baseJudged == IF at = {} THEN Unjudged ELSE judged[Min(at)]
<1>1. /\ measured \in Seq(Measured) /\ Measured \subseteq Measures
      /\ profile \in Seq(Step) /\ Len(measured) <= Len(profile) /\ StepsAreSound(profile)
  BY VerdictsAssumption DEF VInv, CohortsInv, ProfileInv
<1>2. /\ Len(measured) \in Nat /\ Len(profile) \in Nat /\ DOMAIN measured = 1..Len(measured)
      /\ DOMAIN profile = 1..Len(profile) /\ measured[i] \in Measures
  BY <1>1
<1>3. DOMAIN measured \subseteq DOMAIN profile /\ DOMAIN measured \subseteq Nat
  BY <1>1, <1>2
<1>4. at = {i} /\ Min(at) = i /\ BaselineOf(measured) = measured[i]
  BY <1>1, <1>2, <1>3, BaselineIsTheStep
<1>5. baseJudged = judged[i] /\ ScoringBaseline(measured) = measured[i]
  BY <1>4 DEF ScoringBaseline
<1>6. /\ ScoredStep(measured, i, judged).quality
             = QualityOf(measured[i], ScoringBaseline(measured), judged[i], baseJudged)
      /\ ScoredStep(measured, i, judged).m = measured[i]
  BY DEF ScoredStep
<1>7. judged[i] \in Rate
  OBVIOUS
<1> HIDE DEF baseJudged
<1>8. QED
  BY <1>2, <1>5, <1>6, <1>7, QualityOfItself

(* A cohort that is over is scored, against the control's baseline.        *)
LEMMA ScoringKeeps ==
    ASSUME VInv, NEW interrupted, EndCohort(interrupted) PROVE VInv'
<1> DEFINE unjudged == [i \in DOMAIN measured |-> Unjudged]
           new == [i \in DOMAIN measured |-> ScoredStep(measured, i, unjudged)]
           base == ScoringBaseline(measured)
<1>1. /\ stage = "running" /\ stage' \in {"running", "scored"}
      /\ cohorts' = Append(cohorts, new) /\ measured' = <<>> /\ measured # <<>>
      /\ profile' = profile /\ baseline' = baseline
  BY DEF EndCohort
<1>2. /\ measured \in Seq(Measured) /\ profile \in Seq(Step) /\ Len(measured) <= Len(profile)
      /\ cohorts \in Seq(Seq(Scored))
      /\ \A c \in 1..Len(cohorts) : Len(cohorts[c]) <= Len(profile)
  BY DEF VInv, CohortsInv, ProfileInv
<1>3. /\ Len(measured) \in Nat /\ DOMAIN measured = 1..Len(measured)
      /\ Len(cohorts) \in Nat /\ Len(profile) \in Nat
  BY <1>2
<1>4. \A j \in 1..Len(measured) : unjudged[j] \in Rate
  BY <1>3 DEF Unjudged, Rate
<1> HIDE DEF unjudged
<1>5. ASSUME NEW i \in 1..Len(measured)
      PROVE  /\ new[i] \in Scored /\ new[i].m = measured[i]
             /\ new[i].verdict = SpeedVerdict(new[i].m, base.p95)
             /\ new[i].recovered = (profile[i].kind = "recovery" /\ Recovered(new[i].m, base.p95))
             /\ cohorts = <<>> /\ profile[i].name = baseline =>
                    new[i].quality = (IF new[i].m.turns = 0 THEN "n/a" ELSE FailedTurns(new[i].m))
  <2>1. new[i] = ScoredStep(measured, i, unjudged)
    BY <1>3
  <2> HIDE DEF new
  <2>2. /\ new[i] \in Scored /\ new[i].m = measured[i]
        /\ new[i].verdict = SpeedVerdict(new[i].m, base.p95)
        /\ new[i].recovered = (profile[i].kind = "recovery" /\ Recovered(new[i].m, base.p95))
    BY <1>1, <1>4, <2>1, StepScored
  <2>3. cohorts = <<>> /\ profile[i].name = baseline =>
            new[i].quality = (IF new[i].m.turns = 0 THEN "n/a" ELSE FailedTurns(new[i].m))
    BY <1>1, <1>4, <2>1, BaselineScored
  <2>4. QED
    BY <2>2, <2>3
<1>6. new \in Seq(Scored) /\ Len(new) = Len(measured) /\ DOMAIN new = 1..Len(measured)
  <2>1. new \in [1..Len(measured) -> Scored]
    BY <1>3, <1>5
  <2>2. \A n \in Nat : \A f \in [1..n -> Scored] : f \in Seq(Scored) /\ Len(f) = n /\ DOMAIN f = 1..n
    OBVIOUS
  <2> HIDE DEF new
  <2>3. QED
    BY <1>3, <2>1, <2>2
<1> HIDE DEF new
<1>7. /\ cohorts' \in Seq(Seq(Scored)) /\ Len(cohorts') = Len(cohorts) + 1
      /\ \A c \in 1..Len(cohorts) : cohorts'[c] = cohorts[c]
      /\ cohorts'[Len(cohorts) + 1] = new
      /\ \A c \in 1..Len(cohorts') : c \in 1..Len(cohorts) \/ c = Len(cohorts) + 1
  BY <1>1, <1>2, <1>3, <1>6
<1>8. ProfileInv' /\ CohortsInv'
  <2>1. <<>> \in Seq(Measured) /\ Len(<<>>) = 0
    OBVIOUS
  <2>2. \A c \in 1..Len(cohorts') : Len(cohorts'[c]) <= Len(profile)
    BY <1>2, <1>6, <1>7
  <2>3. CohortsInv'
    BY <1>1, <1>3, <1>7, <2>1, <2>2 DEF CohortsInv
  <2>4. QED
    BY <1>1, <2>3 DEF VInv, ProfileInv, StepsAreSound, RecoveryIsReadable, ConcurrencyOf
<1>9. Control' = base
  <2>1. \A ms : BaselineOf(ms)' = BaselineOf(ms)
    BY <1>1 DEF BaselineOf
  <2>2. CASE cohorts = <<>>
    <3>1. cohorts'[1] = new
      BY <1>7, <2>2
    <3>2. [i \in DOMAIN new |-> new[i].m] = measured
      BY <1>2, <1>3, <1>5, <1>6
    <3>3. MeasuresOf(1)' = measured
      BY <3>1, <3>2 DEF MeasuresOf
    <3>4. base = BaselineOf(measured)
      BY <2>2 DEF ScoringBaseline
    <3>5. Control' = BaselineOf(measured)
      BY <1>1, <3>3 DEF Control, BaselineOf
    <3>6. QED
      BY <3>4, <3>5
  <2>3. CASE cohorts # <<>>
    <3>1. cohorts'[1] = cohorts[1]
      <4>1. Len(cohorts) # 0
        BY <1>2, <2>3
      <4>2. 1 \in 1..Len(cohorts)
        BY <1>3, <4>1
      <4>3. QED
        BY <1>7, <4>2, Zenon
    <3>2. MeasuresOf(1)' = MeasuresOf(1)
      BY <3>1 DEF MeasuresOf
    <3>3. Control' = Control
      BY <1>1, <3>2 DEF Control, BaselineOf
    <3>4. QED
      BY <2>3, <3>3 DEF ScoringBaseline, Control, MeasuresOf
  <2>4. QED
    BY <2>2, <2>3
<1>10. SpeedInv'
  <2>1. cohorts # <<>> => base = Control
    BY DEF ScoringBaseline, Control, MeasuresOf
  <2> HIDE DEF base
  <2>2. ASSUME NEW c \in 1..Len(cohorts), NEW i \in 1..Len(cohorts[c])
        PROVE  /\ cohorts[c][i].verdict = SpeedVerdict(cohorts[c][i].m, base.p95)
               /\ cohorts[c][i].recovered
                      = (profile[i].kind = "recovery" /\ Recovered(cohorts[c][i].m, base.p95))
    <3>1. cohorts # <<>>
      BY <1>2, <1>3
    <3>2. QED
      BY <2>1, <3>1 DEF VInv, SpeedInv
  <2>3. ASSUME NEW c \in 1..Len(cohorts'), NEW i \in 1..Len(cohorts'[c])
        PROVE  /\ cohorts'[c][i].verdict = SpeedVerdict(cohorts'[c][i].m, base.p95)
               /\ cohorts'[c][i].recovered
                      = (profile[i].kind = "recovery" /\ Recovered(cohorts'[c][i].m, base.p95))
    <3>1. CASE c \in 1..Len(cohorts)
      BY <1>7, <2>2, <3>1
    <3>2. CASE c = Len(cohorts) + 1
      BY <1>5, <1>6, <1>7, <3>2
    <3>3. QED
      BY <1>7, <3>1, <3>2
  <2>4. QED
    BY <1>1, <1>9, <2>3 DEF SpeedInv
<1>11. QualityInv'
  <2>1. CASE cohorts = <<>>
    <3>1. cohorts'[1] = new
      BY <1>7, <2>1
    <3>2. QED
      BY <1>1, <1>5, <1>6, <2>1, <3>1 DEF QualityInv
  <2>2. CASE cohorts # <<>>
    <3>1. Len(cohorts) # 0
      BY <1>2, <2>2
    <3>2. 1 \in 1..Len(cohorts)
      BY <1>3, <3>1
    <3>3. cohorts'[1] = cohorts[1]
      BY <1>7, <3>2, Zenon
    <3>4. QED
      BY <1>1, <2>2, <3>3 DEF VInv, QualityInv
  <2>3. QED
    BY <2>1, <2>2
<1>12. QED
  BY <1>8, <1>10, <1>11 DEF VInv

(* The judge's verdicts join the quality of the control's steps, and leave *)
(* what is said of their speed.                                            *)
LEMMA JudgingKeeps ==
    ASSUME VInv, NEW judged \in [1..MaxSteps -> JudgeRates], Judge(judged) PROVE VInv'
<1> DEFINE ms == [i \in DOMAIN cohorts[1] |-> cohorts[1][i].m]
           at == {j \in DOMAIN ms : profile[j].name = baseline}
           baseJudged == IF at = {} THEN Unjudged ELSE judged[Min(at)]
           quality(i) == QualityOf(ms[i], BaselineOf(ms), judged[i], baseJudged)
           new == [i \in DOMAIN ms |-> [cohorts[1][i] EXCEPT !.quality = quality(i)]]
<1>1. /\ stage = "scored" /\ Len(cohorts) = 1 /\ cohorts' = <<new>>
      /\ UNCHANGED <<profile, baseline, stage, measured>>
  BY DEF Judge
<1>2. /\ cohorts \in Seq(Seq(Scored)) /\ profile \in Seq(Step) /\ Len(profile) <= MaxSteps
      /\ \A c \in 1..Len(cohorts) : Len(cohorts[c]) <= Len(profile)
      /\ StepsAreSound(profile)
  BY <1>1 DEF VInv, CohortsInv, ProfileInv
<1>3. cohorts # <<>> /\ Len(cohorts[1]) <= Len(profile)
  <2>1. Len(<<>>) # 1 /\ 1 \in 1..1
    OBVIOUS
  <2>2. cohorts # <<>>
    BY <1>1, <2>1, Zenon
  <2>3. QED
    BY <1>1, <1>2, <2>1, <2>2, Zenon
<1>4. /\ Len(cohorts[1]) \in Nat /\ DOMAIN cohorts[1] = 1..Len(cohorts[1])
      /\ \A i \in 1..Len(cohorts[1]) : cohorts[1][i] \in Scored
      /\ ms \in Seq(Measures) /\ DOMAIN ms = 1..Len(cohorts[1])
      /\ BaselineOf(ms) = Control /\ Control \in Measures
  BY <1>2, <1>3, ControlTyped DEF MeasuresOf, Control
<1>5. /\ Len(profile) \in Nat /\ DOMAIN profile = 1..Len(profile) /\ MaxSteps \in Nat
  BY <1>2, VerdictsAssumption
<1>6. \A i \in 1..Len(cohorts[1]) : judged[i] \in Rate
  <2>1. \A i \in 1..Len(cohorts[1]) : i \in 1..MaxSteps
    BY <1>2, <1>3, <1>4, <1>5
  <2>2. QED
    BY <2>1, VerdictsAssumption
<1>7. baseJudged \in Rate
  <2>1. Unjudged \in Rate
    BY DEF Unjudged, Rate
  <2>2. at \in SUBSET Nat /\ at \subseteq 1..Len(cohorts[1])
    BY <1>4
  <2> HIDE DEF at
  <2>3. at # {} => Min(at) \in 1..Len(cohorts[1])
    BY <2>2, LeastNat
  <2>4. QED
    BY <1>6, <2>1, <2>3
<1>8. ASSUME NEW i \in 1..Len(cohorts[1])
      PROVE  /\ new[i] \in Scored /\ new[i].quality = quality(i)
             /\ new[i].m = cohorts[1][i].m /\ new[i].verdict = cohorts[1][i].verdict
             /\ new[i].recovered = cohorts[1][i].recovered
  <2>1. new[i] = [cohorts[1][i] EXCEPT !.quality = quality(i)] /\ cohorts[1][i] \in Scored
    BY <1>4
  <2>2. quality(i) \in Verdict
    <3>1. ms[i] \in Measures /\ judged[i] \in Rate
      BY <1>4, <1>6
    <3>2. 0 \in Nat
      OBVIOUS
    <3> HIDE DEF baseJudged, ms
    <3>3. QED
      BY <1>4, <1>7, <3>1, <3>2, ScoresTyped
  <2>3. \A s \in Scored, q \in Verdict :
           LET t == [s EXCEPT !.quality = q] IN
           /\ t \in Scored /\ t.quality = q
           /\ t.m = s.m /\ t.verdict = s.verdict /\ t.recovered = s.recovered
    BY DEF Scored
  <2> HIDE DEF new, quality
  <2>4. QED
    BY <2>1, <2>2, <2>3
<1>9. new \in Seq(Scored) /\ Len(new) = Len(cohorts[1]) /\ DOMAIN new = 1..Len(cohorts[1])
  <2>1. new \in [1..Len(cohorts[1]) -> Scored]
    BY <1>4, <1>8
  <2>2. \A n \in Nat : \A f \in [1..n -> Scored] : f \in Seq(Scored) /\ Len(f) = n /\ DOMAIN f = 1..n
    OBVIOUS
  <2> HIDE DEF new
  <2>3. QED
    BY <1>4, <2>1, <2>2
<1>10. ASSUME NEW i \in 1..Len(cohorts[1]), profile[i].name = baseline
       PROVE  quality(i) = IF new[i].m.turns = 0 THEN "n/a" ELSE FailedTurns(new[i].m)
  <2>1. DOMAIN ms \subseteq DOMAIN profile /\ DOMAIN ms \subseteq Nat
    BY <1>3, <1>4, <1>5
  <2>2. i \in DOMAIN ms
    BY <1>4
  <2>3. at = {i} /\ Min(at) = i /\ BaselineOf(ms) = ms[i]
    <3> HIDE DEF ms
    <3>1. QED
      BY <1>2, <1>10, <2>1, <2>2, BaselineIsTheStep
  <2>4. baseJudged = judged[i]
    BY <2>3
  <2>5. ms[i] \in Measures /\ judged[i] \in Rate /\ new[i].m = ms[i]
    BY <1>4, <1>6, <1>8
  <2>6. quality(i) = QualityOf(ms[i], ms[i], judged[i], judged[i])
    BY <2>3, <2>4
  <2> HIDE DEF quality, new, ms, at, baseJudged
  <2>7. QED
    BY <2>5, <2>6, QualityOfItself
<1> HIDE DEF new, quality
<1>11. /\ cohorts' \in Seq(Seq(Scored)) /\ Len(cohorts') = 1 /\ cohorts'[1] = new
  BY <1>1, <1>9
<1>12. ProfileInv' /\ CohortsInv'
  <2>1. \A c \in 1..Len(cohorts') : Len(cohorts'[c]) <= Len(profile)
    <3>1. \A c \in 1..1 : c = 1
      OBVIOUS
    <3>2. QED
      BY <1>3, <1>9, <1>11, <3>1
  <2>2. QED
    BY <1>1, <1>11, <2>1
       DEF VInv, ProfileInv, CohortsInv, StepsAreSound, RecoveryIsReadable, ConcurrencyOf
<1>13. Control' = Control
  <2>1. [i \in DOMAIN new |-> new[i].m] = ms
    BY <1>4, <1>8, <1>9
  <2>2. MeasuresOf(1)' = MeasuresOf(1)
    BY <1>11, <2>1 DEF MeasuresOf
  <2>3. QED
    BY <1>1, <2>2 DEF Control, BaselineOf
<1>14. SpeedInv'
  <2>1. 1 \in 1..Len(cohorts)
    BY <1>1
  <2>2. \A i \in 1..Len(cohorts[1]) :
           /\ cohorts[1][i].verdict = SpeedVerdict(cohorts[1][i].m, Control.p95)
           /\ cohorts[1][i].recovered
                  = (profile[i].kind = "recovery" /\ Recovered(cohorts[1][i].m, Control.p95))
    BY <2>1 DEF VInv, SpeedInv
  <2>3. \A i \in 1..Len(new) :
           /\ new[i].verdict = SpeedVerdict(new[i].m, Control.p95)
           /\ new[i].recovered
                  = (profile[i].kind = "recovery" /\ Recovered(new[i].m, Control.p95))
    BY <1>8, <1>9, <2>2
  <2>4. \A c \in 1..Len(cohorts') : c = 1
    BY <1>11
  <2>5. QED
    BY <1>1, <1>11, <1>13, <2>3, <2>4 DEF SpeedInv
<1>15. QualityInv'
  BY <1>1, <1>8, <1>9, <1>10, <1>11 DEF QualityInv
<1>16. QED
  BY <1>12, <1>14, <1>15 DEF VInv

(* The invariant holds of every run of a profile, and of every matrix.     *)
LEMMA VerdictsInvariant == VerdictsSpec => []VInv
<1>1. VInv /\ [VerdictsNext]_verdictVars => VInv'
  <2> SUFFICES ASSUME VInv, [VerdictsNext]_verdictVars PROVE VInv'
    OBVIOUS
  <2>1. ASSUME NEW s \in StepChoices, WriteStep(s) PROVE VInv'
    BY <2>1, LoadingKeeps
  <2>2. ASSUME NEW name \in Baselines, LoadProfile(name) PROVE VInv'
    BY <2>2, LoadingKeeps
  <2>3. ASSUME NEW m \in Measured, RunStep(m) PROVE VInv'
    BY <2>3, RunningKeeps
  <2>4. ASSUME NEW interrupted \in BOOLEAN, EndCohort(interrupted) PROVE VInv'
    BY <2>4, ScoringKeeps
  <2>5. ASSUME NEW judged \in [1..MaxSteps -> JudgeRates], Judge(judged) PROVE VInv'
    BY <2>5, JudgingKeeps
  <2>6. CASE UNCHANGED verdictVars
    <3>1. /\ UNCHANGED <<profile, baseline, stage, cohorts>> /\ measured' = measured
          /\ measured \in Seq(Measured) /\ Len(measured) <= Len(profile)
          /\ stage \in {"writing", "refused"} => measured = <<>>
      BY <2>6 DEF verdictVars, VInv, CohortsInv
    <3>2. QED
      BY <3>1, ScoresStay
  <2>7. QED
    BY <2>1, <2>2, <2>3, <2>4, <2>5, <2>6 DEF VerdictsNext
<1>2. QED
  BY <1>1, VerdictsStart, PTL DEF VerdictsSpec

-----------------------------------------------------------------------------
(* What the report says.                                                   *)

(* The verdict on speed, of two steps against the same baseline.           *)
LEMMA SlowerIsNotBetter ==
    ASSUME NEW a \in Measures, NEW b \in Measures, NEW base \in Nat,
           Connects(a), Connects(b), a.n > 0, b.n > 0, a.p95 <= b.p95
    PROVE  Rank(SpeedVerdict(a, base)) <= Rank(SpeedVerdict(b, base))
<1>1. /\ a.connected \in Nat /\ a.attempted \in Nat /\ b.connected \in Nat
      /\ b.attempted \in Nat /\ a.p95 \in Nat /\ b.p95 \in Nat
      /\ ~(100 * a.connected < 97 * a.attempted) /\ ~(100 * b.connected < 97 * b.attempted)
      /\ a.n # 0 /\ b.n # 0
  <2>1. \A m \in Measures : /\ m.connected \in Nat /\ m.attempted \in Nat
                            /\ m.p95 \in Nat /\ m.n \in Nat
    BY DEF Measures
  <2>2. /\ a.connected \in Nat /\ a.attempted \in Nat /\ b.connected \in Nat
        /\ b.attempted \in Nat /\ a.p95 \in Nat /\ b.p95 \in Nat
        /\ a.n \in Nat /\ b.n \in Nat
    BY <2>1
  <2>3. 100 * a.connected >= 97 * a.attempted /\ 100 * b.connected >= 97 * b.attempted
    BY DEF Connects
  <2>4. QED
    BY <2>2, <2>3
<1>2. Rank("n/a") = 0 /\ Rank("pass") = 1 /\ Rank("warn") = 2 /\ Rank("fail") = 3
  BY DEF Rank
<1>3. CASE base <= 0
  <2>1. SpeedVerdict(a, base) = "n/a" /\ SpeedVerdict(b, base) = "n/a"
    BY <1>1, <1>3, Zenon DEF SpeedVerdict
  <2>2. QED
    BY <1>2, <2>1
<1>4. CASE ~(base <= 0)
  <2> DEFINE p == Hundredths(a.p95, base)
             q == Hundredths(b.p95, base)
  <2>1. p \in Nat /\ q \in Nat /\ p <= q
    BY <1>1, <1>4, RatiosRise
  <2>2. /\ SpeedVerdict(a, base)
              = IF p > 200 THEN "fail" ELSE IF p > 150 THEN "warn" ELSE "pass"
        /\ SpeedVerdict(b, base)
              = IF q > 200 THEN "fail" ELSE IF q > 150 THEN "warn" ELSE "pass"
    BY <1>1, <1>4 DEF SpeedVerdict
  <2> HIDE DEF p, q
  <2>3. QED
    BY <1>2, <2>1, <2>2
<1>5. QED
  BY <1>3, <1>4

(* A step is as fast as itself.                                            *)
LEMMA SpeedOfItself ==
    ASSUME NEW m \in Measures, Connects(m) PROVE SpeedVerdict(m, m.p95) \in {"pass", "n/a"}
<1>1. /\ m.p95 \in Nat /\ m.n \in Nat /\ m.connected \in Nat /\ m.attempted \in Nat
      /\ ~(100 * m.connected < 97 * m.attempted)
  BY DEF Measures, Connects
<1>2. CASE m.p95 = 0 \/ m.n = 0
  BY <1>1, <1>2 DEF SpeedVerdict
<1>3. CASE ~(m.p95 = 0 \/ m.n = 0)
  <2>1. \A p \in Nat \ {0} : Hundredths(p, p) \in Nat /\ Hundredths(p, p) <= 150
    <3> TAKE p \in Nat \ {0}
    <3>1. Hundredths(p, p) \in Nat /\ (2 * p) * Hundredths(p, p) <= 201 * p
      <4>1. 200 * p + p \in Nat /\ 2 * p \in Nat \ {0} /\ 200 * p + p = 201 * p
        OBVIOUS
      <4>2. QED
        BY <4>1, Quotient DEF Hundredths
    <3>2. \A k \in Nat : k > 150 => (2 * p) * k > 201 * p
      <4> TAKE k \in Nat
      <4> HAVE k > 150
      <4>1. PICK d \in Nat : k = 151 + d
        <5>1. k - 151 \in Nat /\ k = 151 + (k - 151)
          OBVIOUS
        <5>2. QED
          BY <5>1
      <4>2. p * d \in Nat
        OBVIOUS
      <4>3. (2 * p) * k = 302 * p + 2 * (p * d)
        BY <4>1
      <4>4. QED
        BY <4>2, <4>3
    <3>3. QED
      BY <3>1, <3>2
  <2>2. m.p95 \in Nat \ {0}
    BY <1>1, <1>3
  <2>3. SpeedVerdict(m, m.p95) = "pass"
    BY <1>1, <1>3, <2>1, <2>2 DEF SpeedVerdict
  <2>4. QED
    BY <2>3
<1>4. QED
  BY <1>2, <1>3

(* What the invariant says of a step that was scored.                      *)
LEMMA ScoredStepOf ==
    ASSUME VInv, NEW x \in ScoredSteps
    PROVE  /\ cohorts # <<>> /\ Control \in Measures
           /\ Control = BaselineOf([i \in DOMAIN cohorts[1] |-> cohorts[1][i].m])
           /\ x[2] \in 1..Len(profile) /\ x[2] \in DOMAIN cohorts[x[1]]
           /\ StepsAreSound(profile) /\ RecoveryIsReadable(profile, baseline)
           /\ DOMAIN cohorts[x[1]] \subseteq Nat
           /\ StepAt(x).m \in Measures
           /\ StepAt(x).verdict = SpeedVerdict(StepAt(x).m, Control.p95)
           /\ StepAt(x).recovered
                  = (profile[x[2]].kind = "recovery" /\ Recovered(StepAt(x).m, Control.p95))
<1>1. /\ x[1] \in DOMAIN cohorts /\ x[2] \in DOMAIN cohorts[x[1]]
  BY DEF ScoredSteps
<1>2. /\ cohorts \in Seq(Seq(Scored)) /\ profile \in Seq(Step)
      /\ \A c \in 1..Len(cohorts) : Len(cohorts[c]) <= Len(profile)
      /\ stage \in {"writing", "refused"} => cohorts = <<>>
  BY DEF VInv, CohortsInv, ProfileInv
<1>3. DOMAIN cohorts = 1..Len(cohorts) /\ cohorts[x[1]] \in Seq(Scored)
  BY <1>1, <1>2
<1>4. /\ DOMAIN cohorts[x[1]] = 1..Len(cohorts[x[1]]) /\ StepAt(x) \in Scored
      /\ Len(cohorts[x[1]]) \in Nat /\ Len(profile) \in Nat
  BY <1>1, <1>2, <1>3 DEF StepAt
<1>5. x[2] \in 1..Len(profile)
  <2>1. Len(cohorts[x[1]]) <= Len(profile)
    BY <1>1, <1>2, <1>3
  <2>2. QED
    BY <1>1, <1>4, <2>1
<1>6. cohorts # <<>>
  BY <1>1, <1>3
<1>7. stage \in {"running", "scored"} => StepsAreSound(profile) /\ RecoveryIsReadable(profile, baseline)
  BY DEF VInv, ProfileInv
<1>8. /\ StepAt(x).verdict = SpeedVerdict(StepAt(x).m, Control.p95)
      /\ StepAt(x).recovered
                  = (profile[x[2]].kind = "recovery" /\ Recovered(StepAt(x).m, Control.p95))
  BY <1>1, <1>3, <1>4 DEF VInv, SpeedInv, StepAt
<1>9. StepAt(x).m \in Measures
  BY <1>4 DEF Scored
<1>10. Control \in Measures
  BY <1>2, <1>6, ControlTyped
<1>11. Control = BaselineOf([i \in DOMAIN cohorts[1] |-> cohorts[1][i].m])
  BY DEF Control, MeasuresOf
<1>12. stage \in {"running", "scored"}
  BY <1>2, <1>6 DEF VInv, ProfileInv
<1>13. QED
  BY <1>1, <1>4, <1>5, <1>6, <1>7, <1>8, <1>9, <1>10, <1>11, <1>12

(* A recovery that counts: it passes, at the load of the baseline, after a *)
(* heavier step, and no breakpoint lies at it.                             *)
LEMMA Earned == VInv => RecoveryIsEarned
<1> SUFFICES ASSUME VInv, NEW x \in ScoredSteps, StepAt(x).recovered
             PROVE  /\ StepAt(x).verdict = "pass"
                    /\ profile[x[2]].conc = ConcurrencyOf(profile, baseline)
                    /\ \E j \in 1..(x[2] - 1) : profile[j].conc > profile[x[2]].conc
                    /\ Breakpoint(cohorts[x[1]]) # x[2]
  BY DEF RecoveryIsEarned
<1>1. /\ x[2] \in 1..Len(profile) /\ DOMAIN cohorts[x[1]] \subseteq Nat
      /\ x[2] \in DOMAIN cohorts[x[1]]
      /\ RecoveryIsReadable(profile, baseline) /\ StepAt(x).m \in Measures
      /\ StepAt(x).verdict = SpeedVerdict(StepAt(x).m, Control.p95) /\ Control \in Measures
      /\ StepAt(x).recovered
             = (profile[x[2]].kind = "recovery" /\ Recovered(StepAt(x).m, Control.p95))
  BY ScoredStepOf
<1>2. profile[x[2]].kind = "recovery" /\ Recovered(StepAt(x).m, Control.p95)
  BY <1>1
<1>3. StepAt(x).verdict = "pass"
  <2>1. Control.p95 \in Nat
    BY <1>1 DEF Measures
  <2>2. QED
    BY <1>1, <1>2, <2>1, RecoveredPasses
<1>4. /\ profile[x[2]].conc = ConcurrencyOf(profile, baseline)
      /\ \E j \in 1..(x[2] - 1) : profile[j].conc > profile[x[2]].conc
  <2>1. profile \in Seq(Step)
    BY DEF VInv, ProfileInv
  <2>2. x[2] \in DOMAIN profile
    BY <1>1, <2>1
  <2>3. QED
    BY <1>2, <1>1, <2>2 DEF RecoveryIsReadable
<1>5. Breakpoint(cohorts[x[1]]) # x[2]
  <2> DEFINE T == {i \in DOMAIN cohorts[x[1]] : cohorts[x[1]][i].verdict = "fail"}
  <2>1. T \in SUBSET Nat /\ x[2] # 0
    BY <1>1
  <2>2. x[2] \notin T
    BY <1>3 DEF StepAt
  <2>3. Breakpoint(cohorts[x[1]]) = IF T = {} THEN 0 ELSE Min(T)
    BY DEF Breakpoint, FirstFailed
  <2> HIDE DEF T
  <2>4. T # {} => Min(T) \in T
    BY <2>1, LeastNat
  <2>5. QED
    BY <2>1, <2>2, <2>3, <2>4
<1>6. QED
  BY <1>3, <1>4, <1>5

(* Verdicts against one baseline can be set side by side.                  *)
LEMMA Comparable == VInv => VerdictsAreComparable
<1> SUFFICES ASSUME VInv, cohorts # <<>>, NEW x \in ScoredSteps, NEW y \in ScoredSteps
             PROVE  LET base == BaselineOf([i \in DOMAIN cohorts[1] |-> cohorts[1][i].m])
                        a == StepAt(x)
                        b == StepAt(y)
                    IN /\ (Connects(a.m) /\ Connects(b.m) /\ a.m.n > 0 /\ b.m.n > 0
                                /\ a.m.p95 <= b.m.p95)
                             => Rank(a.verdict) <= Rank(b.verdict)
                       /\ base.p95 = 0 => a.verdict \in {"n/a", "fail"} /\ ~a.recovered
                       /\ a.verdict \in {"pass", "warn"} => a.m.n > 0 /\ Connects(a.m)
  BY DEF VerdictsAreComparable
<1> DEFINE a == StepAt(x)
           b == StepAt(y)
           base == Control.p95
<1>1. /\ a.m \in Measures /\ a.verdict = SpeedVerdict(a.m, base)
      /\ a.recovered = (profile[x[2]].kind = "recovery" /\ Recovered(a.m, base))
      /\ b.m \in Measures /\ b.verdict = SpeedVerdict(b.m, base)
      /\ Control = BaselineOf([i \in DOMAIN cohorts[1] |-> cohorts[1][i].m])
      /\ Control \in Measures
  BY ScoredStepOf
<1>2. base \in Nat
  BY <1>1 DEF Measures
<1>3. /\ a.m.n \in Nat /\ a.m.connected \in Nat /\ a.m.attempted \in Nat
  BY <1>1 DEF Measures
<1> HIDE DEF a, b, base
<1>4. (Connects(a.m) /\ Connects(b.m) /\ a.m.n > 0 /\ b.m.n > 0 /\ a.m.p95 <= b.m.p95)
          => Rank(a.verdict) <= Rank(b.verdict)
  BY <1>1, <1>2, SlowerIsNotBetter
<1>5. base = 0 => a.verdict \in {"n/a", "fail"} /\ ~a.recovered
  <2> SUFFICES ASSUME base = 0 PROVE a.verdict \in {"n/a", "fail"} /\ ~a.recovered
    OBVIOUS
  <2>1. base <= 0 /\ 0 \notin 1..120
    OBVIOUS
  <2>2. SpeedVerdict(a.m, base) \in {"n/a", "fail"}
    BY <2>1, Zenon DEF SpeedVerdict
  <2>3. P95Ratio(a.m, base) = 0
    BY <2>1, Zenon DEF P95Ratio
  <2>4. ~Recovered(a.m, base)
    BY <2>1, <2>3 DEF Recovered
  <2>5. QED
    BY <1>1, <2>2, <2>4
<1>6. a.verdict \in {"pass", "warn"} => a.m.n > 0 /\ Connects(a.m)
  BY <1>1, <1>3 DEF SpeedVerdict, Connects
<1>7. QED
  BY <1>1, <1>4, <1>5, <1>6 DEF a, b, base

(* The baseline of the control is measured against itself.                 *)
LEMMA OwnMeasure == VInv => BaselineIsItsOwnMeasure
<1> SUFFICES ASSUME VInv, cohorts # <<>>, NEW i \in DOMAIN cohorts[1], profile[i].name = baseline
             PROVE  LET s == cohorts[1][i] IN
                    /\ Connects(s.m) => s.verdict \in {"pass", "n/a"}
                    /\ s.quality = (IF s.m.turns = 0 THEN "n/a" ELSE FailedTurns(s.m))
  BY Zenon DEF BaselineIsItsOwnMeasure
<1>1. /\ cohorts \in Seq(Seq(Scored)) /\ profile \in Seq(Step)
      /\ \A c \in 1..Len(cohorts) : Len(cohorts[c]) <= Len(profile)
      /\ stage \in {"writing", "refused"} => cohorts = <<>>
      /\ stage \in {"writing", "running", "scored", "refused"}
  BY DEF VInv, CohortsInv, ProfileInv
<1>2. StepsAreSound(profile)
  BY <1>1 DEF VInv, ProfileInv
<1>3. /\ Len(cohorts[1]) \in Nat /\ DOMAIN cohorts[1] = 1..Len(cohorts[1])
      /\ DOMAIN MeasuresOf(1) = 1..Len(cohorts[1]) /\ cohorts[1][i] \in Scored
  BY <1>1, ControlTyped
<1>4. 1 \in 1..Len(cohorts)
  <2>1. Len(cohorts) \in Nat /\ Len(cohorts) # 0
    BY <1>1
  <2>2. QED
    BY <2>1
<1>5. DOMAIN MeasuresOf(1) \subseteq DOMAIN profile /\ DOMAIN MeasuresOf(1) \subseteq Nat
  <2>1. Len(cohorts[1]) <= Len(profile)
    BY <1>1, <1>4
  <2>2. DOMAIN profile = 1..Len(profile) /\ Len(profile) \in Nat
    BY <1>1
  <2>3. QED
    BY <1>3, <2>1, <2>2
<1>6. Control = cohorts[1][i].m
  <2>1. i \in DOMAIN MeasuresOf(1) /\ MeasuresOf(1)[i] = cohorts[1][i].m
    BY <1>3 DEF MeasuresOf
  <2>2. BaselineOf(MeasuresOf(1)) = MeasuresOf(1)[i]
    BY <1>2, <1>5, <2>1, BaselineIsTheStep
  <2>3. QED
    BY <2>1, <2>2 DEF Control
<1>7. cohorts[1][i].verdict = SpeedVerdict(cohorts[1][i].m, cohorts[1][i].m.p95)
  BY <1>3, <1>4, <1>6 DEF VInv, SpeedInv
<1>8. cohorts[1][i].m \in Measures
  BY <1>3 DEF Scored
<1>9. Connects(cohorts[1][i].m) => cohorts[1][i].verdict \in {"pass", "n/a"}
  BY <1>7, <1>8, SpeedOfItself
<1>10. cohorts[1][i].quality
         = (IF cohorts[1][i].m.turns = 0 THEN "n/a" ELSE FailedTurns(cohorts[1][i].m))
  BY <1>3 DEF VInv, QualityInv
<1>11. QED
  BY <1>9, <1>10

(* A report can be read as it stands: verdicts on speed, whichever cohort  *)
(* they are of, are comparable with each other, a recovery that is claimed *)
(* was one, and the baseline is held to nothing but itself (score,         *)
(* compareToClean, judgeRun), for every profile, every number of cohorts   *)
(* and whatever was measured.                                              *)
THEOREM ReportsHold == VerdictsSpec => []VerdictsHold
<1>1. VInv => VerdictsHold
  BY Comparable, Earned, OwnMeasure DEF VerdictsHold
<1>2. QED
  BY <1>1, VerdictsInvariant, PTL

-----------------------------------------------------------------------------
(* Tables that are filled cell by cell, each cell from the ones before it. *)

Depth(c) == c[1] + c[2]

(* What a cell has when those before it have it, every cell has.           *)
LEMMA CellInduction ==
    ASSUME NEW C, \A c \in C : Depth(c) \in Nat, NEW G,
           \A c \in C : (\A b \in C : Depth(b) < Depth(c) => b \in G) => c \in G
    PROVE  C \subseteq G
<1> DEFINE T == {Depth(c) : c \in C \ G}
<1> SUFFICES ASSUME T # {} PROVE FALSE
  OBVIOUS
<1>1. T \in SUBSET Nat
  OBVIOUS
<1>2. Min(T) \in T /\ \A n \in T : Min(T) <= n
  <2> HIDE DEF T
  <2>1. QED
    BY <1>1, LeastNat
<1>3. PICK c \in C \ G : Min(T) = Depth(c)
  BY <1>2
<1>4. \A b \in C : Depth(b) < Depth(c) => b \in G
  <2> SUFFICES ASSUME NEW b \in C \ G, Depth(b) < Depth(c) PROVE FALSE
    OBVIOUS
  <2>1. Depth(c) <= Depth(b)
    BY <1>2, <1>3
  <2>2. Depth(c) \in Nat /\ Depth(b) \in Nat
    OBVIOUS
  <2>3. QED
    BY <2>1, <2>2
<1>5. QED
  BY <1>3, <1>4

(* A table has cells to a depth of n.                                      *)
Reaches(C, n) == \A c \in C : Depth(c) \in 0..n

(* H works a cell out from the cells before it and from nothing else.      *)
LooksBack(C, V, H) ==
    \A c \in C : \A f, g \in [C -> V] :
        (\A b \in C : Depth(b) < Depth(c) => f[b] = g[b]) => H[c][f] = H[c][g]

Solved(C, V, H) == \E f \in [C -> V] : \A c \in C : f[c] = H[c][f]

(* There is a table each of whose cells is worked out from the others by   *)
(* H, if H looks only at the cells before.                                 *)
LEMMA CellRecursion ==
    ASSUME NEW C, NEW n \in Nat, Reaches(C, n),
           NEW V, V # {}, NEW H \in [C -> [[C -> V] -> V]], LooksBack(C, V, H)
    PROVE  Solved(C, V, H)
<1> DEFINE Filled(k) == {f \in [C -> V] : \A c \in C : Depth(c) < k => f[c] = H[c][f]}
           Bad == {k \in Nat : Filled(k) = {}}
<1> PICK none \in V : TRUE
  OBVIOUS
<1> USE DEF Reaches
<1>1. Bad = {}
  <2> SUFFICES ASSUME Bad # {} PROVE FALSE
    OBVIOUS
  <2>1. PICK k \in Bad : \A l \in Bad : k <= l
    <3>1. Bad \in SUBSET Nat
      OBVIOUS
    <3> HIDE DEF Bad
    <3>2. QED
      BY <3>1, LeastNat
  <2>2. k # 0
    <3>1. [c \in C |-> none] \in Filled(0)
      OBVIOUS
    <3>2. QED
      BY <3>1
  <2>3. k - 1 \in Nat /\ k - 1 \notin Bad
    BY <2>1, <2>2
  <2>4. PICK f \in [C -> V] : \A c \in C : Depth(c) < k - 1 => f[c] = H[c][f]
    BY <2>3
  <2> DEFINE g == [c \in C |-> IF Depth(c) = k - 1 THEN H[c][f] ELSE f[c]]
  <2>5. g \in [C -> V]
    OBVIOUS
  <2>6. ASSUME NEW c \in C, Depth(c) < k PROVE g[c] = H[c][g]
    <3>1. Depth(c) \in Nat /\ k \in Nat
      OBVIOUS
    <3>2. \A b \in C : Depth(b) < Depth(c) => g[b] = f[b]
      <4> TAKE b \in C
      <4> HAVE Depth(b) < Depth(c)
      <4>1. Depth(b) \in Nat
        OBVIOUS
      <4>2. Depth(b) # k - 1
        BY <2>6, <3>1, <4>1
      <4>3. QED
        BY <4>2
    <3>3. H[c][g] = H[c][f]
      <4> HIDE DEF g
      <4>1. \A h, e \in [C -> V] :
              (\A b \in C : Depth(b) < Depth(c) => h[b] = e[b]) => H[c][h] = H[c][e]
        BY Zenon DEF LooksBack
      <4>2. QED
        BY <2>5, <3>2, <4>1, Zenon
    <3>4. CASE Depth(c) = k - 1
      BY <3>3, <3>4
    <3>5. CASE Depth(c) # k - 1
      <4>1. Depth(c) < k - 1
        <5>1. \A d \in Nat : d < k /\ d # k - 1 => d < k - 1
          BY <3>1
        <5>2. QED
          BY <2>6, <3>1, <3>5, <5>1, Zenon
      <4>2. g[c] = f[c]
        BY <3>5
      <4>3. f[c] = H[c][f]
        BY <2>4, <4>1
      <4>4. QED
        BY <3>3, <4>2, <4>3
    <3>6. QED
      BY <3>4, <3>5
  <2>7. g \in Filled(k)
    <3> HIDE DEF g
    <3>1. QED
      BY <2>5, <2>6
  <2>8. QED
    BY <2>1, <2>7
<1>2. Filled(n + 1) # {}
  <2>1. n + 1 \in Nat
    OBVIOUS
  <2>2. QED
    BY <1>1, <2>1
<1>3. PICK f \in [C -> V] : \A c \in C : Depth(c) < n + 1 => f[c] = H[c][f]
  BY <1>2
<1>4. \A c \in C : Depth(c) < n + 1
  <2>1. \A d \in 0..n : d < n + 1
    OBVIOUS
  <2>2. QED
    BY <2>1
<1>5. QED
  BY <1>3, <1>4 DEF Solved

-----------------------------------------------------------------------------
(* The edit distance.                                                      *)

(* Two lines have lengths: all that is asked of them here.                 *)
Lines(ref, hyp) == Len(ref) \in Nat /\ Len(hyp) \in Nat

(* What Distance says of a cell, given the table.                          *)
DistanceAt(ref, hyp, c, d) ==
    IF c[1] = 0 THEN c[2] ELSE IF c[2] = 0 THEN c[1]
    ELSE IF ref[c[1]] = hyp[c[2]] THEN d[<<c[1] - 1, c[2] - 1>>]
    ELSE 1 + Min({d[<<c[1] - 1, c[2] - 1>>], d[<<c[1] - 1, c[2]>>], d[<<c[1], c[2] - 1>>]})

(* The cells a cell is worked out from come before it.                     *)
LEMMA Neighbours ==
    ASSUME NEW ref, NEW hyp, Lines(ref, hyp), NEW c \in Cells(ref, hyp)
    PROVE  /\ c[1] \in 0..Len(ref) /\ c[2] \in 0..Len(hyp) /\ c = <<c[1], c[2]>>
           /\ c[1] \in Nat /\ c[2] \in Nat
           /\ Depth(c) \in Nat /\ Depth(c) \in 0..(Len(ref) + Len(hyp))
           /\ c[1] # 0 => /\ <<c[1] - 1, c[2]>> \in Cells(ref, hyp)
                          /\ Depth(<<c[1] - 1, c[2]>>) < Depth(c)
           /\ c[2] # 0 => /\ <<c[1], c[2] - 1>> \in Cells(ref, hyp)
                          /\ Depth(<<c[1], c[2] - 1>>) < Depth(c)
           /\ c[1] # 0 /\ c[2] # 0 => /\ <<c[1] - 1, c[2] - 1>> \in Cells(ref, hyp)
                                      /\ Depth(<<c[1] - 1, c[2] - 1>>) < Depth(c)
<1>1. PICK i \in 0..Len(ref), j \in 0..Len(hyp) : c = <<i, j>>
  BY DEF Cells
<1>2. c[1] = i /\ c[2] = j
  BY <1>1
<1>3. QED
  BY <1>1, <1>2 DEF Cells, Depth, Lines

(* A cell holds a natural number if those before it do.                    *)
LEMMA DistanceTyped ==
    ASSUME NEW ref, NEW hyp, Lines(ref, hyp),
           NEW f, NEW c \in Cells(ref, hyp),
           \A b \in Cells(ref, hyp) : Depth(b) < Depth(c) => f[b] \in Nat
    PROVE  DistanceAt(ref, hyp, c, f) \in Nat
<1>1. CASE c[1] = 0 \/ c[2] = 0
  <2>1. c[1] \in Nat /\ c[2] \in Nat
    BY Neighbours
  <2>2. DistanceAt(ref, hyp, c, f) \in {c[1], c[2]}
    BY <1>1 DEF DistanceAt
  <2>3. QED
    BY <2>1, <2>2
<1>2. CASE c[1] # 0 /\ c[2] # 0
  <2> DEFINE a == f[<<c[1] - 1, c[2] - 1>>]
             u == f[<<c[1] - 1, c[2]>>]
             l == f[<<c[1], c[2] - 1>>]
  <2>1. a \in Nat /\ u \in Nat /\ l \in Nat
    BY <1>2, Neighbours
  <2>2. Min({a, u, l}) \in Nat
    <3> HIDE DEF a, u, l
    <3>1. {a, u, l} \in SUBSET Nat /\ {a, u, l} # {}
      BY <2>1
    <3>2. QED
      BY <3>1, LeastNat
  <2>3. DistanceAt(ref, hyp, c, f) = a \/ DistanceAt(ref, hyp, c, f) = 1 + Min({a, u, l})
    BY <1>2 DEF DistanceAt
  <2>4. QED
    BY <2>1, <2>2, <2>3
<1>3. QED
  BY <1>1, <1>2

(* Distance fills the table, cell by cell, with natural numbers.           *)
LEMMA DistanceFills ==
    ASSUME NEW ref, NEW hyp, Lines(ref, hyp)
    PROVE  /\ Distance(ref, hyp) \in [Cells(ref, hyp) -> Nat]
           /\ \A c \in Cells(ref, hyp) :
                  Distance(ref, hyp)[c] = DistanceAt(ref, hyp, c, Distance(ref, hyp))
<1> DEFINE C == Cells(ref, hyp)
           n == Len(ref) + Len(hyp)
           H == [c \in C |-> [f \in [C -> Nat] |-> DistanceAt(ref, hyp, c, f)]]
<1>0. \A c \in C : Depth(c) \in 0..n /\ Depth(c) \in Nat
  BY Neighbours
<1>1. ASSUME NEW c \in C, NEW f \in [C -> Nat] PROVE DistanceAt(ref, hyp, c, f) \in Nat
  BY DistanceTyped
<1>2. H \in [C -> [[C -> Nat] -> Nat]]
  BY <1>1
<1>3. ASSUME NEW c \in C, NEW f \in [C -> Nat], NEW g \in [C -> Nat],
             \A b \in C : Depth(b) < Depth(c) => f[b] = g[b]
      PROVE  H[c][f] = H[c][g]
  <2>1. H[c][f] = DistanceAt(ref, hyp, c, f) /\ H[c][g] = DistanceAt(ref, hyp, c, g)
    OBVIOUS
  <2>2. CASE c[1] = 0 \/ c[2] = 0
    BY <2>1, <2>2 DEF DistanceAt
  <2>3. CASE c[1] # 0 /\ c[2] # 0
    <3>1. /\ f[<<c[1] - 1, c[2] - 1>>] = g[<<c[1] - 1, c[2] - 1>>]
          /\ f[<<c[1] - 1, c[2]>>] = g[<<c[1] - 1, c[2]>>]
          /\ f[<<c[1], c[2] - 1>>] = g[<<c[1], c[2] - 1>>]
      BY <1>3, <2>3, Neighbours
    <3>2. QED
      BY <2>1, <3>1 DEF DistanceAt
  <2>4. QED
    BY <2>2, <2>3
<1>4. PICK f \in [C -> Nat] : \A c \in C : f[c] = H[c][f]
  <2>1. n \in Nat /\ Nat # {}
    OBVIOUS
  <2>2. LooksBack(C, Nat, H)
    <3> HIDE DEF H, C
    <3>1. QED
      BY <1>3 DEF LooksBack
  <2>3. QED
    <3>1. Reaches(C, n)
      BY <1>0 DEF Reaches
    <3> DEFINE V == Nat
    <3>2. n \in Nat /\ V # {} /\ H \in [C -> [[C -> V] -> V]] /\ LooksBack(C, V, H)
      BY <1>2, <2>1, <2>2
    <3>3. Solved(C, V, H)
      <4> HIDE DEF H, C, n, V
      <4>1. QED
        BY <3>1, <3>2, CellRecursion, Zenon
    <3>4. QED
      BY <3>3 DEF Solved
<1>5. \A c \in C : f[c] = DistanceAt(ref, hyp, c, f)
  BY <1>4
<1>6. f = [c \in C |-> DistanceAt(ref, hyp, c, f)]
  BY <1>5
<1>7. Distance(ref, hyp) = CHOOSE d : d = [c \in C |-> DistanceAt(ref, hyp, c, d)]
  BY DEF Distance, DistanceAt
<1> DEFINE D == Distance(ref, hyp)
<1>8. D = [c \in C |-> DistanceAt(ref, hyp, c, D)]
  BY <1>6, <1>7
<1>9. ASSUME NEW c \in C PROVE D[c] = DistanceAt(ref, hyp, c, D)
  BY <1>8
<1>10. \A c \in C : D[c] \in Nat
  <2> DEFINE G == {c \in C : D[c] \in Nat}
  <2>1. \A c \in C : (\A b \in C : Depth(b) < Depth(c) => b \in G) => c \in G
    BY <1>9, DistanceTyped
  <2>2. C \subseteq G
    <3> HIDE DEF G, C
    <3>1. QED
      BY <1>0, <2>1, CellInduction
  <2>3. QED
    BY <2>2
<1>11. QED
  BY <1>8, <1>9, <1>10

(* The edges of the table.                                                 *)
LEMMA DistanceEdges ==
    ASSUME NEW ref, NEW hyp, Lines(ref, hyp), NEW c \in Cells(ref, hyp)
    PROVE  /\ Distance(ref, hyp)[c] \in Nat
           /\ c[1] = 0 => Distance(ref, hyp)[c] = c[2]
           /\ c[2] = 0 => Distance(ref, hyp)[c] = c[1]
<1> DEFINE d == Distance(ref, hyp)
<1>1. d[c] = DistanceAt(ref, hyp, c, d) /\ d[c] \in Nat
  BY DistanceFills
<1>2. QED
  BY <1>1 DEF DistanceAt

(* A cell and the three it is worked out from.                             *)
LEMMA DistanceCells ==
    ASSUME NEW ref, NEW hyp, Lines(ref, hyp), NEW c \in Cells(ref, hyp),
           c[1] # 0, c[2] # 0
    PROVE  LET d == Distance(ref, hyp)
               a == d[<<c[1] - 1, c[2] - 1>>]
               u == d[<<c[1] - 1, c[2]>>]
               l == d[<<c[1], c[2] - 1>>]
           IN /\ d[c] \in Nat /\ a \in Nat /\ u \in Nat /\ l \in Nat
              /\ ref[c[1]] = hyp[c[2]] => d[c] = a
              /\ ref[c[1]] # hyp[c[2]] =>
                     /\ d[c] \in {1 + a, 1 + u, 1 + l}
                     /\ d[c] <= 1 + a /\ d[c] <= 1 + u /\ d[c] <= 1 + l
<1> DEFINE d == Distance(ref, hyp)
           a == d[<<c[1] - 1, c[2] - 1>>]
           u == d[<<c[1] - 1, c[2]>>]
           l == d[<<c[1], c[2] - 1>>]
<1>1. d[c] = DistanceAt(ref, hyp, c, d) /\ d \in [Cells(ref, hyp) -> Nat]
  BY DistanceFills
<1>2. d[c] \in Nat /\ u \in Nat /\ l \in Nat /\ a \in Nat
  <2> HIDE DEF d
  <2>1. QED
    BY <1>1, Neighbours
<1>3. ASSUME ref[c[1]] = hyp[c[2]] PROVE d[c] = a
  <2> HIDE DEF d
  <2>1. QED
    BY <1>1, <1>3 DEF DistanceAt
<1>4. ASSUME ref[c[1]] # hyp[c[2]]
      PROVE  /\ d[c] \in {1 + a, 1 + u, 1 + l}
             /\ d[c] <= 1 + a /\ d[c] <= 1 + u /\ d[c] <= 1 + l
  <2>1. d[c] = 1 + Min({a, u, l})
    <3> HIDE DEF d
    <3>1. QED
      BY <1>1, <1>4 DEF DistanceAt
  <2> HIDE DEF a, u, l
  <2>2. Min({a, u, l}) \in {a, u, l} /\ \A n \in {a, u, l} : Min({a, u, l}) <= n
    <3>1. {a, u, l} \in SUBSET Nat /\ {a, u, l} # {}
      BY <1>2
    <3>2. QED
      BY <3>1, LeastNat
  <2> HIDE DEF d
  <2>3. QED
    BY <1>2, <2>1, <2>2
<1>5. QED
  BY <1>2, <1>3, <1>4

(* Neighbouring cells differ by one at most, and a cell is never less than *)
(* the one up and to the left of it.                                       *)
NearIts(d, c) ==
    /\ c[1] # 0 => d[c] <= d[<<c[1] - 1, c[2]>>] + 1 /\ d[<<c[1] - 1, c[2]>>] <= d[c] + 1
    /\ c[2] # 0 => d[c] <= d[<<c[1], c[2] - 1>>] + 1 /\ d[<<c[1], c[2] - 1>>] <= d[c] + 1
    /\ c[1] # 0 /\ c[2] # 0 =>
           d[<<c[1] - 1, c[2] - 1>>] <= d[c] /\ d[c] <= d[<<c[1] - 1, c[2] - 1>>] + 1

(* The distances of every cell are near their neighbours'.                 *)
LEMMA DistanceIsNear ==
    ASSUME NEW ref, NEW hyp, Lines(ref, hyp)
    PROVE  \A c \in Cells(ref, hyp) : NearIts(Distance(ref, hyp), c)
<1> DEFINE C == Cells(ref, hyp)
           d == Distance(ref, hyp)
           G == {c \in C : NearIts(d, c)}
<1>1. ASSUME NEW c \in C, \A b \in C : Depth(b) < Depth(c) => b \in G PROVE c \in G
  <2> DEFINE i == c[1]
             j == c[2]
             a == d[<<i - 1, j - 1>>]
             u == d[<<i - 1, j>>]
             l == d[<<i, j - 1>>]
  <2>1. c \in C /\ i \in Nat /\ j \in Nat
    BY Neighbours
  <2>2. CASE i = 0 /\ j = 0
    BY <2>2 DEF NearIts
  <2>3. CASE i = 0 /\ j # 0
    <3>1. d[c] = j
      BY <2>3, DistanceEdges
    <3>2. <<i, j - 1>> \in C
      BY <2>3, Neighbours
    <3>3. l = j - 1
      <4> DEFINE b == <<i, j - 1>>
      <4>1. b[1] = 0 /\ b[2] = j - 1
        BY <2>3
      <4>2. d[b] = b[2]
        <5> HIDE DEF b
        <5>1. b \in C
          BY <3>2 DEF b
        <5>2. QED
          BY <4>1, <5>1, DistanceEdges
      <4>3. QED
        BY <4>1, <4>2
    <3> HIDE DEF d, C
    <3>4. NearIts(d, c)
      BY <2>1, <2>3, <3>1, <3>3 DEF NearIts
    <3>5. QED
      BY <3>4
  <2>4. CASE i # 0 /\ j = 0
    <3>1. d[c] = i
      BY <2>4, DistanceEdges
    <3>2. <<i - 1, j>> \in C
      BY <2>4, Neighbours
    <3>3. u = i - 1
      <4> DEFINE b == <<i - 1, j>>
      <4>1. b[2] = 0 /\ b[1] = i - 1
        BY <2>4
      <4>2. d[b] = b[1]
        <5> HIDE DEF b
        <5>1. b \in C
          BY <3>2 DEF b
        <5>2. QED
          BY <4>1, <5>1, DistanceEdges
      <4>3. QED
        BY <4>1, <4>2
    <3> HIDE DEF d, C
    <3>4. NearIts(d, c)
      BY <2>1, <2>4, <3>1, <3>3 DEF NearIts
    <3>5. QED
      BY <3>4
  <2>5. CASE i # 0 /\ j # 0
    <3>1. <<i - 1, j>> \in G /\ <<i, j - 1>> \in G
      BY <1>1, <2>5, Neighbours
    <3>2. u <= a + 1 /\ a <= u + 1
      BY <2>5, <3>1 DEF NearIts
    <3>3. l <= a + 1 /\ a <= l + 1
      BY <2>5, <3>1 DEF NearIts
    <3>4. d[c] \in Nat /\ a \in Nat /\ u \in Nat /\ l \in Nat
      BY <2>5, DistanceCells
    <3>5. \/ d[c] = a
          \/ /\ d[c] \in {1 + a, 1 + u, 1 + l}
             /\ d[c] <= 1 + a /\ d[c] <= 1 + u /\ d[c] <= 1 + l
      BY <2>5, DistanceCells
    <3>6. /\ d[c] <= u + 1 /\ u <= d[c] + 1 /\ d[c] <= l + 1 /\ l <= d[c] + 1
          /\ a <= d[c] /\ d[c] <= a + 1
      <4> HIDE DEF a, u, l, d
      <4>1. QED
        BY <3>2, <3>3, <3>4, <3>5
    <3>7. NearIts(d, c)
      BY <2>5, <3>6 DEF NearIts
    <3>8. QED
      BY <3>7
  <2>6. QED
    BY <2>2, <2>3, <2>4, <2>5
<1>2. \A c \in C : Depth(c) \in Nat
  BY Neighbours
<1>3. C \subseteq G
  <2> HIDE DEF C, G
  <2>1. QED
    BY <1>1, <1>2, CellInduction
<1>4. QED
  BY <1>3

-----------------------------------------------------------------------------
(* The walk back from the corner.                                          *)

Edits == [subs : Nat, dels : Nat, ins : Nat]
NoEdits == [subs |-> 0, dels |-> 0, ins |-> 0]

(* What align says of a cell, given the table of distances and its own.    *)
AlignAt(ref, hyp, c, d, back) ==
    IF c[1] = 0 /\ c[2] = 0 THEN NoEdits
    ELSE IF /\ c[1] > 0 /\ c[2] > 0 /\ ref[c[1]] = hyp[c[2]]
            /\ d[c] = d[<<c[1] - 1, c[2] - 1>>]
    THEN back[<<c[1] - 1, c[2] - 1>>]
    ELSE IF c[1] > 0 /\ c[2] > 0 /\ d[c] = d[<<c[1] - 1, c[2] - 1>>] + 1
    THEN [back[<<c[1] - 1, c[2] - 1>>] EXCEPT !.subs = @ + 1]
    ELSE IF c[1] > 0 /\ d[c] = d[<<c[1] - 1, c[2]>>] + 1
    THEN [back[<<c[1] - 1, c[2]>>] EXCEPT !.dels = @ + 1]
    ELSE [back[<<c[1], c[2] - 1>>] EXCEPT !.ins = @ + 1]

(* One step back: from the corner of an empty line nowhere, and from any   *)
(* other cell to one before it, at the cost of the edit it stands for.     *)
StepsBack(c, d, back, e) ==
    \/ c[1] = 0 /\ c[2] = 0 /\ e = NoEdits /\ d[c] = 0
    \/ /\ c[1] # 0 /\ c[2] # 0 /\ d[c] = d[<<c[1] - 1, c[2] - 1>>]
       /\ e = back[<<c[1] - 1, c[2] - 1>>]
    \/ /\ c[1] # 0 /\ c[2] # 0 /\ d[c] = d[<<c[1] - 1, c[2] - 1>>] + 1
       /\ e = [back[<<c[1] - 1, c[2] - 1>>] EXCEPT !.subs = @ + 1]
    \/ /\ c[1] # 0 /\ d[c] = d[<<c[1] - 1, c[2]>>] + 1
       /\ e = [back[<<c[1] - 1, c[2]>>] EXCEPT !.dels = @ + 1]
    \/ /\ c[2] # 0 /\ d[c] = d[<<c[1], c[2] - 1>>] + 1
       /\ e = [back[<<c[1], c[2] - 1>>] EXCEPT !.ins = @ + 1]

(* align takes one of these steps at every cell.                           *)
LEMMA AlignSteps ==
    ASSUME NEW ref, NEW hyp, Lines(ref, hyp),
           NEW c \in Cells(ref, hyp), NEW back
    PROVE  LET d == Distance(ref, hyp)
           IN StepsBack(c, d, back, AlignAt(ref, hyp, c, d, back))
<1> DEFINE d == Distance(ref, hyp)
           i == c[1]
           j == c[2]
           a == d[<<i - 1, j - 1>>]
           u == d[<<i - 1, j>>]
           l == d[<<i, j - 1>>]
           e == AlignAt(ref, hyp, c, d, back)
<1> SUFFICES StepsBack(c, d, back, e)
  OBVIOUS
<1>1. i \in Nat /\ j \in Nat /\ c = <<i, j>>
  BY Neighbours
<1>2. CASE i = 0 /\ j = 0
  <2>1. d[c] = 0
    BY <1>2, DistanceEdges
  <2>2. e = NoEdits
    BY <1>2 DEF AlignAt
  <2>3. QED
    BY <1>2, <2>1, <2>2 DEF StepsBack
<1>3. CASE i # 0 /\ j = 0
  <2>1. d[c] = i
    BY <1>3, DistanceEdges
  <2>2. u = i - 1
    <3> DEFINE b == <<i - 1, j>>
    <3>1. b \in Cells(ref, hyp) /\ b[1] = i - 1 /\ b[2] = 0
      BY <1>3, Neighbours
    <3>2. d[b] = b[1]
      <4> HIDE DEF b
      <4>1. QED
        BY <3>1, DistanceEdges
    <3>3. QED
      BY <3>1, <3>2
  <2> HIDE DEF d
  <2>3. d[c] = u + 1 /\ i > 0 /\ ~(j > 0) /\ ~(i = 0 /\ j = 0)
    BY <1>1, <1>3, <2>1, <2>2
  <2>4. e = [back[<<i - 1, j>>] EXCEPT !.dels = @ + 1]
    BY <2>3 DEF AlignAt
  <2>5. QED
    BY <1>3, <2>3, <2>4, Zenon DEF StepsBack
<1>4. CASE i = 0 /\ j # 0
  <2>1. d[c] = j
    BY <1>4, DistanceEdges
  <2>2. l = j - 1
    <3> DEFINE b == <<i, j - 1>>
    <3>1. b \in Cells(ref, hyp) /\ b[1] = 0 /\ b[2] = j - 1
      BY <1>4, Neighbours
    <3>2. d[b] = b[2]
      <4> HIDE DEF b
      <4>1. QED
        BY <3>1, DistanceEdges
    <3>3. QED
      BY <3>1, <3>2
  <2> HIDE DEF d
  <2>3. d[c] = l + 1 /\ ~(i > 0) /\ ~(i = 0 /\ j = 0)
    BY <1>1, <1>4, <2>1, <2>2
  <2>4. e = [back[<<i, j - 1>>] EXCEPT !.ins = @ + 1]
    BY <2>3 DEF AlignAt
  <2>5. QED
    BY <1>4, <2>3, <2>4, Zenon DEF StepsBack
<1>5. CASE i # 0 /\ j # 0
  <2>1. i > 0 /\ j > 0 /\ ~(i = 0 /\ j = 0)
    BY <1>1, <1>5
  <2>2. /\ d[c] \in Nat /\ a \in Nat /\ u \in Nat /\ l \in Nat
        /\ ref[i] = hyp[j] => d[c] = a
        /\ ref[i] # hyp[j] => d[c] \in {1 + a, 1 + u, 1 + l}
    BY <1>5, DistanceCells
  <2>3. CASE ref[i] = hyp[j]
    <3> HIDE DEF d
    <3>1. d[c] = a
      BY <2>2, <2>3
    <3>2. e = back[<<i - 1, j - 1>>]
      BY <2>1, <2>3, <3>1 DEF AlignAt
    <3>3. QED
      BY <1>5, <3>1, <3>2, Zenon DEF StepsBack
  <2>4. CASE ref[i] # hyp[j]
    <3>1. d[c] = a + 1 \/ d[c] = u + 1 \/ d[c] = l + 1
      <4> HIDE DEF a, u, l, d
      <4>1. QED
        BY <2>2, <2>4
    <3> HIDE DEF d
    <3>2. CASE d[c] = a + 1
      <4>1. e = [back[<<i - 1, j - 1>>] EXCEPT !.subs = @ + 1]
        BY <2>1, <2>4, <3>2 DEF AlignAt
      <4>2. QED
        BY <1>5, <3>2, <4>1, Zenon DEF StepsBack
    <3>3. CASE d[c] # a + 1 /\ d[c] = u + 1
      <4>1. e = [back[<<i - 1, j>>] EXCEPT !.dels = @ + 1]
        BY <2>1, <2>4, <3>3 DEF AlignAt
      <4>2. QED
        BY <1>5, <3>3, <4>1, Zenon DEF StepsBack
    <3>4. CASE d[c] # a + 1 /\ d[c] # u + 1
      <4>1. e = [back[<<i, j - 1>>] EXCEPT !.ins = @ + 1]
        BY <2>1, <2>4, <3>4 DEF AlignAt
      <4>2. QED
        BY <1>5, <3>1, <3>4, <4>1, Zenon DEF StepsBack
    <3>5. QED
      BY <3>2, <3>3, <3>4
  <2>5. QED
    BY <2>3, <2>4
<1>6. QED
  BY <1>2, <1>3, <1>4, <1>5

(* A cell holds a record of edits if those before it do.                   *)
LEMMA AlignTyped ==
    ASSUME NEW ref, NEW hyp, Lines(ref, hyp),
           NEW f, NEW c \in Cells(ref, hyp),
           \A b \in Cells(ref, hyp) : Depth(b) < Depth(c) => f[b] \in Edits
    PROVE  AlignAt(ref, hyp, c, Distance(ref, hyp), f) \in Edits
<1> DEFINE d == Distance(ref, hyp)
           e == AlignAt(ref, hyp, c, d, f)
<1>1. StepsBack(c, d, f, e)
  BY AlignSteps
<1>2. /\ c[1] # 0 /\ c[2] # 0 => f[<<c[1] - 1, c[2] - 1>>] \in Edits
      /\ c[1] # 0 => f[<<c[1] - 1, c[2]>>] \in Edits
      /\ c[2] # 0 => f[<<c[1], c[2] - 1>>] \in Edits
  BY Neighbours
<1>3. \A x \in Edits : /\ [x EXCEPT !.subs = @ + 1] \in Edits
                        /\ [x EXCEPT !.dels = @ + 1] \in Edits
                        /\ [x EXCEPT !.ins = @ + 1] \in Edits
  BY DEF Edits
<1>4. NoEdits \in Edits
  BY DEF Edits, NoEdits
<1> HIDE DEF d, e
<1>5. e \in Edits
  BY <1>1, <1>2, <1>3, <1>4 DEF StepsBack
<1>6. QED
  BY <1>5 DEF e, d

(* The records that align finds on its way, cell by cell.                  *)
Back(ref, hyp) ==
    CHOOSE b : b = [c \in Cells(ref, hyp) |-> AlignAt(ref, hyp, c, Distance(ref, hyp), b)]

(* The walk back ends in the corner with the record of the whole lines,    *)
(* and each cell's record is one step more than a neighbour's.             *)
LEMMA AlignFills ==
    ASSUME NEW ref, NEW hyp, Lines(ref, hyp)
    PROVE  /\ Align(ref, hyp) = Back(ref, hyp)[<<Len(ref), Len(hyp)>>]
           /\ \A c \in Cells(ref, hyp) :
                  /\ Back(ref, hyp)[c] \in Edits
                  /\ StepsBack(c, Distance(ref, hyp), Back(ref, hyp), Back(ref, hyp)[c])
<1> DEFINE C == Cells(ref, hyp)
           n == Len(ref) + Len(hyp)
           d == Distance(ref, hyp)
           H == [c \in C |-> [f \in [C -> Edits] |-> AlignAt(ref, hyp, c, d, f)]]
<1>0. \A c \in C : Depth(c) \in 0..n /\ Depth(c) \in Nat
  BY Neighbours
<1>1. ASSUME NEW c \in C, NEW f \in [C -> Edits] PROVE AlignAt(ref, hyp, c, d, f) \in Edits
  BY AlignTyped
<1>2. H \in [C -> [[C -> Edits] -> Edits]]
  <2> HIDE DEF C, d
  <2>1. QED
    BY <1>1
<1>3. ASSUME NEW c \in C, NEW f \in [C -> Edits], NEW g \in [C -> Edits],
             \A b \in C : Depth(b) < Depth(c) => f[b] = g[b]
      PROVE  H[c][f] = H[c][g]
  <2>1. H[c][f] = AlignAt(ref, hyp, c, d, f) /\ H[c][g] = AlignAt(ref, hyp, c, d, g)
    OBVIOUS
  <2>2. /\ c[1] # 0 /\ c[2] # 0 => f[<<c[1] - 1, c[2] - 1>>] = g[<<c[1] - 1, c[2] - 1>>]
        /\ c[1] # 0 => f[<<c[1] - 1, c[2]>>] = g[<<c[1] - 1, c[2]>>]
        /\ c[2] # 0 => f[<<c[1], c[2] - 1>>] = g[<<c[1], c[2] - 1>>]
    BY <1>3, Neighbours
  <2>3. c[1] \in Nat /\ c[2] \in Nat
    BY Neighbours
  <2> HIDE DEF H, d
  <2>4. CASE c[1] # 0 /\ c[2] # 0
    BY <2>1, <2>2, <2>4 DEF AlignAt
  <2>5. CASE c[1] = 0 /\ c[2] # 0
    <3>1. ~(c[1] > 0)
      BY <2>5
    <3>2. QED
      BY <2>1, <2>2, <2>5, <3>1 DEF AlignAt
  <2>6. CASE c[1] # 0 /\ c[2] = 0
    <3>1. ~(c[2] > 0) /\ c[1] > 0
      BY <2>3, <2>6
    <3>2. StepsBack(c, d, f, AlignAt(ref, hyp, c, d, f))
      BY AlignSteps DEF d
    <3>3. d[c] = d[<<c[1] - 1, c[2]>>] + 1
      BY <2>6, <3>2 DEF StepsBack
    <3>4. QED
      BY <2>1, <2>2, <2>6, <3>1, <3>3 DEF AlignAt
  <2>7. CASE c[1] = 0 /\ c[2] = 0
    BY <2>1, <2>7 DEF AlignAt
  <2>8. QED
    BY <2>4, <2>5, <2>6, <2>7
<1>4. PICK f \in [C -> Edits] : \A c \in C : f[c] = H[c][f]
  <2>1. n \in Nat /\ Edits # {}
    <3>1. NoEdits \in Edits
      BY DEF NoEdits, Edits
    <3>2. QED
      BY <3>1
  <2>2. LooksBack(C, Edits, H)
    <3> HIDE DEF H, C
    <3>1. QED
      BY <1>3 DEF LooksBack
  <2>3. Reaches(C, n)
    BY <1>0 DEF Reaches
  <2>4. Solved(C, Edits, H)
    <3> HIDE DEF H, C, n
    <3>1. QED
      BY <1>2, <2>1, <2>2, <2>3, CellRecursion, Zenon
  <2>5. QED
    BY <2>4 DEF Solved
<1>5. \A c \in C : f[c] = AlignAt(ref, hyp, c, d, f)
  <2> HIDE DEF C, d
  <2>1. QED
    BY <1>4
<1>6. f = [c \in C |-> AlignAt(ref, hyp, c, d, f)]
  <2> HIDE DEF C, d
  <2>1. QED
    BY <1>5
<1> DEFINE B == Back(ref, hyp)
<1>7. B = [c \in C |-> AlignAt(ref, hyp, c, d, B)]
  <2>1. B = CHOOSE b : b = [c \in C |-> AlignAt(ref, hyp, c, d, b)]
    BY DEF Back
  <2> HIDE DEF C, d, B
  <2>2. QED
    BY <1>6, <2>1
<1>8. Align(ref, hyp) = B[<<Len(ref), Len(hyp)>>]
  BY DEF Align, AlignAt, NoEdits, Back
<1>9. ASSUME NEW c \in C PROVE B[c] = AlignAt(ref, hyp, c, d, B)
  <2> HIDE DEF C, d, B
  <2>1. QED
    BY <1>7
<1>10. \A c \in C : B[c] \in Edits
  <2> DEFINE G == {c \in C : B[c] \in Edits}
  <2>1. ASSUME NEW c \in C, \A b \in C : Depth(b) < Depth(c) => b \in G PROVE c \in G
    <3>1. \A b \in C : Depth(b) < Depth(c) => B[b] \in Edits
      BY <2>1
    <3>2. AlignAt(ref, hyp, c, d, B) \in Edits
      BY <3>1, AlignTyped
    <3>3. QED
      BY <1>9, <3>2
  <2>2. C \subseteq G
    <3> HIDE DEF G, C
    <3>1. QED
      BY <1>0, <2>1, CellInduction
  <2>3. QED
    BY <2>2
<1>11. ASSUME NEW c \in C PROVE StepsBack(c, d, B, B[c])
  <2>1. StepsBack(c, d, B, AlignAt(ref, hyp, c, d, B))
    BY AlignSteps
  <2>2. QED
    BY <1>9, <2>1
<1>12. QED
  BY <1>8, <1>10, <1>11

(* The edits of a cell come to its distance, and what is not deleted from  *)
(* one line is what was not inserted into the other.                       *)
LEMMA EditsAddUp ==
    ASSUME NEW ref, NEW hyp, Lines(ref, hyp)
    PROVE  \A c \in Cells(ref, hyp) :
              LET e == Back(ref, hyp)[c]
              IN /\ Errors(e) = Distance(ref, hyp)[c]
                 /\ c[1] - e.dels = c[2] - e.ins /\ e.subs <= c[1] - e.dels
<1> DEFINE C == Cells(ref, hyp)
           d == Distance(ref, hyp)
           B == Back(ref, hyp)
           Good(c, e) == /\ e.subs + e.dels + e.ins = d[c]
                         /\ c[1] - e.dels = c[2] - e.ins /\ e.subs <= c[1] - e.dels
           G == {c \in C : Good(c, B[c])}
<1>1. ASSUME NEW c \in C, \A b \in C : Depth(b) < Depth(c) => b \in G PROVE c \in G
  <2> DEFINE i == c[1]
             j == c[2]
             both == <<i - 1, j - 1>>
             word == <<i - 1, j>>
             extra == <<i, j - 1>>
  <2>1. i \in Nat /\ j \in Nat
    BY Neighbours
  <2>2. StepsBack(c, d, B, B[c])
    BY AlignFills
  <2>3. /\ i # 0 /\ j # 0 => both \in G
        /\ i # 0 => word \in G
        /\ j # 0 => extra \in G
    <3> HIDE DEF G
    <3>1. QED
      BY <1>1, Neighbours
  <2>4. \A b \in C : B[b] \in Edits /\ d[b] \in Nat
    BY AlignFills, DistanceFills
  <2>5. CASE i = 0 /\ j = 0 /\ B[c] = NoEdits /\ d[c] = 0
    BY <2>5 DEF NoEdits
  <2>6. CASE /\ i # 0 /\ j # 0 /\ d[c] = d[both] /\ B[c] = B[both]
    <3> DEFINE x == B[both]
    <3>1. /\ x.subs + x.dels + x.ins = d[both]
          /\ (i - 1) - x.dels = (j - 1) - x.ins /\ x.subs <= (i - 1) - x.dels
      BY <2>3, <2>6
    <3>2. both \in C
      BY <2>3, <2>6
    <3>3. x \in Edits /\ d[both] \in Nat
      BY <2>4, <3>2
    <3>4. x.subs \in Nat /\ x.dels \in Nat /\ x.ins \in Nat
      BY <3>3 DEF Edits
    <3>5. /\ B[c].subs = x.subs /\ B[c].dels = x.dels
          /\ B[c].ins = x.ins
      <4> HIDE DEF B, d, C
      <4>1. QED
        BY <2>6, <3>3 DEF Edits
    <3>6. d[c] = d[both]
      BY <2>6
    <3>7. /\ B[c].subs + B[c].dels + B[c].ins = d[c]
          /\ i - B[c].dels = j - B[c].ins /\ B[c].subs <= i - B[c].dels
      <4> HIDE DEF B, d, C, x, i, j, both, word, extra
      <4>1. i # 0 /\ j # 0
        BY <2>6
      <4>2. /\ x.subs + x.dels + x.ins = d[both]
            /\ i - x.dels = j - x.ins /\ x.subs <= i - x.dels
        <5> DEFINE s == x.subs
                   t == x.dels
                   n == x.ins
        <5>1. s \in Nat /\ t \in Nat /\ n \in Nat
          BY <3>4
        <5> DEFINE r == d[both]
        <5>2. r \in Nat /\ s + t + n = r /\ (i - 1) - t = (j - 1) - n /\ s <= (i - 1) - t
          BY <3>1, <3>3
        <5>3. /\ s + t + n = r
              /\ i - t = j - n /\ s <= i - t
          <6> HIDE DEF s, t, n, r
          <6>1. QED
            BY <2>1, <4>1, <5>1, <5>2
        <5>4. QED
          BY <5>3
      <4>3. QED
        BY <3>5, <3>6, <4>2, Zenon
    <3>8. QED
      <4> HIDE DEF B, d, C
      <4>1. QED
        BY <3>7
  <2>7. CASE /\ i # 0 /\ j # 0 /\ d[c] = d[both] + 1 /\ B[c] = [B[both] EXCEPT !.subs = @ + 1]
    <3> DEFINE x == B[both]
    <3>1. /\ x.subs + x.dels + x.ins = d[both]
          /\ (i - 1) - x.dels = (j - 1) - x.ins /\ x.subs <= (i - 1) - x.dels
      BY <2>3, <2>7
    <3>2. both \in C
      BY <2>3, <2>7
    <3>3. x \in Edits /\ d[both] \in Nat
      BY <2>4, <3>2
    <3>4. x.subs \in Nat /\ x.dels \in Nat /\ x.ins \in Nat
      BY <3>3 DEF Edits
    <3>5. /\ B[c].subs = x.subs + 1 /\ B[c].dels = x.dels
          /\ B[c].ins = x.ins
      <4> HIDE DEF B, d, C
      <4>1. QED
        BY <2>7, <3>3 DEF Edits
    <3>6. d[c] = d[both] + 1
      BY <2>7
    <3>7. /\ B[c].subs + B[c].dels + B[c].ins = d[c]
          /\ i - B[c].dels = j - B[c].ins /\ B[c].subs <= i - B[c].dels
      <4> HIDE DEF B, d, C, x, i, j, both, word, extra
      <4>1. i # 0 /\ j # 0
        BY <2>7
      <4>2. /\ (x.subs + 1) + x.dels + x.ins = d[both] + 1
            /\ i - x.dels = j - x.ins /\ (x.subs + 1) <= i - x.dels
        <5> DEFINE s == x.subs
                   t == x.dels
                   n == x.ins
        <5>1. s \in Nat /\ t \in Nat /\ n \in Nat
          BY <3>4
        <5> DEFINE r == d[both]
        <5>2. r \in Nat /\ s + t + n = r /\ (i - 1) - t = (j - 1) - n /\ s <= (i - 1) - t
          BY <3>1, <3>3
        <5>3. /\ (s + 1) + t + n = r + 1
              /\ i - t = j - n /\ (s + 1) <= i - t
          <6> HIDE DEF s, t, n, r
          <6>1. QED
            BY <2>1, <4>1, <5>1, <5>2
        <5>4. QED
          BY <5>3
      <4>3. QED
        BY <3>5, <3>6, <4>2, Zenon
    <3>8. QED
      <4> HIDE DEF B, d, C
      <4>1. QED
        BY <3>7
  <2>8. CASE /\ i # 0 /\ d[c] = d[word] + 1 /\ B[c] = [B[word] EXCEPT !.dels = @ + 1]
    <3> DEFINE x == B[word]
    <3>1. /\ x.subs + x.dels + x.ins = d[word]
          /\ (i - 1) - x.dels = (j) - x.ins /\ x.subs <= (i - 1) - x.dels
      BY <2>3, <2>8
    <3>2. word \in C
      BY <2>3, <2>8
    <3>3. x \in Edits /\ d[word] \in Nat
      BY <2>4, <3>2
    <3>4. x.subs \in Nat /\ x.dels \in Nat /\ x.ins \in Nat
      BY <3>3 DEF Edits
    <3>5. /\ B[c].subs = x.subs /\ B[c].dels = x.dels + 1
          /\ B[c].ins = x.ins
      <4> HIDE DEF B, d, C
      <4>1. QED
        BY <2>8, <3>3 DEF Edits
    <3>6. d[c] = d[word] + 1
      BY <2>8
    <3>7. /\ B[c].subs + B[c].dels + B[c].ins = d[c]
          /\ i - B[c].dels = j - B[c].ins /\ B[c].subs <= i - B[c].dels
      <4> HIDE DEF B, d, C, x, i, j, both, word, extra
      <4>1. i # 0
        BY <2>8
      <4>2. /\ x.subs + (x.dels + 1) + x.ins = d[word] + 1
            /\ i - (x.dels + 1) = j - x.ins /\ x.subs <= i - (x.dels + 1)
        <5> DEFINE s == x.subs
                   t == x.dels
                   n == x.ins
        <5>1. s \in Nat /\ t \in Nat /\ n \in Nat
          BY <3>4
        <5> DEFINE r == d[word]
        <5>2. r \in Nat /\ s + t + n = r /\ (i - 1) - t = j - n /\ s <= (i - 1) - t
          BY <3>1, <3>3
        <5>3. /\ s + (t + 1) + n = r + 1
              /\ i - (t + 1) = j - n /\ s <= i - (t + 1)
          <6> HIDE DEF s, t, n, r
          <6>1. QED
            BY <2>1, <4>1, <5>1, <5>2
        <5>4. QED
          BY <5>3
      <4>3. QED
        BY <3>5, <3>6, <4>2, Zenon
    <3>8. QED
      <4> HIDE DEF B, d, C
      <4>1. QED
        BY <3>7
  <2>9. CASE /\ j # 0 /\ d[c] = d[extra] + 1 /\ B[c] = [B[extra] EXCEPT !.ins = @ + 1]
    <3> DEFINE x == B[extra]
    <3>1. /\ x.subs + x.dels + x.ins = d[extra]
          /\ (i) - x.dels = (j - 1) - x.ins /\ x.subs <= (i) - x.dels
      BY <2>3, <2>9
    <3>2. extra \in C
      BY <2>3, <2>9
    <3>3. x \in Edits /\ d[extra] \in Nat
      BY <2>4, <3>2
    <3>4. x.subs \in Nat /\ x.dels \in Nat /\ x.ins \in Nat
      BY <3>3 DEF Edits
    <3>5. /\ B[c].subs = x.subs /\ B[c].dels = x.dels
          /\ B[c].ins = x.ins + 1
      <4> HIDE DEF B, d, C
      <4>1. QED
        BY <2>9, <3>3 DEF Edits
    <3>6. d[c] = d[extra] + 1
      BY <2>9
    <3>7. /\ B[c].subs + B[c].dels + B[c].ins = d[c]
          /\ i - B[c].dels = j - B[c].ins /\ B[c].subs <= i - B[c].dels
      <4> HIDE DEF B, d, C, x, i, j, both, word, extra
      <4>1. j # 0
        BY <2>9
      <4>2. /\ x.subs + x.dels + (x.ins + 1) = d[extra] + 1
            /\ i - x.dels = j - (x.ins + 1) /\ x.subs <= i - x.dels
        <5> DEFINE s == x.subs
                   t == x.dels
                   n == x.ins
        <5>1. s \in Nat /\ t \in Nat /\ n \in Nat
          BY <3>4
        <5> DEFINE r == d[extra]
        <5>2. r \in Nat /\ s + t + n = r /\ i - t = (j - 1) - n /\ s <= i - t
          BY <3>1, <3>3
        <5>3. /\ s + t + (n + 1) = r + 1
              /\ i - t = j - (n + 1) /\ s <= i - t
          <6> HIDE DEF s, t, n, r
          <6>1. QED
            BY <2>1, <4>1, <5>1, <5>2
        <5>4. QED
          BY <5>3
      <4>3. QED
        BY <3>5, <3>6, <4>2, Zenon
    <3>8. QED
      <4> HIDE DEF B, d, C
      <4>1. QED
        BY <3>7
  <2>10. QED
    <3> HIDE DEF G, B, d
    <3>1. QED
      BY <2>2, <2>5, <2>6, <2>7, <2>8, <2>9 DEF StepsBack
<1>2. \A c \in C : Depth(c) \in Nat
  BY Neighbours
<1>3. C \subseteq G
  <2> HIDE DEF G, C
  <2>1. QED
    BY <1>1, <1>2, CellInduction
<1>4. QED
  BY <1>3 DEF Errors

-----------------------------------------------------------------------------
(* Pairings of the words of two lines.                                     *)

Ordered(P) ==
    \A p, q \in P : p = q \/ (p[1] < q[1] /\ p[2] < q[2]) \/ (q[1] < p[1] /\ q[2] < p[2])
Pairings(n, m) == {P \in SUBSET ((1..n) \X (1..m)) : Ordered(P)}
Misheard(ref, hyp, P) == {p \in P : ref[p[1]] # hyp[p[2]]}
PairingCost(ref, hyp, n, m, P) ==
    n + m - 2 * Cardinality(P) + Cardinality(Misheard(ref, hyp, P))

(* A pairing has finitely many pairs, and so finitely many misheard words. *)
LEMMA PairingsFinite ==
    ASSUME NEW ref, NEW hyp, NEW n \in Nat, NEW m \in Nat, NEW P \in Pairings(n, m)
    PROVE  /\ IsFiniteSet(P) /\ Cardinality(P) \in Nat
           /\ IsFiniteSet(Misheard(ref, hyp, P)) /\ Cardinality(Misheard(ref, hyp, P)) \in Nat
<1>1. IsFiniteSet(1..n) /\ IsFiniteSet(1..m)
  BY FS_Interval
<1>2. IsFiniteSet((1..n) \X (1..m))
  BY <1>1, FS_Product
<1>3. IsFiniteSet(P) /\ IsFiniteSet(Misheard(ref, hyp, P))
  <2>1. P \subseteq (1..n) \X (1..m) /\ Misheard(ref, hyp, P) \subseteq P
    BY DEF Pairings, Misheard
  <2>2. QED
    BY <1>2, <2>1, FS_Subset
<1>4. QED
  BY <1>3, FS_CardinalityType

(* What a pair costs.                                                      *)
Penalty(ref, hyp, i, j) == IF ref[i] = hyp[j] THEN 0 ELSE 1

(* A pair more, at the end of both lines.                                  *)
LEMMA PairMore ==
    ASSUME NEW ref, NEW hyp, NEW i \in Nat, NEW j \in Nat, i # 0, j # 0,
           NEW P \in Pairings(i - 1, j - 1)
    PROVE  /\ P \cup {<<i, j>>} \in Pairings(i, j)
           /\ PairingCost(ref, hyp, i, j, P \cup {<<i, j>>})
                = PairingCost(ref, hyp, i - 1, j - 1, P) + Penalty(ref, hyp, i, j)
<1> DEFINE Q == P \cup {<<i, j>>}
<1>1. /\ i - 1 \in Nat /\ j - 1 \in Nat
      /\ \A p \in P : /\ p \in (1..i) \X (1..j) /\ p[1] < i /\ p[2] < j
  BY DEF Pairings
<1>2. <<i, j>> \in (1..i) \X (1..j) /\ <<i, j>>[1] = i /\ <<i, j>>[2] = j
  OBVIOUS
<1>3. Q \in Pairings(i, j)
  <2>1. Ordered(P)
    BY DEF Pairings
  <2>2. Ordered(Q)
    BY <1>1, <1>2, <2>1 DEF Ordered
  <2>3. Q \subseteq (1..i) \X (1..j)
    BY <1>1, <1>2
  <2>4. QED
    BY <2>2, <2>3 DEF Pairings
<1>4. <<i, j>> \notin P
  BY <1>1, <1>2
<1>5. Cardinality(Q) = Cardinality(P) + 1
  BY <1>1, <1>4, PairingsFinite, FS_AddElement
<1>6. Cardinality(Misheard(ref, hyp, Q))
        = Cardinality(Misheard(ref, hyp, P)) + Penalty(ref, hyp, i, j)
  <2>1. CASE ref[i] = hyp[j]
    <3>1. Misheard(ref, hyp, Q) = Misheard(ref, hyp, P)
      BY <1>2, <2>1 DEF Misheard
    <3>2. QED
      BY <1>1, <2>1, <3>1, PairingsFinite DEF Penalty
  <2>2. CASE ref[i] # hyp[j]
    <3>1. Misheard(ref, hyp, Q) = Misheard(ref, hyp, P) \cup {<<i, j>>}
      BY <1>2, <2>2 DEF Misheard
    <3>2. <<i, j>> \notin Misheard(ref, hyp, P)
      BY <1>4 DEF Misheard
    <3>3. QED
      BY <1>1, <2>2, <3>1, <3>2, PairingsFinite, FS_AddElement DEF Penalty
  <2>3. QED
    BY <2>1, <2>2
<1>7. Cardinality(P) \in Nat /\ Cardinality(Misheard(ref, hyp, P)) \in Nat
  BY <1>1, PairingsFinite
<1>8. QED
  <2> HIDE DEF Q
  <2>1. PairingCost(ref, hyp, i, j, Q)
          = PairingCost(ref, hyp, i - 1, j - 1, P) + Penalty(ref, hyp, i, j)
    <3>1. Penalty(ref, hyp, i, j) \in Nat
      BY DEF Penalty
    <3>2. \A p, q, r \in Nat : i + j - 2 * (p + 1) + (q + r) = (i - 1) + (j - 1) - 2 * p + q + r
      OBVIOUS
    <3>3. QED
      BY <1>5, <1>6, <1>7, <3>1, <3>2 DEF PairingCost
  <2>2. QED
    BY <1>3, <2>1 DEF Q

(* A word more that has no partner.                                        *)
OneLeftOut(ref, hyp, i, j) ==
    /\ i # 0 => \A P \in Pairings(i - 1, j) :
           /\ P \in Pairings(i, j)
           /\ PairingCost(ref, hyp, i, j, P) = PairingCost(ref, hyp, i - 1, j, P) + 1
    /\ j # 0 => \A P \in Pairings(i, j - 1) :
           /\ P \in Pairings(i, j)
           /\ PairingCost(ref, hyp, i, j, P) = PairingCost(ref, hyp, i, j - 1, P) + 1

(* It is one error more.                                                   *)
LEMMA PairNoMore ==
    ASSUME NEW ref, NEW hyp, NEW i \in Nat, NEW j \in Nat
    PROVE  OneLeftOut(ref, hyp, i, j)
<1>1. ASSUME i # 0, NEW P \in Pairings(i - 1, j)
      PROVE  /\ P \in Pairings(i, j)
             /\ PairingCost(ref, hyp, i, j, P) = PairingCost(ref, hyp, i - 1, j, P) + 1
  <2>1. i - 1 \in Nat
    BY <1>1
  <2>2. P \in Pairings(i, j)
    BY <1>1 DEF Pairings
  <2>3. Cardinality(P) \in Nat /\ Cardinality(Misheard(ref, hyp, P)) \in Nat
    BY <2>2, PairingsFinite
  <2>4. \A p, q \in Nat : /\ i + j - 2 * p + q = (i - 1) + j - 2 * p + q + 1
                           /\ i + j - 2 * p + q = i + (j - 1) - 2 * p + q + 1
    OBVIOUS
  <2>5. QED
    BY <2>2, <2>3, <2>4 DEF PairingCost
<1>2. ASSUME j # 0, NEW P \in Pairings(i, j - 1)
      PROVE  /\ P \in Pairings(i, j)
             /\ PairingCost(ref, hyp, i, j, P) = PairingCost(ref, hyp, i, j - 1, P) + 1
  <2>1. j - 1 \in Nat
    BY <1>2
  <2>2. P \in Pairings(i, j)
    BY <1>2 DEF Pairings
  <2>3. Cardinality(P) \in Nat /\ Cardinality(Misheard(ref, hyp, P)) \in Nat
    BY <2>2, PairingsFinite
  <2>4. \A p, q \in Nat : /\ i + j - 2 * p + q = (i - 1) + j - 2 * p + q + 1
                           /\ i + j - 2 * p + q = i + (j - 1) - 2 * p + q + 1
    OBVIOUS
  <2>5. QED
    BY <2>2, <2>3, <2>4 DEF PairingCost
<1>3. QED
  BY <1>1, <1>2 DEF OneLeftOut

(* Of the last words of two lines, the one is paired with the other or one *)
(* of them with none.                                                      *)
LEMMA PairLast ==
    ASSUME NEW i \in Nat, NEW j \in Nat, i # 0, j # 0, NEW Q \in Pairings(i, j)
    PROVE  \/ Q \in Pairings(i - 1, j)
           \/ Q \in Pairings(i, j - 1)
           \/ <<i, j>> \in Q /\ Q \ {<<i, j>>} \in Pairings(i - 1, j - 1)
<1>1. Q \subseteq (1..i) \X (1..j) /\ Ordered(Q)
  BY DEF Pairings
<1>2. \A p \in Q : p[1] \in 1..i /\ p[2] \in 1..j /\ p = <<p[1], p[2]>>
  BY <1>1
<1>3. CASE <<i, j>> \in Q
  <2>1. ASSUME NEW p \in Q \ {<<i, j>>} PROVE p \in (1..(i - 1)) \X (1..(j - 1))
    <3>1. p[1] < i /\ p[2] < j
      <4>1. \/ p[1] < i /\ p[2] < j
            \/ i < p[1] /\ j < p[2]
        BY <1>1, <1>3 DEF Ordered
      <4>2. QED
        BY <1>2, <4>1
    <3>2. QED
      BY <1>2, <3>1
  <2>2. Ordered(Q \ {<<i, j>>})
    BY <1>1 DEF Ordered
  <2>3. QED
    BY <1>3, <2>1, <2>2 DEF Pairings
<1>4. CASE <<i, j>> \notin Q
  <2>1. CASE \A p \in Q : p[1] # i
    <3>1. \A p \in Q : p \in (1..(i - 1)) \X (1..j)
      BY <1>2, <2>1
    <3>2. QED
      BY <1>1, <3>1 DEF Pairings
  <2>2. CASE \A p \in Q : p[2] # j
    <3>1. \A p \in Q : p \in (1..i) \X (1..(j - 1))
      BY <1>2, <2>2
    <3>2. QED
      BY <1>1, <3>1 DEF Pairings
  <2>3. ASSUME NEW p \in Q, NEW q \in Q, p[1] = i, q[2] = j PROVE FALSE
    <3>1. p # q
      BY <1>2, <1>4, <2>3
    <3>2. (p[1] < q[1] /\ p[2] < q[2]) \/ (q[1] < p[1] /\ q[2] < p[2])
      BY <1>1, <3>1 DEF Ordered
    <3>3. q[1] <= i /\ p[2] <= j
      BY <1>2
    <3>4. QED
      BY <1>2, <2>3, <3>2, <3>3
  <2>4. QED
    BY <2>1, <2>2, <2>3
<1>5. QED
  BY <1>3, <1>4

(* Where one of two lines is empty nothing can be paired.                  *)
LEMMA NothingToPair ==
    ASSUME NEW ref, NEW hyp, NEW i \in Nat, NEW j \in Nat, i = 0 \/ j = 0
    PROVE  /\ {} \in Pairings(i, j) /\ \A P \in Pairings(i, j) : P = {}
           /\ PairingCost(ref, hyp, i, j, {}) = i + j
<1>1. (1..i) \X (1..j) = {}
  OBVIOUS
<1>2. {} \in Pairings(i, j) /\ \A P \in Pairings(i, j) : P = {}
  BY <1>1 DEF Pairings, Ordered
<1>3. Misheard(ref, hyp, {}) = {}
  BY DEF Misheard
<1>4. Cardinality({}) = 0
  BY FS_EmptySet
<1>5. PairingCost(ref, hyp, i, j, {}) = i + j
  <2>1. i + j - 2 * 0 + 0 = i + j
    OBVIOUS
  <2>2. QED
    BY <1>3, <1>4, <2>1 DEF PairingCost
<1>6. QED
  BY <1>2, <1>5

(* No pairing costs less than the distance, and one costs no more.         *)
Cheapest(ref, hyp, c, r) ==
    /\ \A P \in Pairings(c[1], c[2]) : r <= PairingCost(ref, hyp, c[1], c[2], P)
    /\ \E P \in Pairings(c[1], c[2]) : PairingCost(ref, hyp, c[1], c[2], P) = r

(* Against an empty line nothing is paired: every word is an error.        *)
LEMMA CheapestEdge ==
    ASSUME NEW ref, NEW hyp, Lines(ref, hyp),
           NEW c \in Cells(ref, hyp), c[1] = 0 \/ c[2] = 0
    PROVE  Cheapest(ref, hyp, c, Distance(ref, hyp)[c])
<1> DEFINE i == c[1]
           j == c[2]
           r == Distance(ref, hyp)[c]
<1>1. i \in Nat /\ j \in Nat /\ (i = 0 \/ j = 0)
  BY Neighbours
<1>2. r \in Nat /\ r = i + j
  <2>1. r \in Nat /\ (i = 0 => r = j) /\ (j = 0 => r = i)
    BY DistanceEdges
  <2> HIDE DEF r, i, j
  <2>2. QED
    BY <1>1, <2>1
<1>3. Cheapest(ref, hyp, c, r)
  <2>1. /\ {} \in Pairings(i, j) /\ \A P \in Pairings(i, j) : P = {}
        /\ PairingCost(ref, hyp, i, j, {}) = i + j
    <3>1. \A h, k \in Nat : h = 0 \/ k = 0 => PairingCost(ref, hyp, h, k, {}) = h + k
      <4> TAKE h, k \in Nat
      <4>1. HAVE h = 0 \/ k = 0
      <4> HIDE DEF i, j, r
      <4>2. QED
        BY <4>1, NothingToPair
    <3>2. \A h, k \in Nat : h = 0 \/ k = 0 =>
              {} \in Pairings(h, k) /\ \A P \in Pairings(h, k) : P = {}
      BY NothingToPair, Zenon
    <3> HIDE DEF i, j
    <3>3. QED
      BY <1>1, <3>1, <3>2
  <2>2. r <= r
    <3> HIDE DEF r
    <3>1. QED
      BY <1>2
  <2> HIDE DEF r
  <2>3. QED
    BY <1>2, <2>1, <2>2 DEF Cheapest
<1>4. QED
  BY <1>3

(* A cell is the cheapest if its three neighbours are: the last words are  *)
(* paired with each other, or one of them is left out.                     *)
LEMMA CheapestInside ==
    ASSUME NEW ref, NEW hyp, Lines(ref, hyp),
           NEW c \in Cells(ref, hyp), c[1] # 0, c[2] # 0,
           \A b \in Cells(ref, hyp) :
               Depth(b) < Depth(c) => Cheapest(ref, hyp, b, Distance(ref, hyp)[b])
    PROVE  Cheapest(ref, hyp, c, Distance(ref, hyp)[c])
<1> DEFINE d == Distance(ref, hyp)
           i == c[1]
           j == c[2]
           r == d[c]
           a == d[<<i - 1, j - 1>>]
           u == d[<<i - 1, j>>]
           l == d[<<i, j - 1>>]
           Cost(h, k, P) == PairingCost(ref, hyp, h, k, P)
<1>1. /\ i \in Nat /\ j \in Nat /\ i # 0 /\ j # 0
      /\ i - 1 \in Nat /\ j - 1 \in Nat
  <2>1. i \in Nat /\ j \in Nat /\ i # 0 /\ j # 0
    BY Neighbours
  <2> HIDE DEF i, j
  <2>2. QED
    BY <2>1
<1>2. /\ \A P \in Pairings(i - 1, j - 1) : a <= Cost(i - 1, j - 1, P)
      /\ \E P \in Pairings(i - 1, j - 1) : Cost(i - 1, j - 1, P) = a
  <2> DEFINE b == <<i - 1, j - 1>>
  <2>1. b \in Cells(ref, hyp) /\ Depth(b) < Depth(c) /\ b[1] = i - 1 /\ b[2] = j - 1
    BY Neighbours
  <2>2. Cheapest(ref, hyp, b, d[b])
    BY <2>1
  <2>3. QED
    BY <2>1, <2>2 DEF Cheapest
<1>3. /\ \A P \in Pairings(i - 1, j) : u <= Cost(i - 1, j, P)
      /\ \E P \in Pairings(i - 1, j) : Cost(i - 1, j, P) = u
  <2> DEFINE b == <<i - 1, j>>
  <2>1. b \in Cells(ref, hyp) /\ Depth(b) < Depth(c) /\ b[1] = i - 1 /\ b[2] = j
    BY Neighbours
  <2>2. Cheapest(ref, hyp, b, d[b])
    BY <2>1
  <2>3. QED
    BY <2>1, <2>2 DEF Cheapest
<1>4. /\ \A P \in Pairings(i, j - 1) : l <= Cost(i, j - 1, P)
      /\ \E P \in Pairings(i, j - 1) : Cost(i, j - 1, P) = l
  <2> DEFINE b == <<i, j - 1>>
  <2>1. b \in Cells(ref, hyp) /\ Depth(b) < Depth(c) /\ b[1] = i /\ b[2] = j - 1
    BY Neighbours
  <2>2. Cheapest(ref, hyp, b, d[b])
    BY <2>1
  <2>3. QED
    BY <2>1, <2>2 DEF Cheapest
<1>5. /\ r \in Nat /\ a \in Nat /\ u \in Nat /\ l \in Nat
      /\ ref[i] = hyp[j] => r = a
      /\ ref[i] # hyp[j] => /\ r \in {1 + a, 1 + u, 1 + l}
                            /\ r <= 1 + a /\ r <= 1 + u /\ r <= 1 + l
  BY DistanceCells
<1>6. r <= u + 1 /\ r <= l + 1
  BY DistanceIsNear DEF NearIts
<1>7. /\ \A P \in Pairings(i - 1, j) :
             P \in Pairings(i, j) /\ Cost(i, j, P) = Cost(i - 1, j, P) + 1
      /\ \A P \in Pairings(i, j - 1) :
             P \in Pairings(i, j) /\ Cost(i, j, P) = Cost(i, j - 1, P) + 1
  <2> HIDE DEF i, j
  <2>1. OneLeftOut(ref, hyp, i, j)
    BY <1>1, PairNoMore
  <2>2. QED
    BY <1>1, <2>1, Zenon DEF OneLeftOut
<1>8. \A P \in Pairings(i - 1, j - 1) :
          /\ P \cup {<<i, j>>} \in Pairings(i, j)
          /\ Cost(i, j, P \cup {<<i, j>>})
               = Cost(i - 1, j - 1, P) + Penalty(ref, hyp, i, j)
  <2>1. \A h, k \in Nat : h # 0 /\ k # 0 =>
            \A P \in Pairings(h - 1, k - 1) :
                /\ P \cup {<<h, k>>} \in Pairings(h, k)
                /\ Cost(h, k, P \cup {<<h, k>>})
                     = Cost(h - 1, k - 1, P) + Penalty(ref, hyp, h, k)
    <3> SUFFICES ASSUME NEW h \in Nat, NEW k \in Nat, h # 0, k # 0,
                        NEW P \in Pairings(h - 1, k - 1)
                 PROVE  /\ P \cup {<<h, k>>} \in Pairings(h, k)
                        /\ PairingCost(ref, hyp, h, k, P \cup {<<h, k>>})
                             = PairingCost(ref, hyp, h - 1, k - 1, P)
                               + Penalty(ref, hyp, h, k)
      BY Zenon
    <3> HIDE DEF d, i, j, r, a, u, l, Cost
    <3>1. P \cup {<<h, k>>} \in Pairings(h, k)
      BY PairMore
    <3>2. PairingCost(ref, hyp, h, k, P \cup {<<h, k>>})
            = PairingCost(ref, hyp, h - 1, k - 1, P) + Penalty(ref, hyp, h, k)
      BY PairMore
    <3>3. QED
      BY <3>1, <3>2
  <2> HIDE DEF i, j, Cost
  <2>2. QED
    BY <1>1, <2>1
<1>9. \A h, k \in Nat : \A P \in Pairings(h, k) : Cost(h, k, P) \in Int
  <2>1. \A h, k, p, q \in Nat : h + k - 2 * p + q \in Int
    OBVIOUS
  <2>2. QED
    BY <2>1, PairingsFinite DEF PairingCost
<1> HIDE DEF d, i, j, r, a, u, l, Cost
<1>10. ASSUME NEW P \in Pairings(i, j) PROVE r <= Cost(i, j, P)
  <2>1. CASE P \in Pairings(i - 1, j)
    <3>1. u <= Cost(i - 1, j, P) /\ Cost(i, j, P) = Cost(i - 1, j, P) + 1
      BY <1>3, <1>7, <2>1
    <3>2. Cost(i - 1, j, P) \in Int
      BY <1>1, <1>9, <2>1
    <3>3. QED
      BY <1>5, <1>6, <3>1, <3>2
  <2>2. CASE P \in Pairings(i, j - 1)
    <3>1. l <= Cost(i, j - 1, P) /\ Cost(i, j, P) = Cost(i, j - 1, P) + 1
      BY <1>4, <1>7, <2>2
    <3>2. Cost(i, j - 1, P) \in Int
      BY <1>1, <1>9, <2>2
    <3>3. QED
      BY <1>5, <1>6, <3>1, <3>2
  <2>3. CASE <<i, j>> \in P /\ P \ {<<i, j>>} \in Pairings(i - 1, j - 1)
    <3> DEFINE Q == P \ {<<i, j>>}
    <3>1. Q \cup {<<i, j>>} = P
      BY <2>3
    <3>2. Q \in Pairings(i - 1, j - 1)
      BY <2>3
    <3> HIDE DEF Q
    <3>3. /\ a <= Cost(i - 1, j - 1, Q)
          /\ Cost(i, j, P) = Cost(i - 1, j - 1, Q) + Penalty(ref, hyp, i, j)
      BY <1>2, <1>8, <3>1, <3>2
    <3>4. Cost(i - 1, j - 1, Q) \in Int
      BY <1>1, <1>9, <3>2
    <3>5. r <= Penalty(ref, hyp, i, j) + a /\ Penalty(ref, hyp, i, j) \in {0, 1}
      BY <1>5 DEF Penalty
    <3>6. QED
      BY <1>5, <3>3, <3>4, <3>5
  <2>4. QED
    BY <1>1, <2>1, <2>2, <2>3, PairLast
<1>11. \E P \in Pairings(i, j) : Cost(i, j, P) = r
  <2>1. CASE ref[i] = hyp[j]
    <3>1. PICK P \in Pairings(i - 1, j - 1) : Cost(i - 1, j - 1, P) = a
      BY <1>2
    <3>2. Penalty(ref, hyp, i, j) = 0
      BY <2>1 DEF Penalty
    <3>3. Cost(i, j, P \cup {<<i, j>>}) = a + 0 /\ P \cup {<<i, j>>} \in Pairings(i, j)
      BY <1>8, <3>1, <3>2
    <3>4. a + 0 = r
      BY <1>5, <2>1
    <3>5. QED
      BY <3>3, <3>4
  <2>2. CASE ref[i] # hyp[j] /\ r = 1 + a
    <3>1. PICK P \in Pairings(i - 1, j - 1) : Cost(i - 1, j - 1, P) = a
      BY <1>2
    <3>2. Penalty(ref, hyp, i, j) = 1
      BY <2>2 DEF Penalty
    <3>3. Cost(i, j, P \cup {<<i, j>>}) = a + 1 /\ P \cup {<<i, j>>} \in Pairings(i, j)
      BY <1>8, <3>1, <3>2
    <3>4. a + 1 = r
      BY <1>5, <2>2
    <3>5. QED
      BY <3>3, <3>4
  <2>3. CASE r = 1 + u
    <3>1. PICK P \in Pairings(i - 1, j) : Cost(i - 1, j, P) = u
      BY <1>3
    <3>2. u + 1 = r
      BY <1>5, <2>3
    <3>3. QED
      BY <1>7, <3>1, <3>2
  <2>4. CASE r = 1 + l
    <3>1. PICK P \in Pairings(i, j - 1) : Cost(i, j - 1, P) = l
      BY <1>4
    <3>2. l + 1 = r
      BY <1>5, <2>4
    <3>3. QED
      BY <1>7, <3>1, <3>2
  <2>5. QED
    BY <1>5, <2>1, <2>2, <2>3, <2>4
<1>12. QED
  BY <1>10, <1>11 DEF Cheapest, Cost, i, j, r, d

(* So every cell of align's table is the least cost of a pairing.          *)
LEMMA DistanceIsCheapest ==
    ASSUME NEW ref, NEW hyp, Lines(ref, hyp)
    PROVE  \A c \in Cells(ref, hyp) : Cheapest(ref, hyp, c, Distance(ref, hyp)[c])
<1> DEFINE C == Cells(ref, hyp)
           G == {c \in C : Cheapest(ref, hyp, c, Distance(ref, hyp)[c])}
<1>1. ASSUME NEW c \in C, \A b \in C : Depth(b) < Depth(c) => b \in G PROVE c \in G
  <2>1. CASE c[1] = 0 \/ c[2] = 0
    BY <2>1, CheapestEdge
  <2>2. CASE c[1] # 0 /\ c[2] # 0
    <3>1. \A b \in C : Depth(b) < Depth(c) => Cheapest(ref, hyp, b, Distance(ref, hyp)[b])
      BY <1>1
    <3>2. QED
      BY <2>2, <3>1, CheapestInside
  <2>3. QED
    BY <2>1, <2>2
<1>2. \A c \in C : Depth(c) \in Nat
  BY Neighbours
<1>3. C \subseteq G
  <2> HIDE DEF C, G
  <2>1. QED
    BY <1>1, <1>2, CellInduction
<1>4. QED
  BY <1>3

(* Whatever was said and heard, the edits counted are the fewest.          *)
LEMMA Minimal == (\E S : line \in Seq(S)) /\ (\E S : heard \in Seq(S)) => EditsAreMinimal
<1> SUFFICES ASSUME NEW S, line \in Seq(S), NEW T, heard \in Seq(T) PROVE EditsAreMinimal
  OBVIOUS
<1> DEFINE n == Len(line)
           m == Len(heard)
           e == Score(line, heard).errors
           c == <<n, m>>
           costs == {PairingCost(line, heard, n, m, P) : P \in Pairings(n, m)}
<1>1. n \in Nat /\ m \in Nat /\ Lines(line, heard)
  BY DEF Lines
<1>2. c \in Cells(line, heard) /\ c[1] = n /\ c[2] = m
  BY <1>1 DEF Cells
<1>3. e = Back(line, heard)[c]
  BY <1>1, AlignFills DEF Score
<1>4. /\ Errors(e) = Distance(line, heard)[c]
      /\ n - e.dels = m - e.ins /\ e.subs <= n - e.dels
  <2> HIDE DEF e, c, n, m
  <2>1. QED
    BY <1>1, <1>2, <1>3, EditsAddUp DEF n, m
<1>5. Cheapest(line, heard, c, Errors(e))
  BY <1>1, <1>2, <1>4, DistanceIsCheapest
<1>6. Errors(e) \in costs /\ \A x \in costs : Errors(e) <= x
  BY <1>2, <1>5 DEF Cheapest
<1>7. Errors(e) = Min(costs)
  <2>1. Errors(e) \in Nat
    BY <1>1, <1>2, <1>4, DistanceEdges
  <2>2. \A P \in Pairings(n, m) : PairingCost(line, heard, n, m, P) \in Int
    <3>1. \A h, k, p, q \in Nat : h + k - 2 * p + q \in Int
      OBVIOUS
    <3>2. QED
      BY <1>1, <3>1, PairingsFinite DEF PairingCost
  <2>3. costs \subseteq Int
    BY <2>2
  <2> HIDE DEF costs, e
  <2>4. \A x \in costs : (\A y \in costs : x <= y) => x = Errors(e)
    BY <1>6, <2>1, <2>3
  <2>5. QED
    BY <1>6, <2>4 DEF Min
<1>8. QED
  BY <1>4, <1>7 DEF EditsAreMinimal, PairingCost, Pairings, Ordered, Misheard

-----------------------------------------------------------------------------
(* Counting.                                                               *)

(* Two sets whose elements are paired off have the same size.              *)
LEMMA SameSize ==
    ASSUME NEW S, NEW T, IsFiniteSet(S), NEW f \in [S -> T],
           \A x, y \in S : f[x] = f[y] => x = y, \A y \in T : \E x \in S : f[x] = y
    PROVE  IsFiniteSet(T) /\ Cardinality(T) = Cardinality(S)
<1>1. f \in Bijection(S, T)
  BY DEF Bijection, Injection, Surjection, IsInjective
<1>2. ExistsBijection(S, T)
  BY <1>1 DEF ExistsBijection
<1>3. QED
  BY <1>2, FS_Bijection

(* What Split says of its groups adds up.                                  *)
LEMMA SplitAddsUp ==
    ASSUME NEW judged, IsFiniteSet(judged), NEW worse \in SUBSET judged,
           NEW passed \in SUBSET judged
    PROVE  LET s == Split(judged, worse, passed)
           IN /\ s.calls = Cardinality(judged) /\ s.worse + s.better = s.calls
              /\ s.worsePassed + s.betterPassed = Cardinality(passed)
<1> DEFINE s == Split(judged, worse, passed)
<1>1. /\ IsFiniteSet(worse) /\ IsFiniteSet(passed)
      /\ Cardinality(judged) \in Nat /\ Cardinality(worse) \in Nat
      /\ Cardinality(passed) \in Nat
  BY FS_Subset, FS_CardinalityType
<1>2. Cardinality(judged \ worse) = Cardinality(judged) - Cardinality(worse)
  <2>1. judged \cap worse = worse
    OBVIOUS
  <2>2. QED
    BY <2>1, FS_Difference
<1>3. Cardinality((judged \ worse) \cap passed) = Cardinality(passed) - Cardinality(worse \cap passed)
  <2>1. (judged \ worse) \cap passed = passed \ worse /\ passed \cap worse = worse \cap passed
    OBVIOUS
  <2>2. QED
    BY <1>1, <2>1, FS_Difference
<1>4. Cardinality(worse \cap passed) \in Nat
  <2>1. worse \cap passed \in SUBSET worse
    OBVIOUS
  <2>2. IsFiniteSet(worse \cap passed)
    BY <1>1, <2>1, FS_Subset
  <2>3. QED
    BY <2>2, FS_CardinalityType
<1>5. /\ s.calls = Cardinality(judged) /\ s.worse = Cardinality(worse)
      /\ s.better = Cardinality(judged \ worse)
      /\ s.worsePassed = Cardinality(worse \cap passed)
      /\ s.betterPassed = Cardinality((judged \ worse) \cap passed)
  BY DEF Split
<1> HIDE DEF s
<1>6. s.worse + s.better = s.calls
  <2>1. \A p, q \in Nat : q + (p - q) = p
    OBVIOUS
  <2>2. QED
    BY <1>1, <1>2, <1>5, <2>1
<1>7. s.worsePassed + s.betterPassed = Cardinality(passed)
  <2>1. \A p, q \in Nat : q + (p - q) = p
    OBVIOUS
  <2>2. QED
    BY <1>1, <1>3, <1>4, <1>5, <2>1
<1>8. QED
  BY <1>5, <1>6, <1>7 DEF s

-----------------------------------------------------------------------------
(* The judge's verdicts.                                                   *)

Judgements == {Judgement(i, a) : i \in Sampled, a \in Answers}

(* A call is taken once, in the order of the log, and none is left out     *)
(* before the one the judge has come to.                                   *)
TakenInOrder ==
    /\ \A k, l \in 1..Len(graded) : k < l => graded[k].id < graded[l].id
    /\ \A k \in 1..Len(graded) : \A i \in Sampled :
           i <= graded[k].id => \E l \in 1..k : graded[l].id = i

(* A person's labels are the judge's with one verdict turned round.        *)
OneCorrected ==
    \E i \in 1..Len(graded), c \in 1..Criteria :
        /\ ~graded[i].err
        /\ labels = [graded EXCEPT ![i].outcomes[c] = ~@]

GInv ==
    /\ line \in Seq(Words) /\ heard \in Seq(Words)
    /\ calls \in Seq(CallChoices)
    /\ grading \in {"calling", "judging", "labelling"}
    /\ grading = "calling" => graded = <<>>
    /\ graded \in Seq(Judgements)
    /\ TakenInOrder
    /\ grading = "labelling" => ToJudge = {} /\ OneCorrected

(* The calls of the log are numbered.                                      *)
LEMMA SampledAreNumbers ==
    ASSUME calls \in Seq(CallChoices)
    PROVE  /\ Sampled \subseteq 1..Len(calls) /\ Sampled \subseteq Nat
           /\ IsFiniteSet(Sampled)
<1>1. Sampled \subseteq 1..Len(calls) /\ Len(calls) \in Nat
  BY DEF Sampled
<1>2. IsFiniteSet(1..Len(calls))
  BY <1>1, FS_Interval
<1>3. \A n \in Nat : 1..n \subseteq Nat
  OBVIOUS
<1>4. Sampled \subseteq Nat
  BY <1>1, <1>3, Zenon
<1>5. IsFiniteSet(Sampled)
  BY <1>1, <1>2, FS_Subset
<1>6. QED
  BY <1>1, <1>4, <1>5

(* A verdict that counts is on every criterion, no more and no less: the   *)
(* answer has as many as there are, and no two are the same.               *)
LEMMA EveryCriterion ==
    ASSUME NEW a \in Answers, Answered(a)
    PROVE  {a[i].id : i \in DOMAIN a} = 1..Criteria
<1>1. /\ Criteria \in Nat /\ DOMAIN a = 1..Criteria
      /\ \A i \in 1..Criteria : a[i].id \in 1..Criteria
      /\ \A i, j \in 1..Criteria : a[i].id = a[j].id => i = j
  <2>1. a \in Seq([id : Int, met : BOOLEAN]) /\ Len(a) = Criteria
    BY GradingAssumption DEF Answered
  <2>2. DOMAIN a = 1..Criteria
    BY <2>1
  <2>3. QED
    BY <2>2, GradingAssumption DEF Answered
<1> DEFINE T == {a[i].id : i \in 1..Criteria}
           f == [i \in 1..Criteria |-> a[i].id]
<1>2. IsFiniteSet(1..Criteria)
  BY <1>1, FS_Interval
<1>3. IsFiniteSet(T) /\ Cardinality(T) = Cardinality(1..Criteria)
  <2>1. f \in [1..Criteria -> T]
    OBVIOUS
  <2>2. \A i, j \in 1..Criteria : f[i] = f[j] => i = j
    <3>1. \A i \in 1..Criteria : f[i] = a[i].id
      OBVIOUS
    <3> HIDE DEF f
    <3>2. QED
      BY <1>1, <3>1
  <2>3. \A x \in T : \E i \in 1..Criteria : f[i] = x
    OBVIOUS
  <2> HIDE DEF f, T
  <2>4. QED
    BY <1>2, <2>1, <2>2, <2>3, SameSize
<1>4. T \subseteq 1..Criteria
  BY <1>1
<1>5. T = 1..Criteria
  <2> HIDE DEF T
  <2>1. QED
    BY <1>2, <1>3, <1>4, FS_Subset
<1>6. QED
  BY <1>1, <1>5

(* What a judgement holds.                                                 *)
LEMMA JudgementHolds ==
    ASSUME NEW g \in Judgements
    PROVE  /\ g.id \in Sampled /\ g.step = calls[g.id].step /\ g.err \in BOOLEAN
           /\ ~g.err => g.outcomes \in [1..Criteria -> BOOLEAN]
           /\ Met(g) => ~g.err
<1>1. PICK i \in Sampled, a \in Answers : g = Judgement(i, a)
  BY DEF Judgements
<1>2. g.id = i /\ g.step = calls[i].step /\ g.err = ~Answered(a)
  BY <1>1 DEF Judgement
<1>3. ASSUME ~g.err PROVE g.outcomes \in [1..Criteria -> BOOLEAN]
  <2>1. Answered(a)
    BY <1>2, <1>3
  <2>2. g.outcomes = [c \in {a[k].id : k \in DOMAIN a} |-> \E k \in DOMAIN a : a[k].id = c /\ a[k].met]
    BY <1>1, <2>1 DEF Judgement
  <2>3. g.outcomes = [c \in 1..Criteria |-> \E k \in DOMAIN a : a[k].id = c /\ a[k].met]
    BY <2>1, <2>2, EveryCriterion
  <2>4. \A c \in 1..Criteria : (\E k \in DOMAIN a : a[k].id = c /\ a[k].met) \in BOOLEAN
    OBVIOUS
  <2>5. QED
    BY <2>3, <2>4
<1>4. g.err \in BOOLEAN
  BY <1>2 DEF Answered
<1>5. QED
  BY <1>2, <1>3, <1>4 DEF Met

-----------------------------------------------------------------------------
(* The invariant.                                                          *)

(* Before the first call there is nothing to grade.                        *)
LEMMA GradingStarts == GradingInit => GInv
<1> SUFFICES ASSUME GradingInit PROVE GInv
  OBVIOUS
<1>1. \A S : <<>> \in Seq(S) /\ Len(<<>>) = 0
  OBVIOUS
<1>2. 1..0 = {}
  OBVIOUS
<1>3. TakenInOrder
  BY <1>1, <1>2 DEF GradingInit, TakenInOrder
<1>4. QED
  BY <1>1, <1>3 DEF GradingInit, GInv

(* The sample is of the log alone.                                         *)
LEMMA SameSample ==
    ASSUME calls' = calls
    PROVE  Sampled' = Sampled /\ Judgements' = Judgements
<1>1. Sampled' = Sampled
  BY DEF Sampled, Gradable
<1>2. QED
  BY <1>1 DEF Judgements, Judgement

(* The actions before the judge starts.                                    *)
LEMMA CallingKeeps ==
    ASSUME GInv, (\E w \in Words : SayWord(w) \/ HearWord(w)) \/ (\E c \in CallChoices : LogCall(c))
    PROVE  GInv'
<1>1. /\ grading = "calling" /\ grading' = "calling" /\ graded = <<>> /\ graded' = <<>>
      /\ line' \in Seq(Words) /\ heard' \in Seq(Words) /\ calls' \in Seq(CallChoices)
  <2>1. line \in Seq(Words) /\ heard \in Seq(Words) /\ calls \in Seq(CallChoices)
    BY DEF GInv
  <2>2. ASSUME NEW w \in Words, SayWord(w) \/ HearWord(w)
        PROVE  /\ grading = "calling" /\ UNCHANGED <<grading, graded, calls>>
               /\ line' \in Seq(Words) /\ heard' \in Seq(Words)
    <3>1. CASE SayWord(w)
      BY <2>1, <3>1 DEF SayWord
    <3>2. CASE HearWord(w)
      BY <2>1, <3>2 DEF HearWord
    <3>3. QED
      BY <2>2, <3>1, <3>2
  <2>3. ASSUME NEW c \in CallChoices, LogCall(c)
        PROVE  /\ grading = "calling" /\ UNCHANGED <<grading, graded, line, heard>>
               /\ calls' \in Seq(CallChoices)
    BY <2>1, <2>3 DEF LogCall
  <2>4. grading = "calling" => graded = <<>>
    BY DEF GInv
  <2>5. QED
    BY <2>1, <2>2, <2>3, <2>4
<1>2. Len(graded') = 0 /\ 1..0 = {} /\ graded' \in Seq(Judgements')
  BY <1>1
<1>3. TakenInOrder'
  BY <1>2 DEF TakenInOrder
<1>4. QED
  BY <1>1, <1>2, <1>3 DEF GInv

(* judgeRun starts with no verdict, and on the calls as they are.          *)
LEMMA StartingKeeps == GInv /\ StartJudging => GInv'
<1> SUFFICES ASSUME GInv, StartJudging PROVE GInv'
  OBVIOUS
<1>1. /\ grading' = "judging"
      /\ UNCHANGED <<line, heard, calls, graded, labels>>
  BY DEF StartJudging
<1>2. Sampled' = Sampled /\ Judgements' = Judgements
  BY <1>1, SameSample
<1>3. TakenInOrder'
  BY <1>1, <1>2 DEF GInv, TakenInOrder
<1>4. QED
  BY <1>1, <1>2, <1>3 DEF GInv

(* The next call is after those that were taken, and between them is none. *)
LEMMA NextInOrder ==
    ASSUME GInv, ToJudge # {}
    PROVE  LET i == Min(ToJudge)
           IN /\ i \in Sampled
              /\ \A k \in 1..Len(graded) : graded[k].id < i
              /\ \A h \in Sampled : h < i => \E k \in 1..Len(graded) : graded[k].id = h
<1> DEFINE i == Min(ToJudge)
<1>1. Sampled \subseteq Nat
  BY SampledAreNumbers DEF GInv
<1>2. DOMAIN graded = 1..Len(graded) /\ \A k \in 1..Len(graded) : graded[k] \in Judgements
  BY DEF GInv
<1>3. i \in ToJudge /\ \A h \in ToJudge : i <= h
  <2>1. ToJudge \in SUBSET Nat
    BY <1>1 DEF ToJudge
  <2>2. QED
    BY <2>1, LeastNat
<1>4. i \in Sampled /\ \A k \in 1..Len(graded) : graded[k].id # i
  BY <1>2, <1>3 DEF ToJudge
<1>5. \A h \in Sampled : h \in ToJudge \/ \E k \in 1..Len(graded) : graded[k].id = h
  BY <1>2 DEF ToJudge
<1> HIDE DEF i
<1>6. ASSUME NEW h \in Sampled, h < i PROVE \E k \in 1..Len(graded) : graded[k].id = h
  <2>1. h \notin ToJudge
    BY <1>1, <1>3, <1>4, <1>6
  <2>2. QED
    BY <1>5, <2>1
<1>7. ASSUME NEW k \in 1..Len(graded) PROVE graded[k].id < i
  <2>1. graded[k].id \in Sampled
    BY <1>2, JudgementHolds
  <2>2. ~(i <= graded[k].id)
    <3> SUFFICES ASSUME i <= graded[k].id PROVE FALSE
      OBVIOUS
    <3>1. \E l \in 1..k : graded[l].id = i
      BY <1>4 DEF GInv, TakenInOrder
    <3>2. 1..k \subseteq 1..Len(graded)
      BY DEF GInv
    <3>3. QED
      BY <1>4, <3>1, <3>2
  <2>3. graded[k].id \in Nat /\ i \in Nat
    BY <1>1, <1>4, <2>1
  <2>4. QED
    BY <2>2, <2>3
<1>8. QED
  BY <1>4, <1>6, <1>7 DEF i

(* The next verdict is on the next call of the sample.                     *)
LEMMA JudgeCallKeeps ==
    ASSUME GInv, NEW a \in Answers, JudgeCall(a)
    PROVE  GInv'
<1> DEFINE i == Min(ToJudge)
           n == Len(graded)
           g == Judgement(i, a)
<1>1. /\ grading = "judging" /\ ToJudge # {} /\ graded' = Append(graded, g)
      /\ UNCHANGED <<line, heard, calls, labels, grading>>
  BY DEF JudgeCall
<1>2. Sampled' = Sampled /\ Judgements' = Judgements
  BY <1>1, SameSample
<1>3. /\ i \in Sampled
      /\ \A k \in 1..n : graded[k].id < i
      /\ \A h \in Sampled : h < i => \E k \in 1..n : graded[k].id = h
  BY <1>1, NextInOrder
<1>4. g \in Judgements /\ g.id = i
  <2> HIDE DEF i
  <2>1. g \in Judgements
    BY <1>3 DEF Judgements
  <2>2. g.id = i
    BY DEF Judgement
  <2>3. QED
    BY <2>1, <2>2
<1>5. n \in Nat /\ i \in Nat /\ Sampled \subseteq Nat /\ graded \in Seq(Judgements)
  BY <1>3, SampledAreNumbers DEF GInv
<1> HIDE DEF i, g
<1>6. /\ graded' \in Seq(Judgements) /\ Len(graded') = n + 1
      /\ \A k \in 1..n : graded'[k] = graded[k]
      /\ graded'[n + 1] = g
  BY <1>1, <1>4, <1>5
<1> HIDE DEF n
<1>7. TakenInOrder'
  <2>1. \A k \in 1..(n + 1) : k \in 1..n \/ k = n + 1
    BY <1>5
  <2>2. ASSUME NEW k \in 1..(n + 1), NEW l \in 1..(n + 1), k < l
        PROVE  graded'[k].id < graded'[l].id
    <3>1. k \in 1..n
      BY <1>5, <2>2
    <3>2. CASE l \in 1..n
      <4>1. graded[k].id < graded[l].id
        BY <2>2, <3>1, <3>2 DEF GInv, TakenInOrder, n
      <4>2. QED
        BY <1>6, <3>1, <3>2, <4>1
    <3>3. CASE l = n + 1
      BY <1>3, <1>4, <1>6, <3>1, <3>3
    <3>4. QED
      BY <2>1, <3>2, <3>3
  <2>3. ASSUME NEW k \in 1..(n + 1), NEW h \in Sampled, h <= graded'[k].id
        PROVE  \E l \in 1..k : graded'[l].id = h
    <3>1. CASE k \in 1..n
      <4>1. PICK l \in 1..k : graded[l].id = h
        BY <1>6, <2>3, <3>1 DEF GInv, TakenInOrder, n
      <4>2. l \in 1..n
        BY <1>5, <3>1
      <4>3. QED
        BY <1>6, <4>1, <4>2
    <3>2. CASE k = n + 1
      <4>1. h <= i
        BY <1>4, <1>6, <2>3, <3>2
      <4>2. CASE h = i
        <5>1. k \in 1..k
          BY <1>5, <3>2
        <5>2. QED
          BY <1>4, <1>6, <3>2, <4>2, <5>1
      <4>3. CASE h < i
        <5>1. PICK l \in 1..n : graded[l].id = h
          BY <1>3, <4>3
        <5>2. l \in 1..k
          BY <1>5, <3>2
        <5>3. QED
          BY <1>6, <5>1, <5>2
      <4>4. QED
        BY <1>5, <4>1, <4>2, <4>3
    <3>3. QED
      BY <2>1, <3>1, <3>2
  <2>4. QED
    BY <1>2, <1>6, <2>2, <2>3 DEF TakenInOrder
<1>8. QED
  BY <1>1, <1>2, <1>6, <1>7 DEF GInv

(* The corrected copy differs from the verdicts at one criterion.          *)
LEMMA LabellingKeeps ==
    ASSUME GInv, NEW i \in DOMAIN graded, NEW c \in 1..Criteria, LabelCall(i, c)
    PROVE  GInv'
<1>1. /\ ToJudge = {} /\ ~graded[i].err
      /\ labels' = [graded EXCEPT ![i].outcomes[c] = ~@] /\ grading' = "labelling"
      /\ UNCHANGED <<line, heard, calls, graded>>
  BY DEF LabelCall
<1>2. Sampled' = Sampled /\ Judgements' = Judgements
  BY <1>1, SameSample
<1>3. TakenInOrder' /\ ToJudge' = {}
  <2>1. TakenInOrder
    BY DEF GInv
  <2>2. graded' = graded /\ ToJudge = {}
    BY <1>1
  <2>3. TakenInOrder'
    BY <1>2, <2>1, <2>2 DEF TakenInOrder
  <2>4. ToJudge' = {}
    BY <1>2, <2>2, Zenon DEF ToJudge
  <2>5. QED
    BY <2>3, <2>4
<1>4. i \in 1..Len(graded)
  BY DEF GInv
<1>5. OneCorrected'
  BY <1>1, <1>4 DEF OneCorrected
<1>6. QED
  BY <1>1, <1>2, <1>3, <1>5 DEF GInv

(* The invariant holds throughout.                                         *)
LEMMA GradingInvariant == GradingSpec => []GInv
<1>1. GInv /\ [GradingNext]_gradingVars => GInv'
  <2> SUFFICES ASSUME GInv, [GradingNext]_gradingVars PROVE GInv'
    OBVIOUS
  <2>1. CASE UNCHANGED gradingVars
    <3>1. UNCHANGED <<line, heard, calls, graded, labels, grading>>
      BY <2>1 DEF gradingVars
    <3>2. Sampled' = Sampled /\ Judgements' = Judgements
      BY <3>1, SameSample
    <3>3. TakenInOrder' /\ ToJudge' = ToJudge
      BY <3>1, <3>2 DEF GInv, TakenInOrder, ToJudge
    <3>4. OneCorrected' = OneCorrected
      BY <3>1 DEF OneCorrected
    <3>5. QED
      BY <3>1, <3>2, <3>3, <3>4 DEF GInv
  <2>2. CASE GradingNext
    BY <2>2, CallingKeeps, StartingKeeps, JudgeCallKeeps, LabellingKeeps DEF GradingNext
  <2>3. QED
    BY <2>1, <2>2
<1>2. QED
  BY <1>1, GradingStarts, PTL DEF GradingSpec

-----------------------------------------------------------------------------
(* The summary of the verdicts.                                            *)

(* The verdicts, one by one.                                               *)
LEMMA TheVerdicts ==
    ASSUME GInv
    PROVE  /\ Len(graded) \in Nat /\ DOMAIN graded = 1..Len(graded)
           /\ \A k \in 1..Len(graded) :
                  /\ graded[k] \in Judgements /\ graded[k].id \in Sampled
                  /\ graded[k].id \in Nat
           /\ \A k, l \in 1..Len(graded) : graded[k].id = graded[l].id => k = l
<1>1. /\ Len(graded) \in Nat /\ DOMAIN graded = 1..Len(graded)
      /\ \A k \in 1..Len(graded) : graded[k] \in Judgements
  BY DEF GInv
<1>2. \A k \in 1..Len(graded) : graded[k].id \in Sampled /\ graded[k].id \in Nat
  <2>1. Sampled \subseteq Nat
    BY SampledAreNumbers DEF GInv
  <2>2. QED
    BY <1>1, <2>1, JudgementHolds
<1>3. ASSUME NEW k \in 1..Len(graded), NEW l \in 1..Len(graded), graded[k].id = graded[l].id
      PROVE  k = l
  <2>1. ~(k < l)
    <3> SUFFICES ASSUME k < l PROVE FALSE
      OBVIOUS
    <3>1. graded[k].id < graded[l].id
      BY DEF GInv, TakenInOrder
    <3>2. QED
      BY <1>2, <1>3, <3>1
  <2>2. ~(l < k)
    <3> SUFFICES ASSUME l < k PROVE FALSE
      OBVIOUS
    <3>1. graded[l].id < graded[k].id
      BY DEF GInv, TakenInOrder
    <3>2. QED
      BY <1>2, <1>3, <3>1
  <2>3. QED
    BY <1>1, <2>1, <2>2
<1>4. QED
  BY <1>1, <1>2, <1>3

(* The place of a sampled call among the sampled is that of its verdict.   *)
LEMMA PlaceOfVerdict ==
    ASSUME GInv, NEW k \in 1..Len(graded)
    PROVE  Cardinality({i \in Sampled : i <= graded[k].id}) = k
<1> DEFINE T == {i \in Sampled : i <= graded[k].id}
           f == [l \in 1..k |-> graded[l].id]
<1>1. k \in Nat /\ 1..k \subseteq 1..Len(graded)
  BY TheVerdicts
<1>2. f \in [1..k -> T]
  <2>1. ASSUME NEW l \in 1..k PROVE graded[l].id \in T
    <3>1. l \in 1..Len(graded) /\ (l = k \/ l < k)
      BY <1>1
    <3>2. graded[l].id \in Sampled /\ graded[l].id \in Nat /\ graded[k].id \in Nat
      BY <3>1, TheVerdicts
    <3>3. l < k => graded[l].id < graded[k].id
      BY <3>1 DEF GInv, TakenInOrder
    <3>4. QED
      BY <3>1, <3>2, <3>3
  <2>2. QED
    BY <2>1
<1>3. \A l, m \in 1..k : f[l] = f[m] => l = m
  <2>1. \A l \in 1..k : f[l] = graded[l].id
    OBVIOUS
  <2> HIDE DEF f
  <2>2. QED
    BY <1>1, <2>1, TheVerdicts
<1>4. \A i \in T : \E l \in 1..k : f[l] = i
  <2>1. \A l \in 1..k : f[l] = graded[l].id
    OBVIOUS
  <2> HIDE DEF f
  <2>2. QED
    BY <2>1 DEF GInv, TakenInOrder
<1>5. IsFiniteSet(1..k) /\ Cardinality(1..k) = k
  BY <1>1, FS_Interval
<1>6. QED
  <2> HIDE DEF f, T
  <2>1. Cardinality(T) = k
    BY <1>2, <1>3, <1>4, <1>5, SameSize
  <2>2. QED
    BY <2>1 DEF T

(* The verdict found under a call's key is the one on that call, and under *)
(* the key of a call that was not judged there is none.                    *)
LEMMA OwnVerdict ==
    ASSUME GInv
    PROVE  /\ \A k \in 1..Len(graded) : /\ HasVerdict(graded, graded[k].id)
                                        /\ VerdictOn(graded, graded[k].id) = graded[k]
           /\ \A i : HasVerdict(graded, i) => \E k \in 1..Len(graded) : i = graded[k].id
<1>1. ASSUME NEW k \in 1..Len(graded)
      PROVE  VerdictsOn(graded, graded[k].id) = {k} /\ Max({k}) = k
  <2>1. \A l \in 1..Len(graded) : SameCall(graded[k].id, graded[l]) <=> l = k
    BY TheVerdicts, JudgementHolds DEF SameCall
  <2>2. VerdictsOn(graded, graded[k].id) = {k}
    BY <2>1, TheVerdicts DEF VerdictsOn
  <2>3. k >= k
    BY TheVerdicts
  <2>4. Max({k}) = k
    BY <2>3 DEF Max
  <2>5. QED
    BY <2>2, <2>4
<1>2. ASSUME NEW i, HasVerdict(graded, i) PROVE \E k \in 1..Len(graded) : i = graded[k].id
  BY <1>2, TheVerdicts DEF HasVerdict, VerdictsOn, SameCall
<1>3. QED
  BY <1>1, <1>2 DEF HasVerdict, VerdictOn

(* Once the judge is through, the verdicts are as many as the sample.      *)
LEMMA AllTaken ==
    ASSUME GInv, ToJudge = {}
    PROVE  /\ Sampled = {graded[k].id : k \in 1..Len(graded)}
           /\ IsFiniteSet(Sampled) /\ Cardinality(Sampled) = Len(graded)
<1> DEFINE n == Len(graded)
           f == [k \in 1..n |-> graded[k].id]
<1>1. Sampled = {graded[k].id : k \in 1..n}
  BY TheVerdicts DEF ToJudge
<1>2. f \in [1..n -> Sampled] /\ \A k \in 1..n : f[k] = graded[k].id
  BY TheVerdicts
<1>3. IsFiniteSet(1..n) /\ Cardinality(1..n) = n
  BY TheVerdicts, FS_Interval
<1> HIDE DEF f
<1>4. \A k, l \in 1..n : f[k] = f[l] => k = l
  BY <1>2, TheVerdicts
<1>5. \A i \in Sampled : \E k \in 1..n : f[k] = i
  BY <1>1, <1>2
<1>6. IsFiniteSet(Sampled) /\ Cardinality(Sampled) = Cardinality(1..n)
  <2> HIDE DEF n
  <2>1. QED
    BY <1>2, <1>3, <1>4, <1>5, SameSize
<1>7. QED
  BY <1>1, <1>3, <1>6

(* The verdicts that count, and those of them that passed.                 *)
LEMMA TheTold ==
    ASSUME GInv
    PROVE  /\ Told(graded) \subseteq 1..Len(graded) /\ IsFiniteSet(Told(graded))
           /\ \A k \in Told(graded) : graded[k].outcomes \in [1..Criteria -> BOOLEAN]
           /\ \A k \in 1..Len(graded) : Met(graded[k]) => k \in Told(graded)
<1>1. Told(graded) \subseteq 1..Len(graded)
  BY TheVerdicts DEF Told
<1>2. IsFiniteSet(1..Len(graded))
  BY TheVerdicts, FS_Interval
<1>3. IsFiniteSet(Told(graded))
  BY <1>1, <1>2, FS_Subset
<1>4. \A k \in Told(graded) : graded[k].outcomes \in [1..Criteria -> BOOLEAN]
  BY TheVerdicts, JudgementHolds DEF Told
<1>5. \A k \in 1..Len(graded) : Met(graded[k]) => k \in Told(graded)
  BY TheVerdicts, JudgementHolds DEF Told
<1>6. QED
  BY <1>1, <1>3, <1>4, <1>5

(* Sets of verdicts and the sets of calls they are on.                     *)
LEMMA OnCalls ==
    ASSUME GInv, NEW K \in SUBSET (1..Len(graded))
    PROVE  /\ IsFiniteSet({graded[k].id : k \in K})
           /\ Cardinality({graded[k].id : k \in K}) = Cardinality(K)
<1> DEFINE T == {graded[k].id : k \in K}
           f == [k \in K |-> graded[k].id]
<1>1. IsFiniteSet(K)
  <2>1. IsFiniteSet(1..Len(graded))
    BY TheVerdicts, FS_Interval
  <2>2. QED
    BY <2>1, FS_Subset
<1>2. f \in [K -> T] /\ \A k \in K : f[k] = graded[k].id
  OBVIOUS
<1>3. \A y \in T : \E k \in K : y = graded[k].id
  OBVIOUS
<1> HIDE DEF f, T
<1>4. \A k, l \in K : f[k] = f[l] => k = l
  BY <1>2, TheVerdicts
<1>5. \A y \in T : \E k \in K : f[k] = y
  BY <1>2, <1>3
<1>6. IsFiniteSet(T) /\ Cardinality(T) = Cardinality(K)
  BY <1>1, <1>2, <1>4, <1>5, SameSize
<1>7. QED
  BY <1>6 DEF T

(* The calls that have a verdict that counts, and those of them that       *)
(* passed, are the same in the sample and in the whole log.                *)
JudgedOf(ids) == {i \in ids : HasVerdict(graded, i) /\ ~VerdictOn(graded, i).err}
PassedOf(ids) == {i \in JudgedOf(ids) : Met(VerdictOn(graded, i))}

(* The judged calls are those of the verdicts that are no errors, and the  *)
(* passed ones those of the verdicts that met all, over any such ids.      *)
LEMMA JudgedCalls ==
    ASSUME GInv, NEW ids, Sampled \subseteq ids
    PROVE  /\ JudgedOf(ids) = {graded[k].id : k \in Told(graded)}
           /\ PassedOf(ids) = {graded[k].id : k \in {k \in Told(graded) : Met(graded[k])}}
<1>1. ASSUME NEW i \in JudgedOf(ids) PROVE \E k \in Told(graded) : i = graded[k].id
  <2>1. HasVerdict(graded, i) /\ ~VerdictOn(graded, i).err
    BY DEF JudgedOf
  <2>2. PICK k \in 1..Len(graded) : i = graded[k].id
    BY <2>1, OwnVerdict
  <2>3. VerdictOn(graded, i) = graded[k]
    BY <2>2, OwnVerdict
  <2>4. k \in Told(graded)
    BY <2>1, <2>3, TheVerdicts DEF Told
  <2>5. QED
    BY <2>2, <2>4
<1>2. ASSUME NEW k \in Told(graded)
      PROVE  /\ graded[k].id \in JudgedOf(ids)
             /\ VerdictOn(graded, graded[k].id) = graded[k]
  <2>1. k \in 1..Len(graded) /\ ~graded[k].err
    BY TheVerdicts DEF Told
  <2>2. /\ HasVerdict(graded, graded[k].id) /\ VerdictOn(graded, graded[k].id) = graded[k]
        /\ graded[k].id \in ids
    BY <2>1, OwnVerdict, TheVerdicts
  <2>3. QED
    BY <2>1, <2>2 DEF JudgedOf
<1>3. JudgedOf(ids) = {graded[k].id : k \in Told(graded)}
  BY <1>1, <1>2
<1>4. PassedOf(ids) = {graded[k].id : k \in {k \in Told(graded) : Met(graded[k])}}
  BY <1>1, <1>2 DEF PassedOf
<1>5. QED
  BY <1>3, <1>4

(* Calls that waited past the line, by their verdicts.                     *)
LEMMA WaitsAddUp ==
    ASSUME GInv, NEW ids, Sampled \subseteq ids
    PROVE  LET w == WaitOutcome(graded, ids)
           IN /\ w = WaitOutcome(graded, Sampled)
              /\ w.worse + w.better = w.calls
              /\ w.calls = Cardinality(Told(graded))
              /\ w.worsePassed + w.betterPassed
                   = Cardinality({k \in Told(graded) : Met(graded[k])})
<1> DEFINE judged == JudgedOf(ids)
           worse == {i \in judged : \E t \in ToSet(calls[i].turns) : ~t.yielded /\ t.waited}
           passed == PassedOf(ids)
<1>1. WaitOutcome(graded, ids) = Split(judged, worse, passed)
  BY DEF WaitOutcome, JudgedOf, PassedOf
<1>2. JudgedOf(ids) = JudgedOf(Sampled) /\ PassedOf(ids) = PassedOf(Sampled)
  BY JudgedCalls
<1>3. WaitOutcome(graded, ids) = WaitOutcome(graded, Sampled)
  <2>1. WaitOutcome(graded, Sampled)
          = Split(JudgedOf(Sampled),
                  {i \in JudgedOf(Sampled) : \E t \in ToSet(calls[i].turns) : ~t.yielded /\ t.waited},
                  PassedOf(Sampled))
    BY DEF WaitOutcome, JudgedOf, PassedOf
  <2>2. QED
    BY <1>1, <1>2, <2>1
<1>4. IsFiniteSet(judged) /\ Cardinality(judged) = Cardinality(Told(graded))
  BY JudgedCalls, TheTold, OnCalls
<1>5. Cardinality(passed) = Cardinality({k \in Told(graded) : Met(graded[k])})
  <2>1. {k \in Told(graded) : Met(graded[k])} \subseteq 1..Len(graded)
    BY TheTold
  <2>2. QED
    BY <2>1, JudgedCalls, OnCalls
<1>6. worse \subseteq judged /\ passed \subseteq judged
  BY DEF PassedOf
<1> HIDE DEF judged, worse, passed
<1> DEFINE s == Split(judged, worse, passed)
<1>7. /\ s.calls = Cardinality(judged) /\ s.worse + s.better = s.calls
      /\ s.worsePassed + s.betterPassed = Cardinality(passed)
  BY <1>4, <1>6, SplitAddsUp
<1> HIDE DEF s
<1>8. QED
  BY <1>1, <1>3, <1>4, <1>5, <1>7, Zenon DEF s

(* The summary: every verdict counted once, every sampled call scored.     *)
LEMMA AddUp == GInv => GradesAddUp
<1> SUFFICES ASSUME GInv, graded # <<>>, ToJudge = {} PROVE GradesAddUp
  BY DEF GradesAddUp
<1> DEFINE t == SummarizeJudgements(graded, Sampled)
           n == Len(graded)
           told == Cardinality(Told(graded))
<1>1. Cardinality(Sampled) = n /\ n \in Nat /\ told \in Nat
  BY AllTaken, TheVerdicts, TheTold, FS_CardinalityType
<1>2. /\ t.judged = told /\ t.errored = n - told
      /\ t.passed = Cardinality({k \in Told(graded) : Met(graded[k])})
      /\ t.calls = {CallScore(graded, i) : i \in {i \in Sampled : HasVerdict(graded, i)}}
      /\ t.correlation = Correlate(t.calls) /\ t.waits = WaitOutcome(graded, Sampled)
  BY DEF SummarizeJudgements
<1>3. \A c \in 1..Criteria :
         t.misses[c].judged = Cardinality({k \in Told(graded) : c \in DOMAIN graded[k].outcomes})
  BY DEF SummarizeJudgements
<1> HIDE DEF t
<1>4. t.judged + t.errored = Cardinality(Sampled)
  <2> HIDE DEF n, told
  <2>1. QED
    BY <1>1, <1>2
<1>5. t.calls = {CallScore(graded, i) : i \in Sampled}
  <2>1. {i \in Sampled : HasVerdict(graded, i)} = Sampled
    BY AllTaken, OwnVerdict
  <2>2. QED
    BY <1>2, <2>1
<1>6. IsFiniteSet(t.calls) /\ Cardinality(t.calls) = Cardinality(Sampled)
  <2> DEFINE f == [i \in Sampled |-> CallScore(graded, i)]
             scores == {CallScore(graded, i) : i \in Sampled}
  <2>1. f \in [Sampled -> scores] /\ \A y \in scores : \E i \in Sampled : f[i] = y
    OBVIOUS
  <2>2. \A i \in Sampled : f[i].id = i
    BY DEF CallScore
  <2>3. IsFiniteSet(Sampled)
    BY AllTaken
  <2> HIDE DEF f, scores
  <2>4. \A i, j \in Sampled : f[i] = f[j] => i = j
    BY <2>2
  <2>5. IsFiniteSet(scores) /\ Cardinality(scores) = Cardinality(Sampled)
    BY <2>1, <2>3, <2>4, SameSize
  <2>6. QED
    BY <1>5, <2>5 DEF scores
<1>7. ASSUME NEW s \in t.calls
      PROVE  LET g == graded[Cardinality({i \in Sampled : i <= s.id})]
             IN s.met = Met(g) /\ s.judged = ~g.err
  <2>1. PICK i \in Sampled : s = CallScore(graded, i)
    BY <1>5
  <2>2. PICK k \in 1..n : i = graded[k].id
    BY AllTaken
  <2>3. VerdictOn(graded, i) = graded[k]
    BY <2>2, OwnVerdict
  <2>4. s.id = i /\ s.met = Met(VerdictOn(graded, i)) /\ s.judged = ~VerdictOn(graded, i).err
    BY <2>1 DEF CallScore
  <2>5. Cardinality({j \in Sampled : j <= s.id}) = k
    BY <2>2, <2>4, PlaceOfVerdict
  <2>6. QED
    BY <2>3, <2>4, <2>5
<1>8. ASSUME NEW k \in DOMAIN graded, Met(graded[k]) PROVE DOMAIN graded[k].outcomes = 1..Criteria
  BY <1>8, TheVerdicts, TheTold
<1>9. ASSUME NEW c \in 1..Criteria PROVE t.misses[c].judged = t.judged
  <2>1. {k \in Told(graded) : c \in DOMAIN graded[k].outcomes} = Told(graded)
    BY TheTold
  <2>2. QED
    BY <1>2, <1>3, <2>1
<1>10. t.correlation.worse + t.correlation.better = t.correlation.calls
  <2> DEFINE judged == {s \in t.calls : s.judged /\ s.words # 0}
             worse == {s \in judged : 100 * s.errs > 5 * s.words}
             passed == {s \in judged : s.met}
  <2>1. Correlate(t.calls) = Split(judged, worse, passed)
    BY DEF Correlate
  <2>2. IsFiniteSet(judged)
    <3>1. judged \subseteq t.calls
      OBVIOUS
    <3> HIDE DEF judged
    <3>2. QED
      BY <1>6, <3>1, FS_Subset
  <2>3. worse \subseteq judged /\ passed \subseteq judged
    OBVIOUS
  <2> HIDE DEF judged, worse, passed
  <2>4. QED
    BY <1>2, <2>1, <2>2, <2>3, SplitAddsUp
<1>11. Sampled \subseteq DOMAIN calls
  BY DEF Sampled
<1>12. /\ t.waits.worse + t.waits.better = t.waits.calls /\ t.waits.calls = t.judged
       /\ t.waits.worsePassed + t.waits.betterPassed = t.passed
  BY <1>2, WaitsAddUp
<1>13. WaitOutcome(graded, DOMAIN calls) = t.waits
  BY <1>2, <1>11, WaitsAddUp
<1>14. QED
  BY <1>4, <1>6, <1>7, <1>8, <1>9, <1>10, <1>12, <1>13 DEF GradesAddUp, t

-----------------------------------------------------------------------------
(* The comparison with a person's labels.                                  *)

(* The labels are the verdicts but for the i-th, on criterion c.           *)
DifferAt(i, c) ==
    /\ DOMAIN labels = 1..Len(graded)
    /\ \A k \in 1..Len(graded) :
          /\ labels[k].step = graded[k].step /\ labels[k].id = graded[k].id
          /\ labels[k].err = graded[k].err
    /\ \A k \in Told(graded) :
          /\ DOMAIN labels[k].outcomes = 1..Criteria
          /\ \A x \in 1..Criteria :
                labels[k].outcomes[x] = graded[k].outcomes[x] <=> ~(k = i /\ x = c)

(* The person's label of a call is its verdict, but for one criterion.     *)
LEMMA LabelsDiffer ==
    ASSUME GInv, NEW i \in 1..Len(graded), NEW c \in 1..Criteria, ~graded[i].err,
           labels = [graded EXCEPT ![i].outcomes[c] = ~@]
    PROVE  DifferAt(i, c)
<1>1. DOMAIN graded = 1..Len(graded) /\ graded[i] \in Judgements
  BY TheVerdicts
<1> DEFINE turned == [graded[i].outcomes EXCEPT ![c] = ~@]
<1>2. /\ DOMAIN labels = 1..Len(graded)
      /\ labels[i] = [graded[i] EXCEPT !.outcomes = turned]
      /\ \A k \in 1..Len(graded) : k # i => labels[k] = graded[k]
  BY <1>1
<1>3. graded[i].outcomes \in [1..Criteria -> BOOLEAN]
  BY <1>1, JudgementHolds
<1>4. /\ DOMAIN turned = 1..Criteria /\ turned[c] = ~graded[i].outcomes[c]
      /\ \A x \in 1..Criteria : x # c => turned[x] = graded[i].outcomes[x]
  BY <1>3
<1>5. turned[c] # graded[i].outcomes[c]
  BY <1>3, <1>4
<1> HIDE DEF turned
<1>6. /\ labels[i].step = graded[i].step /\ labels[i].id = graded[i].id
      /\ labels[i].err = graded[i].err /\ labels[i].outcomes = turned
  <2>1. PICK h \in Sampled, a \in Answers : graded[i] = Judgement(h, a)
    BY <1>1 DEF Judgements
  <2>2. DOMAIN graded[i] = {"step", "id", "err", "outcomes"}
    BY <2>1 DEF Judgement
  <2>3. QED
    BY <1>2, <2>2
<1>7. ASSUME NEW k \in Told(graded)
      PROVE  /\ DOMAIN labels[k].outcomes = 1..Criteria
             /\ \A x \in 1..Criteria :
                   labels[k].outcomes[x] = graded[k].outcomes[x] <=> ~(k = i /\ x = c)
  <2>1. CASE k = i
    BY <1>4, <1>5, <1>6, <2>1
  <2>2. CASE k # i
    <3>1. labels[k] = graded[k] /\ DOMAIN graded[k].outcomes = 1..Criteria
      BY <1>2, <2>2, TheTold
    <3>2. QED
      BY <2>2, <3>1
  <2>3. QED
    BY <2>1, <2>2
<1>8. QED
  BY <1>2, <1>6, <1>7 DEF DifferAt

(* Hence one correction is one disagreement.                               *)
LEMMA Corrected == GInv => OneCorrectionIsOneDisagreement
<1> SUFFICES ASSUME GInv, grading = "labelling" PROVE OneCorrectionIsOneDisagreement
  BY DEF OneCorrectionIsOneDisagreement
<1>1. PICK i \in 1..Len(graded), c \in 1..Criteria :
         ~graded[i].err /\ labels = [graded EXCEPT ![i].outcomes[c] = ~@]
  BY DEF GInv, OneCorrected
<1>0. DifferAt(i, c)
  BY <1>1, LabelsDiffer
<1>2. Told(graded) \subseteq 1..Len(graded) /\ IsFiniteSet(Told(graded))
  BY TheTold
<1>3. Told(labels) = Told(graded)
  BY <1>0, TheVerdicts DEF Told, DifferAt
<1>4. ASSUME NEW k \in Told(graded), NEW x \in 1..Criteria
      PROVE  LabelsOn(labels, graded[k], x) = {k} /\ Max({k}) = k
  <2>1. k \in Nat /\ k \in 1..Len(graded)
    BY <1>2
  <2>2. \A l \in Told(graded) :
            /\ labels[l].step = graded[l].step /\ labels[l].id = graded[l].id
            /\ x \in DOMAIN labels[l].outcomes
    BY <1>0, <1>2 DEF DifferAt
  <2>3. \A l \in Told(graded) : graded[l].id = graded[k].id => l = k
    BY <1>2, TheVerdicts
  <2>4. LabelsOn(labels, graded[k], x) = {k}
    BY <1>3, <2>2, <2>3 DEF LabelsOn
  <2>5. Max({k}) = k
    <3>1. k >= k
      BY <2>1
    <3>2. QED
      BY <3>1 DEF Max
  <2>6. QED
    BY <2>4, <2>5
<1> DEFINE both == Told(graded) \X (1..Criteria)
           same == both \ {<<i, c>>}
           a == Agree(graded, labels)
<1>5. /\ a.compared = Cardinality(both) /\ a.agreed = Cardinality(same)
      /\ a.disagreements = Cardinality(both \ same)
  <2> DEFINE compared == {x \in Told(graded) \X (1..Criteria) :
                             /\ x[2] \in DOMAIN graded[x[1]].outcomes
                             /\ LabelsOn(labels, graded[x[1]], x[2]) # {}}
             human(x) == labels[Max(LabelsOn(labels, graded[x[1]], x[2]))].outcomes[x[2]]
             agreed == {x \in compared : graded[x[1]].outcomes[x[2]] = human(x)}
  <2>1. /\ a.compared = Cardinality(compared) /\ a.agreed = Cardinality(agreed)
        /\ a.disagreements = Cardinality(compared \ agreed)
    BY DEF Agree
  <2>2. \A x \in both : /\ x[1] \in Told(graded) /\ x[2] \in 1..Criteria
                         /\ x = <<x[1], x[2]>>
    OBVIOUS
  <2>3. compared = both
    <3> SUFFICES ASSUME NEW x \in both
                 PROVE  /\ x[2] \in DOMAIN graded[x[1]].outcomes
                        /\ LabelsOn(labels, graded[x[1]], x[2]) # {}
      OBVIOUS
    <3>1. LabelsOn(labels, graded[x[1]], x[2]) = {x[1]}
      BY <1>4, <2>2
    <3>2. DOMAIN graded[x[1]].outcomes = 1..Criteria
      BY <2>2, TheTold
    <3>3. QED
      BY <2>2, <3>1, <3>2
  <2>4. \A x \in both : human(x) = labels[x[1]].outcomes[x[2]]
    BY <1>4, <2>2
  <2>5. \A x \in both : graded[x[1]].outcomes[x[2]] = human(x) <=> x # <<i, c>>
    <3>1. \A x \in both : labels[x[1]].outcomes[x[2]] = graded[x[1]].outcomes[x[2]]
                            <=> ~(x[1] = i /\ x[2] = c)
      <4>1. \A k \in Told(graded) :
                /\ DOMAIN labels[k].outcomes = 1..Criteria
                /\ \A y \in 1..Criteria :
                     labels[k].outcomes[y] = graded[k].outcomes[y] <=> ~(k = i /\ y = c)
        BY <1>0 DEF DifferAt
      <4> HIDE DEF both
      <4>2. QED
        BY <2>2, <4>1
    <3>2. \A x \in both : x = <<i, c>> <=> x[1] = i /\ x[2] = c
      BY <2>2
    <3> HIDE DEF both, human
    <3>3. QED
      BY <2>4, <3>1, <3>2
  <2>6. agreed = same
    <3> HIDE DEF human, both, compared
    <3>1. QED
      BY <2>3, <2>5
  <2>7. QED
    BY <2>1, <2>3, <2>6
<1>6. i \in Told(graded) /\ <<i, c>> \in both
  <2>1. i \in Told(graded)
    BY <1>1, TheVerdicts DEF Told
  <2>2. QED
    BY <2>1
<1>7. Criteria \in Nat /\ IsFiniteSet(1..Criteria) /\ Cardinality(1..Criteria) = Criteria
  <2>1. Criteria \in Nat
    BY GradingAssumption
  <2>2. QED
    BY <2>1, FS_Interval
<1>8. IsFiniteSet(both) /\ Cardinality(both) = Cardinality(Told(graded)) * Criteria
  BY <1>2, <1>7, FS_Product
<1>9. both \ same = {<<i, c>>}
  BY <1>6
<1> HIDE DEF both, same, a
<1>10. a.disagreements = 1
  BY <1>5, <1>9, FS_Singleton
<1>11. a.agreed + 1 = a.compared
  <2>1. Cardinality(both) \in Nat
    BY <1>8, FS_CardinalityType
  <2>2. Cardinality(same) = Cardinality(both) - 1
    BY <1>6, <1>8, FS_RemoveElement DEF same
  <2>3. QED
    BY <1>5, <2>1, <2>2
<1>12. SummarizeJudgements(graded, Sampled).judged = Cardinality(Told(graded))
  BY DEF SummarizeJudgements
<1>13. QED
  BY <1>5, <1>8, <1>10, <1>11, <1>12 DEF OneCorrectionIsOneDisagreement, a

(* The edit distance is the fewest edits, the summary of the verdicts adds *)
(* up, and one corrected verdict is one disagreement, whatever was said,   *)
(* heard, answered and sampled: GradesHold.                                *)
THEOREM GradingHolds == GradingSpec => []GradesHold
<1>1. GInv => GradesHold
  <2> SUFFICES ASSUME GInv PROVE GradesHold
    OBVIOUS
  <2>1. EditsAreMinimal
    <3>1. (\E S : line \in Seq(S)) /\ (\E S : heard \in Seq(S))
      BY DEF GInv
    <3>2. QED
      BY <3>1, Minimal
  <2>2. QED
    BY <2>1, AddUp, Corrected DEF GradesHold
<1>2. QED
  BY <1>1, GradingInvariant, PTL
=============================================================================
