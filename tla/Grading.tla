------------------------------ MODULE Grading ------------------------------
(***************************************************************************)
(* Grading a run's conversations after the load: which calls are sampled,  *)
(* what counts as a verdict of the judge, how the verdicts are joined back *)
(* onto the calls, how often a misheard or a slow call passed, how the     *)
(* judge compares with a person's labels; and the word errors that         *)
(* mishearing is counted in.  A line is a sequence of words.               *)
(***************************************************************************)
EXTENDS Integers, Sequences, SequencesExt, FiniteSetsExt, Functions

CONSTANTS
    Words,        \* words a caller may say and an agent may hear
    MaxWords,     \* bound on the words of a line
    CallChoices,  \* what a call of the log can be, its request id aside
    Criteria,     \* how many success criteria the scenario has
    Answers,      \* what the model may answer: its outcomes, or Garbled
    Garbled,      \* no answer, or one that is not JSON
    PerStep,      \* -judge-calls: so many of each step, 0 for all
    MinCalls,     \* the fewest calls a split is read from; the code's is 8
    MaxCallsRun   \* bound on the calls of the run

ASSUME GradingAssumption ==
    /\ {MaxWords, PerStep, MinCalls, MaxCallsRun} \subseteq Nat
    /\ Criteria \in Nat \ {0}
    /\ \A a \in Answers : a = Garbled \/ a \in Seq([id : Int, met : BOOLEAN])

VARIABLES
    line, heard,  \* a caller's line and its transcript, word by word
    calls,        \* the calls log; a call's id is its place in it
    graded,       \* the judge's verdicts so far, in the order of the sample
    labels,       \* a person's verdicts on some of them
    grading       \* "calling", "judging", "labelling"

gradingVars == <<line, heard, calls, graded, labels, grading>>

-----------------------------------------------------------------------------
(* judge/wer.go. *)

(* d: the edit distance between the first c[1] words and the first c[2].  *)
Cells(ref, hyp) == (0..Len(ref)) \X (0..Len(hyp))
Distance(ref, hyp) ==
    LET d[c \in Cells(ref, hyp)] ==
            LET i == c[1]
                j == c[2]
            IN IF i = 0 THEN j ELSE IF j = 0 THEN i
               ELSE IF ref[i] = hyp[j] THEN d[<<i - 1, j - 1>>]
               ELSE 1 + Min({d[<<i - 1, j - 1>>], d[<<i - 1, j>>], d[<<i, j - 1>>]})
    IN d

(* align: the walk back from the corner separates the kinds of error. *)
Align(ref, hyp) ==
    LET d == Distance(ref, hyp)
        none == [subs |-> 0, dels |-> 0, ins |-> 0]
        back[c \in Cells(ref, hyp)] ==
            LET i == c[1]
                j == c[2]
                both == <<i - 1, j - 1>>
                word == <<i - 1, j>>
                extra == <<i, j - 1>>
            IN IF i = 0 /\ j = 0 THEN none
               ELSE IF i > 0 /\ j > 0 /\ ref[i] = hyp[j] /\ d[c] = d[both] THEN back[both]
               ELSE IF i > 0 /\ j > 0 /\ d[c] = d[both] + 1
               THEN [back[both] EXCEPT !.subs = @ + 1]
               ELSE IF i > 0 /\ d[c] = d[word] + 1 THEN [back[word] EXCEPT !.dels = @ + 1]
               ELSE [back[extra] EXCEPT !.ins = @ + 1]
    IN back[<<Len(ref), Len(hyp)>>]

(* Score; the rate is errors over words, and 1 when nothing was said. *)
Errors(e) == e.subs + e.dels + e.ins
Score(ref, hyp) ==
    LET e == Align(ref, hyp)
    IN [errors |-> e, words |-> Len(ref),
        over |-> IF ref = <<>> /\ hyp # <<>> THEN [errs |-> 1, of |-> 1]
                 ELSE [errs |-> Errors(e), of |-> Max({Len(ref), 1})]]

-----------------------------------------------------------------------------
(* judgeRun. *)

(* sampleCalls: the first PerStep conversations of each step. *)
Gradable(i) == ~calls[i].failed /\ calls[i].turns # <<>>
Sampled ==
    {i \in DOMAIN calls :
        /\ Gradable(i)
        /\ \/ PerStep = 0
           \/ Cardinality({j \in 1..(i - 1) : Gradable(j) /\ calls[j].step = calls[i].step}) < PerStep}

(* Slip: a criterion the judge skipped is let pass. *)
AcceptsASkip(a) ==
    /\ a # Garbled /\ a # <<>>
    /\ \A i \in DOMAIN a : a[i].id \in 1..Criteria
    /\ \A i, j \in DOMAIN a : a[i].id = a[j].id => i = j

(* judge.Score takes an answer that names every criterion exactly once. *)
Answered(a) ==
    /\ a # Garbled /\ a # <<>>
    /\ \A i \in DOMAIN a : a[i].id \in 1..Criteria
    /\ \A i, j \in DOMAIN a : a[i].id = a[j].id => i = j
    /\ Len(a) = Criteria

Judgement(call, a) ==
    [step |-> calls[call].step, id |-> call, err |-> ~Answered(a),
     outcomes |-> IF ~Answered(a) THEN <<>>
                  ELSE [c \in {a[i].id : i \in DOMAIN a} |-> \E i \in DOMAIN a : a[i].id = c /\ a[i].met]]

(* Judgement.Met *)
Met(g) == ~g.err /\ g.outcomes # <<>> /\ \A c \in DOMAIN g.outcomes : g.outcomes[c]

-----------------------------------------------------------------------------
(* SummarizeJudgements. *)

(* Verdicts and calls are joined by step and request id. *)
SameCall(i, g) == g.step = calls[i].step /\ g.id = i

(* The last verdict stored under a call's key, if there is one. *)
VerdictsOn(js, i) == {k \in DOMAIN js : SameCall(i, js[k])}
HasVerdict(js, i) == VerdictsOn(js, i) # {}
VerdictOn(js, i) == js[Max(VerdictsOn(js, i))]

(* CallScore: errors over words, of the turns that have a transcript. *)
CallScore(js, i) ==
    LET turns == calls[i].turns
        transcribed == {k \in DOMAIN turns : turns[k].heard # <<>>}
        scored(k) == Score(turns[k].said, turns[k].heard)
        g == VerdictOn(js, i)
    IN [id |-> i, step |-> calls[i].step, met |-> Met(g), judged |-> ~g.err,
        words |-> MapThenSumSet(LAMBDA k : scored(k).words, transcribed),
        errs |-> MapThenSumSet(LAMBDA k : Errors(scored(k).errors), transcribed)]

(* Groups of judged calls, how many passed, and whether they are compared. *)
Split(judged, worse, passed) ==
    [calls |-> Cardinality(judged),
     worse |-> Cardinality(worse), worsePassed |-> Cardinality(worse \cap passed),
     better |-> Cardinality(judged \ worse),
     betterPassed |-> Cardinality((judged \ worse) \cap passed),
     conclusive |-> Cardinality(judged) >= MinCalls /\ worse # {} /\ worse # judged]

(* Correlate: misheard means more than 5% of the words. *)
Correlate(scores) ==
    LET judged == {s \in scores : s.judged /\ s.words # 0}
    IN Split(judged, {s \in judged : 100 * s.errs > 5 * s.words}, {s \in judged : s.met})

(* waitOutcome over some calls; a call that waited past the line once is   *)
(* slow.                                                                   *)
WaitOutcome(js, ids) ==
    LET judged == {i \in ids : HasVerdict(js, i) /\ ~VerdictOn(js, i).err}
    IN Split(judged, {i \in judged : \E t \in ToSet(calls[i].turns) : ~t.yielded /\ t.waited},
             {i \in judged : Met(VerdictOn(js, i))})

Told(js) == {k \in DOMAIN js : ~js[k].err}

SummarizeJudgements(js, ids) ==
    LET on(c) == {k \in Told(js) : c \in DOMAIN js[k].outcomes}
        scores == {CallScore(js, i) : i \in {i \in ids : HasVerdict(js, i)}}
    IN [judged |-> Cardinality(Told(js)), errored |-> Len(js) - Cardinality(Told(js)),
        passed |-> Cardinality({k \in Told(js) : Met(js[k])}),
        misses |-> [c \in 1..Criteria |->
            [judged |-> Cardinality(on(c)),
             missed |-> Cardinality({k \in on(c) : ~js[k].outcomes[c]})]],
        calls |-> scores, correlation |-> Correlate(scores), waits |-> WaitOutcome(js, ids)]

-----------------------------------------------------------------------------
(* Agree: a person's labels against the judge's verdicts, criterion by     *)
(* criterion.  Of several labels on one call the last counts.              *)

LabelsOn(ls, g, c) ==
    {k \in Told(ls) : /\ ls[k].step = g.step /\ ls[k].id = g.id
                      /\ c \in DOMAIN ls[k].outcomes}

Agree(js, ls) ==
    LET both == {x \in Told(js) \X (1..Criteria) :
                    /\ x[2] \in DOMAIN js[x[1]].outcomes
                    /\ LabelsOn(ls, js[x[1]], x[2]) # {}}
        human(x) == ls[Max(LabelsOn(ls, js[x[1]], x[2]))].outcomes[x[2]]
        same == {x \in both : js[x[1]].outcomes[x[2]] = human(x)}
    IN [compared |-> Cardinality(both), agreed |-> Cardinality(same),
        disagreements |-> Cardinality(both \ same),
        byCriterion |-> [c \in 1..Criteria |-> Cardinality({x \in both : x[2] = c})]]

-----------------------------------------------------------------------------
GradingInit ==
    /\ line = <<>> /\ heard = <<>>
    /\ calls = <<>> /\ graded = <<>> /\ labels = <<>>
    /\ grading = "calling"

SayWord(w) ==
    /\ grading = "calling" /\ calls = <<>> /\ heard = <<>> /\ Len(line) < MaxWords
    /\ line' = Append(line, w)
    /\ UNCHANGED <<heard, calls, graded, labels, grading>>

HearWord(w) ==
    /\ grading = "calling" /\ calls = <<>> /\ Len(heard) < MaxWords
    /\ heard' = Append(heard, w)
    /\ UNCHANGED <<line, calls, graded, labels, grading>>

LogCall(c) ==
    /\ grading = "calling" /\ line = <<>> /\ heard = <<>> /\ Len(calls) < MaxCallsRun
    /\ calls' = Append(calls, c)
    /\ UNCHANGED <<line, heard, graded, labels, grading>>

(* judgeRun refuses a run without a conversation. *)
StartJudging ==
    /\ grading = "calling" /\ Sampled # {}
    /\ grading' = "judging"
    /\ UNCHANGED <<line, heard, calls, graded, labels>>

(* One call after the other, in the order of the log.                      *)
ToJudge == Sampled \ {graded[k].id : k \in DOMAIN graded}

JudgeCall(a) ==
    /\ grading = "judging" /\ ToJudge # {}
    /\ graded' = Append(graded, Judgement(Min(ToJudge), a))
    /\ UNCHANGED <<line, heard, calls, labels, grading>>

(* A person copies the judgements file and corrects a verdict. *)
LabelCall(i, c) ==
    /\ grading = "judging" /\ ToJudge = {} /\ ~graded[i].err
    /\ labels' = [graded EXCEPT ![i].outcomes[c] = ~@]
    /\ grading' = "labelling"
    /\ UNCHANGED <<line, heard, calls, graded>>

GradingNext ==
    \/ StartJudging
    \/ \E w \in Words : SayWord(w) \/ HearWord(w)
    \/ \E c \in CallChoices : LogCall(c)
    \/ \E a \in Answers : JudgeCall(a)
    \/ \E i \in DOMAIN graded, c \in 1..Criteria : LabelCall(i, c)

GradingSpec == GradingInit /\ [][GradingNext]_gradingVars

-----------------------------------------------------------------------------
(* The word errors of a line are the fewest that any pairing of its words  *)
(* with the transcript's allows, in order; and what is not deleted from    *)
(* one is what was not inserted into the other.                            *)
EditsAreMinimal ==
    LET n == Len(line)
        m == Len(heard)
        e == Score(line, heard).errors
        ordered(P) == \A p, q \in P : p = q \/ (p[1] < q[1] /\ p[2] < q[2])
                                            \/ (q[1] < p[1] /\ q[2] < p[2])
        pairings == {P \in SUBSET ((1..n) \X (1..m)) : ordered(P)}
        cost(P) == n + m - 2 * Cardinality(P)
                   + Cardinality({p \in P : line[p[1]] # heard[p[2]]})
    IN /\ Errors(e) = Min({cost(P) : P \in pairings})
       /\ n - e.dels = m - e.ins /\ e.subs <= n - e.dels

(* No call passes on fewer criteria than the scenario has, no verdict      *)
(* lands on another call, and every sampled call is in one group of each   *)
(* split: the same calls again when a refresh reads the whole log.         *)
GradesAddUp ==
    graded # <<>> /\ ToJudge = {} =>
    LET t == SummarizeJudgements(graded, Sampled)
        split(s) == s.worse + s.better = s.calls
        place(id) == Cardinality({i \in Sampled : i <= id})
    IN /\ t.judged + t.errored = Cardinality(Sampled)
       /\ Cardinality(t.calls) = Cardinality(Sampled)
       /\ \A s \in t.calls : LET g == graded[place(s.id)] IN
            s.met = Met(g) /\ s.judged = ~g.err
       /\ \A k \in DOMAIN graded : Met(graded[k]) => DOMAIN graded[k].outcomes = 1..Criteria
       /\ \A c \in 1..Criteria : t.misses[c].judged = t.judged
       /\ split(t.correlation) /\ split(t.waits) /\ t.waits.calls = t.judged
       /\ t.waits.worsePassed + t.waits.betterPassed = t.passed
       /\ WaitOutcome(graded, DOMAIN calls) = t.waits

(* A person who changes one verdict disagrees once. *)
OneCorrectionIsOneDisagreement ==
    grading = "labelling" =>
        LET a == Agree(graded, labels)
            judged == SummarizeJudgements(graded, Sampled).judged
        IN a.disagreements = 1 /\ a.agreed + 1 = a.compared /\ a.compared = judged * Criteria

GradesHold == EditsAreMinimal /\ GradesAddUp /\ OneCorrectionIsOneDisagreement
=============================================================================
