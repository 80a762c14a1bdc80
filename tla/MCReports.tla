----------------------------- MODULE MCReports ------------------------------
(***************************************************************************)
(* Small instances of what becomes of a load run's calls: the figures of a *)
(* step, the verdicts on the steps, the grading of the conversations, and  *)
(* the files all of it is written to.  The four share no variable, so the  *)
(* check looks at one of them at a time and the others rest.               *)
(***************************************************************************)
EXTENDS StepMeasures, Verdicts, Grading, ReportFiles

VARIABLE chosen   \* the component this behaviour is about

vars == <<chosen, measureVars, verdictVars, gradingVars, filesVars>>

-----------------------------------------------------------------------------
(* Turns: one that waits a hair past a line the log rounds it onto, one    *)
(* the agent talked over, a failed one whose wait the log rounds to        *)
(* nothing, and one that was never answered.                               *)
SomeTurns ==
    {[ttfa |-> 2000003, failed |-> FALSE, yielded |-> FALSE, rtt |-> 20000,
      node |-> "ask", check |-> "met", reply |-> <<"a", "b", "c", "d">>],
     [ttfa |-> 900000, failed |-> FALSE, yielded |-> TRUE, rtt |-> 20000,
      node |-> "cut", check |-> "none", reply |-> <<"a">>],
     [ttfa |-> 3, failed |-> TRUE, yielded |-> FALSE, rtt |-> Unmeasured,
      node |-> "ask", check |-> "missed", reply |-> <<"b", "c", "d", "a", "e">>],
     [ttfa |-> 0, failed |-> TRUE, yielded |-> FALSE, rtt |-> Unmeasured,
      node |-> "ask", check |-> "missed", reply |-> <<>>]}

-----------------------------------------------------------------------------
(* Steps a profile may hold: a baseline, a heavier step, a way back, and   *)
(* some that are refused; and what they may measure.                       *)
Names == <<"step-1", "step-2", "step-3">>
LoadStep(name, kind, conc, n, hold) ==
    [name |-> name, kind |-> kind, conc |-> conc, calls |-> n, hold |-> hold]
SomeSteps ==
    {LoadStep("base", "ramp", 1, 0, 0), LoadStep("heavy", "stress", 2, 2, 0),
     LoadStep(Unnamed, "recovery", 1, 0, 60), LoadStep("thin", "ramp", 2, 1, 0),
     LoadStep("both", "soak", 1, 1, 60)}

Of(rate) == [rate |-> rate, n |-> 40]
Call(failed, ttfa) == [failed |-> failed, ttfa |-> ttfa]
Fine == [attempted |-> 100, connected |-> 100, n |-> 40, p50 |-> 8, p95 |-> 10,
         turns |-> 400, failed |-> 0, node |-> Of(900), wer |-> Of(50),
         talk |-> Of(20), timeline |-> <<Call(TRUE, 0), Call(FALSE, 8)>>]
Slow == [Fine EXCEPT !.p50 = 14, !.p95 = 16, !.wer = Of(90), !.talk = Of(120),
                     !.timeline = <<Call(FALSE, 8), Call(FALSE, 14)>>]
Broken == [Fine EXCEPT !.p50 = 20, !.p95 = 30, !.failed = 8, !.node = Of(700),
                       !.timeline = <<Call(FALSE, 20)>>]
Busy == [Fine EXCEPT !.connected = 90, !.failed = 3]
Mute == [Nothing EXCEPT !.attempted = 100, !.connected = 100]
SomeMeasures == {Fine, Slow, Broken, Busy, Mute}
SomeRates == {Of(900), [rate |-> 500, n |-> 40], [rate |-> 0, n |-> 1]}

-----------------------------------------------------------------------------
(* Calls of the log, and what a model may answer about two criteria.       *)
Spoken(said, text, waited, yielded) ==
    [said |-> said, heard |-> text, waited |-> waited, yielded |-> yielded]
LoggedCall(step, failed, turns) == [step |-> step, failed |-> failed, turns |-> turns]
SomeCalls ==
    {LoggedCall("s1", TRUE, <<>>),
     LoggedCall("s1", FALSE, <<Spoken(<<"a", "b">>, <<"a", "b">>, FALSE, FALSE)>>),
     LoggedCall("s1", FALSE, <<Spoken(<<"a", "b">>, <<"b">>, TRUE, FALSE),
                               Spoken(<<"a">>, <<>>, TRUE, TRUE)>>),
     LoggedCall("s2", FALSE, <<Spoken(<<"a">>, <<>>, TRUE, TRUE)>>)}
Says(id, met) == [id |-> id, met |-> met]
SomeAnswers ==
    {Garbled, <<>>, <<Says(1, TRUE)>>, <<Says(1, TRUE), Says(1, TRUE)>>,
     <<Says(1, TRUE), Says(3, TRUE)>>, <<Says(2, TRUE), Says(1, TRUE)>>,
     <<Says(1, TRUE), Says(2, FALSE)>>}

-----------------------------------------------------------------------------
FilesRest == NothingWritten /\ pc = [a \in Actors |-> "dead"]

Init ==
    /\ MeasuresInit /\ VerdictsInit /\ GradingInit
    /\ \/ chosen \in {"measures", "verdicts", "grading"} /\ FilesRest
       \/ chosen = "files" /\ FilesInit
    /\ chosen = "measures" \/ ~fleet

Next ==
    \/ chosen = "measures" /\ MeasuresNext /\ UNCHANGED <<chosen, verdictVars, gradingVars, filesVars>>
    \/ chosen = "verdicts" /\ VerdictsNext /\ UNCHANGED <<chosen, measureVars, gradingVars, filesVars>>
    \/ chosen = "grading" /\ GradingNext /\ UNCHANGED <<chosen, measureVars, verdictVars, filesVars>>
    \/ chosen = "files" /\ FilesNext /\ UNCHANGED <<chosen, measureVars, verdictVars, gradingVars>>

Spec == Init /\ [][Next]_vars /\ FilesFairness
=============================================================================
