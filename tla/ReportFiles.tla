---------------------------- MODULE ReportFiles -----------------------------
(***************************************************************************)
(* The files of one run: callstorm writes them once the load is over,      *)
(* -rejudge and -refresh rewrite the report in place, -insights and all    *)
(* the others write analyses from it, and the dashboard reads whatever is  *)
(* there.  Each of these is a process of its own, and may die between any  *)
(* two steps.  A report's content is the set of actors whose verdicts or   *)
(* figures it holds; an analysis' content is that of the report it was     *)
(* written from.                                                           *)
(***************************************************************************)
EXTENDS Naturals, Sequences, FiniteSets

CONSTANTS
    Tools,         \* which of "rejudge", "refresh" and "insights" the user runs
    Attempts,      \* groqAttempts, geminiAttempts
    AtOnce,        \* bound on actors that overlap
    MaxFaults      \* bound on crashes and failed writes and requests

ASSUME FilesAssumption ==
    /\ Tools \subseteq {"rejudge", "refresh", "insights"}
    /\ {Attempts, AtOnce} \subseteq Nat \ {0} /\ MaxFaults \in Nat

Actors == Tools \cup {"load"}
Evidence == {"csv", "calls"}
Files == {"tmp", "report", "csv", "calls", "judgements", "analysis"}

(* What an archive cannot do without.  The chart and the analysis are      *)
(* opened between and after these, and passed over when they are missing.  *)
ArchiveOrder == <<"report", "csv", "calls">>

VARIABLES
    file,          \* each file: "absent", "torn" or "whole", and its content
    pc,            \* where each actor is
    open,          \* it has truncated the file it is writing
    mine,          \* the edits of the report it has in memory, later of the
                   \* report its analysis is to be written from
    attempt,       \* requests made for that analysis
    bare,          \* actors that had no model to write one with
    overlapped,    \* a tool was started before another actor was over
    reader,        \* files a dashboard archive has looked for
    archive,       \* and those it has
    faults

actorVars == <<pc, open, mine, attempt, bare, overlapped>>
readerVars == <<reader, archive>>
filesVars == <<file, actorVars, readerVars, faults>>

Absent == [is |-> "absent", edits |-> {}]
Torn == [is |-> "torn", edits |-> {}]
Whole(edits) == [is |-> "whole", edits |-> edits]

Over == {"idle", "done", "limited", "failed", "dead"}
Active(a) == pc[a] \notin Over

Fault == faults < MaxFaults /\ faults' = faults + 1
NoFault == UNCHANGED faults

NothingWritten ==
    /\ file = [f \in Files |-> Absent]
    /\ open = [a \in Actors |-> FALSE]
    /\ mine = [a \in Actors |-> {}]
    /\ attempt = [a \in Actors |-> 0]
    /\ bare = {}
    /\ overlapped = FALSE
    /\ reader = 0 /\ archive = {}
    /\ faults = 0

(* A load that is over, with -judge or without. *)
FilesInit ==
    /\ NothingWritten
    /\ \E first \in {"judgements", "tmp"} :
         pc = [a \in Actors |-> IF a = "load" THEN first ELSE "idle"]

Goes(a, to) == pc' = [pc EXCEPT ![a] = to]

-----------------------------------------------------------------------------
(* Writing a file, the actor's stage being the file's name: opened and     *)
(* truncated, then whole.                                                  *)

(* Slip: the report is written under its final name. *)
LoadWritesInPlace ==
    [judgements |-> "report", report |-> "csv", csv |-> "calls",
     calls |-> "digest", analysis |-> "done", tmp |-> "report"]

(* What runLoad does after each file.  The chart, whose failure changes    *)
(* nothing, comes between the calls and the rename.                        *)
LoadOrder ==
    [judgements |-> "tmp", tmp |-> "csv", csv |-> "calls", calls |-> "rename",
     report |-> "digest", analysis |-> "done"]

(* Slip: a rejudged report keeps the analysis of its old verdicts. *)
KeepsOldAnalysis == [judgements |-> "report", report |-> "done", analysis |-> "done"]

(* rejudge writes the judgements before the report, and both rewriters a   *)
(* new analysis after it.                                                  *)
RewriteOrder == [judgements |-> "report", report |-> "digest", analysis |-> "done"]

After(a, f) == IF a = "load" THEN LoadOrder[f] ELSE RewriteOrder[f]

(* A judge or an analysis that could not be written does not fail a load;  *)
(* any other failed write ends the process.                                *)
AfterFailure(a, f) ==
    IF f = "analysis" \/ (a = "load" /\ f = "judgements") THEN After(a, f) ELSE "failed"

(* The judge's verdicts are in the report before their file is written.    *)
OpenFile(a, f) ==
    /\ pc[a] = f /\ ~open[a]
    /\ open' = [open EXCEPT ![a] = TRUE]
    /\ file' = [file EXCEPT ![f] = Torn]
    /\ mine' = [mine EXCEPT ![a] = IF f = "judgements" THEN @ \cup {a} ELSE @]
    /\ NoFault
    /\ UNCHANGED <<pc, attempt, bare, overlapped, readerVars>>

FinishFile(a, f) ==
    /\ pc[a] = f /\ open[a]
    /\ file' = [file EXCEPT ![f] = Whole(mine[a])]
    /\ open' = [open EXCEPT ![a] = FALSE]
    /\ Goes(a, After(a, f))
    /\ NoFault
    /\ UNCHANGED <<mine, attempt, bare, overlapped, readerVars>>

(* The marker's temporary file is removed once it has been written.        *)
FailFile(a, f) ==
    /\ pc[a] = f /\ open[a]
    /\ Fault
    /\ open' = [open EXCEPT ![a] = FALSE]
    /\ Goes(a, AfterFailure(a, f))
    /\ file' = [file EXCEPT !["tmp"] =
                    IF a = "load" /\ f \in Evidence THEN Absent ELSE @]
    /\ UNCHANGED <<mine, attempt, bare, overlapped, readerVars>>

(* os.Rename: the marker appears whole, in one step, or not at all. *)
Rename ==
    /\ pc["load"] = "rename"
    /\ \/ /\ NoFault /\ Goes("load", "digest")
          /\ file' = [file EXCEPT !["report"] = file["tmp"], !["tmp"] = Absent]
       \/ /\ Fault /\ Goes("load", "failed")
          /\ file' = [file EXCEPT !["tmp"] = Absent]
    /\ UNCHANGED <<open, mine, attempt, bare, overlapped, readerVars>>

-----------------------------------------------------------------------------
(* The tools. *)

Start(a) ==
    /\ a \in Tools /\ pc[a] = "idle"
    /\ file["report"].is # "absent"
    /\ Cardinality({b \in Actors : Active(b)}) < AtOnce
    /\ Goes(a, IF a = "insights" THEN "digest" ELSE "read")
    /\ overlapped' = (overlapped \/ \E b \in Actors : Active(b))
    /\ NoFault
    /\ UNCHANGED <<file, open, mine, attempt, bare, readerVars>>

(* A report that does not parse is left alone.  The calls log is read      *)
(* after it, and never rewritten.  -refresh recomputes from it what        *)
(* -rejudge adds verdicts to.                                              *)
ReadReport(a) ==
    /\ pc[a] = "read"
    /\ IF file["report"].is = "whole" /\ file["calls"].is = "whole"
       THEN /\ Goes(a, IF a = "rejudge" THEN "judgements" ELSE "report")
            /\ mine' = [mine EXCEPT ![a] =
                   file["report"].edits \cup ({a} \cap {"refresh"})]
       ELSE Goes(a, "failed") /\ UNCHANGED mine
    /\ NoFault
    /\ UNCHANGED <<file, open, attempt, bare, overlapped, readerVars>>

-----------------------------------------------------------------------------
(* writeInsights, for the run; its suite's analysis is written the same    *)
(* way after it, unless a limit ended the batch.                           *)

(* analysisModel: without a key there is none, and the actor is done with  *)
(* the analysis left as it was.  -insights refuses to run without one.     *)
NoModel(a) ==
    /\ pc[a] = "digest" /\ a # "insights"
    /\ Goes(a, "done")
    /\ bare' = bare \cup {a}
    /\ NoFault
    /\ UNCHANGED <<file, open, mine, attempt, overlapped, readerVars>>

(* ForRun: a report that does not parse gets no analysis.                  *)
Digest(a) ==
    /\ pc[a] = "digest"
    /\ IF file["report"].is = "whole"
       THEN Goes(a, "compare") /\ mine' = [mine EXCEPT ![a] = file["report"].edits]
       ELSE Goes(a, "done") /\ UNCHANGED mine
    /\ NoFault
    /\ UNCHANGED <<file, open, attempt, bare, overlapped, readerVars>>

(* Unchanged: an analysis of exactly this data is not asked for again.     *)
Compare(a) ==
    /\ pc[a] = "compare"
    /\ Goes(a, IF file["analysis"] = Whole(mine[a]) THEN "done" ELSE "asking")
    /\ NoFault
    /\ UNCHANGED <<file, open, mine, attempt, bare, overlapped, readerVars>>

(* Slip: a limit is waited out as long as it lasts. *)
AsksForever(a) == FALSE

(* The last attempt ends the batch with ErrLimited. *)
OutOfAttempts(a) == attempt[a] + 1 = Attempts

(* Gemini's Generate: an answer, a limit to wait out, or an error, which   *)
(* costs this analysis only.                                               *)
Ask(a) ==
    /\ pc[a] = "asking"
    /\ \/ NoFault /\ Goes(a, "analysis") /\ attempt' = [attempt EXCEPT ![a] = 0]
       \/ /\ NoFault
          /\ IF OutOfAttempts(a)
             THEN Goes(a, "limited") /\ attempt' = [attempt EXCEPT ![a] = 0]
             ELSE attempt' = [attempt EXCEPT ![a] = (@ + 1) % Attempts] /\ UNCHANGED pc
       \/ Fault /\ Goes(a, "done") /\ attempt' = [attempt EXCEPT ![a] = 0]
    /\ UNCHANGED <<file, open, mine, bare, overlapped, readerVars>>

(* The process dies, or is killed, where it is. *)
Crash(a) ==
    /\ Active(a) /\ Fault
    /\ Goes(a, "dead")
    /\ open' = [open EXCEPT ![a] = FALSE]
    /\ UNCHANGED <<file, mine, attempt, bare, overlapped, readerVars>>

-----------------------------------------------------------------------------
(* The dashboard's getArchive opens the report, then what there is of the  *)
(* rest; a request for a run that is not there is refused.                 *)
OpenForArchive ==
    /\ reader < Len(ArchiveOrder)
    /\ LET f == ArchiveOrder[reader + 1] IN
       /\ f = "report" => file[f].is # "absent"
       /\ archive' = IF file[f].is = "absent" THEN archive ELSE archive \cup {f}
    /\ reader' = reader + 1
    /\ UNCHANGED <<file, actorVars, faults>>

Writes(a) == \E f \in Files : OpenFile(a, f) \/ FinishFile(a, f)

ActorStep(a) ==
    \/ a = "load" /\ Rename
    \/ ReadReport(a) \/ NoModel(a) \/ Digest(a) \/ Compare(a) \/ Ask(a) \/ Writes(a)

FilesNext ==
    \/ OpenForArchive
    \/ \E a \in Actors : ActorStep(a) \/ Start(a) \/ Crash(a)
    \/ \E a \in Actors, f \in Files : FailFile(a, f)

FilesFairness == \A a \in Actors : WF_filesVars(ActorStep(a))

FilesSpec == FilesInit /\ [][FilesNext]_filesVars /\ FilesFairness

-----------------------------------------------------------------------------
FilesTypeOK ==
    /\ file \in [Files -> [is : {"absent", "torn", "whole"}, edits : SUBSET Actors]]
    /\ pc \in [Actors -> Over \cup Files \cup
                   {"rename", "read", "digest", "compare", "asking"}]
    /\ open \in [Actors -> BOOLEAN]
    /\ mine \in [Actors -> SUBSET Actors]
    /\ attempt \in [Actors -> 0..Attempts]
    /\ bare \subseteq Actors /\ overlapped \in BOOLEAN
    /\ reader \in 0..Len(ArchiveOrder) /\ archive \subseteq Files
    /\ faults \in 0..MaxFaults

(* The report marks its run as complete: whoever finds it finds the files  *)
(* it stands for, whole, wherever the load died or failed ("retrieval      *)
(* never sees a half-written run").                                        *)
MarkerMeansComplete ==
    file["report"].is # "absent" => \A f \in Evidence : file[f].is = "whole"

(* Publishing never shows half a report: one that does not parse is being  *)
(* rewritten by a tool, or a tool died or failed in the middle.            *)
OnlyARewriteTearsAReport ==
    file["report"].is = "torn" =>
        \E a \in Tools : (pc[a] = "report" /\ open[a]) \/ pc[a] \in {"dead", "failed"}

(* An archive asked for while the run is being published has all of its    *)
(* evidence, or is refused.                                                *)
ArchiveHasTheEvidence ==
    reader = Len(ArchiveOrder) => Evidence \cup {"report"} \subseteq archive

(* Publication as a reader of the runs directory meets it: the marker,    *)
(* the report behind it and the archive of the run.                        *)
PublicationIsSafe ==
    MarkerMeansComplete /\ OnlyARewriteTearsAReport /\ ArchiveHasTheEvidence

(* The analysis tells nothing that these edits do not hold, lacks only     *)
(* those of the spared, and is there once anyone with a model was done.    *)
AnalysisKeepsUp(edits, spared) ==
    LET told == file["analysis"].edits IN
    /\ told \subseteq edits /\ edits \ told \subseteq spared
    /\ \A a \in Actors \ bare : pc[a] = "done" => file["analysis"].is = "whole"

(* Tools run one after another lose nothing of each other's: the report    *)
(* holds what each of them and the load put into it.  Its analysis was     *)
(* written from just that ("an analysis written from the old ones is       *)
(* stale"), but for what was put in since by those who had no model ("a    *)
(* run without one is not an error, only a run without an analysis").      *)
ToolsInTurnKeepUp ==
    faults = 0 /\ ~overlapped /\ (\A a \in Actors : pc[a] \in {"idle", "done"}) =>
        LET edits == file["report"].edits IN
        /\ \A a \in Tools \ {"insights"} : pc[a] = "done" => a \in edits
        /\ file["judgements"].is = "whole" => file["judgements"].edits \subseteq edits
        /\ AnalysisKeepsUp(edits, bare)

(* No actor waits for ever, whatever the provider of the analyses says. *)
EveryActorEnds == \A a \in Actors : Active(a) ~> pc[a] \in Over
=============================================================================
