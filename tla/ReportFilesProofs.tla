------------------------- MODULE ReportFilesProofs --------------------------
(***************************************************************************)
(* Proofs about the files of a run, for any of the tools, any number of    *)
(* them at once, any number of attempts and any number of faults.          *)
(***************************************************************************)
EXTENDS ReportFiles, TLAPS

-----------------------------------------------------------------------------
(* The inductive invariant.                                                *)

Analysing == {"digest", "compare", "asking", "analysis"}
Publishing == {"judgements", "tmp", "csv", "calls", "rename"}
Came == {"done", "limited", "failed", "dead"}
HasReport == file["report"].is # "absent"

(* Only the load writes the run's evidence, and a file that is open is the *)
(* one its actor is at.                                                    *)
PlaceInv ==
    /\ pc \in [Actors -> {"idle", "read"} \cup Publishing \cup {"report"} \cup Analysing \cup Came]
    /\ open \in [Actors -> BOOLEAN]
    /\ pc["load"] \in Publishing \cup Analysing \cup Came
    /\ \A a \in Tools : pc[a] \in {"idle", "read", "judgements", "report"}
                                     \cup Analysing \cup Came
    /\ \A a \in Actors : open[a] => pc[a] \in Files

(* The load has made whole what it is past, and there is no report before  *)
(* the rename.                                                             *)
LoadInv ==
    /\ file \in [Files -> [is : {"absent", "torn", "whole"}, edits : SUBSET Actors]]
    /\ mine \in [Actors -> SUBSET Actors]
    /\ pc["load"] \in Publishing => ~HasReport
    /\ pc["load"] \in {"csv", "calls", "rename"} => file["tmp"].is = "whole"
    /\ pc["load"] \in {"calls", "rename"} => file["csv"].is = "whole"
    /\ pc["load"] = "rename" => file["calls"].is = "whole"
    /\ MarkerMeansComplete

(* Tools find a report before they start, and an archive too.              *)
ToolInv ==
    /\ \A a \in Tools : pc[a] # "idle" => HasReport
    /\ OnlyARewriteTearsAReport
    /\ reader \in 0..Len(ArchiveOrder)
    /\ reader > 0 => HasReport /\ "report" \in archive
    /\ reader > 1 => "csv" \in archive
    /\ reader > 2 => "calls" \in archive

IInv == PlaceInv /\ LoadInv /\ ToolInv

-----------------------------------------------------------------------------
(* The actors are the load and tools, and the load is not a tool.          *)
LEMMA LoadIsNoTool == "load" \notin Tools /\ Actors = Tools \cup {"load"}
BY FilesAssumption DEF Actors

(* No file is there at first.                                              *)
LEMMA InvInit == FilesInit => IInv
<1> SUFFICES ASSUME FilesInit PROVE IInv
  OBVIOUS
<1> USE LoadIsNoTool DEF FilesInit, NothingWritten, Absent
<1>1. PlaceInv
  BY DEF PlaceInv, Publishing, Analysing, Came
<1>2. file = [f \in Files |-> [is |-> "absent", edits |-> {}]]
  OBVIOUS
<1>3. LoadInv
  BY <1>2 DEF LoadInv, Publishing, HasReport, MarkerMeansComplete, Files
<1>4. ToolInv
  BY <1>2 DEF ToolInv, OnlyARewriteTearsAReport, ArchiveOrder, Files
<1>5. QED
  BY <1>1, <1>3, <1>4 DEF IInv

-----------------------------------------------------------------------------
(* What follows a file.                                                    *)
LEMMA WhatFollows ==
    /\ \A f \in {"judgements", "tmp", "csv", "calls", "report", "analysis"} :
           LoadOrder[f] \in (Publishing \ {"judgements"}) \cup Analysing \cup Came
    /\ \A f \in {"judgements", "report", "analysis"} :
           RewriteOrder[f] \in {"report"} \cup Analysing \cup Came
<1>1. /\ LoadOrder["judgements"] = "tmp" /\ LoadOrder["tmp"] = "csv"
      /\ LoadOrder["csv"] = "calls" /\ LoadOrder["calls"] = "rename"
      /\ LoadOrder["report"] = "digest" /\ LoadOrder["analysis"] = "done"
  BY DEF LoadOrder
<1>2. /\ RewriteOrder["judgements"] = "report" /\ RewriteOrder["report"] = "digest"
      /\ RewriteOrder["analysis"] = "done"
  BY DEF RewriteOrder
<1>3. QED
  BY <1>1, <1>2 DEF Publishing, Analysing, Came

(* A step of one actor leaves the others where they are.                   *)
LEMMA PlaceStep ==
    ASSUME PlaceInv, [FilesNext]_filesVars PROVE PlaceInv'
<1> USE LoadIsNoTool DEF PlaceInv, Publishing, Analysing, Came
<1>1. ASSUME NEW a \in Actors, NEW f \in Files, OpenFile(a, f) PROVE PlaceInv'
  BY <1>1 DEF OpenFile
<1>2. ASSUME NEW a \in Actors, NEW f \in Files, FinishFile(a, f) PROVE PlaceInv'
  <2>1. CASE a = "load"
    <3>1. After(a, f) \in Publishing \cup Analysing \cup Came
      BY <2>1, WhatFollows DEF After, Files
    <3>2. QED
      BY <1>2, <2>1, <3>1 DEF FinishFile, Goes
  <2>2. CASE a \in Tools
    <3>1. f \in {"judgements", "report", "analysis"}
      BY <1>2, <2>2 DEF FinishFile, Files
    <3>2. After(a, f) \in {"report"} \cup Analysing \cup Came
      BY <2>2, <3>1, WhatFollows DEF After
    <3>3. QED
      BY <1>2, <2>2, <3>2 DEF FinishFile, Goes
  <2>3. QED
    BY <2>1, <2>2
<1>3. ASSUME NEW a \in Actors, NEW f \in Files, FailFile(a, f) PROVE PlaceInv'
  <2>1. CASE a = "load"
    BY <1>3, <2>1 DEF FailFile, Goes, AfterFailure, After, LoadOrder
  <2>2. CASE a \in Tools
    BY <1>3, <2>2 DEF FailFile, Goes, AfterFailure, After, RewriteOrder
  <2>3. QED
    BY <2>1, <2>2
<1>4. CASE Rename
  <2>1. /\ pc["load"] = "rename" /\ pc'["load"] \in {"digest", "failed"} /\ open' = open
        /\ pc' \in [Actors -> {"idle", "read"} \cup Publishing \cup {"report"} \cup Analysing \cup Came]
        /\ \A b \in Tools : pc'[b] = pc[b]
    BY <1>4 DEF Rename, Goes
  <2>2. ~open["load"]
    BY <2>1 DEF Files
  <2>3. QED
    BY <2>1, <2>2
<1>5. ASSUME NEW a \in Actors, Start(a) \/ ReadReport(a) PROVE PlaceInv'
  <2>1. /\ pc[a] \in {"idle", "read"} /\ open' = open /\ \A b \in Actors \ {a} : pc'[b] = pc[b]
        /\ pc'[a] \in {"digest", "read", "judgements", "report", "failed"}
        /\ pc' \in [Actors -> {"idle", "read"} \cup Publishing \cup {"report"} \cup Analysing \cup Came]
        /\ a \in Tools
    BY <1>5 DEF Start, ReadReport, Goes
  <2>2. ~open[a]
    BY <2>1 DEF Files
  <2>3. QED
    BY <2>1, <2>2
<1>6. ASSUME NEW a \in Actors, NoModel(a) \/ Digest(a) \/ Compare(a) \/ Ask(a) PROVE PlaceInv'
  <2>1. /\ pc[a] \in {"digest", "compare", "asking"} /\ open' = open
        /\ \A b \in Actors \ {a} : pc'[b] = pc[b]
        /\ pc'[a] \in {"compare", "done", "asking", "analysis", "limited"}
        /\ pc' \in [Actors -> {"idle", "read"} \cup Publishing \cup {"report"} \cup Analysing \cup Came]
    BY <1>6 DEF NoModel, Digest, Compare, Ask, Goes
  <2>2. ~open[a]
    BY <2>1 DEF Files
  <2>3. QED
    BY <2>1, <2>2
<1>7. ASSUME NEW a \in Actors, Crash(a) PROVE PlaceInv'
  BY <1>7 DEF Crash, Goes
<1>8. CASE OpenForArchive \/ UNCHANGED filesVars
  BY <1>8 DEF OpenForArchive, filesVars, actorVars
<1>9. QED
  BY <1>1, <1>2, <1>3, <1>4, <1>5, <1>6, <1>7, <1>8
     DEF FilesNext, ActorStep, Writes

-----------------------------------------------------------------------------
(* What the steps do to the files, and to the report in particular.        *)

(* The steps that touch no file.  A tool that leaves "idle" found a report;*)
(* one that writes it stays there until it has failed or died; the load    *)
(* does not go back to publishing.                                         *)
QuietStep(a) ==
    /\ UNCHANGED <<file, readerVars>>
    /\ mine' \in [Actors -> SUBSET Actors]
    /\ a \in Actors
    /\ \A b \in Actors \ {a} : pc'[b] = pc[b] /\ open'[b] = open[b]
    /\ pc'[a] # "idle"
    /\ a = "load" => pc'[a] \notin Publishing
    /\ a # "load" => pc[a] # "idle" \/ HasReport
    /\ pc[a] \in {"dead", "failed"} => UNCHANGED pc
    /\ pc[a] = "report" /\ open[a] => pc'[a] = "dead"

(* The steps that touch no file of the run.                                *)
LEMMA QuietSteps ==
    ASSUME PlaceInv, LoadInv, NEW a \in Actors,
           \/ Start(a) \/ ReadReport(a) \/ NoModel(a) \/ Digest(a)
           \/ Compare(a) \/ Ask(a) \/ Crash(a)
    PROVE  QuietStep(a)
<1> USE LoadIsNoTool DEF PlaceInv, LoadInv, QuietStep, Goes, Publishing
<1>1. CASE Start(a)
  BY <1>1 DEF Start, HasReport
<1>2. CASE ReadReport(a)
  BY <1>2 DEF ReadReport, Analysing, Came, Files
<1>3. CASE Digest(a)
  BY <1>3 DEF Digest, Files
<1>4. CASE Compare(a)
  BY <1>4 DEF Compare
<1>5. CASE Ask(a)
  BY <1>5 DEF Ask
<1>6. CASE Crash(a)
  BY <1>6 DEF Crash, Active, Over
<1>7. CASE NoModel(a)
  BY <1>7 DEF NoModel
<1>8. QED
  BY <1>1, <1>2, <1>3, <1>4, <1>5, <1>6, <1>7

(* They keep what is said of the files.                                    *)
LEMMA QuietKeeps ==
    ASSUME PlaceInv, LoadInv, ToolInv, NEW a, QuietStep(a) PROVE LoadInv' /\ ToolInv'
<1> USE LoadIsNoTool DEF QuietStep
<1>1. LoadInv'
  BY DEF LoadInv, MarkerMeansComplete, HasReport, Publishing
<1>2. OnlyARewriteTearsAReport'
  BY DEF ToolInv, PlaceInv, OnlyARewriteTearsAReport
<1>3. ToolInv'
  BY <1>2 DEF ToolInv, HasReport, readerVars
<1>4. QED
  BY <1>1, <1>3

(* The load's writing. *)
LEMMA LoadWrites ==
    ASSUME PlaceInv, LoadInv, ToolInv, NEW f \in Files,
           OpenFile("load", f) \/ FinishFile("load", f) \/ FailFile("load", f)
    PROVE  LoadInv' /\ ToolInv'
<1> USE LoadIsNoTool
<1>1. f # "report" /\ pc["load"] = f /\ UNCHANGED readerVars
  BY DEF PlaceInv, Publishing, Analysing, Came, OpenFile, FinishFile, FailFile
<1>2. LoadInv'
  <2> USE DEF LoadInv, MarkerMeansComplete, HasReport, Publishing, Evidence, PlaceInv, Files
  <2>1. CASE OpenFile("load", f)
    BY <1>1, <2>1 DEF OpenFile, Torn
  <2>2. CASE FinishFile("load", f)
    BY <1>1, <2>2 DEF FinishFile, Whole, Goes, After, LoadOrder
  <2>3. CASE FailFile("load", f)
    BY <1>1, <2>3 DEF FailFile, Absent, Goes, AfterFailure, After, LoadOrder
  <2>4. QED
    BY <2>1, <2>2, <2>3
<1>3. file'["report"] = file["report"]
  BY <1>1 DEF OpenFile, FinishFile, FailFile, LoadInv, Files
<1>4. \A b \in Tools : pc'[b] = pc[b] /\ open'[b] = open[b]
  BY DEF OpenFile, FinishFile, FailFile, Goes, PlaceInv
<1>5. ToolInv'
  BY <1>1, <1>3, <1>4 DEF ToolInv, HasReport, OnlyARewriteTearsAReport, readerVars
<1>6. QED
  BY <1>2, <1>5

(* The rename. *)
LEMMA RenameKeeps ==
    ASSUME PlaceInv, LoadInv, ToolInv, Rename PROVE LoadInv' /\ ToolInv'
<1> USE LoadIsNoTool DEF Rename, Goes, PlaceInv
<1>1. \A b \in Tools : pc'[b] = pc[b] /\ open'[b] = open[b]
  OBVIOUS
<1>2. file["tmp"].is = "whole" /\ ~HasReport /\ \A f \in Evidence : file[f].is = "whole"
  BY DEF LoadInv, Publishing, Evidence
<1>3. /\ file'["report"] \in {file["tmp"], file["report"]}
      /\ \A f \in Evidence : file'[f] = file[f]
      /\ file' \in [Files -> [is : {"absent", "torn", "whole"}, edits : SUBSET Actors]]
  BY DEF LoadInv, Files, Evidence, Absent
<1>4. pc'["load"] \in {"digest", "failed"} /\ UNCHANGED <<mine, readerVars>>
  OBVIOUS
<1>5. LoadInv'
  BY <1>2, <1>3, <1>4 DEF LoadInv, Publishing, MarkerMeansComplete
<1>6. ToolInv'
  BY <1>1, <1>2, <1>3, <1>4 DEF ToolInv, HasReport, OnlyARewriteTearsAReport, readerVars
<1>7. QED
  BY <1>5, <1>6

(* A tool's writing never touches the evidence. *)
LEMMA ToolWrites ==
    ASSUME PlaceInv, LoadInv, ToolInv, NEW a \in Tools, NEW f \in Files,
           OpenFile(a, f) \/ FinishFile(a, f) \/ FailFile(a, f)
    PROVE  LoadInv' /\ ToolInv'
<1> USE LoadIsNoTool
<1>1. f \in {"report", "judgements", "analysis"} /\ pc[a] = f /\ UNCHANGED readerVars
  BY DEF PlaceInv, Analysing, Came, OpenFile, FinishFile, FailFile, Files
<1>2. HasReport
  BY <1>1 DEF ToolInv
<1>3. /\ file' \in [Files -> [is : {"absent", "torn", "whole"}, edits : SUBSET Actors]]
      /\ mine' \in [Actors -> SUBSET Actors]
      /\ \A g \in Files \ {f} : file'[g] = file[g]
      /\ file'[f].is # "absent" \/ file'[f] = file[f]
  BY <1>1 DEF LoadInv, OpenFile, FinishFile, FailFile, Torn, Whole, Evidence, Files
<1>4. /\ \A b \in Actors \ {a} : pc'[b] = pc[b] /\ open'[b] = open[b]
      /\ pc'["load"] = pc["load"]
  BY DEF OpenFile, FinishFile, FailFile, Goes, PlaceInv
<1>5. HasReport'
  BY <1>2, <1>3 DEF HasReport, Files
<1>6. LoadInv'
  <2>1. \A g \in {"tmp", "csv", "calls"} : file'[g] = file[g]
    BY <1>1, <1>3 DEF Files
  <2>2. QED
    BY <1>2, <1>3, <1>4, <2>1 DEF LoadInv, MarkerMeansComplete, Evidence, HasReport
<1>7. OnlyARewriteTearsAReport'
  <2>1. SUFFICES ASSUME file'["report"].is = "torn"
                 PROVE  \E b \in Tools : \/ pc'[b] = "report" /\ open'[b]
                                         \/ pc'[b] \in {"dead", "failed"}
    BY DEF OnlyARewriteTearsAReport
  <2>2. CASE OpenFile(a, f)
    <3>1. CASE f = "report"
      BY <1>1, <2>2, <3>1 DEF OpenFile, PlaceInv
    <3>2. CASE f # "report"
      BY <1>1, <1>3, <1>4, <2>1, <2>2, <3>2 DEF OpenFile, ToolInv, OnlyARewriteTearsAReport, Files
    <3>3. QED
      BY <3>1, <3>2
  <2>3. CASE FinishFile(a, f)
    <3>1. f # "report"
      BY <2>1, <2>3 DEF FinishFile, Whole, LoadInv, Files
    <3>2. QED
      BY <1>1, <1>3, <1>4, <2>1, <2>3, <3>1 DEF ToolInv, OnlyARewriteTearsAReport, Files
  <2>4. CASE FailFile(a, f)
    <3>1. f = "report" => pc'[a] = "failed"
      BY <2>4 DEF FailFile, Goes, AfterFailure, PlaceInv
    <3>2. QED
      BY <1>1, <1>3, <1>4, <2>1, <2>4, <3>1 DEF ToolInv, OnlyARewriteTearsAReport, Files
  <2>5. QED
    BY <2>2, <2>3, <2>4
<1>8. ToolInv'
  BY <1>1, <1>5, <1>7 DEF ToolInv, readerVars
<1>9. QED
  BY <1>6, <1>8

(* A request for an archive. *)
LEMMA ArchiveKeeps ==
    ASSUME LoadInv, ToolInv, OpenForArchive PROVE LoadInv' /\ ToolInv'
<1>1. LoadInv'
  BY DEF OpenForArchive, actorVars, LoadInv, HasReport, MarkerMeansComplete
<1>2. OnlyARewriteTearsAReport'
  BY DEF OpenForArchive, actorVars, ToolInv, OnlyARewriteTearsAReport
<1>3. HasReport => file["csv"].is # "absent" /\ file["calls"].is # "absent"
  BY DEF LoadInv, MarkerMeansComplete, HasReport, Evidence
<1>4. ToolInv'
  BY <1>2, <1>3 DEF OpenForArchive, actorVars, ToolInv, HasReport, ArchiveOrder
<1>5. QED
  BY <1>1, <1>4

(* Every step keeps the invariant.                                         *)
LEMMA InvStep == IInv /\ [FilesNext]_filesVars => IInv'
<1> SUFFICES ASSUME IInv, [FilesNext]_filesVars PROVE IInv'
  OBVIOUS
<1> USE DEF IInv
<1>1. PlaceInv'
  BY PlaceStep
<1>2. LoadInv' /\ ToolInv'
  <2>1. ASSUME NEW a \in Actors, NEW f \in Files,
               OpenFile(a, f) \/ FinishFile(a, f) \/ FailFile(a, f)
        PROVE  LoadInv' /\ ToolInv'
    BY <2>1, LoadWrites, ToolWrites, LoadIsNoTool
  <2>2. CASE Rename
    BY <2>2, RenameKeeps
  <2>3. ASSUME NEW a \in Actors,
               \/ Start(a) \/ ReadReport(a) \/ NoModel(a) \/ Digest(a)
               \/ Compare(a) \/ Ask(a) \/ Crash(a)
        PROVE  LoadInv' /\ ToolInv'
    BY <2>3, QuietSteps, QuietKeeps
  <2>4. CASE OpenForArchive
    BY <2>4, ArchiveKeeps
  <2>5. CASE UNCHANGED filesVars
    BY <2>5 DEF filesVars, actorVars, readerVars, LoadInv, ToolInv, HasReport,
                MarkerMeansComplete, OnlyARewriteTearsAReport
  <2>6. QED
    BY <2>1, <2>2, <2>3, <2>4, <2>5 DEF FilesNext, ActorStep, Writes
<1>3. QED
  BY <1>1, <1>2

(* Whoever finds the report of a run finds its evidence whole; the report  *)
(* is torn only by a tool that rewrites it, or that did not survive doing  *)
(* so; and an archive has it all (runLoad's order, rejudge, getArchive). *)
THEOREM RunsArePublishedWhole == FilesSpec => []PublicationIsSafe
<1>1. IInv => PublicationIsSafe
  <2>1. IInv => ArchiveHasTheEvidence
    BY DEF IInv, ToolInv, ArchiveHasTheEvidence, ArchiveOrder, Evidence
  <2>2. QED
    BY <2>1 DEF IInv, LoadInv, ToolInv, PublicationIsSafe
<1>2. FilesSpec => []IInv
  BY InvInit, InvStep, PTL DEF FilesSpec
<1>3. QED
  BY <1>1, <1>2, PTL

-----------------------------------------------------------------------------
(* Tools that take turns: nothing went wrong, and one ran at a time.       *)

InTurn ==
    /\ faults = 0 /\ ~overlapped
    /\ \A a \in Actors : pc[a] \notin {"limited", "failed", "dead"}

(* A report with these edits has what the judgements' file has, and what   *)
(* every tool that is done was run for.                                    *)
Edits == file["report"].edits
HoldsAll(edits) ==
    /\ file["judgements"].is = "whole" => file["judgements"].edits \subseteq edits
    /\ \A a \in Tools \ {"insights"} : pc[a] = "done" => a \in edits

(* The report is such a one; and so is the one its analysis is of.         *)
Published == file["report"].is = "whole" /\ HoldsAll(Edits)
Settled == Published /\ AnalysisKeepsUp(Edits, bare)

(* Whoever is at work has, up to the report's being written, all of it in  *)
(* memory, and after that an analysis to bring up to date, which lacks     *)
(* what it does for want of a model, or for its being still at work.       *)
AtWork(a) ==
    /\ pc[a] \in Publishing \cup {"report"} =>
           HoldsAll(mine[a]) /\ AnalysisKeepsUp(mine[a], bare \cup {a})
    /\ a # "insights" /\ (pc[a] = "report" \/ (pc[a] = "judgements" /\ open[a])) => a \in mine[a]
    /\ pc[a] \in {"csv", "calls", "rename"} => file["tmp"] = Whole(mine[a])
    /\ pc[a] \in Analysing => Published /\ (a \in Tools \ {"insights"} => a \in Edits)
    /\ pc[a] \in {"digest", "compare", "asking"} => AnalysisKeepsUp(Edits, bare \cup {a})
    /\ pc[a] \in {"compare", "asking", "analysis"} => mine[a] = Edits
    /\ pc[a] = "read" => Settled

TurnInv ==
    /\ faults \in Nat
    /\ InTurn =>
           /\ \A a, b \in Actors : Active(a) /\ Active(b) => a = b
           /\ \A a \in Actors : AtWork(a)
           /\ (\A a \in Actors : ~Active(a)) => Settled

(* At first the load run is about to write, and no tool has come.          *)
LEMMA TurnInit == FilesInit => TurnInv
<1> SUFFICES ASSUME FilesInit PROVE TurnInv
  OBVIOUS
<1>1. /\ pc["load"] \in {"judgements", "tmp"} /\ \A a \in Tools : pc[a] = "idle"
      /\ Actors = Tools \cup {"load"} /\ "load" \notin Tools
      /\ mine = [a \in Actors |-> {}] /\ open = [a \in Actors |-> FALSE]
      /\ file["judgements"] = Absent /\ file["analysis"] = Absent /\ faults = 0
  BY LoadIsNoTool DEF FilesInit, NothingWritten, Files
<1>2. HoldsAll({})
  BY <1>1 DEF HoldsAll, Absent
<1>6. \A a \in Actors : AnalysisKeepsUp({}, bare \cup {a})
  BY <1>1 DEF AnalysisKeepsUp, Absent
<1>3. \A a \in Actors : AtWork(a)
  BY <1>1, <1>2, <1>6 DEF AtWork, Analysing, Publishing
<1>4. Active("load") /\ \A a \in Tools : ~Active(a)
  BY <1>1 DEF Active, Over
<1>5. QED
  BY <1>1, <1>3, <1>4 DEF TurnInv

(* What took turns after a step took turns before it, and nothing failed.  *)
LEMMA TurnsBefore ==
    ASSUME PlaceInv, faults \in Nat, [FilesNext]_filesVars
    PROVE  faults' \in Nat /\ (InTurn' => InTurn /\ faults' = faults)
<1> USE DEF InTurn
<1>0. pc \in [Actors -> {"idle", "read"} \cup Publishing \cup {"report"} \cup Analysing \cup Came]
  BY DEF PlaceInv
<1>1. Fault => faults' \in Nat /\ faults' # 0
  BY DEF Fault
<1>2. NoFault => faults' \in Nat /\ faults' = faults
  BY DEF NoFault
<1>3. ASSUME NEW a \in Actors, pc[a] \notin {"limited", "failed", "dead"},
             \A b \in Actors \ {a} : pc'[b] = pc[b],
             overlapped => overlapped', faults' = faults
      PROVE  InTurn' => InTurn
  BY <1>3
<1>4. ASSUME NEW a \in Actors, NEW f \in Files, OpenFile(a, f) \/ FinishFile(a, f)
      PROVE  faults' \in Nat /\ (InTurn' => InTurn /\ faults' = faults)
  <2>1. /\ pc[a] = f /\ pc[a] \notin {"limited", "failed", "dead"} /\ overlapped' = overlapped
        /\ NoFault
    BY <1>4 DEF OpenFile, FinishFile, Files
  <2>2. \A b \in Actors \ {a} : pc'[b] = pc[b]
    BY <1>0, <1>4 DEF OpenFile, FinishFile, Goes
  <2>3. QED
    BY <1>2, <1>3, <2>1, <2>2
<1>5. ASSUME NEW a \in Actors, NEW f, FailFile(a, f) \/ Crash(a)
      PROVE  faults' \in Nat /\ (InTurn' => InTurn /\ faults' = faults)
  BY <1>1, <1>5 DEF FailFile, Crash
<1>6. CASE Rename
  <2>1. CASE Fault
    BY <1>1, <2>1
  <2>2. CASE NoFault
    <3>1. pc["load"] = "rename" /\ overlapped' = overlapped
      BY <1>6 DEF Rename
    <3>2. \A b \in Actors \ {"load"} : pc'[b] = pc[b]
      BY <1>0, <1>6 DEF Rename, Goes
    <3>3. QED
      BY <1>2, <1>3, <2>2, <3>1, <3>2, LoadIsNoTool
  <2>3. Fault \/ NoFault
    BY <1>6 DEF Rename, Fault, NoFault
  <2>4. QED
    BY <2>1, <2>2, <2>3
<1>7. ASSUME NEW a \in Actors,
             Start(a) \/ ReadReport(a) \/ NoModel(a) \/ Digest(a) \/ Compare(a)
      PROVE  faults' \in Nat /\ (InTurn' => InTurn /\ faults' = faults)
  <2>1. pc[a] \in {"idle", "read", "digest", "compare"}
    BY <1>7 DEF Start, ReadReport, NoModel, Digest, Compare
  <2>4. NoFault
    BY <1>7 DEF Start, ReadReport, NoModel, Digest, Compare
  <2>5. overlapped => overlapped'
    BY <1>7 DEF Start, ReadReport, NoModel, Digest, Compare
  <2>2. \A b \in Actors \ {a} : pc'[b] = pc[b]
    BY <1>0, <1>7 DEF Start, ReadReport, NoModel, Digest, Compare, Goes
  <2>3. QED
    BY <1>2, <1>3, <2>1, <2>2, <2>4, <2>5
<1>8. ASSUME NEW a \in Actors, Ask(a)
      PROVE  faults' \in Nat /\ (InTurn' => InTurn /\ faults' = faults)
  <2>1. CASE Fault
    BY <1>1, <2>1
  <2>2. CASE NoFault
    <3>1. pc[a] = "asking" /\ overlapped' = overlapped
      BY <1>8 DEF Ask
    <3>2. \A b \in Actors \ {a} : pc'[b] = pc[b]
      BY <1>0, <1>8 DEF Ask, Goes
    <3>3. QED
      BY <1>2, <1>3, <2>2, <3>1, <3>2
  <2>3. Fault \/ NoFault
    BY <1>8 DEF Ask, Fault, NoFault
  <2>4. QED
    BY <2>1, <2>2, <2>3
<1>9. CASE OpenForArchive \/ UNCHANGED filesVars
  BY <1>9 DEF OpenForArchive, filesVars, actorVars
<1>10. QED
  BY <1>4, <1>5, <1>6, <1>7, <1>8, <1>9 DEF FilesNext, ActorStep, Writes

(* When one is at work, it is enough to look at that one. *)
LEMMA OneAtWork ==
    ASSUME PlaceInv', NEW a \in Actors,
           \A b \in Actors \ {a} : ~Active(b)',
           Active(a)' => AtWork(a)',
           ~Active(a)' => Settled',
           faults' \in Nat
    PROVE  TurnInv'
<1>1. ASSUME NEW b \in Actors, ~Active(b)'
      PROVE  AtWork(b)'
  <2>1. pc'[b] \in {"idle", "done", "limited", "failed", "dead"}
    BY <1>1 DEF Active, Over
  <2>2. QED
    BY <2>1 DEF AtWork, Publishing, Analysing
<1>2. \A b \in Actors : AtWork(b)'
  BY <1>1
<1>3. QED
  BY <1>2 DEF TurnInv

(* The one at work goes on, or is done.  What it leaves is judged by it.   *)
LEMMA TurnStep ==
    ASSUME IInv, IInv', TurnInv, [FilesNext]_filesVars
    PROVE  TurnInv'
<1>0. /\ PlaceInv /\ PlaceInv' /\ LoadInv /\ faults \in Nat /\ faults' \in Nat
      /\ (InTurn' => InTurn /\ faults' = faults)
  BY TurnsBefore DEF IInv, TurnInv
<1>1. SUFFICES ASSUME InTurn'
               PROVE  TurnInv'
  BY <1>0 DEF TurnInv
<1>2. /\ InTurn /\ faults' = faults /\ faults = 0 /\ ~overlapped'
      /\ \A b \in Actors : pc'[b] \notin {"limited", "failed", "dead"}
      /\ \A b, c \in Actors : Active(b) /\ Active(c) => b = c
      /\ \A b \in Actors : AtWork(b)
      /\ (\A b \in Actors : ~Active(b)) => Settled
      /\ ~Fault
  BY <1>0, <1>1 DEF TurnInv, InTurn, Fault
<1>3. /\ pc \in [Actors -> {"idle", "read"} \cup Publishing \cup {"report"} \cup Analysing \cup Came]
      /\ open \in [Actors -> BOOLEAN] /\ mine \in [Actors -> SUBSET Actors]
      /\ file \in [Files -> [is : {"absent", "torn", "whole"}, edits : SUBSET Actors]]
      /\ {"report", "judgements", "analysis", "tmp", "csv", "calls"} = Files
  BY <1>0 DEF PlaceInv, LoadInv, Files
<1>4. ASSUME NEW a \in Actors, Active(a), \A b \in Actors \ {a} : pc'[b] = pc[b],
             Active(a)' => AtWork(a)', ~Active(a)' => Settled'
      PROVE  TurnInv'
  <2>1. \A b \in Actors \ {a} : ~Active(b)'
    BY <1>2, <1>4 DEF Active
  <2>2. QED
    BY <1>0, <1>4, <2>1, OneAtWork
<1>5. ASSUME NEW a \in Actors, NEW f \in Files, OpenFile(a, f)
      PROVE  TurnInv'
  <2>1. /\ pc[a] = f /\ pc' = pc /\ Active(a) /\ Active(a)'
        /\ file' = [file EXCEPT ![f] = Torn]
        /\ mine' = [mine EXCEPT ![a] = IF f = "judgements" THEN @ \cup {a} ELSE @]
        /\ bare' = bare
    BY <1>5 DEF OpenFile, Active, Over, Files
  <2>2. AtWork(a)
    BY <1>2
  <2>3. file'[f].is = "torn" /\ \A g \in Files \ {f} : file'[g] = file[g]
    BY <1>3, <2>1 DEF Torn
  <2>4. mine[a] \subseteq mine'[a] /\ (f = "judgements" => a \in mine'[a])
        /\ (f # "judgements" => mine'[a] = mine[a])
    BY <1>3, <2>1
  <2>5. ASSUME NEW X, NEW Y, HoldsAll(X), X \subseteq Y
        PROVE  HoldsAll(Y)'
    BY <1>3, <2>1, <2>3, <2>5 DEF HoldsAll
  <2>6. pc[a] \in Publishing \cup {"report"} =>
            HoldsAll(mine[a])' /\ AnalysisKeepsUp(mine[a], bare \cup {a})'
    <3>1. ASSUME pc[a] \in Publishing \cup {"report"}
          PROVE  AnalysisKeepsUp(mine[a], bare \cup {a})'
      <4>1. file'["analysis"] = file["analysis"]
        BY <1>3, <2>1, <2>3, <3>1 DEF Publishing
      <4>2. mine'[a] \subseteq mine[a] \cup {a}
        BY <1>3, <2>1
      <4>3. AnalysisKeepsUp(mine[a], bare \cup {a})
        BY <2>2, <3>1 DEF AtWork
      <4>4. QED
        BY <2>1, <2>4, <4>1, <4>2, <4>3 DEF AnalysisKeepsUp
    <3>2. QED
      BY <2>1, <2>2, <2>4, <2>5, <3>1 DEF AtWork
  <2>7. a # "insights" /\ (pc[a] = "report" \/ pc[a] = "judgements") => a \in mine'[a]
    BY <2>1, <2>2, <2>4 DEF AtWork
  <2>8. pc[a] \in {"csv", "calls", "rename"} => file'["tmp"] = Whole(mine'[a])
    BY <1>3, <2>1, <2>2, <2>3, <2>4 DEF AtWork
  <2>9. CASE pc[a] = "analysis"
    <3>1. file'["report"] = file["report"] /\ Published /\ mine[a] = Edits /\ mine'[a] = mine[a]
      BY <1>3, <2>1, <2>2, <2>3, <2>4, <2>9 DEF AtWork, Analysing
    <3>2. Edits' = Edits /\ Published'
      BY <2>5, <3>1 DEF Published, Edits
    <3>3. QED
      BY <2>1, <2>2, <2>9, <3>1, <3>2, <1>4 DEF AtWork, Analysing, Publishing
  <2>10. CASE pc[a] # "analysis"
    <3>1. pc[a] \notin Analysing /\ pc[a] # "read"
      BY <1>3, <2>1, <2>10 DEF Analysing
    <3>2. AtWork(a)'
      BY <2>1, <2>6, <2>7, <2>8, <3>1 DEF AtWork, Analysing
    <3>3. QED
      BY <2>1, <3>2, <1>4
  <2>11. QED
    BY <2>9, <2>10
<1>6. ASSUME NEW a \in Actors, NEW f \in Files, FinishFile(a, f)
      PROVE  TurnInv'
  <2>1. /\ pc[a] = f /\ open[a] /\ Active(a) /\ mine' = mine /\ bare' = bare
        /\ file' = [file EXCEPT ![f] = Whole(mine[a])]
        /\ pc' = [pc EXCEPT ![a] = After(a, f)]
    BY <1>6 DEF FinishFile, Active, Over, Files, Goes
  <2>2. AtWork(a) /\ pc'[a] = After(a, f) /\ \A b \in Actors \ {a} : pc'[b] = pc[b]
    BY <1>2, <1>3, <2>1
  <2>3. file'[f] = Whole(mine[a]) /\ \A g \in Files \ {f} : file'[g] = file[g]
    BY <1>3, <2>1
  <2>4. file'[f].is = "whole" /\ file'[f].edits = mine[a]
    BY <2>3 DEF Whole
  <2>5. ASSUME HoldsAll(mine[a]), a \in Tools \ {"insights"} /\ pc'[a] = "done" => a \in mine[a]
        PROVE  HoldsAll(mine[a])'
    <3>1. file'["judgements"].is = "whole" => file'["judgements"].edits \subseteq mine[a]
      BY <1>3, <2>3, <2>4, <2>5 DEF HoldsAll
    <3>2. QED
      BY <2>1, <2>2, <2>5, <3>1, LoadIsNoTool DEF HoldsAll
  <2>6. CASE f \in {"judgements", "tmp", "csv", "calls"}
    <3>1. /\ HoldsAll(mine[a]) /\ (f = "judgements" /\ a # "insights" => a \in mine[a])
          /\ AnalysisKeepsUp(mine[a], bare \cup {a})
      BY <2>1, <2>2, <2>6 DEF AtWork, Publishing
    <3>2. /\ pc'[a] \in {"tmp", "csv", "calls", "rename", "report"}
          /\ f = "judgements" => pc'[a] \in {"tmp", "report"}
          /\ pc'[a] \in {"csv", "calls", "rename"} => f \in {"tmp", "csv", "calls"}
          /\ pc'[a] = "report" => f = "judgements"
          /\ pc'[a] = "csv" => f = "tmp"
      BY <1>0, <2>1, <2>2, <2>6, LoadIsNoTool DEF After, LoadOrder, RewriteOrder, PlaceInv, Analysing, Came
    <3>3. pc'[a] \in {"csv", "calls", "rename"} => file'["tmp"] = Whole(mine[a])
      BY <1>3, <2>1, <2>2, <2>3, <2>6, <3>2 DEF AtWork
    <3>4. HoldsAll(mine[a])' /\ Active(a)'
      BY <2>5, <3>1, <3>2 DEF Active, Over
    <3>7. AnalysisKeepsUp(mine[a], bare \cup {a})'
      BY <1>3, <2>1, <2>2, <2>3, <2>6, <3>1, <3>2 DEF AnalysisKeepsUp
    <3>5. AtWork(a)'
      BY <2>1, <3>1, <3>2, <3>3, <3>4, <3>7 DEF AtWork, Analysing
    <3>6. QED
      BY <1>4, <2>1, <2>2, <3>4, <3>5
  <2>7. CASE f = "report"
    <3>1. a \in Tools /\ pc'[a] = "digest"
      BY <1>0, <2>1, <2>2, <2>7, LoadIsNoTool DEF After, RewriteOrder, PlaceInv, Publishing, Analysing, Came
    <3>2. /\ HoldsAll(mine[a]) /\ (a # "insights" => a \in mine[a])
          /\ AnalysisKeepsUp(mine[a], bare \cup {a})
      BY <2>1, <2>2, <2>7 DEF AtWork
    <3>3. HoldsAll(mine[a])' /\ Edits' = mine[a] /\ Active(a)'
      BY <2>4, <2>5, <2>7, <3>1, <3>2 DEF Edits, Active, Over
    <3>4. Published'
      BY <2>1, <2>4, <2>7, <3>3 DEF Published, HoldsAll
    <3>7. AnalysisKeepsUp(Edits, bare \cup {a})'
      BY <1>3, <2>1, <2>2, <2>3, <2>7, <3>1, <3>2, <3>3 DEF AnalysisKeepsUp
    <3>5. AtWork(a)'
      BY <3>1, <3>2, <3>3, <3>4, <3>7 DEF AtWork, Publishing
    <3>6. QED
      BY <1>4, <2>1, <2>2, <3>3, <3>5
  <2>8. CASE f = "analysis"
    <3>1. pc'[a] = "done" /\ Published /\ mine[a] = Edits /\ (a \in Tools \ {"insights"} => a \in Edits)
      BY <2>1, <2>2, <2>8 DEF After, LoadOrder, RewriteOrder, AtWork, Analysing
    <3>2. /\ HoldsAll(mine[a])' /\ Edits' = mine[a] /\ file'["report"] = file["report"]
      BY <1>3, <2>3, <2>5, <2>8, <3>1 DEF Edits, Published
    <3>3. AnalysisKeepsUp(Edits, bare)'
      BY <2>4, <2>8, <3>2 DEF AnalysisKeepsUp
    <3>4. Settled' /\ ~Active(a)'
      BY <2>1, <3>1, <3>2, <3>3 DEF Settled, Published, HoldsAll, Active, Over
    <3>5. QED
      BY <1>4, <2>1, <2>2, <3>4
  <2>9. QED
    BY <1>3, <2>6, <2>7, <2>8
<1>7. CASE Rename
  <2>1. /\ pc["load"] = "rename" /\ Active("load") /\ mine' = mine /\ bare' = bare
        /\ pc' = [pc EXCEPT !["load"] = "digest"]
        /\ file' = [file EXCEPT !["report"] = file["tmp"], !["tmp"] = Absent]
    BY <1>2, <1>7 DEF Rename, Active, Over, Goes
  <2>2. AtWork("load") /\ pc'["load"] = "digest" /\ \A b \in Actors \ {"load"} : pc'[b] = pc[b]
    BY <1>2, <1>3, <2>1, LoadIsNoTool
  <2>3. /\ HoldsAll(mine["load"]) /\ file["tmp"] = Whole(mine["load"])
        /\ AnalysisKeepsUp(mine["load"], bare \cup {"load"})
    BY <2>1, <2>2 DEF AtWork, Publishing
  <2>4. /\ file'["report"] = Whole(mine["load"]) /\ file'["judgements"] = file["judgements"]
        /\ file'["analysis"] = file["analysis"]
    BY <1>3, <2>1, <2>3
  <2>5. Edits' = mine["load"] /\ file'["report"].is = "whole"
    BY <2>4 DEF Edits, Whole
  <2>6. HoldsAll(mine["load"])'
    BY <2>1, <2>2, <2>3, <2>4, LoadIsNoTool DEF HoldsAll
  <2>7. AtWork("load")' /\ Active("load")'
    <3>1. Published'
      BY <2>1, <2>5, <2>6 DEF Published, HoldsAll
    <3>2. AnalysisKeepsUp(Edits, bare \cup {"load"})'
      BY <2>1, <2>2, <2>3, <2>4, <2>5 DEF AnalysisKeepsUp
    <3>3. QED
      BY <2>2, <3>1, <3>2, LoadIsNoTool DEF AtWork, Publishing, Active, Over
  <2>8. QED
    BY <1>4, <2>1, <2>2, <2>7, LoadIsNoTool
<1>8. ASSUME NEW a \in Actors, Start(a)
      PROVE  TurnInv'
  <2>1. /\ pc[a] = "idle" /\ pc'[a] \in {"digest", "read"} /\ file' = file /\ bare' = bare
        /\ (pc'[a] = "digest" => a = "insights")
        /\ \A b \in Actors \ {a} : pc'[b] = pc[b]
        /\ a \in Tools
    BY <1>3, <1>8 DEF Start, Goes
  <2>2. \A b \in Actors : ~Active(b)
    BY <1>2, <1>8 DEF Start
  <2>3. Settled
    BY <1>2, <2>2
  <2>4. \A b \in Actors : pc'[b] = "done" <=> pc[b] = "done"
    BY <2>1
  <2>5. Settled'
    BY <2>1, <2>3, <2>4, LoadIsNoTool DEF Settled, Published, HoldsAll, Edits, AnalysisKeepsUp
  <2>8. AnalysisKeepsUp(Edits, bare \cup {a})'
    BY <2>5 DEF Settled, AnalysisKeepsUp
  <2>6. AtWork(a)' /\ Active(a)' /\ \A b \in Actors \ {a} : ~Active(b)'
    BY <2>1, <2>2, <2>5, <2>8 DEF AtWork, Settled, Publishing, Analysing, Active, Over
  <2>7. QED
    BY <1>0, <2>6, OneAtWork
<1>9. ASSUME NEW a \in Actors, ReadReport(a)
      PROVE  TurnInv'
  <2>1. /\ pc[a] = "read" /\ Active(a) /\ file' = file /\ open' = open /\ bare' = bare
        /\ pc'[a] = (IF a = "rejudge" THEN "judgements" ELSE "report")
        /\ mine'[a] = Edits \cup ({a} \cap {"refresh"})
        /\ \A b \in Actors \ {a} : pc'[b] = pc[b]
    BY <1>2, <1>3, <1>9 DEF ReadReport, Goes, Active, Over, Edits
  <2>2. Settled
    BY <1>2, <2>1 DEF AtWork
  <2>3. HoldsAll(Edits)
    BY <2>2 DEF Settled, Published
  <2>4. HoldsAll(mine[a])'
    <3>1. Edits \subseteq mine'[a] /\ \A b \in Actors : pc'[b] = "done" => pc[b] = "done"
      BY <2>1
    <3>2. QED
      BY <2>1, <2>3, <3>1, LoadIsNoTool DEF HoldsAll
  <2>5. a \in Tools
    BY <1>0, <2>1, LoadIsNoTool DEF PlaceInv, Publishing, Analysing, Came
  <2>6. a # "insights" /\ pc'[a] = "report" => a \in mine'[a]
    BY <2>1, <2>5, FilesAssumption
  <2>7. a = "rejudge" => ~open[a]
    BY <1>0, <2>1 DEF PlaceInv, Files
  <2>10. AnalysisKeepsUp(mine[a], bare \cup {a})'
    <3>1. Edits \subseteq mine'[a] /\ mine'[a] \subseteq Edits \cup {a}
      BY <2>1
    <3>2. \A b \in Actors : pc'[b] = "done" => pc[b] = "done"
      BY <2>1
    <3>3. AnalysisKeepsUp(Edits, bare)
      BY <2>2 DEF Settled
    <3>4. QED
      BY <2>1, <3>1, <3>2, <3>3 DEF AnalysisKeepsUp
  <2>8. AtWork(a)' /\ Active(a)'
    BY <2>1, <2>4, <2>6, <2>7, <2>10 DEF AtWork, Analysing, Publishing, Active, Over
  <2>9. QED
    BY <1>4, <2>1, <2>8
<1>10. ASSUME NEW a \in Actors, NoModel(a) \/ Digest(a) \/ Compare(a) \/ Ask(a)
       PROVE  TurnInv'
  <2>1. /\ pc[a] \in {"digest", "compare", "asking"} /\ Active(a) /\ file' = file
        /\ \A b \in Actors \ {a} : pc'[b] = pc[b]
    BY <1>3, <1>10 DEF NoModel, Digest, Compare, Ask, Goes, Active, Over
  <2>2. Published /\ (a \in Tools \ {"insights"} => a \in Edits)
        /\ (pc[a] # "digest" => mine[a] = Edits)
        /\ AnalysisKeepsUp(Edits, bare \cup {a})
    BY <1>2, <2>1 DEF AtWork, Analysing
  <2>3. /\ pc'[a] \in {"compare", "asking", "analysis", "done"}
        /\ pc'[a] # "done" => mine'[a] = Edits /\ bare' = bare
        /\ pc'[a] = "done" => \/ bare' = bare /\ file["analysis"] = Whole(Edits)
                              \/ bare' = bare \cup {a}
    <3>1. CASE Digest(a)
      BY <1>3, <2>2, <3>1 DEF Digest, Goes, Published, Edits
    <3>2. CASE Compare(a)
      BY <1>3, <2>2, <3>2 DEF Compare, Goes
    <3>3. CASE Ask(a)
      BY <1>2, <1>3, <2>2, <3>3 DEF Ask, Goes
    <3>5. CASE NoModel(a)
      BY <1>3, <3>5 DEF NoModel, Goes
    <3>4. QED
      BY <1>10, <3>1, <3>2, <3>3, <3>5
  <2>4. \A b \in Tools \ {"insights"} : pc'[b] = "done" => b \in Edits
    BY <2>1, <2>2, LoadIsNoTool DEF Published, HoldsAll
  <2>5. Published' /\ Edits' = Edits
    BY <2>1, <2>2, <2>4 DEF Published, HoldsAll, Edits
  <2>6. CASE pc'[a] = "done"
    <3>1. ASSUME bare' = bare \cup {a}
          PROVE  AnalysisKeepsUp(Edits, bare)'
      BY <2>1, <2>2, <2>5, <3>1 DEF AnalysisKeepsUp
    <3>2. ASSUME file["analysis"] = Whole(Edits)
          PROVE  AnalysisKeepsUp(Edits, bare)'
      BY <2>1, <2>5, <3>2 DEF AnalysisKeepsUp, Whole
    <3>3. AnalysisKeepsUp(Edits, bare)'
      BY <2>3, <2>6, <3>1, <3>2
    <3>4. QED
      BY <1>4, <2>1, <2>5, <2>6, <3>3 DEF Settled, Active, Over
  <2>7. CASE pc'[a] # "done"
    <3>1. AnalysisKeepsUp(Edits, bare \cup {a})'
      BY <2>1, <2>2, <2>3, <2>5, <2>7 DEF AnalysisKeepsUp
    <3>2. AtWork(a)' /\ Active(a)'
      BY <2>2, <2>3, <2>5, <2>7, <3>1 DEF AtWork, Publishing, Active, Over
    <3>3. QED
      BY <1>4, <2>1, <3>2
  <2>8. QED
    BY <2>6, <2>7
<1>11. ASSUME NEW a \in Actors, NEW f \in Files, Crash(a) \/ FailFile(a, f)
       PROVE  TurnInv'
  BY <1>2, <1>11 DEF Crash, FailFile
<1>12. CASE OpenForArchive \/ UNCHANGED filesVars
  BY <1>12, <1>2 DEF OpenForArchive, filesVars, actorVars, TurnInv, InTurn, Active, AtWork, Settled,
                     Published, HoldsAll, Edits, AnalysisKeepsUp
<1>13. QED
  BY <1>5, <1>6, <1>7, <1>8, <1>9, <1>10, <1>11, <1>12, FilesAssumption
  DEF FilesNext, ActorStep, Writes, Files

(* Tools that are run one after another, in any order and with nothing     *)
(* going wrong, lose nothing of each other's: the report holds what each   *)
(* of them put into it, and its analysis is of just that report, but for   *)
(* what those put in that had no model (rejudge, runRefresh, writeInsights *)
(* and Unchanged).                                                         *)
THEOREM ToolsInTurn == FilesSpec => []ToolsInTurnKeepUp
<1>1. IInv /\ TurnInv => ToolsInTurnKeepUp
  <2>1. SUFFICES ASSUME IInv, TurnInv,
                        faults = 0, ~overlapped, \A a \in Actors : pc[a] \in {"idle", "done"}
                 PROVE  /\ \A a \in Tools \ {"insights"} : pc[a] = "done" => a \in Edits
                        /\ file["judgements"].is = "whole" => file["judgements"].edits \subseteq Edits
                        /\ AnalysisKeepsUp(Edits, bare)
    BY DEF ToolsInTurnKeepUp, Edits
  <2>2. InTurn /\ \A a \in Actors : ~Active(a)
    BY <2>1 DEF InTurn, Active, Over
  <2>3. Settled
    BY <2>1, <2>2 DEF TurnInv
  <2>4. QED
    BY <2>3 DEF Settled, Published, HoldsAll
<1>2. FilesInit => IInv /\ TurnInv
  BY InvInit, TurnInit
<1>3. IInv /\ TurnInv /\ [FilesNext]_filesVars => IInv' /\ TurnInv'
  BY InvStep, TurnStep
<1>4. FilesSpec => [](IInv /\ TurnInv)
  BY <1>2, <1>3, PTL DEF FilesSpec
<1>5. QED
  BY <1>1, <1>4, PTL
=============================================================================
