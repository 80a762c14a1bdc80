------------------------------ MODULE LocalRun ------------------------------
(***************************************************************************)
(* A load run inside one process: loadgen.Run and runStep place a step's   *)
(* calls from Concurrency goroutines that share one budget, RunMatrix runs *)
(* the profile once per network condition, and runLoad around them flushes *)
(* the turn events and puts the interface back.  A call is one step that   *)
(* starts and one that ends; CallTurn models what happens in between.      *)
(***************************************************************************)
EXTENDS Integers, Sequences, FiniteSetsExt

CONSTANTS
    Steps,         \* the profile: a sequence of [calls, held, slots]
    Conditions,    \* what a network interface may be in, by name
    Clean,         \* the name of the unimpaired control
    CohortLists,   \* what -impairments may hold; <<>> is a run without it
    FoundNetem,    \* what the interface may be in before the run
    TurnsPerCall,  \* turn events a successful call publishes
    HeldCalls,     \* bound on the calls of a held step
    MayCancel,     \* the user may interrupt the run
    MaxFaults      \* bound on refused tc commands, failed produces ...

StepIds == DOMAIN Steps
Slots == 1..Max({Steps[i].slots : i \in StepIds})

(* impair.Cohorts puts the control first and refuses a name that it has    *)
(* met before.                                                             *)
ASSUME LocalAssumption ==
    /\ Steps \in Seq([calls : Nat, held : BOOLEAN, slots : Nat \ {0}])
    /\ Steps # <<>>
    /\ {Clean} \cup FoundNetem \subseteq Conditions
    /\ CohortLists \subseteq Seq(Conditions)
    /\ \A list \in CohortLists :
           /\ list = <<>> \/ list[1] = Clean
           /\ \A i, j \in DOMAIN list : list[i] = list[j] => i = j
    /\ {TurnsPerCall, HeldCalls, MaxFaults} \subseteq Nat
    /\ MayCancel \in BOOLEAN

VARIABLES
    cohorts,       \* the conditions of this run, empty without -impairments
    stage,         \* where runLoad is
    cohort,        \* index into cohorts of the condition being run
    step,          \* index into Steps of the step being run
    cancelled,     \* the run's context is done
    netem,         \* the condition the interface is in
    complained,    \* "could not restore" was printed
    remaining,     \* runStep's shared budget
    expired,       \* the held step's deadline has passed
    slot,          \* what each of the step's goroutines is at
    active,        \* the active_calls gauge
    placed,        \* calls started so far, by cohort and step
    outcomes,      \* runStep's outcomes: how many succeeded and failed
    report,        \* rep.Calls by cohort and step: how many and how many failed
    result,        \* what runLoad returned: "none", "ok" or "error"
    inflight,      \* turn events handed to the client and not yet answered
    storing,       \* the type of an error whose drop is counted, not yet stored
    produced, dropped, lastErr,   \* the producer's counters
    quoted,        \* what the report says of them
    faults         \* faults so far

netVars == <<netem, complained>>
stepVars == <<remaining, expired, slot, active, outcomes>>
busVars == <<inflight, storing, produced, dropped, lastErr>>
callVars == <<placed, report>>
localVars == <<cohorts, stage, cohort, step, cancelled, netVars, stepVars,
               callVars, busVars, quoted, result, faults>>

Matrix == cohorts # <<>>
Condition == IF Matrix THEN cohorts[cohort] ELSE Clean
Key == <<Condition, step>>
Tally == [ok |-> 0, failed |-> 0]
Size(t) == t.ok + t.failed
Keys(list) == (IF list = <<>> THEN {Clean} ELSE {list[i] : i \in DOMAIN list}) \X StepIds

Fault == faults < MaxFaults /\ faults' = faults + 1
NoFault == UNCHANGED faults

(* The concrete types of the errors the client answers with: the broker's, *)
(* and those of the client itself and of a context that is done.           *)
ErrorTypes == {"kerr.Error", "errorString"}
NoError == "none"

Over == {"ended", "panicked"}

NothingRun ==
    /\ cohorts \in CohortLists
    /\ cohort = 1 /\ step = 1
    /\ cancelled = FALSE
    /\ netem \in (IF Matrix THEN FoundNetem ELSE {Clean})
    /\ complained = FALSE
    /\ remaining = 0 /\ expired = FALSE
    /\ slot = [s \in Slots |-> "off"]
    /\ active = 0
    /\ placed = [k \in Keys(cohorts) |-> 0]
    /\ outcomes = Tally
    /\ report = [k \in Keys(cohorts) |-> Tally]
    /\ result = "none"
    /\ inflight = 0 /\ storing = NoError
    /\ produced = 0 /\ dropped = 0 /\ lastErr = NoError
    /\ quoted = [produced |-> 0, dropped |-> 0, err |-> FALSE]
    /\ faults = 0

LocalInit == NothingRun /\ stage = (IF Matrix THEN "applying" ELSE "warming")

-----------------------------------------------------------------------------
(* RunMatrix, with impair.Netem.Apply. *)

(* runLoad returns an error; its deferred restore runs first. *)
Fails ==
    /\ result' = "error"
    /\ stage' = IF Matrix THEN "restoring" ELSE "ended"

(* tc qdisc replace, or del for the control, whose failure is ignored: it  *)
(* also fails when there is nothing to delete.                             *)
ChangeQdisc ==
    /\ stage = "applying"
    /\ \/ ~cancelled /\ NoFault /\ netem' = Condition
       \/ (IF cancelled THEN NoFault ELSE Fault) /\ UNCHANGED netem
    /\ IF netem' = Condition \/ Condition = Clean
       THEN stage' = "verifying" /\ UNCHANGED result
       ELSE Fails
    /\ UNCHANGED <<cohorts, cohort, step, cancelled, complained, stepVars,
                   callVars, busVars, quoted>>

(* tc qdisc show tells whether there is netem on the interface, not which. *)
VerifyQdisc ==
    /\ stage = "verifying"
    /\ \/ /\ ~cancelled /\ NoFault
          /\ IF (Condition = Clean) = (netem = Clean)
             THEN stage' = "warming" /\ UNCHANGED result
             ELSE Fails
       \/ (IF cancelled THEN NoFault ELSE Fault) /\ Fails
    /\ UNCHANGED <<cohorts, cohort, step, cancelled, netVars, stepVars,
                   callVars, busVars, quoted>>

(* warmCache: SpeechCache says what it leaves behind. *)
WarmCache ==
    /\ stage = "warming"
    /\ \/ NoFault /\ stage' = "opening" /\ step' = 1 /\ UNCHANGED result
       \/ Fault /\ Fails /\ UNCHANGED step
    /\ UNCHANGED <<cohorts, cohort, cancelled, netVars, stepVars, callVars,
                   busVars, quoted>>

-----------------------------------------------------------------------------
(* runStep. *)

OpenStep ==
    /\ stage = "opening"
    /\ stage' = "running"
    /\ remaining' = Steps[step].calls
    /\ expired' = FALSE
    /\ slot' = [s \in Slots |-> IF s <= Steps[step].slots THEN "checking" ELSE "off"]
    /\ outcomes' = Tally
    /\ UNCHANGED <<cohorts, cohort, step, cancelled, netVars, active, callVars,
                   busVars, quoted, result, faults>>

Expire ==
    /\ stage = "running" /\ Steps[step].held /\ ~expired
    /\ expired' = TRUE
    /\ UNCHANGED <<cohorts, stage, cohort, step, cancelled, netVars, remaining,
                   slot, active, outcomes, callVars, busVars, quoted, result, faults>>

StartCall(s) ==
    /\ slot' = [slot EXCEPT ![s] = "calling"]
    /\ active' = active + 1
    /\ placed' = [placed EXCEPT ![Key] = @ + 1]

StopSlot(s) ==
    /\ slot' = [slot EXCEPT ![s] = "done"]
    /\ UNCHANGED <<active, placed>>

(* more: the context, then the deadline of a held step ... *)
CheckBudget(s) ==
    /\ stage = "running" /\ slot[s] = "checking"
    /\ \/ (cancelled \/ (Steps[step].held /\ expired)) /\ StopSlot(s)
       \/ /\ ~cancelled /\ Steps[step].held /\ ~expired
          /\ placed[Key] < HeldCalls
          /\ StartCall(s)
       \/ /\ ~cancelled /\ ~Steps[step].held
          /\ slot' = [slot EXCEPT ![s] = "drawing"]
          /\ UNCHANGED <<active, placed>>
    /\ UNCHANGED <<cohorts, stage, cohort, step, cancelled, netVars, remaining,
                   expired, outcomes, report, busVars, quoted, result, faults>>

(* Slip: a budget is spent one call too late. *)
DrawsOneTooMany == remaining' >= -1

(* remaining.Add(-1) >= 0. *)
BudgetLasts == remaining' >= 0

(* ... or the budget, drawn in one atomic addition. *)
DrawCall(s) ==
    /\ stage = "running" /\ slot[s] = "drawing"
    /\ remaining' = remaining - 1
    /\ IF BudgetLasts THEN StartCall(s) ELSE StopSlot(s)
    /\ UNCHANGED <<cohorts, stage, cohort, step, cancelled, netVars, expired,
                   outcomes, report, busVars, quoted, result, faults>>

(* worker.Run returns.  A call that failed publishes nothing. *)
EndCall(s) ==
    /\ slot[s] = "calling"
    /\ active' = active - 1
    /\ \/ NoFault /\ slot' = [slot EXCEPT ![s] = "publishing"]
       \/ (IF cancelled THEN NoFault ELSE Fault) /\ slot' = [slot EXCEPT ![s] = "failed"]
    /\ UNCHANGED <<cohorts, stage, cohort, step, cancelled, netVars, remaining,
                   expired, outcomes, callVars, busVars, quoted, result>>

(* Publish hands the call's turns to the Kafka client and does not wait    *)
(* for answers.  With -impairments there is no producer and nothing to do. *)
Publish(s) ==
    /\ slot[s] = "publishing"
    /\ slot' = [slot EXCEPT ![s] = "ok"]
    /\ inflight' = IF Matrix THEN inflight ELSE inflight + TurnsPerCall
    /\ UNCHANGED <<cohorts, stage, cohort, step, cancelled, netVars, remaining,
                   expired, active, outcomes, callVars, storing, produced,
                   dropped, lastErr, quoted, result, faults>>

(* The outcome joins the step's, under the mutex, and the slot asks again. *)
FileOutcome(s) ==
    /\ slot[s] \in {"ok", "failed"}
    /\ outcomes' = [outcomes EXCEPT ![slot[s]] = @ + 1]
    /\ slot' = [slot EXCEPT ![s] = "checking"]
    /\ UNCHANGED <<cohorts, stage, cohort, step, cancelled, netVars, remaining,
                   expired, active, callVars, busVars, quoted, result, faults>>

(* Slip: slots that the step does not have are waited for. *)
WaitsForEverySlot == \A s \in Slots : slot[s] = "done"

(* wg.Wait. *)
SlotsStopped == \A s \in Slots : slot[s] \in {"done", "off"}

(* rep.Calls = append(rep.Calls, callRecords(outcomes)...), tagged later.  *)
KeepsCalls(r) == [r EXCEPT ![Key] = outcomes]

(* The step's report and its calls join the run's. *)
CloseStep ==
    /\ stage = "running" /\ SlotsStopped
    /\ report' = KeepsCalls(report)
    /\ IF cancelled \/ step = Len(Steps)
       THEN stage' = "scoring" /\ UNCHANGED step
       ELSE stage' = "opening" /\ step' = step + 1
    /\ UNCHANGED <<cohorts, cohort, cancelled, netVars, stepVars, placed,
                   busVars, quoted, result, faults>>

(* Run scores the steps and returns; RunMatrix goes on to the next         *)
(* condition unless the run was interrupted.                               *)
Score ==
    /\ stage = "scoring"
    /\ IF Matrix /\ ~cancelled /\ cohort < Len(cohorts)
       THEN stage' = "applying" /\ cohort' = cohort + 1
       ELSE stage' = (IF Matrix THEN "writing" ELSE "flushing") /\ UNCHANGED cohort
    /\ UNCHANGED <<cohorts, step, cancelled, netVars, stepVars, callVars,
                   busVars, quoted, result, faults>>

-----------------------------------------------------------------------------
(* bus.Producer: the client answers one record at a time. *)

Deliver ==
    /\ inflight > 0 /\ storing = NoError
    /\ inflight' = inflight - 1
    /\ produced' = produced + 1
    /\ UNCHANGED <<cohorts, stage, cohort, step, cancelled, netVars, stepVars,
                   callVars, storing, dropped, lastErr, quoted, result, faults>>

(* fail counts the drop first and stores its reason after. *)
Drop ==
    /\ inflight > 0 /\ storing = NoError
    /\ \/ cancelled /\ NoFault /\ storing' = "errorString"
       \/ Fault /\ storing' \in ErrorTypes
    /\ dropped' = dropped + 1
    /\ UNCHANGED <<cohorts, stage, cohort, step, cancelled, netVars, stepVars,
                   callVars, inflight, produced, lastErr, quoted, result>>

StoreError ==
    /\ storing \in ErrorTypes /\ lastErr \in {NoError, storing}
    /\ storing' = NoError
    /\ lastErr' = storing
    /\ inflight' = inflight - 1
    /\ UNCHANGED <<cohorts, stage, cohort, step, cancelled, netVars, stepVars,
                   callVars, produced, dropped, quoted, result, faults>>

(* lastErr is an atomic.Value, whose Store panics when it is given another *)
(* concrete type than before.  It does so in the client's goroutine, where *)
(* nothing recovers and no deferred call of runLoad runs.                  *)
StorePanics ==
    /\ storing \in ErrorTypes /\ lastErr \in ErrorTypes \ {storing}
    /\ stage' = (IF stage = "ended" THEN stage ELSE "panicked")
    /\ slot' = [s \in Slots |-> "off"] /\ active' = 0
    /\ storing' = NoError /\ inflight' = 0
    /\ UNCHANGED <<cohorts, cohort, step, cancelled, netVars, remaining, expired,
                   outcomes, callVars, produced, dropped, lastErr, quoted,
                   result, faults>>

(* Slip: the counters are read without waiting for the client. *)
ReadsAtOnce == TRUE

(* client.Flush(ctx) returns when nothing is in flight, or early when the  *)
(* run was cancelled; its error is ignored.                                *)
Flushed == inflight = 0 \/ cancelled

(* The report's three figures are read one after the other. *)
QuoteProduced ==
    /\ stage = "flushing" /\ Flushed
    /\ quoted' = [quoted EXCEPT !.produced = produced]
    /\ stage' = "quoting drops"
    /\ UNCHANGED <<cohorts, cohort, step, cancelled, netVars, stepVars,
                   callVars, busVars, result, faults>>

QuoteDropped ==
    /\ stage = "quoting drops"
    /\ quoted' = [quoted EXCEPT !.dropped = dropped]
    /\ stage' = "quoting error"
    /\ UNCHANGED <<cohorts, cohort, step, cancelled, netVars, stepVars,
                   callVars, busVars, result, faults>>

QuoteError ==
    /\ stage = "quoting error"
    /\ quoted' = [quoted EXCEPT !.err = (lastErr # NoError)]
    /\ stage' = "writing"
    /\ UNCHANGED <<cohorts, cohort, step, cancelled, netVars, stepVars,
                   callVars, busVars, result, faults>>

-----------------------------------------------------------------------------
(* The end of runLoad.  ReportFiles models what it writes. *)

WriteReport ==
    /\ stage = "writing"
    /\ \/ NoFault /\ result' = "ok"
       \/ Fault /\ result' = "error"
    /\ stage' = IF Matrix THEN "restoring" ELSE "ended"
    /\ UNCHANGED <<cohorts, cohort, step, cancelled, netVars, stepVars,
                   callVars, busVars, quoted>>

(* Slip: the restore runs under the run's context. *)
RestoresUnlessCancelled(clears) == clears /\ ~cancelled

(* The deferred Apply of the control, in a context of its own. *)
RestoreClears(clears) == clears

(* It reports what it could not put back.  Its failure changes nothing in  *)
(* what runLoad returns.                                                   *)
RestoreInterface ==
    /\ stage = "restoring"
    /\ \E clears, shows \in BOOLEAN :
         /\ IF clears /\ shows THEN NoFault ELSE Fault
         /\ netem' = IF RestoreClears(clears) THEN Clean ELSE netem
         /\ complained' = (~shows \/ (~clears /\ netem' # Clean))
    /\ stage' = "ended"
    /\ UNCHANGED <<cohorts, cohort, step, cancelled, stepVars, callVars,
                   busVars, quoted, result>>

Cancel ==
    /\ MayCancel /\ ~cancelled /\ stage \notin Over
    /\ cancelled' = TRUE
    /\ UNCHANGED <<cohorts, stage, cohort, step, netVars, stepVars, callVars,
                   busVars, quoted, result, faults>>

-----------------------------------------------------------------------------
SlotNext(s) ==
    CheckBudget(s) \/ DrawCall(s) \/ EndCall(s) \/ Publish(s) \/ FileOutcome(s)

RunNext ==
    \/ ChangeQdisc \/ VerifyQdisc \/ WarmCache \/ OpenStep \/ CloseStep \/ Score
    \/ QuoteProduced \/ QuoteDropped \/ QuoteError \/ WriteReport \/ RestoreInterface

BrokerNext == Deliver \/ Drop \/ StoreError \/ StorePanics

LocalNext == RunNext \/ BrokerNext \/ Expire \/ Cancel \/ \E s \in Slots : SlotNext(s)

(* Produce returns at once while the client has room for the event, which  *)
(* is certain only when it holds no other; with its buffer full it waits   *)
(* for an answer of the broker or for the context.                         *)
TakesEvents == Matrix \/ inflight = 0 \/ cancelled

(* The goroutines run and a deadline passes.  A call is sure to end only   *)
(* when its context is done (the handshake has no deadline), and nothing   *)
(* is assumed of the broker: the client keeps a record it cannot deliver.  *)
LocalFairness ==
    /\ WF_localVars(RunNext) /\ WF_localVars(Expire)
    /\ WF_localVars(StoreError \/ StorePanics)
    /\ \A s \in Slots :
           /\ WF_localVars(CheckBudget(s) \/ DrawCall(s) \/ FileOutcome(s))
           /\ WF_localVars(cancelled /\ EndCall(s))
           /\ WF_localVars(TakesEvents /\ Publish(s))

LocalSpec == LocalInit /\ [][LocalNext]_localVars /\ LocalFairness

-----------------------------------------------------------------------------
LocalTypeOK ==
    /\ cohorts \in CohortLists
    /\ stage \in {"applying", "verifying", "warming", "opening", "running",
                  "scoring", "flushing", "quoting drops", "quoting error",
                  "writing", "restoring"} \cup Over
    /\ cohort \in Nat /\ step \in StepIds
    /\ {cancelled, complained, expired} \subseteq BOOLEAN
    /\ {storing, lastErr} \subseteq ErrorTypes \cup {NoError}
    /\ netem \in Conditions
    /\ remaining \in Int
    /\ slot \in [Slots -> {"off", "checking", "drawing", "calling",
                           "publishing", "ok", "failed", "done"}]
    /\ {active, inflight, produced, dropped} \subseteq Nat
    /\ placed \in [Keys(cohorts) -> Nat]
    /\ outcomes \in [ok : Nat, failed : Nat]
    /\ report \in [Keys(cohorts) -> [ok : Nat, failed : Nat]]
    /\ result \in {"none", "ok", "error"}
    /\ quoted \in [produced : Nat, dropped : Nat, err : BOOLEAN]
    /\ faults \in 0..MaxFaults

(* However the slots of a step race for its budget, they place exactly its *)
(* calls: never one more, and all of them unless the run was interrupted   *)
(* or failed (runStep, "asking twice would spend two calls to place one"). *)
BudgetIsExact ==
    \A k \in Keys(cohorts) : LET wanted == Steps[k[2]].calls IN
        ~Steps[k[2]].held =>
            /\ placed[k] <= wanted
            /\ result = "ok" /\ ~cancelled => placed[k] = wanted

(* A step's percentiles describe its own concurrency: no more calls are in *)
(* progress than it has slots, and none between two steps, so that the     *)
(* gauge is back at rest when the report is written.                       *)
NoCallOutlivesItsStep ==
    active <= (IF stage = "running" THEN Steps[step].slots ELSE 0)

(* A report, when there is one, holds every call the run placed, under its *)
(* own step and condition, also when the run was interrupted in the middle *)
(* of a step.  A cohort that fails leaves none, also of those before it.   *)
EveryPlacedCallIsReported ==
    result = "ok" => \A k \in Keys(cohorts) : Size(report[k]) = placed[k]

(* The three together: what is placed is what was asked for, within its    *)
(* step, and all of it is in the report.                                   *)
CallsAreAccountedFor ==
    BudgetIsExact /\ NoCallOutlivesItsStep /\ EveryPlacedCallIsReported

(* No call is placed under another network condition than the one its      *)
(* cohort is reported under: neither when the interface was found impaired *)
(* nor when tc refused a command and left the previous condition in place. *)
CallsMeetTheirCondition ==
    \A s \in Slots : slot[s] = "calling" => netem = Condition

(* However a matrix ends, whatever step of it failed, the interface is     *)
(* unimpaired or the user was told that it is not.                         *)
ImpairmentIsNotLeftSilently ==
    stage = "ended" => netem = Clean \/ complained

(* What the run says of the network is true of the interface: during a     *)
(* call, in the name of its cohort, and at the end.                        *)
InterfaceIsAsTold == CallsMeetTheirCondition /\ ImpairmentIsNotLeftSilently

(* The published and dropped figures of a report never count an event      *)
(* twice, and account for every event, with a reason when one was lost,    *)
(* unless the flush was cut short.                                         *)
EventsAddUp ==
    result = "ok" /\ ~Matrix =>
        LET sent == TurnsPerCall * MapThenSumSet(LAMBDA k : report[k].ok, Keys(cohorts))
            told == quoted.produced + quoted.dropped
        IN /\ told <= sent
           /\ ~cancelled => told = sent /\ quoted.err = (quoted.dropped > 0)

(* Losing turn events costs the report those events and no more, whatever  *)
(* they were lost to (bus.Producer, "Telemetry must never be able to slow  *)
(* down the thing it measures, so failures are counted and surfaced at the *)
(* end of the run instead").                                               *)
DropsDoNotEndTheRun == dropped > 0 => stage # "panicked"

(* A call that does not end, or the client waiting for the broker.         *)
WaitsOutside ==
    \/ \E s \in Slots : slot[s] = "calling"
    \/ inflight > 0 /\ (stage = "flushing" \/ \E s \in Slots : slot[s] = "publishing")

(* Every run comes back or dies, at the latest when it is interrupted: no  *)
(* slot waits for a budget it cannot get, no step for a slot that has      *)
(* stopped, no flush for an event that has been answered.  What can hold   *)
(* it is outside, a silent agent or a broker out of reach, and only until  *)
(* the user loses patience.                                                *)
RunReturns == <>(stage \in Over) \/ <>[](WaitsOutside /\ ~cancelled)

(* runLoad's promise for the network, "Leave the interface as it was       *)
(* found, whatever happened to the run": what is there before a matrix is  *)
(* there after it, unless the run says that it could not be restored.      *)
InterfaceIsLeftAsFound ==
    \A c \in Conditions : netem = c => [](stage = "ended" => netem = c \/ complained)
=============================================================================
