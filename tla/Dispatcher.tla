----------------------------- MODULE Dispatcher -----------------------------
(***************************************************************************)
(* loadgen.RunDistributed and dispatchStep: the process that decides what  *)
(* load a fleet of workers sees.  It runs the profile's steps one after    *)
(* the other, keeps a sliding window of outstanding assignments, and       *)
(* counts the first result of each call.  bus.Dispatcher (Assign, Results) *)
(* is part of its actions.                                                 *)
(***************************************************************************)
EXTENDS CallBus

CONSTANTS
    MayOverrun,    \* whether a step's time budget can run out
    MayAbort       \* whether the run's context, a produce or a poll can fail

ASSUME DispatcherAssumption == MayOverrun \in BOOLEAN /\ MayAbort \in BOOLEAN

VARIABLES
    phase,         \* where RunDistributed is
    step,          \* the step being run, 0 before the first
    dispatched, received, inFlight,    \* dispatchStep's counters
    duplicates, late,                  \* the other counters of its StepDispatch
    answered,      \* sequence numbers that have come back
    outcomes,      \* the step's call outcomes, in order of arrival
    position,      \* results consumed so far
    buffered,      \* results fetched by the current poll, not yet looked at
    overdue,       \* the step's deadline has passed
    cancelled,     \* the run's context is cancelled
    report,        \* the StepDispatch and outcomes of each closed step
    integrity      \* DispatchIntegrity: the totals over the closed steps

windowVars == <<dispatched, received, inFlight, duplicates, late, answered, outcomes>>
reportVars == <<report, integrity>>
dispatcherVars == <<phase, step, windowVars, position, buffered, overdue,
                    cancelled, reportVars>>

(* "between": between two steps; "window": at the top of dispatchStep's    *)
(* loop; "handle": inside its loop over a poll's results; the rest: back   *)
(* in the caller with a report, with a refusal, or with an error.          *)
Running == {"between", "window", "handle"}
Stopped == {"returned", "refused", "failed"}
InStep == phase \in {"window", "handle"}

(* What the step report is built from: a call that answered, or the        *)
(* placeholder for one that did not.                                       *)
CallOutcome(r) == [seq |-> r.seq, err |-> r.err]
NotReported == [seq |-> -1, err |-> TRUE]
Outcome == [seq : Nat \cup {-1}, err : BOOLEAN]

StepDispatch == [step : StepIds, dispatched : Nat, received : Nat,
                 duplicates : Nat, missing : Nat, late : Nat,
                 outcomes : Seq(Outcome)]
Totals == [dispatched : Nat, received : Nat, duplicates : Nat,
           missing : Nat, late : Nat]

DispatcherTypeOK ==
    /\ phase \in Running \cup Stopped
    /\ step \in 0..NumSteps
    /\ InStep => step \in StepIds
    /\ dispatched \in Nat /\ received \in Nat /\ inFlight \in Int
    /\ duplicates \in Nat /\ late \in Nat
    /\ answered \subseteq Nat
    /\ outcomes \in Seq(Outcome)
    /\ position \in 0..Len(results)
    /\ buffered \in 0..(Len(results) - position)
    /\ overdue \in BOOLEAN /\ cancelled \in BOOLEAN
    /\ report \in Seq(StepDispatch)
    /\ integrity \in Totals

-----------------------------------------------------------------------------
FreshWindow ==
    /\ dispatched' = 0 /\ received' = 0 /\ inFlight' = 0
    /\ duplicates' = 0 /\ late' = 0
    /\ answered' = {} /\ outcomes' = <<>>

(* NewDispatcher reads the result topic from its start: results of earlier *)
(* runs are still there and Results filters them by run.                   *)
DispatcherInit ==
    /\ phase = "between" /\ step = 0
    /\ dispatched = 0 /\ received = 0 /\ inFlight = 0
    /\ duplicates = 0 /\ late = 0
    /\ answered = {} /\ outcomes = <<>>
    /\ position = 0 /\ buffered = 0
    /\ overdue = FALSE /\ cancelled = FALSE
    /\ report = <<>>
    /\ integrity = [dispatched |-> 0, received |-> 0, duplicates |-> 0,
                    missing |-> 0, late |-> 0]

(* Slip: one assignment too many. *)
WindowOffByOne == inFlight <= Concurrency[step] /\ dispatched < Calls[step]

(* The inner loop's condition. *)
WindowOpen ==
    /\ inFlight < Concurrency[step]
    /\ dispatched < Calls[step]

Publish(a) ==
    LET p == PartitionOf[<<a.step, a.seq>>]
    IN  assignments' = [assignments EXCEPT ![p] = Append(@, a)]

(* Profile order; a held step is refused when its turn comes, and with it  *)
(* the report of every step before it.                                     *)
NextStep ==
    /\ phase = "between"
    /\ step < NumSteps
    /\ step > 0 => ~cancelled
    /\ step' = step + 1
    /\ phase' = IF step + 1 \in HeldSteps THEN "refused" ELSE "window"
    /\ FreshWindow
    /\ overdue' = FALSE
    /\ UNCHANGED <<busVars, position, buffered, cancelled, reportVars>>

(* The loop over the steps ends: they are all done, or the context is. *)
Return ==
    /\ phase = "between"
    /\ step = NumSteps \/ (cancelled /\ step > 0)
    /\ phase' = "returned"
    /\ UNCHANGED <<busVars, step, windowVars, position, buffered, overdue,
                   cancelled, reportVars>>

(* Assign, acknowledged by the broker. *)
Assign ==
    /\ phase = "window" /\ WindowOpen
    /\ Publish(Call(step, dispatched))
    /\ dispatched' = dispatched + 1
    /\ inFlight' = inFlight + 1
    /\ UNCHANGED <<results, phase, step, received, duplicates, late, answered,
                   outcomes, position, buffered, overdue, cancelled, reportVars>>

(* Assign returned an error.  The record may have reached the broker all   *)
(* the same.  The run ends without a report.                               *)
AssignFails ==
    /\ MayAbort
    /\ phase = "window" /\ WindowOpen
    /\ Publish(Call(step, dispatched)) \/ UNCHANGED assignments
    /\ phase' = "failed"
    /\ UNCHANGED <<results, step, windowVars, position, buffered, overdue,
                   cancelled, reportVars>>

(* A poll fetches the next n results. *)
Poll(n) ==
    /\ phase = "window" /\ ~WindowOpen
    /\ n \in 1..(Len(results) - position)
    /\ buffered' = n
    /\ phase' = "handle"
    /\ UNCHANGED <<busVars, step, windowVars, position, overdue, cancelled, reportVars>>

PollFails ==
    /\ MayAbort
    /\ phase = "window" /\ ~WindowOpen
    /\ phase' = "failed"
    /\ UNCHANGED <<busVars, step, windowVars, position, buffered, overdue,
                   cancelled, reportVars>>

(* Slip: results of other runs are not filtered out. *)
FromAnyRun(r) == r # Malformed

(* Results skips what it cannot decode and what another run published. *)
FromThisRun(r) == r # Malformed /\ r.run = Run

-----------------------------------------------------------------------------
Skip(r) ==
    /\ ~FromThisRun(r)
    /\ UNCHANGED windowVars

(* Slip: a straggler is dropped without a trace. *)
DropLate(r) ==
    /\ FromThisRun(r) /\ r.step # step
    /\ UNCHANGED windowVars

(* A straggler of an earlier step. *)
CountLate(r) ==
    /\ FromThisRun(r) /\ r.step # step
    /\ late' = late + 1
    /\ UNCHANGED <<dispatched, received, inFlight, duplicates, answered, outcomes>>

(* Slip: the latest result of a call replaces the first. *)
OverwriteDuplicate(r) ==
    /\ FromThisRun(r) /\ r.step = step /\ r.seq \in answered
    /\ duplicates' = duplicates + 1
    /\ outcomes' = [k \in DOMAIN outcomes |->
                       IF outcomes[k].seq = r.seq THEN CallOutcome(r) ELSE outcomes[k]]
    /\ UNCHANGED <<dispatched, received, inFlight, late, answered>>

(* A call that has already come back. *)
CountDuplicate(r) ==
    /\ FromThisRun(r) /\ r.step = step /\ r.seq \in answered
    /\ duplicates' = duplicates + 1
    /\ UNCHANGED <<dispatched, received, inFlight, late, answered, outcomes>>

(* Slip: the call is not remembered as answered. *)
CountAnswerEachTime(r) ==
    /\ FromThisRun(r) /\ r.step = step /\ r.seq \notin answered
    /\ outcomes' = Append(outcomes, CallOutcome(r))
    /\ received' = received + 1
    /\ inFlight' = inFlight - 1
    /\ UNCHANGED <<dispatched, duplicates, late, answered>>

CountAnswer(r) ==
    /\ FromThisRun(r) /\ r.step = step /\ r.seq \notin answered
    /\ answered' = answered \cup {r.seq}
    /\ outcomes' = Append(outcomes, CallOutcome(r))
    /\ received' = received + 1
    /\ inFlight' = inFlight - 1
    /\ UNCHANGED <<dispatched, duplicates, late>>

(* Slip: the loop looks past the end of what the poll returned. *)
HandleWithoutDraining ==
    /\ phase = "handle" /\ buffered > 0
    /\ LET r == results[position + 1]
       IN  Skip(r) \/ CountLate(r) \/ CountDuplicate(r) \/ CountAnswer(r)
    /\ position' = position + 1
    /\ UNCHANGED <<busVars, phase, step, buffered, overdue, cancelled, reportVars>>

(* One turn of the loop over a poll's results. *)
Handle ==
    /\ phase = "handle" /\ buffered > 0
    /\ LET r == results[position + 1]
       IN  Skip(r) \/ CountLate(r) \/ CountDuplicate(r) \/ CountAnswer(r)
    /\ position' = position + 1
    /\ buffered' = buffered - 1
    /\ UNCHANGED <<busVars, phase, step, overdue, cancelled, reportVars>>

(* dispatchStep returns and RunDistributed adds its counters to the        *)
(* totals and its outcomes to the report.                                  *)
CloseStep(missing) ==
    /\ phase' = "between"
    /\ report' = Append(report,
           [step |-> step, dispatched |-> dispatched, received |-> received,
            duplicates |-> duplicates, missing |-> missing, late |-> late,
            outcomes |-> outcomes \o [k \in 1..missing |-> NotReported]])
    /\ integrity' = [dispatched |-> integrity.dispatched + dispatched,
                     received |-> integrity.received + received,
                     duplicates |-> integrity.duplicates + duplicates,
                     missing |-> integrity.missing + missing,
                     late |-> integrity.late + late]
    /\ UNCHANGED <<busVars, step, windowVars, position, buffered, overdue, cancelled>>

(* A poll has nothing (more) to hand over. *)
PollDone ==
    \/ phase = "window" /\ ~WindowOpen
    \/ phase = "handle" /\ buffered = 0

(* The context is looked at before the deadline: a cancelled step breaks   *)
(* off with nothing recorded as missing.                                   *)
CancelStep == PollDone /\ cancelled /\ CloseStep(0)

(* Slip: the deadline is looked at only when a poll returned something. *)
GiveUpAfterResults ==
    /\ phase = "handle" /\ buffered = 0
    /\ ~cancelled /\ overdue
    /\ CloseStep(Calls[step] - received)

(* The deadline passed: every call without an answer is a failed outcome,  *)
(* also one that was never dispatched.                                     *)
GiveUp == PollDone /\ ~cancelled /\ overdue /\ CloseStep(Calls[step] - received)

CompleteStep ==
    /\ phase = "handle" /\ buffered = 0
    /\ ~cancelled /\ ~overdue
    /\ received >= Calls[step]
    /\ CloseStep(0)

(* Back to the top of the loop. *)
Continue ==
    /\ phase = "handle" /\ buffered = 0
    /\ ~cancelled /\ ~overdue
    /\ received < Calls[step]
    /\ phase' = "window"
    /\ UNCHANGED <<busVars, step, windowVars, position, buffered, overdue,
                   cancelled, reportVars>>

(* stepBudget runs out. *)
DeadlinePasses ==
    /\ MayOverrun
    /\ InStep /\ ~overdue
    /\ overdue' = TRUE
    /\ UNCHANGED <<busVars, phase, step, windowVars, position, buffered,
                   cancelled, reportVars>>

(* The operator interrupts the run. *)
Cancel ==
    /\ MayAbort
    /\ phase \in Running /\ ~cancelled
    /\ cancelled' = TRUE
    /\ UNCHANGED <<busVars, phase, step, windowVars, position, buffered,
                   overdue, reportVars>>

(* What the dispatcher does of itself. *)
DispatcherLoop ==
    \/ NextStep \/ Return
    \/ \E n \in 1..(Len(results) - position) : Poll(n)
    \/ Handle
    \/ CancelStep \/ GiveUp \/ CompleteStep \/ Continue

DispatcherStep == DispatcherLoop \/ Assign

DispatcherFault == AssignFails \/ PollFails \/ DeadlinePasses \/ Cancel

DispatcherNext == DispatcherStep \/ DispatcherFault
=============================================================================
