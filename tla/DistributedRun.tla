--------------------------- MODULE DistributedRun ---------------------------
(***************************************************************************)
(* A distributed load test: one dispatcher and a fleet of workers, which   *)
(* share nothing but the two topics.                                       *)
(***************************************************************************)
EXTENDS Dispatcher, WorkerFleet

vars == <<busVars, dispatcherVars, fleetVars>>

Init == BusInit /\ DispatcherInit /\ FleetInit

Next ==
    \/ DispatcherNext /\ UNCHANGED fleetVars
    \/ FleetNext /\ UNCHANGED dispatcherVars

Spec == Init /\ [][Next]_vars

(* The dispatcher's loop and its clock run on.  Nothing is assumed of any  *)
(* worker, of the group, of what may go wrong, or of the broker: Assign    *)
(* waits for an acknowledgement without a time limit of its own.           *)
DispatcherFairness ==
    /\ WF_vars(DispatcherLoop /\ UNCHANGED fleetVars)
    /\ WF_vars(DeadlinePasses /\ UNCHANGED fleetVars)

(* The broker can be reached and acknowledges in the end. *)
BrokerFairness == WF_vars(Assign /\ UNCHANGED fleetVars)

(* A worker process is scheduled and restarted (it runs as a Deployment),  *)
(* a call ends because the batch's context does, and the group finds an    *)
(* owner for a free partition.  Faults get no fairness.                    *)
FleetFairness ==
    /\ \A w \in Workers : WF_vars(WorkerStep(w) /\ UNCHANGED dispatcherVars)
    /\ \A p \in Partitions : WF_vars(GroupStep(p) /\ UNCHANGED dispatcherVars)

BoundedSpec == Spec /\ DispatcherFairness
FairSpec == Spec /\ DispatcherFairness /\ BrokerFairness /\ FleetFairness

(* Every variable keeps its type: the dispatcher reads no further than the *)
(* result topic goes, and no counter of its report is negative.            *)
TypeOK == BusTypeOK /\ DispatcherTypeOK /\ FleetTypeOK

-----------------------------------------------------------------------------
(* An offset is committed only past assignments whose result is in the     *)
(* result topic, and never past one that cannot be read: a worker may die  *)
(* at any point of a batch and no call is lost with it.                    *)
CommittedArePublished ==
    \A p \in Partitions : \A o \in 1..committed[p] :
        /\ assignments[p][o] # Malformed
        /\ Published(assignments[p][o])

(* A call of the current step that was dispatched and has not been counted *)
(* is still going to report: its result waits in the topic unread, or its  *)
(* assignment is uncommitted and so will be delivered (again).             *)
NoCallIsLost ==
    InStep =>
        \A i \in 0..(dispatched - 1) :
            \/ i \in answered
            \/ \E k \in (position + 1)..Len(results) : Answers(results[k], Call(step, i))
            \/ \E p \in Partitions : \E o \in (committed[p] + 1)..Len(assignments[p]) :
                   assignments[p][o] = Call(step, i)

(* Whenever the dispatcher waits for results the window is full: as many   *)
(* calls are outstanding as the step's concurrency, or all that are left.  *)
WindowIsFull ==
    phase = "window" /\ ~WindowOpen =>
        /\ dispatched - received <= Concurrency[step]
        /\ \/ dispatched - received = Concurrency[step]
           \/ dispatched = Calls[step]

(* However often a call is placed and reported, a step counts it once: no  *)
(* outcome of a closed step is recorded for a call twice, and the step has *)
(* an outcome for every call unless the run was cancelled.                 *)
OneOutcomePerCall ==
    \A n \in 1..Len(report) :
        LET outs == report[n].outcomes
        IN  /\ \A k, l \in 1..Len(outs) :
                   outs[k].seq = outs[l].seq /\ outs[k].seq >= 0 => k = l
            /\ Len(outs) = report[n].received + report[n].missing
            /\ cancelled \/ Len(outs) = Calls[report[n].step]

(* Each result of this run that the dispatcher has consumed is in exactly  *)
(* one of its counters.                                                    *)
EveryResultIsCounted ==
    LET open == step > Len(report)
        mine == {k \in 1..position : FromThisRun(results[k])}
    IN  Cardinality(mine) =
            integrity.received + integrity.duplicates + integrity.late
            + (IF open THEN received + duplicates + late ELSE 0)

(* The outcome of a call is that of its first result in the topic, however *)
(* a later delivery of the same call ended.                                *)
FirstResultWins ==
    InStep =>
        \A k \in 1..Len(outcomes) :
            \E j \in 1..position :
                /\ Answers(results[j], Call(step, outcomes[k].seq))
                /\ results[j].err = outcomes[k].err
                /\ \A h \in 1..(j - 1) : ~Answers(results[h], Call(step, outcomes[k].seq))

(* A commit never moves a partition's offset back: an evicted worker that  *)
(* finishes its batch late cannot undo what its successor committed.       *)
CommitsOnlyAdvance ==
    [][\A p \in Partitions : committed'[p] >= committed[p]]_committed

-----------------------------------------------------------------------------
(* A step waits no longer than its budget, whatever becomes of the workers *)
(* and of the results: the dispatcher comes back, and nothing can hold it  *)
(* but an assignment that no broker ever acknowledges (dispatchStep looks  *)
(* at the deadline between its polls, and not while it assigns).           *)
RunEnds == <>(phase \in Stopped) \/ <>[](phase = "window" /\ WindowOpen)

(* When deadlines are generous and faults stop, every call of every step   *)
(* is answered by a worker, although workers were killed, evicted, stopped *)
(* or timed out on the way.                                                *)
EveryCallIsAnswered ==
    <>(/\ phase = "returned"
       /\ \A n \in StepIds : report[n].received = Calls[n])

(* When faults stop, redelivery does too: every assignment is in the end   *)
(* committed for good, and none is placed over and over.                   *)
AssignmentsSettle ==
    <>[](\A p \in Partitions : committed[p] = Len(assignments[p]))

-----------------------------------------------------------------------------
(* The run in the ledger's terms: the step that is open, the calls of this *)
(* run that a log holds, and what the closed steps report.                 *)
Open == phase \in {"window", "handle", "failed"}
OfThisRun(log) == {k \in 1..Len(log) : log[k] # Malformed /\ log[k].run = Run}
CallsIn(log) == {<<log[k].step, log[k].seq>> : k \in OfThisRun(log)}

OpenStep == IF Open THEN step ELSE 0
CallsSent == UNION {CallsIn(assignments[p]) : p \in Partitions}
CallsPlaced == CallsIn(results)
CallsHeard == IF Open THEN answered ELSE {}
StepsClosed ==
    [n \in 1..Len(report) |-> [heard |-> report[n].received, missing |-> report[n].missing]]

Ledger == INSTANCE CallLedger WITH
    current <- OpenStep, sent <- CallsSent, placed <- CallsPlaced,
    heard <- CallsHeard, closed <- StepsClosed

(* The run keeps the promise of the ledger: crashes, redelivery, fencing,  *)
(* lost acknowledgements, stragglers and foreign records on the topics     *)
(* never show in what a step hears.                                        *)
KeepsLedger == Ledger!Spec

-----------------------------------------------------------------------------
(* DispatchIntegrity.Missing, as its comment words it: "counts calls       *)
(* dispatched whose result never arrived".                                 *)
MissingWereDispatched ==
    \A n \in 1..Len(report) :
        report[n].missing <= report[n].dispatched - report[n].received

(* RunDistributed's comment: "Steps still run one at a time, and a step    *)
(* still holds exactly its concurrency in flight".                         *)
OneStepAtATime ==
    InStep =>
        \A w \in Workers : \A r \in Placing(w) :
            At(r).run = Run => At(r).step = step
=============================================================================
