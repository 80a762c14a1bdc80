------------------------------ MODULE CallBus ------------------------------
(***************************************************************************)
(* The two Kafka topics a distributed run travels over: the assignments    *)
(* the dispatcher hands out and the results the workers report.  Both are  *)
(* append-only logs read through offsets, so what was once published can   *)
(* still be spoken of.  Dispatcher and WorkerFleet extend this module and  *)
(* act on the same two logs.                                               *)
(***************************************************************************)
EXTENDS Integers, Sequences, FiniteSets

CONSTANTS
    Partitions,    \* partitions of the assignment topic
    NumSteps,      \* steps of the profile, run in the order 1..NumSteps
    Calls,         \* [1..NumSteps -> calls the step places]
    Concurrency,   \* [1..NumSteps -> assignments the step keeps outstanding]
    HeldSteps,     \* steps that end on a clock instead of on a call count
    PartitionOf,   \* [step, seq -> partition], the broker's hash of the key
    Run,           \* this run's identifier
    OtherRun,      \* any other run that used the same topics
    Malformed,     \* a record that is not valid JSON
    OldAssignments,    \* what the assignment topic may hold beforehand
    OldResults         \* what the result topic may hold beforehand

StepIds == 1..NumSteps
Seqs(s) == 0..(Calls[s] - 1)

(* Profile.validate: steps are named apart, their concurrency is at least  *)
(* one, and a step that ends on a call count has a call for every slot.    *)
ASSUME BusAssumption ==
    /\ NumSteps \in Nat \ {0}
    /\ Calls \in [StepIds -> Nat]
    /\ Concurrency \in [StepIds -> Nat \ {0}]
    /\ HeldSteps \subseteq StepIds
    /\ \A s \in StepIds \ HeldSteps : Concurrency[s] <= Calls[s]
    /\ \A s \in StepIds : \A i \in Seqs(s) :
           PartitionOf[<<s, i>>] \in Partitions
    /\ Run # OtherRun

Assignment == [run : {Run, OtherRun}, step : StepIds, seq : Nat]
CallResult == [run : {Run, OtherRun}, step : StepIds, seq : Nat, err : BOOLEAN]

(* A malformed record is told apart from every well-formed one. *)
ASSUME MalformedAssumption ==
    Malformed \notin Assignment \cup CallResult

(* Earlier runs and strangers may have left records of theirs, not of this *)
(* run: run identifiers are unique.                                        *)
ASSUME LeftoverAssumption ==
    /\ OldAssignments \subseteq
           [Partitions -> Seq({a \in Assignment : a.run = OtherRun} \cup {Malformed})]
    /\ OldResults \subseteq
           Seq({r \in CallResult : r.run = OtherRun} \cup {Malformed})

VARIABLES
    assignments,   \* [Partitions -> log of the assignment topic]
    results        \* log of the result topic, which has one partition

busVars == <<assignments, results>>

BusTypeOK ==
    /\ assignments \in [Partitions -> Seq(Assignment \cup {Malformed})]
    /\ results \in Seq(CallResult \cup {Malformed})

BusInit == assignments \in OldAssignments /\ results \in OldResults

(* This run's call with sequence number i of step s. *)
Call(s, i) == [run |-> Run, step |-> s, seq |-> i]

(* Result r reports on assignment a. *)
Answers(r, a) ==
    /\ r # Malformed
    /\ a # Malformed
    /\ r.run = a.run /\ r.step = a.step /\ r.seq = a.seq

(* Some worker's result for assignment a is in the result topic. *)
Published(a) == \E k \in 1..Len(results) : Answers(results[k], a)
============================================================================
