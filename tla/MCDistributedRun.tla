-------------------------- MODULE MCDistributedRun --------------------------
(***************************************************************************)
(* Small instances of DistributedRun for TLC.                              *)
(***************************************************************************)
EXTENDS DistributedRun, TLC

(* Calls alternate between two partitions, or all hash to one. *)
Alternating == [c \in StepIds \X (0..3) |-> IF c[2] % 2 = 0 THEN "p0" ELSE "p1"]
Together == [c \in StepIds \X (0..3) |-> "p0"]

TwoCalls == <<2>>
TwoStepCalls == <<2, 1>>
ThirdHeld == <<2, 1, 0>>
Narrow == <<1, 1>>
OneByOne == <<1, 1, 1>>

(* Left by another run: a call it never got an answer to, with the step    *)
(* name and number of one of ours, and a result this run must not take.    *)
OldCall == [run |-> OtherRun, step |-> 1, seq |-> 0]
OldResult == [run |-> OtherRun, step |-> 1, seq |-> 1, err |-> TRUE]

EmptyAssignments == {[p \in Partitions |-> <<>>]}
LeftRecords ==
    {[p \in Partitions |-> IF p = "p1" THEN <<>> ELSE <<OldCall>>],
     [p \in Partitions |-> IF p = "p1" THEN <<Malformed>> ELSE <<>>],
     [p \in Partitions |-> <<>>]}

EmptyResults == {<<>>}
LeftResults == {<<OldResult, Malformed>>}

Symmetry == Permutations(Workers)
=============================================================================
