------------------------ MODULE DistributedRunProofs ------------------------
(***************************************************************************)
(* Proofs about DistributedRun, for any number of workers, partitions,     *)
(* steps and calls and any number of faults.                               *)
(***************************************************************************)
EXTENDS DistributedRun, FiniteSetTheorems, WellFoundedInduction,
        SequenceTheorems, TLAPS

(* A nonempty set of offsets of a log has a greatest one. *)
LEMMA GreatestOffset ==
    ASSUME NEW n \in Nat, NEW T \in SUBSET (1..n), T # {}
    PROVE  \E m \in T : \A o \in T : o <= m
<1> DEFINE Before == OpToRel(<, Nat)
           Gaps == {g \in Nat : n - g \in T}
<1>1. IsWellFoundedOn(Before, Nat)
  BY NatLessThanWellFounded
<1>2. Gaps # {}
  <2>1. PICK o \in T : TRUE
    OBVIOUS
  <2>2. n - o \in Gaps
    BY <2>1
  <2>3. QED
    BY <2>2
<1>3. PICK g \in Gaps : \A h \in Gaps : <<h, g>> \notin Before
  <2>1. Gaps \subseteq Nat
    OBVIOUS
  <2> HIDE DEF Gaps, Before
  <2>2. QED
    BY <1>1, <1>2, <2>1, WFMin
<1>4. \A h \in Gaps : ~(h < g)
  BY <1>3 DEF OpToRel
<1>5. ASSUME NEW o \in T
      PROVE  o <= n - g
  <2>1. n - o \in Gaps
    OBVIOUS
  <2>2. QED
    BY <2>1, <1>4
<1>6. QED
  BY <1>5

-----------------------------------------------------------------------------
(* The inductive invariant, part by part.                                  *)

(* The dispatcher's counters against the set of calls that came back. *)
WindowInv ==
    InStep =>
        /\ dispatched <= Calls[step]
        /\ answered \subseteq 0..(dispatched - 1)
        /\ received = Cardinality(answered)
        /\ inFlight = dispatched - received
        /\ inFlight <= Concurrency[step]

(* What this run has put on a topic is a call that some step so far has    *)
(* dispatched.                                                             *)
WasSent(a) ==
    a # Malformed /\ a.run = Run =>
        /\ a.step <= step
        /\ InStep /\ a.step = step => a.seq < dispatched

SentInv ==
    /\ \A p \in Partitions : \A o \in 1..Len(assignments[p]) : WasSent(assignments[p][o])
    /\ \A k \in 1..Len(results) : WasSent(results[k])

(* The records of a batch can be read; those marked done have a result in  *)
(* the topic; and of a partition the worker still owns they are the next   *)
(* ones after the committed offset.                                        *)
BatchOf(w) ==
    /\ life[w] # "busy" => batch[w] = {}
    /\ ended[w] \subseteq batch[w] /\ done[w] \subseteq ended[w]
    /\ \A r \in batch[w] :
           /\ r[2] <= Len(assignments[r[1]])
           /\ At(r) # Malformed
           /\ r \in done[w] => Published(At(r))
           /\ owner[r[1]] = w =>
                  /\ committed[r[1]] < r[2]
                  /\ \A o \in (committed[r[1]] + 1)..r[2] : <<r[1], o>> \in batch[w]

BatchInv == \A w \in Workers : BatchOf(w)

CommittedInLog == \A p \in Partitions : committed[p] <= Len(assignments[p])

(* What the step dispatched is in the assignment topic, and what it has    *)
(* consumed of its own results it has counted.                             *)
DispatchedInv ==
    InStep =>
        \A i \in 0..(dispatched - 1) :
            \E p \in Partitions : \E o \in 1..Len(assignments[p]) :
                assignments[p][o] = Call(step, i)

ConsumedInv ==
    InStep =>
        \A k \in 1..position :
            FromThisRun(results[k]) /\ results[k].step = step => results[k].seq \in answered

IInv ==
    /\ TypeOK
    /\ WindowInv
    /\ SentInv
    /\ BatchInv
    /\ CommittedInLog
    /\ CommittedArePublished
    /\ DispatchedInv
    /\ ConsumedInv

-----------------------------------------------------------------------------
(* What a step may do to the topics. *)
Sends ==
    /\ phase = "window" /\ WindowOpen
    /\ Publish(Call(step, dispatched))
    /\ UNCHANGED results

ReportsCall ==
    /\ \E w \in Workers : \E r \in batch[w] : \E err \in BOOLEAN :
           results' = Append(results, ResultOf(r, err))
    /\ UNCHANGED assignments

BusStep == UNCHANGED busVars \/ Sends \/ ReportsCall

Grows(log, later) ==
    /\ Len(log) <= Len(later)
    /\ \A k \in 1..Len(log) : later[k] = log[k]

(* A step leaves the topics alone, appends the window's next assignment,   *)
(* or appends the result of a call some worker holds.                      *)
LEMMA NextIsBusStep ==
    ASSUME [Next]_vars
    PROVE  BusStep
<1>1. CASE UNCHANGED vars
  BY <1>1 DEF vars, BusStep
<1>2. CASE DispatcherStep
  BY <1>2 DEF DispatcherLoop, DispatcherStep, NextStep, Return, Assign, Poll, Handle, CancelStep, GiveUp,
              CompleteStep, Continue, CloseStep, BusStep, Sends, busVars
<1>3. CASE DispatcherFault
  BY <1>3 DEF DispatcherFault, AssignFails, PollFails, DeadlinePasses, Cancel,
              BusStep, Sends, busVars
<1>4. ASSUME NEW w \in Workers, WorkerStep(w)
      PROVE  BusStep
  <2>1. CASE EndCall(w)
    BY <2>1, FleetAssumption DEF EndCall, Complete, Abandon, Placing, BusStep, ReportsCall, busVars
  <2>2. CASE ~EndCall(w)
    BY <1>4, <2>2 DEF WorkerStep, Start, NextBatch, NextMalformed, StopIdle, CommitBatch,
                      CommitRefused, BusStep, busVars
  <2>3. QED
    BY <2>1, <2>2
<1>5. ASSUME NEW w \in Workers, WorkerFault(w)
      PROVE  BusStep
  <2>1. CASE \E r \in Placing(w) : \E err \in CallErrs : CompleteFails(w, r, err)
    BY <2>1, FleetAssumption DEF CompleteFails, Placing, BusStep, ReportsCall, busVars
  <2>2. CASE NextFails(w) \/ BatchTimeout(w) \/ DrainTimeout(w) \/ Stop(w) \/ Crash(w)
               \/ CommitFails(w)
    BY <2>2 DEF NextFails, BatchTimeout, DrainTimeout, Stop, Crash, CommitFails, BusStep, busVars
  <2>3. QED
    BY <1>5, <2>1, <2>2 DEF WorkerFault
<1>6. ASSUME NEW p \in Partitions, GroupStep(p)
      PROVE  BusStep
  BY <1>6 DEF GroupStep, Take, BusStep
<1>7. CASE GroupFault
  BY <1>7 DEF GroupFault, Evict, Revoke, BusStep
<1>8. QED
  BY <1>1, <1>2, <1>3, <1>4, <1>5, <1>6, <1>7 DEF Next, DispatcherNext, FleetNext

(* The result of a call in a batch is well formed. *)
LEMMA ResultType ==
    ASSUME BusTypeOK, FleetTypeOK, BatchInv,
           NEW w \in Workers, NEW r \in batch[w], NEW err \in BOOLEAN
    PROVE  /\ r[1] \in Partitions /\ r[2] \in 1..Len(assignments[r[1]])
           /\ At(r) \in Assignment
           /\ ResultOf(r, err) \in CallResult
<1>1. r[1] \in Partitions /\ r[2] \in 1..Len(assignments[r[1]])
  BY DEF FleetTypeOK, Records, BatchInv, BatchOf, BusTypeOK
<1>2. At(r) \in Assignment
  BY <1>1 DEF At, BatchInv, BatchOf, BusTypeOK
<1>3. QED
  BY <1>1, <1>2 DEF ResultOf, Assignment, CallResult

(* The topics keep their types and what they held. *)
LEMMA TopicsGrow ==
    ASSUME TypeOK, BatchInv, BusStep
    PROVE  /\ BusTypeOK'
           /\ \A p \in Partitions : Grows(assignments[p], assignments'[p])
           /\ Grows(results, results')
<1> USE DEF TypeOK
<1>1. CASE UNCHANGED busVars
  BY <1>1 DEF busVars, BusTypeOK, Grows
<1>2. CASE Sends
  <2> DEFINE p0 == PartitionOf[<<step, dispatched>>]
             a == Call(step, dispatched)
  <2>1. step \in StepIds /\ dispatched \in Seqs(step)
    BY <1>2, BusAssumption DEF Sends, WindowOpen, DispatcherTypeOK, InStep, Seqs, StepIds
  <2>2. p0 \in Partitions /\ a \in Assignment
    BY <2>1, BusAssumption DEF Call, Assignment, Seqs
  <2>3. assignments' = [assignments EXCEPT ![p0] = Append(@, a)] /\ results' = results
    BY <1>2 DEF Sends, Publish, Call
  <2> HIDE DEF p0, a
  <2>4. assignments[p0] \in Seq(Assignment \cup {Malformed})
    BY <2>2 DEF BusTypeOK
  <2>5. /\ Append(assignments[p0], a) \in Seq(Assignment \cup {Malformed})
        /\ Grows(assignments[p0], Append(assignments[p0], a))
    BY <2>2, <2>4, AppendProperties DEF Grows
  <2>6. QED
    BY <2>2, <2>3, <2>5 DEF BusTypeOK, Grows
<1>3. CASE ReportsCall
  <2>0. PICK w \in Workers : \E r \in batch[w] : \E err \in BOOLEAN :
            results' = Append(results, ResultOf(r, err))
    BY <1>3 DEF ReportsCall
  <2>1. PICK r \in batch[w], err \in BOOLEAN : results' = Append(results, ResultOf(r, err))
    BY <2>0
  <2>2. ResultOf(r, err) \in CallResult \cup {Malformed}
    BY ResultType
  <2>3. results \in Seq(CallResult \cup {Malformed})
    BY DEF BusTypeOK
  <2>4. results' \in Seq(CallResult \cup {Malformed}) /\ Grows(results, results')
    BY <2>1, <2>2, <2>3, AppendProperties DEF Grows
  <2>5. QED
    BY <1>3, <2>4 DEF ReportsCall, BusTypeOK, Grows
<1>4. QED
  BY <1>1, <1>2, <1>3 DEF BusStep

-----------------------------------------------------------------------------
(* The result Handle looks at is a result or a malformed record. *)
LEMMA HandledType ==
    ASSUME BusTypeOK, DispatcherTypeOK, buffered > 0
    PROVE  /\ position + 1 \in 1..Len(results)
           /\ results[position + 1] # Malformed => results[position + 1] \in CallResult
  BY DEF BusTypeOK, DispatcherTypeOK

(* The step's received calls are at most the dispatched ones. *)
LEMMA ReceivedBound ==
    ASSUME DispatcherTypeOK, WindowInv, InStep
    PROVE  received <= dispatched /\ Calls[step] - received \in Nat
<1>1. /\ IsFiniteSet(0..(dispatched - 1))
      /\ Cardinality(0..(dispatched - 1)) = dispatched
  <2>1. dispatched \in Nat /\ dispatched - 1 \in Int /\ 0 \in Int
    BY DEF DispatcherTypeOK
  <2>2. QED
    BY ONLY <2>1, FS_Interval
<1>2. Cardinality(answered) <= dispatched
  BY <1>1, FS_Subset DEF WindowInv
<1>3. Calls[step] \in Nat
  BY BusAssumption DEF DispatcherTypeOK
<1>4. QED
  BY <1>2, <1>3 DEF WindowInv, DispatcherTypeOK

(* A step that closes, with its missing calls, keeps the dispatcher's      *)
(* types.                                                                  *)
LEMMA CloseStepType ==
    ASSUME DispatcherTypeOK, InStep, NEW missing \in Nat, CloseStep(missing)
    PROVE  DispatcherTypeOK'
<1>1. \A k \in 1..missing : NotReported \in Outcome
  BY DEF NotReported, Outcome
<1>2. [k \in 1..missing |-> NotReported] \in Seq(Outcome)
  BY <1>1
<1>3. outcomes \o [k \in 1..missing |-> NotReported] \in Seq(Outcome)
  BY <1>2, ConcatProperties DEF DispatcherTypeOK
<1> DEFINE entry ==
        [step |-> step, dispatched |-> dispatched, received |-> received,
         duplicates |-> duplicates, missing |-> missing, late |-> late,
         outcomes |-> outcomes \o [k \in 1..missing |-> NotReported]]
<1>4. entry \in StepDispatch
  BY <1>3 DEF StepDispatch, DispatcherTypeOK
<1>5. report' = Append(report, entry)
  BY DEF CloseStep
<1> HIDE DEF entry
<1>6. report' \in Seq(StepDispatch)
  BY <1>4, <1>5, AppendProperties DEF DispatcherTypeOK
<1>7. integrity' \in Totals
  <2>1. /\ integrity.dispatched \in Nat /\ integrity.received \in Nat
        /\ integrity.duplicates \in Nat /\ integrity.missing \in Nat
        /\ integrity.late \in Nat
    BY DEF DispatcherTypeOK, Totals
  <2>2. /\ dispatched \in Nat /\ received \in Nat /\ duplicates \in Nat /\ late \in Nat
    BY DEF DispatcherTypeOK
  <2>3. /\ integrity.dispatched + dispatched \in Nat
        /\ integrity.received + received \in Nat
        /\ integrity.duplicates + duplicates \in Nat
        /\ integrity.missing + missing \in Nat
        /\ integrity.late + late \in Nat
    BY <2>1, <2>2
  <2>4. QED
    BY <2>3 DEF CloseStep, Totals
<1>8. QED
  BY <1>6, <1>7 DEF CloseStep, DispatcherTypeOK, Running, InStep, windowVars, busVars

(* The dispatcher's variables keep their types. *)
LEMMA DispatcherTypes ==
    ASSUME TypeOK, WindowInv, BatchInv, [Next]_vars
    PROVE  DispatcherTypeOK'
<1>0. DispatcherTypeOK /\ BusTypeOK
  BY DEF TypeOK
<1>1. results' = results => Len(results') = Len(results)
  OBVIOUS
<1>2. Len(results) \in Nat /\ Len(results') \in Nat /\ Len(results) <= Len(results')
  BY TopicsGrow, NextIsBusStep DEF Grows, BusTypeOK, TypeOK
<1>3. CASE UNCHANGED dispatcherVars
  BY <1>0, <1>2, <1>3 DEF dispatcherVars, windowVars, reportVars, DispatcherTypeOK, InStep
<1>4. CASE NextStep
  <2>1. step' \in StepIds /\ step' \in 0..NumSteps
    BY <1>0, <1>4, BusAssumption DEF NextStep, DispatcherTypeOK, StepIds
  <2>2. phase' \in Running \cup Stopped
    BY <1>4 DEF NextStep, Running, Stopped
  <2>3. outcomes' \in Seq(Outcome)
    BY <1>4 DEF NextStep, FreshWindow
  <2>4. /\ dispatched' \in Nat /\ received' \in Nat /\ inFlight' \in Int
        /\ duplicates' \in Nat /\ late' \in Nat /\ answered' \subseteq Nat
    BY <1>4 DEF NextStep, FreshWindow
  <2>5. QED
    BY <1>0, <1>4, <2>1, <2>2, <2>3, <2>4
    DEF NextStep, DispatcherTypeOK, InStep, reportVars, busVars
<1>5. CASE Return \/ AssignFails \/ PollFails \/ Continue \/ DeadlinePasses \/ Cancel
  BY <1>0, <1>5
  DEF Return, AssignFails, PollFails, Continue, DeadlinePasses, Cancel, DispatcherTypeOK,
      InStep, Running, Stopped, windowVars, reportVars, busVars
<1>6. CASE Assign
  BY <1>0, <1>6 DEF Assign, DispatcherTypeOK, InStep, reportVars
<1>7. ASSUME NEW n \in 1..(Len(results) - position), Poll(n)
      PROVE  DispatcherTypeOK'
  BY <1>0, <1>7 DEF Poll, DispatcherTypeOK, InStep, Running, windowVars, reportVars, busVars
<1>8. CASE Handle
  <2> DEFINE r == results[position + 1]
  <2>1. position + 1 \in 1..Len(results) /\ (r # Malformed => r \in CallResult)
    BY <1>0, <1>8, HandledType DEF Handle
  <2>2. Skip(r) \/ CountLate(r) \/ CountDuplicate(r) \/ CountAnswer(r)
    BY <1>8 DEF Handle
  <2> HIDE DEF r
  <2>3. /\ dispatched' \in Nat /\ received' \in Nat /\ inFlight' \in Int
        /\ duplicates' \in Nat /\ late' \in Nat /\ answered' \subseteq Nat
        /\ outcomes' \in Seq(Outcome)
    <3>1. CASE Skip(r) \/ CountLate(r) \/ CountDuplicate(r)
      <4>1. CASE Skip(r)
        BY <1>0, <4>1 DEF Skip, DispatcherTypeOK, windowVars
      <4>2. CASE CountLate(r)
        BY <1>0, <4>2 DEF CountLate, DispatcherTypeOK
      <4>3. CASE CountDuplicate(r)
        BY <1>0, <4>3 DEF CountDuplicate, DispatcherTypeOK
      <4>4. QED
        BY <3>1, <4>1, <4>2, <4>3
    <3>2. CASE CountAnswer(r)
      <4>1. r.seq \in Nat /\ CallOutcome(r) \in Outcome
        BY <2>1, <3>2 DEF CountAnswer, FromThisRun, CallResult, CallOutcome, Outcome
      <4>2. outcomes' \in Seq(Outcome)
        BY <1>0, <3>2, <4>1, AppendProperties DEF CountAnswer, DispatcherTypeOK
      <4>3. answered' \subseteq Nat
        BY <1>0, <3>2, <4>1 DEF CountAnswer, DispatcherTypeOK
      <4>4. received' \in Nat /\ inFlight' \in Int /\ dispatched' \in Nat
            /\ duplicates' \in Nat /\ late' \in Nat
        BY <1>0, <3>2 DEF CountAnswer, DispatcherTypeOK
      <4>5. QED
        BY <4>2, <4>3, <4>4
    <3>3. QED
      BY <2>2, <3>1, <3>2
  <2>4. position' \in 0..Len(results') /\ buffered' \in 0..(Len(results') - position')
    BY <1>0, <1>8, <2>1 DEF Handle, DispatcherTypeOK, busVars
  <2>5. QED
    BY <1>0, <1>8, <2>3, <2>4 DEF Handle, DispatcherTypeOK, InStep, reportVars
<1>9. ASSUME NEW missing, CloseStep(missing), InStep,
             missing \in {0, Calls[step] - received}
      PROVE  DispatcherTypeOK'
  <2>1. missing \in Nat
    BY <1>0, <1>9, ReceivedBound
  <2>2. QED
    BY <1>0, <1>9, <2>1, CloseStepType
<1>10. CASE CancelStep \/ GiveUp \/ CompleteStep
  BY <1>9, <1>10 DEF CancelStep, GiveUp, CompleteStep, PollDone, InStep
<1>11. QED
  BY <1>3, <1>4, <1>5, <1>6, <1>7, <1>8, <1>10
  DEF Next, vars, DispatcherNext, DispatcherLoop, DispatcherStep, DispatcherFault

(* What a commit writes are offsets. *)
LEMMA CommittedWithType ==
    ASSUME BusTypeOK, FleetTypeOK, BatchInv, NEW w \in Workers
    PROVE  CommittedWith(w) \in [Partitions -> Nat]
<1>1. ASSUME NEW p \in Partitions
      PROVE  CommittedWith(w)[p] \in Nat
  <2> DEFINE T == {o \in 1..Len(assignments[p]) : <<p, o>> \in batch[w]}
  <2>1. Len(assignments[p]) \in Nat
    BY DEF BusTypeOK
  <2>2. CASE T = {}
    BY <2>2 DEF CommittedWith, FleetTypeOK
  <2>3. CASE T # {}
    <3>1. PICK m \in T : \A o \in T : o <= m
      <4> T \in SUBSET (1..Len(assignments[p]))
        OBVIOUS
      <4> HIDE DEF T
      <4> QED
        BY <2>1, <2>3, GreatestOffset
    <3>2. \A r \in batch[w] : r[1] = p => r[2] <= m
      BY <2>1, <3>1 DEF FleetTypeOK, Records, BatchInv, BatchOf
    <3>3. QED
      BY <2>3, <3>1, <3>2 DEF CommittedWith
  <2>4. QED
    BY <2>2, <2>3
<1>2. QED
  BY <1>1 DEF CommittedWith

(* A worker that leaves keeps the types of what it leaves behind. *)
LEMMA LeaveTypes ==
    ASSUME FleetTypeOK, NEW w \in Workers, Leave(w)
    PROVE  /\ owner' \in [Partitions -> Workers \cup {NoWorker}]
           /\ life' \in [Workers -> {"down", "idle", "busy"}]
           /\ batch' \in [Workers -> SUBSET Records]
           /\ ended' \in [Workers -> SUBSET Records]
           /\ done' \in [Workers -> SUBSET Records]
           /\ expired' \in [Workers -> BOOLEAN]
           /\ stopping' \in [Workers -> BOOLEAN]
  BY DEF FleetTypeOK, Leave

(* The fleet's variables keep their types. *)
LEMMA FleetTypes ==
    ASSUME TypeOK, BatchInv, [Next]_vars
    PROVE  FleetTypeOK'
<1>0. FleetTypeOK /\ BusTypeOK
  BY DEF TypeOK
<1>1. CASE UNCHANGED fleetVars
  BY <1>0, <1>1 DEF fleetVars, groupVars, workerVars, FleetTypeOK, Records
<1>2. Fault \/ NoFault => faults' \in 0..MaxFaults
  BY <1>0, FleetAssumption DEF Fault, NoFault, FleetTypeOK
<1>3. ASSUME NEW w \in Workers, Leave(w), Fault \/ NoFault,
             committed' \in [Partitions -> Nat]
      PROVE  FleetTypeOK'
  BY <1>0, <1>2, <1>3, LeaveTypes DEF FleetTypeOK, Records
<1>4. ASSUME NEW w \in Workers, WorkerStep(w)
      PROVE  FleetTypeOK'
  <2>1. CASE Start(w)
    BY <1>0, <1>2, <2>1 DEF Start, FleetTypeOK, Records, groupVars
  <2>2. ASSUME NEW B \in Batches(w), NextBatch(w, B)
        PROVE  FleetTypeOK'
    <3>1. B \in SUBSET Records
      BY <1>0 DEF Batches, Fetchable, Records, FleetTypeOK, BusTypeOK
    <3>2. QED
      BY <1>0, <1>2, <2>2, <3>1 DEF NextBatch, FleetTypeOK, Records, groupVars
  <2>3. CASE \E B \in Batches(w) : NextMalformed(w, B)
    BY <1>0, <1>3, <2>3 DEF NextMalformed, FleetTypeOK
  <2>4. CASE StopIdle(w)
    BY <1>0, <1>3, <2>4 DEF StopIdle, FleetTypeOK
  <2>5. CASE EndCall(w)
    <3>1. PICK r \in Placing(w) : (\E err \in CallErrs : Complete(w, r, err)) \/ Abandon(w, r)
      BY <2>5 DEF EndCall
    <3>2. r \in Records
      BY <1>0 DEF Placing, FleetTypeOK
    <3>3. /\ ended' \in [Workers -> SUBSET Records]
          /\ done' \in [Workers -> SUBSET Records]
      <4>1. CASE Abandon(w, r)
        BY <1>0, <3>2, <4>1 DEF Abandon, FleetTypeOK
      <4>2. CASE \E err \in CallErrs : Complete(w, r, err)
        BY <1>0, <3>2, <4>2 DEF Complete, FleetTypeOK
      <4>3. QED
        BY <3>1, <4>1, <4>2
    <3>4. QED
      BY <1>0, <1>2, <3>1, <3>3 DEF Complete, Abandon, FleetTypeOK, Records, groupVars
  <2>6. CASE CommitBatch(w)
    <3>1. committed' \in [Partitions -> Nat]
      BY <1>0, <2>6, CommittedWithType DEF CommitBatch
    <3>2. CASE Leave(w)
      BY <1>3, <2>6, <3>1, <3>2 DEF CommitBatch
    <3>3. CASE Recycle(w)
      BY <1>0, <1>2, <2>6, <3>1, <3>3 DEF CommitBatch, Recycle, FleetTypeOK, Records
    <3>4. QED
      BY <2>6, <3>2, <3>3 DEF CommitBatch
  <2>7. CASE CommitRefused(w)
    BY <1>0, <1>3, <2>7 DEF CommitRefused, FleetTypeOK
  <2>8. QED
    BY <1>4, <2>1, <2>2, <2>3, <2>4, <2>5, <2>6, <2>7 DEF WorkerStep
<1>5. ASSUME NEW w \in Workers, WorkerFault(w)
      PROVE  FleetTypeOK'
  <2>1. CASE NextFails(w) \/ Crash(w)
    BY <1>0, <1>3, <2>1 DEF NextFails, Crash, FleetTypeOK
  <2>2. CASE \E r \in Placing(w) : \E err \in CallErrs : CompleteFails(w, r, err)
    <3>1. PICK r \in Placing(w) : \E err \in CallErrs : CompleteFails(w, r, err)
      BY <2>2
    <3>2. r \in Records
      BY <1>0 DEF Placing, FleetTypeOK
    <3>3. QED
      BY <1>0, <1>2, <3>1, <3>2 DEF CompleteFails, FleetTypeOK, Records, groupVars
  <2>3. CASE BatchTimeout(w) \/ DrainTimeout(w) \/ Stop(w)
    BY <1>0, <1>2, <2>3 DEF BatchTimeout, DrainTimeout, Stop, FleetTypeOK, Records, groupVars
  <2>4. CASE CommitFails(w)
    BY <1>0, <1>3, <2>4, CommittedWithType DEF CommitFails, FleetTypeOK
  <2>5. QED
    BY <1>5, <2>1, <2>2, <2>3, <2>4 DEF WorkerFault
<1>6. CASE (\E p \in Partitions : GroupStep(p)) \/ GroupFault
  BY <1>0, <1>2, <1>6
  DEF GroupStep, Take, GroupFault, Evict, Revoke, FleetTypeOK, Records, workerVars
<1>7. QED
  BY <1>1, <1>4, <1>5, <1>6 DEF Next, vars, FleetNext

-----------------------------------------------------------------------------
(* What the dispatcher knows.                                              *)

(* The dispatcher's step counters stay in tune with the calls that came    *)
(* back: a result is counted only for a call this step has dispatched.     *)
LEMMA WindowStays ==
    ASSUME TypeOK, WindowInv, SentInv, [Next]_vars
    PROVE  WindowInv'
<1>0. DispatcherTypeOK /\ BusTypeOK
  BY DEF TypeOK
<1>1. CASE UNCHANGED dispatcherVars
  BY <1>1 DEF dispatcherVars, windowVars, WindowInv, InStep
<1>2. CASE NextStep
  <2>1. step' \in StepIds
    BY <1>0, <1>2, BusAssumption DEF NextStep, DispatcherTypeOK, StepIds
  <2>2. Cardinality({}) = 0
    BY FS_EmptySet
  <2>3. QED
    BY <1>2, <2>1, <2>2, BusAssumption DEF NextStep, FreshWindow, WindowInv
<1>3. CASE ~InStep'
  BY <1>3 DEF WindowInv
<1>4. CASE Continue \/ DeadlinePasses \/ Cancel \/ \E n \in 1..(Len(results) - position) : Poll(n)
  BY <1>4 DEF Continue, DeadlinePasses, Cancel, Poll, windowVars, WindowInv, InStep
<1>5. CASE Assign
  <2>1. WindowOpen /\ InStep
    BY <1>5 DEF Assign, InStep
  <2>2. Calls[step] \in Nat /\ Concurrency[step] \in Nat
    BY <1>0, <2>1, BusAssumption DEF DispatcherTypeOK
  <2>3. /\ dispatched' = dispatched + 1 /\ inFlight' = inFlight + 1
        /\ received' = received /\ answered' = answered /\ step' = step
    BY <1>5 DEF Assign
  <2>4. /\ dispatched \in Nat /\ inFlight \in Int /\ received \in Nat
        /\ inFlight < Concurrency[step] /\ dispatched < Calls[step]
    BY <1>0, <2>1 DEF WindowOpen, DispatcherTypeOK
  <2>5. /\ answered \subseteq 0..(dispatched - 1) /\ received = Cardinality(answered)
        /\ inFlight = dispatched - received
    BY <2>1 DEF WindowInv
  <2>6. dispatched' <= Calls[step] /\ inFlight' <= Concurrency[step]
    BY <2>2, <2>3, <2>4
  <2>7. answered' \subseteq 0..(dispatched' - 1) /\ inFlight' = dispatched' - received'
    BY <2>3, <2>4, <2>5
  <2>8. QED
    BY <2>3, <2>5, <2>6, <2>7, Zenon DEF WindowInv
<1>6. CASE Handle
  <2> DEFINE r == results[position + 1]
  <2>1. position + 1 \in 1..Len(results) /\ (r # Malformed => r \in CallResult)
    BY <1>0, <1>6, HandledType DEF Handle
  <2>2. WasSent(r)
    BY <2>1 DEF SentInv
  <2>3. Skip(r) \/ CountLate(r) \/ CountDuplicate(r) \/ CountAnswer(r)
    BY <1>6 DEF Handle
  <2> HIDE DEF r
  <2>4. InStep /\ InStep' /\ step' = step
    BY <1>6 DEF Handle, InStep
  <2>5. CASE Skip(r) \/ CountLate(r) \/ CountDuplicate(r)
    BY <2>4, <2>5 DEF Skip, CountLate, CountDuplicate, windowVars, WindowInv
  <2>6. CASE CountAnswer(r)
    <3>1. r.seq \in 0..(dispatched - 1) /\ r.seq \notin answered
      BY <1>0, <2>1, <2>2, <2>4, <2>6
      DEF CountAnswer, FromThisRun, WasSent, CallResult, DispatcherTypeOK
    <3>2. answered \subseteq 0..(dispatched - 1) /\ received = Cardinality(answered)
      BY <2>4 DEF WindowInv
    <3>3. IsFiniteSet(answered)
      <4>1. dispatched - 1 \in Int /\ 0 \in Int
        BY <1>0 DEF DispatcherTypeOK
      <4>2. IsFiniteSet(0..(dispatched - 1))
        BY ONLY <4>1, FS_Interval
      <4>3. QED
        BY <3>2, <4>2, FS_Subset
    <3>4. Cardinality(answered \cup {r.seq}) = received + 1
      BY <3>1, <3>2, <3>3, FS_AddElement
    <3>5. Concurrency[step] \in Nat
      BY <1>0, <2>4, BusAssumption DEF DispatcherTypeOK
    <3>6. /\ dispatched' = dispatched /\ received' = received + 1
          /\ inFlight' = inFlight - 1 /\ answered' = answered \cup {r.seq}
      BY <2>6 DEF CountAnswer
    <3>7. answered' \subseteq 0..(dispatched' - 1)
      BY <3>1, <3>2, <3>6
    <3>8. /\ dispatched <= Calls[step] /\ inFlight = dispatched - received
          /\ inFlight <= Concurrency[step]
      BY <2>4 DEF WindowInv
    <3>9. inFlight' = dispatched' - received' /\ inFlight' <= Concurrency[step]
      BY <1>0, <3>5, <3>6, <3>8 DEF DispatcherTypeOK
    <3>10. QED
      BY <2>4, <3>4, <3>6, <3>7, <3>8, <3>9 DEF WindowInv
  <2>7. QED
    BY <2>3, <2>5, <2>6
<1>7. CASE Return \/ AssignFails \/ PollFails \/ CancelStep \/ GiveUp \/ CompleteStep
  <2>1. ~InStep'
    BY <1>7 DEF Return, AssignFails, PollFails, CancelStep, GiveUp, CompleteStep, CloseStep, InStep
  <2>2. QED
    BY <1>3, <2>1
<1>8. QED
  BY <1>1, <1>2, <1>4, <1>5, <1>6, <1>7
  DEF Next, vars, DispatcherNext, DispatcherLoop, DispatcherStep, DispatcherFault

(* How the step and its count of dispatched calls move. *)
LEMMA StepMoves ==
    ASSUME TypeOK, [Next]_vars
    PROVE  \/ step' = step + 1 /\ dispatched' = 0 /\ ~InStep
           \/ step' = step /\ ~InStep'
           \/ /\ step' = step /\ InStep /\ InStep'
              /\ \/ dispatched' = dispatched
                 \/ dispatched' = dispatched + 1 /\ Sends
<1>1. CASE UNCHANGED dispatcherVars
  BY <1>1 DEF dispatcherVars, windowVars, InStep
<1>2. CASE NextStep
  BY <1>2 DEF NextStep, FreshWindow, InStep
<1>3. CASE Return \/ AssignFails \/ PollFails \/ CancelStep \/ GiveUp \/ CompleteStep
  BY <1>3 DEF Return, AssignFails, PollFails, CancelStep, GiveUp, CompleteStep, CloseStep, InStep
<1>4. CASE Continue \/ DeadlinePasses \/ Cancel \/ \E n \in 1..(Len(results) - position) : Poll(n)
  BY <1>4 DEF Continue, DeadlinePasses, Cancel, Poll, windowVars, InStep
<1>5. CASE Assign
  BY <1>5 DEF Assign, Sends, InStep
<1>6. CASE Handle
  BY <1>6 DEF Handle, Skip, CountLate, CountDuplicate, CountAnswer, windowVars, InStep
<1>7. QED
  BY <1>1, <1>2, <1>3, <1>4, <1>5, <1>6
  DEF Next, vars, DispatcherNext, DispatcherLoop, DispatcherStep, DispatcherFault

(* A step that puts an assignment on the topic counts it, or ends the run. *)
LEMMA AssignSteps ==
    ASSUME TypeOK, [Next]_vars, Sends
    PROVE  step' = step /\ (InStep' => dispatched' = dispatched + 1)
<1>1. assignments' # assignments
  <2> DEFINE p == PartitionOf[<<step, dispatched>>]
  <2>1. step \in StepIds /\ dispatched \in Seqs(step)
    BY BusAssumption DEF Sends, WindowOpen, TypeOK, DispatcherTypeOK, InStep, Seqs, StepIds
  <2>2. p \in Partitions
    BY <2>1, BusAssumption
  <2>3. assignments' = [assignments EXCEPT ![p] = Append(@, Call(step, dispatched))]
    BY DEF Sends, Publish, Call
  <2> HIDE DEF p
  <2>4. assignments[p] \in Seq(Assignment \cup {Malformed})
    BY <2>2 DEF TypeOK, BusTypeOK
  <2>5. assignments'[p] = Append(assignments[p], Call(step, dispatched))
    BY <2>2, <2>3 DEF TypeOK, BusTypeOK
  <2>6. Len(Append(assignments[p], Call(step, dispatched))) = Len(assignments[p]) + 1
    BY <2>4
  <2>7. Len(assignments[p]) \in Nat
    BY <2>4
  <2>8. QED
    BY <2>5, <2>6, <2>7
<1>2. Assign \/ AssignFails
  BY <1>1
  DEF Next, vars, DispatcherNext, DispatcherLoop, DispatcherStep, DispatcherFault, NextStep, Return, Poll, Handle,
      CancelStep, GiveUp, CompleteStep, Continue, CloseStep, PollFails, DeadlinePasses, Cancel,
      busVars, FleetNext, WorkerStep, WorkerFault, GroupStep, GroupFault, Start, NextBatch,
      NextMalformed, StopIdle, EndCall, Complete, Abandon, CommitBatch, CommitRefused, NextFails,
      CompleteFails, BatchTimeout, DrainTimeout, Stop, Crash, CommitFails, Take, Evict, Revoke
<1>3. QED
  BY <1>2 DEF Assign, AssignFails, InStep

(* A record some step has sent remains one. *)
LEMMA SentOnce ==
    ASSUME TypeOK, [Next]_vars, NEW a \in Assignment \cup CallResult \cup {Malformed}, WasSent(a)
    PROVE  a # Malformed /\ a.run = Run =>
               /\ a.step <= step'
               /\ InStep' /\ a.step = step' => a.seq < dispatched'
<1> SUFFICES ASSUME a # Malformed, a.run = Run
             PROVE  a.step <= step' /\ (InStep' /\ a.step = step' => a.seq < dispatched')
  OBVIOUS
<1>1. a.step \in Nat /\ a.seq \in Nat /\ step \in Nat /\ dispatched \in Nat
  BY BusAssumption DEF Assignment, CallResult, TypeOK, DispatcherTypeOK, StepIds
<1>2. a.step <= step /\ (InStep /\ a.step = step => a.seq < dispatched)
  BY DEF WasSent
<1>3. QED
  BY <1>1, <1>2, StepMoves

(* The topics hold this run's calls of the steps so far, and no others. *)
LEMMA SentStays ==
    ASSUME TypeOK, SentInv, BatchInv, [Next]_vars
    PROVE  SentInv'
<1>0. BusStep /\ BusTypeOK /\ FleetTypeOK /\ DispatcherTypeOK
  BY NextIsBusStep DEF TypeOK
<1>1. ASSUME NEW p \in Partitions, NEW o \in 1..Len(assignments'[p])
      PROVE  WasSent(assignments[p][o])'
  <2> DEFINE b == assignments'[p][o]
  <2>1. CASE o \in 1..Len(assignments[p])
    <3>1. b = assignments[p][o]
      BY <1>0, <2>1, TopicsGrow DEF Grows
    <3>2. b \in Assignment \cup CallResult \cup {Malformed} /\ WasSent(b)
      BY <1>0, <2>1, <3>1 DEF BusTypeOK, SentInv
    <3> HIDE DEF b
    <3>3. b # Malformed /\ b.run = Run =>
              b.step <= step' /\ (InStep' /\ b.step = step' => b.seq < dispatched')
      BY <3>2, SentOnce
    <3>4. QED
      BY <3>3 DEF WasSent, b
  <2>2. CASE o \notin 1..Len(assignments[p])
    <3>1. Sends
      BY <1>0, <2>2 DEF BusStep, ReportsCall, busVars
    <3>2. b = Call(step, dispatched)
      <4>1. assignments'[p] = assignments[p] \/ assignments'[p] = Append(assignments[p], Call(step, dispatched))
        BY <1>0, <3>1 DEF Sends, Publish, BusTypeOK
      <4>2. assignments[p] \in Seq(Assignment \cup {Malformed})
        BY <1>0 DEF BusTypeOK
      <4>3. QED
        BY <2>2, <4>1, <4>2, AppendProperties
    <3>3. InStep /\ step \in Nat /\ dispatched \in Nat
      BY <1>0, <3>1, BusAssumption DEF Sends, InStep, DispatcherTypeOK, StepIds
    <3>4. step' = step /\ (InStep' => dispatched' = dispatched + 1)
      BY <3>1, <3>3, AssignSteps
    <3>5. QED
      BY <3>2, <3>3, <3>4 DEF WasSent, Call
  <2>3. QED
    BY <2>1, <2>2
<1>2. ASSUME NEW k \in 1..Len(results')
      PROVE  WasSent(results[k])'
  <2> DEFINE b == results'[k]
  <2>1. b \in Assignment \cup CallResult \cup {Malformed} /\ WasSent(b)
    <3>1. CASE k \in 1..Len(results)
      <4>1. b = results[k]
        BY <1>0, <3>1, TopicsGrow DEF Grows
      <4>2. QED
        BY <1>0, <3>1, <4>1 DEF BusTypeOK, SentInv
    <3>2. CASE k \notin 1..Len(results)
      <4>1. ReportsCall
        BY <1>0, <3>2 DEF BusStep, Sends, busVars
      <4>2. PICK w \in Workers : \E r \in batch[w] : \E err \in BOOLEAN :
                results' = Append(results, ResultOf(r, err))
        BY <4>1 DEF ReportsCall
      <4>3. PICK r \in batch[w], err \in BOOLEAN : results' = Append(results, ResultOf(r, err))
        BY <4>2
      <4>4. results \in Seq(CallResult \cup {Malformed})
        BY <1>0 DEF BusTypeOK
      <4>5. /\ r[1] \in Partitions /\ r[2] \in 1..Len(assignments[r[1]])
            /\ At(r) \in Assignment /\ ResultOf(r, err) \in CallResult
        BY <1>0, ResultType
      <4>6. b = ResultOf(r, err)
        BY <3>2, <4>3, <4>4, <4>5, AppendProperties
      <4>7. WasSent(At(r)) /\ At(r) # Malformed
        BY <4>5, MalformedAssumption DEF SentInv, At
      <4>8. QED
        BY <4>5, <4>6, <4>7 DEF WasSent, ResultOf
    <3>3. QED
      BY <3>1, <3>2
  <2> HIDE DEF b
  <2>2. b # Malformed /\ b.run = Run =>
            b.step <= step' /\ (InStep' /\ b.step = step' => b.seq < dispatched')
    BY <2>1, SentOnce
  <2>3. QED
    BY <2>2 DEF WasSent, b
<1>3. QED
  BY <1>1, <1>2 DEF SentInv

-----------------------------------------------------------------------------
(* What a worker holds.                                                    *)

(* A result stays published. *)
LEMMA PublishedStays ==
    ASSUME BusTypeOK, Grows(results, results'), Len(results') \in Nat,
           NEW a \in Assignment, Published(a)
    PROVE  Published(a)'
<1>1. PICK k \in 1..Len(results) : Answers(results[k], a)
  BY DEF Published
<1>2. k \in 1..Len(results') /\ results'[k] = results[k]
  BY <1>1 DEF Grows, BusTypeOK
<1>3. QED
  BY <1>1, <1>2 DEF Published, Answers

(* A batch a step does not touch stays as good as it was, unless its       *)
(* worker gets a partition or the committed offset moves under it.         *)
LEMMA BatchUntouched ==
    ASSUME BusTypeOK, BusTypeOK', FleetTypeOK, BatchInv, NEW w \in Workers,
           \A p \in Partitions : Grows(assignments[p], assignments'[p]),
           Grows(results, results'),
           batch'[w] = batch[w], ended'[w] = ended[w], done'[w] = done[w],
           life[w] = "busy" => life'[w] = "busy",
           \A r \in batch[w] : owner'[r[1]] = w =>
               owner[r[1]] = w /\ committed'[r[1]] = committed[r[1]]
    PROVE  BatchOf(w)'
<1>1. BatchOf(w)
  BY DEF BatchInv
<1>2. life'[w] # "busy" => batch'[w] = {}
  BY <1>1 DEF BatchOf
<1>3. ended'[w] \subseteq batch'[w] /\ done'[w] \subseteq ended'[w]
  BY <1>1 DEF BatchOf
<1>4. ASSUME NEW r \in batch'[w]
      PROVE  /\ r[2] <= Len(assignments'[r[1]])
             /\ At(r)' = At(r) /\ At(r) # Malformed
             /\ r \in done'[w] => Published(At(r))'
             /\ owner'[r[1]] = w =>
                    /\ committed'[r[1]] < r[2]
                    /\ \A o \in (committed'[r[1]] + 1)..r[2] : <<r[1], o>> \in batch'[w]
  <2>1. r[1] \in Partitions /\ r[2] \in Nat \ {0} /\ r[2] \in 1..Len(assignments[r[1]])
    BY <1>1 DEF BatchOf, FleetTypeOK, Records, BusTypeOK
  <2>2. Len(assignments[r[1]]) \in Nat /\ Len(assignments'[r[1]]) \in Nat /\ Len(results') \in Nat
    BY <2>1 DEF BusTypeOK
  <2>3. r[2] <= Len(assignments'[r[1]]) /\ At(r)' = At(r)
    BY <2>1, <2>2 DEF Grows, At
  <2>4. At(r) # Malformed /\ At(r) \in Assignment
    BY <1>1, <2>1 DEF BatchOf, At, BusTypeOK
  <2>5. r \in done'[w] => Published(At(r))'
    <3> SUFFICES ASSUME r \in done[w]
                 PROVE  Published(At(r))'
      OBVIOUS
    <3>1. Published(At(r))
      BY <1>1 DEF BatchOf
    <3>2. PICK k \in 1..Len(results) : Answers(results[k], At(r))
      BY <3>1 DEF Published
    <3>3. k \in 1..Len(results') /\ results'[k] = results[k]
      BY <2>2, <3>2 DEF Grows, BusTypeOK
    <3>4. QED
      BY <2>3, <3>2, <3>3 DEF Published, Answers
  <2>6. QED
    BY <1>1, <2>3, <2>4, <2>5 DEF BatchOf
<1>5. QED
  BY <1>2, <1>3, <1>4 DEF BatchOf

(* A worker without a batch. *)
LEMMA BatchEmpty ==
    ASSUME NEW w \in Workers, batch'[w] = {}, ended'[w] = {}, done'[w] = {}
    PROVE  BatchOf(w)'
  BY DEF BatchOf

(* In a batch every fetched record stands right after the committed offset *)
(* or after another of the batch.                                          *)
LEMMA BatchIsContiguous ==
    ASSUME BusTypeOK, FleetTypeOK, NEW w \in Workers, NEW B \in Batches(w), NEW r \in B
    PROVE  /\ r \in Records /\ owner[r[1]] = w
           /\ r[2] <= Len(assignments[r[1]])
           /\ committed[r[1]] < r[2]
           /\ \A o \in (committed[r[1]] + 1)..r[2] : <<r[1], o>> \in B
<1>1. /\ r[1] \in Partitions /\ r[2] \in Nat \ {0} /\ r = <<r[1], r[2]>>
      /\ owner[r[1]] = w
      /\ r[2] \in (committed[r[1]] + 1)..Len(assignments[r[1]])
      /\ committed[r[1]] \in Nat /\ Len(assignments[r[1]]) \in Nat
  BY DEF Batches, Fetchable, Records, FleetTypeOK, BusTypeOK
<1>2. \A q \in B : q[2] = committed[q[1]] + 1 \/ <<q[1], q[2] - 1>> \in B
  BY DEF Batches
<1> DEFINE p == r[1]
           c == committed[p]
           Gap == {o \in 1..r[2] : o > c /\ <<p, o>> \notin B}
<1>3. Gap = {}
  <2> SUFFICES ASSUME Gap # {}
               PROVE  FALSE
    OBVIOUS
  <2>1. PICK m \in Gap : \A o \in Gap : o <= m
    <3>1. Gap \in SUBSET (1..r[2]) /\ r[2] \in Nat
      BY <1>1
    <3> HIDE DEF Gap
    <3>2. QED
      BY <3>1, GreatestOffset
  <2>2. m < r[2] /\ m > c /\ m \in Nat
    BY <1>1, <2>1
  <2>3. <<p, m + 1>> \in B
    BY <1>1, <2>1, <2>2
  <2>4. <<p, m>> \in B
    BY <1>1, <1>2, <2>2, <2>3
  <2>5. QED
    BY <2>1, <2>4
<1>4. QED
  BY <1>1, <1>3 DEF Records

(* What a commit of a finished batch moves: a partition it holds records   *)
(* of goes on to the last of them, every other one stays.                  *)
LEMMA CommitMoves ==
    ASSUME BusTypeOK, FleetTypeOK, BatchInv, NEW w \in Workers, StillMember(w),
           NEW p \in Partitions
    PROVE  \/ /\ CommittedWith(w)[p] = committed[p]
              /\ \A r \in batch[w] : r[1] # p
           \/ /\ owner[p] = w
              /\ CommittedWith(w)[p] \in 1..Len(assignments[p])
              /\ CommittedWith(w)[p] > committed[p]
              /\ \A o \in (committed[p] + 1)..CommittedWith(w)[p] : <<p, o>> \in batch[w]
<1> DEFINE T == {o \in 1..Len(assignments[p]) : <<p, o>> \in batch[w]}
           m == CommittedWith(w)[p]
<1>1. Len(assignments[p]) \in Nat /\ committed[p] \in Nat
  BY DEF BusTypeOK, FleetTypeOK
<1>2. BatchOf(w)
  BY DEF BatchInv
<1>3. \A r \in batch[w] : r[1] = p => r = <<p, r[2]>> /\ r[2] \in T
  <2> SUFFICES ASSUME NEW r \in batch[w], r[1] = p
               PROVE  r = <<p, r[2]>> /\ r[2] \in T
    OBVIOUS
  <2>1. r = <<p, r[2]>> /\ r[2] \in Nat \ {0}
    BY DEF FleetTypeOK, Records
  <2>2. r[2] \in 1..Len(assignments[p])
    BY <1>1, <1>2, <2>1 DEF BatchOf
  <2>3. QED
    BY <2>1, <2>2
<1>4. CASE T = {}
  BY <1>3, <1>4 DEF CommittedWith
<1>5. CASE T # {}
  <2>1. PICK t \in T : \A o \in T : o <= t
    <3> T \in SUBSET (1..Len(assignments[p]))
      OBVIOUS
    <3> HIDE DEF T
    <3> QED
      BY <1>1, <1>5, GreatestOffset
  <2>2. \A r \in batch[w] : r[1] = p => r[2] <= t
    BY <1>3, <2>1
  <2>3. m \in 1..Len(assignments[p]) /\ <<p, m>> \in batch[w]
    BY <1>5, <2>1, <2>2 DEF CommittedWith
  <2> HIDE DEF m
  <2>4. owner[p] = w
    BY <2>3 DEF StillMember
  <2>5. committed[p] < m /\ \A o \in (committed[p] + 1)..m : <<p, o>> \in batch[w]
    BY <1>2, <2>3, <2>4 DEF BatchOf
  <2>6. QED
    BY <1>1, <2>3, <2>4, <2>5 DEF m
<1>6. QED
  BY <1>4, <1>5

(* The worker's own steps and the group's keep every batch readable,       *)
(* published where it says so, and next in line.                           *)
LEMMA BatchStays ==
    ASSUME TypeOK, BatchInv, [Next]_vars
    PROVE  BatchInv'
<1>0. /\ BusTypeOK /\ BusTypeOK' /\ FleetTypeOK
      /\ \A p \in Partitions : Grows(assignments[p], assignments'[p])
      /\ Grows(results, results')
  BY NextIsBusStep, TopicsGrow DEF TypeOK
<1> SUFFICES ASSUME NEW v \in Workers
             PROVE  BatchOf(v)'
  BY DEF BatchInv
<1>00. BatchOf(v)
  BY DEF BatchInv
<1>01. NoWorker # v
  BY FleetAssumption
<1>1. CASE UNCHANGED fleetVars
  BY <1>0, <1>1, BatchUntouched DEF fleetVars, groupVars, workerVars
<1>2. ASSUME NEW w \in Workers, Leave(w), committed' = committed
      PROVE  BatchOf(v)'
  <2>1. CASE w = v
    BY <1>0, <1>2, <2>1, BatchEmpty DEF Leave, FleetTypeOK
  <2>2. CASE w # v
    <3>1. \A r \in batch[v] : r[1] \in Partitions
      BY <1>0 DEF FleetTypeOK, Records
    <3>2. QED
      BY <1>0, <1>01, <1>2, <2>2, <3>1, BatchUntouched DEF Leave, FleetTypeOK
  <2>3. QED
    BY <2>1, <2>2
<1>3. ASSUME NEW w \in Workers, StillMember(w),
             Leave(w) \/ Recycle(w), committed' = CommittedWith(w)
      PROVE  BatchOf(v)'
  <2>1. CASE w = v
    BY <1>0, <1>3, <2>1, BatchEmpty DEF Leave, Recycle, FleetTypeOK
  <2>2. CASE w # v
    <3>1. \A r \in batch[v] : r[1] \in Partitions
      BY <1>0 DEF FleetTypeOK, Records
    <3>2. \A r \in batch[v] : owner'[r[1]] = v =>
              owner[r[1]] = v /\ committed'[r[1]] = committed[r[1]]
      <4> SUFFICES ASSUME NEW r \in batch[v], owner'[r[1]] = v
                   PROVE  owner[r[1]] = v /\ committed'[r[1]] = committed[r[1]]
        OBVIOUS
      <4>1. owner[r[1]] = v
        BY <1>0, <1>01, <1>3, <3>1 DEF Leave, Recycle, FleetTypeOK
      <4>2. QED
        BY <1>0, <1>3, <2>2, <3>1, <4>1, CommitMoves
    <3>3. /\ batch'[v] = batch[v] /\ ended'[v] = ended[v] /\ done'[v] = done[v]
          /\ life'[v] = life[v]
      BY <1>0, <1>3, <2>2 DEF Leave, Recycle, FleetTypeOK
    <3>4. QED
      BY <1>0, <3>2, <3>3, BatchUntouched
  <2>3. QED
    BY <2>1, <2>2
<1>4. ASSUME NEW w \in Workers, Start(w)
      PROVE  BatchOf(v)'
  BY <1>0, <1>00, <1>4, BatchUntouched DEF Start, FleetTypeOK, groupVars
<1>5. ASSUME NEW w \in Workers, NEW B \in Batches(w), NextBatch(w, B)
      PROVE  BatchOf(v)'
  <2>1. CASE w = v
    <3>1. /\ batch'[v] = B /\ ended'[v] = {} /\ done'[v] = {} /\ life'[v] = "busy"
          /\ owner' = owner /\ committed' = committed /\ assignments' = assignments
          /\ \A r \in B : At(r) # Malformed
      BY <1>0, <1>00, <1>5, <2>1 DEF NextBatch, FleetTypeOK, BatchOf, groupVars, busVars
    <3>2. \A r \in B :
              /\ r[2] <= Len(assignments'[r[1]])
              /\ (At(r) # Malformed)'
              /\ owner'[r[1]] = v =>
                     /\ committed'[r[1]] < r[2]
                     /\ \A o \in (committed'[r[1]] + 1)..r[2] : <<r[1], o>> \in B
      BY <1>0, <2>1, <3>1, BatchIsContiguous DEF At
    <3>3. QED
      BY <3>1, <3>2 DEF BatchOf
  <2>2. CASE w # v
    BY <1>0, <1>5, <2>2, BatchUntouched DEF NextBatch, FleetTypeOK, groupVars
  <2>3. QED
    BY <2>1, <2>2
<1>6. ASSUME NEW w \in Workers, NEW r \in Placing(w), NEW err \in CallErrs, Complete(w, r, err)
      PROVE  BatchOf(v)'
  <2>1. CASE w # v
    BY <1>0, <1>6, <2>1, BatchUntouched DEF Complete, FleetTypeOK, groupVars
  <2>2. CASE w = v
    <3>1. r \in batch[v] /\ err \in BOOLEAN
      BY <2>2, FleetAssumption DEF Placing
    <3>2. /\ batch' = batch /\ owner' = owner /\ committed' = committed
          /\ assignments' = assignments /\ life' = life
          /\ ended'[v] = ended[v] \cup {r} /\ done'[v] = done[v] \cup {r}
          /\ results' = Append(results, ResultOf(r, err))
      BY <1>0, <1>6, <2>2 DEF Complete, FleetTypeOK, groupVars
    <3>3. \A q \in batch[v] :
              /\ q[1] \in Partitions /\ q[2] \in 1..Len(assignments[q[1]])
              /\ At(q) \in Assignment /\ ResultOf(q, err) \in CallResult
      BY <1>0, <3>1, ResultType
    <3>4. \A q \in batch[v] : q \in done'[v] => Published(At(q))'
      <4> SUFFICES ASSUME NEW q \in batch[v], q \in done'[v]
                   PROVE  Published(At(q))'
        OBVIOUS
      <4>1. results \in Seq(CallResult \cup {Malformed})
        BY <1>0 DEF BusTypeOK
      <4>2. At(q)' = At(q)
        BY <3>2 DEF At
      <4>3. /\ Len(results') = Len(results) + 1 /\ Len(results) \in Nat
            /\ results'[Len(results) + 1] = ResultOf(r, err)
            /\ \A k \in 1..Len(results) : results'[k] = results[k]
        BY <3>1, <3>2, <3>3, <4>1, AppendProperties
      <4>4. CASE q = r
        <5>1. Answers(ResultOf(r, err), At(r))
          BY <3>1, <3>3, MalformedAssumption DEF Answers, ResultOf
        <5>2. QED
          BY <4>2, <4>3, <4>4, <5>1 DEF Published, Answers
      <4>5. CASE q # r
        <5>1. Published(At(q))
          BY <1>00, <3>2, <4>5 DEF BatchOf
        <5>2. QED
          BY <4>2, <4>3, <5>1 DEF Published, Answers
      <4>6. QED
        BY <4>4, <4>5
    <3>5. \A q \in batch[v] : At(q)' = At(q)
      BY <3>2 DEF At
    <3>6. QED
      BY <1>00, <3>1, <3>2, <3>4, <3>5 DEF BatchOf
  <2>3. QED
    BY <2>1, <2>2
<1>7. ASSUME NEW w \in Workers, NEW r \in Placing(w),
             \/ Abandon(w, r)
             \/ \E err \in CallErrs : CompleteFails(w, r, err)
      PROVE  BatchOf(v)'
  <2>1. /\ batch' = batch /\ done' = done /\ owner' = owner /\ committed' = committed
        /\ assignments' = assignments /\ life' = life
        /\ ended' = [ended EXCEPT ![w] = @ \cup {r}]
    BY <1>7 DEF Abandon, CompleteFails, groupVars, busVars
  <2>2. CASE w # v
    BY <1>0, <2>1, <2>2, BatchUntouched DEF FleetTypeOK
  <2>3. CASE w = v
    <3>1. ended'[v] = ended[v] \cup {r} /\ r \in batch[v]
      BY <1>0, <2>1, <2>3 DEF FleetTypeOK, Placing
    <3>2. \A q \in batch[v] : At(q)' = At(q)
      BY <2>1 DEF At
    <3>3. \A q \in batch[v] : q \in done[v] => Published(At(q))'
      <4> SUFFICES ASSUME NEW q \in batch[v], q \in done[v]
                   PROVE  Published(At(q))'
        OBVIOUS
      <4>1. Published(At(q))
        BY <1>00 DEF BatchOf
      <4>2. PICK k \in 1..Len(results) : Answers(results[k], At(q))
        BY <4>1 DEF Published
      <4>3. k \in 1..Len(results') /\ results'[k] = results[k]
        BY <1>0, <4>2 DEF Grows, BusTypeOK
      <4>4. QED
        BY <3>2, <4>2, <4>3 DEF Published, Answers
    <3>4. QED
      BY <1>00, <2>1, <3>1, <3>2, <3>3 DEF BatchOf
  <2>4. QED
    BY <2>2, <2>3
<1>8. ASSUME NEW w \in Workers, WorkerStep(w)
      PROVE  BatchOf(v)'
  BY <1>2, <1>3, <1>4, <1>5, <1>6, <1>7, <1>8
  DEF WorkerStep, NextMalformed, StopIdle, EndCall, CommitBatch, CommitRefused
<1>9. ASSUME NEW w \in Workers, WorkerFault(w)
      PROVE  BatchOf(v)'
  <2>1. CASE BatchTimeout(w) \/ DrainTimeout(w) \/ Stop(w)
    BY <1>0, <2>1, BatchUntouched DEF BatchTimeout, DrainTimeout, Stop, groupVars
  <2>2. CASE NextFails(w) \/ Crash(w) \/ CommitFails(w)
    BY <1>2, <1>3, <2>2 DEF NextFails, Crash, CommitFails
  <2>3. QED
    BY <1>7, <1>9, <2>1, <2>2 DEF WorkerFault
<1>10. ASSUME NEW p \in Partitions, GroupStep(p)
       PROVE  BatchOf(v)'
  <2>1. PICK w \in Workers : Take(w, p)
    BY <1>10 DEF GroupStep
  <2>2. CASE w = v
    <3>1. batch[v] = {} /\ batch' = batch /\ ended' = ended /\ done' = done
      BY <1>00, <2>1, <2>2 DEF Take, MayRebalance, BatchOf, workerVars
    <3>2. ended[v] = {} /\ done[v] = {}
      BY <1>00, <3>1 DEF BatchOf
    <3>3. QED
      BY <3>1, <3>2, BatchEmpty
  <2>3. CASE w # v
    BY <1>0, <2>1, <2>3, BatchUntouched DEF Take, FleetTypeOK, workerVars, Records
  <2>4. QED
    BY <2>2, <2>3
<1>11. CASE GroupFault
  <2>1. /\ batch' = batch /\ ended' = ended /\ done' = done /\ life' = life
        /\ committed' = committed
    BY <1>11 DEF GroupFault, Evict, Revoke, workerVars
  <2>2. \A p \in Partitions : owner'[p] = v => owner[p] = v
    BY <1>0, <1>01, <1>11 DEF GroupFault, Evict, Revoke, FleetTypeOK
  <2>3. QED
    BY <1>0, <2>1, <2>2, BatchUntouched DEF FleetTypeOK, Records
<1>12. QED
  BY <1>1, <1>8, <1>9, <1>10, <1>11 DEF Next, vars, FleetNext

(* How the group's offsets move. *)
LEMMA OffsetMoves ==
    ASSUME TypeOK, [Next]_vars
    PROVE  \/ committed' = committed
           \/ \E w \in Workers :
                  /\ StillMember(w) /\ done[w] = batch[w]
                  /\ committed' = CommittedWith(w)
<1>1. CASE UNCHANGED fleetVars
  BY <1>1 DEF fleetVars, groupVars
<1>2. ASSUME NEW w \in Workers, WorkerStep(w) \/ WorkerFault(w)
      PROVE  \/ committed' = committed
             \/ StillMember(w) /\ done[w] = batch[w] /\ committed' = CommittedWith(w)
  <2>1. CASE CommitBatch(w) \/ CommitFails(w)
    BY <2>1 DEF CommitBatch, CommitFails
  <2>2. CASE ~(CommitBatch(w) \/ CommitFails(w))
    BY <1>2, <2>2
    DEF WorkerStep, WorkerFault, Start, NextBatch, NextMalformed, StopIdle, EndCall, Complete,
        Abandon, CommitRefused, NextFails, CompleteFails, BatchTimeout, DrainTimeout, Stop, Crash,
        groupVars
  <2>3. QED
    BY <2>1, <2>2
<1>3. CASE (\E p \in Partitions : GroupStep(p)) \/ GroupFault
  BY <1>3 DEF GroupStep, GroupFault, Take, Evict, Revoke
<1>4. QED
  BY <1>1, <1>2, <1>3 DEF Next, vars, FleetNext

(* A commit moves an offset forward, within the log, past records whose    *)
(* results are published.                                                  *)
LEMMA OffsetsAdvance ==
    ASSUME TypeOK, BatchInv, CommittedInLog, [Next]_vars, NEW p \in Partitions
    PROVE  /\ committed'[p] \in committed[p]..Len(assignments[p])
           /\ \A o \in (committed[p] + 1)..committed'[p] :
                  assignments[p][o] # Malformed /\ Published(assignments[p][o])
<1>1. BusTypeOK /\ FleetTypeOK
  BY DEF TypeOK
<1>2. committed[p] \in Nat /\ Len(assignments[p]) \in Nat /\ committed[p] <= Len(assignments[p])
  BY <1>1 DEF FleetTypeOK, BusTypeOK, CommittedInLog
<1>3. CASE committed' = committed
  BY <1>2, <1>3
<1>4. ASSUME NEW w \in Workers, StillMember(w), done[w] = batch[w],
             committed' = CommittedWith(w)
      PROVE  /\ committed'[p] \in committed[p]..Len(assignments[p])
             /\ \A o \in (committed[p] + 1)..committed'[p] :
                    assignments[p][o] # Malformed /\ Published(assignments[p][o])
  <2>1. CASE committed'[p] = committed[p]
    BY <1>2, <2>1
  <2>2. CASE committed'[p] # committed[p]
    <3>1. /\ committed'[p] \in 1..Len(assignments[p])
          /\ committed'[p] > committed[p]
          /\ \A o \in (committed[p] + 1)..committed'[p] : <<p, o>> \in batch[w]
      BY <1>1, <1>4, <2>2, CommitMoves
    <3>2. \A o : <<p, o>> \in batch[w] =>
              assignments[p][o] # Malformed /\ Published(assignments[p][o])
      BY <1>4 DEF BatchInv, BatchOf, At
    <3>3. \A o \in (committed[p] + 1)..committed'[p] :
              assignments[p][o] # Malformed /\ Published(assignments[p][o])
      BY <3>1, <3>2
    <3>4. committed'[p] \in committed[p]..Len(assignments[p])
      BY <1>2, <3>1
    <3>5. QED
      BY <3>3, <3>4
  <2>3. QED
    BY <2>1, <2>2
<1>5. QED
  BY <1>3, <1>4, OffsetMoves

(* No offset passes the end of its log. *)
LEMMA InLogStays ==
    ASSUME TypeOK, BatchInv, CommittedInLog, [Next]_vars
    PROVE  CommittedInLog'
<1> SUFFICES ASSUME NEW p \in Partitions
             PROVE  committed'[p] <= Len(assignments'[p])
  BY DEF CommittedInLog
<1>1. committed'[p] \in committed[p]..Len(assignments[p])
  BY OffsetsAdvance
<1>2. Grows(assignments[p], assignments'[p]) /\ BusTypeOK' /\ BusTypeOK /\ FleetTypeOK
  BY NextIsBusStep, TopicsGrow DEF TypeOK
<1>3. Len(assignments[p]) \in Nat /\ Len(assignments'[p]) \in Nat /\ committed[p] \in Nat
  BY <1>2 DEF BusTypeOK, FleetTypeOK
<1>4. QED
  BY <1>1, <1>2, <1>3 DEF Grows

(* Committed assignments stay readable and answered. *)
LEMMA CommittedStays ==
    ASSUME TypeOK, BatchInv, CommittedInLog, CommittedArePublished, [Next]_vars
    PROVE  CommittedArePublished'
<1> SUFFICES ASSUME NEW p \in Partitions, NEW o \in 1..committed'[p]
             PROVE  (assignments[p][o] # Malformed /\ Published(assignments[p][o]))'
  BY DEF CommittedArePublished
<1>1. /\ BusTypeOK /\ BusTypeOK' /\ FleetTypeOK
      /\ Grows(assignments[p], assignments'[p]) /\ Grows(results, results')
  BY NextIsBusStep, TopicsGrow DEF TypeOK
<1>2. committed[p] \in Nat /\ committed'[p] \in committed[p]..Len(assignments[p])
  BY <1>1, OffsetsAdvance DEF FleetTypeOK
<1>3. o \in 1..Len(assignments[p]) /\ Len(results') \in Nat
  BY <1>1, <1>2 DEF BusTypeOK
<1>4. assignments[p][o] # Malformed /\ Published(assignments[p][o])
  <2>1. CASE o \in 1..committed[p]
    BY <2>1 DEF CommittedArePublished
  <2>2. CASE o \in (committed[p] + 1)..committed'[p]
    BY <2>2, OffsetsAdvance
  <2>3. QED
    BY <1>2, <2>1, <2>2
<1>5. assignments'[p][o] = assignments[p][o]
  BY <1>1, <1>3 DEF Grows
<1>6. PICK k \in 1..Len(results) : Answers(results[k], assignments[p][o])
  BY <1>4 DEF Published
<1>7. k \in 1..Len(results') /\ results'[k] = results[k]
  BY <1>1, <1>3, <1>6 DEF Grows, BusTypeOK
<1>8. QED
  BY <1>4, <1>5, <1>6, <1>7 DEF Published, Answers

-----------------------------------------------------------------------------
(* What a step has dispatched and what it has read.                        *)

(* The step's calls are in the assignment topic. *)
LEMMA DispatchedStays ==
    ASSUME TypeOK, BatchInv, DispatchedInv, [Next]_vars
    PROVE  DispatchedInv'
<1> SUFFICES ASSUME InStep', NEW i \in 0..(dispatched' - 1)
             PROVE  \E p \in Partitions : \E o \in 1..Len(assignments'[p]) :
                        assignments'[p][o] = Call(step', i)
  BY DEF DispatchedInv, Call
<1>1. /\ BusTypeOK /\ BusTypeOK' /\ DispatcherTypeOK
      /\ \A p \in Partitions : Grows(assignments[p], assignments'[p])
  BY NextIsBusStep, TopicsGrow DEF TypeOK
<1>2. step' = step /\ InStep /\ (dispatched' = dispatched \/ (dispatched' = dispatched + 1 /\ Sends))
  BY StepMoves
<1>3. dispatched \in Nat
  BY <1>1 DEF DispatcherTypeOK
<1>4. CASE i \in 0..(dispatched - 1)
  <2>1. PICK p \in Partitions : \E o \in 1..Len(assignments[p]) :
            assignments[p][o] = Call(step, i)
    BY <1>2, <1>4 DEF DispatchedInv
  <2>2. PICK o \in 1..Len(assignments[p]) : assignments[p][o] = Call(step, i)
    BY <2>1
  <2>3. Len(assignments[p]) \in Nat /\ Len(assignments'[p]) \in Nat
    BY <1>1 DEF BusTypeOK
  <2>4. o \in 1..Len(assignments'[p]) /\ assignments'[p][o] = assignments[p][o]
    BY <1>1, <2>3 DEF Grows
  <2>5. QED
    BY <1>2, <2>2, <2>4
<1>5. CASE i = dispatched /\ Sends
  <2> DEFINE p == PartitionOf[<<step, dispatched>>]
  <2>1. step \in StepIds /\ dispatched \in Seqs(step)
    BY <1>1, <1>5, BusAssumption DEF Sends, WindowOpen, DispatcherTypeOK, InStep, Seqs, StepIds
  <2>2. p \in Partitions
    BY <2>1, BusAssumption
  <2>3. assignments' = [assignments EXCEPT ![p] = Append(@, Call(step, dispatched))]
    BY <1>5 DEF Sends, Publish, Call
  <2> HIDE DEF p
  <2>4. assignments[p] \in Seq(Assignment \cup {Malformed})
    BY <1>1, <2>2 DEF BusTypeOK
  <2>5. assignments'[p] = Append(assignments[p], Call(step, dispatched))
    BY <1>1, <2>2, <2>3 DEF BusTypeOK
  <2>6. /\ Len(assignments[p]) + 1 \in 1..Len(assignments'[p])
        /\ assignments'[p][Len(assignments[p]) + 1] = Call(step, dispatched)
    BY <2>4, <2>5
  <2>7. QED
    BY <1>2, <1>5, <2>2, <2>6
<1>6. QED
  BY <1>2, <1>3, <1>4, <1>5

(* What the step has read of its own results it has counted. *)
LEMMA ConsumedStays ==
    ASSUME TypeOK, SentInv, BatchInv, ConsumedInv, [Next]_vars
    PROVE  ConsumedInv'
<1>1. BusTypeOK /\ BusTypeOK' /\ DispatcherTypeOK /\ Grows(results, results')
  BY NextIsBusStep, TopicsGrow DEF TypeOK
<1>2. position \in 0..Len(results) /\ Len(results) \in Nat
  BY <1>1 DEF DispatcherTypeOK, BusTypeOK
<1>3. \A k \in 1..position : results'[k] = results[k]
  BY <1>1, <1>2 DEF Grows
<1>4. CASE ~InStep'
  BY <1>4 DEF ConsumedInv
<1>5. ASSUME position' = position, step' = step, answered' = answered, InStep
      PROVE  ConsumedInv'
  BY <1>3, <1>5 DEF ConsumedInv, FromThisRun
<1>6. CASE NextStep
  <2>1. step' = step + 1 /\ position' = position
    BY <1>6 DEF NextStep
  <2>2. ASSUME NEW k \in 1..position, FromThisRun(results[k])
        PROVE  results[k].step # step'
    <3>1. WasSent(results[k]) /\ results[k] \in CallResult
      BY <1>1, <1>2, <2>2 DEF SentInv, BusTypeOK, FromThisRun
    <3>2. results[k].step \in Nat /\ step \in Nat
      BY <1>1, <3>1, BusAssumption DEF CallResult, StepIds, DispatcherTypeOK
    <3>3. QED
      BY <2>1, <2>2, <3>1, <3>2 DEF WasSent, FromThisRun
  <2>3. QED
    BY <1>3, <2>1, <2>2 DEF ConsumedInv, FromThisRun
<1>7. CASE Handle
  <2> DEFINE r == results[position + 1]
  <2>1. position + 1 \in 1..Len(results) /\ results'[position + 1] = r
    BY <1>1, <1>7, HandledType DEF Handle, Grows
  <2>2. position' = position + 1 /\ step' = step /\ InStep
    BY <1>7 DEF Handle, InStep
  <2>3. Skip(r) \/ CountLate(r) \/ CountDuplicate(r) \/ CountAnswer(r)
    BY <1>7 DEF Handle
  <2> HIDE DEF r
  <2>4. /\ answered \subseteq answered'
        /\ FromThisRun(r) /\ r.step = step => r.seq \in answered'
    BY <2>3 DEF Skip, CountLate, CountDuplicate, CountAnswer, windowVars
  <2>5. \A k \in 1..(position + 1) : k \in 1..position \/ k = position + 1
    BY <1>2
  <2>6. QED
    BY <1>3, <2>1, <2>2, <2>4, <2>5 DEF ConsumedInv, FromThisRun
<1>8. CASE UNCHANGED dispatcherVars
  BY <1>4, <1>5, <1>8 DEF dispatcherVars, windowVars, InStep
<1>9. CASE \/ Return \/ AssignFails \/ PollFails \/ CancelStep \/ GiveUp \/ CompleteStep
           \/ Assign \/ Continue \/ DeadlinePasses \/ Cancel
           \/ \E n \in 1..(Len(results) - position) : Poll(n)
  BY <1>4, <1>5, <1>9
  DEF Return, AssignFails, PollFails, CancelStep, GiveUp, CompleteStep, CloseStep, Assign, Continue,
      DeadlinePasses, Cancel, Poll, windowVars, InStep
<1>10. QED
  BY <1>6, <1>7, <1>8, <1>9
  DEF Next, vars, DispatcherNext, DispatcherLoop, DispatcherStep, DispatcherFault

-----------------------------------------------------------------------------
(* The invariant and what follows from it.                                 *)

(* The run starts in the invariant: what other runs and strangers left on  *)
(* the topics is not of this run, and nothing is committed.                *)
LEMMA InitIInv ==
    ASSUME Init
    PROVE  IInv
<1> USE DEF Init
<1>1. BusTypeOK
  <2>1. assignments \in [Partitions -> Seq({a \in Assignment : a.run = OtherRun} \cup {Malformed})]
    BY LeftoverAssumption DEF BusInit
  <2>2. results \in Seq({r \in CallResult : r.run = OtherRun} \cup {Malformed})
    BY LeftoverAssumption DEF BusInit
  <2> DEFINE Before == {a \in Assignment : a.run = OtherRun} \cup {Malformed}
             Later == Assignment \cup {Malformed}
  <2>3. \A p \in Partitions : assignments[p] \in Seq(Later)
    <3>1. Before \subseteq Later /\ \A p \in Partitions : assignments[p] \in Seq(Before)
      BY <2>1
    <3> HIDE DEF Before, Later
    <3>2. QED
      BY <3>1
  <2>4. results \in Seq(CallResult \cup {Malformed})
    BY <2>2
  <2>5. QED
    BY <2>1, <2>3, <2>4 DEF BusTypeOK
<1>2. DispatcherTypeOK
  <2>1. Len(results) \in Nat
    BY <1>1 DEF BusTypeOK
  <2>2. outcomes \in Seq(Outcome) /\ report \in Seq(StepDispatch)
    BY DEF DispatcherInit
  <2>3. integrity \in Totals
    BY DEF DispatcherInit, Totals
  <2>4. position \in 0..Len(results) /\ buffered \in 0..(Len(results) - position)
    BY <2>1 DEF DispatcherInit
  <2>5. step \in 0..NumSteps /\ phase \in Running /\ ~InStep
    BY BusAssumption DEF DispatcherInit, InStep, Running
  <2>6. /\ dispatched \in Nat /\ received \in Nat /\ inFlight \in Int
        /\ duplicates \in Nat /\ late \in Nat /\ answered \subseteq Nat
    BY DEF DispatcherInit
  <2>7. overdue \in BOOLEAN /\ cancelled \in BOOLEAN
    BY DEF DispatcherInit
  <2>8. QED
    BY <2>2, <2>3, <2>4, <2>5, <2>6, <2>7 DEF DispatcherTypeOK
<1>3. FleetTypeOK
  BY FleetAssumption DEF FleetInit, FleetTypeOK
<1>4. ~InStep
  BY DEF DispatcherInit, InStep
<1>5. WindowInv /\ DispatchedInv /\ ConsumedInv
  BY <1>4 DEF WindowInv, DispatchedInv, ConsumedInv
<1>6. SentInv
  <2>1. ASSUME NEW p \in Partitions, NEW o \in 1..Len(assignments[p])
        PROVE  WasSent(assignments[p][o])
    <3>1. assignments[p] \in Seq({a \in Assignment : a.run = OtherRun} \cup {Malformed})
      BY LeftoverAssumption DEF BusInit
    <3>2. assignments[p][o] # Malformed => assignments[p][o].run = OtherRun
      BY <3>1
    <3>3. QED
      BY <3>2, BusAssumption DEF WasSent
  <2>2. ASSUME NEW k \in 1..Len(results)
        PROVE  WasSent(results[k])
    <3>1. results \in Seq({r \in CallResult : r.run = OtherRun} \cup {Malformed})
      BY LeftoverAssumption DEF BusInit
    <3>2. results[k] # Malformed => results[k].run = OtherRun
      BY <3>1
    <3>3. QED
      BY <3>2, BusAssumption DEF WasSent
  <2>3. QED
    BY <2>1, <2>2 DEF SentInv
<1>7. BatchInv
  BY DEF BatchInv, BatchOf, FleetInit
<1>8. CommittedInLog /\ CommittedArePublished
  <2>1. \A p \in Partitions : Len(assignments[p]) \in Nat /\ committed[p] = 0
    BY <1>1 DEF BusTypeOK, FleetInit
  <2>2. QED
    BY <2>1 DEF CommittedInLog, CommittedArePublished
<1>9. QED
  BY <1>1, <1>2, <1>3, <1>5, <1>6, <1>7, <1>8 DEF IInv, TypeOK

(* Every step keeps it. *)
LEMMA NextIInv ==
    ASSUME IInv, [Next]_vars
    PROVE  IInv'
<1> USE DEF IInv
<1>1. TypeOK'
  BY NextIsBusStep, TopicsGrow, DispatcherTypes, FleetTypes DEF TypeOK
<1>2. WindowInv'
  BY WindowStays
<1>3. SentInv'
  BY SentStays
<1>4. BatchInv'
  BY BatchStays
<1>5. CommittedInLog' /\ CommittedArePublished'
  BY InLogStays, CommittedStays
<1>6. DispatchedInv' /\ ConsumedInv'
  BY DispatchedStays, ConsumedStays
<1>7. QED
  BY <1>1, <1>2, <1>3, <1>4, <1>5, <1>6

(* The inductive invariant holds of every behaviour of the system. *)
THEOREM Invariant == Spec => []IInv
<1>1. Init => IInv
  BY InitIInv
<1>2. IInv /\ [Next]_vars => IInv'
  BY NextIInv
<1>3. QED
  BY <1>1, <1>2, PTL DEF Spec

(* Every variable keeps its type: among other things the dispatcher never  *)
(* reads past the end of the result topic, and no counter goes negative    *)
(* that the report shows.                                                  *)
THEOREM TypeCorrect == Spec => []TypeOK
<1>1. IInv => TypeOK
  BY DEF IInv
<1>2. QED
  BY <1>1, Invariant, PTL

(* An offset is committed only past assignments whose result is in the     *)
(* topic, for any fleet, any batch size and any number of crashes,         *)
(* evictions and lost acknowledgements.                                    *)
THEOREM CommitAfterPublish == Spec => []CommittedArePublished
<1>1. IInv => CommittedArePublished
  BY DEF IInv
<1>2. QED
  BY <1>1, Invariant, PTL

(* A dispatched call that has not been counted can still report.           *)
LEMMA NotLost ==
    ASSUME IInv
    PROVE  NoCallIsLost
<1> SUFFICES ASSUME InStep, NEW i \in 0..(dispatched - 1)
             PROVE  \/ i \in answered
                    \/ \E k \in (position + 1)..Len(results) : Answers(results[k], Call(step, i))
                    \/ \E p \in Partitions : \E o \in (committed[p] + 1)..Len(assignments[p]) :
                           assignments[p][o] = Call(step, i)
  BY DEF NoCallIsLost
<1>1. BusTypeOK /\ DispatcherTypeOK /\ FleetTypeOK
  BY DEF IInv, TypeOK
<1>2. PICK p \in Partitions : \E o \in 1..Len(assignments[p]) : assignments[p][o] = Call(step, i)
  BY DEF IInv, DispatchedInv
<1>3. PICK o \in 1..Len(assignments[p]) : assignments[p][o] = Call(step, i)
  BY <1>2
<1>4. committed[p] \in Nat /\ Len(assignments[p]) \in Nat
  BY <1>1 DEF BusTypeOK, FleetTypeOK
<1>5. CASE o > committed[p]
  BY <1>3, <1>4, <1>5
<1>6. CASE o <= committed[p]
  <2>1. Published(Call(step, i))
    BY <1>3, <1>4, <1>6 DEF IInv, CommittedArePublished
  <2>2. PICK k \in 1..Len(results) : Answers(results[k], Call(step, i))
    BY <2>1 DEF Published
  <2>3. position \in 0..Len(results) /\ Len(results) \in Nat
    BY <1>1 DEF DispatcherTypeOK, BusTypeOK
  <2>4. CASE k > position
    BY <2>2, <2>3, <2>4
  <2>5. CASE k <= position
    <3>1. /\ FromThisRun(results[k]) /\ results[k].step = step /\ results[k].seq = i
      BY <2>2 DEF Answers, Call, FromThisRun
    <3>2. QED
      BY <2>3, <2>5, <3>1 DEF IInv, ConsumedInv
  <2>6. QED
    BY <2>3, <2>4, <2>5
<1>7. QED
  BY <1>4, <1>5, <1>6

(* No call of the open step is lost, whatever happens to the workers: it   *)
(* has been counted, its result is on the way, or it will be delivered.    *)
THEOREM NothingLost == Spec => []NoCallIsLost
<1>1. IInv => NoCallIsLost
  BY NotLost
<1>2. QED
  BY <1>1, Invariant, PTL

(* The dispatcher holds the step's concurrency: when it waits, exactly     *)
(* that many calls are outstanding or none is left to dispatch.            *)
THEOREM WindowHeld == Spec => []WindowIsFull
<1>1. IInv => WindowIsFull
  <2> SUFFICES ASSUME IInv, phase = "window", ~WindowOpen
               PROVE  /\ dispatched - received <= Concurrency[step]
                      /\ \/ dispatched - received = Concurrency[step]
                         \/ dispatched = Calls[step]
    BY DEF WindowIsFull
  <2>1. InStep /\ DispatcherTypeOK /\ WindowInv
    BY DEF InStep, IInv, TypeOK
  <2>2. step \in StepIds /\ Calls[step] \in Nat /\ Concurrency[step] \in Nat
    BY <2>1, BusAssumption DEF DispatcherTypeOK
  <2>3. QED
    BY <2>1, <2>2 DEF WindowInv, WindowOpen, DispatcherTypeOK
<1>2. QED
  BY <1>1, Invariant, PTL

(* No commit, a late one of an evicted worker included, moves an offset    *)
(* back.                                                                   *)
THEOREM OffsetsNeverMoveBack == Spec => CommitsOnlyAdvance
<1>1. IInv /\ [Next]_vars => [\A p \in Partitions : committed'[p] >= committed[p]]_committed
  <2> SUFFICES ASSUME IInv, [Next]_vars, NEW p \in Partitions
               PROVE  committed'[p] >= committed[p]
    OBVIOUS
  <2>1. committed[p] \in Nat /\ Len(assignments[p]) \in Nat
    BY DEF IInv, TypeOK, FleetTypeOK, BusTypeOK
  <2>2. committed'[p] \in committed[p]..Len(assignments[p])
    BY OffsetsAdvance DEF IInv
  <2>3. QED
    BY <2>1, <2>2
<1>2. QED
  BY <1>1, Invariant, PTL DEF Spec, CommitsOnlyAdvance

-----------------------------------------------------------------------------
(* What the run reports: one outcome for every call, every result in one   *)
(* counter, the first result of a call the one that counts; and the run as *)
(* an implementation of CallLedger.                                        *)

-----------------------------------------------------------------------------
(* The further parts of the inductive invariant.                           *)

(* The open step's outcomes are those of its answered calls, one of each.  *)
OutcomesInv ==
    InStep =>
        /\ Len(outcomes) = received
        /\ \A k \in 1..Len(outcomes) : outcomes[k].seq \in answered
        /\ \A k, l \in 1..Len(outcomes) : outcomes[k].seq = outcomes[l].seq => k = l

(* The report has an entry for each step that has been closed. *)
Closed == phase \in {"between", "returned"}
StepsInv == Len(report) = IF Closed THEN step ELSE step - 1

AInv ==
    /\ IInv
    /\ OutcomesInv
    /\ FirstResultWins
    /\ StepsInv
    /\ OneOutcomePerCall
    /\ EveryResultIsCounted

-----------------------------------------------------------------------------
(* What a step may do to the dispatcher's report and what it is made of.   *)

countVars == <<step, received, duplicates, late, answered, outcomes, position, reportVars>>

(* Nothing is counted: the step goes on, ends the run, or is not the       *)
(* dispatcher's.                                                           *)
Passes ==
    /\ UNCHANGED countVars
    /\ Closed' = Closed /\ Open' = Open
    /\ InStep' => InStep
    /\ cancelled => cancelled'

(* A step that was open is closed with so many calls missing. *)
Closes(missing) ==
    /\ InStep
    /\ \/ missing = 0 /\ cancelled
       \/ missing = 0 /\ received >= Calls[step]
       \/ missing = Calls[step] - received
    /\ CloseStep(missing)

(* The four ways the report and its counters move. *)
LEMMA ReportMoves ==
    ASSUME [Next]_vars
    PROVE  Passes \/ NextStep \/ Handle \/ \E missing : Closes(missing)
<1> USE DEF InStep, Closed, Open
<1>1. CASE UNCHANGED dispatcherVars
  BY <1>1 DEF Passes, countVars, dispatcherVars, windowVars
<1>2. CASE Return \/ AssignFails \/ PollFails \/ Continue \/ DeadlinePasses \/ Cancel
  BY <1>2 DEF Return, AssignFails, PollFails, Continue, DeadlinePasses, Cancel, Running,
              Passes, countVars, windowVars
<1>3. CASE Assign
  BY <1>3 DEF Assign, Passes, countVars
<1>4. ASSUME NEW n \in 1..(Len(results) - position), Poll(n)
      PROVE  Passes
  BY <1>4 DEF Poll, Passes, countVars, windowVars
<1>5. CASE CancelStep
  BY <1>5 DEF CancelStep, PollDone, Closes
<1>6. CASE GiveUp
  BY <1>6 DEF GiveUp, PollDone, Closes
<1>7. CASE CompleteStep
  BY <1>7 DEF CompleteStep, Closes
<1>8. QED
  BY <1>1, <1>2, <1>3, <1>4, <1>5, <1>6, <1>7
  DEF Next, vars, DispatcherNext, DispatcherLoop, DispatcherStep, DispatcherFault

(* What has been consumed of the result topic is not rewritten. *)
LEMMA ConsumedKeeps ==
    ASSUME IInv, [Next]_vars
    PROVE  /\ position \in Nat /\ Len(results) \in Nat /\ Len(results') \in Nat
           /\ position <= Len(results) /\ Len(results) <= Len(results')
           /\ \A k \in 1..Len(results) : results'[k] = results[k]
<1>1. BusTypeOK /\ BusTypeOK' /\ DispatcherTypeOK /\ Grows(results, results')
  BY NextIsBusStep, TopicsGrow DEF IInv, TypeOK
<1>2. QED
  BY <1>1 DEF BusTypeOK, DispatcherTypeOK, Grows

(* How Handle consumes a result. *)
LEMMA HandleReads ==
    ASSUME IInv, Handle
    PROVE  /\ position + 1 \in 1..Len(results)
           /\ results[position + 1] # Malformed => results[position + 1] \in CallResult
           /\ LET r == results[position + 1]
              IN  Skip(r) \/ CountLate(r) \/ CountDuplicate(r) \/ CountAnswer(r)
           /\ InStep /\ InStep' /\ step' = step
           /\ position' = position + 1
           /\ results' = results /\ UNCHANGED reportVars /\ cancelled' = cancelled
           /\ step \in StepIds
<1>1. BusTypeOK /\ DispatcherTypeOK
  BY DEF IInv, TypeOK
<1>2. QED
  BY <1>1, HandledType DEF Handle, InStep, DispatcherTypeOK, busVars

-----------------------------------------------------------------------------
(* The outcomes of the open step stay those of its answered calls.         *)
LEMMA OutcomesStay ==
    ASSUME IInv, OutcomesInv, [Next]_vars
    PROVE  OutcomesInv'
<1>1. CASE Passes
  BY <1>1 DEF Passes, countVars, OutcomesInv
<1>2. CASE NextStep
  BY <1>2 DEF NextStep, FreshWindow, OutcomesInv
<1>3. CASE Handle
  <2> DEFINE r == results[position + 1]
  <2>1. Skip(r) \/ CountLate(r) \/ CountDuplicate(r) \/ CountAnswer(r)
    BY <1>3, HandleReads
  <2>2. InStep
    BY <1>3, HandleReads
  <2> HIDE DEF r
  <2>3. CASE Skip(r) \/ CountLate(r) \/ CountDuplicate(r)
    BY <2>2, <2>3 DEF Skip, CountLate, CountDuplicate, windowVars, OutcomesInv
  <2>4. CASE CountAnswer(r)
    <3>1. /\ outcomes' = Append(outcomes, CallOutcome(r)) /\ received' = received + 1
          /\ answered' = answered \cup {r.seq} /\ r.seq \notin answered
      BY <2>4 DEF CountAnswer
    <3>2. outcomes \in Seq(Outcome) /\ received \in Nat
      BY DEF IInv, TypeOK, DispatcherTypeOK
    <3>3. CallOutcome(r) \in Outcome /\ CallOutcome(r).seq = r.seq
      <4>1. r \in CallResult
        BY <1>3, <2>4, HandleReads DEF CountAnswer, FromThisRun, r
      <4>2. QED
        BY <4>1 DEF CallOutcome, Outcome, CallResult
    <3>4. /\ Len(outcomes') = Len(outcomes) + 1
          /\ outcomes'[Len(outcomes) + 1] = CallOutcome(r)
          /\ \A k \in 1..Len(outcomes) : outcomes'[k] = outcomes[k]
      BY <3>1, <3>2, <3>3, AppendProperties
    <3>5. /\ Len(outcomes) = received
          /\ \A k \in 1..Len(outcomes) : outcomes[k].seq \in answered
          /\ \A k, l \in 1..Len(outcomes) : outcomes[k].seq = outcomes[l].seq => k = l
      BY <2>2 DEF OutcomesInv
    <3>6. Len(outcomes) \in Nat
      BY <3>2
    <3>7. \A k \in 1..Len(outcomes') : k \in 1..Len(outcomes) \/ k = Len(outcomes) + 1
      BY <3>4, <3>6
    <3>8. \A k \in 1..Len(outcomes') : outcomes'[k].seq \in answered'
      BY <3>1, <3>3, <3>4, <3>5, <3>7
    <3>9. \A k, l \in 1..Len(outcomes') : outcomes'[k].seq = outcomes'[l].seq => k = l
      BY <3>1, <3>3, <3>4, <3>5, <3>7
    <3>10. Len(outcomes') = received'
      BY <3>1, <3>4, <3>5
    <3>11. QED
      BY <3>8, <3>9, <3>10 DEF OutcomesInv
  <2>5. QED
    BY <2>1, <2>3, <2>4
<1>4. ASSUME NEW missing, Closes(missing)
      PROVE  OutcomesInv'
  BY <1>4 DEF Closes, CloseStep, OutcomesInv, InStep
<1>5. QED
  BY <1>1, <1>2, <1>3, <1>4, ReportMoves

(* An outcome stays that of its call's first result: what is appended is   *)
(* of a call no consumed result reports on, and no consumed result is      *)
(* rewritten.                                                              *)
LEMMA FirstStays ==
    ASSUME IInv, OutcomesInv, FirstResultWins, [Next]_vars
    PROVE  FirstResultWins'
<1>0. /\ position \in Nat /\ Len(results) \in Nat /\ position <= Len(results)
      /\ \A k \in 1..Len(results) : results'[k] = results[k]
  BY ConsumedKeeps
<1> DEFINE IsFirst(log, n, s, o) ==
        \E j \in 1..n :
            /\ Answers(log[j], Call(s, o.seq))
            /\ log[j].err = o.err
            /\ \A h \in 1..(j - 1) : ~Answers(log[h], Call(s, o.seq))
<1>01. ASSUME InStep, NEW k \in 1..Len(outcomes)
       PROVE  IsFirst(results, position, step, outcomes[k])
  BY <1>01 DEF FirstResultWins
<1>02. ASSUME InStep' => \A k \in 1..Len(outcomes') :
                  IsFirst(results', position', step', outcomes'[k])
       PROVE  FirstResultWins'
  BY <1>02 DEF FirstResultWins, Answers, Call
<1>03. ASSUME NEW o, IsFirst(results, position, step, o)
       PROVE  IsFirst(results', position, step, o)
  BY <1>0, <1>03
<1> HIDE DEF IsFirst
<1>1. CASE Passes
  BY <1>1, <1>01, <1>02, <1>03 DEF Passes, countVars
<1>2. CASE NextStep
  BY <1>2, <1>02 DEF NextStep, FreshWindow
<1>3. CASE Handle
  <2> DEFINE r == results[position + 1]
  <2>1. /\ Skip(r) \/ CountLate(r) \/ CountDuplicate(r) \/ CountAnswer(r)
        /\ InStep /\ step' = step /\ position' = position + 1 /\ results' = results
        /\ r # Malformed => r \in CallResult
    BY <1>3, HandleReads
  <2>2. ASSUME NEW o, IsFirst(results, position, step, o)
        PROVE  IsFirst(results, position + 1, step, o)
    BY <1>0, <2>2 DEF IsFirst
  <2>3. CASE Skip(r) \/ CountLate(r) \/ CountDuplicate(r)
    <3>1. outcomes' = outcomes
      BY <2>3 DEF Skip, CountLate, CountDuplicate, windowVars
    <3>2. QED
      BY <1>01, <1>02, <2>1, <2>2, <3>1
  <2>4. CASE CountAnswer(r)
    <3>1. /\ outcomes' = Append(outcomes, CallOutcome(r))
          /\ r.seq \notin answered /\ r.step = step /\ FromThisRun(r)
      BY <2>4 DEF CountAnswer
    <3>2. outcomes \in Seq(Outcome) /\ CallOutcome(r) \in Outcome
      BY <2>1, <3>1 DEF IInv, TypeOK, DispatcherTypeOK, CallOutcome, Outcome, CallResult, FromThisRun
    <3>3. /\ Len(outcomes') = Len(outcomes) + 1 /\ Len(outcomes) \in Nat
          /\ outcomes'[Len(outcomes) + 1] = CallOutcome(r)
          /\ \A k \in 1..Len(outcomes) : outcomes'[k] = outcomes[k]
      BY <3>1, <3>2, AppendProperties
    <3>4. IsFirst(results, position + 1, step, CallOutcome(r))
      <4>1. ASSUME NEW h \in 1..position
            PROVE  ~Answers(results[h], Call(step, r.seq))
        BY <2>1, <3>1 DEF IInv, ConsumedInv, Answers, Call, FromThisRun
      <4>2. Answers(r, Call(step, r.seq))
        <5>1. Call(step, r.seq) # Malformed
          BY <2>1, <3>1, MalformedAssumption
          DEF Call, Assignment, CallResult, FromThisRun
        <5>2. QED
          BY <3>1, <5>1 DEF Answers, Call, FromThisRun
      <4>3. r.err = CallOutcome(r).err /\ r.seq = CallOutcome(r).seq
        BY DEF CallOutcome
      <4>4. position + 1 \in 1..(position + 1) /\ (position + 1) - 1 = position
        BY <1>0
      <4>5. QED
        BY <4>1, <4>2, <4>3, <4>4 DEF IsFirst
    <3>5. ASSUME NEW k \in 1..Len(outcomes')
          PROVE  IsFirst(results, position + 1, step, outcomes'[k])
      <4>1. k \in 1..Len(outcomes) \/ k = Len(outcomes) + 1
        BY <3>3
      <4>2. QED
        BY <1>01, <2>1, <2>2, <3>3, <3>4, <4>1
    <3>6. QED
      BY <1>02, <2>1, <3>5
  <2>5. QED
    BY <2>1, <2>3, <2>4
<1>4. ASSUME NEW missing, Closes(missing)
      PROVE  FirstResultWins'
  BY <1>4, <1>02 DEF Closes, CloseStep, InStep
<1>5. QED
  BY <1>1, <1>2, <1>3, <1>4, ReportMoves

-----------------------------------------------------------------------------
(* The entry a step's end adds to the report is of a well-formed kind.     *)
LEMMA ClosedEntry ==
    ASSUME IInv, NEW missing, Closes(missing)
    PROVE  /\ missing \in Nat
           /\ Len(report) \in Nat /\ Len(report') = Len(report) + 1
           /\ \A n \in 1..Len(report) : report'[n] = report[n]
           /\ LET last == report'[Len(report) + 1]
              IN  /\ last.step = step /\ last.received = received /\ last.missing = missing
                  /\ last.outcomes = outcomes \o [k \in 1..missing |-> NotReported]
<1>1. DispatcherTypeOK /\ WindowInv /\ InStep
  BY DEF IInv, TypeOK, Closes
<1>2. missing \in Nat
  BY <1>1, ReceivedBound DEF Closes
<1> DEFINE entry ==
        [step |-> step, dispatched |-> dispatched, received |-> received,
         duplicates |-> duplicates, missing |-> missing, late |-> late,
         outcomes |-> outcomes \o [k \in 1..missing |-> NotReported]]
<1>3. report' = Append(report, entry)
  BY DEF Closes, CloseStep
<1>4. /\ entry.step = step /\ entry.received = received /\ entry.missing = missing
      /\ entry.outcomes = outcomes \o [k \in 1..missing |-> NotReported]
  OBVIOUS
<1>5. report \in Seq(StepDispatch)
  BY <1>1 DEF DispatcherTypeOK
<1> HIDE DEF entry
<1>6. /\ Len(Append(report, entry)) = Len(report) + 1 /\ Len(report) \in Nat
      /\ Append(report, entry)[Len(report) + 1] = entry
      /\ \A n \in 1..Len(report) : Append(report, entry)[n] = report[n]
  BY <1>5
<1>7. QED
  BY <1>2, <1>3, <1>4, <1>6

(* The report keeps an entry for each closed step. *)
LEMMA StepsStay ==
    ASSUME IInv, StepsInv, [Next]_vars
    PROVE  StepsInv'
<1>0. step \in Nat
  BY BusAssumption DEF IInv, TypeOK, DispatcherTypeOK
<1>1. CASE Passes
  BY <1>1 DEF Passes, countVars, reportVars, StepsInv
<1>2. CASE NextStep
  BY <1>0, <1>2 DEF NextStep, reportVars, StepsInv, Closed
<1>3. CASE Handle
  BY <1>3 DEF Handle, reportVars, StepsInv, Closed
<1>4. ASSUME NEW missing, Closes(missing)
      PROVE  StepsInv'
  <2>1. Len(report') = Len(report) + 1 /\ Len(report) \in Nat
    BY <1>4, ClosedEntry
  <2>2. ~Closed /\ Closed' /\ step' = step
    BY <1>4 DEF Closes, CloseStep, Closed, InStep
  <2>3. QED
    BY <1>0, <2>1, <2>2 DEF StepsInv
<1>5. QED
  BY <1>1, <1>2, <1>3, <1>4, ReportMoves

(* A closed step has an outcome for each of its calls and none twice.      *)
LEMMA OneOutcomeStays ==
    ASSUME IInv, OutcomesInv, OneOutcomePerCall, [Next]_vars
    PROVE  OneOutcomePerCall'
<1> DEFINE Whole(entry, broken) ==
        LET outs == entry.outcomes
        IN  /\ \A k, l \in 1..Len(outs) :
                   outs[k].seq = outs[l].seq /\ outs[k].seq >= 0 => k = l
            /\ Len(outs) = entry.received + entry.missing
            /\ broken \/ Len(outs) = Calls[entry.step]
<1>0. \A n \in 1..Len(report) : Whole(report[n], cancelled)
  BY DEF OneOutcomePerCall
<1>01. ASSUME \A n \in 1..Len(report') : Whole(report'[n], cancelled')
       PROVE  OneOutcomePerCall'
  BY <1>01 DEF OneOutcomePerCall
<1>02. ASSUME NEW entry, Whole(entry, cancelled), cancelled => cancelled'
       PROVE  Whole(entry, cancelled')
  BY <1>02
<1> HIDE DEF Whole
<1>1. CASE Passes
  BY <1>0, <1>01, <1>02, <1>1 DEF Passes, countVars, reportVars
<1>2. CASE NextStep
  BY <1>0, <1>01, <1>2 DEF NextStep, reportVars
<1>3. CASE Handle
  BY <1>0, <1>01, <1>3 DEF Handle, reportVars
<1>4. ASSUME NEW missing, Closes(missing)
      PROVE  OneOutcomePerCall'
  <2> DEFINE last == report'[Len(report) + 1]
             Pad == [k \in 1..missing |-> NotReported]
  <2>1. /\ missing \in Nat
        /\ Len(report) \in Nat /\ Len(report') = Len(report) + 1
        /\ \A n \in 1..Len(report) : report'[n] = report[n]
        /\ last.step = step /\ last.received = received /\ last.missing = missing
        /\ last.outcomes = outcomes \o Pad
    BY <1>4, ClosedEntry
  <2>2. InStep /\ cancelled' = cancelled
    BY <1>4 DEF Closes, CloseStep
  <2>3. Whole(last, cancelled)
    <3>1. /\ outcomes \in Seq(Outcome) /\ received \in Nat
      BY DEF IInv, TypeOK, DispatcherTypeOK
    <3>2. /\ Pad \in Seq(Outcome) /\ Len(Pad) = missing
          /\ \A k \in 1..missing : Pad[k].seq = -1
      <4>1. NotReported \in Outcome /\ NotReported.seq = -1
        BY DEF NotReported, Outcome
      <4>2. QED
        BY <2>1, <4>1
    <3>3. /\ Len(outcomes) = received
          /\ \A k, l \in 1..Len(outcomes) : outcomes[k].seq = outcomes[l].seq => k = l
      BY <2>2 DEF OutcomesInv
    <3> HIDE DEF Pad
    <3> DEFINE outs == outcomes \o Pad
    <3>4. /\ Len(outs) = received + missing
          /\ \A k \in 1..received : outs[k] = outcomes[k]
          /\ \A k \in (received + 1)..(received + missing) : outs[k] = Pad[k - received]
      <4>1. /\ Len(outs) = Len(outcomes) + Len(Pad)
            /\ \A k \in 1..(Len(outcomes) + Len(Pad)) :
                   outs[k] = IF k <= Len(outcomes) THEN outcomes[k] ELSE Pad[k - Len(outcomes)]
        BY <3>1, <3>2, ConcatProperties
      <4> HIDE DEF outs
      <4>2. missing \in Nat /\ received \in Nat
        BY <2>1, <3>1
      <4>3. /\ Len(outs) = received + missing
            /\ \A k \in 1..(received + missing) :
                   outs[k] = IF k <= received THEN outcomes[k] ELSE Pad[k - received]
        BY <3>2, <3>3, <4>1
      <4>4. QED
        BY <4>2, <4>3
    <3>5. ASSUME NEW k \in 1..Len(outs), outs[k].seq >= 0
          PROVE  k \in 1..Len(outcomes) /\ outs[k] = outcomes[k]
      <4>1. CASE k \in 1..received
        BY <3>3, <3>4, <4>1
      <4>2. CASE k \notin 1..received
        <5>1. k \in (received + 1)..(received + missing) /\ k - received \in 1..missing
          BY <2>1, <3>1, <3>4, <4>2
        <5>2. outs[k].seq = -1
          BY <3>2, <3>4, <5>1
        <5>3. QED
          BY <3>5, <5>2
      <4>3. QED
        BY <4>1, <4>2
    <3>6. \A k, l \in 1..Len(outs) : outs[k].seq = outs[l].seq /\ outs[k].seq >= 0 => k = l
      BY <3>3, <3>5
    <3>7. cancelled \/ Len(outs) = Calls[step]
      <4>1. CASE received >= Calls[step] /\ missing = 0
        <5>1. received <= dispatched /\ dispatched <= Calls[step]
          BY <2>2, ReceivedBound DEF IInv, TypeOK, WindowInv
        <5>2. step \in StepIds /\ Calls[step] \in Nat /\ dispatched \in Nat
          BY <2>2, BusAssumption DEF IInv, TypeOK, DispatcherTypeOK
        <5>3. QED
          BY <3>1, <3>4, <4>1, <5>1, <5>2
      <4>2. CASE missing = Calls[step] - received
        <5>1. step \in StepIds /\ Calls[step] \in Nat
          BY <2>2, BusAssumption DEF IInv, TypeOK, DispatcherTypeOK
        <5>2. QED
          BY <3>1, <3>4, <4>2, <5>1
      <4>3. QED
        BY <1>4, <4>1, <4>2 DEF Closes
    <3> HIDE DEF outs
    <3>8. last.outcomes = outs
      BY <2>1 DEF outs
    <3> HIDE DEF last
    <3>9. QED
      BY <2>1, <3>4, <3>6, <3>7, <3>8 DEF Whole
  <2>4. \A n \in 1..Len(report') : n \in 1..Len(report) \/ n = Len(report) + 1
    BY <2>1
  <2>5. Whole(report'[Len(report) + 1], cancelled')
    BY <2>2, <2>3
  <2>6. \A n \in 1..Len(report) : Whole(report'[n], cancelled')
    BY <1>0, <2>1, <2>2
  <2>7. \A n \in 1..Len(report') : Whole(report'[n], cancelled')
    BY <2>4, <2>5, <2>6
  <2>8. QED
    BY <1>01, <2>7
<1>5. QED
  BY <1>1, <1>2, <1>3, <1>4, ReportMoves

-----------------------------------------------------------------------------
(* The consumed results of this run. *)
Mine(log, n) == {k \in 1..n : FromThisRun(log[k])}

(* The records of this run among the first n of a log can be counted.      *)
LEMMA MineIsFinite ==
    ASSUME NEW log, NEW n \in Nat
    PROVE  IsFiniteSet(Mine(log, n)) /\ Cardinality(Mine(log, n)) \in Nat
<1>1. IsFiniteSet(1..n)
  BY FS_Interval
<1>2. Mine(log, n) \subseteq 1..n
  BY DEF Mine
<1>3. QED
  BY <1>1, <1>2, FS_Subset, FS_CardinalityType

(* One more result consumed is one more of this run's, or none. *)
LEMMA MineGrows ==
    ASSUME NEW log, NEW n \in Nat
    PROVE  Cardinality(Mine(log, n + 1)) =
               Cardinality(Mine(log, n)) + (IF FromThisRun(log[n + 1]) THEN 1 ELSE 0)
<1>1. IsFiniteSet(Mine(log, n)) /\ Cardinality(Mine(log, n)) \in Nat
  BY MineIsFinite
<1>2. CASE FromThisRun(log[n + 1])
  <2>1. Mine(log, n + 1) = Mine(log, n) \cup {n + 1} /\ n + 1 \notin Mine(log, n)
    BY <1>2 DEF Mine
  <2>2. QED
    BY <1>1, <1>2, <2>1, FS_AddElement
<1>3. CASE ~FromThisRun(log[n + 1])
  <2>1. Mine(log, n + 1) = Mine(log, n)
    BY <1>3 DEF Mine
  <2>2. QED
    BY <1>1, <1>3, <2>1
<1>4. QED
  BY <1>2, <1>3

(* Every result of this run that is consumed goes into one counter.        *)
LEMMA CountedStays ==
    ASSUME IInv, StepsInv, EveryResultIsCounted, [Next]_vars
    PROVE  EveryResultIsCounted'
<1> DEFINE Total(log, n, i, open, c) ==
        Cardinality(Mine(log, n)) =
            i.received + i.duplicates + i.late + (IF open THEN c ELSE 0)
<1>0. Total(results, position, integrity, step > Len(report), received + duplicates + late)
  BY DEF EveryResultIsCounted, Mine
<1>01. ASSUME Total(results', position', integrity', step' > Len(report'),
                    received' + duplicates' + late')
       PROVE  EveryResultIsCounted'
  BY <1>01 DEF EveryResultIsCounted, Mine, FromThisRun
<1>02. /\ position \in Nat /\ Len(results) \in Nat /\ position <= Len(results)
       /\ \A k \in 1..Len(results) : results'[k] = results[k]
  BY ConsumedKeeps
<1>03. Mine(results', position) = Mine(results, position)
  BY <1>02 DEF Mine, FromThisRun
<1>04. /\ step \in Nat /\ Len(report) \in Nat
       /\ received \in Nat /\ duplicates \in Nat /\ late \in Nat
       /\ integrity.received \in Nat /\ integrity.duplicates \in Nat /\ integrity.late \in Nat
  BY BusAssumption DEF IInv, TypeOK, DispatcherTypeOK, Totals
<1>05. Cardinality(Mine(results, position)) \in Nat
  BY <1>02, MineIsFinite
<1>1. CASE Passes
  <2>1. Total(results', position', integrity', step' > Len(report'),
              received' + duplicates' + late')
    BY <1>0, <1>03, <1>1 DEF Passes, countVars, reportVars
  <2>2. QED
    BY <1>01, <2>1
<1>2. CASE NextStep
  <2>1. Len(report) = step
    BY <1>2 DEF NextStep, StepsInv, Closed
  <2>2. /\ results' = results /\ position' = position /\ integrity' = integrity
        /\ received' + duplicates' + late' = 0
    BY <1>2 DEF NextStep, FreshWindow, busVars, reportVars
  <2>3. ~(step > Len(report))
    BY <1>04, <2>1
  <2>4. Total(results', position', integrity', step' > Len(report'),
              received' + duplicates' + late')
    BY <1>0, <1>04, <2>2, <2>3
  <2>5. QED
    BY <1>01, <2>4
<1>3. CASE Handle
  <2> DEFINE r == results[position + 1]
  <2>1. /\ Skip(r) \/ CountLate(r) \/ CountDuplicate(r) \/ CountAnswer(r)
        /\ InStep /\ step' = step /\ position' = position + 1 /\ results' = results
        /\ report' = report /\ integrity' = integrity
    BY <1>3, HandleReads DEF reportVars
  <2>2. Cardinality(Mine(results, position + 1)) =
            Cardinality(Mine(results, position)) + (IF FromThisRun(r) THEN 1 ELSE 0)
    BY <1>02, MineGrows
  <2>3. step > Len(report)
    BY <1>04, <2>1 DEF StepsInv, Closed, InStep
  <2> HIDE DEF r
  <2>4. received' + duplicates' + late' =
            received + duplicates + late + (IF FromThisRun(r) THEN 1 ELSE 0)
    <3>1. CASE Skip(r)
      BY <1>04, <3>1 DEF Skip, windowVars
    <3>2. CASE CountLate(r)
      BY <1>04, <3>2 DEF CountLate
    <3>3. CASE CountDuplicate(r)
      BY <1>04, <3>3 DEF CountDuplicate
    <3>4. CASE CountAnswer(r)
      BY <1>04, <3>4 DEF CountAnswer
    <3>5. QED
      BY <2>1, <3>1, <3>2, <3>3, <3>4
  <2>5. Cardinality(Mine(results', position')) =
            Cardinality(Mine(results, position)) + (IF FromThisRun(r) THEN 1 ELSE 0)
    BY <2>1, <2>2
  <2>6. /\ Cardinality(Mine(results, position)) =
                integrity.received + integrity.duplicates + integrity.late
                + (received + duplicates + late)
        /\ step' > Len(report') /\ integrity' = integrity
    BY <1>0, <2>1, <2>3
  <2>7. Cardinality(Mine(results', position')) =
            integrity.received + integrity.duplicates + integrity.late
            + (received' + duplicates' + late')
    BY <1>04, <2>4, <2>5, <2>6
  <2>8. Total(results', position', integrity', step' > Len(report'),
              received' + duplicates' + late')
    BY <2>6, <2>7
  <2>9. QED
    BY <1>01, <2>8
<1>4. ASSUME NEW missing, Closes(missing)
      PROVE  EveryResultIsCounted'
  <2>1. Len(report') = Len(report) + 1
    BY <1>4, ClosedEntry
  <2>2. /\ Len(report) = step - 1 /\ step' = step
        /\ results' = results /\ position' = position
        /\ integrity'.received = integrity.received + received
        /\ integrity'.duplicates = integrity.duplicates + duplicates
        /\ integrity'.late = integrity.late + late
    BY <1>4 DEF Closes, CloseStep, StepsInv, Closed, InStep, busVars
  <2>3. step > Len(report) /\ ~(step' > Len(report'))
    BY <1>04, <2>1, <2>2
  <2>4. Cardinality(Mine(results', position')) =
            integrity.received + integrity.duplicates + integrity.late
            + (received + duplicates + late)
    BY <1>0, <2>2, <2>3
  <2>5. Cardinality(Mine(results', position')) =
            integrity'.received + integrity'.duplicates + integrity'.late + 0
    <3>1. PICK a \in Nat, b \in Nat, c \in Nat, x \in Nat, y \in Nat, z \in Nat :
             /\ a = integrity.received /\ b = integrity.duplicates /\ c = integrity.late
             /\ x = received /\ y = duplicates /\ z = late
      BY <1>04, Zenon
    <3>2. a + b + c + (x + y + z) = (a + x) + (b + y) + (c + z) + 0
      OBVIOUS
    <3>3. QED
      BY <2>2, <2>4, <3>1, <3>2, Zenon
  <2>6. Total(results', position', integrity', step' > Len(report'),
              received' + duplicates' + late')
    BY <2>3, <2>5, Zenon
  <2>7. QED
    BY <1>01, <2>6
<1>5. QED
  BY <1>1, <1>2, <1>3, <1>4, ReportMoves

-----------------------------------------------------------------------------
(* Nothing is counted at first.                                            *)
LEMMA InitAInv ==
    ASSUME Init
    PROVE  AInv
<1>1. IInv
  BY InitIInv
<1>2. /\ phase = "between" /\ step = 0 /\ report = <<>> /\ outcomes = <<>> /\ position = 0
      /\ integrity = [dispatched |-> 0, received |-> 0, duplicates |-> 0,
                      missing |-> 0, late |-> 0]
  BY DEF Init, DispatcherInit
<1>3. OutcomesInv /\ FirstResultWins
  BY <1>2 DEF OutcomesInv, FirstResultWins, InStep
<1>4. StepsInv /\ OneOutcomePerCall
  BY <1>2 DEF StepsInv, Closed, OneOutcomePerCall
<1>5. EveryResultIsCounted
  <2>1. {k \in 1..position : FromThisRun(results[k])} = {}
    BY <1>2
  <2>2. Cardinality({}) = 0
    BY FS_EmptySet
  <2>3. QED
    BY <1>2, <2>1, <2>2 DEF EveryResultIsCounted
<1>6. QED
  BY <1>1, <1>3, <1>4, <1>5 DEF AInv

(* Every step keeps the accounts.                                          *)
LEMMA NextAInv ==
    ASSUME AInv, [Next]_vars
    PROVE  AInv'
  BY NextIInv, OutcomesStay, FirstStays, StepsStay, OneOutcomeStays, CountedStays DEF AInv

(* The inductive invariant of the accounts holds throughout. *)
THEOREM Accounts == Spec => []AInv
<1>1. Init => AInv
  BY InitAInv
<1>2. AInv /\ [Next]_vars => AInv'
  BY NextAInv
<1>3. QED
  BY <1>1, <1>2, PTL DEF Spec

(* However often a call is delivered, placed and reported, a closed step   *)
(* has one outcome for it, and one for every call of the step unless the   *)
(* run was cancelled.                                                      *)
THEOREM OneOutcome == Spec => []OneOutcomePerCall
<1>1. AInv => OneOutcomePerCall
  BY DEF AInv
<1>2. QED
  BY <1>1, Accounts, PTL

(* Each result of this run that the dispatcher has consumed is in exactly  *)
(* one of the counters of DispatchIntegrity.                               *)
THEOREM AllCounted == Spec => []EveryResultIsCounted
<1>1. AInv => EveryResultIsCounted
  BY DEF AInv
<1>2. QED
  BY <1>1, Accounts, PTL

(* The outcome of a call is that of its first result in the topic.         *)
THEOREM FirstWins == Spec => []FirstResultWins
<1>1. AInv => FirstResultWins
  BY DEF AInv
<1>2. QED
  BY <1>1, Accounts, PTL

-----------------------------------------------------------------------------
(* The run as an implementation of CallLedger.                             *)

(* A log with one record more holds its call too, if it is of this run.    *)
LEMMA CallsInAppended ==
    ASSUME NEW S, NEW log \in Seq(S), NEW a \in S
    PROVE  CallsIn(Append(log, a)) =
               CallsIn(log) \cup
               (IF a # Malformed /\ a.run = Run THEN {<<a.step, a.seq>>} ELSE {})
<1> DEFINE longer == Append(log, a)
<1>1. /\ Len(longer) = Len(log) + 1 /\ Len(log) \in Nat
      /\ longer[Len(log) + 1] = a
      /\ \A k \in 1..Len(log) : longer[k] = log[k]
  BY AppendProperties
<1> HIDE DEF longer
<1>2. \A k \in 1..Len(longer) : k \in 1..Len(log) \/ k = Len(log) + 1
  BY <1>1
<1>3. ASSUME NEW c \in CallsIn(longer)
      PROVE  \/ c \in CallsIn(log)
             \/ a # Malformed /\ a.run = Run /\ c = <<a.step, a.seq>>
  <2>1. PICK k \in 1..Len(longer) :
            longer[k] # Malformed /\ longer[k].run = Run /\ c = <<longer[k].step, longer[k].seq>>
    BY DEF CallsIn, OfThisRun
  <2>2. CASE k \in 1..Len(log)
    BY <1>1, <2>1, <2>2 DEF CallsIn, OfThisRun
  <2>3. CASE k = Len(log) + 1
    BY <1>1, <2>1, <2>3
  <2>4. QED
    BY <1>2, <2>2, <2>3
<1>4. ASSUME NEW c \in CallsIn(log)
      PROVE  c \in CallsIn(longer)
  <2>1. PICK k \in 1..Len(log) :
            log[k] # Malformed /\ log[k].run = Run /\ c = <<log[k].step, log[k].seq>>
    BY DEF CallsIn, OfThisRun
  <2>2. k \in 1..Len(longer)
    BY <1>1
  <2>3. QED
    BY <1>1, <2>1, <2>2 DEF CallsIn, OfThisRun
<1>5. ASSUME a # Malformed, a.run = Run
      PROVE  <<a.step, a.seq>> \in CallsIn(longer)
  <2>1. Len(log) + 1 \in 1..Len(longer)
    BY <1>1
  <2>2. QED
    BY <1>1, <1>5, <2>1 DEF CallsIn, OfThisRun
<1>6. QED
  BY <1>3, <1>4, <1>5 DEF longer

(* The ledger counts as the dispatcher does. *)
LEMMA SameCardinality == \A S : Ledger!Cardinality(S) = Cardinality(S)
  BY DEF Cardinality, Ledger!Cardinality

(* In the open step the calls sent are those dispatched.                   *)
LEMMA SentOfOpenStep ==
    ASSUME IInv, InStep
    PROVE  /\ Ledger!SentIn(step) = {step} \X (0..(dispatched - 1))
           /\ Cardinality(Ledger!SentIn(step)) = dispatched
<1>1. DispatcherTypeOK /\ BusTypeOK /\ dispatched \in Nat /\ step \in StepIds
  BY DEF IInv, TypeOK, DispatcherTypeOK
<1>2. ASSUME NEW c \in CallsSent, c[1] = step
      PROVE  c \in {step} \X (0..(dispatched - 1))
  <2>1. PICK p \in Partitions : c \in CallsIn(assignments[p])
    BY DEF CallsSent
  <2>2. PICK k \in 1..Len(assignments[p]) :
            /\ assignments[p][k] # Malformed /\ assignments[p][k].run = Run
            /\ c = <<assignments[p][k].step, assignments[p][k].seq>>
    BY <2>1 DEF CallsIn, OfThisRun
  <2>3. assignments[p][k].seq \in Nat
    BY <1>1, <2>2 DEF BusTypeOK, Assignment
  <2>4. assignments[p][k].seq < dispatched
    BY <1>2, <2>2 DEF IInv, SentInv, WasSent
  <2>5. QED
    BY <1>1, <1>2, <2>2, <2>3, <2>4
<1>3. ASSUME NEW i \in 0..(dispatched - 1)
      PROVE  <<step, i>> \in CallsSent
  <2>1. PICK p \in Partitions : \E o \in 1..Len(assignments[p]) : assignments[p][o] = Call(step, i)
    BY DEF IInv, DispatchedInv
  <2>2. PICK o \in 1..Len(assignments[p]) : assignments[p][o] = Call(step, i)
    BY <2>1
  <2>3. Call(step, i) # Malformed
    BY <1>1, MalformedAssumption DEF Call, Assignment
  <2>4. <<step, i>> \in CallsIn(assignments[p])
    BY <2>2, <2>3 DEF Call, CallsIn, OfThisRun
  <2>5. QED
    BY <2>4 DEF CallsSent
<1>4. Ledger!SentIn(step) = {step} \X (0..(dispatched - 1))
  BY <1>2, <1>3 DEF Ledger!SentIn
<1>5. /\ IsFiniteSet(0..(dispatched - 1)) /\ Cardinality(0..(dispatched - 1)) = dispatched
      /\ IsFiniteSet({step}) /\ Cardinality({step}) = 1
  <2>1. dispatched - 1 \in Int /\ 0 \in Int
    BY <1>1
  <2>2. /\ IsFiniteSet(0..(dispatched - 1))
        /\ Cardinality(0..(dispatched - 1)) =
               IF 0 > dispatched - 1 THEN 0 ELSE (dispatched - 1) - 0 + 1
    BY ONLY <2>1, FS_Interval
  <2>3. (IF 0 > dispatched - 1 THEN 0 ELSE (dispatched - 1) - 0 + 1) = dispatched
    BY <1>1
  <2>4. IsFiniteSet({step}) /\ Cardinality({step}) = 1
    BY FS_Singleton
  <2>5. QED
    BY <2>2, <2>3, <2>4
<1>6. Cardinality({step} \X (0..(dispatched - 1))) = 1 * dispatched
  <2>1. Cardinality({step} \X (0..(dispatched - 1)))
            = Cardinality({step}) * Cardinality(0..(dispatched - 1))
    BY ONLY <1>5, FS_Product, Zenon
  <2>2. QED
    BY <1>5, <2>1
<1>7. QED
  BY <1>1, <1>4, <1>6

(* Nothing sent is unsent, and the window's next assignment is sent.       *)
LEMMA SentMoves ==
    ASSUME IInv, BusStep
    PROVE  \/ /\ assignments' = assignments /\ CallsSent' = CallsSent
           \/ /\ Sends
              /\ CallsSent' = CallsSent \cup {<<step, dispatched>>}
<1>1. CASE assignments' = assignments
  BY <1>1 DEF CallsSent, CallsIn, OfThisRun
<1>2. CASE Sends
  <2> DEFINE p0 == PartitionOf[<<step, dispatched>>]
             a == Call(step, dispatched)
  <2>1. step \in StepIds /\ dispatched \in Seqs(step) /\ dispatched \in Nat
    BY <1>2, BusAssumption
    DEF Sends, WindowOpen, IInv, TypeOK, DispatcherTypeOK, InStep, Seqs, StepIds
  <2>2. p0 \in Partitions /\ a \in Assignment /\ a # Malformed
    BY <2>1, BusAssumption, MalformedAssumption DEF Call, Assignment
  <2>3. assignments' = [assignments EXCEPT ![p0] = Append(@, a)]
    BY <1>2 DEF Sends, Publish, Call
  <2>4. a.run = Run /\ a.step = step /\ a.seq = dispatched
    BY DEF Call
  <2> HIDE DEF p0, a
  <2>5. assignments \in [Partitions -> Seq(Assignment \cup {Malformed})]
    BY DEF IInv, TypeOK, BusTypeOK
  <2>6. /\ assignments'[p0] = Append(assignments[p0], a)
        /\ \A p \in Partitions \ {p0} : assignments'[p] = assignments[p]
    BY <2>2, <2>3, <2>5
  <2>7. CallsIn(assignments'[p0]) = CallsIn(assignments[p0]) \cup {<<step, dispatched>>}
    BY <2>2, <2>4, <2>5, <2>6, CallsInAppended
  <2>8. UNION {CallsIn(assignments'[p]) : p \in Partitions} =
            (UNION {CallsIn(assignments[p]) : p \in Partitions}) \cup {<<step, dispatched>>}
    BY <2>2, <2>6, <2>7
  <2>9. CallsSent' = UNION {CallsIn(assignments'[p]) : p \in Partitions}
    BY DEF CallsSent, CallsIn, OfThisRun
  <2>10. QED
    BY <1>2, <2>8, <2>9 DEF CallsSent
<1>3. QED
  BY <1>1, <1>2 DEF BusStep, ReportsCall, busVars

(* What is placed is a call of a batch, which was sent.                    *)
LEMMA PlacedMoves ==
    ASSUME IInv, BusStep
    PROVE  \/ CallsPlaced' = CallsPlaced
           \/ \E c \in CallsSent : CallsPlaced' = CallsPlaced \cup {c}
<1>1. CASE results' = results
  BY <1>1 DEF CallsPlaced, CallsIn, OfThisRun
<1>2. CASE ReportsCall
  <2>0. BusTypeOK /\ FleetTypeOK /\ BatchInv
    BY DEF IInv, TypeOK
  <2>1. PICK w \in Workers : \E r \in batch[w] : \E err \in BOOLEAN :
            results' = Append(results, ResultOf(r, err))
    BY <1>2 DEF ReportsCall
  <2>2. PICK r \in batch[w], err \in BOOLEAN : results' = Append(results, ResultOf(r, err))
    BY <2>1
  <2> DEFINE a == ResultOf(r, err)
  <2>3. /\ r[1] \in Partitions /\ r[2] \in 1..Len(assignments[r[1]])
        /\ At(r) \in Assignment /\ a \in CallResult
    BY <2>0, ResultType
  <2>4. a.run = At(r).run /\ a.step = At(r).step /\ a.seq = At(r).seq
    BY DEF ResultOf
  <2>5. a # Malformed /\ At(r) # Malformed
    BY <2>3, MalformedAssumption
  <2>6. results \in Seq(CallResult \cup {Malformed})
    BY <2>0 DEF BusTypeOK
  <2> HIDE DEF a
  <2>7. CallsIn(Append(results, a)) =
            CallsIn(results) \cup (IF a # Malformed /\ a.run = Run THEN {<<a.step, a.seq>>} ELSE {})
    BY <2>3, <2>6, CallsInAppended
  <2>8. CallsPlaced' = CallsIn(Append(results, a))
    BY <2>2 DEF CallsPlaced, CallsIn, OfThisRun, a
  <2>9. CASE a.run = Run
    <3>1. <<a.step, a.seq>> \in CallsIn(assignments[r[1]])
      BY <2>3, <2>4, <2>5, <2>9 DEF CallsIn, OfThisRun, At
    <3>2. <<a.step, a.seq>> \in CallsSent
      BY <2>3, <3>1 DEF CallsSent
    <3>3. CallsPlaced' = CallsPlaced \cup {<<a.step, a.seq>>}
      BY <2>5, <2>7, <2>8, <2>9 DEF CallsPlaced
    <3>4. QED
      BY <3>2, <3>3
  <2>10. CASE a.run # Run
    BY <2>7, <2>8, <2>10 DEF CallsPlaced
  <2>11. QED
    BY <2>9, <2>10
<1>3. QED
  BY <1>1, <1>2 DEF BusStep, Sends, busVars

(* Sending, in the ledger: the window leaves room for the call.            *)
LEMMA SendMaps ==
    ASSUME IInv, BusStep, Sends, UNCHANGED <<OpenStep, CallsPlaced, CallsHeard, StepsClosed>>,
           CallsSent' = CallsSent \cup {<<step, dispatched>>}
    PROVE  Ledger!Send
<1>1. InStep /\ WindowOpen
  BY DEF Sends, InStep
<1>2. DispatcherTypeOK /\ WindowInv /\ step \in StepIds
  BY <1>1 DEF IInv, TypeOK, DispatcherTypeOK
<1>3. OpenStep = step /\ CallsHeard = answered /\ step # 0
  BY <1>1, <1>2, BusAssumption DEF OpenStep, CallsHeard, Open, InStep, StepIds
<1>4. Cardinality(Ledger!SentIn(step)) = dispatched
  BY <1>1, SentOfOpenStep
<1>5. dispatched < Calls[step] /\ dispatched - Cardinality(answered) < Concurrency[step]
  BY <1>1, <1>2 DEF WindowOpen, WindowInv
<1>6. QED
  BY <1>3, <1>4, <1>5, SameCardinality DEF Ledger!Send

(* Consuming a result, in the ledger: the first of a call is heard of, and *)
(* nothing else shows.                                                     *)
LEMMA HandleMaps ==
    ASSUME IInv, Handle
    PROVE  Ledger!Hear \/ UNCHANGED Ledger!ledgerVars
<1> DEFINE r == results[position + 1]
<1>1. /\ position + 1 \in 1..Len(results)
      /\ Skip(r) \/ CountLate(r) \/ CountDuplicate(r) \/ CountAnswer(r)
      /\ InStep /\ InStep' /\ step' = step /\ UNCHANGED reportVars
      /\ step \in StepIds
  BY HandleReads
<1>2. UNCHANGED <<CallsSent, CallsPlaced>>
  BY DEF Handle, busVars, CallsSent, CallsPlaced, CallsIn, OfThisRun
<1>3. UNCHANGED <<OpenStep, StepsClosed>> /\ OpenStep = step /\ step # 0
  BY <1>1, BusAssumption DEF OpenStep, Open, InStep, StepsClosed, reportVars, StepIds
<1>4. CallsHeard = answered /\ CallsHeard' = answered'
  BY <1>1 DEF CallsHeard, Open, InStep
<1> HIDE DEF r
<1>5. CASE Skip(r) \/ CountLate(r) \/ CountDuplicate(r)
  <2>1. answered' = answered
    BY <1>5 DEF Skip, CountLate, CountDuplicate, windowVars
  <2>2. QED
    BY <1>2, <1>3, <1>4, <2>1 DEF Ledger!ledgerVars
<1>6. CASE CountAnswer(r)
  <2>1. /\ FromThisRun(r) /\ r.step = step /\ r.seq \notin answered
        /\ answered' = answered \cup {r.seq}
    BY <1>6 DEF CountAnswer
  <2>2. <<step, r.seq>> \in CallsPlaced
    BY <1>1, <2>1 DEF CallsPlaced, CallsIn, OfThisRun, FromThisRun, r
  <2> DEFINE c == <<step, r.seq>>
  <2>3. c \in CallsPlaced /\ c[1] = OpenStep /\ c[2] \notin CallsHeard
        /\ CallsHeard' = CallsHeard \cup {c[2]}
    BY <1>3, <1>4, <2>1, <2>2
  <2> HIDE DEF c
  <2>4. QED
    BY <1>2, <1>3, <2>3 DEF Ledger!Hear
<1>7. QED
  BY <1>1, <1>5, <1>6

(* The end of a step, in the ledger.                                       *)
LEMMA CloseMaps ==
    ASSUME IInv, NEW missing, Closes(missing)
    PROVE  Ledger!Close
<1>1. InStep /\ WindowInv /\ DispatcherTypeOK /\ step \in StepIds
  BY DEF Closes, IInv, TypeOK, DispatcherTypeOK
<1>2. /\ OpenStep = step /\ OpenStep # 0 /\ OpenStep' = 0
      /\ CallsHeard = answered /\ CallsHeard' = {}
  BY <1>1, BusAssumption DEF OpenStep, CallsHeard, Open, InStep, Closes, CloseStep, StepIds
<1>3. UNCHANGED <<CallsSent, CallsPlaced>>
  BY DEF Closes, CloseStep, busVars, CallsSent, CallsPlaced, CallsIn, OfThisRun
<1>4. received = Cardinality(answered)
  BY <1>1 DEF WindowInv
<1>5. missing \in {0, Calls[step] - received}
  BY DEF Closes
<1> DEFINE entry == [heard |-> received, missing |-> missing]
<1>6. StepsClosed' = Append(StepsClosed, entry)
  <2>1. /\ Len(report) \in Nat /\ Len(report') = Len(report) + 1
        /\ \A n \in 1..Len(report) : report'[n] = report[n]
        /\ report'[Len(report) + 1].received = received
        /\ report'[Len(report) + 1].missing = missing
    BY ClosedEntry
  <2> DEFINE Longer == [n \in 1..(Len(report) + 1) |->
                           [heard |-> report'[n].received, missing |-> report'[n].missing]]
             Short == [n \in 1..Len(report) |->
                           [heard |-> report[n].received, missing |-> report[n].missing]]
  <2>2. Longer[Len(report) + 1] = entry
    BY <2>1
  <2>3. \A n \in 1..Len(report) : Longer[n] = Short[n]
    BY <2>1
  <2> HIDE DEF entry
  <2>4. Longer = Append(Short, entry)
    <3> DEFINE Entries == {Short[n] : n \in 1..Len(report)} \cup {entry}
    <3>1. Short \in Seq(Entries) /\ entry \in Entries /\ Len(Short) = Len(report)
      BY <2>1
    <3>2. Longer \in Seq(Entries) /\ Len(Longer) = Len(report) + 1
      <4>1. \A n \in 1..(Len(report) + 1) : n \in 1..Len(report) \/ n = Len(report) + 1
        BY <2>1
      <4>2. \A n \in 1..(Len(report) + 1) : Longer[n] \in Entries
        <5> HIDE DEF Longer, Short
        <5>1. QED
          BY <2>2, <2>3, <4>1
      <4>3. Longer \in [1..(Len(report) + 1) -> Entries]
        <5> HIDE DEF Entries
        <5>1. QED
          BY <4>2
      <4> HIDE DEF Longer, Entries
      <4>4. QED
        BY <2>1, <4>3
    <3> HIDE DEF Short, Longer, Entries
    <3>3. /\ Append(Short, entry) \in Seq(Entries)
          /\ Len(Append(Short, entry)) = Len(report) + 1
          /\ Append(Short, entry)[Len(report) + 1] = entry
          /\ \A n \in 1..Len(report) : Append(Short, entry)[n] = Short[n]
      BY <3>1, AppendProperties
    <3>4. \A n \in 1..Len(Longer) : Longer[n] = Append(Short, entry)[n]
      BY <2>1, <2>2, <2>3, <3>2, <3>3
    <3>5. QED
      BY <3>2, <3>3, <3>4, SeqEqual
  <2>5. QED
    BY <2>1, <2>4 DEF StepsClosed
<1>7. QED
  BY <1>2, <1>3, <1>4, <1>5, <1>6, SameCardinality DEF Ledger!Close

(* The next step opens, in the ledger, unless it is refused. *)
LEMMA NextStepMaps ==
    ASSUME IInv, StepsInv, NextStep
    PROVE  Ledger!Open \/ UNCHANGED Ledger!ledgerVars
<1>1. /\ step \in Nat /\ step < NumSteps /\ step' = step + 1
      /\ OpenStep = 0 /\ CallsHeard = {} /\ CallsHeard' = {}
      /\ Len(report) = step
  BY BusAssumption
  DEF IInv, TypeOK, DispatcherTypeOK, NextStep, FreshWindow, OpenStep, CallsHeard, Open, StepsInv,
      Closed
<1>2. UNCHANGED <<CallsSent, CallsPlaced, StepsClosed>>
  BY DEF NextStep, busVars, reportVars, CallsSent, CallsPlaced, CallsIn, OfThisRun, StepsClosed
<1>3. Len(StepsClosed) = step
  BY <1>1 DEF StepsClosed
<1>4. CASE phase' = "refused"
  <2>1. OpenStep' = 0
    BY <1>4 DEF OpenStep, Open
  <2>2. QED
    BY <1>1, <1>2, <2>1 DEF Ledger!ledgerVars
<1>5. CASE phase' = "window"
  <2>1. OpenStep' = step + 1
    BY <1>1, <1>5 DEF OpenStep, Open
  <2>2. QED
    BY <1>1, <1>2, <1>3, <2>1 DEF Ledger!Open
<1>6. QED
  BY <1>4, <1>5 DEF NextStep

(* Every step of the run is a step of the ledger or does not show there.   *)
LEMMA StepMaps ==
    ASSUME AInv, [Next]_vars
    PROVE  [Ledger!Next]_(Ledger!ledgerVars)
<1>0. IInv /\ StepsInv /\ BusStep
  BY NextIsBusStep DEF AInv
<1>1. CASE Passes
  <2>1. UNCHANGED <<OpenStep, CallsHeard, StepsClosed>>
    BY <1>1 DEF Passes, countVars, reportVars, OpenStep, CallsHeard, StepsClosed, Open
  <2>2. CASE CallsSent' = CallsSent
    <3>1. CASE CallsPlaced' = CallsPlaced
      BY <2>1, <2>2, <3>1 DEF Ledger!ledgerVars
    <3>2. ASSUME NEW c \in CallsSent, CallsPlaced' = CallsPlaced \cup {c}
          PROVE  Ledger!Place \/ UNCHANGED Ledger!ledgerVars
      <4>1. CASE c \in CallsPlaced
        <5>1. CallsPlaced' = CallsPlaced
          BY <3>2, <4>1
        <5>2. QED
          BY <2>1, <2>2, <5>1 DEF Ledger!ledgerVars
      <4>2. CASE c \notin CallsPlaced
        BY <2>1, <2>2, <3>2, <4>2 DEF Ledger!Place
      <4>3. QED
        BY <4>1, <4>2
    <3>3. QED
      BY <1>0, <3>1, <3>2, PlacedMoves DEF Ledger!Next
  <2>3. CASE Sends /\ CallsSent' = CallsSent \cup {<<step, dispatched>>}
    <3>1. CallsPlaced' = CallsPlaced
      BY <2>3 DEF Sends, CallsPlaced, CallsIn, OfThisRun
    <3>2. Ledger!Send
      BY <1>0, <2>1, <2>3, <3>1, SendMaps
    <3>3. QED
      BY <3>2 DEF Ledger!Next
  <2>4. QED
    BY <1>0, <2>2, <2>3, SentMoves
<1>2. CASE NextStep
  BY <1>0, <1>2, NextStepMaps DEF Ledger!Next
<1>3. CASE Handle
  BY <1>0, <1>3, HandleMaps DEF Ledger!Next
<1>4. ASSUME NEW missing, Closes(missing)
      PROVE  Ledger!Next
  BY <1>0, <1>4, CloseMaps DEF Ledger!Next
<1>5. QED
  BY <1>1, <1>2, <1>3, <1>4, ReportMoves

(* The run starts with an empty ledger: what other runs left is not in it. *)
LEMMA InitMaps ==
    ASSUME Init
    PROVE  Ledger!Init
<1>1. OpenStep = 0 /\ CallsHeard = {} /\ StepsClosed = <<>>
  BY DEF Init, DispatcherInit, OpenStep, CallsHeard, StepsClosed, Open
<1>2. CallsSent = {}
  <2>1. assignments \in [Partitions -> Seq({a \in Assignment : a.run = OtherRun} \cup {Malformed})]
    BY LeftoverAssumption DEF Init, BusInit
  <2>2. ASSUME NEW p \in Partitions
        PROVE  CallsIn(assignments[p]) = {}
    <3>1. assignments[p] \in Seq({a \in Assignment : a.run = OtherRun} \cup {Malformed})
      BY <2>1
    <3>2. QED
      BY <3>1, BusAssumption DEF CallsIn, OfThisRun
  <2>3. QED
    BY <2>2 DEF CallsSent
<1>3. CallsPlaced = {}
  <2>1. results \in Seq({r \in CallResult : r.run = OtherRun} \cup {Malformed})
    BY LeftoverAssumption DEF Init, BusInit
  <2>2. QED
    BY <2>1, BusAssumption DEF CallsPlaced, CallsIn, OfThisRun
<1>4. QED
  BY <1>1, <1>2, <1>3 DEF Ledger!Init

(* The run keeps the ledger's promise, for any fleet, any profile and any  *)
(* number of faults: steps run in order, a step hears only of calls it     *)
(* sent and that were placed, of each once, and closes by the rules.       *)
THEOREM LedgerKept == Spec => KeepsLedger
<1>1. Init => Ledger!Init
  BY InitMaps
<1>2. AInv /\ [Next]_vars => [Ledger!Next]_(Ledger!ledgerVars)
  BY StepMaps
<1>3. QED
  BY <1>1, <1>2, Accounts, PTL DEF Spec, KeepsLedger, Ledger!Spec
=============================================================================
