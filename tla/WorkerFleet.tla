---------------------------- MODULE WorkerFleet ----------------------------
(***************************************************************************)
(* cmd/worker's main loop over bus.Worker: a fleet of processes that take  *)
(* assignments from a Kafka consumer group in bounded batches, place the   *)
(* calls of a batch concurrently, publish a result per call and commit the *)
(* batch only when every one of them is published.  The group itself       *)
(* (committed offsets, ownership, rebalancing, fencing of a lost member)   *)
(* is Kafka's, modelled from the options NewWorker sets.                   *)
(***************************************************************************)
EXTENDS CallBus

CONSTANTS
    Workers,       \* the worker processes, each restarted when it ends
    NoWorker,      \* the owner of a partition nobody owns
    Slots,         \* calls a worker places at once
    CallErrs,      \* what a call's error field may be: a subset of BOOLEAN
    MaxFaults      \* bound on crashes, evictions, lost commits, timeouts ...

ASSUME FleetAssumption ==
    /\ NoWorker \notin Workers
    /\ Slots \in Nat \ {0}
    /\ CallErrs \subseteq BOOLEAN
    /\ MaxFaults \in Nat

VARIABLES
    committed,     \* the group's committed offset of each partition
    owner,         \* the member each partition is assigned to
    life,          \* "down", "idle" (inside Next) or "busy" (with a batch)
    batch,         \* records of the current batch, bus.Worker.pending's keys
    ended,         \* those whose goroutine has returned
    done,          \* those Complete marked as published
    expired,       \* the batch's context is done
    stopping,      \* SIGTERM has arrived
    faults         \* faults so far

groupVars == <<committed, owner>>
workerVars == <<life, batch, ended, done, expired, stopping>>
fleetVars == <<groupVars, workerVars, faults>>

(* A record of the assignment topic: its partition and its 1-based offset. *)
Records == Partitions \X (Nat \ {0})
At(r) == assignments[r[1]][r[2]]

FleetTypeOK ==
    /\ committed \in [Partitions -> Nat]
    /\ owner \in [Partitions -> Workers \cup {NoWorker}]
    /\ life \in [Workers -> {"down", "idle", "busy"}]
    /\ batch \in [Workers -> SUBSET Records]
    /\ ended \in [Workers -> SUBSET Records]
    /\ done \in [Workers -> SUBSET Records]
    /\ expired \in [Workers -> BOOLEAN]
    /\ stopping \in [Workers -> BOOLEAN]
    /\ faults \in 0..MaxFaults

-----------------------------------------------------------------------------
FleetInit ==
    /\ committed = [p \in Partitions |-> 0]
    /\ owner = [p \in Partitions |-> NoWorker]
    /\ life = [w \in Workers |-> "down"]
    /\ batch = [w \in Workers |-> {}]
    /\ ended = [w \in Workers |-> {}]
    /\ done = [w \in Workers |-> {}]
    /\ expired = [w \in Workers |-> FALSE]
    /\ stopping = [w \in Workers |-> FALSE]
    /\ faults = 0

Fault == faults < MaxFaults /\ faults' = faults + 1
NoFault == UNCHANGED faults

(* The worker process ends and its member leaves the group, by Close or by *)
(* the broker's session timeout; nothing of its memory survives.           *)
Leave(w) ==
    /\ owner' = [p \in Partitions |-> IF owner[p] = w THEN NoWorker ELSE owner[p]]
    /\ life' = [life EXCEPT ![w] = "down"]
    /\ batch' = [batch EXCEPT ![w] = {}]
    /\ ended' = [ended EXCEPT ![w] = {}]
    /\ done' = [done EXCEPT ![w] = {}]
    /\ expired' = [expired EXCEPT ![w] = FALSE]
    /\ stopping' = [stopping EXCEPT ![w] = FALSE]

(* A (replacement) process starts and joins the group. *)
Start(w) ==
    /\ life[w] = "down"
    /\ life' = [life EXCEPT ![w] = "idle"]
    /\ NoFault
    /\ UNCHANGED <<busVars, groupVars, batch, ended, done, expired, stopping>>

(* Slip: BlockRebalanceOnPoll is not set. *)
RebalancesAnyTime(w) == life[w] # "down"

(* BlockRebalanceOnPoll: a member takes part in a rebalance only while it  *)
(* waits in Next.                                                          *)
MayRebalance(w) == life[w] = "idle"

(* The group gives a free partition to a member. *)
Take(w, p) ==
    /\ MayRebalance(w) /\ owner[p] = NoWorker
    /\ owner' = [owner EXCEPT ![p] = w]
    /\ NoFault
    /\ UNCHANGED <<busVars, committed, workerVars>>

(* The group takes a partition from a member. *)
Revoke(w, p) ==
    /\ MayRebalance(w) /\ owner[p] = w
    /\ owner' = [owner EXCEPT ![p] = NoWorker]
    /\ Fault
    /\ UNCHANGED <<busVars, committed, workerVars>>

(* The broker evicts a member that holds a batch and has not been heard    *)
(* of: its partitions are free, the process works on unaware.              *)
Evict(w) ==
    /\ life[w] = "busy"
    /\ \E p \in Partitions : owner[p] = w
    /\ owner' = [p \in Partitions |-> IF owner[p] = w THEN NoWorker ELSE owner[p]]
    /\ Fault
    /\ UNCHANGED <<busVars, committed, workerVars>>

-----------------------------------------------------------------------------
(* What w may fetch: its partitions' records past the committed offset. *)
Fetchable(w) ==
    UNION {{p} \X (committed[p] + 1 .. Len(assignments[p])) :
               p \in {q \in Partitions : owner[q] = w}}

(* PollRecords(slots): at most Slots records, of each partition the next   *)
(* ones in order.                                                          *)
Batches(w) ==
    {B \in SUBSET Fetchable(w) :
        /\ B # {}
        /\ Cardinality(B) <= Slots
        /\ \A r \in B : r[2] = committed[r[1]] + 1 \/ <<r[1], r[2] - 1>> \in B}

(* Slip: DisableAutoCommit is not set. *)
NextAutoCommits(w, B) ==
    /\ life[w] = "idle" /\ batch[w] = {}
    /\ \A r \in B : At(r) # Malformed
    /\ life' = [life EXCEPT ![w] = "busy"]
    /\ batch' = [batch EXCEPT ![w] = B]
    /\ committed' = [p \in Partitions |->
                        committed[p] + Cardinality({r \in B : r[1] = p})]
    /\ NoFault
    /\ UNCHANGED <<busVars, owner, ended, done, expired, stopping>>

(* Next returns a batch of jobs.  It refuses to when the previous one is   *)
(* not committed.                                                          *)
NextBatch(w, B) ==
    /\ life[w] = "idle" /\ batch[w] = {}
    /\ \A r \in B : At(r) # Malformed
    /\ life' = [life EXCEPT ![w] = "busy"]
    /\ batch' = [batch EXCEPT ![w] = B]
    /\ NoFault
    /\ UNCHANGED <<busVars, groupVars, ended, done, expired, stopping>>

(* Next meets a record it cannot decode and fails; main returns.  The      *)
(* valid records beside it stay uncommitted.                               *)
NextMalformed(w, B) ==
    /\ life[w] = "idle"
    /\ \E r \in B : At(r) = Malformed
    /\ Leave(w)
    /\ NoFault
    /\ UNCHANGED <<busVars, committed>>

(* Next fails otherwise; main returns. *)
NextFails(w) ==
    /\ life[w] = "idle"
    /\ Leave(w)
    /\ Fault
    /\ UNCHANGED <<busVars, committed>>

(* ctx.Err() != nil at the top of the loop. *)
StopIdle(w) ==
    /\ life[w] = "idle" /\ stopping[w]
    /\ Leave(w)
    /\ NoFault
    /\ UNCHANGED <<busVars, committed>>

-----------------------------------------------------------------------------
Placing(w) == batch[w] \ ended[w]

ResultOf(r, err) ==
    [run |-> At(r).run, step |-> At(r).step, seq |-> At(r).seq, err |-> err]

(* An expired batch context lets only a complete call report. *)
Reports(w, err) == expired[w] => ~err

(* The call ends and Complete publishes its result. *)
Complete(w, r, err) ==
    /\ r \in Placing(w)
    /\ Reports(w, err)
    /\ results' = Append(results, ResultOf(r, err))
    /\ ended' = [ended EXCEPT ![w] = @ \cup {r}]
    /\ done' = [done EXCEPT ![w] = @ \cup {r}]
    /\ NoFault
    /\ UNCHANGED <<assignments, groupVars, life, batch, expired, stopping>>

(* The call ends but Complete fails; the result may have landed. *)
CompleteFails(w, r, err) ==
    /\ r \in Placing(w)
    /\ Reports(w, err)
    /\ results' = Append(results, ResultOf(r, err)) \/ UNCHANGED results
    /\ ended' = [ended EXCEPT ![w] = @ \cup {r}]
    /\ Fault
    /\ UNCHANGED <<assignments, groupVars, life, batch, done, expired, stopping>>

(* The call died with its context: nothing is said and nothing committed. *)
Abandon(w, r) ==
    /\ r \in Placing(w)
    /\ expired[w]
    /\ ended' = [ended EXCEPT ![w] = @ \cup {r}]
    /\ NoFault
    /\ UNCHANGED <<busVars, groupVars, life, batch, done, expired, stopping>>

(* The batch has run for four minutes. *)
BatchTimeout(w) ==
    /\ life[w] = "busy" /\ ~expired[w]
    /\ expired' = [expired EXCEPT ![w] = TRUE]
    /\ Fault
    /\ UNCHANGED <<busVars, groupVars, life, batch, ended, done, stopping>>

(* Seventy seconds after SIGTERM the calls' context is cancelled. *)
DrainTimeout(w) ==
    /\ life[w] = "busy" /\ stopping[w] /\ ~expired[w]
    /\ expired' = [expired EXCEPT ![w] = TRUE]
    /\ NoFault
    /\ UNCHANGED <<busVars, groupVars, life, batch, ended, done, stopping>>

Stop(w) ==
    /\ life[w] # "down" /\ ~stopping[w]
    /\ stopping' = [stopping EXCEPT ![w] = TRUE]
    /\ Fault
    /\ UNCHANGED <<busVars, groupVars, life, batch, ended, done, expired>>

(* SIGKILL, a lost node, a panic. *)
Crash(w) ==
    /\ life[w] # "down"
    /\ Leave(w)
    /\ Fault
    /\ UNCHANGED <<busVars, committed>>

-----------------------------------------------------------------------------
(* Slip: a goroutine that abandons its call does not sign off. *)
JoinedWhenPublished(w) == life[w] = "busy" /\ done[w] = batch[w]

(* wg.Wait has returned. *)
Joined(w) == life[w] = "busy" /\ ended[w] = batch[w]

(* The broker accepts a commit from a member it has not evicted. *)
StillMember(w) == \A r \in batch[w] : owner[r[1]] = w

(* CommitRecords: the offset after the last record of each partition. *)
CommittedWith(w) ==
    [p \in Partitions |->
        IF \E o \in 1..Len(assignments[p]) : <<p, o>> \in batch[w]
        THEN CHOOSE o \in 1..Len(assignments[p]) :
                 <<p, o>> \in batch[w] /\ \A r \in batch[w] : r[1] = p => r[2] <= o
        ELSE committed[p]]

(* The batch is cleared and the loop goes back to Next. *)
Recycle(w) ==
    /\ life' = [life EXCEPT ![w] = "idle"]
    /\ batch' = [batch EXCEPT ![w] = {}]
    /\ ended' = [ended EXCEPT ![w] = {}]
    /\ done' = [done EXCEPT ![w] = {}]
    /\ expired' = [expired EXCEPT ![w] = FALSE]
    /\ UNCHANGED <<owner, stopping>>

(* Slip: unfinished assignments do not hold the commit back. *)
CommitUnfinished(w) ==
    /\ Joined(w)
    /\ StillMember(w)
    /\ committed' = CommittedWith(w)
    /\ IF stopping[w] THEN Leave(w) ELSE Recycle(w)
    /\ NoFault
    /\ UNCHANGED busVars

(* The batch is published whole and its offsets are committed. *)
CommitBatch(w) ==
    /\ Joined(w)
    /\ done[w] = batch[w]
    /\ StillMember(w)
    /\ committed' = CommittedWith(w)
    /\ IF stopping[w] THEN Leave(w) ELSE Recycle(w)
    /\ NoFault
    /\ UNCHANGED busVars

(* CommitBatch refuses an unfinished batch, or the broker refuses a lost   *)
(* member; main closes the worker for redelivery.                          *)
CommitRefused(w) ==
    /\ Joined(w)
    /\ done[w] # batch[w] \/ ~StillMember(w)
    /\ Leave(w)
    /\ NoFault
    /\ UNCHANGED <<busVars, committed>>

(* The commit request fails in another way; it may have been applied. *)
CommitFails(w) ==
    /\ Joined(w)
    /\ done[w] = batch[w]
    /\ StillMember(w)
    /\ committed' = CommittedWith(w) \/ UNCHANGED committed
    /\ Leave(w)
    /\ Fault
    /\ UNCHANGED busVars

EndCall(w) ==
    \E r \in Placing(w) :
        \/ \E err \in CallErrs : Complete(w, r, err)
        \/ Abandon(w, r)

WorkerStep(w) ==
    \/ Start(w)
    \/ \E B \in Batches(w) : NextBatch(w, B) \/ NextMalformed(w, B)
    \/ StopIdle(w)
    \/ EndCall(w)
    \/ CommitBatch(w) \/ CommitRefused(w)

WorkerFault(w) ==
    \/ NextFails(w)
    \/ \E r \in Placing(w) : \E err \in CallErrs : CompleteFails(w, r, err)
    \/ BatchTimeout(w) \/ DrainTimeout(w) \/ Stop(w) \/ Crash(w)
    \/ CommitFails(w)

GroupStep(p) == \E w \in Workers : Take(w, p)

GroupFault == \E w \in Workers : Evict(w) \/ \E p \in Partitions : Revoke(w, p)

FleetNext ==
    \/ \E w \in Workers : WorkerStep(w) \/ WorkerFault(w)
    \/ \E p \in Partitions : GroupStep(p)
    \/ GroupFault
=============================================================================
