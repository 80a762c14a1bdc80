---------------------------- MODULE StepMeasures ----------------------------
(***************************************************************************)
(* What is measured of one step of a load run.  Every turn of every call   *)
(* is counted by several readers that share no code: the step's summary,   *)
(* its two halves, its turns one by one, its timeline, the price and the   *)
(* conversation figures and, of a step placed by this process and not by   *)
(* the fleet, the live metrics and the collector of turn events.  Times    *)
(* are in microseconds.                                                    *)
(***************************************************************************)
EXTENDS Integers, Sequences, SequencesExt, FiniteSetsExt

CONSTANTS
    Callers,      \* the step's goroutines
    TurnKinds,    \* what a turn can be
    MinHalfTurns, \* the fewest turns of a half whose drift is told; the code's is 10
    StepCalls,    \* the calls of a step that is placed by the fleet
    MaxCalls,     \* bound on the calls of one placed by this process
    MaxTurns      \* bound on the turns of a call

(* A turn: its response time, whether it failed, whether the agent talked  *)
(* over it, the measured round trip or Unmeasured, its node, what became   *)
(* of the node's check, and the words of the reply.  Its number in the     *)
(* conversation is its place among the turns of its call.                  *)
Unmeasured == -1
IsTurn(t) ==
    /\ t.ttfa \in Int /\ {t.failed, t.yielded} \subseteq BOOLEAN
    /\ t.rtt \in Nat \cup {Unmeasured}
    /\ t.check \in {"none", "met", "missed"}
    /\ DOMAIN t = {"ttfa", "failed", "yielded", "rtt", "node", "check", "reply"}

ASSUME MeasuresAssumption ==
    /\ \A t \in TurnKinds : IsTurn(t)
    /\ {MinHalfTurns, StepCalls, MaxCalls, MaxTurns} \subseteq Nat
    /\ IsFiniteSet(Callers)

VARIABLES
    fleet,        \* the step is placed by the fleet: RunDistributed
    calling,      \* each caller's call in progress: when it began, its turns
    began,        \* how many calls have begun; also the clock of beginnings
    outcomes,     \* runStep's or dispatchStep's outcomes, in the order the calls
                  \* ended.  When one began is zero for one that nobody reported;
                  \* one number stands for startedAt and clockZero, for no figure
                  \* here rests on the order of the calls
    missing,      \* StepDispatch.Missing
    live,         \* the step's live counters and latency samples, sorted
    collected     \* the collector's samples, sorted, and its two counters

measureVars == <<fleet, calling, began, outcomes, missing, live, collected>>

-----------------------------------------------------------------------------
(* Durations and their percentiles. *)

(* A duration written in units of u and read again, the half away from zero. *)
RoundTo(u, d) ==
    LET size == IF d >= 0 THEN d ELSE -d
        near == ((size + u \div 2) \div u) * u
    IN IF d >= 0 THEN near ELSE -near

(* Finalize and Rehydrate: what is written of a turn, into the artifact    *)
(* and over the wire, are hundredths of a millisecond.                     *)
Written(t) ==
    [t EXCEPT !.ttfa = RoundTo(10, @),
              !.rtt = IF @ = Unmeasured THEN Unmeasured ELSE RoundTo(10, @)]
AsWritten(ts) == [k \in DOMAIN ts |-> Written(ts[k])]

(* A sample ds has a number for every element of a finite set: for every   *)
(* turn it was taken of, or for every index of a sequence.  Sorting it     *)
(* gives at each rank the least value as many numbers do not exceed.       *)
Size(ds) == Cardinality(DOMAIN ds)
AtMost(ds, v) == Cardinality({x \in DOMAIN ds : ds[x] <= v})
Values(ds) == {ds[x] : x \in DOMAIN ds}
SortedDs(ds) ==
    [rank \in 1..Size(ds) |-> Min({v \in Values(ds) : AtMost(ds, v) >= rank})]

(* Slip: the rank is rounded down. *)
RankRoundedDown(ds, p) ==
    IF Size(ds) = 0 THEN 0
    ELSE SortedDs(ds)[Max({(p * Size(ds)) \div 100, 1})]

(* metrics.Percentile: the nearest rank.  The code computes it in floats.  *)
Percentile(ds, p) ==
    IF Size(ds) = 0 THEN 0
    ELSE LET rank == (p * Size(ds) + 99) \div 100
         IN SortedDs(ds)[Min({Max({rank, 1}), Size(ds)})]

Summarize(ds) ==
    LET ms(p) == RoundTo(100, Percentile(ds, p))
    IN [n |-> Size(ds), p50 |-> ms(50), p90 |-> ms(90), p95 |-> ms(95),
        p99 |-> ms(99), top |-> ms(100), raw |-> Percentile(ds, 95)]

-----------------------------------------------------------------------------
(* Picking turns out of a step.  A turn's place is its call and its number *)
(* in the call; calls gives each call its turns.                           *)

TurnsOf(os, some) == [i \in some |-> os[i].turns]
AllTurns(calls) == UNION {{i} \X DOMAIN calls[i] : i \in DOMAIN calls}
Turn(calls, x) == calls[x[1]][x[2]]
TtfasOf(calls, places) == [x \in places |-> Turn(calls, x).ttfa]

(* connectedTurns *)
Connected(os) == {i \in DOMAIN os : ~os[i].failed}
TurnsByCall(os) == TurnsOf(os, Connected(os))
ConnectedTurns(os) == AllTurns(TurnsByCall(os))

(* buildStepReportAt, transcripts and drift aside. *)
StepReport(os) ==
    LET calls == TurnsByCall(os)
        at(x) == Turn(calls, x)
        ts == ConnectedTurns(os)
        waited == {x \in ts : ~at(x).yielded}
        timed == {x \in waited : at(x).ttfa > 0}
        pinged == {x \in waited : at(x).rtt # Unmeasured}
    IN [attempted |-> Len(os), connected |-> Cardinality(Connected(os)),
        turns |-> Cardinality(ts),
        failed |-> Cardinality({x \in ts : at(x).failed}),
        yielded |-> Cardinality({x \in ts : at(x).yielded}),
        ttfa |-> Summarize(TtfasOf(calls, timed)),
        rtt |-> Summarize([x \in pinged |-> at(x).rtt]),
        agentTtfa |-> Summarize([x \in timed \cap pinged |-> at(x).ttfa - at(x).rtt])]

-----------------------------------------------------------------------------
(* The halves of a step. *)

(* Some of the calls that began, in the order they did. *)
ByStart(os, some) ==
    LET times == SortedDs([i \in some |-> os[i].began])
    IN [rank \in DOMAIN times |-> CHOOSE i \in some : os[i].began = times[rank]]

(* Slip: a turn the agent talked over is timed. *)
TimesYieldedTurns(calls) ==
    TtfasOf(calls, {x \in AllTurns(calls) : Turn(calls, x).ttfa > 0})

PhaseTTFA(calls) ==
    TtfasOf(calls, {x \in AllTurns(calls) :
        ~(Turn(calls, x).yielded \/ Turn(calls, x).ttfa <= 0)})

(* summarizePhase: the calls that began first against those that began     *)
(* last, and how far the median moved, in thousandths.                     *)
Phase(os) ==
    LET ord == ByStart(os, {i \in DOMAIN os : ~(os[i].failed \/ os[i].turns = <<>> \/ os[i].began = 0)})
        mid == Size(ord) \div 2
        half(ranks) == Summarize(PhaseTTFA(TurnsOf(os, {ord[rank] : rank \in ranks})))
        first == half(1..mid)
        second == half((mid + 1)..Size(ord))
        was == first.p50 \div 100
        moved == RoundTo(was, 10 * (second.p50 - first.p50)) \div was
    IN IF Size(ord) < 2
       THEN [split |-> FALSE, first |-> Summarize(<<>>), second |-> Summarize(<<>>),
             drift |-> "unknown"]
       ELSE [split |-> TRUE, first |-> first, second |-> second,
             drift |-> IF first.n < MinHalfTurns \/ second.n < MinHalfTurns \/ first.p50 <= 0
                       THEN "unknown"
                       ELSE IF moved >= 150 THEN "drifting"
                       ELSE IF moved <= -150 THEN "settling" ELSE "steady"]

-----------------------------------------------------------------------------
(* analyzeCalls. *)

WaitTarget == 800000
WaitRepeat == 1200000
DeadAir == 2000000
Band(ttfa) ==
    IF ttfa <= WaitTarget THEN "quick"
    ELSE IF ttfa <= WaitRepeat THEN "usual"
    ELSE IF ttfa <= DeadAir THEN "slow" ELSE "dead_air"
Bands == {"quick", "usual", "slow", "dead_air"}

Total(f) == MapThenSumSet(LAMBDA x : f[x], DOMAIN f)

(* Same words, or four fifths of the distinct words of two long replies. *)
SameReply(a, b) ==
    \/ a = b
    \/ /\ Len(a) >= 4 /\ Len(b) >= 4
       /\ LET x == ToSet(a)
              y == ToSet(b)
          IN 10 * Cardinality(x \cap y) >= 8 * Cardinality(x \cup y)

RepeatedReplies(ts) ==
    Cardinality({i \in DOMAIN ts :
        ts[i].reply # <<>> /\ \E j \in 1..(i - 1) :
            ts[j].reply # <<>> /\ SameReply(ts[j].reply, ts[i].reply)})

(* calls holds the turns of each call that connected. *)
AnalyzeCalls(calls) ==
    LET waits == {x \in AllTurns(calls) :
                    ~(Turn(calls, x).yielded \/ Turn(calls, x).ttfa <= 0)}
        repeats == [i \in DOMAIN calls |-> RepeatedReplies(calls[i])]
    IN [bands |-> [b \in Bands |->
                      Cardinality({x \in waits : Band(Turn(calls, x).ttfa) = b})],
        turns |-> [n \in {x[2] : x \in waits} |->
                      Summarize(TtfasOf(calls, {x \in waits : x[2] = n}))],
        repeated |-> Total(repeats),
        callsWith |-> Cardinality({i \in DOMAIN calls : repeats[i] > 0})]

(* callRecords, and Refresh over what it wrote: the calls log carries the  *)
(* milliseconds, not the durations.                                        *)
CallRecords(os) ==
    [i \in DOMAIN os |-> [error |-> os[i].failed, began |-> os[i].began,
        turns |-> AsWritten(os[i].turns)]]
Refreshed(records) ==
    AnalyzeCalls(TurnsOf(records, {i \in DOMAIN records : ~records[i].error}))

-----------------------------------------------------------------------------
(* The rest of the step's report. *)

(* summarizeConversation, words and speaking times aside. *)
Conversation(os) ==
    LET calls == TurnsOf(os, {i \in DOMAIN os : ~os[i].failed})
        ts == AllTurns(calls)
    IN [turns |-> Cardinality(ts),
        interruptions |-> Cardinality({x \in ts : Turn(calls, x).yielded}),
        deadAir |-> Cardinality({x \in ts :
                        ~Turn(calls, x).yielded /\ Turn(calls, x).ttfa > DeadAir})]

(* summarizeCost divides the price by these. *)
Billed(os) ==
    LET paid == {i \in DOMAIN os : ~os[i].failed}
    IN [calls |-> Cardinality(paid), turns |-> Cardinality(AllTurns(TurnsOf(os, paid)))]

(* summarizeNodes; order is the scenario's, and every turn has a node. *)
NodeStats(os, order) ==
    LET calls == TurnsOf(os, {i \in DOMAIN os : ~os[i].failed})
        ts == AllTurns(calls)
        at(x) == Turn(calls, x)
        seen == {at(x).node : x \in ts}
    IN IF seen = {} THEN <<>>
       ELSE [node \in ToSet(order) \cup seen |->
                [visits |-> Cardinality({x \in ts : at(x).node = node}),
                 checked |-> Cardinality({x \in ts : at(x).node = node /\ at(x).check # "none"}),
                 passed |-> Cardinality({x \in ts : at(x).node = node /\ at(x).check = "met"})]]

(* summarizeTimeline; a call no worker ever reported has no place on it.   *)
Timeline(os) ==
    LET ttfas(o) == [k \in {k \in DOMAIN o.turns : ~o.turns[k].yielded /\ o.turns[k].ttfa > 0}
                        |-> o.turns[k].ttfa]
        point(o) == [at |-> o.began,
                     failed |-> o.failed \/ \E k \in DOMAIN o.turns : o.turns[k].failed,
                     timed |-> Size(ttfas(o)),
                     ttfa |-> RoundTo(100, RoundTo(10, Percentile(ttfas(o), 50)))]
        ord == ByStart(os, {i \in DOMAIN os : os[i].began # 0})
    IN [rank \in DOMAIN ord |-> point(os[ord[rank]])]

-----------------------------------------------------------------------------
(* Reading as the step runs. *)

(* telemetry.ObserveTurn *)
ObserveTurn(l, t) ==
    LET outcome == IF t.failed THEN "failed" ELSE IF t.yielded THEN "talked_over" ELSE "ok"
        counted == [l EXCEPT !.by[outcome] = @ + 1]
    IN IF t.yielded \/ t.ttfa <= 0 THEN counted
       ELSE [counted EXCEPT !.samples = SortedDs(Append(@, t.ttfa))]

(* cmd/collector's aggregator.add: one event for every turn of a call,     *)
(* carrying the milliseconds.  The samples are read only sorted.           *)
Collect(c, ts) ==
    LET timed == {k \in DOMAIN ts : ~(ts[k].yielded \/ Written(ts[k]).ttfa <= 0)}
    IN [total |-> c.total + Len(ts),
        failed |-> c.failed + Cardinality({k \in DOMAIN ts : ts[k].failed}),
        samples |-> c.samples \o SortedDs([k \in timed |-> Written(ts[k]).ttfa])]

NoCall == [began |-> 0, turns |-> <<>>]
Idle(c) == calling[c].began = 0

MeasuresInit ==
    /\ fleet \in BOOLEAN
    /\ missing = 0
    /\ calling = [c \in Callers |-> NoCall]
    /\ began = 0
    /\ outcomes = <<>>
    /\ live = [by |-> [o \in {"ok", "failed", "talked_over"} |-> 0], samples |-> <<>>]
    /\ collected = [total |-> 0, failed |-> 0, samples |-> <<>>]

BeginCall(c) ==
    /\ ~fleet /\ Idle(c) /\ began < MaxCalls
    /\ began' = began + 1
    /\ calling' = [calling EXCEPT ![c] = [NoCall EXCEPT !.began = began + 1]]
    /\ UNCHANGED <<fleet, outcomes, missing, live, collected>>

(* OnTurn, as the call goes on. *)
TakeTurn(c, kind) ==
    /\ ~Idle(c) /\ Len(calling[c].turns) < MaxTurns
    /\ calling' = [calling EXCEPT ![c].turns = Append(@, kind)]
    /\ live' = ObserveTurn(live, kind)
    /\ UNCHANGED <<fleet, began, outcomes, missing, collected>>

(* The outcome of a call, and its turn events when it connected.  Once the *)
(* conversation has begun worker.Run returns no error.                     *)
EndCall(c) ==
    /\ ~Idle(c)
    /\ LET call == calling[c] IN
         /\ outcomes' = Append(outcomes, [failed |-> call.turns = <<>>,
                            began |-> call.began, turns |-> call.turns])
         /\ collected' = Collect(collected, call.turns)
    /\ calling' = [calling EXCEPT ![c] = NoCall]
    /\ UNCHANGED <<fleet, began, missing, live>>

(* dispatchStep, of a call of its own that was not answered before; the    *)
(* turns of the call came over the wire.  A result with an error has no    *)
(* turns (place), and the worker's metrics are those of its own process.   *)
TakeResult(seq, ts) ==
    /\ fleet /\ Len(outcomes) < StepCalls
    /\ \A i \in DOMAIN outcomes : outcomes[i].began # seq
    /\ outcomes' = Append(outcomes, [failed |-> ts = <<>>, began |-> seq,
                                     turns |-> AsWritten(ts)])
    /\ UNCHANGED <<fleet, calling, began, missing, live, collected>>

NotReported == [failed |-> TRUE, began |-> 0, turns |-> <<>>]

(* The step's budget is over: the calls that never came back are failed    *)
(* ones that have no time.                                                 *)
GiveUp ==
    /\ fleet /\ Len(outcomes) < StepCalls
    /\ missing' = StepCalls - Len(outcomes)
    /\ outcomes' = outcomes \o [i \in 1..missing' |-> NotReported]
    /\ UNCHANGED <<fleet, calling, began, live, collected>>

MeasuresNext ==
    \/ \E c \in Callers :
          \/ BeginCall(c) \/ EndCall(c)
          \/ \E kind \in TurnKinds : TakeTurn(c, kind)
    \/ \E seq \in 1..StepCalls, ts \in BoundedSeq(TurnKinds, MaxTurns) : TakeResult(seq, ts)
    \/ GiveUp

MeasuresSpec == MeasuresInit /\ [][MeasuresNext]_measureVars

-----------------------------------------------------------------------------
Resting == \A c \in Callers : Idle(c)

(* The turns whose wait the log writes as nothing: under 5 microseconds.   *)
Lost(os) ==
    LET calls == TurnsByCall(os)
    IN {x \in AllTurns(calls) : /\ ~Turn(calls, x).yielded /\ Turn(calls, x).ttfa > 0
                                /\ Written(Turn(calls, x)).ttfa <= 0}

(* Every reader leaves out the same turns, so the report cannot contradict *)
(* itself: the percentiles, the bands, the turns one by one, the two       *)
(* halves and the timeline rest on the same number of response times, the  *)
(* counters on the same turns (phaseTTFA: "matching the filters the        *)
(* step-level summary uses so the two cannot disagree"), and the timeline  *)
(* leaves out the calls the dispatcher missed and no other.  When this     *)
(* process placed the calls, the live metrics rest on the same response    *)
(* times too, and the collector on all but those written as nothing.       *)
SamplesAgree ==
    LET r == StepReport(outcomes)
        a == AnalyzeCalls(TurnsByCall(outcomes))
        p == Phase(outcomes)
        line == Timeline(outcomes)
        nodes == NodeStats(outcomes, <<>>)
    IN Resting =>
        /\ r.ttfa.n = Total(a.bands)
        /\ r.ttfa.n = Total([n \in DOMAIN a.turns |-> a.turns[n].n])
        /\ p.split => r.ttfa.n = p.first.n + p.second.n
        /\ r.ttfa.n = Total([i \in DOMAIN line |-> line[i].timed])
        /\ r.agentTtfa.n <= r.ttfa.n /\ r.agentTtfa.n <= r.rtt.n
        /\ r.turns = Conversation(outcomes).turns /\ r.turns = Billed(outcomes).turns
        /\ r.turns = Total([n \in DOMAIN nodes |-> nodes[n].visits])
        /\ r.yielded = Conversation(outcomes).interruptions
        /\ a.bands["dead_air"] = Conversation(outcomes).deadAir
        /\ Size(line) + missing = r.attempted
        /\ fleet \/
           /\ r.ttfa = Summarize(live.samples)
           /\ r.ttfa.n = Len(collected.samples) + Cardinality(Lost(outcomes))
           /\ r.turns = collected.total /\ r.turns = Total(live.by)
           /\ r.failed = collected.failed /\ r.failed = live.by["failed"]

(* Refreshing a report from its calls log loses only the turns whose wait  *)
(* it wrote as nothing, repeats itself, and moves a turn to another band   *)
(* only when its wait was within the log's rounding of a line, and then to *)
(* the quicker one.                                                        *)
RefreshKeepsTheFigures ==
    LET calls == TurnsByCall(outcomes)
        was == AnalyzeCalls(calls)
        now == Refreshed(CallRecords(outcomes))
        lost == Cardinality(Lost(outcomes))
        onLine == Cardinality({x \in AllTurns(calls) :
                      Band(Written(Turn(calls, x)).ttfa) # Band(Turn(calls, x).ttfa)})
    IN /\ DOMAIN now.turns \subseteq DOMAIN was.turns
       /\ lost = 0 => DOMAIN now.turns = DOMAIN was.turns
       /\ <<now.repeated, now.callsWith>> = <<was.repeated, was.callsWith>>
       /\ Total(now.bands) + lost = Total(was.bands)
       /\ now.bands["quick"] + lost \in was.bands["quick"]..(was.bands["quick"] + onLine)
       /\ now.bands["dead_air"] \in (was.bands["dead_air"] - onLine)..was.bands["dead_air"]

(* The figures of a step agree with each other, and with what a refresh    *)
(* works out again from its calls log.                                     *)
FiguresAgree == SamplesAgree /\ RefreshKeepsTheFigures

(* A percentile is the smallest measured value that at least p hundredths  *)
(* of the values do not exceed, however few there are; and a summary's     *)
(* figures rise with the percentile.                                       *)
PercentileIsNearestRank ==
    LET ds == live.samples
        below(v) == Cardinality({i \in DOMAIN ds : ds[i] <= v})
        s == Summarize(ds)
    IN /\ ds # <<>> => \A p \in {0, 50, 90, 95, 99, 100} :
            Percentile(ds, p) = Min({v \in ToSet(ds) : 100 * below(v) >= p * Len(ds)})
       /\ s.p50 <= s.p90 /\ s.p90 <= s.p95 /\ s.p95 <= s.p99 /\ s.p99 <= s.top
=============================================================================
