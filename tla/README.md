# Callstorm in TLA+

Callstorm load-tests voice agents: it places many simulated phone calls against an
agent, step by step at rising concurrency, measures each turn, and says where the
agent breaks. These modules model the parts of it whose correctness depends on order,
failure and concurrency. Line numbers refer to the Go sources.

## The system

| part | state | operations | hard behaviour |
|---|---|---|---|
| dispatcher: `loadgen.RunDistributed`, `dispatchStep`, `bus.Dispatcher` | the current step's window (`dispatched`, `received`, `inFlight`), the set `answered`, outcomes, integrity counters, the position in the result topic | assign, poll, count a result, give up, close a step, cancel | at-least-once delivery, stragglers of an earlier step, foreign records, deadlines, lost acknowledgements |
| worker fleet: `cmd/worker`, `bus.Worker` | the batch in hand (`pending`), its goroutines, two contexts, the group's offsets and ownership | next batch, place, complete, abandon, commit, stop | crash between publish and commit, eviction while working, two timeouts, partial failure of a batch |
| turn events: `bus.Producer`, `bus.Consumer`, `cmd/collector` | published and dropped counters, per-step windows | publish, flush, poll, aggregate | asynchronous produce callbacks, a flush cut short |
| one call: `internal/worker` | event queue, playout queue of the pump, turn state, connection | handshake, greeting, turn, barge-in, timeout, hang up | four goroutines and a remote agent; late events; a bounded queue that drops |
| in-process run: `loadgen.Run`, `RunMatrix` | counter of remaining calls or a hold deadline per step, outcomes | place, collect, next step, next cohort | slots racing for the last call, cancellation, an impairment that must be undone |
| profile, scenario | steps; a dialogue graph | validate, walk | loops in the graph, the turn limit |
| metrics, report, scoring | per-turn durations, per-step statistics | percentile, verdict, breakpoint, recovery | boundaries: no values, zero baselines |
| report files and dashboard | files of a run | publish, rejudge, refresh, read | half-written files, readers during a rewrite |
| speech cache: `internal/tts` | one file per utterance | synthesise | concurrent writers, a crash while writing |
| reference agent: `cmd/refagent` | reply goroutine, stop flag | listen, reply, yield | a watcher that outlives its reply |
| judge, insights | model calls with retries | complete, verify | retry limits |
| telemetry, impairment, audio, chart, configuration | | | little or no control state |

A distributed run is the composition of the first two rows: dispatcher and workers share
nothing but two Kafka topics, assignments (twelve partitions, a consumer group) and
results (one partition, read by the dispatcher from its start). An in-process run uses
goroutines in place of the fleet. Either way a call is `worker.Run`, which talks to the
agent over a WebSocket, and both runs end in a `Report` that `cmd/callstorm` scores and
publishes as files and `cmd/dashboard` serves.

What makes each part correct:

- dispatcher: the window is full and never overfull; each call counts once, by its first
  result; each result is accounted for; the run ends whatever the fleet does, if the
  broker takes its assignments.
- fleet: nothing is committed before its result is published; a commit never moves back;
  every assignment is answered once faults stop, and redelivery then ends.
- turn events: the counters in the report match what was published or dropped.
- one call: a turn ends with its own reply or with its timeout; a barge-in ends one reply.
- in-process run: a step places exactly its calls, at most its concurrency at once, and
  none under another network condition than the one it is reported under.
- scenario: a file that is accepted is played as it reads, wherever a branch jumps.
- measures and verdicts: the figures of a report do not contradict each other, and a
  slower step is never judged better than a faster one.
- judging: a call passes on all of the scenario's criteria or it has no verdict.
- report files: a run that can be discovered is complete, and tools that run one after
  another keep each other's work.
- speech cache: an entry is whole unless somebody writes it, stopped half way through it,
  or wrote it together with another.
- reference agent: an utterance is answered once, and only an interruption stops a reply.

## The modules

| module | models |
|---|---|
| `CallBus` | the two topics as logs, their records, the profile's constants and what `Profile.validate` guarantees of them |
| `Dispatcher` | `RunDistributed` and `dispatchStep` with `Dispatcher.Assign` and `Results` |
| `WorkerFleet` | `cmd/worker` with `bus.Worker`, and the consumer group |
| `DistributedRun` | the composition, its fairness, all of its properties, and the mapping to the ledger |
| `CallLedger` | the abstract specification: what a distributed run promises of its calls |
| `MCDistributedRun` | instances for TLC |
| `DistributedRunProofs` | the proofs |
| `CallerPump` | the caller's voice in one call: `pump.go` |
| `AgentStream` | the read loop of one call, its queue, and an arbitrary agent |
| `CallTurn` | the turn loop that joins the two: `awaitGreeting`, `runTurn` and the loop of `Run` |
| `MCCallTurn` | instances for TLC |
| `CallTurnProofs` | its proofs |
| `LocalRun` | a load run in one process: `Run`, `runStep`, `RunMatrix`, the impairment around them, the turn events' producer, and `runLoad` from the run to the report |
| `SpeechCache` | the caller's voice: `tts.Client.Synthesize`, `warmCache`, and what a call renders |
| `ScenarioWalk` | `scenario.validate` and the loop of `worker.Run` over the nodes |
| `RefAgent` | a session of `cmd/refagent` |
| `MCLocalRun` | the instance of these four for TLC |
| `LocalRunProofs`, `SpeechCacheProofs`, `ConversationProofs` | proofs about the first, about the second, and about the last two |
| `StepMeasures` | what is measured of a step, by each of the code's readers of its turns |
| `Verdicts` | profiles, the verdicts on speed and quality, recovery, breakpoints, the comparison of cohorts |
| `Grading` | word errors, the judge's sample and answers, the joining of verdicts, labels |
| `ReportFiles` | the files of a run, the tools that rewrite them and the dashboard that reads them |
| `MCReports` | the instance of these four for TLC |
| `StepMeasuresProofs`, `ReportProofs`, `ReportFilesProofs` | proofs about `StepMeasures`, about `Verdicts` and `Grading`, and about `ReportFiles` |

### From the code to the modules

`CallBus`. A topic is a log that only grows, so a record once published can still be
spoken of; the dispatcher's and the group's progress are offsets into it. A record is
(run, step, seq) and, for a result, whether its `error` field is set: this is all that
dispatch decides by. The result topic may start with records of other runs and with
records that are not JSON, since `NewDispatcher` reads it from the start (97); so may the
assignment topic, since the group may have uncommitted records. Run identifiers are
assumed unique. `cmd/callstorm` takes them from the clock in seconds and the profile's
name (main.go 267), so two runs of one profile begun in the same second would break this.
`PartitionOf` is the broker client's hash of the key `step-seq`.

`Dispatcher`. `phase` is where the goroutine stands: `between` two steps, at the top of
dispatchStep's loop (`window`), or in its loop over a poll's results (`handle`). One
action is one turn of the inner assign loop, one poll, or one result. A result
consumed is counted in the same action. `CloseStep` is what leaving the loop does
including `DispatchIntegrity.add` and the placeholders for calls that never answered.
The order of the checks after a poll, context, deadline, completeness, is in the guards
of `CancelStep`, `GiveUp`, `CompleteStep` and `Continue`. `AssignFails` is an error of
`ProduceSync`, after which the record may or may not be on the topic. Both it and
`PollFails` drop the whole report, as the code does.

`WorkerFleet`. A worker is `down`, `idle` (in `Next`, where `BlockRebalanceOnPoll`
lets it take part in a rebalance) or `busy` with a batch. `ended` are the calls whose
goroutine has returned, `done` those `Complete` marked in `pending`: they differ when a
result could not be published or a call was abandoned. `Complete` is one action
because the mutex covers its bookkeeping and nothing reads `pending` before `wg.Wait`. A
process that ends is `down` and may be started again, as its Deployment does. A worker
that starts again under the same name has none of its memory. The four-minute batch
context and the seventy-second drain are `expired`; once it is set a call either was
complete and reports without an error, or is abandoned. A call that failed on its
own reports an error.

The group is the library's and the broker's: a partition has at most one owner,
fetching starts at the committed offset, an idle member may lose partitions, a busy one
only by eviction, and a commit is refused for a member that was evicted.

`CallerPump`. A line is known by its turn and is as long as it has frames. `done` and the
`finished` of the frame in flight are references to the channel `speak` made for that
turn; `notices` is what such a channel holds. The pump takes a frame under the lock and
writes it without (`NextFrame`, `WriteFrame`), so `Speak` and `Clear` may come between.
Silence is sent between lines and carries no state; that its write may fail is in
`WriteFails`.

`AgentStream`. Instants are counted in messages: a stamp is the number of the message, and
the turn loop's own readings of the clock are the number stamped so far. Comparing stamps
is all the properties need, and durations are left out. A message is stamped and then
emitted in a second step, because the turn loop can drain its queue in between. `reply` is
0 where the code's `speaking` is false. A chunk that emits nothing only lengthens the
playout. The agent and the network are external and unrestricted: any message at any
time, and silence.

`CallTurn`. `phase` is where the turn loop stands: `greeting`, `drain` and `start` at the
head of `runTurn`, `collect` in its `select`, `playout` in `waitPlayout`. A `select` is a
choice among the actions whose case is ready, and a timer may run out at any time after it
was set. Draining is one action: what the read loop adds while it runs is drained or is
not, as if it had come before or after. What a turn measured is in `metrics`, with the
stamps in place of durations; the text of transcripts, round trips and talk ratios do not
steer the loop and are left out. The walk through the scenario is the sequence of turns it
yields, up to its limit, with the ones that interrupt in `Barging`; `ScenarioWalk` models
the walk itself. The greeting's turn is `NoTurn`. The dial and the handshake come before
and are sequential; rendering the lines is in `SpeechCache`.

`LocalRun`. `stage` is where runLoad stands and `slot` where each of a step's goroutines
does. Asking for a call is two steps, as in the code: the context is looked at
(`CheckBudget`), then the counter is drawn from or the deadline compared (`DrawCall`). A
call is `calling` from start to end; what happens in it is `CallTurn`. Its turn events are
handed to the client together and answered one by one, at any later time, by the broker
(`BrokerNext`). The client takes them at once while it has room and makes the caller wait
when it has none, which shows only in the fairness (`TakesEvents`). A drop is two steps, the counter and then the stored error, because
`Flush` may return and the report be quoted between them. A client has one goroutine for
its callbacks, so one drop at a time is between the two. `Flushed` waits for the client
unless the run was interrupted. A matrix is the same run once per cohort with `tc` around
it: a change (`ChangeQdisc`), a look at the result (`VerifyQdisc`), and the deferred
restoration. `-impairments` refuses `-kafka`, so a matrix has no turn events. The list of
cohorts starts with the clean one and repeats no name, which `impair.Cohorts` sees to.

`SpeechCache`. A thread is a call (or the warming) inside `Synthesize`, sentence by
sentence. The file is created and truncated, written and closed in three steps, since
`os.WriteFile` is no more atomic than that, and it may fail before any of them, an error
`Synthesize` ignores (`WriteFails`). Audio is `whole` or `damaged`; `spoiled` is a history
of the sentences whose file was left half written, by a writer that died or whose write
failed, or written by two at once.
`Warms` are the processes that call `warmCache` first, which the fleet's worker does not.

`ScenarioWalk`. A file is a list of nodes, as `Load` finds it, with the defaults it fills
in. One pass of the loop is one action: it decides the next node on the reply before it,
arms the interruption for that node, and plays the turn. A turn has no reply (`NoReply`) or
one with words, known by the phrases a branch or a check looks for that occur in it. These
may be none, and a reply without them is not the same as no reply: it meets a check that
only forbids phrases.

`RefAgent`. The listening loop is three actions on a voiced frame (the utterance's first,
the barge-in, the end of the silence), each with the goroutines it starts. A reply sleeps,
sends its transcript, sleeps, clears the stop flag and speaks; `phase` is which of these it
waits for. Sleeps have no length, so any two goroutines may wake in either order.

`StepMeasures`. The state is what the calls of a step file, and every reader of it is an
operator: the step's summary, its halves, the bands of waits, the turns one by one, the
nodes, the conversation, the timeline, the price. A step is placed by this process or by
the fleet. In the first case the live metrics and the collector are fed as turns come. In
the second the outcomes come over the bus, rounded as they are written, and the live
metrics are those of other processes; a step that gives up files the calls it never heard
of with no time (`NotReported`), which the timeline and the halves leave out. A call's
number in its step stands for the time it was handed out and for the zero of its clock:
no figure compared here depends on the order of calls. Times are microseconds, so that the rounding of `Millis` to hundredths
of a millisecond, all that the log keeps, is visible: a wait under 5 microseconds is
written as nothing, and whoever reads the log or the events leaves it out (`Lost`). A
reader's selection of turns is a set of places, a call and a turn's number in it, where the
code builds a slice in one loop or another; what it takes of them is a sample, one number
for each place. `SortedDs` says which number of a sample is at each rank, so the order in
which a loop met them does not matter, as it does not after `sort.Slice`; `ByStart` is the
sort of the calls that began by their beginnings, which are taken to differ. `Percentile`'s rank, a ceiling of a
floating-point product in the code, is worked out in integers.

`Verdicts`. A profile is written step by step, loaded, run, and scored at the end of each
cohort. What a step measured is one of a set of records that lie on both sides of the
limits the code knows. `Judge` is `-judge` or a later `-rejudge`.

`Grading`. A line and its transcript are built word by word for the word error rate, or
calls are logged and judged. What the model answers is any of a set of lists, among them
ones that skip, repeat or invent a criterion. A call's id is its place in the log; in the
code it is the provider's request id, taken to be unique within a step.

`ReportFiles`. An actor is a process: the load that publishes, and the tools. A write is
two steps, the truncation and the rest, and the process may fail or die between them. A
report's content is the set of actors whose work it holds. Without a key for Gemini,
`analysisModel` has no model, and a load or a tool is done with the analysis left as it was
(`NoModel`); `bare` remembers who. The load is taken to have placed a call (without one
`writeCalls` writes no file, main.go 1077). The suite's analysis, written the same way after
the run's, and the chart, whose failure changes nothing, are left out.

## The runs

No run checks deadlock, because every one of these systems may stop: a load run that has
returned, with workers that are out of faults; a call that has ended; a session whose
caller has gone; files nobody touches any more. That none of them stops too early is what
the liveness properties are for.

| run | instance | shows |
|---|---|---|
| `redelivery` | 2 workers, 2 partitions, 2 calls on one of them, batches of up to 2, 2 faults; the topic is empty, or the other partition starts with an unreadable record, or the first with a call of an earlier run; workers are symmetric | `TypeOK`, `CommittedArePublished`, `NoCallIsLost`, `CommitsOnlyAdvance` |
| `accounting` | 1 worker, 2 steps (2 calls, then 1) with a window of 1 and a held third, both outcomes of a call, a foreign result and an unreadable one on the topic, deadlines, cancellation and failing requests, 1 fault | `WindowIsFull`, `OneOutcomePerCall`, `EveryResultIsCounted`, `FirstResultWins`, the ledger (`KeepsLedger`), and, with the fairness of the dispatcher alone, `RunEnds` |
| `progress` | 2 workers, 2 partitions with a call each, 2 faults, all fairness | `EveryCallIsAnswered`, `AssignmentsSettle` |
| `missing` | no faults, a deadline | violated: `MissingWereDispatched` |
| `overlap` | no faults, a deadline | violated: `OneStepAtATime` |
| `turns` | a greeting and 2 turns, the second interrupting, lines of 2 frames and 1, 4 messages of any kind, a queue of 2, 1 fault | `TypeOK`, `NoticeNeverBlocks`, `LineStaysInItsTurn`, `DriftOnlyWhenPlayed`, `OneTurnPerReply`, `InstantsInOrder` |
| `call_ends` | the same with an empty second line, 3 messages, 2 faults and fairness of the turn loop alone | `CallEnds` |
| `negative_yield` | no greeting, no faults, 3 messages | violated: `YieldFollowsCutIn` |
| `in_process` | a plain run with turn events, or a matrix of 2 cohorts on an interface found clean or not: 2 slots racing for 2 calls, then a held step; an agent session with a greeting, up to 3 utterances and 4 replies; a load run with 2 callers and a worker over one cache; 14 scenario files | `TypeOK`, `CallsAreAccountedFor`, `InterfaceIsAsTold`, `EventsAddUp`, `OneAnswerPerUtterance`, `OnlyAnInterruptionStopsAReply`, `WarmedLinesStayWarm`, `OnlyWritersDamageAnEntry`, `WalkFollowsTheScript`, `RunsAndSessionsEnd` |
| `reports` | a step placed here, by 2 callers, of 3 calls of up to 2 turns of 4 kinds, or one of 2 calls placed by the fleet; profiles of up to 3 steps, 1 impaired cohort; lines of up to 3 words, 3 calls judged on 2 criteria; a load, `-rejudge` and `-refresh`, each with a model for the analysis or without, with a dashboard reading, 1 fault | `FiguresAgree`, `PercentileIsNearestRank`, `VerdictsHold`, `GradesHold`, `PublicationIsSafe`, `ToolsInTurnKeepUp`, `EveryActorEnds` |
| `dropped_events` | as `in_process` | violated: `DropsDoNotEndTheRun` |
| `found_as_it_was` | as `in_process`, without faults or cancellation | violated: `InterfaceIsLeftAsFound` |

Bounds. A fault is a crash, eviction, revocation, failed request, timeout or signal. Two
of them suffice for the cases that matter: an eviction followed by a crash of the
successor, a failed commit followed by a second one, a timeout during a drain. One fault
already yields a duplicate and a straggler, which is what the accounting is about. Two
records in a batch tell a finished from an unfinished batch and a committed prefix from
the rest; two workers, a zombie from its successor. A window of one with two calls makes
the dispatcher wait, slide and refill, two steps give stragglers, and the third is refused
when its turn comes. What an earlier run leaves on the assignment topic of `redelivery` is
one record, at the head of a partition. The symmetry of the `redelivery` run is sound: no
definition names a worker and the run checks no liveness.

In a call four messages are a greeting's end and a reply with a transcript or a second
reply's start, enough for a reply to be cut short, to end late and to be followed by
another; a queue of two drops events that a queue of 256 drops in a longer call. Two
frames tell a line in the middle from its last frame, and one fault (an error of the agent,
a lost connection, a failed write, a cancelled call) suffices to end a call at any point.

`in_process` and `reports` each join four components that share no variable. `chosen`
picks one of them at the start and the others rest, so the instance is as large as the sum
of the four and not as their product; nothing is lost, since none of them reads another's
state. A budget of two with two slots has the race for its last call; one call of a held
step ends after its deadline or before; two cohorts are enough for a condition to outlive
its cohort and for the control to be another's baseline. Three utterances and four replies
let an interruption sleep through a whole reply and wake in the next. Two callers of one
process and one of another write a cache entry together; one crash or one refused request
is what damages it. The scenario files are accepted or refused for each of the reasons
`validate` knows, and loop, jump, check and interrupt. The turns of a step lie a hair past
a band's limit, are interrupted, wait too short a time for the log to keep, or are never
answered; the measures of a profile's steps pass, warn and fail on each limit. The two samples the code wants before
it compares, ten turns in a half (phase.go) and eight calls in a group (correlate.go), are
constants and are one and two here: the comparison is the same, and the instance reaches
it. Two calls of a step of the fleet are both reported, one of them, or neither. Two tools
and one fault are an edit lost, a report torn, or an analysis left stale.

Fairness. `accounting` assumes only that the dispatcher's own goroutine is scheduled and
that time passes: a poll returns within two seconds (distributed.go 139) and the deadline
comes. It assumes nothing of the broker: `Assign` waits for an acknowledgement with the
run's context and no limit of its own, and the deadline is not looked at while it waits
(distributed.go 130 and 173). So `RunEnds` has two outcomes. The dispatcher comes back, or
it stands for ever before an assignment that nobody acknowledges; no result, worker or
topic can hold it anywhere else. `progress` adds that the broker acknowledges, that a
worker process is scheduled and restarted (it is a Deployment), that a call ends (the
batch's context bounds it), and that the group gives a free partition to a member. No
fault is fair, and in `progress` the deadline is taken to be generous (`MayOverrun` is
false) and no assignment is unreadable. Each of the assumptions is needed: with a deadline
a step gives up, and one unreadable assignment stops its partition for good.

`call_ends` assumes that the turn loop's goroutine is scheduled and that its timers run
out, and nothing of the pump, whose writes may block for ever, or of the agent.
`in_process` assumes that a run's goroutines are scheduled and that a held step's deadline
comes. A call is taken to end only once the run is cancelled: what follows the handshake
ends by itself, which `call_ends` shows, but the handshake has no deadline (worker.go 295).
Of the broker nothing is assumed. The client keeps an event it cannot deliver, since no
delivery timeout is set, so the flush at the end of a run may wait; so may the goroutine
that publishes an event, when the client's buffer is full, which is ruled out only when it
holds no other (`TakesEvents`). `RunReturns` therefore says that a run comes back or waits
for a call or the broker and was not interrupted; an interrupt always brings it back. Of
the agent the run assumes that sleeps end and replies proceed, and nothing of the caller.
`reports` assumes that a process which is not dead proceeds. A provider that answers
"limited" for ever is allowed; that the attempts run out is what `EveryActorEnds` shows.

The violated properties quote the sources. `DispatchIntegrity.Missing` is documented as
"calls dispatched whose result never arrived" (integrity.go 32), and counts those the
window never let out too (distributed.go 179). "Steps still run one at a time, and a step
still holds exactly its concurrency in flight" (distributed.go 23) holds of what the
dispatcher counts, the subject of `WindowIsFull`, and not of what the fleet does: a step
that gives up leaves its assignments on the topic, and they are placed during the next.
`TurnMetric.BargeInYield` is "how long the agent kept talking after this turn's caller cut
in on it" (metrics.go 199). An interrupting turn keeps the queue, so the end of a reply
that came just before the line started is taken for a yield and measured below zero
(turn.go 179), which the report counts as an agent that never yielded (report.go 340).
`bus.Producer` says that "Telemetry must never be able to slow down the thing it measures,
so failures are counted and surfaced at the end of the run instead" (kafka.go 18). `fail`
stores each error in an `atomic.Value` (kafka.go 69), whose `Store` panics when the
value's concrete type differs from the one stored before. An event refused by the broker
and another that failed in the client are of different types, so the second one ends the
process, and the report of the whole run with it. `EventsAddUp` and the others speak of
runs that return. "Leave the interface as it was found, whatever happened to the run"
(main.go 313) is true of an interface that was found clean. The deferred restoration
applies the clean profile and nothing reads what was there before (main.go 319), so one
that was impaired when the run began is not impaired after it, and nobody is told
(`InterfaceIsLeftAsFound`). `InterfaceIsAsTold`, which holds, asks for less: no impairment
stays behind unsaid, and no call is placed under another condition than the report names.

Three more disagreements came up that no run is spent on. `warmCache` is said to
synthesise "every caller line" (run.go 200) and renders the nodes' own lines, so that a
branch's line is fetched during a call; `WarmedLinesStayWarm` is stated of the nodes'
lines. `backToNormal` measures an impaired cohort's recovery against that cohort's own
baseline (report.go 509), while the verdict on every impaired step is read against the
clean one (matrix.go 56). And a turn read back by `Rehydrate` is not quite
"indistinguishable" (metrics.go 288): the log keeps hundredths of a millisecond, so a
refresh can move a turn that was a hair past a limit into the quicker band, and only there,
and it drops a wait of under 5 microseconds (`RefreshKeepsTheFigures`).

What the models show the code to allow, and no document denies: the agent's watcher may
stop a reply it was not about (hence the wording of `OnlyAnInterruptionStopsAReply`); a
worker that does not warm, or a branch's line, may read a cache entry that is half
written; a process that dies while writing one, or whose write fails, leaves it for later
runs; a matrix whose second cohort fails drops the report of the first (matrix.go 76 and
82); a held step is refused only when its turn comes (distributed.go 48); an unreadable
assignment blocks its partition for good (dispatch.go 291); tools that overlap may undo
each other's edits; a tool without a model leaves an analysis that its edits made stale; and
`-rejudge` accepts the report of a matrix, whose step names repeat, though `-judge` refuses one (main.go 237).

## The proofs

`DistributedRunProofs` proves, for any number of workers, partitions, steps, calls and
faults and any contents of the topics that `LeftoverAssumption` allows:

| theorem | property |
|---|---|
| `TypeCorrect` | `TypeOK` |
| `CommitAfterPublish` | `CommittedArePublished` |
| `NothingLost` | `NoCallIsLost` |
| `WindowHeld` | `WindowIsFull` |
| `OffsetsNeverMoveBack` | `CommitsOnlyAdvance` |
| `OneOutcome` | `OneOutcomePerCall` |
| `AllCounted` | `EveryResultIsCounted` |
| `FirstWins` | `FirstResultWins` |
| `LedgerKept` | `KeepsLedger`: the run implements `CallLedger` |

The first five follow from one inductive invariant, `IInv`. None of the properties is inductive
alone. `CommittedArePublished` needs to know that a batch marked done has its results in
the topic and that the records of a partition the worker still owns follow its committed
offset without a gap (`BatchInv`). That in turn rests on rebalancing only in `Next`:
without it a partition could be lost and won back during a batch. `WindowIsFull`
needs the counters to agree with the set of answered calls (`WindowInv`), which holds
only because a result of this run and step names a call this step has dispatched
(`SentInv`). `NoCallIsLost` combines the two ends: what was dispatched is in the topic
(`DispatchedInv`), what is committed is published, and what was read was counted
(`ConsumedInv`).

The steps are grouped by what they do to the topics (`NextIsBusStep`, `TopicsGrow`), to
the step and its count (`StepMoves`), and to offsets (`OffsetMoves`, `CommitMoves`), so
that each part of the invariant is proved against a few facts and not against every action.
The assumptions used are those of `CallBus`, `Dispatcher` and `WorkerFleet`.

The accounts need a second invariant on top of it, `AInv`. `OneOutcomePerCall` speaks of
steps that are closed, so while a step is open `OutcomesInv` keeps what its closing will
need: the outcomes filed are as many as the results received, each of another call, and
all of calls counted as answered. `CloseStep` then adds a placeholder for each of the
rest, and the count comes out because `WindowInv` bounds the answered by the dispatched.
`FirstResultWins` rests on the topic only growing, so that the first result of a call
stays the first. `EveryResultIsCounted` compares the counters with the number of the
run's records the dispatcher has read (`Mine`, a set of positions), which a step of the
read position extends by one or none.

`LedgerKept` maps the run to `CallLedger`: a call is sent when the window lets it out,
placed when its result is published, heard when its first result is counted, and the
ledger's step closes when the report gets its entry. The named operators of the mapping in
`DistributedRun` (`CallsIn`, `CallsSent`, `CallsPlaced`, `CallsHeard`, `StepsClosed`)
are each shown to change by the one call a step is about, or not at all; a redelivered
batch, a late result and a second result are stutters of the ledger.

`LocalRunProofs` proves the safety of a run in one process, for any list of steps, any
number of slots and cohorts, and any interleaving of slots, clock, cancellation and
broker callbacks:

| theorem | property |
|---|---|
| `RunTyped` | `LocalTypeOK` |
| `CallsAccountedFor` | `CallsAreAccountedFor` |
| `InterfaceAsTold` | `InterfaceIsAsTold` |
| `EventsAccountedFor` | `EventsAddUp` |

`BudgetInv` is the heart of the first: while a step runs, a call it placed is in a slot or
among the outcomes, and its budget is what it has not placed, although the counter
itself goes on falling below zero with each slot that asks in vain. `AheadInv` and
`PastInv` carry this over the steps of a matrix, whose keys must be told apart, which is
why the cohorts are assumed not to repeat a name. `ReportedInv` says that the report lags
behind by at most the step that runs. `NetInv` follows the interface through change,
check and restoration. `LedgerInv` balances the turn events produced, dropped and in flight
against the turns of the calls reported so far, and `FiguresInv` the figures the report
quotes, read one after the other while callbacks may still come. Their sum is a fold over
the report's keys, and that it changes by the one entry that changes
(`SumChanges`) is proved in the module, from the fold's definition, by unrolling it and by
the least counterexample among the sizes of sets (`Unrolls`, `FirstInduction`). The
conditions of the network are a constant, `Conditions`: the interface holds one of them
when the run finds it.

`CallTurnProofs` proves every safety property of a call, for any number of turns, lines of
any length (empty ones too), any queue capacity and any number of messages and faults:

| theorem | property |
|---|---|
| `TypesHold` | `TypeOK` |
| `NoticesNeverBlock` | `NoticeNeverBlocks` |
| `LinesStayInTheirTurn` | `LineStaysInItsTurn` |
| `DriftMeansPlayed` | `DriftOnlyWhenPlayed` |
| `RepliesAreMeasuredOnce` | `OneTurnPerReply` |
| `InstantsKeepTheirOrder` | `InstantsInOrder` |

Its invariant has two halves. `PumpInv` is about the caller's voice: a turn that has not
begun is blank and its channel is in nobody's hands (`PhaseInv`); a channel that may still
be told is empty (`ChannelInv`); and while the caller speaks, the frames queued, in flight
and written add up to the line, so that a notice means the line was written whole unless
the loop itself cut it short, after which `speaking` is false and the notice measures
nothing (`FrameInv`). `OrderInv` is about what is measured: the queue is ordered by stamp
and, for the events that begin and end replies, by reply (`QueueInv`), and everything a
turn has measured comes before everything still to come (`MeasureInv`). Both need to look
at what the reader has stamped but not yet offered to the queue, and at what the next
stamp can be: the instant of an audible event is that of its reply's first audio, so it
may lie before stamps taken earlier. This is why `Before` exempts it, and why it is only
ever compared with its own reply.

The steps are grouped here too: by what they do to the pump (`QuietStep`, `CutStep`,
`PumpStep`), and into arrivals, emissions, takes and the rest (`ArrivalStep`, `EmitStep`,
`TakeStep`, `KeepStep`). The assumptions used are those of `CallerPump`, `AgentStream` and
`CallTurn`.

Seven smaller machines are proved about on their own, as `AgentSpec`, `FilesSpec`,
`CacheSpec`, `WalkSpec`, `MeasuresSpec`, `VerdictsSpec` and `GradingSpec`; the runs check
them side by side, where none of them touches another's variables.

| theorem | property | for any |
|---|---|---|
| `ConversationProofs!UtterancesAreAnsweredOnce` | `OneAnswerPerUtterance` | number of utterances and replies, settings of the agent |
| `ConversationProofs!RepliesStopForAReason` | `OnlyAnInterruptionStopsAReply` | the same |
| `ReportFilesProofs!RunsArePublishedWhole` | `PublicationIsSafe` | tools, attempts and faults |
| `ReportFilesProofs!ToolsInTurn` | `ToolsInTurnKeepUp` | tools, each run once, with a model or without, in any order, one after another and without faults |
| `SpeechCacheProofs!DamageHasAWriter` | `OnlyWritersDamageAnEntry` | processes, callers, sentences, lines, crashes and failed requests and writes |
| `SpeechCacheProofs!WarmingIsEnough` | `WarmedLinesStayWarm` | the same |
| `ConversationProofs!ScriptIsFollowed` | `WalkFollowsTheScript` | scenario files, replies, numbers of turns |
| `StepMeasuresProofs!FiguresHold` | `FiguresAgree` | callers, kinds of turn, numbers of calls and turns, of steps placed here or by the fleet |
| `StepMeasuresProofs!RanksHold` | `PercentileIsNearestRank` | the same |
| `ReportProofs!ReportsHold` | `VerdictsHold` | profiles, cohorts, measures, verdicts of the judge |
| `ReportProofs!GradingHolds` | `GradesHold` | lines, transcripts, logs, answers, criteria, sizes of the sample |

Of a session (`ConversationProofs`), `FlagInv` says that while the stop flag is up or a watcher
sleeps, the reply being spoken is among the exposed ones; `AnswerInv` relates replies
launched to utterances, which needs to know that the greeting comes before the first of
them and that an utterance the agent barged in on is not yet answered; `WatcherInv` bounds
the watchers by the utterances. That a launch takes a fresh reply rests on the least of a
set of numbers.

Of the files (`ReportFilesProofs`), `PlaceInv` says which steps each actor goes through,
`LoadInv` that the load has made whole every file it is past and that nobody sees a report
before the rename, and `ToolInv` that a tool, and the reader of an archive, begins only
where there is a report. The order of `runLoad` is what carries it: with the rename first,
`LoadInv` fails at its first step. `ToolsInTurn` speaks of runs in which no two tools were
at work together and nothing failed. Its invariant, `TurnInv`, is about what is on disk
when nobody is at work (`Settled`: the report has every edit the judgements' file and the
tools that are done ask for, and the analysis is of that report but for the edits of tools
that had no model since, `AnalysisKeepsUp`) and about how much of that whoever is at work
has in memory at each of its steps (`AtWork`).

Of the cache (`SpeechCacheProofs`), `DamageInv` adds that who opens or writes an entry has
a whole answer in hand, which is why `fetch`'s error on a short body matters; whoever
stops between the truncation and the last byte, dead or with a failed write, is in
`spoiled`. `WarmInv`
follows a process through its warming: its first caller alone is active, every sentence up
to the one it is at is in memory, so at the last line's end all are, and since only a death
empties the memory, and sends the process back to warm, no later call misses one.

Of the walk (also `ConversationProofs`), `TurnsInv` says of every turn taken that it is at the
node the turn before it led to, and `NextInv` where the call stands and what it has armed
for the turn to come, which is what the next turn will be compared with. A turn that
failed ends the walk, so `NextInv` is only asked for while none has. That a branch leads
to a node of the file rests on `validate` having looked up every `goto` in a file that is
played (`ScriptInv`); that a file without branches is played straight through, on no
`Jump` being possible in it.

Of the measures (`StepMeasuresProofs`), `MeasuresInv` says of a step that was placed here
that the live metrics have counted every turn taken so far, of calls that ended and of calls in progress, and the
collector every turn of the calls that ended: by outcome, and for every bound `v`, the
waits up to `v`. It is the last that makes samples comparable. The code sorts them at
different times and from different loops, but two samples with as many values up to every
bound sort alike (`SameSorts`), and so have the same percentiles (`SameSummaries`);
`SortedIsASort` shows that the sorted copy is what `sort.Slice` promises. It holds at every
moment, while `FiguresAgree` compares the readers when no call is in progress (`AtRest`).
The report's figures follow by counting. Whatever splits the turns of a step into parts,
by band, by turn number, by node, by call or by half, has parts whose sizes add up
(`TotalOfParts`, an induction over the subsets of a finite set proved in the module); for
the halves and the timeline the parts are ranks, and that `ByStart` gives each call one
rank (`EachInItsPlace`) needs that no two of the calls with a time begin at once. That is
in `CallsInv` of a step placed here, and in `FleetInv` of one placed by the fleet, which
also says that the calls without a time are as many as the step is missing, failed and
without turns, so that leaving them out of the timeline loses no figure (`Placed`). For
the refresh, `RoundTo` moves a wait to a multiple of ten and never up past a band's limit,
because the limits are such multiples themselves (`WrittenWaits`, `KindsHeard`). That
`Percentile`'s ceiling picks the least value that p hundredths of the values do not exceed
is `NearestRank`; that rounding keeps the order of a summary's figures is `RoundingRises`.
Of the turns only the types are assumed, and that the callers are finitely many.

Of the verdicts (`ReportProofs`), `SpeedInv` says that every verdict, of every cohort, is
the one on its step's measures against the control's baseline. It is needed because the
properties compare steps across cohorts, scored at different times: the control is scored
against the run it has just finished, the others against what the control stored, and
`Control` is the same of both. `QualityInv` says what the judge's later rescoring must
leave alone. The arithmetic is that the rounded ratio rises with the time measured
(`RatiosRise`) and is one against itself (`SpeedOfItself`). Names are unique in a profile
that was loaded, so the first step with the baseline's name is the baseline
(`BaselineIsTheStep`); a run that was interrupted before it came to the baseline has
`Nothing` in its place. Of the measures the proof assumes only their types, and that no
more calls connected than were attempted.

Of the grading (also `ReportProofs`), `GInv` says which calls the verdicts so far are on:
the ones of the sample with the lowest places in the log, in that order, each the judgement
of an answer on its own call (`TakenInOrder`), and that the labels are the verdicts with
one outcome turned (`OneCorrected`). Joining by step and request id then finds, for each
call, its own verdict and no other, and the counts add up by cardinalities of disjoint
sets. It rests on a request id being that of one call. That `align` counts the fewest
errors is about the table alone. Its recursion is over pairs of positions, so the library's
induction does not apply; `CellInduction` and `CellRecursion` say, by a least
counterexample in the sum of the two positions, that a property carried from a cell's
neighbours to the cell holds of all, and that the table exists. `DistanceIsCheapest` shows
each cell to be the least cost of a pairing of its two prefixes: a pairing pairs the two
last words with each other or leaves one of them out (`PairLast`), at the cost that
`PairMore` and `PairNoMore` state, and that taking equal last words without looking further is no loss needs
`DistanceIsNear`, neighbouring cells differing by one at most. `EditsAddUp` follows the walk
back from the corner and shows its three counts to sum to that distance. No bound on words
or calls is used.

Only model-checked:

- `MCLocalRun!TypeOK`, which joins the types of three modules; each of the three is proved
  (`RunTyped`, `SessionTypes`, `CacheTypes`).
- The liveness properties (`RunEnds`, `EveryCallIsAnswered`, `AssignmentsSettle`, `CallEnds`,
  `RunsAndSessionsEnd`, `EveryActorEnds`), which are out of the prover's reach.

## The plan

Every safety property a run checks is proved. Left to model, in this order:

1. the collector's consumer group, on the group of `WorkerFleet`;
2. the handshake's loop;
3. the figures the digest derives from the calls, as one more reader in `StepMeasures`.

## Not modelled

- Words and audio: transcripts, the drift between what was said and heard, signal
  processing, prompts, the wording of reports and analyses, the verification of a claim's
  text.
- `insights` derives statistics of its own from a calls log (digest.go 219 to 309), which
  the analysis quotes; they are sums like those of `StepMeasures` and are not compared
  with them.
- The collector beyond its sums: its consumer group, the lag it reports, its clock.
- Of a call: the dial, the handshake, and the ping loop, which only measures.
- Of the dashboard: its pages, the listing of runs, the single files and the static export.
  It keeps no state between requests.
- Topic creation and widening, administrative calls made once before the run.
- Drawing of charts, environment files, the fake broker of the tests, static pages.
