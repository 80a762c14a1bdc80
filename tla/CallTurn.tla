----------------------------- MODULE CallTurn -----------------------------
(***************************************************************************)
(* One call: the turn loop of a synthetic caller, between the pump that    *)
(* speaks for it and the stream of what the agent does.                    *)
(***************************************************************************)
EXTENDS CallerPump, AgentStream

CONSTANTS
    Greets,    \* the scenario's agent speaks first
    Barging,   \* turns whose line interrupts the reply before it
    MaxFaults  \* bound on what may go wrong during the call

(* Scenario.Validate: the first line has nothing to interrupt. *)
ASSUME TurnAssumption ==
    /\ Greets \in BOOLEAN
    /\ Barging \subseteq Turns \ {1}
    /\ MaxFaults \in Nat

VARIABLES
    phase,       \* where the turn loop stands
    turn,        \* the turn in progress; NoTurn during the greeting
    speaking,    \* the caller is still saying this turn's line
    armed,       \* the interrupt timer runs
    metrics,     \* [Turns -> what the turn measured]
    greeted,     \* the reply that was taken for the greeting
    cancelled,   \* the call's context is cancelled
    faults       \* faults so far, a bound and not part of the call

turnVars == <<phase, turn, speaking, armed, metrics, greeted, cancelled>>
vars == <<pumpVars, streamVars, turnVars, faults>>

None == "none"
Failures == {None, "timeout", "broken"}

(* A stamp of 0 was never taken, but for callerStart, which is set once    *)
(* the turn has begun.  reply: whose first audio was measured.  natural:   *)
(* the pacing drift was measured.                                          *)
Metric == [callerStart : 0..MaxMessages, heard : 0..MaxMessages,
           firstAudio : 0..MaxMessages, reply : 0..MaxMessages,
           audible : 0..MaxMessages,
           yield : 0..MaxMessages, yielded : BOOLEAN, natural : BOOLEAN,
           played : BOOLEAN, fail : Failures]

Unmeasured == [callerStart |-> 0, heard |-> 0, firstAudio |-> 0, reply |-> 0,
               audible |-> 0, yield |-> 0, yielded |-> FALSE, natural |-> FALSE,
               played |-> FALSE, fail |-> None]

TurnTypeOK ==
    /\ phase \in {"greeting", "drain", "start", "collect", "playout", "over"}
    /\ turn \in {NoTurn} \cup Turns
    /\ speaking \in BOOLEAN
    /\ armed \in BOOLEAN
    /\ metrics \in [Turns -> Metric]
    /\ greeted \in 0..MaxMessages
    /\ cancelled \in BOOLEAN
    /\ faults \in 0..MaxFaults

TurnInit ==
    /\ phase = IF Greets THEN "greeting" ELSE "drain"
    /\ turn = IF Greets THEN NoTurn ELSE 1
    /\ speaking = FALSE
    /\ armed = FALSE
    /\ metrics = [t \in Turns |-> Unmeasured]
    /\ greeted = 0
    /\ cancelled = FALSE
    /\ faults = 0

-----------------------------------------------------------------------------
(* awaitGreeting *)

Receive(kinds) ==
    /\ events # <<>>
    /\ Head(events).kind \in kinds
    /\ events' = Tail(events)
    /\ UNCHANGED <<clock, replies, reply, listening, stamped, reading>>

GreetingHeard ==
    /\ phase = "greeting"
    /\ Receive({"AudioDone"})
    /\ greeted' = Head(events).reply
    /\ phase' = "playout"
    /\ UNCHANGED <<turn, speaking, armed, metrics, cancelled, pumpVars>>

GreetingContinues ==
    /\ phase = "greeting"
    /\ Receive({"FirstAudio", "Audible"} \cup TextKinds)
    /\ UNCHANGED <<turnVars, pumpVars>>

(* An error of the agent or the pump, a closed queue, the context, or the  *)
(* timer, which may fire whenever the others may.                          *)
GreetingFails ==
    /\ phase = "greeting"
    /\ phase' = "over"
    /\ UNCHANGED <<turn, speaking, armed, metrics, greeted, cancelled, pumpVars, streamVars>>

-----------------------------------------------------------------------------
(* runTurn *)

(* What is queued belongs to the turn before, which an interrupting turn   *)
(* wants to hear the end of.                                               *)
Drain ==
    /\ phase = "drain"
    /\ events' = IF turn \in Barging THEN events ELSE <<>>
    /\ phase' = "start"
    /\ UNCHANGED <<turn, speaking, armed, metrics, greeted, cancelled, pumpVars,
                   clock, replies, reply, listening, stamped, reading>>

StartSpeaking ==
    /\ phase = "start"
    /\ metrics' = [metrics EXCEPT ![turn].callerStart = clock]
    /\ Speak(turn)
    /\ speaking' = TRUE
    /\ armed' = FALSE
    /\ phase' = "collect"
    /\ UNCHANGED <<turn, greeted, cancelled, streamVars>>

(* Slip: every notice is taken for the end of the line. *)
FellSilentAgain(m, natural) == [m EXCEPT !.natural = natural]

(* The metric after the caller fell silent; only the first time counts. *)
FellSilent(m, natural) == IF speaking THEN [m EXCEPT !.natural = natural] ELSE m

Current == metrics[turn]
Measure(m) == metrics' = [metrics EXCEPT ![turn] = m]

LineIsOver ==
    /\ phase = "collect"
    /\ notices[turn] > 0
    /\ notices' = [notices EXCEPT ![turn] = @ - 1]
    /\ Measure(FellSilent(Current, TRUE))
    /\ speaking' = FALSE
    /\ UNCHANGED <<line, queued, done, inFlight, said, pumpOn, pumpErr, streamVars,
                   phase, turn, armed, greeted, cancelled>>

(* Interrupt the caller's own line, if it is not over. *)
FallSilent ==
    /\ speaking' = FALSE
    /\ IF speaking THEN Clear ELSE UNCHANGED pumpVars

(* Slip: the last transcript counts, also after the agent's audio. *)
HearUserAnyTime ==
    /\ phase = "collect"
    /\ Receive({"UserTranscript"})
    /\ Measure([Current EXCEPT !.heard = Head(events).at])
    /\ UNCHANGED <<phase, turn, speaking, armed, greeted, cancelled, pumpVars>>

(* STT finalises fragments as the caller speaks: the last one before the   *)
(* agent's audio is the one that counts.                                   *)
HearUser ==
    /\ phase = "collect"
    /\ Receive({"UserTranscript"})
    /\ Measure([Current EXCEPT !.heard =
                    IF Current.firstAudio = 0 THEN Head(events).at ELSE @])
    /\ UNCHANGED <<phase, turn, speaking, armed, greeted, cancelled, pumpVars>>

(* The agent's text is kept elsewhere; notices are not looked at. *)
HearText ==
    /\ phase = "collect"
    /\ Receive(TextKinds \ {"UserTranscript"})
    /\ UNCHANGED <<turnVars, pumpVars>>

HearFirstAudio ==
    /\ phase = "collect"
    /\ Receive({"FirstAudio"})
    /\ Measure([Current EXCEPT
            !.firstAudio = IF @ = 0 THEN Head(events).at ELSE @,
            !.reply = IF @ = 0 THEN Head(events).reply ELSE @,
            !.yielded = @ \/ speaking])
    /\ armed' = (armed \/ (Current.firstAudio = 0 /\ turn + 1 \in Barging))
    /\ FallSilent
    /\ UNCHANGED <<phase, turn, greeted, cancelled>>

HearAudible ==
    /\ phase = "collect"
    /\ Receive({"Audible"})
    /\ Measure([Current EXCEPT !.audible =
                    IF Current.firstAudio # 0 /\ @ = 0 THEN Head(events).at ELSE @])
    /\ UNCHANGED <<phase, turn, speaking, armed, greeted, cancelled, pumpVars>>

(* Without audio of this turn's own, the end of a reply is that of the     *)
(* reply an interrupting line cut in on, and a stray on any other turn.    *)
HearYield ==
    /\ phase = "collect"
    /\ Receive({"AudioDone"})
    /\ Current.firstAudio = 0
    /\ Measure([Current EXCEPT !.yield =
                    IF turn \in Barging /\ @ = 0 THEN Head(events).at ELSE @])
    /\ UNCHANGED <<phase, turn, speaking, armed, greeted, cancelled, pumpVars>>

(* Slip: the turn ends with its line still queued. *)
LeaveTalking(m) ==
    /\ Measure(m)
    /\ phase' = "playout"
    /\ UNCHANGED <<turn, speaking, armed, greeted, cancelled, pumpVars>>

(* Leaving the loop with metric m: what is left of the line is dropped. *)
Leave(m) ==
    /\ Measure(m)
    /\ FallSilent
    /\ phase' = "playout"
    /\ UNCHANGED <<turn, armed, greeted, cancelled>>

ReplyIsOver ==
    /\ phase = "collect"
    /\ Receive({"AudioDone"})
    /\ Current.firstAudio # 0
    /\ Leave([Current EXCEPT !.played = TRUE])

HearError ==
    /\ phase = "collect"
    /\ Receive({"ServerError"})
    /\ Leave([Current EXCEPT !.fail = "broken"])

Interrupt ==
    /\ phase = "collect"
    /\ armed
    /\ Leave(Current)
    /\ UNCHANGED streamVars

(* Slip: the timer is parked until the pump reports. *)
DeadlineAfterLine ==
    /\ phase = "collect"
    /\ ~speaking
    /\ Leave([Current EXCEPT !.fail = "timeout"])
    /\ UNCHANGED streamVars

(* The timer, set to a backstop while the line is spoken and to the turn's *)
(* timeout after it, may run out at any time.                              *)
Deadline ==
    /\ phase = "collect"
    /\ Leave([Current EXCEPT !.fail = "timeout"])
    /\ UNCHANGED streamVars

(* The queue is closed and empty, the pump has failed, or the context has  *)
(* been cancelled.                                                         *)
BreakOff ==
    /\ phase = "collect"
    /\ (~reading /\ events = <<>>) \/ pumpErr \/ cancelled
    /\ Leave([Current EXCEPT !.fail = "broken"])
    /\ UNCHANGED streamVars

(* The playout of the reply, or the greeting, has ended or the context     *)
(* has; a turn without a whole reply has none.  Run then goes on with the  *)
(* next line, unless the turn failed for more than a timeout.              *)
EndTurn ==
    /\ phase = "playout"
    /\ IF turn = NumTurns
          \/ (turn # NoTurn /\ Current.fail = "broken")
       THEN phase' = "over" /\ turn' = turn
       ELSE phase' = "drain" /\ turn' = turn + 1
    /\ UNCHANGED <<speaking, armed, metrics, greeted, cancelled, pumpVars, streamVars>>

-----------------------------------------------------------------------------
LoopStep ==
    \/ GreetingHeard \/ GreetingContinues
    \/ Drain \/ StartSpeaking \/ EndTurn
    \/ LineIsOver \/ ReplyIsOver \/ BreakOff
    \/ HearUser \/ HearText \/ HearFirstAudio \/ HearAudible \/ HearYield \/ HearError

TimerFires == GreetingFails \/ Interrupt \/ Deadline

(* Whoever started the call gives it up. *)
Cancel ==
    /\ ~cancelled
    /\ cancelled' = TRUE
    /\ pumpOn' = FALSE
    /\ UNCHANGED <<line, queued, done, inFlight, said, notices, pumpErr, streamVars,
                   phase, turn, speaking, armed, metrics, greeted>>

Init == PumpInit /\ StreamInit /\ TurnInit

(* What may go wrong: the agent reports an error, the connection ends, a   *)
(* write fails, the call is given up.                                      *)
Fault ==
    /\ faults < MaxFaults
    /\ faults' = faults + 1
    /\ \/ ReadText("ServerError") /\ UNCHANGED <<pumpVars, turnVars>>
       \/ StopReading /\ UNCHANGED <<pumpVars, turnVars>>
       \/ WriteFails /\ UNCHANGED <<streamVars, turnVars>>
       \/ Cancel

(* A call that is over hangs up; nothing is observed of it any more. *)
Next ==
    /\ phase # "over"
    /\ \/ /\ \/ LoopStep
             \/ TimerFires
             \/ PumpNext /\ UNCHANGED <<streamVars, turnVars>>
             \/ StreamNext /\ UNCHANGED <<pumpVars, turnVars>>
          /\ UNCHANGED faults
       \/ Fault

Spec == Init /\ [][Next]_vars

(* The turn loop is scheduled and its timers run out.  Nothing is assumed  *)
(* of the pump, whose writes may block, or of the agent.                   *)
FairSpec ==
    /\ Spec
    /\ WF_vars(LoopStep /\ UNCHANGED faults)
    /\ WF_vars(GreetingFails /\ UNCHANGED faults)
    /\ WF_vars(Deadline /\ UNCHANGED faults)

-----------------------------------------------------------------------------
(* Every variable keeps its type: queues stay within their capacity. *)
TypeOK == PumpTypeOK /\ StreamTypeOK /\ TurnTypeOK

(* "Buffered, so this never blocks": whoever is about to tell a channel    *)
(* that its line is over finds it empty.  clear sends with the pump's lock *)
(* held, so a full channel would stop the pump and the turn loop for good. *)
NoticeNeverBlocks ==
    /\ HasRoom(done)
    /\ HasRoom(inFlight.finished)
    /\ done # NoTurn => done # inFlight.finished

(* A line is spoken in its own turn or not at all: nothing of it is left   *)
(* in the queue once the caller fell silent or the turn ended, so that it  *)
(* cannot play into the next turn.                                         *)
LineStaysInItsTurn ==
    queued > 0 => phase = "collect" /\ speaking /\ line = turn

(* Pacing drift is measured only on a line that was written to its last    *)
(* frame, though notices of lines cut short arrive on the same channel.    *)
DriftOnlyWhenPlayed ==
    \A t \in Turns : metrics[t].natural => said[t] = Frames[t]

(* No reply is measured by two turns, and none by a turn before the one    *)
(* that measured an earlier reply; the greeting is measured by no turn.    *)
OneTurnPerReply ==
    \A t \in Turns : metrics[t].reply # 0 =>
        /\ greeted < metrics[t].reply
        /\ \A u \in 1..(t - 1) : metrics[u].reply < metrics[t].reply

(* The instants of a turn are in order, whatever was queued, dropped or    *)
(* late: the line was heard, and the interrupted reply fell silent, before *)
(* the turn's own reply began, and its first sound came after that.        *)
InstantsInOrder ==
    \A t \in Turns : LET m == metrics[t] IN
        /\ m.firstAudio # 0 => m.heard < m.firstAudio /\ m.yield < m.firstAudio
        /\ m.audible # 0 => m.firstAudio # 0 /\ m.firstAudio <= m.audible

(* A call comes to its end although the agent falls silent, keeps talking  *)
(* or hangs up and the pump is stuck in a write.                           *)
CallEnds == <>(phase = "over")

-----------------------------------------------------------------------------
(* TurnMetric.BargeInYield, as its comment words it: "how long the agent   *)
(* kept talking after this turn's caller cut in on it", so the end of a    *)
(* reply that was cut short is stamped after the interrupting line began.  *)
YieldFollowsCutIn ==
    \A t \in Barging :
        LET cut == metrics[t - 1] IN
        /\ cut.firstAudio # 0 /\ ~cut.played /\ cut.fail = None
        /\ metrics[t].yield # 0
        => metrics[t].yield > metrics[t].callerStart
===========================================================================
