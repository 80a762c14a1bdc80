-------------------------- MODULE CallTurnProofs --------------------------
(***************************************************************************)
(* Proofs about CallTurn, for any number of turns, lines of any length,    *)
(* any capacity of the queue and any number of messages and faults.        *)
(***************************************************************************)
EXTENDS CallTurn, SequenceTheorems, TLAPS

-----------------------------------------------------------------------------
(* The inductive invariant, part by part.                                  *)

(* Turn t has not spoken yet. *)
HasNotBegun(t) ==
    \/ t > turn
    \/ t = turn /\ phase \in {"greeting", "drain", "start"}

(* The loop speaks and listens in a turn; before that the turn is blank    *)
(* and its channel is not in anybody's hands.                              *)
PhaseInv ==
    /\ phase \in {"drain", "start", "collect"} => turn \in Turns
    /\ speaking => phase = "collect"
    /\ \A t \in Turns : HasNotBegun(t) =>
           /\ notices[t] = 0 /\ said[t] = 0
           /\ line # t /\ inFlight.line # t /\ inFlight.finished # t
           /\ metrics[t] = Unmeasured

(* The channel is held by the pump while the caller speaks, and whoever    *)
(* holds it finds it empty.                                                *)
ChannelInv ==
    /\ NoticeNeverBlocks
    /\ done # NoTurn => speaking /\ done = turn
    /\ queued > 0 => done # NoTurn
    /\ inFlight.finished # NoTurn => inFlight.finished = inFlight.line

(* Every frame of the line being spoken is in the queue, in flight or      *)
(* written, unless a write failed; a notice means that all are written.    *)
FrameInv ==
    /\ pumpErr => ~pumpOn /\ inFlight = NoFrame
    /\ speaking =>
           /\ line = turn
           /\ ~pumpErr =>
                  said[turn] + (IF inFlight.line = turn THEN 1 ELSE 0) + queued
                      = Frames[turn]
           /\ notices[turn] > 0 =>
                  said[turn] = Frames[turn] /\ inFlight.line # turn /\ queued = 0
           /\ inFlight.finished = turn => queued = 0
    /\ \A t \in Turns : metrics[t].natural =>
           /\ said[t] = Frames[t]
           /\ inFlight.line # t
           /\ line = t => queued = 0

PumpInv == PhaseInv /\ ChannelInv /\ FrameInv

(* Event d was stamped before event e.  The instant of an audible event    *)
(* may lie before that of others, but not before a reply's first audio.    *)
Before(d, e) ==
    /\ d.kind # "Audible" /\ e.kind # "Audible" => d.at < e.at
    /\ d.kind = "FirstAudio" => d.at <= e.at
    /\ d.kind \in {"FirstAudio", "AudioDone"} /\ e.kind = "FirstAudio" =>
           d.reply < e.reply

(* Replies whose first audio has been stamped. *)
Begun == IF reply = 0 THEN replies ELSE replies + 1

(* Event d is before whatever is stamped next. *)
Old(d) ==
    /\ d.at <= clock
    /\ d.kind = "FirstAudio" => d.reply <= Begun /\ (reply # 0 => d.at <= reply)
    /\ d.kind = "AudioDone" => d.reply <= replies

QueueInv ==
    /\ \A i \in 1..Len(events) : Old(events[i])
    /\ \A i \in 1..Len(stamped) : Old(stamped[i])
    /\ \A i, j \in 1..Len(events) : i < j => Before(events[i], events[j])
    /\ \A i, j \in 1..Len(stamped) : i < j => Before(stamped[i], stamped[j])
    /\ \A i \in 1..Len(events), j \in 1..Len(stamped) : Before(events[i], stamped[j])

(* What a turn has measured, m, is before event e. *)
Passed(m, e) ==
    /\ e.kind # "Audible" => m.heard < e.at /\ m.yield < e.at /\ m.firstAudio < e.at
    /\ m.firstAudio <= e.at
    /\ e.kind = "FirstAudio" => m.reply < e.reply

(* What a turn has measured is before whatever is stamped next. *)
Past(m) ==
    /\ m.heard <= clock /\ m.yield <= clock /\ m.firstAudio <= clock
    /\ reply # 0 => m.firstAudio <= reply
    /\ m.reply <= Begun

MeasureInv ==
    /\ \A t \in Turns :
           /\ Past(metrics[t])
           /\ \A i \in 1..Len(events) : Passed(metrics[t], events[i])
           /\ \A i \in 1..Len(stamped) : Passed(metrics[t], stamped[i])
    /\ phase = "greeting" => turn = NoTurn
    /\ greeted <= replies
    /\ \A i \in 1..Len(events) : events[i].kind = "FirstAudio" => greeted < events[i].reply
    /\ \A i \in 1..Len(stamped) : stamped[i].kind = "FirstAudio" => greeted < stamped[i].reply

OrderInv == QueueInv /\ MeasureInv /\ InstantsInOrder /\ OneTurnPerReply

IInv == TypeOK /\ PumpInv /\ OrderInv

-----------------------------------------------------------------------------
(* Types *)

(* What is stamped is an event, and a turn begins without measurements. *)
LEMMA EventTypes ==
    /\ \A kind \in {"FirstAudio", "Audible", "AudioDone", "ServerError"} \cup TextKinds,
          at \in Stamps :
           replies + 1 \in Stamps => Stamp(kind, at) \in Event
    /\ Unmeasured \in Metric
<1>1. MaxMessages \in Nat
  BY StreamAssumption
<1>2. QED
  BY <1>1 DEF Stamp, Event, Stamps, Unmeasured, Metric, Failures, None

(* The types hold when the call begins. *)
LEMMA InitTypes == Init => TypeOK
<1>1. MaxMessages \in Nat /\ EventsCap \in Nat /\ NumTurns \in Nat \ {0}
      /\ MaxFaults \in Nat /\ Greets \in BOOLEAN
  BY StreamAssumption, PumpAssumption, TurnAssumption
<1>2. Unmeasured \in Metric
  BY EventTypes
<1>3. SUFFICES ASSUME Init PROVE TypeOK
  OBVIOUS
<1>4. PumpTypeOK
  <2>1. said \in [Turns -> Nat] /\ notices \in [Turns -> 0..1]
    BY <1>3 DEF Init, PumpInit
  <2>2. inFlight \in [line : {NoTurn} \cup Turns, finished : {NoTurn} \cup Turns]
    BY <1>3 DEF Init, PumpInit, NoFrame
  <2>3. QED
    BY <1>3, <2>1, <2>2 DEF Init, PumpInit, PumpTypeOK
<1>5. StreamTypeOK
  <2>1. stamped \in Seq(Event) /\ Len(stamped) = 0 /\ events \in Seq(Event) /\ Len(events) = 0
    BY <1>3, EmptySeq DEF Init, StreamInit
  <2>2. clock = 0 /\ replies = 0 /\ reply = 0
    BY <1>3 DEF Init, StreamInit
  <2>3. listening \in BOOLEAN /\ reading \in BOOLEAN
    BY <1>3 DEF Init, StreamInit
  <2>4. QED
    BY <1>1, <2>1, <2>2, <2>3 DEF StreamTypeOK
<1>6. TurnTypeOK
  <2>1. metrics \in [Turns -> Metric]
    BY <1>2, <1>3 DEF Init, TurnInit
  <2>2. 1 \in Turns
    BY <1>1 DEF Turns
  <2>3. phase \in {"greeting", "drain"} /\ turn \in {NoTurn, 1}
    BY <1>3 DEF Init, TurnInit
  <2>4. speaking \in BOOLEAN /\ armed \in BOOLEAN /\ cancelled \in BOOLEAN
    BY <1>3 DEF Init, TurnInit
  <2>5. greeted = 0 /\ faults = 0
    BY <1>3 DEF Init, TurnInit
  <2>6. QED
    BY <1>1, <2>1, <2>2, <2>3, <2>4, <2>5 DEF TurnTypeOK
<1>7. QED
  BY <1>4, <1>5, <1>6 DEF TypeOK

(* The pump's own steps keep its types. *)
LEMMA PumpTypes ==
    ASSUME PumpTypeOK, NoticeNeverBlocks, PumpNext \/ WriteFails \/ Clear
    PROVE  PumpTypeOK'
<1>1. CASE NextFrame
  BY <1>1 DEF PumpTypeOK, NextFrame, NoTurn, NoFrame
<1>2. CASE WriteFrame
  <2>1. said' \in [Turns -> Nat]
    <3>1. ASSUME NEW t \in Turns
          PROVE  [said EXCEPT ![inFlight.line] = @ + 1][t] \in Nat
      <4>1. said[t] \in Nat /\ said[t] + 1 \in Nat
        BY DEF PumpTypeOK
      <4>2. QED
        BY <4>1 DEF PumpTypeOK
    <3>2. QED
      BY <1>2, <3>1 DEF PumpTypeOK, WriteFrame
  <2>2. notices' \in [Turns -> 0..1]
    BY <1>2 DEF PumpTypeOK, WriteFrame, HasRoom, Sent, NoTurn
  <2>3. QED
    BY <1>2, <2>1, <2>2 DEF PumpTypeOK, WriteFrame, NoTurn, NoFrame
<1>3. CASE WriteFails
  BY <1>3 DEF PumpTypeOK, WriteFails, NoTurn, NoFrame
<1>4. CASE Clear
  <2>1. notices' \in [Turns -> 0..1]
    BY <1>4 DEF PumpTypeOK, Clear, HasRoom, Sent, NoTurn
  <2>2. QED
    BY <1>4, <2>1 DEF PumpTypeOK, Clear, NoTurn
<1>5. QED
  BY <1>1, <1>2, <1>3, <1>4 DEF PumpNext

(* The reader's steps keep theirs. *)
LEMMA StreamTypes ==
    ASSUME StreamTypeOK,
           StreamNext \/ StopReading \/ ReadText("ServerError")
    PROVE  StreamTypeOK'
<1>1. MaxMessages \in Nat /\ EventsCap \in Nat
  BY StreamAssumption
<1>2. ASSUME Receives
      PROVE  clock' \in Stamps /\ replies + 1 \in Stamps /\ replies + 1 \in 0..clock'
             /\ replies \in 0..clock' /\ reply \in 0..clock' /\ clock' \in 0..clock'
             /\ clock' \in 0..MaxMessages
  BY <1>1, <1>2 DEF Receives, StreamTypeOK, Stamps
<1>3. ASSUME NEW kind \in {"ServerError"} \cup TextKinds, ReadText(kind)
      PROVE  StreamTypeOK'
  <2>1. Receives /\ stamped' = <<Stamp(kind, clock')>>
    BY <1>3 DEF ReadText
  <2>2. Stamp(kind, clock') \in Event
    BY <1>2, <2>1, EventTypes
  <2>3. stamped' \in Seq(Event) /\ Len(stamped') <= 2
    BY <2>1, <2>2
  <2>4. QED
    BY <1>2, <1>3, <2>1, <2>3 DEF ReadText, StreamTypeOK
<1>4. ASSUME NEW found \in BOOLEAN, ReadAudio(found)
      PROVE  StreamTypeOK'
  <2>1. Receives /\ reply' \in Stamps /\ reply' \in 0..clock'
    BY <1>1, <1>2, <1>4 DEF ReadAudio, StreamTypeOK, Stamps
  <2>2. Stamp("FirstAudio", reply') \in Event /\ Stamp("Audible", reply') \in Event
    BY <1>2, <2>1, EventTypes
  <2>3. stamped' \in Seq(Event) /\ Len(stamped') <= 2
    <3> DEFINE a == IF reply = 0 THEN <<Stamp("FirstAudio", reply')>> ELSE <<>>
               b == IF found THEN <<Stamp("Audible", reply')>> ELSE <<>>
    <3>1. a \in Seq(Event) /\ Len(a) <= 1
      BY <2>2
    <3>2. b \in Seq(Event) /\ Len(b) <= 1
      BY <2>2
    <3>3. stamped' = a \o b
      BY <1>4 DEF ReadAudio, Chunk
    <3> HIDE DEF a, b
    <3>4. QED
      BY <3>1, <3>2, <3>3
  <2>4. QED
    BY <1>2, <1>4, <2>1, <2>3 DEF ReadAudio, StreamTypeOK
<1>5. CASE ReadAudioDone
  <2>1. Receives /\ stamped' = <<Stamp("AudioDone", clock')>>
    BY <1>5 DEF ReadAudioDone
  <2>2. Stamp("AudioDone", clock') \in Event
    BY <1>2, <2>1, EventTypes
  <2>3. stamped' \in Seq(Event) /\ Len(stamped') <= 2
    BY <2>1, <2>2
  <2>4. listening' \in BOOLEAN
    BY <1>5 DEF ReadAudioDone
  <2>5. QED
    BY <1>2, <1>5, <2>1, <2>3, <2>4 DEF ReadAudioDone, StreamTypeOK
<1>6. CASE Emit
  <2>1. Head(stamped) \in Event /\ Tail(stamped) \in Seq(Event) /\ Len(Tail(stamped)) <= 2
    BY <1>6, HeadTailProperties DEF Emit, StreamTypeOK
  <2>2. events' \in Seq(Event) /\ Len(events') <= EventsCap
    BY <1>1, <1>6, <2>1 DEF Emit, Offer, StreamTypeOK
  <2>3. QED
    BY <1>6, <2>1, <2>2 DEF Emit, StreamTypeOK
<1>7. CASE StopReading
  BY <1>7 DEF StopReading, StreamTypeOK
<1>8. QED
  BY <1>3, <1>4, <1>5, <1>6, <1>7 DEF StreamNext

(* Taking an event off the queue. *)
LEMMA ReceiveTypes ==
    ASSUME StreamTypeOK, NEW kinds, Receive(kinds)
    PROVE  StreamTypeOK' /\ Head(events) \in Event
<1>1. Head(events) \in Event /\ Tail(events) \in Seq(Event)
      /\ Len(Tail(events)) = Len(events) - 1 /\ Len(events) \in Nat
  BY HeadTailProperties DEF Receive, StreamTypeOK
<1>2. EventsCap \in Nat
  BY StreamAssumption
<1>3. events' \in Seq(Event) /\ Len(events') <= EventsCap
  BY <1>1, <1>2 DEF Receive, StreamTypeOK
<1>4. QED
  BY <1>1, <1>3 DEF Receive, StreamTypeOK

(* Writing a turn's measurements. *)
LEMMA MeasureTypes ==
    ASSUME metrics \in [Turns -> Metric], NEW m \in Metric, Measure(m)
    PROVE  metrics' \in [Turns -> Metric]
BY DEF Measure

(* What the loop may write into a turn's measurements. *)
LEMMA MetricTypes ==
    ASSUME NEW m \in Metric, NEW at \in 0..MaxMessages, NEW on \in BOOLEAN
    PROVE  /\ [m EXCEPT !.callerStart = at] \in Metric
           /\ [m EXCEPT !.heard = at] \in Metric
           /\ [m EXCEPT !.audible = at] \in Metric
           /\ [m EXCEPT !.yield = at] \in Metric
           /\ \A of \in 0..MaxMessages :
                  [m EXCEPT !.firstAudio = at, !.reply = of, !.yielded = on] \in Metric
BY DEF Metric

(* How a turn, or its line, may end. *)
LEMMA EndTypes ==
    ASSUME NEW m \in Metric
    PROVE  /\ \A on \in BOOLEAN : [m EXCEPT !.natural = on] \in Metric
           /\ [m EXCEPT !.played = TRUE] \in Metric
           /\ [m EXCEPT !.fail = "timeout"] \in Metric
           /\ [m EXCEPT !.fail = "broken"] \in Metric
BY DEF Metric, Failures

(* Leaving the loop keeps the types of the pump and the loop. *)
LEMMA LeaveTypes ==
    ASSUME PumpTypeOK, TurnTypeOK, NoticeNeverBlocks, phase = "collect", turn \in Turns,
           UNCHANGED faults, NEW m \in Metric, Leave(m)
    PROVE  PumpTypeOK' /\ TurnTypeOK'
<1>1. PumpTypeOK'
  <2>1. CASE speaking
    BY <2>1, PumpTypes DEF Leave, FallSilent
  <2>2. CASE ~speaking
    BY <2>2 DEF Leave, FallSilent, pumpVars, PumpTypeOK
  <2>3. QED
    BY <2>1, <2>2
<1>2. metrics' \in [Turns -> Metric]
  BY MeasureTypes DEF Leave, TurnTypeOK
<1>3. speaking' \in BOOLEAN /\ armed' \in BOOLEAN /\ cancelled' \in BOOLEAN
  BY DEF Leave, FallSilent, TurnTypeOK
<1>4. QED
  BY <1>1, <1>2, <1>3 DEF Leave, TurnTypeOK

(* A step of the loop that only takes an event and measures it. *)
LEMMA HearTypes ==
    ASSUME TypeOK, NEW kinds, Receive(kinds), NEW m \in Metric, Measure(m),
           UNCHANGED <<phase, turn, speaking, armed, greeted, cancelled, faults, pumpVars>>
    PROVE  TypeOK'
<1>1. StreamTypeOK'
  BY ReceiveTypes DEF TypeOK
<1>2. metrics' \in [Turns -> Metric]
  BY MeasureTypes DEF TypeOK, TurnTypeOK
<1>3. QED
  BY <1>1, <1>2 DEF TypeOK, TurnTypeOK, PumpTypeOK, pumpVars

(* Every step keeps every type. *)
LEMMA StepTypes ==
    ASSUME TypeOK, PhaseInv, NoticeNeverBlocks, [Next]_vars
    PROVE  TypeOK'
<1> USE DEF TypeOK
<1>1. MaxMessages \in Nat /\ NumTurns \in Nat \ {0} /\ Frames \in [Turns -> Nat]
      /\ MaxFaults \in Nat
  BY StreamAssumption, PumpAssumption, TurnAssumption
<1>2. clock \in 0..MaxMessages
  BY DEF StreamTypeOK
<1>3. ASSUME phase = "collect"
      PROVE  turn \in Turns /\ Current \in Metric
  BY <1>3 DEF PhaseInv, Current, TurnTypeOK
<1>4. ASSUME NEW kinds, Receive(kinds)
      PROVE  /\ StreamTypeOK'
             /\ Head(events).at \in 0..MaxMessages
             /\ Head(events).reply \in 0..MaxMessages
  BY <1>1, <1>4, ReceiveTypes DEF Event, Stamps
<1>5. CASE UNCHANGED vars
  BY <1>5 DEF vars, pumpVars, streamVars, turnVars, PumpTypeOK, StreamTypeOK, TurnTypeOK
<1>6. CASE GreetingHeard /\ UNCHANGED faults
  <2>1. greeted' \in 0..MaxMessages /\ StreamTypeOK'
    BY <1>4, <1>6 DEF GreetingHeard
  <2>2. QED
    BY <1>6, <2>1 DEF GreetingHeard, TurnTypeOK, PumpTypeOK, pumpVars
<1>7. CASE GreetingContinues /\ UNCHANGED faults
  <2>1. StreamTypeOK'
    BY <1>4, <1>7 DEF GreetingContinues
  <2>2. QED
    BY <1>7, <2>1 DEF GreetingContinues, TurnTypeOK, PumpTypeOK, pumpVars, turnVars
<1>8. CASE GreetingFails /\ UNCHANGED faults
  BY <1>8 DEF GreetingFails, TurnTypeOK, StreamTypeOK, PumpTypeOK, pumpVars, streamVars
<1>9. CASE Drain /\ UNCHANGED faults
  <2>1. events' \in Seq(Event) /\ Len(events') <= EventsCap
    <3>1. CASE turn \in Barging
      BY <1>9, <3>1 DEF Drain, StreamTypeOK
    <3>2. CASE turn \notin Barging
      <4>1. events' = <<>>
        BY <1>9, <3>2 DEF Drain
      <4>2. QED
        BY <4>1, EmptySeq, StreamAssumption
    <3>3. QED
      BY <3>1, <3>2
  <2>2. QED
    BY <1>9, <2>1 DEF Drain, TurnTypeOK, StreamTypeOK, PumpTypeOK, pumpVars
<1>10. CASE StartSpeaking /\ UNCHANGED faults
  <2>1. turn \in Turns /\ Current \in Metric
    BY <1>10 DEF StartSpeaking, PhaseInv, Current, TurnTypeOK
  <2>2. [Current EXCEPT !.callerStart = clock] \in Metric
    BY <1>2, <2>1, MetricTypes
  <2>3. metrics' \in [Turns -> Metric]
    BY <1>10, <2>1, <2>2 DEF StartSpeaking, Current, TurnTypeOK
  <2>4. PumpTypeOK'
    BY <1>1, <1>10, <2>1 DEF StartSpeaking, Speak, PumpTypeOK
  <2>5. speaking' \in BOOLEAN /\ armed' \in BOOLEAN /\ cancelled' \in BOOLEAN
    BY <1>10 DEF StartSpeaking, TurnTypeOK
  <2>6. QED
    BY <1>10, <2>3, <2>4, <2>5 DEF StartSpeaking, TurnTypeOK, StreamTypeOK, streamVars
<1>11. CASE LineIsOver /\ UNCHANGED faults
  <2>1. turn \in Turns /\ Current \in Metric
    BY <1>3, <1>11 DEF LineIsOver
  <2>2. FellSilent(Current, TRUE) \in Metric
    BY <2>1, EndTypes DEF FellSilent
  <2>3. metrics' \in [Turns -> Metric]
    BY <1>11, <2>2, MeasureTypes DEF LineIsOver, TurnTypeOK
  <2>4. notices' \in [Turns -> 0..1]
    BY <1>11, <2>1 DEF LineIsOver, PumpTypeOK
  <2>5. speaking' \in BOOLEAN
    BY <1>11 DEF LineIsOver
  <2>6. QED
    BY <1>11, <2>3, <2>4, <2>5
       DEF LineIsOver, TurnTypeOK, StreamTypeOK, PumpTypeOK, streamVars
<1>12. CASE HearUser /\ UNCHANGED faults
  <2>1. Current \in Metric /\ Receive({"UserTranscript"})
    BY <1>3, <1>12 DEF HearUser
  <2>2. Current.heard \in 0..MaxMessages
    BY <2>1 DEF Metric
  <2>3. [Current EXCEPT !.heard =
            IF Current.firstAudio = 0 THEN Head(events).at ELSE @] \in Metric
    BY <1>4, <2>1, <2>2, MetricTypes
  <2>4. QED
    BY <1>12, <2>1, <2>3, HearTypes DEF HearUser, pumpVars
<1>13. CASE HearText /\ UNCHANGED faults
  <2>1. StreamTypeOK'
    BY <1>4, <1>13 DEF HearText
  <2>2. QED
    BY <1>13, <2>1 DEF HearText, TurnTypeOK, PumpTypeOK, pumpVars, turnVars
<1>14. CASE HearAudible /\ UNCHANGED faults
  <2>1. Current \in Metric /\ Receive({"Audible"})
    BY <1>3, <1>14 DEF HearAudible
  <2>2. Current.audible \in 0..MaxMessages
    BY <2>1 DEF Metric
  <2>3. [Current EXCEPT !.audible =
            IF Current.firstAudio # 0 /\ @ = 0 THEN Head(events).at ELSE @] \in Metric
    BY <1>4, <2>1, <2>2, MetricTypes
  <2>4. QED
    BY <1>14, <2>1, <2>3, HearTypes DEF HearAudible, pumpVars
<1>15. CASE HearYield /\ UNCHANGED faults
  <2>1. Current \in Metric /\ Receive({"AudioDone"})
    BY <1>3, <1>15 DEF HearYield
  <2>2. Current.yield \in 0..MaxMessages
    BY <2>1 DEF Metric
  <2>3. [Current EXCEPT !.yield =
            IF turn \in Barging /\ @ = 0 THEN Head(events).at ELSE @] \in Metric
    BY <1>4, <2>1, <2>2, MetricTypes
  <2>4. QED
    BY <1>15, <2>1, <2>3, HearTypes DEF HearYield, pumpVars
<1>16. CASE HearFirstAudio /\ UNCHANGED faults
  <2>1. Current \in Metric /\ Receive({"FirstAudio"}) /\ StreamTypeOK'
    BY <1>3, <1>4, <1>16 DEF HearFirstAudio
  <2>2. /\ Current.firstAudio \in 0..MaxMessages
        /\ Current.reply \in 0..MaxMessages
    BY <2>1 DEF Metric
  <2>3. Current.yielded \/ speaking \in BOOLEAN
    BY <2>1 DEF Metric, TurnTypeOK
  <2>4. [Current EXCEPT
            !.firstAudio = IF @ = 0 THEN Head(events).at ELSE @,
            !.reply = IF @ = 0 THEN Head(events).reply ELSE @,
            !.yielded = @ \/ speaking] \in Metric
    <3> DEFINE at == IF Current.firstAudio = 0 THEN Head(events).at ELSE Current.firstAudio
               of == IF Current.reply = 0 THEN Head(events).reply ELSE Current.reply
               on == Current.yielded \/ speaking
    <3>1. at \in 0..MaxMessages /\ of \in 0..MaxMessages
      BY <1>4, <2>1, <2>2
    <3>2. on \in BOOLEAN
      BY <2>1 DEF Metric, TurnTypeOK
    <3>3. [Current EXCEPT !.firstAudio = at, !.reply = of, !.yielded = on] \in Metric
      <4> HIDE DEF at, of, on
      <4>1. QED
        BY <2>1, <3>1, <3>2, MetricTypes
    <3>4. QED
      BY <3>3
  <2>5. metrics' \in [Turns -> Metric]
    BY <1>16, <2>4, MeasureTypes DEF HearFirstAudio, TurnTypeOK
  <2>6. PumpTypeOK'
    <3>1. CASE speaking
      BY <1>16, <3>1, PumpTypes DEF HearFirstAudio, FallSilent
    <3>2. CASE ~speaking
      BY <1>16, <3>2 DEF HearFirstAudio, FallSilent, pumpVars, PumpTypeOK
    <3>3. QED
      BY <3>1, <3>2
  <2>7. speaking' \in BOOLEAN /\ cancelled' \in BOOLEAN
    BY <1>16 DEF HearFirstAudio, FallSilent, TurnTypeOK
  <2>8. armed' \in BOOLEAN
    BY <1>16 DEF HearFirstAudio
  <2>9. QED
    BY <1>16, <2>1, <2>5, <2>6, <2>7, <2>8 DEF HearFirstAudio, TurnTypeOK
<1>17. CASE (ReplyIsOver \/ HearError) /\ UNCHANGED faults
  <2>1. turn \in Turns /\ Current \in Metric /\ StreamTypeOK'
    BY <1>3, <1>4, <1>17 DEF ReplyIsOver, HearError
  <2>2. PICK m \in Metric : Leave(m)
    BY <1>17, <2>1, EndTypes DEF ReplyIsOver, HearError
  <2>3. QED
    BY <1>17, <2>1, <2>2, LeaveTypes DEF ReplyIsOver, HearError
<1>18. CASE (Interrupt \/ Deadline \/ BreakOff) /\ UNCHANGED faults
  <2>1. turn \in Turns /\ Current \in Metric
    BY <1>3, <1>18 DEF Interrupt, Deadline, BreakOff
  <2>2. PICK m \in Metric : Leave(m)
    BY <1>18, <2>1, EndTypes DEF Interrupt, Deadline, BreakOff
  <2>3. StreamTypeOK'
    BY <1>18 DEF Interrupt, Deadline, BreakOff, StreamTypeOK, streamVars
  <2>4. QED
    BY <1>18, <2>1, <2>2, <2>3, LeaveTypes DEF Interrupt, Deadline, BreakOff
<1>19. CASE EndTurn /\ UNCHANGED faults
  <2>1. turn' \in {NoTurn} \cup Turns
    BY <1>1, <1>19 DEF EndTurn, TurnTypeOK, Turns, NoTurn
  <2>2. QED
    BY <1>19, <2>1 DEF EndTurn, TurnTypeOK, StreamTypeOK, PumpTypeOK, pumpVars, streamVars
<1>20. CASE PumpNext /\ UNCHANGED <<streamVars, turnVars, faults>>
  BY <1>20, PumpTypes DEF TurnTypeOK, StreamTypeOK, turnVars, streamVars
<1>21. CASE StreamNext /\ UNCHANGED <<pumpVars, turnVars, faults>>
  BY <1>21, StreamTypes DEF TurnTypeOK, PumpTypeOK, turnVars, pumpVars
<1>22. CASE Fault
  <2>1. faults' \in 0..MaxFaults
    BY <1>1, <1>22 DEF Fault, TurnTypeOK
  <2>2. CASE (ReadText("ServerError") \/ StopReading) /\ UNCHANGED <<pumpVars, turnVars>>
    BY <2>1, <2>2, StreamTypes DEF TurnTypeOK, PumpTypeOK, turnVars, pumpVars
  <2>3. CASE WriteFails /\ UNCHANGED <<streamVars, turnVars>>
    BY <2>1, <2>3, PumpTypes DEF TurnTypeOK, StreamTypeOK, turnVars, streamVars
  <2>4. CASE Cancel
    <3>1. cancelled' \in BOOLEAN /\ pumpOn' \in BOOLEAN
      BY <2>4 DEF Cancel
    <3>2. QED
      BY <2>1, <2>4, <3>1
         DEF Cancel, TurnTypeOK, StreamTypeOK, PumpTypeOK, streamVars
  <2>5. QED
    BY <1>22, <2>2, <2>3, <2>4 DEF Fault
<1>23. QED
  BY <1>5, <1>6, <1>7, <1>8, <1>9, <1>10, <1>11, <1>12, <1>13, <1>14, <1>15, <1>16,
     <1>17, <1>18, <1>19, <1>20, <1>21, <1>22
     DEF Next, LoopStep, TimerFires
-----------------------------------------------------------------------------
(* The channel and the frames.                                             *)

(* Measuring in one turn leaves the others as they were. *)
LEMMA MeasureOne ==
    ASSUME TypeOK, turn \in Turns, NEW m, Measure(m)
    PROVE  metrics'[turn] = m /\ \A t \in Turns : t # turn => metrics'[t] = metrics[t]
BY DEF TypeOK, TurnTypeOK, Measure

(* A step that leaves the pump alone and begins no turn. *)
LEMMA QuietStep ==
    ASSUME PumpInv,
           UNCHANGED <<line, queued, done, inFlight, said, notices, pumpErr, speaking>>,
           pumpErr => ~pumpOn',
           phase' \in {"drain", "start", "collect"} => turn' \in Turns,
           speaking => phase' = "collect" /\ turn' = turn,
           \A t \in Turns : HasNotBegun(t)' => HasNotBegun(t) /\ metrics'[t] = metrics[t],
           \A t \in Turns : metrics'[t].natural = metrics[t].natural
    PROVE  PumpInv'
<1>1. PhaseInv'
  BY DEF PumpInv, PhaseInv
<1>2. ChannelInv'
  BY DEF PumpInv, ChannelInv, NoticeNeverBlocks, HasRoom
<1>3. FrameInv'
  BY DEF PumpInv, FrameInv
<1>4. QED
  BY <1>1, <1>2, <1>3 DEF PumpInv

(* The caller is cut short: the rest of the line is dropped. *)
LEMMA CutStep ==
    ASSUME TypeOK, PumpInv, FallSilent, phase = "collect",
           phase' \in {"collect", "playout"}, UNCHANGED turn,
           \A t \in Turns : t # turn => metrics'[t] = metrics[t],
           metrics'[turn].natural = metrics[turn].natural
    PROVE  PumpInv'
<1> USE DEF PumpInv
<1>1. turn \in Turns
  BY DEF PhaseInv
<1>2. \A t \in Turns : metrics'[t].natural = metrics[t].natural
  OBVIOUS
<1>3. \A t \in Turns : HasNotBegun(t)' => HasNotBegun(t) /\ t # turn
  BY <1>1 DEF HasNotBegun, Turns
<1>4. CASE ~speaking
  <2>1. UNCHANGED pumpVars /\ UNCHANGED speaking
    BY <1>4 DEF FallSilent, TypeOK, TurnTypeOK
  <2>2. QED
    BY <1>1, <1>2, <1>3, <1>4, <2>1, QuietStep DEF pumpVars, FrameInv
<1>5. CASE speaking
  <2>1. /\ queued' = 0 /\ done' = NoTurn /\ speaking' = FALSE
        /\ UNCHANGED <<line, inFlight, said, pumpOn, pumpErr>>
    BY <1>5 DEF FallSilent, Clear
  <2>2. \A t \in Turns : t # turn => notices'[t] = notices[t]
    BY <1>5 DEF FallSilent, Clear, Sent, ChannelInv, TypeOK, PumpTypeOK
  <2>3. PhaseInv'
    BY <1>1, <1>3, <2>1, <2>2 DEF PhaseInv
  <2>4. ChannelInv'
    <3>1. HasRoom(inFlight.finished)'
      BY <1>5, <2>1 DEF ChannelInv, NoticeNeverBlocks, HasRoom, FallSilent, Clear, Sent,
                        TypeOK, PumpTypeOK
    <3>2. QED
      BY <2>1, <3>1 DEF ChannelInv, NoticeNeverBlocks, HasRoom
  <2>5. FrameInv'
    BY <1>2, <2>1 DEF FrameInv
  <2>6. QED
    BY <2>3, <2>4, <2>5
<1>6. QED
  BY <1>4, <1>5

(* The next line is handed to the pump. *)
LEMMA SpeakStep ==
    ASSUME TypeOK, PumpInv, StartSpeaking
    PROVE  PumpInv'
<1> USE DEF PumpInv
<1>1. /\ turn \in Turns /\ HasNotBegun(turn) /\ phase' = "collect" /\ turn' = turn
      /\ speaking' = TRUE /\ line' = turn /\ queued' = Frames[turn] /\ done' = turn
      /\ UNCHANGED <<inFlight, said, notices, pumpOn, pumpErr>>
  BY DEF StartSpeaking, Speak, PhaseInv, HasNotBegun
<1>2. /\ notices[turn] = 0 /\ said[turn] = 0 /\ metrics[turn] = Unmeasured
      /\ inFlight.line # turn /\ inFlight.finished # turn
  BY <1>1 DEF PhaseInv
<1>3. \A t \in Turns : HasNotBegun(t)' => HasNotBegun(t) /\ t # turn
  BY <1>1 DEF HasNotBegun, Turns
<1>4. \A t \in Turns : t # turn => metrics'[t] = metrics[t]
  BY DEF StartSpeaking, TypeOK, TurnTypeOK
<1>5. \A t \in Turns : metrics'[t].natural = metrics[t].natural
  <2>1. metrics'[turn].natural = metrics[turn].natural
    BY <1>1 DEF StartSpeaking, TypeOK, TurnTypeOK, Metric
  <2>2. QED
    BY <1>4, <2>1
<1>6. PhaseInv'
  BY <1>1, <1>3, <1>4 DEF PhaseInv
<1>7. ChannelInv'
  BY <1>1, <1>2 DEF ChannelInv, NoticeNeverBlocks, HasRoom, Turns, NoTurn
<1>8. FrameInv'
  <2>1. Frames[turn] \in Nat /\ ~metrics[turn].natural
    BY <1>1, <1>2, PumpAssumption DEF Unmeasured
  <2>2. QED
    BY <1>1, <1>2, <1>5, <2>1 DEF FrameInv
<1>9. QED
  BY <1>6, <1>7, <1>8

(* The loop hears that its line is over. *)
LEMMA OverStep ==
    ASSUME TypeOK, PumpInv, LineIsOver
    PROVE  PumpInv'
<1> USE DEF PumpInv
<1>1. /\ turn \in Turns /\ notices[turn] = 1 /\ phase = "collect"
      /\ notices' = [notices EXCEPT ![turn] = 0] /\ speaking' = FALSE
      /\ UNCHANGED <<line, queued, done, inFlight, said, pumpOn, pumpErr, phase, turn>>
  <2>1. turn \in Turns /\ notices[turn] > 0
    BY DEF LineIsOver, PhaseInv
  <2>2. notices[turn] = 1
    BY <2>1 DEF TypeOK, PumpTypeOK
  <2>3. notices' = [notices EXCEPT ![turn] = 0]
    BY <2>2 DEF LineIsOver
  <2>4. QED
    BY <2>1, <2>2, <2>3 DEF LineIsOver
<1>2. metrics'[turn] = FellSilent(metrics[turn], TRUE)
      /\ \A t \in Turns : t # turn => metrics'[t] = metrics[t]
  BY <1>1, MeasureOne DEF LineIsOver, Current
<1>3. \A t \in Turns : HasNotBegun(t)' => HasNotBegun(t) /\ t # turn
  BY <1>1 DEF HasNotBegun, Turns
<1>4. done = NoTurn
  BY <1>1 DEF ChannelInv, NoticeNeverBlocks, HasRoom
<1>5. PhaseInv'
  BY <1>1, <1>2, <1>3 DEF PhaseInv, TypeOK, PumpTypeOK
<1>6. ChannelInv'
  <2>1. HasRoom(inFlight.finished)'
    BY <1>1 DEF ChannelInv, NoticeNeverBlocks, HasRoom, TypeOK, PumpTypeOK
  <2>2. QED
    BY <1>1, <1>4, <2>1 DEF ChannelInv, NoticeNeverBlocks, HasRoom
<1>7. FrameInv'
  <2>1. ASSUME NEW t \in Turns, metrics'[t].natural
        PROVE  said[t] = Frames[t] /\ inFlight.line # t /\ (line = t => queued = 0)
    <3>1. CASE t # turn \/ ~speaking
      BY <1>2, <2>1, <3>1 DEF FrameInv, FellSilent
    <3>2. CASE t = turn /\ speaking
      BY <1>1, <3>2 DEF FrameInv
    <3>3. QED
      BY <3>1, <3>2
  <2>2. QED
    BY <1>1, <2>1 DEF FrameInv
<1>8. QED
  BY <1>5, <1>6, <1>7

(* A step of the pump. *)
LEMMA PumpStep ==
    ASSUME TypeOK, PumpInv, PumpNext \/ WriteFails, UNCHANGED turnVars
    PROVE  PumpInv'
<1> USE DEF PumpInv
<1>1. UNCHANGED <<phase, turn, speaking, metrics>>
  BY DEF turnVars
<1>2. \A t \in Turns : HasNotBegun(t)' <=> HasNotBegun(t)
  BY <1>1 DEF HasNotBegun
<1>3. CASE NextFrame
  <2>1. /\ inFlight = NoFrame /\ queued > 0 /\ queued' = queued - 1
        /\ inFlight'.line = line
        /\ inFlight'.finished = IF queued = 1 THEN done ELSE NoTurn
        /\ done' = IF queued = 1 THEN NoTurn ELSE done
        /\ UNCHANGED <<line, said, notices, pumpErr>> /\ ~pumpErr /\ pumpOn
    BY <1>3 DEF NextFrame, FrameInv
  <2>2. /\ done = turn /\ speaking /\ line = turn /\ turn \in Turns
        /\ phase = "collect"
    BY <2>1 DEF ChannelInv, FrameInv, PhaseInv
  <2>3. ~HasNotBegun(turn) /\ turn # NoTurn
    BY <2>2 DEF HasNotBegun, Turns, NoTurn
  <2>4. PhaseInv'
    <3>1. ASSUME NEW t \in Turns, HasNotBegun(t)
          PROVE  t # line /\ t # turn /\ t # NoTurn
      BY <2>3, <3>1 DEF PhaseInv, Turns, NoTurn
    <3>2. \A t \in Turns : HasNotBegun(t)' => inFlight'.line # t /\ inFlight'.finished # t
      BY <1>2, <2>1, <2>2, <3>1
    <3>3. QED
      BY <1>1, <1>2, <2>1, <3>2 DEF PhaseInv
  <2>5. ChannelInv'
    BY <1>1, <2>1, <2>2, <2>3
       DEF ChannelInv, NoticeNeverBlocks, HasRoom, TypeOK, PumpTypeOK
  <2>6. FrameInv'
    <3>1. inFlight.line # turn
      BY <2>1, <2>3 DEF NoFrame
    <3>2. notices[turn] = 0
      BY <2>1, <2>2 DEF FrameInv, TypeOK, PumpTypeOK
    <3>3. said[turn] + 1 + queued' = Frames[turn]
      BY <2>1, <2>2, <3>1, PumpAssumption DEF FrameInv, TypeOK, PumpTypeOK
    <3>4. \A t \in Turns : metrics[t].natural => t # line
      BY <2>1, <2>2 DEF FrameInv
    <3>5. inFlight'.finished = turn => queued' = 0
      BY <2>1, <2>3
    <3>6. QED
      BY <1>1, <2>1, <2>2, <3>2, <3>3, <3>4, <3>5 DEF FrameInv
  <2>7. QED
    BY <2>4, <2>5, <2>6
<1>4. CASE WriteFrame
  <2>1. /\ inFlight # NoFrame /\ inFlight' = NoFrame /\ HasRoom(inFlight.finished)
        /\ UNCHANGED <<line, queued, done, pumpErr>> /\ ~pumpErr
    BY <1>4 DEF WriteFrame, FrameInv
  <2>2. inFlight.line \in Turns
    <3>1. inFlight.line # NoTurn \/ inFlight.finished # NoTurn
      BY <2>1 DEF TypeOK, PumpTypeOK, NoFrame
    <3>2. QED
      BY <3>1 DEF ChannelInv, TypeOK, PumpTypeOK
  <2>3. /\ said'[inFlight.line] = said[inFlight.line] + 1
        /\ \A t \in Turns : t # inFlight.line => said'[t] = said[t]
    BY <1>4, <2>2 DEF WriteFrame, TypeOK, PumpTypeOK
  <2>4. \A t \in Turns : /\ t # inFlight.finished => notices'[t] = notices[t]
                         /\ t = inFlight.finished => notices[t] = 0
    BY <1>4 DEF WriteFrame, Sent, HasRoom, TypeOK, PumpTypeOK, Turns, NoTurn
  <2>5. NoTurn \notin Turns /\ inFlight'.line = NoTurn /\ inFlight'.finished = NoTurn
    BY <2>1 DEF Turns, NoTurn, NoFrame
  <2>6. inFlight.finished \in Turns => inFlight.finished = inFlight.line
    BY <2>5 DEF ChannelInv
  <2>7. PhaseInv'
    <3>1. ASSUME NEW t \in Turns, HasNotBegun(t)
          PROVE  t # inFlight.line /\ t # inFlight.finished
      BY <3>1 DEF PhaseInv
    <3>2. QED
      BY <1>1, <1>2, <2>1, <2>3, <2>4, <2>5, <3>1 DEF PhaseInv
  <2>8. ChannelInv'
    <3>1. HasRoom(done)'
      BY <2>1, <2>4 DEF ChannelInv, NoticeNeverBlocks, HasRoom, TypeOK, PumpTypeOK
    <3>2. QED
      BY <1>1, <2>1, <2>5, <3>1 DEF ChannelInv, NoticeNeverBlocks, HasRoom
  <2>9. FrameInv'
    <3>1. ASSUME NEW t \in Turns, metrics[t].natural
          PROVE  said'[t] = Frames[t] /\ (line = t => queued = 0)
      BY <2>3, <3>1 DEF FrameInv
    <3>2. ASSUME speaking
          PROVE  /\ line = turn /\ turn \in Turns
                 /\ said'[turn] + queued = Frames[turn]
                 /\ notices'[turn] > 0 => said'[turn] = Frames[turn] /\ queued = 0
      <4>1. line = turn /\ turn \in Turns
        BY <3>2 DEF FrameInv, PhaseInv
      <4>2. said'[turn] + queued = Frames[turn]
        <5>1. said[turn] \in Nat /\ queued \in Nat
          BY <4>1 DEF TypeOK, PumpTypeOK
        <5>2. CASE inFlight.line = turn
          <6>1. said'[turn] = said[turn] + 1
            BY <2>3, <5>2
          <6>2. said[turn] + 1 + queued = Frames[turn]
            BY <2>1, <3>2, <5>2 DEF FrameInv
          <6>3. QED
            BY <6>1, <6>2
        <5>3. CASE inFlight.line # turn
          <6>1. said'[turn] = said[turn]
            BY <2>3, <4>1, <5>3
          <6>2. said[turn] + 0 + queued = Frames[turn]
            BY <2>1, <3>2, <5>3 DEF FrameInv
          <6>3. QED
            BY <5>1, <6>1, <6>2
        <5>4. QED
          BY <5>2, <5>3
      <4>3. CASE inFlight.finished = turn
        <5>1. queued = 0 /\ said'[turn] \in Int
          BY <2>2, <2>3, <3>2, <4>1, <4>3 DEF FrameInv, TypeOK, PumpTypeOK
        <5>2. QED
          BY <4>1, <4>2, <5>1
      <4>4. CASE inFlight.finished # turn
        BY <2>3, <2>4, <3>2, <4>1, <4>2, <4>4 DEF FrameInv
      <4>5. QED
        BY <4>1, <4>2, <4>3, <4>4
    <3>3. speaking => said'[turn] + 0 + queued = Frames[turn]
      BY <2>3, <3>2 DEF TypeOK, PumpTypeOK
    <3>4. QED
      BY <1>1, <2>1, <2>5, <3>1, <3>2, <3>3 DEF FrameInv
  <2>10. QED
    BY <2>7, <2>8, <2>9
<1>5. CASE WriteFails
  <2>1. /\ ~pumpOn' /\ pumpErr' /\ inFlight' = NoFrame
        /\ inFlight'.line = NoTurn /\ inFlight'.finished = NoTurn
        /\ UNCHANGED <<line, queued, done, said, notices>>
    BY <1>5 DEF WriteFails, NoFrame
  <2>2. NoTurn \notin Turns
    BY DEF Turns, NoTurn
  <2>3. PhaseInv'
    BY <1>1, <1>2, <2>1, <2>2 DEF PhaseInv
  <2>4. ChannelInv'
    BY <1>1, <2>1 DEF ChannelInv, NoticeNeverBlocks, HasRoom
  <2>5. FrameInv'
    <3>1. speaking => turn \in Turns
      BY DEF PhaseInv
    <3>2. QED
      BY <1>1, <2>1, <2>2, <3>1 DEF FrameInv
  <2>6. QED
    BY <2>3, <2>4, <2>5
<1>6. QED
  BY <1>3, <1>4, <1>5 DEF PumpNext

(* A step that measures nothing of the pacing drift and hands nothing to   *)
(* the pump, in a turn that goes on. *)
LEMMA HearStep ==
    ASSUME TypeOK, PumpInv, UNCHANGED <<pumpVars, speaking, phase, turn>>,
           UNCHANGED metrics
    PROVE  PumpInv'
<1>1. UNCHANGED <<line, queued, done, inFlight, said, notices, pumpErr, pumpOn, speaking>>
  BY DEF pumpVars
<1>2. \A t \in Turns : HasNotBegun(t)' => HasNotBegun(t)
  BY DEF HasNotBegun
<1>3. QED
  BY <1>1, <1>2, QuietStep DEF PumpInv, PhaseInv, FrameInv

(* The same, measuring something else. *)
LEMMA MeasureStep ==
    ASSUME TypeOK, PumpInv, UNCHANGED <<pumpVars, speaking, phase, turn>>,
           phase = "collect", NEW m, Measure(m), m.natural = metrics[turn].natural
    PROVE  PumpInv'
<1>1. UNCHANGED <<line, queued, done, inFlight, said, notices, pumpErr, pumpOn, speaking>>
  BY DEF pumpVars
<1>2. turn \in Turns
  BY DEF PumpInv, PhaseInv
<1>3. \A t \in Turns : HasNotBegun(t)' => HasNotBegun(t) /\ t # turn
  BY <1>2 DEF HasNotBegun, Turns
<1>4. metrics'[turn] = m /\ \A t \in Turns : t # turn => metrics'[t] = metrics[t]
  BY <1>2, MeasureOne
<1>5. QED
  BY <1>1, <1>2, <1>3, <1>4, QuietStep DEF PumpInv, PhaseInv, FrameInv

(* Leaving the loop. *)
LEMMA LeaveStep ==
    ASSUME TypeOK, PumpInv, phase = "collect", NEW m, Leave(m),
           m.natural = metrics[turn].natural
    PROVE  PumpInv'
<1>1. turn \in Turns
  BY DEF PumpInv, PhaseInv
<1>2. metrics'[turn] = m /\ \A t \in Turns : t # turn => metrics'[t] = metrics[t]
  BY <1>1, MeasureOne DEF Leave
<1>3. QED
  BY <1>2, CutStep DEF Leave

(* The end of a turn says nothing of the drift. *)
LEMMA SameDrift ==
    ASSUME NEW m \in Metric
    PROVE  /\ [m EXCEPT !.played = TRUE].natural = m.natural
           /\ [m EXCEPT !.fail = "timeout"].natural = m.natural
           /\ [m EXCEPT !.fail = "broken"].natural = m.natural
BY DEF Metric

(* Every step keeps the channel and the frames in order. *)
LEMMA StepPump ==
    ASSUME TypeOK, PumpInv, [Next]_vars
    PROVE  PumpInv'
<1>1. ASSUME phase = "collect"
      PROVE  turn \in Turns /\ Current \in Metric /\ Current = metrics[turn]
  BY <1>1 DEF PumpInv, PhaseInv, Current, TypeOK, TurnTypeOK
<1>2. CASE UNCHANGED vars
  <2>1. UNCHANGED pumpVars /\ UNCHANGED turnVars
    BY <1>2 DEF vars
  <2>2. QED
    BY <2>1, HearStep DEF turnVars
<1>3. CASE GreetingContinues \/ HearText
  <2>1. UNCHANGED pumpVars /\ UNCHANGED turnVars
    BY <1>3 DEF GreetingContinues, HearText
  <2>2. QED
    BY <2>1, HearStep DEF turnVars
<1>4. ASSUME phase # "collect", UNCHANGED <<pumpVars, speaking, metrics>>,
             phase' \in {"drain", "start", "collect"} => turn' \in Turns,
             \A t \in Turns : HasNotBegun(t)' => HasNotBegun(t)
      PROVE  PumpInv'
  <2>1. UNCHANGED <<line, queued, done, inFlight, said, notices, pumpErr, pumpOn>>
    BY <1>4 DEF pumpVars
  <2>2. QED
    BY <1>4, <2>1, QuietStep DEF PumpInv, PhaseInv, FrameInv
<1>5. CASE GreetingHeard \/ GreetingFails
  <2>1. \A t \in Turns : HasNotBegun(t)' => HasNotBegun(t)
    BY <1>5 DEF GreetingHeard, GreetingFails, HasNotBegun
  <2>2. QED
    BY <1>4, <1>5, <2>1 DEF GreetingHeard, GreetingFails
<1>6. CASE Drain
  <2>1. \A t \in Turns : HasNotBegun(t)' => HasNotBegun(t)
    BY <1>6 DEF Drain, HasNotBegun
  <2>2. turn \in Turns
    BY <1>6 DEF Drain, PumpInv, PhaseInv
  <2>3. QED
    BY <1>4, <1>6, <2>1, <2>2 DEF Drain
<1>7. CASE EndTurn
  <2>1. NumTurns \in Nat /\ turn \in 0..NumTurns
    BY PumpAssumption DEF TypeOK, TurnTypeOK, Turns, NoTurn
  <2>2. \A t \in Turns : HasNotBegun(t)' => HasNotBegun(t)
    BY <1>7, <2>1 DEF EndTurn, HasNotBegun, Turns
  <2>3. phase' \in {"drain", "start", "collect"} => turn' \in Turns
    BY <1>7, <2>1 DEF EndTurn, Turns
  <2>4. QED
    BY <1>4, <1>7, <2>2, <2>3 DEF EndTurn
<1>8. CASE HearUser
  <2> DEFINE m == [Current EXCEPT !.heard =
                       IF Current.firstAudio = 0 THEN Head(events).at ELSE @]
  <2>1. Measure(m) /\ phase = "collect" /\ UNCHANGED <<pumpVars, speaking, phase, turn>>
    BY <1>8 DEF HearUser
  <2>2. m.natural = metrics[turn].natural
    BY <1>1, <2>1 DEF Metric
  <2> HIDE DEF m
  <2>3. QED
    BY <2>1, <2>2, MeasureStep
<1>9. CASE HearAudible
  <2> DEFINE m == [Current EXCEPT !.audible =
                       IF Current.firstAudio # 0 /\ @ = 0 THEN Head(events).at ELSE @]
  <2>1. Measure(m) /\ phase = "collect" /\ UNCHANGED <<pumpVars, speaking, phase, turn>>
    BY <1>9 DEF HearAudible
  <2>2. m.natural = metrics[turn].natural
    BY <1>1, <2>1 DEF Metric
  <2> HIDE DEF m
  <2>3. QED
    BY <2>1, <2>2, MeasureStep
<1>10. CASE HearYield
  <2> DEFINE m == [Current EXCEPT !.yield =
                       IF turn \in Barging /\ @ = 0 THEN Head(events).at ELSE @]
  <2>1. Measure(m) /\ phase = "collect" /\ UNCHANGED <<pumpVars, speaking, phase, turn>>
    BY <1>10 DEF HearYield
  <2>2. m.natural = metrics[turn].natural
    BY <1>1, <2>1 DEF Metric
  <2> HIDE DEF m
  <2>3. QED
    BY <2>1, <2>2, MeasureStep
<1>11. CASE HearFirstAudio
  <2> DEFINE m == [Current EXCEPT
            !.firstAudio = IF @ = 0 THEN Head(events).at ELSE @,
            !.reply = IF @ = 0 THEN Head(events).reply ELSE @,
            !.yielded = @ \/ speaking]
  <2>1. Measure(m) /\ phase = "collect" /\ FallSilent /\ UNCHANGED <<phase, turn>>
    BY <1>11 DEF HearFirstAudio
  <2>2. m.natural = metrics[turn].natural
    BY <1>1, <2>1 DEF Metric
  <2>3. metrics'[turn] = m /\ \A t \in Turns : t # turn => metrics'[t] = metrics[t]
    BY <1>1, <2>1, MeasureOne
  <2> HIDE DEF m
  <2>4. QED
    BY <2>1, <2>2, <2>3, CutStep
<1>12. CASE ReplyIsOver \/ HearError \/ Interrupt \/ Deadline \/ BreakOff
  <2>1. Current \in Metric /\ Current = metrics[turn] /\ phase = "collect"
    BY <1>1, <1>12 DEF ReplyIsOver, HearError, Interrupt, Deadline, BreakOff
  <2>2. PICK m : Leave(m) /\ m.natural = metrics[turn].natural
    BY <1>12, <2>1, SameDrift DEF ReplyIsOver, HearError, Interrupt, Deadline, BreakOff
  <2>3. QED
    BY <2>1, <2>2, LeaveStep
<1>13. CASE /\ StreamNext \/ ReadText("ServerError") \/ StopReading
            /\ UNCHANGED <<pumpVars, turnVars>>
  <2>1. UNCHANGED pumpVars /\ UNCHANGED turnVars
    BY <1>13
  <2>2. QED
    BY <2>1, HearStep DEF turnVars
<1>14. CASE Cancel
  <2>1. \A t \in Turns : HasNotBegun(t)' => HasNotBegun(t)
    BY <1>14 DEF Cancel, HasNotBegun
  <2>2. QED
    BY <1>14, <2>1, QuietStep DEF Cancel, PumpInv, PhaseInv
<1>15. CASE (PumpNext \/ WriteFails) /\ UNCHANGED turnVars
  BY <1>15, PumpStep
<1>16. CASE StartSpeaking \/ LineIsOver
  BY <1>16, SpeakStep, OverStep
<1>17. QED
  BY <1>2, <1>3, <1>5, <1>6, <1>7, <1>8, <1>9, <1>10, <1>11, <1>12, <1>13, <1>14, <1>15,
     <1>16 DEF Next, LoopStep, TimerFires, Fault

(* It holds when the call begins. *)
LEMMA InitPump == Init => PumpInv
<1> SUFFICES ASSUME Init PROVE PumpInv
  OBVIOUS
<1>1. NoTurn \notin Turns /\ 1 \in Turns /\ ~Unmeasured.natural
  BY PumpAssumption DEF Turns, NoTurn, Unmeasured
<1>2. inFlight.line = NoTurn /\ inFlight.finished = NoTurn
  BY DEF Init, PumpInit, NoFrame
<1>3. PhaseInv
  BY <1>1, <1>2 DEF Init, PumpInit, TurnInit, PhaseInv
<1>4. ChannelInv
  BY <1>2 DEF Init, PumpInit, TurnInit, ChannelInv, NoticeNeverBlocks, HasRoom
<1>5. FrameInv
  BY <1>1 DEF Init, PumpInit, TurnInit, FrameInv
<1>6. QED
  BY <1>3, <1>4, <1>5 DEF PumpInv
-----------------------------------------------------------------------------
(* The queue and the measurements.                                         *)

(* What a message read from the connection adds to the stream. *)
Arrival ==
    /\ stamped = <<>> /\ UNCHANGED events
    /\ clock' = clock + 1
    /\ replies' \in {replies, replies + 1} /\ Begun <= Begun'
    /\ reply' \in {0, reply, clock'}
    /\ \A i \in 1..Len(stamped') : LET e == stamped'[i] IN
           /\ e.at <= clock'
           /\ e.kind # "Audible" => e.at = clock'
           /\ e.kind = "Audible" => e.at = reply' /\ reply' # 0
           /\ e.kind = "FirstAudio" =>
                  reply = 0 /\ e.reply = replies + 1 /\ e.reply <= Begun' /\ reply' = e.at
           /\ e.kind = "AudioDone" => e.reply <= replies'
    /\ \A i, j \in 1..Len(stamped') : i < j =>
           /\ stamped'[i].kind = "FirstAudio" /\ stamped'[j].kind = "Audible"
           /\ stamped'[i].at <= stamped'[j].at

(* The agent's messages arrive like that. *)
LEMMA ReadsArrive ==
    ASSUME StreamTypeOK,
           \/ \E found \in BOOLEAN : ReadAudio(found)
           \/ ReadAudioDone
           \/ \E kind \in {"ServerError"} \cup TextKinds : ReadText(kind)
    PROVE  Arrival
<1>1. clock \in Nat /\ replies \in Nat /\ reply \in 0..clock
  BY StreamAssumption DEF StreamTypeOK
<1>2. ASSUME NEW found \in BOOLEAN, ReadAudio(found)
      PROVE  Arrival
  <2>1. /\ stamped = <<>> /\ UNCHANGED <<events, replies>> /\ clock' = clock + 1
        /\ reply' = IF reply = 0 THEN clock' ELSE reply
    BY <1>2 DEF ReadAudio, Receives
  <2>2. reply' \in Nat /\ reply' # 0 /\ reply' <= clock' /\ (reply = 0 => reply' = clock')
    BY <1>1, <2>1
  <2>3. Begun' = replies + 1 /\ Begun <= replies + 1
    BY <1>1, <2>1, <2>2 DEF Begun
  <2> DEFINE first == Stamp("FirstAudio", reply')
             audible == Stamp("Audible", reply')
  <2>4. /\ first.kind = "FirstAudio" /\ first.at = reply' /\ first.reply = replies + 1
        /\ audible.kind = "Audible" /\ audible.at = reply'
    BY DEF Stamp
  <2> DEFINE a == IF reply = 0 THEN <<first>> ELSE <<>>
             b == IF found THEN <<audible>> ELSE <<>>
  <2>5. stamped' = a \o b
    BY <1>2 DEF ReadAudio, Chunk
  <2> HIDE DEF first, audible
  <2>6. /\ a \in Seq({first, audible}) /\ Len(a) = IF reply = 0 THEN 1 ELSE 0
        /\ b \in Seq({first, audible}) /\ Len(b) = IF found THEN 1 ELSE 0
        /\ reply = 0 => a[1] = first
        /\ found => b[1] = audible
    <3>1. ASSUME NEW x \in {first, audible}
          PROVE  <<x>> \in Seq({first, audible}) /\ Len(<<x>>) = 1 /\ <<x>>[1] = x
      OBVIOUS
    <3>2. <<>> \in Seq({first, audible}) /\ Len(<<>>) = 0
      OBVIOUS
    <3>3. /\ a \in Seq({first, audible}) /\ Len(a) = IF reply = 0 THEN 1 ELSE 0
          /\ reply = 0 => a[1] = first
      <4>1. CASE reply = 0
        <5>1. a = <<first>>
          BY <4>1
        <5>2. QED
          BY <3>1, <4>1, <5>1
      <4>2. CASE reply # 0
        BY <3>2, <4>2
      <4>3. QED
        BY <4>1, <4>2
    <3>4. /\ b \in Seq({first, audible}) /\ Len(b) = IF found THEN 1 ELSE 0
          /\ found => b[1] = audible
      <4>1. CASE found
        <5>1. b = <<audible>>
          BY <4>1
        <5>2. QED
          BY <3>1, <4>1, <5>1
      <4>2. CASE ~found
        BY <3>2, <4>2
      <4>3. QED
        BY <4>1, <4>2
    <3>5. QED
      BY <3>3, <3>4
  <2> HIDE DEF a, b
  <2>7. /\ Len(stamped') = Len(a) + Len(b)
        /\ \A i \in 1..Len(stamped') :
               stamped'[i] = IF i <= Len(a) THEN a[i] ELSE b[i - Len(a)]
    BY <2>5, <2>6, ConcatProperties
  <2>8. \A i \in 1..Len(stamped') :
            \/ i = Len(stamped') /\ stamped'[i] = audible
            \/ i = 1 /\ reply = 0 /\ stamped'[i] = first
    BY <2>6, <2>7
  <2>9. Len(stamped') <= 2
    BY <2>6, <2>7
  <2>10. QED
    BY <1>1, <2>1, <2>2, <2>3, <2>4, <2>8, <2>9 DEF Arrival
<1>3. CASE ReadAudioDone
  <2>1. /\ stamped = <<>> /\ UNCHANGED events /\ clock' = clock + 1
        /\ reply' = 0 /\ replies' = replies + 1
        /\ stamped' = <<Stamp("AudioDone", clock')>>
    BY <1>3 DEF ReadAudioDone, Receives
  <2>2. Begun <= Begun'
    BY <1>1, <2>1 DEF Begun
  <2>3. Len(stamped') = 1 /\ stamped'[1].kind = "AudioDone" /\ stamped'[1].at = clock'
        /\ stamped'[1].reply = replies + 1
    BY <2>1 DEF Stamp
  <2>4. QED
    BY <1>1, <2>1, <2>2, <2>3 DEF Arrival
<1>4. ASSUME NEW kind \in {"ServerError"} \cup TextKinds, ReadText(kind)
      PROVE  Arrival
  <2>1. /\ stamped = <<>> /\ UNCHANGED <<events, reply, replies>> /\ clock' = clock + 1
        /\ stamped' = <<Stamp(kind, clock')>>
    BY <1>4 DEF ReadText, Receives
  <2>2. Begun <= Begun'
    BY <1>1, <2>1 DEF Begun
  <2>3. Len(stamped') = 1 /\ stamped'[1].kind = kind /\ stamped'[1].at = clock'
    BY <2>1 DEF Stamp
  <2>4. kind \notin {"FirstAudio", "Audible", "AudioDone"}
    BY StreamAssumption
  <2>5. QED
    BY <1>1, <2>1, <2>2, <2>3, <2>4 DEF Arrival
<1>5. QED
  BY <1>2, <1>3, <1>4

(* What is in the stream or was measured comes before what arrives. *)
LEMMA ArrivalStep ==
    ASSUME TypeOK, QueueInv, MeasureInv, Arrival, UNCHANGED turnVars
    PROVE  QueueInv' /\ MeasureInv'
<1> USE DEF TypeOK
<1>1. /\ clock \in Nat /\ replies \in Nat /\ reply \in 0..clock
      /\ clock' = clock + 1 /\ replies <= replies' /\ Begun <= Begun'
      /\ reply' \in {0, reply, clock'} /\ Begun \in Nat
      /\ replies' \in Nat /\ Begun' \in Nat
  <2>1. clock \in Nat /\ replies \in Nat /\ reply \in 0..clock
    BY StreamAssumption DEF StreamTypeOK
  <2>2. /\ clock' = clock + 1 /\ replies' \in {replies, replies + 1} /\ Begun <= Begun'
        /\ reply' \in {0, reply, clock'}
    BY DEF Arrival
  <2>3. replies' \in Nat /\ replies <= replies'
    BY <2>1, <2>2
  <2>4. Begun \in Nat /\ Begun' \in Nat
    <3>1. Begun = replies \/ Begun = replies + 1
      BY DEF Begun
    <3>2. Begun' = replies' \/ Begun' = replies' + 1
      BY DEF Begun
    <3>3. Begun \in Nat
      BY <2>1, <3>1
    <3>4. Begun' \in Nat
      BY <2>3, <3>2
    <3>5. QED
      BY <3>3, <3>4
  <2>5. QED
    BY <2>1, <2>2, <2>3, <2>4
<1>2. UNCHANGED <<metrics, greeted, phase, turn>> /\ UNCHANGED events
      /\ stamped = <<>> /\ Len(stamped) = 0
  BY DEF turnVars, Arrival
<1>3. \A i \in 1..Len(events) : events[i] \in Event
  BY DEF StreamTypeOK
<1>4. \A t \in Turns : metrics[t] \in Metric
  BY DEF TurnTypeOK
<1>5. ASSUME NEW j \in 1..Len(stamped')
      PROVE  LET e == stamped'[j] IN
           /\ e.at <= clock'
           /\ e.kind # "Audible" => e.at = clock'
           /\ e.kind = "Audible" => e.at = reply' /\ reply' # 0
           /\ e.kind = "FirstAudio" =>
                  reply = 0 /\ e.reply = replies + 1 /\ e.reply <= Begun' /\ reply' = e.at
           /\ e.kind = "AudioDone" => e.reply <= replies'
  BY DEF Arrival
<1>6. QueueInv'
  <2>1. ASSUME NEW i \in 1..Len(events)
        PROVE  /\ events[i].at <= clock'
               /\ events[i].kind = "FirstAudio" =>
                      events[i].reply <= Begun' /\ (reply' # 0 => events[i].at <= reply')
               /\ events[i].kind = "AudioDone" => events[i].reply <= replies'
    <3>1. events[i].at \in Nat /\ events[i].reply \in Nat /\ Old(events[i])
      BY <1>3 DEF Event, Stamps, QueueInv
    <3>2. QED
      BY <1>1, <3>1 DEF Old
  <2>2. ASSUME NEW i \in 1..Len(events), NEW j \in 1..Len(stamped')
        PROVE  Before(events[i], stamped'[j])
    <3>1. events[i].at \in Nat /\ events[i].reply \in Nat /\ Old(events[i])
      BY <1>3 DEF Event, Stamps, QueueInv
    <3>2. reply = 0 => Begun = replies
      BY DEF Begun
    <3>3. events[i].kind # "Audible" /\ stamped'[j].kind # "Audible" =>
              events[i].at < stamped'[j].at
      BY <1>1, <1>5, <3>1 DEF Old
    <3>4. events[i].kind = "FirstAudio" => events[i].at <= stamped'[j].at
      BY <1>1, <1>5, <2>1, <3>1 DEF Old
    <3>5. events[i].kind \in {"FirstAudio", "AudioDone"} /\ stamped'[j].kind = "FirstAudio" =>
              events[i].reply < stamped'[j].reply
      BY <1>1, <1>5, <3>1, <3>2 DEF Old
    <3>6. QED
      BY <3>3, <3>4, <3>5 DEF Before
  <2>3. \A i, j \in 1..Len(stamped') : i < j => Before(stamped'[i], stamped'[j])
    BY DEF Arrival, Before
  <2>4. \A i, j \in 1..Len(events) : i < j => Before(events[i], events[j])
    BY DEF QueueInv
  <2>5. \A i \in 1..Len(stamped') :
            /\ stamped'[i].at <= clock'
            /\ stamped'[i].kind = "FirstAudio" =>
                   stamped'[i].reply <= Begun' /\ (reply' # 0 => stamped'[i].at <= reply')
            /\ stamped'[i].kind = "AudioDone" => stamped'[i].reply <= replies'
    BY <1>1, <1>5
  <2>6. QED
    BY <1>2, <2>1, <2>2, <2>3, <2>4, <2>5 DEF QueueInv, Old, Before
<1>7. MeasureInv'
  <2>1. ASSUME NEW t \in Turns
        PROVE  /\ metrics[t].heard <= clock' /\ metrics[t].yield <= clock'
               /\ metrics[t].firstAudio <= clock'
               /\ reply' # 0 => metrics[t].firstAudio <= reply'
               /\ metrics[t].reply <= Begun'
               /\ \A i \in 1..Len(events) : Passed(metrics[t], events[i])
               /\ \A i \in 1..Len(stamped') : Passed(metrics[t], stamped'[i])
    <3>1. /\ metrics[t].heard \in Nat /\ metrics[t].yield \in Nat
          /\ metrics[t].firstAudio \in Nat /\ metrics[t].reply \in Nat
          /\ Past(metrics[t])
      BY <1>4 DEF Metric, MeasureInv
    <3>2. reply = 0 => Begun = replies
      BY DEF Begun
    <3>3. /\ metrics[t].heard <= clock' /\ metrics[t].yield <= clock'
          /\ metrics[t].firstAudio <= clock'
          /\ reply' # 0 => metrics[t].firstAudio <= reply'
          /\ metrics[t].reply <= Begun'
      BY <1>1, <3>1 DEF Past
    <3>4. ASSUME NEW i \in 1..Len(stamped')
          PROVE  Passed(metrics[t], stamped'[i])
      <4>1. stamped'[i].kind # "Audible" =>
                /\ metrics[t].heard < stamped'[i].at /\ metrics[t].yield < stamped'[i].at
                /\ metrics[t].firstAudio < stamped'[i].at
        <5>1. metrics[t].heard < clock' /\ metrics[t].yield < clock'
              /\ metrics[t].firstAudio < clock'
          BY <1>1, <3>1 DEF Past
        <5>2. stamped'[i].kind # "Audible" => stamped'[i].at = clock'
          BY <1>5
        <5>3. QED
          BY <5>1, <5>2
      <4>2. metrics[t].firstAudio <= stamped'[i].at
        BY <1>1, <1>5, <3>1, <3>3
      <4>3. stamped'[i].kind = "FirstAudio" => metrics[t].reply < stamped'[i].reply
        BY <1>1, <1>5, <3>1, <3>2 DEF Past
      <4>4. QED
        BY <4>1, <4>2, <4>3 DEF Passed
    <3>5. QED
      BY <3>3, <3>4 DEF MeasureInv
  <2>2. /\ phase = "greeting" => turn = NoTurn
        /\ greeted <= replies'
        /\ \A i \in 1..Len(events) : events[i].kind = "FirstAudio" => greeted < events[i].reply
        /\ \A i \in 1..Len(stamped') :
               stamped'[i].kind = "FirstAudio" => greeted < stamped'[i].reply
    <3>1. greeted \in Nat
      BY DEF TurnTypeOK
    <3>2. QED
      BY <1>1, <1>5, <3>1 DEF MeasureInv
  <2>3. QED
    BY <1>2, <2>1, <2>2 DEF MeasureInv, Past, Passed
<1>8. QED
  BY <1>6, <1>7

(* An event goes from the reader to the queue, or is dropped. *)
LEMMA EmitStep ==
    ASSUME TypeOK, QueueInv, MeasureInv, Emit, UNCHANGED turnVars
    PROVE  QueueInv' /\ MeasureInv'
<1> USE DEF TypeOK
<1>1. UNCHANGED <<metrics, greeted, phase, turn, clock, replies, reply>>
  BY DEF turnVars, Emit
<1> DEFINE h == Head(stamped)
<1>2. /\ h = stamped[1] /\ Len(stamped) \in Nat \ {0} /\ Len(stamped') = Len(stamped) - 1
      /\ \A i \in 1..Len(stamped') : i + 1 \in 1..Len(stamped) /\ stamped'[i] = stamped[i + 1]
  BY HeadTailProperties DEF Emit, StreamTypeOK
<1>3. /\ Len(events) \in Nat
      /\ \A i \in 1..Len(events') :
             \/ i \in 1..Len(events) /\ events'[i] = events[i]
             \/ i = Len(events) + 1 /\ events'[i] = h
  <2>1. h \in Event
    BY HeadTailProperties DEF Emit, StreamTypeOK
  <2>2. events' = events \/ events' = Append(events, h)
    BY DEF Emit, Offer
  <2> HIDE DEF h
  <2>3. events \in Seq(Event) /\ Len(events) \in Nat
    BY DEF StreamTypeOK
  <2>4. CASE events' = events
    BY <2>3, <2>4
  <2>5. CASE events' = Append(events, h)
    <3>1. Len(events') = Len(events) + 1 /\ events'[Len(events) + 1] = h
          /\ \A i \in 1..Len(events) : events'[i] = events[i]
      BY <2>1, <2>3, <2>5, AppendProperties
    <3>2. QED
      BY <2>3, <3>1
  <2>6. QED
    BY <2>2, <2>4, <2>5
<1>4. h = stamped[1] /\ 1 \in 1..Len(stamped)
  BY <1>2
<1> HIDE DEF h
<1>5. QueueInv'
  <2>1. \A i \in 1..Len(events') : Old(events'[i])
    BY <1>3, <1>4 DEF QueueInv
  <2>2. \A i \in 1..Len(stamped') : Old(stamped'[i])
    BY <1>2 DEF QueueInv
  <2>3. \A i, j \in 1..Len(events') : i < j => Before(events'[i], events'[j])
    BY <1>3, <1>4 DEF QueueInv
  <2>4. \A i, j \in 1..Len(stamped') : i < j => Before(stamped'[i], stamped'[j])
    <3>1. ASSUME NEW i \in 1..Len(stamped'), NEW j \in 1..Len(stamped'), i < j
          PROVE  Before(stamped'[i], stamped'[j])
      <4>1. i + 1 < j + 1 /\ i + 1 \in 1..Len(stamped) /\ j + 1 \in 1..Len(stamped)
        BY <1>2, <3>1
      <4>2. QED
        BY <1>2, <4>1 DEF QueueInv
    <3>2. QED
      BY <3>1
  <2>5. \A i \in 1..Len(events'), j \in 1..Len(stamped') : Before(events'[i], stamped'[j])
    <3>1. ASSUME NEW i \in 1..Len(events'), NEW j \in 1..Len(stamped')
          PROVE  Before(events'[i], stamped'[j])
      <4>1. 1 < j + 1 /\ j + 1 \in 1..Len(stamped) /\ stamped'[j] = stamped[j + 1]
        BY <1>2
      <4>2. QED
        BY <1>3, <1>4, <4>1 DEF QueueInv
    <3>2. QED
      BY <3>1
  <2>6. QED
    BY <1>1, <2>1, <2>2, <2>3, <2>4, <2>5 DEF QueueInv, Old, Begun, Before
<1>6. MeasureInv'
  <2>1. ASSUME NEW t \in Turns
        PROVE  /\ \A i \in 1..Len(events') : Passed(metrics[t], events'[i])
               /\ \A i \in 1..Len(stamped') : Passed(metrics[t], stamped'[i])
    BY <1>2, <1>3, <1>4 DEF MeasureInv
  <2>2. /\ \A i \in 1..Len(events') : events'[i].kind = "FirstAudio" => greeted < events'[i].reply
        /\ \A i \in 1..Len(stamped') :
               stamped'[i].kind = "FirstAudio" => greeted < stamped'[i].reply
    BY <1>2, <1>3, <1>4 DEF MeasureInv
  <2>3. QED
    BY <1>1, <2>1, <2>2 DEF MeasureInv, Past, Begun, Passed
<1>7. QED
  BY <1>5, <1>6

(* What metric n has beyond m was taken from event h. *)
Taken(m, n, h) ==
    /\ n.heard = m.heard \/ (h.kind # "Audible" /\ n.heard = h.at)
    /\ n.yield = m.yield \/ (h.kind # "Audible" /\ n.yield = h.at)
    /\ n.firstAudio = m.firstAudio \/ (h.kind = "FirstAudio" /\ n.firstAudio = h.at)
    /\ n.reply = m.reply \/ (h.kind = "FirstAudio" /\ n.reply = h.reply)

(* The loop takes the head of the queue, which was before all the rest. *)
LEMMA TakeHead ==
    ASSUME TypeOK, QueueInv, MeasureInv, NEW kinds, Receive(kinds)
    PROVE  /\ QueueInv'
           /\ Head(events) \in Event /\ Head(events).kind \in kinds /\ Old(Head(events))
           /\ \A i \in 1..Len(events') : Before(Head(events), events'[i])
           /\ \A i \in 1..Len(stamped) : Before(Head(events), stamped[i])
           /\ \A t \in Turns : Passed(metrics[t], Head(events))
           /\ Head(events).kind = "FirstAudio" => greeted < Head(events).reply
           /\ \A i \in 1..Len(events') : \E j \in 1..Len(events) : events'[i] = events[j]
<1> USE DEF TypeOK
<1>1. /\ UNCHANGED <<clock, replies, reply, stamped>>
      /\ Head(events).kind \in kinds
  BY DEF Receive
<1>2. /\ Head(events) = events[1] /\ Head(events) \in Event
      /\ Len(events) \in Nat \ {0} /\ Len(events') = Len(events) - 1
      /\ \A i \in 1..Len(events') : i + 1 \in 1..Len(events) /\ events'[i] = events[i + 1]
  BY HeadTailProperties DEF Receive, StreamTypeOK
<1>3. Head(events) = events[1] /\ 1 \in 1..Len(events)
  BY <1>2
<1>4. ASSUME NEW i \in 1..Len(events')
      PROVE  /\ i + 1 \in 1..Len(events) /\ events'[i] = events[i + 1] /\ 1 < i + 1
             /\ \A j \in 1..Len(events') : i < j => i + 1 < j + 1
  BY <1>2
<1>5. \A i \in 1..Len(events') : Old(events'[i])
  BY <1>4 DEF QueueInv
<1>6. \A i, j \in 1..Len(events') : i < j => Before(events'[i], events'[j])
  BY <1>4 DEF QueueInv
<1>7. \A i \in 1..Len(events'), j \in 1..Len(stamped) : Before(events'[i], stamped[j])
  BY <1>4 DEF QueueInv
<1>8. QueueInv'
  BY <1>1, <1>5, <1>6, <1>7 DEF QueueInv, Old, Begun, Before
<1>9. \A i \in 1..Len(events') : Before(Head(events), events'[i])
  BY <1>3, <1>4 DEF QueueInv
<1>10. QED
  BY <1>1, <1>2, <1>3, <1>4, <1>8, <1>9 DEF QueueInv, MeasureInv

(* A turn's measurements stay in order with the queue when it adds to them *)
(* what it took from there. *)
LEMMA TakeStep ==
    ASSUME TypeOK, QueueInv, MeasureInv, NEW kinds, Receive(kinds),
           UNCHANGED <<greeted, turn>>, phase' = "greeting" => phase = "greeting",
           \A t \in Turns : Taken(metrics[t], metrics'[t], Head(events))
    PROVE  QueueInv' /\ MeasureInv'
<1>1. /\ QueueInv'
      /\ Head(events) \in Event /\ Old(Head(events))
      /\ \A i \in 1..Len(events') : Before(Head(events), events'[i])
      /\ \A i \in 1..Len(stamped) : Before(Head(events), stamped[i])
      /\ \A i \in 1..Len(events') : \E j \in 1..Len(events) : events'[i] = events[j]
  BY TakeHead
<1>2. UNCHANGED <<clock, replies, reply, stamped>>
  BY DEF Receive
<1> DEFINE h == Head(events)
<1>3. h \in Event /\ Old(h)
  BY <1>1
<1> HIDE DEF h
<1>4. ASSUME NEW e, Before(h, e), NEW t \in Turns, Passed(metrics[t], e)
      PROVE  Passed(metrics'[t], e)
  <2>1. Taken(metrics[t], metrics'[t], h)
    BY DEF h
  <2>2. QED
    BY <1>4, <2>1 DEF Taken, Passed, Before
<1>5. ASSUME NEW t \in Turns
      PROVE  /\ Past(metrics'[t])
             /\ \A i \in 1..Len(events') : Passed(metrics'[t], events'[i])
             /\ \A i \in 1..Len(stamped) : Passed(metrics'[t], stamped[i])
  <2>1. Taken(metrics[t], metrics'[t], h)
    BY DEF h
  <2>2. Past(metrics'[t])
    BY <1>3, <2>1 DEF Taken, Past, Old, MeasureInv
  <2>3. \A i \in 1..Len(events') : Passed(metrics[t], events'[i])
    BY <1>1 DEF MeasureInv
  <2>4. QED
    BY <1>1, <1>4, <2>2, <2>3 DEF MeasureInv, h
<1>6. \A i \in 1..Len(events') : events'[i].kind = "FirstAudio" => greeted < events'[i].reply
  BY <1>1 DEF MeasureInv
<1>7. QED
  BY <1>1, <1>2, <1>5, <1>6 DEF MeasureInv, Past, Begun, Passed

(* A step that neither reads nor hears, but may empty the queue. *)
LEMMA KeepStep ==
    ASSUME QueueInv, MeasureInv,
           UNCHANGED <<clock, replies, reply, stamped, greeted>>,
           events' = events \/ events' = <<>>,
           phase' = "greeting" => phase = "greeting" /\ turn' = turn,
           \A t \in Turns : /\ metrics'[t].heard = metrics[t].heard
                            /\ metrics'[t].yield = metrics[t].yield
                            /\ metrics'[t].firstAudio = metrics[t].firstAudio
                            /\ metrics'[t].reply = metrics[t].reply
    PROVE  QueueInv' /\ MeasureInv'
<1>1. \A i \in 1..Len(events') : i \in 1..Len(events) /\ events'[i] = events[i]
  OBVIOUS
<1>2. QueueInv'
  BY <1>1 DEF QueueInv, Old, Begun, Before
<1>3. ASSUME NEW t \in Turns
      PROVE  (/\ Past(metrics[t])
              /\ \A i \in 1..Len(events) : Passed(metrics[t], events[i])
              /\ \A i \in 1..Len(stamped) : Passed(metrics[t], stamped[i]))'
  <2>1. /\ Past(metrics[t])
        /\ \A i \in 1..Len(events) : Passed(metrics[t], events[i])
        /\ \A i \in 1..Len(stamped) : Passed(metrics[t], stamped[i])
    BY DEF MeasureInv
  <2>2. QED
    BY <1>1, <2>1 DEF Past, Begun, Passed
<1>4. QED
  BY <1>1, <1>2, <1>3 DEF MeasureInv

(* What the instants are checked against stays as it was. *)
LEMMA SameInstants ==
    ASSUME InstantsInOrder, OneTurnPerReply, UNCHANGED greeted,
           \A t \in Turns : /\ metrics'[t].heard = metrics[t].heard
                            /\ metrics'[t].yield = metrics[t].yield
                            /\ metrics'[t].firstAudio = metrics[t].firstAudio
                            /\ metrics'[t].reply = metrics[t].reply
                            /\ metrics'[t].audible = metrics[t].audible
    PROVE  InstantsInOrder' /\ OneTurnPerReply'
<1>1. InstantsInOrder'
  BY DEF InstantsInOrder
<1>2. \A t \in Turns : \A u \in 1..(t - 1) : u \in Turns
  BY PumpAssumption DEF Turns
<1>3. OneTurnPerReply'
  BY <1>2 DEF OneTurnPerReply
<1>4. QED
  BY <1>1, <1>3

(* Fields of metric n and m that the order of instants looks at. *)
SameStamps(m, n) ==
    /\ n.heard = m.heard /\ n.yield = m.yield /\ n.audible = m.audible
    /\ n.firstAudio = m.firstAudio /\ n.reply = m.reply

(* The end of a line or of a turn stamps nothing. *)
LEMMA EndStampsNothing ==
    ASSUME NEW m \in Metric
    PROVE  /\ SameStamps(m, m)
           /\ SameStamps(m, [m EXCEPT !.played = TRUE])
           /\ SameStamps(m, [m EXCEPT !.fail = "timeout"])
           /\ SameStamps(m, [m EXCEPT !.fail = "broken"])
           /\ SameStamps(m, FellSilent(m, TRUE))
           /\ \A at \in 0..MaxMessages : SameStamps(m, [m EXCEPT !.callerStart = at])
BY DEF Metric, SameStamps, FellSilent

(* Writing in one turn a metric with the same stamps. *)
LEMMA SameMeasure ==
    ASSUME TypeOK, turn \in Turns, NEW m, Measure(m), SameStamps(metrics[turn], m)
    PROVE  \A t \in Turns : SameStamps(metrics[t], metrics'[t])
<1>1. metrics'[turn] = m /\ \A t \in Turns : t # turn => metrics'[t] = metrics[t]
  BY MeasureOne
<1>2. QED
  BY <1>1 DEF SameStamps

(* Steps that stamp nothing and read nothing. *)
LEMMA OrderKept ==
    ASSUME OrderInv, UNCHANGED <<clock, replies, reply, stamped, greeted>>,
           events' = events \/ events' = <<>>,
           phase' = "greeting" => phase = "greeting" /\ turn' = turn,
           \A t \in Turns : SameStamps(metrics[t], metrics'[t])
    PROVE  OrderInv'
<1>1. \A t \in Turns : /\ metrics'[t].heard = metrics[t].heard
                       /\ metrics'[t].yield = metrics[t].yield
                       /\ metrics'[t].firstAudio = metrics[t].firstAudio
                       /\ metrics'[t].reply = metrics[t].reply
                       /\ metrics'[t].audible = metrics[t].audible
  BY DEF SameStamps
<1>2. QED
  BY <1>1, KeepStep, SameInstants DEF OrderInv

(* Steps that take an event and stamp nothing. *)
LEMMA OrderTaken ==
    ASSUME TypeOK, OrderInv, NEW kinds, Receive(kinds),
           UNCHANGED <<greeted, turn>>, phase' = "greeting" => phase = "greeting",
           \A t \in Turns : SameStamps(metrics[t], metrics'[t])
    PROVE  OrderInv'
<1>1. \A t \in Turns : Taken(metrics[t], metrics'[t], Head(events))
  BY DEF SameStamps, Taken
<1>2. QueueInv' /\ MeasureInv'
  BY <1>1, TakeStep DEF OrderInv
<1>3. InstantsInOrder' /\ OneTurnPerReply'
  BY SameInstants DEF OrderInv, SameStamps
<1>4. QED
  BY <1>2, <1>3 DEF OrderInv

(* Steps that measure an event in the turn in progress. *)
LEMMA OrderMeasured ==
    ASSUME TypeOK, PumpInv, OrderInv, phase = "collect", NEW kinds, Receive(kinds),
           NEW m, Measure(m), Taken(metrics[turn], m, Head(events)),
           UNCHANGED <<greeted, turn, phase>>,
           m.firstAudio # 0 => m.heard < m.firstAudio /\ m.yield < m.firstAudio,
           m.audible # 0 => m.firstAudio # 0 /\ m.firstAudio <= m.audible
    PROVE  OrderInv'
<1>1. turn \in Turns
  BY DEF PumpInv, PhaseInv
<1>2. metrics'[turn] = m /\ \A t \in Turns : t # turn => metrics'[t] = metrics[t]
  BY <1>1, MeasureOne
<1>3. \A t \in Turns : Taken(metrics[t], metrics'[t], Head(events))
  BY <1>2 DEF Taken
<1>4. QueueInv' /\ MeasureInv'
  BY <1>3, TakeStep DEF OrderInv
<1>5. InstantsInOrder'
  BY <1>2 DEF InstantsInOrder, OrderInv
<1>6. OneTurnPerReply'
  <2>1. /\ \A t \in Turns : Passed(metrics[t], Head(events))
        /\ Head(events).kind = "FirstAudio" => greeted < Head(events).reply
    BY TakeHead DEF OrderInv
  <2>2. \A t \in Turns : \A u \in 1..(t - 1) : u \in Turns /\ u < t
    BY PumpAssumption DEF Turns
  <2>3. CASE m.reply = metrics[turn].reply
    BY <1>2, <2>2, <2>3 DEF OneTurnPerReply, OrderInv
  <2>4. CASE Head(events).kind = "FirstAudio" /\ m.reply = Head(events).reply
    <3>1. \A t \in Turns : t > turn => metrics[t].reply = 0
      BY DEF PumpInv, PhaseInv, HasNotBegun, Unmeasured
    <3>2. \A t \in Turns : metrics[t].reply < m.reply
      BY <2>1, <2>4 DEF Passed
    <3>3. ASSUME NEW t \in Turns, metrics'[t].reply # 0
          PROVE  /\ greeted < metrics'[t].reply
                 /\ \A u \in 1..(t - 1) : metrics'[u].reply < metrics'[t].reply
      <4>1. t < turn \/ t = turn
        BY <1>1, <1>2, <3>1, <3>3 DEF Turns
      <4>2. CASE t < turn
        <5>1. metrics'[t] = metrics[t]
              /\ \A u \in 1..(t - 1) : metrics'[u] = metrics[u]
          BY <1>1, <1>2, <2>2, <4>2 DEF Turns
        <5>2. QED
          BY <3>3, <5>1 DEF OneTurnPerReply, OrderInv
      <4>3. CASE t = turn
        <5>1. \A u \in 1..(t - 1) : metrics'[u] = metrics[u] /\ u \in Turns
          BY <1>2, <2>2, <4>3, <1>1 DEF Turns
        <5>2. QED
          BY <1>2, <2>1, <2>4, <3>2, <4>3, <5>1
      <4>4. QED
        BY <4>1, <4>2, <4>3
    <3>4. QED
      BY <3>3 DEF OneTurnPerReply
  <2>5. QED
    BY <2>3, <2>4 DEF Taken
<1>7. QED
  BY <1>4, <1>5, <1>6 DEF OrderInv

(* The greeting is taken for no turn's reply. *)
LEMMA GreetingStep ==
    ASSUME TypeOK, PumpInv, OrderInv, GreetingHeard
    PROVE  OrderInv'
<1> USE DEF TypeOK
<1> DEFINE h == Head(events)
<1>1. /\ phase = "greeting" /\ Receive({"AudioDone"}) /\ greeted' = h.reply
      /\ phase' = "playout" /\ UNCHANGED <<turn, metrics>>
      /\ UNCHANGED <<clock, replies, reply, stamped>>
  BY DEF GreetingHeard, Receive
<1>2. /\ QueueInv' /\ h \in Event /\ h.kind = "AudioDone" /\ Old(h)
      /\ \A i \in 1..Len(events') : Before(h, events'[i])
      /\ \A i \in 1..Len(stamped) : Before(h, stamped[i])
      /\ \A t \in Turns : Passed(metrics[t], h)
      /\ \A i \in 1..Len(events') : \E j \in 1..Len(events) : events'[i] = events[j]
  BY <1>1, TakeHead DEF OrderInv
<1> HIDE DEF h
<1>3. \A t \in Turns : metrics[t].reply = 0
  <2>1. turn = 0 /\ \A t \in Turns : t > 0
    BY <1>1 DEF OrderInv, MeasureInv, NoTurn, Turns
  <2>2. \A t \in Turns : HasNotBegun(t)
    BY <2>1 DEF HasNotBegun
  <2>3. QED
    BY <2>2 DEF PumpInv, PhaseInv, Unmeasured
<1>4. MeasureInv'
  <2>1. greeted' <= replies
    BY <1>1, <1>2 DEF Old
  <2>2. /\ \A i \in 1..Len(events') : events'[i].kind = "FirstAudio" => greeted' < events'[i].reply
        /\ \A i \in 1..Len(stamped) : stamped[i].kind = "FirstAudio" => greeted' < stamped[i].reply
    BY <1>1, <1>2 DEF Before
  <2>3. \A t \in Turns : \A i \in 1..Len(events') : Passed(metrics[t], events'[i])
    BY <1>2 DEF OrderInv, MeasureInv
  <2>4. QED
    BY <1>1, <2>1, <2>2, <2>3 DEF OrderInv, MeasureInv, Past, Begun, Passed
<1>5. InstantsInOrder' /\ OneTurnPerReply'
  BY <1>1, <1>3 DEF OrderInv, InstantsInOrder, OneTurnPerReply
<1>6. QED
  BY <1>2, <1>4, <1>5 DEF OrderInv

(* Every step keeps the queue and the measurements in order. *)
LEMMA StepOrder ==
    ASSUME TypeOK, PumpInv, OrderInv, [Next]_vars
    PROVE  OrderInv'
<1>1. ASSUME phase = "collect"
      PROVE  turn \in Turns /\ Current \in Metric /\ Current = metrics[turn]
  BY <1>1 DEF PumpInv, PhaseInv, Current, TypeOK, TurnTypeOK
<1>2. \A t \in Turns : SameStamps(metrics[t], metrics[t])
  BY DEF SameStamps
<1>3. ASSUME UNCHANGED streamVars
      PROVE  UNCHANGED <<clock, replies, reply, stamped, events>>
  BY <1>3 DEF streamVars
<1>4. CASE UNCHANGED <<streamVars, turnVars>>
  BY <1>2, <1>3, <1>4, OrderKept DEF turnVars
<1>5. CASE GreetingFails \/ EndTurn \/ Cancel
  BY <1>2, <1>3, <1>5, OrderKept DEF GreetingFails, EndTurn, Cancel
<1>6. CASE Drain
  BY <1>2, <1>6, OrderKept DEF Drain
<1>7. CASE StopReading /\ UNCHANGED turnVars
  BY <1>2, <1>7, OrderKept DEF StopReading, turnVars
<1>8. CASE StartSpeaking
  <2>1. turn \in Turns /\ metrics[turn] \in Metric /\ clock \in 0..MaxMessages
    BY <1>8 DEF StartSpeaking, PumpInv, PhaseInv, TypeOK, TurnTypeOK, StreamTypeOK
  <2> DEFINE m == [metrics[turn] EXCEPT !.callerStart = clock]
  <2>2. Measure(m)
    BY <1>8 DEF StartSpeaking, Measure
  <2>3. SameStamps(metrics[turn], m)
    BY <2>1, EndStampsNothing
  <2> HIDE DEF m
  <2>4. \A t \in Turns : SameStamps(metrics[t], metrics'[t])
    BY <2>1, <2>2, <2>3, SameMeasure
  <2>5. QED
    BY <1>3, <1>8, <2>4, OrderKept DEF StartSpeaking
<1>9. CASE LineIsOver
  <2>1. \A t \in Turns : SameStamps(metrics[t], metrics'[t])
    BY <1>1, <1>9, EndStampsNothing, SameMeasure DEF LineIsOver
  <2>2. QED
    BY <1>3, <1>9, <2>1, OrderKept DEF LineIsOver
<1>10. CASE Interrupt \/ Deadline \/ BreakOff
  <2>1. phase = "collect" /\ UNCHANGED streamVars
    BY <1>10 DEF Interrupt, Deadline, BreakOff
  <2>2. PICK m : Leave(m) /\ SameStamps(metrics[turn], m)
    BY <1>1, <1>10, <2>1, EndStampsNothing DEF Interrupt, Deadline, BreakOff
  <2>3. \A t \in Turns : SameStamps(metrics[t], metrics'[t])
    BY <1>1, <2>1, <2>2, SameMeasure DEF Leave
  <2>4. QED
    BY <1>3, <2>1, <2>2, <2>3, OrderKept DEF Leave
<1>11. CASE GreetingContinues
  BY <1>2, <1>11, OrderTaken DEF GreetingContinues, turnVars
<1>12. CASE HearText
  BY <1>2, <1>12, OrderTaken DEF HearText, turnVars
<1>13. CASE ReplyIsOver \/ HearError
  <2>1. phase = "collect"
    BY <1>13 DEF ReplyIsOver, HearError
  <2>2. PICK kinds : Receive(kinds)
    BY <1>13 DEF ReplyIsOver, HearError
  <2>3. PICK m : Leave(m) /\ SameStamps(metrics[turn], m)
    BY <1>1, <1>13, <2>1, EndStampsNothing DEF ReplyIsOver, HearError
  <2>4. \A t \in Turns : SameStamps(metrics[t], metrics'[t])
    BY <1>1, <2>1, <2>3, SameMeasure DEF Leave
  <2>5. QED
    BY <2>2, <2>3, <2>4, OrderTaken DEF Leave
<1>14. CASE GreetingHeard
  BY <1>14, GreetingStep
<1>15. CASE Emit /\ UNCHANGED turnVars
  BY <1>15, EmitStep, SameInstants DEF OrderInv, turnVars
<1>16. CASE (StreamNext \/ ReadText("ServerError")) /\ UNCHANGED turnVars
  <2>1. CASE Emit
    BY <1>15, <1>16, <2>1
  <2>2. CASE ~Emit
    <3>1. Arrival
      BY <1>16, <2>2, ReadsArrive DEF StreamNext, TypeOK
    <3>2. QED
      BY <1>16, <3>1, ArrivalStep, SameInstants DEF OrderInv, turnVars
  <2>3. QED
    BY <2>1, <2>2
<1>17. ASSUME phase = "collect"
      PROVE  /\ metrics[turn].firstAudio # 0 =>
                    /\ metrics[turn].heard < metrics[turn].firstAudio
                    /\ metrics[turn].yield < metrics[turn].firstAudio
             /\ metrics[turn].audible # 0 =>
                    /\ metrics[turn].firstAudio # 0
                    /\ metrics[turn].firstAudio <= metrics[turn].audible
  BY <1>1, <1>17 DEF OrderInv, InstantsInOrder
<1>18. ASSUME phase = "collect", NEW kinds, Receive(kinds)
      PROVE  /\ Passed(metrics[turn], Head(events)) /\ Head(events).kind \in kinds
             /\ Head(events).at \in Nat /\ Head(events).reply \in Nat \ {0}
             /\ Head(events).at # 0
  <2>1. Head(events) \in Event /\ Head(events).kind \in kinds
        /\ \A t \in Turns : Passed(metrics[t], Head(events))
    BY <1>18, TakeHead DEF OrderInv
  <2>2. QED
    BY <1>1, <1>18, <2>1 DEF Event, Stamps
<1>19. CASE HearUser
  <2>1. phase = "collect" /\ Receive({"UserTranscript"}) /\ UNCHANGED <<greeted, turn, phase>>
    BY <1>19 DEF HearUser
  <2>2. PICK m : /\ Measure(m)
                 /\ m = [Current EXCEPT !.heard =
                            IF Current.firstAudio = 0 THEN Head(events).at ELSE @]
    BY <1>19 DEF HearUser
  <2>3. /\ m.heard = IF metrics[turn].firstAudio = 0 THEN Head(events).at
                                                     ELSE metrics[turn].heard
        /\ m.yield = metrics[turn].yield /\ m.firstAudio = metrics[turn].firstAudio
        /\ m.reply = metrics[turn].reply /\ m.audible = metrics[turn].audible
    BY <1>1, <2>1, <2>2 DEF Metric
  <2>4. Taken(metrics[turn], m, Head(events))
    BY <1>18, <2>1, <2>3 DEF Taken
  <2>5. QED
    BY <1>17, <2>1, <2>2, <2>3, <2>4, OrderMeasured
<1>20. CASE HearAudible
  <2>1. phase = "collect" /\ Receive({"Audible"}) /\ UNCHANGED <<greeted, turn, phase>>
    BY <1>20 DEF HearAudible
  <2>2. PICK m : /\ Measure(m)
                 /\ m = [Current EXCEPT !.audible =
                            IF Current.firstAudio # 0 /\ @ = 0 THEN Head(events).at ELSE @]
    BY <1>20 DEF HearAudible
  <2>3. /\ m.audible = IF metrics[turn].firstAudio # 0 /\ metrics[turn].audible = 0
                       THEN Head(events).at ELSE metrics[turn].audible
        /\ m.yield = metrics[turn].yield /\ m.firstAudio = metrics[turn].firstAudio
        /\ m.reply = metrics[turn].reply /\ m.heard = metrics[turn].heard
    BY <1>1, <2>1, <2>2 DEF Metric
  <2>4. Taken(metrics[turn], m, Head(events))
    BY <2>3 DEF Taken
  <2>5. m.audible # 0 => m.firstAudio # 0 /\ m.firstAudio <= m.audible
    BY <1>17, <1>18, <2>1, <2>3 DEF Passed
  <2>6. QED
    BY <1>17, <2>1, <2>2, <2>3, <2>4, <2>5, OrderMeasured
<1>21. CASE HearYield
  <2>1. /\ phase = "collect" /\ Receive({"AudioDone"}) /\ UNCHANGED <<greeted, turn, phase>>
        /\ Current.firstAudio = 0
    BY <1>21 DEF HearYield
  <2>2. PICK m : /\ Measure(m)
                 /\ m = [Current EXCEPT !.yield =
                            IF turn \in Barging /\ @ = 0 THEN Head(events).at ELSE @]
    BY <1>21 DEF HearYield
  <2>3. /\ m.yield \in {metrics[turn].yield, Head(events).at}
        /\ m.audible = metrics[turn].audible /\ m.firstAudio = metrics[turn].firstAudio
        /\ m.reply = metrics[turn].reply /\ m.heard = metrics[turn].heard
    BY <1>1, <2>1, <2>2 DEF Metric
  <2>4. Taken(metrics[turn], m, Head(events))
    BY <1>18, <2>1, <2>3 DEF Taken
  <2>5. m.firstAudio = 0
    BY <1>1, <2>1, <2>3
  <2>6. QED
    BY <1>17, <2>1, <2>2, <2>3, <2>4, <2>5, OrderMeasured
<1>22. CASE HearFirstAudio
  <2>1. phase = "collect" /\ Receive({"FirstAudio"}) /\ UNCHANGED <<greeted, turn, phase>>
    BY <1>22 DEF HearFirstAudio
  <2>2. PICK m : /\ Measure(m)
                 /\ m = [Current EXCEPT
                            !.firstAudio = IF @ = 0 THEN Head(events).at ELSE @,
                            !.reply = IF @ = 0 THEN Head(events).reply ELSE @,
                            !.yielded = @ \/ speaking]
    BY <1>22 DEF HearFirstAudio
  <2>3. /\ m.firstAudio = IF metrics[turn].firstAudio = 0 THEN Head(events).at
                                                          ELSE metrics[turn].firstAudio
        /\ m.reply \in {metrics[turn].reply, Head(events).reply}
        /\ m.yield = metrics[turn].yield /\ m.heard = metrics[turn].heard
        /\ m.audible = metrics[turn].audible
    BY <1>1, <2>1, <2>2 DEF Metric
  <2>4. Taken(metrics[turn], m, Head(events))
    BY <1>18, <2>1, <2>3 DEF Taken
  <2>5. m.heard < m.firstAudio /\ m.yield < m.firstAudio
    BY <1>17, <1>18, <2>1, <2>3 DEF Passed
  <2>6. m.audible # 0 => m.firstAudio # 0 /\ m.firstAudio <= m.audible
    BY <1>17, <1>18, <2>1, <2>3
  <2>7. QED
    BY <2>1, <2>2, <2>4, <2>5, <2>6, OrderMeasured
<1>23. QED
  BY <1>4, <1>5, <1>6, <1>7, <1>8, <1>9, <1>10, <1>11, <1>12, <1>13, <1>14, <1>16,
     <1>19, <1>20, <1>21, <1>22
     DEF Next, LoopStep, TimerFires, Fault, vars

(* Nothing is in the queue and nothing was measured when the call begins. *)
LEMMA InitOrder == Init => OrderInv
<1> SUFFICES ASSUME Init PROVE OrderInv
  OBVIOUS
<1>1. /\ Len(events) = 0 /\ Len(stamped) = 0
      /\ clock = 0 /\ replies = 0 /\ reply = 0 /\ greeted = 0
      /\ phase = "greeting" => turn = NoTurn
  BY DEF Init, StreamInit, TurnInit
<1>2. \A t \in Turns : metrics[t] = Unmeasured
  BY DEF Init, TurnInit
<1>3. QueueInv
  BY <1>1 DEF QueueInv
<1>4. MeasureInv
  BY <1>1, <1>2 DEF MeasureInv, Unmeasured, Past, Begun
<1>5. InstantsInOrder /\ OneTurnPerReply
  BY <1>2 DEF InstantsInOrder, OneTurnPerReply, Unmeasured
<1>6. QED
  BY <1>3, <1>4, <1>5 DEF OrderInv

-----------------------------------------------------------------------------
(* The theorems.                                                           *)

(* The invariant, for every call. *)
THEOREM CallInvariant == Spec => []IInv
<1>1. Init => IInv
  BY InitTypes, InitPump, InitOrder DEF IInv
<1>2. IInv /\ [Next]_vars => IInv'
  BY StepTypes, StepPump, StepOrder DEF IInv, PumpInv, ChannelInv
<1>3. QED
  BY <1>1, <1>2, PTL DEF Spec

(* Every variable keeps its type: the queues stay within their capacity    *)
(* and a channel holds one instant at most. *)
THEOREM TypesHold == Spec => []TypeOK
<1>1. IInv => TypeOK
  BY DEF IInv
<1>2. QED
  BY <1>1, CallInvariant, PTL

(* Neither pump.clear nor pump.run ever waits for a reader of the channel  *)
(* that says the line is over, which pump.go takes for granted. *)
THEOREM NoticesNeverBlock == Spec => []NoticeNeverBlocks
<1>1. IInv => NoticeNeverBlocks
  BY DEF IInv, PumpInv, ChannelInv
<1>2. QED
  BY <1>1, CallInvariant, PTL

(* No frame of a line is queued outside the turn that speaks it. *)
THEOREM LinesStayInTheirTurn == Spec => []LineStaysInItsTurn
<1>1. IInv => LineStaysInItsTurn
  BY DEF IInv, PumpInv, PhaseInv, ChannelInv, FrameInv, LineStaysInItsTurn
<1>2. QED
  BY <1>1, CallInvariant, PTL

(* A turn measures pacing drift only on a line that was written whole. *)
THEOREM DriftMeansPlayed == Spec => []DriftOnlyWhenPlayed
<1>1. IInv => DriftOnlyWhenPlayed
  BY DEF IInv, PumpInv, FrameInv, DriftOnlyWhenPlayed
<1>2. QED
  BY <1>1, CallInvariant, PTL

(* No two turns measure the same reply, and no turn measures the greeting  *)
(* or a reply from before one that an earlier turn measured. *)
THEOREM RepliesAreMeasuredOnce == Spec => []OneTurnPerReply
<1>1. IInv => OneTurnPerReply
  BY DEF IInv, OrderInv
<1>2. QED
  BY <1>1, CallInvariant, PTL

(* A turn's instants come in the order its latencies are computed from. *)
THEOREM InstantsKeepTheirOrder == Spec => []InstantsInOrder
<1>1. IInv => InstantsInOrder
  BY DEF IInv, OrderInv
<1>2. QED
  BY <1>1, CallInvariant, PTL
===========================================================================
