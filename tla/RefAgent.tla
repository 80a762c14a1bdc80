------------------------------ MODULE RefAgent ------------------------------
(***************************************************************************)
(* One connection of cmd/refagent, the calibration target: a goroutine     *)
(* that reads the caller's frames and decides when a turn is over, a       *)
(* goroutine per reply, and a goroutine per noticed interruption, which    *)
(* stops whatever the agent is saying when it wakes.  What is sent is      *)
(* abstracted to the phase a reply is in.                                  *)
(***************************************************************************)
EXTENDS Naturals, FiniteSets

CONSTANTS
    Replies,       \* a number for every reply the session may give
    Greets,        \* the caller's settings carry a greeting
    BargesIn,      \* -barge-in is set: the agent talks over the caller
    Yields,        \* -yield is set: the agent stops when talked over
    MaxUtterances, \* bound on what the caller says
    MayFail        \* -fail-rate is set

ASSUME AgentAssumption ==
    /\ Replies \subseteq Nat /\ IsFiniteSet(Replies)
    /\ MaxUtterances \in Nat
    /\ {Greets, BargesIn, Yields, MayFail} \subseteq BOOLEAN

VARIABLES
    link,          \* "settings", "greeting", "listening" or "closed"
    speaking,      \* the caller is inside an utterance
    replied,       \* which has been answered already
    bargeArmed,    \* and will be cut into
    utterances,    \* how many the caller has begun
    phase,         \* where each reply is
    speakingNow,   \* the session's two shared flags
    stopSpeak,
    watchers,      \* sleeping interruptions
    exposed,       \* replies that an interruption could stop: one was asleep
                   \* when they began, or was noticed while they were spoken
    cut            \* replies that stopped before their end

callerVars == <<speaking, replied, bargeArmed, utterances>>
flagVars == <<speakingNow, stopSpeak, watchers, exposed, cut>>
agentVars == <<link, callerVars, phase, flagVars>>

In(p) == {r \in Replies : phase[r] = p}
Launched == Replies \ In("none")
Next1 == CHOOSE r \in In("none") : \A q \in In("none") : r <= q
Ended == {"sent", "failed"}

NothingSaid ==
    /\ speaking = FALSE /\ replied = FALSE /\ bargeArmed = FALSE
    /\ utterances = 0
    /\ phase = [r \in Replies |-> "none"]
    /\ speakingNow = FALSE /\ stopSpeak = FALSE
    /\ watchers = 0 /\ exposed = {} /\ cut = {}

AgentInit == NothingSaid /\ link = "settings"

Launch(kind) ==
    /\ In("none") # {}
    /\ phase' = [phase EXCEPT ![Next1] = kind]

(* awaitSettings, then the greeting, which is spoken before anything is    *)
(* listened to.                                                            *)
TakeSettings ==
    /\ link = "settings"
    /\ IF Greets THEN link' = "greeting" /\ Launch("launched")
                 ELSE link' = "listening" /\ UNCHANGED phase
    /\ UNCHANGED <<callerVars, flagVars>>

GreetingSpoken ==
    /\ link = "greeting" /\ \A r \in Launched : phase[r] \in Ended
    /\ link' = "listening"
    /\ UNCHANGED <<callerVars, phase, flagVars>>

-----------------------------------------------------------------------------
(* listen: one frame of the caller's audio. *)

(* The caller has cut in while the agent was in the middle of a reply. *)
CutsIn == Yields /\ speakingNow

(* The first voiced frame of an utterance. *)
VoiceStarts ==
    /\ link = "listening" /\ ~speaking /\ utterances < MaxUtterances
    /\ speaking' = TRUE /\ replied' = FALSE /\ bargeArmed' = BargesIn
    /\ utterances' = utterances + 1
    /\ IF CutsIn
       THEN watchers' = watchers + 1 /\ exposed' = exposed \cup In("streaming")
       ELSE UNCHANGED <<watchers, exposed>>
    /\ UNCHANGED <<link, phase, speakingNow, stopSpeak, cut>>

(* Slip: the talked-over utterance is answered again at its end. *)
AnswersAgain == UNCHANGED replied

(* The utterance counts as answered. *)
MarksReplied == replied' = TRUE

(* A later voiced frame, -barge-in into the utterance. *)
BargeIn ==
    /\ link = "listening" /\ speaking /\ bargeArmed
    /\ bargeArmed' = FALSE
    /\ MarksReplied
    /\ Launch("barging")
    /\ UNCHANGED <<link, speaking, utterances, flagVars>>

(* Silence that has lasted the hangover. *)
SilenceLasts ==
    /\ link = "listening" /\ speaking
    /\ speaking' = FALSE
    /\ IF replied THEN UNCHANGED phase ELSE Launch("launched")
    /\ UNCHANGED <<link, replied, bargeArmed, utterances, flagVars>>

(* The read fails; the handler returns and its context is done. *)
HangUp ==
    /\ link \in {"settings", "listening"}
    /\ link' = "closed"
    /\ UNCHANGED <<callerVars, phase, flagVars>>

-----------------------------------------------------------------------------
(* reply. *)

(* -fail-rate: an Error in place of the reply. *)
FailReply(r) ==
    /\ MayFail /\ phase[r] \in {"launched", "barging"}
    /\ phase' = [phase EXCEPT ![r] = "failed"]
    /\ UNCHANGED <<link, callerVars, flagVars>>

(* The user's transcript, which a reply that talks over its caller skips. *)
SendTranscript(r) ==
    /\ phase[r] = "launched"
    /\ phase' = [phase EXCEPT ![r] = "transcribed"]
    /\ UNCHANGED <<link, callerVars, flagVars>>

(* Slip: the flag an earlier reply was stopped by is still up. *)
KeepsStop == UNCHANGED stopSpeak

(* A reply starts with the flag down. *)
ClearsStop == stopSpeak' = FALSE

(* AgentStartedSpeaking, and the two flags. *)
StartSpeaking(r) ==
    /\ phase[r] \in {"launched", "barging", "transcribed"}
    /\ phase' = [phase EXCEPT ![r] = "streaming"]
    /\ ClearsStop
    /\ speakingNow' = TRUE
    /\ exposed' = IF watchers > 0 THEN exposed \cup {r} ELSE exposed
    /\ UNCHANGED <<link, callerVars, watchers, cut>>

(* streamSpeech's last chunk is sent, a chunk finds the flag up, or the    *)
(* connection is gone; AgentAudioDone follows in every case.  Another      *)
(* reply may still be streaming when speakingNow goes down.                *)
StopSpeaking(r) ==
    /\ phase[r] = "streaming"
    /\ \/ UNCHANGED cut
       \/ stopSpeak /\ cut' = cut \cup {r}
    /\ phase' = [phase EXCEPT ![r] = "sent"]
    /\ speakingNow' = FALSE
    /\ UNCHANGED <<link, callerVars, stopSpeak, watchers, exposed>>

(* The goroutine of an interruption wakes, after -yield or at the end of   *)
(* the connection.                                                         *)
WatcherWakes ==
    /\ watchers > 0
    /\ watchers' = watchers - 1
    /\ stopSpeak' = TRUE
    /\ UNCHANGED <<link, callerVars, phase, speakingNow, exposed, cut>>

-----------------------------------------------------------------------------
ReplyNext(r) == FailReply(r) \/ SendTranscript(r) \/ StartSpeaking(r) \/ StopSpeaking(r)

AgentNext ==
    \/ TakeSettings \/ GreetingSpoken \/ VoiceStarts \/ BargeIn \/ SilenceLasts
    \/ HangUp \/ WatcherWakes
    \/ \E r \in Replies : ReplyNext(r)

(* Sleeps end and goroutines run; a caller owes nothing. *)
AgentFairness ==
    /\ WF_agentVars(GreetingSpoken) /\ WF_agentVars(WatcherWakes)
    /\ \A r \in Replies : WF_agentVars(ReplyNext(r))

AgentSpec == AgentInit /\ [][AgentNext]_agentVars /\ AgentFairness

-----------------------------------------------------------------------------
AgentTypeOK ==
    /\ link \in {"settings", "greeting", "listening", "closed"}
    /\ {speaking, replied, bargeArmed, speakingNow, stopSpeak} \subseteq BOOLEAN
    /\ utterances \in 0..MaxUtterances /\ watchers \in 0..MaxUtterances
    /\ phase \in [Replies -> {"none", "launched", "barging", "transcribed",
                              "streaming"} \cup Ended]
    /\ cut \subseteq Replies /\ exposed \subseteq Replies

(* Every utterance is answered once: one that was talked over is not       *)
(* answered again at its end, and a finished one is never left without     *)
(* ("An utterance we already cut into does not get a second answer").      *)
OneAnswerPerUtterance ==
    LET answered == Cardinality(Launched) - (IF Greets THEN 1 ELSE 0)
        open == IF speaking /\ ~replied THEN 1 ELSE 0
    IN link = "listening" => answered = utterances - open

(* A reply stops early only if an interruption was noticed while it was    *)
(* spoken, or was still asleep when it began: the flag that stopped one    *)
(* reply does not reach the next by itself.                                *)
OnlyAnInterruptionStopsAReply == cut \subseteq exposed

(* When the caller has hung up, every goroutine of the session comes to    *)
(* its end.                                                                *)
SessionLeavesNothing ==
    [](link = "closed" => <>(watchers = 0 /\ \A r \in Launched : phase[r] \in Ended))
=============================================================================
