------------------------- MODULE ConversationProofs -------------------------
(***************************************************************************)
(* Proofs about the two sides of a conversation: a session of the          *)
(* reference agent, for any number of replies and utterances and any of    *)
(* its settings; and a call's way through its scenario, for any scenario   *)
(* files, any phrases and any replies.                                     *)
(***************************************************************************)
EXTENDS RefAgent, ScenarioWalk, FiniteSetTheorems, WellFoundedInduction, SequenceTheorems, TLAPS

-----------------------------------------------------------------------------
(* The inductive invariant.                                                *)

(* Whoever could stop a reply that is being spoken, the flag or a watcher  *)
(* that will raise it, has exposed the reply.                              *)
FlagInv ==
    /\ OnlyAnInterruptionStopsAReply
    /\ stopSpeak \/ watchers > 0 => In("streaming") \subseteq exposed

(* Before it listens the agent has given at most the greeting.             *)
AnswerInv ==
    /\ OneAnswerPerUtterance
    /\ link \in {"settings", "greeting"} => utterances = 0 /\ ~speaking
    /\ link = "settings" => Launched = {}
    /\ link = "greeting" => Greets /\ Cardinality(Launched) = 1
    /\ speaking /\ bargeArmed => ~replied

(* An utterance is noticed to cut in at most once.                         *)
WatcherInv == watchers <= utterances

IInv == AgentTypeOK /\ WatcherInv /\ FlagInv /\ AnswerInv

-----------------------------------------------------------------------------
(* A nonempty set of natural numbers has a least element.                  *)
LEMMA LeastNat ==
    ASSUME NEW T \in SUBSET Nat, T # {}
    PROVE  Min(T) \in T /\ \A n \in T : Min(T) <= n
<1> DEFINE Before == OpToRel(<, Nat)
<1>1. IsWellFoundedOn(Before, Nat)
  BY NatLessThanWellFounded
<1>2. PICK m \in T : \A n \in T : <<n, m>> \notin Before
  <2> HIDE DEF Before
  <2>1. QED
    BY <1>1, WFMin
<1>3. \A n \in T : ~(n < m)
  BY <1>2 DEF OpToRel
<1>4. m \in T /\ \A n \in T : m <= n
  BY <1>3
<1>5. QED
  BY <1>4 DEF Min

(* A launch takes a reply that had not begun and adds it to the others.    *)
LEMMA LaunchAddsOne ==
    ASSUME AgentTypeOK, NEW kind \in {"launched", "barging"}, Launch(kind)
    PROVE  /\ phase' \in [Replies -> {"none", "launched", "barging", "transcribed",
                                      "streaming"} \cup Ended]
           /\ In("streaming")' = In("streaming")
           /\ Cardinality(Launched') = Cardinality(Launched) + 1
<1>1. /\ In("none") \subseteq Nat /\ In("none") # {}
      /\ IsFiniteSet(Replies)
  BY AgentAssumption DEF In, Launch
<1>2. Next1 \in In("none")
  BY <1>1, LeastNat DEF Next1
<1>3. /\ Next1 \in Replies /\ phase[Next1] = "none"
  BY <1>2 DEF In
<1>4. phase' = [phase EXCEPT ![Next1] = kind]
  BY DEF Launch
<1>5. phase \in [Replies -> {"none", "launched", "barging", "transcribed",
                             "streaming"} \cup Ended]
  BY DEF AgentTypeOK
<1>6. Launched' = Launched \cup {Next1} /\ Next1 \notin Launched
  BY <1>3, <1>4, <1>5 DEF Launched, In
<1>7. IsFiniteSet(Launched)
  BY <1>1, FS_Subset DEF Launched
<1>8. Cardinality(Launched') = Cardinality(Launched) + 1
  BY <1>6, <1>7, FS_AddElement
<1>9. QED
  BY <1>3, <1>4, <1>5, <1>8 DEF In

(* The other steps of a reply launch nothing.                              *)
LEMMA ReplyKeepsLaunched ==
    ASSUME AgentTypeOK, NEW r \in Replies, ReplyNext(r)
    PROVE  Launched' = Launched
BY DEF AgentTypeOK, ReplyNext, FailReply, SendTranscript, StartSpeaking,
       StopSpeaking, Launched, In, Ended

-----------------------------------------------------------------------------
(* A session starts with nothing said.                                     *)
LEMMA InvInit == AgentInit => IInv
<1> SUFFICES ASSUME AgentInit PROVE IInv
  OBVIOUS
<1> USE DEF AgentInit, NothingSaid
<1>1. AgentTypeOK
  <2>1. {speaking, replied, bargeArmed, speakingNow, stopSpeak} \subseteq BOOLEAN
    BY Zenon
  <2>2. phase \in [Replies -> {"none"}]
    OBVIOUS
  <2>3. QED
    BY <2>1, <2>2, AgentAssumption DEF AgentTypeOK
<1>2. FlagInv /\ WatcherInv
  BY DEF FlagInv, WatcherInv, OnlyAnInterruptionStopsAReply
<1>3. Launched = {}
  BY DEF Launched, In
<1>4. AnswerInv
  BY <1>3 DEF AnswerInv, OneAnswerPerUtterance
<1>5. QED
  BY <1>1, <1>2, <1>4 DEF IInv

(* Types. *)
LEMMA TypeStep ==
    ASSUME AgentTypeOK, WatcherInv, [AgentNext]_agentVars
    PROVE  AgentTypeOK' /\ WatcherInv'
<1> USE AgentAssumption DEF AgentTypeOK, WatcherInv
<1>1. CASE TakeSettings
  BY <1>1, LaunchAddsOne DEF TakeSettings, callerVars, flagVars
<1>2. CASE GreetingSpoken
  BY <1>2 DEF GreetingSpoken, callerVars, flagVars
<1>3. CASE VoiceStarts
  <2>1. {speaking', replied', bargeArmed', speakingNow', stopSpeak'} \subseteq BOOLEAN
    BY <1>3, Zenon DEF VoiceStarts
  <2>2. /\ utterances' \in 0..MaxUtterances /\ watchers' \in 0..MaxUtterances
        /\ watchers' <= utterances'
    BY <1>3 DEF VoiceStarts
  <2>3. cut' \subseteq Replies /\ exposed' \subseteq Replies
    BY <1>3 DEF VoiceStarts, In
  <2>4. QED
    BY <1>3, <2>1, <2>2, <2>3 DEF VoiceStarts
<1>4. CASE BargeIn
  BY <1>4, LaunchAddsOne DEF BargeIn, MarksReplied, flagVars
<1>5. CASE SilenceLasts
  BY <1>5, LaunchAddsOne DEF SilenceLasts, flagVars
<1>6. CASE HangUp
  BY <1>6 DEF HangUp, callerVars, flagVars
<1>7. CASE WatcherWakes
  BY <1>7 DEF WatcherWakes, callerVars
<1>8. ASSUME NEW r \in Replies, ReplyNext(r) PROVE AgentTypeOK' /\ WatcherInv'
  BY <1>8 DEF ReplyNext, FailReply, SendTranscript, StartSpeaking, ClearsStop,
              StopSpeaking, callerVars, flagVars, Ended
<1>9. CASE UNCHANGED agentVars
  BY <1>9 DEF agentVars, callerVars, flagVars
<1>10. QED
  BY <1>1, <1>2, <1>3, <1>4, <1>5, <1>6, <1>7, <1>8, <1>9 DEF AgentNext

(* The flags. *)
LEMMA FlagStep ==
    ASSUME AgentTypeOK, FlagInv, [AgentNext]_agentVars PROVE FlagInv'
<1> USE DEF FlagInv, OnlyAnInterruptionStopsAReply
<1>1. CASE TakeSettings
  <2>1. In("streaming")' = In("streaming")
    BY <1>1, LaunchAddsOne DEF TakeSettings, In
  <2>2. QED
    BY <1>1, <2>1 DEF TakeSettings, flagVars
<1>2. CASE GreetingSpoken
  BY <1>2 DEF GreetingSpoken, flagVars, In
<1>3. CASE VoiceStarts
  BY <1>3 DEF VoiceStarts, In, AgentTypeOK
<1>4. CASE BargeIn
  BY <1>4, LaunchAddsOne DEF BargeIn, flagVars
<1>5. CASE SilenceLasts
  <2>1. In("streaming")' = In("streaming")
    BY <1>5, LaunchAddsOne DEF SilenceLasts, In
  <2>2. QED
    BY <1>5, <2>1 DEF SilenceLasts, flagVars
<1>6. CASE HangUp
  BY <1>6 DEF HangUp, flagVars, In
<1>7. CASE WatcherWakes
  BY <1>7 DEF WatcherWakes, In, AgentTypeOK
<1>8. ASSUME NEW r \in Replies, FailReply(r) PROVE FlagInv'
  BY <1>8 DEF FailReply, flagVars, In, AgentTypeOK
<1>9. ASSUME NEW r \in Replies, SendTranscript(r) PROVE FlagInv'
  BY <1>9 DEF SendTranscript, flagVars, In, AgentTypeOK
<1>10. ASSUME NEW r \in Replies, StartSpeaking(r) PROVE FlagInv'
  BY <1>10 DEF StartSpeaking, ClearsStop, In, AgentTypeOK
<1>11. ASSUME NEW r \in Replies, StopSpeaking(r) PROVE FlagInv'
  BY <1>11 DEF StopSpeaking, In, AgentTypeOK
<1>12. CASE UNCHANGED agentVars
  BY <1>12 DEF agentVars, flagVars, In
<1>13. QED
  BY <1>1, <1>2, <1>3, <1>4, <1>5, <1>6, <1>7, <1>8, <1>9, <1>10, <1>11, <1>12
     DEF AgentNext, ReplyNext

(* The answers. *)
LEMMA AnswerStep ==
    ASSUME AgentTypeOK, AnswerInv, [AgentNext]_agentVars PROVE AnswerInv'
<1> USE DEF AnswerInv, OneAnswerPerUtterance
<1>0. Cardinality(Launched) \in Nat
  BY AgentAssumption, FS_Subset, FS_CardinalityType DEF Launched
<1>1. CASE TakeSettings
  <2>1. CASE Greets
    BY <1>1, <2>1, LaunchAddsOne, FS_EmptySet DEF TakeSettings, callerVars
  <2>2. CASE ~Greets
    <3>1. Launched' = {}
      BY <1>1, <2>2 DEF TakeSettings, Launched, In
    <3>2. QED
      BY <1>1, <2>2, <3>1, FS_EmptySet DEF TakeSettings, callerVars
  <2>3. QED
    BY <2>1, <2>2
<1>2. CASE GreetingSpoken
  <2>1. Launched' = Launched
    BY <1>2 DEF GreetingSpoken, Launched, In
  <2>2. QED
    BY <1>2, <2>1 DEF GreetingSpoken, callerVars
<1>3. CASE VoiceStarts
  <2>1. Launched' = Launched
    BY <1>3 DEF VoiceStarts, Launched, In
  <2>2. QED
    BY <1>0, <1>3, <2>1 DEF VoiceStarts, AgentTypeOK
<1>4. CASE BargeIn
  <2>1. Cardinality(Launched') = Cardinality(Launched) + 1
    BY <1>4, LaunchAddsOne DEF BargeIn
  <2>2. QED
    BY <1>0, <1>4, <2>1 DEF BargeIn, MarksReplied, AgentTypeOK
<1>5. CASE SilenceLasts
  <2>1. CASE replied
    <3>1. Launched' = Launched
      BY <1>5, <2>1 DEF SilenceLasts, Launched, In
    <3>2. QED
      BY <1>5, <2>1, <3>1 DEF SilenceLasts
  <2>2. CASE ~replied
    <3>1. Cardinality(Launched') = Cardinality(Launched) + 1
      BY <1>5, <2>2, LaunchAddsOne DEF SilenceLasts
    <3>2. QED
      BY <1>0, <1>5, <2>2, <3>1 DEF SilenceLasts, AgentTypeOK
  <2>3. QED
    BY <2>1, <2>2
<1>6. CASE HangUp
  BY <1>6 DEF HangUp, callerVars
<1>7. CASE WatcherWakes
  <2>1. Launched' = Launched
    BY <1>7 DEF WatcherWakes, Launched, In
  <2>2. QED
    BY <1>7, <2>1 DEF WatcherWakes, callerVars
<1>8. ASSUME NEW r \in Replies, ReplyNext(r) PROVE AnswerInv'
  <2>1. Launched' = Launched
    BY <1>8, ReplyKeepsLaunched
  <2>2. UNCHANGED <<link, callerVars>>
    BY <1>8 DEF ReplyNext, FailReply, SendTranscript, StartSpeaking, StopSpeaking
  <2>3. QED
    BY <2>1, <2>2 DEF callerVars
<1>9. CASE UNCHANGED agentVars
  <2>1. Launched' = Launched
    BY <1>9 DEF agentVars, Launched, In
  <2>2. QED
    BY <1>9, <2>1 DEF agentVars, callerVars
<1>10. QED
  BY <1>1, <1>2, <1>3, <1>4, <1>5, <1>6, <1>7, <1>8, <1>9 DEF AgentNext

(* Everything below rests on this invariant of every session. *)
THEOREM SessionInvariant == AgentSpec => []IInv
<1>1. IInv /\ [AgentNext]_agentVars => IInv'
  BY TypeStep, FlagStep, AnswerStep DEF IInv
<1>2. QED
  BY InvInit, <1>1, PTL DEF AgentSpec

(* The session's variables keep their types. *)
THEOREM SessionTypes == AgentSpec => []AgentTypeOK
<1>1. IInv => AgentTypeOK
  BY DEF IInv
<1>2. QED
  BY <1>1, SessionInvariant, PTL

(* An utterance is answered once: cmd/refagent neither answers again what  *)
(* it talked over nor leaves a finished one without a reply. *)
THEOREM UtterancesAreAnsweredOnce == AgentSpec => []OneAnswerPerUtterance
<1>1. IInv => OneAnswerPerUtterance
  BY DEF IInv, AnswerInv
<1>2. QED
  BY <1>1, SessionInvariant, PTL

(* The stop flag that ended one reply does not end a later one: whatever   *)
(* ends a reply early was noticed, or still asleep, while it was spoken. *)
THEOREM RepliesStopForAReason == AgentSpec => []OnlyAnInterruptionStopsAReply
<1>1. IInv => OnlyAnInterruptionStopsAReply
  BY DEF IInv, FlagInv
<1>2. QED
  BY <1>1, SessionInvariant, PTL

-----------------------------------------------------------------------------
(* The inductive invariant.                                                *)

Turn == [node : Int, next : Int, end : {"ok", "timeout", "failed"},
         barging : BOOLEAN, armed : BOOLEAN, check : {"none", "met", "missed"}]

(* A file is played once it has been accepted. *)
Played == playing \in {"greeting", "walking", "over"}

(* The file, and what its being accepted means. *)
ScriptInv ==
    /\ script \in [nodes : Seq(Node), maxTurns : Int]
    /\ playing = "file" => script \in Scripts
    /\ Played => Valid(Nodes, script.maxTurns)

(* Each turn is taken at a node, and at the one the turn before it led to, *)
(* which it had armed if the node interrupts.                              *)
Follows(k) ==
    IF k = 1 THEN trail[k].node = 1
    ELSE /\ trail[k].node = trail[k - 1].next
         /\ trail[k - 1].armed = trail[k].barging
TurnsInv ==
    /\ Len(trail) <= TurnLimit(script)
    /\ \A k \in 1..Len(trail) :
        /\ trail[k].node \in 1..Len(Nodes)
        /\ trail[k].barging = (Nodes[trail[k].node].bargeIn > NoBargeIn)
        /\ Follows(k)
        /\ trail[k].end = "failed" => k = Len(trail) /\ playing = "over"
        /\ Gotos(Nodes) = {} => trail[k].node = k

(* Unless its last turn failed, the call stands at the node that turn led  *)
(* to, and leaves the loop where there is no turn to take.                 *)
Failed == trail # <<>> /\ trail[Len(trail)].end = "failed"
MayTake == Len(trail) < TurnLimit(script) /\ node \in 1..Len(Nodes)
NextInv ==
    /\ node \in 1..(Len(Nodes) + 1)
    /\ trail # <<>> =>
        /\ trail[Len(trail)].next = node
        /\ trail[Len(trail)].armed = (MayTake /\ Nodes[node].bargeIn > NoBargeIn)
    /\ trail = <<>> => node = 1
    /\ Gotos(Nodes) = {} => node = Len(trail) + 1

WalkInv ==
    /\ trail \in Seq(Turn)
    /\ ScriptInv
    /\ playing \in {"file", "refused", "greeting"} => trail = <<>> /\ node = 1
    /\ Played => TurnsInv /\ (~Failed => NextInv) /\ (playing = "over" /\ ~Failed => ~MayTake)

-----------------------------------------------------------------------------
(* Where a node leads.                                                     *)

(* What a script's type says of its nodes.                                 *)
LEMMA NodesTyped ==
    ASSUME ScriptInv
    PROVE  /\ script.maxTurns \in Int /\ Nodes \in Seq(Node)
           /\ Len(Nodes) \in Nat /\ DOMAIN Nodes = 1..Len(Nodes)
           /\ \A i \in 1..Len(Nodes) :
                Nodes[i].bargeIn \in Int
                /\ Nodes[i].branch \in Seq([ifSaid : Phrases, goto : STRING])
<1>1. script.maxTurns \in Int /\ Nodes \in Seq(Node)
  BY DEF ScriptInv, Nodes
<1>2. Len(Nodes) \in Nat /\ DOMAIN Nodes = 1..Len(Nodes) /\ \A i \in 1..Len(Nodes) : Nodes[i] \in Node
  BY <1>1
<1>3. QED
  BY <1>1, <1>2 DEF Node

(* A branch that is taken goes on in the file, or where a branch of the    *)
(* scenario says.                                                          *)
LEMMA JumpsAreGotos ==
    ASSUME ScriptInv, NEW n \in 1..Len(Nodes), NEW reply
    PROVE  Jump(Nodes[n], reply) \in Gotos(Nodes) \cup {Unnamed}
<1> DEFINE lines == Nodes[n].branch
           hits == Branches(Nodes[n], reply)
<1>1. CASE hits = {}
  BY <1>1 DEF Jump
<1>2. CASE hits # {}
  <2>1. n \in DOMAIN Nodes /\ lines \in Seq([ifSaid : Phrases, goto : STRING])
    BY NodesTyped
  <2>2. hits \in SUBSET (1..Len(lines)) /\ 1..Len(lines) \subseteq Nat /\ DOMAIN lines = 1..Len(lines)
    BY <2>1 DEF Branches
  <2>3. Min(hits) \in DOMAIN lines
    BY <1>2, <2>2, LeastNat
  <2>4. lines[Min(hits)].goto \in {c.goto : c \in ToSet(lines)}
    BY <2>3 DEF ToSet
  <2>5. Jump(Nodes[n], reply) = lines[Min(hits)].goto
    BY <1>2 DEF Jump
  <2>6. \E i \in DOMAIN Nodes : Jump(Nodes[n], reply) \in {c.goto : c \in ToSet(Nodes[i].branch)}
    BY <2>1, <2>4, <2>5
  <2>7. QED
    BY <2>6, Zenon DEF Gotos
<1>3. QED
  BY <1>1, <1>2

(* Index finds a node of the scenario or the end of it.                    *)
LEMMA IndexIsInTheFile ==
    ASSUME ScriptInv, NEW id
    PROVE  Index(Nodes, id) \in 1..(Len(Nodes) + 1)
<1> DEFINE at == {i \in DOMAIN Nodes : Nodes[i].id = id} \cup {Len(Nodes) + 1}
<1>1. Len(Nodes) \in Nat /\ DOMAIN Nodes = 1..Len(Nodes)
  BY NodesTyped
<1>2. at \in SUBSET Nat /\ at # {} /\ at \subseteq 1..(Len(Nodes) + 1)
  BY <1>1
<1>3. Min(at) \in at
  BY <1>2, LeastNat
<1>4. QED
  BY <1>2, <1>3 DEF Index

(* A scenario that is accepted has a turn to take.                         *)
LEMMA LimitIsPositive ==
    ASSUME ScriptInv, Played
    PROVE  /\ TurnLimit(script) \in Nat \ {0} /\ Len(Nodes) > 0
           /\ Gotos(Nodes) = {} => TurnLimit(script) >= Len(Nodes)
           /\ Nodes[1].bargeIn = NoBargeIn
<1>1. /\ script.maxTurns \in Int /\ Len(Nodes) \in Nat /\ Nodes \in Seq(Node)
      /\ DOMAIN Nodes = 1..Len(Nodes)
  BY NodesTyped
<1>2. Valid(Nodes, script.maxTurns)
  BY DEF ScriptInv
<1>3. Len(Nodes) > 0
  BY <1>1, <1>2 DEF Valid
<1>4. Nodes[1].bargeIn = NoBargeIn
  BY <1>1, <1>2, <1>3 DEF Valid, BargeInsAreSound
<1>5. Gotos(Nodes) = {} /\ script.maxTurns > 0 => script.maxTurns >= Len(Nodes)
  BY <1>2 DEF Valid, MaxTurnsIsSound
<1>6. TurnLimit(script) = IF script.maxTurns > 0 THEN script.maxTurns ELSE Len(Nodes)
  BY DEF TurnLimit, Nodes
<1>7. QED
  BY <1>1, <1>3, <1>4, <1>5, <1>6

-----------------------------------------------------------------------------
(* The walk starts at the first node of whichever script there is.         *)
LEMMA WalkStarts == WalkInit => WalkInv
<1> SUFFICES ASSUME WalkInit PROVE WalkInv
  OBVIOUS
<1>1. /\ script \in Scripts /\ playing = "file" /\ node = 1 /\ trail = <<>>
      /\ ~Played
  BY DEF WalkInit, Played
<1>2. ScriptInv
  BY <1>1, WalkAssumption DEF ScriptInv
<1>3. QED
  BY <1>1, <1>2 DEF WalkInv

(* Loading fills in names and leaves everything else of the nodes.         *)
LEMMA LoadKeeps == ASSUME WalkInv, Load PROVE WalkInv'
<1> DEFINE nodes == WithIds(script.nodes)
<1>1. /\ trail = <<>> /\ node = 1 /\ trail' = <<>> /\ node' = 1
      /\ script \in [nodes : Seq(Node), maxTurns : Int]
  BY DEF WalkInv, ScriptInv, Load
<1>2. CASE ~Valid(nodes, script.maxTurns)
  <2>1. script' = script /\ playing' = "refused"
    BY <1>2 DEF Load
  <2>2. QED
    BY <1>1, <2>1 DEF WalkInv, ScriptInv, Played
<1>3. CASE Valid(nodes, script.maxTurns)
  <2>1. script' = [script EXCEPT !.nodes = nodes] /\ playing' = "greeting"
    BY <1>3 DEF Load
  <2>2. nodes \in Seq(Node)
    <3>1. /\ Len(script.nodes) <= Len(DefaultId) /\ DefaultId \in Seq(STRING)
          /\ script.nodes \in Seq(Node)
      BY <1>1, WalkAssumption DEF WalkInv, ScriptInv, Load
    <3>2. /\ Len(script.nodes) \in Nat /\ Len(DefaultId) \in Nat
          /\ \A i \in 1..Len(script.nodes) : script.nodes[i] \in Node /\ DefaultId[i] \in STRING
      BY <3>1
    <3>3. \A n \in Node, name \in STRING :
              [n EXCEPT !.id = IF @ = Unnamed THEN name ELSE @] \in Node
      BY DEF Node
    <3>4. \A i \in 1..Len(script.nodes) :
              [script.nodes[i] EXCEPT !.id = IF @ = Unnamed THEN DefaultId[i] ELSE @] \in Node
      BY <3>2, <3>3
    <3>5. nodes \in [1..Len(script.nodes) -> Node]
      BY <3>1, <3>4 DEF WithIds
    <3>6. QED
      BY <3>2, <3>5
  <2>3. script' \in [nodes : Seq(Node), maxTurns : Int] /\ Nodes' = nodes
        /\ script'.maxTurns = script.maxTurns
    <3> HIDE DEF nodes
    <3>1. QED
      BY <1>1, <2>1, <2>2 DEF Nodes
  <2>4. ScriptInv' /\ Played'
    <3> HIDE DEF nodes
    <3>1. QED
      BY <1>3, <2>1, <2>3 DEF ScriptInv, Played
  <2>5. TurnLimit(script)' \in Nat \ {0} /\ (Len(Nodes) > 0)'
    <3>1. Len(Nodes) \in Nat /\ Len(nodes) \in Nat /\ script.maxTurns \in Int
      BY <1>1, <2>2 DEF Nodes
    <3>2. Valid(nodes, script.maxTurns)
      BY <1>3
    <3>3. Len(nodes) > 0
      BY <2>2, <3>1, <3>2 DEF Valid
    <3>4. TurnLimit(script)' = IF script'.maxTurns > 0 THEN script'.maxTurns ELSE Len(Nodes')
      BY DEF TurnLimit, Nodes
    <3> HIDE DEF nodes
    <3>5. QED
      BY <2>3, <3>1, <3>3, <3>4
  <2>6. Len(trail') = 0
    BY <1>1
  <2>7. TurnsInv'
    BY <2>5, <2>6 DEF TurnsInv
  <2>8. NextInv'
    <3>1. Len(Nodes)' \in Nat
      BY <2>2, <2>3
    <3>2. QED
      BY <1>1, <2>6, <3>1 DEF NextInv
  <2>9. QED
    BY <1>1, <2>1, <2>4, <2>7, <2>8 DEF WalkInv
<1>4. QED
  BY <1>2, <1>3

(* The greeting takes no turn, and leaving the loop none either.           *)
LEMMA OtherStepsKeep ==
    ASSUME WalkInv, Greet \/ LeaveLoop \/ UNCHANGED walkVars PROVE WalkInv'
<1>1. script' = script /\ node' = node /\ trail' = trail /\ Nodes' = Nodes
  BY DEF Greet, LeaveLoop, walkVars, Nodes
<1>2. CASE UNCHANGED walkVars
  BY <1>1, <1>2 DEF walkVars, WalkInv, ScriptInv, Played, TurnsInv, Follows, Failed, MayTake, NextInv
<1>3. CASE Greet
  <2>1. playing = "greeting" /\ playing' = "walking" /\ Played /\ Played'
    BY <1>3 DEF Greet, Played
  <2>2. TurnsInv' /\ Failed' = Failed /\ NextInv' = NextInv
    BY <1>1, <2>1 DEF WalkInv, TurnsInv, Follows, Failed, NextInv, MayTake
  <2>3. QED
    BY <1>1, <2>1, <2>2 DEF WalkInv, ScriptInv, Played
<1>4. CASE LeaveLoop
  <2>1. playing = "walking" /\ playing' = "over" /\ Played /\ Played' /\ ScriptInv
    BY <1>4 DEF LeaveLoop, Played, WalkInv
  <2>2. ~MayTake
    BY <1>4, <2>1, NodesTyped DEF LeaveLoop, MayTake
  <2>3. TurnsInv' /\ Failed' = Failed /\ NextInv' = NextInv /\ MayTake' = MayTake
    BY <1>1, <2>1 DEF WalkInv, TurnsInv, Follows, Failed, NextInv, MayTake
  <2>4. QED
    BY <1>1, <2>1, <2>2, <2>3 DEF WalkInv, ScriptInv, Played
<1>5. QED
  BY <1>2, <1>3, <1>4

(* A turn is taken where the last one led, and leads where its node does.  *)
LEMMA TakeNodeKeeps ==
    ASSUME WalkInv, NEW reply, NEW end \in {"ok", "timeout", "failed"}, TakeNode(reply, end)
    PROVE  WalkInv'
<1> DEFINE jump == Jump(Nodes[node], said)
           next == IF jump = Unnamed THEN node + 1 ELSE Index(Nodes, jump)
           taken == [node |-> node, next |-> next, end |-> end,
                     barging |-> Nodes[node].bargeIn > NoBargeIn,
                     armed |-> Arms(next), check |-> Check(Nodes[node], reply)]
<1>0. playing = "walking" /\ Played
  BY DEF TakeNode, Played
<1>1. /\ playing = "walking" /\ Played /\ ScriptInv /\ TurnsInv /\ trail \in Seq(Turn)
  BY <1>0 DEF WalkInv
<1>16. Len(trail) \in Nat
  BY <1>1
<1>2. /\ script.maxTurns \in Int /\ Len(Nodes) \in Nat /\ DOMAIN Nodes = 1..Len(Nodes)
      /\ TurnLimit(script) \in Nat
  BY <1>1, NodesTyped, LimitIsPositive
<1>3. MayTake /\ node \in 1..Len(Nodes) /\ Len(trail) < TurnLimit(script)
  BY <1>2 DEF TakeNode, MayTake
<1>4. ~Failed /\ NextInv
  <2>1. trail # <<>> => Len(trail) \in 1..Len(trail)
    BY <1>1, <1>16
  <2>2. ~Failed
    BY <1>1, <2>1 DEF Failed, TurnsInv
  <2>3. QED
    BY <1>1, <2>2 DEF WalkInv
<1>5. /\ trail' = Append(trail, taken) /\ script' = script /\ Nodes' = Nodes
      /\ end = "failed" => playing' = "over" /\ node' = node
      /\ end # "failed" => playing' = "walking" /\ node' = next
  BY <1>1 DEF TakeNode, Nodes
<1>6. jump \in Gotos(Nodes) \cup {Unnamed}
  BY <1>1, <1>3, JumpsAreGotos
<1>7. next \in 1..(Len(Nodes) + 1) /\ (Gotos(Nodes) = {} => next = node + 1)
  <2>1. Index(Nodes, jump) \in 1..(Len(Nodes) + 1)
    BY <1>1, IndexIsInTheFile
  <2>2. node + 1 \in 1..(Len(Nodes) + 1)
    BY <1>2, <1>3
  <2> HIDE DEF jump
  <2>3. Gotos(Nodes) = {} => jump = Unnamed
    BY <1>6
  <2>4. QED
    BY <2>1, <2>2, <2>3
<1> HIDE DEF jump, next
<1>8. taken \in Turn
  <2>1. node \in Int /\ next \in Int
    BY <1>2, <1>3, <1>7
  <2>2. Check(Nodes[node], reply) \in {"none", "met", "missed"}
    BY DEF Check
  <2>3. Arms(next) \in BOOLEAN
    BY Zenon DEF Arms
  <2>5. (Nodes[node].bargeIn > NoBargeIn) \in BOOLEAN
    BY <1>1, <1>3, NodesTyped DEF NoBargeIn
  <2>4. QED
    BY <2>1, <2>2, <2>3, <2>5 DEF Turn
<1>9. /\ taken.node = node /\ taken.next = next /\ taken.end = end
      /\ taken.barging = (Nodes[node].bargeIn > NoBargeIn) /\ taken.armed = Arms(next)
  OBVIOUS
<1> HIDE DEF taken
<1>10. /\ trail' \in Seq(Turn) /\ Len(trail') = Len(trail) + 1
       /\ \A k \in 1..Len(trail) : trail'[k] = trail[k]
       /\ trail'[Len(trail) + 1] = taken
  BY <1>1, <1>5, <1>8, <1>16
<1>11. TurnsInv'
  <2>1. Len(trail') <= TurnLimit(script')
    BY <1>2, <1>3, <1>5, <1>10, <1>16
  <2>2. ASSUME NEW k \in 1..Len(trail)
        PROVE  /\ trail'[k].node \in 1..Len(Nodes)
               /\ trail'[k].barging = (Nodes[trail'[k].node].bargeIn > NoBargeIn)
               /\ Follows(k)'
               /\ trail'[k].end # "failed"
               /\ Gotos(Nodes) = {} => trail'[k].node = k
    <3>1. k # 1 => k - 1 \in 1..Len(trail)
      BY <1>16
    <3>2. Follows(k)' <=> Follows(k)
      BY <1>10, <3>1 DEF Follows
    <3>3. QED
      BY <1>1, <1>10, <3>2 DEF TurnsInv
  <2>3. /\ taken.node \in 1..Len(Nodes)
        /\ taken.barging = (Nodes[taken.node].bargeIn > NoBargeIn)
        /\ taken.end = "failed" => playing' = "over"
        /\ Gotos(Nodes) = {} => taken.node = Len(trail) + 1
    BY <1>3, <1>4, <1>5, <1>9 DEF NextInv
  <2>4. ASSUME NEW k, k = Len(trail) + 1
        PROVE  Follows(k)'
    <3>1. CASE Len(trail) = 0
      <4>1. trail = <<>>
        BY <1>1, <3>1
      <4>2. node = 1 /\ k = 1 /\ trail'[k] = taken
        BY <1>4, <1>10, <2>4, <3>1, <4>1 DEF NextInv
      <4>3. QED
        BY <1>9, <4>2 DEF Follows
    <3>2. CASE Len(trail) # 0
      <4>1. trail # <<>> /\ Len(trail) \in 1..Len(trail) /\ k - 1 = Len(trail) /\ k # 1
        BY <1>1, <1>16, <2>4, <3>2
      <4>2. /\ trail[Len(trail)].next = node
            /\ trail[Len(trail)].armed = (Nodes[node].bargeIn > NoBargeIn)
        BY <1>3, <1>4, <4>1 DEF NextInv
      <4>3. trail'[k - 1] = trail[Len(trail)] /\ trail'[k] = taken
        BY <1>10, <2>4, <4>1
      <4>4. QED
        BY <1>9, <4>1, <4>2, <4>3 DEF Follows
    <3>3. QED
      BY <3>1, <3>2
  <2>5. \A k \in 1..Len(trail') : k \in 1..Len(trail) \/ k = Len(trail) + 1
    BY <1>16, <1>10
  <2>6. ASSUME NEW k \in 1..Len(trail')
        PROVE  /\ trail'[k].node \in 1..Len(Nodes)
               /\ trail'[k].barging = (Nodes[trail'[k].node].bargeIn > NoBargeIn)
               /\ Follows(k)'
               /\ trail'[k].end = "failed" => k = Len(trail') /\ playing' = "over"
               /\ Gotos(Nodes) = {} => trail'[k].node = k
    <3>1. CASE k \in 1..Len(trail)
      BY <2>2, <3>1
    <3>2. CASE k = Len(trail) + 1
      BY <1>10, <2>3, <2>4, <3>2
    <3>3. QED
      BY <2>5, <3>1, <3>2
  <2>7. QED
    BY <1>5, <2>1, <2>6 DEF TurnsInv
<1>12. trail'[Len(trail')] = taken /\ trail' # <<>> /\ (Failed' <=> end = "failed")
  BY <1>16, <1>9, <1>10 DEF Failed
<1>13. end # "failed" => NextInv'
  <2> SUFFICES ASSUME end # "failed" PROVE NextInv'
    OBVIOUS
  <2>1. Arms(next) = (MayTake' /\ Nodes'[node'].bargeIn > NoBargeIn)
    BY <1>2, <1>5, <1>10, <1>16, <1>7 DEF Arms, MayTake
  <2>2. Gotos(Nodes') = {} => node' = Len(trail') + 1
    BY <1>4, <1>5, <1>7, <1>10, <1>16 DEF NextInv
  <2>3. node' \in 1..(Len(Nodes') + 1)
    BY <1>5, <1>7
  <2>4. QED
    BY <1>5, <1>9, <1>12, <2>1, <2>2, <2>3 DEF NextInv
<1>14. ScriptInv' /\ playing' \in {"walking", "over"} /\ (playing' = "over" => Failed')
  BY <1>1, <1>5, <1>12 DEF ScriptInv, Played
<1>15. QED
  BY <1>10, <1>11, <1>12, <1>13, <1>14 DEF WalkInv

-----------------------------------------------------------------------------
(* A file that is accepted is played as it reads, from its first node, one *)
(* turn at a node the turn before led to and had armed if it interrupts,   *)
(* no more of them than its limit, and to its end (scenario.validate and   *)
(* worker.Run's loop).                                                     *)
THEOREM ScriptIsFollowed == WalkSpec => []WalkFollowsTheScript
<1>1. WalkInv /\ [WalkNext]_walkVars => WalkInv'
  BY LoadKeeps, OtherStepsKeep, TakeNodeKeeps DEF WalkNext
<1>2. WalkInv => WalkFollowsTheScript
  <2> SUFFICES ASSUME WalkInv, playing \in {"walking", "over"} PROVE WalkFollowsTheScript
    BY DEF WalkFollowsTheScript
  <2>1. /\ Played /\ ScriptInv /\ TurnsInv /\ (~Failed => NextInv)
        /\ playing = "over" /\ ~Failed => ~MayTake
        /\ trail \in Seq(Turn) /\ Len(trail) \in Nat /\ DOMAIN trail = 1..Len(trail)
    BY DEF WalkInv, Played
  <2>2. /\ script.maxTurns \in Int /\ Len(Nodes) \in Nat /\ DOMAIN Nodes = 1..Len(Nodes)
        /\ TurnLimit(script) \in Nat \ {0} /\ Len(Nodes) > 0
        /\ Gotos(Nodes) = {} => TurnLimit(script) >= Len(Nodes)
        /\ Nodes[1].bargeIn = NoBargeIn /\ Nodes \in Seq(Node)
    BY <2>1, NodesTyped, LimitIsPositive
  <2>3. ASSUME NEW k \in 1..Len(trail)
        PROVE  /\ trail[k].node \in DOMAIN Nodes
               /\ k > 1 => /\ trail[k].node = trail[k - 1].next
                           /\ trail[k - 1].armed = trail[k].barging
               /\ k = 1 => trail[k].node = 1 /\ ~trail[k].barging
               /\ trail[k].end = "failed" => k = Len(trail)
    <3>1. /\ trail[k].node \in 1..Len(Nodes) /\ Follows(k)
          /\ trail[k].barging = (Nodes[trail[k].node].bargeIn > NoBargeIn)
          /\ trail[k].end = "failed" => k = Len(trail)
      BY <2>1 DEF TurnsInv
    <3>2. k = 1 => trail[k].node = 1 /\ ~trail[k].barging
      <4>1. ~(Nodes[1].bargeIn > NoBargeIn)
        BY <2>2 DEF NoBargeIn
      <4>2. k = 1 => trail[k].node = 1
        BY <3>1 DEF Follows
      <4>3. QED
        BY <3>1, <4>1, <4>2
    <3>3. k > 1 => trail[k].node = trail[k - 1].next /\ trail[k - 1].armed = trail[k].barging
      <4>1. k > 1 => k # 1
        BY <2>1
      <4>2. QED
        BY <3>1, <4>1 DEF Follows
    <3>4. QED
      BY <2>2, <3>1, <3>2, <3>3
  <2>4. ASSUME playing = "over", trail = <<>> \/ Last(trail).end # "failed"
        PROVE  /\ trail # <<>> /\ ~Last(trail).armed
               /\ Gotos(Nodes) = {} => [k \in DOMAIN trail |-> trail[k].node] = [k \in DOMAIN Nodes |-> k]
               /\ Gotos(Nodes) # {} /\ Len(trail) < TurnLimit(script) => Last(trail).next > Len(Nodes)
    <3>1. ~Failed /\ NextInv /\ ~MayTake
      BY <2>1, <2>4 DEF Failed, Last
    <3>2. trail # <<>>
      <4> SUFFICES ASSUME trail = <<>> PROVE FALSE
        OBVIOUS
      <4>1. node = 1 /\ Len(trail) = 0
        BY <3>1 DEF NextInv
      <4>2. QED
        BY <2>2, <3>1, <4>1 DEF MayTake
    <3>3. Last(trail).next = node /\ ~Last(trail).armed
      BY <3>1, <3>2 DEF NextInv, Last
    <3>4. Gotos(Nodes) = {} => Len(trail) = Len(Nodes)
      <4> SUFFICES ASSUME Gotos(Nodes) = {} PROVE Len(trail) = Len(Nodes)
        OBVIOUS
      <4>1. node = Len(trail) + 1 /\ node \in 1..(Len(Nodes) + 1) /\ TurnLimit(script) >= Len(Nodes)
        BY <2>2, <3>1 DEF NextInv
      <4>2. ~(Len(trail) < TurnLimit(script) /\ node \in 1..Len(Nodes))
        BY <3>1 DEF MayTake
      <4>3. Len(trail) \in Nat /\ Len(Nodes) \in Nat /\ TurnLimit(script) \in Nat
        BY <2>1, <2>2
      <4>4. QED
        BY <4>1, <4>2, <4>3
    <3>5. Gotos(Nodes) = {} => [k \in DOMAIN trail |-> trail[k].node] = [k \in DOMAIN Nodes |-> k]
      BY <2>1, <2>2, <3>4 DEF TurnsInv
    <3>6. Len(trail) < TurnLimit(script) => node > Len(Nodes)
      BY <2>2, <3>1 DEF NextInv, MayTake
    <3>7. QED
      BY <3>2, <3>3, <3>5, <3>6
  <2>5. QED
    BY <2>1, <2>3, <2>4 DEF WalkFollowsTheScript, TurnsInv
<1>3. QED
  BY WalkStarts, <1>1, <1>2, PTL DEF WalkSpec
=============================================================================
