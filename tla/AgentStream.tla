---------------------------- MODULE AgentStream ----------------------------
(***************************************************************************)
(* What the agent sends during a call, as the read loop stamps it and      *)
(* hands it to the turn loop.  Instants are counted in messages: the clock *)
(* is the number of messages stamped so far, so of two stamps the smaller  *)
(* is the earlier.  The agent is arbitrary: it may send anything at any    *)
(* time and hang up.                                                       *)
(***************************************************************************)
EXTENDS Integers, Sequences

CONSTANTS
    TextKinds,     \* kinds of text message the agent sends
    EventsCap,     \* capacity of the queue between the two loops
    MaxMessages    \* bound on the messages of a call

ASSUME StreamAssumption ==
    /\ TextKinds \subseteq {"UserTranscript", "AgentTranscript", "Notice"}
    /\ EventsCap \in Nat \ {0}
    /\ MaxMessages \in Nat

VARIABLES
    clock,       \* messages stamped so far
    replies,     \* replies the agent has finished, the greeting included
    reply,       \* when the first audio of the reply coming in was stamped;
                 \* 0 between an AgentAudioDone and the next first audio
    listening,   \* nothing audible has been found in that reply yet
    stamped,     \* events of the message in hand, not yet emitted
    events,      \* the queue
    reading      \* the read loop runs; the queue is closed after it

streamVars == <<clock, replies, reply, listening, stamped, events, reading>>

Stamps == 1..MaxMessages
(* Which reply an event belongs to is known to the agent alone. *)
Event == [kind : {"FirstAudio", "Audible", "AudioDone", "ServerError"} \cup TextKinds,
          at : Stamps, reply : Stamps]

StreamTypeOK ==
    /\ clock \in 0..MaxMessages
    /\ replies \in 0..clock
    /\ reply \in 0..clock
    /\ listening \in BOOLEAN
    /\ stamped \in Seq(Event) /\ Len(stamped) <= 2
    /\ events \in Seq(Event) /\ Len(events) <= EventsCap
    /\ reading \in BOOLEAN

StreamInit ==
    /\ clock = 0
    /\ replies = 0
    /\ reply = 0
    /\ listening = FALSE
    /\ stamped = <<>>
    /\ events = <<>>
    /\ reading = TRUE

(* The read loop is back at conn.Read and the agent has sent a message. *)
Receives ==
    /\ reading /\ stamped = <<>> /\ clock < MaxMessages
    /\ clock' = clock + 1

Stamp(kind, at) == [kind |-> kind, at |-> at, reply |-> replies + 1]

(* The events of one chunk.  The audible instant lies in the playout of    *)
(* the reply, at its first audio at the earliest.                          *)
Chunk(first, start, found) ==
    (IF first THEN <<Stamp("FirstAudio", start)>> ELSE <<>>)
    \o (IF found THEN <<Stamp("Audible", start)>> ELSE <<>>)

(* Slip: the reader forgets that a reply is coming in. *)
ReadAudioAnew(found) ==
    /\ Receives
    /\ reply' = 0
    /\ listening' = ~found
    /\ stamped' = Chunk(TRUE, clock', found)
    /\ UNCHANGED <<replies, events, reading>>

(* The first chunk of a reply, or the chunk in which the search for its    *)
(* first sound ends (found); any other chunk only lengthens the playout.   *)
ReadAudio(found) ==
    /\ reply # 0 => listening /\ found
    /\ Receives
    /\ reply' = IF reply = 0 THEN clock' ELSE reply
    /\ listening' = ~found
    /\ stamped' = Chunk(reply = 0, reply', found)
    /\ UNCHANGED <<replies, events, reading>>

ReadAudioDone ==
    /\ Receives
    /\ reply' = 0
    /\ listening' = FALSE
    /\ replies' = replies + 1
    /\ stamped' = <<Stamp("AudioDone", clock')>>
    /\ UNCHANGED <<events, reading>>

ReadText(kind) ==
    /\ Receives
    /\ stamped' = <<Stamp(kind, clock')>>
    /\ UNCHANGED <<replies, reply, listening, events, reading>>

(* The connection ends, by the agent's doing or because the call's context *)
(* was cancelled, and the read loop closes the queue.                      *)
StopReading ==
    /\ reading /\ stamped = <<>>
    /\ reading' = FALSE
    /\ UNCHANGED <<clock, replies, reply, listening, stamped, events>>

(* Slip: a queue without a limit. *)
OfferAlways(q, ev) == Append(q, ev)

(* A full queue drops the event. *)
Offer(q, ev) == IF Len(q) < EventsCap THEN Append(q, ev) ELSE q

Emit ==
    /\ stamped # <<>>
    /\ events' = Offer(events, Head(stamped))
    /\ stamped' = Tail(stamped)
    /\ UNCHANGED <<clock, replies, reply, listening, reading>>

StreamNext ==
    \/ \E found \in BOOLEAN : ReadAudio(found)
    \/ ReadAudioDone
    \/ \E kind \in TextKinds : ReadText(kind)
    \/ Emit
============================================================================
