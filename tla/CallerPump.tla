---------------------------- MODULE CallerPump ----------------------------
(***************************************************************************)
(* The caller's mouth: a goroutine that writes one frame of audio per tick *)
(* and the two calls the turn loop makes on it, speak and clear.  Each     *)
(* line of the caller is known by the turn that speaks it, and so is the   *)
(* channel, buffered for one instant, on which speak's caller hears that   *)
(* the line is over.                                                       *)
(***************************************************************************)
EXTENDS Integers

CONSTANTS
    NumTurns,   \* lines the caller has to say
    Frames      \* [1..NumTurns -> frames of audio in the line]

Turns == 1..NumTurns

(* Stands for a nil channel, and for no line. *)
NoTurn == 0

(* A line may be empty: nothing checks what the synthesiser returned. *)
ASSUME PumpAssumption ==
    /\ NumTurns \in Nat \ {0}
    /\ Frames \in [Turns -> Nat]

VARIABLES
    line,       \* the line the queue holds what is left of
    queued,     \* frames left in the queue
    done,       \* the channel to tell when the queue runs empty, or NoTurn
    inFlight,   \* the frame taken and not yet written, or NoFrame
    said,       \* [Turns -> frames of the line written to the agent]
    notices,    \* [Turns -> instants the channel holds, not yet received]
    pumpOn,     \* the pump's context is live and it has not failed
    pumpErr     \* the error channel holds the pump's error

pumpVars == <<line, queued, done, inFlight, said, notices, pumpOn, pumpErr>>

NoFrame == [line |-> NoTurn, finished |-> NoTurn]

PumpTypeOK ==
    /\ line \in {NoTurn} \cup Turns
    /\ queued \in Nat
    /\ done \in {NoTurn} \cup Turns
    /\ inFlight \in [line : {NoTurn} \cup Turns, finished : {NoTurn} \cup Turns]
    /\ said \in [Turns -> Nat]
    /\ notices \in [Turns -> 0..1]
    /\ pumpOn \in BOOLEAN
    /\ pumpErr \in BOOLEAN

PumpInit ==
    /\ line = NoTurn
    /\ queued = 0
    /\ done = NoTurn
    /\ inFlight = NoFrame
    /\ said = [t \in Turns |-> 0]
    /\ notices = [t \in Turns |-> 0]
    /\ pumpOn = TRUE
    /\ pumpErr = FALSE

(* Channel ch can be sent to without waiting for a receiver. *)
HasRoom(ch) == ch # NoTurn => notices[ch] = 0

Sent(ch) == IF ch = NoTurn THEN notices ELSE [notices EXCEPT ![ch] = @ + 1]

Speak(t) ==
    /\ line' = t
    /\ queued' = Frames[t]
    /\ done' = t
    /\ UNCHANGED <<inFlight, said, notices, pumpOn, pumpErr>>

Clear ==
    /\ HasRoom(done)
    /\ queued' = 0
    /\ notices' = Sent(done)
    /\ done' = NoTurn
    /\ UNCHANGED <<line, inFlight, said, pumpOn, pumpErr>>

(* Slip: the channel is taken with the last frame and kept as well. *)
NextFrameKeepsDone ==
    /\ pumpOn /\ inFlight = NoFrame /\ queued > 0
    /\ queued' = queued - 1
    /\ inFlight' = [line |-> line, finished |-> IF queued = 1 THEN done ELSE NoTurn]
    /\ UNCHANGED <<line, done, said, notices, pumpOn, pumpErr>>

(* The pump takes a frame; with the last one it takes the channel too.  A  *)
(* frame of silence, sent while the queue is empty, is not modelled.       *)
NextFrame ==
    /\ pumpOn /\ inFlight = NoFrame /\ queued > 0
    /\ queued' = queued - 1
    /\ inFlight' = [line |-> line, finished |-> IF queued = 1 THEN done ELSE NoTurn]
    /\ done' = IF queued = 1 THEN NoTurn ELSE done
    /\ UNCHANGED <<line, said, notices, pumpOn, pumpErr>>

WriteFrame ==
    /\ inFlight # NoFrame
    /\ HasRoom(inFlight.finished)
    /\ said' = [said EXCEPT ![inFlight.line] = @ + 1]
    /\ notices' = Sent(inFlight.finished)
    /\ inFlight' = NoFrame
    /\ UNCHANGED <<line, queued, done, pumpOn, pumpErr>>

(* A write fails, of a frame of the line or of silence, and the pump ends. *)
WriteFails ==
    /\ pumpOn
    /\ pumpOn' = FALSE
    /\ pumpErr' = TRUE
    /\ inFlight' = NoFrame
    /\ UNCHANGED <<line, queued, done, said, notices>>

PumpNext == NextFrame \/ WriteFrame
===========================================================================
