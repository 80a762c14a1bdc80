----------------------------- MODULE CallLedger -----------------------------
(***************************************************************************)
(* What a distributed run promises of its calls, with no topic, offset,    *)
(* batch or poll in it: the steps run in order; a step sends its calls     *)
(* through a window; a call that was sent may be placed, also after its    *)
(* step has closed; a step hears of a placed call of its own once; it      *)
(* closes when it has heard of all of them, or by writing the rest off.    *)
(***************************************************************************)
EXTENDS Integers, Sequences, FiniteSets

CONSTANTS NumSteps, Calls, Concurrency

VARIABLES
    current,   \* the open step, 0 while none is
    sent,      \* calls handed out, as <<step, sequence number>>
    placed,    \* calls some worker has placed and reported
    heard,     \* sequence numbers the open step has heard of
    closed     \* per closed step: how many it heard of, how many it wrote off

ledgerVars == <<current, sent, placed, heard, closed>>

Init ==
    /\ current = 0 /\ sent = {} /\ heard = {} /\ closed = <<>>
    /\ placed = {}

SentIn(s) == {c \in sent : c[1] = s}

Open ==
    /\ current = 0
    /\ Len(closed) < NumSteps
    /\ current' = Len(closed) + 1
    /\ heard' = {}
    /\ UNCHANGED <<sent, placed, closed>>

(* The next call of the open step, within the window. *)
Send ==
    /\ current # 0
    /\ Cardinality(SentIn(current)) < Calls[current]
    /\ Cardinality(SentIn(current)) - Cardinality(heard) < Concurrency[current]
    /\ sent' = sent \cup {<<current, Cardinality(SentIn(current))>>}
    /\ UNCHANGED <<current, placed, heard, closed>>

(* Placing a call again changes nothing here. *)
Place ==
    /\ \E c \in sent \ placed : placed' = placed \cup {c}
    /\ UNCHANGED <<current, sent, heard, closed>>

Hear ==
    /\ current # 0
    /\ \E c \in placed : c[1] = current /\ c[2] \notin heard /\ heard' = heard \cup {c[2]}
    /\ UNCHANGED <<current, sent, placed, closed>>

(* A step that heard of every call wrote none off; one that did not wrote  *)
(* off all the others, or was cancelled.                                   *)
Close ==
    /\ current # 0
    /\ \E missing \in {0, Calls[current] - Cardinality(heard)} :
           closed' = Append(closed, [heard |-> Cardinality(heard), missing |-> missing])
    /\ current' = 0
    /\ heard' = {}
    /\ UNCHANGED <<sent, placed>>

Next == Open \/ Send \/ Place \/ Hear \/ Close

Spec == Init /\ [][Next]_ledgerVars
=============================================================================
