---------------------------- MODULE ScenarioWalk ----------------------------
(***************************************************************************)
(* A scenario and a call's way through it: scenario.validate decides which *)
(* files are played, and worker.Run walks the nodes of an accepted one,    *)
(* choosing each line by what the agent said last and arming an            *)
(* interruption one turn before the node that makes it.  CallTurn models   *)
(* what happens within a turn; here a turn is one step.  A reply with      *)
(* words is known by the phrases it contains, which may be none of them.   *)
(***************************************************************************)
EXTENDS Integers, Sequences, SequencesExt, FiniteSetsExt

CONSTANTS
    Scripts,      \* scenario files: [nodes, maxTurns]
    Phrases,      \* what branches and checks look for
    Unnamed,      \* a node's id, or a branch's goto, left out
    DefaultId     \* turn-1, turn-2 ...

(* A node as a file may hold it: its name, its branches, after how long it *)
(* interrupts the agent, and its assertion if it has one.                  *)
Node ==
    [id : STRING, branch : Seq([ifSaid : Phrases, goto : STRING]),
     bargeIn : Int, expect : SUBSET [any : SUBSET Phrases, not : SUBSET Phrases]]

ASSUME WalkAssumption ==
    /\ \A s \in Scripts : s \in [nodes : Seq(Node), maxTurns : Int]
    /\ DefaultId \in Seq(STRING) /\ Unnamed \notin Range(DefaultId)
    /\ \A s \in Scripts : Len(s.nodes) <= Len(DefaultId)

VARIABLES
    script,       \* the file, its ids filled in once it is loaded
    playing,        \* "file", "refused", "greeting", "walking", "over"
    node,         \* i: the node that comes next
    said,         \* lastAgentText: the phrases of the last reply with words
    trail         \* the turns taken: the node, whether it barges in, whether
                  \* the next one's interruption was armed, how it ended

walkVars == <<script, playing, node, said, trail>>

Nodes == script.nodes
NoBargeIn == 0

-----------------------------------------------------------------------------
(* scenario.validate. *)

WithIds(nodes) ==
    [i \in DOMAIN nodes |-> [nodes[i] EXCEPT !.id = IF @ = Unnamed THEN DefaultId[i] ELSE @]]

NodeIDs(nodes) == {nodes[i].id : i \in DOMAIN nodes}
Gotos(nodes) ==
    (UNION {{b.goto : b \in ToSet(nodes[i].branch)} : i \in DOMAIN nodes}) \ {Unnamed}

GotosExist(nodes) == Gotos(nodes) \subseteq NodeIDs(nodes)

(* An interruption needs a reply to interrupt; NoBargeIn is the field left *)
(* out, and a negative one is refused.                                     *)
BargeInsAreSound(nodes) ==
    \A i \in DOMAIN nodes : nodes[i].bargeIn >= NoBargeIn /\ (i = 1 => nodes[i].bargeIn = NoBargeIn)

(* Jumps need a bound, and without jumps the bound may not cut the script. *)
MaxTurnsIsSound(nodes, max) ==
    /\ max >= 0
    /\ Gotos(nodes) # {} => max > 0
    /\ Gotos(nodes) = {} /\ max > 0 => max >= Len(nodes)

Valid(nodes, max) ==
    /\ nodes # <<>>
    /\ Cardinality(NodeIDs(nodes)) = Len(nodes)
    /\ GotosExist(nodes) /\ BargeInsAreSound(nodes) /\ MaxTurnsIsSound(nodes, max)
    /\ \A i \in DOMAIN nodes : [any |-> {}, not |-> {}] \notin nodes[i].expect

-----------------------------------------------------------------------------
(* The operators of a loaded scenario. *)

(* Choose: the first branch whose phrase the reply contains. *)
Branches(t, reply) == {i \in DOMAIN t.branch : t.branch[i].ifSaid \in reply}
Jump(t, reply) ==
    IF Branches(t, reply) = {} THEN Unnamed ELSE t.branch[Min(Branches(t, reply))].goto

Index(nodes, id) == Min({i \in DOMAIN nodes : nodes[i].id = id} \cup {Len(nodes) + 1})

TurnLimit(s) == IF s.maxTurns > 0 THEN s.maxTurns ELSE Len(s.nodes)

(* A turn has a reply with words, or none. *)
NoReply == <<>>
SomeReply == {NoReply} \cup {<<phrases>> : phrases \in SUBSET Phrases}

(* Check.  A node has at most one assertion; a turn without a reply missed *)
(* it, also one that only forbids phrases.                                 *)
Check(t, reply) ==
    IF t.expect = {} THEN "none"
    ELSE IF reply # NoReply /\ \A e \in t.expect :
                e.not \cap reply[1] = {} /\ (e.any = {} \/ e.any \cap reply[1] # {})
    THEN "met" ELSE "missed"

-----------------------------------------------------------------------------
WalkInit ==
    /\ script \in Scripts
    /\ playing = "file" /\ node = 1 /\ said = {} /\ trail = <<>>

Load ==
    /\ playing = "file"
    /\ LET nodes == WithIds(script.nodes) IN
         IF Valid(nodes, script.maxTurns)
         THEN playing' = "greeting" /\ script' = [script EXCEPT !.nodes = nodes]
         ELSE playing' = "refused" /\ UNCHANGED script
    /\ UNCHANGED <<node, said, trail>>

(* awaitGreeting, when the target greets: its words count as a reply. *)
Greet ==
    /\ playing = "greeting"
    /\ said' \in SUBSET Phrases
    /\ playing' = "walking"
    /\ UNCHANGED <<script, node, trail>>

(* Slip: the interruption is armed for the node after this one in the file. *)
ArmsTheNextLine(next) ==
    /\ node + 1 \in DOMAIN Nodes /\ Len(trail) + 1 < TurnLimit(script)
    /\ Nodes[node + 1].bargeIn > NoBargeIn

(* This turn's reply is cut into by the turn that follows it. *)
Arms(next) ==
    /\ next \in DOMAIN Nodes /\ Len(trail) + 1 < TurnLimit(script)
    /\ Nodes[next].bargeIn > NoBargeIn

(* One pass of worker.Run's loop.  The next node is decided before the     *)
(* line is spoken, on the reply before it.  A turn without words leaves    *)
(* the last reply in place.                                                *)
TakeNode(reply, end) ==
    /\ playing = "walking"
    /\ Len(trail) < TurnLimit(script) /\ node \in DOMAIN Nodes
    /\ LET jump == Jump(Nodes[node], said)
           next == IF jump = Unnamed THEN node + 1 ELSE Index(Nodes, jump)
       IN /\ trail' = Append(trail, [node |-> node, next |-> next, end |-> end,
                         barging |-> Nodes[node].bargeIn > NoBargeIn,
                         armed |-> Arms(next), check |-> Check(Nodes[node], reply)])
          /\ IF end = "failed" THEN playing' = "over" /\ UNCHANGED node
                               ELSE node' = next /\ UNCHANGED playing
    /\ said' = IF reply = NoReply THEN said ELSE reply[1]
    /\ UNCHANGED script

LeaveLoop ==
    /\ playing = "walking"
    /\ ~(Len(trail) < TurnLimit(script) /\ node \in DOMAIN Nodes)
    /\ playing' = "over"
    /\ UNCHANGED <<script, node, said, trail>>

WalkNext ==
    \/ Load \/ Greet \/ LeaveLoop
    \/ \E reply \in SomeReply, end \in {"ok", "timeout", "failed"} : TakeNode(reply, end)

WalkSpec == WalkInit /\ [][WalkNext]_walkVars

-----------------------------------------------------------------------------
(* A file that is accepted is played as it reads: every turn lies on a     *)
(* node, follows from the one before, and there are no more than its       *)
(* limit; an interruption is armed exactly one turn before the node that   *)
(* makes it, wherever a branch jumped; and a script without jumps that no  *)
(* fatal turn cut short is played to its last node.                        *)
WalkFollowsTheScript ==
    playing \in {"walking", "over"} =>
        /\ Len(trail) <= TurnLimit(script)
        /\ \A k \in DOMAIN trail :
            /\ trail[k].node \in DOMAIN Nodes
            /\ k > 1 => /\ trail[k].node = trail[k - 1].next
                        /\ trail[k - 1].armed = trail[k].barging
            /\ k = 1 => trail[k].node = 1 /\ ~trail[k].barging
            /\ trail[k].end = "failed" => k = Len(trail)
        /\ playing = "over" /\ (trail = <<>> \/ Last(trail).end # "failed") =>
            /\ trail # <<>> /\ ~Last(trail).armed
            /\ Gotos(Nodes) = {} => [k \in DOMAIN trail |-> trail[k].node] = [k \in DOMAIN Nodes |-> k]
            /\ Gotos(Nodes) # {} /\ Len(trail) < TurnLimit(script) => Last(trail).next > Len(Nodes)
=============================================================================
