----------------------------- MODULE MCLocalRun -----------------------------
(***************************************************************************)
(* Small instances of a run inside one process and of what its calls rest  *)
(* on: the caller's voice, the way through the scenario, and the reference *)
(* agent at the other end.  The four share no variable, so the check looks *)
(* at one of them at a time and the others are over before they start.     *)
(***************************************************************************)
EXTENDS LocalRun, RefAgent, SpeechCache, ScenarioWalk

VARIABLE chosen   \* the component this behaviour is about

vars == <<chosen, localVars, agentVars, cacheVars, walkVars>>

(* A budget that two slots race for, then a held step. *)
TwoSteps == <<[calls |-> 2, held |-> FALSE, slots |-> 2],
              [calls |-> 0, held |-> TRUE, slots |-> 1]>>
PlainOrMatrix == {<<>>, <<Clean, "lossy">>}
Found == {Clean, "left over"}

(* A node's line, and a branch's that shares a sentence with it. *)
TwoLines == <<<<"hello">>, <<"hello", "goodbye">>>>
CallersOf == [p \in Procs |-> IF p \in Warms THEN 2 ELSE 1]

(* Scenario files: nodes that may name themselves, check a reply, barge in *)
(* and jump, in files that are played and files that are refused.          *)
Ids == <<"turn-1", "turn-2", "turn-3", "turn-4">>
Plain == [id |-> Unnamed, branch |-> <<>>, bargeIn |-> 0, expect |-> {}]
Asks == [Plain EXCEPT !.id = "ask", !.expect = {[any |-> {"refund"}, not |-> {"sorry"}]}]
Cuts == [Plain EXCEPT !.bargeIn = 1]
Returns(to) == [Plain EXCEPT !.branch = <<[ifSaid |-> "sorry", goto |-> to],
                                          [ifSaid |-> "refund", goto |-> Unnamed]>>]
File(nodes, max) == [nodes |-> nodes, maxTurns |-> max]
SomeScripts ==
    {File(<<Plain, Asks, Cuts>>, 0), File(<<Plain, Asks, Cuts>>, 3),
     File(<<Plain, Cuts, Asks, Returns("turn-2")>>, 6),
     File(<<Asks, Plain, Returns("ask"), Cuts>>, 5),
     File(<<Plain, Returns("turn-4"), Plain, Cuts>>, 2)}
    \cup {File(<<>>, 0), File(<<Asks, Asks>>, 0), File(<<Cuts, Plain>>, 0),
          File(<<Plain, Plain>>, 1), File(<<Plain>>, -1),
          File(<<Plain, Returns("turn-1")>>, 0), File(<<Plain, Returns("nowhere")>>, 4),
          File(<<Plain, [Cuts EXCEPT !.bargeIn = -1]>>, 0),
          File(<<[Asks EXCEPT !.expect = {[any |-> {}, not |-> {}]}]>>, 0)}

TypeOK == LocalTypeOK /\ AgentTypeOK /\ CacheTypeOK

LocalRests == NothingRun /\ cohorts = <<>> /\ stage = "ended"
AgentRests == NothingSaid /\ link = "closed"
CacheRests == NothingCached /\ disk = [t \in Texts |-> "none"]
WalkRests ==
    /\ script = File(<<>>, 0) /\ playing = "refused"
    /\ node = 1 /\ said = {} /\ trail = <<>>

Init ==
    \/ chosen = "run" /\ LocalInit /\ AgentRests /\ CacheRests /\ WalkRests
    \/ chosen = "agent" /\ AgentInit /\ LocalRests /\ CacheRests /\ WalkRests
    \/ chosen = "cache" /\ CacheInit /\ LocalRests /\ AgentRests /\ WalkRests
    \/ chosen = "walk" /\ WalkInit /\ LocalRests /\ AgentRests /\ CacheRests

Next ==
    \/ chosen = "run" /\ LocalNext /\ UNCHANGED <<chosen, agentVars, cacheVars, walkVars>>
    \/ chosen = "agent" /\ AgentNext /\ UNCHANGED <<chosen, localVars, cacheVars, walkVars>>
    \/ chosen = "cache" /\ CacheNext /\ UNCHANGED <<chosen, localVars, agentVars, walkVars>>
    \/ chosen = "walk" /\ WalkNext /\ UNCHANGED <<chosen, localVars, agentVars, cacheVars>>

(* A load run comes back, and a session of the agent leaves nothing behind *)
(* when its caller has gone.                                               *)
RunsAndSessionsEnd == RunReturns /\ SessionLeavesNothing

Spec == Init /\ [][Next]_vars /\ LocalFairness /\ AgentFairness
=============================================================================
