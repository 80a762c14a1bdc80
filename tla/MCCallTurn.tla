---------------------------- MODULE MCCallTurn ----------------------------
(***************************************************************************)
(* Small instances of CallTurn for TLC.                                    *)
(***************************************************************************)
EXTENDS CallTurn

OneThenNone == [t \in Turns |-> IF t = 1 THEN 1 ELSE 0]
TwoThenOne == [t \in Turns |-> IF t = 1 THEN 2 ELSE 1]
===========================================================================
