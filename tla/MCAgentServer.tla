--------------------------- MODULE MCAgentServer ---------------------------
(* One slot for tools.  r1, which must use a tool as well, goes on long    *)
(* enough to fill the window with two calls in any order, perhaps after a  *)
(* retry, unless it finishes; r2, which must use a tool, and r3 contend    *)
(* for the slot with calls of every kind.                                  *)
EXTENDS AgentServer, TLC

CONSTANTS r1, r2, r3, read, write, barred, unknown, finish

MCCalls == {read, write, barred, unknown, finish}

MCMixes == {{r1}, {r2, r3}}

MCAllowed == [r \in Runs |-> IF r = r2 THEN Calls \ {barred} ELSE Calls]

MCMaxSteps == r1 :> 9 @@ r2 :> 0 @@ r3 :> 2

MCRetries == r1 :> 1 @@ r2 :> 1 @@ r3 :> 1

MCSays ==
    r1 :> {<<read>>, <<write>>, <<>>, <<finish>>} @@
    r2 :> {<<>>, <<barred, read, write>>, <<unknown>>, <<read, finish>>} @@
    r3 :> {<<>>, <<read, unknown>>}

============================================================================
