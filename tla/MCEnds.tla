-------------------------------- MODULE MCEnds --------------------------------
(* Ends, for requests of CgiProcess: p is alone, with headers and a body in   *)
(* its answer and in its request; q and s are two that say nothing, which is  *)
(* enough for one child to inherit the pipes of another.                      *)
EXTENDS Ends

CONSTANTS p, q, s

MCTogether == {{p}, {q, s}}
MCOutput == [r \in Processes |-> IF r = p THEN <<"h", "s1", "s2", "b", "b">> ELSE <<>>]
MCBody == [r \in Processes |-> IF r = p THEN 2 ELSE 0]
===============================================================================
