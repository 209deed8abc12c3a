---------------------------- MODULE MCAgentLoop -----------------------------
(* A small skill for TLC: a plain tool, a gated one and set_output.        *)
EXTENDS AgentLoop

CONSTANTS read, send, other

TurnShapes == {<<read, read>>, <<send, other>>, <<read, set_output>>}
OneEach == [t \in {read, send, other} |-> 1]
=============================================================================
