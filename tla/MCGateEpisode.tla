----------------------------- MODULE MCGateEpisode -----------------------------
EXTENDS GateEpisode

CONSTANTS c1, c2

\* c1 changes documentation only; c2 changes code, which keeps the security reviewer.
MCFloor == [c \in Commit |-> IF c = c1 THEN {"scope"} ELSE Dimension]
================================================================================
