------------------------- MODULE MCWorkspaceMemory --------------------------
(* Two keyed records and an episode, for TLC.                              *)
EXTENDS WorkspaceMemory

CONSTANTS k1, k2, e1, v, w, s1, s2, s3

P(id, record, summary, old) ==
    [id |-> id, record |-> record, summary |-> summary, old |-> old]

\* Each key superseded by the other, a record by itself, a key by an event.
FewPuts ==
    {P(k1, v, v, None), P(k1, w, None, k2), P(k2, v, None, k1), P(k1, v, w, k1),
     P(e1, v, v, k1)}

OneProcess == [s \in Sessions |-> 1]
Separate == [s \in Sessions |-> s]
BothLayouts == {OneProcess, Separate}
TwoProcesses == {Separate}
=============================================================================
