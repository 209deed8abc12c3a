----------------------------- MODULE BuildOnce ------------------------------
(***************************************************************************)
(* What the bundle and venv caches of worker/deployment.py promise their   *)
(* callers: an entry is published at most once and stays usable, and a     *)
(* caller is given published entries only ("Download + extract the         *)
(* deployment zip once; subsequent calls reuse").                          *)
(***************************************************************************)
CONSTANTS Callers, Entries, NoEntry

VARIABLES published, holds

Init ==
    /\ published = {}
    /\ holds = [c \in Callers |-> NoEntry]

Publish(e) ==
    /\ published' = published \cup {e}
    /\ UNCHANGED holds

\* Caller c, which held nothing, is given a published entry.
Take(c, e) ==
    /\ e \in published /\ holds[c] = NoEntry
    /\ holds' = [holds EXCEPT ![c] = e]
    /\ UNCHANGED published

\* Some callers are done, or die.
Drop(C) ==
    /\ holds' = [c \in Callers |-> IF c \in C THEN NoEntry ELSE holds[c]]
    /\ UNCHANGED published

Next ==
    \/ \E e \in Entries : Publish(e) \/ \E c \in Callers : Take(c, e)
    \/ \E C \in SUBSET Callers : Drop(C)

Spec == Init /\ [][Next]_<<published, holds>>
=============================================================================
