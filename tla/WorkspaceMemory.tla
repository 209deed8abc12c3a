-------------------------- MODULE WorkspaceMemory ---------------------------
(***************************************************************************)
(* The workspace memory of agent runs over the store their context gives   *)
(* them (memory_backend of DbRunContext and LocalRunContext,               *)
(* worker/run_context.py), and what it promises whichever that is.         *)
(***************************************************************************)
EXTENDS HostedMemory, SqliteMemory

CONSTANT Backends       \* subset of {"hosted", "local"}

ASSUME BackendsAssumption == Backends \subseteq {"hosted", "local"}

VARIABLE backend

vars == <<callVars, hostedVars, sqliteVars, backend>>

Init ==
    /\ CallsInit /\ HostedInit /\ SqliteInit
    /\ backend \in Backends
    /\ backend = "hosted" => OneConnection     \* stores are a local matter

Next ==
    \E s \in Sessions :
        /\ \/ backend = "hosted" /\ HostedNext(s) /\ UNCHANGED sqliteVars
           \/ backend = "local" /\ SqliteNext(s) /\ UNCHANGED hostedVars
        /\ UNCHANGED backend

Spec == Init /\ [][Next]_vars

\* asyncio and Postgres let a call that can go on do so.
FairSpec ==
    /\ Spec
    /\ \A s \in Sessions :
           /\ WF_vars(backend = "hosted" /\ HostedStep(s) /\ UNCHANGED <<sqliteVars, backend>>)
           /\ WF_vars(backend = "local" /\ SqliteStep(s) /\ UNCHANGED <<hostedVars, backend>>)

-----------------------------------------------------------------------------
(* Properties.                                                             *)

\* Types.
TypeOK ==
    /\ IsTable(rows)
    /\ \A s \in Sessions :
           /\ call[s] \in Puts \cup Ids \cup {None}
           /\ IsTable(pend[s])
    /\ left \in [Sessions -> 0 .. MaxCalls] /\ acked \in [Ids -> Nat]

\* Following superseded_by from a record leads, past records that exist, to one
\* nobody superseded: no put, re-put, forget, lost savepoint or crash of several
\* sessions closes a circle or leaves a pointer to a record that never came to be.
\* In other words, no set of records has all its pointers within itself.
ChainsEnd ==
    /\ \A id \in DOMAIN rows : rows[id].sup \in DOMAIN rows \cup {None}
    /\ \A S \in SUBSET DOMAIN rows :
           S # {} => \E id \in S : rows[id].sup \notin S

\* One connection at a time writes, or the database arbitrates.
Arbitrated == backend = "hosted" \/ OneConnection

\* The version of a record counts the puts its agents were told had succeeded:
\* no acknowledged put is lost to a failed optional statement, to another
\* session or to a rollback, and none that failed counts.
VersionCountsPuts ==
    Arbitrated =>
        \A id \in Ids :
            acked[id] = IF id \in DOMAIN rows THEN rows[id].version ELSE 0

Atomic == INSTANCE Memory

\* Both stores implement the abstract memory: every change to the table is one
\* put, forget or use of it as it was at that moment, two connections to one
\* SQLite file apart.
MemoryIsAtomic == [][Arbitrated => Atomic!MemoryNext]_rows

\* Two processes or threads on one SQLite file keep what an upsert omits and bump
\* its version by one, as memory_put's docstring says.
PutsAreAtomic == [][Atomic!MemoryNext]_rows

\* Every call ends, in an answer to its agent or with its run: a circle of row
\* locks is broken and nobody waits for a lock that is never released.
CallsEnd ==
    \A s \in Sessions : pc[s] # "idle" ~> pc[s] \in {"idle", "broken", "gone"}
=============================================================================
