---------------------------- MODULE SqliteMemory ----------------------------
(***************************************************************************)
(* The offline store (worker/memory_store_sqlite.py): a connection and an  *)
(* asyncio lock per LocalMemoryStore, one store per LocalRunContext, one   *)
(* file for all.  A call holds its store's lock to the end.  Its SELECT    *)
(* runs before sqlite3 opens the transaction, so only what follows the     *)
(* first write is atomic between two connections.  pc of a session: idle,  *)
(* put, get, forget, context (waiting for the lock) and                    *)
(*   decide    memory_put has looked for the row it may revise             *)
(*   touch     memory_context has chosen its rows                          *)
(***************************************************************************)
EXTENDS MemoryCalls

CONSTANT Layouts    \* which sessions share a store: functions on Sessions

ASSUME LayoutsAssumption == \A l \in Layouts : DOMAIN l = Sessions

VARIABLES
    storeOf,    \* the store of each session
    found       \* what its SELECT returned: a row or None, or ids to bump

sqliteVars == <<storeOf, found>>

SqliteInit ==
    /\ storeOf \in Layouts
    /\ found = [s \in Sessions |-> None]

OneConnection == \A s, t \in Sessions : storeOf[s] = storeOf[t]

\* Mutant: the store has no lock.
LockFreeAlways(s) == TRUE

\* Nobody else is inside a call of the same store.
LockFree(s) ==
    \A t \in Sessions \ {s} : storeOf[t] = storeOf[s] => pc[t] \notin {"decide", "touch"}

-----------------------------------------------------------------------------

Decide(s) ==
    /\ pc[s] = "put" /\ LockFree(s)
    /\ found' = [found EXCEPT ![s] =
                    IF call[s].id \in DOMAIN rows THEN rows[call[s].id] ELSE None]
    /\ Goto(s, "decide")
    /\ UNCHANGED <<rows, call, left, acked, storeOf>>

\* The UPDATE: version and kept columns are those the SELECT returned.
Overwritten(s) ==
    [Revised(found[s], call[s]) EXCEPT !.hits = rows[call[s].id].hits]

WithPut(s) ==
    With(rows, call[s].id, IF found[s] = None THEN Inserted(call[s]) ELSE Overwritten(s))

\* An INSERT meets the unique index; the write, the supersede and the commit are
\* one transaction.
SqlitePut(s) ==
    /\ pc[s] = "decide"
    /\ found[s] = None => call[s].id \notin DOMAIN rows
    /\ rows' = IF Supersedes(WithPut(s), call[s])
               THEN With(WithPut(s), call[s].old, Superseded(rows[call[s].old], call[s].id))
               ELSE WithPut(s)
    /\ Acknowledge(s) /\ Return(s)
    /\ found' = [found EXCEPT ![s] = None]
    /\ UNCHANGED storeOf

SqliteGet(s) ==
    /\ pc[s] = "get" /\ LockFree(s)
    /\ rows' = IF call[s] \in DOMAIN rows THEN [rows EXCEPT ![call[s]] = Bumped(@)] ELSE rows
    /\ Return(s)
    /\ UNCHANGED <<acked, sqliteVars>>

SqliteForget(s) ==
    /\ pc[s] = "forget" /\ LockFree(s)
    /\ rows' = IF call[s] \in DOMAIN rows /\ rows[call[s]].live
               THEN [rows EXCEPT ![call[s]] = Forgotten(@)] ELSE rows
    /\ Return(s)
    /\ UNCHANGED <<acked, sqliteVars>>

SqliteContext(s) ==
    /\ pc[s] = "context" /\ LockFree(s)
    /\ \E order \in Hits(rows) : found' = [found EXCEPT ![s] = order]
    /\ Goto(s, "touch")
    /\ UNCHANGED <<rows, call, left, acked, storeOf>>

\* executemany of the bump, then the commit.
TouchAll(s) ==
    /\ pc[s] = "touch"
    /\ rows' = [id \in DOMAIN rows |->
                   IF \E i \in DOMAIN found[s] : found[s][i] = id
                   THEN Bumped(rows[id]) ELSE rows[id]]
    /\ Return(s)
    /\ found' = [found EXCEPT ![s] = None]
    /\ UNCHANGED <<acked, storeOf>>

\* _call rolls back and the agent reads ERROR.
SqliteFails(s) ==
    /\ pc[s] # "idle"
    /\ Return(s)
    /\ found' = [found EXCEPT ![s] = None]
    /\ UNCHANGED <<rows, acked, storeOf>>

\* The unique index refuses the INSERT.
KeyTaken(s) ==
    /\ pc[s] = "decide" /\ found[s] = None /\ call[s].id \in DOMAIN rows
    /\ SqliteFails(s)

\* Another connection keeps the file locked longer than sqlite3 waits.
FileLocked(s) == "db" \in Faults /\ SqliteFails(s)

SqliteStep(s) ==
    \/ Decide(s) \/ SqlitePut(s)
    \/ SqliteGet(s) \/ SqliteForget(s)
    \/ SqliteContext(s) \/ TouchAll(s)
    \/ KeyTaken(s)

SqliteNext(s) ==
    \/ BeginCall(s) /\ UNCHANGED sqliteVars
    \/ SqliteStep(s)
    \/ FileLocked(s)
=============================================================================
