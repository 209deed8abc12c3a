---------------------------- MODULE HostedMemory ----------------------------
(***************************************************************************)
(* The hosted store (worker/memory_store.py) on Postgres, READ COMMITTED:  *)
(* a call is one transaction that ends with the dispatcher's commit.  A    *)
(* row it has written stays locked until then, while an embedding is       *)
(* fetched too.  The statement that supersedes runs in a savepoint; the    *)
(* one that counts memory_context's hits does not, and run_agent swallows  *)
(* its error.  pc of a session: idle, put, supersede, get, forget,         *)
(* context, bump, finish, and                                            *)
(*   aborted  the transaction failed under a swallowed exception           *)
(*   broken   the run it belonged to has failed    gone  its process died  *)
(***************************************************************************)
EXTENDS MemoryCalls

VARIABLES
    pend,       \* rows a session's transaction has written
    todo        \* rows its UPDATE has yet to reach, in order

hostedVars == <<pend, todo>>

HostedInit ==
    /\ pend = [s \in Sessions |-> <<>>]
    /\ todo = [s \in Sessions |-> <<>>]

-----------------------------------------------------------------------------
(* Locks: what a transaction wrote is its own until it ends.               *)

Free(s, id) == \A t \in Sessions \ {s} : id \notin DOMAIN pend[t]

\* The table as a statement of s sees it.
Seen(s) ==
    [id \in DOMAIN pend[s] \cup DOMAIN rows |->
        IF id \in DOMAIN pend[s] THEN pend[s][id] ELSE rows[id]]

Write(s, id, row) == pend' = [pend EXCEPT ![s] = With(@, id, row)]

\* The row a session's current statement must lock, if any: an upsert meets the
\* unique index, the others the rows their snapshot shows them.
Target(s) ==
    CASE pc[s] = "put" -> call[s].id
      [] pc[s] = "supersede" /\ Supersedes(Seen(s), call[s]) -> call[s].old
      [] pc[s] = "bump" -> Head(todo[s])
      [] OTHER -> None

WaitsFor(s, t) == t # s /\ Target(s) # None /\ Target(s) \in DOMAIN pend[t]

InDeadlock(s) ==
    \E circle \in SUBSET Sessions :
        /\ s \in circle
        /\ \A t \in circle : /\ \E u \in circle : WaitsFor(t, u)
                             /\ \E u \in circle : WaitsFor(u, t)

-----------------------------------------------------------------------------
(* memory_put.                                                             *)

Upsert(s) ==
    /\ pc[s] = "put" /\ Free(s, call[s].id)
    /\ Write(s, call[s].id, Upserted(rows, call[s]))
    /\ Goto(s, IF call[s].old = None THEN "finish" ELSE "supersede")
    /\ UNCHANGED <<rows, call, left, acked, todo>>

\* A row deleted by the transaction it had to wait for is looked at again.
Supersede(s) ==
    /\ pc[s] = "supersede"
    /\ IF Supersedes(Seen(s), call[s])
       THEN /\ Free(s, call[s].old)
            /\ Write(s, call[s].old, Superseded(Seen(s)[call[s].old], call[s].id))
       ELSE UNCHANGED pend
    /\ Goto(s, "finish")
    /\ UNCHANGED <<rows, call, left, acked, todo>>

\* Mutant: no savepoint, so the failed statement takes the put with it.
SupersedeFailsBare(s) ==
    /\ pc[s] = "supersede"
    /\ pend' = [pend EXCEPT ![s] = <<>>]
    /\ Goto(s, "finish")
    /\ UNCHANGED <<rows, call, left, acked, todo>>

\* The savepoint is rolled back and the put goes on without it.
SupersedeFails(s) ==
    /\ pc[s] = "supersede"
    /\ Goto(s, "finish")
    /\ UNCHANGED <<rows, call, left, acked, pend, todo>>

-----------------------------------------------------------------------------
(* memory_get, memory_forget, memory_context.                              *)

\* A row is bumped, deleted or not; no row, no statement.
Get(s) ==
    /\ pc[s] = "get"
    /\ IF call[s] \in DOMAIN rows
       THEN Free(s, call[s]) /\ Write(s, call[s], Bumped(rows[call[s]]))
       ELSE UNCHANGED pend
    /\ Goto(s, "finish")
    /\ UNCHANGED <<rows, call, left, acked, todo>>

Forget(s) ==
    /\ pc[s] = "forget"
    /\ IF call[s] \in DOMAIN rows /\ rows[call[s]].live
       THEN Free(s, call[s]) /\ Write(s, call[s], Forgotten(rows[call[s]]))
       ELSE UNCHANGED pend
    /\ Goto(s, "finish")
    /\ UNCHANGED <<rows, call, left, acked, todo>>

\* The two SELECTs; the UPDATE after them meets the rows in an order of its own.
Context(s) ==
    /\ pc[s] = "context"
    /\ \E order \in Hits(rows) :
           /\ todo' = [todo EXCEPT ![s] = order]
           /\ Goto(s, IF order = <<>> THEN "finish" ELSE "bump")
    /\ UNCHANGED <<rows, call, left, acked, pend>>

TouchOne(s) ==
    /\ pc[s] = "bump" /\ Free(s, Head(todo[s]))
    /\ Write(s, Head(todo[s]), Bumped(rows[Head(todo[s])]))
    /\ todo' = [todo EXCEPT ![s] = Tail(@)]
    /\ Goto(s, IF Tail(todo[s]) = <<>> THEN "finish" ELSE "bump")
    /\ UNCHANGED <<rows, call, left, acked>>

-----------------------------------------------------------------------------
(* How a transaction ends.                                                 *)

Drop(s) ==
    /\ pend' = [pend EXCEPT ![s] = <<>>]
    /\ todo' = [todo EXCEPT ![s] = <<>>]

Commit(s) ==
    /\ pc[s] = "finish"
    /\ rows' = Seen(s)
    /\ Acknowledge(s)
    /\ Drop(s) /\ Return(s)

\* The exception reaches _safe_dispatch, which rolls back and answers ERROR.
CallFails(s) ==
    /\ call[s] # None /\ pc[s] \in {"put", "get", "forget", "finish"}
    /\ Drop(s) /\ Return(s)
    /\ UNCHANGED <<rows, acked>>

\* memory_context fails and run_agent goes on, with a transaction that can only
\* be rolled back.
ContextFails(s) ==
    /\ call[s] = None /\ pc[s] \in {"context", "bump", "finish"}
    /\ Drop(s)
    /\ Goto(s, "aborted")
    /\ UNCHANGED <<rows, call, left, acked>>

\* The agent_start event is the statement that finds out.
RunFails(s) ==
    /\ pc[s] = "aborted"
    /\ Goto(s, "broken")
    /\ UNCHANGED <<rows, call, left, acked, pend, todo>>

\* Postgres ends a circle of waits by failing a statement in it.
Victim(s) == InDeadlock(s) /\ (SupersedeFails(s) \/ ContextFails(s))

DbFault(s) ==
    /\ "db" \in Faults
    /\ SupersedeFails(s) \/ ContextFails(s) \/ CallFails(s)

Crash(s) ==
    /\ "crash" \in Faults /\ pc[s] \notin {"idle", "broken", "gone"}
    /\ Drop(s)
    /\ Goto(s, "gone")
    /\ UNCHANGED <<rows, call, left, acked>>

HostedStep(s) ==
    \/ Upsert(s) \/ Supersede(s)
    \/ Get(s) \/ Forget(s) \/ Context(s) \/ TouchOne(s)
    \/ Commit(s) \/ Victim(s) \/ RunFails(s)

HostedNext(s) ==
    \/ BeginCall(s) /\ UNCHANGED hostedVars
    \/ HostedStep(s)
    \/ DbFault(s) \/ Crash(s)
=============================================================================
