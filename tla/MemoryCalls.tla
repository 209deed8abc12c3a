---------------------------- MODULE MemoryCalls -----------------------------
(***************************************************************************)
(* The memory calls of agent runs (worker/agent_runner.py): the tools      *)
(* memory_get, memory_put, memory_forget and the injection at a run's      *)
(* start, as both stores see them.  A session is one dispatched call at a  *)
(* time: a task of a fanned-out turn, a run's own session, a thread of the *)
(* local server.  memory_search changes nothing; it is in MemorySearch.       *)
(***************************************************************************)
EXTENDS MemoryRows, Sequences

CONSTANTS
    Sessions,
    Puts,       \* bound: the puts an agent may ask for
    MaxCalls,   \* bound: the calls of one session
    Faults      \* subset of {"db", "crash"}

ASSUME CallsAssumption == Puts \subseteq Put /\ MaxCalls \in Nat

VARIABLES
    rows,       \* the committed table
    pc, call,   \* of each session: where it is, and the put or the id it is about
    left,       \* calls a session may still make
    acked       \* history: puts reported to the agent, per record

callVars == <<rows, pc, call, left, acked>>

CallsInit ==
    /\ rows = <<>>
    /\ pc = [s \in Sessions |-> "idle"]
    /\ call = [s \in Sessions |-> None]
    /\ left = [s \in Sessions |-> MaxCalls]
    /\ acked = [id \in Ids |-> 0]

Goto(s, place) == pc' = [pc EXCEPT ![s] = place]

Begin(s, place, about) ==
    /\ pc[s] = "idle" /\ left[s] > 0
    /\ Goto(s, place)
    /\ call' = [call EXCEPT ![s] = about]
    /\ left' = [left EXCEPT ![s] = @ - 1]
    /\ UNCHANGED <<rows, acked>>

\* An episode's id is minted for this very call.
BeginPut(s) ==
    \E put \in Puts :
        /\ put.id \in Episodes =>
               /\ put.id \notin DOMAIN rows
               /\ \A t \in Sessions : call[t] \in Put => call[t].id # put.id
        /\ Begin(s, "put", put)

BeginGet(s) == \E id \in Ids : Begin(s, "get", id)

BeginForget(s) == \E id \in Ids : Begin(s, "forget", id)

BeginContext(s) == Begin(s, "context", None)

BeginCall(s) == BeginPut(s) \/ BeginGet(s) \/ BeginForget(s) \/ BeginContext(s)

\* The call is over: its tool_result is the agent's.
Return(s) ==
    /\ Goto(s, "idle")
    /\ call' = [call EXCEPT ![s] = None]
    /\ UNCHANGED left

Acknowledge(s) ==
    acked' = IF call[s] \in Put THEN [acked EXCEPT ![call[s].id] = @ + 1] ELSE acked

\* The rows a job's identity or its workspace's preferences may match: any of
\* those that are not deleted, in the order the store meets them.
Hits(table) ==
    LET found == {id \in DOMAIN table : table[id].live}
    IN  UNION {{o \in [1 .. Cardinality(S) -> S] : \A i, j \in DOMAIN o : o[i] = o[j] => i = j}
                  : S \in SUBSET found}
=============================================================================
