----------------------------- MODULE Subagents ------------------------------
(***************************************************************************)
(* The pipeline of one hosted job: run_agent and the agents it runs in     *)
(* process (_run_inproc_subagent, worker/agent_runner.py), each with its   *)
(* own loop and working directory (worker/workdir.py), sharing the job's   *)
(* cost, its cancellation and the exact-match prompt cache                 *)
(* (worker/prompt_cache.py).                                               *)
(*                                                                         *)
(* An agent is named by its path: <<>> is the job's own, Append(p, i) the  *)
(* one that runs for the i-th tool call of the turn of p.  pc of an agent: *)
(*   none       no such agent now          starting  its venv is built     *)
(*   top        top of its loop            call      the model is asked    *)
(*   dispatch   its turn's tool calls run  ending    before the cleanup    *)
(*   ended      the job's agent is done                                    *)
(***************************************************************************)
EXTENDS Integers, Sequences, FiniteSets

CONSTANTS
    Tasks,              \* what a subagent may be asked (target and inputs)
    Tools,              \* the other tools: the skill's own, media, the web
    Turns,              \* bound: the calls a model turn may ask for
    MaxWidth,           \* bound: the longest of them
    MaxDepth,           \* MAX_SUBAGENT_DEPTH
    ParallelMaxDepth,   \* _PARALLEL_TOOL_MAX_DEPTH
    ParallelLimit,      \* _PARALLEL_TOOL_LIMIT
    MaxSteps,           \* max_agent_steps
    MaxJobCost,         \* max_job_cost_micros
    Cost,               \* what one model call is billed
    Charges,            \* what a tool may bill the job at once
    MaxBilled,          \* bound: tools bill no more once the job has cost this
    MaxHalfMade,        \* bound: the workdirs whose making fails midway
    NoSid

ASSUME PipelineAssumption ==
    /\ MaxWidth \in Nat /\ MaxDepth \in Nat \ {0}
    /\ Turns \subseteq UNION {[1 .. n -> Tasks \cup Tools] : n \in 0 .. MaxWidth}
    /\ Tasks \cap Tools = {}
    /\ ParallelMaxDepth \in Nat \ {0} /\ ParallelLimit \in Nat \ {0}
    /\ MaxSteps \in Nat /\ MaxJobCost \in Nat \ {0} /\ Cost \in Nat
    /\ Charges \subseteq Nat /\ MaxBilled \in Nat /\ MaxHalfMade \in Nat

VARIABLES
    cancelled, cost,    \* the job row
    cache,              \* prompt_cache: conversations and their responses
    fresh,              \* the responses the provider has given
    pc, task,           \* of each agent
    sid, workdir,       \* the tool_use id it runs for, and its sub-workdir
    history,            \* the responses in an agent's `messages`
    calls,              \* the tool calls of an agent's turn
    dirs,               \* the sub-workdirs on disk and whose files they hold
    late,               \* history: responses after the cancel
    collided,           \* history: ids two live agents had at once
    halfMade            \* history: workdirs whose making failed midway

jobVars == <<cancelled, cost, cache, fresh, late>>
agentVars == <<task, sid, workdir, history>>
dirVars == <<dirs, collided, halfMade>>
vars == <<jobVars, pc, agentVars, calls, dirVars>>

Paths == UNION {[1 .. n -> 1 .. MaxWidth] : n \in 0 .. MaxDepth - 1}
root == <<>>
Depth(p) == Len(p) + 1
Live(p) == pc[p] \notin {"none", "ended"}

\* The id of the i-th tool call of p's turn: the response's, and its place in it.
ToolUseId(p, i) == <<history[p][Len(history[p])], i>>

\* Mutant: the workdir is named after the parent's depth and the call.
SubIdByPlace(p, i) == <<Depth(p), i>>

\* The name of a sub-workdir: the job's id and the tool_use id.
SubId(p, i) == ToolUseId(p, i)

TypeOK ==
    /\ cancelled \in BOOLEAN /\ cost \in Nat
    /\ fresh \in Nat /\ late \in Nat
    /\ pc \in [Paths -> {"none", "starting", "top", "call", "dispatch", "ending",
                         "ended"}]
    /\ \A p \in Paths :
           /\ Len(history[p]) =< MaxSteps
           /\ \A i \in DOMAIN calls[p] :
                  calls[p][i] \in [task : Tasks \cup Tools, st : {"waiting", "running", "done"}]
    /\ \A d \in DOMAIN dirs : dirs[d] \in Paths

Init ==
    /\ cancelled = FALSE /\ cost = 0 /\ cache = {} /\ fresh = 0 /\ late = 0
    /\ pc = [p \in Paths |-> IF p = root THEN "top" ELSE "none"]
    /\ task = [p \in Paths |-> root]
    /\ sid = [p \in Paths |-> NoSid]
    /\ workdir = [p \in Paths |-> NoSid]
    /\ history = [p \in Paths |-> <<>>]
    /\ calls = [p \in Paths |-> <<>>]
    /\ dirs = [d \in {} |-> root]
    /\ collided = {} /\ halfMade = {}

-----------------------------------------------------------------------------
(* An agent's loop.                                                        *)

Raise(p) ==
    /\ pc' = [pc EXCEPT ![p] = "ending"]
    /\ UNCHANGED <<jobVars, agentVars, calls, dirVars>>

\* The steps are used up, the job is cancelled or has reached its ceiling, or
\* max_agent_seconds is over, which it may be at any top of the loop.
Stops(p) == pc[p] = "top" /\ Raise(p)

\* Mutant: only the job's own agent looks at the ceiling.
PassTopRootOnly(p) ==
    /\ pc[p] = "top"
    /\ Len(history[p]) < MaxSteps /\ ~cancelled
    /\ p = root => cost < MaxJobCost
    /\ pc' = [pc EXCEPT ![p] = "call"]
    /\ UNCHANGED <<jobVars, agentVars, calls, dirVars>>

\* An agent below the root reads the same job row.
PassTop(p) ==
    /\ pc[p] = "top"
    /\ Len(history[p]) < MaxSteps /\ ~cancelled /\ cost < MaxJobCost
    /\ pc' = [pc EXCEPT ![p] = "call"]
    /\ UNCHANGED <<jobVars, agentVars, calls, dirVars>>

\* A response joins p's conversation: the turn's calls start, or p is done.
Answer(p, id, turn) ==
    /\ history' = [history EXCEPT ![p] = Append(@, id)]
    /\ calls' = [calls EXCEPT ![p] =
                    [i \in DOMAIN turn |-> [task |-> turn[i], st |-> "waiting"]]]
    /\ pc' = [pc EXCEPT ![p] = IF turn = <<>> THEN "ending" ELSE "dispatch"]
    /\ late' = IF cancelled THEN late + 1 ELSE late
    /\ UNCHANGED <<cancelled, task, sid, workdir, dirVars>>

Request(p) == <<task[p], history[p]>>

Seen(p) == \E r \in cache : r.request = Request(p)

\* The provider answers and the response is billed.  It is stored unless another
\* agent's was meanwhile, or an expired one still is (ON CONFLICT DO NOTHING).
Ask(p) ==
    /\ pc[p] = "call"
    /\ \E turn \in Turns :
           /\ Answer(p, fresh + 1, turn)
           /\ cache' = IF Seen(p) THEN cache
                       ELSE cache \cup {[request |-> Request(p), id |-> fresh + 1,
                                         turn |-> turn]}
    /\ fresh' = fresh + 1
    /\ cost' = cost + Cost

\* The conversation is one the cache has seen: the stored response is replayed
\* with its tool_use ids and bills nothing.  Tool results are left out of
\* `history`, so a conversation that looks the same may still miss.
Replay(p) ==
    /\ pc[p] = "call"
    /\ \E r \in cache : r.request = Request(p) /\ Answer(p, r.id, r.turn)
    /\ UNCHANGED <<cost, cache, fresh>>

\* The provider or the database raises.
CallFails(p) == pc[p] = "call" /\ Raise(p)

-----------------------------------------------------------------------------
(* A turn's tool calls, those that run subagents among them.               *)

Active(p) == {i \in DOMAIN calls[p] : calls[p][i].st = "running"}

\* Mutant: turns fan out at every depth.
FanOutAnywhere(p) == Len(calls[p]) > 1

\* Only shallow turns fan out, each call on a session of its own; deeper ones take
\* their calls in order.
FanOut(p) == Depth(p) =< ParallelMaxDepth /\ Len(calls[p]) > 1

MayBegin(p, i) ==
    IF FanOut(p) THEN Cardinality(Active(p)) < ParallelLimit
                 ELSE \A k \in 1 .. i - 1 : calls[p][k].st = "done"

Begins(p, i) ==
    /\ pc[p] = "dispatch"
    /\ calls[p][i].st = "waiting"
    /\ MayBegin(p, i)

Becomes(p, i, st) ==
    /\ calls' = [calls EXCEPT ![p][i].st = st]
    /\ UNCHANGED <<cancelled, cache, fresh, late, pc, agentVars, dirVars>>

\* The depth limit is reached, the inputs do not fit, or there is no such tool: a
\* tool error.
Refuse(p, i) == Begins(p, i) /\ Becomes(p, i, "done") /\ UNCHANGED cost

\* A tool that is no subagent works, ...
Work(p, i) ==
    /\ Begins(p, i) /\ calls[p][i].task \in Tools
    /\ Becomes(p, i, "running") /\ UNCHANGED cost

Works(p, i) ==
    /\ pc[p] = "dispatch" /\ i \in Active(p) /\ calls[p][i].task \in Tools

\* ... the API bills the job for the media or the pages it asks for, whatever the
\* job has cost by now, ...
Bill(p, i) ==
    /\ Works(p, i) /\ cost < MaxBilled
    /\ \E charge \in Charges : cost' = cost + charge
    /\ Becomes(p, i, "running")

\* ... and it has a result, an error or not.
Worked(p, i) == Works(p, i) /\ Becomes(p, i, "done") /\ UNCHANGED cost

\* create_workdir removes what is there and makes it anew, for the child c, ...
MakeDir(p, i) ==
    LET c == Append(p, i)
        id == ToolUseId(p, i)
        wd == SubId(p, i)
    IN  /\ Begins(p, i)
        /\ Depth(p) < MaxDepth /\ calls[p][i].task \in Tasks
        /\ dirs' = [d \in DOMAIN dirs \cup {wd} |-> IF d = wd THEN c ELSE dirs[d]]
        /\ collided' = IF \E q \in Paths : Live(q) /\ sid[q] = id
                           THEN collided \cup {id} ELSE collided

\* ... which starts, ...
Spawn(p, i) ==
    LET c == Append(p, i)
    IN  /\ MakeDir(p, i)
        /\ calls' = [calls EXCEPT ![p][i].st = "running"]
        /\ pc' = [pc EXCEPT ![c] = "starting"]
        /\ task' = [task EXCEPT ![c] = calls[p][i].task]
        /\ sid' = [sid EXCEPT ![c] = ToolUseId(p, i)]
        /\ history' = [history EXCEPT ![c] = <<>>]
        /\ workdir' = [workdir EXCEPT ![c] = SubId(p, i)]
        /\ UNCHANGED <<jobVars, halfMade>>

\* ... or it fails midway: outside the try, so that the call has a tool error and
\* what was made stays there.
SpawnFails(p, i) ==
    /\ MakeDir(p, i)
    /\ Cardinality(halfMade) < MaxHalfMade
    /\ calls' = [calls EXCEPT ![p][i].st = "done"]
    /\ halfMade' = halfMade \cup {SubId(p, i)}
    /\ UNCHANGED <<jobVars, pc, agentVars>>

\* The child's skill is attached and its venv is built, or that fails.
Start(c) ==
    /\ pc[c] = "starting"
    /\ pc' = [pc EXCEPT ![c] = "top"]
    /\ UNCHANGED <<jobVars, agentVars, calls, dirVars>>

StartFails(c) == pc[c] = "starting" /\ Raise(c)

Parent(c) == SubSeq(c, 1, Len(c) - 1)

\* What is left of the child's record.
Forget(c) ==
    /\ pc' = [pc EXCEPT ![c] = IF c = root THEN "ended" ELSE "none"]
    /\ task' = [task EXCEPT ![c] = root]
    /\ sid' = [sid EXCEPT ![c] = NoSid]
    /\ workdir' = [workdir EXCEPT ![c] = NoSid]
    /\ history' = [history EXCEPT ![c] = <<>>]

\* The agent is done or failed: the finally removes its workdir, and its parent's
\* tool call has a result either way.
End(c) ==
    /\ pc[c] = "ending"
    /\ Forget(c)
    /\ dirs' = [d \in DOMAIN dirs \ {workdir[c]} |-> dirs[d]]
    /\ calls' = [p \in Paths |->
                    IF p = c THEN <<>>
                    ELSE IF c # root /\ p = Parent(c)
                        THEN [calls[p] EXCEPT ![c[Len(c)]].st = "done"]
                    ELSE calls[p]]
    /\ UNCHANGED <<jobVars, collided, halfMade>>

\* Mutant: a turn whose calls are in is asked for again.
TurnRetried(p) ==
    /\ pc[p] = "dispatch"
    /\ \A i \in DOMAIN calls[p] : calls[p][i].st = "done"
    /\ calls' = [calls EXCEPT ![p] = <<>>]
    /\ history' = [history EXCEPT ![p] = SubSeq(@, 1, Len(@) - 1)]
    /\ pc' = [pc EXCEPT ![p] = "top"]
    /\ UNCHANGED <<jobVars, task, sid, workdir, dirVars>>

\* All results are in: the next turn.
TurnGoesOn(p) ==
    /\ pc[p] = "dispatch"
    /\ \A i \in DOMAIN calls[p] : calls[p][i].st = "done"
    /\ calls' = [calls EXCEPT ![p] = <<>>]
    /\ pc' = [pc EXCEPT ![p] = "top"]
    /\ UNCHANGED <<jobVars, agentVars, dirVars>>

\* The user cancels the job (external).
Cancel ==
    /\ ~cancelled /\ Live(root)
    /\ cancelled' = TRUE
    /\ UNCHANGED <<cost, cache, fresh, late, pc, agentVars, calls, dirVars>>

AgentStep(p) ==
    \/ Stops(p) \/ PassTop(p) \/ Ask(p) \/ Replay(p) \/ CallFails(p)
    \/ \E i \in DOMAIN calls[p] :
           \/ Refuse(p, i) \/ Spawn(p, i) \/ SpawnFails(p, i)
           \/ Work(p, i) \/ Bill(p, i) \/ Worked(p, i)
    \/ Start(p) \/ StartFails(p) \/ End(p) \/ TurnGoesOn(p)

Next == Cancel \/ \E p \in Paths : AgentStep(p)

\* The job's agent may rest once it has ended.
Done == pc[root] = "ended" /\ UNCHANGED vars

Spec == Init /\ [][Next \/ Done]_vars

\* The model, the threads and the event loop answer.
FairSpec == Spec /\ \A p \in Paths : WF_vars(AgentStep(p))

-----------------------------------------------------------------------------
(* Properties.                                                             *)

\* fresh responses were billed, Cost each; the rest of `cost` is the tools'.
PipelineSpendBounded == fresh * Cost < MaxJobCost + ParallelLimit * Cost

PipelineStops == late =< ParallelLimit

\* The ceiling and a cancel stop the whole pipeline: subagents and tools fold
\* their cost into the job, whose model calls pass the ceiling by less than one for
\* each tool call that may run at once, at whatever depth they are made; and after
\* a cancel each of those has one more response at most.  Nothing bounds what the
\* tools of the turns under way still bill.
PipelineStopsInTime == PipelineSpendBounded /\ PipelineStops

\* The sessions a job holds besides its own, one for each call under way of a turn
\* that fans out, stay within what the pool is sized for (db.py, get_engine),
\* however the subagents nest.
PoolFloor ==
    Cardinality({call \in Paths \X (1 .. MaxWidth) :
                     FanOut(call[1]) /\ call[2] \in Active(call[1])}) =< ParallelLimit

Owns(p) == workdir[p] \in DOMAIN dirs /\ dirs[workdir[p]] = p

NoLeftovers == pc[root] = "ended" => DOMAIN dirs \subseteq halfMade

\* A subagent that shares its tool_use id with no other has its workdir, with
\* its own files, from its start to its end, and a job that has ended leaves no
\* sub-workdir behind but one whose making failed midway.
OwnWorkdir ==
    /\ \A p \in Paths \ {root} : Live(p) /\ sid[p] \notin collided => Owns(p)
    /\ NoLeftovers

\* "so nested / concurrent subagents never collide" (agent_runner.py,
\* _run_inproc_subagent).
NeverCollide == \A p \in Paths \ {root} : Live(p) => Owns(p)

\* The pipeline ends, whatever its subagents ask for.
PipelineEnds == <>(pc[root] = "ended")
=============================================================================
