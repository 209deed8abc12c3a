# Puras worker: a TLA+ model

This directory models the worker of Puras (`src/worker`): the process that claims
jobs from a Postgres queue, runs an LLM agent or a Python function for each,
grades the result, bills the caller's wallet and reports the outcome; and what
surrounds it: the workspace's memory and its files, the parsing of skills, and
the local server with its clients. The modules are TLA+, checked with TLC on
small instances; the theorems are proved with TLAPS for every value of the
constants.

## 1. The system

| Part (under `src/worker`) | State it keeps | Operations | Hard behaviours |
|---|---|---|---|
| Job queue, `queue.py` | rows of `jobs` (status, worker_id, started_at, heartbeat_at, cost_micros), `profiles` (credit), eval cases | claim, requeue, heartbeat, usage accrual, debit, success, failure | many machines, a user who cancels and a reaper write the same rows |
| Worker process, `main.py` | `_stopping`, `_current_job_ids`, N slot tasks, heartbeat task, drain watchdog | claim loop, run, grade, conclude, heartbeat tick, drain, exit | SIGTERM drains, SIGKILL, crashes, restarts under the same id; errors swallowed inside a transaction |
| Database sessions, `db.py` | a pool of connections | one transaction per `session()` | pool floor, lost commits, aborted transactions |
| Agent loop, `agent_runner.py` | conversation, step, caps, structured output | turns, tool calls (parallel or gated), resume, subagents | cancellation, caps, tool failures, resumption |
| Checkpoints, `checkpoint.py` | one row per job | save after a clean turn, load at start | crash between a step and its checkpoint |
| Approvals, `approvals.py` | one row per gated call | request, poll, expire | a decision racing a timeout or a cancel |
| Prompt cache, `prompt_cache.py` | response per key | get, put | best effort inside the run's transaction; replays ids |
| Deployment cache, `deployment.py` | bundle and venv directories with a `.ready` sentinel | build once under a file lock | crashes half way, threads of cancelled jobs |
| Memory, `memory_store.py`, `memory_store_sqlite.py`, `memory.py` | versioned, superseding records | put, get, forget, search, first-turn digest | several writers of one key, swallowed failures, two stores that must agree |
| Local server, `local_server.py` | in-memory jobs, events, spans | submit, run, poll | threads, polling clients, hanging runs, a stop |
| Working directories, `workdir.py` | one directory per job or subagent | create, attach, clean up | directories named after replayed ids |
| Storage and drive, `storage.py`, `drive.py` | each machine's files, a bucket, a memo of what was pushed | pull, stage, name the run's folder, relocate, push, list | runs that share a machine, retries elsewhere, partial failures |
| Eval runner, `eval_runner.py`, `eval_local.py` | rows of one case | grade, judge, weigh | failing judges, nothing to grade, statements that fail |
| Manifest and skills, `manifest.py`, `skill_loader.py` | a stored manifest | parse a directory or a zip, store, reload, resolve | two parsers and three resolvers that must agree |
| SDK and CLI, `sdk/` | none | submit, poll, zip, subagents | deadlines, polls of a row that changes |
| Media, web, providers, pricing | none that lasts | calls of external services | outcomes only |

How they interact: the API (outside `src/`) inserts queued rows; slots claim
them; a run pulls its inputs to the machine, works on the workspace's files and
memory, charges its job through `record_usage`; then one transaction grades it,
debits the wallet (`finalize_charges`), concludes the row and records the eval
case. The heartbeat task stamps the rows the process holds; the API's reaper
takes rows whose stamp is old; a user may cancel at any time. On SIGTERM the
claim loops stop, and a watchdog cancels what is still running and puts it back
in the queue before the platform kills the machine. Offline, `puras serve` runs
the same agent in threads over a SQLite memory, and the CLI or the SDK polls it.

What makes each part correct, and the hazards behind it, are listed in
`PROJECT.json` ("hazards"), each at its line.

## 2. Modules

| Module | What it is |
|---|---|
| `JobLifecycle` | abstract specification: the status machine of one job row |
| `JobTable` | the rows and every statement of `queue.py` on them; the API's submit, cancel and reap, and the clock (external) |
| `WorkerFleet` | machines with slots, heartbeat task, drain watchdog and `main()` over `JobTable`; the properties |
| `AgentLoop` | the agent's turn loop over the attempts of one job, with approvals, checkpoints and the shared session |
| `Subagents` | the pipeline of one job: nested agents, their workdirs, shared cost, cancellation and prompt cache |
| `BuildOnce` | abstract specification: what the deployment caches promise |
| `DeploymentCache` | bundle and venv caches: directory, sentinel, lock, failures, dying processes |
| `Graders` | the graders of one case as operators: rows, score, verdict |
| `Finish` | the end of a run: the transaction that grades, bills and concludes; the same graders offline |
| `MemoryRows` | one row of the memory and what each statement makes of it |
| `Memory` | abstract specification: every call takes place at once on the table |
| `MemoryCalls` | the memory calls of an agent, as both stores see them |
| `HostedMemory`, `SqliteMemory` | the two stores, statement by statement |
| `WorkspaceMemory` | the calls over either store; the refinement of `Memory` |
| `MemoryIdentity` | which subject a job is about: `derive_identity` |
| `MemorySearch` | what a search and a first turn find, and in which order, in both stores |
| `MemoryDigest` | how long the memory block of a first turn is |
| `Recall` | a workspace's memory over successive jobs, over the three modules above |
| `LocalJobs` | the local server's job table and threads, the SDK's and the CLI's polling |
| `SkillManifest` | what a `skill.yaml` is accepted as, declared as, stored and restored as |
| `SkillBundle` | the two parsers of a bundle, the loader, the resolution of a subagent |
| `CachedSkills` | what a job finds in the deployment it uses: `DeploymentCache` with the bundles and manifests of the two modules above |
| `JobFiles` | each machine's files, the bucket, and the runs that pull, write, move and push |
| `MCWorkerFleet`, `MCAgentLoop`, `MCSubagents`, `MCDeploymentCache`, `MCFinish`, `MCWorkspaceMemory`, `MCRecall`, `MCLocalJobs`, `MCJobFiles` | small instances for TLC |
| `WorkerFleetProofs`, `AgentLoopProofs`, `SubagentsProofs`, `MemoryProofs`, `DeploymentCacheProofs`, `FinishProofs`, `LocalJobsProofs`, `JobFilesProofs` | the theorems |

`AgentLoop` is what happens inside the one state `running` of a `WorkerFleet`
slot: its `returned` is the slot's finish, its `failed` the slot's exception and
its `Crash` the slot's loss or drain. `Subagents` opens up the tool calls of
`AgentLoop` that run a nested agent; it drops what the loop does by itself
(approvals, checkpoints, limits). `Finish` opens up the one step with which a
slot concludes its run, `MemoryCalls` and `JobFiles` the memory and file tools.
`DeploymentCache` is what `_process_one` and `build_skill_python` do on disk
before a run; `CachedSkills` puts into the cached bundles what
`SkillManifest` and `SkillBundle` say of them, so that a job using an entry is a
job whose skills were parsed by the worker after the API had parsed the zip.

### Correspondence (WorkerFleet)

A slot is one `_claim_loop` task. Its `pc` names the await it is at, so every
point at which asyncio may run something else, or a crash may come, is a state:
`idle` (loop test or poll sleep), `claim` (before CLAIM_SQL), `picked` (row
locked, not committed), `claimed` (committed, id not registered yet), `running`
(the run), `billing` (cost read), `failing` (exception handler), `cleanup`
(outcome committed or lost), `exited`. One action is one database transaction or
one stretch of code without an await.

* `BeginClaim` ... `Discard` are `_process_one`; `LeaveLoop` and `ClaimRaises`
  are `_claim_loop`; `Unwind` is the CancelledError path with the `finally`.
* `BeatSnapshot`/`BeatStamp`/`BeatLost`/`BeatEnds` are `_heartbeat_loop`. The ids
  are copied before the session is awaited, so the stamp is a later step.
* `WatchdogQuits`/`WatchdogFires`/`GatherDone`/`RequeueOne`/`RequeueDone` are
  `_drain_watchdog`; `MainExit` is the end of `main()`, which waits for the slots
  and, at most 60 seconds, for the watchdog.
* `Kill` is the platform's SIGKILL or a crash, `Restart` a new process under the
  same worker id (`FLY_MACHINE_ID`).

Abstractions: the body of a run is one state that may charge the job, raise,
finish or fail; its inner structure does not touch the row. One lane. Time
stamps are `none`, `fresh` or `stale` (older than the reaper's window).
`resume_count`, payloads, events and the worker registry are left out: nothing
under `src/` reads them to decide anything modelled here; eval rows are in
`Finish`. `charged`,
`reaped` and `lost` are history variables. `lost` holds the jobs whose last run met
what the worker has no answer to: a claim still under way when the watchdog looked,
or whose answer was lost, a failure or a requeue that could not be written, a crash.

### Correspondence (AgentLoop)

`pc` is the await `run_agent` is at: `loaded` (checkpoint read, `agent_start` not
committed), `top` (the ceilings), `call` and `model` (before and during the model
call), `dispatch` (tool calls), `saving` (results appended, checkpoint not
committed). Each tool call of a turn has its own dispatch state, so the
concurrent path interleaves calls and the serial one takes them in order
(`MayBegin`).

* `StartAttempt`, `Resume`, `LoadFails`, `AgentStart` are the start of `run_agent`
  and `load_checkpoint`; every counter of the loop starts afresh in a resumed run.
* `StopLate`, `StopCancelled`, `StopCapped`, `PassTop` are the top of the loop;
  `CallModel`, `ProviderRaises`, `ModelAsksForTools`, `ModelEndsTurn` the model call
  and its billing.
* `BeginRaises`, `NotAllowed`, `Limited`, `Begin`, `SetOutput`, `Run` are
  `_safe_dispatch` and `_dispatch_one_tool`; `RequestApproval` to `WaitRaises` the
  approval gate, poll by poll.
* `TurnReturns`, `TurnGoesOn`, `Save`, `SaveFails` are the end of the turn.
* `aborted` says that the session's transaction is aborted: a best-effort helper
  swallowed a failed statement. The next statement then raises
  (`StatementRaises`, `BeginRaises`).

Abstractions: a message is its role and the ids of its blocks; a handler is one
step that has its effect, may bill the job and returns a result or an error; an
in-process subagent is such a handler (it bills the parent's job). The id of a call is
its attempt, step and place: a cached response is replayed with its ids, but only for
the identical conversation, so never twice within one. The wall clock
is not modelled: `max_agent_seconds` may be over at any top of the loop. A run
whose job the reaper gave away while it is still alive belongs to `WorkerFleet`.
`effects`, `unsaved` and `late` are history variables.

### Correspondence (Subagents)

An agent is named by its path in the call tree, so `Append(p, i)` is the subagent
of the i-th call of the turn of `p`, and its depth is the length plus one. Each
has its own `pc`, conversation and tool calls; the job row (`cost`, `cancelled`)
and the prompt cache are shared, as in the code, where a child runs under its
parent's job id.

* `Stops`, `PassTop`, `Ask`, `Replay`, `CallFails`, `TurnGoesOn` are the loop.
  `Ask` may come though the cache has the conversation (the test was earlier, or
  the entry has expired); it stores nothing then, as `ON CONFLICT DO NOTHING`.
* `Work`, `Bill` and `Worked` are a tool that is no subagent: the API bills the
  media or the pages it asks for to the job, at any depth and any time until it
  returns, and no ceiling is looked at in between.
* `Refuse`, `Spawn` and `SpawnFails` are `run_subagent` and skill tools up to
  `create_workdir` (`MakeDir`), which stands before the `try`: if it fails midway,
  what it made stays (`halfMade`). `Start` and `StartFails` attach the skill and build its venv; `End` is the
  `finally` with `cleanup_workdir`, after which the parent's call has its result,
  whatever became of the child.
* `FanOut` and `MayBegin` are the concurrent path with its semaphore and the
  serial one.

Abstractions: a conversation is the task and the responses so far (tool results
only make two conversations differ, so replays are over-approximated); a response
is the list of subagents and tools it asks for; a tool_use id is the response and the
call's place in it, as unique as the provider makes it. Queued subagents of other
skillpacks are not in the model. A child that is a Python function goes from its start
to its end (`StartFails`) with no turn of its own. `late`, `collided` and `halfMade` are
history variables.

### Correspondence (DeploymentCache)

`_ensure_bundle` and `_build_venv` are the same protocol and one model: an entry
is a deployment or a requirements hash. `Hit`/`Miss` test the sentinel, `Lock`
is `flock`, `HitLocked`/`MissLocked` test again; `ClearSome`/`ClearAll` are
`rmtree` file by file, `BuildSome`/`BuildAll` the download and extraction or the
venv and pip, `Touch` the sentinel, `Return`/`Raise` close the lock file. A caller
opens the lock file itself, so `flock` excludes threads of one process. `Crash`
ends a process and the pip it started; the kernel frees its locks, the disk stays.
`Leave` is the end of the job that used the path.

### Correspondence (Finish, Graders)

`pc` is the statement `_process_one` is at: `run`, `expected` (the dataset's
expected output), `judge`, `grade`, `charge`, `mark_succeeded` or `mark_failed`,
`case`, `tell` (`emit_event`), `commit`, `closed`. `db` is what is committed, `tx`
what this transaction sees. A statement that goes wrong leaves the transaction
`broken`: every later one fails too, whoever caught the first error, until a
rollback (`RollBack`); the handler of `_process_one` then opens a new one.

* `RunAgent`, `RunFunction` end the run, `LookupExpected`, `BuildJudge`, `Grade`,
  `JudgeAnswers`, `Weigh` are `_score_evals` over `run_evals`; each grader is the
  set of rows it may return (`CheckRows`, `RubricRows`, `ExactMatchRows`,
  `SchemaRows`), the judge's calls are billed to the job in this transaction.
* `FinalizeCharges`, `MarkSucceeded`, `RecordCase`, `Tell`, `Commit` conclude;
  `MarkFailed` is the handler's branch.
* `EndedByAnother` is the API's cancel or reaper, which Postgres lets in only
  while no statement here has locked the row; `Requeued` a drain or a crash after
  which the job is claimed again.
* `RunLocalCase`, `ReportCase` are `run_eval_local` for a suite of cases.

Abstractions: scores are hundredths; what a grader looks at is what it may
return. The case of a failed run is recorded with a score of 0 and no rows hosted
(`FailedGrade`), and reported without a grade offline. A function accrues no cost of
its own; what the media it asks for bill its job is part of its cost. `blame` is a history variable: the statements that went wrong.

### Correspondence (memory)

A keyed record has one row for ever (the unique index), so its key stands for its
id; `summary` stands for every column an upsert keeps when it is omitted, `record`
for those it replaces. A session is one dispatched call at a time.

* `HostedMemory`: a call is a transaction, `pend` its uncommitted rows, which are
  its row locks. `Upsert`, `Supersede` (in a savepoint: `SupersedeFails` undoes it
  alone), `Get`, `Forget`, `Context` and `TouchOne` (hit counts, no savepoint, so
  that a failure breaks the run's transaction), `Commit`; a circle of waits makes
  Postgres pick a `Victim`.
* `SqliteMemory`: `storeOf` says which sessions share a connection and its asyncio
  lock. `Decide` is the SELECT of `memory_put`, which sqlite3 runs before it opens
  a transaction; `SqlitePut` everything from the first write to the commit.
* `Recall`: `memory_put` stores a record under the identity the job was handed,
  `memory_context` is the injection at a job's start, `memory_search` an agent's
  search; `Expire` and `Fade` are time. `derive_identity`, `local_search`,
  `hosted_search`, `Entity`, `Pinned` and `format_memory_digest` are translated as
  operators; a text is the set of words it has, a length a number. A search is that
  of its store's arms (`LocalArm`, `HostedArm`), fused, shaped and cut at the limit
  the agent gave; the rank Postgres gives to a row that its words find is any.

Abstractions: vectors are left out (no embedding is configured); ranks of the
signals are those of the code and the fusion is computed in exact fractions.

### Correspondence (LocalJobs)

A caller may name a skill or a markdown file of the bundle (`Prompts`), which runs as
an ad-hoc agent. A thread of the server is `begin`, `on_event`, `store_spans`, `succeed` or
`error_event`, `_fail`: the updates of `_run_job`, in its order, each under the
store's lock. `submit` is `_submit`; `run`, `cmd_run`, `cmd_logs` start a call of
`Client.run` and of the CLI, and `answer`, `give_up`, `get_events`, `get_job`,
`check` are its requests and the decisions of its loops. `Tick` is half a minute
for one call, `Stop` the end of the server, whose threads are daemons. A run that
hangs is a thread that takes no more steps.

### Correspondence (SkillManifest, SkillBundle)

A `skill.yaml` is a record of its keys. `Acceptable` is the validation of
`manifest.py`, `_build_decl` the declaration, `to_dict`/`from_stored_dict` the
stored manifest. A bundle is a set of directories; `parse_bundle_dir` and
`parse_bundle_zip` are the two parsers, `zip_skillpack` what the CLI leaves out,
`load` the loader and `_resolve_local_subagent` the dispatch. They are algorithms:
the properties compare them over the `Bundles` and `Yamls` of `CachedSkills`,
which assumes of the first that a directory has one entry of a name, and of the
second that examples and graders are lists and weights numbers (what `_build_decl`
accepts at all). `MCDeploymentCache` gives TLC some of each.

### Correspondence (JobFiles)

A run is one attempt of a job on a machine. `EnsureInputs` and `Preflight` pull
its inputs; `Reserve` is `resolve_output_dir`, whose test and mkdir have no await
between them; `Stage` stages the inputs, one by one until one fails; `WriteFile`, `RunCode`,
`Generate`, `EditFile`, `HandOver` are what the tools do to files; `SetOutput` the
result; `Aim` and `Move` are `relocate_outputs` file by file (the name chosen,
then the move, and the rewriting of the result); `StartSync`, `SyncOne` the push;
`List` the manifest. Transfers and moves may fail one at a time. A run that dies
takes no more steps. `wrote`, `meant` and `failed` are history. Inputs given by URL or
as base64 are left out: they are written under the job's own `_jobs/<job_id>/`. What is synced is the whole result of `run_agent`,
whose one other field is the number of steps.

## 3. Runs

| Run | Instance | Question |
|---|---|---|
| `fleet_one` | 1 machine, 2 slots, parent and child job, crashes, database failures, drains | exclusive claims, no row stranded but those it names, requeue only after unwinding |
| `fleet_faults` | 2 machines, 1 slot each, 1 job, crashes, database failures, aging heartbeats, claims caught by SIGTERM | the inductive invariant, exact billing, the status machine |
| `fleet_live` | 1 machine, 2 slots, 1 job, crashes, fairness | drains end, every job settles |
| `agent` | 2 attempts of 2 steps, turns of 2 calls, crashes at any await, failed checkpoints, failing best-effort statements, a provider that raises, cancels, fairness | gated tools and limits, what runs again, spend and cancellation over all attempts, the conversation's shape, the attempt ends |
| `subagents` | a skill that calls itself twice per turn or a tool that bills, 3 levels, 2 steps each, 2 concurrent calls, fairness | the ceiling, cancels, pool floor and workdirs over the pipeline; it ends |
| `deployment_cache` | 3 callers in 2 processes, 2 entries, failures, crashes, fairness; every bundle and `skill.yaml` of `SomeBundles` and `SomeYamls` | the inductive invariant, `BuildOnce`, no call waits for ever; the parsers, the loader and the resolvers agree |
| `finish` | 5 suites of graders, hosted and offline, 2 failing statements or commits, 2 attempts | the wallet, the jobs row, the eval case and the timeline agree; the verdict is that of the graders |
| `memory` | 2 sessions, 2 keys and an episode, 2 calls each, hosted and SQLite, one process or two, database failures, crashes | both stores implement `Memory`, acknowledged puts are counted, no circle of superseded records |
| `recall` | 2 rows, 5 inputs that name subjects in several ways, 4 shapes of record, 16 queries with the default limit and one below the range (cut to 1) | a job finds the earlier work on its subject; the digest fits; identity comes first in both stores; what the hosted search returns the local one returns, up to its limit |
| `local_jobs` | 2 jobs, 2 callers, hanging and raising runs, a server that stops, fairness | a terminal status is the last thing that changes, callers are told what happened, every call ends |
| `job_files` | 2 jobs on one machine with one name for their folders, a reader of their file on another, one shared directory, one failing transfer or move | inputs are there, folders are not shared, what is handed over is served |
| `finish_scoring` | `finish` with one fault | a disagreement between the code and its comments, see 6 |

Bounds and assumptions, each a named constant or a guard:

* `MaxCost` bounds the charges of a job (1 is enough: the billing properties only
  compare what was debited with what was accrued).
* `AgingJobs` names the rows that may outlive the reaper's window.
* `Faults` of `WorkerFleet` is a subset of `{"kill", "db"}`: crashes at any time;
  database errors, including a commit that succeeded though its answer was lost.
* `KeptFresh`: a row does not age past the window while a live process beats for
  it, nor between a claim and the first beat, unless `db` faults are allowed.
* `Kill` without faults comes only after the watchdog is done: the drain window
  (240s) ends a minute before the platform's limit (300s).
* `Turns` is the set of turns the model may ask for: two calls of one tool
  (concurrent), a gated call followed by a tool outside the allowed set (serial),
  a call followed by `set_output` (so `LongestTurn` is 2). `ToolLimit` is 1, so that the second call of a
  tool is over its limit; `MaxSteps` 2, so that there is a step before the one in
  flight; `ApprovalTimeout` 1 poll; `MaxAttempts` 2; `MaxJobCost` 1, so that one
  model call reaches it and the premium one passes it.
* `Faults` of `AgentLoop` is a subset of `{"crash", "helper", "provider",
  "unsaved"}`: a crash or a drain at any await; a swallowed statement error; a model
  call that raises; a checkpoint that is not written. `CheapCost`, `PremiumCost`, `ToolCost` are what a call may be billed.
* In `subagents`, `MaxDepth` is 3 (5 in the code): root, concurrent children,
  serial grandchildren, the three kinds of agent there are. `ParallelMaxDepth` is
  1 as in the code; `MaxWidth` and `ParallelLimit` are 2; `MaxJobCost` 3 calls, so
  that the ceiling is reached below the root. A tool bills 2 at once (`Charges`) while
  the job has cost less than `MaxBilled`, which only keeps the cost finite: the
  properties speak of the model calls. `MaxHalfMade` 1 workdir is left half made.
* In `deployment_cache`, two threads of one process and a third caller elsewhere
  tell a lock between processes from one between callers; the second entry shows
  that locks do not interfere. `SomeBundles` has two skills whose helpers have the
  same name, beside and below them, in directories the zip keeps and drops;
  `SomeYamls` changes one key at a time of a plain and of a full declaration.
* In `finish`, `Faults` is `{"statement", "commit"}` and `MaxFaults` 2, so that the
  handler's transaction may fail as well; `MCSuites` has no grader, each kind, and
  each kind beside one that is skipped, `MCRawScores` values below, inside and
  above the range, on the pass mark, and not a number.
* In `memory`, `FewPuts` supersedes each key by the other, a key by itself and a
  key by an event; `Layouts` puts both sessions in one process, or each in its own.
* In `recall`, a record's length is near what is left of the budget; `UrlCap`,
  `PinnedLimit` and `EntityLimit` are 2, 2 and 1 (more in the code), so that they
  are reached by two rows; the budget and the widths of the digest are the code's.
  `Over` is the scale of the fusion, any number that 60 + rank divides for every
  rank there is (61 times 62 here); `MaxRows` stays within the 50 candidates an
  arm of a search may have, so that none is cut off.
* In `local_jobs`, time is in half minutes: `Waits` 0 and 2 (`--timeout` 60),
  `ReadTimeout` 2 (the CLI's 60s), `Patience` 1; `MaxStops` 1.
* In `job_files`, `MaxFaults` is 1; the two jobs' ids share their first segment,
  so both name their folder alike; the third job is given the first one's file and
  writes nothing; a file name is one of `Names`.

Two slots, two jobs, two sessions or two machines are enough for the races: each
involves one row, file or folder and at most two holders. The proofs cover every
size of the fleet, the agent loop, the pipeline of subagents, the memory, the caches,
the local server, the files and the end of a run, and every bundle, manifest and
suite of graders.

Properties of the fleet are about `Own`, the jobs the reaper never took: the
reaper's only evidence is a time stamp, no write of the worker is fenced by the
worker id, and what then happens is listed in 6 rather than assumed away.

What other properties excuse, they excuse by name: `MemoryIsAtomic` and
`VersionCountsPuts` ask for one SQLite connection (`Arbitrated`), `OwnWorkdir`
for siblings with different ids (`collided`) and a workdir half made (`halfMade`),
`NoStranding` for the jobs in `lost`, `HostedFoundLocally` for an answer that has
reached its limit, `IdentityDominates` for searches that match more than 27 rows
exactly, `InputsThere` and `EveryOutputServed` for
a transfer that failed, a path that another run also touched, a folder shared
across machines, a file that another run is given as an input (`Excused`). Section 6
has what happens in those cases.

### Fairness

In `fleet_live`, the event loop is fair to its tasks and the database answers,
so each await ends; a run ends by itself (`max_agent_seconds`, the function
timeout). The memory gate admits on an idle machine only, so `BeginClaim` is
fair when no id is registered. Nothing is assumed of SIGTERM, crashes, restarts,
submissions and cancels. The external reaper and the clock go on for a row
nobody keeps fresh. SIGKILL is not fair: `DrainTerminates` holds without it.
`EveryJobSettles` assumes that from some point on the machines stay up and the
reaper takes no job from a slot that holds it. The second assumption is needed:
a heartbeat tick copies the ids before an await, so its stamp can land on a row
after the requeue; CLAIM_SQL does not clear it, the next claim looks dead, and
without the assumption TLC finds a job that is requeued in this way for ever.

In `agent` the loop itself is weakly fair (the model, the tools, the database
and the event loop answer; a tool has a timeout); nobody has to decide an
approval, and nobody has to cancel. In `subagents` each agent is weakly fair for
the same reasons, and a cancel is not assumed. In `deployment_cache` each step
that ends a call is weakly fair, but not `ClearSome` and `BuildSome`, which may
repeat; `Lock` is strongly fair, because the kernel wakes every waiter when a
lock is freed and only finitely long holders come between.

In `local_jobs` a thread that has begun, and one that has its run's outcome, goes
on; the clock of each call runs; a request is answered or refused. A run may hang
for ever: no fairness is assumed of `on_event`, `store_spans` or `error_event`,
and calls end by their own deadlines. The fairness of `memory` (a call that can
go on does) is part of its specification but its listed properties are safety;
`CallsEnd` of `WorkspaceMemory` holds there too (a circle of row locks is broken).
`recall`, `job_files` and `finish` need none.

## 4. Proofs

### WorkerFleetProofs

`IInv` is inductive: types; a stopping process whose watchdog requeues, or a
process that is down, has no slot left (`Processes`); a slot has a job exactly
where the code has one in hand (`JobInHand`); a picked row is still queued and
picked once (`PickLocks`); a slot that holds a job the reaper never took has its
row to itself (`Lease`); and before it tries to conclude, the job is unpaid
(`Unpaid`). `ExclusiveRun` is `Lease`; `BilledExactly` is not inductive without
`Unpaid`, nor `Unpaid` without `Lease`, and `Lease` survives a requeue because of
`Processes` and the worker id in REQUEUE_SQL.

`SlotFrame` handles at once every step that touches no row; each remaining action
has a lemma of its own. From `Invariance` follow `TypeCorrect`,
`ClaimsAreExclusive`, `BillingIsExact`, `ImplementsLifecycle` (every step of the
fleet is a step of `JobLifecycle` or leaves the statuses alone) and
`RequeuesAreAfterUnwinding`. They assume only `TableAssumption` and
`FleetAssumption`; fault sets, sizes and bounds are arbitrary.

`NothingIsStranded` holds for every set of faults too. `DrainInv` adds to the property
what the watchdog has in its list (`Draining`) and that a slot which holds a job that is
not `lost` has registered it unless the watchdog has not looked yet, has concluded it
before it discards it, and has its id in the list of a watchdog that cancels it
(`Kept`): between the slot, the registry and the watchdog's list it is always in one hand. A
claim that registers after the watchdog has looked is in the slot's hand only, and
becomes `lost` at that step; nobody in the process answers for such a row once the
slot is killed, and it is the reaper that ends it, by `started_at`
(`EveryJobSettles`, model-checked with crashes). The proof needs no assumption on how
long a claim may take.

### AgentLoopProofs

For any tools, limits, prices, timeouts, steps and attempts, and of the turns only
that none is longer than `LongestTurn`. All rest on `Shape`: types, finiteness of
what has run, and that only a tool call that was asked about has a row
(`CallOK`). `CallKinds` sorts the fifteen things a tool call may do into six kinds
(closed without running, let on, asked about, passed on, waiting, run); each
invariant then has one proof for each kind and one for the loop's own steps.

- `CallsPermitted`: `GateInv` adds to `GateHolds` that no two calls share a row of
  `approvals`, that a call which has not run has left no effect under its row, and
  that a gated call about to run has its row approved; rows never lose an approval.
  `LimitInv` adds to `LimitsHold` that what has run in this attempt and what is
  let run are counted together (`Slots`), though calls overlap between the check of
  the limit and the run.
- `RerunsBounded`: `RerunInv`, an attempt that goes on stands at its checkpoint or
  past it by steps whose checkpoint failed, and so does all that has run. It is
  inductive only because a checkpoint is written for the step after the one done.
- `StopsOnTime`: `SpendInv`, a turn has billed at most its answer and the calls that
  are done; the ceiling was not reached when the model was asked.
- `TurnsAlwaysAnswered`: `TurnInv`, during a step exactly its assistant turn is
  there and not answered yet, in the messages and never in a checkpoint.

### SubagentsProofs

For any depth, width, steps, ceiling, price and set of turns. `Tree`: a live agent
runs for a running call of its parent, and so on up to the root. `Serial`: a turn
that does not fan out has every call before its running one done. `Width`: the
root's turn runs at most `ParallelLimit` calls. From `Tree` and `Serial` follows
that the live agents below one call of the root's turn are ancestors of each other
(`OneBranch`), and then that at most `ParallelLimit` agents are with the model
(`CallingBound`, by an injection of them into the root's running calls).
`PipelineStopsOnTime` follows with `SpendInv` and `StopInv`, which charge each agent
that is with the model in advance: while one is let through, the cost of the job, the
tools' share included, is below the ceiling, so the model's share is. What the tools
of the turns under way then bill is bounded by nothing, in the code as in the model.
`SessionsAreBounded` counts every call under way of a turn that fans out, a tool's as
well as a subagent's.

These two have one hypothesis, `ParallelMaxDepth = 1`: what
`_PARALLEL_TOOL_MAX_DEPTH` is unless the environment raises it. They are false at
2, where the sessions and the
calls under way multiply with the depth. `WorkdirsAreOwn` needs no such
hypothesis: `DirsInv` says that a workdir is named after the id of the agent it was
made for, so that two live agents share one only if they share their ids, and
that every one on disk has a live agent that will remove it or was left half made.

### MemoryProofs

For any number of sessions, calls, records and values, any layout of the stores and
any failing statement or crash. `TableStep` is what a step may do to the table: a put
that is acknowledged, a forget, a use, or nothing. Every action of both stores is
shown to be one (`HostedInvariant`, `LocalInvariant`), from what a session may still
believe of the table when it writes:

- hosted (`HostedInv`), what a transaction has written is what its statements make of
  the rows as they are at its commit, because they are its own (`Locks`): the put and
  its supersede (`PutDone`), the get or forget (`IdDone`), the bumps (`UseDone`);
- local (`LocalInv`), the row `memory_put` has found is there; with one connection,
  which serves one call at a time (`Served`), it is the row there is;
- an episode's id is in one call, and in the table only after it (`Minted`).

`StoresAreAtomic` maps `TableStep` to the actions of `Memory`; `VersionsCountPuts`
and `ChainsAlwaysEnd` follow from it. `ChainsEnd` is inductive over `TableStep`: a set
of records with all its pointers within itself would have to hold the record a put
has just written, which points to none. It needs neither the locks nor one
connection; the other two do, and excuse separate connections to one file by name
(`Arbitrated`). The assumptions are `RowsAssumption`, `CallsAssumption` and
`BackendsAssumption`: ids, values, rows, puts and nulls are told apart.

The second half is about `Recall`, for any inputs, records, queries and limits.
`RecallInv` says that a row is what a put stored (`Rows`), with the identity of the
job it came from; staleness, age and injections change only that. On it rest

- `RecallsThePast`: two jobs about one subject, said of their files and pages
  alone (`SameSubject`), have a key in common: the files and pages of the inputs and
  the keys derived from them are flattened in step (`Alike`), the first key is the
  first image or else the first site, and duplicates are dropped from behind
  (`OnceIs`). The rows about a subject are put in one order and none is lost
  (`TypeFirstOrders`, `EntityIs`);
- `LocalFindsAll`: a word the hosted store matches is a hit of the local one, so
  each row of the hosted answer is among the local candidates; a row missing from the
  local answer was cut off, and the answer is as long as the limit;
- `DigestsFit`: what a section takes, and the glue before its next row, adds up to
  the room it had (`Fits`, for every prefix of the fold: `TakenFits`), so that the 64
  set aside pay for the headers;
- `IdentityComesFirst`: the score of a row is its shape times what each arm gives it
  for its rank (`ScoredBy`), and 10/(61+r) is more than 7/61 for r at most 26
  (`TenSevenths`), whatever the other arm is: so it holds for both stores, and the
  limit cuts off the words' rows first. The condition `FewMatches` of the property,
  that a search matches at most 27 rows exactly, is needed: the 28th falls behind
  (section 6).

These rest on what the model's operators do, shown once: `InOrder` puts a finite set
in any given order (`OrderedIs`: the number of elements ahead is the place),
`Selected` keeps a sequence's order (`SelectedIs`), `FlattenSeq` joins (`FlatIs`) and
the fold over the rows exists (`TakesExist`), by least counterexamples. `TableBound`,
`InputsAssumption`, `StylesAssumption`, `QueriesAssumption` and `DigestAssumption`
say that inputs are lists, lengths and limits numbers, queries finite.

### DeploymentCacheProofs

`IInv` of `DeploymentCache` adds to the two properties (`ReadyIsComplete`: a
sentinel marks a whole directory; `UsersHaveAll`: what a job uses has its
sentinel) that a lock's owner is exactly who is inside it (`LockHeld`) and that
who clears or builds an entry has seen no sentinel, and none has come since
(`Unmarked`). The second fact is what the test under the lock buys: without it a
late builder would clear a directory in use. `Invariance` gives `UsersAreServed`
and `BuildersExclude`; `ImplementsBuildOnce` maps each step to a step of
`BuildOnce` or a stutter, `Touch` being the one that publishes. They assume
`CacheAssumption` only.

What a job then finds in the entry is a matter of the algorithms, for any bundle
and any manifest under the two assumptions of `CachedSkills`:

- `CallersCallWhatTheySee`: the loader, which copies a skill's schemas into a tool,
  and the dispatch of a call of that tool resolve to the same skill
  (`ToolsAreFaithful`). Names being unique within a directory, what either selects
  is the only skill of its name.
- `CallersFindWhatWasPushed`: of what the CLI zips of a directory, the API's parser
  and the worker's find the same skills, wherever both accept it, each at the path
  it is stamped with (`BothParsersAgree`).
- `CallersKeepTheManifest`: `from_stored_dict` of `to_dict` is the declaration
  (`ManifestSurvives`), field by field. The lists of examples and graders, which
  are stored as rows and filtered when read, come back whole because every row
  is one that the filter keeps (`BackAgain`): `Kept` is a recursive function of the
  number of rows, and the fact about it is shown by its least counterexample, which
  takes no induction theorem.

### FinishProofs

`ChargedOnce`: the wallet pays for a run that succeeded, exactly its cost, and not
for one the worker failed, for every suite, cost, fault set and number of
attempts. The inductive invariant `MoneyInv` follows the transaction: what is
committed is `Paid`; before the mark nothing committed was paid (`BeforeTheMark`)
and what the transaction sees has no debit before `charge`; after the mark what it
sees is `Paid` (`AfterTheMark`); a transaction past its mark that still finds the
job running holds its row lock (`Untouched`), so the commit cannot overwrite what
another actor wrote. `CaseAgrees`: if no answer to a commit is lost
(`"unacknowledged" \notin Faults`, the one hypothesis), case, job and timeline
tell the same end. `StoryInv` adds what the transaction is about to tell.

`VerdictsAreTheGraders`, for any suite, any answers and any failing statement:
`GradeInv` says that whatever holds a grading (the transaction, the row, the
offline report) either has none or has the row of every grader, each of them what
that grader may have said, and the weighted mean of those rows; and that a case
passes only with the second. A run that failed has none: its case says 0 and does not
pass (`FailedGrade`), which is neither. That a mean lies between the least and the greatest
of its scores is a fact about a fold: the sum over a finite set of rows exists and
lies between the sum of the weights times either bound. It is shown for the
smallest set without such a sum, that there is none. Scores are integer hundredths
and the quotient is rounded to the nearest; what floating point adds to that is not modelled.
`FinishAssumption` says that suites are sequences of graders.

### LocalJobsProofs

`OverIsFinal` and `OutcomesAreTold`, for any number of jobs, callers and restarts,
under `Spec` (no fairness). `ServerInv`: a row is terminal only when its thread is
over (`ThreadOK`), which decided the outcome before and keeps it; what a caller
holds is a row it has read, and what that row says of an end stays true
(`CallOK`), even when the server is gone.

### JobFilesProofs

`FoldersAreOwn`: for any finite set of runs, `OwnFolder` holds whatever the
transfers and the moves do, with no exception. `FoldersInv`: a run past its
reservation holds a folder that exists, so that the one a later run finds free is
another. There is one to find (`FreeIsFree`): every folder was made for a run that has
reserved, so fewer than `Cardinality(Runs) + 1` names are taken, and among the others
there is a least (`Least`).

`InputsAreThere`: a run that works has each of its uploads on the disk with
something in it, unless its transfer failed or another run of the machine has
written or delivered the file, whatever the transfers and moves do. `InputsInv` says so of every state after the preflight, of the
uploads that they never leave the bucket, and of a result what relocation may
still move: the values not yet filed are those the deliverable named (`ResultOf`),
so that a move takes no file but those the run was asked to hand over.

`OutputsAreServed`: what a run hands over is in the bucket under the path its result
gives, with the content it had when the skill recorded its output, and is listed, from
the end of the run on; for any finite set of runs on any machines, any inputs,
including files of other runs, and any failing transfers and moves, apart from what
`Excused` names. `ServedInv` has two layers.

- `Follows` says where the content of each value of a result is: on the run's disk
  at its source, until it is filed (`Kept`); on its disk at its place, until it is
  pushed (`Filed`); in the bucket (`Served`) and in the manifest (`Listed`) after that.
- `World` says what runs share. `RunShape`: a run's own files, names and promises are
  in its folder, and where it is about to move a file nothing is promised yet.
  `Origins` and `Stock`: whose file each path of a disk, memo or bucket is. `OneCopy`:
  a file nobody has written, in a folder that is not shared, has one content wherever
  it is. `PushedHere`: a machine that alone handles a file remembers pushing what the
  bucket has.

A step is told in three parts (`DiskStep`, `BucketStep`, `RunStep`): what it may take
from a disk, put into the bucket, and change of its own run. `OthersFollow` shows once,
for every action, that the values of all other runs are still followed; each action has
then only its own run to account for. The hard ones are `Aim` and `Move`: a free name is
found (`DestIsFree`, for the names and suffixes `_dest_rel` tries), it is not the place
of an earlier value of the result, and a source that two values name is moved once.
`Pristine` is why `OneCopy` holds: a filed file has a new name, written by nobody, so
whoever pulls or pushes it pulls or pushes the one content it has.

`PathConstants` says that inputs are finite sets of paths, that no upload lies in a
run folder (it is named after a job created later), that the run folders are none
of the skills' directories or the root, and that the absence of a file is no file.
One excuse was found by the proof attempt: without "a file another run is given as an
input", `Follows` is not inductive, and the property is false (section 6,
`OutputsAreWriteOnce`).

### Model-checked only

All liveness (`DrainTerminates`, `EveryJobSettles`, `AttemptEnds`, `CallsEnd`,
`PipelineEnds`, `EveryCallEnds`): fairness and ENABLED are out of the prover's
reach. `IdentityDominates` beyond 27 exact matches, where it fails. What a recursive
definition computes for every input needs induction over data, which the installed
provers do not offer; where one is used in a theorem above (a mean, a flattened
list, the length of a digest, the rows of a manifest, pointers between records) a
least counterexample stands in for it.

## 5. Not modelled, and the plan

Still to come, in this order:

1. `AgentLoop` inside the slots of `WorkerFleet`: the checkpoints of a run that
   lost its job to the reaper; slots held by the parents of queued children of
   another skillpack (the queued path of a subagent).
2. In `JobFiles`, the file times that `_local_upload_memo` compares: a file is pushed
   when its content differs from what was pushed.
3. The worker registry and trace rows of `queue.py`; waiting for a connection.

Left out for good: translation of provider messages, price tables, media, web and
browser calls, the schema dialect, cryptography, analytics, logging, HTTP and
console output: no state, or I/O only. Prompts and model answers are whatever
the sets of `Turns` allow.

## 6. Disagreements between the code and what it says

One is kept as a run:

* `finish_scoring` (`ScoringNeverFailsTheJob`): an error of a statement of the
  grading is caught without a rollback, the transaction stays aborted, and a job
  that had succeeded is marked failed, though the docstring of `_score_evals`
  (`main.py:195`) says scoring can never do that.

Known disagreements that are not runs of their own. Each is shown by adding the
named property to the configuration of the run:

| Property | Run to add it to | What TLC then shows |
|---|---|---|
| `UnsuccessfulIsFree` | `fleet_one` | `finalize_charges` is not guarded by the status, so a job cancelled just before its finish is paid for (`queue.py:318`, "the user pays nothing") |
| `NeverOvercharged` | `fleet_faults` | the debit is not fenced by the worker id, so a reaped run and its successor both debit (`queue.py:337`, "Call once") |
| `HelpersNeverFailTheRun` | `agent` | a swallowed statement error (`checkpoint.py:87`, the prompt cache, the spans) aborts the run's transaction, and the next statement fails the run |
| `NeverCollide` | `subagents` | concurrent siblings with the same conversation get the same tool_use ids from the prompt cache, so their nested subagents share a directory, which the second one's start wipes (`agent_runner.py:1242`, "never collide") |
| `PutsAreAtomic` (PROPERTY) | `memory` | two processes on one SQLite file each read a row before the other writes it: a version is lost, an omitted summary goes back to an older one (`memory_store_sqlite.py:453`) |
| `EveryOutputListed` | `job_files` | a deliverable spelled `drive/...` is pushed and served but missing from the manifest, which "does not silently drop" one (`storage.py:366`) |
| `OutputsAreWriteOnce` (PROPERTY) | `job_files` | a pulled file is neither entered in the memo of what was pushed nor refreshed, so signing or handing over its URL pushes the old bytes back, over what its run has since delivered from another machine; the job that does so writes nothing (`storage.py:46`, "write-once", cached for an hour as such) |
| `RunIsReported` | `local_jobs` | the CLI's request gives up after 60s, as long as its default `--timeout`: `puras run` ends in a timeout error instead of "still running" |
| `LogsReachTheEnd` | `local_jobs` | `cmd_logs` reads the events before the status: what is emitted in between is never printed |
| `CaseTellsTheRun` | `finish` with `Faults = {"unacknowledged"}` | a commit that succeeds and whose answer is lost (`db.py:64`) leaves a succeeded job with a failed case and a `failed` event |

Seen while modelling, outside what the properties say or excused in them:

* Fleet: a heartbeat that stamps a row after its requeue makes the next claim look
  dead (see Fairness). A handler session that fails leaves the job running.
  `_drain_watchdog` returns when no id is registered (`main.py:712`) although a slot
  may be inside `claim_one`: the job it claims runs unwatched, and SIGKILL leaves its
  row to the reaper (`lost` in `NoStranding`).
* Subagents: a skill's media, web and other tools bill the job without a look at the
  ceiling (`agent_runner.py:2669` is read between turns), so only its model calls
  are bounded by it. A `create_workdir` that fails midway leaves its directory
  (`agent_runner.py:1243`).
* Memory: identity dominates (`SIGNAL_WEIGHTS`) only among rows of one age,
  importance and pin, without vectors, and for the 27 rows that match best: the
  weight of the 28th, 10/88, is less than the 7/61 of the first lexical match
  (an arm keeps up to 50 rows). The local search is not "identical to the hosted store
  minus the pgvector arm" (`memory_store_sqlite.py:278`): it takes rows that have any
  of the words, Postgres those that have all, and with the limit the former may push
  out what the latter returns. The hosted tag arm compares the literal
  `%q%`. The negation of a web search is not modelled. The fingerprint of
  `derive_identity` ignores objects, lists, nulls and unreadable files.
* Skills: the keys `image_model`, `video_model`, `audio_model` and `text_model`
  are documented but `_build_decl` reads `model` only (`manifest.py:514`).
  `parse_bundle_zip` accepts bundles that `parse_bundle_dir` does not and the
  other way round. `zip_skillpack` drops directories called `build`, `dist`,
  `env`, `venv`, skills among them. A qualified `other/sub` runs another parent's
  subskill. `_resolve_local_subagent` swallows the ValueErrors of the loader; its
  `@inline` prefix never comes. The test for duplicate skill names cannot fail.
  The local server cuts a path to its last segment.
* Files: a relocation is not idempotent across attempts, and neither is the
  suffix of the folder. The comment on the memo (`storage.py:11`) is
  stale. Paths outside the run's
  folder are shared by concurrent jobs. Echoed inputs are moved and listed, though
  `storage.py:349` says they are skipped. A file named with and without `drive/`
  loses one of the two. A failed move is not remembered. An input the preflight
  missed may be staged empty. An output in the root is neither filed nor listed
  (documented).
* Evals: a grader that returns NaN makes `run_evals` raise ("Never raises"). A
  case that nothing could grade is null hosted and not passed offline; one whose run
  failed scores 0 hosted (`main.py:250`) and nothing offline. An expected
  value of JSON null counts offline only. The gate compares a rounded rate.
  `_print_eval_report` uses names that are not defined (`green`, `red`).
