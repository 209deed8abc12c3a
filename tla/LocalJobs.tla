------------------------------ MODULE LocalJobs -------------------------------
(***************************************************************************)
(* `puras serve` (worker/local_server.py): an in-memory table of jobs, one *)
(* thread per job that drives run_local, and the callers that submit and   *)
(* follow jobs over HTTP: the SDK's Client.run (sdk/puras/client.py) and   *)
(* the CLI's run, logs and spans (sdk/puras/cli/commands.py).              *)
(*                                                                         *)
(* A thread's pc:  none, begin (before its first update), inside           *)
(* (run_local), kept (its spans are stored), erred (its error event is     *)
(* out), over.  Time passes for a call in ticks of half a minute; what a   *)
(* handler does at once takes none.                                        *)
(***************************************************************************)
EXTENDS Integers, Sequences, SequencesExt, FiniteSets

CONSTANTS
    MaxJobs,        \* bound: the jobs submitted, numbered in that order
    Callers,        \* bound: the programs run against the server, one call each
    Bundle,         \* parse_bundle_dir of the served directory: its skills
    Prompts,        \* its markdown files, by path
    SkillPaths,     \* bound: what a caller may name, as path segments
    DefaultPack,    \* the skillpack a client was given, or NoName
    Keyed,          \* the callers that hold the server's key
    Waits,          \* bound: --timeout of the CLI's run, in ticks
    Patience,       \* timeout of Client.run and of logs, in ticks
    ReadTimeout,    \* the timeout of the CLI's HTTP client, in ticks
    MaxEvents,      \* bound: events one run emits
    MaxStops,       \* bound: times the server is stopped and started
    NoName

ASSUME LocalJobsAssumption ==
    /\ MaxJobs \in Nat /\ Keyed \subseteq Callers
    /\ Waits \subseteq Nat /\ Patience \in Nat \ {0} /\ ReadTimeout \in Nat \ {0}
    /\ MaxEvents \in Nat /\ MaxStops \in Nat

VARIABLES
    row,        \* LocalServer._jobs
    events,     \* LocalServer._events
    spans,      \* LocalServer._spans
    pc, out,    \* of each job's thread: where it is, what run_local gave it
    call,       \* of each caller: where its call is and what it was told
    stops

vars == <<row, events, spans, pc, out, call, stops>>

Jobs == 1 .. MaxJobs
NoJob == 0

Terminal == {"succeeded", "failed", "cancelled"}
Known(j) == row[j].status # "unknown"
Done(j) == row[j].status \in Terminal

-----------------------------------------------------------------------------
(* Which skill a path names.                                               *)

\* Client._target: a path of two segments or more brings its own skillpack.
_target(path) ==
    IF Len(path) >= 2 THEN [pack |-> Front(path), skill |-> Last(path)]
    ELSE [pack |-> IF DefaultPack = NoName THEN <<>> ELSE <<DefaultPack>>,
          skill |-> IF path = <<>> THEN NoName ELSE path[1]]

\* The skillpack of the reference plays no part: one bundle is served.
Top == {s \in Bundle : s.parent = NoName}
Named(skill) == {s \in Bundle : s.name = skill}

\* The skills run_local may settle on; none is a LocalRunError.
_pick_skill(skill) ==
    IF skill # NoName THEN Named(skill) ELSE IF Cardinality(Top) = 1 THEN Top ELSE {}

\* The path of a markdown file runs it as an ad-hoc agent.
Runnable(skill) == skill \in Prompts \/ \E s \in _pick_skill(skill) : s.is_agentic

-----------------------------------------------------------------------------
(* The thread of a job (_run_job).                                         *)

Unknown == [status |-> "unknown", skill |-> NoName, result |-> NoJob, error |-> FALSE]
Queued(skill) == [Unknown EXCEPT !.status = "queued", !.skill = skill]

begin(j) ==
    /\ pc[j] = "begin"
    /\ pc' = [pc EXCEPT ![j] = "inside"]
    /\ row' = [row EXCEPT ![j].status = "running"]
    /\ UNCHANGED <<events, spans, out, call, stops>>

Emitted(j, type) == events' = [events EXCEPT ![j] = Append(@, [id |-> Len(@) + 1, type |-> type])]

on_event(j) ==
    /\ pc[j] = "inside" /\ Runnable(row[j].skill) /\ Len(events[j]) < MaxEvents
    /\ Emitted(j, "step")
    /\ UNCHANGED <<row, spans, pc, out, call, stops>>

\* run_local returned; the spans go in under a lock of their own.
store_spans(j) ==
    /\ pc[j] = "inside" /\ Runnable(row[j].skill)
    /\ pc' = [pc EXCEPT ![j] = "kept"]
    /\ out' = [out EXCEPT ![j] = "output"]
    /\ spans' = [spans EXCEPT ![j] = {j}]
    /\ UNCHANGED <<row, events, call, stops>>

\* Mutant: the fields are set one after the other, the status first.
SucceedByField(j) ==
    /\ \/ /\ pc[j] = "kept"
          /\ pc' = [pc EXCEPT ![j] = "late"]
          /\ row' = [row EXCEPT ![j].status = "succeeded"]
       \/ /\ pc[j] = "late"
          /\ pc' = [pc EXCEPT ![j] = "over"]
          /\ row' = [row EXCEPT ![j].result = j]
    /\ UNCHANGED <<events, spans, out, call, stops>>

succeed(j) ==
    /\ pc[j] = "kept"
    /\ pc' = [pc EXCEPT ![j] = "over"]
    /\ row' = [row EXCEPT ![j].status = "succeeded", ![j].result = j]
    /\ UNCHANGED <<events, spans, out, call, stops>>

\* run_local raised: no such skill, a deterministic one, or anything on the way.
error_event(j) ==
    /\ pc[j] = "inside"
    /\ pc' = [pc EXCEPT ![j] = "erred"]
    /\ out' = [out EXCEPT ![j] = "error"]
    /\ Emitted(j, "error")
    /\ UNCHANGED <<row, spans, call, stops>>

_fail(j) ==
    /\ pc[j] = "erred"
    /\ pc' = [pc EXCEPT ![j] = "over"]
    /\ row' = [row EXCEPT ![j].status = "failed", ![j].error = TRUE]
    /\ UNCHANGED <<events, spans, out, call, stops>>

_run_job(j) == begin(j) \/ on_event(j) \/ store_spans(j) \/ succeed(j) \/ error_event(j) \/ _fail(j)

\* submit: the job is in all three tables, then its thread starts.
submit(j, skill) ==
    /\ pc[j] = "none" /\ \A i \in 1 .. j - 1 : pc[i] # "none"
    /\ row' = [row EXCEPT ![j] = Queued(skill)]
    /\ pc' = [pc EXCEPT ![j] = "begin"]
    /\ UNCHANGED <<events, spans, out, stops>>

\* Ctrl-C and `puras serve` again: the threads are daemons, the tables memory.
Stop ==
    /\ stops < MaxStops
    /\ stops' = stops + 1
    /\ row' = [j \in Jobs |-> Unknown]
    /\ events' = [j \in Jobs |-> <<>>]
    /\ spans' = [j \in Jobs |-> {}]
    /\ pc' = [j \in Jobs |-> IF pc[j] = "none" THEN "none" ELSE "dead"]
    /\ call' = [c \in Callers |-> IF call[c].at = "posted"
                                  THEN [call[c] EXCEPT !.at = "ended", !.end = "no answer"]
                                  ELSE call[c]]
    /\ UNCHANGED out

-----------------------------------------------------------------------------
(* The calls.  at:  idle, posted (the server holds the request), events    *)
(* and get (the next request of a polling loop), check (the job's row is   *)
(* in hand), ended.  A poll that finds nothing new changes nothing else.   *)

Idle == [of |-> "nobody", at |-> "idle", job |-> NoJob, wait |-> 0, age |-> 0,
         got |-> Unknown, printed |-> 0, end |-> "none"]

Free(c) == call[c].at = "idle"
Over(c) == call[c].at = "ended"
Ended(k, how) == [k EXCEPT !.at = "ended", !.end = how, !.age = 0]
Step(c, k) == call' = [call EXCEPT ![c] = k]

\* A request without the key, with a body that is not an object, and so on.
Refused(c, program) ==
    /\ Free(c)
    /\ Step(c, Ended([Idle EXCEPT !.of = program], "api error"))
    /\ UNCHANGED <<row, events, spans, pc, out, stops>>

\* Client.run: submit, then wait.
run(c, path) ==
    /\ Free(c)
    /\ IF _target(path).pack = <<>>
       THEN /\ Step(c, Ended([Idle EXCEPT !.of = "Client.run"], "no skillpack"))
            /\ UNCHANGED <<row, events, spans, pc, out, stops>>
       ELSE \E j \in Jobs :
            /\ c \in Keyed
            /\ submit(j, _target(path).skill)
            /\ Step(c, [Idle EXCEPT !.of = "Client.run", !.at = "get", !.job = j, !.wait = Patience])

\* cmd_run: one request that the server holds; with --async it does not.
cmd_run(c, path, wait) ==
    /\ Free(c) /\ c \in Keyed /\ _target(path).pack # <<>>
    /\ \E j \in Jobs :
        /\ submit(j, _target(path).skill)
        /\ Step(c, [Idle EXCEPT !.of = "cmd_run", !.at = "posted", !.job = j, !.wait = wait])

\* cmd_logs of a job somebody submitted.
cmd_logs(c, j) ==
    /\ Free(c) /\ c \in Keyed /\ pc[j] # "none"
    /\ Step(c, [Idle EXCEPT !.of = "cmd_logs", !.at = "events", !.job = j, !.wait = Patience])
    /\ UNCHANGED <<row, events, spans, pc, out, stops>>

\* How a call tells its user what it has in hand (JobError, _report_run).
Outcome(got) ==
    CASE got.status = "succeeded" -> "result"
      [] got.status = "failed" -> "job failed"
      [] OTHER -> "still running"

\* The server's own wait ends: the job is done, or the time is up.
answer(c) ==
    LET k == call[c]
    IN  /\ k.at = "posted" /\ (Done(k.job) \/ k.age >= k.wait)
        /\ Step(c, Ended([k EXCEPT !.got = row[k.job]], Outcome(row[k.job])))
        /\ UNCHANGED <<row, events, spans, pc, out, stops>>

\* httpx gives up on a response that has not come (ReadTimeout).
give_up(c) ==
    LET k == call[c]
    IN  /\ k.at = "posted" /\ k.age >= ReadTimeout
        /\ Step(c, Ended(k, "no answer"))
        /\ UNCHANGED <<row, events, spans, pc, out, stops>>

get_events(c) ==
    LET k == call[c]
    IN  /\ k.at = "events"
        /\ Step(c, IF Known(k.job) THEN [k EXCEPT !.printed = Len(events[k.job]), !.at = "get"]
                   ELSE Ended(k, "api error"))
        /\ UNCHANGED <<row, events, spans, pc, out, stops>>

get_job(c) ==
    LET k == call[c]
    IN  /\ k.at = "get"
        /\ Step(c, IF Known(k.job) THEN [k EXCEPT !.got = row[k.job], !.at = "check"]
                   ELSE Ended(k, "api error"))
        /\ UNCHANGED <<row, events, spans, pc, out, stops>>

\* Mutant: a poll that has not seen the end sleeps and polls again.
CheckForever(c) ==
    LET k == call[c]
    IN  /\ k.at = "check"
        /\ Step(c, IF k.got.status \in Terminal THEN Ended(k, Outcome(k.got))
                   ELSE [k EXCEPT !.at = IF k.of = "cmd_logs" THEN "events" ELSE "get"])
        /\ UNCHANGED <<row, events, spans, pc, out, stops>>

\* Mutant: whatever is no longer running is a result.
CheckNotRunning(c) ==
    LET k == call[c]
    IN  /\ k.at = "check"
        /\ Step(c, IF k.got.status # "running" \/ k.age >= k.wait THEN Ended(k, "result")
                   ELSE [k EXCEPT !.at = IF k.of = "cmd_logs" THEN "events" ELSE "get"])
        /\ UNCHANGED <<row, events, spans, pc, out, stops>>

check(c) ==
    LET k == call[c]
    IN  /\ k.at = "check"
        /\ Step(c, IF k.got.status \in Terminal \/ k.age >= k.wait THEN Ended(k, Outcome(k.got))
                   ELSE [k EXCEPT !.at = IF k.of = "cmd_logs" THEN "events" ELSE "get"])
        /\ UNCHANGED <<row, events, spans, pc, out, stops>>

\* The first of a call's deadlines: what is due at it happens before the next tick.
Limit(k) == IF k.at = "posted" /\ ReadTimeout < k.wait THEN ReadTimeout ELSE k.wait

Tick(c) ==
    /\ ~Free(c) /\ ~Over(c) /\ call[c].age < Limit(call[c])
    /\ Step(c, [call[c] EXCEPT !.age = @ + 1])
    /\ UNCHANGED <<row, events, spans, pc, out, stops>>

Proceed(c) == answer(c) \/ give_up(c) \/ get_events(c) \/ get_job(c) \/ check(c)

-----------------------------------------------------------------------------
Init ==
    /\ row = [j \in Jobs |-> Unknown]
    /\ events = [j \in Jobs |-> <<>>]
    /\ spans = [j \in Jobs |-> {}]
    /\ pc = [j \in Jobs |-> "none"]
    /\ out = [j \in Jobs |-> "none"]
    /\ call = [c \in Callers |-> Idle]
    /\ stops = 0

Next ==
    \/ \E j \in Jobs : _run_job(j)
    \/ \E c \in Callers, program \in {"Client.run", "cmd_run", "cmd_logs"} : Refused(c, program)
    \/ \E c \in Callers, path \in SkillPaths : run(c, path)
    \/ \E c \in Callers, path \in SkillPaths, wait \in Waits : cmd_run(c, path, wait)
    \/ \E c \in Callers, j \in Jobs : cmd_logs(c, j)
    \/ \E c \in Callers : Proceed(c) \/ Tick(c)
    \/ Stop

\* Threads are scheduled and clocks run; a run may hang, a request is answered.
Fairness ==
    /\ \A j \in Jobs : WF_vars(begin(j)) /\ WF_vars(succeed(j)) /\ WF_vars(_fail(j))
    /\ \A c \in Callers : WF_vars(Proceed(c)) /\ WF_vars(Tick(c))

Spec == Init /\ [][Next]_vars
FairSpec == Spec /\ Fairness

-----------------------------------------------------------------------------
\* Once a job's row says it is over, nothing of it changes any more while the
\* server lives: not the row, not its events, not its spans, so that a reader
\* who saw the status may fetch the rest at leisure (_run_job stores the spans
\* and emits the error event before the one update that ends the job).
TerminalIsFinal ==
    [][\A j \in Jobs : Done(j) /\ stops' = stops =>
            row'[j] = row[j] /\ events'[j] = events[j] /\ spans'[j] = spans[j]]_vars

\* A caller is told of its job's run what run_local made of it, never of a run
\* that is not over or of another's: a result only of one that returned (with
\* its output), a failure only of one that raised, whichever way it waited.
ToldTheOutcome ==
    \A c \in Callers :
        LET k == call[c]
        IN  /\ k.end = "result" => out[k.job] = "output" /\ k.got.result = k.job
            /\ k.end = "job failed" => out[k.job] = "error" /\ k.got.error

\* Every call ends, even on a run that hangs: each loop has its deadline, the
\* server's and the client's.
EveryCallEnds == \A c \in Callers : ~Free(c) ~> Over(c)

\* `puras run` ends in telling what became of the job, or that it is still
\* running (_report_run), as long as the server is up.
RunIsReported ==
    \A c \in Callers : call[c].end = "no answer" => stops > 0

\* `puras logs` shows a job's events until it finishes (cmd_logs).
LogsReachTheEnd ==
    \A c \in Callers :
        LET k == call[c]
        IN  k.of = "cmd_logs" /\ k.end \in {"result", "job failed"} /\ stops = 0
                => k.printed = Len(events[k.job])
=============================================================================
