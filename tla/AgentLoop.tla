------------------------------ MODULE AgentLoop ------------------------------
(***************************************************************************)
(* run_agent (worker/agent_runner.py) at depth 1, over the attempts a job  *)
(* may need: the turn loop with its ceilings, the dispatch of a turn's     *)
(* tool calls, serial or concurrent, the approval gate                     *)
(* (worker/approvals.py), the checkpoint after each turn                   *)
(* (worker/checkpoint.py) and the session they share.                      *)
(*                                                                         *)
(* pc is the await the loop is at:                                         *)
(*   off       no attempt is running: queued, or put back after a crash    *)
(*   loaded    the checkpoint is read, agent_start not committed           *)
(*   top       top of `for step in range(...)`                             *)
(*   call      ceilings passed, the model not called yet                   *)
(*   model     the model is answering                                      *)
(*   dispatch  the turn's tool calls run                                   *)
(*   saving    the turn is in `messages`, its checkpoint not committed     *)
(*   returned, failed   run_agent returned or raised                       *)
(***************************************************************************)
EXTENDS Integers, Sequences, FiniteSets

CONSTANTS
    Tools,              \* the names the model may call, set_output apart
    ConfirmTools,       \* tools the skill marks `confirm: true`
    SerialTools,        \* file_write and file_edit of _PARALLEL_UNSAFE
    Allowed,            \* allowed_tools
    ToolLimit,          \* tool_limits
    Turns,              \* bound: the tool calls a model turn may ask for
    LongestTurn,        \* bound: the length of the longest of them
    HasSchema,          \* the skill declares output_schema
    EscalateAfter,      \* routing: schema failures before the premium model
    MaxSteps,           \* max_agent_steps
    MaxJobCost,         \* max_job_cost_micros
    CheapCost, PremiumCost, ToolCost, \* bound: what a call may be billed
    ParallelToolLimit,  \* _PARALLEL_TOOL_LIMIT
    ApprovalTimeout,    \* approval_timeout_s in polls
    MaxAttempts,        \* bound: attempts of the job
    Faults              \* a subset of {"crash", "helper", "provider", "unsaved"}

set_output == "set_output"

ASSUME LoopAssumption ==
    /\ ConfirmTools \subseteq Tools /\ SerialTools \subseteq Tools
    /\ Allowed \subseteq Tools
    /\ set_output \notin Tools
    /\ ToolLimit \in [Tools -> Nat]
    /\ Turns \subseteq Seq(Tools \cup {set_output}) \ {<<>>}
    /\ LongestTurn \in Nat /\ \A t \in Turns : Len(t) =< LongestTurn
    /\ HasSchema \in BOOLEAN
    /\ EscalateAfter \in Nat /\ EscalateAfter > 0
    /\ MaxSteps \in Nat /\ MaxJobCost \in Nat \ {0}
    /\ CheapCost \in Nat /\ PremiumCost \in Nat /\ ToolCost \in Nat
    /\ CheapCost =< PremiumCost
    /\ ParallelToolLimit \in Nat \ {0}
    /\ ApprovalTimeout \in Nat /\ MaxAttempts \in Nat
    /\ Faults \subseteq {"crash", "helper", "provider", "unsaved"}

VARIABLES
    cancelled,          \* jobs.status is cancelled
    cost,               \* jobs.cost_micros
    checkpoint,         \* the job_checkpoints row, or NoCheckpoint
    approvals,          \* the job_approvals rows, oldest first
    pc, attempt, step, messages,
    calls,              \* the dispatch state of this turn's tool calls
    tool_call_counts, schema_fail_count, escalated,
    aborted,            \* the session's transaction is aborted
    why,                \* why the attempt failed
    effects,            \* history: the tool calls that ran
    unsaved,            \* history: steps whose checkpoint was not written
    late                \* history: model calls made after the cancel

dbVars == <<cancelled, cost, checkpoint, approvals>>
memVars == <<step, messages, tool_call_counts, schema_fail_count, escalated>>
history == <<effects, unsaved, late>>
vars == <<dbVars, pc, attempt, memVars, calls, aborted, why, history>>

NoCheckpoint == [step |-> 0, messages |-> <<>>]

\* A message of the conversation with the ids of its tool_use or tool_result
\* blocks; the text is left out.
User(ids) == [role |-> "user", ids |-> ids]
Assistant(ids) == [role |-> "assistant", ids |-> ids]

\* The id the provider gives to the i-th tool call of this turn.  The prompt cache
\* replays a response with its ids, to the identical request only, so never twice
\* within one conversation.
Id(i) == <<attempt, step, i>>
Ids == [i \in DOMAIN calls |-> Id(i)]

\* A tool call: where its dispatch is, what came of it, the approval it waits
\* for (0: none) and the polls it has waited.
\*   waiting    not begun              asking     request_approval
\*   gated      wait_for_decision      seen       the row was pending
\*   expiring   the wait is given up   cleared    about to run
\*   done       its result is in
NewCall(t) ==
    [tool |-> t, st |-> "waiting", result |-> "none", approval |-> 0, waited |-> 0]
CallStates == {"waiting", "asking", "gated", "seen", "expiring", "cleared", "done"}
Results == {"none", "ok", "error", "expired", "recorded"}

TypeOK ==
    /\ cancelled \in BOOLEAN /\ cost \in Nat
    /\ checkpoint.step \in 0..MaxSteps
    /\ \A a \in DOMAIN approvals :
           approvals[a] \in [tool : ConfirmTools,
                             status : {"pending", "approved", "denied", "expired"}]
    /\ pc \in {"off", "loaded", "top", "call", "model", "dispatch", "saving",
               "returned", "failed"}
    /\ attempt \in 0..MaxAttempts
    /\ step \in 0..MaxSteps
    /\ tool_call_counts \in [Tools -> Nat]
    /\ schema_fail_count \in Nat /\ escalated \in BOOLEAN
    /\ \A i \in DOMAIN calls :
           calls[i] \in [tool : Tools \cup {set_output}, st : CallStates,
                         result : Results, approval : 0..Len(approvals),
                         waited : 0..ApprovalTimeout]
    /\ aborted \in BOOLEAN
    /\ why \in {"", "time", "cancelled", "cost", "no output", "steps", "aborted",
               "provider"}
    /\ late \in Nat

Init ==
    /\ cancelled = FALSE /\ cost = 0 /\ checkpoint = NoCheckpoint
    /\ approvals = <<>>
    /\ pc = "off" /\ attempt = 0 /\ step = 0 /\ messages = <<>>
    /\ calls = <<>> /\ tool_call_counts = [t \in Tools |-> 0]
    /\ schema_fail_count = 0 /\ escalated = FALSE /\ aborted = FALSE
    /\ why = "" /\ effects = {} /\ unsaved = {} /\ late = 0

-----------------------------------------------------------------------------
(* Starting an attempt.                                                    *)

\* Every counter the loop keeps starts afresh, in a resumed run too.
FreshCounters ==
    /\ tool_call_counts' = [t \in Tools |-> 0]
    /\ schema_fail_count' = 0
    /\ escalated' = FALSE

Resume ==
    /\ step' = checkpoint.step
    /\ messages' = IF checkpoint = NoCheckpoint THEN <<User(<<>>)>>
                                                ELSE checkpoint.messages
    /\ aborted' = FALSE

\* load_checkpoint's query fails: it reports no checkpoint, and the session's
\* transaction is left aborted.
LoadFails ==
    /\ "helper" \in Faults
    /\ step' = 0
    /\ messages' = <<User(<<>>)>>
    /\ aborted' = TRUE

\* The job is claimed (a cancelled job is not) and run_agent starts.
StartAttempt ==
    /\ pc = "off" /\ ~cancelled /\ attempt < MaxAttempts
    /\ pc' = "loaded"
    /\ attempt' = attempt + 1
    /\ Resume \/ LoadFails
    /\ FreshCounters
    /\ UNCHANGED <<dbVars, calls, why, history>>

Fail(reason) ==
    /\ pc' = "failed"
    /\ why' = reason
    /\ UNCHANGED <<dbVars, attempt, memVars, calls, aborted, history>>

\* A statement in an aborted transaction raises, outside of any tool call.
StatementRaises ==
    /\ aborted /\ pc \in {"loaded", "top", "model"}
    /\ Fail("aborted")

\* `for step in range(...)`: the range is empty or used up.
Exhausted ==
    /\ step >= MaxSteps
    /\ Fail("steps")

\* agent_start, and resumed, are committed.
AgentStart ==
    /\ pc = "loaded" /\ ~aborted
    /\ \/ Exhausted
       \/ /\ step < MaxSteps
          /\ pc' = "top"
          /\ UNCHANGED <<dbVars, attempt, memVars, calls, aborted, why, history>>

-----------------------------------------------------------------------------
(* The top of the loop and the model call.                                 *)

AtTop == pc = "top" /\ ~aborted

\* max_agent_seconds is over; the wall clock is not modelled.
StopLate == AtTop /\ Fail("time")

StopCancelled == AtTop /\ cancelled /\ Fail("cancelled")

StopCapped == AtTop /\ ~cancelled /\ cost >= MaxJobCost /\ Fail("cost")

\* Mutant: the ceiling is read once, when the attempt starts.
PassTopUncapped ==
    /\ AtTop /\ ~cancelled /\ (step = checkpoint.step => cost < MaxJobCost)
    /\ pc' = "call"
    /\ escalated' = (escalated \/ schema_fail_count >= EscalateAfter)
    /\ UNCHANGED <<dbVars, attempt, step, messages, tool_call_counts,
                   schema_fail_count, calls, aborted, why, history>>

\* The run goes on, on the premium model from the turn its trigger fires.
PassTop ==
    /\ AtTop /\ ~cancelled /\ cost < MaxJobCost
    /\ pc' = "call"
    /\ escalated' = (escalated \/ schema_fail_count >= EscalateAfter)
    /\ UNCHANGED <<dbVars, attempt, step, messages, tool_call_counts,
                   schema_fail_count, calls, aborted, why, history>>

\* The request leaves, unless the prompt cache answers it; a cache statement
\* that fails is swallowed and leaves the transaction aborted.
CallModel ==
    /\ pc = "call"
    /\ pc' = "model"
    /\ late' = IF cancelled THEN late + 1 ELSE late
    /\ aborted' \in IF "helper" \in Faults THEN BOOLEAN ELSE {FALSE}
    /\ UNCHANGED <<dbVars, attempt, memVars, calls, why, effects, unsaved>>

\* messages_create raises.
ProviderRaises ==
    /\ "provider" \in Faults
    /\ pc = "model"
    /\ Fail("provider")

\* What a response is billed: nothing when the prompt cache served it.
Billed == {0, IF escalated THEN PremiumCost ELSE CheapCost}

\* The response is billed and committed, then joins the conversation.
ModelAsksForTools ==
    /\ pc = "model" /\ ~aborted
    /\ \E t \in Turns : calls' = [i \in DOMAIN t |-> NewCall(t[i])]
    /\ \E c \in Billed : cost' = cost + c
    /\ messages' = Append(messages, Assistant([i \in DOMAIN calls' |-> Id(i)]))
    /\ pc' = "dispatch"
    /\ UNCHANGED <<cancelled, checkpoint, approvals, attempt, step,
                   tool_call_counts, schema_fail_count, escalated, aborted,
                   why, history>>

\* No tool call: the run is over, and failed if its output was due.
ModelEndsTurn ==
    /\ pc = "model" /\ ~aborted
    /\ \E c \in Billed : cost' = cost + c
    /\ messages' = Append(messages, Assistant(<<>>))
    /\ pc' = IF HasSchema THEN "failed" ELSE "returned"
    /\ why' = IF HasSchema THEN "no output" ELSE ""
    /\ UNCHANGED <<cancelled, checkpoint, approvals, attempt, step, calls,
                   tool_call_counts, schema_fail_count, escalated, aborted,
                   history>>

-----------------------------------------------------------------------------
(* One turn's tool calls: _run_parallel or the serial loop around          *)
(* _safe_dispatch and _dispatch_one_tool.                                  *)

Parallel ==
    /\ Len(calls) > 1
    /\ \A i \in DOMAIN calls :
           calls[i].tool \notin SerialTools \cup ConfirmTools \cup {set_output}

Active == {i \in DOMAIN calls : calls[i].st \notin {"waiting", "done"}}

\* The semaphore of the concurrent path, or the order of the serial one.
MayBegin(i) ==
    IF Parallel THEN Cardinality(Active) < ParallelToolLimit
                ELSE \A k \in 1 .. i - 1 : calls[k].st = "done"

Begins(i) ==
    /\ pc = "dispatch"
    /\ i \in DOMAIN calls /\ calls[i].st = "waiting"
    /\ MayBegin(i)

\* Call i, which was at st, moves on.
At(i, st) == pc = "dispatch" /\ i \in DOMAIN calls /\ calls[i].st = st
Move(i, st) == calls' = [calls EXCEPT ![i].st = st]
Settle(i, r) == calls' = [calls EXCEPT ![i].st = "done", ![i].result = r]

\* The call's span is recorded on its session when it ends; a failure of that
\* statement is swallowed and leaves the transaction aborted.  A concurrent
\* call has a session of its own, which ends with it.
Spanned ==
    aborted' \in IF "helper" \in Faults /\ ~Parallel THEN BOOLEAN ELSE {FALSE}

\* A tool call that starts in an aborted transaction raises, as does one that
\* gets no session of its own: an error is reported, after a rollback.
BeginRaises(i) ==
    /\ Begins(i)
    /\ aborted \/ (Parallel /\ "helper" \in Faults)
    /\ Settle(i, "error")
    /\ Spanned
    /\ UNCHANGED <<dbVars, pc, attempt, memVars, why, history>>

Ready(i) == Begins(i) /\ ~aborted

NotAllowed(i) ==
    /\ Ready(i) /\ calls[i].tool \in Tools \ Allowed
    /\ Settle(i, "error")
    /\ Spanned
    /\ UNCHANGED <<dbVars, pc, attempt, memVars, why, history>>

OverLimit(t) == tool_call_counts[t] + 1 > ToolLimit[t]

Count(t) == tool_call_counts' = [tool_call_counts EXCEPT ![t] = @ + 1]

\* The call is counted, and refused if it is over its limit.
Limited(i) ==
    /\ Ready(i) /\ calls[i].tool \in Allowed
    /\ OverLimit(calls[i].tool)
    /\ Count(calls[i].tool)
    /\ Settle(i, "error")
    /\ Spanned
    /\ UNCHANGED <<dbVars, pc, attempt, step, messages, schema_fail_count,
                   escalated, why, history>>

\* The call is counted and may run, once approved if the tool is gated.
Begin(i) ==
    /\ Ready(i) /\ calls[i].tool \in Allowed
    /\ ~OverLimit(calls[i].tool)
    /\ Count(calls[i].tool)
    /\ Move(i, IF calls[i].tool \in ConfirmTools THEN "asking" ELSE "cleared")
    /\ UNCHANGED <<dbVars, pc, attempt, step, messages, schema_fail_count,
                   escalated, aborted, why, history>>

\* set_output: recorded, or a schema error the model can react to.
SetOutput(i) ==
    /\ Ready(i) /\ calls[i].tool = set_output
    /\ \/ /\ Settle(i, "recorded")
          /\ UNCHANGED schema_fail_count
       \/ /\ HasSchema
          /\ Settle(i, "error")
          /\ schema_fail_count' = schema_fail_count + 1
    /\ Spanned
    /\ UNCHANGED <<dbVars, pc, attempt, step, messages, tool_call_counts,
                   escalated, why, history>>

-----------------------------------------------------------------------------
(* The approval gate.  Its calls run alone: a turn with one is serial.     *)

ApprovalOf(i) == approvals[calls[i].approval]

\* The call is refused with an error the model can react to.
Refuse(i) ==
    /\ Settle(i, "error")
    /\ Spanned
    /\ UNCHANGED <<dbVars, pc, attempt, memVars, why, history>>

\* request_approval: the row and its event are committed.
RequestApproval(i) ==
    /\ At(i, "asking")
    /\ approvals' = Append(approvals, [tool |-> calls[i].tool, status |-> "pending"])
    /\ calls' = [calls EXCEPT ![i].st = "gated", ![i].approval = Len(approvals')]
    /\ UNCHANGED <<cancelled, cost, checkpoint, pc, attempt, memVars, aborted,
                   why, history>>

\* The arguments do not fit the tool's schema, the row cannot be created, or
\* the handler raises before the tool has done anything.
Invalid(i) == (At(i, "asking") \/ At(i, "cleared")) /\ Refuse(i)

\* The poll of wait_for_decision finds the row decided.
Approved(i) ==
    /\ At(i, "gated") /\ calls[i].waited < ApprovalTimeout
    /\ ApprovalOf(i).status = "approved"
    /\ Move(i, "cleared")
    /\ UNCHANGED <<dbVars, pc, attempt, memVars, aborted, why, history>>

Denied(i) ==
    /\ At(i, "gated") /\ calls[i].waited < ApprovalTimeout
    /\ ApprovalOf(i).status = "denied"
    /\ Refuse(i)

\* The poll finds it pending.
SeesPending(i) ==
    /\ At(i, "gated") /\ calls[i].waited < ApprovalTimeout
    /\ ApprovalOf(i).status = "pending"
    /\ Move(i, "seen")
    /\ UNCHANGED <<dbVars, pc, attempt, memVars, aborted, why, history>>

\* Mutant: the sleep is not counted.
SleepsOnForever(i) ==
    /\ At(i, "seen") /\ ~cancelled
    /\ Move(i, "gated")
    /\ UNCHANGED <<dbVars, pc, attempt, memVars, aborted, why, history>>

\* The run is not cancelled: sleep and count the poll.
SleepsOn(i) ==
    /\ At(i, "seen") /\ ~cancelled
    /\ calls' = [calls EXCEPT ![i].st = "gated", ![i].waited = @ + 1]
    /\ UNCHANGED <<dbVars, pc, attempt, memVars, aborted, why, history>>

\* The run is cancelled, or the wait has timed out: the gate is given up.
GivesUp(i) ==
    /\ \/ At(i, "seen") /\ cancelled
       \/ At(i, "gated") /\ calls[i].waited >= ApprovalTimeout
    /\ Move(i, "expiring")
    /\ UNCHANGED <<dbVars, pc, attempt, memVars, aborted, why, history>>

\* Mutant: the row's last status is trusted, after the wait was given up.
ExpireOrRun(i) ==
    /\ At(i, "expiring")
    /\ approvals' = [approvals EXCEPT ![calls[i].approval].status =
                         IF @ = "pending" THEN "expired" ELSE @]
    /\ Move(i, "cleared")
    /\ UNCHANGED <<cancelled, cost, checkpoint, pc, attempt, memVars, aborted,
                   why, history>>

\* _expire, which leaves a decided row alone; the call is refused either way.
Expire(i) ==
    /\ At(i, "expiring")
    /\ approvals' = [approvals EXCEPT ![calls[i].approval].status =
                         IF @ = "pending" THEN "expired" ELSE @]
    /\ Settle(i, "expired")
    /\ Spanned
    /\ UNCHANGED <<cancelled, cost, checkpoint, pc, attempt, memVars, why, history>>

\* A query of the wait fails, which _safe_dispatch contains: the row stays as
\* it is.
WaitRaises(i) ==
    /\ "helper" \in Faults
    /\ At(i, "gated") \/ At(i, "seen") \/ At(i, "expiring")
    /\ Refuse(i)

-----------------------------------------------------------------------------
(* The tool itself, and the end of the turn.                               *)

Effect(i) == [attempt |-> attempt, step |-> step, call |-> i,
              tool |-> calls[i].tool, approval |-> calls[i].approval]

\* The tool runs: its effect on the outside, what it bills the job (media, web,
\* subagents), and its result; a tool that fails may have had its effect.
Run(i) ==
    /\ At(i, "cleared")
    /\ effects' = effects \cup {Effect(i)}
    /\ \E c \in {0, ToolCost} : cost' = cost + c
    /\ \E r \in {"ok", "error"} : Settle(i, r)
    /\ Spanned
    /\ UNCHANGED <<cancelled, checkpoint, approvals, pc, attempt, memVars, why,
                   unsaved, late>>

TurnDone ==
    /\ pc = "dispatch"
    /\ \A i \in DOMAIN calls : calls[i].st = "done"

Recorded == {i \in DOMAIN calls : calls[i].result = "recorded"}

\* An accepted set_output ends the run; the last one of the turn is its output.
TurnReturns ==
    /\ TurnDone /\ Recorded # {}
    /\ pc' = "returned"
    /\ UNCHANGED <<dbVars, attempt, memVars, calls, aborted, why, history>>

\* Mutant: the results of failed calls are dropped.
TurnGoesOnWithoutErrors ==
    /\ TurnDone /\ Recorded = {}
    /\ messages' = Append(messages,
           User(SelectSeq(Ids, LAMBDA id : calls[id[3]].result = "ok")))
    /\ pc' = "saving"
    /\ UNCHANGED <<dbVars, attempt, step, tool_call_counts, schema_fail_count,
                   escalated, calls, aborted, why, history>>

\* The results join the conversation, in the order of the tool calls.
TurnGoesOn ==
    /\ TurnDone /\ Recorded = {}
    /\ messages' = Append(messages, User(Ids))
    /\ pc' = "saving"
    /\ UNCHANGED <<dbVars, attempt, step, tool_call_counts, schema_fail_count,
                   escalated, calls, aborted, why, history>>

\* After the checkpoint's commit: the step's span, then the next step.
NextStep ==
    /\ calls' = <<>>
    /\ aborted' \in IF "helper" \in Faults THEN BOOLEAN ELSE {FALSE}
    /\ step' = step + 1
    /\ pc' = IF step + 1 < MaxSteps THEN "top" ELSE "failed"
    /\ why' = IF step + 1 < MaxSteps THEN "" ELSE "steps"
    /\ UNCHANGED <<cancelled, cost, approvals, attempt, messages,
                   tool_call_counts, schema_fail_count, escalated, effects, late>>

\* Mutant: the checkpoint names the step just done.
SaveStepDone ==
    /\ pc = "saving" /\ ~aborted
    /\ checkpoint' = [step |-> step, messages |-> messages]
    /\ UNCHANGED unsaved
    /\ NextStep

\* save_checkpoint and its commit.
Save ==
    /\ pc = "saving" /\ ~aborted
    /\ checkpoint' = [step |-> step + 1, messages |-> messages]
    /\ UNCHANGED unsaved
    /\ NextStep

\* save_checkpoint writes nothing: the state is too large, or its statement
\* fails; the commit that follows then rolls back.
SaveFails ==
    /\ pc = "saving"
    /\ aborted \/ Faults \cap {"unsaved", "helper"} # {}
    /\ unsaved' = unsaved \cup {step}
    /\ UNCHANGED checkpoint
    /\ NextStep

-----------------------------------------------------------------------------
(* Everyone else.                                                          *)

\* The reviewer decides a pending approval, whether or not its run still waits
\* for it (external).
Decide(a, decision) ==
    /\ approvals[a].status = "pending"
    /\ approvals' = [approvals EXCEPT ![a].status = decision]
    /\ UNCHANGED <<cancelled, cost, checkpoint, pc, attempt, memVars, calls,
                   aborted, why, history>>

\* The user cancels the job (external).
Cancel ==
    /\ ~cancelled /\ pc \notin {"returned", "failed"}
    /\ cancelled' = TRUE
    /\ UNCHANGED <<cost, checkpoint, approvals, pc, attempt, memVars, calls,
                   aborted, why, history>>

\* The worker dies or its drain cancels the slot: what is not committed is
\* lost, the job goes back to the queue.
Crash ==
    /\ "crash" \in Faults
    /\ pc \notin {"off", "returned", "failed"}
    /\ pc' = "off"
    /\ calls' = <<>> /\ messages' = <<>> /\ step' = 0 /\ aborted' = FALSE
    /\ FreshCounters
    /\ UNCHANGED <<dbVars, attempt, why, history>>

CallStep(i) ==
    \/ BeginRaises(i) \/ NotAllowed(i) \/ Limited(i) \/ Begin(i) \/ SetOutput(i)
    \/ RequestApproval(i) \/ Invalid(i) \/ Approved(i) \/ Denied(i)
    \/ SeesPending(i) \/ SleepsOn(i) \/ GivesUp(i) \/ Expire(i) \/ WaitRaises(i)
    \/ Run(i)

LoopStep ==
    \/ AgentStart \/ StatementRaises
    \/ StopLate \/ StopCancelled \/ StopCapped \/ PassTop
    \/ CallModel \/ ProviderRaises \/ ModelAsksForTools \/ ModelEndsTurn
    \/ \E i \in DOMAIN calls : CallStep(i)
    \/ TurnReturns \/ TurnGoesOn \/ Save \/ SaveFails

Next ==
    \/ StartAttempt
    \/ LoopStep
    \/ \E a \in DOMAIN approvals, d \in {"approved", "denied"} : Decide(a, d)
    \/ Cancel
    \/ Crash

Spec == Init /\ [][Next]_vars

\* The event loop, the database and the model answer: the loop is fair.
FairSpec == Spec /\ WF_vars(LoopStep)

-----------------------------------------------------------------------------
(* Properties.                                                             *)

GateHolds ==
    \A e \in effects : e.tool \in ConfirmTools =>
        /\ e.approval \in DOMAIN approvals
        /\ approvals[e.approval] = [tool |-> e.tool, status |-> "approved"]
        /\ \A f \in effects : f.approval = e.approval => f = e

LimitsHold ==
    \A a \in 1 .. attempt, t \in Tools :
        Cardinality({e \in effects : e.attempt = a /\ e.tool = t}) =< ToolLimit[t]

\* Every tool call that ran was permitted.  A gated tool runs only on its own
\* approval: the row of that very call was approved, and no approval lets two
\* calls run, whatever the timeouts, the cancels, the errors while waiting, and
\* the attempts that died at the gate.  And no attempt runs a tool more often
\* than its limit, however its calls overlap.
CallsArePermitted == GateHolds /\ LimitsHold

\* At most the step in flight is run again: once an attempt has gone on to a
\* later step, no later attempt runs an earlier one, unless the checkpoint
\* of that step could not be written.
OnlyStepInFlightReruns ==
    \A e, f \in effects :
        e.attempt < f.attempt /\ f.step < e.step => f.step \in unsaved

\* The most one turn may bill.
TurnCost == PremiumCost + LongestTurn * ToolCost

SpendBounded == cost < MaxJobCost + TurnCost

CancelStops == late =< 1

\* A job stops in time, over all its attempts: the ceiling bounds what they bill
\* together and is passed by less than one turn, and after a cancel the model is
\* called once more at most (a turn that had passed its check goes on).
StopsInTime == SpendBounded /\ CancelStops

Answered(ms, n) ==
    /\ Len(ms) = 2 * n + 1
    /\ ms[1] = User(<<>>)
    /\ \A k \in 1 .. n : /\ ms[2*k].role = "assistant"
                         /\ ms[2*k + 1] = User(ms[2*k].ids)

\* The conversation given to the model, and the one a checkpoint holds, is one
\* user turn, then for each step an assistant turn and the results of exactly
\* its tool calls, in order.
TurnsAreAnswered ==
    /\ pc \in {"top", "call", "model"} => Answered(messages, step)
    /\ checkpoint # NoCheckpoint => Answered(checkpoint.messages, checkpoint.step)

\* No error of the best-effort helpers (load_checkpoint, the prompt cache, the
\* spans) ends a run.
HelpersNeverFailTheRun == why # "aborted"

\* An attempt that starts ends, even if nobody answers its approvals.
AttemptEnds == (pc = "loaded") ~> (pc \in {"off", "returned", "failed"})
=============================================================================
