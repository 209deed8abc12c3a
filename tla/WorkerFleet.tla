---------------------------- MODULE WorkerFleet -----------------------------
(***************************************************************************)
(* The worker processes of worker/main.py over the job table: the claim    *)
(* loops (slots) of each machine, its heartbeat task, its drain watchdog   *)
(* and main()'s shutdown, with the signals and crashes a machine can see.  *)
(*                                                                         *)
(* A slot is one asyncio task.  Its pc names the await it is at:           *)
(*   idle      at the top of _claim_loop, or sleeping between polls        *)
(*   claim     past the `while not _stopping` test, CLAIM_SQL not run yet  *)
(*   picked    CLAIM_SQL has locked and updated a row, not committed       *)
(*   claimed   the claim is committed, _process_one has not resumed        *)
(*   running   id registered; inputs, skill, agent or function             *)
(*   billing   finalize_charges has read the cost, nothing is committed    *)
(*   failing   an exception is being handled                               *)
(*   cleanup   the outcome is committed (or lost), id still registered     *)
(*   exited    the task has ended                                          *)
(***************************************************************************)
EXTENDS JobTable

CONSTANTS Slots,        \* every slot task of the fleet
          WorkerOf,     \* the machine a slot belongs to
          NoJob,        \* the job of a slot that has none
          Faults,       \* the failures allowed: a subset of {"kill", "db"}
          AgingJobs     \* bound: the rows that may outlive the reaper's window

ASSUME FleetAssumption ==
    /\ WorkerOf \in [Slots -> Workers]
    /\ NoJob \notin Jobs
    /\ Faults \subseteq {"kill", "db"}
    /\ AgingJobs \subseteq Jobs

VARIABLES
    phase,     \* the process: up, stopping (_stopping is set) or down
    pc,        \* where each slot task is
    job,       \* the job each slot holds
    bill,      \* the cost each slot's finalize_charges has read
    ids,       \* _current_job_ids of each process
    watchdog,  \* _drain_watchdog: watch, gather, requeue or done
    drainIds,  \* the ids the watchdog snapshot and has not requeued yet
    beating,   \* _heartbeat_loop has not left its loop
    hbSnap,    \* the ids a heartbeat tick has snapshot and not stamped yet
    lost       \* history: the jobs whose last run met what no code answers: a
               \* claim the drain cannot know of, a statement or a process that
               \* failed

slotVars == <<pc, job, bill>>
drainVars == <<watchdog, drainIds>>
beatVars == <<beating, hbSnap>>
workerVars == <<phase, slotVars, ids, drainVars, beatVars, lost>>
vars == <<tableVars, workerVars>>

SlotsOf(w) == {s \in Slots : WorkerOf[s] = w}

PC == {"idle", "claim", "picked", "claimed", "running", "billing", "failing",
       "cleanup", "exited"}

\* Where a slot holds a job whose claim is committed, and where its run has not
\* tried to conclude yet.
Holding == {"claimed", "running", "billing", "failing", "cleanup"}
Working == {"claimed", "running", "billing"}

TypeOK ==
    /\ TableTypeOK
    /\ phase \in [Workers -> {"up", "stopping", "down"}]
    /\ pc \in [Slots -> PC]
    /\ job \in [Slots -> Jobs \cup {NoJob}]
    /\ bill \in [Slots -> 0..MaxCost]
    /\ ids \in [Workers -> SUBSET Jobs]
    /\ watchdog \in [Workers -> {"watch", "gather", "requeue", "done"}]
    /\ drainIds \in [Workers -> SUBSET Jobs]
    /\ beating \in [Workers -> BOOLEAN]
    /\ hbSnap \in [Workers -> SUBSET Jobs]
    /\ lost \subseteq Jobs

Init ==
    /\ TableInit
    /\ phase = [w \in Workers |-> "up"]
    /\ pc = [s \in Slots |-> "idle"]
    /\ job = [s \in Slots |-> NoJob]
    /\ bill = [s \in Slots |-> 0]
    /\ ids = [w \in Workers |-> {}]
    /\ watchdog = [w \in Workers |-> "watch"]
    /\ drainIds = [w \in Workers |-> {}]
    /\ beating = [w \in Workers |-> TRUE]
    /\ hbSnap = [w \in Workers |-> {}]
    /\ lost = {}

-----------------------------------------------------------------------------
(* The slot tasks: _claim_loop and _process_one.                           *)

\* Rows an uncommitted claim has locked: other writers of the row wait.
Locked == {job[s] : s \in {t \in Slots : pc[t] = "picked"}}

\* The watchdog has called cancel() on every slot task of the machine.
Cancelled(s) == watchdog[WorkerOf[s]] = "gather"

Goto(s, from, to) ==
    /\ pc[s] = from
    /\ pc' = [pc EXCEPT ![s] = to]

\* Mutant: the `while not _stopping` test is lost.
BeginClaimAlways(s) ==
    /\ Goto(s, "idle", "claim")
    /\ UNCHANGED <<tableVars, phase, job, bill, ids, drainVars, beatVars, lost>>

\* `while not _stopping`, then the memory gate: under memory pressure a busy
\* machine polls without claiming, which is this step not being taken.
BeginClaim(s) ==
    /\ phase[WorkerOf[s]] = "up"
    /\ Goto(s, "idle", "claim")
    /\ UNCHANGED <<tableVars, phase, job, bill, ids, drainVars, beatVars, lost>>

\* CLAIM_SQL finds no row it can take: poll again later.
ClaimNothing(s) ==
    /\ ~ \E j \in Jobs : IsPick(j, Locked)
    /\ ~ Cancelled(s)
    /\ Goto(s, "claim", "idle")
    /\ UNCHANGED <<tableVars, phase, job, bill, ids, drainVars, beatVars, lost>>

\* CLAIM_SQL runs: the row is locked until the claim commits.
ClaimPick(s) ==
    /\ ~ Cancelled(s)
    /\ Goto(s, "claim", "picked")
    /\ \E j \in Jobs : IsPick(j, Locked) /\ job' = [job EXCEPT ![s] = j]
    /\ UNCHANGED <<tableVars, phase, bill, ids, drainVars, beatVars, lost>>

\* The claim commits (its COMMIT may already be on the wire at a cancel).  A
\* watchdog that has looked by now does not know of it.
ClaimCommit(s) ==
    /\ Goto(s, "picked", "claimed")
    /\ claim_one(job[s], WorkerOf[s])
    /\ lost' = IF watchdog[WorkerOf[s]] = "watch" THEN lost \ {job[s]}
                                                 ELSE lost \cup {job[s]}
    /\ UNCHANGED <<phase, job, bill, ids, drainVars, beatVars>>

\* The claim raises and _claim_loop swallows it.  The transaction rolled back,
\* or its commit was done and only the answer was lost.
ClaimRaises(s) ==
    /\ "db" \in Faults
    /\ Goto(s, "picked", "idle")
    /\ job' = [job EXCEPT ![s] = NoJob]
    /\ \/ UNCHANGED <<tableVars, lost>>
       \/ claim_one(job[s], WorkerOf[s]) /\ lost' = lost \cup {job[s]}
    /\ UNCHANGED <<phase, bill, ids, drainVars, beatVars>>

\* _process_one resumes inside its try: the id is registered.
Register(s) ==
    /\ ~ Cancelled(s)
    /\ Goto(s, "claimed", "running")
    /\ ids' = [ids EXCEPT ![WorkerOf[s]] = @ \cup {job[s]}]
    /\ UNCHANGED <<tableVars, phase, job, bill, drainVars, beatVars, lost>>

\* Mutant: a charge of the run may still come in while its bill is made up.
AccrueLate(s) ==
    /\ pc[s] \in {"running", "billing"}
    /\ record_usage(job[s])
    /\ UNCHANGED workerVars

\* The run commits a charge (model call, media, judge).
Accrue(s) ==
    /\ pc[s] = "running"
    /\ record_usage(job[s])
    /\ UNCHANGED workerVars

\* The output is filed; finalize_charges reads the accrued cost.
ReadCost(s) ==
    /\ ~ Cancelled(s)
    /\ Goto(s, "running", "billing")
    /\ bill' = [bill EXCEPT ![s] = cost[job[s]]]
    /\ UNCHANGED <<tableVars, phase, job, ids, drainVars, beatVars, lost>>

\* The debit, mark_succeeded and the succeeded event commit together.  When only
\* the answer to the commit is lost, the run goes on as one that raised.
FinishCommit(s) ==
    /\ \/ Goto(s, "billing", "cleanup")
       \/ "db" \in Faults /\ Goto(s, "billing", "failing")
    /\ ChargeAndSucceed(job[s], bill[s])
    /\ bill' = [bill EXCEPT ![s] = 0]
    /\ UNCHANGED <<phase, job, ids, drainVars, beatVars, lost>>

\* An exception from the run (a cancelled job, a cap, a tool, a validation) or
\* from the finish transaction, which rolls back.
RunRaises(s) ==
    /\ ~ Cancelled(s)
    /\ Goto(s, "running", "failing") \/ Goto(s, "billing", "failing")
    /\ bill' = [bill EXCEPT ![s] = 0]
    /\ UNCHANGED <<tableVars, phase, job, ids, drainVars, beatVars, lost>>

\* mark_failed commits: from the exception handler, or in the run's own
\* transaction when a function skill reports an error.
FailCommit(s) ==
    /\ Goto(s, "failing", "cleanup") \/ Goto(s, "running", "cleanup")
    /\ mark_failed(job[s])
    /\ UNCHANGED <<phase, job, bill, ids, drainVars, beatVars, lost>>

\* mark_failed raises and the handler swallows it (job_finalize_failed).
FailLost(s) ==
    /\ "db" \in Faults
    /\ Goto(s, "failing", "cleanup")
    /\ lost' = lost \cup {job[s]}
    /\ UNCHANGED <<tableVars, phase, job, bill, ids, drainVars, beatVars>>

\* The finally: the id is discarded and the loop goes round.
Discard(s) ==
    /\ ~ Cancelled(s)
    /\ Goto(s, "cleanup", "idle")
    /\ ids' = [ids EXCEPT ![WorkerOf[s]] = @ \ {job[s]}]
    /\ job' = [job EXCEPT ![s] = NoJob]
    /\ UNCHANGED <<tableVars, phase, bill, drainVars, beatVars, lost>>

\* `while not _stopping` is false.
LeaveLoop(s) ==
    /\ phase[WorkerOf[s]] = "stopping"
    /\ Goto(s, "idle", "exited")
    /\ UNCHANGED <<tableVars, phase, job, bill, ids, drainVars, beatVars, lost>>

\* A cancelled task resumes with CancelledError: its transaction rolls back, and
\* inside _process_one's try the finally discards the id.  A task between the
\* claim's commit and the try has registered nothing to discard.
Unwind(s) ==
    /\ Cancelled(s)
    /\ pc[s] # "exited"
    /\ pc' = [pc EXCEPT ![s] = "exited"]
    /\ ids' = IF pc[s] \in Holding \ {"claimed"}
                THEN [ids EXCEPT ![WorkerOf[s]] = @ \ {job[s]}]
                ELSE ids
    /\ job' = [job EXCEPT ![s] = NoJob]
    /\ bill' = [bill EXCEPT ![s] = 0]
    /\ UNCHANGED <<tableVars, phase, drainVars, beatVars, lost>>

SlotStep(s) ==
    \/ BeginClaim(s) \/ ClaimNothing(s) \/ ClaimPick(s) \/ ClaimCommit(s)
    \/ ClaimRaises(s) \/ Register(s) \/ Accrue(s) \/ ReadCost(s)
    \/ FinishCommit(s) \/ RunRaises(s) \/ FailCommit(s) \/ FailLost(s)
    \/ Discard(s) \/ LeaveLoop(s) \/ Unwind(s)

-----------------------------------------------------------------------------
(* The heartbeat task: _heartbeat_loop.                                    *)

\* A tick snapshots the registered ids before it awaits a database session.
BeatSnapshot(w) ==
    /\ phase[w] # "down" /\ beating[w] /\ hbSnap[w] = {}
    /\ ids[w] # {}
    /\ hbSnap' = [hbSnap EXCEPT ![w] = ids[w]]
    /\ UNCHANGED <<tableVars, phase, slotVars, ids, drainVars, beating, lost>>

\* The tick's transaction stamps every id of the snapshot.
BeatStamp(w) ==
    /\ hbSnap[w] # {}
    /\ hbSnap[w] \cap Locked = {}
    /\ touch_job_heartbeats(hbSnap[w])
    /\ hbSnap' = [hbSnap EXCEPT ![w] = {}]
    /\ UNCHANGED <<phase, slotVars, ids, drainVars, beating, lost>>

\* The tick's transaction fails and is ignored (job_heartbeat_failed).
BeatLost(w) ==
    /\ "db" \in Faults
    /\ hbSnap[w] # {}
    /\ hbSnap' = [hbSnap EXCEPT ![w] = {}]
    /\ UNCHANGED <<tableVars, phase, slotVars, ids, drainVars, beating, lost>>

\* `while not _stopping or _current_job_ids` is false.
BeatEnds(w) ==
    /\ phase[w] = "stopping" /\ beating[w] /\ hbSnap[w] = {}
    /\ ids[w] = {}
    /\ beating' = [beating EXCEPT ![w] = FALSE]
    /\ UNCHANGED <<tableVars, phase, slotVars, ids, drainVars, hbSnap, lost>>

-----------------------------------------------------------------------------
(* The shutdown: signals, _drain_watchdog and the end of main().           *)

\* SIGTERM sets _stopping.
Sigterm(w) ==
    /\ phase[w] = "up"
    /\ phase' = [phase EXCEPT ![w] = "stopping"]
    /\ UNCHANGED <<tableVars, slotVars, ids, drainVars, beatVars, lost>>

\* The watchdog sees _stopping (it polls every second) and reads the registered
\* ids; a claim that is committed is not among them until its slot resumes.
WatchdogLooks(w) ==
    /\ phase[w] = "stopping"
    /\ watchdog[w] = "watch"
    /\ lost' = lost \cup {job[s] : s \in {t \in SlotsOf(w) : pc[t] = "claimed"}}
    /\ UNCHANGED <<tableVars, phase, slotVars, ids, beatVars>>

\* Nothing is registered: the watchdog returns.
WatchdogQuits(w) ==
    /\ WatchdogLooks(w)
    /\ ids[w] = {}
    /\ watchdog' = [watchdog EXCEPT ![w] = "done"]
    /\ UNCHANGED drainIds

\* The drain window is over and jobs are registered: snapshot, cancel the slots.
WatchdogFires(w) ==
    /\ WatchdogLooks(w)
    /\ ids[w] # {}
    /\ watchdog' = [watchdog EXCEPT ![w] = "gather"]
    /\ drainIds' = [drainIds EXCEPT ![w] = ids[w]]

\* Mutant: the requeues start without waiting for the cancelled slots.
GatherSkipped(w) ==
    /\ watchdog[w] = "gather"
    /\ watchdog' = [watchdog EXCEPT ![w] = "requeue"]
    /\ UNCHANGED <<tableVars, phase, slotVars, ids, drainIds, beatVars, lost>>

\* Mutant: the ids are read after the gather, when the slots have discarded them.
GatherThenSnapshot(w) ==
    /\ watchdog[w] = "gather"
    /\ \A s \in SlotsOf(w) : pc[s] = "exited"
    /\ watchdog' = [watchdog EXCEPT ![w] = "requeue"]
    /\ drainIds' = [drainIds EXCEPT ![w] = ids[w]]
    /\ UNCHANGED <<tableVars, phase, slotVars, ids, beatVars, lost>>

\* The gather returns when every slot task has ended.
GatherDone(w) ==
    /\ watchdog[w] = "gather"
    /\ \A s \in SlotsOf(w) : pc[s] = "exited"
    /\ watchdog' = [watchdog EXCEPT ![w] = "requeue"]
    /\ UNCHANGED <<tableVars, phase, slotVars, ids, drainIds, beatVars, lost>>

\* One requeue transaction of the watchdog (the code takes the ids in order; any
\* order is allowed here).  A failing one is logged and skipped.
RequeueOne(w) ==
    /\ watchdog[w] = "requeue"
    /\ \E j \in drainIds[w] \ Locked :
          /\ \/ requeue_job(j, w) /\ UNCHANGED lost
             \/ "db" \in Faults /\ UNCHANGED tableVars /\ lost' = lost \cup {j}
          /\ drainIds' = [drainIds EXCEPT ![w] = @ \ {j}]
    /\ UNCHANGED <<phase, slotVars, ids, watchdog, beatVars>>

\* Every id has been tried: the watchdog returns.
RequeueDone(w) ==
    /\ watchdog[w] = "requeue"
    /\ drainIds[w] = {}
    /\ watchdog' = [watchdog EXCEPT ![w] = "done"]
    /\ UNCHANGED <<tableVars, phase, slotVars, ids, drainIds, beatVars, lost>>

\* The process is gone: nothing of its memory is left.
Halt(w) ==
    /\ phase' = [phase EXCEPT ![w] = "down"]
    /\ pc' = [s \in Slots |-> IF WorkerOf[s] = w THEN "exited" ELSE pc[s]]
    /\ job' = [s \in Slots |-> IF WorkerOf[s] = w THEN NoJob ELSE job[s]]
    /\ bill' = [s \in Slots |-> IF WorkerOf[s] = w THEN 0 ELSE bill[s]]
    /\ ids' = [ids EXCEPT ![w] = {}]
    /\ watchdog' = [watchdog EXCEPT ![w] = "done"]
    /\ drainIds' = [drainIds EXCEPT ![w] = {}]
    /\ beating' = [beating EXCEPT ![w] = FALSE]
    /\ hbSnap' = [hbSnap EXCEPT ![w] = {}]
    /\ UNCHANGED tableVars

\* main() ends: the slots have drained and the watchdog has returned, or it is
\* stuck on the database and main() gives up on it after 60 seconds; and the threads
\* that cancelled slots left behind have ended, as asyncio.run waits for them.
MainExit(w) ==
    /\ phase[w] = "stopping"
    /\ \A s \in SlotsOf(w) : pc[s] = "exited"
    /\ watchdog[w] = "done" \/ (watchdog[w] = "requeue" /\ "db" \in Faults)
    /\ lost' = lost \cup drainIds[w]
    /\ Halt(w)

\* The platform's SIGKILL after kill_timeout, which leaves the watchdog its time
\* (drain_requeue_after_s is well below it); or a crash at any time.
Kill(w) ==
    /\ \/ phase[w] = "stopping" /\ watchdog[w] = "done" /\ UNCHANGED lost
       \/ /\ phase[w] # "down" /\ "kill" \in Faults
          /\ lost' = lost \cup drainIds[w]
                     \cup {job[s] : s \in {t \in SlotsOf(w) : pc[t] \in Holding}}
    /\ Halt(w)

\* The machine starts again under the same worker id.
Restart(w) ==
    /\ phase[w] = "down"
    /\ phase' = [phase EXCEPT ![w] = "up"]
    /\ pc' = [s \in Slots |-> IF WorkerOf[s] = w THEN "idle" ELSE pc[s]]
    /\ watchdog' = [watchdog EXCEPT ![w] = "watch"]
    /\ beating' = [beating EXCEPT ![w] = TRUE]
    /\ UNCHANGED <<tableVars, job, bill, ids, drainIds, hbSnap, lost>>

WorkerStep(w) ==
    \/ BeatSnapshot(w) \/ BeatStamp(w) \/ BeatLost(w) \/ BeatEnds(w)
    \/ Sigterm(w) \/ WatchdogQuits(w) \/ WatchdogFires(w) \/ GatherDone(w)
    \/ RequeueOne(w) \/ RequeueDone(w) \/ MainExit(w) \/ Kill(w) \/ Restart(w)

-----------------------------------------------------------------------------
(* The API and the clock.                                                  *)

\* Row j cannot age past the reaper's window while a machine beats for it, nor
\* in the moments between a claim and the first beat; failing heartbeat
\* transactions ("db") lift this.
KeptFresh(j) ==
    \E w \in Workers :
        \/ phase[w] # "down" /\ beating[w] /\ j \in ids[w]
        \/ \E s \in SlotsOf(w) : pc[s] = "claimed" /\ job[s] = j

ReaperStep(j) ==
    /\ j \notin Locked
    /\ \/ Reap(j)
       \/ Age(j) /\ j \in AgingJobs /\ (KeptFresh(j) => "db" \in Faults)
    /\ UNCHANGED workerVars

ClientStep(j) ==
    /\ j \notin Locked
    /\ Submit(j) \/ Cancel(j)
    /\ UNCHANGED workerVars

ApiStep(j) == ClientStep(j) \/ ReaperStep(j)

Next ==
    \/ \E s \in Slots : SlotStep(s)
    \/ \E w \in Workers : WorkerStep(w)
    \/ \E j \in Jobs : ApiStep(j)

Spec == Init /\ [][Next]_vars

-----------------------------------------------------------------------------
(* Safety.  The API reaper can take a job from a live worker (a heartbeat  *)
(* that fails or that is out of date is all it sees), and nothing in the   *)
(* worker's writes is fenced against the old run; so the properties below  *)
(* that speak of a job's one run are about jobs the reaper never took.     *)

Own == Jobs \ reaped

\* The slots that hold job j.
Holders(j) == {s \in Slots : pc[s] \in Holding /\ job[s] = j}

\* A job the reaper never took is held by at most one slot of the fleet, and
\* that slot's machine is the one on the row: "slots (and other machines) never
\* double-claim the same job" (main.py, _claim_loop), across drains, requeues,
\* crashes and restarts under the same worker id.
ExclusiveRun ==
    \A j \in Own : \A s \in Holders(j) :
        /\ Holders(j) = {s}
        /\ owner[j] = WorkerOf[s]

\* For a job the reaper never took and nobody cancelled, the wallet is debited
\* exactly the accrued cost if it succeeded and nothing otherwise, however many
\* drained or crashed runs it took (finalize_charges with mark_succeeded).
BilledExactly ==
    \A j \in Own : status[j] # "cancelled" =>
        charged[j] = IF status[j] = "succeeded" THEN cost[j] ELSE 0

\* A cancelled job the reaper never took was debited nothing or, if its run was
\* already finishing, the accrued cost once; never more (finalize_charges is not
\* guarded by the status, but the run that calls it is the only one).
CancelledBilledAtMostOnce ==
    \A j \in Own : charged[j] \in {0, cost[j]}

\* A running job has a slot that holds it or a watchdog about to requeue it:
\* "Requeue whatever is still running when a shutdown drain is about to be
\* hard-killed" (main.py, _drain_watchdog).  The jobs it does not speak of are
\* `lost`, by events the worker has no answer to and leaves to the API's reaper:
\* their claim was under way when the watchdog looked or its answer was lost,
\* their mark_failed or requeue failed, or their process crashed.
NoStranding ==
    \A j \in Own \ lost : status[j] = "running" =>
        \/ Holders(j) # {}
        \/ \E w \in Workers : owner[j] = w /\ j \in drainIds[w]

\* A drain gives a job back only when no slot of the machine on the row is still
\* working on it, so the requeue cannot race the slot's own terminal write
\* (main.py: "Let every _process_one unwind first").
RequeueAfterUnwind ==
    [][\A j \in Jobs :
          status[j] = "running" /\ status'[j] = "queued" /\ j \notin reaped' =>
              \A s \in Slots : WorkerOf[s] = owner[j] => job[s] # j]_vars

\* The table implements the job status machine: terminal statuses are final.
Lifecycle == INSTANCE JobLifecycle
LifecycleSpec == Lifecycle!Spec

\* A job that was cancelled, or that failed, was never paid for ("Failed/cancelled
\* jobs skip this entirely, so the user pays nothing for them",
\* queue.py finalize_charges).
UnsuccessfulIsFree ==
    \A j \in Jobs : status[j] \in {"failed", "cancelled"} => charged[j] = 0

\* finalize_charges is "Call[ed] once on successful completion": the wallet never
\* pays more than the job accrued.
NeverOvercharged == \A j \in Jobs : charged[j] <= cost[j]

-----------------------------------------------------------------------------
(* The inductive invariant behind ExclusiveRun and BilledExactly.          *)

\* A watchdog past its wait belongs to a stopping process; a process that is down
\* has no task left, and one whose watchdog requeues has no slot left.
Processes ==
    \A w \in Workers :
        /\ watchdog[w] \in {"gather", "requeue"} => phase[w] = "stopping"
        /\ phase[w] = "down" \/ watchdog[w] = "requeue" =>
               \A s \in SlotsOf(w) : pc[s] = "exited"

\* A slot has a job exactly where the code has one in hand.
JobInHand ==
    \A s \in Slots : (job[s] \in Jobs) <=> pc[s] \in Holding \cup {"picked"}

\* The row an uncommitted claim locked is still queued, and locked by it alone.
PickLocks ==
    \A s \in Slots : pc[s] = "picked" =>
        /\ status[job[s]] = "queued"
        /\ \A t \in Slots : pc[t] = "picked" /\ job[t] = job[s] => t = s

\* A slot that holds a job the reaper never took has the row: its machine is on
\* it, no one put it back, and no other slot holds it.
Lease ==
    \A s \in Slots : pc[s] \in Holding /\ job[s] \in Own =>
        /\ owner[job[s]] = WorkerOf[s]
        /\ status[job[s]] \notin {"absent", "queued"}
        /\ \A t \in Slots : pc[t] \in Holding /\ job[t] = job[s] => t = s

\* A slot that has not tried to conclude such a job finds it unpaid and not
\* concluded by anyone but the user, and the cost it has read is still the
\* accrued cost.
Unpaid ==
    \A s \in Slots : pc[s] \in Working /\ job[s] \in Own =>
        /\ status[job[s]] \in {"running", "cancelled"}
        /\ charged[job[s]] = 0
        /\ pc[s] = "billing" => bill[s] = cost[job[s]]

\* IInv is inductive and implies ExclusiveRun, BilledExactly and
\* CancelledBilledAtMostOnce: the argument of the proofs, checked here first.
IInv ==
    /\ TypeOK
    /\ Processes /\ JobInHand /\ PickLocks /\ Lease /\ Unpaid
    /\ BilledExactly /\ CancelledBilledAtMostOnce

-----------------------------------------------------------------------------
(* Liveness.  Every task of a live process runs on: the event loop is fair,*)
(* the database answers, and a run ends by itself (max_agent_seconds, the  *)
(* function timeout).  The memory gate always admits on an idle machine.   *)
(* The API's reaper and the clock go on.                                   *)

SlotFairness(s) ==
    /\ WF_vars(BeginClaim(s) /\ ids[WorkerOf[s]] = {})
    /\ WF_vars(ClaimNothing(s) \/ ClaimPick(s))
    /\ WF_vars(ClaimCommit(s))
    /\ WF_vars(Register(s))
    /\ WF_vars(ReadCost(s) \/ RunRaises(s) \/ FinishCommit(s) \/ FailCommit(s))
    /\ WF_vars(Discard(s) \/ LeaveLoop(s))
    /\ WF_vars(Unwind(s))

WorkerFairness(w) ==
    /\ WF_vars(BeatStamp(w))
    /\ WF_vars(WatchdogQuits(w) \/ WatchdogFires(w))
    /\ WF_vars(GatherDone(w))
    /\ WF_vars(RequeueOne(w) \/ RequeueDone(w))
    /\ WF_vars(MainExit(w))

ReaperFairness(j) ==
    WF_vars(ReaperStep(j) /\ status[j] = "running" /\ ~ KeptFresh(j))

FairSpec ==
    /\ Spec
    /\ \A s \in Slots : SlotFairness(s)
    /\ \A w \in Workers : WorkerFairness(w)
    /\ \A j \in Jobs : ReaperFairness(j)

\* A machine that got SIGTERM goes down, without the platform's SIGKILL: no wait
\* of the drain (slots, gather, requeues, main) waits for ever on another.
DrainTerminates == \A w \in Workers : phase[w] = "stopping" ~> phase[w] = "down"

\* Once the fleet is up for good and the API's reaper takes no job from a slot
\* that holds it, every submitted job of a wallet with credit settles, whatever
\* drains, crashes and wrong reaps came before: nothing is stranded (CLAIM_SQL,
\* REQUEUE_SQL and the heartbeats leave the reaper what it needs to see).  A reaper
\* that goes on taking jobs from live slots could requeue one for ever.
EveryJobSettles ==
    /\ <>[](\A w \in Workers : phase[w] = "up")
    /\ <>[][\A j \in Jobs : Holders(j) # {} => ~ Reap(j)]_vars
    => \A j \in Jobs : (status[j] \in {"queued", "running"}) ~>
                       (status[j] \in TerminalStatus \/ credit[WorkspaceOf[j]] <= 0)
=============================================================================
