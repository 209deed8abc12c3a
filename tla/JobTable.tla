------------------------------ MODULE JobTable ------------------------------
(***************************************************************************)
(* The `jobs` and `profiles` rows behind worker/queue.py and the statements*)
(* that change them.  Every operator that primes variables is one SQL      *)
(* statement (or a group of them that one transaction commits) with its    *)
(* WHERE clause; the processes that issue them are in WorkerFleet.         *)
(*                                                                         *)
(* Abstractions: one lane (each lane is a queue of its own); now() is      *)
(* "fresh" and a time stamp older than the reaper's window is "stale";     *)
(* result, error, eval and event payloads are left out, and so is          *)
(* resume_count, which nothing under src/ reads.                           *)
(***************************************************************************)
EXTENDS Integers, FiniteSets

CONSTANTS Jobs,          \* job ids
          Children,      \* the jobs whose parent_job_id is not null
          Workers,       \* worker ids (FLY_MACHINE_ID: kept across restarts)
          NoWorker,      \* a null worker_id
          Workspaces,    \* wallets (profiles)
          WorkspaceOf,   \* jobs.workspace_id
          InitialCredit, \* credit of every wallet before the first job
          MaxCost        \* bound: cost_micros accrued per job

ASSUME TableAssumption ==
    /\ IsFiniteSet(Jobs)
    /\ Children \subseteq Jobs
    /\ NoWorker \notin Workers
    /\ WorkspaceOf \in [Jobs -> Workspaces]
    /\ InitialCredit \in Int
    /\ MaxCost \in Nat

VARIABLES
    status,   \* jobs.status
    owner,    \* jobs.worker_id
    started,  \* age of jobs.started_at
    beat,     \* age of jobs.heartbeat_at
    created,  \* jobs.created_at, as the rank of the submission
    cost,     \* jobs.cost_micros
    credit,   \* profiles.credit_balance_micros
    charged,  \* history: everything ever debited for the job
    reaped    \* history: the jobs the API reaper ever took from a worker

leaseVars == <<owner, started, beat>>
moneyVars == <<cost, credit, charged>>
tableVars == <<status, leaseVars, created, moneyVars, reaped>>

TerminalStatus == {"succeeded", "failed", "cancelled"}
Status == {"absent", "queued", "running"} \cup TerminalStatus
Stamp == {"none", "fresh", "stale"}

TableTypeOK ==
    /\ status \in [Jobs -> Status]
    /\ owner \in [Jobs -> Workers \cup {NoWorker}]
    /\ started \in [Jobs -> Stamp]
    /\ beat \in [Jobs -> Stamp]
    /\ created \in [Jobs -> Nat]
    /\ cost \in [Jobs -> 0..MaxCost]
    /\ credit \in [Workspaces -> Int]
    /\ charged \in [Jobs -> Nat]
    /\ reaped \subseteq Jobs

TableInit ==
    /\ status = [j \in Jobs |-> "absent"]
    /\ owner = [j \in Jobs |-> NoWorker]
    /\ started = [j \in Jobs |-> "none"]
    /\ beat = [j \in Jobs |-> "none"]
    /\ created = [j \in Jobs |-> 0]
    /\ cost = [j \in Jobs |-> 0]
    /\ credit = [ws \in Workspaces |-> InitialCredit]
    /\ charged = [j \in Jobs |-> 0]
    /\ reaped = {}

-----------------------------------------------------------------------------
(* The worker's statements.                                                *)

\* CLAIM_SQL's WHERE: a queued row of a wallet that has credit.
Claimable(j) == status[j] = "queued" /\ credit[WorkspaceOf[j]] > 0

\* CLAIM_SQL's ORDER BY: children first, then oldest first.
Precedes(i, j) ==
    \/ i \in Children /\ j \notin Children
    \/ (i \in Children <=> j \in Children) /\ created[i] < created[j]

\* Mutant: the claim does not skip locked rows.
IsPickUnlocked(j, locked) ==
    /\ Claimable(j)
    /\ \A i \in Jobs \ {j} : Claimable(i) => Precedes(j, i)

\* FOR UPDATE SKIP LOCKED LIMIT 1: the first claimable row no one has locked.
IsPick(j, locked) ==
    /\ Claimable(j)
    /\ j \notin locked
    /\ \A i \in Jobs \ (locked \cup {j}) : Claimable(i) => Precedes(j, i)

\* Mutant: the claim does not set started_at.
claim_one_unstamped(j, w) ==
    /\ status' = [status EXCEPT ![j] = "running"]
    /\ owner' = [owner EXCEPT ![j] = w]
    /\ UNCHANGED <<started, beat, created, moneyVars, reaped>>

\* CLAIM_SQL's UPDATE.  heartbeat_at is not touched.
claim_one(j, w) ==
    /\ status' = [status EXCEPT ![j] = "running"]
    /\ owner' = [owner EXCEPT ![j] = w]
    /\ started' = [started EXCEPT ![j] = "fresh"]
    /\ UNCHANGED <<beat, created, moneyVars, reaped>>

\* The assignments of REQUEUE_SQL.
PutBack(j) ==
    /\ status' = [status EXCEPT ![j] = "queued"]
    /\ owner' = [owner EXCEPT ![j] = NoWorker]
    /\ started' = [started EXCEPT ![j] = "none"]
    /\ beat' = [beat EXCEPT ![j] = "none"]
    /\ UNCHANGED <<created, moneyVars>>

\* REQUEUE_SQL: only a row that is still running and still this worker's.
requeue_job(j, w) ==
    \/ /\ status[j] = "running" /\ owner[j] = w
       /\ PutBack(j)
       /\ UNCHANGED reaped
    \/ /\ ~ (status[j] = "running" /\ owner[j] = w)
       /\ UNCHANGED tableVars

\* Mutant: the terminal writes do not look at the row's status.
ConcludeAnyway(j, outcome) == status' = [status EXCEPT ![j] = outcome]

\* The terminal writes' `where id = :id and status = 'running'`.
Conclude(j, outcome) ==
    status' = [status EXCEPT ![j] = IF @ = "running" THEN outcome ELSE @]

\* Mutant: a failed job pays for its spend too.
mark_failed_charging(j) ==
    /\ Conclude(j, "failed")
    /\ credit' = [credit EXCEPT ![WorkspaceOf[j]] = @ - cost[j]]
    /\ charged' = [charged EXCEPT ![j] = @ + cost[j]]
    /\ UNCHANGED <<leaseVars, created, cost, reaped>>

mark_failed(j) ==
    /\ Conclude(j, "failed")
    /\ UNCHANGED <<leaseVars, created, moneyVars, reaped>>

\* record_usage: accrue a charge on the job, whoever runs it.
record_usage(j) ==
    /\ cost[j] < MaxCost
    /\ cost' = [cost EXCEPT ![j] = @ + 1]
    /\ UNCHANGED <<status, leaseVars, created, credit, charged, reaped>>

\* finalize_charges' debit of the cost it has read, then mark_succeeded, in one
\* transaction.  The debit looks at neither the status nor the worker.
ChargeAndSucceed(j, bill) ==
    /\ credit' = [credit EXCEPT ![WorkspaceOf[j]] = @ - bill]
    /\ charged' = [charged EXCEPT ![j] = @ + bill]
    /\ Conclude(j, "succeeded")
    /\ UNCHANGED <<leaseVars, created, cost, reaped>>

\* touch_job_heartbeat for every id in a snapshot, one transaction.  It looks at
\* neither the status nor the worker.
touch_job_heartbeats(snapshot) ==
    /\ beat' = [j \in Jobs |-> IF j \in snapshot THEN "fresh" ELSE beat[j]]
    /\ UNCHANGED <<status, owner, started, created, moneyVars, reaped>>

-----------------------------------------------------------------------------
(* The API, outside src/: modelled from how the worker relies on it.       *)

\* A client submits job j.
Submit(j) ==
    /\ status[j] = "absent"
    /\ status' = [status EXCEPT ![j] = "queued"]
    /\ created' = [created EXCEPT ![j] = Cardinality({i \in Jobs : status[i] # "absent"})]
    /\ UNCHANGED <<leaseVars, moneyVars, reaped>>

\* A user cancels job j while it is queued or running.
Cancel(j) ==
    /\ status[j] \in {"queued", "running"}
    /\ status' = [status EXCEPT ![j] = "cancelled"]
    /\ UNCHANGED <<leaseVars, created, moneyVars, reaped>>

\* The reaper's liveness test: the last heartbeat, or the start of a run that
\* never had one, is older than its window.
LooksDead(j) ==
    /\ status[j] = "running"
    /\ beat[j] = "stale" \/ (beat[j] = "none" /\ started[j] = "stale")

\* The reaper requeues or fails a job whose worker looks dead.
Reap(j) ==
    /\ LooksDead(j)
    /\ \/ PutBack(j)
       \/ /\ Conclude(j, "failed")
          /\ UNCHANGED <<leaseVars, created, moneyVars>>
    /\ reaped' = reaped \cup {j}

\* The reaper's window passes without a new time stamp on row j.
Older(s) == IF s = "fresh" THEN "stale" ELSE s
Age(j) ==
    /\ started' = [started EXCEPT ![j] = Older(@)]
    /\ beat' = [beat EXCEPT ![j] = Older(@)]
    /\ <<started, beat>>' # <<started, beat>>
    /\ UNCHANGED <<status, owner, created, moneyVars, reaped>>
=============================================================================
