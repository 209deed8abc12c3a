---------------------------- MODULE JobLifecycle ----------------------------
(***************************************************************************)
(* What the job queue promises about one job row, whatever workers, drains,*)
(* crashes, cancellations and reaps do to it: the status machine of        *)
(* jobs.status.  A terminal status is final ("whoever reaches terminal     *)
(* first wins", worker/queue.py), only a running job can succeed or fail,  *)
(* and the only way back from running is a requeue.                        *)
(***************************************************************************)
CONSTANT Jobs

VARIABLE status

TerminalStatus == {"succeeded", "failed", "cancelled"}
Status == {"absent", "queued", "running"} \cup TerminalStatus

\* Job j goes from one of the statuses in `from` to one of those in `to`.
Move(j, from, to) ==
    /\ status[j] \in from
    /\ \E new \in to : status' = [status EXCEPT ![j] = new]

Init == status = [j \in Jobs |-> "absent"]

Submit(j)  == Move(j, {"absent"}, {"queued"})
Claim(j)   == Move(j, {"queued"}, {"running"})
Finish(j)  == Move(j, {"running"}, {"succeeded", "failed"})
Requeue(j) == Move(j, {"running"}, {"queued"})
Cancel(j)  == Move(j, {"queued", "running"}, {"cancelled"})

Next == \E j \in Jobs : Submit(j) \/ Claim(j) \/ Finish(j) \/ Requeue(j) \/ Cancel(j)

Spec == Init /\ [][Next]_status
=============================================================================
