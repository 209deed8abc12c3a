------------------------- MODULE WorkerFleetProofs --------------------------
(***************************************************************************)
(* For every fleet, every set of jobs and every admitted failure: a job    *)
(* the reaper never took is held by one slot at most and is billed exactly *)
(* its cost, if it succeeds, and nothing otherwise.  The inductive         *)
(* invariant is IInv of WorkerFleet.                                       *)
(*                                                                         *)
(* And no running row is left that neither a slot nor a watchdog holds,    *)
(* unless one of the events that only the API's reaper answers has made    *)
(* its job lost (NoStranding, by DrainInv).                                *)
(***************************************************************************)
EXTENDS WorkerFleet, FiniteSetTheorems, TLAPS

\* Steps that write no status, owner, cost or charge, and in which a slot comes
\* to no job it had not claimed, keep IInv: only the types, the processes and the
\* jobs in hand are left to show.
LEMMA SlotFrame ==
    ASSUME IInv, TypeOK', Processes', JobInHand',
           UNCHANGED <<status, owner, cost, charged, reaped>>,
           \A s \in Slots : pc'[s] = "picked" => pc[s] = "picked" /\ job'[s] = job[s],
           \A s \in Slots : pc'[s] \in Holding => pc[s] \in Holding /\ job'[s] = job[s],
           \A s \in Slots : pc'[s] \in Working => pc[s] \in Working,
           \A s \in Slots : pc'[s] = "billing" =>
               \/ pc[s] = "billing" /\ bill'[s] = bill[s]
               \/ bill'[s] = cost[job[s]]
    PROVE  IInv'
<1>0. \A s \in Slots : pc'[s] \in Working => pc'[s] \in Holding
  BY DEF Working, Holding
<1>1. PickLocks' BY DEF IInv, PickLocks
<1>2. Lease' BY DEF IInv, Lease, Own
<1>3. Unpaid' BY <1>0 DEF IInv, Unpaid, Own
<1>4. BilledExactly' /\ CancelledBilledAtMostOnce'
  BY DEF IInv, BilledExactly, CancelledBilledAtMostOnce, Own
<1> QED BY <1>1, <1>2, <1>3, <1>4 DEF IInv

\* A slot's steps that touch no row.
LEMMA QuietSlotStep ==
    ASSUME IInv, NEW s \in Slots,
           \/ BeginClaim(s) \/ ClaimNothing(s) \/ Register(s) \/ ReadCost(s)
           \/ RunRaises(s) \/ FailLost(s) \/ Discard(s) \/ LeaveLoop(s) \/ Unwind(s)
    PROVE  IInv'
<1> USE DEF Goto, tableVars, leaseVars, moneyVars, drainVars, beatVars
<1>a. TypeOK /\ Processes /\ JobInHand BY DEF IInv
<1>b. pc \in [Slots -> PC] /\ WorkerOf \in [Slots -> Workers]
  BY <1>a, FleetAssumption DEF TypeOK
<1>c. pc[s] \in Holding => job[s] \in Jobs /\ cost[job[s]] \in 0..MaxCost
  BY <1>a DEF JobInHand, TypeOK, TableTypeOK
<1>d. MaxCost \in Nat /\ 0 \in 0..MaxCost /\ NoJob \notin Jobs
  BY TableAssumption, FleetAssumption
<1>1. CASE BeginClaim(s)
  <2>1. TypeOK' BY <1>1, <1>a DEF BeginClaim, TypeOK, TableTypeOK, PC
  <2>2. Processes' BY <1>1, <1>a, <1>b DEF BeginClaim, Processes, SlotsOf
  <2>3. JobInHand' BY <1>1, <1>a, <1>b DEF BeginClaim, JobInHand, Holding
  <2> QED BY <1>1, <1>b, <2>1, <2>2, <2>3, SlotFrame DEF BeginClaim, Holding, Working
<1>2. CASE ClaimNothing(s)
  <2>1. TypeOK' BY <1>2, <1>a DEF ClaimNothing, TypeOK, TableTypeOK, PC
  <2>2. Processes' BY <1>2, <1>a, <1>b DEF ClaimNothing, Processes, SlotsOf
  <2>3. JobInHand' BY <1>2, <1>a, <1>b DEF ClaimNothing, JobInHand, Holding
  <2> QED BY <1>2, <1>b, <2>1, <2>2, <2>3, SlotFrame DEF ClaimNothing, Holding, Working
<1>3. CASE Register(s)
  <2>1. TypeOK' BY <1>3, <1>a, <1>b, <1>c DEF Register, TypeOK, TableTypeOK, PC, Holding
  <2>2. Processes' BY <1>3, <1>a, <1>b DEF Register, Processes, SlotsOf
  <2>3. JobInHand' BY <1>3, <1>a, <1>b DEF Register, JobInHand, Holding
  <2> QED BY <1>3, <1>b, <2>1, <2>2, <2>3, SlotFrame DEF Register, Holding, Working
<1>4. CASE ReadCost(s)
  <2>1. TypeOK' BY <1>4, <1>a, <1>b, <1>c DEF ReadCost, TypeOK, TableTypeOK, PC, Holding
  <2>2. Processes' BY <1>4, <1>a, <1>b DEF ReadCost, Processes, SlotsOf
  <2>3. JobInHand' BY <1>4, <1>a, <1>b DEF ReadCost, JobInHand, Holding
  <2>4. bill \in [Slots -> 0..MaxCost] BY <1>a DEF TypeOK
  <2> QED BY <1>4, <1>b, <2>1, <2>2, <2>3, <2>4, SlotFrame DEF ReadCost, Holding, Working
<1>5. CASE RunRaises(s)
  <2>1. TypeOK' BY <1>5, <1>a, <1>d DEF RunRaises, TypeOK, TableTypeOK, PC
  <2>2. Processes' BY <1>5, <1>a, <1>b DEF RunRaises, Processes, SlotsOf
  <2>3. JobInHand' BY <1>5, <1>a, <1>b DEF RunRaises, JobInHand, Holding
  <2>4. bill \in [Slots -> 0..MaxCost] BY <1>a DEF TypeOK
  <2> QED BY <1>5, <1>b, <2>1, <2>2, <2>3, <2>4, SlotFrame DEF RunRaises, Holding, Working
<1>6. CASE FailLost(s)
  <2>1. TypeOK' BY <1>6, <1>a, <1>c DEF FailLost, Holding, TypeOK, TableTypeOK, PC
  <2>2. Processes' BY <1>6, <1>a, <1>b DEF FailLost, Processes, SlotsOf
  <2>3. JobInHand' BY <1>6, <1>a, <1>b DEF FailLost, JobInHand, Holding
  <2> QED BY <1>6, <1>b, <2>1, <2>2, <2>3, SlotFrame DEF FailLost, Holding, Working
<1>7. CASE Discard(s)
  <2>1. TypeOK' BY <1>7, <1>a, <1>b DEF Discard, TypeOK, TableTypeOK, PC
  <2>2. Processes' BY <1>7, <1>a, <1>b DEF Discard, Processes, SlotsOf
  <2>3. JobInHand' BY <1>7, <1>a, <1>b, <1>d DEF Discard, JobInHand, Holding, TypeOK
  <2>4. job \in [Slots -> Jobs \cup {NoJob}] BY <1>a DEF TypeOK
  <2> QED BY <1>7, <1>b, <2>1, <2>2, <2>3, <2>4, SlotFrame DEF Discard, Holding, Working
<1>8. CASE LeaveLoop(s)
  <2>1. TypeOK' BY <1>8, <1>a DEF LeaveLoop, TypeOK, TableTypeOK, PC
  <2>2. Processes' BY <1>8, <1>a, <1>b DEF LeaveLoop, Processes, SlotsOf
  <2>3. JobInHand' BY <1>8, <1>a, <1>b DEF LeaveLoop, JobInHand, Holding
  <2> QED BY <1>8, <1>b, <2>1, <2>2, <2>3, SlotFrame DEF LeaveLoop, Holding, Working
<1>9. CASE Unwind(s)
  <2>1. TypeOK'
    <3>1. ids' \in [Workers -> SUBSET Jobs] BY <1>9, <1>a, <1>b DEF Unwind, TypeOK
    <3> QED BY <1>9, <1>a, <1>d, <3>1 DEF Unwind, TypeOK, TableTypeOK, PC
  <2>2. Processes' BY <1>9, <1>a, <1>b DEF Unwind, Processes, SlotsOf
  <2>3. JobInHand' BY <1>9, <1>a, <1>b, <1>d DEF Unwind, JobInHand, Holding, TypeOK
  <2>4. job \in [Slots -> Jobs \cup {NoJob}] /\ bill \in [Slots -> 0..MaxCost]
    BY <1>a DEF TypeOK
  <2> QED BY <1>9, <1>b, <2>1, <2>2, <2>3, <2>4, SlotFrame DEF Unwind, Holding, Working
<1> QED BY <1>1, <1>2, <1>3, <1>4, <1>5, <1>6, <1>7, <1>8, <1>9

\* A process that ends, loses every slot; the rows stay.
LEMMA HaltStep ==
    ASSUME IInv, NEW w \in Workers, Halt(w), lost' \subseteq Jobs
    PROVE  IInv'
<1> USE DEF Halt, tableVars, leaseVars, moneyVars
<1>a. TypeOK /\ Processes /\ JobInHand BY DEF IInv
<1>b. 0 \in 0..MaxCost /\ NoJob \notin Jobs BY TableAssumption, FleetAssumption
<1>c. pc \in [Slots -> PC] /\ WorkerOf \in [Slots -> Workers]
  BY <1>a, FleetAssumption DEF TypeOK
<1>1. TypeOK' BY <1>a, <1>b DEF TypeOK, TableTypeOK, PC
<1>2. Processes' BY <1>a, <1>c DEF Processes, SlotsOf, TypeOK
<1>3. JobInHand' BY <1>a, <1>b, <1>c DEF JobInHand, Holding, TypeOK
<1> QED BY <1>1, <1>2, <1>3, <1>c, SlotFrame DEF Holding, Working

\* The steps of a machine's heartbeat, watchdog and main that requeue nothing.
LEMMA QuietWorkerStep ==
    ASSUME IInv, NEW w \in Workers,
           \/ BeatSnapshot(w) \/ BeatStamp(w) \/ BeatLost(w) \/ BeatEnds(w)
           \/ Sigterm(w) \/ WatchdogQuits(w) \/ WatchdogFires(w) \/ GatherDone(w)
           \/ RequeueDone(w) \/ Restart(w)
    PROVE  IInv'
<1> USE DEF tableVars, leaseVars, moneyVars, slotVars, drainVars, beatVars
<1>a. TypeOK /\ Processes /\ JobInHand BY DEF IInv
<1>b. pc \in [Slots -> PC] /\ WorkerOf \in [Slots -> Workers]
  BY <1>a, FleetAssumption DEF TypeOK
<1>1. CASE BeatSnapshot(w) \/ BeatLost(w) \/ BeatEnds(w)
  <2>1. TypeOK' BY <1>1, <1>a DEF BeatSnapshot, BeatLost, BeatEnds, TypeOK, TableTypeOK
  <2>2. Processes' BY <1>1, <1>a DEF BeatSnapshot, BeatLost, BeatEnds, Processes, SlotsOf
  <2>3. JobInHand' BY <1>1, <1>a DEF BeatSnapshot, BeatLost, BeatEnds, JobInHand
  <2> QED BY <1>1, <2>1, <2>2, <2>3, SlotFrame DEF BeatSnapshot, BeatLost, BeatEnds
<1>2. CASE BeatStamp(w)
  <2>1. TypeOK' BY <1>2, <1>a DEF BeatStamp, touch_job_heartbeats, TypeOK, TableTypeOK, Stamp
  <2>2. Processes' BY <1>2, <1>a DEF BeatStamp, Processes, SlotsOf
  <2>3. JobInHand' BY <1>2, <1>a DEF BeatStamp, JobInHand
  <2> QED BY <1>2, <2>1, <2>2, <2>3, SlotFrame DEF BeatStamp, touch_job_heartbeats
<1>3. CASE Sigterm(w)
  <2>1. TypeOK' BY <1>3, <1>a DEF Sigterm, TypeOK, TableTypeOK
  <2>2. Processes' BY <1>3, <1>a DEF Sigterm, Processes, SlotsOf, TypeOK
  <2>3. JobInHand' BY <1>3, <1>a DEF Sigterm, JobInHand
  <2> QED BY <1>3, <2>1, <2>2, <2>3, SlotFrame DEF Sigterm
<1>4. CASE WatchdogQuits(w) \/ WatchdogFires(w)
  <2>1. TypeOK'
    <3>1. lost' \subseteq Jobs
      BY <1>4, <1>a DEF WatchdogQuits, WatchdogFires, WatchdogLooks, JobInHand, SlotsOf, TypeOK,
         Holding
    <3> QED BY <1>4, <1>a, <3>1
         DEF WatchdogQuits, WatchdogFires, WatchdogLooks, TypeOK, TableTypeOK
  <2>2. Processes'
    BY <1>4, <1>a DEF WatchdogQuits, WatchdogFires, WatchdogLooks, Processes, SlotsOf, TypeOK
  <2>3. JobInHand' BY <1>4, <1>a DEF WatchdogQuits, WatchdogFires, WatchdogLooks, JobInHand
  <2> QED BY <1>4, <2>1, <2>2, <2>3, SlotFrame DEF WatchdogQuits, WatchdogFires, WatchdogLooks
<1>5. CASE GatherDone(w) \/ RequeueDone(w)
  <2>1. TypeOK' BY <1>5, <1>a DEF GatherDone, RequeueDone, TypeOK, TableTypeOK
  <2>2. Processes' BY <1>5, <1>a DEF GatherDone, RequeueDone, Processes, SlotsOf, TypeOK
  <2>3. JobInHand' BY <1>5, <1>a DEF GatherDone, RequeueDone, JobInHand
  <2> QED BY <1>5, <2>1, <2>2, <2>3, SlotFrame DEF GatherDone, RequeueDone
<1>6. CASE Restart(w)
  <2>1. TypeOK' BY <1>6, <1>a DEF Restart, TypeOK, TableTypeOK, PC
  <2>2. Processes' BY <1>6, <1>a, <1>b DEF Restart, Processes, SlotsOf, TypeOK
  <2>3. JobInHand' BY <1>6, <1>a, <1>b DEF Restart, JobInHand, Holding, Processes, SlotsOf
  <2> QED BY <1>6, <1>b, <2>1, <2>2, <2>3, SlotFrame DEF Restart, Holding, Working
<1> QED BY <1>1, <1>2, <1>3, <1>4, <1>5, <1>6

-----------------------------------------------------------------------------
(* The claim.                                                              *)

\* A claim locks a queued row no other claim has locked.
LEMMA ClaimPickStep ==
    ASSUME IInv, NEW s \in Slots, ClaimPick(s)
    PROVE  IInv'
<1> USE DEF ClaimPick, Goto, tableVars, leaseVars, moneyVars, drainVars, beatVars
<1>a. TypeOK /\ Processes /\ JobInHand /\ PickLocks /\ Lease /\ Unpaid BY DEF IInv
<1>b. pc \in [Slots -> PC] /\ job \in [Slots -> Jobs \cup {NoJob}] BY <1>a DEF TypeOK
<1>c. PICK j \in Jobs : IsPick(j, Locked) /\ job' = [job EXCEPT ![s] = j] OBVIOUS
<1>1. TypeOK' BY <1>a, <1>c DEF TypeOK, TableTypeOK, PC
<1>2. Processes' BY <1>a, <1>b DEF Processes, SlotsOf
<1>3. JobInHand' BY <1>a, <1>b, <1>c DEF JobInHand, Holding
<1>4. PickLocks' BY <1>a, <1>b, <1>c DEF PickLocks, IsPick, Claimable, Locked
<1>5. Lease' BY <1>a, <1>b, <1>c DEF Lease, Holding, Own
<1>6. Unpaid' BY <1>a, <1>b, <1>c DEF Unpaid, Working, Own
<1>7. BilledExactly' /\ CancelledBilledAtMostOnce'
  BY DEF IInv, BilledExactly, CancelledBilledAtMostOnce, Own
<1> QED BY <1>1, <1>2, <1>3, <1>4, <1>5, <1>6, <1>7 DEF IInv

\* A claim that commits takes a row that was queued, which therefore nobody held.
LEMMA ClaimCommitStep ==
    ASSUME IInv, NEW s \in Slots, ClaimCommit(s)
    PROVE  IInv'
<1> USE DEF ClaimCommit, claim_one, Goto, moneyVars, drainVars, beatVars
<1>a. TypeOK /\ Processes /\ JobInHand /\ PickLocks /\ Lease /\ Unpaid BY DEF IInv
<1>b. /\ pc \in [Slots -> PC] /\ WorkerOf \in [Slots -> Workers]
      /\ status \in [Jobs -> Status] /\ owner \in [Jobs -> Workers \cup {NoWorker}]
  BY <1>a, FleetAssumption DEF TypeOK, TableTypeOK
<1>c. job[s] \in Jobs /\ status[job[s]] = "queued" BY <1>a DEF JobInHand, PickLocks
<1>d. ASSUME job[s] \in Own, NEW t \in Slots, pc[t] \in Holding PROVE job[t] # job[s]
  BY <1>a, <1>c, <1>d DEF Lease
<1>1. TypeOK' BY <1>a, <1>b, <1>c DEF TypeOK, TableTypeOK, PC, Status, Stamp
<1>2. Processes' BY <1>a, <1>b DEF Processes, SlotsOf
<1>3. JobInHand' BY <1>a, <1>b DEF JobInHand, Holding
<1>4. PickLocks' BY <1>a, <1>b, <1>c DEF PickLocks, JobInHand
<1>5. Lease' BY <1>a, <1>b, <1>c, <1>d DEF Lease, Holding, Own
<1>6. Unpaid'
  <2>1. job[s] \in Own => charged[job[s]] = 0 BY <1>c DEF IInv, BilledExactly, Own
  <2> QED BY <1>a, <1>b, <1>c, <1>d, <2>1 DEF Unpaid, Working, Holding, Own
<1>7. BilledExactly' /\ CancelledBilledAtMostOnce'
  BY <1>b, <1>c DEF IInv, BilledExactly, CancelledBilledAtMostOnce, Own
<1> QED BY <1>1, <1>2, <1>3, <1>4, <1>5, <1>6, <1>7 DEF IInv

\* A claim that raises leaves the row queued, or running with no slot on it.
LEMMA ClaimRaisesStep ==
    ASSUME IInv, NEW s \in Slots, ClaimRaises(s)
    PROVE  IInv'
<1> USE DEF ClaimRaises, claim_one, Goto, tableVars, leaseVars, moneyVars, drainVars, beatVars
<1>a. TypeOK /\ Processes /\ JobInHand /\ PickLocks /\ Lease /\ Unpaid BY DEF IInv
<1>b. /\ pc \in [Slots -> PC] /\ WorkerOf \in [Slots -> Workers] /\ NoJob \notin Jobs
      /\ status \in [Jobs -> Status] /\ owner \in [Jobs -> Workers \cup {NoWorker}]
      /\ job \in [Slots -> Jobs \cup {NoJob}]
  BY <1>a, FleetAssumption DEF TypeOK, TableTypeOK
<1>c. job[s] \in Jobs /\ status[job[s]] = "queued" BY <1>a DEF JobInHand, PickLocks
<1>d. ASSUME job[s] \in Own, NEW t \in Slots, pc[t] \in Holding PROVE job[t] # job[s]
  BY <1>a, <1>c, <1>d DEF Lease
<1>1. TypeOK'
  <2>1. pc' \in [Slots -> PC] /\ job' \in [Slots -> Jobs \cup {NoJob}]
    BY <1>b DEF PC
  <2>2. /\ status' \in [Jobs -> Status] /\ owner' \in [Jobs -> Workers \cup {NoWorker}]
        /\ started' \in [Jobs -> Stamp] /\ lost' \subseteq Jobs
    <3>1. lost \subseteq Jobs /\ started \in [Jobs -> Stamp] BY <1>a DEF TypeOK, TableTypeOK
    <3>2. CASE UNCHANGED <<tableVars, lost>> BY <1>b, <3>1, <3>2
    <3>3. CASE claim_one(job[s], WorkerOf[s]) /\ lost' = lost \cup {job[s]}
      BY ONLY <1>b, <1>c, <3>1, <3>3 DEF Status, Stamp, claim_one
    <3> QED BY <3>2, <3>3
  <2> QED BY <1>a, <2>1, <2>2 DEF TypeOK, TableTypeOK
<1>2. Processes' BY <1>a, <1>b DEF Processes, SlotsOf
<1>3. JobInHand' BY <1>a, <1>b DEF JobInHand, Holding
<1>4. PickLocks' BY <1>a, <1>b, <1>c DEF PickLocks, JobInHand
<1>5. Lease' BY <1>a, <1>b, <1>c, <1>d DEF Lease, Holding, Own
<1>6. Unpaid' BY <1>a, <1>b, <1>c, <1>d DEF Unpaid, Working, Holding, Own
<1>7. BilledExactly' /\ CancelledBilledAtMostOnce'
  BY <1>b, <1>c DEF IInv, BilledExactly, CancelledBilledAtMostOnce, Own
<1> QED BY <1>1, <1>2, <1>3, <1>4, <1>5, <1>6, <1>7 DEF IInv

-----------------------------------------------------------------------------
(* The run and its end.                                                    *)

\* Only the one slot that runs a job accrues cost on it, before it is billed.
LEMMA AccrueStep ==
    ASSUME IInv, NEW s \in Slots, Accrue(s)
    PROVE  IInv'
<1> USE DEF Accrue, record_usage, leaseVars, workerVars, slotVars, drainVars, beatVars
<1>a. TypeOK /\ Processes /\ JobInHand /\ PickLocks /\ Lease /\ Unpaid BY DEF IInv
<1>b. job[s] \in Jobs /\ cost[job[s]] \in 0..MaxCost /\ MaxCost \in Nat
  BY <1>a, TableAssumption DEF JobInHand, Holding, TypeOK, TableTypeOK
<1>c. cost \in [Jobs -> 0..MaxCost] BY <1>a DEF TypeOK, TableTypeOK
<1>1. TypeOK'
  <2>1. cost[job[s]] + 1 \in 0..MaxCost BY <1>b
  <2>2. cost' \in [Jobs -> 0..MaxCost] BY <1>b, <1>c, <2>1
  <2> QED BY <1>a, <2>2 DEF TypeOK, TableTypeOK
<1>2. Processes' BY <1>a DEF Processes, SlotsOf
<1>3. JobInHand' BY <1>a DEF JobInHand
<1>4. PickLocks' BY <1>a DEF PickLocks
<1>5. Lease' BY <1>a DEF Lease, Own
<1>6. Unpaid'
  <2>1. ASSUME NEW t \in Slots, pc[t] = "billing", job[t] \in Own PROVE job[t] # job[s]
    BY <1>a, <2>1 DEF Lease, Holding
  <2> QED BY <1>a, <1>c, <2>1 DEF Unpaid, Own
<1>7. BilledExactly' /\ CancelledBilledAtMostOnce'
  <2>1. job[s] \in Own =>
            charged[job[s]] = 0 /\ status[job[s]] \in {"running", "cancelled"}
    BY <1>a DEF Unpaid, Working
  <2> QED BY <1>c, <2>1 DEF IInv, BilledExactly, CancelledBilledAtMostOnce, Own
<1> QED BY <1>1, <1>2, <1>3, <1>4, <1>5, <1>6, <1>7 DEF IInv

\* The finish pays what the job cost, once: its one slot was still unpaid.
LEMMA FinishCommitStep ==
    ASSUME IInv, NEW s \in Slots, FinishCommit(s)
    PROVE  IInv'
<1> USE DEF FinishCommit, ChargeAndSucceed, Conclude, Goto, leaseVars, drainVars, beatVars
<1>a. TypeOK /\ Processes /\ JobInHand /\ PickLocks /\ Lease /\ Unpaid BY DEF IInv
<1>b. /\ pc \in [Slots -> PC] /\ bill \in [Slots -> 0..MaxCost]
      /\ status \in [Jobs -> Status] /\ charged \in [Jobs -> Nat]
      /\ credit \in [Workspaces -> Int]
  BY <1>a DEF TypeOK, TableTypeOK
<1>c. job[s] \in Jobs /\ bill[s] \in Nat /\ 0 \in 0..MaxCost
  BY <1>a, <1>b, TableAssumption DEF JobInHand, Holding
<1>d. job[s] \in Own => /\ status[job[s]] \in {"running", "cancelled"}
                        /\ charged[job[s]] = 0 /\ bill[s] = cost[job[s]]
  BY <1>a DEF Unpaid, Working
<1>e. ASSUME job[s] \in Own, NEW t \in Slots, pc[t] \in Holding, t # s
      PROVE  job[t] # job[s]
  BY <1>a, <1>e DEF Lease, Holding
<1>1. TypeOK'
  <2>1. status' \in [Jobs -> Status] BY <1>b, <1>c DEF Status, TerminalStatus
  <2>2. charged' \in [Jobs -> Nat] BY <1>b, <1>c
  <2>3. credit' \in [Workspaces -> Int]
    <3>1. credit' = [credit EXCEPT ![WorkspaceOf[job[s]]] = @ - bill[s]] OBVIOUS
    <3>2. ASSUME NEW w \in Workspaces PROVE credit[w] - bill[s] \in Int
      <4>1. credit[w] \in Int BY ONLY <1>b
      <4> QED BY ONLY <4>1, <1>c
    <3> QED BY ONLY <1>b, <3>1, <3>2
  <2>4. bill' \in [Slots -> 0..MaxCost] BY <1>b, <1>c
  <2> QED BY <1>a, <2>1, <2>2, <2>3, <2>4 DEF TypeOK, TableTypeOK, PC
<1>2. Processes' BY <1>a, <1>b DEF Processes, SlotsOf
<1>3. JobInHand' BY <1>a, <1>b DEF JobInHand, Holding
<1>4. PickLocks' BY <1>a, <1>b DEF PickLocks, JobInHand
<1>5. Lease' BY <1>a, <1>b, <1>c DEF Lease, Holding, Own
<1>6. Unpaid'
  <2>1. ASSUME NEW t \in Slots, pc'[t] \in Working, job[t] \in Own
        PROVE  t # s /\ pc[t] = pc'[t] /\ job[t] # job[s]
    BY <1>b, <1>c, <1>e, <2>1 DEF Working, Holding
  <2> QED BY <1>a, <1>b, <1>c, <2>1 DEF Unpaid, Own
<1>7. BilledExactly' /\ CancelledBilledAtMostOnce'
  BY <1>b, <1>c, <1>d DEF IInv, BilledExactly, CancelledBilledAtMostOnce, Own
<1> QED BY <1>1, <1>2, <1>3, <1>4, <1>5, <1>6, <1>7 DEF IInv

\* A failure that changes the row concludes a running job, which is unpaid.
LEMMA FailCommitStep ==
    ASSUME IInv, NEW s \in Slots, FailCommit(s)
    PROVE  IInv'
<1> USE DEF FailCommit, mark_failed, Conclude, Goto, leaseVars, moneyVars, drainVars, beatVars
<1>a. TypeOK /\ Processes /\ JobInHand /\ PickLocks /\ Lease /\ Unpaid BY DEF IInv
<1>b. pc \in [Slots -> PC] /\ status \in [Jobs -> Status] BY <1>a DEF TypeOK, TableTypeOK
<1>c. job[s] \in Jobs /\ pc[s] \in Holding BY <1>a DEF JobInHand, Holding
<1>d. job[s] \in Own /\ status[job[s]] = "running" => charged[job[s]] = 0
  BY <1>c DEF IInv, BilledExactly
<1>e. ASSUME job[s] \in Own, NEW t \in Slots, pc[t] \in Holding, t # s
      PROVE  job[t] # job[s]
  BY <1>a, <1>c, <1>e DEF Lease
<1>1. TypeOK' BY <1>a, <1>b, <1>c DEF TypeOK, TableTypeOK, PC, Status, TerminalStatus
<1>2. Processes' BY <1>a, <1>b DEF Processes, SlotsOf
<1>3. JobInHand' BY <1>a, <1>b DEF JobInHand, Holding
<1>4. PickLocks' BY <1>a, <1>b DEF PickLocks, JobInHand
<1>5. Lease' BY <1>a, <1>b, <1>c DEF Lease, Holding, Own
<1>6. Unpaid'
  <2>1. ASSUME NEW t \in Slots, pc'[t] \in Working, job[t] \in Own
        PROVE  t # s /\ pc[t] = pc'[t] /\ job[t] # job[s]
    BY <1>b, <1>c, <1>e, <2>1 DEF Working, Holding
  <2> QED BY <1>a, <1>b, <1>c, <2>1 DEF Unpaid, Own
<1>7. BilledExactly' /\ CancelledBilledAtMostOnce'
  BY <1>b, <1>c, <1>d DEF IInv, BilledExactly, CancelledBilledAtMostOnce, Own
<1> QED BY <1>1, <1>2, <1>3, <1>4, <1>5, <1>6, <1>7 DEF IInv

-----------------------------------------------------------------------------
(* The requeue and the API.                                                *)

\* When the watchdog requeues, the machine on the row has no slot left, so no
\* slot at all holds a job the reaper never took.
LEMMA RequeueOneStep ==
    ASSUME IInv, NEW w \in Workers, RequeueOne(w)
    PROVE  IInv'
<1> USE DEF RequeueOne, slotVars, beatVars
<1>a. TypeOK /\ Processes /\ JobInHand /\ PickLocks /\ Lease /\ Unpaid BY DEF IInv
<1>b. status \in [Jobs -> Status] /\ owner \in [Jobs -> Workers \cup {NoWorker}]
  BY <1>a DEF TypeOK, TableTypeOK
<1>c. PICK j \in drainIds[w] \ Locked :
          /\ requeue_job(j, w) \/ UNCHANGED tableVars
          /\ lost' = lost \/ lost' = lost \cup {j}
          /\ drainIds' = [drainIds EXCEPT ![w] = @ \ {j}]
  OBVIOUS
<1>d. j \in Jobs BY <1>a, <1>c DEF TypeOK
<1>1. drainIds' \in [Workers -> SUBSET Jobs] /\ lost' \subseteq Jobs
  BY <1>a, <1>c, <1>d DEF TypeOK
<1>2. Processes' BY <1>a DEF Processes, SlotsOf
<1>3. JobInHand' BY <1>a DEF JobInHand
<1>4. CASE UNCHANGED tableVars
  <2>1. TypeOK' BY <1>4, <1>a, <1>1 DEF TypeOK, TableTypeOK, tableVars, leaseVars, moneyVars
  <2> QED BY <1>4, <1>2, <1>3, <2>1, SlotFrame DEF tableVars, leaseVars, moneyVars
<1>5. CASE status[j] = "running" /\ owner[j] = w /\ PutBack(j) /\ UNCHANGED reaped
  <2> USE <1>5 DEF PutBack, moneyVars
  <2>1. TypeOK' BY <1>a, <1>b, <1>d, <1>1 DEF TypeOK, TableTypeOK, Status, Stamp
  <2>2. ASSUME j \in Own, NEW s \in Slots, pc[s] \in Holding PROVE job[s] # j
    <3>1. ASSUME job[s] = j PROVE FALSE
      <4>1. owner[j] = WorkerOf[s] BY <1>a, <2>2, <3>1 DEF Lease
      <4>2. pc[s] = "exited" BY <1>a, <4>1 DEF Processes, SlotsOf
      <4> QED BY <2>2, <4>2 DEF Holding
    <3> QED BY <3>1
  <2>3. PickLocks' BY <1>a, <1>b, <1>d DEF PickLocks, JobInHand
  <2>4. Lease' BY <1>a, <1>b, <1>d, <2>2 DEF Lease, Own
  <2>5. Unpaid' BY <1>a, <1>b, <1>d, <2>2 DEF Unpaid, Own, Working, Holding
  <2>6. BilledExactly' /\ CancelledBilledAtMostOnce'
    BY <1>b, <1>d DEF IInv, BilledExactly, CancelledBilledAtMostOnce, Own
  <2> QED BY <1>2, <1>3, <2>1, <2>3, <2>4, <2>5, <2>6 DEF IInv
<1> QED BY <1>c, <1>4, <1>5 DEF requeue_job

\* A submission queues a row that no slot has ever had.
LEMMA SubmitStep ==
    ASSUME IInv, NEW j \in Jobs, Submit(j), UNCHANGED workerVars
    PROVE  IInv'
<1> USE DEF Submit, workerVars, slotVars, drainVars, beatVars, leaseVars, moneyVars
<1>a. TypeOK /\ Processes /\ JobInHand /\ PickLocks /\ Lease /\ Unpaid BY DEF IInv
<1>b. status \in [Jobs -> Status] /\ created \in [Jobs -> Nat]
  BY <1>a DEF TypeOK, TableTypeOK
<1>1. TypeOK'
  <2> DEFINE before == {i \in Jobs : status[i] # "absent"}
  <2>1. IsFiniteSet(before) BY TableAssumption, FS_Subset
  <2>2. Cardinality(before) \in Nat BY <2>1, FS_CardinalityType
  <2>3. created' \in [Jobs -> Nat] BY <1>b, <2>2
  <2>4. status' \in [Jobs -> Status] BY <1>b DEF Status
  <2> QED BY <1>a, <2>3, <2>4 DEF TypeOK, TableTypeOK
<1>2. Processes' BY <1>a DEF Processes, SlotsOf
<1>3. JobInHand' BY <1>a DEF JobInHand
<1>4. PickLocks' BY <1>a, <1>b DEF PickLocks, JobInHand
<1>5. Lease' BY <1>a, <1>b DEF Lease, Own
<1>6. Unpaid' BY <1>a, <1>b DEF Unpaid, Own
<1>7. BilledExactly' /\ CancelledBilledAtMostOnce'
  BY <1>b DEF IInv, BilledExactly, CancelledBilledAtMostOnce, Own
<1> QED BY <1>1, <1>2, <1>3, <1>4, <1>5, <1>6, <1>7 DEF IInv

\* A cancellation stops at a locked row, and leaves the bill as it finds it.
LEMMA CancelStep ==
    ASSUME IInv, NEW j \in Jobs, j \notin Locked, Cancel(j), UNCHANGED workerVars
    PROVE  IInv'
<1> USE DEF Cancel, workerVars, slotVars, drainVars, beatVars, leaseVars, moneyVars
<1>a. TypeOK /\ Processes /\ JobInHand /\ PickLocks /\ Lease /\ Unpaid BY DEF IInv
<1>b. status \in [Jobs -> Status] BY <1>a DEF TypeOK, TableTypeOK
<1>1. TypeOK' BY <1>a, <1>b DEF TypeOK, TableTypeOK, Status, TerminalStatus
<1>2. Processes' BY <1>a DEF Processes, SlotsOf
<1>3. JobInHand' BY <1>a DEF JobInHand
<1>4. PickLocks' BY <1>a, <1>b DEF PickLocks, JobInHand, Locked
<1>5. Lease' BY <1>a, <1>b DEF Lease, Own
<1>6. Unpaid' BY <1>a, <1>b DEF Unpaid, Own
<1>7. BilledExactly' /\ CancelledBilledAtMostOnce'
  BY <1>b DEF IInv, BilledExactly, CancelledBilledAtMostOnce, Own
<1> QED BY <1>1, <1>2, <1>3, <1>4, <1>5, <1>6, <1>7 DEF IInv

\* A reaped job leaves the jobs the invariant speaks of.
LEMMA ReapStep ==
    ASSUME IInv, NEW j \in Jobs, j \notin Locked, Reap(j), UNCHANGED workerVars
    PROVE  IInv'
<1> USE DEF Reap, LooksDead, PutBack, Conclude, workerVars, slotVars, drainVars,
            beatVars, leaseVars, moneyVars
<1>a. TypeOK /\ Processes /\ JobInHand /\ PickLocks /\ Lease /\ Unpaid BY DEF IInv
<1>b. /\ status \in [Jobs -> Status] /\ owner \in [Jobs -> Workers \cup {NoWorker}]
      /\ started \in [Jobs -> Stamp] /\ beat \in [Jobs -> Stamp]
  BY <1>a DEF TypeOK, TableTypeOK
<1>c. Own' = Own \ {j} BY DEF Own
<1>d. \A i \in Jobs \ {j} : status'[i] = status[i] /\ owner'[i] = owner[i] BY <1>b
<1>1. TypeOK' BY <1>a, <1>b DEF TypeOK, TableTypeOK, Status, TerminalStatus, Stamp
<1>2. Processes' BY <1>a DEF Processes, SlotsOf
<1>3. JobInHand' BY <1>a DEF JobInHand
<1>4. PickLocks' BY <1>a, <1>d DEF PickLocks, JobInHand, Locked
<1>5. Lease' BY <1>a, <1>c, <1>d DEF Lease, Own
<1>6. Unpaid' BY <1>a, <1>c, <1>d DEF Unpaid, Own
<1>7. BilledExactly' /\ CancelledBilledAtMostOnce'
  BY <1>c, <1>d DEF IInv, BilledExactly, CancelledBilledAtMostOnce, Own
<1> QED BY <1>1, <1>2, <1>3, <1>4, <1>5, <1>6, <1>7 DEF IInv

\* Time stamps that get older change nothing else.
LEMMA AgeStep ==
    ASSUME IInv, NEW j \in Jobs, Age(j), UNCHANGED workerVars
    PROVE  IInv'
<1> USE DEF Age, workerVars, slotVars, drainVars, beatVars, moneyVars
<1>a. TypeOK /\ Processes /\ JobInHand BY DEF IInv
<1>1. TypeOK' BY <1>a DEF TypeOK, TableTypeOK, Older, Stamp
<1>2. Processes' BY <1>a DEF Processes, SlotsOf
<1>3. JobInHand' BY <1>a DEF JobInHand
<1> QED BY <1>1, <1>2, <1>3, SlotFrame

-----------------------------------------------------------------------------
(* The theorems.                                                           *)

\* A fleet that starts has claimed nothing.
LEMMA InitInvariant == Init => IInv
<1> SUFFICES ASSUME Init PROVE IInv OBVIOUS
<1> USE TableAssumption, FleetAssumption DEF Init, TableInit
<1>1. TypeOK BY DEF TypeOK, TableTypeOK, Status, Stamp, PC
<1>2. Processes BY DEF Processes, SlotsOf
<1>3. JobInHand BY DEF JobInHand, Holding
<1>4. PickLocks /\ Lease /\ Unpaid BY DEF PickLocks, Lease, Unpaid, Holding, Working
<1>5. BilledExactly /\ CancelledBilledAtMostOnce
  BY DEF BilledExactly, CancelledBilledAtMostOnce, Own
<1> QED BY <1>1, <1>2, <1>3, <1>4, <1>5 DEF IInv

\* A step that changes nothing.
LEMMA StutterStep ==
    ASSUME IInv, UNCHANGED vars
    PROVE  IInv'
<1> USE DEF vars, tableVars, leaseVars, moneyVars, workerVars, slotVars, drainVars, beatVars
<1>1. TypeOK' BY DEF IInv, TypeOK, TableTypeOK
<1>2. Processes' BY DEF IInv, Processes, SlotsOf
<1>3. JobInHand' BY DEF IInv, JobInHand
<1> QED BY <1>1, <1>2, <1>3, SlotFrame

\* Every step keeps it.
LEMMA NextInvariant == IInv /\ [Next]_vars => IInv'
<1> SUFFICES ASSUME IInv, [Next]_vars PROVE IInv' OBVIOUS
<1>1. ASSUME NEW s \in Slots, SlotStep(s) PROVE IInv'
  BY <1>1, QuietSlotStep, ClaimPickStep, ClaimCommitStep, ClaimRaisesStep, AccrueStep,
     FinishCommitStep, FailCommitStep DEF SlotStep
<1>2. ASSUME NEW w \in Workers, WorkerStep(w) PROVE IInv'
  <2>1. CASE MainExit(w) \/ Kill(w)
    <3>1. Halt(w) BY <2>1 DEF MainExit, Kill
    <3>2. lost' \subseteq Jobs
      BY <2>1 DEF MainExit, Kill, IInv, TypeOK, JobInHand, SlotsOf
    <3> QED BY <3>1, <3>2, HaltStep
  <2> QED BY <1>2, <2>1, QuietWorkerStep, RequeueOneStep DEF WorkerStep
<1>3. ASSUME NEW j \in Jobs, ApiStep(j) PROVE IInv'
  BY <1>3, SubmitStep, CancelStep, ReapStep, AgeStep DEF ApiStep, ClientStep, ReaperStep
<1> QED BY <1>1, <1>2, <1>3, StutterStep DEF Next

\* IInv holds in every reachable state of every fleet.
THEOREM Invariance == Spec => []IInv
BY InitInvariant, NextInvariant, PTL DEF Spec

\* Every variable keeps its type.
THEOREM TypeCorrect == Spec => []TypeOK
<1>1. IInv => TypeOK BY DEF IInv
<1> QED BY <1>1, Invariance, PTL

\* No two slots of any fleet ever hold the same job, unless the reaper took it.
THEOREM ClaimsAreExclusive == Spec => []ExclusiveRun
<1>1. IInv => ExclusiveRun BY DEF IInv, Lease, ExclusiveRun, Holders, Own
<1> QED BY <1>1, Invariance, PTL

\* A job the reaper never took is billed its cost if it succeeded, and nothing if
\* it did not; a cancelled one is billed at most once.
THEOREM BillingIsExact == Spec => [](BilledExactly /\ CancelledBilledAtMostOnce)
<1>1. IInv => BilledExactly /\ CancelledBilledAtMostOnce BY DEF IInv
<1> QED BY <1>1, Invariance, PTL

-----------------------------------------------------------------------------
(* The job status machine.                                                 *)

\* What one step can do to the status column: nothing, or one move of the abstract
\* machine on one row; a requeue is the reaper's or a drain's, and a drain requeues
\* a row of a machine that has no slot left.
LEMMA StatusMoves ==
    ASSUME IInv, [Next]_vars
    PROVE  /\ [Lifecycle!Next]_status
           /\ \A j \in Jobs :
                 status[j] = "running" /\ status'[j] = "queued" /\ j \notin reaped' =>
                     \A s \in Slots : WorkerOf[s] = owner[j] => job[s] # j
<1> DEFINE Unwound ==
      \A j \in Jobs :
          status[j] = "running" /\ status'[j] = "queued" /\ j \notin reaped' =>
              \A s \in Slots : WorkerOf[s] = owner[j] => job[s] # j
<1> USE DEF Lifecycle!Next, Lifecycle!Move
<1>a. TypeOK /\ Processes /\ JobInHand /\ PickLocks BY DEF IInv
<1>b. status \in [Jobs -> Status] BY <1>a DEF TypeOK, TableTypeOK
<1>0. ASSUME UNCHANGED status PROVE [Lifecycle!Next]_status /\ Unwound BY <1>0
<1>1. ASSUME NEW s \in Slots, SlotStep(s) PROVE [Lifecycle!Next]_status /\ Unwound
  <2> USE DEF tableVars
  <2>1. CASE ClaimCommit(s)
    <3>1. job[s] \in Jobs /\ status[job[s]] = "queued"
      BY <2>1, <1>a DEF ClaimCommit, Goto, JobInHand, PickLocks
    <3>2. status' = [status EXCEPT ![job[s]] = "running"]
      BY <2>1 DEF ClaimCommit, claim_one
    <3>3. Lifecycle!Claim(job[s]) BY <3>1, <3>2 DEF Lifecycle!Claim
    <3> QED BY <1>b, <3>1, <3>2, <3>3
  <2>2. CASE ClaimRaises(s)
    <3>1. job[s] \in Jobs /\ status[job[s]] = "queued"
      BY <2>2, <1>a DEF ClaimRaises, Goto, JobInHand, PickLocks
    <3>2. CASE status' = [status EXCEPT ![job[s]] = "running"]
      <4>1. Lifecycle!Claim(job[s]) BY <3>1, <3>2 DEF Lifecycle!Claim
      <4> QED BY <1>b, <3>1, <3>2, <4>1
    <3> QED BY <2>2, <1>0, <3>2 DEF ClaimRaises, claim_one
  <2>3. CASE FinishCommit(s) \/ FailCommit(s)
    <3>1. job[s] \in Jobs
      BY <2>3, <1>a DEF FinishCommit, FailCommit, Goto, JobInHand, Holding
    <3>2. PICK outcome \in {"succeeded", "failed"} : Conclude(job[s], outcome)
      BY <2>3 DEF FinishCommit, FailCommit, ChargeAndSucceed, mark_failed
    <3>3. CASE status[job[s]] = "running"
      <4>1. Lifecycle!Finish(job[s]) BY <3>2, <3>3 DEF Lifecycle!Finish, Conclude
      <4> QED BY <1>b, <3>1, <3>2, <3>3, <4>1 DEF Conclude
    <3>4. CASE status[job[s]] # "running"
      BY <1>b, <1>0, <3>2, <3>4 DEF Conclude
    <3> QED BY <3>3, <3>4
  <2>4. CASE ~ (ClaimCommit(s) \/ ClaimRaises(s) \/ FinishCommit(s) \/ FailCommit(s))
    <3>1. UNCHANGED status
      BY <1>1, <2>4 DEF SlotStep, BeginClaim, ClaimNothing, ClaimPick, Register, Accrue,
         record_usage, ReadCost, RunRaises, FailLost, Discard, LeaveLoop, Unwind
    <3> QED BY <1>0, <3>1
  <2> QED BY <2>1, <2>2, <2>3, <2>4
<1>2. ASSUME NEW w \in Workers, WorkerStep(w) PROVE [Lifecycle!Next]_status /\ Unwound
  <2>1. CASE RequeueOne(w)
    <3>1. PICK j \in drainIds[w] : requeue_job(j, w) \/ UNCHANGED tableVars
      BY <2>1 DEF RequeueOne
    <3>2. CASE status[j] = "running" /\ owner[j] = w /\ PutBack(j)
      <4>1. j \in Jobs BY <1>a DEF TypeOK
      <4>2. status' = [status EXCEPT ![j] = "queued"] BY <3>2 DEF PutBack
      <4>3. Lifecycle!Requeue(j) BY <3>2, <4>2 DEF Lifecycle!Requeue
      <4>4. ASSUME NEW s \in Slots, WorkerOf[s] = owner[j] PROVE job[s] # j
        <5>1. pc[s] = "exited"
          BY <2>1, <3>2, <4>4, <1>a DEF RequeueOne, Processes, SlotsOf
        <5> QED BY <4>1, <5>1, <1>a DEF JobInHand, Holding
      <4> QED BY <1>b, <4>1, <4>2, <4>3, <4>4
    <3> QED BY <3>1, <3>2, <1>0 DEF requeue_job, tableVars
  <2>2. CASE ~ RequeueOne(w)
    <3>1. UNCHANGED status
      BY <1>2, <2>2 DEF WorkerStep, tableVars, BeatSnapshot, BeatStamp, BeatLost, BeatEnds,
         touch_job_heartbeats, Sigterm, WatchdogQuits, WatchdogFires, WatchdogLooks,
         GatherDone, RequeueDone, MainExit, Kill, Halt, Restart
    <3> QED BY <1>0, <3>1
  <2> QED BY <2>1, <2>2
<1>3. ASSUME NEW j \in Jobs, ApiStep(j) PROVE [Lifecycle!Next]_status /\ Unwound
  <2>1. CASE Submit(j)
    <3>1. Lifecycle!Submit(j) BY <2>1 DEF Submit, Lifecycle!Submit
    <3> QED BY <1>b, <2>1, <3>1 DEF Submit
  <2>2. CASE Cancel(j)
    <3>1. Lifecycle!Cancel(j) BY <2>2 DEF Cancel, Lifecycle!Cancel
    <3> QED BY <1>b, <2>2, <3>1 DEF Cancel
  <2>3. CASE Reap(j)
    <3>1. Lifecycle!Requeue(j) \/ Lifecycle!Finish(j)
      BY <2>3 DEF Reap, LooksDead, PutBack, Conclude, Lifecycle!Requeue, Lifecycle!Finish
    <3>2. \A i \in Jobs \ {j} : status'[i] = status[i]
      BY <1>b, <2>3 DEF Reap, PutBack, Conclude
    <3>3. j \in reaped' BY <2>3 DEF Reap
    <3> QED BY <3>1, <3>2, <3>3
  <2>4. CASE Age(j) BY <2>4, <1>0 DEF Age
  <2> QED BY <1>3, <2>1, <2>2, <2>3, <2>4 DEF ApiStep, ClientStep, ReaperStep
<1> QED BY <1>0, <1>1, <1>2, <1>3 DEF Next, vars, tableVars

\* Whatever drains, crashes, cancellations and reaps do, the jobs table implements
\* the status machine of JobLifecycle: a terminal status is final.
THEOREM ImplementsLifecycle == Spec => LifecycleSpec
<1>1. Init => Lifecycle!Init BY DEF Init, TableInit, Lifecycle!Init
<1>2. IInv /\ [Next]_vars => [Lifecycle!Next]_status BY StatusMoves
<1> QED BY <1>1, <1>2, Invariance, PTL DEF Spec, LifecycleSpec, Lifecycle!Spec

\* A drain requeues a job only after every slot of the machine on its row is done
\* with it.
THEOREM RequeuesAreAfterUnwinding == Spec => RequeueAfterUnwind
<1>1. IInv /\ [Next]_vars =>
          [\A j \in Jobs :
              status[j] = "running" /\ status'[j] = "queued" /\ j \notin reaped' =>
                  \A s \in Slots : WorkerOf[s] = owner[j] => job[s] # j]_vars
  BY StatusMoves
<1> QED BY <1>1, Invariance, PTL DEF Spec, RequeueAfterUnwind

-----------------------------------------------------------------------------
(* Drains: what a machine that stops leaves behind.                        *)

\* The watchdog of a process that is up only watches, and it has ids in hand only
\* while it drains.
Draining(w) ==
    /\ phase[w] = "up" => watchdog[w] = "watch"
    /\ watchdog[w] \in {"watch", "done"} => drainIds[w] = {}

\* A slot that holds a job neither reaped nor lost has registered it, unless the
\* claim is fresh and the watchdog has not looked yet; it has concluded it before
\* it discards it; the watchdog that cancels it has the id; and no watchdog has
\* returned over it.
Kept(s) ==
    pc[s] \in Holding /\ job[s] \in Own \ lost =>
        /\ pc[s] = "claimed" => watchdog[WorkerOf[s]] = "watch"
        /\ pc[s] # "claimed" => job[s] \in ids[WorkerOf[s]]
        /\ pc[s] = "cleanup" => status[job[s]] # "running"
        /\ watchdog[WorkerOf[s]] = "gather" => job[s] \in drainIds[WorkerOf[s]]
        /\ ~ (phase[WorkerOf[s]] = "stopping" /\ watchdog[WorkerOf[s]] = "done")

DrainInv ==
    /\ \A w \in Workers : Draining(w)
    /\ \A s \in Slots : Kept(s)
    /\ NoStranding

\* A slot's steps on the way to its run, and in it.
LEMMA SlotDrains ==
    ASSUME IInv, DrainInv, NEW s \in Slots,
           \/ BeginClaim(s) \/ ClaimNothing(s) \/ ClaimPick(s) \/ Register(s) \/ Accrue(s)
           \/ ReadCost(s) \/ RunRaises(s) \/ FailLost(s) \/ LeaveLoop(s)
    PROVE  DrainInv'
<1> USE DEF Goto, tableVars, leaseVars, moneyVars, drainVars, beatVars
<1>a. TypeOK /\ Processes /\ JobInHand /\ Lease BY DEF IInv
<1>b. /\ pc \in [Slots -> PC] /\ WorkerOf \in [Slots -> Workers]
      /\ job \in [Slots -> Jobs \cup {NoJob}] /\ ids \in [Workers -> SUBSET Jobs]
      /\ watchdog \in [Workers -> {"watch", "gather", "requeue", "done"}]
  BY <1>a, FleetAssumption DEF TypeOK
<1>1. UNCHANGED <<status, owner, reaped, phase, watchdog, drainIds>> /\ lost \subseteq lost'
  BY DEF BeginClaim, ClaimNothing, ClaimPick, Register, Accrue, record_usage, ReadCost,
     RunRaises, FailLost, LeaveLoop, workerVars
<1>2. \A t \in Slots \ {s} : pc'[t] = pc[t] /\ job'[t] = job[t]
  BY <1>b DEF BeginClaim, ClaimNothing, ClaimPick, Register, Accrue, ReadCost, RunRaises,
     FailLost, LeaveLoop, workerVars, slotVars
<1>3. \A w \in Workers : ids[w] \subseteq ids'[w]
  BY <1>b DEF BeginClaim, ClaimNothing, ClaimPick, Register, Accrue, ReadCost, RunRaises,
     FailLost, LeaveLoop, workerVars
<1>4. \/ pc'[s] \notin Holding /\ pc[s] \notin Holding
      \/ /\ pc[s] \in Holding /\ pc'[s] \in Holding /\ job'[s] = job[s]
         /\ pc'[s] = "cleanup" => pc[s] = "cleanup" \/ job[s] \in lost'
         /\ pc'[s] = "claimed" => pc[s] = "claimed"
         /\ pc'[s] # "claimed" => pc[s] # "claimed" \/ job[s] \in ids'[WorkerOf[s]]
  BY <1>b DEF BeginClaim, ClaimNothing, ClaimPick, Register, Accrue, ReadCost, RunRaises,
     FailLost, LeaveLoop, workerVars, slotVars, Holding
<1>6. ASSUME NEW w \in Workers PROVE Draining(w)'
  BY <1>1 DEF DrainInv, Draining
<1>7. ASSUME NEW t \in Slots PROVE Kept(t)'
  BY <1>b, <1>1, <1>2, <1>3, <1>4 DEF DrainInv, Kept, Own
<1>8. NoStranding'
  <2>1. ASSUME NEW j \in Jobs, Holders(j) # {} PROVE Holders(j)' # {}
    BY <1>2, <1>4, <2>1 DEF Holders
  <2> QED BY <1>1, <2>1 DEF DrainInv, NoStranding, Own
<1> QED BY <1>6, <1>7, <1>8 DEF DrainInv

\* A claim that commits has its slot on the row, which the watchdog has still to look
\* at; or it is lost.
LEMMA ClaimDrains ==
    ASSUME IInv, DrainInv, NEW s \in Slots, ClaimCommit(s)
    PROVE  DrainInv'
<1> USE DEF ClaimCommit, claim_one, Goto, moneyVars, drainVars, beatVars
<1>a. TypeOK /\ Processes /\ JobInHand /\ PickLocks /\ Lease BY DEF IInv
<1>b. /\ pc \in [Slots -> PC] /\ WorkerOf \in [Slots -> Workers]
      /\ status \in [Jobs -> Status] /\ owner \in [Jobs -> Workers \cup {NoWorker}]
  BY <1>a, FleetAssumption DEF TypeOK, TableTypeOK
<1>c. job[s] \in Jobs /\ status[job[s]] = "queued" BY <1>a DEF JobInHand, PickLocks
<1>1. ASSUME NEW w \in Workers PROVE Draining(w)'
  BY DEF DrainInv, Draining
<1>2. ASSUME NEW t \in Slots PROVE Kept(t)'
  <2>1. CASE t = s BY <1>b, <2>1 DEF Kept
  <2>2. CASE t # s
    <3>1. pc[t] \in Holding /\ job[t] \in Own => job[t] # job[s] BY <1>a, <1>c DEF Lease
    <3> QED BY <1>b, <2>2, <3>1 DEF DrainInv, Kept, Own
  <2> QED BY <2>1, <2>2
<1>3. NoStranding'
  <2>1. ASSUME NEW j \in Jobs, Holders(j) # {} PROVE Holders(j)' # {}
    BY <1>b, <2>1 DEF Holders, Holding
  <2>2. Holders(job[s])' # {} BY <1>b DEF Holders, Holding
  <2>3. \A j \in Jobs \ {job[s]} :
            /\ status'[j] = status[j] /\ owner'[j] = owner[j]
            /\ j \notin lost' => j \notin lost
    BY <1>b
  <2> QED BY <1>b, <1>c, <2>1, <2>2, <2>3 DEF DrainInv, NoStranding, Own
<1> QED BY <1>1, <1>2, <1>3 DEF DrainInv

\* A claim that raises rolled back, or its job is lost.
LEMMA RaisedClaimDrains ==
    ASSUME IInv, DrainInv, NEW s \in Slots, ClaimRaises(s)
    PROVE  DrainInv'
<1> USE DEF ClaimRaises, claim_one, Goto, tableVars, leaseVars, moneyVars, drainVars, beatVars
<1>a. TypeOK /\ Processes /\ JobInHand /\ PickLocks /\ Lease BY DEF IInv
<1>b. /\ pc \in [Slots -> PC] /\ job \in [Slots -> Jobs \cup {NoJob}]
      /\ status \in [Jobs -> Status] /\ owner \in [Jobs -> Workers \cup {NoWorker}]
  BY <1>a DEF TypeOK, TableTypeOK
<1>1. /\ UNCHANGED <<reaped, phase, ids, watchdog, drainIds>> /\ lost \subseteq lost'
      /\ pc[s] \notin Holding /\ pc'[s] \notin Holding
      /\ \A t \in Slots \ {s} : pc'[t] = pc[t] /\ job'[t] = job[t]
      /\ \A j \in Jobs \ lost' : status'[j] = status[j] /\ owner'[j] = owner[j]
  BY <1>b DEF Holding
<1>2. ASSUME NEW w \in Workers PROVE Draining(w)' BY <1>1 DEF DrainInv, Draining
<1>3. ASSUME NEW t \in Slots PROVE Kept(t)' BY <1>1 DEF DrainInv, Kept, Own
<1>4. NoStranding'
  <2>1. ASSUME NEW j \in Jobs, Holders(j) # {} PROVE Holders(j)' # {}
    BY <1>1, <2>1 DEF Holders
  <2> QED BY <1>1, <2>1 DEF DrainInv, NoStranding, Own
<1> QED BY <1>2, <1>3, <1>4 DEF DrainInv

\* A conclusion leaves no running row.
LEMMA ConclusionDrains ==
    ASSUME IInv, DrainInv, NEW s \in Slots, FinishCommit(s) \/ FailCommit(s)
    PROVE  DrainInv'
<1> USE DEF Goto, moneyVars, leaseVars, drainVars, beatVars
<1>a. TypeOK /\ Processes /\ JobInHand /\ Lease BY DEF IInv
<1>b. /\ pc \in [Slots -> PC] /\ WorkerOf \in [Slots -> Workers]
      /\ status \in [Jobs -> Status]
  BY <1>a, FleetAssumption DEF TypeOK, TableTypeOK
<1>c. job[s] \in Jobs /\ pc[s] \in Holding \ {"claimed"}
  BY <1>a DEF FinishCommit, FailCommit, JobInHand, Holding
<1>1. /\ UNCHANGED <<job, ids, phase, watchdog, drainIds, owner, reaped, lost>>
      /\ pc'[s] \in {"failing", "cleanup"} /\ \A t \in Slots \ {s} : pc'[t] = pc[t]
  BY <1>b DEF FinishCommit, FailCommit, ChargeAndSucceed, mark_failed
<1>2. PICK outcome \in {"succeeded", "failed"} : Conclude(job[s], outcome)
  BY DEF FinishCommit, FailCommit, ChargeAndSucceed, mark_failed
<1>3. /\ \A j \in Jobs : status'[j] = "running" => status[j] = "running"
      /\ status'[job[s]] # "running"
  BY <1>b, <1>c, <1>2 DEF Conclude
<1>4. ASSUME NEW w \in Workers PROVE Draining(w)'
  BY <1>1 DEF DrainInv, Draining
<1>5. ASSUME NEW t \in Slots PROVE Kept(t)'
  BY <1>c, <1>1, <1>3 DEF DrainInv, Kept, Own
<1>6. NoStranding'
  <2>1. ASSUME NEW j \in Jobs, Holders(j) # {} PROVE Holders(j)' # {}
    BY <1>1, <2>1 DEF Holders, Holding
  <2> QED BY <1>1, <1>3, <2>1 DEF DrainInv, NoStranding, Own
<1> QED BY <1>4, <1>5, <1>6 DEF DrainInv

\* A slot that lets go of a job leaves it concluded, or with the watchdog.
LEMMA LettingGoDrains ==
    ASSUME IInv, DrainInv, NEW s \in Slots, Discard(s) \/ Unwind(s)
    PROVE  DrainInv'
<1> USE DEF Goto, tableVars, leaseVars, drainVars, beatVars
<1>a. TypeOK /\ Processes /\ JobInHand /\ Lease BY DEF IInv
<1>b. /\ pc \in [Slots -> PC] /\ WorkerOf \in [Slots -> Workers]
      /\ job \in [Slots -> Jobs \cup {NoJob}] /\ ids \in [Workers -> SUBSET Jobs]
  BY <1>a, FleetAssumption DEF TypeOK
<1>1. /\ UNCHANGED <<status, owner, reaped, phase, watchdog, drainIds, lost>>
      /\ pc'[s] \in {"idle", "exited"}
      /\ \A t \in Slots \ {s} : pc'[t] = pc[t] /\ job'[t] = job[t]
      /\ \A w \in Workers : ids[w] \ {job[s]} \subseteq ids'[w]
      /\ pc[s] \notin Holding => ids' = ids
  BY <1>b DEF Discard, Unwind, Holding
<1>2. ASSUME NEW w \in Workers PROVE Draining(w)'
  BY <1>1 DEF DrainInv, Draining
<1>3. ASSUME NEW t \in Slots PROVE Kept(t)'
  <2>1. CASE t = s BY <1>1, <2>1 DEF Kept, Holding
  <2>2. CASE t # s
    <3>1. pc[s] \in Holding /\ pc[t] \in Holding /\ job[t] \in Own => job[t] # job[s]
      BY <1>a, <2>2 DEF Lease
    <3> QED BY <1>b, <1>1, <2>2, <3>1 DEF DrainInv, Kept, Own
  <2> QED BY <2>1, <2>2
<1>4. NoStranding'
  <2> SUFFICES ASSUME NEW j \in Own' \ lost', status'[j] = "running"
               PROVE  Holders(j)' # {} \/ \E w \in Workers : owner'[j] = w /\ j \in drainIds'[w]
    BY DEF NoStranding
  <2>0. j \in Own \ lost /\ j \in Jobs /\ status[j] = "running" BY <1>1 DEF Own
  <2>1. CASE \E t \in Slots \ {s} : pc[t] \in Holding /\ job[t] = j
    BY <1>1, <2>1 DEF Holders
  <2>2. CASE pc[s] \in Holding /\ job[s] = j
    <3>1. owner[j] = WorkerOf[s] /\ WorkerOf[s] \in Workers BY <1>a, <1>b, <2>0, <2>2 DEF Lease
    <3>2. ~ Discard(s) BY <2>0, <2>2 DEF DrainInv, Kept, Discard
    <3>3. watchdog[WorkerOf[s]] = "gather" BY <3>2 DEF Unwind, Cancelled
    <3>4. j \in drainIds[WorkerOf[s]] BY <2>0, <2>2, <3>3 DEF DrainInv, Kept
    <3> QED BY <1>1, <3>1, <3>4
  <2>3. CASE \E w \in Workers : owner[j] = w /\ j \in drainIds[w] BY <1>1, <2>3
  <2> QED BY <2>0, <2>1, <2>2, <2>3 DEF DrainInv, NoStranding, Holders
<1> QED BY <1>2, <1>3, <1>4 DEF DrainInv

\* A machine's heartbeat, its signal, its watchdog and its start.
LEMMA MachineDrains ==
    ASSUME IInv, DrainInv, NEW w \in Workers,
           \/ BeatSnapshot(w) \/ BeatStamp(w) \/ BeatLost(w) \/ BeatEnds(w)
           \/ Sigterm(w) \/ WatchdogQuits(w) \/ WatchdogFires(w) \/ GatherDone(w)
           \/ RequeueDone(w) \/ Restart(w)
    PROVE  DrainInv'
<1> USE DEF tableVars, leaseVars, moneyVars, slotVars, drainVars, beatVars
<1>a. TypeOK /\ Processes /\ JobInHand /\ Lease BY DEF IInv
<1>b. /\ pc \in [Slots -> PC] /\ WorkerOf \in [Slots -> Workers]
      /\ phase \in [Workers -> {"up", "stopping", "down"}]
      /\ watchdog \in [Workers -> {"watch", "gather", "requeue", "done"}]
      /\ drainIds \in [Workers -> SUBSET Jobs]
  BY <1>a, FleetAssumption DEF TypeOK
<1>0. UNCHANGED <<status, owner, reaped, job, ids>> /\ lost \subseteq lost'
  BY DEF BeatSnapshot, BeatStamp, BeatLost, BeatEnds, touch_job_heartbeats, Sigterm,
     WatchdogQuits, WatchdogFires, WatchdogLooks, GatherDone, RequeueDone, Restart
<1>1. CASE BeatSnapshot(w) \/ BeatStamp(w) \/ BeatLost(w) \/ BeatEnds(w)
  <2>1. UNCHANGED <<phase, pc, watchdog, drainIds>>
    BY <1>1 DEF BeatSnapshot, BeatStamp, BeatLost, BeatEnds
  <2>2. \A v \in Workers : Draining(v)' BY <2>1 DEF DrainInv, Draining
  <2>3. \A s \in Slots : Kept(s)' BY <1>0, <2>1 DEF DrainInv, Kept, Own
  <2>4. NoStranding' BY <1>0, <2>1 DEF DrainInv, NoStranding, Own, Holders
  <2> QED BY <2>2, <2>3, <2>4 DEF DrainInv
<1>2. CASE Sigterm(w)
  <2>1. /\ phase[w] = "up" /\ phase' = [phase EXCEPT ![w] = "stopping"]
        /\ UNCHANGED <<pc, watchdog, drainIds>>
    BY <1>2 DEF Sigterm
  <2>2. watchdog[w] = "watch" BY <2>1 DEF DrainInv, Draining
  <2>3. \A v \in Workers : Draining(v)' BY <1>b, <2>1, <2>2 DEF DrainInv, Draining
  <2>4. \A s \in Slots : Kept(s)' BY <1>0, <1>b, <2>1, <2>2 DEF DrainInv, Kept, Own
  <2>5. NoStranding' BY <1>0, <2>1 DEF DrainInv, NoStranding, Own, Holders
  <2> QED BY <2>3, <2>4, <2>5 DEF DrainInv
<1>3. CASE WatchdogQuits(w) \/ WatchdogFires(w)
  <2>1. /\ phase[w] = "stopping" /\ watchdog[w] = "watch"
        /\ \A s \in SlotsOf(w) : pc[s] = "claimed" => job[s] \in lost'
        /\ UNCHANGED <<pc, phase>>
        /\ \/ ids[w] = {} /\ watchdog' = [watchdog EXCEPT ![w] = "done"] /\ UNCHANGED drainIds
           \/ /\ watchdog' = [watchdog EXCEPT ![w] = "gather"]
              /\ drainIds' = [drainIds EXCEPT ![w] = ids[w]]
    BY <1>3 DEF WatchdogQuits, WatchdogFires, WatchdogLooks
  <2>3. drainIds[w] = {} BY <2>1 DEF DrainInv, Draining
  <2>4. \A v \in Workers : Draining(v)' BY <1>b, <2>1, <2>3 DEF DrainInv, Draining
  <2>5. \A s \in Slots : Kept(s)'
    BY <1>0, <1>b, <2>1 DEF DrainInv, Kept, Own, SlotsOf
  <2>6. NoStranding'
    BY <1>0, <1>b, <2>1, <2>3 DEF DrainInv, NoStranding, Own, Holders
  <2> QED BY <2>4, <2>5, <2>6 DEF DrainInv
<1>4. CASE GatherDone(w) \/ RequeueDone(w)
  <2>1. /\ \/ watchdog[w] = "gather" /\ watchdog' = [watchdog EXCEPT ![w] = "requeue"]
           \/ /\ watchdog[w] = "requeue" /\ watchdog' = [watchdog EXCEPT ![w] = "done"]
              /\ drainIds[w] = {}
        /\ \A s \in SlotsOf(w) : pc[s] = "exited"
        /\ phase[w] = "stopping"
        /\ UNCHANGED <<pc, phase, drainIds>>
    BY <1>4, <1>a DEF GatherDone, RequeueDone, Processes
  <2>2. \A v \in Workers : Draining(v)' BY <1>b, <2>1 DEF DrainInv, Draining
  <2>3. \A s \in Slots : Kept(s)'
    BY <1>0, <1>b, <2>1 DEF DrainInv, Kept, Own, SlotsOf, Holding
  <2>4. NoStranding' BY <1>0, <2>1 DEF DrainInv, NoStranding, Own, Holders
  <2> QED BY <2>2, <2>3, <2>4 DEF DrainInv
<1>5. CASE Restart(w)
  <2>1. /\ phase[w] = "down" /\ phase' = [phase EXCEPT ![w] = "up"]
        /\ watchdog' = [watchdog EXCEPT ![w] = "watch"] /\ UNCHANGED drainIds
        /\ \A s \in SlotsOf(w) : pc[s] = "exited" /\ pc'[s] = "idle"
        /\ \A s \in Slots \ SlotsOf(w) : pc'[s] = pc[s]
    BY <1>5, <1>a DEF Restart, Processes, SlotsOf
  <2>2. drainIds[w] = {} BY <1>a, <1>b, <2>1 DEF DrainInv, Draining, Processes
  <2>3. \A v \in Workers : Draining(v)' BY <1>b, <2>1, <2>2 DEF DrainInv, Draining
  <2>4. \A s \in Slots : Kept(s)'
    BY <1>0, <1>b, <2>1 DEF DrainInv, Kept, Own, SlotsOf, Holding
  <2>5. \A j \in Jobs : Holders(j)' = Holders(j)
    BY <1>0, <2>1 DEF Holders, SlotsOf, Holding
  <2>6. NoStranding' BY <1>0, <2>1, <2>5 DEF DrainInv, NoStranding, Own
  <2> QED BY <2>3, <2>4, <2>6 DEF DrainInv
<1> QED BY <1>1, <1>2, <1>3, <1>4, <1>5

\* A requeue leaves the row queued, was not the one to make it so, or loses the job.
LEMMA RequeueDrains ==
    ASSUME IInv, DrainInv, NEW w \in Workers, RequeueOne(w)
    PROVE  DrainInv'
<1> USE DEF RequeueOne, slotVars, beatVars
<1>a. TypeOK /\ Processes /\ JobInHand /\ Lease BY DEF IInv
<1>b. /\ status \in [Jobs -> Status] /\ owner \in [Jobs -> Workers \cup {NoWorker}]
      /\ drainIds \in [Workers -> SUBSET Jobs] /\ watchdog[w] = "requeue"
  BY <1>a DEF TypeOK, TableTypeOK
<1>c. PICK j \in drainIds[w] :
          /\ \/ requeue_job(j, w) /\ UNCHANGED lost
             \/ UNCHANGED tableVars /\ lost' = lost \cup {j}
          /\ drainIds' = [drainIds EXCEPT ![w] = @ \ {j}]
  OBVIOUS
<1>0. UNCHANGED <<reaped, job, pc, ids, phase, watchdog>>
  BY <1>c DEF requeue_job, tableVars
<1>1. /\ j \in Jobs
      /\ \A i \in Jobs \ {j} : status'[i] = status[i] /\ owner'[i] = owner[i]
      /\ \/ status'[j] = "queued"
         \/ /\ status'[j] = status[j] /\ owner'[j] = owner[j]
            /\ ~ (status[j] = "running" /\ owner[j] = w) \/ j \in lost'
      /\ lost \subseteq lost'
  BY <1>b, <1>c DEF requeue_job, PutBack, tableVars, leaseVars
<1>2. ASSUME NEW v \in Workers PROVE Draining(v)'
  BY <1>0, <1>b, <1>c DEF DrainInv, Draining
<1>3. ASSUME NEW s \in Slots PROVE Kept(s)'
  <2>1. watchdog[WorkerOf[s]] = "gather" => WorkerOf[s] # w BY <1>b
  <2> QED BY <1>0, <1>1, <1>b, <1>c, <2>1 DEF DrainInv, Kept, Own
<1>4. NoStranding'
  BY <1>0, <1>1, <1>b, <1>c DEF DrainInv, NoStranding, Own, Holders
<1> QED BY <1>2, <1>3, <1>4 DEF DrainInv

\* A process ends when its slots hold nothing any more and its watchdog has returned;
\* or what they still had is lost.
LEMMA HaltDrains ==
    ASSUME IInv, DrainInv, NEW w \in Workers, MainExit(w) \/ Kill(w)
    PROVE  DrainInv'
<1>a. TypeOK /\ Processes /\ JobInHand /\ Lease BY DEF IInv
<1>c. /\ phase' = [phase EXCEPT ![w] = "down"]
      /\ watchdog' = [watchdog EXCEPT ![w] = "done"]
      /\ drainIds' = [drainIds EXCEPT ![w] = {}]
      /\ ids' = [ids EXCEPT ![w] = {}]
      /\ UNCHANGED <<status, owner, reaped>> /\ lost \subseteq lost'
      /\ \A s \in SlotsOf(w) : pc'[s] = "exited"
      /\ \A s \in Slots \ SlotsOf(w) : pc'[s] = pc[s] /\ job'[s] = job[s]
  BY DEF MainExit, Kill, Halt, SlotsOf, tableVars, leaseVars
<1>d. /\ drainIds \in [Workers -> SUBSET Jobs] /\ ids \in [Workers -> SUBSET Jobs]
      /\ phase \in [Workers -> {"up", "stopping", "down"}]
      /\ watchdog \in [Workers -> {"watch", "gather", "requeue", "done"}]
  BY <1>a DEF TypeOK
<1>1. drainIds[w] \subseteq lost'
  BY DEF DrainInv, Draining, MainExit, Kill
<1>2. ASSUME NEW s \in SlotsOf(w), pc[s] \in Holding PROVE job[s] \notin Own \ lost'
  <2>1. CASE MainExit(w) BY <1>2, <2>1 DEF MainExit, Holding
  <2>2. CASE phase[w] = "stopping" /\ watchdog[w] = "done" /\ UNCHANGED lost
    BY <1>2, <2>2 DEF DrainInv, Kept, SlotsOf
  <2>3. CASE job[s] \in lost' BY <2>3
  <2> QED BY <1>2, <2>1, <2>2, <2>3 DEF Kill
<1>3. ASSUME NEW v \in Workers PROVE Draining(v)'
  BY <1>c, <1>d DEF DrainInv, Draining
<1>4. ASSUME NEW s \in Slots PROVE Kept(s)'
  BY <1>c, <1>d DEF DrainInv, Kept, Own, SlotsOf, Holding
<1>5. NoStranding'
  <2>1. ASSUME NEW j \in Own \ lost', Holders(j) # {} PROVE Holders(j)' # {}
    BY <1>2, <1>c, <2>1 DEF Holders, Own, SlotsOf
  <2> QED BY <1>1, <1>c, <1>d, <2>1 DEF DrainInv, NoStranding, Own
<1> QED BY <1>3, <1>4, <1>5 DEF DrainInv

\* The API starts no run.
LEMMA ApiDrains ==
    ASSUME IInv, DrainInv, NEW j \in Jobs, ApiStep(j)
    PROVE  DrainInv'
<1>a. status \in [Jobs -> Status] /\ owner \in [Jobs -> Workers \cup {NoWorker}]
  BY DEF IInv, TypeOK, TableTypeOK
<1>1. UNCHANGED workerVars BY DEF ApiStep, ClientStep, ReaperStep
<1>2. /\ reaped \subseteq reaped'
      /\ \A i \in Jobs \ reaped' : /\ status'[i] = "running" => status[i] = "running"
                                   /\ owner'[i] = owner[i]
  <2>1. ASSUME Reap(j), NEW i \in Jobs, i # j
        PROVE  status'[i] = status[i] /\ owner'[i] = owner[i]
    BY <1>a, <2>1 DEF Reap, PutBack, Conclude, leaseVars
  <2>2. CASE Reap(j) BY <2>1, <2>2 DEF Reap
  <2>3. CASE Submit(j) \/ Cancel(j) \/ Age(j)
    BY <1>a, <2>3 DEF Submit, Cancel, Age, leaseVars
  <2> QED BY <2>2, <2>3 DEF ApiStep, ClientStep, ReaperStep
<1>3. ASSUME NEW w \in Workers PROVE Draining(w)'
  BY <1>1 DEF DrainInv, Draining, workerVars, slotVars, drainVars
<1>4. ASSUME NEW s \in Slots PROVE Kept(s)'
  BY <1>1, <1>2 DEF DrainInv, Kept, Own, workerVars, slotVars, drainVars
<1>5. NoStranding'
  BY <1>1, <1>2 DEF DrainInv, NoStranding, Own, Holders, workerVars, slotVars, drainVars
<1> QED BY <1>3, <1>4, <1>5 DEF DrainInv

\* Whatever is drained, cancelled, crashes or fails, a running row is held by a slot,
\* or the watchdog of the machine on the row has its id and is about to requeue it
\* (_drain_watchdog); only a job that was reaped or lost is left to the API: one whose
\* claim the watchdog could not know of, or whose claim, mark_failed, requeue or
\* process failed.
THEOREM NothingIsStranded == Spec => []NoStranding
<1>1. Init => DrainInv
  <2> SUFFICES ASSUME Init PROVE DrainInv OBVIOUS
  <2>1. \A w \in Workers : Draining(w) BY DEF Init, Draining
  <2>2. \A s \in Slots : Kept(s) BY DEF Init, Kept, Holding
  <2>3. NoStranding BY DEF Init, TableInit, NoStranding, Own
  <2> QED BY <2>1, <2>2, <2>3 DEF DrainInv
<1>2. IInv /\ DrainInv /\ [Next]_vars => DrainInv'
  <2> SUFFICES ASSUME IInv, DrainInv, [Next]_vars PROVE DrainInv' OBVIOUS
  <2>1. ASSUME NEW s \in Slots, SlotStep(s) PROVE DrainInv'
    BY <2>1, SlotDrains, ClaimDrains, RaisedClaimDrains, ConclusionDrains, LettingGoDrains
       DEF SlotStep
  <2>2. ASSUME NEW w \in Workers, WorkerStep(w) PROVE DrainInv'
    BY <2>2, MachineDrains, RequeueDrains, HaltDrains DEF WorkerStep
  <2>3. ASSUME NEW j \in Jobs, ApiStep(j) PROVE DrainInv'
    BY <2>3, ApiDrains
  <2>4. CASE UNCHANGED vars
    BY <2>4 DEF vars, tableVars, leaseVars, workerVars, slotVars, drainVars, DrainInv,
       Draining, Kept, NoStranding, Own, Holders
  <2> QED BY <2>1, <2>2, <2>3, <2>4 DEF Next
<1>3. DrainInv => NoStranding BY DEF DrainInv
<1> QED BY <1>1, <1>2, <1>3, Invariance, PTL DEF Spec

=============================================================================
