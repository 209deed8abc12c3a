---------------------------- MODULE AgentLoopProofs ----------------------------
(***************************************************************************)
(* For every set of tools, every limit, price and timeout, and any number  *)
(* of steps and attempts: every tool call that ran was permitted, at most  *)
(* the step in flight is run again, a job stops in time, and the           *)
(* conversation stays one the model can be given.                          *)
(*                                                                         *)
(* Each is the last conjunct of an inductive invariant over the variables  *)
(* it needs.  All of them rest on Shape, and on CallKinds: of the fifteen  *)
(* things a tool call may do, what each kind does to the call, its         *)
(* approval, the counters and the history.                                 *)
(***************************************************************************)
EXTENDS AgentLoop, FiniteSetTheorems, TLAPS

Row == [tool : ConfirmTools, status : {"pending", "approved", "denied", "expired"}]
Call == [tool : Tools \cup {set_output}, st : CallStates, result : Results,
         approval : Nat, waited : 0 .. ApprovalTimeout]
Message == [role : {"user", "assistant"}, ids : Seq(Nat \X Nat \X Nat)]
Ran == [attempt : Nat, step : Nat, call : Nat, tool : Tools, approval : Nat]
Checkpoint == [step : 0 .. MaxSteps, messages : Seq(Message)]

\* A call past the gate's question has a row of its own; only the tools of the
\* skill get that far, and only gated ones are asked about.
CallOK(c, rows) ==
    /\ c.st \notin {"waiting", "done"} => c.tool \in Tools
    /\ c.st \in {"asking", "gated", "seen", "expiring"} => c.tool \in ConfirmTools
    /\ c.st = "seen" => c.waited < ApprovalTimeout
    /\ c.approval =< rows

Shape ==
    /\ TypeOK
    /\ calls \in Seq(Call) /\ approvals \in Seq(Row)
    /\ \A i \in DOMAIN calls : CallOK(calls[i], Len(approvals))
    /\ checkpoint \in Checkpoint /\ messages \in Seq(Message)
    /\ effects \subseteq Ran /\ IsFiniteSet(effects)
    /\ unsaved \subseteq Nat
    /\ pc \in {"top", "call", "model", "dispatch", "saving"} => step < MaxSteps
    /\ pc \in {"off", "loaded", "top", "call", "model"} => calls = <<>>

-----------------------------------------------------------------------------
(* What a step of a tool call may be.                                      *)

CountsGrow ==
    /\ tool_call_counts' \in [Tools -> Nat]
    /\ \A t \in Tools : tool_call_counts[t] =< tool_call_counts'[t]

Expires(a) ==
    approvals' = [approvals EXCEPT ![a].status = IF @ = "pending" THEN "expired" ELSE @]

\* The call is over, with a result, without having run.
Closes(i, c) ==
    /\ c.st = "done" /\ c.approval = calls[i].approval
    /\ \/ approvals' = approvals
       \/ calls[i].st = "expiring" /\ Expires(calls[i].approval)
    /\ CountsGrow
    /\ UNCHANGED <<effects, cost>>

\* The call is counted and let go on, to its question or to its run.
Starts(i, c) ==
    /\ calls[i].st = "waiting" /\ c.approval = calls[i].approval
    /\ c.st = IF c.tool \in ConfirmTools THEN "asking" ELSE "cleared"
    /\ c.tool \in Tools /\ ~OverLimit(c.tool) /\ Count(c.tool)
    /\ UNCHANGED <<effects, cost, approvals>>

Asks(i, c) ==
    /\ calls[i].st = "asking" /\ c.st = "gated"
    /\ c.approval = Len(approvals) + 1
    /\ approvals' = Append(approvals, [tool |-> c.tool, status |-> "pending"])
    /\ UNCHANGED <<effects, cost, tool_call_counts>>

Passes(i, c) ==
    /\ calls[i].st = "gated" /\ c.st = "cleared"
    /\ c.approval = calls[i].approval
    /\ ApprovalOf(i).status = "approved"
    /\ UNCHANGED <<effects, cost, approvals, tool_call_counts>>

WaitsOn(i, c) ==
    /\ calls[i].st \in {"gated", "seen", "expiring"}
    /\ c.st \in {"gated", "seen", "expiring"}
    /\ c.approval = calls[i].approval
    /\ UNCHANGED <<effects, cost, approvals, tool_call_counts>>

Runs(i, c) ==
    /\ calls[i].st = "cleared" /\ c.st = "done"
    /\ c.approval = calls[i].approval
    /\ effects' = effects \cup {Effect(i)}
    /\ cost' \in {cost, cost + ToolCost}
    /\ UNCHANGED <<approvals, tool_call_counts>>

\* Call i becomes c, and what only the loop writes is left alone.
Moves(i, c) ==
    /\ calls' = [calls EXCEPT ![i] = c]
    /\ c \in Call /\ c.tool = calls[i].tool
    /\ calls[i].st # "done" /\ pc = "dispatch"
    /\ schema_fail_count' \in Nat /\ aborted' \in BOOLEAN
    /\ UNCHANGED <<cancelled, checkpoint, pc, attempt, step, messages, escalated,
                   why, unsaved, late>>

Kind(i, c) ==
    \/ Closes(i, c) \/ Starts(i, c) \/ Asks(i, c) \/ Passes(i, c)
    \/ WaitsOn(i, c) \/ Runs(i, c)

-----------------------------------------------------------------------------
(* The invariants.                                                         *)

\* The gate.  A row belongs to one call; a call that has not run has no effect
\* under its row; a gated call that is cleared has its row approved.
GateOf(i) ==
    LET c == calls[i]
    IN  /\ c.st \in {"waiting", "asking"} \/ c.tool \notin ConfirmTools => c.approval = 0
        /\ c.tool \in ConfirmTools /\ c.st \in {"gated", "seen", "expiring", "cleared"} =>
               c.approval \in DOMAIN approvals /\ approvals[c.approval].tool = c.tool
        /\ c.tool \in ConfirmTools /\ c.st = "cleared" =>
               approvals[c.approval].status = "approved"
        /\ c.st # "done" /\ c.approval # 0 =>
               \A e \in effects : e.approval # c.approval

GateInv ==
    /\ \A i \in DOMAIN calls : GateOf(i)
    /\ \A i, j \in DOMAIN calls :
           i # j /\ calls[i].approval # 0 => calls[j].approval # calls[i].approval
    /\ \A e \in effects : /\ e.approval =< Len(approvals)
                          /\ e.tool \notin ConfirmTools => e.approval = 0
    /\ GateHolds

\* The limits.  What has run and what is let run count together, and an effect of
\* this attempt is of an earlier step, or of a call of this one that is done.
Going == {"asking", "gated", "seen", "expiring", "cleared"}
Slots(t) ==
    {e \in effects : e.attempt = attempt /\ e.tool = t}
    \cup {Effect(i) : i \in {k \in DOMAIN calls : calls[k].st \in Going /\ calls[k].tool = t}}

Placed(e) ==
    \/ e.step < step
    \/ e.step = step /\ e.call \in DOMAIN calls /\ calls[e.call].st = "done"

LimitInv ==
    /\ \A e \in effects : e.attempt =< attempt
    /\ pc # "off" =>
           /\ \A e \in effects : e.attempt = attempt => Placed(e)
           /\ \A t \in Tools : /\ IsFiniteSet(Slots(t))
                               /\ Cardinality(Slots(t)) =< tool_call_counts[t]
                               /\ Cardinality(Slots(t)) =< ToolLimit[t]
    /\ LimitsHold

\* Reruns.  An attempt that goes on stands at its checkpoint, or past it by steps
\* whose checkpoints were not written, and so does all that has run.
GoingOn ==
    \/ pc \in {"top", "call", "model", "dispatch", "saving"}
    \/ pc = "loaded" /\ ~aborted

RerunInv ==
    /\ GoingOn => /\ checkpoint.step =< step
                  /\ \A s \in Nat : s < step /\ s \notin unsaved => s < checkpoint.step
    /\ \A e \in effects : e.attempt =< attempt
    /\ \A e \in effects : \A s \in Nat :
           s < e.step /\ s \notin unsaved => s < checkpoint.step
    /\ OnlyStepInFlightReruns

\* The spend.  Under the ceiling when the model is asked; then at most the answer
\* and the calls that are done.
DoneCalls == {i \in DOMAIN calls : calls[i].st = "done"}
SpendInv ==
    /\ pc \in {"call", "model"} => cost < MaxJobCost
    /\ pc = "dispatch" =>
           /\ cost < MaxJobCost + PremiumCost + Cardinality(DoneCalls) * ToolCost
           /\ Len(calls) =< LongestTurn
    /\ SpendBounded
    /\ late \in {0, 1}
    /\ late = 1 => cancelled /\ pc # "call"

\* The conversation.  Answered for the steps done; during a step its assistant
\* turn is there and not answered yet.
AnsweredUpTo(ms, n) ==
    /\ ms[1] = User(<<>>)
    /\ \A k \in 1 .. n : /\ ms[2*k].role = "assistant"
                         /\ ms[2*k + 1] = User(ms[2*k].ids)
TurnInv ==
    /\ pc \in {"loaded", "top", "call", "model"} => Answered(messages, step)
    /\ pc = "dispatch" => /\ Len(messages) = 2 * step + 2
                          /\ AnsweredUpTo(messages, step)
                          /\ messages[2 * step + 2] = Assistant(Ids)
    /\ pc = "saving" => Answered(messages, step + 1)
    /\ checkpoint # NoCheckpoint => Answered(checkpoint.messages, checkpoint.step)

-----------------------------------------------------------------------------
(* Tool calls.                                                             *)

\* The counters count.
LEMMA Counters ==
    ASSUME Shape
    PROVE  /\ attempt \in Nat /\ step \in Nat /\ cost \in Nat /\ late \in Nat
           /\ checkpoint.step \in Nat /\ MaxSteps \in Nat
<1>1. /\ attempt \in 0 .. MaxAttempts /\ step \in 0 .. MaxSteps
      /\ cost \in Nat /\ late \in Nat /\ checkpoint.step \in 0 .. MaxSteps
  BY DEF Shape, TypeOK
<1>2. MaxAttempts \in Nat /\ MaxSteps \in Nat BY LoopAssumption
<1> QED BY <1>1, <1>2

\* A call of the turn is a call.
LEMMA CallType ==
    ASSUME Shape, NEW i \in DOMAIN calls
    PROVE  /\ calls[i] \in Call /\ CallOK(calls[i], Len(approvals)) /\ calls[i].waited \in 0 .. ApprovalTimeout
           /\ DOMAIN calls = 1 .. Len(calls) /\ Len(calls) \in Nat /\ i \in 1 .. Len(calls)
<1>1. calls \in Seq(Call) /\ CallOK(calls[i], Len(approvals)) BY DEF Shape
<1>2. calls[i] \in Call BY <1>1
<1>3. calls[i].waited \in 0 .. ApprovalTimeout BY <1>2 DEF Call
<1> QED BY <1>1, <1>2, <1>3

\* A call that moves on keeps the rest of what it is.
LEMMA CallMoved ==
    ASSUME NEW c \in Call, NEW s \in CallStates
    PROVE  LET d == [c EXCEPT !.st = s]
           IN  /\ d \in Call /\ d.st = s
               /\ d.tool = c.tool /\ d.approval = c.approval /\ d.waited = c.waited
BY DEF Call

\* So does a call that is settled.
LEMMA CallSettled ==
    ASSUME NEW c \in Call, NEW r \in Results
    PROVE  LET d == [c EXCEPT !.st = "done", !.result = r]
           IN  /\ d \in Call /\ d.st = "done"
               /\ d.tool = c.tool /\ d.approval = c.approval
BY DEF Call, CallStates

\* A call that is asked about, or has waited one more poll.
LEMMA CallGated ==
    ASSUME NEW c \in Call, NEW n, NEW w
    PROVE  /\ [[c EXCEPT !.st = "gated"] EXCEPT !.approval = n] =
                  [tool |-> c.tool, st |-> "gated", result |-> c.result,
                   approval |-> n, waited |-> c.waited]
           /\ [[c EXCEPT !.st = "gated"] EXCEPT !.waited = w] =
                  [tool |-> c.tool, st |-> "gated", result |-> c.result,
                   approval |-> c.approval, waited |-> w]
<1>1. c = [tool |-> c.tool, st |-> c.st, result |-> c.result,
           approval |-> c.approval, waited |-> c.waited]
  BY DEF Call
<1>2. [c EXCEPT !.st = "gated"] =
          [tool |-> c.tool, st |-> "gated", result |-> c.result,
           approval |-> c.approval, waited |-> c.waited]
  <2> DEFINE d == [tool |-> c.tool, st |-> c.st, result |-> c.result,
                   approval |-> c.approval, waited |-> c.waited]
  <2>1. [d EXCEPT !.st = "gated"] =
            [tool |-> c.tool, st |-> "gated", result |-> c.result,
             approval |-> c.approval, waited |-> c.waited]
    OBVIOUS
  <2>2. c = d BY <1>1
  <2> HIDE DEF d
  <2> QED BY <2>1, <2>2
<1> DEFINE e == [tool |-> c.tool, st |-> "gated", result |-> c.result,
                 approval |-> c.approval, waited |-> c.waited]
<1>3. [e EXCEPT !.approval = n] =
          [tool |-> c.tool, st |-> "gated", result |-> c.result,
           approval |-> n, waited |-> c.waited]
  OBVIOUS
<1>4. [e EXCEPT !.waited = w] =
          [tool |-> c.tool, st |-> "gated", result |-> c.result,
           approval |-> c.approval, waited |-> w]
  OBVIOUS
<1>5. [c EXCEPT !.st = "gated"] = e BY <1>2
<1> HIDE DEF e
<1> QED BY <1>3, <1>4, <1>5

\* Settle and Move replace one call.
LEMMA CallReplaced ==
    ASSUME Shape, NEW i \in DOMAIN calls, NEW s \in CallStates, NEW r \in Results
    PROVE  /\ [calls EXCEPT ![i].st = s] = [calls EXCEPT ![i] = [calls[i] EXCEPT !.st = s]]
           /\ [calls EXCEPT ![i].st = s, ![i].result = r] =
                  [calls EXCEPT ![i] = [calls[i] EXCEPT !.st = s, !.result = r]]
<1>1. calls[i] \in Call BY CallType
<1>2. [calls EXCEPT ![i].st = s, ![i].result = r] =
          [[calls EXCEPT ![i].st = s] EXCEPT ![i].result = r]
  OBVIOUS
<1>3. [calls EXCEPT ![i].st = s] = [calls EXCEPT ![i] = [calls[i] EXCEPT !.st = s]]
  OBVIOUS
<1> DEFINE d == [calls[i] EXCEPT !.st = s]
<1>4. [[calls EXCEPT ![i] = d] EXCEPT ![i].result = r] =
          [calls EXCEPT ![i] = [d EXCEPT !.result = r]]
  <2> HIDE DEF d
  <2> QED OBVIOUS
<1>5. [d EXCEPT !.result = r] = [calls[i] EXCEPT !.st = s, !.result = r] OBVIOUS
<1> QED BY <1>2, <1>3, <1>4, <1>5

\* What a call that is settled without running comes to.
LEMMA Settled ==
    ASSUME Shape, NEW i \in DOMAIN calls, NEW r \in Results, Settle(i, r),
           calls[i].st # "done", pc = "dispatch",
           \/ approvals' = approvals
           \/ calls[i].st = "expiring" /\ Expires(calls[i].approval),
           CountsGrow, schema_fail_count' \in Nat, Spanned,
           UNCHANGED <<cancelled, cost, checkpoint, pc, attempt, step, messages,
                       escalated, why, history>>
    PROVE  \E c \in Call : Moves(i, c) /\ Closes(i, c) /\ CallOK(c, Len(approvals'))
<1> DEFINE c == [calls[i] EXCEPT !.st = "done", !.result = r]
<1>1. calls[i] \in Call /\ CallOK(calls[i], Len(approvals)) BY CallType
<1>2. "done" \in CallStates BY DEF CallStates
<1>3. c \in Call /\ c.st = "done" /\ c.tool = calls[i].tool /\ c.approval = calls[i].approval
  BY <1>1, CallSettled
<1>4. calls' = [calls EXCEPT ![i] = c] BY <1>2, CallReplaced DEF Settle
<1>5. aborted' \in BOOLEAN BY DEF Spanned
<1>6. Len(approvals') = Len(approvals) BY DEF Shape, Expires
<1> HIDE DEF c
<1>7. CallOK(c, Len(approvals')) BY <1>1, <1>3, <1>6 DEF CallOK
<1>8. Moves(i, c) BY <1>3, <1>4, <1>5 DEF Moves, history
<1>9. Closes(i, c) BY <1>3 DEF Closes, history
<1> QED BY <1>3, <1>7, <1>8, <1>9

\* What a call that moves on comes to.
LEMMA Moved ==
    ASSUME Shape, NEW i \in DOMAIN calls, NEW s \in CallStates \ {"waiting", "done", "seen"},
           Move(i, s), calls[i].st # "done", pc = "dispatch", calls[i].tool \in Tools,
           s \in {"asking", "gated", "expiring"} => calls[i].tool \in ConfirmTools,
           schema_fail_count' \in Nat, aborted' \in BOOLEAN, approvals' = approvals,
           UNCHANGED <<cancelled, checkpoint, pc, attempt, step, messages, escalated,
                       why, unsaved, late>>
    PROVE  \E c \in Call : /\ Moves(i, c) /\ CallOK(c, Len(approvals'))
                           /\ c.st = s /\ c.approval = calls[i].approval
<1> DEFINE c == [calls[i] EXCEPT !.st = s]
<1>1. calls[i] \in Call /\ CallOK(calls[i], Len(approvals)) BY CallType
<1>3. c \in Call /\ c.st = s /\ c.tool = calls[i].tool /\ c.approval = calls[i].approval
  BY <1>1, CallMoved
<1>4. calls' = [calls EXCEPT ![i] = c]
  <2>1. "none" \in Results BY DEF Results
  <2> QED BY <2>1, CallReplaced DEF Move
<1> HIDE DEF c
<1>7. CallOK(c, Len(approvals')) BY <1>1, <1>3 DEF CallOK
<1>8. Moves(i, c) BY <1>3, <1>4 DEF Moves
<1> QED BY <1>3, <1>7, <1>8

\* Every step of a tool call is of one of the six kinds.
LEMMA CallKinds ==
    ASSUME Shape, NEW i \in DOMAIN calls, CallStep(i)
    PROVE  \E c \in Call : Moves(i, c) /\ Kind(i, c) /\ CallOK(c, Len(approvals'))
<1>0. /\ calls[i] \in Call /\ CallOK(calls[i], Len(approvals)) /\ calls[i].waited \in 0 .. ApprovalTimeout
      /\ tool_call_counts \in [Tools -> Nat] /\ schema_fail_count \in Nat
      /\ aborted \in BOOLEAN /\ calls[i].tool \in Tools \cup {set_output}
      /\ cost \in Nat
  BY CallType DEF Shape, TypeOK, Call
<1>1. {"none", "ok", "error", "expired", "recorded"} \subseteq Results
      /\ {"waiting", "asking", "gated", "seen", "expiring", "cleared", "done"}
             \subseteq CallStates
  BY DEF Results, CallStates
<1>a. tool_call_counts' = tool_call_counts => CountsGrow BY <1>0 DEF CountsGrow
<1>b. ASSUME \E c \in Call : Moves(i, c) /\ Closes(i, c) /\ CallOK(c, Len(approvals'))
      PROVE  \E c \in Call : Moves(i, c) /\ Kind(i, c) /\ CallOK(c, Len(approvals'))
  BY <1>b DEF Kind
<1>c. ASSUME pc = "dispatch", calls[i].st # "done", Settle(i, "error"), Spanned,
             UNCHANGED <<dbVars, pc, attempt, memVars, why, history>>
      PROVE  \E c \in Call : Moves(i, c) /\ Kind(i, c) /\ CallOK(c, Len(approvals'))
  BY <1>0, <1>1, <1>a, <1>b, <1>c, Settled DEF dbVars, memVars
<1>3. CASE BeginRaises(i) BY <1>3, <1>c DEF BeginRaises, Begins
<1>4. CASE NotAllowed(i) BY <1>4, <1>c DEF NotAllowed, Ready, Begins
<1>5. CASE Invalid(i) BY <1>5, <1>c DEF Invalid, At, Refuse
<1>6. CASE Denied(i) BY <1>6, <1>c DEF Denied, At, Refuse
<1>7. CASE WaitRaises(i) BY <1>7, <1>c DEF WaitRaises, At, Refuse
<1>8. CASE Limited(i)
  <2>1. CountsGrow /\ UNCHANGED <<cancelled, cost, checkpoint, approvals>>
    BY <1>0, <1>8, LoopAssumption DEF Limited, Count, CountsGrow, dbVars
  <2>2. \E c \in Call : Moves(i, c) /\ Closes(i, c) /\ CallOK(c, Len(approvals'))
    BY <1>0, <1>1, <1>8, <2>1, Settled DEF Limited, Ready, Begins
  <2> QED BY <1>b, <2>2
<1>9. CASE SetOutput(i)
  <2>1. CountsGrow /\ schema_fail_count' \in Nat
        /\ UNCHANGED <<cancelled, cost, checkpoint, approvals>>
    BY <1>0, <1>9 DEF SetOutput, CountsGrow, dbVars
  <2>2. \E c \in Call : Moves(i, c) /\ Closes(i, c) /\ CallOK(c, Len(approvals'))
    BY <1>0, <1>1, <1>9, <2>1, Settled DEF SetOutput, Ready, Begins
  <2> QED BY <1>b, <2>2
<1>10. CASE Expire(i)
  <2>1. CountsGrow /\ UNCHANGED <<cancelled, cost, checkpoint, schema_fail_count>>
        /\ calls[i].st = "expiring" /\ Expires(calls[i].approval)
        /\ UNCHANGED <<step, messages, escalated>>
    BY <1>0, <1>10 DEF Expire, Expires, At, CountsGrow, memVars
  <2>2. \E c \in Call : Moves(i, c) /\ Closes(i, c) /\ CallOK(c, Len(approvals'))
    BY <1>0, <1>1, <1>10, <2>1, Settled DEF Expire, At
  <2> QED BY <1>b, <2>2
<1>11. CASE Begin(i)
  <2> DEFINE s == IF calls[i].tool \in ConfirmTools THEN "asking" ELSE "cleared"
  <2>1. /\ s \in CallStates \ {"waiting", "done", "seen"} /\ Move(i, s)
        /\ s \in {"asking", "gated", "expiring"} => calls[i].tool \in ConfirmTools
        /\ calls[i].st = "waiting" /\ pc = "dispatch" /\ calls[i].tool \in Tools
    BY <1>1, <1>11, LoopAssumption DEF Begin, Ready, Begins
  <2>2. UNCHANGED <<cancelled, cost, checkpoint, approvals, pc, attempt, step,
                    messages, schema_fail_count, escalated, aborted, why, effects,
                    unsaved, late>>
    BY <1>11 DEF Begin, dbVars, history
  <2>3. PICK c \in Call : /\ Moves(i, c) /\ CallOK(c, Len(approvals'))
                          /\ c.st = s /\ c.approval = calls[i].approval
    <3> HIDE DEF s
    <3> QED BY <1>0, <2>1, <2>2, Moved
  <2>4. Starts(i, c)
    BY <1>11, <2>1, <2>2, <2>3 DEF Begin, Starts, Moves
  <2> QED BY <2>3, <2>4 DEF Kind
<1>12. CASE RequestApproval(i)
  <2> DEFINE c == [tool |-> calls[i].tool, st |-> "gated", result |-> calls[i].result,
                   approval |-> Len(approvals) + 1, waited |-> calls[i].waited]
  <2>1. calls[i].st = "asking" /\ calls[i].tool \in ConfirmTools /\ pc = "dispatch"
    BY <1>0, <1>12 DEF RequestApproval, At, CallOK
  <2>2. approvals \in Seq(Row)
        /\ approvals' = Append(approvals, [tool |-> calls[i].tool, status |-> "pending"])
        /\ Len(approvals') = Len(approvals) + 1 /\ Len(approvals) \in Nat
    BY <1>12 DEF RequestApproval, Shape
  <2>3. c \in Call BY <1>0, <1>1, <2>2 DEF Call
  <2>4. calls' = [calls EXCEPT ![i] = c]
    <3>1. calls' = [calls EXCEPT ![i].st = "gated", ![i].approval = Len(approvals) + 1]
      BY <1>12, <2>2 DEF RequestApproval
    <3>2. calls' = [calls EXCEPT ![i] = [[calls[i] EXCEPT !.st = "gated"] EXCEPT
                                            !.approval = Len(approvals) + 1]]
      BY <3>1
    <3>3. [[calls[i] EXCEPT !.st = "gated"] EXCEPT !.approval = Len(approvals) + 1] = c
      BY <1>0, CallGated
    <3> QED BY <3>2, <3>3
  <2>5. Moves(i, c)
    BY <1>0, <1>12, <2>1, <2>3, <2>4 DEF RequestApproval, Moves, memVars, history
  <2>6. Asks(i, c)
    BY <1>12, <2>1, <2>2 DEF RequestApproval, Asks, memVars, history
  <2>7. CallOK(c, Len(approvals')) BY <2>1, <2>2, LoopAssumption DEF CallOK
  <2> QED BY <2>3, <2>5, <2>6, <2>7 DEF Kind
<1>13. CASE Approved(i)
  <2>1. /\ Move(i, "cleared") /\ calls[i].st = "gated" /\ pc = "dispatch"
        /\ calls[i].tool \in Tools /\ ApprovalOf(i).status = "approved"
        /\ UNCHANGED <<cancelled, cost, checkpoint, approvals, pc, attempt, step,
                    messages, schema_fail_count, escalated, aborted, why, effects,
                    unsaved, late, tool_call_counts>>
    BY <1>0, <1>13 DEF Approved, At, CallOK, dbVars, memVars, history
  <2>2. PICK c \in Call : /\ Moves(i, c) /\ CallOK(c, Len(approvals'))
                          /\ c.st = "cleared" /\ c.approval = calls[i].approval
    BY <1>0, <1>1, <2>1, Moved
  <2>3. Passes(i, c) BY <2>1, <2>2 DEF Passes
  <2> QED BY <2>2, <2>3 DEF Kind
<1>14. CASE GivesUp(i)
  <2>1. /\ Move(i, "expiring") /\ calls[i].st \in {"gated", "seen"} /\ pc = "dispatch"
        /\ calls[i].tool \in Tools /\ calls[i].tool \in ConfirmTools
        /\ UNCHANGED <<cancelled, cost, checkpoint, approvals, pc, attempt, step,
                    messages, schema_fail_count, escalated, aborted, why, effects,
                    unsaved, late, tool_call_counts>>
    BY <1>0, <1>14 DEF GivesUp, At, CallOK, dbVars, memVars, history
  <2>2. PICK c \in Call : /\ Moves(i, c) /\ CallOK(c, Len(approvals'))
                          /\ c.st = "expiring" /\ c.approval = calls[i].approval
    BY <1>0, <1>1, <2>1, Moved
  <2>3. WaitsOn(i, c) BY <2>1, <2>2 DEF WaitsOn
  <2> QED BY <2>2, <2>3 DEF Kind
<1>15. CASE SeesPending(i)
  <2> DEFINE c == [calls[i] EXCEPT !.st = "seen"]
  <2>1. /\ Move(i, "seen") /\ calls[i].st = "gated" /\ pc = "dispatch"
        /\ calls[i].tool \in ConfirmTools /\ calls[i].waited < ApprovalTimeout
        /\ UNCHANGED <<cancelled, cost, checkpoint, approvals, pc, attempt, step,
                    messages, schema_fail_count, escalated, aborted, why, effects,
                    unsaved, late, tool_call_counts>>
    BY <1>0, <1>15 DEF SeesPending, At, CallOK, dbVars, memVars, history
  <2>2. /\ c \in Call /\ c.st = "seen" /\ c.tool = calls[i].tool
        /\ c.approval = calls[i].approval /\ c.waited = calls[i].waited
    BY <1>0, <1>1, CallMoved
  <2>3. calls' = [calls EXCEPT ![i] = c] BY <1>1, <2>1, CallReplaced DEF Move
  <2> HIDE DEF c
  <2>4. Moves(i, c) BY <1>0, <2>1, <2>2, <2>3 DEF Moves
  <2>5. WaitsOn(i, c) BY <2>1, <2>2 DEF WaitsOn
  <2>6. CallOK(c, Len(approvals')) BY <1>0, <2>1, <2>2, LoopAssumption DEF CallOK
  <2> QED BY <2>2, <2>4, <2>5, <2>6 DEF Kind
<1>16. CASE SleepsOn(i)
  <2> DEFINE c == [tool |-> calls[i].tool, st |-> "gated", result |-> calls[i].result,
                   approval |-> calls[i].approval, waited |-> calls[i].waited + 1]
  <2>1. /\ calls' = [calls EXCEPT ![i].st = "gated", ![i].waited = @ + 1]
        /\ calls[i].st = "seen" /\ pc = "dispatch"
        /\ calls[i].tool \in ConfirmTools /\ calls[i].waited < ApprovalTimeout
        /\ UNCHANGED <<cancelled, cost, checkpoint, approvals, pc, attempt, step,
                    messages, schema_fail_count, escalated, aborted, why, effects,
                    unsaved, late, tool_call_counts>>
    BY <1>0, <1>16 DEF SleepsOn, At, CallOK, dbVars, memVars, history
  <2>2. calls[i].waited + 1 \in 0 .. ApprovalTimeout BY SMTT(30), <1>0, <2>1, LoopAssumption
  <2>3. c \in Call BY <1>0, <1>1, <2>2 DEF Call
  <2>4. calls' = [calls EXCEPT ![i] = c]
    <3>1. calls' = [calls EXCEPT ![i] = [[calls[i] EXCEPT !.st = "gated"] EXCEPT
                                            !.waited = calls[i].waited + 1]]
      BY <1>0, <2>1 DEF Call
    <3>2. [[calls[i] EXCEPT !.st = "gated"] EXCEPT !.waited = calls[i].waited + 1] = c
      BY <1>0, CallGated
    <3> QED BY <3>1, <3>2
  <2>5. Moves(i, c) BY <1>0, <2>1, <2>3, <2>4 DEF Moves
  <2>6. WaitsOn(i, c) BY <2>1 DEF WaitsOn
  <2>7. CallOK(c, Len(approvals')) BY <1>0, <2>1, LoopAssumption DEF CallOK
  <2> QED BY <2>3, <2>5, <2>6, <2>7 DEF Kind
<1>17. CASE Run(i)
  <2>1. PICK r \in {"ok", "error"} : Settle(i, r) BY <1>17 DEF Run
  <2> DEFINE c == [calls[i] EXCEPT !.st = "done", !.result = r]
  <2>2. /\ c \in Call /\ c.st = "done" /\ c.tool = calls[i].tool
        /\ c.approval = calls[i].approval
    BY ZenonT(40), <1>0, <1>1, CallSettled
  <2>3. calls' = [calls EXCEPT ![i] = c] BY <1>1, <2>1, CallReplaced DEF Settle
  <2> HIDE DEF c
  <2>4. /\ calls[i].st = "cleared" /\ pc = "dispatch" /\ aborted' \in BOOLEAN
        /\ effects' = effects \cup {Effect(i)} /\ cost' \in {cost + 0, cost + ToolCost}
        /\ UNCHANGED <<cancelled, checkpoint, approvals, pc, attempt, step,
                    messages, schema_fail_count, escalated, why, unsaved, late,
                    tool_call_counts>>
    BY <1>17 DEF Run, At, Spanned, memVars
  <2>5. Moves(i, c) BY <1>0, <2>2, <2>3, <2>4 DEF Moves
  <2>6. cost + 0 = cost BY <1>0
  <2>7. Runs(i, c) BY <2>2, <2>4, <2>6 DEF Runs
  <2>8. CallOK(c, Len(approvals')) BY <1>0, <2>2, <2>4 DEF CallOK
  <2> QED BY <2>2, <2>5, <2>7, <2>8 DEF Kind
<1> QED
  BY <1>3, <1>4, <1>5, <1>6, <1>7, <1>8, <1>9, <1>10, <1>11, <1>12, <1>13, <1>14,
     <1>15, <1>16, <1>17 DEF CallStep

\* Only call i has changed.
LEMMA OthersStay ==
    ASSUME Shape, NEW i \in DOMAIN calls, NEW c \in Call, calls' = [calls EXCEPT ![i] = c]
    PROVE  /\ calls' \in Seq(Call) /\ Len(calls') = Len(calls)
           /\ DOMAIN calls' = DOMAIN calls
           /\ calls'[i] = c /\ \A j \in DOMAIN calls \ {i} : calls'[j] = calls[j]
<1>1. calls \in Seq(Call) BY DEF Shape
<1> QED BY <1>1

-----------------------------------------------------------------------------
(* Shape.                                                                  *)

\* The approvals' rows stay, and an approved one stays approved.
Kept ==
    /\ approvals' \in Seq(Row) /\ Len(approvals) =< Len(approvals')
    /\ \A a \in DOMAIN approvals :
           /\ a \in DOMAIN approvals' /\ approvals'[a].tool = approvals[a].tool
           /\ approvals[a].status = "approved" => approvals'[a].status = "approved"

\* A row whose wait is over.
LEMMA ExpiredKept == ASSUME Shape, NEW a \in Nat, Expires(a) PROVE Kept
<1>1. approvals \in Seq(Row) BY DEF Shape
<1>2. CASE a \notin DOMAIN approvals
  <2>1. approvals' = approvals BY <1>1, <1>2 DEF Expires
  <2> QED BY <1>1, <2>1 DEF Kept
<1>3. CASE a \in DOMAIN approvals
  <2> DEFINE s == IF approvals[a].status = "pending" THEN "expired" ELSE approvals[a].status
             r == [approvals[a] EXCEPT !.status = s]
  <2>1. approvals[a] \in Row BY <1>1, <1>3
  <2>2. r \in Row /\ r.tool = approvals[a].tool /\ r.status = s BY <2>1 DEF Row
  <2>3. approvals' = [approvals EXCEPT ![a] = r] BY <1>3 DEF Expires
  <2>4. s = "approved" <=> approvals[a].status = "approved" OBVIOUS
  <2> HIDE DEF r, s
  <2>5. approvals' \in Seq(Row) /\ Len(approvals') = Len(approvals) BY <1>1, <1>3, <2>2, <2>3
  <2> QED BY <1>1, <1>3, <2>2, <2>3, <2>4, <2>5 DEF Kept
<1> QED BY <1>2, <1>3

\* A step of a tool call keeps the rows.
LEMMA KindKeeps ==
    ASSUME Shape, NEW i \in DOMAIN calls, NEW c \in Call, Moves(i, c), Kind(i, c)
    PROVE  Kept
<1>1. approvals \in Seq(Row) /\ calls[i].approval \in Nat BY CallType DEF Shape, Call
<1>2. CASE approvals' = approvals BY <1>1, <1>2 DEF Kept
<1>3. CASE Expires(calls[i].approval) BY <1>1, <1>3, ExpiredKept
<1>4. CASE Asks(i, c)
  <2> DEFINE r == [tool |-> c.tool, status |-> "pending"]
  <2>1. c.tool \in ConfirmTools /\ approvals' = Append(approvals, r)
    BY <1>4, CallType DEF Asks, CallOK, Moves
  <2>2. r \in Row BY <2>1 DEF Row
  <2> HIDE DEF r
  <2> QED BY <1>1, <2>1, <2>2 DEF Kept
<1> QED BY <1>2, <1>3, <1>4 DEF Kind, Closes, Starts, Passes, WaitsOn, Runs

\* The decisions of a turn's calls keep the shape.
LEMMA CallShape ==
    ASSUME Shape, NEW i \in DOMAIN calls, CallStep(i)
    PROVE  Shape'
<1>1. PICK c \in Call : Moves(i, c) /\ Kind(i, c) /\ CallOK(c, Len(approvals'))
  BY CallKinds
<1>2. /\ calls' \in Seq(Call) /\ Len(calls') = Len(calls) /\ DOMAIN calls' = DOMAIN calls
      /\ calls'[i] = c /\ \A j \in DOMAIN calls \ {i} : calls'[j] = calls[j]
  BY <1>1, OthersStay DEF Moves
<1>3. Kept BY <1>1, KindKeeps
<1>4. \A j \in DOMAIN calls' : CallOK(calls'[j], Len(approvals'))
  <2>1. ASSUME NEW j \in DOMAIN calls \ {i} PROVE CallOK(calls[j], Len(approvals'))
    <3>1. calls[j].approval \in Nat /\ Len(approvals) \in Nat /\ Len(approvals') \in Nat
      BY SMTT(30), <1>3, CallType DEF Call, Shape, Kept
    <3> QED BY <1>3, <3>1, CallType DEF CallOK, Kept
  <2> QED BY <1>1, <1>2, <2>1
<1>5. \A j \in DOMAIN calls' : calls'[j] \in
          [tool : Tools \cup {set_output}, st : CallStates, result : Results,
           approval : 0 .. Len(approvals'), waited : 0 .. ApprovalTimeout]
  <2>1. ASSUME NEW x \in Call, x.approval \in 0 .. Len(approvals')
        PROVE  x \in [tool : Tools \cup {set_output}, st : CallStates, result : Results,
                      approval : 0 .. Len(approvals'), waited : 0 .. ApprovalTimeout]
    BY <2>1 DEF Call
  <2>2. ASSUME NEW j \in DOMAIN calls'
        PROVE  calls'[j].approval \in 0 .. Len(approvals') /\ calls'[j] \in Call
    <3>1. calls'[j] \in Call /\ calls'[j].approval =< Len(approvals') BY <1>2, <1>4 DEF CallOK
    <3>2. calls'[j].approval \in Nat /\ Len(approvals') \in Nat
      BY <1>3, <3>1 DEF Call, Kept
    <3> QED BY <3>1, <3>2
  <2> QED BY <2>1, <2>2
<1>6. effects' \subseteq Ran /\ IsFiniteSet(effects')
  <2>1. CASE Runs(i, c)
    <3>1. attempt \in Nat /\ step \in Nat BY Counters
    <3>2. calls[i] \in Call /\ CallOK(calls[i], Len(approvals)) /\ i \in Nat BY CallType
    <3>3. calls[i].tool \in Tools BY <2>1, <3>2 DEF Runs, CallOK
    <3>5. calls[i].approval \in Nat BY <3>2 DEF Call
    <3>4. Effect(i) \in Ran BY <3>1, <3>2, <3>3, <3>5 DEF Effect, Ran
    <3> QED BY <2>1, <3>4, FS_AddElement DEF Runs, Shape
  <2>2. CASE effects' = effects BY <2>2 DEF Shape
  <2> QED BY <1>1, <2>1, <2>2 DEF Kind, Closes, Starts, Asks, Passes, WaitsOn
<1>7. tool_call_counts' \in [Tools -> Nat] /\ cost' \in Nat
  <2>1. tool_call_counts \in [Tools -> Nat] /\ cost \in Nat BY DEF Shape, TypeOK
  <2> QED BY <1>1, <2>1, LoopAssumption
          DEF Kind, Closes, CountsGrow, Starts, Count, Asks, Passes, WaitsOn, Runs
<1>8. approvals' \in Seq(Row) /\ \A a \in DOMAIN approvals' : approvals'[a] \in Row
  BY <1>3 DEF Kept
<1>9. /\ UNCHANGED <<cancelled, checkpoint, pc, attempt, step, messages, escalated, why,
                     unsaved, late>>
      /\ schema_fail_count' \in Nat /\ aborted' \in BOOLEAN /\ pc = "dispatch"
  BY <1>1 DEF Moves
<1>10. TypeOK'
  <2>1. /\ cancelled' \in BOOLEAN /\ checkpoint'.step \in 0 .. MaxSteps
        /\ pc' \in {"off", "loaded", "top", "call", "model", "dispatch", "saving",
                    "returned", "failed"}
        /\ attempt' \in 0 .. MaxAttempts /\ step' \in 0 .. MaxSteps
        /\ escalated' \in BOOLEAN /\ late' \in Nat
        /\ why' \in {"", "time", "cancelled", "cost", "no output", "steps", "aborted",
                     "provider"}
    BY <1>9 DEF Shape, TypeOK
  <2> QED BY <1>5, <1>7, <1>8, <1>9, <2>1 DEF TypeOK, Row
<1> QED BY <1>2, <1>4, <1>6, <1>8, <1>9, <1>10 DEF Shape

Pcs == {"off", "loaded", "top", "call", "model", "dispatch", "saving", "returned", "failed"}
Reasons ==
    {"", "time", "cancelled", "cost", "no output", "steps", "aborted", "provider"}
Stages == /\ pc \in Pcs /\ why \in Reasons
          /\ aborted \in BOOLEAN /\ escalated \in BOOLEAN /\ late \in Nat
          /\ pc \in {"top", "call", "model", "dispatch", "saving"} => step < MaxSteps
          /\ pc \in {"off", "loaded", "top", "call", "model"} => calls = <<>>
Counts == attempt \in 0 .. MaxAttempts /\ tool_call_counts \in [Tools -> Nat]
          /\ schema_fail_count \in Nat /\ cost \in Nat /\ cancelled \in BOOLEAN
Talk == checkpoint \in Checkpoint /\ messages \in Seq(Message) /\ step \in 0 .. MaxSteps
Rows == /\ calls \in Seq(Call) /\ approvals \in Seq(Row)
        /\ \A i \in DOMAIN calls : CallOK(calls[i], Len(approvals))
Past == effects \subseteq Ran /\ IsFiniteSet(effects) /\ unsaved \subseteq Nat

\* Shape in parts that the actions touch apart from each other.
LEMMA ShapeParts == Shape <=> Stages /\ Counts /\ Talk /\ Rows /\ Past
<1>1. ASSUME Shape PROVE Stages /\ Counts /\ Talk /\ Rows /\ Past
  <2>1. Stages BY <1>1 DEF Shape, TypeOK, Stages, Pcs, Reasons
  <2>2. Counts BY <1>1 DEF Shape, TypeOK, Counts
  <2>3. Talk BY <1>1 DEF Shape, TypeOK, Talk
  <2> QED BY <1>1, <2>1, <2>2, <2>3 DEF Shape, Rows, Past
<1>2. ASSUME Stages, Counts, Talk, Rows, Past PROVE Shape
  <2>1. checkpoint.step \in 0 .. MaxSteps BY <1>2 DEF Talk, Checkpoint
  <2>2. \A a \in DOMAIN approvals : approvals[a] \in Row BY <1>2 DEF Rows
  <2>3. ASSUME NEW i \in DOMAIN calls
        PROVE  calls[i] \in [tool : Tools \cup {set_output}, st : CallStates,
                             result : Results, approval : 0 .. Len(approvals),
                             waited : 0 .. ApprovalTimeout]
    <3>1. calls[i] \in Call /\ CallOK(calls[i], Len(approvals)) BY <1>2 DEF Rows
    <3>2. Len(approvals) \in Nat BY <1>2 DEF Rows
    <3>3. ASSUME NEW x \in Call, x.approval \in 0 .. Len(approvals)
          PROVE  x \in [tool : Tools \cup {set_output}, st : CallStates, result : Results,
                        approval : 0 .. Len(approvals), waited : 0 .. ApprovalTimeout]
      BY <3>3 DEF Call
    <3>4. calls[i].approval \in 0 .. Len(approvals) BY <3>1, <3>2 DEF CallOK, Call
    <3> QED BY <3>1, <3>3, <3>4
  <2>4. TypeOK
    BY <1>2, <2>1, <2>2, <2>3 DEF Stages, Counts, Talk, TypeOK, Row, Pcs, Reasons
  <2> QED BY <1>2, <2>4 DEF Shape, Stages, Talk, Rows, Past
<1> QED BY <1>1, <1>2

\* And so it is in the next state.
LEMMA ShapeNext == (Stages /\ Counts /\ Talk /\ Rows /\ Past)' => Shape'
BY ShapeParts, PTL

\* The first state.
LEMMA InitShape == Init => Shape
<1> SUFFICES ASSUME Init PROVE Shape OBVIOUS
<1>1. Stages BY DEF Init, Stages, Pcs, Reasons
<1>2. Counts
  <2>1. MaxAttempts \in Nat BY LoopAssumption
  <2>2. 0 \in 0 .. MaxAttempts BY <2>1
  <2>3. [t \in Tools |-> 0] \in [Tools -> Nat] OBVIOUS
  <2> QED BY <2>2, <2>3 DEF Init, Counts
<1>3. Talk
  <2>1. <<>> \in Seq(Message) /\ 0 \in 0 .. MaxSteps BY LoopAssumption
  <2> QED BY <2>1 DEF Init, Talk, Checkpoint, NoCheckpoint
<1>4. Rows
  <2>1. <<>> \in Seq(Call) /\ <<>> \in Seq(Row) /\ DOMAIN <<>> = {} OBVIOUS
  <2>2. calls = <<>> /\ approvals = <<>> BY DEF Init
  <2> QED BY <2>1, <2>2 DEF Rows
<1>5. Past BY FS_EmptySet DEF Init, Past
<1> QED BY <1>1, <1>2, <1>3, <1>4, <1>5, ShapeParts

\* The loop's own steps, and everyone else's.
LEMMA StepShape == ASSUME Shape, [Next]_vars PROVE Shape'
<1> USE DEF Pcs, Reasons
<1>0. Stages /\ Counts /\ Talk /\ Rows /\ Past BY ShapeParts
<1>q. ASSUME Stages', Counts', Talk', Rows', Past' PROVE Shape'
  BY <1>q, ShapeNext
<1>s. ASSUME Stages', UNCHANGED <<cancelled, cost, checkpoint, approvals, attempt, step,
                         messages, tool_call_counts, schema_fail_count, calls,
                         effects, unsaved>>
      PROVE  Shape'
  <2>1. Counts' /\ Talk' /\ Rows' /\ Past' BY <1>0, <1>s DEF Counts, Talk, Rows, Past
  <2> QED BY <1>q, <1>s, <2>1
<1>h. DOMAIN <<>> = {} OBVIOUS
<1>k. MaxSteps \in Nat /\ PremiumCost \in Nat /\ CheapCost \in Nat /\ MaxAttempts \in Nat
  BY LoopAssumption
<1>f. ASSUME NEW reason \in Reasons, Fail(reason), pc # "off" PROVE Shape'
  <2>1. Stages' BY <1>0, <1>f DEF Fail, Stages, memVars, history
  <2> QED BY <1>s, <1>f, <2>1 DEF Fail, dbVars, memVars, history
<1>1. ASSUME AgentStart PROVE Shape'
  <2>1. CASE Exhausted BY <1>1, <1>f, <2>1 DEF AgentStart, Exhausted
  <2>2. CASE step < MaxSteps /\ pc' = "top" /\
             UNCHANGED <<dbVars, attempt, memVars, calls, aborted, why, history>>
    <3>1. Stages' BY <1>0, <1>1, <2>2 DEF AgentStart, Stages, memVars, history
    <3> QED BY <1>s, <2>2, <3>1 DEF dbVars, memVars, history
  <2> QED BY <1>1, <2>1, <2>2 DEF AgentStart
<1>2. ASSUME StatementRaises \/ ProviderRaises
        \/ StopLate \/ StopCancelled \/ StopCapped PROVE Shape'
  BY <1>2, <1>f DEF StatementRaises, ProviderRaises, StopLate, StopCancelled, StopCapped, AtTop
<1>3. ASSUME PassTop PROVE Shape'
  <2>1. escalated' \in BOOLEAN BY <1>3 DEF PassTop
  <2>2. Stages' BY <1>0, <1>3, <2>1 DEF PassTop, AtTop, Stages, history
  <2> QED BY <1>s, <1>3, <2>2 DEF PassTop, dbVars, history
<1>4. ASSUME CallModel PROVE Shape'
  <2>a. (IF "helper" \in Faults THEN BOOLEAN ELSE {FALSE}) \subseteq BOOLEAN OBVIOUS
  <2>b. aborted' \in BOOLEAN BY <1>4, <2>a DEF CallModel
  <2>c. late \in Nat /\ late' \in {late, late + 1} BY <1>0, <1>4 DEF CallModel, Stages
  <2>1. aborted' \in BOOLEAN /\ late' \in Nat BY <2>b, <2>c
  <2>2. Stages' BY <1>0, <1>4, <2>1 DEF CallModel, Stages, memVars
  <2> QED BY <1>s, <1>4, <2>2 DEF CallModel, dbVars, memVars
<1>5. ASSUME TurnReturns PROVE Shape'
  <2>1. Stages' BY <1>0, <1>5 DEF TurnReturns, TurnDone, Stages, memVars, history
  <2> QED BY <1>s, <1>5, <2>1 DEF TurnReturns, dbVars, memVars, history
<1>6. ASSUME StartAttempt PROVE Shape'
  <2>1. Stages' BY <1>0, <1>6 DEF StartAttempt, Stages, Resume, LoadFails, FreshCounters, history
  <2>2. attempt' \in 0 .. MaxAttempts BY <1>0, <1>6, <1>k DEF StartAttempt, Counts
  <2>3. Counts'
    BY <1>0, <1>6, <2>2 DEF StartAttempt, Counts, FreshCounters, dbVars
  <2>4. Talk'
    <3>1. User(<<>>) \in Message BY DEF User, Message
    <3>2. <<User(<<>>)>> \in Seq(Message)
      <4> HIDE DEF User, Message
      <4> QED BY <3>1
    <3>3. checkpoint.messages \in Seq(Message) /\ checkpoint.step \in 0 .. MaxSteps
      BY <1>0 DEF Talk, Checkpoint
    <3>4. messages' \in Seq(Message) /\ step' \in 0 .. MaxSteps
      <4>1. CASE Resume BY <3>2, <3>3, <4>1 DEF Resume
      <4>2. CASE LoadFails BY <1>k, <3>2, <4>2 DEF LoadFails
      <4> QED BY <1>6, <4>1, <4>2 DEF StartAttempt
    <3> QED BY <1>0, <1>6, <3>4 DEF StartAttempt, Talk, dbVars
  <2>5. Rows' /\ Past' BY <1>0, <1>6 DEF StartAttempt, Rows, Past, dbVars, history
  <2> QED BY <1>q, <2>1, <2>3, <2>4, <2>5
<1>b. ASSUME NEW x \in Billed PROVE cost + x \in Nat
  BY <1>0, <1>b, <1>k DEF Billed, Counts
<1>7. ASSUME ModelEndsTurn PROVE Shape'
  <2>1. Stages' BY <1>0, <1>7 DEF ModelEndsTurn, Stages, history
  <2>2. cost' \in Nat BY <1>7, <1>b DEF ModelEndsTurn
  <2>3. Counts' BY <1>0, <1>7, <2>2 DEF ModelEndsTurn, Counts
  <2>4. Talk'
    <3>1. Assistant(<<>>) \in Message BY DEF Assistant, Message
    <3>2. messages' = Append(messages, Assistant(<<>>)) /\ UNCHANGED <<checkpoint, step>>
      BY <1>7 DEF ModelEndsTurn
    <3> HIDE DEF Assistant, Message
    <3> QED BY <1>0, <3>1, <3>2 DEF Talk
  <2>5. Rows' /\ Past' BY <1>0, <1>7 DEF ModelEndsTurn, Rows, Past, history
  <2> QED BY <1>q, <2>1, <2>3, <2>4, <2>5
<1>i. ASSUME NEW n \in Nat PROVE [j \in 1 .. n |-> Id(j)] \in Seq(Nat \X Nat \X Nat)
  <2>1. \A j \in 1 .. n : Id(j) \in Nat \X Nat \X Nat BY Counters DEF Id
  <2> HIDE DEF Id
  <2> QED BY <2>1
<1>8. ASSUME ModelAsksForTools PROVE Shape'
  <2>1. PICK t \in Turns : calls' = [i \in DOMAIN t |-> NewCall(t[i])]
    BY <1>8 DEF ModelAsksForTools
  <2>2. t \in Seq(Tools \cup {set_output}) BY LoopAssumption
  <2>3. DOMAIN t = 1 .. Len(t) /\ Len(t) \in Nat /\ \A i \in DOMAIN t : t[i] \in Tools \cup {set_output}
    BY <2>2
  <2>4. \A i \in DOMAIN t : /\ NewCall(t[i]) \in Call
                            /\ CallOK(NewCall(t[i]), Len(approvals))
    <3>1. ApprovalTimeout \in Nat BY LoopAssumption
    <3>2. Len(approvals) \in Nat BY <1>0 DEF Rows
    <3> QED BY <2>3, <3>1, <3>2 DEF NewCall, Call, CallStates, Results, CallOK
  <2>5. calls' \in Seq(Call) /\ DOMAIN calls' = 1 .. Len(t)
        /\ \A i \in DOMAIN calls' : CallOK(calls'[i], Len(approvals))
    <3> HIDE DEF NewCall
    <3> QED BY <2>1, <2>3, <2>4
  <2>6. Stages' BY <1>0, <1>8 DEF ModelAsksForTools, Stages, history
  <2>7. cost' \in Nat BY <1>8, <1>b DEF ModelAsksForTools
  <2>8. Counts' BY <1>0, <1>8, <2>7 DEF ModelAsksForTools, Counts
  <2>9. Talk'
    <3> DEFINE ids == [i \in DOMAIN calls' |-> Id(i)]
    <3>1. ids \in Seq(Nat \X Nat \X Nat) BY <1>i, <2>3, <2>5
    <3>2. Assistant(ids) \in Message
      <4> HIDE DEF ids
      <4> QED BY <3>1 DEF Assistant, Message
    <3>3. messages' = Append(messages, Assistant(ids)) BY <1>8 DEF ModelAsksForTools
    <3> HIDE DEF ids
    <3> QED BY <1>0, <1>8, <3>2, <3>3 DEF ModelAsksForTools, Talk
  <2>10. Rows' /\ Past' BY <1>0, <1>8, <2>5 DEF ModelAsksForTools, Rows, Past, history
  <2> QED BY <1>q, <2>6, <2>8, <2>9, <2>10
<1>9. ASSUME TurnGoesOn PROVE Shape'
  <2>1. Stages' BY <1>0, <1>9 DEF TurnGoesOn, TurnDone, Stages, history
  <2>2. Counts' /\ Rows' /\ Past'
    BY <1>0, <1>9 DEF TurnGoesOn, Counts, Rows, Past, history, dbVars
  <2>3. Talk'
    <3>1. DOMAIN calls = 1 .. Len(calls) /\ Len(calls) \in Nat BY <1>0 DEF Rows
    <3>2. Ids \in Seq(Nat \X Nat \X Nat) BY <1>i, <3>1 DEF Ids
    <3>3. User(Ids) \in Message BY <3>2 DEF User, Message
    <3> QED BY <1>0, <1>9, <3>3 DEF TurnGoesOn, Talk, dbVars
  <2> QED BY <1>q, <2>1, <2>2, <2>3
<1>10. ASSUME Save \/ SaveFails PROVE Shape'
  <2>1. pc = "saving" /\ NextStep BY <1>10 DEF Save, SaveFails
  <2>2. step \in 0 .. MaxSteps /\ step < MaxSteps /\ step + 1 \in 0 .. MaxSteps
    <3>1. step \in 0 .. MaxSteps BY <1>0 DEF Talk
    <3>2. step < MaxSteps BY <1>0, <2>1 DEF Stages
    <3> QED BY <1>k, <3>1, <3>2
  <2>3. Stages' BY <1>0, <2>1 DEF NextStep, Stages
  <2>4. Counts' BY <1>0, <2>1 DEF NextStep, Counts
  <2>5. checkpoint' \in Checkpoint
    BY <1>0, <1>10, <2>2 DEF Save, SaveFails, Talk, Checkpoint
  <2>6. Talk' BY <1>0, <2>1, <2>2, <2>5 DEF NextStep, Talk
  <2>7. Rows'
    <3>1. calls' = <<>> /\ approvals' = approvals BY <2>1 DEF NextStep
    <3>2. <<>> \in Seq(Call) OBVIOUS
    <3> QED BY <1>0, <1>h, <3>1, <3>2 DEF Rows
  <2>8. unsaved' \subseteq Nat
    <3>1. step \in Nat BY <1>k, <2>2
    <3>2. unsaved' = unsaved \/ unsaved' = unsaved \cup {step} BY <1>10 DEF Save, SaveFails
    <3> QED BY <1>0, <3>1, <3>2 DEF Past
  <2>9. Past' BY <1>0, <2>1, <2>8 DEF NextStep, Past
  <2> QED BY <1>q, <2>3, <2>4, <2>6, <2>7, <2>9
<1>11. ASSUME NEW a \in DOMAIN approvals, NEW d \in {"approved", "denied"}, Decide(a, d)
       PROVE  Shape'
  <2>1. approvals \in Seq(Row) /\ approvals[a] \in Row BY <1>0 DEF Rows
  <2>2. [approvals[a] EXCEPT !.status = d] \in Row BY <2>1 DEF Row
  <2>3. approvals' = [approvals EXCEPT ![a] = [approvals[a] EXCEPT !.status = d]]
    BY <1>11 DEF Decide
  <2>4. approvals' \in Seq(Row) /\ Len(approvals') = Len(approvals) BY <2>1, <2>2, <2>3
  <2>5. Rows' BY <1>0, <1>11, <2>4 DEF Decide, Rows
  <2>6. Stages' /\ Counts' BY <1>0, <1>11 DEF Decide, Stages, Counts, memVars, history
  <2>7. Talk' /\ Past' BY <1>0, <1>11 DEF Decide, Talk, Past, memVars, history
  <2> QED BY <1>q, <2>5, <2>6, <2>7
<1>12. ASSUME Cancel PROVE Shape'
  <2>1. Stages' /\ Counts' BY <1>0, <1>12 DEF Cancel, Stages, Counts, memVars, history
  <2>2. Talk' /\ Past' /\ Rows' BY <1>0, <1>12 DEF Cancel, Talk, Past, Rows, memVars, history
  <2> QED BY <1>q, <2>1, <2>2
<1>13. ASSUME Crash PROVE Shape'
  <2>1. Stages' BY <1>0, <1>13 DEF Crash, Stages, FreshCounters, history
  <2>2. Counts' BY <1>0, <1>13 DEF Crash, Counts, FreshCounters, dbVars
  <2>3. <<>> \in Seq(Message) /\ 0 \in 0 .. MaxSteps BY <1>k
  <2>4. Talk' BY <1>0, <1>13, <2>3 DEF Crash, Talk, dbVars
  <2>5. Rows'
    <3>1. <<>> \in Seq(Call) OBVIOUS
    <3> QED BY <1>0, <1>13, <1>h, <3>1 DEF Crash, Rows, dbVars
  <2>6. Past' BY <1>0, <1>13 DEF Crash, Past, history
  <2> QED BY <1>q, <2>1, <2>2, <2>4, <2>5, <2>6
<1>14. ASSUME UNCHANGED vars PROVE Shape'
  <2>1. Stages' BY <1>0, <1>14 DEF vars, Stages, memVars, history
  <2> QED BY <1>s, <1>14, <2>1 DEF vars, dbVars, memVars, history
<1> QED
  BY <1>1, <1>2, <1>3, <1>4, <1>5, <1>6, <1>7, <1>8, <1>9, <1>10, <1>11, <1>12, <1>13,
     <1>14, CallShape DEF Next, LoopStep

\* The state is of its type, whatever the run asks for and whoever dies.
THEOREM TypeCorrect == Spec => []TypeOK
<1>1. Spec => []Shape BY InitShape, StepShape, PTL DEF Spec
<1>2. Shape => TypeOK BY DEF Shape
<1> QED BY <1>1, <1>2, PTL

-----------------------------------------------------------------------------
(* The gate.                                                               *)

\* Every step keeps the approvals' rows.
LEMMA StepKept == ASSUME Shape, [Next]_vars PROVE Kept
<1>1. approvals \in Seq(Row) BY DEF Shape
<1>2. CASE approvals' = approvals BY <1>1, <1>2 DEF Kept
<1>3. ASSUME NEW i \in DOMAIN calls, CallStep(i) PROVE Kept BY <1>3, CallKinds, KindKeeps
<1>4. ASSUME NEW a \in DOMAIN approvals, NEW d \in {"approved", "denied"}, Decide(a, d)
      PROVE  Kept
  <2>1. approvals[a] \in Row /\ approvals[a].status = "pending"
        /\ approvals' = [approvals EXCEPT ![a] = [approvals[a] EXCEPT !.status = d]]
    BY <1>1, <1>4 DEF Decide
  <2> DEFINE r == [approvals[a] EXCEPT !.status = d]
  <2>2. r \in Row /\ r.tool = approvals[a].tool BY <2>1 DEF Row
  <2>3. approvals' = [approvals EXCEPT ![a] = r] BY <2>1
  <2> HIDE DEF r
  <2> QED BY <1>1, <2>1, <2>2, <2>3 DEF Kept
<1>5. CASE AgentStart \/ StatementRaises \/ ProviderRaises
        \/ StopLate \/ StopCancelled \/ StopCapped
  BY <1>2, <1>5 DEF AgentStart, Exhausted, StatementRaises, ProviderRaises, StopLate, StopCancelled,
                    StopCapped, Fail, dbVars
<1>6. CASE StartAttempt \/ PassTop \/ CallModel \/ ModelAsksForTools \/ ModelEndsTurn
           \/ TurnReturns \/ TurnGoesOn \/ Save \/ SaveFails
  BY <1>2, <1>6 DEF StartAttempt, PassTop, CallModel, ModelAsksForTools, ModelEndsTurn,
         TurnReturns, TurnGoesOn, Save, SaveFails, NextStep, dbVars
<1>7. CASE Cancel \/ Crash \/ UNCHANGED vars
  BY <1>2, <1>7 DEF Cancel, Crash, vars, dbVars
<1> QED BY <1>3, <1>4, <1>5, <1>6, <1>7 DEF Next, LoopStep

\* The model asks for tools: none of the calls has begun.
NewTurn == pc = "model" /\ calls = <<>> /\ Len(calls') =< LongestTurn
           /\ \A i \in DOMAIN calls' : calls'[i].st = "waiting" /\ calls'[i].approval = 0

\* Every step is one of a tool call, or it leaves the history of what ran and
\* keeps the turn's calls, drops them, or brings new ones.
LEMMA StepKinds ==
    ASSUME Shape, [Next]_vars
    PROVE  \/ \E i \in DOMAIN calls : CallStep(i)
           \/ effects' = effects /\ (calls' = calls \/ calls' = <<>> \/ NewTurn)
<1>1. CASE AgentStart \/ StatementRaises \/ ProviderRaises
        \/ StopLate \/ StopCancelled \/ StopCapped
  BY <1>1 DEF AgentStart, Exhausted, StatementRaises, ProviderRaises, StopLate, StopCancelled,
              StopCapped, Fail, history
<1>2. CASE StartAttempt \/ PassTop \/ CallModel \/ ModelEndsTurn \/ TurnReturns \/ TurnGoesOn
           \/ Save \/ SaveFails
  BY <1>2 DEF StartAttempt, PassTop, CallModel, ModelEndsTurn,
         TurnReturns, TurnGoesOn, Save, SaveFails, NextStep, history
<1>3. CASE Cancel \/ Crash \/ UNCHANGED vars
  BY <1>3 DEF Cancel, Crash, vars, history
<1>4. ASSUME NEW a \in DOMAIN approvals, NEW d \in {"approved", "denied"}, Decide(a, d)
      PROVE  effects' = effects /\ calls' = calls
  BY <1>4 DEF Decide, history
<1>5. CASE ModelAsksForTools
  <2>1. PICK t \in Turns : calls' = [i \in DOMAIN t |-> NewCall(t[i])]
    BY <1>5 DEF ModelAsksForTools
  <2>2. t \in Seq(Tools \cup {set_output}) /\ Len(t) =< LongestTurn BY LoopAssumption
  <2>3. DOMAIN t = 1 .. Len(t) /\ Len(t) \in Nat BY <2>2
  <2>4. \A i \in DOMAIN t : NewCall(t[i]).st = "waiting" /\ NewCall(t[i]).approval = 0
    BY DEF NewCall
  <2>5. calls' \in Seq(Call) BY StepShape DEF Shape
  <2>6. DOMAIN calls' = DOMAIN t
        /\ \A i \in DOMAIN t : calls'[i].st = "waiting" /\ calls'[i].approval = 0
    <3> HIDE DEF NewCall
    <3> QED BY <2>1, <2>4
  <2>7. Len(calls') = Len(t) BY <2>3, <2>5, <2>6
  <2>8. pc = "model" /\ calls = <<>> /\ effects' = effects
    BY <1>5 DEF ModelAsksForTools, Shape, history
  <2> QED BY <2>2, <2>6, <2>7, <2>8 DEF NewTurn
<1> QED BY <1>1, <1>2, <1>3, <1>4, <1>5 DEF Next, LoopStep

\* What held of the effects holds while their rows are kept.
LEMMA GateHoldsKept == ASSUME Shape, Kept, GateHolds, effects' = effects PROVE GateHolds'
<1> SUFFICES ASSUME NEW e \in effects, e.tool \in ConfirmTools
             PROVE  /\ e.approval \in DOMAIN approvals'
                    /\ approvals'[e.approval] = [tool |-> e.tool, status |-> "approved"]
                    /\ \A f \in effects : f.approval = e.approval => f = e
  BY DEF GateHolds
<1>1. /\ e.approval \in DOMAIN approvals
      /\ approvals[e.approval] = [tool |-> e.tool, status |-> "approved"]
      /\ \A f \in effects : f.approval = e.approval => f = e
  BY DEF GateHolds
<1>2. /\ e.approval \in DOMAIN approvals' /\ approvals'[e.approval].tool = e.tool
      /\ approvals'[e.approval].status = "approved" /\ approvals'[e.approval] \in Row
  BY <1>1 DEF Kept
<1>3. \A r \in Row : r = [tool |-> r.tool, status |-> r.status] BY DEF Row
<1> QED BY <1>1, <1>2, <1>3

\* The gate holds through everything a call may do.
LEMMA CallGate ==
    ASSUME Shape, GateInv, NEW i \in DOMAIN calls, CallStep(i)
    PROVE  GateInv'
<1>1. PICK c \in Call : Moves(i, c) /\ Kind(i, c) /\ CallOK(c, Len(approvals'))
  BY CallKinds
<1>2. /\ DOMAIN calls' = DOMAIN calls
      /\ calls'[i] = c /\ \A j \in DOMAIN calls \ {i} : calls'[j] = calls[j]
      /\ c.tool = calls[i].tool /\ calls[i].st # "done"
  BY <1>1, OthersStay DEF Moves
<1>3. Kept BY <1>1, KindKeeps
<1>4. /\ \A j \in DOMAIN calls : GateOf(j)
      /\ \A j, k \in DOMAIN calls :
             j # k /\ calls[j].approval # 0 => calls[k].approval # calls[j].approval
      /\ \A e \in effects : /\ e.approval =< Len(approvals)
                            /\ e.tool \notin ConfirmTools => e.approval = 0
      /\ GateHolds
  BY DEF GateInv
<1>5. \A j \in DOMAIN calls : calls[j] \in Call /\ CallOK(calls[j], Len(approvals))
  BY CallType
<1>6. Len(approvals) \in Nat /\ Len(approvals') \in Nat /\ effects \subseteq Ran
  BY <1>3 DEF Shape, Kept
<1>7. /\ \A j \in DOMAIN calls : calls[j].approval \in Nat /\ calls[j].approval =< Len(approvals)
      /\ \A e \in effects : e.approval \in Nat
  BY <1>5, <1>6 DEF CallOK, Call, Ran
<1>o. ASSUME NEW j \in DOMAIN calls \ {i}, effects' = effects PROVE GateOf(j)'
  BY <1>2, <1>3, <1>4, <1>o DEF GateOf, Kept
<1>c. ASSUME effects' = effects, c.approval = calls[i].approval, GateOf(i)' PROVE GateInv'
  <2>1. \A j \in DOMAIN calls' : GateOf(j)' BY <1>2, <1>c, <1>o
  <2>2. \A j, k \in DOMAIN calls' :
            j # k /\ calls'[j].approval # 0 => calls'[k].approval # calls'[j].approval
    BY <1>2, <1>4, <1>c
  <2>3. \A e \in effects' : /\ e.approval =< Len(approvals')
                            /\ e.tool \notin ConfirmTools => e.approval = 0
    BY <1>3, <1>4, <1>6, <1>7, <1>c DEF Kept
  <2>4. GateHolds' BY <1>3, <1>4, <1>c, GateHoldsKept
  <2> QED BY <2>1, <2>2, <2>3, <2>4 DEF GateInv
<1>8. CASE Closes(i, c)
  <2>1. GateOf(i)' BY <1>2, <1>4, <1>8 DEF GateOf, Closes
  <2> QED BY <1>8, <1>c, <2>1 DEF Closes
<1>9. CASE Starts(i, c)
  <2>1. GateOf(i)' BY <1>2, <1>4, <1>9 DEF GateOf, Starts
  <2> QED BY <1>9, <1>c, <2>1 DEF Starts
<1>10. CASE Passes(i, c)
  <2>1. GateOf(i)' BY <1>2, <1>4, <1>10 DEF GateOf, Passes, ApprovalOf
  <2> QED BY <1>10, <1>c, <2>1 DEF Passes
<1>11. CASE WaitsOn(i, c)
  <2>1. GateOf(i)' BY <1>2, <1>4, <1>11 DEF GateOf, WaitsOn
  <2> QED BY <1>11, <1>c, <2>1 DEF WaitsOn
<1>12. CASE Asks(i, c)
  <2>1. /\ approvals' = Append(approvals, [tool |-> c.tool, status |-> "pending"])
        /\ c.approval = Len(approvals) + 1 /\ c.st = "gated" /\ calls[i].st = "asking"
        /\ effects' = effects
    BY <1>12 DEF Asks
  <2>2. c.tool \in ConfirmTools BY <1>2, <1>5, <2>1 DEF CallOK
  <2>3. c.approval \in DOMAIN approvals' /\ approvals'[c.approval].tool = c.tool
    <3> DEFINE r == [tool |-> c.tool, status |-> "pending"]
    <3>1. r.tool = c.tool OBVIOUS
    <3>2. r \in Row BY <2>2 DEF Row
    <3>3. approvals \in Seq(Row) BY DEF Shape
    <3>4. approvals' = Append(approvals, r) BY <2>1
    <3> HIDE DEF r
    <3> QED BY <2>1, <3>1, <3>2, <3>3, <3>4
  <2>4. \A e \in effects : e.approval # c.approval BY <1>4, <1>6, <1>7, <2>1
  <2>5. GateOf(i)' BY <1>2, <2>1, <2>2, <2>3, <2>4 DEF GateOf
  <2>6. \A j \in DOMAIN calls' : GateOf(j)' BY <1>2, <1>o, <2>1, <2>5
  <2>7. \A j, k \in DOMAIN calls' :
            j # k /\ calls'[j].approval # 0 => calls'[k].approval # calls'[j].approval
    BY <1>2, <1>4, <1>6, <1>7, <2>1
  <2>8. \A e \in effects' : /\ e.approval =< Len(approvals')
                            /\ e.tool \notin ConfirmTools => e.approval = 0
    BY <1>3, <1>4, <1>6, <1>7, <2>1 DEF Kept
  <2>9. GateHolds' BY <1>3, <1>4, <2>1, GateHoldsKept
  <2> QED BY <2>6, <2>7, <2>8, <2>9 DEF GateInv
<1>13. CASE Runs(i, c)
  <2> DEFINE x == Effect(i)
  <2>1. /\ calls[i].st = "cleared" /\ c.st = "done" /\ c.approval = calls[i].approval
        /\ effects' = effects \cup {x} /\ approvals' = approvals
    BY <1>13 DEF Runs
  <2>2. x.tool = calls[i].tool /\ x.approval = calls[i].approval BY DEF Effect
  <2> HIDE DEF x
  <2>3. GateOf(i)' BY <1>2, <1>4, <2>1 DEF GateOf
  <2>4. ASSUME NEW j \in DOMAIN calls \ {i} PROVE GateOf(j)'
    <3>1. calls'[j] = calls[j] /\ GateOf(j) BY <1>2, <1>4
    <3>2. calls[j].approval # 0 => x.approval # calls[j].approval BY <1>4, <2>2
    <3> QED BY <2>1, <3>1, <3>2 DEF GateOf
  <2>5. \A j \in DOMAIN calls' : GateOf(j)' BY <1>2, <2>3, <2>4
  <2>6. \A j, k \in DOMAIN calls' :
            j # k /\ calls'[j].approval # 0 => calls'[k].approval # calls'[j].approval
    BY <1>2, <1>4, <2>1
  <2>7. \A e \in effects' : /\ e.approval =< Len(approvals')
                            /\ e.tool \notin ConfirmTools => e.approval = 0
    BY <1>4, <1>7, <2>1, <2>2 DEF GateOf
  <2>8. x.tool \in ConfirmTools =>
            /\ x.approval \in DOMAIN approvals /\ x.approval # 0
            /\ approvals[x.approval] = [tool |-> x.tool, status |-> "approved"]
    <3> SUFFICES ASSUME x.tool \in ConfirmTools
                 PROVE  /\ x.approval \in DOMAIN approvals /\ x.approval # 0
                        /\ approvals[x.approval] = [tool |-> x.tool, status |-> "approved"]
      OBVIOUS
    <3>1. /\ x.approval \in DOMAIN approvals /\ approvals[x.approval].tool = x.tool
          /\ approvals[x.approval].status = "approved"
      BY <1>4, <2>1, <2>2 DEF GateOf
    <3>2. approvals \in Seq(Row) BY DEF Shape
    <3>3. \A r \in Row : r = [tool |-> r.tool, status |-> r.status] BY DEF Row
    <3> QED BY <3>1, <3>2, <3>3
  <2>9. x.approval # 0 => \A e \in effects : e.approval # x.approval
    BY <1>4, <2>1, <2>2 DEF GateOf
  <2>10. GateHolds'
    <3>1. ASSUME NEW e \in effects', e.tool \in ConfirmTools
          PROVE  /\ e.approval \in DOMAIN approvals /\ e.approval # 0
                 /\ approvals[e.approval] = [tool |-> e.tool, status |-> "approved"]
      <4>1. CASE e = x BY <2>8, <3>1, <4>1
      <4>2. CASE e \in effects
        <5>1. approvals \in Seq(Row) BY DEF Shape
        <5>2. 0 \notin DOMAIN approvals BY <5>1
        <5> QED BY <1>4, <3>1, <4>2, <5>2 DEF GateHolds
      <4> QED BY <2>1, <4>1, <4>2
    <3>2. ASSUME NEW e \in effects', e.tool \in ConfirmTools, NEW f \in effects',
                 f.approval = e.approval
          PROVE  f = e
      BY <1>4, <2>1, <2>9, <3>1, <3>2 DEF GateHolds
    <3> QED BY <2>1, <3>1, <3>2 DEF GateHolds
  <2> QED BY <2>5, <2>6, <2>7, <2>10 DEF GateInv
<1> QED BY <1>1, <1>8, <1>9, <1>10, <1>11, <1>12, <1>13 DEF Kind

\* The gate holds through every step.
LEMMA StepGate == ASSUME Shape, GateInv, [Next]_vars PROVE GateInv'
<1>1. Kept BY StepKept
<1>2. CASE \E i \in DOMAIN calls : CallStep(i) BY <1>2, CallGate
<1>3. CASE effects' = effects /\ (calls' = calls \/ calls' = <<>> \/ NewTurn)
  <2>1. \A j \in DOMAIN calls' : GateOf(j)'
    <3>1. CASE calls' = calls BY <1>1, <1>3, <3>1 DEF GateInv, GateOf, Kept
    <3>2. CASE calls' = <<>> BY <3>2
    <3>3. CASE NewTurn BY <3>3 DEF NewTurn, GateOf
    <3> QED BY <1>3, <3>1, <3>2, <3>3
  <2>2. \A j, k \in DOMAIN calls' :
            j # k /\ calls'[j].approval # 0 => calls'[k].approval # calls'[j].approval
    BY <1>3 DEF GateInv, NewTurn
  <2>3. \A e \in effects' : /\ e.approval =< Len(approvals')
                            /\ e.tool \notin ConfirmTools => e.approval = 0
    <3>1. \A e \in effects : e.approval \in Nat BY DEF Shape, Ran
    <3>2. Len(approvals) \in Nat /\ Len(approvals') \in Nat /\ Len(approvals) =< Len(approvals')
      BY <1>1 DEF Shape, Kept
    <3> QED BY <1>3, <3>1, <3>2 DEF GateInv
  <2>4. GateHolds' BY <1>1, <1>3, GateHoldsKept DEF GateInv
  <2> QED BY <2>1, <2>2, <2>3, <2>4 DEF GateInv
<1> QED BY <1>2, <1>3, StepKinds

-----------------------------------------------------------------------------
(* The limits.                                                             *)

\* What a step that is not a tool call's leaves of an attempt that goes on.
LEMMA StepPlaces ==
    ASSUME Shape, [Next]_vars, pc' # "off", ~ StartAttempt,
           ~ \E i \in DOMAIN calls : CallStep(i)
    PROVE  /\ UNCHANGED <<attempt, tool_call_counts, effects>> /\ pc # "off"
           /\ \/ calls' = calls /\ step' = step
              \/ calls' = <<>> /\ step' = step + 1
              \/ NewTurn /\ step' = step
<1>1. CASE AgentStart \/ StatementRaises \/ ProviderRaises
        \/ StopLate \/ StopCancelled \/ StopCapped
  BY <1>1 DEF AgentStart, Exhausted, StatementRaises, ProviderRaises, StopLate, StopCancelled,
              StopCapped, AtTop, Fail, history, memVars
<1>2. CASE PassTop \/ CallModel \/ ModelEndsTurn \/ TurnReturns \/ TurnGoesOn
  BY <1>2 DEF PassTop, AtTop, CallModel, ModelEndsTurn, TurnReturns, TurnGoesOn, TurnDone,
         history, memVars
<1>3. CASE Save \/ SaveFails
  BY <1>3 DEF Save, SaveFails, NextStep
<1>4. CASE Crash BY <1>4 DEF Crash
<1>5. CASE UNCHANGED vars BY <1>5 DEF vars, memVars, history
<1>6. ASSUME NEW a \in DOMAIN approvals, NEW d \in {"approved", "denied"}, Decide(a, d)
      PROVE  UNCHANGED <<attempt, tool_call_counts, effects, calls, step, pc>>
  BY <1>6 DEF Decide, history, memVars
<1>7. CASE Cancel BY <1>7 DEF Cancel, history, memVars
<1>8. CASE ModelAsksForTools
  <2>1. pc = "model" /\ UNCHANGED <<attempt, tool_call_counts, effects, step>>
    BY <1>8 DEF ModelAsksForTools, history
  <2>2. calls' = calls \/ calls' = <<>> \/ NewTurn BY StepKinds
  <2>3. calls = <<>> BY <2>1 DEF Shape
  <2> QED BY <2>1, <2>2, <2>3
<1> QED BY <1>1, <1>2, <1>3, <1>4, <1>5, <1>6, <1>7, <1>8 DEF Next, LoopStep

\* A smaller set of slots is within the bounds the larger one was in.
LEMMA FewerSlots ==
    ASSUME NEW S, IsFiniteSet(S), NEW T, T \subseteq S, NEW n \in Nat, Cardinality(S) =< n
    PROVE  IsFiniteSet(T) /\ Cardinality(T) =< n
<1>1. IsFiniteSet(T) /\ Cardinality(T) =< Cardinality(S) BY FS_Subset
<1>2. Cardinality(T) \in Nat /\ Cardinality(S) \in Nat BY <1>1, FS_CardinalityType
<1> QED BY <1>1, <1>2

\* One slot more needs one more.
LEMMA OneMoreSlot ==
    ASSUME NEW S, IsFiniteSet(S), NEW y, NEW T, T \subseteq S \cup {y},
           NEW n \in Nat, Cardinality(S) =< n
    PROVE  IsFiniteSet(T) /\ Cardinality(T) =< n + 1
<1>1. IsFiniteSet(S \cup {y}) /\ Cardinality(S \cup {y}) =< Cardinality(S) + 1
  <2>1. Cardinality(S) \in Nat BY FS_CardinalityType
  <2>2. CASE y \in S
    <3>1. S \cup {y} = S BY <2>2
    <3> QED BY <2>1, <3>1
  <2>3. CASE y \notin S BY <2>1, <2>3, FS_AddElement
  <2> QED BY <2>2, <2>3
<1>2. Cardinality(S) \in Nat /\ Cardinality(S \cup {y}) \in Nat BY <1>1, FS_CardinalityType
<1>3. Cardinality(S \cup {y}) =< n + 1 BY <1>1, <1>2
<1> QED BY <1>1, <1>3, FewerSlots

\* A slot that changes its row is still one slot.
LEMMA OtherSlot ==
    ASSUME NEW S, IsFiniteSet(S), NEW x \in S, NEW y, NEW T, T \subseteq (S \ {x}) \cup {y},
           NEW n \in Nat, Cardinality(S) =< n
    PROVE  IsFiniteSet(T) /\ Cardinality(T) =< n
<1>1. IsFiniteSet(S \ {x}) /\ Cardinality(S \ {x}) = Cardinality(S) - 1
  BY FS_RemoveElement
<1>2. Cardinality(S) \in Nat /\ Cardinality(S \ {x}) \in Nat BY <1>1, FS_CardinalityType
<1>3. Cardinality(S \ {x}) =< n - 1 /\ n - 1 \in Nat BY <1>1, <1>2
<1>4. IsFiniteSet(T) /\ Cardinality(T) =< (n - 1) + 1 BY <1>1, <1>3, OneMoreSlot
<1> QED BY <1>4

\* The limits hold for every attempt when they hold for the one that runs.
LEMMA LimitsFromSlots ==
    ASSUME Shape, LimitsHold, attempt' = attempt,
           \A e \in effects' : e \in effects \/ e.attempt = attempt,
           effects \subseteq effects',
           \A t \in Tools : /\ IsFiniteSet(Slots(t)') /\ Cardinality(Slots(t)') =< ToolLimit[t]
    PROVE  LimitsHold'
<1> SUFFICES ASSUME NEW a \in 1 .. attempt, NEW t \in Tools
             PROVE  Cardinality({e \in effects' : e.attempt = a /\ e.tool = t}) =< ToolLimit[t]
  BY DEF LimitsHold
<1>1. CASE a = attempt
  <2> DEFINE T == {e \in effects' : e.attempt = a /\ e.tool = t}
  <2>1. T \subseteq Slots(t)' BY <1>1 DEF Slots
  <2>2. ToolLimit[t] \in Nat BY LoopAssumption
  <2>3. IsFiniteSet(Slots(t)') /\ Cardinality(Slots(t)') =< ToolLimit[t] OBVIOUS
  <2> HIDE DEF T
  <2>4. Cardinality(T) =< ToolLimit[t] BY <2>1, <2>2, <2>3, FewerSlots
  <2> QED BY <2>4 DEF T
<1>2. CASE a # attempt
  <2>1. {e \in effects' : e.attempt = a /\ e.tool = t} = {e \in effects : e.attempt = a /\ e.tool = t}
    BY <1>2
  <2> QED BY <2>1 DEF LimitsHold
<1> QED BY <1>1, <1>2

\* The limits hold through everything a call may do.
LEMMA CallLimit ==
    ASSUME Shape, LimitInv, NEW i \in DOMAIN calls, CallStep(i)
    PROVE  LimitInv'
<1>1. PICK c \in Call : Moves(i, c) /\ Kind(i, c) /\ CallOK(c, Len(approvals'))
  BY CallKinds
<1>2. /\ DOMAIN calls' = DOMAIN calls
      /\ calls'[i] = c /\ \A j \in DOMAIN calls \ {i} : calls'[j] = calls[j]
      /\ c.tool = calls[i].tool /\ calls[i].st # "done"
      /\ UNCHANGED <<attempt, step, pc>> /\ pc # "off"
  BY <1>1, OthersStay DEF Moves
<1>3. /\ \A e \in effects : e.attempt =< attempt
      /\ \A e \in effects : e.attempt = attempt => Placed(e)
      /\ \A t \in Tools : /\ IsFiniteSet(Slots(t))
                          /\ Cardinality(Slots(t)) =< tool_call_counts[t]
                          /\ Cardinality(Slots(t)) =< ToolLimit[t]
      /\ LimitsHold
  BY <1>2 DEF LimitInv
<1> DEFINE x == Effect(i)
           y == [attempt |-> attempt, step |-> step, call |-> i, tool |-> c.tool,
                 approval |-> c.approval]
<1>4. x.attempt = attempt /\ x.step = step /\ x.call = i /\ x.tool = c.tool
      /\ x.approval = calls[i].approval
  BY <1>2 DEF Effect
<1>5. Effect(i)' = y /\ \A j \in DOMAIN calls \ {i} : Effect(j)' = Effect(j)
  BY <1>2 DEF Effect
<1>6. c.approval = calls[i].approval => y = x BY <1>2 DEF Effect
<1>7. effects' = effects \/ effects' = effects \cup {x}
  BY <1>1 DEF Kind, Closes, Starts, Asks, Passes, WaitsOn, Runs
<1>8. x \notin effects
  <2>1. ~ Placed(x) BY <1>2, <1>4, Counters DEF Placed
  <2> QED BY <1>3, <1>4, <2>1
<1> HIDE DEF x, y
<1>9. \A e \in effects' : e.attempt =< attempt
  BY <1>3, <1>4, <1>7, Counters
<1>10. \A e \in effects' : e.attempt = attempt => Placed(e)'
  <2>1. ASSUME NEW e \in effects, e.attempt = attempt PROVE Placed(e)'
    BY <1>2, <1>3, <2>1 DEF Placed
  <2>2. CASE effects' = effects BY <2>1, <2>2
  <2>3. CASE effects' # effects
    <3>1. c.st = "done" /\ effects' = effects \cup {x}
      BY <1>1, <2>3 DEF Kind, Closes, Starts, Asks, Passes, WaitsOn, Runs, x
    <3>2. ASSUME NEW e, e = x PROVE Placed(e)' BY <1>2, <1>4, <3>1, <3>2 DEF Placed
    <3>3. ASSUME NEW e \in effects', e.attempt = attempt PROVE Placed(e)'
      <4>1. CASE e \in effects BY <2>1, <3>3, <4>1
      <4>2. CASE e = x BY <3>2, <4>2
      <4> QED BY <3>1, <3>3, <4>1, <4>2
    <3> QED BY <3>3
  <2> QED BY <2>2, <2>3
<1>11. \A t \in Tools : tool_call_counts[t] \in Nat /\ ToolLimit[t] \in Nat
  BY LoopAssumption DEF Shape, TypeOK
<1>12. calls[i].st \in Going => \A t \in Tools : t = c.tool => x \in Slots(t)
  BY <1>2 DEF Slots, x
\* Whatever call i is now, the slots of the others are what they were.
<1>13. ASSUME NEW t \in Tools
       PROVE  /\ c.st \notin Going /\ effects' = effects => Slots(t)' \subseteq Slots(t)
              /\ t # c.tool => Slots(t)' \subseteq Slots(t)
              /\ effects' = effects => Slots(t)' \subseteq (Slots(t) \cup {y})
  <2>1. ASSUME NEW e \in Slots(t)'
        PROVE  \/ e \in Slots(t)
               \/ e \in effects' \ effects /\ e = x /\ t = c.tool
               \/ e = y /\ c.st \in Going /\ t = c.tool
    <3>1. CASE e \in effects' /\ e.attempt = attempt /\ e.tool = t
      BY <1>4, <1>7, <3>1 DEF Slots
    <3>2. CASE \E j \in DOMAIN calls' : /\ calls'[j].st \in Going /\ calls'[j].tool = t
                                        /\ e = Effect(j)'
      <4>1. PICK j \in DOMAIN calls' : /\ calls'[j].st \in Going /\ calls'[j].tool = t
                                       /\ e = Effect(j)'
        BY <3>2
      <4>2. CASE j = i BY <1>2, <1>5, <4>1, <4>2
      <4>3. CASE j # i
        <5>1. j \in DOMAIN calls /\ calls[j].st \in Going /\ calls[j].tool = t /\ e = Effect(j)
          BY <1>2, <1>5, <4>1, <4>3
        <5> QED BY <5>1 DEF Slots
      <4> QED BY <4>2, <4>3
    <3> QED BY <1>2, <2>1, <3>1, <3>2 DEF Slots
  <2> QED BY <2>1
<1>14. ASSUME NEW t \in Tools
       PROVE  /\ IsFiniteSet(Slots(t)') /\ Cardinality(Slots(t)') =< tool_call_counts'[t]
              /\ Cardinality(Slots(t)') =< ToolLimit[t]
  <2>1. CASE Closes(i, c)
    <3>1. Slots(t)' \subseteq Slots(t) BY <1>13, <2>1 DEF Closes, Going
    <3>2. IsFiniteSet(Slots(t)') /\ Cardinality(Slots(t)') =< tool_call_counts[t]
          /\ Cardinality(Slots(t)') =< ToolLimit[t]
      BY <1>3, <1>11, <3>1, FewerSlots
    <3>3. tool_call_counts'[t] \in Nat /\ tool_call_counts[t] =< tool_call_counts'[t]
      BY <2>1 DEF Closes, CountsGrow
    <3>4. Cardinality(Slots(t)') \in Nat BY <3>2, FS_CardinalityType
    <3> QED BY <1>11, <3>2, <3>3, <3>4
  <2>2. CASE Starts(i, c) /\ t # c.tool
    <3>1. Slots(t)' \subseteq Slots(t) /\ tool_call_counts'[t] = tool_call_counts[t]
      BY <1>13, <2>2 DEF Starts, Count, Shape, TypeOK
    <3> QED BY <1>3, <1>11, <3>1, FewerSlots
  <2>3. CASE Starts(i, c) /\ t = c.tool
    <3>1. Slots(t)' \subseteq Slots(t) \cup {y} BY <1>13, <2>3 DEF Starts
    <3>2. IsFiniteSet(Slots(t)') /\ Cardinality(Slots(t)') =< tool_call_counts[t] + 1
      BY <1>3, <1>11, <3>1, OneMoreSlot
    <3>3. tool_call_counts \in [Tools -> Nat] BY DEF Shape, TypeOK
    <3>4. tool_call_counts'[t] = tool_call_counts[t] + 1
          /\ tool_call_counts[t] + 1 =< ToolLimit[t]
      BY <1>11, <2>3, <3>3 DEF Starts, Count, OverLimit
    <3>5. Cardinality(Slots(t)') \in Nat BY <3>2, FS_CardinalityType
    <3> QED BY <1>11, <3>2, <3>4, <3>5
  <2>4. CASE Asks(i, c)
    <3>1. calls[i].st \in Going /\ tool_call_counts' = tool_call_counts /\ effects' = effects
      BY <2>4 DEF Asks, Going
    <3>2. CASE t # c.tool
      <4>1. Slots(t)' \subseteq Slots(t) BY <1>13, <3>2
      <4> QED BY <1>3, <1>11, <3>1, <4>1, FewerSlots
    <3>3. CASE t = c.tool
      <4>1. x \in Slots(t) BY <1>12, <3>1, <3>3
      <4>2. x \in Slots(t)' => x = y
        <5>1. ASSUME NEW j \in DOMAIN calls', x = Effect(j)' PROVE j = i
          BY <1>4, <5>1 DEF Effect
        <5> QED BY <1>5, <1>8, <3>1, <5>1 DEF Slots
      <4>3. Slots(t)' \subseteq (Slots(t) \ {x}) \cup {y} BY <1>13, <3>1, <4>2
      <4> QED BY <1>3, <1>11, <3>1, <4>1, <4>3, OtherSlot
    <3> QED BY <3>2, <3>3
  <2>5. CASE Passes(i, c) \/ WaitsOn(i, c)
    <3>1. calls[i].st \in Going /\ tool_call_counts' = tool_call_counts
          /\ effects' = effects /\ y = x
      BY <1>6, <2>5 DEF Passes, WaitsOn, Going
    <3>2. Slots(t)' \subseteq Slots(t) BY <1>12, <1>13, <3>1
    <3> QED BY <1>3, <1>11, <3>1, <3>2, FewerSlots
  <2>6. CASE Runs(i, c)
    <3>1. calls[i].st \in Going /\ tool_call_counts' = tool_call_counts /\ y = x
      BY <1>6, <2>6 DEF Runs, Going
    <3>2. Slots(t)' \subseteq Slots(t)
      <4>1. CASE t # c.tool BY <1>13, <4>1
      <4>2. CASE t = c.tool
        <5>1. x \in Slots(t) BY <1>12, <3>1, <4>2
        <5>2. ASSUME NEW e \in Slots(t)' PROVE e \in Slots(t) \cup {x}
          <6>1. CASE e \in effects' /\ e.attempt = attempt /\ e.tool = t
            BY <1>7, <6>1 DEF Slots
          <6>2. CASE \E j \in DOMAIN calls' : /\ calls'[j].st \in Going /\ calls'[j].tool = t
                                              /\ e = Effect(j)'
            <7>1. PICK j \in DOMAIN calls' : /\ calls'[j].st \in Going /\ calls'[j].tool = t
                                             /\ e = Effect(j)'
              BY <6>2
            <7>2. CASE j = i BY <1>5, <3>1, <7>1, <7>2
            <7>3. CASE j # i
              <8>1. j \in DOMAIN calls /\ calls[j].st \in Going /\ calls[j].tool = t
                    /\ e = Effect(j)
                BY <1>2, <1>5, <7>1, <7>3
              <8> QED BY <8>1 DEF Slots
            <7> QED BY <7>2, <7>3
          <6> QED BY <1>2, <5>2, <6>1, <6>2 DEF Slots
        <5> QED BY <5>1, <5>2
      <4> QED BY <4>1, <4>2
    <3> QED BY <1>3, <1>11, <3>1, <3>2, FewerSlots
  <2> QED BY <1>1, <2>1, <2>2, <2>3, <2>4, <2>5, <2>6 DEF Kind
<1>15. LimitsHold'
  <2>1. \A e \in effects' : e \in effects \/ e.attempt = attempt BY <1>4, <1>7
  <2> QED BY <1>2, <1>3, <1>7, <1>14, <2>1, LimitsFromSlots
<1> QED BY <1>2, <1>9, <1>10, <1>14, <1>15 DEF LimitInv

\* The limits hold through every step.
LEMMA StepLimit == ASSUME Shape, LimitInv, [Next]_vars PROVE LimitInv'
<1>1. CASE \E i \in DOMAIN calls : CallStep(i) BY <1>1, CallLimit
<1>2. CASE StartAttempt
  <2>1. /\ attempt' = attempt + 1 /\ effects' = effects /\ calls' = calls /\ calls = <<>>
        /\ tool_call_counts' = [t \in Tools |-> 0]
    BY <1>2 DEF StartAttempt, FreshCounters, history, Shape
  <2>2. attempt \in Nat /\ \A e \in effects : e.attempt \in Nat /\ e.attempt =< attempt
    BY Counters DEF LimitInv, Shape, Ran
  <2>3. \A e \in effects' : e.attempt =< attempt' /\ e.attempt # attempt' BY <2>1, <2>2
  <2>4. \A t \in Tools : Slots(t)' = {} BY <2>1, <2>3 DEF Slots
  <2>l. \A t \in Tools : 0 =< ToolLimit[t]
    <3>1. ToolLimit \in [Tools -> Nat] BY LoopAssumption
    <3> QED BY <3>1
  <2>5. \A t \in Tools : /\ IsFiniteSet(Slots(t)')
                         /\ Cardinality(Slots(t)') =< tool_call_counts'[t]
                         /\ Cardinality(Slots(t)') =< ToolLimit[t]
    <3>1. \A t \in Tools : tool_call_counts'[t] = 0 BY <2>1
    <3>2. IsFiniteSet({}) /\ Cardinality({}) = 0 BY FS_EmptySet
    <3> QED BY <2>4, <2>l, <3>1, <3>2
  <2>6. LimitsHold'
    <3> SUFFICES ASSUME NEW a \in 1 .. attempt + 1, NEW t \in Tools
                 PROVE  Cardinality({e \in effects : e.attempt = a /\ e.tool = t}) =< ToolLimit[t]
      BY <2>1 DEF LimitsHold
    <3>1. CASE a \in 1 .. attempt BY <3>1 DEF LimitInv, LimitsHold
    <3>2. CASE a = attempt + 1
      <4>1. {e \in effects : e.attempt = a /\ e.tool = t} = {} BY <2>2, <3>2
      <4> QED BY <2>l, <4>1, FS_EmptySet
    <3> QED BY <2>2, <3>1, <3>2
  <2> QED BY <2>3, <2>5, <2>6 DEF LimitInv
<1>3. CASE pc' = "off" /\ ~ \E i \in DOMAIN calls : CallStep(i)
  <2>1. effects' = effects BY <1>3, StepKinds
  <2>2. attempt' = attempt
    BY <1>3 DEF Next, LoopStep, StartAttempt, AgentStart, Exhausted, StatementRaises, ProviderRaises,
            StopLate,
         StopCancelled, StopCapped, Fail, PassTop, CallModel, ModelAsksForTools, ModelEndsTurn,
         TurnReturns, TurnGoesOn, Save, SaveFails, NextStep, Cancel, Crash, Decide, vars
  <2> QED BY <1>3, <2>1, <2>2 DEF LimitInv, LimitsHold
<1>4. CASE pc' # "off" /\ ~ StartAttempt /\ ~ \E i \in DOMAIN calls : CallStep(i)
  <2>1. /\ UNCHANGED <<attempt, tool_call_counts, effects>> /\ pc # "off"
        /\ \/ calls' = calls /\ step' = step
           \/ calls' = <<>> /\ step' = step + 1
           \/ NewTurn /\ step' = step
    BY <1>4, StepPlaces
  <2>2. /\ \A e \in effects : e.attempt =< attempt
        /\ \A e \in effects : e.attempt = attempt => Placed(e)
        /\ \A t \in Tools : /\ IsFiniteSet(Slots(t))
                            /\ Cardinality(Slots(t)) =< tool_call_counts[t]
                            /\ Cardinality(Slots(t)) =< ToolLimit[t]
        /\ LimitsHold
    BY <2>1 DEF LimitInv
  <2>3. step \in Nat /\ \A e \in effects : e.step \in Nat BY Counters DEF Shape, Ran
  <2>4. ASSUME NEW e \in effects', e.attempt = attempt' PROVE Placed(e)'
    <3>1. e \in effects /\ Placed(e) BY <2>1, <2>2, <2>4
    <3> QED BY <2>1, <2>3, <3>1 DEF Placed, NewTurn
  <2>5. ASSUME NEW t \in Tools PROVE Slots(t)' \subseteq Slots(t)
    BY <2>1 DEF Slots, Effect, NewTurn, Going
  <2>6. \A t \in Tools : tool_call_counts[t] \in Nat /\ ToolLimit[t] \in Nat
    BY LoopAssumption DEF Shape, TypeOK
  <2>7. ASSUME NEW t \in Tools
        PROVE  /\ IsFiniteSet(Slots(t)') /\ Cardinality(Slots(t)') =< tool_call_counts'[t]
               /\ Cardinality(Slots(t)') =< ToolLimit[t]
    BY <2>1, <2>2, <2>5, <2>6, FewerSlots
  <2>8. LimitsHold' BY <2>1, <2>2 DEF LimitsHold
  <2> QED BY <2>1, <2>2, <2>4, <2>7, <2>8 DEF LimitInv
<1> QED BY <1>1, <1>2, <1>3, <1>4

\* Every tool call that ran was permitted: each gated one by an approval of its
\* own, and no attempt ran a tool more often than its limit, for every set of
\* tools, every way the calls overlap and every crash, timeout and late decision.
THEOREM CallsPermitted == Spec => []CallsArePermitted
<1>1. Init => GateInv /\ LimitInv
  <2> SUFFICES ASSUME Init PROVE GateInv /\ LimitInv OBVIOUS
  <2>1. effects = {} /\ DOMAIN calls = {} /\ pc = "off" /\ 1 .. attempt = {}
    <3>1. DOMAIN <<>> = {} /\ 1 .. 0 = {} OBVIOUS
    <3> QED BY <3>1 DEF Init
  <2>2. GateInv BY <2>1 DEF GateInv, GateHolds
  <2>3. LimitInv BY <2>1 DEF LimitInv, LimitsHold
  <2> QED BY <2>2, <2>3
<1>2. Shape /\ (GateInv /\ LimitInv) /\ [Next]_vars => (GateInv /\ LimitInv)'
  BY StepGate, StepLimit
<1>3. Spec => [](Shape /\ GateInv /\ LimitInv)
  BY <1>1, <1>2, InitShape, StepShape, PTL DEF Spec
<1>4. Shape /\ GateInv /\ LimitInv => CallsArePermitted
  BY DEF GateInv, LimitInv, CallsArePermitted
<1> QED BY <1>3, <1>4, PTL

-----------------------------------------------------------------------------
(* Reruns.                                                                 *)

\* What the other steps leave of where the attempt stands.
LEMMA Steady ==
    ASSUME Shape, RerunInv, UNCHANGED <<checkpoint, step, unsaved, effects>>,
           attempt' \in {attempt, attempt + 1}, GoingOn' => GoingOn
    PROVE  RerunInv'
<1>1. attempt \in Nat /\ \A e \in effects : e.attempt \in Nat BY Counters DEF Shape, Ran
<1>2. \A e \in effects' : e.attempt =< attempt' BY <1>1 DEF RerunInv
<1> QED BY <1>2 DEF RerunInv, OnlyStepInFlightReruns

\* A step of the run leaves what it stands at, moves it on past its checkpoint, or
\* starts an attempt there.
LEMMA StepRerun == ASSUME Shape, RerunInv, [Next]_vars PROVE RerunInv'
<1>0. /\ attempt \in Nat /\ step \in Nat /\ checkpoint.step \in Nat
      /\ \A e \in effects : e.attempt \in Nat /\ e.step \in Nat
  BY Counters DEF Shape, Ran
<1>1. ASSUME NEW i \in DOMAIN calls, CallStep(i) PROVE RerunInv'
  <2>1. PICK c \in Call : Moves(i, c) /\ Kind(i, c) BY <1>1, CallKinds
  <2>2. UNCHANGED <<checkpoint, step, unsaved, attempt, pc>> /\ pc = "dispatch"
    BY <2>1 DEF Moves
  <2> DEFINE x == Effect(i)
  <2>3. effects' = effects \/ effects' = effects \cup {x}
    BY <2>1 DEF Kind, Closes, Starts, Asks, Passes, WaitsOn, Runs
  <2>4. x.attempt = attempt /\ x.step = step BY DEF Effect
  <2> HIDE DEF x
  <2>5. /\ checkpoint.step =< step
        /\ \A s \in Nat : s < step /\ s \notin unsaved => s < checkpoint.step
    BY <2>2 DEF RerunInv, GoingOn
  <2>6. GoingOn' => /\ checkpoint'.step =< step'
                    /\ \A s \in Nat : s < step' /\ s \notin unsaved' => s < checkpoint'.step
    BY <2>2, <2>5
  <2>7. \A e \in effects' : e.attempt =< attempt' BY <1>0, <2>2, <2>3, <2>4 DEF RerunInv
  <2>8. \A e \in effects' : \A s \in Nat :
            s < e.step /\ s \notin unsaved' => s < checkpoint'.step
    BY <2>2, <2>3, <2>4, <2>5 DEF RerunInv
  <2>9. ASSUME NEW e \in effects', NEW f \in effects', e.attempt < f.attempt, f.step < e.step
        PROVE  f.step \in unsaved'
    <3>1. CASE e \in effects /\ f \in effects
      BY <2>2, <2>9, <3>1 DEF RerunInv, OnlyStepInFlightReruns
    <3>2. CASE e \in effects /\ f = x
      BY <1>0, <2>2, <2>4, <2>5, <2>9, <3>2 DEF RerunInv
    <3>3. CASE e = x
      <4>1. f.attempt =< attempt BY <2>2, <2>7
      <4>2. f.attempt \in Nat BY <1>0, <2>3, <2>4
      <4> QED BY <1>0, <2>4, <2>9, <3>3, <4>1, <4>2
    <3> QED BY <2>3, <2>9, <3>1, <3>2, <3>3
  <2> QED BY <2>6, <2>7, <2>8, <2>9 DEF RerunInv, OnlyStepInFlightReruns
<1>2. CASE Save \/ SaveFails
  <2>1. /\ pc = "saving" /\ step' = step + 1 /\ effects' = effects /\ attempt' = attempt
        /\ unsaved' \in {unsaved, unsaved \cup {step}}
        /\ \/ checkpoint'.step = step + 1
           \/ checkpoint' = checkpoint /\ unsaved' = unsaved \cup {step}
    <3>1. CASE Save BY <3>1 DEF Save, NextStep
    <3>2. CASE SaveFails BY <3>2 DEF SaveFails, NextStep
    <3> QED BY <1>2, <3>1, <3>2
  <2>2. /\ checkpoint.step =< step
        /\ \A s \in Nat : s < step /\ s \notin unsaved => s < checkpoint.step
    BY <2>1 DEF RerunInv, GoingOn
  <2>3. checkpoint'.step =< step' /\ checkpoint.step =< checkpoint'.step
    BY <1>0, <2>1, <2>2
  <2>4. \A s \in Nat : s < step' /\ s \notin unsaved' => s < checkpoint'.step
    BY <1>0, <2>1, <2>2
  <2>5. \A e \in effects' : \A s \in Nat :
            s < e.step /\ s \notin unsaved' => s < checkpoint'.step
    <3>1. checkpoint'.step \in Nat BY <1>0, <2>1
    <3> QED BY <1>0, <2>1, <2>3, <3>1 DEF RerunInv
  <2> QED BY <2>1, <2>3, <2>4, <2>5 DEF RerunInv, OnlyStepInFlightReruns
<1>3. CASE StartAttempt
  <2>1. /\ UNCHANGED <<checkpoint, unsaved, effects>> /\ attempt' = attempt + 1
        /\ pc' = "loaded" /\ (aborted' = FALSE => step' = checkpoint.step)
    BY <1>3 DEF StartAttempt, Resume, LoadFails, dbVars, history
  <2>2. GoingOn' => /\ checkpoint'.step =< step'
                    /\ \A s \in Nat : s < step' /\ s \notin unsaved' => s < checkpoint'.step
    <3>1. GoingOn' => aborted' # TRUE BY <2>1 DEF GoingOn
    <3>2. aborted' \in BOOLEAN BY StepShape DEF Shape, TypeOK
    <3>3. GoingOn' => step' = checkpoint.step BY <2>1, <3>1, <3>2, Zenon
    <3> QED BY <1>0, <2>1, <3>3
  <2>3. \A e \in effects' : e.attempt =< attempt' BY <1>0, <2>1 DEF RerunInv
  <2> QED BY <2>1, <2>2, <2>3 DEF RerunInv, OnlyStepInFlightReruns
<1>4. CASE AgentStart \/ StatementRaises \/ ProviderRaises
        \/ StopLate \/ StopCancelled \/ StopCapped
  <2>1. /\ UNCHANGED <<checkpoint, step, unsaved, effects, attempt>>
        /\ GoingOn' => GoingOn
    BY <1>4 DEF AgentStart, Exhausted, StatementRaises, ProviderRaises, StopLate, StopCancelled,
              StopCapped, AtTop, Fail, history, memVars, dbVars, GoingOn
  <2> QED BY <2>1, Steady
<1>5. CASE PassTop \/ CallModel \/ ModelAsksForTools \/ ModelEndsTurn \/ TurnReturns
           \/ TurnGoesOn
  <2>1. /\ UNCHANGED <<checkpoint, step, unsaved, effects, attempt>>
        /\ GoingOn' => GoingOn
    BY <1>5 DEF PassTop, AtTop, CallModel, ModelAsksForTools, ModelEndsTurn, TurnReturns,
           TurnGoesOn, TurnDone, history, memVars, dbVars, GoingOn
  <2> QED BY <2>1, Steady
<1>6. CASE Cancel \/ Crash \/ UNCHANGED vars
  <2>1. UNCHANGED <<checkpoint, unsaved, effects, attempt>>
    BY <1>6 DEF Cancel, Crash, vars, history, memVars, dbVars
  <2>2. CASE Crash
    <3>1. ~ GoingOn' BY <2>2 DEF Crash, GoingOn
    <3> QED BY <2>1, <3>1 DEF RerunInv, OnlyStepInFlightReruns
  <2>3. CASE Cancel \/ UNCHANGED vars
    <3>1. UNCHANGED step /\ (GoingOn' => GoingOn)
      BY <2>3 DEF Cancel, vars, memVars, GoingOn
    <3> QED BY <2>1, <3>1, Steady
  <2> QED BY <1>6, <2>2, <2>3
<1>7. ASSUME NEW a \in DOMAIN approvals, NEW d \in {"approved", "denied"}, Decide(a, d)
      PROVE  RerunInv'
  <2>1. /\ UNCHANGED <<checkpoint, step, unsaved, effects, attempt>>
        /\ GoingOn' => GoingOn
    BY <1>7 DEF Decide, history, memVars, GoingOn
  <2> QED BY <2>1, Steady
<1> QED BY <1>1, <1>2, <1>3, <1>4, <1>5, <1>6, <1>7 DEF Next, LoopStep

\* At most the step in flight is run again, however many attempts a job takes:
\* an earlier step runs twice only if its checkpoint could not be written.
THEOREM RerunsBounded == Spec => []OnlyStepInFlightReruns
<1>1. Init => RerunInv
  BY DEF Init, RerunInv, GoingOn, OnlyStepInFlightReruns
<1>2. Spec => [](Shape /\ RerunInv)
  BY <1>1, InitShape, StepShape, StepRerun, PTL DEF Spec
<1>3. RerunInv => OnlyStepInFlightReruns BY DEF RerunInv
<1> QED BY <1>2, <1>3, PTL

-----------------------------------------------------------------------------
(* The spend.                                                              *)

\* Products with the price of a tool.
LEMMA Price ==
    ASSUME NEW n \in Nat, NEW m \in Nat, n =< m
    PROVE  /\ n * ToolCost \in Nat /\ n * ToolCost =< m * ToolCost
           /\ (n + 1) * ToolCost = n * ToolCost + ToolCost
<1> DEFINE c == ToolCost
<1>1. c \in Nat BY LoopAssumption
<1> HIDE DEF c
<1>2. PICK d \in Nat : m = n + d
  <2>1. m - n \in Nat /\ m = n + (m - n) OBVIOUS
  <2> QED BY <2>1
<1>3. m * c = n * c + d * c BY <1>1, <1>2
<1>4. d * c \in Nat /\ n * c \in Nat BY <1>1
<1>5. (n + 1) * c = n * c + c BY <1>1
<1>6. n * c =< m * c BY <1>3, <1>4
<1> QED BY <1>4, <1>5, <1>6 DEF c

\* No more calls are done than the turn has.
LEMMA DoneBounded ==
    ASSUME Shape
    PROVE  /\ IsFiniteSet(DoneCalls) /\ Cardinality(DoneCalls) \in Nat
           /\ Cardinality(DoneCalls) =< Len(calls) /\ Len(calls) \in Nat
<1>1. DOMAIN calls = 1 .. Len(calls) /\ Len(calls) \in Nat BY DEF Shape
<1>2. IsFiniteSet(1 .. Len(calls)) /\ Cardinality(1 .. Len(calls)) = Len(calls)
  <2>1. ASSUME NEW n \in Nat PROVE IsFiniteSet(1 .. n) /\ Cardinality(1 .. n) = n
    BY FS_Interval
  <2> QED BY <1>1, <2>1
<1>3. DoneCalls \subseteq 1 .. Len(calls) BY <1>1 DEF DoneCalls
<1>4. IsFiniteSet(DoneCalls) /\ Cardinality(DoneCalls) =< Cardinality(1 .. Len(calls))
  BY <1>2, <1>3, FS_Subset
<1> QED BY <1>1, <1>2, <1>4, FS_CardinalityType

\* What a turn that is under way has billed is within what a turn may.
LEMMA UnderCeiling ==
    ASSUME NEW n \in Nat, n =< LongestTurn, NEW s \in Nat,
           s < MaxJobCost + PremiumCost + n * ToolCost
    PROVE  s < MaxJobCost + TurnCost
<1>1. n * ToolCost \in Nat /\ n * ToolCost =< LongestTurn * ToolCost
  BY LoopAssumption, Price
<1>2. MaxJobCost \in Nat /\ PremiumCost \in Nat BY LoopAssumption
<1>3. LongestTurn * ToolCost \in Nat
  <2>1. LongestTurn \in Nat /\ LongestTurn =< LongestTurn BY LoopAssumption
  <2> QED BY <2>1, Price
<1> DEFINE a == n * ToolCost
           b == LongestTurn * ToolCost
<1>4. a \in Nat /\ b \in Nat /\ a =< b /\ s < MaxJobCost + PremiumCost + a
  BY <1>1, <1>3
<1> HIDE DEF a, b
<1>5. s < MaxJobCost + (PremiumCost + b) BY <1>2, <1>4
<1> QED BY <1>5 DEF b, TurnCost

\* The bill of a turn grows with the calls that are done.
LEMMA CallSpend ==
    ASSUME Shape, SpendInv, NEW i \in DOMAIN calls, CallStep(i)
    PROVE  SpendInv'
<1>1. PICK c \in Call : Moves(i, c) /\ Kind(i, c) BY CallKinds
<1>2. /\ DOMAIN calls' = DOMAIN calls /\ Len(calls') = Len(calls)
      /\ calls'[i] = c /\ \A j \in DOMAIN calls \ {i} : calls'[j] = calls[j]
      /\ UNCHANGED <<cancelled, late, pc>> /\ pc = "dispatch" /\ calls[i].st # "done"
  BY <1>1, OthersStay DEF Moves
<1> DEFINE n == Cardinality(DoneCalls)
           m == Cardinality(DoneCalls')
<1>3. /\ cost < MaxJobCost + PremiumCost + n * ToolCost /\ Len(calls) =< LongestTurn
      /\ n \in Nat /\ m \in Nat /\ m =< Len(calls') /\ IsFiniteSet(DoneCalls)
      /\ Shape' /\ cost \in Nat /\ cost' \in Nat
  <2>1. Shape' BY CallShape
  <2>2. m \in Nat /\ m =< Len(calls')
    <3>1. (Shape => /\ Cardinality(DoneCalls) \in Nat
                    /\ Cardinality(DoneCalls) =< Len(calls))'
      BY DoneBounded, PTL
    <3> QED BY <2>1, <3>1
  <2> QED BY <1>2, <2>1, <2>2, DoneBounded DEF SpendInv, Shape, TypeOK
<1>4. /\ MaxJobCost \in Nat /\ PremiumCost \in Nat /\ ToolCost \in Nat
  BY LoopAssumption
<1>5. cost' < MaxJobCost + PremiumCost + m * ToolCost
  <2>1. CASE c.st # "done"
    <3>1. DoneCalls' = DoneCalls BY <1>2, <2>1 DEF DoneCalls
    <3>2. cost' = cost
      BY <1>1, <2>1 DEF Kind, Closes, Starts, Asks, Passes, WaitsOn, Runs
    <3> QED BY <1>3, <3>1, <3>2
  <2>2. CASE c.st = "done"
    <3>1. DoneCalls' = DoneCalls \cup {i} /\ i \notin DoneCalls
      BY <1>2, <2>2 DEF DoneCalls
    <3>2. m = n + 1 BY <1>3, <3>1, FS_AddElement
    <3>3. cost' \in {cost, cost + ToolCost}
      BY <1>1, <2>2 DEF Kind, Closes, Starts, Asks, Passes, WaitsOn, Runs
    <3>4. m * ToolCost = n * ToolCost + ToolCost /\ n * ToolCost \in Nat
      <4> HIDE DEF n, m
      <4> QED BY <1>3, <3>2, Price
    <3> DEFINE a == n * ToolCost
               b == m * ToolCost
    <3>5. /\ b = a + ToolCost /\ a \in Nat
          /\ cost < MaxJobCost + PremiumCost + a
      BY <1>3, <3>4
    <3> HIDE DEF a, b
    <3>6. cost' < MaxJobCost + PremiumCost + b BY <1>3, <1>4, <3>3, <3>5
    <3> QED BY <3>6 DEF b
  <2> QED BY <2>1, <2>2
<1>6. Len(calls') =< LongestTurn BY <1>2, <1>3
<1>7. SpendBounded'
  <2>1. m =< LongestTurn
    <3>1. Len(calls') \in Nat /\ LongestTurn \in Nat BY <1>3, LoopAssumption DEF Shape
    <3> QED BY <1>3, <1>6, <3>1
  <2> HIDE DEF m
  <2>2. cost' < MaxJobCost + TurnCost BY <1>3, <1>5, <2>1, UnderCeiling
  <2> QED BY <2>2 DEF SpendBounded, TurnCost
<1> QED BY <1>2, <1>5, <1>6, <1>7 DEF SpendInv

\* A step that bills nothing, asks for nothing and starts no turn.
LEMMA Unbilled ==
    ASSUME SpendInv, UNCHANGED <<cost, late>>, cancelled => cancelled',
           pc' \in {"call", "model"} => pc' = pc,
           pc' = "dispatch" => pc = "dispatch" /\ calls' = calls
    PROVE  SpendInv'
BY DEF SpendInv, SpendBounded, DoneCalls

\* The spend stays bounded through every step.
LEMMA StepSpend == ASSUME Shape, SpendInv, [Next]_vars PROVE SpendInv'
<1>0. cost \in Nat /\ MaxJobCost \in Nat /\ PremiumCost \in Nat /\ CheapCost \in Nat
      /\ CheapCost =< PremiumCost /\ LongestTurn \in Nat
  BY Counters, LoopAssumption
<1>z. 0 * ToolCost = 0 /\ 0 \in Nat /\ 0 =< LongestTurn
  BY <1>0, LoopAssumption
<1>b. ASSUME NEW x \in Billed, pc = "model"
      PROVE  cost + x \in Nat /\ cost + x < MaxJobCost + PremiumCost + 0 * ToolCost
  <2>1. cost < MaxJobCost BY <1>b DEF SpendInv
  <2>2. x \in Nat /\ x =< PremiumCost BY <1>0, <1>b DEF Billed
  <2> QED BY <1>0, <1>z, <2>1, <2>2
<1>1. ASSUME NEW i \in DOMAIN calls, CallStep(i) PROVE SpendInv' BY <1>1, CallSpend
<1>2. CASE AgentStart \/ StatementRaises \/ ProviderRaises
        \/ StopLate \/ StopCancelled \/ StopCapped
  <2>1. UNCHANGED <<cost, late, cancelled>> /\ pc' \in {"top", "failed"}
    BY <1>2 DEF AgentStart, Exhausted, StatementRaises, ProviderRaises, StopLate, StopCancelled,
              StopCapped, AtTop, Fail, history, memVars, dbVars
  <2> QED BY <2>1, Unbilled
<1>3. CASE StartAttempt \/ TurnReturns \/ TurnGoesOn \/ Save \/ SaveFails \/ Crash
  <2>1. UNCHANGED <<cost, late, cancelled>>
    BY <1>3 DEF StartAttempt, TurnReturns, TurnGoesOn, Save, SaveFails, NextStep, Crash,
                dbVars, history
  <2>2. pc' \in {"loaded", "returned", "saving", "top", "failed", "off"}
    BY <1>3 DEF StartAttempt, TurnReturns, TurnGoesOn, Save, SaveFails, NextStep, Crash
  <2> QED BY <2>1, <2>2, Unbilled
<1>4. CASE PassTop
  BY <1>4 DEF PassTop, AtTop, SpendInv, SpendBounded, dbVars, history
<1>5. CASE CallModel
  <2>1. UNCHANGED <<cost, cancelled>> /\ pc = "call" /\ pc' = "model" /\ late = 0
        /\ late' = IF cancelled THEN late + 1 ELSE late
    BY <1>5 DEF CallModel, SpendInv, dbVars
  <2>2. late' \in {0, 1} /\ (late' = 1 => cancelled') BY <2>1
  <2> QED BY <2>1, <2>2 DEF SpendInv, SpendBounded
<1>6. CASE ModelEndsTurn
  <2>1. PICK x \in Billed : cost' = cost + x BY <1>6 DEF ModelEndsTurn
  <2>2. cost' < MaxJobCost + TurnCost
    BY <1>6, <1>b, <1>z, <2>1, UnderCeiling DEF ModelEndsTurn
  <2>3. UNCHANGED <<cancelled, late>> /\ pc' \in {"failed", "returned"}
    BY <1>6 DEF ModelEndsTurn, history
  <2> QED BY <2>2, <2>3 DEF SpendInv, SpendBounded, TurnCost
<1>7. CASE ModelAsksForTools
  <2>1. PICK x \in Billed : cost' = cost + x BY <1>7 DEF ModelAsksForTools
  <2>2. /\ cost' < MaxJobCost + PremiumCost + 0 * ToolCost /\ cost' \in Nat
        /\ cost' < MaxJobCost + TurnCost
    BY <1>7, <1>b, <1>z, <2>1, UnderCeiling DEF ModelAsksForTools
  <2>3. UNCHANGED <<cancelled, late>> /\ pc' = "dispatch" /\ pc = "model"
    BY <1>7 DEF ModelAsksForTools, history
  <2>4. Len(calls') =< LongestTurn /\ \A i \in DOMAIN calls' : calls'[i].st = "waiting"
    <3>1. calls = <<>> /\ Len(<<>>) = 0 /\ DOMAIN <<>> = {} BY <2>3 DEF Shape
    <3>2. calls' = <<>> \/ NewTurn
      BY <1>7, <3>1, StepKinds DEF ModelAsksForTools, CallStep, BeginRaises, NotAllowed
    <3> QED BY <1>z, <3>1, <3>2 DEF NewTurn
  <2>5. DoneCalls' = {} BY <2>4 DEF DoneCalls
  <2>6. Cardinality(DoneCalls') = 0 BY <2>5, FS_EmptySet
  <2> QED BY <2>2, <2>3, <2>4, <2>6 DEF SpendInv, SpendBounded, TurnCost
<1>8. CASE Cancel \/ UNCHANGED vars
  <2>1. UNCHANGED <<cost, late, pc, calls>> /\ (cancelled => cancelled')
    BY <1>8 DEF Cancel, vars, dbVars, history
  <2> QED BY <2>1, Unbilled
<1>9. ASSUME NEW a \in DOMAIN approvals, NEW d \in {"approved", "denied"}, Decide(a, d)
      PROVE  SpendInv'
  <2>1. UNCHANGED <<cost, late, pc, calls, cancelled>> BY <1>9 DEF Decide, history
  <2> QED BY <2>1, Unbilled
<1> QED BY <1>1, <1>2, <1>3, <1>4, <1>5, <1>6, <1>7, <1>8, <1>9 DEF Next, LoopStep

\* A job stops in time, over all its attempts: it passes its ceiling by less than
\* one turn may bill, and after a cancel the model is called once more at most.
THEOREM StopsOnTime == Spec => []StopsInTime
<1>1. Init => SpendInv
  <2> SUFFICES ASSUME Init PROVE SpendInv OBVIOUS
  <2>1. 0 \in Nat /\ 0 =< LongestTurn /\ 0 < MaxJobCost + PremiumCost + 0 * ToolCost
    <3>1. /\ LongestTurn \in Nat /\ MaxJobCost \in Nat /\ MaxJobCost # 0
          /\ PremiumCost \in Nat /\ ToolCost \in Nat
      BY LoopAssumption
    <3> QED BY <3>1
  <2>2. 0 < MaxJobCost + TurnCost BY <2>1, UnderCeiling
  <2>3. cost = 0 /\ late = 0 /\ pc = "off" BY DEF Init
  <2> QED BY <2>2, <2>3 DEF SpendInv, SpendBounded
<1>2. Spec => [](Shape /\ SpendInv)
  BY <1>1, InitShape, StepShape, StepSpend, PTL DEF Spec
<1>3. SpendInv => StopsInTime BY DEF SpendInv, StopsInTime, CancelStops
<1> QED BY <1>2, <1>3, PTL

-----------------------------------------------------------------------------
(* The conversation.                                                       *)

\* A message more leaves what is answered answered.
LEMMA AppendAnswered ==
    ASSUME NEW ms \in Seq(Message), NEW n \in Nat, Len(ms) >= 2 * n + 1,
           AnsweredUpTo(ms, n), NEW m \in Message
    PROVE  /\ AnsweredUpTo(Append(ms, m), n)
           /\ Len(Append(ms, m)) = Len(ms) + 1 /\ Append(ms, m)[Len(ms) + 1] = m
<1>1. /\ Len(Append(ms, m)) = Len(ms) + 1 /\ Append(ms, m)[Len(ms) + 1] = m
      /\ \A j \in 1 .. Len(ms) : Append(ms, m)[j] = ms[j]
  OBVIOUS
<1>2. 1 \in 1 .. Len(ms) /\ \A k \in 1 .. n : 2*k \in 1 .. Len(ms) /\ 2*k + 1 \in 1 .. Len(ms)
  OBVIOUS
<1> QED BY <1>1, <1>2 DEF AnsweredUpTo

\* Each step of the loop adds the assistant's turn, then the answers to it.
LEMMA StepTurn == ASSUME Shape, TurnInv, [Next]_vars PROVE TurnInv'
<1>0. /\ messages \in Seq(Message) /\ step \in Nat /\ Len(messages) \in Nat
      /\ messages' \in Seq(Message)
  BY Counters, StepShape DEF Shape
<1>u. \A ids : User(ids).role = "user" /\ User(ids).ids = ids
               /\ Assistant(ids).role = "assistant" /\ Assistant(ids).ids = ids
  BY DEF User, Assistant
<1>a. \A ms, n : Answered(ms, n) <=> Len(ms) = 2 * n + 1 /\ AnsweredUpTo(ms, n)
  BY DEF Answered, AnsweredUpTo
<1>q. ASSUME UNCHANGED <<messages, step, checkpoint, attempt>>,
             pc' \in {"loaded", "top", "call", "model"} => pc \in {"loaded", "top", "call", "model"},
             pc' = "dispatch" => pc = "dispatch" /\ Ids' = Ids,
             pc' = "saving" => pc = "saving"
      PROVE  TurnInv'
  BY <1>q DEF TurnInv, Answered, AnsweredUpTo
<1>1. ASSUME NEW i \in DOMAIN calls, CallStep(i) PROVE TurnInv'
  <2>1. PICK c \in Call : Moves(i, c) BY <1>1, CallKinds
  <2>2. DOMAIN calls' = DOMAIN calls BY <2>1, OthersStay DEF Moves
  <2>3. Ids' = Ids BY <2>1, <2>2 DEF Ids, Id, Moves
  <2> QED BY <1>q, <2>1, <2>3 DEF Moves
<1>2. CASE AgentStart \/ StatementRaises \/ ProviderRaises
        \/ StopLate \/ StopCancelled \/ StopCapped
           \/ PassTop \/ CallModel \/ TurnReturns
  <2>1. UNCHANGED <<messages, step, checkpoint, attempt>> /\ pc' \notin {"dispatch", "saving"}
        /\ (pc' \in {"loaded", "top", "call", "model"} => pc \in {"loaded", "top", "call", "model"})
    BY <1>2 DEF AgentStart, Exhausted, StatementRaises, ProviderRaises, StopLate, StopCancelled,
              StopCapped, AtTop, Fail, PassTop, CallModel, TurnReturns, history, memVars, dbVars
  <2> QED BY <1>q, <2>1
<1>3. CASE ModelEndsTurn \/ Crash
  <2>1. UNCHANGED checkpoint /\ pc' \in {"failed", "returned", "off"}
    BY <1>3 DEF ModelEndsTurn, Crash, dbVars
  <2> QED BY <2>1 DEF TurnInv
<1>4. CASE Cancel \/ UNCHANGED vars
  <2>1. UNCHANGED <<messages, step, checkpoint, attempt, pc, calls>>
    BY <1>4 DEF Cancel, vars, memVars, dbVars
  <2>2. Ids' = Ids BY <2>1 DEF Ids, Id
  <2> QED BY <1>q, <2>1, <2>2
<1>5. ASSUME NEW a \in DOMAIN approvals, NEW d \in {"approved", "denied"}, Decide(a, d)
      PROVE  TurnInv'
  <2>1. UNCHANGED <<messages, step, checkpoint, attempt, pc, calls>>
    BY <1>5 DEF Decide, memVars
  <2>2. Ids' = Ids BY <2>1 DEF Ids, Id
  <2> QED BY <1>q, <2>1, <2>2
<1>6. CASE StartAttempt
  <2>1. UNCHANGED checkpoint /\ pc' = "loaded" BY <1>6 DEF StartAttempt, dbVars
  <2>2. Answered(<<User(<<>>)>>, 0) BY DEF Answered
  <2>3. Answered(messages', step')
    <3>1. CASE Resume /\ checkpoint = NoCheckpoint
      BY <2>2, <3>1 DEF Resume, NoCheckpoint
    <3>2. CASE Resume /\ checkpoint # NoCheckpoint
      BY <3>2 DEF Resume, TurnInv
    <3>3. CASE LoadFails BY <2>2, <3>3 DEF LoadFails
    <3> QED BY <1>6, <3>1, <3>2, <3>3 DEF StartAttempt
  <2> QED BY <2>1, <2>3 DEF TurnInv, Answered
<1>7. CASE ModelAsksForTools
  <2> DEFINE ids == [i \in DOMAIN calls' |-> Id(i)]
             m == Assistant(ids)
  <2>1. messages' = Append(messages, m) /\ UNCHANGED <<step, checkpoint, attempt>>
        /\ pc = "model" /\ pc' = "dispatch"
    BY <1>7 DEF ModelAsksForTools
  <2>2. ids = Ids' BY <2>1 DEF Ids, Id
  <2>3. m \in Message
    <3>1. Shape' BY StepShape
    <3>2. DOMAIN calls' = 1 .. Len(calls') /\ Len(calls') \in Nat BY <3>1 DEF Shape
    <3>3. \A i \in DOMAIN calls' : Id(i) \in Nat \X Nat \X Nat BY <3>2, Counters DEF Id
    <3>4. ids \in Seq(Nat \X Nat \X Nat)
      <4> HIDE DEF Id
      <4> QED BY <3>2, <3>3
    <3> HIDE DEF ids
    <3> QED BY <3>4 DEF Assistant, Message
  <2>4. m = Assistant(Ids)' BY <2>2 DEF Assistant
  <2> HIDE DEF ids, m
  <2>5. Len(messages) = 2 * step + 1 /\ AnsweredUpTo(messages, step)
    BY <1>a, <2>1 DEF TurnInv
  <2>6. AnsweredUpTo(messages', step) /\ Len(messages') = 2 * step + 2
        /\ messages'[2 * step + 2] = m
    BY <1>0, <2>1, <2>3, <2>5, AppendAnswered
  <2> QED BY <2>1, <2>4, <2>6 DEF TurnInv, AnsweredUpTo, Answered
<1>8. CASE TurnGoesOn
  <2> DEFINE m == User(Ids)
  <2>1. messages' = Append(messages, m) /\ UNCHANGED <<step, checkpoint>>
        /\ pc = "dispatch" /\ pc' = "saving"
    BY <1>8 DEF TurnGoesOn, TurnDone, dbVars
  <2>2. m \in Message
    <3>1. DOMAIN calls = 1 .. Len(calls) /\ Len(calls) \in Nat BY DEF Shape
    <3>2. \A i \in DOMAIN calls : Id(i) \in Nat \X Nat \X Nat BY <3>1, Counters DEF Id
    <3>3. Ids \in Seq(Nat \X Nat \X Nat)
      <4> HIDE DEF Id
      <4> QED BY <3>1, <3>2 DEF Ids
    <3> QED BY <3>3 DEF User, Message
  <2>3. /\ Len(messages) = 2 * step + 2 /\ AnsweredUpTo(messages, step)
        /\ messages[2 * step + 2] = Assistant(Ids)
    BY <2>1 DEF TurnInv
  <2> HIDE DEF m
  <2>4. AnsweredUpTo(messages', step) /\ Len(messages') = 2 * step + 3
        /\ messages'[2 * step + 3] = m
    BY <1>0, <2>1, <2>2, <2>3, AppendAnswered
  <2>5. messages'[2 * step + 2] = Assistant(Ids)
    <3>1. 2 * step + 2 \in 1 .. Len(messages) BY <1>0, <2>3
    <3> QED BY <1>0, <2>1, <2>2, <2>3, <3>1
  <2>6. messages'[2 * step + 3] = User(messages'[2 * step + 2].ids)
        /\ messages'[2 * step + 2].role = "assistant"
    BY <1>u, <2>4, <2>5 DEF m
  <2>7. AnsweredUpTo(messages', step + 1)
    <3> SUFFICES ASSUME NEW k \in 1 .. step + 1
                 PROVE  /\ messages'[2*k].role = "assistant"
                        /\ messages'[2*k + 1] = User(messages'[2*k].ids)
      BY <2>4 DEF AnsweredUpTo
    <3>1. CASE k \in 1 .. step BY <2>4, <3>1 DEF AnsweredUpTo
    <3>2. CASE k = step + 1
      <4>1. 2 * k = 2 * step + 2 /\ 2 * k + 1 = 2 * step + 3 BY <1>0, <3>2
      <4> QED BY <2>6, <4>1
    <3> QED BY <1>0, <3>1, <3>2
  <2>8. Answered(messages', step + 1)
    <3>1. Len(messages') = 2 * (step + 1) + 1 BY <1>0, <2>4
    <3> QED BY <1>a, <2>7, <3>1
  <2> QED BY <2>1, <2>8 DEF TurnInv, Answered
<1>9. CASE Save \/ SaveFails
  <2>1. /\ pc = "saving" /\ step' = step + 1 /\ messages' = messages
        /\ pc' \in {"top", "failed"}
        /\ checkpoint' \in {checkpoint, [step |-> step + 1, messages |-> messages]}
    <3>1. CASE Save BY <3>1 DEF Save, NextStep
    <3>2. CASE SaveFails BY <3>2 DEF SaveFails, NextStep
    <3> QED BY <1>9, <3>1, <3>2
  <2>2. Answered(messages, step + 1) BY <2>1 DEF TurnInv
  <2>3. checkpoint' # NoCheckpoint => Answered(checkpoint'.messages, checkpoint'.step)
    BY <2>1, <2>2 DEF TurnInv
  <2> QED BY <2>1, <2>2, <2>3 DEF TurnInv, Answered
<1> QED BY <1>1, <1>2, <1>3, <1>4, <1>5, <1>6, <1>7, <1>8, <1>9 DEF Next, LoopStep

\* The conversation given to the model, and the one a checkpoint holds, is always
\* one user turn, then for each step an assistant turn and the results of exactly
\* its tool calls: no error, crash or lost checkpoint leaves a half-done turn.
THEOREM TurnsAlwaysAnswered == Spec => []TurnsAreAnswered
<1>1. Init => TurnInv BY DEF Init, TurnInv
<1>2. Spec => [](Shape /\ TurnInv)
  BY <1>1, InitShape, StepShape, StepTurn, PTL DEF Spec
<1>3. TurnInv => TurnsAreAnswered BY DEF TurnInv, TurnsAreAnswered
<1> QED BY <1>2, <1>3, PTL

=============================================================================
