--------------------------- MODULE LocalJobsProofs ---------------------------
(***************************************************************************)
(* For every bundle, any number of jobs, callers and restarts: a row that  *)
(* says its job is over changes no more while the server lives, and no     *)
(* caller is told what did not happen.                                     *)
(*                                                                         *)
(* A thread decides what its run came to before it ends the row, in one    *)
(* update, and never comes back to it; a caller's copy of a row may be old *)
(* and of a server that is gone, but what it says of an end stays true.    *)
(*                                                                         *)
(* ServerInv is the inductive invariant: the types, what each thread and   *)
(* its row say, and what each caller holds.                                *)
(***************************************************************************)
EXTENDS LocalJobs, TLAPS

Skills == {NoName} \cup {_target(path).skill : path \in SkillPaths}

RowType ==
    [status : {"unknown", "queued", "running"} \cup Terminal, skill : Skills,
     result : 0 .. MaxJobs, error : BOOLEAN]

CallType ==
    [of : {"nobody", "Client.run", "cmd_run", "cmd_logs"},
     at : {"idle", "posted", "events", "get", "check", "ended"},
     job : 0 .. MaxJobs, wait : Nat, age : Nat, got : RowType, printed : Nat,
     end : {"none", "result", "job failed", "still running", "no answer",
            "api error", "no skillpack"}]

EventType == [id : Nat, type : {"step", "error"}]

TypeOK ==
    /\ row \in [Jobs -> RowType]
    /\ events \in [Jobs -> Seq(EventType)]
    /\ spans \in [Jobs -> SUBSET Jobs]
    /\ pc \in [Jobs -> {"none", "begin", "inside", "kept", "erred", "over", "dead"}]
    /\ out \in [Jobs -> {"none", "output", "error"}]
    /\ call \in [Callers -> CallType]
    /\ stops \in Nat

\* What a row, or an old copy of it, says of the end of a job's run.
Truthful(j, r) ==
    /\ r.status = "succeeded" => out[j] = "output" /\ r.result = j
    /\ r.status = "failed" => out[j] = "error" /\ r.error = TRUE

\* A row is over when its thread is, and what its run came to is decided once.
ThreadOK(j) ==
    /\ Done(j) => pc[j] = "over"
    /\ pc[j] \in {"none", "begin", "inside"} => out[j] = "none"
    /\ pc[j] = "kept" => out[j] = "output"
    /\ pc[j] = "erred" => out[j] = "error"
    /\ Truthful(j, row[j])

\* What a caller holds, and what it tells, is a row it has read.
CallOK(k) ==
    /\ k.at \in {"posted", "events", "get", "check"} => k.job \in Jobs
    /\ k.got.status \in Terminal => k.job \in Jobs
    /\ Truthful(k.job, k.got)
    /\ k.at # "ended" => k.end = "none"
    /\ k.end = "result" => k.got.status = "succeeded"
    /\ k.end = "job failed" => k.got.status = "failed"

ServerInv ==
    /\ TypeOK
    /\ \A j \in Jobs : ThreadOK(j)
    /\ \A c \in Callers : CallOK(call[c])

\* The server starts with no job and no call.
LEMMA InitServer == Init => ServerInv
<1> SUFFICES ASSUME Init PROVE ServerInv OBVIOUS
<1>0. MaxJobs \in Nat BY LocalJobsAssumption
<1>1. Unknown \in RowType BY <1>0 DEF Unknown, RowType, Skills, NoJob
<1>a. Idle \in CallType BY <1>0, <1>1 DEF Idle, CallType, NoJob
<1>b. \A j \in Jobs : <<>> \in Seq(EventType) OBVIOUS
<1>2. TypeOK BY <1>1, <1>a, <1>b DEF Init, TypeOK
<1>3. \A j \in Jobs : ThreadOK(j) BY DEF Init, ThreadOK, Truthful, Unknown, Done, Terminal
<1>4. CallOK(Idle) BY DEF CallOK, Truthful, Idle, Unknown, Terminal
<1>5. \A c \in Callers : CallOK(call[c]) BY <1>4 DEF Init
<1> QED BY <1>2, <1>3, <1>5 DEF ServerInv

\* A step of one caller that asks, reads or waits.
LEMMA CallStep ==
    ASSUME ServerInv, NEW c \in Callers, NEW k \in CallType, CallOK(k), Step(c, k),
           UNCHANGED <<row, events, spans, pc, out, stops>>
    PROVE  ServerInv'
<1>1. TypeOK' BY DEF ServerInv, TypeOK, Step
<1>2. \A j \in Jobs : ThreadOK(j)' BY DEF ServerInv, ThreadOK, Truthful, Done
<1>3. ASSUME NEW d \in Callers PROVE CallOK(call[d])'
  <2>1. call'[d] = k \/ call'[d] = call[d] BY DEF Step, ServerInv, TypeOK
  <2> QED BY <2>1 DEF ServerInv, CallOK, Truthful
<1> QED BY <1>1, <1>2, <1>3 DEF ServerInv

\* What a caller holds stays true while the outcomes that are decided stay.
LEMMA CallsKeep ==
    ASSUME ServerInv, UNCHANGED call,
           \A i \in Jobs : out[i] # "none" => out'[i] = out[i]
    PROVE  \A c \in Callers : CallOK(call[c])'
  BY DEF ServerInv, CallOK, Truthful, Terminal

\* A step of one job's thread.
LEMMA ThreadStep ==
    ASSUME ServerInv, NEW j \in Jobs, _run_job(j)
    PROVE  ServerInv'
<1>0. TypeOK /\ (\A i \in Jobs : ThreadOK(i)) BY DEF ServerInv
<1>1. TypeOK'
  <2>1. CASE on_event(j)
    <3>1. [id |-> Len(events[j]) + 1, type |-> "step"] \in EventType
      BY <1>0 DEF TypeOK, EventType
    <3> QED BY <1>0, <2>1, <3>1 DEF TypeOK, on_event, Emitted
  <2>2. CASE error_event(j)
    <3>1. [id |-> Len(events[j]) + 1, type |-> "error"] \in EventType
      BY <1>0 DEF TypeOK, EventType
    <3> QED BY <1>0, <2>2, <3>1 DEF TypeOK, error_event, Emitted
  <2>3. CASE store_spans(j)
    BY <1>0, <2>3 DEF TypeOK, store_spans
  <2>4. CASE begin(j)
    BY <1>0, <2>4 DEF TypeOK, begin, RowType
  <2>5. CASE succeed(j)
    <3>1. j \in 0 .. MaxJobs BY LocalJobsAssumption DEF Jobs
    <3> QED BY ZenonT(40), <1>0, <2>5, <3>1 DEF TypeOK, succeed, RowType, Terminal
  <2>6. CASE _fail(j)
    BY ZenonT(40), <1>0, <2>6 DEF TypeOK, _fail, RowType, Terminal
  <2> QED BY <2>1, <2>2, <2>3, <2>4, <2>5, <2>6 DEF _run_job
<1>2. ASSUME NEW i \in Jobs PROVE ThreadOK(i)'
  <2>1. ThreadOK(i) /\ row \in [Jobs -> RowType] /\ DOMAIN pc = Jobs /\ DOMAIN out = Jobs
    BY <1>0 DEF TypeOK
  <2>2. CASE begin(j)
    BY <2>1, <2>2 DEF begin, ThreadOK, Truthful, RowType, Done, Terminal
  <2>3. CASE on_event(j)
    BY <2>1, <2>3 DEF on_event, ThreadOK, Truthful, Done
  <2>4. CASE store_spans(j)
    BY <2>1, <2>4 DEF store_spans, ThreadOK, Truthful, Done
  <2>5. CASE succeed(j)
    BY <2>1, <2>5 DEF succeed, ThreadOK, Truthful, RowType, Done, Terminal
  <2>6. CASE error_event(j)
    BY <2>1, <2>6 DEF error_event, ThreadOK, Truthful, Done
  <2>7. CASE _fail(j)
    BY <2>1, <2>7 DEF _fail, ThreadOK, Truthful, RowType, Done, Terminal
  <2> QED BY <2>2, <2>3, <2>4, <2>5, <2>6, <2>7 DEF _run_job
<1>3. UNCHANGED call /\ \A i \in Jobs : out[i] # "none" => out'[i] = out[i]
  BY <1>0 DEF TypeOK, ThreadOK, _run_job, begin, on_event, store_spans, succeed,
              error_event, _fail
<1> QED BY <1>1, <1>2, <1>3, CallsKeep DEF ServerInv

\* A job is submitted by a caller that then holds it.
LEMMA SubmitStep ==
    ASSUME ServerInv, NEW c \in Callers, NEW j \in Jobs, NEW skill \in Skills, submit(j, skill),
           NEW k \in CallType, CallOK(k), Step(c, k)
    PROVE  ServerInv'
<1>0. Queued(skill) \in RowType
  <2>1. Unknown \in RowType BY LocalJobsAssumption DEF Unknown, RowType, Skills, NoJob
  <2> QED BY <2>1 DEF Queued, RowType
<1>1. TypeOK' BY <1>0 DEF ServerInv, TypeOK, submit, Step
<1>2. \A i \in Jobs : ThreadOK(i)'
  BY DEF ServerInv, TypeOK, submit, ThreadOK, Truthful, Queued, Unknown, Done, Terminal
<1>3. ASSUME NEW d \in Callers PROVE CallOK(call[d])'
  <2>1. call'[d] = k \/ call'[d] = call[d] BY DEF Step, ServerInv, TypeOK
  <2> QED BY <2>1 DEF ServerInv, CallOK, Truthful, submit
<1> QED BY <1>1, <1>2, <1>3 DEF ServerInv

\* One action per step.
LEMMA StepServer == ServerInv /\ [Next]_vars => ServerInv'
<1> SUFFICES ASSUME ServerInv, [Next]_vars PROVE ServerInv' OBVIOUS
<1>0. /\ Idle \in CallType /\ Unknown \in RowType /\ Patience \in Nat /\ Waits \subseteq Nat
      /\ \A j \in Jobs : j \in 0 .. MaxJobs
  <2>1. MaxJobs \in Nat BY LocalJobsAssumption
  <2>2. Unknown \in RowType BY <2>1 DEF Unknown, RowType, Skills, NoJob
  <2>3. Idle \in CallType BY <2>1, <2>2 DEF Idle, CallType, NoJob
  <2> QED BY <2>2, <2>3, LocalJobsAssumption DEF Jobs
<1>1. ASSUME NEW c \in Callers, NEW program \in {"Client.run", "cmd_run", "cmd_logs"},
             Refused(c, program)
      PROVE  ServerInv'
  <2> DEFINE k == Ended([Idle EXCEPT !.of = program], "api error")
  <2>1. k \in CallType BY <1>0 DEF Ended, CallType
  <2>2. CallOK(k) BY DEF CallOK, Truthful, Ended, Idle, Unknown, Terminal
  <2> QED BY <1>1, <2>1, <2>2, CallStep DEF Refused
<1>2. ASSUME NEW c \in Callers, NEW path \in SkillPaths, run(c, path) PROVE ServerInv'
  <2> DEFINE none == Ended([Idle EXCEPT !.of = "Client.run"], "no skillpack")
             k(j) == [Idle EXCEPT !.of = "Client.run", !.at = "get", !.job = j, !.wait = Patience]
  <2>1. none \in CallType /\ CallOK(none)
    <3>1. none \in CallType BY <1>0 DEF Ended, CallType
    <3>2. CallOK(none) BY DEF CallOK, Truthful, Ended, Idle, Unknown, Terminal
    <3> QED BY <3>1, <3>2
  <2>2. ASSUME NEW j \in Jobs PROVE k(j) \in CallType /\ CallOK(k(j))
    <3>1. k(j) \in CallType BY <1>0 DEF CallType
    <3>2. CallOK(k(j)) BY DEF CallOK, Truthful, Idle, Unknown, Terminal
    <3> QED BY <3>1, <3>2
  <2>0. _target(path).skill \in Skills BY DEF Skills
  <2>3. CASE _target(path).pack = <<>>
    BY <1>2, <2>1, <2>3, CallStep DEF run
  <2>4. CASE _target(path).pack # <<>>
    <3>1. PICK j \in Jobs : submit(j, _target(path).skill) /\ Step(c, k(j))
      BY <1>2, <2>4 DEF run
    <3> HIDE DEF k
    <3> QED BY <2>0, <2>2, <3>1, SubmitStep
  <2> QED BY <2>3, <2>4
<1>3. ASSUME NEW c \in Callers, NEW path \in SkillPaths, NEW wait \in Waits,
             cmd_run(c, path, wait)
      PROVE  ServerInv'
  <2> DEFINE k(j) == [Idle EXCEPT !.of = "cmd_run", !.at = "posted", !.job = j, !.wait = wait]
  <2>0. _target(path).skill \in Skills BY DEF Skills
  <2>1. ASSUME NEW j \in Jobs PROVE k(j) \in CallType /\ CallOK(k(j))
    <3>1. k(j) \in CallType BY <1>0 DEF CallType
    <3>2. CallOK(k(j)) BY DEF CallOK, Truthful, Idle, Unknown, Terminal
    <3> QED BY <3>1, <3>2
  <2>2. PICK j \in Jobs : submit(j, _target(path).skill) /\ Step(c, k(j))
    BY <1>3 DEF cmd_run
  <2> HIDE DEF k
  <2> QED BY <2>0, <2>1, <2>2, SubmitStep
<1>4. ASSUME NEW c \in Callers, NEW j \in Jobs, cmd_logs(c, j) PROVE ServerInv'
  <2> DEFINE k == [Idle EXCEPT !.of = "cmd_logs", !.at = "events", !.job = j, !.wait = Patience]
  <2>1. k \in CallType BY <1>0 DEF CallType
  <2>2. CallOK(k) BY DEF CallOK, Truthful, Idle, Unknown, Terminal
  <2> QED BY <1>4, <2>1, <2>2, CallStep DEF cmd_logs
<1>5. ASSUME NEW c \in Callers, Proceed(c) PROVE ServerInv'
  <2> DEFINE k == call[c]
  <2>0. /\ k \in CallType /\ CallOK(k)
        /\ \A j \in Jobs : Truthful(j, row[j]) /\ row[j] \in RowType /\ Len(events[j]) \in Nat
    BY DEF ServerInv, TypeOK, ThreadOK
  <2>1. ASSUME NEW how \in {"no answer", "api error"}
        PROVE  Ended(k, how) \in CallType /\ CallOK(Ended(k, how))
    BY <2>0 DEF CallOK, Ended, CallType
  <2>2. ASSUME NEW got \in RowType, Truthful(k.job, got), k.job \in Jobs
        PROVE  LET e == Ended([k EXCEPT !.got = got], Outcome(got))
               IN  e \in CallType /\ CallOK(e)
    BY <2>0, <2>2 DEF CallOK, Ended, CallType, Outcome
  <2>3. CASE answer(c)
    BY <2>0, <2>2, <2>3, CallStep DEF answer, CallOK
  <2>4. CASE give_up(c)
    BY <2>1, <2>4, CallStep DEF give_up
  <2>5. CASE get_events(c)
    <3>1. k.job \in Jobs /\ k.end = "none" BY <2>0, <2>5 DEF get_events, CallOK
    <3> DEFINE next == [k EXCEPT !.printed = Len(events[k.job]), !.at = "get"]
    <3>2. next \in CallType BY <2>0, <3>1 DEF CallType
    <3>3. CallOK(next) BY <2>0, <3>1 DEF CallOK, CallType
    <3> HIDE DEF next
    <3> QED BY <2>1, <2>5, <3>2, <3>3, CallStep DEF get_events, next
  <2>6. CASE get_job(c)
    <3>1. k.job \in Jobs /\ k.end = "none" BY <2>0, <2>6 DEF get_job, CallOK
    <3> DEFINE next == [k EXCEPT !.got = row[k.job], !.at = "check"]
    <3>2. next \in CallType BY <2>0, <3>1 DEF CallType
    <3>3. CallOK(next) BY <2>0, <3>1 DEF CallOK, CallType
    <3> QED BY <2>1, <2>6, <3>2, <3>3, CallStep DEF get_job
  <2>7. CASE check(c)
    <3>1. k.job \in Jobs /\ k.end = "none" BY <2>0, <2>7 DEF check, CallOK
    <3> DEFINE next == [k EXCEPT !.at = IF k.of = "cmd_logs" THEN "events" ELSE "get"]
    <3>2. next \in CallType BY <2>0 DEF CallType
    <3>3. CallOK(next) BY <2>0, <3>1 DEF CallOK, CallType
    <3>4. Ended(k, Outcome(k.got)) \in CallType /\ CallOK(Ended(k, Outcome(k.got)))
      BY <2>0 DEF CallOK, Ended, CallType, Outcome
    <3> QED BY <2>7, <3>2, <3>3, <3>4, CallStep DEF check
  <2> QED BY <1>5, <2>3, <2>4, <2>5, <2>6, <2>7 DEF Proceed
<1>6. ASSUME NEW c \in Callers, Tick(c) PROVE ServerInv'
  <2> DEFINE k == call[c]
  <2>1. k \in CallType /\ CallOK(k) BY DEF ServerInv, TypeOK
  <2>a. k.age + 1 \in Nat
    <3>1. k.age \in Nat BY <2>1 DEF CallType
    <3> HIDE DEF k
    <3> QED BY <3>1
  <2>2. [k EXCEPT !.age = @ + 1] \in CallType BY <2>1, <2>a DEF CallType
  <2>3. CallOK([k EXCEPT !.age = @ + 1]) BY <2>1 DEF CallOK, CallType
  <2> QED BY <1>6, <2>2, <2>3, CallStep DEF Tick
<1>7. CASE Stop
  <2>0. TypeOK /\ (\A c \in Callers : CallOK(call[c])) BY DEF ServerInv
  <2>1. TypeOK'
    <3>a. row' = [j \in Jobs |-> Unknown] /\ events' = [j \in Jobs |-> <<>>]
          /\ spans' = [j \in Jobs |-> {}] /\ stops' = stops + 1 /\ stops \in Nat
      BY <1>7, <2>0 DEF Stop, TypeOK
    <3>b. <<>> \in Seq(EventType) OBVIOUS
    <3>1. row' \in [Jobs -> RowType] /\ events' \in [Jobs -> Seq(EventType)]
          /\ spans' \in [Jobs -> SUBSET Jobs] /\ stops' \in Nat
      BY <1>0, <3>a, <3>b
    <3>2. /\ pc' \in [Jobs -> {"none", "begin", "inside", "kept", "erred", "over", "dead"}]
          /\ UNCHANGED out
      BY <1>7, <2>0 DEF Stop, TypeOK
    <3>3. ASSUME NEW k \in CallType
          PROVE  [k EXCEPT !.at = "ended", !.end = "no answer"] \in CallType
      BY DEF CallType
    <3>4. call' \in [Callers -> CallType]
      BY <1>7, <2>0, <3>3 DEF Stop, TypeOK
    <3> QED BY <2>0, <3>1, <3>2, <3>4 DEF TypeOK
  <2>2. \A j \in Jobs : ThreadOK(j)'
    BY <1>7 DEF Stop, ServerInv, ThreadOK, Truthful, Unknown, Done, Terminal
  <2>3. ASSUME NEW c \in Callers PROVE CallOK(call[c])'
    <3> DEFINE k == call[c]
               ended == [k EXCEPT !.at = "ended", !.end = "no answer"]
    <3>1. k \in CallType /\ CallOK(k) BY <2>0 DEF TypeOK
    <3>2. CallOK(ended) BY <3>1 DEF CallOK, CallType
    <3>3. UNCHANGED out /\ call'[c] \in {k, ended} BY <1>7 DEF Stop
    <3> HIDE DEF k, ended
    <3> QED BY <3>1, <3>2, <3>3 DEF CallOK, Truthful
  <2> QED BY <2>1, <2>2, <2>3 DEF ServerInv
<1>8. CASE UNCHANGED vars
  BY <1>8 DEF vars, ServerInv, TypeOK, ThreadOK, CallOK, Truthful, Done
<1> QED BY <1>1, <1>2, <1>3, <1>4, <1>5, <1>6, <1>7, <1>8, ThreadStep DEF Next

\* A caller is told of its job what the run of that job came to, however late it
\* asks, whatever else runs, and across restarts of the server (_run_job, the
\* polls of Client.run and of the CLI).
THEOREM OutcomesAreTold == Spec => []ToldTheOutcome
<1>1. ServerInv => ToldTheOutcome
  BY DEF ServerInv, CallOK, Truthful, ToldTheOutcome
<1> QED BY InitServer, StepServer, <1>1, PTL DEF Spec

\* Once a row says its job is over, neither it nor the job's events and spans
\* change while the server lives (_run_job writes the status last).
THEOREM OverIsFinal == Spec => TerminalIsFinal
<1>1. ServerInv /\ [Next]_vars =>
        [\A j \in Jobs : Done(j) /\ stops' = stops =>
            row'[j] = row[j] /\ events'[j] = events[j] /\ spans'[j] = spans[j]]_vars
  <2> SUFFICES ASSUME ServerInv, Next, NEW j \in Jobs, Done(j), stops' = stops
               PROVE  row'[j] = row[j] /\ events'[j] = events[j] /\ spans'[j] = spans[j]
    BY DEF Next
  <2>1. pc[j] = "over" BY DEF ServerInv, ThreadOK
  <2>2. ASSUME NEW i \in Jobs, _run_job(i) \/ (\E skill : submit(i, skill)) PROVE i # j
    BY <2>1, <2>2 DEF _run_job, begin, on_event, store_spans, succeed, error_event, _fail, submit
  <2>3. ASSUME NEW i \in Jobs, i # j, _run_job(i) \/ (\E skill : submit(i, skill))
        PROVE  row'[j] = row[j] /\ events'[j] = events[j] /\ spans'[j] = spans[j]
    BY <2>3 DEF ServerInv, TypeOK, _run_job, begin, on_event, store_spans, succeed,
                error_event, _fail, submit, Emitted
  <2>4. stops \in Nat BY DEF ServerInv, TypeOK
  <2>5. ~Stop
    <3>1. Stop => stops' = stops + 1 BY DEF Stop
    <3> QED BY <2>4, <3>1
  <2> QED BY <2>2, <2>3, <2>5
          DEF Next, Refused, run, cmd_run, cmd_logs, Proceed, answer, give_up,
              get_events, get_job, check, Tick
<1> QED BY InitServer, StepServer, <1>1, PTL DEF Spec, TerminalIsFinal
=============================================================================
