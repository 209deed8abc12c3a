------------------------------- MODULE Finish -------------------------------
(***************************************************************************)
(* The end of one run: what worker/main.py does between run_agent and the  *)
(* last line of _process_one, and what worker/eval_local.py does with the  *)
(* same graders offline.                                                   *)
(*                                                                         *)
(* Hosted, everything from the grading to the commit is ONE Postgres       *)
(* transaction.  `db` holds the committed rows, `tx` what this transaction *)
(* sees of them.  A statement that fails leaves the transaction aborted    *)
(* (`broken`): each later statement fails too, whoever catches the first   *)
(* error, until a rollback.  The handler of _process_one opens a new one.  *)
(* Another actor may end the job while no statement of ours has locked its *)
(* row, and the slot itself may be taken away (a drain, or a crash whose   *)
(* job is requeued): the transaction is lost and the job runs again.       *)
(*                                                                         *)
(* Bounds: MaxFaults faults, MaxAttempts claims, Cases cases of a local    *)
(* suite.                                                                  *)
(***************************************************************************)
EXTENDS Graders

CONSTANTS Suites,      \* the `evals:` a skill may declare, as sequences
          Runtimes,    \* "hosted" and/or "local"
          RunCosts,    \* what an attempt may accrue before it ends
          JudgeCost,   \* what a call of the judge adds
          Faults,      \* "statement", "commit", "unacknowledged"
          MaxFaults,
          MaxAttempts,
          Cases

ASSUME FinishAssumption ==
    /\ Suites \subseteq Seq(GraderType)
    /\ Runtimes \subseteq {"hosted", "local"}
    /\ RunCosts \subseteq Nat /\ JudgeCost \in Nat
    /\ MaxFaults \in Nat /\ MaxAttempts \in Nat /\ Cases \in Nat

VARIABLES
    run,       \* what was claimed: runtime, kind, evals, case, expected
    db, tx,    \* the committed rows, and what the transaction sees
    broken,    \* the transaction is aborted
    locked,    \* it holds the lock of the jobs row
    pc,        \* the statement _process_one is at
    handling,  \* the except branch is running
    outcome,   \* its local `status`
    rows,      \* the graders' rows so far
    judge,     \* the judge provider was built
    graded,    \* [score, rows] that _score_evals returned, or NotGraded
    report,    \* local: the verdicts of the cases run so far
    faults, attempts,
    blame      \* history: where the faults of this run struck

vars == <<run, db, tx, broken, locked, pc, handling, outcome, rows, judge,
          graded, report, faults, attempts, blame>>

NotGraded == [score |-> Nothing, rows |-> <<>>]

\* What the row of a case that failed is given: eval_score if succeeded else 0.
FailedGrade == [score |-> 0, rows |-> <<>>]

Open == [status |-> "running", passed |-> "null", eval |-> NotGraded]

\* The jobs row, the wallet, the case's row and the timeline: `by` is who
\* ended the job.
FreshRows ==
    [status |-> "running", by |-> "nobody", cost |-> 0, debited |-> 0,
     eval |-> NotGraded, case |-> Open, told |-> {}]

\* A JSON null in a dataset is an expected output offline and none hosted.
Claims ==
    [runtime : Runtimes, agentic : BOOLEAN, evals : Suites,
     case : BOOLEAN, expected : {"absent", "null", "given"}]

\* Only an agentic skill declares evals; a local suite refuses other skills
\* and those without graders, and all its runs are cases.
Legal(c) ==
    /\ ~c.agentic => c.evals = <<>>
    /\ c.runtime = "local" => c.agentic /\ c.evals # <<>> /\ c.case
    /\ ~c.case => c.expected = "absent"

Init ==
    /\ run \in {c \in Claims : Legal(c)}
    /\ db = FreshRows /\ tx = FreshRows
    /\ broken = FALSE /\ locked = FALSE
    /\ pc = "run" /\ handling = FALSE /\ outcome = "running"
    /\ rows = <<>> /\ judge = FALSE /\ graded = NotGraded
    /\ report = <<>>
    /\ faults = 0 /\ attempts = 1 /\ blame = {}

hosted == run.runtime = "hosted"
-----------------------------------------------------------------------------
(* Statements.                                                             *)

gradeVars == <<rows, judge, graded>>
restVars == <<run, report, attempts>>

\* A statement goes wrong in an aborted transaction, or by a fault of its own.
Wrong(where) ==
    \/ broken /\ UNCHANGED <<faults, blame>>
    \/ /\ ~broken /\ "statement" \in Faults /\ faults < MaxFaults
       /\ faults' = faults + 1
       /\ blame' = blame \cup {where}

\* It goes well: the transaction sees it.
Runs(seen, lock, next) ==
    /\ ~broken
    /\ tx' = seen
    /\ locked' = (locked \/ lock)
    /\ pc' = next
    /\ UNCHANGED <<db, broken, handling, outcome, faults, blame>>

\* The session rolls back and the error reaches _process_one: its handler
\* starts a session of its own, whose own error is only logged.
RollBack ==
    /\ tx' = db
    /\ broken' = FALSE /\ locked' = FALSE
    /\ IF handling THEN pc' = "closed" ELSE pc' = "mark_failed"
    /\ handling' = TRUE
    /\ outcome' = "failed"

Raises(where) == Wrong(where) /\ RollBack /\ UNCHANGED db

\* Somebody caught the error and went on: nobody rolled back.
Swallows(where, next) ==
    /\ Wrong(where)
    /\ broken' = TRUE
    /\ pc' = next
    /\ UNCHANGED <<db, tx, locked, handling, outcome>>
-----------------------------------------------------------------------------
(* The run itself, as the end of the job sees it.                          *)

\* run_agent returned; what it accrued it committed as it went.  The output
\* passed its schema, its files are filed, pushed and listed.
RunAgent ==
    /\ pc = "run" /\ hosted /\ run.agentic
    /\ \E c \in RunCosts :
          /\ db' = [db EXCEPT !.cost = @ + c]
          /\ tx' = db'
    /\ \/ /\ pc' = IF run.case THEN "expected" ELSE "judge"
          /\ UNCHANGED <<handling, outcome, blame>>
       \/ /\ pc' = "mark_failed" /\ handling' = TRUE /\ outcome' = "failed"
          /\ blame' = blame \cup {"run"}
    /\ UNCHANGED <<broken, locked, gradeVars, restVars, faults>>

\* A function skill: it answers, it answers ok = false (the same session marks
\* the failure), or the call raises.  The API billed its media calls as they went.
RunFunction ==
    /\ pc = "run" /\ hosted /\ ~run.agentic
    /\ \E c \in RunCosts :
          /\ db' = [db EXCEPT !.cost = @ + c]
          /\ tx' = db'
    /\ \/ pc' = "charge" /\ UNCHANGED <<handling, outcome, blame>>
       \/ /\ pc' = "mark_failed" /\ outcome' = "failed"
          /\ handling' \in BOOLEAN
          /\ blame' = blame \cup {"run"}
    /\ UNCHANGED <<broken, locked, gradeVars, restVars, faults>>

\* lookup_eval_case_expected: what it finds is run.expected, read later.
LookupExpected ==
    /\ pc = "expected"
    /\ Runs(tx, FALSE, "judge") \/ Raises("expected")
    /\ UNCHANGED <<gradeVars, restVars>>
-----------------------------------------------------------------------------
(* run_evals: one list of graders, through the context of either runtime.  *)

\* What _score_evals returned; offline the case is written down.
afterGrading == IF hosted THEN "charge" ELSE "report"

Returns(g) ==
    /\ pc' = afterGrading
    /\ graded' = g
    /\ UNCHANGED <<db, tx, locked, handling, outcome>>

\* No graders: nothing to do.  A rubric asks for a judge, which there may
\* not be.
BuildJudge ==
    /\ pc = "judge"
    /\ IF run.evals = <<>>
          THEN Returns(NotGraded) /\ UNCHANGED judge
          ELSE /\ pc' = "grade"
               /\ \E b \in BOOLEAN :
                     /\ b => \E i \in DOMAIN run.evals :
                                 run.evals[i].kind = "rubric"
                     /\ judge' = b
               /\ UNCHANGED <<db, tx, locked, handling, outcome, graded>>
    /\ UNCHANGED <<broken, rows, restVars, faults, blame>>

hasExpected ==
    IF hosted THEN run.case /\ run.expected = "given"
              ELSE run.expected # "absent"

Current == run.evals[Len(rows) + 1]

\* check, exact_match, schema, and a rubric whose judge is missing or whose
\* call failed: a row, and no statement.
RowsWithoutCall(g) ==
    CASE g.kind = "check"       -> CheckRows(g)
      [] g.kind = "exact_match" -> ExactMatchRows(g, hasExpected)
      [] g.kind = "schema"      -> SchemaRows(g)
      [] g.kind = "rubric"      -> {Zero(g)}

Grade ==
    /\ pc = "grade" /\ Len(rows) < Len(run.evals)
    /\ \E r \in RowsWithoutCall(Current) : rows' = Append(rows, r)
    /\ UNCHANGED <<db, tx, broken, locked, pc, handling, outcome, judge,
                   graded, restVars, faults, blame>>

\* The judge answers and its call is metered: best effort, whatever it said.
JudgeAnswers ==
    /\ pc = "grade" /\ Len(rows) < Len(run.evals)
    /\ Current.kind = "rubric" /\ judge
    /\ \E r \in RubricRows(Current) : rows' = Append(rows, r)
    /\ IF hosted
          THEN \/ Runs([tx EXCEPT !.cost = @ + JudgeCost], TRUE, "grade")
               \/ Swallows("scoring", "grade")
          ELSE UNCHANGED <<db, tx, broken, locked, pc, handling, outcome,
                           faults, blame>>
    /\ UNCHANGED <<judge, graded, restVars>>

\* The mean and the `evals` event.  Nothing scored: no event.  NaN: round()
\* raises, and _score_evals catches it; offline the case catches it.
Weigh ==
    /\ pc = "grade" /\ Len(rows) = Len(run.evals)
    /\ LET score == WeightedScore(rows)
       IN  IF score \in {Nothing, NaN}
              THEN /\ Returns(NotGraded)
                   /\ UNCHANGED <<broken, faults, blame>>
              ELSE IF hosted
              THEN \/ /\ Runs([tx EXCEPT !.told = @ \cup {"evals"}],
                              FALSE, "charge")
                      /\ graded' = [score |-> score, rows |-> rows]
                   \/ /\ Swallows("scoring", "charge")
                      /\ graded' = NotGraded
              ELSE /\ Returns([score |-> score, rows |-> rows])
                   /\ UNCHANGED <<broken, faults, blame>>
    /\ UNCHANGED <<rows, judge, restVars>>
-----------------------------------------------------------------------------
(* The end of the transaction.                                             *)

\* A seeded bug: the debit is committed on its own, ahead of the rest.
FinalizeAtOnce ==
    /\ pc = "charge"
    /\ \/ /\ Wrong("charge") /\ RollBack /\ UNCHANGED db
       \/ /\ ~broken
          /\ db' = [tx EXCEPT !.debited = @ + tx.cost]
          /\ tx' = [tx EXCEPT !.debited = @ + tx.cost]
          /\ locked' = FALSE
          /\ pc' = "mark_succeeded"
          /\ UNCHANGED <<broken, handling, outcome, faults, blame>>
    /\ UNCHANGED <<gradeVars, restVars>>

\* The wallet pays what the jobs row says the run has cost so far.
FinalizeCharges ==
    /\ pc = "charge"
    /\ \/ Runs([tx EXCEPT !.debited = @ + tx.cost], FALSE, "mark_succeeded")
       \/ Raises("charge")
    /\ UNCHANGED <<gradeVars, restVars>>

afterMark == IF run.case THEN "case" ELSE "tell"

\* ... where status = 'running': whoever ended the job first wins.
Marked(status, eval) ==
    IF tx.status = "running"
       THEN [tx EXCEPT !.status = status, !.by = "worker", !.eval = eval]
       ELSE tx

MarkSucceeded ==
    /\ pc = "mark_succeeded"
    /\ \/ Runs(Marked("succeeded", graded), tx.status = "running", afterMark)
       \/ Raises("mark")
    /\ UNCHANGED <<gradeVars, restVars>>

MarkFailed ==
    /\ pc = "mark_failed"
    /\ \/ Runs(Marked("failed", NotGraded), tx.status = "running", afterMark)
       \/ Raises("mark")
    /\ UNCHANGED <<gradeVars, restVars>>

ending == IF outcome = "failed" THEN "failed" ELSE "succeeded"

Verdict(g) ==
    IF g = NotGraded THEN "null"
    ELSE IF AllPassed(g.rows) THEN "passed" ELSE "not passed"

CaseRow ==
    IF ending = "succeeded"
       THEN [status |-> "succeeded", passed |-> Verdict(graded), eval |-> graded]
       ELSE [status |-> "failed", passed |-> "not passed", eval |-> FailedGrade]

\* A seeded bug: the grade is written on a connection of its own.
RecordCaseAside ==
    /\ pc = "case"
    /\ \/ /\ ~broken
          /\ db' = [db EXCEPT !.case = CaseRow]
          /\ tx' = [tx EXCEPT !.case = CaseRow]
          /\ pc' = "tell"
          /\ UNCHANGED <<broken, locked, handling, outcome, faults, blame>>
       \/ Swallows("case", "tell")
    /\ UNCHANGED <<gradeVars, restVars>>

\* get_job_cost and the case's row, each of whose errors is swallowed.
RecordCase ==
    /\ pc = "case"
    /\ \/ Runs([tx EXCEPT !.case = CaseRow], FALSE, "tell")
       \/ Swallows("case", "tell")
    /\ UNCHANGED <<gradeVars, restVars>>

Tell ==
    /\ pc = "tell"
    /\ \/ Runs([tx EXCEPT !.told = @ \cup {ending}], FALSE, "commit")
       \/ Raises("tell")
    /\ UNCHANGED <<gradeVars, restVars>>

Struck(fault) ==
    /\ fault \in Faults /\ faults < MaxFaults
    /\ faults' = faults + 1
    /\ blame' = blame \cup {"commit"}

\* The session's last act: it commits, the commit fails, or it succeeds and
\* the answer is lost.
Commit ==
    /\ pc = "commit"
    /\ \/ /\ db' = tx /\ tx' = tx
          /\ broken' = FALSE /\ locked' = FALSE
          /\ pc' = "closed" /\ outcome' = ending
          /\ UNCHANGED <<handling, faults, blame>>
       \/ Struck("commit") /\ RollBack /\ UNCHANGED db
       \/ /\ Struck("unacknowledged")
          /\ db' = tx /\ tx' = tx
          /\ broken' = FALSE /\ locked' = FALSE
          /\ IF handling THEN pc' = "closed" ELSE pc' = "mark_failed"
          /\ handling' = TRUE /\ outcome' = "failed"
    /\ UNCHANGED <<gradeVars, restVars>>
-----------------------------------------------------------------------------
(* The others.                                                             *)

\* The user cancels the job or the reaper fails it: an update that waits for
\* the row while our transaction holds it.
EndedByAnother ==
    /\ hosted /\ db.status = "running" /\ ~locked
    /\ \E s \in {"cancelled", "failed"} :
          /\ db' = [db EXCEPT !.status = s, !.by = "other"]
          /\ tx' = [tx EXCEPT !.status = s, !.by = "other"]
    /\ UNCHANGED <<broken, locked, pc, handling, outcome, gradeVars, restVars,
                   faults, blame>>

\* A drain cancels the slot at an await (CancelledError passes the handlers,
\* and the session closes without committing), or the machine dies: the job
\* is requeued, claimed again and run from its last checkpoint.
Requeued ==
    /\ hosted /\ pc # "closed" /\ attempts < MaxAttempts
    /\ tx' = db
    /\ broken' = FALSE /\ locked' = FALSE /\ handling' = FALSE
    /\ rows' = <<>> /\ judge' = FALSE /\ graded' = NotGraded
    /\ IF db.status = "running"
          THEN pc' = "run" /\ outcome' = "running" /\ attempts' = attempts + 1
          ELSE pc' = "closed" /\ outcome' = "requeued" /\ UNCHANGED attempts
    /\ UNCHANGED <<db, run, report, faults, blame>>
-----------------------------------------------------------------------------
(* A suite of cases offline: no rows, no transaction, a line per case.     *)

\* The next case, or the report.
Reported(line) ==
    /\ report' = Append(report, line)
    /\ rows' = <<>> /\ judge' = FALSE /\ graded' = NotGraded
    /\ pc' = IF Len(report) + 1 < Cases THEN "run" ELSE "closed"
    /\ UNCHANGED <<run, db, tx, broken, locked, handling, outcome, faults,
                   attempts, blame>>

Errored == [passed |-> "not passed", eval |-> NotGraded]

\* run_agent returns, or the case is written down with its error.
RunLocalCase ==
    /\ pc = "run" /\ ~hosted
    /\ \/ /\ pc' = "judge"
          /\ UNCHANGED <<run, db, tx, broken, locked, handling, outcome, rows,
                         judge, graded, report, faults, attempts, blame>>
       \/ Reported(Errored)

\* Offline a case nothing could grade has not passed.
ReportCase ==
    /\ pc = "report"
    /\ Reported([passed |-> IF AllPassed(graded.rows) THEN "passed"
                            ELSE "not passed",
                 eval |-> graded])

Closed == pc = "closed" /\ UNCHANGED vars

Next ==
    \/ RunAgent \/ RunFunction \/ LookupExpected
    \/ BuildJudge \/ Grade \/ JudgeAnswers \/ Weigh
    \/ FinalizeCharges \/ MarkSucceeded \/ MarkFailed
    \/ RecordCase \/ Tell \/ Commit
    \/ EndedByAnother \/ Requeued
    \/ RunLocalCase \/ ReportCase
    \/ Closed

Spec == Init /\ [][Next]_vars
-----------------------------------------------------------------------------
(* What the end of a run promises.                                         *)

\* The wallet pays once, for a run that succeeded and for all of it, the
\* judge's calls included: a run the worker failed paid nothing, and nothing
\* is left of the debits of the transactions that were lost, whether a
\* statement broke them, the commit did, or the slot was taken away.
ChargedWithTheRun ==
    /\ db.debited \in {0, db.cost}
    /\ db.status = "succeeded" => db.debited = db.cost
    /\ db.status = "failed" /\ db.by = "worker" => db.debited = 0

\* The row of an eval case, the jobs row and the timeline tell one story: the
\* case has the outcome the timeline announced, never "succeeded" for a run
\* the worker failed nor "failed" for one that succeeded, however many of the
\* statements that write them went wrong and whoever swallowed the error.
CaseTellsTheRun ==
    LET case == db.case.status
    IN  /\ case = "succeeded" => db.status = "succeeded" \/ db.by = "other"
        /\ case = "failed" => db.status # "succeeded"
        /\ run.case => \A e \in {"succeeded", "failed"} :
                           e \in db.told <=> case = e
        /\ case = "succeeded" /\ db.status = "succeeded"
              => db.case.eval = db.eval

graders(kinds) == {i \in DOMAIN run.evals : run.evals[i].kind \in kinds}

verdicts ==
    {db.case} \cup {report[i] : i \in DOMAIN report}

PassedByAll(v) ==
    LET must == graders({"check", "rubric"}) \cup
                (IF hasExpected THEN graders({"exact_match"}) ELSE {})
    IN  /\ \E i \in DOMAIN v.eval.rows : v.eval.rows[i].passed
        /\ \A i \in must : v.eval.rows[i].passed

WithinTheScores(e) ==
    LET s == {e.rows[i].score : i \in {j \in DOMAIN e.rows : ~e.rows[j].skipped}}
    IN  /\ \E lo \in s : lo <= e.score
        /\ \E hi \in s : e.score <= hi

\* What graders have said of the job, of its case and of the cases offline.
grades ==
    {db.eval} \cup {report[i].eval : i \in DOMAIN report}
              \cup (IF db.case.status = "failed" THEN {} ELSE {db.case.eval})

\* Hosted and offline, a case passes only if something graded it and nothing
\* it could be graded by says otherwise: every check and every judged criterion
\* passed, and the expected output, where there is one, was met.  A score
\* lies between those of the graders that had something to grade: a grader that
\* was skipped does not drag it down.  Only a hosted case that failed has a score
\* no grader gave, 0, whatever its graders said before it failed.
VerdictIsTheGraders ==
    /\ \A v \in verdicts : v.passed = "passed" => PassedByAll(v)
    /\ \A e \in grades : e.score # Nothing => WithinTheScores(e)
    /\ db.case.status = "failed" =>
          db.case.passed = "not passed" /\ db.case.eval = FailedGrade

\* What the comments of _score_evals and _finalize_eval_case promise: when
\* all that went wrong is the grading and its bookkeeping, the worker does
\* not fail the job.
ScoringNeverFailsTheJob ==
    blame # {} /\ blame \subseteq {"scoring", "case"}
       => ~(db.status = "failed" /\ db.by = "worker")
=============================================================================
