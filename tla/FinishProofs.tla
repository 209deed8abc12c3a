---------------------------- MODULE FinishProofs ----------------------------
(***************************************************************************)
(* For every suite of graders, every cost, every fault and any number of   *)
(* attempts: the wallet is charged with the run (ChargedWithTheRun).  And, *)
(* as long as no answer to a commit is lost, an eval case tells what its   *)
(* run did (CaseTellsTheRun).                                              *)
(*                                                                         *)
(* Both arguments follow the transaction.  While it is open, nobody but    *)
(* another actor has written the committed rows, and the transaction sees  *)
(* their status; when it is about to commit, what it sees is already what  *)
(* the property asks of the committed rows.                                *)
(*                                                                         *)
(* And for every suite and every score in hundredths: a case passes only   *)
(* as all its graders say, and its score lies between theirs               *)
(* (VerdictIsTheGraders).  A weighted mean does, whatever the weights; its *)
(* sum is a fold, whose bounds are proved by the smallest set of graders   *)
(* that would break them.                                                  *)
(***************************************************************************)
EXTENDS Finish, FiniteSetTheorems, WellFoundedInduction, TLAPS

IsRows(r) ==
    /\ r = [status |-> r.status, by |-> r.by, cost |-> r.cost,
            debited |-> r.debited, eval |-> r.eval, case |-> r.case,
            told |-> r.told]
    /\ r.cost \in Nat /\ r.debited \in Nat

\* ChargedWithTheRun, of the committed rows or of those a transaction sees.
Paid(r) ==
    /\ r.debited \in {0, r.cost}
    /\ r.status = "succeeded" => r.debited = r.cost
    /\ r.status = "failed" /\ r.by = "worker" => r.debited = 0

Unpaid == {"run", "expected", "judge", "grade", "charge"}
Early == Unpaid \cup {"mark_succeeded"}
Late == {"case", "tell", "commit"}

\* A job still running has no debit; one that is not is out of reach of
\* everybody but this transaction, which holds its row once it has ended it.
Untouched ==
    /\ db.status = "running" => db.debited = 0 /\ db.by = "nobody"
    /\ pc \in Late /\ db.status = "running" => locked

\* No run is past its mark yet: nothing committed was paid.
BeforeTheMark ==
    pc \in Early =>
        /\ db.debited = 0 /\ db.status # "succeeded"
        /\ db.status # "running" => db.by = "other"
        /\ tx.status = db.status /\ tx.by = db.by
        /\ pc \in Unpaid => tx.debited = 0
        /\ pc = "mark_succeeded" => tx.debited = tx.cost

\* A transaction with nothing in it, and what a local run leaves alone.
Empty ==
    /\ pc \in {"run", "expected", "mark_failed"} => tx = db
    /\ ~hosted => /\ pc \in {"run", "judge", "grade", "report", "closed"}
                  /\ tx = db /\ db.debited = 0 /\ db.status = "running"
    /\ pc = "report" => ~hosted

AfterTheMark == pc \in Late => Paid(tx) /\ tx.status # "running"

MoneyInv ==
    /\ IsRows(db) /\ IsRows(tx) /\ Paid(db)
    /\ Untouched /\ BeforeTheMark /\ Empty /\ AfterTheMark

\* A claimed job has nothing charged and nothing told.
LEMMA InitMoney == Init => MoneyInv
  BY FinishAssumption
     DEF Init, MoneyInv, FreshRows, IsRows, Paid, Untouched, BeforeTheMark,
         Empty, AfterTheMark, Early, Unpaid, Late, hosted

\* A rollback leaves the committed rows, and nothing else.
LEMMA RollBackMoney ==
    ASSUME MoneyInv, hosted, RollBack, UNCHANGED <<db, run>>
    PROVE  MoneyInv'
  BY DEF MoneyInv, RollBack, IsRows, Paid, Untouched, BeforeTheMark, Empty,
         AfterTheMark, Early, Unpaid, Late, hosted

\* A step that writes no row and comes to no statement whose facts it did not
\* have.
LEMMA QuietMoney ==
    ASSUME MoneyInv, UNCHANGED <<db, tx, run>>, locked => locked',
           pc' \in Unpaid => pc \in Unpaid,
           pc' = "mark_succeeded" => pc = "mark_succeeded",
           pc' \in {"run", "expected", "mark_failed"} => tx = db,
           pc' \in Late => pc \in Late,
           ~hosted => pc' \in {"run", "judge", "grade", "report", "closed"},
           pc' = "report" => ~hosted \/ pc = "report"
    PROVE  MoneyInv'
  BY DEF MoneyInv, IsRows, Paid, Untouched, BeforeTheMark, Empty,
         AfterTheMark, Early, Unpaid, Late, hosted

\* One action per step: what it writes is Paid, or not to be committed yet.
LEMMA StepMoney == MoneyInv /\ [Next]_vars => MoneyInv'
<1> SUFFICES ASSUME MoneyInv, [Next]_vars PROVE MoneyInv' OBVIOUS
<1> USE FinishAssumption DEF Early, Unpaid, Late, gradeVars, restVars
<1>1. CASE RunAgent
  <2>1. PICK c \in RunCosts :
            db' = [db EXCEPT !.cost = @ + c] /\ tx' = db'
    BY <1>1 DEF RunAgent
  <2>2. IsRows(db') /\ Paid(db')
    BY SMTT(30), <1>1, <2>1 DEF RunAgent, MoneyInv, IsRows, Paid, BeforeTheMark
  <2> QED BY <1>1, <2>1, <2>2
          DEF RunAgent, MoneyInv, IsRows, Untouched, BeforeTheMark, Empty,
              AfterTheMark, hosted
<1>2. CASE RunFunction
  <2>1. PICK c \in RunCosts :
            db' = [db EXCEPT !.cost = @ + c] /\ tx' = db'
    BY <1>2 DEF RunFunction
  <2>2. IsRows(db') /\ Paid(db')
    BY <1>2, <2>1 DEF RunFunction, MoneyInv, IsRows, Paid, BeforeTheMark
  <2> QED BY <1>2, <2>1, <2>2
          DEF RunFunction, MoneyInv, IsRows, Untouched, BeforeTheMark, Empty,
              AfterTheMark, hosted
<1>3. CASE LookupExpected
  <2>1. hosted BY <1>3 DEF LookupExpected, MoneyInv, Empty
  <2>2. CASE Runs(tx, FALSE, "judge")
    BY <1>3, <2>1, <2>2, QuietMoney DEF Runs, LookupExpected
  <2>3. CASE Raises("expected")
    BY <1>3, <2>1, <2>3, RollBackMoney DEF Raises, LookupExpected
  <2> QED BY <1>3, <2>2, <2>3 DEF LookupExpected
<1>4. CASE BuildJudge
  BY <1>4, QuietMoney DEF BuildJudge, Returns, afterGrading, hosted, MoneyInv, BeforeTheMark, Empty
<1>5. CASE Grade
  BY <1>5, QuietMoney DEF Grade, MoneyInv, Empty
<1>6. CASE JudgeAnswers
  <2>1. CASE hosted
    <3>1. CASE Runs([tx EXCEPT !.cost = @ + JudgeCost], TRUE, "grade")
      <4>1. IsRows(tx') /\ tx'.debited = tx.debited /\ tx'.status = tx.status
            /\ tx'.by = tx.by
        BY <3>1 DEF Runs, MoneyInv, IsRows
      <4> QED BY <1>6, <2>1, <3>1, <4>1
              DEF JudgeAnswers, Runs, MoneyInv, Untouched, BeforeTheMark,
                  Empty, AfterTheMark, hosted
    <3>2. CASE Swallows("scoring", "grade")
      BY <1>6, <2>1, <3>2, QuietMoney DEF JudgeAnswers, Swallows
    <3> QED BY <1>6, <2>1, <3>1, <3>2 DEF JudgeAnswers
  <2>2. CASE ~hosted
    BY <1>6, <2>2, QuietMoney DEF JudgeAnswers, MoneyInv, Empty
  <2> QED BY <2>1, <2>2
<1>7. CASE Weigh
  <2>1. CASE Runs([tx EXCEPT !.told = @ \cup {"evals"}], FALSE, "charge") /\ hosted
    <3>1. IsRows(tx') /\ tx'.debited = tx.debited /\ tx'.status = tx.status
          /\ tx'.by = tx.by
      BY <2>1 DEF Runs, MoneyInv, IsRows
    <3> QED BY <1>7, <2>1, <3>1
            DEF Weigh, Runs, MoneyInv, Untouched, BeforeTheMark, Empty,
                AfterTheMark, hosted
  <2>2. CASE Swallows("scoring", "charge") /\ hosted
    BY <1>7, <2>2, QuietMoney DEF Weigh, Swallows
  <2>3. ASSUME NEW g, Returns(g) PROVE MoneyInv'
    BY <1>7, <2>3, QuietMoney DEF Weigh, Returns, afterGrading, hosted
  <2> QED BY <1>7, <2>1, <2>2, <2>3 DEF Weigh
<1>8. CASE FinalizeCharges
  <2>1. hosted BY <1>8 DEF FinalizeCharges, MoneyInv, Empty
  <2>2. CASE Runs([tx EXCEPT !.debited = @ + tx.cost], FALSE, "mark_succeeded")
    <3>1. IsRows(tx') /\ tx'.debited = tx'.cost /\ tx'.status = tx.status
          /\ tx'.by = tx.by
      BY <1>8, <2>2 DEF FinalizeCharges, Runs, MoneyInv, IsRows, BeforeTheMark
    <3> QED BY <1>8, <2>1, <2>2, <3>1
            DEF FinalizeCharges, Runs, MoneyInv, Untouched, BeforeTheMark,
                Empty, AfterTheMark, hosted
  <2>3. CASE Raises("charge")
    BY <1>8, <2>1, <2>3, RollBackMoney DEF Raises, FinalizeCharges
  <2> QED BY <1>8, <2>2, <2>3 DEF FinalizeCharges
<1>9. CASE MarkSucceeded
  <2>1. hosted BY <1>9 DEF MarkSucceeded, MoneyInv, Empty
  <2>2. CASE Runs(Marked("succeeded", graded), tx.status = "running", afterMark)
    <3>1. IsRows(tx') /\ Paid(tx') /\ tx'.status # "running"
      BY <1>9, <2>2 DEF MarkSucceeded, Runs, Marked, MoneyInv, IsRows, Paid, BeforeTheMark
    <3>2. pc' \in Late /\ (db.status = "running" => locked')
      BY <1>9, <2>2 DEF MarkSucceeded, Runs, MoneyInv, BeforeTheMark, afterMark
    <3> QED BY <1>9, <2>1, <2>2, <3>1, <3>2
            DEF MarkSucceeded, Runs, MoneyInv, Untouched, BeforeTheMark,
                Empty, AfterTheMark, hosted
  <2>3. CASE Raises("mark")
    BY <1>9, <2>1, <2>3, RollBackMoney DEF Raises, MarkSucceeded
  <2> QED BY <1>9, <2>2, <2>3 DEF MarkSucceeded
<1>10. CASE MarkFailed
  <2>1. hosted BY <1>10 DEF MarkFailed, MoneyInv, Empty
  <2>2. CASE Runs(Marked("failed", NotGraded), tx.status = "running", afterMark)
    <3>1. IsRows(tx') /\ Paid(tx') /\ tx'.status # "running"
      BY <1>10, <2>2 DEF MarkFailed, Runs, Marked, MoneyInv, IsRows, Paid, Empty, Untouched
    <3>2. pc' \in Late /\ (db.status = "running" => locked')
      BY <1>10, <2>2 DEF MarkFailed, Runs, MoneyInv, Empty, afterMark
    <3> QED BY <1>10, <2>1, <2>2, <3>1, <3>2
            DEF MarkFailed, Runs, MoneyInv, Untouched, BeforeTheMark,
                Empty, AfterTheMark, hosted
  <2>3. CASE Raises("mark")
    BY <1>10, <2>1, <2>3, RollBackMoney DEF Raises, MarkFailed
  <2> QED BY <1>10, <2>2, <2>3 DEF MarkFailed
<1>11. CASE RecordCase
  <2>1. CASE Runs([tx EXCEPT !.case = CaseRow], FALSE, "tell")
    <3>1. IsRows(tx') /\ Paid(tx') /\ tx'.status = tx.status
      BY <1>11, <2>1 DEF RecordCase, Runs, MoneyInv, IsRows, Paid, AfterTheMark
    <3> QED BY <1>11, <2>1, <3>1
            DEF RecordCase, Runs, MoneyInv, Untouched, BeforeTheMark, Empty,
                AfterTheMark, hosted
  <2>2. CASE Swallows("case", "tell")
    BY <1>11, <2>2, QuietMoney DEF RecordCase, Swallows, MoneyInv, Empty
  <2> QED BY <1>11, <2>1, <2>2 DEF RecordCase
<1>12. CASE Tell
  <2>1. hosted BY <1>12 DEF Tell, MoneyInv, Empty
  <2>2. CASE Runs([tx EXCEPT !.told = @ \cup {ending}], FALSE, "commit")
    <3>1. IsRows(tx') /\ Paid(tx') /\ tx'.status = tx.status
      BY <1>12, <2>2 DEF Tell, Runs, MoneyInv, IsRows, Paid, AfterTheMark
    <3> QED BY <1>12, <2>1, <2>2, <3>1
            DEF Tell, Runs, MoneyInv, Untouched, BeforeTheMark, Empty,
                AfterTheMark, hosted
  <2>3. CASE Raises("tell")
    BY <1>12, <2>1, <2>3, RollBackMoney DEF Raises, Tell
  <2> QED BY <1>12, <2>2, <2>3 DEF Tell
<1>13. CASE Commit
  <2>1. hosted /\ IsRows(tx) /\ Paid(tx) /\ tx.status # "running"
    BY <1>13 DEF Commit, MoneyInv, Empty, AfterTheMark
  <2>2. CASE db' = tx /\ tx' = tx /\ pc' \in {"closed", "mark_failed"}
    BY <1>13, <2>1, <2>2
       DEF Commit, MoneyInv, Untouched, BeforeTheMark, Empty, AfterTheMark, hosted
  <2>3. CASE RollBack /\ UNCHANGED db
    BY <1>13, <2>1, <2>3, RollBackMoney DEF Commit
  <2> QED BY <1>13, <2>2, <2>3 DEF Commit
<1>14. CASE EndedByAnother
  <2>1. PICK s \in {"cancelled", "failed"} :
            /\ db' = [db EXCEPT !.status = s, !.by = "other"]
            /\ tx' = [tx EXCEPT !.status = s, !.by = "other"]
    BY <1>14 DEF EndedByAnother
  <2>2. pc \notin Late BY <1>14 DEF EndedByAnother, MoneyInv, Untouched
  <2>3. IsRows(db') /\ IsRows(tx') /\ Paid(db')
    BY <1>14, <2>1 DEF EndedByAnother, MoneyInv, IsRows, Paid, Untouched
  <2>4. /\ db'.status = s /\ db'.by = "other" /\ db'.debited = db.debited
        /\ tx'.status = s /\ tx'.by = "other" /\ tx'.debited = tx.debited
        /\ tx'.cost = tx.cost /\ (tx = db => tx' = db')
    BY <2>1 DEF MoneyInv, IsRows
  <2>5. hosted /\ UNCHANGED <<pc, run>> BY <1>14 DEF EndedByAnother
  <2>6. BeforeTheMark'
    BY <1>14, <2>1, <2>4, <2>5 DEF EndedByAnother, MoneyInv, Untouched, BeforeTheMark
  <2>7. Untouched' /\ Empty' /\ AfterTheMark'
    BY <2>2, <2>4, <2>5 DEF MoneyInv, Untouched, Empty, AfterTheMark, hosted
  <2> QED BY <2>3, <2>6, <2>7 DEF MoneyInv
<1>15. CASE Requeued
  BY <1>15 DEF Requeued, MoneyInv, IsRows, Paid, Untouched, BeforeTheMark,
               Empty, AfterTheMark, hosted
<1>16. CASE RunLocalCase
  BY <1>16, QuietMoney DEF RunLocalCase, Reported, MoneyInv, Empty
<1>17. CASE ReportCase
  <2>1. UNCHANGED <<db, tx, run, locked>> /\ pc' \in {"run", "closed"} /\ ~hosted
        /\ tx = db /\ db.debited = 0 /\ db.status = "running"
    BY <1>17 DEF ReportCase, Reported, MoneyInv, Empty, hosted
  <2> QED BY <2>1 DEF MoneyInv, IsRows, Paid, Untouched, BeforeTheMark,
                      Empty, AfterTheMark, hosted
<1>18. CASE Closed \/ UNCHANGED vars
  BY <1>18, QuietMoney DEF Closed, vars, MoneyInv, Empty
<1> QED
  BY <1>1, <1>2, <1>3, <1>4, <1>5, <1>6, <1>7, <1>8, <1>9, <1>10, <1>11,
     <1>12, <1>13, <1>14, <1>15, <1>16, <1>17, <1>18 DEF Next

\* However the end of a run is interrupted, the wallet pays once, for a run that
\* succeeded and for all of it, and not for one the worker failed
\* (finalize_charges in the transaction of mark_succeeded).
THEOREM ChargedOnce == Spec => []ChargedWithTheRun
<1>1. MoneyInv => ChargedWithTheRun
  BY DEF MoneyInv, Paid, ChargedWithTheRun
<1> QED BY InitMoney, StepMoney, <1>1, PTL DEF Spec
-----------------------------------------------------------------------------
(* The case, the timeline and the job.                                     *)

Grading == Early \cup {"report"}

\* CaseTellsTheRun, of the committed rows or of those a transaction sees.
Tells(r) ==
    LET case == r.case.status
    IN  /\ case = "succeeded" => r.status = "succeeded" \/ r.by = "other"
        /\ case = "failed" => r.status # "succeeded"
        /\ run.case => \A e \in {"succeeded", "failed"} : e \in r.told <=> case = e
        /\ case = "succeeded" /\ r.status = "succeeded" => r.case.eval = r.eval

Silent(r) == r.case = Open /\ r.told \subseteq {"evals"}

\* Until its one commit the run has told nobody anything.
NothingTold ==
    /\ pc # "closed" => Silent(db) /\ db.status # "succeeded"
    /\ db.status = "running" => Silent(db)

\* The local `status` of _process_one is that of the branch it is in.
InBranch ==
    /\ pc \in Grading => outcome # "failed" /\ Silent(tx)
    /\ pc = "mark_failed" => outcome = "failed"

\* What was marked is what the case and the event are about to say: a failed
\* statement lets the event fail too.
AboutToTell ==
    pc \in Late =>
        /\ ending = "succeeded" =>
              \/ tx.status = "succeeded" /\ tx.eval = graded
              \/ tx.status # "succeeded" /\ tx.by = "other"
        /\ ending = "failed" => tx.status # "succeeded"
        /\ pc = "case" => run.case
        /\ pc # "commit" => tx.told \subseteq {"evals"}
        /\ pc = "commit" => tx.told \cap {"succeeded", "failed"} = {ending}
        /\ IF pc = "case" \/ ~run.case THEN tx.case = Open
           ELSE tx.case = CaseRow \/ (broken /\ pc = "tell")

StoryInv == Tells(db) /\ NothingTold /\ InBranch /\ AboutToTell

\* A case that has not begun tells of no run.
LEMMA InitStory == Init => StoryInv
  BY DEF Init, StoryInv, FreshRows, Open, Tells, Silent, NothingTold, InBranch,
         AboutToTell, Grading, Early, Unpaid, Late

\* A rollback forgets what the transaction was about to tell.
LEMMA RollBackStory ==
    ASSUME StoryInv, pc # "closed", RollBack, UNCHANGED <<db, run>>
    PROVE  StoryInv'
  BY DEF StoryInv, RollBack, Tells, Silent, NothingTold, InBranch, AboutToTell,
         Grading, Early, Unpaid, Late

\* A step of the run or of its grading that writes no row.
LEMMA QuietStory ==
    ASSUME StoryInv, UNCHANGED <<db, tx, run, outcome>>,
           pc \in Grading, pc' \in Grading \cup {"closed"}
    PROVE  StoryInv'
  BY DEF StoryInv, Tells, Silent, NothingTold, InBranch, AboutToTell, Grading,
         Early, Unpaid, Late

\* One action per step.  Only Commit writes what a run tells, and it ends it.
LEMMA StepStory ==
    ASSUME "unacknowledged" \notin Faults, MoneyInv, StoryInv, [Next]_vars
    PROVE  StoryInv'
<1> USE DEF Early, Unpaid, Late, Grading, gradeVars, restVars
<1>1. CASE RunAgent
  <2>1. PICK c \in RunCosts :
            db' = [db EXCEPT !.cost = @ + c] /\ tx' = db'
    BY <1>1 DEF RunAgent
  <2>2. /\ db'.status = db.status /\ db'.by = db.by /\ db'.case = db.case
        /\ db'.told = db.told /\ db'.eval = db.eval
    BY <2>1 DEF MoneyInv, IsRows
  <2> QED BY <1>1, <2>1, <2>2
          DEF RunAgent, StoryInv, Tells, Silent, NothingTold, InBranch, AboutToTell
<1>2. CASE RunFunction
  <2>1. PICK c \in RunCosts :
            db' = [db EXCEPT !.cost = @ + c] /\ tx' = db'
    BY <1>2 DEF RunFunction
  <2>2. /\ db'.status = db.status /\ db'.by = db.by /\ db'.case = db.case
        /\ db'.told = db.told /\ db'.eval = db.eval
    BY <2>1 DEF MoneyInv, IsRows
  <2> QED BY <1>2, <2>1, <2>2
          DEF RunFunction, StoryInv, Tells, Silent, NothingTold, InBranch, AboutToTell
<1>3. CASE LookupExpected
  BY <1>3, QuietStory, RollBackStory DEF LookupExpected, Runs, Raises
<1>4. CASE BuildJudge
  BY <1>4, QuietStory DEF BuildJudge, Returns, afterGrading
<1>5. CASE Grade
  BY <1>5, QuietStory DEF Grade
<1>6. CASE JudgeAnswers
  <2>1. CASE Runs([tx EXCEPT !.cost = @ + JudgeCost], TRUE, "grade")
    <3>1. tx'.case = tx.case /\ tx'.told = tx.told
      BY <2>1 DEF Runs, MoneyInv, IsRows
    <3> QED BY <1>6, <2>1, <3>1
            DEF JudgeAnswers, Runs, StoryInv, Tells, Silent, NothingTold, InBranch, AboutToTell
  <2>2. CASE UNCHANGED <<db, tx, outcome, pc>>
    BY <1>6, <2>2, QuietStory DEF JudgeAnswers
  <2> QED BY <1>6, <2>1, <2>2 DEF JudgeAnswers, Swallows
<1>7. CASE Weigh
  <2>1. CASE Runs([tx EXCEPT !.told = @ \cup {"evals"}], FALSE, "charge")
    <3>1. tx'.case = tx.case /\ tx'.told = tx.told \cup {"evals"}
      BY <2>1 DEF Runs, MoneyInv, IsRows
    <3> QED BY <1>7, <2>1, <3>1
            DEF Weigh, Runs, StoryInv, Tells, Silent, NothingTold, InBranch, AboutToTell
  <2>2. CASE UNCHANGED <<db, tx, outcome>> /\ pc' \in {"charge", "report"}
    BY <1>7, <2>2, QuietStory DEF Weigh
  <2> QED BY <1>7, <2>1, <2>2 DEF Weigh, Swallows, Returns, afterGrading
<1>8. CASE FinalizeCharges
  <2>1. CASE Runs([tx EXCEPT !.debited = @ + tx.cost], FALSE, "mark_succeeded")
    <3>1. tx'.case = tx.case /\ tx'.told = tx.told
      BY <2>1 DEF Runs, MoneyInv, IsRows
    <3> QED BY <1>8, <2>1, <3>1
            DEF FinalizeCharges, Runs, StoryInv, Tells, Silent, NothingTold, InBranch, AboutToTell
  <2> QED BY <1>8, <2>1, RollBackStory DEF FinalizeCharges, Raises
<1>9. CASE MarkSucceeded
  <2>1. CASE Runs(Marked("succeeded", graded), tx.status = "running", afterMark)
    <3>1. tx'.case = tx.case /\ tx'.told = tx.told
      BY <2>1 DEF Runs, Marked, MoneyInv, IsRows
    <3>2. \/ tx'.status = "succeeded" /\ tx'.eval = graded'
          \/ tx'.status # "succeeded" /\ tx'.by = "other"
      BY <1>9, <2>1 DEF MarkSucceeded, Runs, Marked, MoneyInv, IsRows, BeforeTheMark
    <3>3. ending' = "succeeded" BY <1>9, <2>1 DEF MarkSucceeded, Runs, StoryInv, InBranch, ending
    <3>4. pc' = (IF run.case THEN "case" ELSE "tell") /\ Silent(tx) /\ UNCHANGED <<db, run>>
      BY <1>9, <2>1 DEF MarkSucceeded, Runs, afterMark, StoryInv, InBranch
    <3> QED BY <1>9, <3>1, <3>2, <3>3, <3>4
            DEF MarkSucceeded, StoryInv, Tells, Silent, NothingTold, InBranch, AboutToTell
  <2> QED BY <1>9, <2>1, RollBackStory DEF MarkSucceeded, Raises
<1>10. CASE MarkFailed
  <2>1. CASE Runs(Marked("failed", NotGraded), tx.status = "running", afterMark)
    <3>1. tx'.case = tx.case /\ tx'.told = tx.told /\ tx'.status # "succeeded"
      BY <1>10, <2>1 DEF MarkFailed, Runs, Marked, MoneyInv, IsRows, Empty, StoryInv, NothingTold
    <3>2. ending' = "failed" BY <1>10, <2>1 DEF MarkFailed, Runs, StoryInv, InBranch, ending
    <3>3. pc' = (IF run.case THEN "case" ELSE "tell") /\ Silent(tx) /\ UNCHANGED <<db, run>>
      BY <1>10, <2>1 DEF MarkFailed, Runs, afterMark, StoryInv, NothingTold, MoneyInv, Empty
    <3> QED BY <1>10, <3>1, <3>2, <3>3
            DEF MarkFailed, StoryInv, Tells, Silent, NothingTold, InBranch, AboutToTell
  <2> QED BY <1>10, <2>1, RollBackStory DEF MarkFailed, Raises
<1>11. CASE RecordCase
  <2>1. UNCHANGED <<ending, CaseRow, db, run, graded>> /\ pc' = "tell" /\ pc = "case"
    BY <1>11 DEF RecordCase, Runs, Swallows, ending, CaseRow
  <2>2. /\ tx'.status = tx.status /\ tx'.eval = tx.eval /\ tx'.by = tx.by
        /\ tx'.told = tx.told /\ (tx'.case = CaseRow \/ broken')
    BY <1>11 DEF RecordCase, Runs, Swallows, MoneyInv, IsRows
  <2> QED BY <2>1, <2>2
          DEF StoryInv, Tells, Silent, NothingTold, InBranch, AboutToTell
<1>12. CASE Tell
  <2>1. CASE Runs([tx EXCEPT !.told = @ \cup {ending}], FALSE, "commit")
    <3>1. UNCHANGED <<ending, CaseRow, db, run, graded>> /\ pc' = "commit" /\ pc = "tell" /\ ~broken
      BY <1>12, <2>1 DEF Tell, Runs, ending, CaseRow
    <3>2. /\ tx'.status = tx.status /\ tx'.eval = tx.eval /\ tx'.by = tx.by
          /\ tx'.case = tx.case /\ tx'.told = tx.told \cup {ending}
      BY <2>1 DEF Runs, MoneyInv, IsRows
    <3>3. tx'.told \cap {"succeeded", "failed"} = {ending}
      BY <3>1, <3>2 DEF StoryInv, AboutToTell, ending
    <3> QED BY <3>1, <3>2, <3>3
            DEF StoryInv, Tells, Silent, NothingTold, InBranch, AboutToTell
  <2> QED BY <1>12, <2>1, RollBackStory DEF Tell, Raises
<1>13. CASE Commit
  <2>1. CASE db' = tx /\ pc' = "closed" /\ UNCHANGED run
    <3>1. pc = "commit" /\ ending \in {"succeeded", "failed"}
      BY <1>13 DEF Commit, ending
    <3>2. CaseRow.status = ending /\ (ending = "succeeded" => CaseRow.eval = graded)
      BY DEF CaseRow, ending
    <3>3. ASSUME run.case PROVE Tells(tx)
      <4>1. tx.case = CaseRow BY <3>1, <3>3 DEF StoryInv, AboutToTell
      <4>2. \A e \in {"succeeded", "failed"} : e \in tx.told <=> ending = e
        BY <3>1 DEF StoryInv, AboutToTell
      <4> QED BY <3>1, <3>2, <4>1, <4>2 DEF StoryInv, AboutToTell, Tells
    <3>4. ASSUME ~run.case PROVE Tells(tx)
      BY <3>1, <3>4 DEF StoryInv, AboutToTell, Tells, Open
    <3>5. tx.status # "running" BY <1>13 DEF Commit, MoneyInv, AfterTheMark
    <3> QED BY <2>1, <3>3, <3>4, <3>5
            DEF StoryInv, Tells, NothingTold, InBranch, AboutToTell
  <2> QED BY <1>13, <2>1, RollBackStory DEF Commit, Struck
<1>14. CASE EndedByAnother
  <2>1. PICK s \in {"cancelled", "failed"} :
            /\ db' = [db EXCEPT !.status = s, !.by = "other"]
            /\ tx' = [tx EXCEPT !.status = s, !.by = "other"]
    BY <1>14 DEF EndedByAnother
  <2>2. /\ db'.status = s /\ db'.case = db.case /\ db'.told = db.told
        /\ tx'.case = tx.case /\ tx'.told = tx.told
    BY <2>1 DEF MoneyInv, IsRows
  <2>3. pc \notin Late BY <1>14 DEF EndedByAnother, MoneyInv, Untouched
  <2>4. db.case.status = "running" BY <1>14 DEF EndedByAnother, StoryInv, NothingTold, Silent, Open
  <2>5. Tells(db')
    BY <1>14, <2>2, <2>4 DEF EndedByAnother, StoryInv, NothingTold, Silent, Tells
  <2> QED BY <1>14, <2>2, <2>3, <2>5
          DEF EndedByAnother, StoryInv, Tells, Silent, NothingTold, InBranch, AboutToTell
<1>15. CASE Requeued
  BY <1>15 DEF Requeued, StoryInv, Tells, Silent, NothingTold, InBranch, AboutToTell
<1>16. CASE RunLocalCase
  BY <1>16, QuietStory DEF RunLocalCase, Reported
<1>17. CASE ReportCase
  BY <1>17, QuietStory DEF ReportCase, Reported
<1>18. CASE Closed \/ UNCHANGED vars
  <2>1. UNCHANGED <<ending, CaseRow>>
    BY <1>18 DEF Closed, vars, ending, CaseRow
  <2> QED BY <1>18, <2>1
          DEF Closed, vars, StoryInv, Tells, Silent, NothingTold, InBranch, AboutToTell
<1> QED
  BY <1>1, <1>2, <1>3, <1>4, <1>5, <1>6, <1>7, <1>8, <1>9, <1>10, <1>11,
     <1>12, <1>13, <1>14, <1>15, <1>16, <1>17, <1>18 DEF Next

\* An eval case, its job and the timeline agree whatever statement failed and
\* whoever swallowed it, unless a commit succeeds and its answer is lost
\* (_finalize_eval_case and emit_event in the transaction of the mark).
THEOREM CaseAgrees ==
    ASSUME "unacknowledged" \notin Faults
    PROVE  Spec => []CaseTellsTheRun
<1>1. StoryInv => CaseTellsTheRun
  BY DEF StoryInv, Tells, CaseTellsTheRun
<1> QED BY InitMoney, StepMoney, InitStory, StepStory, <1>1, PTL DEF Spec
-----------------------------------------------------------------------------
(* The weighted mean.                                                      *)

\* The sum of f over the sets of C, one chosen element at a time.
SumsOver(g, f, C) ==
    g = [s \in C |-> IF s = {} THEN 0
                     ELSE LET x == CHOOSE x \in s : TRUE IN f[x] + g[s \ {x}]]

\* The fold of the library, as a choice of a function that obeys SumsOver.
LEMMA Unfold ==
    ASSUME NEW f
    PROVE  Total(f) = (CHOOSE g : SumsOver(g, f, SUBSET DOMAIN f))[DOMAIN f]
BY DEF Total, FoldFunction, FoldFunctionOnSet, MapThenFoldSet, SumsOver

\* A set of naturals that is not empty has a least one.
LEMMA Least ==
    ASSUME NEW S \in SUBSET Nat, S # {}
    PROVE  \E k \in S : \A j \in S : ~ (j < k)
<1> DEFINE Segments == {0 .. k : k \in S}
<1>1. Segments \subseteq FiniteSubsetsOf(Nat) /\ Segments # {}
  <2>1. ASSUME NEW k \in S PROVE 0 .. k \in FiniteSubsetsOf(Nat)
    <3>1. k \in Nat OBVIOUS
    <3>2. IsFiniteSet(0 .. k) BY <3>1, FS_Interval
    <3> QED BY <3>1, <3>2 DEF FiniteSubsetsOf
  <2> QED BY <2>1
<1>2. PICK x \in Segments :
          \A y \in Segments : <<y, x>> \notin StrictSubsetOrdering(Nat)
  <2> HIDE DEF Segments
  <2> QED BY <1>1, FS_StrictSubsetOrderingWellFounded, WFMin
<1>3. PICK k \in S : x = 0 .. k BY <1>2
<1>4. ASSUME NEW j \in S, j < k PROVE FALSE
  <2>1. 0 .. j \in Segments OBVIOUS
  <2>2. 0 .. j \subseteq 0 .. k /\ k \notin 0 .. j /\ k \in 0 .. k BY <1>4
  <2>3. ASSUME NEW A \in SUBSET Nat, NEW B \in SUBSET Nat, NEW e \in B,
               A \subseteq B, e \notin A
        PROVE  <<A, B>> \in StrictSubsetOrdering(Nat)
    BY <2>3 DEF StrictSubsetOrdering
  <2>4. 0 .. j \in SUBSET Nat /\ 0 .. k \in SUBSET Nat BY <1>4
  <2>5. <<0 .. j, 0 .. k>> \in StrictSubsetOrdering(Nat) BY <2>2, <2>3, <2>4
  <2> QED BY <1>2, <1>3, <2>1, <2>5
<1> QED BY <1>4

\* Such a function there is.
LEMMA SumsExist ==
    ASSUME NEW f, NEW S, IsFiniteSet(S)
    PROVE  \E g : SumsOver(g, f, SUBSET S)
<1> DEFINE Up(n) == {s \in SUBSET S : Cardinality(s) =< n}
           Bad == {n \in Nat : ~ \E g : SumsOver(g, f, Up(n))}
<1>0. \A s \in SUBSET S : IsFiniteSet(s) /\ Cardinality(s) \in Nat /\ Cardinality(s) =< Cardinality(S)
  BY FS_Subset, FS_CardinalityType
<1>1. ASSUME Bad # {} PROVE FALSE
  <2>1. PICK n \in Bad : \A m \in Bad : ~ (m < n) BY <1>1, Least
  <2>2. CASE n = 0
    <3> DEFINE g == [s \in Up(0) |-> 0]
    <3>1. \A s \in Up(0) : s = {} BY <1>0, FS_EmptySet
    <3>2. SumsOver(g, f, Up(0)) BY <3>1 DEF SumsOver
    <3> QED BY <2>1, <2>2, <3>2
  <2>3. CASE n # 0
    <3>1. n - 1 \in Nat \ Bad
      <4>1. n \in Nat OBVIOUS
      <4> HIDE DEF Bad
      <4> QED BY <2>1, <2>3, <4>1
    <3>2. PICK h : SumsOver(h, f, Up(n - 1)) BY <3>1
    <3> DEFINE g == [s \in Up(n) |-> IF s = {} THEN 0
                     ELSE LET x == CHOOSE x \in s : TRUE IN f[x] + h[s \ {x}]]
    <3>3. ASSUME NEW s \in Up(n), NEW x \in s PROVE s \ {x} \in Up(n - 1)
      <4>1. IsFiniteSet(s) /\ Cardinality(s) =< n BY <1>0
      <4>2. Cardinality(s \ {x}) = Cardinality(s) - 1 BY <4>1, FS_RemoveElement
      <4> QED BY <1>0, <2>1, <4>1, <4>2
    <3>4. ASSUME NEW s \in Up(n - 1) PROVE s \in Up(n) /\ g[s] = h[s]
      <4>1. s \in Up(n) BY <1>0, <2>1
      <4>2. h[s] = IF s = {} THEN 0
                     ELSE LET x == CHOOSE x \in s : TRUE IN f[x] + h[s \ {x}]
        BY <3>2 DEF SumsOver
      <4> QED BY <4>1, <4>2
    <3>5. SumsOver(g, f, Up(n))
      <4>1. ASSUME NEW s \in Up(n), s # {}
            PROVE g[s] = LET x == CHOOSE x \in s : TRUE IN f[x] + g[s \ {x}]
        <5> DEFINE x == CHOOSE x \in s : TRUE
        <5>1. x \in s BY <4>1
        <5> HIDE DEF x
        <5>2. s \ {x} \in Up(n - 1) BY <3>3, <5>1
        <5>3. g[s \ {x}] = h[s \ {x}] BY <3>4, <5>2
        <5>4. g[s] = f[x] + h[s \ {x}] BY <4>1 DEF x
        <5>5. g[s] = f[x] + g[s \ {x}] BY <5>3, <5>4
        <5> QED BY <5>5 DEF x
      <4> QED BY ZenonT(40), <4>1 DEF SumsOver
    <3> QED BY <2>1, <3>5
  <2> QED BY <2>2, <2>3
<1>2. PICK g : SumsOver(g, f, Up(Cardinality(S))) BY <1>0, <1>1
<1>3. Up(Cardinality(S)) = SUBSET S BY <1>0
<1> QED BY <1>2, <1>3

\* Products of naturals, which the SMT solver has to be told of.
LEMMA Times ==
    ASSUME NEW a \in Int, NEW b \in Int, NEW d \in Nat \ {0}
    PROVE  (a * d < b * d => a < b) /\ (a * d =< b * d => a =< b) /\ (a =< b => a * d =< b * d)
OBVIOUS

\* The rounded mean lies between the bounds of what it is the mean of.
LEMMA Rounded ==
    ASSUME NEW n \in Int, NEW d \in Nat \ {0}, NEW lo \in Int, NEW hi \in Int
    PROVE  /\ Round(n, d) \in Int
           /\ lo * d =< n => lo =< Round(n, d)
           /\ n =< hi * d => Round(n, d) =< hi
<1> DEFINE q == n \div d
           r == n % d
<1>1. q \in Int /\ r \in Nat /\ r < d /\ n = q * d + r OBVIOUS
<1>2. Round(n, d) \in {q, q + 1} /\ (Round(n, d) = q + 1 => 2 * r >= d)
  BY <1>1 DEF Round
<1> HIDE DEF q, r
<1>a. (q + 1) * d = q * d + d BY <1>1
<1>3. ASSUME lo * d =< n PROVE lo =< q
  <2>1. lo * d < (q + 1) * d BY <1>1, <1>3, <1>a
  <2> QED BY <1>1, <2>1, Times
<1>4. ASSUME n =< hi * d PROVE q =< hi /\ (r # 0 => q < hi)
  <2>1. q * d =< hi * d /\ (r # 0 => q * d < hi * d) BY <1>1, <1>4
  <2> QED BY <1>1, <2>1, Times
<1> QED BY <1>1, <1>2, <1>3, <1>4

\* Each term of the one sum is lo to hi times that of the other.
LEMMA SumsBounded ==
    ASSUME NEW S, IsFiniteSet(S), NEW w \in [S -> Nat \ {0}], NEW x \in [S -> Int],
           NEW lo \in Int, NEW hi \in Int
    PROVE  /\ Total(w) \in Nat /\ (S # {} => Total(w) # 0)
           /\ Total([i \in S |-> x[i] * w[i]]) \in Int
           /\ (\A i \in S : lo =< x[i]) => lo * Total(w) =< Total([i \in S |-> x[i] * w[i]])
           /\ (\A i \in S : x[i] =< hi) => Total([i \in S |-> x[i] * w[i]]) =< hi * Total(w)
<1> DEFINE f == [i \in S |-> x[i] * w[i]]
           W == CHOOSE g : SumsOver(g, w, SUBSET S)
           F == CHOOSE g : SumsOver(g, f, SUBSET S)
           Holds(s) ==
              /\ W[s] \in Nat /\ (s # {} => W[s] # 0) /\ F[s] \in Int
              /\ (\A i \in S : lo =< x[i]) => lo * W[s] =< F[s]
              /\ (\A i \in S : x[i] =< hi) => F[s] =< hi * W[s]
           Bad == {Cardinality(s) : s \in {s \in SUBSET S : ~ Holds(s)}}
<1>1. SumsOver(W, w, SUBSET S) /\ SumsOver(F, f, SUBSET S) BY SumsExist
<1>2. Total(w) = W[S] /\ Total(f) = F[S]
  <2>1. DOMAIN w = S /\ DOMAIN f = S OBVIOUS
  <2> HIDE DEF f
  <2> QED BY <2>1, Unfold
<1>3. \A i \in S : w[i] \in Nat \ {0} /\ x[i] \in Int /\ f[i] = x[i] * w[i] OBVIOUS
<1> HIDE DEF f, W, F
<1>4. \A s \in SUBSET S : IsFiniteSet(s) /\ Cardinality(s) \in Nat
  BY FS_Subset, FS_CardinalityType
<1>5. ASSUME NEW s \in SUBSET S,
             \A t \in SUBSET S : Cardinality(t) < Cardinality(s) => Holds(t)
      PROVE  Holds(s)
  <2>1. CASE s = {}
    <3>1. W[s] = 0 /\ F[s] = 0 BY <1>1, <2>1 DEF SumsOver
    <3> QED BY <2>1, <3>1
  <2>2. CASE s # {}
    <3> DEFINE i == CHOOSE i \in s : TRUE
               t == s \ {i}
    <3>1. i \in s BY <2>2
    <3>2. W[s] = w[i] + W[t] /\ F[s] = f[i] + F[t] BY <1>1, <2>2 DEF SumsOver
    <3> HIDE DEF i
    <3>3. Holds(t)
      <4>1. Cardinality(t) = Cardinality(s) - 1 BY <1>4, <3>1, FS_RemoveElement
      <4>2. Cardinality(t) < Cardinality(s) BY <1>4, <4>1
      <4> HIDE DEF Holds
      <4> QED BY <1>5, <4>2
    <3> DEFINE wi == w[i]
               xi == x[i]
               Wt == W[t]
               Ft == F[t]
    <3>4. /\ wi \in Nat \ {0} /\ xi \in Int /\ Wt \in Nat /\ Ft \in Int
          /\ W[s] = wi + Wt /\ F[s] = xi * wi + Ft
      BY <1>3, <3>1, <3>2, <3>3
    <3>5. /\ (\A j \in S : lo =< x[j]) => lo =< xi /\ lo * Wt =< Ft
          /\ (\A j \in S : x[j] =< hi) => xi =< hi /\ Ft =< hi * Wt
      BY <3>1, <3>3
    <3> HIDE DEF wi, xi, Wt, Ft, t
    <3>6. /\ W[s] \in Nat /\ W[s] # 0 /\ F[s] \in Int
          /\ lo * W[s] = lo * wi + lo * Wt /\ hi * W[s] = hi * wi + hi * Wt
      BY <3>4
    <3>7. /\ lo =< xi => lo * wi =< xi * wi
          /\ xi =< hi => xi * wi =< hi * wi
      BY <3>4, Times
    <3>8. (\A j \in S : lo =< x[j]) => lo * W[s] =< F[s]
      BY <3>4, <3>5, <3>6, <3>7
    <3>9. (\A j \in S : x[j] =< hi) => F[s] =< hi * W[s]
      BY <3>4, <3>5, <3>6, <3>7
    <3> QED BY <3>6, <3>8, <3>9
  <2> QED BY <2>1, <2>2
<1>6. Holds(S)
  <2>1. SUFFICES ASSUME ~ Holds(S) PROVE FALSE OBVIOUS
  <2>2. Bad \in SUBSET Nat /\ Bad # {}
    <3> HIDE DEF Holds
    <3> QED BY <1>4, <2>1
  <2> HIDE DEF Holds
  <2>3. PICK n \in Bad : \A m \in Bad : ~ (m < n)
    <3> HIDE DEF Bad
    <3> QED BY <2>2, Least
  <2>4. PICK s \in SUBSET S : ~ Holds(s) /\ n = Cardinality(s) BY <2>3
  <2>5. ASSUME NEW t \in SUBSET S, Cardinality(t) < Cardinality(s) PROVE Holds(t)
    BY <2>3, <2>4, <2>5
  <2> QED BY <1>5, <2>4, <2>5
<1> QED BY <1>2, <1>6 DEF f

-----------------------------------------------------------------------------
(* The verdict.                                                            *)

AnyRow == [kind : Kinds, weight : Nat \ {0}, score : Int, passed : BOOLEAN, skipped : BOOLEAN]

\* What the first graders of a list may have said: a grader is skipped only when
\* it has nothing to compare with.
Said(evals, given, rs) ==
    /\ rs \in Seq(AnyRow) /\ Len(rs) =< Len(evals)
    /\ \A i \in DOMAIN rs : rs[i].skipped =>
          evals[i].kind = "schema" \/ (evals[i].kind = "exact_match" /\ ~given)

\* All of them have, and their mean is a number.
Scores(evals, given, e) ==
    /\ Said(evals, given, e.rows) /\ Len(e.rows) = Len(evals)
    /\ e.score = WeightedScore(e.rows) /\ e.score \notin {Nothing, NaN}

Graded(evals, given, e) == e = NotGraded \/ Scores(evals, given, e)

\* A case, hosted or of a suite, says what its graders said.
Says(evals, given, v) ==
    /\ Graded(evals, given, v.eval)
    /\ v.passed = "passed" => Scores(evals, given, v.eval) /\ AllPassed(v.eval.rows)

\* The row of a hosted case that failed has a score of its own.
CaseSays(evals, given, case) ==
    IF case.status = "failed"
       THEN case.passed = "not passed" /\ case.eval = FailedGrade
       ELSE Says(evals, given, case)

ToGrade == {"run", "expected", "judge"}

GradeInv ==
    /\ run.evals \in Seq(GraderType)
    /\ pc \in ToGrade => rows = <<>>
    /\ pc = "grade" => Said(run.evals, hasExpected, rows)
    /\ \A e \in {graded, db.eval, tx.eval} : Graded(run.evals, hasExpected, e)
    /\ \A v \in {db.case, tx.case} : CaseSays(run.evals, hasExpected, v)
    /\ report \in Seq({report[i] : i \in DOMAIN report})
    /\ \A i \in DOMAIN report : Says(run.evals, hasExpected, report[i])

\* What a grader may say.
LEMMA GraderSays ==
    ASSUME NEW g \in GraderType, NEW given, NEW x,
           \/ x \in CheckRows(g) \/ x \in RubricRows(g) \/ x = Zero(g)
           \/ g.kind = "exact_match" /\ x \in ExactMatchRows(g, given)
           \/ g.kind = "schema" /\ x \in SchemaRows(g)
    PROVE  /\ x \in AnyRow
           /\ x.skipped => g.kind = "schema" \/ (g.kind = "exact_match" /\ ~given)
<1>1. \A v \in RawScores : Clamp01(v) \in Int BY RawAssumption DEF Clamp01, NaN
<1> DEFINE Fair(y) == /\ y \in AnyRow
                      /\ y.skipped => g.kind = "schema" \/ (g.kind = "exact_match" /\ ~given)
<1>2. g.kind \in Kinds /\ g.weight \in Nat \ {0} BY DEF GraderType
<1>3. ASSUME NEW s \in Int, NEW p \in BOOLEAN PROVE Fair(Row(g, s, p))
  BY <1>2 DEF Row, AnyRow
<1>4. Fair(Zero(g))
  <2>1. Zero(g) = [kind |-> g.kind, weight |-> g.weight, score |-> 0, passed |-> FALSE,
                   skipped |-> FALSE]
    BY Zenon DEF Zero, Row
  <2> QED BY <1>2, <2>1 DEF AnyRow
<1>5. ASSUME g.kind = "schema" \/ (g.kind = "exact_match" /\ ~given) PROVE Fair(Skip(g))
  <2>1. ASSUME NEW z \in AnyRow, NEW yes \in BOOLEAN PROVE [z EXCEPT !.skipped = yes] \in AnyRow
    BY DEF AnyRow
  <2>2. Zero(g) \in AnyRow /\ TRUE \in BOOLEAN BY <1>4
  <2>3. Skip(g) \in AnyRow BY Zenon, <2>1, <2>2 DEF Skip
  <2> QED BY <1>5, <2>3
<1>a. Fair(Row(g, 100, TRUE))
  <2>1. 100 \in Int /\ TRUE \in BOOLEAN OBVIOUS
  <2> HIDE DEF Fair
  <2> QED BY Zenon, <1>3, <2>1
<1>6. ASSUME NEW s \in Int, NEW mark \in Int PROVE Fair(Row(g, s, AtLeast(s, mark)))
  <2>1. AtLeast(s, mark) \in BOOLEAN BY DEF AtLeast
  <2> QED BY <1>3, <2>1
<1> SUFFICES Fair(x) OBVIOUS
<1> HIDE DEF Fair
<1>7. CASE x \in CheckRows(g)
  <2>1. CASE \E v \in RawScores, p \in BOOLEAN : x = Row(g, Clamp01(v), p)
    BY <1>1, <1>3, <2>1
  <2>2. CASE \E v \in RawScores : x = Row(g, Clamp01(v), AtLeast(Clamp01(v), 100))
    BY <1>1, <1>6, <2>2
  <2> QED BY <1>4, <1>7, <2>1, <2>2 DEF CheckRows
<1>8. CASE x \in RubricRows(g)
  <2>1. CASE \E v \in RawScores : x = Row(g, Clamp01(v), AtLeast(Clamp01(v), RubricPass))
    BY <1>1, <1>6, <2>1 DEF RubricPass
  <2> QED BY <1>4, <1>8, <2>1 DEF RubricRows
<1>9. CASE x = Zero(g) BY <1>4, <1>9
<1>10. CASE g.kind = "exact_match" /\ x \in ExactMatchRows(g, given)
  <2>1. x \in {Zero(g), Row(g, 100, TRUE)} \/ (~ given /\ x = Skip(g))
    BY Zenon, <1>10 DEF ExactMatchRows
  <2> QED BY <1>a, <1>4, <1>5, <1>10, <2>1
<1>11. CASE g.kind = "schema" /\ x \in SchemaRows(g)
  <2>1. x \in {Zero(g), Row(g, 100, TRUE), Skip(g)} BY Zenon, <1>11 DEF SchemaRows
  <2> QED BY <1>a, <1>4, <1>5, <1>11, <2>1
<1> QED BY <1>7, <1>8, <1>9, <1>10, <1>11

\* The next grader speaks.
LEMMA NextSays ==
    ASSUME NEW evals \in Seq(GraderType), NEW given, NEW rs, Said(evals, given, rs),
           Len(rs) < Len(evals), NEW x \in AnyRow,
           x.skipped => \/ evals[Len(rs) + 1].kind = "schema"
                        \/ evals[Len(rs) + 1].kind = "exact_match" /\ ~given
    PROVE  Said(evals, given, Append(rs, x))
<1>1. rs \in Seq(AnyRow) /\ Len(rs) \in Nat /\ Len(evals) \in Nat BY DEF Said
<1>2. Append(rs, x) \in Seq(AnyRow) /\ Len(Append(rs, x)) = Len(rs) + 1 BY <1>1
<1>3. ASSUME NEW i \in DOMAIN Append(rs, x), Append(rs, x)[i].skipped
      PROVE  evals[i].kind = "schema" \/ (evals[i].kind = "exact_match" /\ ~given)
  <2>1. CASE i = Len(rs) + 1 BY <1>1, <1>3, <2>1
  <2>2. CASE i \in DOMAIN rs
    <3>1. Append(rs, x)[i] = rs[i] BY <1>1, <2>2
    <3> QED BY <1>3, <2>2, <3>1 DEF Said
  <2> QED BY <1>1, <1>2, <2>1, <2>2
<1> QED BY <1>1, <1>2, <1>3 DEF Said

\* The rounded mean is between the scores it is the mean of.
LEMMA MeanIsBetween ==
    ASSUME NEW evals, NEW given, NEW e, Scores(evals, given, e)
    PROVE  WithinTheScores(e)
<1> DEFINE rs == e.rows
           S == Scored(rs)
           w == [i \in S |-> rs[i].weight]
           x == [i \in S |-> rs[i].score]
           W == Total(w)
           F == Total([i \in S |-> x[i] * w[i]])
<1>1. /\ rs \in Seq(AnyRow) /\ S \subseteq DOMAIN rs /\ S = {j \in DOMAIN rs : ~ rs[j].skipped}
      /\ e.score = WeightedScore(rs) /\ e.score # Nothing /\ e.score # NaN
  BY DEF Scores, Said, Scored
<1>2. IsFiniteSet(S)
  <2>1. DOMAIN rs = 1 .. Len(rs) /\ Len(rs) \in Nat BY <1>1
  <2>2. IsFiniteSet(1 .. Len(rs)) BY <2>1, FS_Interval
  <2> QED BY <1>1, <2>1, <2>2, FS_Subset
<1>3. \A i \in S : rs[i] \in AnyRow BY <1>1
<1>4. w \in [S -> Nat \ {0}] /\ x \in [S -> Int] BY <1>3 DEF AnyRow
<1>5. S # {} /\ e.score = Round(F, W)
  <2>1. /\ S # {}
        /\ e.score = Round(Total([i \in S |-> rs[i].score * rs[i].weight]), W)
    <3> HIDE DEF rs
    <3> QED BY <1>1 DEF WeightedScore
  <2>2. [i \in S |-> x[i] * w[i]] = [i \in S |-> rs[i].score * rs[i].weight] OBVIOUS
  <2> QED BY <2>1, <2>2
<1>6. ASSUME NEW lo \in Int, NEW hi \in Int
      PROVE  /\ W \in Nat \ {0} /\ F \in Int
             /\ (\A i \in S : lo =< x[i]) => lo * W =< F
             /\ (\A i \in S : x[i] =< hi) => F =< hi * W
  <2> HIDE DEF S, w, x
  <2> QED BY <1>2, <1>4, <1>5, SumsBounded
<1> HIDE DEF W, F
<1>7. W \in Nat \ {0} /\ F \in Int BY <1>6
<1>8. e.score \in Int BY <1>5, <1>7, Rounded
<1>9. \E i \in S : x[i] =< e.score
  <2> SUFFICES ASSUME \A i \in S : ~ (x[i] =< e.score) PROVE FALSE OBVIOUS
  <2>1. \A i \in S : e.score + 1 =< x[i] BY <1>3, <1>8 DEF AnyRow
  <2>2. PICK lo \in Int : lo = e.score + 1 BY <1>8
  <2> HIDE DEF x, S
  <2>3. lo * W =< F BY <1>6, <1>8, <2>1, <2>2
  <2>4. lo =< Round(F, W) BY <1>7, <2>3, Rounded
  <2> QED BY <1>5, <1>8, <2>2, <2>4
<1>10. \E i \in S : e.score =< x[i]
  <2> SUFFICES ASSUME \A i \in S : ~ (e.score =< x[i]) PROVE FALSE OBVIOUS
  <2>1. \A i \in S : x[i] =< e.score - 1 BY <1>3, <1>8 DEF AnyRow
  <2>2. PICK hi \in Int : hi = e.score - 1 BY <1>8
  <2> HIDE DEF x, S
  <2>3. F =< hi * W BY <1>6, <1>8, <2>1, <2>2
  <2>4. Round(F, W) =< hi BY <1>7, <2>3, Rounded
  <2> QED BY <1>5, <1>8, <2>2, <2>4
<1> QED BY <1>1, <1>9, <1>10 DEF WithinTheScores

\* A case that passed was passed by everything that could grade it.
LEMMA PassedIsByAll ==
    ASSUME run.evals \in Seq(GraderType), NEW v, Says(run.evals, hasExpected, v),
           v.passed = "passed"
    PROVE  PassedByAll(v)
<1> DEFINE rs == v.eval.rows
<1>1. /\ rs \in Seq(AnyRow) /\ Len(rs) = Len(run.evals) /\ DOMAIN rs = DOMAIN run.evals
      /\ \A i \in DOMAIN rs : rs[i].skipped =>
            \/ run.evals[i].kind = "schema"
            \/ run.evals[i].kind = "exact_match" /\ ~ hasExpected
  BY DEF Says, Scores, Said
<1>2. /\ \E i \in DOMAIN rs : ~ rs[i].skipped
      /\ \A i \in DOMAIN rs : ~ rs[i].skipped => rs[i].passed
  BY DEF Says, AllPassed, Scored
<1> HIDE DEF rs
<1>3. \A i \in graders({"check", "rubric"}) : rs[i].passed BY <1>1, <1>2 DEF graders
<1>4. hasExpected => \A i \in graders({"exact_match"}) : rs[i].passed
  BY <1>1, <1>2 DEF graders
<1> QED BY <1>2, <1>3, <1>4 DEF PassedByAll, rs

\* A step that writes down only what has been graded, or e.
LEMMA GradeKept ==
    ASSUME GradeInv, UNCHANGED <<run, report>>,
           NEW e, Graded(run.evals, hasExpected, e),
           {graded', db'.eval, tx'.eval} \subseteq {graded, db.eval, tx.eval, e},
           {db'.case, tx'.case} \subseteq {db.case, tx.case, CaseRow},
           pc' \in ToGrade => rows' = <<>>,
           pc' = "grade" => Said(run.evals, hasExpected, rows')
    PROVE  GradeInv'
<1>1. UNCHANGED <<run.evals, hasExpected>> BY DEF hasExpected, hosted
<1>2. CaseSays(run.evals, hasExpected, CaseRow)
  <2>1. Graded(run.evals, hasExpected, graded) BY DEF GradeInv
  <2>2. Verdict(graded) = "passed" => Scores(run.evals, hasExpected, graded) /\ AllPassed(graded.rows)
    BY <2>1 DEF Verdict, Graded
  <2>3. CASE ending = "succeeded"
    <3>1. CaseRow.status # "failed" /\ CaseRow.passed = Verdict(graded) /\ CaseRow.eval = graded
      BY <2>3 DEF CaseRow
    <3> QED BY <2>1, <2>2, <3>1 DEF CaseSays, Says
  <2>4. CASE ending # "succeeded"
    BY <2>4 DEF CaseRow, CaseSays
  <2> QED BY <2>3, <2>4
<1> DEFINE ev == run.evals
           given == hasExpected
<1>4. /\ \A x \in {graded, db.eval, tx.eval, e} : Graded(ev, given, x)
      /\ \A v \in {db.case, tx.case, CaseRow} : CaseSays(ev, given, v)
      /\ \A i \in DOMAIN report : Says(ev, given, report[i])
      /\ run.evals \in Seq(GraderType) /\ report \in Seq({report[i] : i \in DOMAIN report})
  BY <1>2 DEF GradeInv
<1>5. ev' = ev /\ given' = given BY <1>1
<1> HIDE DEF ev, given
<1>6. /\ \A x \in {graded', db'.eval, tx'.eval} : Graded(ev, given, x)
      /\ \A v \in {db'.case, tx'.case} : CaseSays(ev, given, v)
  BY <1>4
<1> QED BY <1>1, <1>4, <1>5, <1>6 DEF GradeInv, ev, given

\* A claimed run has graded nothing.
LEMMA InitGrade == Init => GradeInv
<1> SUFFICES ASSUME Init PROVE GradeInv OBVIOUS
<1>1. run.evals \in Seq(GraderType) BY FinishAssumption DEF Init, Claims
<1>2. /\ graded = NotGraded /\ db.eval = NotGraded /\ tx.eval = NotGraded
      /\ db.case = Open /\ tx.case = Open /\ rows = <<>> /\ report = <<>> /\ pc = "run"
  BY DEF Init, FreshRows
<1>3. Graded(run.evals, hasExpected, NotGraded) BY DEF Graded
<1>4. CaseSays(run.evals, hasExpected, Open) BY <1>3 DEF CaseSays, Says, Open
<1> QED BY <1>1, <1>2, <1>3, <1>4 DEF GradeInv

\* A rollback forgets what was graded, and is over or about to fail the job.
LEMMA RollBackGrade ==
    ASSUME GradeInv, RollBack, UNCHANGED <<db, run, report, graded>>
    PROVE  GradeInv'
<1>1. tx' = db /\ pc' \in {"closed", "mark_failed"} BY DEF RollBack
<1>2. Graded(run.evals, hasExpected, NotGraded) BY DEF Graded
<1> QED BY <1>1, <1>2, GradeKept DEF ToGrade

\* A case of a suite is written down.
LEMMA ReportGrade ==
    ASSUME GradeInv, NEW line, Says(run.evals, hasExpected, line), Reported(line)
    PROVE  GradeInv'
<1>1. UNCHANGED <<run, db, tx>> /\ report' = Append(report, line) /\ rows' = <<>>
      /\ graded' = NotGraded /\ pc' \in {"run", "closed"}
  BY DEF Reported
<1>2. UNCHANGED <<run.evals, hasExpected>> BY <1>1 DEF hasExpected, hosted
<1>3. Graded(run.evals, hasExpected, NotGraded) BY DEF Graded
<1> DEFINE ev == run.evals
           given == hasExpected
           S == {report[i] : i \in DOMAIN report}
<1>4. /\ report \in Seq(S) /\ \A x \in S : Says(ev, given, x)
      /\ Says(ev, given, line) /\ ev' = ev /\ given' = given
  BY <1>2 DEF GradeInv
<1> HIDE DEF ev, given, S
<1>5. report' \in Seq(S \cup {line}) BY <1>1, <1>4
<1>6. \A i \in DOMAIN report' : report'[i] \in S \cup {line} BY <1>5
<1>7. \A i \in DOMAIN report' : Says(ev, given, report'[i]) BY <1>4, <1>6
<1>8. report' \in Seq({report'[i] : i \in DOMAIN report'})
  <2> DEFINE T == {report'[i] : i \in DOMAIN report'}
             n == Len(report')
  <2>1. n \in Nat /\ DOMAIN report' = 1 .. n BY <1>5
  <2>2. report' \in [1 .. n -> T] BY <1>5, <2>1
  <2> HIDE DEF T, n
  <2>3. report' \in Seq(T) BY <2>1, <2>2
  <2> QED BY <2>3 DEF T
<1> QED BY <1>1, <1>3, <1>4, <1>7, <1>8 DEF GradeInv, ToGrade, ev, given

\* The next grader's row, whoever it is.
LEMMA GradeOne ==
    ASSUME GradeInv, pc = "grade", Len(rows) < Len(run.evals), NEW x,
           \/ x \in RowsWithoutCall(Current)
           \/ Current.kind = "rubric" /\ x \in RubricRows(Current)
    PROVE  Said(run.evals, hasExpected, Append(rows, x))
<1>1. /\ run.evals \in Seq(GraderType) /\ Said(run.evals, hasExpected, rows)
      /\ Len(rows) \in Nat /\ Len(run.evals) \in Nat
  BY DEF GradeInv, Said
<1>2. Current \in GraderType BY <1>1 DEF Current
<1>3. Current.kind \in Kinds BY <1>2 DEF GraderType
<1>4. \/ x \in CheckRows(Current) \/ x \in RubricRows(Current) \/ x = Zero(Current)
      \/ Current.kind = "exact_match" /\ x \in ExactMatchRows(Current, hasExpected)
      \/ Current.kind = "schema" /\ x \in SchemaRows(Current)
  <2>1. CASE x \in RowsWithoutCall(Current) BY <1>3, <2>1 DEF RowsWithoutCall, Kinds
  <2> QED BY <2>1
<1> DEFINE g == Current
<1>5. /\ x \in AnyRow
      /\ x.skipped => g.kind = "schema" \/ (g.kind = "exact_match" /\ ~ hasExpected)
  <2>1. PICK h \in GraderType : h = g BY <1>2
  <2>2. PICK given : given = hasExpected OBVIOUS
  <2> HIDE DEF g
  <2>3. \/ x \in CheckRows(h) \/ x \in RubricRows(h) \/ x = Zero(h)
        \/ h.kind = "exact_match" /\ x \in ExactMatchRows(h, given)
        \/ h.kind = "schema" /\ x \in SchemaRows(h)
    BY <1>4, <2>1, <2>2 DEF g
  <2>4. /\ x \in AnyRow
        /\ x.skipped => h.kind = "schema" \/ (h.kind = "exact_match" /\ ~ given)
    BY <2>3, GraderSays
  <2> QED BY <2>1, <2>2, <2>4
<1>6. g = run.evals[Len(rows) + 1] BY DEF Current
<1> HIDE DEF g
<1> DEFINE ev == run.evals
           given == hasExpected
           rs == rows
<1>7. /\ ev \in Seq(GraderType) /\ Said(ev, given, rs) /\ Len(rs) < Len(ev) /\ x \in AnyRow
      /\ x.skipped => \/ ev[Len(rs) + 1].kind = "schema"
                      \/ ev[Len(rs) + 1].kind = "exact_match" /\ ~ given
  BY <1>1, <1>5, <1>6
<1> HIDE DEF ev, given, rs
<1>8. Said(ev, given, Append(rs, x)) BY <1>7, NextSays
<1> QED BY <1>8 DEF ev, given, rs

\* One action per step: what is written down is what was graded.
LEMMA StepGrade == MoneyInv /\ GradeInv /\ [Next]_vars => GradeInv'
<1> SUFFICES ASSUME MoneyInv, GradeInv, [Next]_vars PROVE GradeInv' OBVIOUS
<1> USE DEF gradeVars, restVars, ToGrade
<1>0. IsRows(db) /\ IsRows(tx) /\ Graded(run.evals, hasExpected, NotGraded)
  BY DEF MoneyInv, Graded
<1>1. CASE RunAgent
  <2>1. PICK c \in RunCosts :
            db' = [db EXCEPT !.cost = @ + c] /\ tx' = db'
    BY <1>1 DEF RunAgent
  <2>2. db'.eval = db.eval /\ db'.case = db.case BY <1>0, <2>1 DEF IsRows
  <2>3. rows' = <<>> /\ UNCHANGED <<run, report, graded>> /\ pc' \in {"expected", "judge", "mark_failed"}
    BY <1>1 DEF RunAgent, GradeInv
  <2> QED BY <1>0, <2>1, <2>2, <2>3, GradeKept
<1>2. CASE RunFunction
  <2>1. PICK c \in RunCosts :
            db' = [db EXCEPT !.cost = @ + c] /\ tx' = db'
    BY <1>2 DEF RunFunction
  <2>2. db'.eval = db.eval /\ db'.case = db.case BY <1>0, <2>1 DEF IsRows
  <2>3. rows' = <<>> /\ UNCHANGED <<run, report, graded>> /\ pc' \in {"charge", "mark_failed"}
    BY <1>2 DEF RunFunction, GradeInv
  <2> QED BY <1>0, <2>1, <2>2, <2>3, GradeKept
<1>3. CASE LookupExpected
  <2>1. CASE Runs(tx, FALSE, "judge")
    <3>1. rows' = <<>> /\ UNCHANGED <<run, report, graded, db, tx>> /\ pc' = "judge"
      BY <1>3, <2>1 DEF LookupExpected, Runs, GradeInv
    <3> QED BY <1>0, <3>1, GradeKept
  <2> QED BY <1>3, <2>1, RollBackGrade DEF LookupExpected, Raises
<1>4. CASE BuildJudge
  <2>1. /\ rows' = <<>> /\ rows = <<>> /\ UNCHANGED <<run, report, db, tx>>
        /\ pc' \in {"charge", "report", "grade"} /\ graded' \in {graded, NotGraded}
    BY <1>4 DEF BuildJudge, Returns, afterGrading, GradeInv
  <2>2. Said(run.evals, hasExpected, <<>>)
    <3>1. Len(run.evals) \in Nat BY DEF GradeInv
    <3> QED BY <3>1 DEF Said
  <2> QED BY <1>0, <2>1, <2>2, GradeKept
<1>5. CASE Grade
  <2>1. PICK x \in RowsWithoutCall(Current) : rows' = Append(rows, x) BY <1>5 DEF Grade
  <2>2. pc = "grade" /\ Len(rows) < Len(run.evals) /\ UNCHANGED <<pc, run, report, graded, db, tx>>
    BY <1>5 DEF Grade
  <2>3. Said(run.evals, hasExpected, rows') BY <2>1, <2>2, GradeOne
  <2> QED BY <1>0, <2>2, <2>3, GradeKept
<1>6. CASE JudgeAnswers
  <2>1. PICK x \in RubricRows(Current) : rows' = Append(rows, x) BY <1>6 DEF JudgeAnswers
  <2>2. /\ pc = "grade" /\ Len(rows) < Len(run.evals) /\ Current.kind = "rubric"
        /\ UNCHANGED <<run, report, graded>>
    BY <1>6 DEF JudgeAnswers
  <2>3. Said(run.evals, hasExpected, rows') BY <2>1, <2>2, GradeOne
  <2>4. db' = db /\ pc' = "grade" /\ tx' \in {tx, [tx EXCEPT !.cost = @ + JudgeCost]}
    BY <1>6 DEF JudgeAnswers, Runs, Swallows
  <2>5. tx'.eval = tx.eval /\ tx'.case = tx.case BY <1>0, <2>4 DEF IsRows
  <2> QED BY <1>0, <2>2, <2>3, <2>4, <2>5, GradeKept
<1>7. CASE Weigh
  <2> DEFINE g == [score |-> WeightedScore(rows), rows |-> rows]
  <2>1. /\ pc = "grade" /\ Len(rows) = Len(run.evals) /\ db' = db
        /\ pc' \in {"charge", "report"} /\ UNCHANGED <<run, report>>
        /\ tx' \in {tx, [tx EXCEPT !.told = @ \cup {"evals"}]}
    BY <1>7 DEF Weigh, Runs, Swallows, Returns, afterGrading
  <2>2. tx'.eval = tx.eval /\ tx'.case = tx.case BY <1>0, <2>1 DEF IsRows
  <2>3. graded' = NotGraded \/ (graded' = g /\ WeightedScore(rows) \notin {Nothing, NaN})
    BY <1>7 DEF Weigh, Runs, Swallows, Returns
  <2>4. Graded(run.evals, hasExpected, graded')
    <3>1. Said(run.evals, hasExpected, rows) BY <2>1 DEF GradeInv
    <3>2. g.score = WeightedScore(rows) /\ g.rows = rows OBVIOUS
    <3> HIDE DEF g
    <3>3. CASE graded' = NotGraded BY <1>0, <3>3
    <3>4. CASE graded' = g /\ WeightedScore(rows) \notin {Nothing, NaN}
      <4>1. Scores(run.evals, hasExpected, g) BY <2>1, <3>1, <3>2, <3>4 DEF Scores
      <4> QED BY <3>4, <4>1 DEF Graded
    <3> QED BY <2>3, <3>3, <3>4
  <2>5. PICK e : e = graded' OBVIOUS
  <2> QED BY <2>1, <2>2, <2>4, <2>5, GradeKept
<1>8. CASE FinalizeCharges
  <2>1. CASE Runs([tx EXCEPT !.debited = @ + tx.cost], FALSE, "mark_succeeded")
    <3>1. tx'.eval = tx.eval /\ tx'.case = tx.case BY <1>0, <2>1 DEF Runs, IsRows
    <3> QED BY <1>0, <1>8, <2>1, <3>1, GradeKept DEF FinalizeCharges, Runs
  <2> QED BY <1>8, <2>1, RollBackGrade DEF FinalizeCharges, Raises
<1>9. CASE MarkSucceeded
  <2>1. CASE Runs(Marked("succeeded", graded), tx.status = "running", afterMark)
    <3>1. tx'.eval \in {tx.eval, graded} /\ tx'.case = tx.case
      BY <1>0, <2>1 DEF Runs, Marked, IsRows
    <3>2. pc' \in {"case", "tell"} BY <2>1 DEF Runs, afterMark
    <3> QED BY <1>0, <1>9, <2>1, <3>1, <3>2, GradeKept DEF MarkSucceeded, Runs
  <2> QED BY <1>9, <2>1, RollBackGrade DEF MarkSucceeded, Raises
<1>10. CASE MarkFailed
  <2>1. CASE Runs(Marked("failed", NotGraded), tx.status = "running", afterMark)
    <3>1. tx'.eval \in {tx.eval, NotGraded} /\ tx'.case = tx.case
      BY <1>0, <2>1 DEF Runs, Marked, IsRows
    <3>2. pc' \in {"case", "tell"} BY <2>1 DEF Runs, afterMark
    <3> QED BY <1>0, <1>10, <2>1, <3>1, <3>2, GradeKept DEF MarkFailed, Runs
  <2> QED BY <1>10, <2>1, RollBackGrade DEF MarkFailed, Raises
<1>11. CASE RecordCase
  <2>1. tx' \in {tx, [tx EXCEPT !.case = CaseRow]} /\ pc' = "tell"
        /\ UNCHANGED <<db, run, report, graded>>
    BY <1>11 DEF RecordCase, Runs, Swallows
  <2>2. tx'.eval = tx.eval /\ tx'.case \in {tx.case, CaseRow} BY <1>0, <2>1 DEF IsRows
  <2> QED BY <1>0, <2>1, <2>2, GradeKept
<1>12. CASE Tell
  <2>1. CASE Runs([tx EXCEPT !.told = @ \cup {ending}], FALSE, "commit")
    <3>1. tx'.eval = tx.eval /\ tx'.case = tx.case BY <1>0, <2>1 DEF Runs, IsRows
    <3> QED BY <1>0, <1>12, <2>1, <3>1, GradeKept DEF Tell, Runs
  <2> QED BY <1>12, <2>1, RollBackGrade DEF Tell, Raises
<1>13. CASE Commit
  <2>1. CASE db' = tx /\ tx' = tx /\ pc' \in {"closed", "mark_failed"}
    BY <1>0, <1>13, <2>1, GradeKept DEF Commit
  <2> QED BY <1>13, <2>1, RollBackGrade DEF Commit
<1>14. CASE EndedByAnother
  <2>1. PICK s \in {"cancelled", "failed"} :
            /\ db' = [db EXCEPT !.status = s, !.by = "other"]
            /\ tx' = [tx EXCEPT !.status = s, !.by = "other"]
    BY <1>14 DEF EndedByAnother
  <2>2. db'.eval = db.eval /\ tx'.eval = tx.eval /\ db'.case = db.case /\ tx'.case = tx.case
    BY <1>0, <2>1 DEF IsRows
  <2>3. UNCHANGED <<pc, rows, run, report, graded>> BY <1>14 DEF EndedByAnother
  <2> QED BY <1>0, <2>2, <2>3, GradeKept DEF GradeInv
<1>15. CASE Requeued
  BY <1>0, <1>15, GradeKept DEF Requeued
<1>16. CASE RunLocalCase
  <2>1. CASE pc' = "judge" /\ UNCHANGED <<run, db, tx, rows, graded, report>>
    BY <1>0, <1>16, <2>1, GradeKept DEF RunLocalCase, GradeInv
  <2>2. CASE Reported(Errored)
    <3>1. Says(run.evals, hasExpected, Errored) BY <1>0 DEF Says, Errored
    <3> QED BY <2>2, <3>1, ReportGrade
  <2> QED BY <1>16, <2>1, <2>2 DEF RunLocalCase
<1>17. CASE ReportCase
  <2> DEFINE v == [passed |-> IF AllPassed(graded.rows) THEN "passed" ELSE "not passed",
                   eval |-> graded]
  <2>1. Graded(run.evals, hasExpected, graded) /\ Reported(v) BY <1>17 DEF GradeInv, ReportCase
  <2>2. ~ AllPassed(NotGraded.rows) BY DEF NotGraded, AllPassed, Scored
  <2>3. Says(run.evals, hasExpected, v)
    <3>1. v.eval = graded /\ (v.passed = "passed" => AllPassed(graded.rows)) OBVIOUS
    <3> HIDE DEF v
    <3> QED BY <2>1, <2>2, <3>1 DEF Says, Graded
  <2>4. PICK line : line = v OBVIOUS
  <2> HIDE DEF v
  <2> QED BY <2>1, <2>3, <2>4, ReportGrade
<1>18. CASE Closed \/ UNCHANGED vars
  <2>1. UNCHANGED vars BY <1>18 DEF Closed
  <2> QED BY <1>0, <2>1, GradeKept DEF vars, GradeInv
<1> QED
  BY <1>1, <1>2, <1>3, <1>4, <1>5, <1>6, <1>7, <1>8, <1>9, <1>10, <1>11,
     <1>12, <1>13, <1>14, <1>15, <1>16, <1>17, <1>18 DEF Next

\* Hosted or offline, whatever the suite, what its graders answer and which
\* statements fail: a case passes only if everything that could grade it passed
\* it, its score lies between the scores of what graded it, and the row of one that
\* failed says 0 and not passed (run_evals, _weighted_eval_score,
\* _finalize_eval_case, run_eval_local).
THEOREM VerdictsAreTheGraders == Spec => []VerdictIsTheGraders
<1>1. GradeInv => VerdictIsTheGraders
  <2> SUFFICES ASSUME GradeInv PROVE VerdictIsTheGraders OBVIOUS
  <2>1. CaseSays(run.evals, hasExpected, db.case) /\ Graded(run.evals, hasExpected, db.eval)
    BY DEF GradeInv
  <2>2. \A i \in DOMAIN report : Says(run.evals, hasExpected, report[i])
    BY DEF GradeInv
  <2>3. \A e \in grades : Graded(run.evals, hasExpected, e)
    BY <2>1, <2>2 DEF grades, CaseSays, Says
  <2>4. ASSUME NEW e \in grades, e.score # Nothing
        PROVE  WithinTheScores(e)
    <3>1. Graded(run.evals, hasExpected, e) BY <2>3, <2>4
    <3>2. Scores(run.evals, hasExpected, e) BY <2>4, <3>1 DEF Graded, NotGraded
    <3> QED BY <3>2, MeanIsBetween
  <2>5. ASSUME NEW v \in verdicts, v.passed = "passed" PROVE PassedByAll(v)
    <3>1. Says(run.evals, hasExpected, v)
      <4>1. CASE v = db.case BY <2>1, <2>5, <4>1 DEF CaseSays
      <4>2. CASE v \in {report[i] : i \in DOMAIN report} BY <2>2, <4>2
      <4> QED BY <2>5, <4>1, <4>2 DEF verdicts
    <3> QED BY <2>5, <3>1, PassedIsByAll DEF GradeInv
  <2>6. db.case.status = "failed" =>
            db.case.passed = "not passed" /\ db.case.eval = FailedGrade
    BY <2>1 DEF CaseSays
  <2> QED BY <2>4, <2>5, <2>6 DEF VerdictIsTheGraders
<1> QED BY InitMoney, StepMoney, InitGrade, StepGrade, <1>1, PTL DEF Spec
=============================================================================
