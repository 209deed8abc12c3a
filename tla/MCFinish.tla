------------------------------ MODULE MCFinish ------------------------------
(***************************************************************************)
(* Finish on the suites of graders that tell its rules apart: none, a check*)
(* beside an exact match, a judge beside an exact match, and a weighted    *)
(* check beside a schema that the skill may lack.                          *)
(***************************************************************************)
EXTENDS Finish

Grader(kind, weight, schema) == [kind |-> kind, weight |-> weight, schema |-> schema]

MCSuites ==
    {<<>>,
     <<Grader("check", 1, FALSE), Grader("exact_match", 3, FALSE)>>,
     <<Grader("rubric", 2, FALSE), Grader("exact_match", 1, FALSE)>>,
     <<Grader("check", 3, FALSE), Grader("schema", 1, TRUE)>>,
     <<Grader("schema", 1, FALSE)>>}

\* Below, inside and above the range, either side of the judge's pass mark,
\* and not a number.
MCRawScores == {-50, 50, 70, 150, NaN}
=============================================================================
