------------------------------- MODULE Graders ------------------------------
(***************************************************************************)
(* The graders of worker/eval_runner.py as operators: the rows each kind   *)
(* of grader may return, and the score and the verdict of a list of rows.  *)
(*                                                                         *)
(* Scores are in hundredths of the code's [0, 1].  What a grader looks at  *)
(* is abstracted to what it may return: a set of rows, for the machine of  *)
(* Finish to choose from.                                                  *)
(***************************************************************************)
EXTENDS Integers, Sequences, FiniteSets, Functions

CONSTANT RawScores   \* what a check or a judge may answer, before the clamp

Kinds == {"check", "rubric", "exact_match", "schema"}

NaN == 1000          \* float("nan"): the clamp lets it through
Nothing == -1000     \* None

ASSUME RawAssumption == RawScores \subseteq -200..200 \cup {NaN}

\* A grader as the manifest declares it: `weight` is a positive number.
GraderType == [kind : Kinds, weight : Nat \ {0}, schema : BOOLEAN]

Row(g, score, passed) ==
    [kind |-> g.kind, weight |-> g.weight, score |-> score,
     passed |-> passed, skipped |-> FALSE]
Zero(g) == Row(g, 0, FALSE)
Skip(g) == [Zero(g) EXCEPT !.skipped = TRUE]

\* NaN fails both comparisons and comes back as it is.
Clamp01(v) ==
    IF v = NaN THEN NaN ELSE IF v < 0 THEN 0 ELSE IF v > 100 THEN 100 ELSE v

AtLeast(score, mark) == score # NaN /\ score >= mark

\* A check says itself whether it passed; failing that, a full score passes.
CheckRows(g) ==
    {Zero(g)} \cup
    {Row(g, Clamp01(v), p) : v \in RawScores, p \in BOOLEAN} \cup
    {Row(g, Clamp01(v), AtLeast(Clamp01(v), 100)) : v \in RawScores}

RubricPass == 70

\* The judge answered: text that holds no JSON object, or a score.
RubricRows(g) ==
    {Zero(g)} \cup
    {Row(g, Clamp01(v), AtLeast(Clamp01(v), RubricPass)) : v \in RawScores}

\* Nothing to compare with on a live run; else a mismatch, a missing field,
\* or a match.
ExactMatchRows(g, hasExpected) ==
    IF ~hasExpected THEN {Skip(g)} ELSE {Zero(g), Row(g, 100, TRUE)}

\* No schema at all, or one that cannot be read, skips the grader.
SchemaRows(g) ==
    {Skip(g)} \cup (IF g.schema THEN {Zero(g), Row(g, 100, TRUE)} ELSE {})

\* Python's round(): to the nearest, a half to the even neighbour.
Round(n, d) ==
    LET q == n \div d
        r == 2 * (n % d)
    IN  IF r > d \/ (r = d /\ q % 2 = 1) THEN q + 1 ELSE q

Scored(rows) == {i \in DOMAIN rows : ~rows[i].skipped}

Total(numbers) == FoldFunction(LAMBDA x, y : x + y, 0, numbers)

\* The weighted mean of the graders that scored, Nothing when none did, NaN
\* when int(round(...)) raises.
WeightedScore(rows) ==
    LET scored == Scored(rows)
    IN  IF scored = {} THEN Nothing
        ELSE IF \E i \in scored : rows[i].score = NaN THEN NaN
        ELSE Round(Total([i \in scored |-> rows[i].score * rows[i].weight]),
                   Total([i \in scored |-> rows[i].weight]))

\* A seeded bug: one grader that passed is enough.
AnyPassed(rows) == \E i \in Scored(rows) : rows[i].passed

\* At least one grader scored, and all that did passed.
AllPassed(rows) == Scored(rows) # {} /\ \A i \in Scored(rows) : rows[i].passed
=============================================================================
