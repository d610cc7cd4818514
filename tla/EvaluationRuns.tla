--------------------------- MODULE EvaluationRuns ---------------------------
(***************************************************************************)
(* The evaluation runs of a recording: how the worker scores one, how the  *)
(* page of the recording breaks the score down, and what must be true of   *)
(* the runs and of what the page shows of them.  RecordingDesk says how    *)
(* they change.                                                            *)
(***************************************************************************)
EXTENDS Integers, FiniteSets, FiniteSetsExt

CONSTANTS Criteria,    \* keys of the project's criteria
          ScoreType,   \* "pass_fail" or "scale_1_5", by key
          Weight       \* by key

VARIABLES
    runs,     \* the evaluation runs, by run_seq
    page      \* what the browser shows and remembers

Unknown == -1   \* null in an entry of an answer
Entries == [passed : {"true", "false", "null"}, score : {Unknown} \cup 0..9]

Complete(run, answer) == [run EXCEPT !.status = "completed", !.answer = {answer}]

Weighted(value, keys) == <<MapThenSumSet(LAMBDA k : Weight[k] * value[k], keys),
                           MapThenSumSet(LAMBDA k : Weight[k], keys)>>
Clamped(n) == IF n < 1 THEN 1 ELSE IF n > 5 THEN 5 ELSE n

\* _overall_score, over the LLM's answer: the points, in quarters, over the weights.
OverallScore(answer) ==
    LET judged == {k \in Criteria : \/ ScoreType[k] = "pass_fail" /\ answer[k].passed # "null"
                                    \/ ScoreType[k] = "scale_1_5" /\ answer[k].score # Unknown}
        value == [k \in judged |->
                    IF ScoreType[k] = "scale_1_5" THEN Clamped(answer[k].score) - 1
                    ELSE IF answer[k].passed = "true" THEN 4 ELSE 0]
    IN  Weighted(value, judged)

\* The row the worker stores for a criterion.
ResultRow(answer, k) ==
    [passed |-> IF ScoreType[k] = "pass_fail" THEN answer[k].passed ELSE "null",
     score  |-> IF ScoreType[k] = "scale_1_5" /\ answer[k].score # Unknown
                THEN Clamped(answer[k].score) ELSE Unknown]

\* An override turns the verdict round, or scores the criterion 1.
Effective(row, k) == IF ScoreType[k] = "scale_1_5" THEN [row EXCEPT !.score = 1]
                     ELSE [row EXCEPT !.passed = IF @ = "true" THEN "false" ELSE "true"]

\* (Faulty variant: the breakdown counts what the reviewer put in its place.)
CountedEffective(run, k) ==
    LET row == ResultRow(CHOOSE a \in run.answer : TRUE, k)
    IN  IF k \in run.over THEN Effective(row, k) ELSE row
Counted(run, k) == ResultRow(CHOOSE a \in run.answer : TRUE, k)

\* scoreBreakdownRows, over the rows of the results.
Breakdown(run) ==
    LET included == {k \in Criteria :
            LET row == Counted(run, k)
            IN  IF ScoreType[k] = "pass_fail" THEN row.passed # "null" ELSE row.score # Unknown}
        value == [k \in included |->
                    LET row == Counted(run, k)
                    IN  IF ScoreType[k] = "scale_1_5" THEN Clamped(row.score) - 1
                        ELSE IF row.passed = "true" THEN 4 ELSE 0]
    IN  Weighted(value, included)

-----------------------------------------------------------------------------
\* Properties

\* A reviewer's decision is only ever stored on a run that has completed, though
\* the override handler does not ask for the run's status and the dialog can be
\* open while the selected run is under way.
DecisionsOnFinishedRuns == \A r \in DOMAIN runs :
    runs[r].review # "unreviewed" \/ runs[r].over # {} => runs[r].status = "completed"

\* The breakdown a reviewer opens adds up to the overall score the worker
\* stored, whatever has been overridden since ("matches the worker's
\* _overall_score"), for answers in the form the prompt asks for.
BreakdownAddsUp == \A r \in DOMAIN page.evals.runs : page.evals.runs[r].status = "completed" =>
    LET a == CHOOSE b \in page.evals.runs[r].answer : TRUE
    IN  Breakdown(page.evals.runs[r]) = OverallScore(a)
=============================================================================
