--------------------------- MODULE RecordingRow ---------------------------
(***************************************************************************)
(* The pipeline columns of one row of `recordings`, and the writes that    *)
(* several tasks and API handlers share.  A row is a value here; the       *)
(* modules that extend this one hold a function from recordings to rows.   *)
(*                                                                         *)
(* Abstractions: a timestamp column is NoTime or a member of Stamps (two   *)
(* instants that the code can compare have different stamps); whether the  *)
(* provider's operation name is stored is a BOOLEAN; the error text, the   *)
(* audio metadata and the provider override of a rerun are left out.       *)
(***************************************************************************)
EXTENDS Naturals

CONSTANTS Stamps,             \* names of the instants stt_started_at can hold
          NoTime,             \* NULL in a timestamp column
          ResumeMaxAttempts   \* settings.RECORDING_RESUME_MAX_ATTEMPTS

ASSUME RowAssumption ==
    /\ NoTime \notin Stamps
    /\ ResumeMaxAttempts \in Nat

-----------------------------------------------------------------------------
\* Statuses and stages

NonTerminal == {"uploaded", "converting", "transcribing", "evaluating"}
Statuses    == NonTerminal \cup {"completed", "failed"}
Stages      == {"convert", "stt", "eval", "budget"}

Row == [status      : Statuses,
        failedStage : Stages \cup {"none"},
        attempts    : Nat,
        autoRetry   : Nat,
        op          : BOOLEAN,                    \* stt_operation_name is set
        started     : Stamps \cup {NoTime}]       \* stt_started_at

\* How a session writes an object back: only the attributes whose value is
\* not the one it loaded are in the UPDATE, and no version is checked.
Flushed(loaded, new, current) == IF new = loaded THEN current ELSE new

Flush(seen, new, row) ==
    [status      |-> Flushed(seen.status, new.status, row.status),
     failedStage |-> Flushed(seen.failedStage, new.failedStage, row.failedStage),
     attempts    |-> Flushed(seen.attempts, new.attempts, row.attempts),
     autoRetry   |-> Flushed(seen.autoRetry, new.autoRetry, row.autoRetry),
     op          |-> Flushed(seen.op, new.op, row.op),
     started     |-> Flushed(seen.started, new.started, row.started)]

\* attempts is only ever compared with ResumeMaxAttempts: it saturates there.
OneMoreAttempt(n) == IF n < ResumeMaxAttempts THEN n + 1 ELSE n

-----------------------------------------------------------------------------
\* pipeline._fail

CanAutoRetry(row, stage, retryable) ==
    /\ stage # "budget"
    /\ retryable
    /\ row.autoRetry > 0

RetryStage(stage, hasAudio) ==
    IF stage = "stt" /\ ~hasAudio THEN "convert" ELSE stage

\* (Faulty variant: the stage's own name as a status.)
StageAsStatus(stage) == stage

StatusOfStage(stage) ==
    CASE stage = "convert" -> "uploaded"
      [] stage = "stt"     -> "transcribing"
      [] OTHER             -> "evaluating"

\* The automatic retry: one unit of the budget buys a return to the start of
\* the stage; only a retry that goes back to the ASR forgets its operation.
AutoRetryRow(row, stage) ==
    LET again == [row EXCEPT !.status = StatusOfStage(stage),
                             !.failedStage = "none",
                             !.attempts = 0,
                             !.autoRetry = @ - 1]
    IN  IF stage = "eval" THEN again
        ELSE [again EXCEPT !.op = FALSE, !.started = NoTime]

\* The terminal failure: an STT failure gives its slot back but keeps the
\* name of its operation.
FailedRow(row, stage) ==
    [row EXCEPT !.status = "failed",
                !.failedStage = stage,
                !.attempts = OneMoreAttempt(@),
                !.started = IF stage = "stt" THEN NoTime ELSE @]

\* _fail reads the row in a session of its own and looks at no status.
FailRow(row, stage, retryable, hasAudio) ==
    IF CanAutoRetry(row, stage, retryable)
    THEN AutoRetryRow(row, RetryStage(stage, hasAudio))
    ELSE FailedRow(row, stage)

-----------------------------------------------------------------------------
\* batch.sweep_stuck, one row

StageForStatus(status) ==
    CASE status = "transcribing" -> "stt"
      [] status = "evaluating"   -> "eval"
      [] OTHER                   -> "convert"

\* (Faulty variant: a slot without an operation is not yet a start.)
StartedByOperation(row, evalRunning) ==
    row.status # "uploaded" /\ (row.status = "transcribing" => row.op)

\* An operation or a slot makes an STT stage a started one; an evaluation is
\* started when an evaluation of the recording says it is running.
StageHasStarted(row, evalRunning) ==
    CASE row.status = "uploaded"     -> FALSE
      [] row.status = "transcribing" -> row.op \/ row.started # NoTime
      [] row.status = "evaluating"   -> evalRunning
      [] OTHER                       -> TRUE

\* The fields the sweep clears together with a timed-out STT stage.
WithoutStt(row, status) ==
    IF status = "transcribing" THEN [row EXCEPT !.op = FALSE, !.started = NoTime]
    ELSE row

SweepTimedOutRow(row) ==
    IF row.autoRetry > 0
    THEN WithoutStt([row EXCEPT !.autoRetry = @ - 1,
                                !.failedStage = "none",
                                !.attempts = 0], row.status)
    ELSE WithoutStt([row EXCEPT !.status = "failed",
                                !.failedStage = StageForStatus(row.status)],
                    row.status)

SweepQueuedRow(row) == [row EXCEPT !.failedStage = "none"]

SweepResumedRow(row) ==
    [row EXCEPT !.failedStage = "none", !.attempts = OneMoreAttempt(@)]

-----------------------------------------------------------------------------
\* The API's ways back into the pipeline

\* batches.retry_failed, one failed row
RetryFailedStage(row, hasAudio) ==
    CASE row.failedStage \in {"eval", "budget"}      -> "eval"
      [] row.failedStage = "stt" /\ hasAudio         -> "stt"
      [] OTHER                                       -> "convert"

AtLeastTwo(n) == IF n < 2 THEN 2 ELSE n

RetryFailedRow(row, hasAudio) ==
    LET stage == RetryFailedStage(row, hasAudio)
        again == [row EXCEPT !.status = StatusOfStage(stage),
                             !.failedStage = "none",
                             !.attempts = 0,
                             !.autoRetry = AtLeastTwo(@)]
    IN  IF stage = "eval" THEN again
        ELSE [again EXCEPT !.op = FALSE, !.started = NoTime]

\* batches._prepare_stt_rerun, one row; limit is the request's auto_retry_limit
SttRerunRow(row, hasAudio, limit) ==
    [row EXCEPT !.status = IF hasAudio THEN "transcribing" ELSE "uploaded",
                !.failedStage = "none",
                !.op = FALSE,
                !.started = NoTime,
                !.attempts = 0,
                !.autoRetry = limit]

\* recordings.reprocess, one row
ReprocessedRow(row, stage) ==
    LET again == [row EXCEPT !.status = StatusOfStage(stage),
                             !.failedStage = "none",
                             !.attempts = 0]
    IN  IF stage = "eval" THEN again
        ELSE [again EXCEPT !.op = FALSE, !.started = NoTime]
=============================================================================
