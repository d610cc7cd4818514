-------------------------- MODULE BatchLifecycle --------------------------
(***************************************************************************)
(* One batch from its first upload to its rollup: uploads, finalize, the   *)
(* expansion of zips, the chain of tasks of each recording, update_progress,*)
(* the sweep, and the requests that reopen a finished batch.               *)
(*                                                                         *)
(* normalize_audio, expand_batch and update_progress are here in full; the *)
(* inside of transcribe and of evaluate is in SttStage and EvalStage, and  *)
(* only their guards, commits and messages remain.  A task that has        *)
(* committed and not sent its messages yet is at "publishing": what a crash *)
(* there loses is the point of this module.  A waiting message is in the    *)
(* queue at most once.                                                     *)
(***************************************************************************)
EXTENDS RecordingRow, FiniteSets

CONSTANTS Direct,         \* recordings uploaded one by one
          Zipped,         \* recordings uploaded as members of one zip
          NoRecording,
          Workers,
          Now,            \* the one instant a slot is reserved at
          SttMaxInFlight, \* max(1, settings.STT_MAX_IN_FLIGHT)
          InitialRetries, \* auto_retry_remaining of a new row
          Sweeping,       \* whether beat runs sweep_stuck
          LateUploads,    \* whether finalize may overtake an upload
          LossySends,     \* whether the API or the sweep may die before it sends
          MaxFaults,      \* bound: crashes
          MaxOperations   \* bound: operator requests after the uploads

Recordings == Direct \cup Zipped

ASSUME BatchAssumption ==
    /\ Stamps = {Now}
    /\ NoRecording \notin Recordings
    /\ Direct \cap Zipped = {}
    /\ IsFiniteSet(Recordings)
    /\ SttMaxInFlight \in Nat \ {0}
    /\ InitialRetries \in Nat
    /\ Sweeping \in BOOLEAN
    /\ LateUploads \in BOOLEAN
    /\ LossySends \in BOOLEAN
    /\ MaxFaults \in Nat
    /\ MaxOperations \in Nat

VARIABLES
    batch,       \* the row of upload_batches
    exists,      \* the recordings that have a row
    row,         \* their rows
    audio,       \* recordings with normalized audio
    transcript,  \* recordings with a transcript
    zip,         \* whether the zip is staged in the bucket
    uploading,   \* upload requests that have seen the batch open
    queue,       \* messages waiting for a worker
    unsent,      \* messages of the API or the sweep, committed and not sent
    worker,      \* the task each worker process runs
    faults, operations

vars == <<batch, exists, row, audio, transcript, zip, uploading, queue, unsent,
          worker, faults, operations>>

boundVars == <<faults, operations>>
fileVars  == <<audio, transcript, zip>>

BatchStatuses  == {"open", "processing", "completed", "completed_with_errors"}
TerminalStatus == {"completed", "completed_with_errors"}
Batch == [status : BatchStatuses, finalized : BOOLEAN]

Tasks == ({"normalize", "transcribe", "evaluate"} \X Recordings)
             \cup ({"expand", "update"} \X {NoRecording})

Expand        == <<"expand", NoRecording>>
Update        == <<"update", NoRecording>>
Normalize(r)  == <<"normalize", r>>
Transcribe(r) == <<"transcribe", r>>
Evaluate(r)   == <<"evaluate", r>>

\* "working": normalize, transcribe and evaluate are under way; "unpacked": the
\* zip's members are in the bucket and the zip is deleted, nothing is committed;
\* a rollup that has counted is at its verdict.
Idle  == [at |-> "idle"]
Busy  == [at : {"working", "unpacked"} \cup TerminalStatus, task : Tasks]
Done  == [at : {"publishing"}, task : Tasks, out : SUBSET Tasks]

-----------------------------------------------------------------------------
\* Helpers

NewRow == [status |-> "uploaded", failedStage |-> "none", attempts |-> 0,
           autoRetry |-> InitialRetries, op |-> FALSE, started |-> NoTime]

InFlight == {r \in exists : row[r].status = "transcribing" /\ row[r].started # NoTime}

On(task) == {w \in Workers : worker[w] # Idle /\ worker[w].at = "working" /\ worker[w].task = task}

SetRow(r, new)      == row' = [row EXCEPT ![r] = new]
Start(w, task)      == worker' = [worker EXCEPT ![w] = [at |-> "working", task |-> task]]
Publishing(w, task, out) ==
    worker' = [worker EXCEPT ![w] = [at |-> "publishing", task |-> task, out |-> out]]
Take(task) == /\ task \in queue
              /\ queue' = queue \ {task}

\* What _fail sends after its commit.  A retry of the STT waits for the
\* dispatcher; a failure lets the batch be counted.
AfterFail(r, stage, retryable) ==
    IF ~CanAutoRetry(row[r], stage, retryable) THEN {Update}
    ELSE CASE RetryStage(stage, r \in audio) = "convert" -> {Normalize(r)}
           [] RetryStage(stage, r \in audio) = "stt"     -> {}
           [] OTHER                                      -> {Evaluate(r)}

Init ==
    /\ batch = [status |-> "open", finalized |-> FALSE]
    /\ exists = {}
    /\ row = [r \in Recordings |-> NewRow]
    /\ audio = {}
    /\ transcript = {}
    /\ zip = (Zipped # {})
    /\ uploading = {}
    /\ queue = {}
    /\ unsent = {}
    /\ worker = [w \in Workers |-> Idle]
    /\ faults = 0
    /\ operations = 0

-----------------------------------------------------------------------------
\* The API: uploads and finalize

\* The batch is read before the file is streamed, the row inserted after it.
UploadCheck(r) ==
    /\ r \in Direct \ (exists \cup uploading)
    /\ batch.status = "open"
    /\ uploading' = uploading \cup {r}
    /\ UNCHANGED <<batch, exists, row, fileVars, queue, unsent, worker, boundVars>>

UploadCommit(r) ==
    /\ r \in uploading
    /\ uploading' = uploading \ {r}
    /\ exists' = exists \cup {r}
    /\ UNCHANGED <<batch, row, fileVars, queue, unsent, worker, boundVars>>

\* The handler does not look at uploads under way; whether the client can
\* overtake one is LateUploads.
Finalize ==
    /\ batch.status = "open"
    /\ LateUploads \/ uploading = {}
    /\ batch' = [status |-> "processing", finalized |-> TRUE]
    /\ unsent' = unsent \cup {Expand}
    /\ UNCHANGED <<exists, row, fileVars, uploading, queue, worker, boundVars>>

\* The process that committed sends its messages, or dies before it does.
Send ==
    /\ unsent # {}
    /\ queue' = queue \cup unsent
    /\ unsent' = {}
    /\ UNCHANGED <<batch, exists, row, fileVars, uploading, worker, boundVars>>

SenderCrash ==
    /\ LossySends
    /\ unsent # {}
    /\ faults < MaxFaults
    /\ faults' = faults + 1
    /\ unsent' = {}
    /\ UNCHANGED <<batch, exists, row, fileVars, uploading, queue, worker, operations>>

-----------------------------------------------------------------------------
\* expand_batch

\* Members go to the bucket and into the session; the zip is deleted at once.
ExpandStart(w) ==
    /\ worker[w] = Idle
    /\ Take(Expand)
    /\ worker' = [worker EXCEPT ![w] = [at |-> IF zip THEN "unpacked" ELSE "working",
                                        task |-> Expand]]
    /\ zip' = FALSE
    /\ UNCHANGED <<batch, exists, row, audio, transcript, uploading, unsent, boundVars>>

\* The rows are committed; every uploaded recording gets its chain.
ExpandCommit(w) ==
    LET created == IF worker[w].at = "unpacked" THEN exists \cup Zipped ELSE exists IN
    /\ worker[w] # Idle
    /\ worker[w].at \in {"unpacked", "working"}
    /\ worker[w].task = Expand
    /\ exists' = created
    /\ Publishing(w, Expand,
          {Update} \cup {Normalize(r) : r \in {s \in created : row[s].status = "uploaded"}})
    /\ UNCHANGED <<batch, row, fileVars, uploading, queue, unsent, boundVars>>

-----------------------------------------------------------------------------
\* The chain of one recording

\* A recording past the stage ends normalize_audio; the chain goes on.
NormalizeStart(w, r) ==
    /\ worker[w] = Idle
    /\ Take(Normalize(r))
    /\ IF row[r].status \in {"uploaded", "converting"}
       THEN SetRow(r, [row[r] EXCEPT !.status = "converting"]) /\ Start(w, Normalize(r))
       ELSE UNCHANGED row /\ Publishing(w, Normalize(r), {Transcribe(r)})
    /\ UNCHANGED <<batch, exists, fileVars, uploading, unsent, boundVars>>

Working(w, task) == worker[w] # Idle /\ worker[w].at = "working" /\ worker[w].task = task

Converted(old) == [old EXCEPT !.status = "transcribing", !.op = FALSE, !.started = NoTime]

\* The audio is stored and the row written, whatever it says by now.
NormalizeDone(w, r) ==
    /\ Working(w, Normalize(r))
    /\ SetRow(r, Converted(row[r]))
    /\ audio' = audio \cup {r}
    /\ Publishing(w, Normalize(r), {Transcribe(r)})
    /\ UNCHANGED <<batch, exists, transcript, zip, uploading, queue, unsent, boundVars>>

\* A transient storage error: the task sends itself again.
NormalizeRetry(w, r) ==
    /\ Working(w, Normalize(r))
    /\ Publishing(w, Normalize(r), {Normalize(r)})
    /\ UNCHANGED <<batch, exists, row, fileVars, uploading, queue, unsent, boundVars>>

\* transcribe: a slot, or none free and the row is left to the dispatcher; a
\* delivery that meets another at the recording's lock ends.
TranscribeStart(w, r) ==
    LET mayPoll == /\ row[r].status = "transcribing"
                   /\ On(Transcribe(r)) = {}
                   /\ row[r].started # NoTime \/ Cardinality(InFlight) < SttMaxInFlight
    IN
    /\ worker[w] = Idle
    /\ Take(Transcribe(r))
    /\ IF mayPoll
       THEN SetRow(r, [row[r] EXCEPT !.started = Now]) /\ Start(w, Transcribe(r))
       ELSE UNCHANGED <<row, worker>>
    /\ UNCHANGED <<batch, exists, fileVars, uploading, unsent, boundVars>>

TranscribeDone(w, r) ==
    /\ Working(w, Transcribe(r))
    /\ SetRow(r, [row[r] EXCEPT !.status = "evaluating", !.failedStage = "none", !.started = NoTime])
    /\ transcript' = transcript \cup {r}
    /\ Publishing(w, Transcribe(r), {Evaluate(r)})
    /\ UNCHANGED <<batch, exists, audio, zip, uploading, queue, unsent, boundVars>>

\* evaluate: under its lock, only an evaluating row.
EvaluateStart(w, r) ==
    /\ worker[w] = Idle
    /\ Take(Evaluate(r))
    /\ IF row[r].status = "evaluating" /\ On(Evaluate(r)) = {}
       THEN Start(w, Evaluate(r)) ELSE UNCHANGED worker
    /\ UNCHANGED <<batch, exists, row, fileVars, uploading, unsent, boundVars>>

\* (Faulty variant: the rollup is not asked for.)
AfterCompletedNothing == {}
AfterCompleted == {Update}

EvaluateDone(w, r) ==
    /\ Working(w, Evaluate(r))
    /\ SetRow(r, [row[r] EXCEPT !.status = "completed", !.failedStage = "none",
                                !.started = NoTime, !.autoRetry = 0])
    /\ Publishing(w, Evaluate(r), AfterCompleted)
    /\ UNCHANGED <<batch, exists, fileVars, uploading, queue, unsent, boundVars>>

\* _fail of any of the three stages, then the exception.
StageFails(w, r, stage, task) ==
    /\ Working(w, task)
    /\ \E retryable \in BOOLEAN :
        /\ SetRow(r, FailRow(row[r], stage, retryable, r \in audio))
        /\ Publishing(w, task, AfterFail(r, stage, retryable))
    /\ UNCHANGED <<batch, exists, fileVars, uploading, queue, unsent, boundVars>>

Fails(w, r) ==
    \/ StageFails(w, r, "convert", Normalize(r))
    \/ StageFails(w, r, "stt", Transcribe(r))
    \/ StageFails(w, r, "eval", Evaluate(r))
    \/ StageFails(w, r, "budget", Evaluate(r))

\* The messages go out and the task is acknowledged.
Publish(w) ==
    /\ worker[w].at = "publishing"
    /\ queue' = queue \cup worker[w].out
    /\ worker' = [worker EXCEPT ![w] = Idle]
    /\ UNCHANGED <<batch, exists, row, fileVars, uploading, unsent, boundVars>>

\* The process dies: its message is delivered again, what it meant to send is not.
Crash(w) ==
    /\ worker[w] # Idle
    /\ faults < MaxFaults
    /\ faults' = faults + 1
    /\ queue' = queue \cup {worker[w].task}
    /\ worker' = [worker EXCEPT ![w] = Idle]
    /\ UNCHANGED <<batch, exists, row, fileVars, uploading, unsent, operations>>

-----------------------------------------------------------------------------
\* update_progress: the batch and the counts are read, then the verdict written.

Active == {r \in exists : row[r].status \in NonTerminal}

\* (Faulty variant: a recording waiting for its evaluation is not active.)
EvaluatingIsDone == {r \in exists : row[r].status \in NonTerminal \ {"evaluating"}}
Counted == Active

Verdict == IF \E r \in exists : row[r].status = "failed" THEN "completed_with_errors"
           ELSE "completed"

UpdateStart(w) ==
    /\ worker[w] = Idle
    /\ Take(Update)
    /\ worker' = IF batch.finalized /\ batch.status = "processing" /\ Counted = {}
                 THEN [worker EXCEPT ![w] = [at |-> Verdict, task |-> Update]] ELSE worker
    /\ UNCHANGED <<batch, exists, row, fileVars, uploading, unsent, boundVars>>

UpdateCommit(w) ==
    /\ worker[w].at \in TerminalStatus
    /\ batch' = [batch EXCEPT !.status = worker[w].at]
    /\ worker' = [worker EXCEPT ![w] = Idle]
    /\ UNCHANGED <<exists, row, fileVars, uploading, queue, unsent, boundVars>>

-----------------------------------------------------------------------------
\* dispatch_stt_waiting and sweep_stuck look only at processing batches.

Dispatch(r) ==
    /\ batch.status = "processing"
    /\ r \in exists
    /\ row[r].status = "transcribing"
    /\ row[r].started = NoTime
    /\ Cardinality(InFlight) < SttMaxInFlight
    /\ Transcribe(r) \notin unsent
    /\ SetRow(r, [row[r] EXCEPT !.started = Now])
    /\ unsent' = unsent \cup {Transcribe(r)}
    /\ UNCHANGED <<batch, exists, fileVars, uploading, queue, worker, boundVars>>

StageTask(r) ==
    CASE row[r].status = "transcribing" -> Transcribe(r)
      [] row[r].status = "evaluating"   -> Evaluate(r)
      [] OTHER                          -> Normalize(r)

\* An evaluation is "running" here while a worker is on it.
Started(r) == StageHasStarted(row[r], On(Evaluate(r)) # {})

Swept(r, new, out) ==
    /\ Sweeping
    /\ batch.status = "processing"
    /\ r \in Active
    /\ SetRow(r, new)
    /\ unsent' = unsent \cup out
    /\ UNCHANGED <<batch, exists, fileVars, uploading, queue, worker, boundVars>>

SweepQueued(r) == ~Started(r) /\ Swept(r, SweepQueuedRow(row[r]), {StageTask(r)})

SweepTimedOut(r) ==
    /\ Started(r)
    /\ Swept(r, SweepTimedOutRow(row[r]),
             IF row[r].autoRetry > 0 THEN {StageTask(r)} ELSE {Update})

SweepResumed(r) ==
    /\ Started(r)
    /\ row[r].attempts < ResumeMaxAttempts
    /\ Swept(r, SweepResumedRow(row[r]), {StageTask(r)})

-----------------------------------------------------------------------------
\* Requests that send recordings back; a finished batch is processing again.

Reopened == IF batch.status \in TerminalStatus THEN [batch EXCEPT !.status = "processing"] ELSE batch

\* The rows of R become new's.
Request(R, new, out, newBatch) ==
    /\ R # {}
    /\ operations < MaxOperations
    /\ operations' = operations + 1
    /\ row' = [r \in Recordings |-> IF r \in R THEN new[r] ELSE row[r]]
    /\ batch' = newBatch
    /\ unsent' = unsent \cup out
    /\ UNCHANGED <<exists, fileVars, uploading, queue, worker, faults>>

ChainFrom(stage, r) ==
    CASE stage = "convert" -> Normalize(r)
      [] stage = "stt"     -> Transcribe(r)
      [] OTHER             -> Evaluate(r)

\* (Faulty variant: audio is enough to evaluate.)
ReprocessWithAudio(r, stage) ==
    /\ r \in exists /\ row[r].status \in {"completed", "failed"}
    /\ stage # "convert" => r \in audio
    /\ Request({r}, [s \in Recordings |-> ReprocessedRow(row[s], stage)],
               {ChainFrom(stage, r)}, Reopened)

\* recordings.reprocess; with "eval" also the bulk re-evaluation of one row.
Reprocess(r, stage) ==
    LET new == [s \in Recordings |-> ReprocessedRow(row[s], stage)] IN
    /\ r \in exists
    /\ row[r].status \notin {"converting", "transcribing", "evaluating"}
    /\ stage = "stt" => r \in audio
    /\ stage = "eval" => r \in transcript
    /\ Request({r}, new, {ChainFrom(stage, r)}, Reopened)

\* batches.retry_failed: what failed in the STT waits for the dispatcher.
RetryFailed ==
    LET failed == {r \in exists : row[r].status = "failed"}
        stage(r) == RetryFailedStage(row[r], r \in audio)
        new == [r \in Recordings |-> RetryFailedRow(row[r], r \in audio)]
    IN  Request(failed, new,
                {ChainFrom(stage(r), r) : r \in {s \in failed : stage(s) # "stt"}}, Reopened)

\* batches.rerun_batch_stt: every recording with audio, whatever it is doing,
\* and a batch in any status.
RerunBatchStt ==
    LET new == [r \in Recordings |-> SttRerunRow(row[r], TRUE, InitialRetries)]
    IN  Request(exists \cap audio, new, {}, [batch EXCEPT !.status = "processing"])

\* batches.bulk_rerun_stt: recordings at rest of a finished batch.
BulkRerunStt ==
    LET atRest == {r \in exists : row[r].status \in {"completed", "failed"}}
        new == [r \in Recordings |-> SttRerunRow(row[r], r \in audio, InitialRetries)]
    IN  /\ batch.finalized
        /\ batch.status \in TerminalStatus
        /\ Request(atRest, new, {Normalize(r) : r \in atRest \ audio},
                   [batch EXCEPT !.status = "processing"])

-----------------------------------------------------------------------------
WorkerStep(w) ==
    \/ ExpandStart(w)
    \/ ExpandCommit(w)
    \/ \E r \in Recordings :
        \/ NormalizeStart(w, r)
        \/ NormalizeDone(w, r)
        \/ NormalizeRetry(w, r)
        \/ TranscribeStart(w, r)
        \/ TranscribeDone(w, r)
        \/ EvaluateStart(w, r)
        \/ EvaluateDone(w, r)
        \/ Fails(w, r)
    \/ Publish(w)
    \/ UpdateStart(w)
    \/ UpdateCommit(w)

Sweep(r) == SweepQueued(r) \/ SweepTimedOut(r) \/ SweepResumed(r)

Next ==
    \/ \E r \in Direct : UploadCheck(r) \/ UploadCommit(r)
    \/ Finalize
    \/ Send
    \/ SenderCrash
    \/ \E w \in Workers : WorkerStep(w) \/ Crash(w)
    \/ \E r \in Recordings : Dispatch(r) \/ Sweep(r)
    \/ \E r \in Recordings, stage \in {"convert", "stt", "eval"} : Reprocess(r, stage)
    \/ RetryFailed
    \/ RerunBatchStt
    \/ BulkRerunStt

Spec == Init /\ [][Next]_vars

\* Workers and senders keep running, storage errors do not last for ever, the
\* dispatcher and the sweep come round again and again.
Fairness ==
    /\ \A w \in Workers : WF_vars(WorkerStep(w))
    /\ \A w \in Workers, r \in Recordings : SF_vars(NormalizeDone(w, r))
    /\ WF_vars(Send)
    /\ \A r \in Recordings : /\ SF_vars(Dispatch(r))
                             /\ SF_vars(SweepQueued(r))
                             /\ SF_vars(SweepTimedOut(r))

FairSpec == Spec /\ Fairness

-----------------------------------------------------------------------------
\* Properties

\* Every variable keeps its type.
TypeOK ==
    /\ batch \in Batch
    /\ exists \in SUBSET Recordings
    /\ row \in [Recordings -> Row]
    /\ audio \in SUBSET Recordings
    /\ transcript \in SUBSET Recordings
    /\ zip \in BOOLEAN
    /\ uploading \in SUBSET Direct
    /\ queue \in SUBSET Tasks
    /\ unsent \in SUBSET Tasks
    /\ worker \in [Workers -> {Idle} \cup Busy \cup Done]
    /\ faults \in 0 .. MaxFaults
    /\ operations \in 0 .. MaxOperations

\* The rollup's verdict is true and stays true: as long as nobody sends
\* recordings back, a finished batch has none on its way, and says "with
\* errors" exactly if one failed.
VerdictIsTrue ==
    operations = 0 /\ batch.status \in TerminalStatus
        => (Active = {} /\ batch.status = Verdict)

\* An evaluation never runs on a recording that has no transcript.
EvaluatesATranscript == \A r \in Recordings : On(Evaluate(r)) # {} => r \in transcript

\* DESIGN's verification plan: a finalized batch finishes.  (With no worker killed;
\* one killed at "publishing" takes the last rollup with it.)
BatchFinishes == batch.finalized ~> (batch.status \in TerminalStatus)

-----------------------------------------------------------------------------
\* Stated of the program and not true of it

\* An accepted upload is never lost: a member of the zip has a row, or is still
\* in the zip or in the hands of the expansion.  (A worker that dies at "unpacked"
\* leaves it nowhere.)
ZipMembersKept ==
    Zipped \subseteq exists \/ zip \/ \E w \in Workers : worker[w] # Idle /\ worker[w].at = "unpacked"

\* normalize_audio's guard: a redelivery finds the recording past its stage and
\* does nothing, so a completed recording is left alone unless someone asks.
\* (A second delivery that passed the guard earlier moves it back when it ends.)
CompletedStays ==
    [][\A r \in Recordings :
        (row[r].status = "completed" /\ row'[r].status # "completed")
            => operations' = operations + 1]_vars

\* DEPLOY's zombie recovery: a recording in a non-terminal stage moves on
\* without an operator.  (One uploaded after its batch has finished does not.)
NoZombies ==
    \A r \in Recordings :
        (r \in Active /\ batch.finalized) ~> (row[r].status \in {"completed", "failed"})
=============================================================================
