----------------------- MODULE BatchLifecycle_proofs -----------------------
(***************************************************************************)
(* What a batch keeps true for any set of recordings, uploaded one by one  *)
(* or in a zip, any number of workers, retries, crashes and requests: its  *)
(* types, that evaluations have a transcript, and, where the sweep does    *)
(* not run, that the rollup's verdict is true and stays true.              *)
(***************************************************************************)
EXTENDS BatchLifecycle, TLAPS

-----------------------------------------------------------------------------
\* The writes of RecordingRow make rows of rows

LEMMA OneMoreAttemptType ==
    ASSUME NEW n \in Nat
    PROVE  OneMoreAttempt(n) \in Nat
BY RowAssumption DEF OneMoreAttempt

LEMMA FailRowType ==
    ASSUME NEW old \in Row, NEW stage \in Stages, NEW retryable \in BOOLEAN, NEW hasAudio
    PROVE  FailRow(old, stage, retryable, hasAudio) \in Row
<1>1. RetryStage(stage, hasAudio) \in Stages
  BY DEF RetryStage, Stages
<1>2. ASSUME old.autoRetry > 0, NEW again \in Stages
      PROVE  AutoRetryRow(old, again) \in Row
  <2>1. StatusOfStage(again) \in Statuses
    BY DEF StatusOfStage, Statuses, NonTerminal
  <2>2. old.autoRetry - 1 \in Nat
    BY <1>2 DEF Row
  <2>. QED  BY <2>1, <2>2 DEF AutoRetryRow, Row
<1>3. FailedRow(old, stage) \in Row
  BY OneMoreAttemptType DEF FailedRow, Row, Statuses, NonTerminal, Stages
<1>. QED  BY <1>1, <1>2, <1>3 DEF FailRow, CanAutoRetry

LEMMA SweepRowTypes ==
    ASSUME NEW old \in Row
    PROVE  /\ SweepQueuedRow(old) \in Row
           /\ SweepResumedRow(old) \in Row
           /\ SweepTimedOutRow(old) \in Row
<1>1. SweepQueuedRow(old) \in Row
  BY DEF SweepQueuedRow, Row
<1>2. SweepResumedRow(old) \in Row
  BY OneMoreAttemptType DEF SweepResumedRow, Row
<1>3. SweepTimedOutRow(old) \in Row
  <2>1. ASSUME NEW new \in Row, NEW status
        PROVE  WithoutStt(new, status) \in Row
    BY DEF WithoutStt, Row
  <2>2. CASE old.autoRetry > 0
    <3>1. old.autoRetry - 1 \in Nat
      BY <2>2 DEF Row
    <3>2. [old EXCEPT !.autoRetry = @ - 1, !.failedStage = "none", !.attempts = 0] \in Row
      BY <3>1 DEF Row
    <3>. QED  BY <2>1, <2>2, <3>2 DEF SweepTimedOutRow
  <2>3. CASE ~(old.autoRetry > 0)
    <3>1. [old EXCEPT !.status = "failed", !.failedStage = StageForStatus(old.status)] \in Row
      BY DEF StageForStatus, Row, Statuses, Stages
    <3>. QED  BY <2>1, <2>3, <3>1 DEF SweepTimedOutRow
  <2>. QED  BY <2>2, <2>3
<1>. QED  BY <1>1, <1>2, <1>3

LEMMA OperatorRowTypes ==
    ASSUME NEW old \in Row, NEW stage \in Stages, NEW limit \in Nat, NEW hasAudio
    PROVE  /\ RetryFailedRow(old, hasAudio) \in Row
           /\ SttRerunRow(old, hasAudio, limit) \in Row
           /\ ReprocessedRow(old, stage) \in Row
BY DEF RetryFailedRow, RetryFailedStage, AtLeastTwo, SttRerunRow, ReprocessedRow,
       StatusOfStage, Row, Statuses, NonTerminal, Stages

-----------------------------------------------------------------------------
\* Types

LEMMA Values ==
    /\ MaxFaults \in Nat /\ MaxOperations \in Nat /\ InitialRetries \in Nat
    /\ Now \in Stamps
    /\ NewRow \in Row
    /\ Expand \in Tasks /\ Update \in Tasks
    /\ \A r \in Recordings : Normalize(r) \in Tasks /\ Transcribe(r) \in Tasks /\ Evaluate(r) \in Tasks
<1>1. InitialRetries \in Nat /\ Now \in Stamps
  BY BatchAssumption
<1>2. NewRow \in Row
  BY <1>1 DEF NewRow, Row, Statuses, NonTerminal
<1>. QED  BY <1>1, <1>2, BatchAssumption DEF Tasks, Expand, Update, Normalize, Transcribe, Evaluate

LEMMA TaskNames ==
    /\ Expand # Update
    /\ \A r \in Recordings : /\ Normalize(r) \notin {Expand, Update}
                             /\ Transcribe(r) \notin {Expand, Update}
                             /\ Evaluate(r) \notin {Expand, Update}
    /\ \A r, s \in Recordings : /\ Normalize(r) = Normalize(s) => r = s
                                /\ Transcribe(r) = Transcribe(s) => r = s
                                /\ Evaluate(r) = Evaluate(s) => r = s
                                /\ Normalize(r) # Transcribe(s) /\ Normalize(r) # Evaluate(s)
                                /\ Transcribe(r) # Evaluate(s)
BY DEF Expand, Update, Normalize, Transcribe, Evaluate

\* What a worker may be given to do, and to send.
LEMMA WorkerTypes ==
    ASSUME TypeOK, NEW w \in Workers, NEW task \in Tasks
    PROVE  /\ Start(w, task) => worker' \in [Workers -> {Idle} \cup Busy \cup Done]
           /\ \A at \in {"unpacked"} \cup TerminalStatus :
                  worker' = [worker EXCEPT ![w] = [at |-> at, task |-> task]]
                      => worker' \in [Workers -> {Idle} \cup Busy \cup Done]
           /\ \A out \in SUBSET Tasks :
                  Publishing(w, task, out) => worker' \in [Workers -> {Idle} \cup Busy \cup Done]
           /\ worker' = [worker EXCEPT ![w] = Idle]
                  => worker' \in [Workers -> {Idle} \cup Busy \cup Done]
<1>1. \A at \in {"working", "unpacked"} \cup TerminalStatus : [at |-> at, task |-> task] \in Busy
  BY DEF Busy
<1>2. \A out \in SUBSET Tasks : [at |-> "publishing", task |-> task, out |-> out] \in Done
  BY DEF Done
<1>. QED  BY <1>1, <1>2 DEF TypeOK, Start, Publishing

LEMMA BusyWorker ==
    ASSUME TypeOK, NEW w \in Workers
    PROVE  /\ worker[w] # Idle => worker[w].task \in Tasks
           /\ worker[w].at = "publishing" => worker[w] # Idle /\ worker[w].out \in SUBSET Tasks
           /\ worker[w].at \in TerminalStatus => worker[w] # Idle
<1>1. worker[w] \in {Idle} \cup Busy \cup Done
  BY DEF TypeOK
<1>. QED  BY <1>1 DEF Idle, Busy, Done, TerminalStatus

LEMMA AfterFailType ==
    ASSUME NEW r \in Recordings, NEW stage, NEW retryable
    PROVE  AfterFail(r, stage, retryable) \in SUBSET Tasks
BY Values DEF AfterFail

LEMMA TypeInit == Init => TypeOK
<1>. SUFFICES ASSUME Init
             PROVE  TypeOK
  OBVIOUS
<1>1. row \in [Recordings -> Row]
  BY Values DEF Init
<1>2. zip \in BOOLEAN
  <2>1. (Zipped # {}) \in BOOLEAN
    OBVIOUS
  <2>. QED  BY <2>1, Zenon DEF Init
<1>3. batch \in Batch
  BY DEF Init, Batch, BatchStatuses
<1>. QED  BY <1>1, <1>2, <1>3, Values DEF Init, TypeOK

LEMMA RowWritten ==
    ASSUME TypeOK, NEW r \in Recordings, NEW new \in Row, SetRow(r, new)
    PROVE  row' \in [Recordings -> Row]
BY DEF TypeOK, SetRow

LEMMA WorkerStepTypes ==
    ASSUME TypeOK, NEW w \in Workers, WorkerStep(w)
    PROVE  TypeOK'
<1>1. CASE ExpandStart(w)
  <2>1. \/ worker' = [worker EXCEPT ![w] = [at |-> "unpacked", task |-> Expand]]
        \/ Start(w, Expand)
    BY <1>1 DEF ExpandStart, Start
  <2>2. worker' \in [Workers -> {Idle} \cup Busy \cup Done]
    BY <2>1, Values, WorkerTypes
  <2>. QED  BY <1>1, <2>2 DEF ExpandStart, Take, TypeOK, boundVars
<1>2. CASE ExpandCommit(w)
  <2>1. exists' \in SUBSET Recordings
    BY <1>2 DEF ExpandCommit, TypeOK, Recordings
  <2>2. {Update} \cup {Normalize(r) : r \in {s \in exists' : row[s].status = "uploaded"}} \in SUBSET Tasks
    BY <2>1, Values
  <2>3. worker' \in [Workers -> {Idle} \cup Busy \cup Done]
    BY <1>2, <2>2, Values, WorkerTypes DEF ExpandCommit
  <2>. QED  BY <1>2, <2>1, <2>3 DEF ExpandCommit, TypeOK, boundVars, fileVars
<1>3. ASSUME NEW r \in Recordings, NormalizeStart(w, r)
      PROVE  TypeOK'
  <2>1. [row[r] EXCEPT !.status = "converting"] \in Row
    BY DEF TypeOK, Row, Statuses, NonTerminal
  <2>2. row' \in [Recordings -> Row]
    BY <1>3, <2>1, RowWritten DEF NormalizeStart, TypeOK
  <2>3. worker' \in [Workers -> {Idle} \cup Busy \cup Done]
    BY <1>3, Values, WorkerTypes DEF NormalizeStart
  <2>. QED  BY <1>3, <2>2, <2>3 DEF NormalizeStart, Take, TypeOK, boundVars, fileVars
<1>4. ASSUME NEW r \in Recordings, NormalizeDone(w, r)
      PROVE  TypeOK'
  <2>1. Converted(row[r]) \in Row
    BY DEF TypeOK, Row, Statuses, NonTerminal, Converted
  <2>2. row' \in [Recordings -> Row]
    BY <1>4, <2>1, RowWritten DEF NormalizeDone
  <2>3. worker' \in [Workers -> {Idle} \cup Busy \cup Done]
    BY <1>4, Values, WorkerTypes DEF NormalizeDone
  <2>. QED  BY <1>4, <2>2, <2>3 DEF NormalizeDone, TypeOK, boundVars
<1>5. ASSUME NEW r \in Recordings, NormalizeRetry(w, r)
      PROVE  TypeOK'
  <2>1. worker' \in [Workers -> {Idle} \cup Busy \cup Done]
    BY <1>5, Values, WorkerTypes DEF NormalizeRetry
  <2>. QED  BY <1>5, <2>1 DEF NormalizeRetry, TypeOK, boundVars, fileVars
<1>6. ASSUME NEW r \in Recordings, TranscribeStart(w, r)
      PROVE  TypeOK'
  <2>1. [row[r] EXCEPT !.started = Now] \in Row
    BY Values DEF TypeOK, Row
  <2>2. row' \in [Recordings -> Row]
    BY <1>6, <2>1, RowWritten DEF TranscribeStart, TypeOK
  <2>3. worker' \in [Workers -> {Idle} \cup Busy \cup Done]
    BY <1>6, Values, WorkerTypes DEF TranscribeStart, TypeOK
  <2>. QED  BY <1>6, <2>2, <2>3 DEF TranscribeStart, Take, TypeOK, boundVars, fileVars
<1>7. ASSUME NEW r \in Recordings, TranscribeDone(w, r)
      PROVE  TypeOK'
  <2>1. [row[r] EXCEPT !.status = "evaluating", !.failedStage = "none", !.started = NoTime] \in Row
    BY DEF TypeOK, Row, Statuses, NonTerminal
  <2>2. row' \in [Recordings -> Row]
    BY <1>7, <2>1, RowWritten DEF TranscribeDone
  <2>3. worker' \in [Workers -> {Idle} \cup Busy \cup Done]
    BY <1>7, Values, WorkerTypes DEF TranscribeDone
  <2>. QED  BY <1>7, <2>2, <2>3 DEF TranscribeDone, TypeOK, boundVars
<1>8. ASSUME NEW r \in Recordings, EvaluateStart(w, r)
      PROVE  TypeOK'
  <2>1. worker' \in [Workers -> {Idle} \cup Busy \cup Done]
    BY <1>8, Values, WorkerTypes DEF EvaluateStart, TypeOK
  <2>. QED  BY <1>8, <2>1 DEF EvaluateStart, Take, TypeOK, boundVars, fileVars
<1>9. ASSUME NEW r \in Recordings, EvaluateDone(w, r)
      PROVE  TypeOK'
  <2>1. [row[r] EXCEPT !.status = "completed", !.failedStage = "none",
                       !.started = NoTime, !.autoRetry = 0] \in Row
    BY DEF TypeOK, Row, Statuses
  <2>2. row' \in [Recordings -> Row]
    BY <1>9, <2>1, RowWritten DEF EvaluateDone
  <2>3. worker' \in [Workers -> {Idle} \cup Busy \cup Done]
    BY <1>9, Values, WorkerTypes DEF EvaluateDone, AfterCompleted
  <2>. QED  BY <1>9, <2>2, <2>3 DEF EvaluateDone, TypeOK, boundVars, fileVars
<1>10. ASSUME NEW r \in Recordings, NEW stage \in Stages, NEW task \in Tasks,
              StageFails(w, r, stage, task)
       PROVE  TypeOK'
  <2>1. PICK retryable \in BOOLEAN : /\ SetRow(r, FailRow(row[r], stage, retryable, r \in audio))
                                     /\ Publishing(w, task, AfterFail(r, stage, retryable))
    BY <1>10 DEF StageFails
  <2>2. row[r] \in Row
    BY DEF TypeOK
  <2>3. FailRow(row[r], stage, retryable, r \in audio) \in Row
    BY <2>2, FailRowType
  <2>4. row' \in [Recordings -> Row]
    BY <2>1, <2>3, RowWritten
  <2>5. worker' \in [Workers -> {Idle} \cup Busy \cup Done]
    BY <2>1, AfterFailType, WorkerTypes
  <2>. QED  BY <1>10, <2>4, <2>5 DEF StageFails, TypeOK, boundVars, fileVars
<1>11. ASSUME NEW r \in Recordings, Fails(w, r)
       PROVE  TypeOK'
  BY <1>10, <1>11, Values DEF Fails, Stages
<1>12. CASE Publish(w)
  BY <1>12, WorkerTypes, BusyWorker, Values DEF Publish, TypeOK, boundVars, fileVars
<1>13. CASE UpdateStart(w)
  <2>1. Verdict \in TerminalStatus
    BY DEF Verdict, TerminalStatus
  <2>2. worker' \in [Workers -> {Idle} \cup Busy \cup Done]
    BY <1>13, <2>1, Values, WorkerTypes DEF UpdateStart, TypeOK
  <2>. QED  BY <1>13, <2>2 DEF UpdateStart, Take, TypeOK, boundVars, fileVars
<1>14. CASE UpdateCommit(w)
  <2>1. batch' \in Batch
    BY <1>14 DEF UpdateCommit, TypeOK, Batch, BatchStatuses, TerminalStatus
  <2>2. worker' \in [Workers -> {Idle} \cup Busy \cup Done]
    BY <1>14, Values, WorkerTypes DEF UpdateCommit
  <2>. QED  BY <1>14, <2>1, <2>2 DEF UpdateCommit, TypeOK, boundVars, fileVars
<1>. QED  BY <1>1, <1>2, <1>3, <1>4, <1>5, <1>6, <1>7, <1>8, <1>9, <1>11, <1>12, <1>13, <1>14
          DEF WorkerStep

LEMMA RequestTypes ==
    ASSUME TypeOK, NEW R \in SUBSET Recordings, NEW new \in [Recordings -> Row],
           NEW out \in SUBSET Tasks, NEW newBatch \in Batch, Request(R, new, out, newBatch)
    PROVE  TypeOK'
<1>1. row' \in [Recordings -> Row]
  BY DEF Request, TypeOK
<1>2. operations' \in 0 .. MaxOperations
  BY Values DEF Request, TypeOK
<1>. QED  BY <1>1, <1>2 DEF Request, TypeOK, fileVars

LEMMA ReopenedType ==
    ASSUME TypeOK
    PROVE  Reopened \in Batch /\ [batch EXCEPT !.status = "processing"] \in Batch
BY DEF TypeOK, Reopened, Batch, BatchStatuses

LEMMA ChainFromType ==
    ASSUME NEW r \in Recordings, NEW stage
    PROVE  ChainFrom(stage, r) \in Tasks
BY Values DEF ChainFrom

LEMMA OperatorTypes ==
    ASSUME TypeOK,
           \/ \E r \in Recordings, stage \in {"convert", "stt", "eval"} : Reprocess(r, stage)
           \/ RetryFailed \/ RerunBatchStt \/ BulkRerunStt
    PROVE  TypeOK'
<1>1. \A r \in Recordings : row[r] \in Row
  BY DEF TypeOK
<1>2. ASSUME NEW r \in Recordings, NEW stage \in {"convert", "stt", "eval"}, Reprocess(r, stage)
      PROVE  TypeOK'
  <2>. DEFINE new == [s \in Recordings |-> ReprocessedRow(row[s], stage)]
  <2>1. new \in [Recordings -> Row]
    BY <1>1, OperatorRowTypes DEF Stages
  <2>2. Request({r}, new, {ChainFrom(stage, r)}, Reopened)
    BY <1>2 DEF Reprocess
  <2>. QED  BY <2>1, <2>2, RequestTypes, ReopenedType, ChainFromType
<1>3. ASSUME RetryFailed
      PROVE  TypeOK'
  <2>. DEFINE failed == {r \in exists : row[r].status = "failed"}
              new == [r \in Recordings |-> RetryFailedRow(row[r], r \in audio)]
              out == {ChainFrom(RetryFailedStage(row[r], r \in audio), r) :
                         r \in {s \in failed : RetryFailedStage(row[s], s \in audio) # "stt"}}
  <2>1. new \in [Recordings -> Row]
    <3>1. \A r \in Recordings : RetryFailedRow(row[r], r \in audio) \in Row
      BY <1>1, OperatorRowTypes DEF Stages
    <3>. QED  BY <3>1
  <2>2. failed \in SUBSET Recordings
    BY DEF TypeOK
  <2>3. out \in SUBSET Tasks
    BY <2>2, ChainFromType
  <2>4. Request(failed, new, out, Reopened)
    BY <1>3 DEF RetryFailed
  <2>. HIDE DEF failed, new, out
  <2>. QED  BY <2>1, <2>2, <2>3, <2>4, RequestTypes, ReopenedType
<1>4. ASSUME NEW hasAudio
      PROVE  \A r \in Recordings : SttRerunRow(row[r], hasAudio, InitialRetries) \in Row
  BY <1>1, Values, OperatorRowTypes DEF Stages
<1>5. ASSUME RerunBatchStt
      PROVE  TypeOK'
  <2>. DEFINE new == [r \in Recordings |-> SttRerunRow(row[r], TRUE, InitialRetries)]
  <2>1. new \in [Recordings -> Row]
    BY <1>4
  <2>2. exists \cap audio \in SUBSET Recordings
    BY DEF TypeOK
  <2>3. Request(exists \cap audio, new, {}, [batch EXCEPT !.status = "processing"])
    BY <1>5 DEF RerunBatchStt
  <2>. HIDE DEF new
  <2>. QED  BY <2>1, <2>2, <2>3, RequestTypes, ReopenedType
<1>6. ASSUME BulkRerunStt
      PROVE  TypeOK'
  <2>. DEFINE atRest == {r \in exists : row[r].status \in {"completed", "failed"}}
              new == [r \in Recordings |-> SttRerunRow(row[r], r \in audio, InitialRetries)]
              out == {Normalize(r) : r \in atRest \ audio}
  <2>1. new \in [Recordings -> Row]
    <3>1. \A r \in Recordings : SttRerunRow(row[r], r \in audio, InitialRetries) \in Row
      BY <1>1, Values, OperatorRowTypes DEF Stages
    <3>. QED  BY <3>1
  <2>2. atRest \in SUBSET Recordings
    BY DEF TypeOK
  <2>3. out \in SUBSET Tasks
    BY <2>2, Values
  <2>4. Request(atRest, new, out, [batch EXCEPT !.status = "processing"])
    BY <1>6 DEF BulkRerunStt
  <2>. HIDE DEF atRest, new, out
  <2>. QED  BY <2>1, <2>2, <2>3, <2>4, RequestTypes, ReopenedType
<1>. QED  BY <1>2, <1>3, <1>5, <1>6

LEMMA SweepTypes ==
    ASSUME TypeOK, NEW r \in Recordings, Sweep(r)
    PROVE  TypeOK'
<1>1. row[r] \in Row
  BY DEF TypeOK
<1>2. StageTask(r) \in Tasks
  BY Values DEF StageTask
<1>3. ASSUME NEW new \in Row, NEW out \in SUBSET Tasks, Swept(r, new, out)
      PROVE  TypeOK'
  <2>1. row' \in [Recordings -> Row]
    BY <1>3, RowWritten DEF Swept
  <2>. QED  BY <1>3, <2>1 DEF Swept, TypeOK, fileVars, boundVars
<1>4. CASE SweepQueued(r)
  BY <1>1, <1>2, <1>3, <1>4, SweepRowTypes DEF SweepQueued
<1>5. CASE SweepTimedOut(r)
  BY <1>1, <1>2, <1>3, <1>5, SweepRowTypes, Values DEF SweepTimedOut
<1>6. CASE SweepResumed(r)
  BY <1>1, <1>2, <1>3, <1>6, SweepRowTypes DEF SweepResumed
<1>. QED  BY <1>4, <1>5, <1>6 DEF Sweep

LEMMA TypeStep == TypeOK /\ [Next]_vars => TypeOK'
<1>. SUFFICES ASSUME TypeOK, [Next]_vars
             PROVE  TypeOK'
  OBVIOUS
<1>1. ASSUME NEW r \in Direct, UploadCheck(r) \/ UploadCommit(r)
      PROVE  TypeOK'
  BY <1>1 DEF UploadCheck, UploadCommit, TypeOK, Recordings, fileVars, boundVars
<1>2. CASE Finalize
  BY <1>2, Values DEF Finalize, TypeOK, Batch, BatchStatuses, fileVars, boundVars
<1>3. CASE Send
  BY <1>3 DEF Send, TypeOK, fileVars, boundVars
<1>4. CASE SenderCrash
  <2>1. faults' \in 0 .. MaxFaults
    BY <1>4, Values DEF SenderCrash, TypeOK
  <2>. QED  BY <1>4, <2>1 DEF SenderCrash, TypeOK, fileVars
<1>5. ASSUME NEW w \in Workers, Crash(w)
      PROVE  TypeOK'
  <2>1. faults' \in 0 .. MaxFaults
    BY <1>5, Values DEF Crash, TypeOK
  <2>2. worker' \in [Workers -> {Idle} \cup Busy \cup Done] /\ queue' \in SUBSET Tasks
    BY <1>5, WorkerTypes, BusyWorker, Values DEF Crash, TypeOK
  <2>. QED  BY <1>5, <2>1, <2>2 DEF Crash, TypeOK, fileVars
<1>6. ASSUME NEW r \in Recordings, Dispatch(r)
      PROVE  TypeOK'
  <2>1. [row[r] EXCEPT !.started = Now] \in Row
    BY Values DEF TypeOK, Row
  <2>2. row' \in [Recordings -> Row]
    BY <1>6, <2>1, RowWritten DEF Dispatch
  <2>. QED  BY <1>6, <2>2, Values DEF Dispatch, TypeOK, fileVars, boundVars
<1>7. CASE UNCHANGED vars
  BY <1>7 DEF vars, TypeOK, fileVars, boundVars
<1>. QED  BY <1>1, <1>2, <1>3, <1>4, <1>5, <1>6, <1>7, WorkerStepTypes, SweepTypes, OperatorTypes DEF Next

\* Whatever the sweep, operators and crashes do, a batch and its recordings keep
\* their types.
THEOREM TypeCorrect == Spec => []TypeOK
BY TypeInit, TypeStep, PTL DEF Spec

-----------------------------------------------------------------------------
\* Evaluations have a transcript

\* A recording that waits for its evaluation has been transcribed, and so has one
\* that failed there: a retry sends it back to its evaluation.
NeedsTranscript(old) == old.status = "evaluating" \/ old.failedStage \in {"eval", "budget"}

TranscriptInv ==
    \A r \in Recordings :
        /\ NeedsTranscript(row[r]) => r \in transcript
        /\ \A w \in Workers : Working(w, Evaluate(r)) => r \in transcript

LEMMA WritesNeed ==
    ASSUME NEW old \in Row, NEW stage \in Stages, NEW retryable, NEW hasAudio, NEW limit
    PROVE  /\ NeedsTranscript(FailRow(old, stage, retryable, hasAudio)) => stage \in {"eval", "budget"}
           /\ NeedsTranscript(SweepQueuedRow(old)) => NeedsTranscript(old)
           /\ NeedsTranscript(SweepResumedRow(old)) => NeedsTranscript(old)
           /\ NeedsTranscript(SweepTimedOutRow(old)) => NeedsTranscript(old)
           /\ NeedsTranscript(RetryFailedRow(old, hasAudio)) => NeedsTranscript(old)
           /\ ~NeedsTranscript(SttRerunRow(old, hasAudio, limit))
           /\ NeedsTranscript(ReprocessedRow(old, stage)) => stage \in {"eval", "budget"}
<1>. USE DEF Row, NeedsTranscript
<1>1. NeedsTranscript(FailRow(old, stage, retryable, hasAudio)) => stage \in {"eval", "budget"}
  BY DEF FailRow, RetryStage, AutoRetryRow, FailedRow, StatusOfStage, Stages
<1>2. /\ NeedsTranscript(SweepQueuedRow(old)) => NeedsTranscript(old)
      /\ NeedsTranscript(SweepResumedRow(old)) => NeedsTranscript(old)
  BY DEF SweepQueuedRow, SweepResumedRow
<1>3. NeedsTranscript(SweepTimedOutRow(old)) => NeedsTranscript(old)
  BY DEF SweepTimedOutRow, WithoutStt, StageForStatus
<1>4. NeedsTranscript(RetryFailedRow(old, hasAudio)) => NeedsTranscript(old)
  BY DEF RetryFailedRow, RetryFailedStage, StatusOfStage
<1>5. ~NeedsTranscript(SttRerunRow(old, hasAudio, limit))
  BY DEF SttRerunRow
<1>6. NeedsTranscript(ReprocessedRow(old, stage)) => stage \in {"eval", "budget"}
  BY DEF ReprocessedRow, StatusOfStage, Stages
<1>. QED  BY <1>1, <1>2, <1>3, <1>4, <1>5, <1>6

\* Rows that need no transcript that they do not have, and no new evaluation.
LEMMA TranscriptsKept ==
    ASSUME TranscriptInv, transcript \subseteq transcript',
           \A r \in Recordings : NeedsTranscript(row'[r]) => NeedsTranscript(row[r]) \/ r \in transcript',
           \A r \in Recordings : \A w \in Workers :
               Working(w, Evaluate(r))' => Working(w, Evaluate(r)) \/ r \in transcript'
    PROVE  TranscriptInv'
BY DEF TranscriptInv

\* No worker is at work that was not.
NoneStarts == \A w \in Workers : worker'[w] = worker[w] \/ worker'[w] = Idle \/ worker'[w].at # "working"

LEMMA NoneEvaluates ==
    ASSUME NoneStarts
    PROVE  \A r \in Recordings : \A w \in Workers : Working(w, Evaluate(r))' => Working(w, Evaluate(r))
BY DEF NoneStarts, Working

LEMMA OneRow ==
    ASSUME TypeOK, NEW r \in Recordings, NEW new, SetRow(r, new)
    PROVE  row'[r] = new /\ \A s \in Recordings \ {r} : row'[s] = row[s]
BY DEF TypeOK, SetRow

LEMMA OneWorker ==
    ASSUME TypeOK, NEW w \in Workers, NEW new, worker' = [worker EXCEPT ![w] = new]
    PROVE  worker'[w] = new /\ \A v \in Workers \ {w} : worker'[v] = worker[v]
BY DEF TypeOK

LEMMA Published ==
    ASSUME TypeOK, NEW w \in Workers, NEW task, NEW out, Publishing(w, task, out)
    PROVE  /\ NoneStarts
           /\ worker'[w] # Idle
           /\ worker'[w].at = "publishing" /\ worker'[w].task = task /\ worker'[w].out = out
           /\ \A v \in Workers \ {w} : worker'[v] = worker[v]
<1>1. /\ worker'[w] = [at |-> "publishing", task |-> task, out |-> out]
      /\ \A v \in Workers \ {w} : worker'[v] = worker[v]
  BY DEF TypeOK, Publishing
<1>. QED  BY <1>1 DEF NoneStarts, Idle

LEMMA Started_ ==
    ASSUME TypeOK, NEW w \in Workers, NEW task, Start(w, task)
    PROVE  /\ worker'[w] # Idle
           /\ worker'[w].at = "working" /\ worker'[w].task = task
           /\ \A v \in Workers \ {w} : worker'[v] = worker[v]
<1>1. /\ worker'[w] = [at |-> "working", task |-> task]
      /\ \A v \in Workers \ {w} : worker'[v] = worker[v]
  BY DEF TypeOK, Start
<1>. QED  BY <1>1 DEF Idle

LEMMA TranscriptWorkerStep ==
    ASSUME TypeOK, TranscriptInv, NEW w \in Workers, WorkerStep(w)
    PROVE  TranscriptInv'
<1>1. CASE ExpandStart(w)
  <2>1. worker'[w].task = Expand /\ \A v \in Workers \ {w} : worker'[v] = worker[v]
    BY <1>1 DEF ExpandStart, TypeOK
  <2>2. UNCHANGED <<row, transcript>>
    BY <1>1 DEF ExpandStart
  <2>. QED  BY <2>1, <2>2, TaskNames, TranscriptsKept DEF Working
<1>2. CASE ExpandCommit(w)
  BY <1>2, Published, TranscriptsKept, NoneEvaluates DEF ExpandCommit, fileVars
<1>3. ASSUME NEW r \in Recordings, NormalizeStart(w, r)
      PROVE  TranscriptInv'
  <2>1. CASE row[r].status \in {"uploaded", "converting"}
    <3>1. SetRow(r, [row[r] EXCEPT !.status = "converting"]) /\ Start(w, Normalize(r)) /\ UNCHANGED transcript
      BY <1>3, <2>1 DEF NormalizeStart, fileVars
    <3>2. worker'[w].task = Normalize(r) /\ \A v \in Workers \ {w} : worker'[v] = worker[v]
      BY <3>1, Started_
    <3>3. row[r] \in Row
      BY DEF TypeOK
    <3>4. \A s \in Recordings : NeedsTranscript(row'[s]) => NeedsTranscript(row[s])
      BY <3>1, <3>3, OneRow DEF NeedsTranscript, Row
    <3>. QED  BY <3>1, <3>2, <3>4, TaskNames, TranscriptsKept DEF Working
  <2>2. CASE row[r].status \notin {"uploaded", "converting"}
    BY <1>3, <2>2, Published, TranscriptsKept, NoneEvaluates DEF NormalizeStart, fileVars
  <2>. QED  BY <2>1, <2>2
<1>4. ASSUME NEW r \in Recordings, NEW new, NEW task, NEW out, SetRow(r, new), Publishing(w, task, out),
             transcript \subseteq transcript',
             NeedsTranscript(new) => NeedsTranscript(row[r]) \/ r \in transcript'
      PROVE  TranscriptInv'
  <2>1. NoneStarts
    BY <1>4, Published
  <2>2. \A s \in Recordings : NeedsTranscript(row'[s]) => NeedsTranscript(row[s]) \/ s \in transcript'
    BY <1>4, OneRow
  <2>. QED  BY <1>4, <2>1, <2>2, TranscriptsKept, NoneEvaluates
<1>5. ASSUME NEW r \in Recordings, NormalizeDone(w, r)
      PROVE  TranscriptInv'
  <2>1. row[r] \in Row
    BY DEF TypeOK
  <2>2. NeedsTranscript(Converted(row[r])) => NeedsTranscript(row[r])
    BY <2>1 DEF NeedsTranscript, Converted, Row
  <2>. QED  BY <1>4, <1>5, <2>2 DEF NormalizeDone
<1>6. ASSUME NEW r \in Recordings, NormalizeRetry(w, r)
      PROVE  TranscriptInv'
  BY <1>6, Published, TranscriptsKept, NoneEvaluates DEF NormalizeRetry, fileVars
<1>7. ASSUME NEW r \in Recordings, TranscribeStart(w, r)
      PROVE  TranscriptInv'
  <2>1. UNCHANGED <<row, worker>> \/ (/\ SetRow(r, [row[r] EXCEPT !.started = Now])
                                     /\ Start(w, Transcribe(r)))
    BY <1>7 DEF TranscribeStart
  <2>2. UNCHANGED transcript
    BY <1>7 DEF TranscribeStart, fileVars
  <2>3. CASE UNCHANGED <<row, worker>>
    BY <2>2, <2>3, TranscriptsKept DEF Working
  <2>4. CASE SetRow(r, [row[r] EXCEPT !.started = Now]) /\ Start(w, Transcribe(r))
    <3>1. worker'[w].task = Transcribe(r) /\ \A v \in Workers \ {w} : worker'[v] = worker[v]
      BY <2>4, Started_
    <3>2. row[r] \in Row
      BY DEF TypeOK
    <3>3. \A s \in Recordings : NeedsTranscript(row'[s]) => NeedsTranscript(row[s])
      BY <2>4, <3>2, OneRow DEF NeedsTranscript, Row
    <3>. QED  BY <2>2, <3>1, <3>3, TaskNames, TranscriptsKept DEF Working
  <2>. QED  BY <2>1, <2>3, <2>4
<1>8. ASSUME NEW r \in Recordings, TranscribeDone(w, r)
      PROVE  TranscriptInv'
  <2>1. transcript' = transcript \cup {r}
    BY <1>8 DEF TranscribeDone
  <2>. QED  BY <1>4, <1>8, <2>1 DEF TranscribeDone
<1>9. ASSUME NEW r \in Recordings, EvaluateStart(w, r)
      PROVE  TranscriptInv'
  <2>1. UNCHANGED <<row, transcript>>
    BY <1>9 DEF EvaluateStart, fileVars
  <2>2. CASE UNCHANGED worker
    BY <2>1, <2>2, TranscriptsKept DEF Working
  <2>3. CASE row[r].status = "evaluating" /\ Start(w, Evaluate(r))
    <3>1. r \in transcript
      BY <2>3 DEF TranscriptInv, NeedsTranscript
    <3>2. worker'[w].task = Evaluate(r) /\ \A v \in Workers \ {w} : worker'[v] = worker[v]
      BY <2>3, Started_
    <3>. QED  BY <2>1, <3>1, <3>2, TaskNames, TranscriptsKept DEF Working
  <2>. QED  BY <1>9, <2>2, <2>3 DEF EvaluateStart
<1>10. ASSUME NEW r \in Recordings, EvaluateDone(w, r)
       PROVE  TranscriptInv'
  <2>1. row[r] \in Row
    BY DEF TypeOK
  <2>2. ~NeedsTranscript([row[r] EXCEPT !.status = "completed", !.failedStage = "none",
                                        !.started = NoTime, !.autoRetry = 0])
    BY <2>1 DEF NeedsTranscript, Row
  <2>. QED  BY <1>4, <1>10, <2>2 DEF EvaluateDone, fileVars
<1>11. ASSUME NEW r \in Recordings, NEW stage \in Stages, NEW task,
              stage \in {"eval", "budget"} => task = Evaluate(r), StageFails(w, r, stage, task)
       PROVE  TranscriptInv'
  <2>1. PICK retryable \in BOOLEAN : /\ SetRow(r, FailRow(row[r], stage, retryable, r \in audio))
                                     /\ Publishing(w, task, AfterFail(r, stage, retryable))
    BY <1>11 DEF StageFails
  <2>2. row[r] \in Row /\ UNCHANGED transcript /\ Working(w, task)
    BY <1>11 DEF StageFails, TypeOK, fileVars
  <2>3. NeedsTranscript(FailRow(row[r], stage, retryable, r \in audio)) => r \in transcript
    <3>1. NeedsTranscript(FailRow(row[r], stage, retryable, r \in audio)) => stage \in {"eval", "budget"}
      BY <2>2, WritesNeed
    <3>. QED  BY <1>11, <2>2, <3>1 DEF TranscriptInv
  <2>. QED  BY <1>4, <2>1, <2>2, <2>3
<1>12. ASSUME NEW r \in Recordings, Fails(w, r)
       PROVE  TranscriptInv'
  BY <1>11, <1>12 DEF Fails, Stages
<1>13. CASE Publish(w) \/ UpdateStart(w) \/ UpdateCommit(w)
  <2>1. UNCHANGED <<row, transcript>>
    BY <1>13 DEF Publish, UpdateStart, UpdateCommit, fileVars
  <2>2. NoneStarts
    <3>1. Verdict # "working"
      BY DEF Verdict
    <3>. QED  BY <1>13, <3>1, OneWorker DEF Publish, UpdateStart, UpdateCommit, NoneStarts
  <2>. QED  BY <2>1, <2>2, TranscriptsKept, NoneEvaluates
<1>. QED  BY <1>1, <1>2, <1>3, <1>5, <1>6, <1>7, <1>8, <1>9, <1>10, <1>12, <1>13 DEF WorkerStep

LEMMA TranscriptStep ==
    ASSUME TypeOK, TranscriptInv, [Next]_vars
    PROVE  TranscriptInv'
<1>1. \A r \in Recordings : row[r] \in Row
  BY DEF TypeOK
<1>2. ASSUME UNCHANGED <<row, transcript>>, NoneStarts
      PROVE  TranscriptInv'
  BY <1>2, TranscriptsKept, NoneEvaluates
<1>3. ASSUME NEW w \in Workers, Crash(w)
      PROVE  TranscriptInv'
  <2>1. NoneStarts
    BY <1>3, OneWorker DEF Crash, NoneStarts
  <2>. QED  BY <1>2, <1>3, <2>1 DEF Crash, fileVars
<1>4. ASSUME NEW r \in Recordings, NEW new, SetRow(r, new), UNCHANGED <<transcript, worker>>,
             NeedsTranscript(new) => NeedsTranscript(row[r])
      PROVE  TranscriptInv'
  <2>1. \A s \in Recordings : NeedsTranscript(row'[s]) => NeedsTranscript(row[s])
    BY <1>4, OneRow
  <2>2. NoneStarts
    BY <1>4 DEF NoneStarts
  <2>. QED  BY <1>4, <2>1, <2>2, TranscriptsKept, NoneEvaluates
<1>5. ASSUME NEW r \in Recordings, Dispatch(r)
      PROVE  TranscriptInv'
  <2>1. NeedsTranscript([row[r] EXCEPT !.started = Now]) => NeedsTranscript(row[r])
    BY <1>1 DEF NeedsTranscript, Row
  <2>. QED  BY <1>4, <1>5, <2>1 DEF Dispatch, fileVars
<1>6. ASSUME NEW r \in Recordings, Sweep(r)
      PROVE  TranscriptInv'
  <2>1. /\ NeedsTranscript(SweepQueuedRow(row[r])) => NeedsTranscript(row[r])
        /\ NeedsTranscript(SweepResumedRow(row[r])) => NeedsTranscript(row[r])
        /\ NeedsTranscript(SweepTimedOutRow(row[r])) => NeedsTranscript(row[r])
    BY <1>1, WritesNeed DEF Stages
  <2>. QED  BY <1>4, <1>6, <2>1 DEF Sweep, SweepQueued, SweepTimedOut, SweepResumed, Swept, fileVars
<1>7. ASSUME NEW R, NEW new, NEW out, NEW newBatch, Request(R, new, out, newBatch),
             \A r \in Recordings \cap R : NeedsTranscript(new[r]) => NeedsTranscript(row[r]) \/ r \in transcript
      PROVE  TranscriptInv'
  <2>1. \A r \in Recordings : row'[r] = IF r \in R THEN new[r] ELSE row[r]
    BY <1>7 DEF Request
  <2>2. UNCHANGED transcript /\ NoneStarts
    BY <1>7 DEF Request, fileVars, NoneStarts
  <2>3. \A r \in Recordings : NeedsTranscript(row'[r]) => NeedsTranscript(row[r]) \/ r \in transcript'
    BY <1>7, <2>1, <2>2
  <2>. QED  BY <2>2, <2>3, TranscriptsKept, NoneEvaluates
<1>8. ASSUME NEW r \in Recordings, NEW stage \in {"convert", "stt", "eval"}, Reprocess(r, stage)
      PROVE  TranscriptInv'
  <2>. DEFINE new == [s \in Recordings |-> ReprocessedRow(row[s], stage)]
  <2>1. Request({r}, new, {ChainFrom(stage, r)}, Reopened) /\ (stage = "eval" => r \in transcript)
    BY <1>8 DEF Reprocess
  <2>2. NeedsTranscript(new[r]) => stage \in {"eval", "budget"}
    BY <1>1, WritesNeed DEF Stages
  <2>. HIDE DEF new
  <2>. QED  BY <1>7, <2>1, <2>2
<1>9. CASE RetryFailed
  <2>. DEFINE new == [r \in Recordings |-> RetryFailedRow(row[r], r \in audio)]
  <2>1. \E R, out : Request(R, new, out, Reopened)
    BY <1>9 DEF RetryFailed
  <2>2. \A r \in Recordings : NeedsTranscript(new[r]) => NeedsTranscript(row[r])
    BY <1>1, WritesNeed DEF Stages
  <2>. HIDE DEF new
  <2>. QED  BY <1>7, <2>1, <2>2
<1>10. CASE RerunBatchStt
  <2>. DEFINE new == [r \in Recordings |-> SttRerunRow(row[r], TRUE, InitialRetries)]
  <2>1. \E R, out, newBatch : Request(R, new, out, newBatch)
    BY <1>10 DEF RerunBatchStt
  <2>2. \A r \in Recordings : ~NeedsTranscript(new[r])
    BY <1>1, WritesNeed DEF Stages
  <2>. HIDE DEF new
  <2>. QED  BY <1>7, <2>1, <2>2
<1>11. CASE BulkRerunStt
  <2>. DEFINE new == [r \in Recordings |-> SttRerunRow(row[r], r \in audio, InitialRetries)]
  <2>1. \E R, out, newBatch : Request(R, new, out, newBatch)
    BY <1>11 DEF BulkRerunStt
  <2>2. \A r \in Recordings : ~NeedsTranscript(new[r])
    BY <1>1, WritesNeed DEF Stages
  <2>. HIDE DEF new
  <2>. QED  BY <1>7, <2>1, <2>2
<1>12. ASSUME \/ \E r \in Direct : UploadCheck(r) \/ UploadCommit(r)
              \/ Finalize \/ Send \/ SenderCrash \/ UNCHANGED vars
       PROVE  TranscriptInv'
  <2>1. UNCHANGED <<row, transcript, worker>>
    BY <1>12 DEF UploadCheck, UploadCommit, Finalize, Send, SenderCrash, vars, fileVars
  <2>. QED  BY <1>2, <2>1 DEF NoneStarts
<1>. QED  BY <1>3, <1>5, <1>6, <1>8, <1>9, <1>10, <1>11, <1>12, TranscriptWorkerStep DEF Next

\* Whatever is retried, swept, sent back or delivered twice: an evaluation runs
\* only on a recording that has a transcript.
THEOREM EvaluationsHaveTranscripts == Spec => []EvaluatesATranscript
<1>1. Init => TranscriptInv
  BY DEF Init, TranscriptInv, NeedsTranscript, NewRow, Working
<1>2. TypeOK /\ TranscriptInv /\ [Next]_vars => TypeOK' /\ TranscriptInv'
  BY TypeStep, TranscriptStep
<1>3. TranscriptInv => EvaluatesATranscript
  BY DEF TranscriptInv, EvaluatesATranscript, On, Working
<1>. QED  BY TypeInit, <1>1, <1>2, <1>3, PTL DEF Spec

-----------------------------------------------------------------------------
\* The verdict

\* A worker has the task, from its delivery to its acknowledgement.
Holds(w, task) == worker[w] # Idle /\ worker[w].task = task
Sends(w, task) == worker[w].at = "publishing" /\ task \in worker[w].out

\* The message waits once, or one worker has it.
Single(task) == /\ ~(task \in unsent /\ task \in queue)
                /\ \A w \in Workers : Holds(w, task) => task \notin unsent \cup queue
                /\ \A v, w \in Workers : Holds(v, task) /\ Holds(w, task) => v = w

\* Up to the messages of expand_batch nothing moves but uploads and the expansion.
Preparing ==
    /\ unsent \cup queue \subseteq {Expand}
    /\ Single(Expand)
    /\ \A w \in Workers : worker[w] # Idle => worker[w].task = Expand /\ worker[w].at \notin TerminalStatus
    /\ \A w \in Workers : worker[w].at = "publishing" =>
           worker[w].out \subseteq {Update} \cup {Normalize(r) : r \in Recordings}
    /\ \A r \in Recordings : row[r].status = "uploaded"
    /\ batch.status \notin TerminalStatus
    /\ batch.finalized <=> batch.status # "open"
    /\ batch.finalized => uploading = {}
    /\ ~batch.finalized => unsent \cup queue = {} /\ \A w \in Workers : worker[w] = Idle

\* From then on there is no expansion and no upload.
Expanded == /\ batch.finalized /\ batch.status # "open" /\ uploading = {}
            /\ Expand \notin unsent \cup queue
            /\ \A w \in Workers : ~Holds(w, Expand) /\ ~Sends(w, Expand)

\* A recording has one normalize_audio, which sends itself only itself.
ChainInv == \A r \in Recordings :
    /\ Normalize(r) \notin unsent
    /\ \A w \in Workers : /\ Holds(w, Normalize(r)) => Normalize(r) \notin queue
                          /\ Sends(w, Normalize(r)) => Holds(w, Normalize(r))
    /\ \A v, w \in Workers : Holds(v, Normalize(r)) /\ Holds(w, Normalize(r)) => v = w

\* A task at work on a recording is alone, and finds it at its stage.
WorkInv == \A r \in Recordings :
    /\ row[r].status = "transcribing" => r \in audio
    /\ \A w \in Workers : /\ Working(w, Normalize(r)) => row[r].status = "converting"
                          /\ Working(w, Transcribe(r)) => row[r].status = "transcribing"
                          /\ Working(w, Evaluate(r)) => row[r].status = "evaluating"
    /\ \A v, w \in Workers : \A task \in {Transcribe(r), Evaluate(r)} :
           Working(v, task) /\ Working(w, task) => v = w

\* What a rollup has counted is still so when it commits, and afterwards.
VerdictInv ==
    /\ batch.status \in TerminalStatus => Active = {} /\ batch.status = Verdict
    /\ \A w \in Workers : worker[w] # Idle /\ worker[w].at \in TerminalStatus =>
           Active = {} /\ worker[w].at = Verdict /\ worker[w].task = Update

Running == Expanded /\ ChainInv /\ WorkInv /\ VerdictInv

LEMMA WorkingHolds ==
    ASSUME NEW w \in Workers, NEW task, Working(w, task)
    PROVE  Holds(w, task)
BY DEF Working, Holds

\* Steps that leave recordings' rows at rest as they are, and add no verdict.
LEMMA VerdictKept ==
    ASSUME VerdictInv, UNCHANGED <<batch, exists>>,
           \A r \in exists : row'[r].status = row[r].status \/ row[r].status \in NonTerminal,
           \A w \in Workers : worker'[w] = worker[w] \/ worker'[w] = Idle
                             \/ worker'[w].at \notin TerminalStatus
    PROVE  VerdictInv'
<1>1. ASSUME Active = {}
      PROVE  Active' = {} /\ Verdict' = Verdict
  <2>1. \A r \in exists : row'[r].status = row[r].status
    BY <1>1 DEF Active
  <2>. QED  BY <1>1, <2>1 DEF Active, Verdict
<1>. QED  BY <1>1 DEF VerdictInv

\* Steps that start nothing on a recording and leave its status.
LEMMA WorkKept ==
    ASSUME WorkInv, audio \subseteq audio', \A r \in Recordings : row'[r].status = row[r].status,
           \A r \in Recordings : \A w \in Workers :
               \A task \in {Normalize(r), Transcribe(r), Evaluate(r)} : Working(w, task)' => Working(w, task)
    PROVE  WorkInv'
<1>. SUFFICES ASSUME NEW r \in Recordings
             PROVE  /\ row'[r].status = "transcribing" => r \in audio'
                    /\ \A w \in Workers : /\ Working(w, Normalize(r))' => row'[r].status = "converting"
                                          /\ Working(w, Transcribe(r))' => row'[r].status = "transcribing"
                                          /\ Working(w, Evaluate(r))' => row'[r].status = "evaluating"
                    /\ \A v, w \in Workers : \A task \in {Transcribe(r), Evaluate(r)} :
                           Working(v, task)' /\ Working(w, task)' => v = w
  BY DEF WorkInv
<1>1. \A w \in Workers : \A task \in {Normalize(r), Transcribe(r), Evaluate(r)} :
          Working(w, task)' => Working(w, task)
  OBVIOUS
<1>2. row'[r].status = row[r].status
  OBVIOUS
<1>3. /\ row[r].status = "transcribing" => r \in audio
      /\ \A w \in Workers : /\ Working(w, Normalize(r)) => row[r].status = "converting"
                            /\ Working(w, Transcribe(r)) => row[r].status = "transcribing"
                            /\ Working(w, Evaluate(r)) => row[r].status = "evaluating"
      /\ \A v, w \in Workers : \A task \in {Transcribe(r), Evaluate(r)} :
             Working(v, task) /\ Working(w, task) => v = w
  BY DEF WorkInv
<1>. QED  BY <1>1, <1>2, <1>3

\* A task at work writes its recording and has messages to send.
LEMMA StageEnds ==
    ASSUME TypeOK, Running, NEW w \in Workers, NEW r \in Recordings,
           NEW task \in {Normalize(r), Transcribe(r), Evaluate(r)}, Working(w, task),
           NEW new, SetRow(r, new), NEW out, Publishing(w, task, out),
           UNCHANGED <<batch, exists, uploading, queue, unsent>>,
           audio \subseteq audio', new.status = "transcribing" => r \in audio',
           Expand \notin out,
           \A s \in Recordings : Normalize(s) \in out => task = Normalize(s)
    PROVE  Running'
<1>1. row'[r] = new /\ \A s \in Recordings \ {r} : row'[s] = row[s]
  BY OneRow
<1>2. /\ worker'[w] # Idle
      /\ worker'[w].at = "publishing" /\ worker'[w].task = task /\ worker'[w].out = out
      /\ \A v \in Workers \ {w} : worker'[v] = worker[v]
  BY Published
<1>3. Holds(w, task) /\ task # Expand
  BY WorkingHolds, TaskNames
<1>4. row[r].status \in NonTerminal
  BY DEF Running, WorkInv, NonTerminal
<1>5. Expanded'
  BY <1>2, <1>3 DEF Running, Expanded, Holds, Sends
<1>6. ChainInv'
  BY <1>2, <1>3 DEF Running, ChainInv, Holds, Sends
<1>7. \A v \in Workers \ {w} : \A t \in {Normalize(r), Transcribe(r), Evaluate(r)} : ~Working(v, t)
  <2>1. \A v \in Workers \ {w} : ~Working(v, task)
    BY <1>3, WorkingHolds DEF Running, WorkInv, ChainInv
  <2>2. \A v \in Workers : \A t \in {Normalize(r), Transcribe(r), Evaluate(r)} : Working(v, t) => t = task
    BY TaskNames DEF Running, WorkInv
  <2>. QED  BY <2>1, <2>2
<1>8. WorkInv'
  <2>1. \A v \in Workers : \A t : Working(v, t)' => v # w /\ Working(v, t)
    BY <1>2 DEF Working
  <2>2. \A s \in Recordings : row'[s].status = "transcribing" => s \in audio'
    BY <1>1 DEF Running, WorkInv
  <2>3. ASSUME NEW v \in Workers, NEW s \in Recordings
        PROVE  /\ Working(v, Normalize(s))' => row'[s].status = "converting"
               /\ Working(v, Transcribe(s))' => row'[s].status = "transcribing"
               /\ Working(v, Evaluate(s))' => row'[s].status = "evaluating"
    <3>1. CASE s = r
      BY <1>7, <2>1, <3>1
    <3>2. CASE s # r
      BY <1>1, <2>1, <3>2 DEF Running, WorkInv
    <3>. QED  BY <3>1, <3>2
  <2>. QED  BY <2>1, <2>2, <2>3 DEF Running, WorkInv
<1>9. VerdictInv'
  <2>1. \A s \in exists : row'[s].status = row[s].status \/ row[s].status \in NonTerminal
    BY <1>1, <1>4 DEF TypeOK
  <2>2. worker'[w].at \notin TerminalStatus
    BY <1>2 DEF TerminalStatus
  <2>. QED  BY <1>2, <2>1, <2>2, VerdictKept DEF Running
<1>. QED  BY <1>5, <1>6, <1>8, <1>9 DEF Running

\* A task that is delivered is at work, or done at once.
LEMMA StageStarts ==
    ASSUME TypeOK, Running, NEW w \in Workers, worker[w] = Idle, NEW r \in Recordings,
           NEW task \in {Normalize(r), Transcribe(r), Evaluate(r)}, Take(task), Start(w, task),
           NEW new, SetRow(r, new), UNCHANGED <<batch, exists, uploading, audio, unsent>>,
           \A v \in Workers :
               ~Working(v, Normalize(r)) /\ ~Working(v, Transcribe(r)) /\ ~Working(v, Evaluate(r)),
           row[r].status \in NonTerminal,
           new.status = "transcribing" => row[r].status = "transcribing",
           task = Normalize(r) => new.status = "converting",
           task = Transcribe(r) => new.status = "transcribing",
           task = Evaluate(r) => new.status = "evaluating"
    PROVE  Running'
<1>1. row'[r] = new /\ \A s \in Recordings \ {r} : row'[s] = row[s]
  BY OneRow
<1>2. /\ worker'[w] # Idle
      /\ worker'[w].at = "working" /\ worker'[w].task = task
      /\ \A v \in Workers \ {w} : worker'[v] = worker[v]
  BY Started_
<1>3. task \in queue /\ queue' = queue \ {task} /\ task # Expand
  BY TaskNames DEF Take
<1>4. Expanded'
  BY <1>2, <1>3 DEF Running, Expanded, Holds, Sends
<1>5. ChainInv'
  BY <1>2, <1>3 DEF Running, ChainInv, Holds, Sends
<1>6. WorkInv'
  <2>1. \A v \in Workers \ {w} : \A t : Working(v, t)' <=> Working(v, t)
    BY <1>2 DEF Working
  <2>2. \A t : Working(w, t)' => t = task
    BY <1>2 DEF Working
  <2>3. \A s \in Recordings : row'[s].status = "transcribing" => s \in audio'
    BY <1>1 DEF Running, WorkInv
  <2>4. ASSUME NEW v \in Workers, NEW s \in Recordings
        PROVE  /\ Working(v, Normalize(s))' => row'[s].status = "converting"
               /\ Working(v, Transcribe(s))' => row'[s].status = "transcribing"
               /\ Working(v, Evaluate(s))' => row'[s].status = "evaluating"
    <3>1. CASE v = w
      BY <1>1, <2>2, <3>1, TaskNames
    <3>2. CASE v # w /\ s = r
      BY <1>1, <2>1, <3>2 DEF Running, WorkInv
    <3>3. CASE v # w /\ s # r
      BY <1>1, <2>1, <3>3 DEF Running, WorkInv
    <3>. QED  BY <3>1, <3>2, <3>3
  <2>5. ASSUME NEW v \in Workers, NEW u \in Workers, NEW s \in Recordings,
               NEW t \in {Transcribe(s), Evaluate(s)}, Working(v, t)', Working(u, t)'
        PROVE  v = u
    <3>1. CASE v # w /\ u # w
      BY <2>1, <2>5, <3>1 DEF Running, WorkInv
    <3>2. CASE v = w /\ u # w
      <4>1. t = task /\ s = r
        BY <2>2, <2>5, <3>2, TaskNames
      <4>. QED  BY <2>1, <2>5, <3>2, <4>1
    <3>3. CASE u = w /\ v # w
      <4>1. t = task /\ s = r
        BY <2>2, <2>5, <3>3, TaskNames
      <4>. QED  BY <2>1, <2>5, <3>3, <4>1
    <3>. QED  BY <3>1, <3>2, <3>3
  <2>. QED  BY <2>3, <2>4, <2>5 DEF WorkInv
<1>7. VerdictInv'
  <2>1. \A s \in exists : row'[s].status = row[s].status \/ row[s].status \in NonTerminal
    BY <1>1 DEF TypeOK
  <2>2. worker'[w].at \notin TerminalStatus
    BY <1>2 DEF TerminalStatus
  <2>. QED  BY <1>2, <2>1, <2>2, VerdictKept DEF Running
<1>. QED  BY <1>4, <1>5, <1>6, <1>7 DEF Running

\* Messages come and go; nothing begins, and no status changes.
LEMMA MessagesMove ==
    ASSUME Running, UNCHANGED <<batch, exists, uploading, audio>>,
           \A r \in Recordings : row'[r].status = row[r].status, exists \subseteq Recordings,
           \A w \in Workers : worker'[w] = worker[w] \/ worker'[w] = Idle,
           Expand \notin unsent' \cup queue',
           \A r \in Recordings : /\ Normalize(r) \notin unsent'
                                /\ \A w \in Workers : Holds(w, Normalize(r))' => Normalize(r) \notin queue'
    PROVE  Running'
<1>1. Idle.at # "publishing" /\ Idle.at # "working" /\ Idle.at \notin TerminalStatus
  BY DEF Idle, TerminalStatus
<1>2. Expanded'
  BY <1>1 DEF Running, Expanded, Holds, Sends
<1>3. ChainInv'
  BY <1>1 DEF Running, ChainInv, Holds, Sends
<1>4. WorkInv'
  BY WorkKept, <1>1 DEF Running, Working
<1>5. VerdictInv'
  BY VerdictKept DEF Running
<1>. QED  BY <1>2, <1>3, <1>4, <1>5 DEF Running

LEMMA RunningUpdate ==
    ASSUME TypeOK, Running, NEW w \in Workers, UpdateStart(w) \/ UpdateCommit(w)
    PROVE  Running'
<1>1. CASE UpdateStart(w) /\ UNCHANGED worker
  <2>1. UNCHANGED <<batch, exists, row, uploading, audio, unsent>> /\ queue' \subseteq queue
    BY <1>1 DEF UpdateStart, Take, fileVars
  <2>. QED  BY <1>1, <2>1, MessagesMove DEF Running, Expanded, ChainInv, Holds, TypeOK
<1>2. CASE UpdateStart(w) /\ ~UNCHANGED worker
  <2>1. /\ UNCHANGED <<batch, exists, row, uploading, audio, unsent>> /\ queue' \subseteq queue
        /\ Active = {} /\ worker' = [worker EXCEPT ![w] = [at |-> Verdict, task |-> Update]]
    BY <1>2 DEF UpdateStart, Take, fileVars, Counted
  <2>2. /\ worker'[w].at = Verdict /\ worker'[w].task = Update
        /\ \A v \in Workers \ {w} : worker'[v] = worker[v]
    BY <2>1 DEF TypeOK
  <2>3. Verdict \in TerminalStatus /\ Verdict # "working" /\ Verdict # "publishing"
    BY DEF Verdict, TerminalStatus
  <2>4. Expanded'
    BY <2>1, <2>2, <2>3, TaskNames DEF Running, Expanded, Holds, Sends
  <2>5. ChainInv'
    BY <2>1, <2>2, <2>3, TaskNames DEF Running, ChainInv, Holds, Sends
  <2>7. WorkInv'
    BY <2>1, <2>2, <2>3, WorkKept DEF Running, Working
  <2>8. Active' = {} /\ Verdict' = Verdict
    BY <2>1 DEF Active, Verdict
  <2>9. VerdictInv'
    BY <2>1, <2>2, <2>8 DEF Running, VerdictInv
  <2>. QED  BY <2>4, <2>5, <2>7, <2>9 DEF Running
<1>3. CASE UpdateCommit(w)
  <2>1. /\ worker[w] # Idle /\ worker[w].at \in TerminalStatus
        /\ UNCHANGED <<exists, row, uploading, audio, queue, unsent>>
        /\ batch' = [batch EXCEPT !.status = worker[w].at]
        /\ worker' = [worker EXCEPT ![w] = Idle]
    BY <1>3, BusyWorker DEF UpdateCommit, fileVars
  <2>2. Active = {} /\ worker[w].at = Verdict
    BY <2>1 DEF Running, VerdictInv
  <2>3. worker'[w] = Idle /\ \A v \in Workers \ {w} : worker'[v] = worker[v]
    BY <2>1, OneWorker
  <2>4. batch'.status = Verdict /\ batch'.finalized = batch.finalized /\ batch'.status # "open"
    BY <2>1, <2>2 DEF TypeOK, Batch, Verdict
  <2>5. Idle.at # "publishing" /\ Idle.at # "working"
    BY DEF Idle
  <2>7. Expanded'
    BY <2>1, <2>3, <2>4, <2>5 DEF Running, Expanded, Holds, Sends
  <2>8. ChainInv'
    BY <2>1, <2>3, <2>5 DEF Running, ChainInv, Holds, Sends
  <2>9. WorkInv'
    BY <2>1, <2>3, <2>5, WorkKept DEF Running, Working
  <2>10. Active' = {} /\ Verdict' = Verdict
    BY <2>1, <2>2 DEF Active, Verdict
  <2>11. VerdictInv'
    BY <2>3, <2>4, <2>10 DEF Running, VerdictInv
  <2>. QED  BY <2>7, <2>8, <2>9, <2>11 DEF Running
<1>. QED  BY <1>1, <1>2, <1>3

LEMMA RunningStarts ==
    ASSUME TypeOK, Running, NEW w \in Workers, NEW r \in Recordings,
           NormalizeStart(w, r) \/ TranscribeStart(w, r) \/ EvaluateStart(w, r)
    PROVE  Running'
<1>1. row[r] \in Row /\ SetRow(r, row[r]) <=> UNCHANGED row
  BY DEF TypeOK, SetRow
<1>2. ASSUME NEW v \in Workers
      PROVE  /\ Working(v, Normalize(r)) => row[r].status = "converting" /\ Normalize(r) \notin queue
             /\ Working(v, Transcribe(r)) => row[r].status = "transcribing"
             /\ Working(v, Evaluate(r)) => row[r].status = "evaluating"
  BY WorkingHolds DEF Running, WorkInv, ChainInv
<1>3. ASSUME UNCHANGED <<batch, exists, uploading, audio, unsent, row, worker>>, queue' \subseteq queue
      PROVE  Running'
  BY <1>3, MessagesMove DEF Running, Expanded, ChainInv, Holds, TypeOK
<1>4. CASE NormalizeStart(w, r)
  <2>. DEFINE new == [row[r] EXCEPT !.status = "converting"]
  <2>1. /\ worker[w] = Idle /\ Take(Normalize(r))
        /\ UNCHANGED <<batch, exists, uploading, audio, unsent>>
    BY <1>4 DEF NormalizeStart, fileVars
  <2>2. CASE row[r].status \in {"uploaded", "converting"}
    <3>1. SetRow(r, new) /\ Start(w, Normalize(r))
      BY <1>4, <2>2 DEF NormalizeStart
    <3>2. new.status = "converting"
      BY DEF TypeOK, Row
    <3>3. \A v \in Workers :
              ~Working(v, Normalize(r)) /\ ~Working(v, Transcribe(r)) /\ ~Working(v, Evaluate(r))
      <4>1. ASSUME NEW v \in Workers
            PROVE  ~Working(v, Normalize(r))
        BY <1>2, <2>1 DEF Take
      <4>2. ASSUME NEW v \in Workers
            PROVE  ~Working(v, Transcribe(r)) /\ ~Working(v, Evaluate(r))
        BY <1>2, <2>2
      <4>. QED  BY <4>1, <4>2
    <3>4. Normalize(r) # Transcribe(r) /\ Normalize(r) # Evaluate(r)
      BY TaskNames
    <3>. HIDE DEF new
    <3>. QED  BY <2>1, <2>2, <3>1, <3>2, <3>3, <3>4, StageStarts DEF NonTerminal
  <2>3. CASE row[r].status \notin {"uploaded", "converting"}
    <3>1. UNCHANGED row /\ Publishing(w, Normalize(r), {Transcribe(r)})
      BY <1>4, <2>3 DEF NormalizeStart
    <3>2. /\ worker'[w] # Idle
          /\ worker'[w].at = "publishing" /\ worker'[w].task = Normalize(r)
          /\ worker'[w].out = {Transcribe(r)}
          /\ \A v \in Workers \ {w} : worker'[v] = worker[v]
      BY <3>1, Published
    <3>3. Expanded'
      BY <2>1, <3>2, TaskNames DEF Running, Expanded, Holds, Sends, Take
    <3>4. ChainInv'
      BY <2>1, <3>2, TaskNames DEF Running, ChainInv, Holds, Sends, Take
    <3>6. WorkInv'
      BY <2>1, <3>1, <3>2, WorkKept DEF Running, Working
    <3>7. VerdictInv'
      BY <2>1, <3>1, <3>2, VerdictKept DEF Running, TerminalStatus
    <3>. QED  BY <3>3, <3>4, <3>6, <3>7 DEF Running
  <2>. QED  BY <2>2, <2>3
<1>5. CASE TranscribeStart(w, r)
  <2>. DEFINE new == [row[r] EXCEPT !.started = Now]
  <2>1. /\ worker[w] = Idle /\ Take(Transcribe(r))
        /\ UNCHANGED <<batch, exists, uploading, audio, unsent>>
    BY <1>5 DEF TranscribeStart, fileVars
  <2>2. CASE UNCHANGED <<row, worker>>
    BY <1>3, <2>1, <2>2 DEF Take
  <2>3. CASE /\ row[r].status = "transcribing" /\ On(Transcribe(r)) = {}
             /\ SetRow(r, new) /\ Start(w, Transcribe(r))
    <3>1. new.status = "transcribing"
      BY <2>3 DEF TypeOK, Row
    <3>2. \A v \in Workers :
              ~Working(v, Normalize(r)) /\ ~Working(v, Transcribe(r)) /\ ~Working(v, Evaluate(r))
      <4>1. ASSUME NEW v \in Workers
            PROVE  ~Working(v, Transcribe(r))
        BY <2>3 DEF On, Working
      <4>2. ASSUME NEW v \in Workers
            PROVE  ~Working(v, Normalize(r)) /\ ~Working(v, Evaluate(r))
        BY <1>2, <2>3
      <4>. QED  BY <4>1, <4>2
    <3>3. Transcribe(r) # Normalize(r) /\ Transcribe(r) # Evaluate(r)
      BY TaskNames
    <3>. HIDE DEF new
    <3>. QED  BY <2>1, <2>3, <3>1, <3>2, <3>3, StageStarts DEF NonTerminal
  <2>. QED  BY <1>5, <2>2, <2>3 DEF TranscribeStart
<1>6. CASE EvaluateStart(w, r)
  <2>1. /\ worker[w] = Idle /\ Take(Evaluate(r))
        /\ UNCHANGED <<batch, exists, row, uploading, audio, unsent>>
    BY <1>6 DEF EvaluateStart, fileVars
  <2>2. CASE UNCHANGED worker
    BY <1>3, <2>1, <2>2 DEF Take
  <2>3. CASE row[r].status = "evaluating" /\ On(Evaluate(r)) = {} /\ Start(w, Evaluate(r))
    <3>1. SetRow(r, row[r])
      BY <1>1, <2>1
    <3>2. \A v \in Workers :
              ~Working(v, Normalize(r)) /\ ~Working(v, Transcribe(r)) /\ ~Working(v, Evaluate(r))
      <4>1. ASSUME NEW v \in Workers
            PROVE  ~Working(v, Evaluate(r))
        BY <2>3 DEF On, Working
      <4>2. ASSUME NEW v \in Workers
            PROVE  ~Working(v, Normalize(r)) /\ ~Working(v, Transcribe(r))
        BY <1>2, <2>3
      <4>. QED  BY <4>1, <4>2
    <3>3. Evaluate(r) # Normalize(r) /\ Evaluate(r) # Transcribe(r)
      BY TaskNames
    <3>. QED  BY <2>1, <2>3, <3>1, <3>2, <3>3, StageStarts DEF NonTerminal
  <2>. QED  BY <1>6, <2>2, <2>3 DEF EvaluateStart
<1>. QED  BY <1>4, <1>5, <1>6

\* A task at work ends, with its audio, its transcript, its evaluation or a failure.
LEMMA RunningEnds ==
    ASSUME TypeOK, Running, NEW w \in Workers, NEW r \in Recordings,
           \/ NormalizeDone(w, r) \/ NormalizeRetry(w, r) \/ TranscribeDone(w, r)
           \/ EvaluateDone(w, r) \/ Fails(w, r)
    PROVE  Running'
<1>1. row[r] \in Row /\ SetRow(r, row[r]) <=> UNCHANGED row
  BY DEF TypeOK, SetRow
<1>2. CASE NormalizeDone(w, r)
  <2>. DEFINE new == Converted(row[r])
  <2>1. /\ Working(w, Normalize(r)) /\ SetRow(r, new) /\ audio' = audio \cup {r}
        /\ Publishing(w, Normalize(r), {Transcribe(r)})
        /\ UNCHANGED <<batch, exists, uploading, queue, unsent>>
    BY <1>2 DEF NormalizeDone
  <2>. HIDE DEF new
  <2>. QED  BY <2>1, StageEnds, TaskNames
<1>3. CASE NormalizeRetry(w, r)
  <2>1. /\ Working(w, Normalize(r)) /\ SetRow(r, row[r])
        /\ Publishing(w, Normalize(r), {Normalize(r)})
        /\ UNCHANGED <<batch, exists, uploading, queue, unsent, audio>>
    BY <1>1, <1>3 DEF NormalizeRetry, fileVars
  <2>2. row[r].status = "transcribing" => r \in audio
    BY DEF Running, WorkInv
  <2>. QED  BY <2>1, <2>2, StageEnds, TaskNames
<1>4. CASE TranscribeDone(w, r)
  <2>. DEFINE new == [row[r] EXCEPT !.status = "evaluating", !.failedStage = "none", !.started = NoTime]
  <2>1. /\ Working(w, Transcribe(r)) /\ SetRow(r, new)
        /\ Publishing(w, Transcribe(r), {Evaluate(r)})
        /\ UNCHANGED <<batch, exists, uploading, queue, unsent, audio>>
    BY <1>4 DEF TranscribeDone
  <2>2. new.status = "evaluating"
    BY <1>1 DEF Row
  <2>. HIDE DEF new
  <2>. QED  BY <2>1, <2>2, StageEnds, TaskNames
<1>5. CASE EvaluateDone(w, r)
  <2>. DEFINE new == [row[r] EXCEPT !.status = "completed", !.failedStage = "none",
                                    !.started = NoTime, !.autoRetry = 0]
  <2>1. /\ Working(w, Evaluate(r)) /\ SetRow(r, new) /\ Publishing(w, Evaluate(r), {Update})
        /\ UNCHANGED <<batch, exists, uploading, queue, unsent, audio>>
    BY <1>5 DEF EvaluateDone, fileVars, AfterCompleted
  <2>2. new.status = "completed"
    BY <1>1 DEF Row
  <2>. HIDE DEF new
  <2>. QED  BY <2>1, <2>2, StageEnds, TaskNames
<1>6. ASSUME NEW stage, NEW task, StageFails(w, r, stage, task),
             \/ stage = "convert" /\ task = Normalize(r)
             \/ stage = "stt" /\ task = Transcribe(r)
             \/ stage \in {"eval", "budget"} /\ task = Evaluate(r)
      PROVE  Running'
  <2>1. PICK retryable \in BOOLEAN :
            /\ SetRow(r, FailRow(row[r], stage, retryable, r \in audio))
            /\ Publishing(w, task, AfterFail(r, stage, retryable))
    BY <1>6 DEF StageFails
  <2>. DEFINE new == FailRow(row[r], stage, retryable, r \in audio)
              out == AfterFail(r, stage, retryable)
  <2>2. /\ Working(w, task) /\ UNCHANGED <<batch, exists, uploading, queue, unsent, audio>>
    BY <1>6 DEF StageFails, fileVars
  <2>3. stage = "stt" => r \in audio
    BY <1>6, <2>2 DEF Running, WorkInv
  <2>4. new.status = "transcribing" => stage = "stt"
    BY <1>1, <1>6 DEF FailRow, AutoRetryRow, FailedRow, StatusOfStage, RetryStage, Row
  <2>5. out \subseteq {Update, Evaluate(r)} \/ (stage = "convert" /\ out = {Normalize(r)})
    BY <1>6, <2>3 DEF AfterFail, RetryStage
  <2>6. Expand \notin out /\ \A s \in Recordings : Normalize(s) \in out => task = Normalize(s)
    BY <1>6, <2>5, TaskNames
  <2>. HIDE DEF new, out
  <2>. QED  BY <1>6, <2>1, <2>2, <2>3, <2>4, <2>6, StageEnds DEF new, out
<1>. QED  BY <1>2, <1>3, <1>4, <1>5, <1>6 DEF Fails

LEMMA RunningStep ==
    ASSUME TypeOK, Running, ~Sweeping, [Next]_vars, operations = 0, operations' = 0
    PROVE  Running'
<1>1. ASSUME NEW r \in Direct, UploadCheck(r) \/ UploadCommit(r)
      PROVE  FALSE
  BY <1>1 DEF UploadCheck, UploadCommit, Running, Expanded
<1>2. ~Finalize
  BY DEF Finalize, Running, Expanded
<1>3. CASE Send \/ SenderCrash \/ UNCHANGED vars
  <2>1. /\ UNCHANGED <<batch, exists, row, uploading, audio, worker>>
        /\ unsent' \subseteq unsent /\ queue' \subseteq queue \cup unsent
    BY <1>3 DEF Send, SenderCrash, vars, fileVars
  <2>. QED  BY <2>1, MessagesMove DEF Running, Expanded, ChainInv, Holds, TypeOK
<1>4. ASSUME NEW w \in Workers, Publish(w) \/ Crash(w)
      PROVE  Running'
  <2>1. /\ UNCHANGED <<batch, exists, row, uploading, audio, unsent>>
        /\ worker' = [worker EXCEPT ![w] = Idle]
    BY <1>4 DEF Publish, Crash, fileVars
  <2>2. worker'[w] = Idle /\ \A v \in Workers \ {w} : worker'[v] = worker[v]
    BY <2>1, OneWorker
  <2>3. \A task \in queue' \ queue : Holds(w, task) \/ Sends(w, task)
    BY <1>4 DEF Publish, Crash, Holds, Sends
  <2>4. Expand \notin unsent' \cup queue'
    BY <2>1, <2>3 DEF Running, Expanded
  <2>5. \A r \in Recordings : /\ Normalize(r) \notin unsent'
                             /\ \A v \in Workers : Holds(v, Normalize(r))' => Normalize(r) \notin queue'
    BY <2>1, <2>2, <2>3 DEF Running, ChainInv, Holds
  <2>. QED  BY <2>1, <2>2, <2>4, <2>5, MessagesMove DEF TypeOK
<1>5. ASSUME NEW r \in Recordings, Dispatch(r)
      PROVE  Running'
  <2>. DEFINE new == [row[r] EXCEPT !.started = Now]
  <2>1. /\ UNCHANGED <<batch, exists, uploading, audio, queue, worker>>
        /\ unsent' = unsent \cup {Transcribe(r)} /\ SetRow(r, new)
    BY <1>5 DEF Dispatch, fileVars
  <2>2. new.status = row[r].status
    BY DEF TypeOK, Row
  <2>. HIDE DEF new
  <2>3. \A s \in Recordings : row'[s].status = row[s].status
    BY <2>1, <2>2, OneRow
  <2>4. \A s \in Recordings : Normalize(s) \notin unsent'
    BY <2>1, TaskNames DEF Running, ChainInv
  <2>5. Expand \notin unsent' \cup queue'
    BY <2>1, TaskNames DEF Running, Expanded
  <2>6. \A s \in Recordings : \A w \in Workers : Holds(w, Normalize(s))' => Normalize(s) \notin queue'
    BY <2>1 DEF Running, ChainInv, Holds
  <2>. QED  BY <2>1, <2>3, <2>4, <2>5, <2>6, MessagesMove DEF TypeOK
<1>6. ASSUME NEW w \in Workers, ExpandStart(w) \/ ExpandCommit(w)
      PROVE  FALSE
  BY <1>6 DEF ExpandStart, ExpandCommit, Take, Running, Expanded, Holds
<1>7. \A r \in Recordings : ~Sweep(r)
  BY DEF Sweep, SweepQueued, SweepTimedOut, SweepResumed, Swept
<1>8. ~RetryFailed /\ ~RerunBatchStt /\ ~BulkRerunStt
      /\ \A r \in Recordings : \A stage : ~Reprocess(r, stage)
  BY DEF RetryFailed, RerunBatchStt, BulkRerunStt, Reprocess, Request
<1>. QED  BY <1>1, <1>2, <1>3, <1>4, <1>5, <1>6, <1>7, <1>8, RunningStarts, RunningEnds, RunningUpdate
          DEF Next, WorkerStep

\* The message of the expansion goes from finalize to a worker, and back when it dies.
LEMMA ExpansionMoves ==
    ASSUME TypeOK, Preparing, UNCHANGED <<batch, row, uploading>>, NEW w \in Workers,
           \A v \in Workers \ {w} : worker'[v] = worker[v],
           ExpandStart(w) \/ ExpandCommit(w) \/ Crash(w)
    PROVE  Preparing'
<1>1. batch.finalized /\ row' = row /\ batch' = batch /\ uploading' = uploading
  BY DEF Preparing, ExpandStart, ExpandCommit, Crash, Take
<1>2. Idle.at # "publishing" /\ {"working", "unpacked", "publishing"} \cap TerminalStatus = {}
  BY DEF Idle, TerminalStatus
<1>3. CASE ExpandStart(w)
  <2>1. /\ Expand \in queue /\ queue' = queue \ {Expand} /\ unsent' = unsent
        /\ \E at \in {"working", "unpacked"} :
               worker' = [worker EXCEPT ![w] = [at |-> at, task |-> Expand]]
    BY <1>3 DEF ExpandStart, Take
  <2>2. worker'[w].task = Expand /\ worker'[w].at \in {"working", "unpacked"}
    BY <2>1 DEF TypeOK
  <2>3. Expand \notin unsent' \cup queue' /\ \A v \in Workers \ {w} : worker'[v] = Idle
    BY <2>1 DEF Preparing, Single, Holds
  <2>. QED  BY <1>1, <1>2, <2>1, <2>2, <2>3 DEF Preparing, Single, Holds, Idle
<1>4. CASE ExpandCommit(w)
  <2>. DEFINE out == {Update} \cup {Normalize(r) : r \in {s \in exists' : row[s].status = "uploaded"}}
  <2>1. /\ worker[w] # Idle /\ Publishing(w, Expand, out) /\ UNCHANGED <<queue, unsent>>
    BY <1>4 DEF ExpandCommit
  <2>2. exists' \subseteq Recordings
    BY <1>4 DEF ExpandCommit, TypeOK, Recordings
  <2>3. out \subseteq {Update} \cup {Normalize(r) : r \in Recordings}
    BY <2>2
  <2>. HIDE DEF out
  <2>4. worker'[w].at = "publishing" /\ worker'[w].task = Expand /\ worker'[w].out = out
    BY <2>1, Published
  <2>5. Holds(w, Expand)
    BY <2>1 DEF Preparing, Holds
  <2>6. Expand \notin unsent' \cup queue' /\ \A v \in Workers \ {w} : worker'[v] = Idle
    BY <2>1, <2>5 DEF Preparing, Single, Holds
  <2>. QED  BY <1>1, <1>2, <2>1, <2>3, <2>4, <2>6 DEF Preparing, Single, Holds, Idle
<1>5. CASE Crash(w)
  <2>1. worker[w] # Idle /\ queue' = queue \cup {worker[w].task} /\ unsent' = unsent
        /\ worker'[w] = Idle
    BY <1>5, OneWorker DEF Crash
  <2>2. Holds(w, Expand)
    BY <2>1 DEF Preparing, Holds
  <2>3. unsent' = {} /\ queue' = {Expand} /\ \A v \in Workers : worker'[v] = Idle
    BY <2>1, <2>2 DEF Preparing, Single, Holds
  <2>. QED  BY <1>1, <1>2, <2>3 DEF Preparing, Single, Holds
<1>. QED  BY <1>3, <1>4, <1>5

\* The expansion sends its messages, and the chains begin.
LEMMA ChainsBegin ==
    ASSUME TypeOK, Preparing, NEW w \in Workers, Publish(w)
    PROVE  Running'
<1>1. /\ worker[w] # Idle /\ Holds(w, Expand)
      /\ worker[w].out \subseteq {Update} \cup {Normalize(r) : r \in Recordings}
  BY BusyWorker DEF Publish, Preparing, Holds
<1>2. unsent = {} /\ queue = {} /\ \A v \in Workers \ {w} : worker[v] = Idle
  BY <1>1 DEF Preparing, Single, Holds
<1>3. /\ UNCHANGED <<batch, row, audio, uploading, unsent>> /\ queue' = worker[w].out
      /\ worker' = [worker EXCEPT ![w] = Idle]
  BY <1>2 DEF Publish, fileVars
<1>4. \A v \in Workers : worker'[v] = Idle
  BY <1>2, <1>3, OneWorker
<1>5. /\ batch.finalized /\ batch.status # "open" /\ batch.status \notin TerminalStatus
      /\ uploading = {} /\ \A r \in Recordings : row[r].status = "uploaded"
  BY <1>1 DEF Preparing
<1>6. Idle.at # "publishing"
  BY DEF Idle
<1>7. Expanded'
  BY <1>1, <1>2, <1>3, <1>4, <1>5, <1>6, TaskNames DEF Expanded, Holds, Sends
<1>8. ChainInv'
  BY <1>2, <1>3, <1>4, <1>6 DEF ChainInv, Holds, Sends
<1>9. WorkInv'
  BY <1>3, <1>4, <1>5 DEF WorkInv, Working
<1>10. VerdictInv'
  BY <1>3, <1>4, <1>5 DEF VerdictInv
<1>. QED  BY <1>7, <1>8, <1>9, <1>10 DEF Running

LEMMA PreparingStep ==
    ASSUME TypeOK, Preparing, ~Sweeping, ~LateUploads, [Next]_vars, operations = 0, operations' = 0
    PROVE  Preparing' \/ Running'
<1>1. ASSUME NEW r \in Direct, UploadCheck(r) \/ UploadCommit(r)
      PROVE  Preparing'
  <2>1. UNCHANGED <<batch, row, queue, unsent, worker>> /\ ~batch.finalized
    BY <1>1 DEF UploadCheck, UploadCommit, Preparing
  <2>. QED  BY <2>1 DEF Preparing, Single, Holds
<1>2. CASE Finalize
  <2>1. /\ batch' = [status |-> "processing", finalized |-> TRUE] /\ unsent' = {Expand}
        /\ UNCHANGED <<row, queue, worker, uploading>> /\ queue = {} /\ uploading = {}
        /\ \A w \in Workers : worker[w] = Idle
    BY <1>2 DEF Finalize, Preparing
  <2>2. Idle.at # "publishing" /\ "processing" \notin TerminalStatus
    BY DEF Idle, TerminalStatus
  <2>. QED  BY <2>1, <2>2 DEF Preparing, Single, Holds
<1>3. ASSUME NEW w \in Workers, ExpandStart(w) \/ ExpandCommit(w) \/ Crash(w)
      PROVE  Preparing'
  <2>1. \A v \in Workers \ {w} : worker'[v] = worker[v]
    BY <1>3 DEF ExpandStart, ExpandCommit, Crash, Publishing, TypeOK
  <2>2. UNCHANGED <<batch, row, uploading>>
    BY <1>3 DEF ExpandStart, ExpandCommit, Crash, fileVars
  <2>. QED  BY <1>3, <2>1, <2>2, ExpansionMoves
<1>4. CASE Send \/ SenderCrash
  <2>1. /\ UNCHANGED <<batch, row, uploading, worker>>
        /\ unsent' = {} /\ queue' \subseteq queue \cup unsent
    BY <1>4 DEF Send, SenderCrash
  <2>2. Single(Expand)'
    BY <2>1 DEF Preparing, Single, Holds
  <2>. QED  BY <2>1, <2>2 DEF Preparing
<1>5. CASE UNCHANGED vars
  BY <1>5 DEF vars, Preparing, Single, Holds
<1>6. ASSUME NEW w \in Workers, NEW r \in Recordings,
             \/ NormalizeStart(w, r) \/ TranscribeStart(w, r) \/ EvaluateStart(w, r)
             \/ NormalizeDone(w, r) \/ NormalizeRetry(w, r) \/ TranscribeDone(w, r)
             \/ EvaluateDone(w, r) \/ Fails(w, r)
      PROVE  FALSE
  <2>1. \A task \in {Normalize(r), Transcribe(r), Evaluate(r)} : task \notin queue /\ ~Working(w, task)
    BY TaskNames DEF Preparing, Working
  <2>. QED  BY <1>6, <2>1 DEF NormalizeStart, TranscribeStart, EvaluateStart, NormalizeDone,
               NormalizeRetry, TranscribeDone, EvaluateDone, Fails, StageFails, Take
<1>7. ASSUME NEW w \in Workers, UpdateStart(w) \/ UpdateCommit(w)
      PROVE  FALSE
  BY <1>7, TaskNames, BusyWorker DEF UpdateStart, UpdateCommit, Take, Preparing
<1>8. ASSUME NEW r \in Recordings, Dispatch(r) \/ Sweep(r)
      PROVE  FALSE
  BY <1>8 DEF Dispatch, Preparing, Sweep, SweepQueued, SweepTimedOut, SweepResumed, Swept
<1>9. ~RetryFailed /\ ~RerunBatchStt /\ ~BulkRerunStt
      /\ \A r \in Recordings : \A stage : ~Reprocess(r, stage)
  BY DEF RetryFailed, RerunBatchStt, BulkRerunStt, Reprocess, Request
<1>. QED  BY <1>1, <1>2, <1>3, <1>4, <1>5, <1>6, <1>7, <1>8, <1>9, ChainsBegin DEF Next, WorkerStep

\* Only a request counts as an operation, and it counts once.
LEMMA OperationsCount ==
    ASSUME [Next]_vars
    PROVE  UNCHANGED operations \/ operations' = operations + 1
<1>1. ASSUME NEW w \in Workers, WorkerStep(w) \/ Crash(w)
      PROVE  UNCHANGED operations
  <2>1. ASSUME NEW r \in Recordings,
               \/ NormalizeStart(w, r) \/ NormalizeDone(w, r) \/ NormalizeRetry(w, r)
               \/ TranscribeStart(w, r) \/ TranscribeDone(w, r)
        PROVE  UNCHANGED operations
    BY <2>1 DEF NormalizeStart, NormalizeDone, NormalizeRetry, TranscribeStart, TranscribeDone, boundVars
  <2>2. ASSUME NEW r \in Recordings, EvaluateStart(w, r) \/ EvaluateDone(w, r) \/ Fails(w, r)
        PROVE  UNCHANGED operations
    BY <2>2 DEF EvaluateStart, EvaluateDone, Fails, StageFails, boundVars
  <2>3. ASSUME \/ ExpandStart(w) \/ ExpandCommit(w) \/ Publish(w) \/ Crash(w)
               \/ UpdateStart(w) \/ UpdateCommit(w)
        PROVE  UNCHANGED operations
    BY <2>3 DEF ExpandStart, ExpandCommit, Publish, Crash, UpdateStart, UpdateCommit, boundVars
  <2>. QED  BY <1>1, <2>1, <2>2, <2>3 DEF WorkerStep
<1>2. ASSUME NEW r \in Recordings, Dispatch(r) \/ Sweep(r)
      PROVE  UNCHANGED operations
  BY <1>2 DEF Dispatch, Sweep, SweepQueued, SweepTimedOut, SweepResumed, Swept, boundVars
<1>3. ASSUME \/ \E r \in Direct : UploadCheck(r) \/ UploadCommit(r)
             \/ Finalize \/ Send \/ SenderCrash \/ UNCHANGED vars
      PROVE  UNCHANGED operations
  BY <1>3 DEF UploadCheck, UploadCommit, Finalize, Send, SenderCrash, vars, boundVars
<1>4. ASSUME \/ \E r \in Recordings, stage \in {"convert", "stt", "eval"} : Reprocess(r, stage)
             \/ RetryFailed \/ RerunBatchStt \/ BulkRerunStt
      PROVE  operations' = operations + 1
  BY <1>4 DEF Reprocess, RetryFailed, RerunBatchStt, BulkRerunStt, Request
<1>. QED  BY <1>1, <1>2, <1>3, <1>4 DEF Next

\* No client overtakes its own uploads and the sweep never comes round: then,
\* until an operator sends a recording back, what a finished batch says of its
\* recordings is true and stays true, whatever is delivered twice, dies or is
\* never sent.
THEOREM VerdictStaysTrue ==
    ASSUME ~Sweeping, ~LateUploads
    PROVE  Spec => []VerdictIsTrue
<1>. DEFINE PhaseInv == operations = 0 => Preparing \/ Running
<1>1. Init => PhaseInv
  <2>. SUFFICES ASSUME Init
               PROVE  Preparing
    OBVIOUS
  <2>1. Idle.at # "publishing" /\ batch.status \notin TerminalStatus
    BY DEF Init, Idle, TerminalStatus
  <2>. QED  BY <2>1 DEF Init, Preparing, Single, Holds, NewRow
<1>2. TypeOK /\ PhaseInv /\ [Next]_vars => PhaseInv'
  <2>. SUFFICES ASSUME TypeOK, PhaseInv, [Next]_vars, operations' = 0
               PROVE  (Preparing \/ Running)'
    OBVIOUS
  <2>1. operations = 0
    <3>1. operations \in Nat
      BY Values DEF TypeOK
    <3>. QED  BY <3>1, OperationsCount
  <2>. QED  BY <2>1, PreparingStep, RunningStep
<1>3. PhaseInv => VerdictIsTrue
  BY DEF VerdictIsTrue, Preparing, Running, VerdictInv
<1>. QED  BY TypeInit, TypeStep, <1>1, <1>2, <1>3, PTL DEF Spec

=============================================================================
