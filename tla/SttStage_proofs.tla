-------------------------- MODULE SttStage_proofs --------------------------
(***************************************************************************)
(* What the speech-to-text stage keeps true for any set of recordings and  *)
(* workers, any number of slots, retries, faults and operator requests:    *)
(* its types, the bound on the remote slots in use, the lock of a recording *)
(* and the single submission of its audio.                                 *)
(***************************************************************************)
EXTENDS SttStage, FiniteSetTheorems, TLAPS

-----------------------------------------------------------------------------
\* The writes of RecordingRow make rows of rows.

LEMMA OneMoreAttemptType ==
    ASSUME NEW n \in Nat
    PROVE  OneMoreAttempt(n) \in Nat
BY RowAssumption DEF OneMoreAttempt

LEMMA FailRowType ==
    ASSUME NEW old \in Row, NEW stage \in Stages, NEW retryable \in BOOLEAN,
           NEW hasAudio \in BOOLEAN
    PROVE  FailRow(old, stage, retryable, hasAudio) \in Row
<1>1. RetryStage(stage, hasAudio) \in Stages
  BY DEF RetryStage, Stages
<1>2. ASSUME old.autoRetry > 0, NEW again \in Stages
      PROVE  AutoRetryRow(old, again) \in Row
  <2>1. StatusOfStage(again) \in Statuses
    BY DEF StatusOfStage, Statuses, NonTerminal
  <2>2. old.autoRetry - 1 \in Nat
    BY <1>2 DEF Row
  <2>. QED  BY <2>1, <2>2 DEF AutoRetryRow, Row
<1>3. FailedRow(old, stage) \in Row
  BY OneMoreAttemptType DEF FailedRow, Row, Statuses, NonTerminal, Stages
<1>. QED  BY <1>1, <1>2, <1>3 DEF FailRow, CanAutoRetry

LEMMA TranscribeRowTypes ==
    ASSUME NEW old \in Row
    PROVE  /\ [old EXCEPT !.op = TRUE] \in Row
           /\ \A s \in Stamps : [old EXCEPT !.started = s] \in Row
           /\ \A keep \in BOOLEAN :
                 [old EXCEPT !.status = "evaluating",
                             !.started = IF keep THEN NoTime ELSE @] \in Row
BY DEF Row, Statuses, NonTerminal

LEMMA OperatorRowTypes ==
    ASSUME NEW old \in Row
    PROVE  /\ RetryFailedRow(old, TRUE) \in Row
           /\ SttRerunRow(old, TRUE, InitialRetries) \in Row
           /\ ReprocessedRow(old, "stt") \in Row
BY RowAssumption, SttAssumption
   DEF RetryFailedRow, RetryFailedStage, AtLeastTwo, SttRerunRow, ReprocessedRow,
       StatusOfStage, Row, Statuses, NonTerminal, Stages

LEMMA FlushType ==
    ASSUME NEW seen \in Row, NEW new \in Row, NEW old \in Row
    PROVE  Flush(seen, new, old) \in Row
BY DEF Flush, Flushed, Row

LEMMA DecidedRowType ==
    ASSUME NEW plan \in Plan
    PROVE  DecidedRow(plan) \in Row
<1>. DEFINE seen == plan.seen
<1>1. seen \in Row /\ plan.decision \in Decisions
  BY DEF Plan
<1>2. SweepQueuedRow(seen) \in Row
  BY <1>1 DEF SweepQueuedRow, Row
<1>3. SweepResumedRow(seen) \in Row
  BY <1>1, OneMoreAttemptType DEF SweepResumedRow, Row
<1>4. SweepTimedOutRow(seen) \in Row
  <2>1. ASSUME NEW old \in Row, NEW status
        PROVE  WithoutStt(old, status) \in Row
    BY DEF WithoutStt, Row
  <2>2. CASE seen.autoRetry > 0
    <3>1. seen.autoRetry - 1 \in Nat
      BY <1>1, <2>2 DEF Row
    <3>2. [seen EXCEPT !.autoRetry = @ - 1, !.failedStage = "none", !.attempts = 0] \in Row
      BY <1>1, <3>1 DEF Row
    <3>. QED  BY <2>1, <2>2, <3>2 DEF SweepTimedOutRow
  <2>3. CASE ~(seen.autoRetry > 0)
    <3>1. [seen EXCEPT !.status = "failed", !.failedStage = StageForStatus(seen.status)] \in Row
      BY <1>1 DEF StageForStatus, Row, Statuses, Stages
    <3>. QED  BY <2>1, <2>3, <3>1 DEF SweepTimedOutRow
  <2>. QED  BY <2>2, <2>3
<1>. QED  BY <1>1, <1>2, <1>3, <1>4 DEF DecidedRow, Decisions
-----------------------------------------------------------------------------
\* Types

LEMMA BusyWorker ==
    ASSUME TypeOK, NEW w \in Workers, worker[w].at # "idle"
    PROVE  /\ worker[w] \in Busy
           /\ worker[w].rec \in Recordings
           /\ worker[w].slot \in BOOLEAN
BY DEF TypeOK, Idle, Busy

LEMMA GotoType ==
    ASSUME TypeOK, NEW w \in Workers, worker[w].at # "idle",
           NEW step \in Steps \ {"idle"}, NEW slot \in BOOLEAN, Goto(w, step, slot)
    PROVE  worker' \in [Workers -> {Idle} \cup Busy]
<1>1. At(step, worker[w].rec, slot) \in Busy
  BY BusyWorker DEF At, Busy
<1>. QED  BY <1>1 DEF Goto, TypeOK

LEMMA FinishType ==
    ASSUME TypeOK, NEW w \in Workers, Finish(w)
    PROVE  worker' \in [Workers -> {Idle} \cup Busy]
BY DEF Finish, TypeOK

LEMMA QueueType ==
    ASSUME TypeOK
    PROVE  /\ \A r \in Recordings : Send(r) => tasks' \in [Recordings -> 0 .. MaxCopies]
           /\ \A R \in SUBSET Recordings : SendAll(R) => tasks' \in [Recordings -> 0 .. MaxCopies]
<1>1. \A n \in 0 .. MaxCopies : Queued(n) \in 0 .. MaxCopies
  BY SttAssumption DEF Queued
<1>. QED  BY <1>1 DEF TypeOK, Send, SendAll

LEMMA ForgottenType ==
    ASSUME TypeOK, Forgotten
    PROVE  submitted' \in [Recordings -> Nat]
BY DEF TypeOK, Forgotten

LEMMA FailAndRaiseType ==
    ASSUME TypeOK, NEW w \in Workers, worker[w].at # "idle",
           NEW retryable \in BOOLEAN, FailAndRaise(w, retryable)
    PROVE  TypeOK'
<1>. DEFINE r == worker[w].rec
<1>1. r \in Recordings
  BY BusyWorker
<1>2. row' \in [Recordings -> Row]
  <2>1. FailRow(row[r], "stt", retryable, TRUE) \in Row
    BY <1>1, FailRowType DEF TypeOK, Stages
  <2>. QED  BY <2>1 DEF TypeOK, FailAndRaise, SetRow
<1>3. worker' \in [Workers -> {Idle} \cup Busy]
  BY GotoType DEF FailAndRaise, Steps
<1>4. submitted' \in [Recordings -> Nat]
  BY ForgottenType DEF FailAndRaise
<1>. QED  BY <1>2, <1>3, <1>4 DEF TypeOK, FailAndRaise, dispatcherVars, historyVars

LEMMA TakeLockType ==
    ASSUME TypeOK, NEW w \in Workers, LockRecording(w) \/ RelockRecording(w)
    PROVE  TypeOK'
<1>1. /\ worker[w].at # "idle"
      /\ UNCHANGED <<row, tasks, dispatcherVars, sweepPlan, submitted, historyVars>>
  BY DEF LockRecording, RelockRecording, TakeLock
<1>2. worker[w].rec \in Recordings
  BY <1>1, BusyWorker
<1>3. worker' \in [Workers -> {Idle} \cup Busy]
  <2>1. CASE Finish(w)
    BY <2>1, FinishType
  <2>2. CASE ~Finish(w)
    <3>1. \E step \in {"locked", "polling"} :
             Goto(w, step, row[worker[w].rec].started # NoTime)
      BY <2>2 DEF LockRecording, RelockRecording, TakeLock, SubmitOrPoll
    <3>. QED  BY <1>1, <3>1, GotoType DEF Steps
  <2>. QED  BY <2>1, <2>2
<1>4. sttLock' \in [Recordings -> Workers \cup {NoWorker}]
  BY <1>2 DEF LockRecording, RelockRecording, TakeLock, TypeOK
<1>. QED  BY <1>1, <1>3, <1>4 DEF TypeOK, dispatcherVars, historyVars

LEMMA TypeInit == Init => TypeOK
<1>. SUFFICES ASSUME Init
             PROVE  TypeOK
  OBVIOUS
<1>1. [status |-> "transcribing", failedStage |-> "none", attempts |-> 0,
       autoRetry |-> InitialRetries, op |-> FALSE, started |-> NoTime] \in Row
  BY SttAssumption DEF Row, Statuses, NonTerminal
<1>2. row \in [Recordings -> Row]
  BY <1>1 DEF Init
<1>3. tasks \in [Recordings -> 0 .. MaxCopies]
  BY SttAssumption DEF Init
<1>4. faults \in 0 .. MaxFaults /\ operations \in 0 .. MaxOperations
  BY SttAssumption DEF Init
<1>. QED  BY <1>2, <1>3, <1>4 DEF Init, TypeOK

LEMMA DispatchTypes ==
    ASSUME TypeOK, DispatcherStep
    PROVE  TypeOK'
<1>1. CASE DispatchSelect
  <2>1. reservedRows' \in SUBSET Recordings
    BY <1>1 DEF DispatchSelect, Waiting
  <2>. QED  BY <1>1, <2>1 DEF DispatchSelect, TypeOK, historyVars
<1>2. CASE DispatchCommit
  <2>1. PICK stamp \in [reservedRows -> Stamps] :
           /\ row' = [r \in Recordings |->
                        IF r \in reservedRows THEN [row[r] EXCEPT !.started = stamp[r]]
                        ELSE row[r]]
           /\ unpublished' = unpublished \cup {<<r, stamp[r]>> : r \in reservedRows}
    BY <1>2 DEF DispatchCommit
  <2>2. row' \in [Recordings -> Row]
    <3>. SUFFICES ASSUME NEW r \in Recordings, r \in reservedRows
                  PROVE  [row[r] EXCEPT !.started = stamp[r]] \in Row
      BY <2>1 DEF TypeOK
    <3>1. row[r] \in Row /\ stamp[r] \in Stamps
      BY DEF TypeOK
    <3>. QED  BY <3>1 DEF Row
  <2>3. unpublished' \in SUBSET (Recordings \X Stamps)
    BY <2>1 DEF TypeOK
  <2>. QED  BY <1>2, <2>2, <2>3 DEF DispatchCommit, TypeOK, historyVars
<1>3. ASSUME NEW r \in Recordings, NEW s \in Stamps, Publish(r, s)
      PROVE  TypeOK'
  BY <1>3, QueueType DEF Publish, TypeOK, historyVars
<1>. QED  BY <1>1, <1>2, <1>3 DEF DispatcherStep

LEMMA DispatcherFaultTypes ==
    ASSUME TypeOK
    PROVE  /\ \A r \in Recordings, s \in Stamps : PublishFails(r, s) => TypeOK'
           /\ DispatcherCrash => TypeOK'
<1>1. ASSUME NEW r \in Recordings, NEW s \in Stamps, PublishFails(r, s)
      PROVE  TypeOK'
  <2>1. [row[r] EXCEPT !.started = NoTime] \in Row
    BY DEF TypeOK, Row
  <2>2. row' \in [Recordings -> Row]
    BY <1>1, <2>1 DEF PublishFails, SetRow, TypeOK
  <2>3. faults' \in 0 .. MaxFaults
    BY <1>1, SttAssumption DEF PublishFails, TypeOK
  <2>. QED  BY <1>1, <2>2, <2>3 DEF PublishFails, TypeOK
<1>2. ASSUME DispatcherCrash
      PROVE  TypeOK'
  <2>1. faults' \in 0 .. MaxFaults
    BY <1>2, SttAssumption DEF DispatcherCrash, TypeOK
  <2>. QED  BY <1>2, <2>1 DEF DispatcherCrash, TypeOK
<1>. QED  BY <1>1, <1>2

LEMMA UnlockType ==
    ASSUME TypeOK, NEW r \in Recordings, Unlock(r)
    PROVE  sttLock' \in [Recordings -> Workers \cup {NoWorker}]
BY DEF Unlock, TypeOK

LEMMA ReleaseType ==
    ASSUME TypeOK, NEW w \in Workers, worker[w].at # "idle", Release(w)
    PROVE  sttLock' \in [Recordings -> Workers \cup {NoWorker}]
BY BusyWorker, UnlockType DEF Release, TypeOK

LEMMA WorkerTypes ==
    ASSUME TypeOK, NEW w \in Workers, WorkerStep(w)
    PROVE  TypeOK'
<1>. DEFINE r == worker[w].rec
<1>. USE DEF dispatcherVars, historyVars
<1>1. ASSUME NEW s \in Recordings, Deliver(w, s)
      PROVE  TypeOK'
  <2>1. At("loaded", s, row[s].started # NoTime) \in Busy
    BY DEF At, Busy, Steps
  <2>2. worker' \in [Workers -> {Idle} \cup Busy]
    BY <1>1, <2>1 DEF Deliver, TypeOK
  <2>3. tasks' \in [Recordings -> 0 .. MaxCopies]
    BY <1>1, SttAssumption DEF Deliver, TypeOK
  <2>. QED  BY <1>1, <2>2, <2>3 DEF Deliver, TypeOK
<1>2. CASE TimedOut(w)
  BY <1>2, FailAndRaiseType DEF TimedOut
<1>3. CASE Raised(w)
  BY <1>3, ReleaseType, FinishType DEF Raised, TypeOK
<1>4. CASE AlreadyClaimed(w)
  BY <1>4, GotoType DEF AlreadyClaimed, TypeOK, Steps
<1>5. CASE ClaimCount(w)
  <2>1. Finish(w) \/ Goto(w, "claiming", FALSE)
    BY <1>5 DEF ClaimCount
  <2>2. worker' \in [Workers -> {Idle} \cup Busy]
    BY <1>5, <2>1, FinishType, GotoType DEF ClaimCount, Steps
  <2>. QED  BY <1>5, <2>2 DEF ClaimCount, TypeOK
<1>6. CASE ClaimCommit(w)
  <2>1. r \in Recordings /\ row[r] \in Row
    BY <1>6, BusyWorker DEF ClaimCommit, TypeOK
  <2>2. \A s \in Stamps : [row[r] EXCEPT !.started = s] \in Row
    BY <2>1, TranscribeRowTypes
  <2>3. row' \in [Recordings -> Row]
    BY <1>6, <2>2 DEF ClaimCommit, SetRow, Fresh, TypeOK
  <2>4. worker' \in [Workers -> {Idle} \cup Busy]
    BY <1>6, GotoType DEF ClaimCommit, Steps
  <2>. QED  BY <1>6, <2>3, <2>4 DEF ClaimCommit, TypeOK
<1>7. CASE LockRecording(w) \/ RelockRecording(w)
  BY <1>7, TakeLockType
<1>8. CASE Submit(w)
  <2>1. submitted' \in [Recordings -> Nat]
    <3>1. r \in Recordings
      BY <1>8, BusyWorker DEF Submit
    <3>2. submitted[r] + 1 \in Nat
      BY <3>1 DEF TypeOK
    <3>. QED  BY <1>8, <3>2 DEF Submit, TypeOK
  <2>2. worker' \in [Workers -> {Idle} \cup Busy]
    BY <1>8, GotoType DEF Submit, Steps
  <2>. QED  BY <1>8, <2>1, <2>2 DEF Submit, TypeOK
<1>9. CASE StoreOperation(w)
  <2>1. r \in Recordings /\ row[r] \in Row
    BY <1>9, BusyWorker DEF StoreOperation, TypeOK
  <2>2. [row[r] EXCEPT !.op = TRUE] \in Row
    BY <2>1, TranscribeRowTypes
  <2>3. row' \in [Recordings -> Row]
    BY <1>9, <2>2 DEF StoreOperation, SetRow, TypeOK
  <2>4. worker' \in [Workers -> {Idle} \cup Busy]
    BY <1>9, GotoType DEF StoreOperation, Steps
  <2>5. sttLock' \in [Recordings -> Workers \cup {NoWorker}]
    BY <1>9, <2>1, UnlockType DEF StoreOperation
  <2>. QED  BY <1>9, <2>3, <2>4, <2>5 DEF StoreOperation, TypeOK
<1>10. CASE RetryLater(w)
  <2>1. r \in Recordings
    BY <1>10, BusyWorker DEF RetryLater
  <2>. QED  BY <1>10, <2>1, UnlockType, FinishType, QueueType DEF RetryLater, TypeOK
<1>11. CASE ProviderFails(w)
  BY <1>11, FailAndRaiseType DEF ProviderFails
<1>12. CASE Answer(w)
  <2>1. worker[w].slot \in BOOLEAN
    BY <1>12, BusyWorker DEF Answer
  <2>. QED  BY <1>12, <2>1, GotoType DEF Answer, TypeOK, Steps
<1>13. CASE RepairSpeakers(w)
  <2>1. r \in Recordings /\ worker[w].slot \in BOOLEAN
    BY <1>13, BusyWorker DEF RepairSpeakers
  <2>2. worker' \in [Workers -> {Idle} \cup Busy]
    BY <1>13, <2>1, GotoType DEF RepairSpeakers, Steps
  <2>. QED  BY <1>13, <2>1, <2>2, UnlockType DEF RepairSpeakers, TypeOK
<1>14. CASE StoreTranscript(w)
  <2>1. /\ worker[w].at # "idle" /\ worker[w].slot \in BOOLEAN
        /\ r \in Recordings /\ row[r] \in Row
    BY <1>14, BusyWorker DEF StoreTranscript, TypeOK
  <2>2. [row[r] EXCEPT !.status = "evaluating",
                       !.started = IF worker[w].slot THEN NoTime ELSE @] \in Row
    BY <2>1, TranscribeRowTypes
  <2>3. row' \in [Recordings -> Row]
    BY <1>14, <2>2 DEF StoreTranscript, SetRow, TypeOK
  <2>. QED  BY <1>14, <2>1, <2>3, ReleaseType, FinishType DEF StoreTranscript, TypeOK
<1>. QED  BY <1>1, <1>2, <1>3, <1>4, <1>5, <1>6, <1>7, <1>8, <1>9, <1>10, <1>11,
             <1>12, <1>13, <1>14 DEF WorkerStep

LEMMA CrashType ==
    ASSUME TypeOK, NEW w \in Workers, Crash(w)
    PROVE  TypeOK'
<1>1. worker[w].at # "idle" /\ worker[w].rec \in Recordings
  <2>1. worker[w] \in Busy
    BY DEF Crash, TypeOK
  <2>. QED  BY <2>1 DEF Busy
<1>2. submitted' \in [Recordings -> Nat]
  BY <1>1 DEF Crash, TypeOK
<1>3. faults' \in 0 .. MaxFaults
  BY SttAssumption DEF Crash, TypeOK
<1>4. /\ tasks' \in [Recordings -> 0 .. MaxCopies]
      /\ sttLock' \in [Recordings -> Workers \cup {NoWorker}]
      /\ worker' \in [Workers -> {Idle} \cup Busy]
  BY <1>1, QueueType, ReleaseType, FinishType DEF Crash
<1>. QED  BY <1>2, <1>3, <1>4 DEF Crash, TypeOK, dispatcherVars

LEMMA SweepTypes ==
    ASSUME TypeOK
    PROVE  /\ \A R \in SUBSET Recordings : \A decision \in [R -> Decisions] :
                 SweepLoad(R, decision) => TypeOK'
           /\ SweepCommit => TypeOK'
<1>. USE DEF dispatcherVars, historyVars
<1>1. ASSUME NEW R \in SUBSET Recordings, NEW decision \in [R -> Decisions],
             SweepLoad(R, decision)
      PROVE  TypeOK'
  <2>1. \A r \in R : [decision |-> decision[r], seen |-> row[r]] \in Plan
    BY DEF TypeOK, Plan
  <2>2. sweepPlan' \in [Recordings -> Plan \cup {Leave}]
    BY <1>1, <2>1 DEF SweepLoad, TypeOK
  <2>. QED  BY <1>1, <2>2 DEF SweepLoad, TypeOK
<1>2. ASSUME SweepCommit
      PROVE  TypeOK'
  <2>1. \A r \in Planned : Flush(sweepPlan[r].seen, DecidedRow(sweepPlan[r]), row[r]) \in Row
    <3>. SUFFICES ASSUME NEW r \in Planned
                  PROVE  Flush(sweepPlan[r].seen, DecidedRow(sweepPlan[r]), row[r]) \in Row
      OBVIOUS
    <3>1. sweepPlan[r] \in Plan /\ row[r] \in Row
      BY DEF Planned, TypeOK
    <3>2. sweepPlan[r].seen \in Row
      BY <3>1 DEF Plan
    <3>. QED  BY <3>1, <3>2, DecidedRowType, FlushType
  <2>2. row' \in [Recordings -> Row]
    BY <1>2, <2>1 DEF SweepCommit, TypeOK
  <2>3. tasks' \in [Recordings -> 0 .. MaxCopies]
    <3>1. Redispatched \in SUBSET Recordings
      BY DEF Redispatched, Planned
    <3>. QED  BY <1>2, <3>1, QueueType DEF SweepCommit
  <2>4. submitted' \in [Recordings -> Nat]
    BY <1>2, ForgottenType DEF SweepCommit
  <2>5. sweepPlan' \in [Recordings -> Plan \cup {Leave}]
    BY <1>2 DEF SweepCommit
  <2>. QED  BY <1>2, <2>2, <2>3, <2>4, <2>5 DEF SweepCommit, TypeOK
<1>. QED  BY <1>1, <1>2

LEMMA OperatorTypes ==
    ASSUME TypeOK
    PROVE  /\ RetryFailed => TypeOK'
           /\ RerunStt => TypeOK'
           /\ \A r \in Recordings : ReprocessStt(r) => TypeOK'
<1>1. ASSUME row' \in [Recordings -> Row], tasks' \in [Recordings -> 0 .. MaxCopies], Operate
      PROVE  TypeOK'
  <2>1. operations' \in 0 .. MaxOperations
    BY <1>1, SttAssumption DEF Operate, TypeOK
  <2>2. submitted' \in [Recordings -> Nat]
    BY <1>1, ForgottenType DEF Operate
  <2>. QED  BY <1>1, <2>1, <2>2 DEF Operate, TypeOK, dispatcherVars
<1>2. \A r \in Recordings : /\ row[r] \in Row
                            /\ RetryFailedRow(row[r], TRUE) \in Row
                            /\ SttRerunRow(row[r], TRUE, InitialRetries) \in Row
                            /\ ReprocessedRow(row[r], "stt") \in Row
  BY OperatorRowTypes DEF TypeOK
<1>3. ASSUME RetryFailed
      PROVE  TypeOK'
  BY <1>1, <1>2, <1>3 DEF RetryFailed, TypeOK
<1>4. ASSUME RerunStt
      PROVE  TypeOK'
  BY <1>1, <1>2, <1>4 DEF RerunStt, TypeOK
<1>5. ASSUME NEW r \in Recordings, ReprocessStt(r)
      PROVE  TypeOK'
  <2>1. row' \in [Recordings -> Row]
    BY <1>2, <1>5 DEF ReprocessStt, SetRow, TypeOK
  <2>. QED  BY <1>1, <1>5, <2>1, QueueType DEF ReprocessStt
<1>. QED  BY <1>3, <1>4, <1>5

LEMMA TypeNext == TypeOK /\ [Next]_vars => TypeOK'
<1>. SUFFICES ASSUME TypeOK, [Next]_vars
             PROVE  TypeOK'
  OBVIOUS
<1>1. CASE Next
  BY <1>1, WorkerTypes, DispatchTypes, DispatcherFaultTypes, CrashType, SweepTypes,
     OperatorTypes DEF Next
<1>2. CASE UNCHANGED vars
  BY <1>2 DEF vars, TypeOK
<1>. QED  BY <1>1, <1>2

\* Every variable keeps its type, whatever the deliveries, the sweep, the
\* faults and the operators do to the rows: no write of the code leaves a
\* recording with a status, stage, counter or timestamp outside its domain.
THEOREM TypeCorrect == Spec => []TypeOK
BY TypeInit, TypeNext, PTL DEF Spec

-----------------------------------------------------------------------------
\* The slots

Claiming(w) == worker[w].at = "claiming"

\* One transaction at a time counts and claims, the rows a dispatcher holds
\* keep waiting for it, and what is being handed out is counted with what is
\* already in use.
SlotInv ==
    /\ reservedRows \subseteq Waiting
    /\ ~reserving => reservedRows = {}
    /\ Cardinality(reservedRows) <= SttMaxInFlight
    /\ \A v, w \in Workers : Claiming(v) /\ Claiming(w) => v = w
    /\ Cardinality(InFlight) + Cardinality(reservedRows)
         + (IF \E w \in Workers : Claiming(w) THEN 1 ELSE 0) <= 2 * SttMaxInFlight

-----------------------------------------------------------------------------
\* The lock of a recording and its submission

LockHeld ==
    \A w \in Workers : worker[w].at \in Locked => sttLock[worker[w].rec] = w

Submitting(w, r) == worker[w].at = "submitted" /\ worker[w].rec = r

\* The holder of the lock that is about to submit sees a row without an
\* operation, and a job the provider has is either named in the row or known
\* to the worker that submitted it.
SubmissionInv ==
    /\ \A w \in Workers : worker[w].at = "locked" => ~row[worker[w].rec].op
    /\ \A r \in Recordings :
          /\ submitted[r] <= 1
          /\ submitted[r] = 1 => row[r].op \/ \E w \in Workers : Submitting(w, r)

-----------------------------------------------------------------------------
\* What the writes do to slots and operations

\* No operation appears, and no slot.
Shrinks(old, new) ==
    /\ new.op => old.op
    /\ (new.status = "transcribing" /\ new.started # NoTime)
         => (old.status = "transcribing" /\ old.started # NoTime)

LEMMA FailRowShrinks ==
    ASSUME NEW old \in Row, NEW retryable \in BOOLEAN
    PROVE  Shrinks(old, FailRow(old, "stt", retryable, TRUE))
<1>1. CASE CanAutoRetry(old, "stt", retryable)
  BY <1>1 DEF FailRow, RetryStage, AutoRetryRow, Shrinks, Row
<1>2. CASE ~CanAutoRetry(old, "stt", retryable)
  BY <1>2 DEF FailRow, FailedRow, Shrinks, Row
<1>. QED  BY <1>1, <1>2

LEMMA OperatorRowsShrink ==
    ASSUME NEW old \in Row
    PROVE  /\ old.status = "failed" => Shrinks(old, RetryFailedRow(old, TRUE))
           /\ Shrinks(old, SttRerunRow(old, TRUE, InitialRetries))
           /\ Shrinks(old, ReprocessedRow(old, "stt"))
<1>1. ASSUME old.status = "failed"
      PROVE  Shrinks(old, RetryFailedRow(old, TRUE))
  <2>1. CASE RetryFailedStage(old, TRUE) = "eval"
    BY <2>1 DEF RetryFailedRow, StatusOfStage, Shrinks, Row
  <2>2. CASE RetryFailedStage(old, TRUE) # "eval"
    BY <2>2 DEF RetryFailedRow, Shrinks, Row
  <2>. QED  BY <2>1, <2>2
<1>2. Shrinks(old, SttRerunRow(old, TRUE, InitialRetries))
  BY DEF SttRerunRow, Shrinks, Row
<1>3. Shrinks(old, ReprocessedRow(old, "stt"))
  BY DEF ReprocessedRow, Shrinks, Row
<1>. QED  BY <1>1, <1>2, <1>3

LEMMA SweptRowShrinks ==
    ASSUME NEW plan \in Plan, NEW old \in Row
    PROVE  Shrinks(old, Flush(plan.seen, DecidedRow(plan), old))
<1>. DEFINE seen == plan.seen
            new  == DecidedRow(plan)
<1>1. seen \in Row /\ plan.decision \in Decisions
  BY DEF Plan
<1>2. /\ new.op = seen.op \/ new.op = FALSE
      /\ new.started = seen.started \/ new.started = NoTime
      /\ new.status = seen.status \/ new.status = "failed"
  <2>1. CASE plan.decision = "requeue"
    BY <1>1, <2>1 DEF DecidedRow, SweepQueuedRow, Row
  <2>2. CASE plan.decision = "resume"
    BY <1>1, <2>2 DEF DecidedRow, SweepResumedRow, Row
  <2>3. CASE plan.decision = "timeout"
    <3>1. new = SweepTimedOutRow(seen)
      BY <2>3 DEF DecidedRow
    <3>. HIDE DEF new
    <3>2. CASE seen.autoRetry > 0
      BY <1>1, <3>1, <3>2 DEF SweepTimedOutRow, WithoutStt, Row
    <3>3. CASE ~(seen.autoRetry > 0)
      BY <1>1, <3>1, <3>3 DEF SweepTimedOutRow, WithoutStt, Row
    <3>. QED  BY <3>2, <3>3
  <2>. QED  BY <1>1, <2>1, <2>2, <2>3 DEF Decisions
<1>. HIDE DEF new
<1>3. Shrinks(old, Flush(seen, new, old))
  BY <1>2 DEF Shrinks, Flush, Flushed
<1>. QED  BY <1>3 DEF new

\* The three writes that may add a slot or an operation.
Grants == DispatchCommit \/ \E w \in Workers : ClaimCommit(w) \/ StoreOperation(w)

RowsShrink == \A r \in Recordings : Shrinks(row[r], row'[r])
HeldRowsKept == \A r \in reservedRows : row'[r] = row[r]

LEMMA SetRowShrinks ==
    ASSUME TypeOK, NEW r \in Recordings, NEW new, SetRow(r, new), Shrinks(row[r], new),
           Writable(r)
    PROVE  RowsShrink /\ HeldRowsKept
BY DEF SetRow, Shrinks, Writable, RowsShrink, HeldRowsKept, TypeOK

LEMMA SameRowShrinks ==
    ASSUME UNCHANGED row
    PROVE  RowsShrink /\ HeldRowsKept
BY DEF Shrinks, RowsShrink, HeldRowsKept

\* Every other step leaves the rows a dispatcher holds as they are, and makes
\* no row occupy more than it did.
LEMMA OthersShrink ==
    ASSUME TypeOK, reservedRows \subseteq Waiting, Next, ~Grants
    PROVE  RowsShrink /\ HeldRowsKept
<1>1. ASSUME NEW w \in Workers, WorkerStep(w)
      PROVE  RowsShrink /\ HeldRowsKept
  <2>. DEFINE r == worker[w].rec
  <2>1. ASSUME NEW retryable \in BOOLEAN, worker[w].at # "idle", FailAndRaise(w, retryable)
        PROVE  RowsShrink /\ HeldRowsKept
    <3>1. r \in Recordings /\ row[r] \in Row
      BY <2>1, BusyWorker DEF TypeOK
    <3>2. Shrinks(row[r], FailRow(row[r], "stt", retryable, TRUE))
      BY <3>1, FailRowShrinks
    <3>. QED  BY <2>1, <3>1, <3>2, SetRowShrinks DEF FailAndRaise
  <2>2. CASE TimedOut(w) \/ ProviderFails(w)
    BY <2>1, <2>2 DEF TimedOut, ProviderFails
  <2>3. CASE StoreTranscript(w)
    <3>1. /\ r \in Recordings /\ row[r] \in Row
          /\ SetRow(r, [row[r] EXCEPT !.status = "evaluating",
                                      !.started = IF worker[w].slot THEN NoTime ELSE @])
          /\ Writable(r)
      BY <2>3, BusyWorker DEF StoreTranscript, TypeOK
    <3>2. Shrinks(row[r], [row[r] EXCEPT !.status = "evaluating",
                                         !.started = IF worker[w].slot THEN NoTime ELSE @])
      BY <3>1 DEF Shrinks, Row
    <3>. QED  BY <3>1, <3>2, SetRowShrinks
  <2>4. CASE ~(TimedOut(w) \/ ProviderFails(w) \/ StoreTranscript(w))
    <3>1. UNCHANGED row
      BY <1>1, <2>4
         DEF WorkerStep, Grants, Deliver, Raised, AlreadyClaimed, ClaimCount,
             LockRecording, RelockRecording, TakeLock, Submit, RetryLater, Answer,
             RepairSpeakers
    <3>. QED  BY <3>1, SameRowShrinks
  <2>. QED  BY <2>2, <2>3, <2>4
<1>2. ASSUME NEW r \in Recordings, NEW s \in Stamps, PublishFails(r, s)
      PROVE  RowsShrink /\ HeldRowsKept
  <2>1. CASE UNCHANGED row
    BY <2>1, SameRowShrinks
  <2>2. CASE SetRow(r, [row[r] EXCEPT !.started = NoTime])
    <3>1. Shrinks(row[r], [row[r] EXCEPT !.started = NoTime])
      BY DEF Shrinks, TypeOK, Row
    <3>. QED  BY <1>2, <2>2, <3>1, SetRowShrinks DEF PublishFails
  <2>. QED  BY <1>2, <2>1, <2>2 DEF PublishFails
<1>3. ASSUME SweepCommit
      PROVE  RowsShrink /\ HeldRowsKept
  <2>1. ASSUME NEW r \in Planned
        PROVE  Shrinks(row[r], Flush(sweepPlan[r].seen, DecidedRow(sweepPlan[r]), row[r]))
    BY SweptRowShrinks DEF Planned, TypeOK
  <2>2. RowsShrink
    BY <1>3, <2>1 DEF SweepCommit, RowsShrink, Shrinks
  <2>3. HeldRowsKept
    BY <1>3 DEF SweepCommit, HeldRowsKept, Writable, TypeOK
  <2>. QED  BY <2>2, <2>3
<1>4. ASSUME RetryFailed
      PROVE  RowsShrink /\ HeldRowsKept
  <2>1. RowsShrink
    <3>. SUFFICES ASSUME NEW r \in Recordings
                  PROVE  Shrinks(row[r], row'[r])
      BY DEF RowsShrink
    <3>1. CASE row[r].status = "failed"
      <4>1. row'[r] = RetryFailedRow(row[r], TRUE)
        BY <1>4, <3>1 DEF RetryFailed
      <4>. QED  BY <3>1, <4>1, OperatorRowsShrink DEF TypeOK
    <3>2. CASE row[r].status # "failed"
      BY <1>4, <3>2 DEF RetryFailed, Shrinks
    <3>. QED  BY <3>1, <3>2
  <2>2. HeldRowsKept
    BY <1>4 DEF RetryFailed, HeldRowsKept, Waiting
  <2>. QED  BY <2>1, <2>2
<1>5. ASSUME RerunStt
      PROVE  RowsShrink /\ HeldRowsKept
  <2>1. \A r \in Recordings : row'[r] = SttRerunRow(row[r], TRUE, InitialRetries)
    BY <1>5 DEF RerunStt
  <2>2. RowsShrink
    BY <2>1, OperatorRowsShrink DEF RowsShrink, TypeOK
  <2>. QED  BY <1>5, <2>2 DEF RerunStt, HeldRowsKept, Writable, TypeOK
<1>6. ASSUME NEW r \in Recordings, ReprocessStt(r)
      PROVE  RowsShrink /\ HeldRowsKept
  <2>1. Shrinks(row[r], ReprocessedRow(row[r], "stt"))
    BY OperatorRowsShrink DEF TypeOK
  <2>2. Writable(r)
    BY <1>6 DEF ReprocessStt, Writable, Waiting
  <2>. QED  BY <1>6, <2>1, <2>2, SetRowShrinks DEF ReprocessStt
<1>7. CASE \/ DispatchSelect
           \/ \E r \in Recordings, s \in Stamps : Publish(r, s)
           \/ DispatcherCrash
           \/ \E w \in Workers : Crash(w)
           \/ \E R \in SUBSET Recordings : \E decision \in [R -> Decisions] :
                 SweepLoad(R, decision)
  <2>1. UNCHANGED row
    BY <1>7 DEF DispatchSelect, Publish, DispatcherCrash, Crash, SweepLoad
  <2>. QED  BY <2>1, SameRowShrinks
<1>. QED  BY <1>1, <1>2, <1>3, <1>4, <1>5, <1>6, <1>7 DEF Next, DispatcherStep, Grants

-----------------------------------------------------------------------------
\* The bound on the slots in use

Claims == IF \E w \in Workers : Claiming(w) THEN 1 ELSE 0

LEMMA Counts ==
    ASSUME TypeOK
    PROVE  /\ \A R \in SUBSET Recordings : IsFiniteSet(R) /\ Cardinality(R) \in Nat
           /\ InFlight \in SUBSET Recordings
           /\ Occupied \in SUBSET Recordings
           /\ Cardinality(InFlight) <= Cardinality(Occupied)
<1>1. \A R \in SUBSET Recordings : IsFiniteSet(R) /\ Cardinality(R) \in Nat
  BY SttAssumption, FS_Subset, FS_CardinalityType
<1>2. InFlight \subseteq Occupied /\ Occupied \subseteq Recordings
  BY DEF InFlight, Occupied, HasSlot
<1>3. Cardinality(InFlight) <= Cardinality(Occupied)
  BY <1>1, <1>2, FS_Subset
<1>. QED  BY <1>1, <1>2, <1>3

LEMMA FewerInFlight ==
    ASSUME TypeOK, TypeOK', RowsShrink
    PROVE  Cardinality(InFlight') <= Cardinality(InFlight)
<1>1. InFlight' \subseteq InFlight
  BY DEF InFlight, HasSlot, RowsShrink, Shrinks
<1>2. IsFiniteSet(InFlight)
  BY Counts
<1>. QED  BY <1>1, <1>2, FS_Subset

\* A step that touches no reserved row, grants nothing and lets nobody start
\* to claim keeps the bound.
LEMMA SlotFrame ==
    ASSUME TypeOK, TypeOK', SlotInv, RowsShrink, HeldRowsKept,
           UNCHANGED <<reserving, reservedRows>>,
           \A w \in Workers : Claiming(w)' => Claiming(w)
    PROVE  SlotInv'
<1>1. reservedRows' \subseteq Waiting'
  BY DEF SlotInv, Waiting, HeldRowsKept, TypeOK
<1>2. Cardinality(InFlight') <= Cardinality(InFlight)
  BY FewerInFlight
<1>3. (IF \E w \in Workers : Claiming(w)' THEN 1 ELSE 0) <= Claims
  BY DEF Claims
<1>4. /\ Cardinality(InFlight) \in Nat /\ Cardinality(InFlight') \in Nat
      /\ Cardinality(reservedRows) \in Nat
  <2>1. InFlight' \subseteq Recordings
    BY DEF InFlight
  <2>. QED  BY <2>1, Counts DEF TypeOK
<1>5. Cardinality(InFlight') + Cardinality(reservedRows)
        + (IF \E w \in Workers : Claiming(w)' THEN 1 ELSE 0) <= 2 * SttMaxInFlight
  BY <1>2, <1>3, <1>4, SttAssumption DEF SlotInv, Claims
<1>. QED  BY <1>1, <1>5 DEF SlotInv

LEMMA SlotInit == Init => SlotInv
<1>. SUFFICES ASSUME Init
             PROVE  SlotInv
  OBVIOUS
<1>1. InFlight = {} /\ reservedRows = {} /\ \A w \in Workers : ~Claiming(w)
  BY DEF Init, InFlight, HasSlot, Claiming, Idle
<1>. QED  BY <1>1, FS_EmptySet, SttAssumption DEF SlotInv

LEMMA SlotSelect ==
    ASSUME TypeOK, TypeOK', SlotInv, DispatchSelect
    PROVE  SlotInv'
<1>1. /\ reservedRows' \subseteq Waiting /\ reserving' = TRUE
      /\ Cardinality(reservedRows') <= Available
      /\ UNCHANGED <<row, worker>>
  BY DEF DispatchSelect
<1>2. /\ Waiting' = Waiting /\ InFlight' = InFlight
      /\ \A w \in Workers : Claiming(w)' <=> Claiming(w)
  BY <1>1 DEF Waiting, InFlight, HasSlot, Claiming
<1>3. /\ Cardinality(InFlight) \in Nat /\ Cardinality(Occupied) \in Nat
      /\ Cardinality(reservedRows') \in Nat
      /\ Cardinality(InFlight) <= Cardinality(Occupied)
  BY Counts, <1>1 DEF TypeOK
<1>4. SttMaxInFlight \in Nat /\ SttMaxInFlight >= 1
  BY SttAssumption
<1>5. CASE Cardinality(Occupied) < SttMaxInFlight
  <2>1. /\ Cardinality(reservedRows') <= SttMaxInFlight
        /\ Cardinality(InFlight) + Cardinality(reservedRows') <= SttMaxInFlight
    BY <1>1, <1>3, <1>4, <1>5 DEF Available
  <2>2. Cardinality(InFlight) + Cardinality(reservedRows') + Claims <= 2 * SttMaxInFlight
    BY <1>3, <1>4, <2>1 DEF Claims
  <2>. QED  BY <1>1, <1>2, <2>1, <2>2 DEF SlotInv, Claims
<1>6. CASE ~(Cardinality(Occupied) < SttMaxInFlight)
  <2>1. Cardinality(reservedRows') = 0
    BY <1>1, <1>3, <1>6 DEF Available
  <2>2. Cardinality(InFlight) + Cardinality(reservedRows) + Claims <= 2 * SttMaxInFlight
    BY DEF SlotInv, Claims
  <2>3. Cardinality(reservedRows) \in Nat
    BY Counts DEF TypeOK
  <2>4. Cardinality(InFlight) + Cardinality(reservedRows') + Claims <= 2 * SttMaxInFlight
    BY <1>3, <1>4, <2>1, <2>2, <2>3 DEF Claims
  <2>. QED  BY <1>1, <1>2, <1>4, <2>1, <2>4 DEF SlotInv, Claims
<1>. QED  BY <1>5, <1>6

LEMMA SlotCommit ==
    ASSUME TypeOK, TypeOK', SlotInv, DispatchCommit
    PROVE  SlotInv'
<1>1. /\ reservedRows' = {} /\ reserving' = FALSE /\ UNCHANGED worker
      /\ \A r \in Recordings \ reservedRows : row'[r] = row[r]
  BY DEF DispatchCommit
<1>2. InFlight' \subseteq InFlight \cup reservedRows
  BY <1>1 DEF InFlight, HasSlot
<1>3. IsFiniteSet(InFlight) /\ IsFiniteSet(reservedRows)
  BY Counts DEF TypeOK
<1>4. Cardinality(InFlight \cup reservedRows)
        <= Cardinality(InFlight) + Cardinality(reservedRows)
  <2>1. Cardinality(InFlight \cup reservedRows)
          = Cardinality(InFlight) + Cardinality(reservedRows)
              - Cardinality(InFlight \cap reservedRows)
    BY <1>3, FS_Union
  <2>2. Cardinality(InFlight \cap reservedRows) \in Nat
    BY Counts
  <2>. QED  BY <1>3, <2>1, <2>2, FS_CardinalityType
<1>5. Cardinality(InFlight') <= Cardinality(InFlight \cup reservedRows)
  BY <1>2, <1>3, FS_Union, FS_Subset
<1>6. /\ Cardinality(InFlight) \in Nat /\ Cardinality(reservedRows) \in Nat
      /\ Cardinality(InFlight') \in Nat /\ Cardinality(InFlight \cup reservedRows) \in Nat
  <2>1. InFlight' \subseteq Recordings /\ InFlight \cup reservedRows \subseteq Recordings
    BY DEF InFlight, TypeOK
  <2>. QED  BY <2>1, Counts DEF TypeOK
<1>7. Cardinality(InFlight') <= Cardinality(InFlight) + Cardinality(reservedRows)
  BY <1>4, <1>5, <1>6
<1>8. \A w \in Workers : Claiming(w)' <=> Claiming(w)
  BY <1>1 DEF Claiming
<1>9. Cardinality(InFlight') + 0 + Claims <= 2 * SttMaxInFlight
  BY <1>6, <1>7, SttAssumption DEF SlotInv, Claims
<1>10. Cardinality(reservedRows') = 0
  BY <1>1, FS_EmptySet
<1>. QED  BY <1>1, <1>8, <1>9, <1>10, SttAssumption DEF SlotInv, Claims

LEMMA SlotCount ==
    ASSUME TypeOK, TypeOK', SlotInv, NEW w \in Workers, ClaimCount(w)
    PROVE  SlotInv'
<1>1. /\ worker[w].at # "idle"
      /\ \A v \in Workers : ~Claiming(v)
      /\ UNCHANGED <<row, reserving, reservedRows>>
  BY DEF ClaimCount, SlotLockFree, Claiming, dispatcherVars
<1>2. CASE Finish(w)
  <2>1. \A v \in Workers : Claiming(v)' => Claiming(v)
    BY <1>2 DEF Finish, Claiming, Idle, TypeOK
  <2>. QED  BY <1>1, <2>1, SameRowShrinks, SlotFrame
<1>3. CASE ~Finish(w)
  <2>1. ~(Cardinality(InFlight) >= SttMaxInFlight) /\ Goto(w, "claiming", FALSE)
    BY <1>3 DEF ClaimCount
  <2>2. \A v \in Workers : Claiming(v)' => v = w
    BY <1>1, <2>1 DEF Goto, Claiming, TypeOK
  <2>3. InFlight' = InFlight /\ Waiting' = Waiting
    BY <1>1 DEF InFlight, HasSlot, Waiting
  <2>4. Cardinality(InFlight) \in Nat /\ Cardinality(reservedRows) \in Nat
    BY Counts DEF TypeOK
  <2>5. Cardinality(InFlight) + Cardinality(reservedRows) + 1 <= 2 * SttMaxInFlight
    BY <2>1, <2>4, SttAssumption DEF SlotInv
  <2>6. Cardinality(InFlight) + Cardinality(reservedRows)
          + (IF \E v \in Workers : Claiming(v)' THEN 1 ELSE 0) <= 2 * SttMaxInFlight
    BY <2>4, <2>5, SttAssumption
  <2>. QED  BY <1>1, <2>2, <2>3, <2>6 DEF SlotInv
<1>. QED  BY <1>2, <1>3

LEMMA SlotClaim ==
    ASSUME TypeOK, TypeOK', SlotInv, NEW w \in Workers, ClaimCommit(w)
    PROVE  SlotInv'
<1>. DEFINE r == worker[w].rec
<1>1. /\ Claiming(w) /\ Writable(r)
      /\ UNCHANGED <<reserving, reservedRows>>
      /\ \A q \in Recordings : q # r => row'[q] = row[q]
      /\ Goto(w, "slotted", FALSE)
  BY DEF ClaimCommit, Claiming, SetRow, dispatcherVars, TypeOK
<1>2. r \in Recordings
  BY <1>1, BusyWorker DEF Claiming
<1>3. \A v \in Workers : ~Claiming(v)'
  <2>1. ASSUME NEW v \in Workers, Claiming(v)'
        PROVE  FALSE
    <3>1. CASE v = w
      BY <1>1, <2>1, <3>1 DEF Goto, At, Claiming, TypeOK
    <3>2. CASE v # w
      <4>1. Claiming(v)
        BY <1>1, <2>1, <3>2 DEF Goto, Claiming, TypeOK
      <4>. QED  BY <1>1, <3>2, <4>1 DEF SlotInv
    <3>. QED  BY <3>1, <3>2
  <2>. QED  BY <2>1
<1>4. reservedRows' \subseteq Waiting'
  BY <1>1 DEF SlotInv, Waiting, Writable
<1>5. InFlight' \subseteq InFlight \cup {r}
  BY <1>1 DEF InFlight, HasSlot
<1>6. IsFiniteSet(InFlight) /\ Cardinality(InFlight) \in Nat
      /\ Cardinality(reservedRows) \in Nat
  BY Counts DEF TypeOK
<1>7. Cardinality(InFlight') <= Cardinality(InFlight) + 1
  <2>1. /\ IsFiniteSet(InFlight \cup {r})
        /\ Cardinality(InFlight \cup {r}) <= Cardinality(InFlight) + 1
    BY <1>6, FS_AddElement
  <2>2. Cardinality(InFlight') <= Cardinality(InFlight \cup {r})
    BY <1>5, <2>1, FS_Subset
  <2>3. /\ Cardinality(InFlight') \in Nat /\ Cardinality(InFlight \cup {r}) \in Nat
    <3>1. InFlight' \subseteq Recordings /\ InFlight \cup {r} \subseteq Recordings
      BY <1>2 DEF InFlight
    <3>. QED  BY <3>1, Counts
  <2>. QED  BY <1>6, <2>1, <2>2, <2>3
<1>8. Cardinality(InFlight') \in Nat
  <2>1. InFlight' \subseteq Recordings
    BY DEF InFlight
  <2>. QED  BY <2>1, Counts
<1>9. Cardinality(InFlight') + Cardinality(reservedRows) <= 2 * SttMaxInFlight
  BY <1>1, <1>6, <1>7, <1>8, SttAssumption DEF SlotInv
<1>. QED  BY <1>1, <1>3, <1>4, <1>6, <1>8, <1>9, SttAssumption DEF SlotInv

LEMMA SlotStoreOperation ==
    ASSUME TypeOK, TypeOK', SlotInv, NEW w \in Workers, StoreOperation(w)
    PROVE  SlotInv'
<1>. DEFINE r == worker[w].rec
<1>1. /\ worker[w].at = "submitted" /\ Writable(r)
      /\ UNCHANGED <<reserving, reservedRows>>
      /\ row' = [row EXCEPT ![r] = [row[r] EXCEPT !.op = TRUE]]
      /\ Goto(w, "relocking", FALSE)
  BY DEF StoreOperation, SetRow, dispatcherVars
<1>2. r \in Recordings /\ row[r] \in Row
  BY <1>1, BusyWorker DEF TypeOK
<1>3. InFlight' \subseteq InFlight
  BY <1>1, <1>2 DEF InFlight, HasSlot, Row, TypeOK
<1>4. reservedRows' \subseteq Waiting'
  BY <1>1 DEF SlotInv, Waiting, Writable, TypeOK
<1>5. \A v \in Workers : Claiming(v)' => Claiming(v)
  BY <1>1 DEF Goto, At, Claiming, TypeOK
<1>6. /\ Cardinality(InFlight') <= Cardinality(InFlight)
      /\ Cardinality(InFlight) \in Nat /\ Cardinality(InFlight') \in Nat
      /\ Cardinality(reservedRows) \in Nat
  <2>1. InFlight' \subseteq Recordings
    BY DEF InFlight
  <2>. QED  BY <1>3, <2>1, Counts, FS_Subset DEF TypeOK
<1>7. (IF \E v \in Workers : Claiming(v)' THEN 1 ELSE 0) <= Claims
  BY <1>5 DEF Claims
<1>8. Cardinality(InFlight') + Cardinality(reservedRows)
        + (IF \E v \in Workers : Claiming(v)' THEN 1 ELSE 0) <= 2 * SttMaxInFlight
  BY <1>6, <1>7, SttAssumption DEF SlotInv, Claims
<1>. QED  BY <1>1, <1>4, <1>5, <1>8 DEF SlotInv

\* Only the count under the slot lock lets a worker start to claim.
LEMMA OnlyCountClaims ==
    ASSUME TypeOK, Next, ~\E w \in Workers : ClaimCount(w)
    PROVE  \A w \in Workers : Claiming(w)' => Claiming(w)
<1>1. CASE UNCHANGED worker
  BY <1>1 DEF Claiming
<1>2. CASE \E w \in Workers : Finish(w)
  BY <1>2 DEF Finish, Idle, Claiming, TypeOK
<1>3. CASE \E w \in Workers, step \in Steps \ {"claiming"}, slot \in BOOLEAN :
              worker' = [worker EXCEPT ![w] = At(step, @.rec, slot)]
  BY <1>3 DEF At, Claiming, TypeOK
<1>4. ASSUME NEW w \in Workers, NEW r \in Recordings, Deliver(w, r)
      PROVE  \A v \in Workers : Claiming(v)' => Claiming(v)
  BY <1>4 DEF Deliver, At, Idle, Claiming, TypeOK
<1>5. ASSUME NEW w \in Workers, LockRecording(w) \/ RelockRecording(w)
      PROVE  \A v \in Workers : Claiming(v)' => Claiming(v)
  <2>1. \/ Finish(w)
        \/ \E step \in {"locked", "polling"} :
              Goto(w, step, row[worker[w].rec].started # NoTime)
    BY <1>5 DEF LockRecording, RelockRecording, TakeLock, SubmitOrPoll
  <2>2. CASE Finish(w)
    BY <1>2, <2>2
  <2>3. CASE ~Finish(w)
    BY <1>3, <2>1, <2>3 DEF Goto, Steps
  <2>. QED  BY <2>2, <2>3
<1>6. ASSUME NEW w \in Workers, WorkerStep(w)
      PROVE  \A v \in Workers : Claiming(v)' => Claiming(v)
  <2>1. CASE Answer(w) \/ RepairSpeakers(w)
    <3>1. worker[w].slot \in BOOLEAN
      BY <2>1, BusyWorker DEF Answer, RepairSpeakers
    <3>. QED  BY <2>1, <3>1, <1>3 DEF Answer, RepairSpeakers, Goto, Steps
  <2>2. CASE ~(Answer(w) \/ RepairSpeakers(w))
    BY <1>2, <1>3, <1>4, <1>5, <1>6, <2>2
       DEF WorkerStep, TimedOut, ProviderFails, FailAndRaise, Raised, AlreadyClaimed,
           ClaimCommit, Submit, StoreOperation, RetryLater, StoreTranscript, Goto, Steps
  <2>. QED  BY <2>1, <2>2
<1>7. CASE ~\E w \in Workers : WorkerStep(w)
  <2>1. UNCHANGED worker \/ \E w \in Workers : Finish(w)
    BY <1>7
       DEF Next, DispatcherStep, DispatchSelect, DispatchCommit, Publish, PublishFails,
           DispatcherCrash, Crash, SweepLoad, SweepCommit, RetryFailed, RerunStt,
           ReprocessStt, Operate
  <2>. QED  BY <1>1, <1>2, <2>1
<1>. QED  BY <1>6, <1>7

LEMMA SlotNext == TypeOK /\ TypeOK' /\ SlotInv /\ [Next]_vars => SlotInv'
<1>. SUFFICES ASSUME TypeOK, TypeOK', SlotInv, [Next]_vars
             PROVE  SlotInv'
  OBVIOUS
<1>1. CASE DispatchSelect \/ DispatchCommit
  BY <1>1, SlotSelect, SlotCommit
<1>2. CASE \E w \in Workers : ClaimCount(w) \/ ClaimCommit(w) \/ StoreOperation(w)
  BY <1>2, SlotCount, SlotClaim, SlotStoreOperation
<1>3. CASE /\ Next
           /\ ~(DispatchSelect \/ DispatchCommit)
           /\ ~\E w \in Workers : ClaimCount(w) \/ ClaimCommit(w) \/ StoreOperation(w)
  <2>1. RowsShrink /\ HeldRowsKept
    BY <1>3, OthersShrink DEF Grants, SlotInv
  <2>2. UNCHANGED <<reserving, reservedRows>>
    BY <1>3
       DEF Next, WorkerStep, DispatcherStep, Deliver, TimedOut, ProviderFails,
           FailAndRaise, Raised, AlreadyClaimed, LockRecording, RelockRecording,
           TakeLock, Submit, RetryLater, Answer, RepairSpeakers, StoreTranscript,
           Publish, PublishFails, DispatcherCrash, Crash, SweepLoad, SweepCommit,
           RetryFailed, RerunStt, ReprocessStt, Operate, dispatcherVars
  <2>3. \A w \in Workers : Claiming(w)' => Claiming(w)
    BY <1>3, OnlyCountClaims
  <2>. QED  BY <2>1, <2>2, <2>3, SlotFrame
<1>4. CASE UNCHANGED vars
  BY <1>4, SameRowShrinks, SlotFrame DEF vars, Claiming
<1>. QED  BY <1>1, <1>2, <1>3, <1>4

LEMMA SlotInvariant == Spec => []SlotInv
BY TypeInit, TypeNext, SlotInit, SlotNext, PTL DEF Spec

\* However many recordings wait, however many workers claim and whatever the
\* sweep, the operators and the crashes do, the two locks under which slots
\* are granted let at most twice the remote limit through.
THEOREM SlotsBounded == Spec => []SlotOvershootBounded
<1>1. TypeOK /\ SlotInv => SlotOvershootBounded
  <2>. SUFFICES ASSUME TypeOK, SlotInv
               PROVE  SlotOvershootBounded
    OBVIOUS
  <2>1. Cardinality(InFlight) \in Nat /\ Cardinality(reservedRows) \in Nat
    BY Counts DEF TypeOK
  <2>. QED  BY <2>1, SttAssumption DEF SlotInv, SlotOvershootBounded
<1>. QED  BY <1>1, TypeCorrect, SlotInvariant, PTL

-----------------------------------------------------------------------------
\* The lock of a recording

\* One worker moves; locks change hands only between it and nobody, and where
\* it goes inside it holds the lock.
LEMMA LockFrame ==
    ASSUME TypeOK, LockHeld, NEW w \in Workers,
           \A v \in Workers \ {w} : worker'[v] = worker[v],
           \A r \in Recordings : \/ sttLock'[r] = sttLock[r]
                                 \/ sttLock[r] \in {w, NoWorker},
           worker'[w].at \in Locked => sttLock'[worker'[w].rec] = w
    PROVE  LockHeld'
<1>. SUFFICES ASSUME NEW v \in Workers, worker'[v].at \in Locked
             PROVE  sttLock'[worker'[v].rec] = v
  BY DEF LockHeld
<1>1. CASE v = w
  BY <1>1
<1>2. CASE v # w
  <2>1. worker'[v] = worker[v] /\ worker[v].at # "idle"
    BY <1>2 DEF Locked
  <2>2. sttLock[worker[v].rec] = v /\ worker[v].rec \in Recordings
    BY <2>1, BusyWorker DEF LockHeld
  <2>. QED  BY <1>2, <2>1, <2>2, SttAssumption
<1>. QED  BY <1>1, <1>2

LEMMA LockWorkerStep ==
    ASSUME TypeOK, LockHeld, NEW w \in Workers, WorkerStep(w)
    PROVE  LockHeld'
<1>. DEFINE r == worker[w].rec
<1>1. \A v \in Workers \ {w} : worker'[v] = worker[v]
  BY DEF WorkerStep, Deliver, TimedOut, ProviderFails, FailAndRaise, Raised,
         AlreadyClaimed, ClaimCount, ClaimCommit, LockRecording, RelockRecording,
         TakeLock, Submit, StoreOperation, RetryLater, Answer, RepairSpeakers,
         StoreTranscript, Goto, Finish, TypeOK
<1>2. CASE LockRecording(w) \/ RelockRecording(w)
  <2>0. r \in Recordings
    BY <1>2, BusyWorker DEF LockRecording, RelockRecording, TakeLock
  <2>1. CASE sttLock' = [sttLock EXCEPT ![r] = w] /\ LockAvailable(r)
    <3>1. worker'[w].at \in Locked => worker'[w].rec = r
      BY <1>2 DEF LockRecording, RelockRecording, TakeLock, Goto, At, Finish, Idle,
                  Locked, TypeOK
    <3>2. sttLock'[r] = w
      BY <2>0, <2>1 DEF TypeOK
    <3>3. \A q \in Recordings : sttLock'[q] = sttLock[q] \/ sttLock[q] \in {w, NoWorker}
      BY <2>1 DEF LockAvailable, TypeOK
    <3>. QED  BY <1>1, <3>1, <3>2, <3>3, LockFrame
  <2>2. CASE Finish(w) /\ UNCHANGED sttLock
    <3>1. worker'[w].at \notin Locked
      BY <2>2 DEF Finish, Idle, Locked, TypeOK
    <3>. QED  BY <1>1, <2>2, <3>1, LockFrame
  <2>. QED  BY <1>2, <2>1, <2>2 DEF LockRecording, RelockRecording, TakeLock
<1>3. CASE Submit(w) \/ Answer(w)
  <2>1. /\ worker[w].at \in Locked
        /\ UNCHANGED sttLock
        /\ worker'[w].rec = r
    BY <1>3 DEF Submit, Answer, Goto, At, Locked, TypeOK
  <2>. QED  BY <1>1, <2>1, LockFrame DEF LockHeld
<1>4. CASE StoreOperation(w) \/ RetryLater(w) \/ RepairSpeakers(w)
  <2>1. worker[w].at \in Locked /\ worker[w].at # "idle"
    BY <1>4 DEF StoreOperation, RetryLater, RepairSpeakers, Locked
  <2>2. sttLock[r] = w /\ r \in Recordings
    BY <2>1, BusyWorker DEF LockHeld
  <2>3. \A q \in Recordings : sttLock'[q] = sttLock[q] \/ sttLock[q] \in {w, NoWorker}
    BY <1>4, <2>2 DEF StoreOperation, RetryLater, RepairSpeakers, Unlock, TypeOK
  <2>4. worker'[w].at \notin Locked
    BY <1>4 DEF StoreOperation, RetryLater, RepairSpeakers, Goto, Finish, At, Idle,
                Locked, TypeOK
  <2>. QED  BY <1>1, <2>3, <2>4, LockFrame
<1>5. CASE Raised(w) \/ StoreTranscript(w)
  <2>1. Release(w) /\ Finish(w)
    BY <1>5 DEF Raised, StoreTranscript
  <2>2. \A q \in Recordings : sttLock'[q] = sttLock[q] \/ sttLock[q] \in {w, NoWorker}
    BY <2>1 DEF Release, Unlock, TypeOK
  <2>3. worker'[w].at \notin Locked
    BY <2>1 DEF Finish, Idle, Locked, TypeOK
  <2>. QED  BY <1>1, <2>2, <2>3, LockFrame
<1>6. CASE \/ \E q \in Recordings : Deliver(w, q)
           \/ TimedOut(w) \/ ProviderFails(w)
           \/ AlreadyClaimed(w) \/ ClaimCount(w) \/ ClaimCommit(w)
  <2>2. UNCHANGED sttLock
    BY <1>6 DEF Deliver, TimedOut, ProviderFails, FailAndRaise, AlreadyClaimed,
                ClaimCount, ClaimCommit
  <2>3. \/ Finish(w)
        \/ \E step \in {"failing", "slotted", "claiming"} : Goto(w, step, FALSE)
        \/ \E q \in Recordings : Deliver(w, q)
    BY <1>6 DEF TimedOut, ProviderFails, FailAndRaise, AlreadyClaimed, ClaimCount,
                ClaimCommit
  <2>4. worker'[w].at \notin Locked
    BY <2>3 DEF Deliver, Goto, Finish, At, Idle, Locked, TypeOK
  <2>. QED  BY <1>1, <2>2, <2>4, LockFrame
<1>. QED  BY <1>2, <1>3, <1>4, <1>5, <1>6 DEF WorkerStep

LEMMA LockNext == TypeOK /\ LockHeld /\ [Next]_vars => LockHeld'
<1>. SUFFICES ASSUME TypeOK, LockHeld, [Next]_vars
             PROVE  LockHeld'
  OBVIOUS
<1>1. CASE \E w \in Workers : WorkerStep(w)
  BY <1>1, LockWorkerStep
<1>2. ASSUME NEW w \in Workers, Crash(w)
      PROVE  LockHeld'
  <2>1. Release(w) /\ Finish(w)
    BY <1>2 DEF Crash
  <2>2. \A q \in Recordings : sttLock'[q] = sttLock[q] \/ sttLock[q] \in {w, NoWorker}
    BY <2>1 DEF Release, Unlock, TypeOK
  <2>3. /\ worker'[w].at \notin Locked
        /\ \A v \in Workers \ {w} : worker'[v] = worker[v]
    BY <2>1 DEF Finish, Idle, Locked, TypeOK
  <2>. QED  BY <2>2, <2>3, LockFrame
<1>3. CASE ~\E w \in Workers : WorkerStep(w) \/ Crash(w)
  <2>1. UNCHANGED <<worker, sttLock>>
    BY <1>3
       DEF Next, DispatcherStep, DispatchSelect, DispatchCommit, Publish, PublishFails,
           DispatcherCrash, SweepLoad, SweepCommit, RetryFailed, RerunStt,
           ReprocessStt, Operate, vars
  <2>. QED  BY <2>1 DEF LockHeld
<1>. QED  BY <1>1, <1>2, <1>3

LEMMA LockInvariant == Spec => []LockHeld
<1>1. Init => LockHeld
  BY DEF Init, LockHeld, Idle, Locked
<1>. QED  BY <1>1, LockNext, TypeCorrect, PTL DEF Spec

LEMMA HolderIsAlone ==
    ASSUME TypeOK, LockHeld
    PROVE  OneDeliveryInside
BY DEF OneDeliveryInside, LockHeld

\* Redelivered, resumed and re-dispatched tasks of one recording never work
\* under its lock together, for any number of workers and copies of a task.
THEOREM DeliveriesExclusive == Spec => []OneDeliveryInside
BY TypeCorrect, LockInvariant, HolderIsAlone, PTL

-----------------------------------------------------------------------------
\* One submission

ForgottenWithOp ==
    \A r \in Recordings :
        submitted'[r] = IF row[r].op /\ ~row'[r].op THEN 0 ELSE submitted[r]

\* No operation appears, and nobody comes to or leaves the submission.
LEMMA SubmissionFrame ==
    ASSUME TypeOK, TypeOK', SubmissionInv, ForgottenWithOp,
           \A r \in Recordings : row'[r].op => row[r].op,
           \A w \in Workers : worker'[w].at = "locked" => worker'[w].rec = worker[w].rec
                                                          /\ worker[w].at = "locked",
           \A w \in Workers : worker[w].at = "submitted" => worker'[w] = worker[w]
    PROVE  SubmissionInv'
<1>1. ASSUME NEW w \in Workers, worker'[w].at = "locked"
      PROVE  ~row'[worker'[w].rec].op
  <2>1. /\ worker[w].at = "locked" /\ worker'[w].rec = worker[w].rec
        /\ worker[w].rec \in Recordings
    BY <1>1, BusyWorker
  <2>. QED  BY <2>1 DEF SubmissionInv
<1>2. ASSUME NEW r \in Recordings
      PROVE  /\ submitted'[r] <= 1
             /\ submitted'[r] = 1 => row'[r].op \/ \E w \in Workers : Submitting(w, r)'
  <2>1. CASE row[r].op /\ ~row'[r].op
    BY <2>1 DEF ForgottenWithOp
  <2>2. CASE ~(row[r].op /\ ~row'[r].op)
    <3>1. submitted'[r] = submitted[r]
      BY <2>2 DEF ForgottenWithOp
    <3>2. \A w \in Workers : Submitting(w, r) => Submitting(w, r)'
      BY DEF Submitting
    <3>. QED  BY <2>2, <3>1, <3>2 DEF SubmissionInv
  <2>. QED  BY <2>1, <2>2
<1>. QED  BY <1>1, <1>2 DEF SubmissionInv

LEMMA SameRowsForget ==
    ASSUME TypeOK, UNCHANGED <<row, submitted>>
    PROVE  ForgottenWithOp
BY DEF ForgottenWithOp

LEMMA SubmitSubmission ==
    ASSUME TypeOK, TypeOK', LockHeld, SubmissionInv, NEW w \in Workers, Submit(w)
    PROVE  SubmissionInv'
<1>. DEFINE r == worker[w].rec
<1>1. /\ worker[w].at = "locked" /\ UNCHANGED row
      /\ submitted' = [submitted EXCEPT ![r] = @ + 1]
      /\ Goto(w, "submitted", FALSE)
  BY DEF Submit
<1>2. r \in Recordings /\ ~row[r].op /\ submitted[r] \in Nat
  BY <1>1, BusyWorker DEF SubmissionInv, TypeOK
<1>3. submitted[r] = 0
  <2>1. \A v \in Workers : ~Submitting(v, r)
    BY <1>1 DEF LockHeld, Locked, Submitting
  <2>. QED  BY <1>2, <2>1 DEF SubmissionInv
<1>4. worker'[w].at = "submitted" /\ worker'[w].rec = r
  BY <1>1 DEF Goto, At, TypeOK
<1>5. ASSUME NEW v \in Workers, worker'[v].at = "locked"
      PROVE  ~row'[worker'[v].rec].op
  <2>1. v # w
    BY <1>1, <1>5 DEF Goto, At, TypeOK
  <2>2. worker'[v] = worker[v]
    BY <1>1, <2>1 DEF Goto, TypeOK
  <2>. QED  BY <1>1, <1>5, <2>2 DEF SubmissionInv
<1>6. ASSUME NEW q \in Recordings
      PROVE  /\ submitted'[q] <= 1
             /\ submitted'[q] = 1 => row'[q].op \/ \E v \in Workers : Submitting(v, q)'
  <2>1. CASE q = r
    <3>1. submitted'[q] = 1
      BY <1>1, <1>2, <1>3, <2>1 DEF TypeOK
    <3>2. Submitting(w, q)'
      BY <1>4, <2>1 DEF Submitting
    <3>. QED  BY <3>1, <3>2
  <2>2. CASE q # r
    <3>1. submitted'[q] = submitted[q]
      BY <1>1, <2>2 DEF TypeOK
    <3>2. \A v \in Workers : Submitting(v, q) => Submitting(v, q)'
      BY <1>1, <2>2 DEF Submitting, Goto, TypeOK
    <3>. QED  BY <1>1, <3>1, <3>2 DEF SubmissionInv
  <2>. QED  BY <2>1, <2>2
<1>. QED  BY <1>5, <1>6 DEF SubmissionInv

LEMMA StoreSubmission ==
    ASSUME TypeOK, TypeOK', LockHeld, SubmissionInv, NEW w \in Workers, StoreOperation(w)
    PROVE  SubmissionInv'
<1>. DEFINE r == worker[w].rec
<1>1. /\ worker[w].at = "submitted" /\ UNCHANGED submitted
      /\ row' = [row EXCEPT ![r] = [row[r] EXCEPT !.op = TRUE]]
      /\ Goto(w, "relocking", FALSE)
  BY DEF StoreOperation, SetRow
<1>2. r \in Recordings /\ row[r] \in Row
  BY <1>1, BusyWorker DEF TypeOK
<1>3. row'[r].op
  BY <1>1, <1>2 DEF Row, TypeOK
<1>4. ASSUME NEW v \in Workers, worker'[v].at = "locked"
      PROVE  ~row'[worker'[v].rec].op
  <2>1. v # w
    BY <1>1, <1>4 DEF Goto, At, TypeOK
  <2>2. worker'[v] = worker[v]
    BY <1>1, <2>1 DEF Goto, TypeOK
  <2>3. worker[v].rec \in Recordings /\ worker[v].rec # r
    BY <1>1, <1>4, <2>1, <2>2, BusyWorker DEF LockHeld, Locked
  <2>. QED  BY <1>1, <1>4, <2>2, <2>3 DEF SubmissionInv, TypeOK
<1>5. ASSUME NEW q \in Recordings
      PROVE  /\ submitted'[q] <= 1
             /\ submitted'[q] = 1 => row'[q].op \/ \E v \in Workers : Submitting(v, q)'
  <2>1. CASE q = r
    BY <1>1, <1>3, <2>1 DEF SubmissionInv
  <2>2. CASE q # r
    <3>1. \A v \in Workers : Submitting(v, q) => Submitting(v, q)'
      BY <1>1, <2>2 DEF Submitting, Goto, TypeOK
    <3>2. row'[q] = row[q]
      BY <1>1, <2>2 DEF TypeOK
    <3>. QED  BY <1>1, <3>1, <3>2 DEF SubmissionInv
  <2>. QED  BY <2>1, <2>2
<1>. QED  BY <1>4, <1>5 DEF SubmissionInv

LEMMA LockingSubmission ==
    ASSUME TypeOK, TypeOK', SubmissionInv, NEW w \in Workers,
           LockRecording(w) \/ RelockRecording(w)
    PROVE  SubmissionInv'
<1>. DEFINE r == worker[w].rec
<1>1. /\ worker[w].at \in {"slotted", "relocking"}
      /\ UNCHANGED <<row, submitted>>
      /\ \/ Finish(w)
         \/ Goto(w, "polling", row[r].started # NoTime)
         \/ Goto(w, "locked", row[r].started # NoTime) /\ ~row[r].op
  BY DEF LockRecording, RelockRecording, TakeLock, SubmitOrPoll
<1>2. \A v \in Workers : v # w => worker'[v] = worker[v]
  BY <1>1 DEF Finish, Goto, TypeOK
<1>3. worker'[w].at = "locked" => ~row[worker'[w].rec].op
  BY <1>1 DEF Finish, Goto, At, Idle, TypeOK
<1>4. \A v \in Workers : worker'[v].at = "locked" => ~row[worker'[v].rec].op
  BY <1>2, <1>3 DEF SubmissionInv
<1>5. \A q \in Recordings : \A v \in Workers : Submitting(v, q) => Submitting(v, q)'
  BY <1>1, <1>2 DEF Submitting
<1>. QED  BY <1>1, <1>4, <1>5 DEF SubmissionInv

LEMMA CrashSubmission ==
    ASSUME TypeOK, TypeOK', LockHeld, SubmissionInv, NEW w \in Workers, Crash(w)
    PROVE  SubmissionInv'
<1>. DEFINE r == worker[w].rec
<1>1. UNCHANGED row /\ Finish(w)
  BY DEF Crash
<1>2. \A v \in Workers : v # w => worker'[v] = worker[v]
  BY <1>1 DEF Finish, TypeOK
<1>3. worker'[w].at = "idle"
  BY <1>1 DEF Finish, Idle, TypeOK
<1>4. \A v \in Workers : worker'[v].at = "locked" => ~row'[worker'[v].rec].op
  BY <1>1, <1>2, <1>3 DEF SubmissionInv
<1>5. ASSUME NEW q \in Recordings
      PROVE  /\ submitted'[q] <= 1
             /\ submitted'[q] = 1 => row'[q].op \/ \E v \in Workers : Submitting(v, q)'
  <2>1. CASE Submitting(w, q)
    <3>1. submitted'[q] = 0
      BY <2>1 DEF Crash, Submitting, TypeOK
    <3>. QED  BY <3>1
  <2>2. CASE ~Submitting(w, q)
    <3>1. submitted'[q] = submitted[q]
      BY <2>2 DEF Crash, Submitting, TypeOK
    <3>2. \A v \in Workers : Submitting(v, q) => Submitting(v, q)'
      BY <1>2, <2>2 DEF Submitting
    <3>. QED  BY <1>1, <3>1, <3>2 DEF SubmissionInv
  <2>. QED  BY <2>1, <2>2
<1>. QED  BY <1>4, <1>5 DEF SubmissionInv

SameOps == \A r \in Recordings : row'[r].op = row[r].op

\* Every other step: operations stay, or are forgotten together with the
\* submission they name.
LEMMA OthersForget ==
    ASSUME TypeOK, SlotInv, Next,
           ~\E w \in Workers : \/ Submit(w) \/ StoreOperation(w) \/ Crash(w)
                               \/ LockRecording(w) \/ RelockRecording(w)
    PROVE  /\ ForgottenWithOp
           /\ \A r \in Recordings : row'[r].op => row[r].op
<1>1. ASSUME UNCHANGED submitted, SameOps
      PROVE  ForgottenWithOp /\ \A r \in Recordings : row'[r].op => row[r].op
  BY <1>1 DEF ForgottenWithOp, SameOps, TypeOK
<1>2. ASSUME Forgotten, ~Grants
      PROVE  ForgottenWithOp /\ \A r \in Recordings : row'[r].op => row[r].op
  BY <1>2, OthersShrink DEF Forgotten, ForgottenWithOp, SlotInv, RowsShrink, Shrinks
<1>3. ASSUME NEW w \in Workers, WorkerStep(w)
      PROVE  \/ UNCHANGED submitted /\ SameOps
             \/ Forgotten /\ ~Grants
  <2>. DEFINE r == worker[w].rec
  <2>1. CASE ClaimCommit(w)
    <3>1. r \in Recordings /\ row[r] \in Row /\ worker[w].at = "claiming"
      BY <2>1, BusyWorker DEF ClaimCommit, TypeOK
    <3>2. \E s \in Stamps : row' = [row EXCEPT ![r] = [row[r] EXCEPT !.started = s]]
      BY <2>1 DEF ClaimCommit, SetRow, Fresh
    <3>3. SameOps
      BY <3>1, <3>2 DEF SameOps, Row, TypeOK
    <3>. QED  BY <2>1, <3>3 DEF ClaimCommit
  <2>2. CASE StoreTranscript(w)
    <3>1. r \in Recordings /\ row[r] \in Row /\ worker[w].at \in {"answered", "repaired"}
      BY <2>2, BusyWorker DEF StoreTranscript, TypeOK
    <3>2. row' = [row EXCEPT ![r] =
                     [row[r] EXCEPT !.status = "evaluating",
                                    !.started = IF worker[w].slot THEN NoTime ELSE @]]
      BY <2>2 DEF StoreTranscript, SetRow
    <3>3. SameOps
      BY <3>1, <3>2 DEF SameOps, Row, TypeOK
    <3>. QED  BY <2>2, <3>3 DEF StoreTranscript
  <2>3. ASSUME TimedOut(w) \/ ProviderFails(w)
        PROVE  Forgotten /\ ~Grants
    <3>1. /\ Forgotten
          /\ worker[w].at \in {"loaded", "locked", "polling"}
          /\ worker' = [worker EXCEPT ![w] = At("failing", @.rec, FALSE)]
      BY <2>3 DEF TimedOut, ProviderFails, FailAndRaise, Goto
    <3>2. worker'[w].at = "failing" /\ worker' # worker
      BY <3>1 DEF At, TypeOK
    <3>3. ~DispatchCommit
      BY <3>2 DEF DispatchCommit
    <3>4. ASSUME NEW v \in Workers, ClaimCommit(v) \/ StoreOperation(v)
          PROVE  FALSE
      <4>1. worker[v].at \in {"claiming", "submitted"} /\ worker'[v].at \in {"slotted", "relocking"}
        BY <3>4 DEF ClaimCommit, StoreOperation, Goto, At, TypeOK
      <4>2. CASE v = w
        BY <3>1, <4>1, <4>2
      <4>3. CASE v # w
        BY <3>1, <4>1, <4>3 DEF TypeOK
      <4>. QED  BY <4>2, <4>3
    <3>. QED  BY <3>1, <3>3, <3>4 DEF Grants
  <2>4. ASSUME \/ \E q \in Recordings : Deliver(w, q)
               \/ Raised(w) \/ AlreadyClaimed(w) \/ ClaimCount(w) \/ RetryLater(w)
               \/ Answer(w) \/ RepairSpeakers(w)
        PROVE  UNCHANGED submitted /\ SameOps
    BY <2>4 DEF Deliver, Raised, AlreadyClaimed, ClaimCount, RetryLater, Answer,
                RepairSpeakers, SameOps
  <2>. QED  BY <1>3, <2>1, <2>2, <2>3, <2>4 DEF WorkerStep
<1>4. ASSUME SweepCommit \/ RetryFailed \/ RerunStt \/ \E r \in Recordings : ReprocessStt(r)
      PROVE  Forgotten /\ ~Grants
  <2>1. Forgotten /\ UNCHANGED <<worker, reserving>>
    BY <1>4 DEF SweepCommit, RetryFailed, RerunStt, ReprocessStt, Operate, dispatcherVars
  <2>2. \A w \in Workers : ~ClaimCommit(w) /\ ~StoreOperation(w)
    BY <2>1 DEF ClaimCommit, StoreOperation, Goto, At, TypeOK
  <2>3. ~DispatchCommit
    BY <2>1 DEF DispatchCommit
  <2>. QED  BY <2>1, <2>2, <2>3 DEF Grants
<1>5. ASSUME DispatchCommit
      PROVE  UNCHANGED submitted /\ SameOps
  <2>1. PICK stamp \in [reservedRows -> Stamps] :
           row' = [r \in Recordings |->
                     IF r \in reservedRows THEN [row[r] EXCEPT !.started = stamp[r]]
                     ELSE row[r]]
    BY <1>5 DEF DispatchCommit
  <2>2. SameOps
    BY <2>1 DEF SameOps, TypeOK, Row
  <2>. QED  BY <1>5, <2>2 DEF DispatchCommit
<1>6. ASSUME NEW r \in Recordings, NEW s \in Stamps, PublishFails(r, s)
      PROVE  UNCHANGED submitted /\ SameOps
  BY <1>6 DEF PublishFails, SetRow, SameOps, TypeOK, Row
<1>7. ASSUME \/ DispatchSelect \/ DispatcherCrash
             \/ \E r \in Recordings, s \in Stamps : Publish(r, s)
             \/ \E R \in SUBSET Recordings : \E decision \in [R -> Decisions] :
                   SweepLoad(R, decision)
      PROVE  UNCHANGED submitted /\ SameOps
  BY <1>7 DEF DispatchSelect, DispatcherCrash, Publish, SweepLoad, SameOps
<1>. QED  BY <1>1, <1>2, <1>3, <1>4, <1>5, <1>6, <1>7 DEF Next, DispatcherStep

\* ... and no worker comes to a submission or leaves one.
LEMMA OthersStayOut ==
    ASSUME TypeOK, Next,
           ~\E w \in Workers : \/ Submit(w) \/ StoreOperation(w) \/ Crash(w)
                               \/ LockRecording(w) \/ RelockRecording(w)
    PROVE  \A v \in Workers :
              (worker'[v].at = "locked" \/ worker[v].at = "submitted")
                 => worker'[v] = worker[v]
<1>1. ASSUME NEW w \in Workers, WorkerStep(w)
      PROVE  \A v \in Workers :
                (worker'[v].at = "locked" \/ worker[v].at = "submitted")
                   => worker'[v] = worker[v]
  <2>1. CASE \E q \in Recordings : Deliver(w, q)
    BY <2>1 DEF Deliver, At, Idle, TypeOK
  <2>2. CASE Raised(w) \/ RetryLater(w) \/ StoreTranscript(w)
    BY <2>2 DEF Raised, RetryLater, StoreTranscript, Finish, Idle, TypeOK
  <2>3. CASE TimedOut(w) \/ ProviderFails(w) \/ AlreadyClaimed(w) \/ ClaimCommit(w)
    <3>1. /\ worker[w].at # "submitted"
          /\ \E step \in {"failing", "slotted"} : Goto(w, step, FALSE)
      BY <2>3 DEF TimedOut, ProviderFails, FailAndRaise, AlreadyClaimed, ClaimCommit
    <3>. QED  BY <3>1 DEF Goto, At, TypeOK
  <2>4. CASE ClaimCount(w)
    BY <2>4 DEF ClaimCount, Goto, Finish, At, Idle, TypeOK
  <2>5. CASE Answer(w) \/ RepairSpeakers(w)
    BY <2>5 DEF Answer, RepairSpeakers, Goto, At, TypeOK
  <2>. QED  BY <1>1, <2>1, <2>2, <2>3, <2>4, <2>5 DEF WorkerStep
<1>2. CASE ~\E w \in Workers : WorkerStep(w)
  <2>1. UNCHANGED worker
    BY <1>2
       DEF Next, DispatcherStep, DispatchSelect, DispatchCommit, Publish, PublishFails,
           DispatcherCrash, SweepLoad, SweepCommit, RetryFailed, RerunStt,
           ReprocessStt, Operate
  <2>. QED  BY <2>1
<1>. QED  BY <1>1, <1>2

LEMMA SubmissionNext ==
    TypeOK /\ TypeOK' /\ SlotInv /\ LockHeld /\ SubmissionInv /\ [Next]_vars
        => SubmissionInv'
<1>. SUFFICES ASSUME TypeOK, TypeOK', SlotInv, LockHeld, SubmissionInv, [Next]_vars
             PROVE  SubmissionInv'
  OBVIOUS
<1>1. CASE \E w \in Workers : \/ Submit(w) \/ StoreOperation(w) \/ Crash(w)
                              \/ LockRecording(w) \/ RelockRecording(w)
  BY <1>1, SubmitSubmission, StoreSubmission, CrashSubmission, LockingSubmission
<1>2. CASE /\ Next
           /\ ~\E w \in Workers : \/ Submit(w) \/ StoreOperation(w) \/ Crash(w)
                                  \/ LockRecording(w) \/ RelockRecording(w)
  BY <1>2, OthersForget, OthersStayOut, SubmissionFrame
<1>3. CASE UNCHANGED vars
  BY <1>3, SameRowsForget, SubmissionFrame DEF vars
<1>. QED  BY <1>1, <1>2, <1>3

LEMMA SubmissionInvariant == Spec => []SubmissionInv
<1>1. Init => SubmissionInv
  BY DEF Init, SubmissionInv, Idle
<1>. QED  BY <1>1, SubmissionNext, TypeCorrect, SlotInvariant, LockInvariant, PTL DEF Spec

\* The provider gets the audio of a recording at most once between two resets,
\* for any number of deliveries, workers, sweeps, operator requests and faults
\* but the one the code cannot mend: a death between the provider's answer and
\* the commit of the operation's name, where the history starts afresh.
THEOREM SubmittedOnce == Spec => []NoDoubleSubmission
<1>1. SubmissionInv => NoDoubleSubmission
  BY DEF SubmissionInv, NoDoubleSubmission
<1>. QED  BY <1>1, SubmissionInvariant, PTL
=============================================================================
