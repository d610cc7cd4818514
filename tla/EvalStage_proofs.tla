-------------------------- MODULE EvalStage_proofs --------------------------
(***************************************************************************)
(* What the evaluation stage keeps true for any set of recordings and      *)
(* workers, any budget, and any number of retries, faults and operator     *)
(* requests: its types, the lock of a recording, the bound on what is      *)
(* spent, what evaluations that say running mean, and, without the sweep,  *)
(* what a completed recording has.                                         *)
(***************************************************************************)
EXTENDS EvalStage, FiniteSetTheorems, TLAPS

-----------------------------------------------------------------------------
\* The writes of RecordingRow make rows of rows

LEMMA OneMoreAttemptType ==
    ASSUME NEW n \in Nat
    PROVE  OneMoreAttempt(n) \in Nat
BY RowAssumption DEF OneMoreAttempt

LEMMA FailRowType ==
    ASSUME NEW old \in Row, NEW stage \in Stages, NEW retryable \in BOOLEAN, NEW hasAudio
    PROVE  FailRow(old, stage, retryable, hasAudio) \in Row
<1>1. RetryStage(stage, hasAudio) \in Stages
  BY DEF RetryStage, Stages
<1>2. ASSUME old.autoRetry > 0, NEW again \in Stages
      PROVE  AutoRetryRow(old, again) \in Row
  <2>1. StatusOfStage(again) \in Statuses
    BY DEF StatusOfStage, Statuses, NonTerminal
  <2>2. old.autoRetry - 1 \in Nat
    BY <1>2 DEF Row
  <2>. QED  BY <2>1, <2>2 DEF AutoRetryRow, Row
<1>3. FailedRow(old, stage) \in Row
  BY OneMoreAttemptType DEF FailedRow, Row, Statuses, NonTerminal, Stages
<1>. QED  BY <1>1, <1>2, <1>3 DEF FailRow, CanAutoRetry

LEMMA FlushType ==
    ASSUME NEW seen \in Row, NEW new \in Row, NEW old \in Row
    PROVE  Flush(seen, new, old) \in Row
BY DEF Flush, Flushed, Row

LEMMA SweepRowTypes ==
    ASSUME NEW old \in Row
    PROVE  /\ SweepQueuedRow(old) \in Row
           /\ SweepResumedRow(old) \in Row
           /\ SweepTimedOutRow(old) \in Row
<1>1. SweepQueuedRow(old) \in Row
  BY DEF SweepQueuedRow, Row
<1>2. SweepResumedRow(old) \in Row
  BY OneMoreAttemptType DEF SweepResumedRow, Row
<1>3. SweepTimedOutRow(old) \in Row
  <2>1. ASSUME NEW new \in Row, NEW status
        PROVE  WithoutStt(new, status) \in Row
    BY DEF WithoutStt, Row
  <2>2. CASE old.autoRetry > 0
    <3>1. old.autoRetry - 1 \in Nat
      BY <2>2 DEF Row
    <3>2. [old EXCEPT !.autoRetry = @ - 1, !.failedStage = "none", !.attempts = 0] \in Row
      BY <3>1 DEF Row
    <3>. QED  BY <2>1, <2>2, <3>2 DEF SweepTimedOutRow
  <2>3. CASE ~(old.autoRetry > 0)
    <3>1. [old EXCEPT !.status = "failed", !.failedStage = StageForStatus(old.status)] \in Row
      BY DEF StageForStatus, Row, Statuses, Stages
    <3>. QED  BY <2>1, <2>3, <3>1 DEF SweepTimedOutRow
  <2>. QED  BY <2>2, <2>3
<1>. QED  BY <1>1, <1>2, <1>3

LEMMA OperatorRowTypes ==
    ASSUME NEW old \in Row, NEW stage \in Stages, NEW limit \in Nat, NEW hasAudio
    PROVE  /\ RetryFailedRow(old, hasAudio) \in Row
           /\ SttRerunRow(old, hasAudio, limit) \in Row
           /\ ReprocessedRow(old, stage) \in Row
BY DEF RetryFailedRow, RetryFailedStage, AtLeastTwo, SttRerunRow, ReprocessedRow,
       StatusOfStage, Row, Statuses, NonTerminal, Stages

\* Neither a failure nor an operator completes a recording, and an operator
\* leaves none failed.
LEMMA NothingCompletes ==
    ASSUME NEW old \in Row, NEW stage \in Stages, NEW retryable \in BOOLEAN
    PROVE  /\ FailRow(old, stage, retryable, TRUE).status # "completed"
           /\ RetryFailedRow(old, TRUE).status # "completed"
           /\ ReprocessedRow(old, stage).status # "completed"
BY DEF FailRow, RetryStage, AutoRetryRow, FailedRow, RetryFailedRow, ReprocessedRow,
       StatusOfStage, Row

-----------------------------------------------------------------------------
\* Types

Working == Evaluating \cup Calling \cup Persisting

LEMMA WorkingWorker ==
    ASSUME TypeOK, NEW w \in Workers, worker[w] # Idle
    PROVE  /\ worker[w] \in Working
           /\ worker[w].at \in Early \cup Late \cup Final
           /\ worker[w].rec \in Recordings
           /\ worker[w].retry \in 0 .. RetryLimit
           /\ worker[w].at \in Early => worker[w] \in Evaluating
           /\ worker[w].at \in Late => worker[w] \in Calling
           /\ worker[w].at \in Final => worker[w] \in Persisting
           /\ worker[w].at \in Late \cup Final => worker[w].run \in Runs
           /\ worker[w].at \in Final => worker[w].seen \in Row
BY DEF TypeOK, Working, Evaluating, Calling, Persisting, Early, Late, Final

LEMMA IdleWorker ==
    ASSUME NEW w \in Workers, worker[w].at # "idle"
    PROVE  worker[w] # Idle
BY DEF Idle

LEMMA FinishType ==
    ASSUME TypeOK, NEW w \in Workers, worker[w] # Idle, Finish(w)
    PROVE  /\ worker' \in [Workers -> {Idle} \cup Evaluating \cup Calling \cup Persisting]
           /\ evalLock' \in [Recordings -> Workers \cup {NoWorker}]
BY DEF TypeOK, Finish

LEMMA FailType ==
    ASSUME TypeOK, NEW w \in Workers, worker[w] # Idle,
           NEW stage \in {"eval", "budget"}, NEW retryable \in BOOLEAN, Fail(w, stage, retryable)
    PROVE  TypeOK'
<1>. DEFINE r == worker[w].rec
<1>1. r \in Recordings
  BY WorkingWorker
<1>2. row' \in [Recordings -> Row]
  <2>1. FailRow(row[r], stage, retryable, TRUE) \in Row
    BY <1>1, FailRowType DEF TypeOK, Stages
  <2>. QED  BY <2>1 DEF TypeOK, Fail, SetRow
<1>3. tasks' \in SUBSET Messages
  BY <1>1, EvalAssumption DEF TypeOK, Fail, Messages
<1>4. Finish(w)
  BY DEF Fail
<1>. QED  BY <1>2, <1>3, <1>4, FinishType DEF TypeOK, Fail, dataVars, boundVars

LEMMA TypeInit == Init => TypeOK
<1>. SUFFICES ASSUME Init
             PROVE  TypeOK
  OBVIOUS
<1>1. [status |-> "evaluating", failedStage |-> "none", attempts |-> 0,
       autoRetry |-> InitialRetries, op |-> TRUE, started |-> NoTime] \in Row
  BY EvalAssumption DEF Row, Statuses, NonTerminal
<1>2. row \in [Recordings -> Row]
  BY <1>1 DEF Init
<1>3. tasks \in SUBSET Messages
  BY EvalAssumption DEF Init, Messages
<1>4. faults \in 0 .. MaxFaults /\ operations \in 0 .. MaxOperations
  BY EvalAssumption DEF Init
<1>. QED  BY <1>2, <1>3, <1>4 DEF Init, TypeOK

\* A retry that is about to be sent has a number within the limit.
RetryInv == \A w \in Workers : worker[w].at = "retrying" => worker[w].retry < RetryLimit

LEMMA WorkerTypes ==
    ASSUME TypeOK, RetryInv, NEW w \in Workers, WorkerStep(w)
    PROVE  TypeOK'
<1>1. ASSUME NEW r \in Recordings, NEW n \in 0 .. RetryLimit, Deliver(w, r, n)
      PROVE  TypeOK'
  <2>1. [at |-> "loaded", rec |-> r, retry |-> n] \in Evaluating
    BY DEF Evaluating, Early
  <2>. QED  BY <1>1, <2>1 DEF TypeOK, Deliver, dataVars, boundVars
<1>2. CASE NoTranscript(w)
  BY <1>2, FailType, IdleWorker DEF NoTranscript
<1>3. CASE OverBudget(w)
  BY <1>3, FailType, IdleWorker DEF OverBudget
<1>4. CASE Admit(w)
  <2>1. worker[w] \in Evaluating
    BY <1>4, WorkingWorker, IdleWorker DEF Admit, Early
  <2>2. [worker[w] EXCEPT !.at = "admitted"] \in Evaluating
    BY <2>1 DEF Evaluating, Early
  <2>. QED  BY <1>4, <2>2 DEF TypeOK, Admit, dataVars, boundVars
<1>5. CASE StartRun(w)
  <2>. DEFINE r == worker[w].rec
             run == CHOOSE n \in Unused(r) : TRUE
  <2>1. worker[w].rec \in Recordings /\ worker[w].retry \in 0 .. RetryLimit
    BY <1>5, WorkingWorker, IdleWorker DEF StartRun
  <2>2. run \in Runs
    BY <1>5 DEF StartRun, Unused
  <2>3. [at |-> "calling", rec |-> r, retry |-> worker[w].retry, run |-> run] \in Calling
    BY <2>1, <2>2 DEF Calling, Late
  <2>4. worker' \in [Workers -> {Idle} \cup Evaluating \cup Calling \cup Persisting]
    BY <1>5, <2>3 DEF TypeOK, StartRun
  <2>5. running' \in [Recordings -> SUBSET Runs]
    BY <1>5, <2>2 DEF TypeOK, StartRun
  <2>. QED  BY <1>5, <2>4, <2>5 DEF TypeOK, StartRun, boundVars
<1>6. ASSUME NEW transient \in BOOLEAN, LlmFails(w, transient)
      PROVE  TypeOK'
  <2>1. worker[w] \in Calling
    BY <1>6, WorkingWorker, IdleWorker DEF LlmFails, Late
  <2>2. \A at \in Late : [worker[w] EXCEPT !.at = at] \in Calling
    BY <2>1 DEF Calling
  <2>3. worker' \in [Workers -> {Idle} \cup Evaluating \cup Calling \cup Persisting]
    <3>1. worker' = [worker EXCEPT ![w].at = "retrying"] \/ worker' = [worker EXCEPT ![w].at = "failing"]
      BY <1>6 DEF LlmFails
    <3>. QED  BY <2>2, <3>1 DEF TypeOK, Late
  <2>4. running' \in [Recordings -> SUBSET Runs]
    BY <1>6 DEF TypeOK, LlmFails, MarkFailed
  <2>. QED  BY <1>6, <2>3, <2>4 DEF TypeOK, LlmFails, dataVars, boundVars
<1>7. CASE RetryLater(w)
  <2>1. worker[w] # Idle /\ worker[w].at = "retrying" /\ Finish(w)
    BY <1>7, IdleWorker DEF RetryLater
  <2>2. worker[w].retry + 1 \in 0 .. RetryLimit
    BY <2>1, WorkingWorker, EvalAssumption DEF RetryInv
  <2>3. tasks' \in SUBSET Messages
    BY <1>7, <2>1, <2>2, WorkingWorker DEF TypeOK, RetryLater, Messages
  <2>. QED  BY <1>7, <2>1, <2>3, FinishType DEF TypeOK, RetryLater, dataVars, boundVars
<1>8. CASE FailStage(w)
  BY <1>8, FailType, IdleWorker DEF FailStage
<1>9. CASE Answer(w)
  <2>1. [at |-> "persisting", rec |-> worker[w].rec, retry |-> worker[w].retry,
         run |-> worker[w].run, seen |-> row[worker[w].rec]] \in Persisting
    BY <1>9, WorkingWorker, IdleWorker DEF TypeOK, Answer, Late, Persisting, Final
  <2>. QED  BY <1>9, <2>1 DEF TypeOK, Answer, dataVars, boundVars
<1>10. CASE RecordUsage(w)
  <2>1. worker[w] \in Persisting /\ worker[w].run \in Runs
    BY <1>10, WorkingWorker, IdleWorker DEF RecordUsage, Final
  <2>2. [worker[w] EXCEPT !.at = "charged"] \in Persisting
    BY <2>1 DEF Persisting, Final
  <2>3. worker' \in [Workers -> {Idle} \cup Evaluating \cup Calling \cup Persisting]
    BY <1>10, <2>2 DEF TypeOK, RecordUsage
  <2>4. running' \in [Recordings -> SUBSET Runs] /\ done' \in [Recordings -> Runs \cup {NoRun}]
    BY <1>10, <2>1 DEF TypeOK, RecordUsage, HeldRun
  <2>. QED  BY <1>10, <2>3, <2>4 DEF TypeOK, RecordUsage, boundVars
<1>11. CASE Complete(w)
  <2>1. worker[w] # Idle /\ worker[w].rec \in Recordings /\ worker[w].seen \in Row
    BY <1>11, WorkingWorker, IdleWorker DEF Complete, Final
  <2>2. CompletedRow(worker[w].seen) \in Row
    BY <2>1 DEF CompletedRow, Row, Statuses
  <2>3. row' \in [Recordings -> Row]
    BY <1>11, <2>1, <2>2, FlushType DEF TypeOK, Complete, SetRow
  <2>4. Finish(w)
    BY <1>11 DEF Complete
  <2>. QED  BY <1>11, <2>1, <2>3, <2>4, FinishType DEF TypeOK, Complete, dataVars, boundVars
<1>. QED  BY <1>1, <1>2, <1>3, <1>4, <1>5, <1>6, <1>7, <1>8, <1>9, <1>10, <1>11 DEF WorkerStep

LEMMA FaultTypes ==
    ASSUME TypeOK, NEW w \in Workers, Unhandled(w) \/ Crash(w)
    PROVE  TypeOK'
<1>1. worker[w] # Idle /\ Finish(w)
  BY IdleWorker DEF Unhandled, Crash
<1>2. faults' \in 0 .. MaxFaults
  BY EvalAssumption DEF TypeOK, Unhandled, Crash
<1>3. tasks' \in SUBSET Messages
  BY <1>1, WorkingWorker DEF TypeOK, Unhandled, Crash, Messages
<1>. QED  BY <1>1, <1>2, <1>3, FinishType DEF TypeOK, Unhandled, Crash, dataVars

LEMMA SweepTypes ==
    ASSUME TypeOK
    PROVE  /\ \A R \in SUBSET Recordings : \A decision \in [R -> Decisions] :
                 SweepLoad(R, decision) => TypeOK'
           /\ SweepCommit => TypeOK'
<1>1. ASSUME NEW R \in SUBSET Recordings, NEW decision \in [R -> Decisions], SweepLoad(R, decision)
      PROVE  TypeOK'
  <2>1. \A r \in R : [decision |-> decision[r], seen |-> row[r], runs |-> running[r]] \in Plan
    BY DEF TypeOK, Plan
  <2>2. sweepPlan' \in [Recordings -> Plan \cup {Leave}]
    BY <1>1, <2>1 DEF SweepLoad
  <2>. QED  BY <1>1, <2>2 DEF TypeOK, SweepLoad, dataVars, boundVars
<1>2. ASSUME SweepCommit
      PROVE  TypeOK'
  <2>1. row' \in [Recordings -> Row]
    <3>. SUFFICES ASSUME NEW r \in Planned
                  PROVE  Flush(sweepPlan[r].seen, DecidedRow(sweepPlan[r]), row[r]) \in Row
      BY <1>2 DEF TypeOK, SweepCommit, Planned
    <3>1. sweepPlan[r] \in Plan /\ row[r] \in Row
      BY DEF TypeOK, Planned
    <3>2. sweepPlan[r].seen \in Row /\ sweepPlan[r].decision \in Decisions
      BY <3>1 DEF Plan
    <3>3. DecidedRow(sweepPlan[r]) \in Row
      BY <3>2, SweepRowTypes DEF DecidedRow, Decisions
    <3>. QED  BY <3>1, <3>2, <3>3, FlushType
  <2>2. tasks' \in SUBSET Messages
    BY <1>2, EvalAssumption DEF TypeOK, SweepCommit, Messages, Redispatched, Planned
  <2>3. running' \in [Recordings -> SUBSET Runs] /\ done' \in [Recordings -> Runs \cup {NoRun}]
    BY <1>2 DEF TypeOK, SweepCommit
  <2>4. sweepPlan' \in [Recordings -> Plan \cup {Leave}]
    BY <1>2 DEF SweepCommit
  <2>. QED  BY <1>2, <2>1, <2>2, <2>3, <2>4 DEF TypeOK, SweepCommit, boundVars
<1>. QED  BY <1>1, <1>2

LEMMA OperatorTypes ==
    ASSUME TypeOK
    PROVE  /\ \A R \in SUBSET Recordings : Reevaluate(R) => TypeOK'
           /\ RetryFailed => TypeOK'
           /\ Purge => TypeOK'
<1>1. ASSUME NEW R \in SUBSET Recordings, Request(R), row' \in [Recordings -> Row]
      PROVE  TypeOK'
  <2>1. done' \in [Recordings -> Runs \cup {NoRun}]
    BY <1>1 DEF TypeOK, Request
  <2>2. begun' \in [Recordings -> BOOLEAN]
    BY <1>1 DEF TypeOK, Request
  <2>3. tasks' \in SUBSET Messages
    BY <1>1, EvalAssumption DEF TypeOK, Request, Messages
  <2>4. operations' \in 0 .. MaxOperations
    BY <1>1, EvalAssumption DEF TypeOK, Request
  <2>. QED  BY <1>1, <2>1, <2>2, <2>3, <2>4 DEF TypeOK, Request
<1>2. ASSUME NEW R \in SUBSET Recordings, Reevaluate(R)
      PROVE  TypeOK'
  <2>1. \A r \in Recordings : ReprocessedRow(row[r], "eval") \in Row
    BY OperatorRowTypes DEF TypeOK, Stages
  <2>. QED  BY <1>1, <1>2, <2>1 DEF Reevaluate, TypeOK
<1>3. ASSUME RetryFailed
      PROVE  TypeOK'
  <2>. DEFINE failed == {r \in Recordings : row[r].status = "failed"}
  <2>1. \A r \in Recordings : RetryFailedRow(row[r], TRUE) \in Row
    BY OperatorRowTypes DEF TypeOK, Stages
  <2>2. row' \in [Recordings -> Row]
    BY <1>3, <2>1 DEF RetryFailed, TypeOK
  <2>3. failed \in SUBSET Recordings /\ Request(failed)
    BY <1>3 DEF RetryFailed
  <2>. QED  BY <1>1, <2>2, <2>3
<1>4. ASSUME Purge
      PROVE  TypeOK'
  <2>1. transcript' \in [Recordings -> BOOLEAN]
    BY <1>4 DEF Purge, TypeOK
  <2>. QED  BY <1>4, <2>1 DEF Purge, TypeOK, boundVars
<1>. QED  BY <1>2, <1>3, <1>4

LEMMA TypeStep ==
    ASSUME TypeOK, RetryInv, [Next]_vars
    PROVE  TypeOK'
<1>1. CASE Next
  BY <1>1, WorkerTypes, FaultTypes, SweepTypes, OperatorTypes DEF Next
<1>2. CASE UNCHANGED vars
  BY <1>2 DEF vars, TypeOK
<1>. QED  BY <1>1, <1>2

-----------------------------------------------------------------------------
\* What a step does to the workers and their locks

\* A worker takes a lock, goes on within its evaluation, or ends it.
Takes(w) == /\ worker[w] = Idle
            /\ \E r \in Recordings, n \in 0 .. RetryLimit :
                  /\ LockAvailable(r) /\ row[r].status = "evaluating"
                  /\ worker' = [worker EXCEPT ![w] = [at |-> "loaded", rec |-> r, retry |-> n]]
                  /\ evalLock' = [evalLock EXCEPT ![r] = w]

Continues(w) == /\ worker[w] # Idle
                /\ UNCHANGED evalLock
                /\ worker' = [worker EXCEPT ![w] = worker'[w]]
                /\ worker'[w] # Idle
                /\ worker'[w].rec = worker[w].rec
                /\ worker'[w].at = "retrying" => worker'[w].retry < RetryLimit

Ends(w) == worker[w] # Idle /\ Finish(w)

Keeps == UNCHANGED <<worker, evalLock>>

LEMMA WorkerMoves ==
    ASSUME TypeOK, NEW w \in Workers, WorkerStep(w)
    PROVE  Keeps \/ Takes(w) \/ Continues(w) \/ Ends(w)
<1>1. ASSUME NEW r \in Recordings, NEW n \in 0 .. RetryLimit, Deliver(w, r, n)
      PROVE  Keeps \/ Takes(w)
  BY <1>1 DEF Deliver, Keeps, Takes
<1>2. CASE NoTranscript(w) \/ OverBudget(w) \/ FailStage(w) \/ RetryLater(w) \/ Complete(w)
  BY <1>2, IdleWorker DEF NoTranscript, OverBudget, FailStage, RetryLater, Complete, Fail, Ends
<1>3. CASE Admit(w)
  <2>1. worker[w] # Idle /\ worker[w] \in Evaluating
    BY <1>3, WorkingWorker, IdleWorker DEF Admit, Early
  <2>2. worker' = [worker EXCEPT ![w] = [worker[w] EXCEPT !.at = "admitted"]] /\ w \in DOMAIN worker
    BY <1>3 DEF Admit, TypeOK
  <2>3. worker'[w] = [worker[w] EXCEPT !.at = "admitted"]
    BY <2>2
  <2>4. worker'[w].rec = worker[w].rec /\ worker'[w].at = "admitted"
    BY <2>1, <2>3 DEF Evaluating
  <2>. QED  BY <1>3, <2>1, <2>2, <2>3, <2>4 DEF Admit, Continues, Idle
<1>4. CASE StartRun(w)
  <2>1. worker[w] # Idle
    BY <1>4, IdleWorker DEF StartRun
  <2>2. PICK run : worker' = [worker EXCEPT ![w] =
                     [at |-> "calling", rec |-> worker[w].rec, retry |-> worker[w].retry, run |-> run]]
    BY <1>4 DEF StartRun
  <2>. QED  BY <1>4, <2>1, <2>2 DEF StartRun, Continues, Idle, TypeOK
<1>5. ASSUME NEW transient \in BOOLEAN, LlmFails(w, transient)
      PROVE  Continues(w)
  <2>1. worker[w] # Idle /\ worker[w] \in Calling
    BY <1>5, WorkingWorker, IdleWorker DEF LlmFails, Late
  <2>2. PICK at \in {"retrying", "failing"} :
           /\ worker' = [worker EXCEPT ![w] = [worker[w] EXCEPT !.at = at]]
           /\ at = "retrying" => worker[w].retry < RetryLimit
    BY <1>5 DEF LlmFails
  <2>3. worker'[w] = [worker[w] EXCEPT !.at = at]
    BY <2>2 DEF TypeOK
  <2>4. /\ worker'[w].rec = worker[w].rec /\ worker'[w].retry = worker[w].retry
        /\ worker'[w].at = at
    BY <2>1, <2>3 DEF Calling
  <2>5. worker'[w] # Idle
    BY <2>4 DEF Idle
  <2>6. worker' = [worker EXCEPT ![w] = worker'[w]]
    BY <2>2, <2>3
  <2>7. worker'[w].at = "retrying" => worker'[w].retry < RetryLimit
    BY <2>2, <2>4
  <2>. QED  BY <1>5, <2>1, <2>4, <2>5, <2>6, <2>7 DEF LlmFails, Continues
<1>6. CASE Answer(w)
  <2>1. worker[w] # Idle
    BY <1>6, IdleWorker DEF Answer
  <2>. QED  BY <1>6, <2>1 DEF Answer, Continues, Idle, TypeOK
<1>7. CASE RecordUsage(w)
  <2>1. worker[w] # Idle /\ worker[w] \in Persisting
    BY <1>7, WorkingWorker, IdleWorker DEF RecordUsage, Final
  <2>2. worker' = [worker EXCEPT ![w] = [worker[w] EXCEPT !.at = "charged"]]
    BY <1>7 DEF RecordUsage
  <2>3. worker'[w] = [worker[w] EXCEPT !.at = "charged"]
    BY <2>2 DEF TypeOK
  <2>4. worker'[w].rec = worker[w].rec /\ worker'[w].at = "charged"
    BY <2>1, <2>3 DEF Persisting
  <2>5. worker'[w] # Idle /\ worker'[w].at # "retrying"
    BY <2>4 DEF Idle
  <2>6. worker' = [worker EXCEPT ![w] = worker'[w]]
    BY <2>2, <2>3
  <2>. QED  BY <1>7, <2>1, <2>4, <2>5, <2>6 DEF RecordUsage, Continues
<1>. QED  BY <1>1, <1>2, <1>3, <1>4, <1>5, <1>6, <1>7 DEF WorkerStep

LEMMA Moves ==
    ASSUME TypeOK, [Next]_vars
    PROVE  \/ Keeps
           \/ \E w \in Workers : Takes(w) \/ Continues(w) \/ Ends(w)
<1>1. ASSUME NEW w \in Workers, Unhandled(w) \/ Crash(w)
      PROVE  Ends(w)
  BY <1>1, IdleWorker DEF Unhandled, Crash, Ends
<1>2. ASSUME \/ \E R \in SUBSET Recordings : \E decision \in [R -> Decisions] : SweepLoad(R, decision)
             \/ SweepCommit \/ RetryFailed \/ Purge
             \/ \E R \in SUBSET Recordings : Reevaluate(R)
             \/ UNCHANGED vars
      PROVE  Keeps
  BY <1>2 DEF SweepLoad, SweepCommit, RetryFailed, Purge, Reevaluate, Request, vars, Keeps
<1>. QED  BY <1>1, <1>2, WorkerMoves DEF Next

\* Whoever evaluates a recording holds its lock.
LockHeld == \A w \in Workers : worker[w] # Idle => evalLock[worker[w].rec] = w

LockInv == TypeOK /\ RetryInv /\ LockHeld

LEMMA LockInit == Init => LockInv
BY TypeInit DEF Init, LockInv, RetryInv, LockHeld, Idle

LEMMA LockStep ==
    ASSUME LockInv, [Next]_vars
    PROVE  LockInv'
<1>1. TypeOK'
  BY TypeStep DEF LockInv
<1>2. CASE Keeps
  BY <1>1, <1>2 DEF LockInv, RetryInv, LockHeld, Keeps
<1>3. ASSUME NEW w \in Workers, Takes(w)
      PROVE  LockInv'
  <2>1. PICK r \in Recordings, n \in 0 .. RetryLimit :
           /\ evalLock[r] = NoWorker
           /\ worker' = [worker EXCEPT ![w] = [at |-> "loaded", rec |-> r, retry |-> n]]
           /\ evalLock' = [evalLock EXCEPT ![r] = w]
    BY <1>3 DEF Takes, LockAvailable
  <2>2. RetryInv'
    BY <2>1 DEF LockInv, TypeOK, RetryInv
  <2>3. ASSUME NEW v \in Workers, worker'[v] # Idle
        PROVE  evalLock'[worker'[v].rec] = v
    <3>1. CASE v = w
      BY <2>1, <3>1 DEF LockInv, TypeOK
    <3>2. CASE v # w
      <4>1. worker'[v] = worker[v] /\ worker[v].rec \in Recordings
        BY <2>1, <2>3, <3>2, WorkingWorker DEF LockInv, TypeOK
      <4>2. worker[v].rec # r
        BY <2>1, <2>3, <4>1, EvalAssumption DEF LockInv, LockHeld
      <4>. QED  BY <2>1, <2>3, <4>1, <4>2 DEF LockInv, LockHeld, TypeOK
    <3>. QED  BY <3>1, <3>2
  <2>. QED  BY <1>1, <2>2, <2>3 DEF LockInv, LockHeld
<1>4. ASSUME NEW w \in Workers, Continues(w)
      PROVE  LockInv'
  <2>1. \A v \in Workers \ {w} : worker'[v] = worker[v]
    BY <1>4 DEF Continues, LockInv, TypeOK
  <2>. QED  BY <1>1, <1>4, <2>1 DEF Continues, LockInv, RetryInv, LockHeld
<1>5. ASSUME NEW w \in Workers, Ends(w)
      PROVE  LockInv'
  <2>1. /\ worker' = [worker EXCEPT ![w] = Idle]
        /\ evalLock' = [evalLock EXCEPT ![worker[w].rec] = NoWorker]
        /\ evalLock[worker[w].rec] = w
    BY <1>5 DEF Ends, Finish, LockInv, LockHeld
  <2>2. RetryInv'
    BY <2>1 DEF LockInv, TypeOK, RetryInv, Idle
  <2>3. ASSUME NEW v \in Workers, worker'[v] # Idle
        PROVE  evalLock'[worker'[v].rec] = v
    <3>1. v # w /\ worker'[v] = worker[v]
      BY <2>1, <2>3 DEF LockInv, TypeOK
    <3>2. evalLock[worker[v].rec] = v /\ worker[v].rec # worker[w].rec
      BY <2>1, <2>3, <3>1 DEF LockInv, LockHeld
    <3>. QED  BY <2>1, <3>1, <3>2, WorkingWorker DEF LockInv, TypeOK
  <2>. QED  BY <1>1, <2>2, <2>3 DEF LockInv, LockHeld
<1>. QED  BY <1>2, <1>3, <1>4, <1>5, Moves DEF LockInv

\* Whatever tasks, the sweep, retention and operators do to it, in whatever
\* order, every variable keeps its type.
THEOREM TypeCorrect == Spec => []TypeOK
<1>1. LockInv /\ [Next]_vars => LockInv'
  BY LockStep
<1>2. LockInv => TypeOK
  BY DEF LockInv
<1>. QED  BY LockInit, <1>1, <1>2, PTL DEF Spec

\* The session lock lets one worker at a time evaluate a recording, however many
\* messages, retries, sweeps and crashes there are.
THEOREM EvaluationsExclusive == Spec => []OneEvaluationInside
<1>1. LockInv /\ [Next]_vars => LockInv'
  BY LockStep
<1>2. LockInv => OneEvaluationInside
  BY DEF LockInv, LockHeld, OneEvaluationInside
<1>. QED  BY LockInit, <1>1, <1>2, PTL DEF Spec

-----------------------------------------------------------------------------
\* The budget

\* The workers that have passed the check of the budget and are not charged yet.
Uncharged == {w \in Workers : worker[w].at \in {"admitted", "calling", "persisting"}}

LEMMA SameUncharged ==
    ASSUME TypeOK, NEW w \in Workers, NEW new, worker' = [worker EXCEPT ![w] = new],
           \/ new.at \notin {"admitted", "calling", "persisting"}
           \/ worker[w].at \in {"admitted", "calling", "persisting"}
    PROVE  Uncharged' \subseteq Uncharged
BY DEF TypeOK, Uncharged

LEMMA Spending ==
    ASSUME TypeOK, [Next]_vars
    PROVE  \/ UNCHANGED spent /\ Uncharged' \subseteq Uncharged
           \/ UNCHANGED spent /\ WithinBudget
           \/ \E w \in Uncharged : spent' = spent + 1 /\ Uncharged' \subseteq Uncharged \ {w}
<1>1. ASSUME NEW w \in Workers, Finish(w), UNCHANGED spent
      PROVE  UNCHANGED spent /\ Uncharged' \subseteq Uncharged
  BY <1>1, SameUncharged DEF Finish, Idle
<1>2. ASSUME UNCHANGED <<worker, spent>>
      PROVE  UNCHANGED spent /\ Uncharged' \subseteq Uncharged
  BY <1>2 DEF Uncharged
<1>3. ASSUME NEW w \in Workers, NEW r \in Recordings, NEW n \in 0 .. RetryLimit, Deliver(w, r, n)
      PROVE  UNCHANGED spent /\ Uncharged' \subseteq Uncharged
  <2>1. UNCHANGED spent
    BY <1>3 DEF Deliver, dataVars
  <2>2. CASE LockAvailable(r) /\ row[r].status = "evaluating"
    <3>1. worker' = [worker EXCEPT ![w] = [at |-> "loaded", rec |-> r, retry |-> n]]
      BY <1>3, <2>2 DEF Deliver
    <3>. QED  BY <2>1, <3>1, SameUncharged
  <2>3. CASE ~(LockAvailable(r) /\ row[r].status = "evaluating")
    BY <1>2, <1>3, <2>1, <2>3 DEF Deliver
  <2>. QED  BY <2>2, <2>3
<1>4. ASSUME NEW w \in Workers,
             \/ NoTranscript(w) \/ OverBudget(w) \/ FailStage(w) \/ RetryLater(w)
             \/ Complete(w) \/ Unhandled(w) \/ Crash(w)
      PROVE  UNCHANGED spent /\ Uncharged' \subseteq Uncharged
  BY <1>1, <1>4 DEF NoTranscript, OverBudget, FailStage, RetryLater, Complete, Unhandled, Crash,
                    Fail, dataVars
<1>5. ASSUME NEW w \in Workers, Admit(w)
      PROVE  UNCHANGED spent /\ WithinBudget
  BY <1>5 DEF Admit, dataVars
<1>6. ASSUME NEW w \in Workers, StartRun(w) \/ Answer(w)
      PROVE  UNCHANGED spent /\ Uncharged' \subseteq Uncharged
  <2>1. /\ worker[w].at \in {"admitted", "calling"}
        /\ \E new : worker' = [worker EXCEPT ![w] = new]
        /\ UNCHANGED spent
    BY <1>6 DEF StartRun, Answer, dataVars
  <2>. QED  BY <2>1, SameUncharged
<1>7. ASSUME NEW w \in Workers, NEW transient \in BOOLEAN, LlmFails(w, transient)
      PROVE  UNCHANGED spent /\ Uncharged' \subseteq Uncharged
  <2>1. /\ worker[w].at = "calling"
        /\ \E new : worker' = [worker EXCEPT ![w] = new]
        /\ UNCHANGED spent
    BY <1>7 DEF LlmFails, dataVars
  <2>. QED  BY <2>1, SameUncharged
<1>8. ASSUME NEW w \in Workers, RecordUsage(w)
      PROVE  w \in Uncharged /\ spent' = spent + 1 /\ Uncharged' \subseteq Uncharged \ {w}
  <2>1. w \in Uncharged /\ spent' = spent + 1
    BY <1>8 DEF RecordUsage, Uncharged
  <2>2. worker[w] \in Persisting
    BY <1>8, WorkingWorker, IdleWorker DEF RecordUsage, Final
  <2>3. worker' = [worker EXCEPT ![w] = [worker[w] EXCEPT !.at = "charged"]]
    BY <1>8 DEF RecordUsage
  <2>4. worker'[w].at = "charged"
    BY <2>2, <2>3 DEF TypeOK, Persisting
  <2>. QED  BY <2>1, <2>3, <2>4, SameUncharged DEF Uncharged
<1>9. ASSUME \/ \E R \in SUBSET Recordings : \E decision \in [R -> Decisions] : SweepLoad(R, decision)
             \/ SweepCommit \/ RetryFailed \/ Purge
             \/ \E R \in SUBSET Recordings : Reevaluate(R)
             \/ UNCHANGED vars
      PROVE  UNCHANGED spent /\ Uncharged' \subseteq Uncharged
  <2>1. UNCHANGED <<worker, spent>>
    BY <1>9 DEF SweepLoad, SweepCommit, RetryFailed, Purge, Reevaluate, Request, vars, dataVars
  <2>. QED  BY <1>2, <2>1
<1>. QED  BY <1>3, <1>4, <1>5, <1>6, <1>7, <1>8, <1>9 DEF Next, WorkerStep

\* A worker that is let through has seen fewer than the budget, and all of them
\* may have: what is spent and what they are about to spend.
SpendInv == IF Budget = 0 THEN spent = 0 /\ Uncharged = {}
            ELSE spent + Cardinality(Uncharged) <= Budget - 1 + Cardinality(Workers)

LEMMA WorkersFinite ==
    /\ Cardinality(Workers) \in Nat
    /\ \A W \in SUBSET Workers : IsFiniteSet(W) /\ Cardinality(W) \in Nat
                                 /\ Cardinality(W) <= Cardinality(Workers)
BY EvalAssumption, FS_Subset, FS_CardinalityType

LEMMA SpendInit == Init => SpendInv
<1>. SUFFICES ASSUME Init
             PROVE  SpendInv
  OBVIOUS
<1>1. Uncharged = {}
  BY DEF Init, Uncharged, Idle
<1>2. spent = 0
  BY DEF Init
<1>. QED  BY <1>1, <1>2, WorkersFinite, FS_EmptySet, EvalAssumption DEF SpendInv

LEMMA SpendStep ==
    ASSUME TypeOK, TypeOK', SpendInv, [Next]_vars
    PROVE  SpendInv'
<1>1. Uncharged \in SUBSET Workers /\ Uncharged' \in SUBSET Workers
  BY DEF Uncharged
<1>2. spent \in Nat /\ Budget \in Nat
  BY EvalAssumption DEF TypeOK
<1>3. CASE UNCHANGED spent /\ Uncharged' \subseteq Uncharged
  <2>1. Cardinality(Uncharged') <= Cardinality(Uncharged)
    BY <1>1, <1>3, WorkersFinite, FS_Subset
  <2>2. Cardinality(Uncharged) \in Nat /\ Cardinality(Uncharged') \in Nat
    BY <1>1, WorkersFinite
  <2>. QED  BY <1>2, <1>3, <2>1, <2>2, WorkersFinite DEF SpendInv
<1>4. CASE UNCHANGED spent /\ WithinBudget
  <2>1. Cardinality(Uncharged') <= Cardinality(Workers) /\ Cardinality(Uncharged') \in Nat
    BY <1>1, WorkersFinite
  <2>. QED  BY <1>2, <1>4, <2>1, WorkersFinite DEF SpendInv, WithinBudget
<1>5. ASSUME NEW w \in Uncharged, spent' = spent + 1, Uncharged' \subseteq Uncharged \ {w}
      PROVE  SpendInv'
  <2>1. Cardinality(Uncharged \ {w}) = Cardinality(Uncharged) - 1
    BY <1>1, WorkersFinite, FS_RemoveElement
  <2>2. Cardinality(Uncharged') <= Cardinality(Uncharged \ {w})
    BY <1>1, <1>5, WorkersFinite, FS_Subset
  <2>3. Cardinality(Uncharged) \in Nat /\ Cardinality(Uncharged') \in Nat
    BY <1>1, WorkersFinite
  <2>4. Budget # 0
    BY <1>5 DEF SpendInv
  <2>. QED  BY <1>2, <1>5, <2>1, <2>2, <2>3, <2>4, WorkersFinite DEF SpendInv
<1>. QED  BY <1>3, <1>4, <1>5, Spending

\* With any number of recordings, retries and faults, the budget of a day is
\* passed by no more than one evaluation for each worker but one.
THEOREM SpendingBounded == Spec => []SpendBounded
<1>1. LockInv /\ SpendInv /\ [Next]_vars => LockInv' /\ SpendInv'
  <2>. SUFFICES ASSUME LockInv, SpendInv, [Next]_vars
               PROVE  LockInv' /\ SpendInv'
    OBVIOUS
  <2>1. LockInv'
    BY LockStep
  <2>. QED  BY <2>1, SpendStep DEF LockInv
<1>2. LockInv /\ SpendInv => SpendBounded
  <2>. SUFFICES ASSUME LockInv, SpendInv
               PROVE  SpendBounded
    OBVIOUS
  <2>1. Cardinality(Uncharged) \in Nat
    BY WorkersFinite DEF Uncharged
  <2>. QED  BY <2>1, WorkersFinite, EvalAssumption DEF LockInv, TypeOK, SpendInv, SpendBounded
<1>. QED  BY LockInit, SpendInit, <1>1, <1>2, PTL DEF Spec

-----------------------------------------------------------------------------
\* Evaluations that say running

\* The run of an attempt that is over does not say running any more.
Over == {"retrying", "failing", "charged"}
MarkedInv == \A w \in Workers :
    worker[w].at \in Over => worker[w].run \notin running[worker[w].rec]

\* What a step does to the workers and the runs that say running: it leaves the
\* workers alone, ends an evaluation, goes on before its run, starts its run, or
\* goes on with it.
Untouched == UNCHANGED worker /\ \A r \in Recordings : running'[r] \subseteq running[r]

Drops(w) == worker[w] # Idle /\ Finish(w) /\ UNCHANGED running

Settled(w) == worker[w].at \in {"loaded"} \cup Over

BeforeRun(w) == /\ worker[w] = Idle \/ worker[w].at \in Early
                /\ \E new : new.at \in Early /\ worker' = [worker EXCEPT ![w] = new]
                /\ UNCHANGED running

WithRun(w) == /\ Holding(w)
              /\ \E new : /\ worker' = [worker EXCEPT ![w] = new]
                          /\ new.at \in Late \cup Final
                          /\ new.rec = worker[w].rec /\ new.run = worker[w].run
                          /\ new.at \in Over => new.run \notin running'[new.rec]
              /\ \A r \in Recordings : running'[r] \subseteq running[r]

LEMMA WithRunSteps ==
    ASSUME TypeOK, NEW w \in Workers,
           \/ \E transient \in BOOLEAN : LlmFails(w, transient)
           \/ Answer(w) \/ RecordUsage(w)
    PROVE  WithRun(w) /\ UNCHANGED faults
<1>1. ASSUME NEW transient \in BOOLEAN, LlmFails(w, transient)
      PROVE  WithRun(w) /\ UNCHANGED faults
  <2>1. worker[w] \in Calling /\ worker[w].rec \in Recordings
    BY <1>1, WorkingWorker, IdleWorker DEF LlmFails, Late
  <2>2. PICK at \in {"retrying", "failing"} :
           worker' = [worker EXCEPT ![w] = [worker[w] EXCEPT !.at = at]]
    BY <1>1 DEF LlmFails
  <2>. DEFINE new == [worker[w] EXCEPT !.at = at]
  <2>3. new.at = at /\ new.rec = worker[w].rec /\ new.run = worker[w].run
    BY <2>1 DEF Calling
  <2>4. running' = [running EXCEPT ![worker[w].rec] = @ \ {worker[w].run}]
    BY <1>1 DEF LlmFails, MarkFailed, HeldRun
  <2>5. new.run \notin running'[new.rec]
    BY <2>1, <2>3, <2>4 DEF TypeOK
  <2>6. \A r \in Recordings : running'[r] \subseteq running[r]
    BY <2>4 DEF TypeOK
  <2>7. Holding(w) /\ UNCHANGED faults
    BY <1>1 DEF LlmFails, Holding, Late, boundVars
  <2>8. new.at \in Late \cup Final
    BY <2>3 DEF Late
  <2>. HIDE DEF new
  <2>9. worker' = [worker EXCEPT ![w] = new]
    BY <2>2 DEF new
  <2>. QED  BY <2>3, <2>5, <2>6, <2>7, <2>8, <2>9 DEF WithRun
<1>2. CASE Answer(w)
  <2>1. Holding(w) /\ UNCHANGED <<running, faults>>
    BY <1>2 DEF Answer, Holding, Late, boundVars
  <2>. DEFINE new == [at |-> "persisting", rec |-> worker[w].rec, retry |-> worker[w].retry,
                      run |-> worker[w].run, seen |-> row[worker[w].rec]]
  <2>2. /\ new.at = "persisting" /\ new.rec = worker[w].rec /\ new.run = worker[w].run
        /\ new.at \in Late \cup Final /\ new.at \notin Over
    BY DEF Late, Final, Over
  <2>3. worker' = [worker EXCEPT ![w] = new]
    BY <1>2 DEF Answer
  <2>. HIDE DEF new
  <2>4. \A r \in Recordings : running'[r] \subseteq running[r]
    BY <2>1
  <2>. QED  BY <2>1, <2>2, <2>3, <2>4 DEF WithRun
<1>3. CASE RecordUsage(w)
  <2>1. worker[w] \in Persisting /\ worker[w].rec \in Recordings
    BY <1>3, WorkingWorker, IdleWorker DEF RecordUsage, Final
  <2>. DEFINE new == [worker[w] EXCEPT !.at = "charged"]
  <2>2. new.at = "charged" /\ new.rec = worker[w].rec /\ new.run = worker[w].run
    BY <2>1 DEF Persisting
  <2>3. running' = [running EXCEPT ![worker[w].rec] = @ \ {worker[w].run}]
    BY <1>3 DEF RecordUsage, HeldRun
  <2>4. new.run \notin running'[new.rec] /\ \A r \in Recordings : running'[r] \subseteq running[r]
    BY <2>1, <2>2, <2>3 DEF TypeOK
  <2>5. Holding(w) /\ UNCHANGED faults
    BY <1>3 DEF RecordUsage, Holding, Final, boundVars
  <2>6. new.at \in Late \cup Final
    BY <2>2 DEF Final
  <2>7. worker' = [worker EXCEPT ![w] = new]
    BY <1>3 DEF RecordUsage
  <2>. HIDE DEF new
  <2>. QED  BY <2>2, <2>4, <2>5, <2>6, <2>7 DEF WithRun
<1>. QED  BY <1>1, <1>2, <1>3

LEMMA RunMoves ==
    ASSUME TypeOK, [Next]_vars
    PROVE  \/ Untouched /\ UNCHANGED faults
           \/ \E w \in Workers :
                 \/ Drops(w) /\ Settled(w) /\ UNCHANGED faults
                 \/ Drops(w) /\ faults' = faults + 1
                 \/ BeforeRun(w) /\ UNCHANGED faults
                 \/ StartRun(w) /\ UNCHANGED faults
                 \/ WithRun(w) /\ UNCHANGED faults
<1>1. ASSUME NEW w \in Workers, NEW r \in Recordings, NEW n \in 0 .. RetryLimit, Deliver(w, r, n)
      PROVE  (Untouched \/ BeforeRun(w)) /\ UNCHANGED faults
  <2>1. UNCHANGED <<running, faults>> /\ worker[w] = Idle
    BY <1>1 DEF Deliver, boundVars
  <2>2. \/ UNCHANGED worker
        \/ worker' = [worker EXCEPT ![w] = [at |-> "loaded", rec |-> r, retry |-> n]]
    BY <1>1 DEF Deliver
  <2>3. CASE UNCHANGED worker
    BY <2>1, <2>3 DEF Untouched
  <2>4. CASE worker' = [worker EXCEPT ![w] = [at |-> "loaded", rec |-> r, retry |-> n]]
    <3>. DEFINE new == [at |-> "loaded", rec |-> r, retry |-> n]
    <3>1. new.at \in Early /\ worker' = [worker EXCEPT ![w] = new]
      BY <2>4 DEF Early
    <3>. HIDE DEF new
    <3>. QED  BY <2>1, <3>1 DEF BeforeRun
  <2>. QED  BY <2>2, <2>3, <2>4
<1>2. ASSUME NEW w \in Workers, Admit(w)
      PROVE  BeforeRun(w) /\ UNCHANGED faults
  <2>1. worker[w] \in Evaluating
    BY <1>2, WorkingWorker, IdleWorker DEF Admit, Early
  <2>2. [worker[w] EXCEPT !.at = "admitted"].at = "admitted"
    BY <2>1 DEF Evaluating
  <2>3. worker' = [worker EXCEPT ![w] = [worker[w] EXCEPT !.at = "admitted"]]
    BY <1>2 DEF Admit
  <2>4. UNCHANGED <<running, faults>> /\ worker[w].at \in Early
    BY <1>2 DEF Admit, boundVars, Early
  <2>5. "admitted" \in Early
    BY DEF Early
  <2>6. \E new : new.at \in Early /\ worker' = [worker EXCEPT ![w] = new]
    BY <2>2, <2>3, <2>5, Zenon
  <2>. QED  BY <2>4, <2>6 DEF BeforeRun
<1>3. ASSUME NEW w \in Workers,
             NoTranscript(w) \/ OverBudget(w) \/ FailStage(w) \/ RetryLater(w) \/ Complete(w)
      PROVE  Drops(w) /\ Settled(w) /\ UNCHANGED faults
  BY <1>3, IdleWorker DEF NoTranscript, OverBudget, FailStage, RetryLater, Complete, Fail,
                          boundVars, Drops, Settled, Over
<1>4. ASSUME NEW w \in Workers, Unhandled(w) \/ Crash(w)
      PROVE  Drops(w) /\ faults' = faults + 1
  BY <1>4, IdleWorker DEF Unhandled, Crash, Drops
<1>5. ASSUME NEW w \in Workers, StartRun(w)
      PROVE  UNCHANGED faults
  BY <1>5 DEF StartRun, boundVars
<1>6. ASSUME \/ \E R \in SUBSET Recordings : \E decision \in [R -> Decisions] : SweepLoad(R, decision)
             \/ RetryFailed \/ Purge
             \/ \E R \in SUBSET Recordings : Reevaluate(R)
             \/ UNCHANGED vars
      PROVE  Untouched /\ UNCHANGED faults
  BY <1>6 DEF SweepLoad, RetryFailed, Purge, Reevaluate, Request, vars, boundVars, Untouched
<1>7. ASSUME SweepCommit
      PROVE  Untouched /\ UNCHANGED faults
  BY <1>7 DEF SweepCommit, boundVars, Untouched
<1>8. ASSUME NEW w \in Workers,
             \/ \E transient \in BOOLEAN : LlmFails(w, transient)
             \/ Answer(w) \/ RecordUsage(w)
      PROVE  WithRun(w) /\ UNCHANGED faults
  BY <1>8, WithRunSteps
<1>. QED  BY <1>1, <1>2, <1>3, <1>4, <1>5, <1>6, <1>7, <1>8 DEF Next, WorkerStep

\* A step in which every worker keeps its run only makes fewer of them orphans.
LEMMA KeptRuns ==
    ASSUME TypeOK, NEW r \in Recordings,
           \A v \in Workers : Holding(v) => /\ worker'[v].at \in Late \cup Final
                                            /\ worker'[v].rec = worker[v].rec
                                            /\ worker'[v].run = worker[v].run
    PROVE  Orphans(r)' \cap running[r] \subseteq Orphans(r)
<1>. SUFFICES ASSUME NEW run \in Orphans(r)', run \in running[r], run \in HeldRuns(r)
             PROVE  FALSE
  BY DEF Orphans
<1>1. PICK v \in Workers : Holding(v) /\ worker[v].rec = r /\ worker[v].run = run
  BY DEF HeldRuns, HeldRun
<1>2. run \in HeldRuns(r)'
  BY <1>1 DEF HeldRuns, HeldRun, Holding
<1>. QED  BY <1>2 DEF Orphans

LEMMA UntouchedRuns ==
    ASSUME TypeOK, MarkedInv, Untouched
    PROVE  MarkedInv' /\ \A r \in Recordings : Orphans(r)' \subseteq Orphans(r)
<1>1. ASSUME NEW w \in Workers, worker[w].at \in Over
      PROVE  worker[w].rec \in Recordings
  BY <1>1, WorkingWorker DEF Over, Idle
<1>2. MarkedInv'
  BY <1>1 DEF MarkedInv, Untouched
<1>3. ASSUME NEW r \in Recordings
      PROVE  Orphans(r)' \subseteq Orphans(r)
  <2>1. Orphans(r)' \cap running[r] \subseteq Orphans(r)
    BY KeptRuns DEF Untouched, Holding
  <2>. QED  BY <2>1 DEF Untouched, Orphans
<1>. QED  BY <1>2, <1>3

LEMMA DroppedRuns ==
    ASSUME TypeOK, MarkedInv, NEW w \in Workers, Drops(w)
    PROVE  /\ MarkedInv'
           /\ \A r \in Recordings : Orphans(r)' \subseteq Orphans(r) \cup {worker[w].run}
           /\ Settled(w) => \A r \in Recordings : Orphans(r)' \subseteq Orphans(r)
<1>1. worker' = [worker EXCEPT ![w] = Idle] /\ UNCHANGED running
  BY DEF Drops, Finish
<1>2. \A v \in Workers : v # w => worker'[v] = worker[v]
  BY <1>1 DEF TypeOK
<1>3. worker'[w] = Idle
  BY <1>1 DEF TypeOK
<1>4. MarkedInv'
  BY <1>1, <1>2, <1>3 DEF MarkedInv, Over, Idle
<1>5. ASSUME NEW r \in Recordings, NEW run \in Orphans(r)', run \notin Orphans(r)
      PROVE  run = worker[w].run /\ ~Settled(w)
  <2>1. run \in running[r] /\ run \in HeldRuns(r)
    BY <1>1, <1>5 DEF Orphans
  <2>2. PICK v \in Workers : Holding(v) /\ worker[v].rec = r /\ worker[v].run = run
    BY <2>1 DEF HeldRuns, HeldRun
  <2>3. CASE v # w
    <3>1. run \in HeldRuns(r)'
      BY <1>2, <2>2, <2>3 DEF HeldRuns, HeldRun, Holding
    <3>. QED  BY <1>5, <3>1 DEF Orphans
  <2>4. CASE v = w
    <3>1. worker[w].at \notin Over
      BY <2>1, <2>2, <2>4 DEF MarkedInv
    <3>. QED  BY <2>2, <2>4, <3>1 DEF Settled, Holding, Late, Final
  <2>. QED  BY <2>3, <2>4
<1>. QED  BY <1>4, <1>5

LEMMA BeforeRuns ==
    ASSUME TypeOK, MarkedInv, NEW w \in Workers, BeforeRun(w)
    PROVE  MarkedInv' /\ \A r \in Recordings : Orphans(r)' \subseteq Orphans(r)
<1>1. PICK new : new.at \in Early /\ worker' = [worker EXCEPT ![w] = new]
  BY DEF BeforeRun
<1>2. UNCHANGED running
  BY DEF BeforeRun
<1>3. \A v \in Workers : worker'[v] = IF v = w THEN new ELSE worker[v]
  BY <1>1 DEF TypeOK
<1>4. MarkedInv'
  BY <1>1, <1>2, <1>3 DEF MarkedInv, Over, Early
<1>5. ~Holding(w)
  BY DEF BeforeRun, Holding, Idle, Early, Late, Final
<1>6. ASSUME NEW r \in Recordings
      PROVE  Orphans(r)' \subseteq Orphans(r)
  <2>1. Orphans(r)' \cap running[r] \subseteq Orphans(r)
    BY <1>3, <1>5, KeptRuns DEF Holding
  <2>. QED  BY <1>2, <2>1 DEF Orphans
<1>. QED  BY <1>4, <1>6

LEMMA StartedRuns ==
    ASSUME TypeOK, MarkedInv, NEW w \in Workers, StartRun(w)
    PROVE  MarkedInv' /\ \A r \in Recordings : Orphans(r)' \subseteq Orphans(r)
<1>. DEFINE rec == worker[w].rec
<1>1. worker[w].at = "admitted" /\ rec \in Recordings
  BY WorkingWorker, IdleWorker DEF StartRun
<1>2. PICK run \in Unused(rec) :
         /\ running' = [running EXCEPT ![rec] = @ \cup {run}]
         /\ worker' = [worker EXCEPT ![w] =
                         [at |-> "calling", rec |-> rec, retry |-> worker[w].retry, run |-> run]]
  BY DEF StartRun
<1>3. /\ worker'[w].at = "calling" /\ worker'[w].rec = rec /\ worker'[w].run = run
      /\ \A v \in Workers : v # w => worker'[v] = worker[v]
  BY <1>2 DEF TypeOK
<1>4. \A r \in Recordings : running'[r] = IF r = rec THEN running[r] \cup {run} ELSE running[r]
  BY <1>2 DEF TypeOK
<1>5. MarkedInv'
  <2>. SUFFICES ASSUME NEW v \in Workers, worker'[v].at \in Over
               PROVE  worker'[v].run \notin running'[worker'[v].rec]
    BY DEF MarkedInv
  <2>1. v # w /\ worker'[v] = worker[v]
    BY <1>3 DEF Over
  <2>2. worker[v].run \notin running[worker[v].rec] /\ worker[v].rec \in Recordings
    BY <2>1, WorkingWorker DEF MarkedInv, Over, Idle
  <2>3. worker[v].rec = rec => worker[v].run # run
    <3>1. Holding(v)
      BY <2>1 DEF Holding, Over, Late, Final
    <3>. QED  BY <1>2, <3>1 DEF Unused, HeldRuns, HeldRun
  <2>. QED  BY <1>4, <2>1, <2>2, <2>3
<1>6. ASSUME NEW r \in Recordings
      PROVE  Orphans(r)' \subseteq Orphans(r)
  <2>1. ~Holding(w)
    BY <1>1 DEF Holding, Late, Final
  <2>2. Orphans(r)' \cap running[r] \subseteq Orphans(r)
    BY <1>3, <2>1, KeptRuns DEF Holding
  <2>3. r = rec => run \in HeldRuns(r)'
    BY <1>3 DEF HeldRuns, HeldRun, Holding, Late
  <2>4. Orphans(r)' \subseteq running[r]
    <3>1. Orphans(r)' = running'[r] \ HeldRuns(r)'
      BY DEF Orphans
    <3>2. CASE r = rec
      <4>1. running'[r] = running[r] \cup {run} /\ run \in HeldRuns(r)'
        BY <1>4, <2>3, <3>2
      <4>. HIDE DEF rec
      <4>. QED  BY <3>1, <4>1
    <3>3. CASE r # rec
      BY <1>4, <3>1, <3>3
    <3>. QED  BY <3>2, <3>3
  <2>. QED  BY <2>2, <2>4
<1>. QED  BY <1>5, <1>6

LEMMA ContinuedRuns ==
    ASSUME TypeOK, MarkedInv, NEW w \in Workers, WithRun(w)
    PROVE  MarkedInv' /\ \A r \in Recordings : Orphans(r)' \subseteq Orphans(r)
<1>1. PICK new : /\ worker' = [worker EXCEPT ![w] = new]
                 /\ new.at \in Late \cup Final
                 /\ new.rec = worker[w].rec /\ new.run = worker[w].run
                 /\ new.at \in Over => new.run \notin running'[new.rec]
  BY DEF WithRun
<1>2. \A v \in Workers : worker'[v] = IF v = w THEN new ELSE worker[v]
  BY <1>1 DEF TypeOK
<1>3. \A r \in Recordings : running'[r] \subseteq running[r]
  BY DEF WithRun
<1>4. MarkedInv'
  <2>. SUFFICES ASSUME NEW v \in Workers, v # w, worker[v].at \in Over
               PROVE  worker[v].run \notin running'[worker[v].rec]
    BY <1>1, <1>2 DEF MarkedInv
  <2>1. worker[v].rec \in Recordings
    BY WorkingWorker DEF Over, Idle
  <2>. QED  BY <1>3, <2>1 DEF MarkedInv
<1>5. ASSUME NEW r \in Recordings
      PROVE  Orphans(r)' \subseteq Orphans(r)
  <2>1. Orphans(r)' \cap running[r] \subseteq Orphans(r)
    BY <1>1, <1>2, KeptRuns DEF Holding
  <2>. QED  BY <1>3, <2>1 DEF Orphans
<1>. QED  BY <1>4, <1>5

OrphanInv == \A r \in Recordings : IsFiniteSet(Orphans(r)) /\ Cardinality(Orphans(r)) <= faults

LEMMA OrphanStep ==
    ASSUME TypeOK, TypeOK', MarkedInv, OrphanInv, [Next]_vars
    PROVE  MarkedInv' /\ OrphanInv'
<1>1. faults \in Nat
  BY DEF TypeOK
<1>2. ASSUME NEW r \in Recordings, Orphans(r)' \subseteq Orphans(r)
      PROVE  IsFiniteSet(Orphans(r)') /\ Cardinality(Orphans(r)') <= faults
  <2>1. IsFiniteSet(Orphans(r)) /\ Cardinality(Orphans(r)) <= faults
    BY DEF OrphanInv
  <2>2. IsFiniteSet(Orphans(r)') /\ Cardinality(Orphans(r)') <= Cardinality(Orphans(r))
    BY <1>2, <2>1, FS_Subset
  <2>. QED  BY <1>1, <2>1, <2>2, FS_CardinalityType
<1>3. ASSUME NEW r \in Recordings, NEW run, Orphans(r)' \subseteq Orphans(r) \cup {run}
      PROVE  IsFiniteSet(Orphans(r)') /\ Cardinality(Orphans(r)') <= faults + 1
  <2>1. IsFiniteSet(Orphans(r)) /\ Cardinality(Orphans(r)) <= faults
    BY DEF OrphanInv
  <2>2. /\ IsFiniteSet(Orphans(r) \cup {run})
        /\ Cardinality(Orphans(r) \cup {run}) <= Cardinality(Orphans(r)) + 1
    <3>1. Cardinality(Orphans(r)) \in Nat
      BY <2>1, FS_CardinalityType
    <3>2. IsFiniteSet(Orphans(r) \cup {run})
      BY <2>1, FS_AddElement
    <3>3. CASE run \in Orphans(r)
      <4>1. Orphans(r) \cup {run} = Orphans(r)
        BY <3>3
      <4>. QED  BY <3>1, <3>2, <4>1
    <3>4. CASE run \notin Orphans(r)
      <4>1. Cardinality(Orphans(r) \cup {run}) = Cardinality(Orphans(r)) + 1
        BY <2>1, <3>4, FS_AddElement
      <4>. QED  BY <3>1, <3>2, <4>1
    <3>. QED  BY <3>3, <3>4
  <2>3. IsFiniteSet(Orphans(r)') /\ Cardinality(Orphans(r)') <= Cardinality(Orphans(r) \cup {run})
    BY <1>3, <2>2, FS_Subset
  <2>4. /\ Cardinality(Orphans(r)) \in Nat /\ Cardinality(Orphans(r)') \in Nat
        /\ Cardinality(Orphans(r) \cup {run}) \in Nat
    BY <2>1, <2>2, <2>3, FS_CardinalityType
  <2>. QED  BY <1>1, <2>1, <2>2, <2>3, <2>4
<1>4. ASSUME UNCHANGED faults, \A r \in Recordings : Orphans(r)' \subseteq Orphans(r)
      PROVE  OrphanInv'
  BY <1>2, <1>4 DEF OrphanInv
<1>5. CASE Untouched /\ UNCHANGED faults
  BY <1>4, <1>5, UntouchedRuns
<1>6. ASSUME NEW w \in Workers, Drops(w), Settled(w), UNCHANGED faults
      PROVE  MarkedInv' /\ OrphanInv'
  BY <1>4, <1>6, DroppedRuns
<1>7. ASSUME NEW w \in Workers, Drops(w), faults' = faults + 1
      PROVE  MarkedInv' /\ OrphanInv'
  BY <1>3, <1>7, DroppedRuns DEF OrphanInv
<1>8. ASSUME NEW w \in Workers, BeforeRun(w) \/ StartRun(w) \/ WithRun(w), UNCHANGED faults
      PROVE  MarkedInv' /\ OrphanInv'
  BY <1>4, <1>8, BeforeRuns, StartedRuns, ContinuedRuns
<1>. QED  BY <1>5, <1>6, <1>7, <1>8, RunMoves

LEMMA OrphanInit == Init => MarkedInv /\ OrphanInv
<1>. SUFFICES ASSUME Init
             PROVE  MarkedInv /\ OrphanInv
  OBVIOUS
<1>1. MarkedInv
  BY DEF Init, MarkedInv, Over, Idle
<1>2. \A r \in Recordings : Orphans(r) = {}
  BY DEF Init, Orphans
<1>3. faults = 0
  BY DEF Init
<1>. QED  BY <1>1, <1>2, <1>3, FS_EmptySet DEF OrphanInv

\* Retries, sweeps, operators and late answers, in whatever order, leave no
\* evaluation saying running: there is at most one for each crash or exception
\* that nobody handled.
THEOREM OrphansBounded == Spec => []OrphansComeFromFaults
<1>1. LockInv /\ MarkedInv /\ OrphanInv /\ [Next]_vars => LockInv' /\ MarkedInv' /\ OrphanInv'
  <2>. SUFFICES ASSUME LockInv, MarkedInv, OrphanInv, [Next]_vars
               PROVE  LockInv' /\ MarkedInv' /\ OrphanInv'
    OBVIOUS
  <2>1. LockInv'
    BY LockStep
  <2>. QED  BY <2>1, OrphanStep DEF LockInv
<1>2. OrphanInv => OrphansComeFromFaults
  BY DEF OrphanInv, OrphansComeFromFaults
<1>. QED  BY LockInit, OrphanInit, <1>1, <1>2, PTL DEF Spec

-----------------------------------------------------------------------------
\* Completed recordings

\* Without the sweep, a recording keeps saying evaluating as long as a worker is
\* on it, so that no request of an operator forgets what the worker has charged.
BusyInv    == \A w \in Workers : worker[w] # Idle => row[worker[w].rec].status = "evaluating"
ChargedInv == \A w \in Workers : worker[w].at = "charged" => done[worker[w].rec] # NoRun
NoPlan     == \A r \in Recordings : sweepPlan[r] = Leave

CompletedInv == BusyInv /\ ChargedInv /\ NoPlan /\ CompletedIsEvaluated

\* A step that writes neither a row nor a result, and finds the row of what it
\* starts evaluating.
LEMMA SameRows ==
    ASSUME TypeOK, CompletedInv, UNCHANGED <<row, done, sweepPlan>>,
           Keeps \/ \E w \in Workers : Takes(w) \/ Continues(w) \/ Ends(w),
           \A w \in Workers : worker'[w].at = "charged" => worker'[w] = worker[w]
    PROVE  CompletedInv'
<1>1. ChargedInv' /\ NoPlan' /\ CompletedIsEvaluated'
  BY DEF CompletedInv, ChargedInv, NoPlan, CompletedIsEvaluated
<1>2. ASSUME Keeps
      PROVE  BusyInv'
  BY <1>2 DEF Keeps, CompletedInv, BusyInv
<1>3. ASSUME NEW w \in Workers, Takes(w) \/ Continues(w) \/ Ends(w)
      PROVE  BusyInv'
  <2>1. \A v \in Workers : v # w => worker'[v] = worker[v]
    BY <1>3 DEF Takes, Continues, Ends, Finish, TypeOK
  <2>2. worker'[w] # Idle => row[worker'[w].rec].status = "evaluating"
    <3>1. CASE Takes(w)
      BY <3>1 DEF Takes, TypeOK
    <3>2. CASE Continues(w)
      BY <3>2 DEF Continues, CompletedInv, BusyInv
    <3>3. CASE Ends(w)
      BY <3>3 DEF Ends, Finish, TypeOK
    <3>. QED  BY <1>3, <3>1, <3>2, <3>3
  <2>. QED  BY <2>1, <2>2 DEF CompletedInv, BusyInv
<1>. QED  BY <1>1, <1>2, <1>3 DEF CompletedInv, BusyInv

\* A step in which a worker ends an evaluation with a row it writes.
LEMMA EndedRow ==
    ASSUME TypeOK, LockHeld, CompletedInv, UNCHANGED <<done, sweepPlan>>,
           NEW w \in Workers, worker[w] # Idle, Finish(w),
           NEW new, SetRow(worker[w].rec, new),
           new.status = "completed" => done[worker[w].rec] # NoRun
    PROVE  CompletedInv'
<1>. DEFINE rec == worker[w].rec
<1>1. rec \in Recordings
  BY WorkingWorker
<1>2. worker'[w] = Idle /\ \A v \in Workers : v # w => worker'[v] = worker[v]
  BY DEF Finish, TypeOK
<1>3. \A r \in Recordings : row'[r] = IF r = rec THEN new ELSE row[r]
  BY DEF SetRow, TypeOK
<1>4. BusyInv'
  <2>. SUFFICES ASSUME NEW v \in Workers, worker'[v] # Idle
               PROVE  row'[worker'[v].rec].status = "evaluating"
    BY DEF BusyInv
  <2>1. v # w /\ worker'[v] = worker[v] /\ worker[v].rec \in Recordings
    BY <1>2, WorkingWorker
  <2>2. worker[v].rec # rec
    BY <2>1 DEF LockHeld
  <2>. QED  BY <1>3, <2>1, <2>2 DEF CompletedInv, BusyInv
<1>5. ChargedInv'
  BY <1>2 DEF CompletedInv, ChargedInv, Idle
<1>6. NoPlan' /\ CompletedIsEvaluated'
  BY <1>3 DEF CompletedInv, NoPlan, CompletedIsEvaluated
<1>. QED  BY <1>4, <1>5, <1>6 DEF CompletedInv

\* A request of an operator for recordings no worker is on.
LEMMA RequestedRows ==
    ASSUME TypeOK, CompletedInv, NEW R \in SUBSET Recordings, Request(R),
           \A r \in R : row[r].status # "evaluating" /\ row'[r].status # "completed",
           \A r \in Recordings \ R : row'[r] = row[r]
    PROVE  CompletedInv'
<1>1. UNCHANGED <<worker, sweepPlan>>
  BY DEF Request
<1>2. \A r \in Recordings : done'[r] = IF r \in R THEN NoRun ELSE done[r]
  BY DEF Request
<1>3. ASSUME NEW w \in Workers, worker[w] # Idle
      PROVE  worker[w].rec \in Recordings \ R
  BY <1>3, WorkingWorker DEF CompletedInv, BusyInv
<1>4. BusyInv'
  BY <1>1, <1>3 DEF CompletedInv, BusyInv
<1>5. ChargedInv'
  <2>1. \A w \in Workers : worker[w].at = "charged" => worker[w] # Idle
    BY IdleWorker
  <2>. QED  BY <1>1, <1>2, <1>3, <2>1 DEF CompletedInv, ChargedInv
<1>6. NoPlan' /\ CompletedIsEvaluated'
  BY <1>1, <1>2 DEF CompletedInv, NoPlan, CompletedIsEvaluated
<1>. QED  BY <1>4, <1>5, <1>6 DEF CompletedInv

LEMMA CompletedWorkerStep ==
    ASSUME TypeOK, LockHeld, CompletedInv, NEW w \in Workers, WorkerStep(w)
    PROVE  CompletedInv'
<1>1. ASSUME \/ \E r \in Recordings, n \in 0 .. RetryLimit : Deliver(w, r, n)
             \/ RetryLater(w)
      PROVE  CompletedInv'
  <2>1. UNCHANGED <<row, done, sweepPlan>>
    BY <1>1 DEF Deliver, RetryLater, dataVars
  <2>2. \A v \in Workers : worker'[v].at = "charged" => worker'[v] = worker[v]
    <3>1. \/ UNCHANGED worker
          \/ \E r \in Recordings, n \in 0 .. RetryLimit :
                worker' = [worker EXCEPT ![w] = [at |-> "loaded", rec |-> r, retry |-> n]]
          \/ worker' = [worker EXCEPT ![w] = Idle]
      BY <1>1 DEF Deliver, RetryLater, Finish
    <3>. QED  BY <3>1 DEF Idle, TypeOK
  <2>. QED  BY <2>1, <2>2, WorkerMoves, SameRows
<1>2. ASSUME \/ Admit(w) \/ StartRun(w) \/ Answer(w)
             \/ \E transient \in BOOLEAN : LlmFails(w, transient)
      PROVE  CompletedInv'
  <2>1. UNCHANGED <<row, done, sweepPlan>>
    BY <1>2 DEF Admit, StartRun, Answer, LlmFails, dataVars
  <2>2. PICK new : worker' = [worker EXCEPT ![w] = new] /\ new.at # "charged"
    <3>1. CASE Admit(w)
      <4>1. worker[w] \in Evaluating
        BY <3>1, WorkingWorker, IdleWorker DEF Admit, Early
      <4>. DEFINE new == [worker[w] EXCEPT !.at = "admitted"]
      <4>2. new.at # "charged" /\ worker' = [worker EXCEPT ![w] = new]
        BY <3>1, <4>1 DEF Admit, Evaluating
      <4>. HIDE DEF new
      <4>. QED  BY <4>2
    <3>2. CASE StartRun(w)
      <4>. DEFINE new == [at |-> "calling", rec |-> worker[w].rec, retry |-> worker[w].retry,
                          run |-> CHOOSE n \in Unused(worker[w].rec) : TRUE]
      <4>1. new.at # "charged" /\ worker' = [worker EXCEPT ![w] = new]
        BY <3>2 DEF StartRun
      <4>. HIDE DEF new
      <4>. QED  BY <4>1
    <3>3. CASE Answer(w)
      <4>. DEFINE new == [at |-> "persisting", rec |-> worker[w].rec, retry |-> worker[w].retry,
                          run |-> worker[w].run, seen |-> row[worker[w].rec]]
      <4>1. new.at # "charged" /\ worker' = [worker EXCEPT ![w] = new]
        BY <3>3 DEF Answer
      <4>. HIDE DEF new
      <4>. QED  BY <4>1
    <3>4. ASSUME NEW transient \in BOOLEAN, LlmFails(w, transient)
          PROVE  \E new : worker' = [worker EXCEPT ![w] = new] /\ new.at # "charged"
      <4>1. worker[w] \in Calling
        BY <3>4, WorkingWorker, IdleWorker DEF LlmFails, Late
      <4>2. PICK at \in {"retrying", "failing"} :
               worker' = [worker EXCEPT ![w] = [worker[w] EXCEPT !.at = at]]
        BY <3>4 DEF LlmFails
      <4>. DEFINE new == [worker[w] EXCEPT !.at = at]
      <4>3. new.at # "charged" /\ worker' = [worker EXCEPT ![w] = new]
        BY <4>1, <4>2 DEF Calling
      <4>. HIDE DEF new
      <4>. QED  BY <4>3
    <3>. QED  BY <1>2, <3>1, <3>2, <3>3, <3>4
  <2>3. \A v \in Workers : worker'[v].at = "charged" => worker'[v] = worker[v]
    BY <2>2 DEF TypeOK
  <2>. QED  BY <2>1, <2>3, WorkerMoves, SameRows
<1>3. ASSUME NEW stage \in {"eval", "budget"}, NEW retryable \in BOOLEAN,
             worker[w] # Idle, Fail(w, stage, retryable)
      PROVE  CompletedInv'
  <2>. DEFINE new == FailRow(row[worker[w].rec], stage, retryable, TRUE)
  <2>1. row[worker[w].rec] \in Row
    BY <1>3, WorkingWorker DEF TypeOK
  <2>2. new.status # "completed"
    BY <2>1, NothingCompletes DEF Stages
  <2>3. UNCHANGED <<done, sweepPlan>> /\ Finish(w) /\ SetRow(worker[w].rec, new)
    BY <1>3 DEF Fail, dataVars
  <2>. HIDE DEF new
  <2>. QED  BY <1>3, <2>2, <2>3, EndedRow
<1>4. CASE NoTranscript(w) \/ OverBudget(w) \/ FailStage(w)
  BY <1>3, <1>4, IdleWorker DEF NoTranscript, OverBudget, FailStage
<1>5. CASE RecordUsage(w)
  <2>1. worker[w] \in Persisting /\ worker[w].rec \in Recordings /\ worker[w].run \in Runs
    BY <1>5, WorkingWorker, IdleWorker DEF RecordUsage, Final
  <2>. DEFINE new == [worker[w] EXCEPT !.at = "charged"]
  <2>2. new.rec = worker[w].rec /\ new # Idle /\ worker' = [worker EXCEPT ![w] = new]
    BY <1>5, <2>1 DEF RecordUsage, Persisting, Idle
  <2>. HIDE DEF new
  <2>3. \A v \in Workers : worker'[v] = IF v = w THEN new ELSE worker[v]
    BY <2>2 DEF TypeOK
  <2>4. \A r \in Recordings : done'[r] = IF r = worker[w].rec THEN worker[w].run ELSE done[r]
    BY <1>5 DEF RecordUsage, HeldRun, TypeOK
  <2>5. worker[w].run # NoRun
    BY <2>1, EvalAssumption
  <2>6. UNCHANGED <<row, sweepPlan>> /\ worker[w] # Idle
    BY <1>5, IdleWorker DEF RecordUsage
  <2>7. BusyInv'
    BY <2>2, <2>3, <2>6 DEF CompletedInv, BusyInv
  <2>8. ChargedInv'
    <3>1. \A v \in Workers : worker[v].at = "charged" => worker[v].rec \in Recordings
      BY WorkingWorker, IdleWorker
    <3>. QED  BY <2>1, <2>2, <2>3, <2>4, <2>5, <3>1 DEF CompletedInv, ChargedInv
  <2>9. NoPlan' /\ CompletedIsEvaluated'
    BY <2>4, <2>5, <2>6 DEF CompletedInv, NoPlan, CompletedIsEvaluated
  <2>. QED  BY <2>7, <2>8, <2>9 DEF CompletedInv
<1>6. CASE Complete(w)
  <2>. DEFINE new == Flush(worker[w].seen, CompletedRow(worker[w].seen), row[worker[w].rec])
  <2>1. done[worker[w].rec] # NoRun
    BY <1>6 DEF Complete, CompletedInv, ChargedInv
  <2>2. UNCHANGED <<done, sweepPlan>> /\ Finish(w) /\ SetRow(worker[w].rec, new) /\ worker[w] # Idle
    BY <1>6, IdleWorker DEF Complete, dataVars
  <2>. HIDE DEF new
  <2>. QED  BY <2>1, <2>2, EndedRow
<1>. QED  BY <1>1, <1>2, <1>4, <1>5, <1>6 DEF WorkerStep

LEMMA CompletedStep ==
    ASSUME TypeOK, LockHeld, CompletedInv, ~Sweeping, [Next]_vars
    PROVE  CompletedInv'
<1>1. ASSUME NEW w \in Workers, Unhandled(w) \/ Crash(w)
      PROVE  CompletedInv'
  <2>1. UNCHANGED <<row, done, sweepPlan>> /\ Ends(w)
    BY <1>1, IdleWorker DEF Unhandled, Crash, dataVars, Ends
  <2>2. \A v \in Workers : worker'[v].at = "charged" => worker'[v] = worker[v]
    BY <2>1 DEF Ends, Finish, Idle, TypeOK
  <2>. QED  BY <2>1, <2>2, SameRows
<1>2. ASSUME NEW R \in SUBSET Recordings, Reevaluate(R)
      PROVE  CompletedInv'
  <2>1. \A r \in Recordings : row'[r] = IF r \in R THEN ReprocessedRow(row[r], "eval") ELSE row[r]
    BY <1>2 DEF Reevaluate
  <2>2. \A r \in R : row'[r].status # "completed"
    BY <2>1, NothingCompletes DEF TypeOK, Stages
  <2>3. \A r \in R : row[r].status # "evaluating"
    BY <1>2 DEF Reevaluate, NonTerminal
  <2>4. Request(R)
    BY <1>2 DEF Reevaluate
  <2>. QED  BY <2>1, <2>2, <2>3, <2>4, RequestedRows
<1>3. ASSUME RetryFailed
      PROVE  CompletedInv'
  <2>. DEFINE R == {r \in Recordings : row[r].status = "failed"}
  <2>1. \A r \in Recordings : row'[r] = IF r \in R THEN RetryFailedRow(row[r], TRUE) ELSE row[r]
    BY <1>3 DEF RetryFailed
  <2>2. \A r \in R : row'[r].status # "completed"
    BY <2>1, NothingCompletes DEF TypeOK, Stages
  <2>3. R \in SUBSET Recordings /\ Request(R) /\ \A r \in R : row[r].status # "evaluating"
    BY <1>3 DEF RetryFailed
  <2>. QED  BY <2>1, <2>2, <2>3, RequestedRows
<1>4. ASSUME Purge \/ UNCHANGED vars
      PROVE  CompletedInv'
  BY <1>4, SameRows DEF Purge, vars, Keeps
<1>5. ~(\E R \in SUBSET Recordings : \E decision \in [R -> Decisions] : SweepLoad(R, decision))
  BY DEF SweepLoad
<1>6. ~SweepCommit
  BY DEF SweepCommit, Planned, CompletedInv, NoPlan
<1>. QED  BY <1>1, <1>2, <1>3, <1>4, <1>5, <1>6, CompletedWorkerStep DEF Next

LEMMA CompletedInit == Init => CompletedInv
BY DEF Init, CompletedInv, BusyInv, ChargedInv, NoPlan, CompletedIsEvaluated, Idle

\* Where beat does not run the sweep: however the two commits at the end of an
\* evaluation meet crashes, redeliveries, operators and retention, a recording
\* that says completed has the completed evaluation of its last request.
THEOREM CompletedHasEvaluation ==
    ASSUME ~Sweeping
    PROVE  Spec => []CompletedIsEvaluated
<1>1. LockInv /\ CompletedInv /\ [Next]_vars => LockInv' /\ CompletedInv'
  <2>. SUFFICES ASSUME LockInv, CompletedInv, [Next]_vars
               PROVE  LockInv' /\ CompletedInv'
    OBVIOUS
  <2>1. LockInv'
    BY LockStep
  <2>. QED  BY <2>1, CompletedStep DEF LockInv
<1>2. CompletedInv => CompletedIsEvaluated
  BY DEF CompletedInv
<1>. QED  BY LockInit, CompletedInit, <1>1, <1>2, PTL DEF Spec
=============================================================================
