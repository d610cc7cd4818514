----------------------------- MODULE EvalStage -----------------------------
(***************************************************************************)
(* The evaluation stage: the `evaluate` task, which runs under one session *)
(* level advisory lock per recording, writes an Evaluation row before it   *)
(* asks the LLM and the results after it, and what surrounds it: duplicate *)
(* deliveries, retries, crashes, the sweep, retention and operators.       *)
(*                                                                         *)
(* An evaluation is kept here only while something can still refer to it:  *)
(* running[r] are the runs whose row says "running", done[r] is the run    *)
(* that completed since an operator last asked for an evaluation.  The     *)
(* run_seq of a run is max + 1, read and inserted under the lock, so two   *)
(* runs collide exactly when two workers are both at "admitted".           *)
(*                                                                         *)
(* LLM tokens are counted in units of one evaluation; the calls of other   *)
(* features, which the budget check also sees, are left out.               *)
(***************************************************************************)
EXTENDS RecordingRow, FiniteSets

CONSTANTS Recordings,
          Workers,        \* processes that consume the llm queue
          NoWorker,
          Runs,           \* names for the evaluations that are still referred to
          NoRun,
          Leave,          \* the sweep leaves a row alone
          RetryLimit,     \* max_retries of the evaluate task
          Budget,         \* budget.llm_daily_tokens
          Expired,        \* recordings past the retention window
          Sweeping,       \* whether beat runs sweep_stuck
          InitialRetries, \* auto_retry_remaining of the rows at the start
          MaxFaults,      \* bound: crashes and exceptions nobody handles
          MaxOperations   \* bound: operator requests

ASSUME EvalAssumption ==
    /\ NoWorker \notin Workers
    /\ NoRun \notin Runs
    /\ IsFiniteSet(Workers)
    /\ RetryLimit \in Nat
    /\ Budget \in Nat
    /\ Expired \subseteq Recordings
    /\ Sweeping \in BOOLEAN
    /\ InitialRetries \in Nat
    /\ MaxFaults \in Nat
    /\ MaxOperations \in Nat

VARIABLES
    row,         \* the recordings table
    transcript,  \* whether a recording has a transcript
    running,     \* the runs whose evaluation row is "running"
    done,        \* the run that completed since the last request
    spent,       \* llm_usage of today
    tasks,       \* evaluate messages in the queue: recording, request.retries
    evalLock,    \* the per-recording session lock: its holder
    worker,      \* what each worker process is doing
    sweepPlan,   \* what a running sweep_stuck will write, per recording
    begun,       \* history: a run was started since the last request
    faults, operations

vars == <<row, transcript, running, done, spent, tasks, evalLock, worker,
          sweepPlan, begun, faults, operations>>

dataVars  == <<transcript, done, spent, begun>>
boundVars == <<faults, operations>>

\* "loaded": the lock is held and the row says evaluating; "admitted": the
\* budget is checked and run_seq read; "calling": the run is committed, the LLM
\* works; "retrying", "failing": the run is marked failed; "persisting": the
\* row is read again; "charged": the evaluation and its tokens are committed,
\* the recording is not.
Early == {"loaded", "admitted"}
Late  == {"calling", "retrying", "failing"}
Final == {"persisting", "charged"}

Idle       == [at |-> "idle"]
Evaluating == [at : Early, rec : Recordings, retry : 0 .. RetryLimit]
Calling    == [at : Late, rec : Recordings, retry : 0 .. RetryLimit, run : Runs]
Persisting == [at : Final, rec : Recordings, retry : 0 .. RetryLimit, run : Runs, seen : Row]

Decisions == {"requeue", "timeout", "resume"}
Plan == [decision : Decisions, seen : Row, runs : SUBSET Runs]

-----------------------------------------------------------------------------
\* Helpers

Messages == Recordings \X (0 .. RetryLimit)

Holding(w)   == worker[w].at \in Late \cup Final
HeldRun(w)   == worker[w].run
HeldRuns(r)  == {HeldRun(w) : w \in {v \in Workers : Holding(v) /\ worker[v].rec = r}}
PlannedRuns(r) == IF sweepPlan[r] = Leave THEN {} ELSE sweepPlan[r].runs

\* A name for a new run: one that nothing refers to.
Unused(r) == Runs \ (running[r] \cup {done[r]} \cup HeldRuns(r) \cup PlannedRuns(r))

SetRow(r, new) == row' = [row EXCEPT ![r] = new]
Finish(w)      == /\ worker' = [worker EXCEPT ![w] = Idle]
                  /\ evalLock' = [evalLock EXCEPT ![worker[w].rec] = NoWorker]

Init ==
    /\ row = [r \in Recordings |->
                [status |-> "evaluating", failedStage |-> "none", attempts |-> 0,
                 autoRetry |-> InitialRetries, op |-> TRUE, started |-> NoTime]]
    /\ transcript = [r \in Recordings |-> TRUE]
    /\ running = [r \in Recordings |-> {}]
    /\ done = [r \in Recordings |-> NoRun]
    /\ spent = 0
    /\ tasks = {<<r, 0>> : r \in Recordings}      \* transcribe sent it
    /\ evalLock = [r \in Recordings |-> NoWorker]
    /\ worker = [w \in Workers |-> Idle]
    /\ sweepPlan = [r \in Recordings |-> Leave]
    /\ begun = [r \in Recordings |-> FALSE]
    /\ faults = 0
    /\ operations = 0

-----------------------------------------------------------------------------
\* evaluate

\* (Faulty variant: the result of the try-lock is ignored.)
LockIgnored(r)   == TRUE
LockAvailable(r) == evalLock[r] = NoWorker

\* A held lock, or a row that is not evaluating, ends the task.
Deliver(w, r, n) ==
    /\ worker[w] = Idle
    /\ <<r, n>> \in tasks
    /\ tasks' = tasks \ {<<r, n>>}
    /\ IF LockAvailable(r) /\ row[r].status = "evaluating"
       THEN /\ evalLock' = [evalLock EXCEPT ![r] = w]
            /\ worker' = [worker EXCEPT ![w] = [at |-> "loaded", rec |-> r, retry |-> n]]
       ELSE UNCHANGED <<evalLock, worker>>
    /\ UNCHANGED <<row, running, dataVars, sweepPlan, boundVars>>

\* _fail(recording, stage): an automatic retry of an evaluation sends it again.
Fail(w, stage, retryable) ==
    LET r == worker[w].rec IN
    /\ SetRow(r, FailRow(row[r], stage, retryable, TRUE))
    /\ tasks' = IF CanAutoRetry(row[r], stage, retryable) THEN tasks \cup {<<r, 0>>} ELSE tasks
    /\ Finish(w)
    /\ UNCHANGED <<running, dataVars, sweepPlan, boundVars>>

NoTranscript(w) ==
    /\ worker[w].at = "loaded"
    /\ ~transcript[worker[w].rec]
    /\ Fail(w, "eval", TRUE)

\* (Faulty variant: off by one.)
WithinBudgetInclusive == spent <= Budget
WithinBudget == spent < Budget

OverBudget(w) ==
    /\ worker[w].at = "loaded"
    /\ transcript[worker[w].rec]
    /\ ~WithinBudget
    /\ Fail(w, "budget", FALSE)

Admit(w) ==
    /\ worker[w].at = "loaded"
    /\ transcript[worker[w].rec]
    /\ WithinBudget
    /\ worker' = [worker EXCEPT ![w].at = "admitted"]
    /\ UNCHANGED <<row, running, dataVars, tasks, evalLock, sweepPlan, boundVars>>

\* The evaluation is inserted as "running" and committed.
StartRun(w) ==
    LET r == worker[w].rec IN
    /\ worker[w].at = "admitted"
    /\ Unused(r) # {}
    /\ LET run == CHOOSE n \in Unused(r) : TRUE IN
        /\ running' = [running EXCEPT ![r] = @ \cup {run}]
        /\ worker' = [worker EXCEPT ![w] =
                        [at |-> "calling", rec |-> r, retry |-> @.retry, run |-> run]]
    /\ begun' = [begun EXCEPT ![r] = TRUE]
    /\ UNCHANGED <<row, transcript, done, spent, tasks, evalLock, sweepPlan, boundVars>>

\* _mark_evaluation_attempt_failed: only a run that still says running.
\* (Faulty variant: the attempt is not marked.)
NotMarked(r, run)  == running
MarkFailed(r, run) == [running EXCEPT ![r] = @ \ {run}]

\* The LLM fails: a transient error is retried up to the limit.
LlmFails(w, transient) ==
    /\ worker[w].at = "calling"
    /\ running' = MarkFailed(worker[w].rec, HeldRun(w))
    /\ worker' = [worker EXCEPT ![w].at =
                    IF transient /\ worker[w].retry < RetryLimit THEN "retrying" ELSE "failing"]
    /\ UNCHANGED <<row, dataVars, tasks, evalLock, sweepPlan, boundVars>>

RetryLater(w) ==
    /\ worker[w].at = "retrying"
    /\ tasks' = tasks \cup {<<worker[w].rec, worker[w].retry + 1>>}
    /\ Finish(w)
    /\ UNCHANGED <<row, running, dataVars, sweepPlan, boundVars>>

FailStage(w) ==
    /\ worker[w].at = "failing"
    /\ \E retryable \in BOOLEAN : Fail(w, "eval", retryable)

\* The LLM answers; a new session reads the recording, whatever its status.
Answer(w) ==
    /\ worker[w].at = "calling"
    /\ worker' = [worker EXCEPT ![w] =
                    [at |-> "persisting", rec |-> @.rec, retry |-> @.retry, run |-> @.run,
                     seen |-> row[worker[w].rec]]]
    /\ UNCHANGED <<row, running, dataVars, tasks, evalLock, sweepPlan, boundVars>>

\* record_llm_usage_sync commits the session it is given: the results and the
\* "completed" evaluation become visible with the tokens.
RecordUsage(w) ==
    LET r == worker[w].rec IN
    /\ worker[w].at = "persisting"
    /\ running' = [running EXCEPT ![r] = @ \ {HeldRun(w)}]
    /\ done' = [done EXCEPT ![r] = HeldRun(w)]
    /\ spent' = spent + 1
    /\ worker' = [worker EXCEPT ![w].at = "charged"]
    /\ UNCHANGED <<row, transcript, begun, tasks, evalLock, sweepPlan, boundVars>>

\* The second commit writes the fields that differ from what was read.
CompletedRow(seen) ==
    [seen EXCEPT !.status = "completed", !.failedStage = "none",
                 !.started = NoTime, !.autoRetry = 0]

Complete(w) ==
    LET r == worker[w].rec IN
    /\ worker[w].at = "charged"
    /\ SetRow(r, Flush(worker[w].seen, CompletedRow(worker[w].seen), row[r]))
    /\ Finish(w)
    /\ UNCHANGED <<running, dataVars, tasks, sweepPlan, boundVars>>

\* An exception outside the try block (the knowledge-base lookup, the storing
\* of the results): the task is over, its evaluation still says running.
Unhandled(w) ==
    /\ worker[w].at \in {"admitted", "calling", "persisting", "charged"}
    /\ faults < MaxFaults
    /\ faults' = faults + 1
    /\ Finish(w)
    /\ UNCHANGED <<row, running, dataVars, tasks, sweepPlan, operations>>

\* The process dies: the lock goes with its connection, the message comes back.
Crash(w) ==
    /\ worker[w] # Idle
    /\ faults < MaxFaults
    /\ faults' = faults + 1
    /\ tasks' = tasks \cup {<<worker[w].rec, worker[w].retry>>}
    /\ Finish(w)
    /\ UNCHANGED <<row, running, dataVars, sweepPlan, operations>>

-----------------------------------------------------------------------------
\* sweep_stuck

MayDecide(r, decision) ==
    LET started == StageHasStarted(row[r], running[r] # {}) IN
    /\ row[r].status = "evaluating"
    /\ CASE decision = "requeue" -> ~started
         [] decision = "timeout" -> started
         [] decision = "resume"  -> started /\ row[r].attempts < ResumeMaxAttempts

SweepLoad(R, decision) ==
    /\ Sweeping
    /\ \A r \in Recordings : sweepPlan[r] = Leave
    /\ R # {}
    /\ \A r \in R : MayDecide(r, decision[r])
    /\ sweepPlan' = [r \in Recordings |->
                        IF r \in R
                        THEN [decision |-> decision[r], seen |-> row[r], runs |-> running[r]]
                        ELSE Leave]
    /\ UNCHANGED <<row, running, dataVars, tasks, evalLock, worker, boundVars>>

DecidedRow(plan) ==
    CASE plan.decision = "requeue" -> SweepQueuedRow(plan.seen)
      [] plan.decision = "timeout" -> SweepTimedOutRow(plan.seen)
      [] plan.decision = "resume"  -> SweepResumedRow(plan.seen)

Planned == {r \in Recordings : sweepPlan[r] # Leave}

\* The runs the sweep writes off: those it saw running in a timed-out stage.
WrittenOff(r) ==
    IF sweepPlan[r] # Leave /\ sweepPlan[r].decision = "timeout" THEN sweepPlan[r].runs ELSE {}

\* (Faulty variant: what waited in the queue is touched but not sent again.)
RedispatchedStarted == {r \in Planned : \/ sweepPlan[r].decision = "resume"
                                        \/ sweepPlan[r].seen.autoRetry > 0}
Redispatched == {r \in Planned : \/ sweepPlan[r].decision # "timeout"
                                 \/ sweepPlan[r].seen.autoRetry > 0}

SweepCommit ==
    /\ Planned # {}
    /\ row' = [r \in Recordings |->
                 IF r \in Planned
                 THEN Flush(sweepPlan[r].seen, DecidedRow(sweepPlan[r]), row[r])
                 ELSE row[r]]
    /\ running' = [r \in Recordings |-> running[r] \ WrittenOff(r)]
    /\ done' = [r \in Recordings |-> IF done[r] \in WrittenOff(r) THEN NoRun ELSE done[r]]
    /\ tasks' = tasks \cup {<<r, 0>> : r \in Redispatched}
    /\ sweepPlan' = [r \in Recordings |-> Leave]
    /\ UNCHANGED <<transcript, spent, begun, evalLock, worker, boundVars>>

-----------------------------------------------------------------------------
\* Operators and retention

\* A request for a new evaluation of the recordings in R.
Request(R) ==
    /\ operations < MaxOperations
    /\ R # {}
    /\ operations' = operations + 1
    /\ done' = [r \in Recordings |-> IF r \in R THEN NoRun ELSE done[r]]
    /\ begun' = [r \in Recordings |-> begun[r] /\ r \notin R]
    /\ tasks' = tasks \cup {<<r, 0>> : r \in R}
    /\ UNCHANGED <<transcript, running, spent, evalLock, worker, sweepPlan, faults>>

\* (Faulty variant: busy recordings too.)
ReevaluateAny(R) ==
    /\ \A r \in R : transcript[r]
    /\ row' = [r \in Recordings |-> IF r \in R THEN ReprocessedRow(row[r], "eval") ELSE row[r]]
    /\ Request(R)

\* recordings.reevaluate and reprocess(from_stage = eval): recordings at rest
\* that have a transcript.
Reevaluate(R) ==
    /\ \A r \in R : row[r].status \notin NonTerminal /\ transcript[r]
    /\ row' = [r \in Recordings |-> IF r \in R THEN ReprocessedRow(row[r], "eval") ELSE row[r]]
    /\ Request(R)

\* batches.retry_failed looks at no transcript.
RetryFailed ==
    LET failed == {r \in Recordings : row[r].status = "failed"} IN
    /\ row' = [r \in Recordings |-> IF r \in failed THEN RetryFailedRow(row[r], TRUE) ELSE row[r]]
    /\ Request(failed)

\* maintenance.apply_retention looks at no status.
Purge ==
    /\ \E r \in Expired : transcript[r]
    /\ transcript' = [r \in Recordings |-> transcript[r] /\ r \notin Expired]
    /\ UNCHANGED <<row, running, done, spent, begun, tasks, evalLock, worker, sweepPlan, boundVars>>

-----------------------------------------------------------------------------
WorkerStep(w) ==
    \/ \E r \in Recordings, n \in 0 .. RetryLimit : Deliver(w, r, n)
    \/ NoTranscript(w)
    \/ OverBudget(w)
    \/ Admit(w)
    \/ StartRun(w)
    \/ \E transient \in BOOLEAN : LlmFails(w, transient)
    \/ RetryLater(w)
    \/ FailStage(w)
    \/ Answer(w)
    \/ RecordUsage(w)
    \/ Complete(w)

Next ==
    \/ \E w \in Workers : WorkerStep(w)
    \/ \E w \in Workers : Unhandled(w)
    \/ \E w \in Workers : Crash(w)
    \/ \E R \in SUBSET Recordings : \E decision \in [R -> Decisions] : SweepLoad(R, decision)
    \/ SweepCommit
    \/ \E R \in SUBSET Recordings : Reevaluate(R)
    \/ RetryFailed
    \/ Purge

Spec == Init /\ [][Next]_vars

\* Workers keep running; an LLM that is asked again and again answers in the end
\* (without that, a sweep that requeues a backlogged retry restarts its count of
\* retries for ever); the sweep runs every five minutes, sends a stage that
\* stays unstarted again and fails one that stays started past its limit.
SweepDecides(r, verdict) ==
    \E R \in SUBSET Recordings : \E decision \in [R -> Decisions] :
        r \in R /\ decision[r] = verdict /\ SweepLoad(R, decision)

Fairness ==
    /\ \A w \in Workers : WF_vars(WorkerStep(w)) /\ SF_vars(Answer(w))
    /\ \A r \in Recordings : SF_vars(SweepDecides(r, "requeue"))
    /\ \A r \in Recordings : SF_vars(SweepDecides(r, "timeout"))
    /\ WF_vars(SweepCommit)

FairSpec == Spec /\ Fairness

-----------------------------------------------------------------------------
\* Properties

\* Every variable keeps its type.
TypeOK ==
    /\ row \in [Recordings -> Row]
    /\ transcript \in [Recordings -> BOOLEAN]
    /\ running \in [Recordings -> SUBSET Runs]
    /\ done \in [Recordings -> Runs \cup {NoRun}]
    /\ spent \in Nat
    /\ tasks \in SUBSET Messages
    /\ evalLock \in [Recordings -> Workers \cup {NoWorker}]
    /\ worker \in [Workers -> {Idle} \cup Evaluating \cup Calling \cup Persisting]
    /\ sweepPlan \in [Recordings -> Plan \cup {Leave}]
    /\ begun \in [Recordings -> BOOLEAN]
    /\ faults \in 0 .. MaxFaults
    /\ operations \in 0 .. MaxOperations

\* The lock lets one worker at a time evaluate a recording; hence no two runs
\* of it get the same run_seq, which the table's UNIQUE constraint would turn
\* into an exception and a recording left to the sweep.
OneEvaluationInside ==
    \A v, w \in Workers :
        (v # w /\ worker[v] # Idle /\ worker[w] # Idle) => worker[v].rec # worker[w].rec

\* The budget is read before the LLM is asked and charged after it: each worker
\* can pass it once with a single call in flight, and that is all.
SpendBounded == spent <= IF Budget = 0 THEN 0 ELSE Budget - 1 + Cardinality(Workers)

\* An evaluation that says running while no worker is on it is what a crash or
\* an exception nobody handled left behind; every handled error, in whatever
\* order it meets retries and the sweep, marks its run.
Orphans(r) == running[r] \ HeldRuns(r)
OrphansComeFromFaults == \A r \in Recordings : Cardinality(Orphans(r)) <= faults

\* A recording that says completed has the completed evaluation of its last
\* request, although the two are written by two commits.  (This needs the sweep
\* off: SweepKeepsCompleted is about what a sweep does to what it read before.)
CompletedIsEvaluated ==
    \A r \in Recordings : row[r].status = "completed" => done[r] # NoRun

\* No recording stays in evaluation for ever, whatever is lost on the way.
EveryRecordingLeavesEval ==
    \A r \in Recordings : (row[r].status = "evaluating") ~> (row[r].status # "evaluating")

-----------------------------------------------------------------------------
\* Stated of the program and not true of it

\* DESIGN: a task does nothing if its output exists; for evaluate, a request
\* that has its completed evaluation gets no second one.  (A worker that dies at
\* "charged" is redelivered to a recording that still says evaluating.)
NotEvaluatedTwice ==
    [][\A r \in Recordings : (done[r] # NoRun /\ done'[r] # NoRun) => done'[r] = done[r]]_vars

\* DESIGN's status machine: only an evaluating recording becomes completed.
\* (An answer that comes after the sweep has failed the recording completes it.)
CompletedFromEvaluating ==
    [][\A r \in Recordings :
        (row'[r].status = "completed" /\ row[r].status # "completed")
            => row[r].status = "evaluating"]_vars

\* sweep_stuck's docstring: it fails only a stage that ran too long, so one of
\* which a run has been started since it was asked for.  (A run orphaned before
\* the request stands in for one.)
SweepTimesOutOnlyBegun ==
    [][\A r \in Recordings :
        (sweepPlan[r] = Leave /\ sweepPlan'[r] # Leave)
            => (sweepPlan'[r].decision = "timeout" => begun[r])]_vars

\* The same docstring: a recording that is finished is not failed by the sweep.
\* (It is if it finishes between the sweep's load and its commit.)
SweepKeepsCompleted ==
    [][\A r \in Recordings :
        (sweepPlan[r] # Leave /\ sweepPlan'[r] = Leave /\ row[r].status = "completed")
            => row'[r].status = "completed"]_vars
=============================================================================
