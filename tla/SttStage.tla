----------------------------- MODULE SttStage -----------------------------
(***************************************************************************)
(* The speech-to-text stage of one processing batch: the dispatcher that   *)
(* reserves remote slots for waiting recordings, the `transcribe` task that *)
(* claims a slot, submits the audio once, polls the provider and stores the *)
(* transcript, and everything that can move a row under its feet: duplicate *)
(* deliveries, worker crashes, the sweep, and operators.                    *)
(*                                                                         *)
(* A step is what one database transaction, or one call to the provider,   *)
(* makes visible.  Three kinds of locks matter and all are released by the  *)
(* commit of the transaction that took them: the dispatch lock and the row  *)
(* locks of the dispatcher's SELECT ... FOR UPDATE (reserving, reservedRows),*)
(* the lock of _claim_stt_slot (a worker at "claiming"), and one advisory   *)
(* lock per recording (sttLock).                                            *)
(*                                                                         *)
(* Time is abstracted: whether a timestamp is older than a limit is a free  *)
(* choice wherever the code asks, since any step may take arbitrarily long. *)
(***************************************************************************)
EXTENDS RecordingRow, FiniteSets

CONSTANTS Recordings,
          Workers,        \* processes that consume the stt queue
          NoWorker,
          Leave,          \* the sweep leaves a row alone
          SttMaxInFlight, \* max(1, settings.STT_MAX_IN_FLIGHT)
          MonoMixed,      \* the recordings whose transcript an LLM repairs
          Sweeping,       \* whether beat runs sweep_stuck
          InitialRetries, \* auto_retry_remaining of the rows at the start
          MaxCopies,      \* bound: deliveries of one task waiting in the queue
          MaxFaults,      \* bound: crashes and messages lost
          MaxOperations   \* bound: operator requests

ASSUME SttAssumption ==
    /\ NoWorker \notin Workers
    /\ IsFiniteSet(Recordings)
    /\ MonoMixed \subseteq Recordings
    /\ SttMaxInFlight \in Nat \ {0}
    /\ Sweeping \in BOOLEAN
    /\ InitialRetries \in Nat
    /\ MaxCopies \in Nat \ {0}
    /\ MaxFaults \in Nat
    /\ MaxOperations \in Nat

VARIABLES
    row,          \* the recordings table
    tasks,        \* transcribe deliveries waiting for a worker, per recording
    reserving,    \* a dispatcher is between its SELECT and its commit
    reservedRows, \* the rows that dispatcher holds FOR UPDATE
    unpublished,  \* committed reservations whose task is not sent yet
    sttLock,      \* the per-recording advisory lock: its holder
    worker,       \* what each worker process is doing
    sweepPlan,    \* what a running sweep_stuck will write, per recording
    submitted,    \* history: submissions since the operation was last forgotten
    faults, operations

vars == <<row, tasks, reserving, reservedRows, unpublished, sttLock, worker,
          sweepPlan, submitted, faults, operations>>

dispatcherVars == <<reserving, reservedRows, unpublished>>
historyVars    == <<faults, operations>>

\* Where a worker is in transcribe.  "loaded": the row is read; "claiming": it
\* holds the slot lock and has counted; "slotted": the slot is its own;
\* "locked": it holds the recording's lock; "submitted": the provider has the
\* audio, the operation name is not stored; "relocking": it is; "polling";
\* "answered": segments in hand; "repaired": speakers repaired, the lock is
\* gone; "failing": _fail has committed, the lock is still held.
Steps == {"idle", "loaded", "claiming", "slotted", "locked", "submitted",
          "relocking", "polling", "answered", "repaired", "failing"}
Locked == {"locked", "submitted", "polling", "answered"}

\* slot: the stt_started_at this session read is not NULL (kept only while it
\* is still looked at).
Idle == [at |-> "idle"]
Busy == [at : Steps \ {"idle"}, rec : Recordings, slot : BOOLEAN]

\* What the sweep decides about a row it loaded and does not leave alone.
Decisions == {"requeue", "timeout", "resume"}
Plan == [decision : Decisions, seen : Row]

-----------------------------------------------------------------------------
\* Helpers

HasSlot(r)  == row[r].status = "transcribing" /\ row[r].started # NoTime
InFlight    == {r \in Recordings : HasSlot(r)}

\* What the dispatcher counts: a slot, or an operation name that outlived it.
Occupied    == {r \in Recordings : /\ row[r].status = "transcribing"
                                   /\ row[r].started # NoTime \/ row[r].op}
Available   == IF Cardinality(Occupied) < SttMaxInFlight
               THEN SttMaxInFlight - Cardinality(Occupied) ELSE 0

\* The rows the dispatcher may take.
Waiting     == {r \in Recordings : /\ row[r].status = "transcribing"
                                   /\ row[r].started = NoTime
                                   /\ ~row[r].op}

\* A stamp no other reservation of r carries.
Fresh(r) == {s \in Stamps : <<r, s>> \notin unpublished}

\* Another transaction's FOR UPDATE makes a writer of the row wait.
Writable(r) == r \notin reservedRows

Queued(n)   == IF n < MaxCopies THEN n + 1 ELSE n
Send(r)     == tasks' = [tasks EXCEPT ![r] = Queued(@)]
SendAll(R)  == tasks' = [r \in Recordings |-> IF r \in R THEN Queued(tasks[r]) ELSE tasks[r]]

At(step, r, slot) == [at |-> step, rec |-> r, slot |-> slot]
Goto(w, step, slot) == worker' = [worker EXCEPT ![w] = At(step, @.rec, slot)]
Finish(w)      == worker' = [worker EXCEPT ![w] = Idle]
Unlock(r)      == sttLock' = [sttLock EXCEPT ![r] = NoWorker]
Release(w)     == IF sttLock[worker[w].rec] = w THEN Unlock(worker[w].rec)
                  ELSE UNCHANGED sttLock
SetRow(r, new) == row' = [row EXCEPT ![r] = new]

\* Forgetting an operation opens the door to the next submission.
Forgotten == submitted' = [r \in Recordings |->
                             IF row[r].op /\ ~row'[r].op THEN 0 ELSE submitted[r]]

-----------------------------------------------------------------------------
Init ==
    /\ row = [r \in Recordings |->
                [status |-> "transcribing", failedStage |-> "none", attempts |-> 0,
                 autoRetry |-> InitialRetries, op |-> FALSE, started |-> NoTime]]
    /\ tasks = [r \in Recordings |-> 1]     \* normalize's chain sent it
    /\ reserving = FALSE
    /\ reservedRows = {}
    /\ unpublished = {}
    /\ sttLock = [r \in Recordings |-> NoWorker]
    /\ worker = [w \in Workers |-> Idle]
    /\ sweepPlan = [r \in Recordings |-> Leave]
    /\ submitted = [r \in Recordings |-> 0]
    /\ faults = 0
    /\ operations = 0

-----------------------------------------------------------------------------
\* dispatch_stt_waiting

\* Under the dispatch lock: count, then lock as many waiting rows as are free.
\* (The order by updated_at is abstracted to any choice of that many rows.)
DispatchSelect ==
    /\ ~reserving
    /\ \E R \in SUBSET Waiting :
        /\ R # {}
        /\ Cardinality(R) <= Available
        /\ Cardinality(R) = Available \/ R = Waiting
        /\ reservedRows' = R
    /\ reserving' = TRUE
    /\ UNCHANGED <<row, tasks, unpublished, sttLock, worker, sweepPlan, submitted, historyVars>>

DispatchCommit ==
    /\ reserving
    /\ \E stamp \in [reservedRows -> Stamps] :
        /\ \A r \in reservedRows : stamp[r] \in Fresh(r)
        /\ row' = [r \in Recordings |->
                     IF r \in reservedRows THEN [row[r] EXCEPT !.started = stamp[r]]
                     ELSE row[r]]
        /\ unpublished' = unpublished \cup {<<r, stamp[r]>> : r \in reservedRows}
    /\ reserving' = FALSE
    /\ reservedRows' = {}
    /\ UNCHANGED <<tasks, sttLock, worker, sweepPlan, submitted, historyVars>>

Publish(r, s) ==
    /\ <<r, s>> \in unpublished
    /\ unpublished' = unpublished \ {<<r, s>>}
    /\ Send(r)
    /\ UNCHANGED <<row, reserving, reservedRows, sttLock, worker, sweepPlan, submitted, historyVars>>

\* The broker refuses: the reservation is undone if it is still the same one.
PublishFails(r, s) ==
    /\ <<r, s>> \in unpublished
    /\ faults < MaxFaults
    /\ Writable(r)
    /\ unpublished' = unpublished \ {<<r, s>>}
    /\ IF row[r].status = "transcribing" /\ ~row[r].op /\ row[r].started = s
       THEN SetRow(r, [row[r] EXCEPT !.started = NoTime])
       ELSE UNCHANGED row
    /\ faults' = faults + 1
    /\ UNCHANGED <<tasks, reserving, reservedRows, sttLock, worker, sweepPlan, submitted, operations>>

\* The dispatcher dies after its commit: whatever it had not sent is lost.
DispatcherCrash ==
    /\ unpublished # {}
    /\ faults < MaxFaults
    /\ unpublished' = {}
    /\ faults' = faults + 1
    /\ UNCHANGED <<row, tasks, reserving, reservedRows, sttLock, worker, sweepPlan, submitted, operations>>

-----------------------------------------------------------------------------
\* transcribe

\* The delivery is taken and the row is read; a row past the stage ends it.
\* Late acks: until the task ends the message is the worker's, see Crash.
Deliver(w, r) ==
    /\ worker[w] = Idle
    /\ tasks[r] > 0
    /\ tasks' = [tasks EXCEPT ![r] = @ - 1]
    /\ worker' = [worker EXCEPT ![w] =
                    IF row[r].status = "transcribing"
                    THEN At("loaded", r, row[r].started # NoTime) ELSE Idle]
    /\ UNCHANGED <<row, dispatcherVars, sttLock, sweepPlan, submitted, historyVars>>

\* _fail and the exception after it.  The task's own session, and with it the
\* recording's lock, outlives the commit of _fail.
FailAndRaise(w, retryable) ==
    LET r == worker[w].rec IN
    /\ Writable(r)
    /\ SetRow(r, FailRow(row[r], "stt", retryable, TRUE))
    /\ Forgotten
    /\ Goto(w, "failing", FALSE)
    /\ UNCHANGED <<tasks, dispatcherVars, sttLock, sweepPlan, historyVars>>

\* _stt_timed_out(rec): rec.stt_started_at is set and old.
TimedOut(w) ==
    /\ worker[w].at \in {"loaded", "locked", "polling"}
    /\ worker[w].slot
    /\ FailAndRaise(w, TRUE)

Raised(w) ==
    /\ worker[w].at = "failing"
    /\ Release(w)
    /\ Finish(w)
    /\ UNCHANGED <<row, tasks, dispatcherVars, sweepPlan, submitted, historyVars>>

\* _claim_stt_slot: a reserved recording goes straight through.
AlreadyClaimed(w) ==
    /\ worker[w].at = "loaded"
    /\ worker[w].slot
    /\ Goto(w, "slotted", FALSE)
    /\ UNCHANGED <<row, tasks, dispatcherVars, sttLock, sweepPlan, submitted, historyVars>>

SlotLockFree == \A v \in Workers : worker[v].at # "claiming"

\* Under the slot lock the rows in flight are counted: with no slot free the
\* task ends and leaves the row to the dispatcher.
ClaimCount(w) ==
    /\ worker[w].at = "loaded"
    /\ ~worker[w].slot
    /\ SlotLockFree
    /\ IF Cardinality(InFlight) >= SttMaxInFlight THEN Finish(w) ELSE Goto(w, "claiming", FALSE)
    /\ UNCHANGED <<row, tasks, dispatcherVars, sttLock, sweepPlan, submitted, historyVars>>

ClaimCommit(w) ==
    LET r == worker[w].rec IN
    /\ worker[w].at = "claiming"
    /\ Writable(r)
    /\ \E s \in Fresh(r) : SetRow(r, [row[r] EXCEPT !.started = s])
    /\ Goto(w, "slotted", FALSE)
    /\ UNCHANGED <<tasks, dispatcherVars, sttLock, sweepPlan, submitted, historyVars>>

\* (Faulty variant: the result of the try-lock is ignored.)
LockIgnored(r)   == TRUE
LockAvailable(r) == sttLock[r] = NoWorker

\* pg_try_advisory_xact_lock, then session.refresh: a held lock or a row that
\* has left the stage ends the task.
TakeLock(w, from, next) ==
    LET r == worker[w].rec IN
    /\ worker[w].at = from
    /\ IF LockAvailable(r) /\ row[r].status = "transcribing"
       THEN /\ sttLock' = [sttLock EXCEPT ![r] = w]
            /\ Goto(w, next, row[r].started # NoTime)
       ELSE Finish(w) /\ UNCHANGED sttLock
    /\ UNCHANGED <<row, tasks, dispatcherVars, sweepPlan, submitted, historyVars>>

\* An operation name in the refreshed row is polled, never submitted again.
\* (Faulty variant: a redelivered task submits whatever it finds.)
SubmitAlways(fresh) == "locked"
SubmitOrPoll(fresh) == IF fresh.op THEN "polling" ELSE "locked"

LockRecording(w)   == TakeLock(w, "slotted", SubmitOrPoll(row[worker[w].rec]))
RelockRecording(w) == TakeLock(w, "relocking", "polling")

\* adapter.start_batch succeeds: the provider has taken the job.
Submit(w) ==
    /\ worker[w].at = "locked"
    /\ submitted' = [submitted EXCEPT ![worker[w].rec] = @ + 1]
    /\ Goto(w, "submitted", FALSE)
    /\ UNCHANGED <<row, tasks, dispatcherVars, sttLock, sweepPlan, historyVars>>

\* The operation name is stored; the commit drops the recording's lock.
StoreOperation(w) ==
    LET r == worker[w].rec IN
    /\ worker[w].at = "submitted"
    /\ Writable(r)
    /\ SetRow(r, [row[r] EXCEPT !.op = TRUE])
    /\ Unlock(r)
    /\ Goto(w, "relocking", FALSE)
    /\ UNCHANGED <<tasks, dispatcherVars, sweepPlan, submitted, historyVars>>

\* A transient provider error, or a job that still runs: the task is sent
\* again with a countdown long enough for this one to be gone.
RetryLater(w) ==
    LET r == worker[w].rec IN
    /\ worker[w].at \in {"locked", "polling"}
    /\ Writable(r)                             \* _touch_updated_at
    /\ Send(r)
    /\ Unlock(r)
    /\ Finish(w)
    /\ UNCHANGED <<row, dispatcherVars, sweepPlan, submitted, historyVars>>

\* An exception from the provider, or only errors in its answer; the marker
\* of a permanent one forbids the automatic retry.
ProviderFails(w) ==
    /\ worker[w].at \in {"locked", "polling"}
    /\ \E retryable \in BOOLEAN : FailAndRaise(w, retryable)

Answer(w) ==
    /\ worker[w].at = "polling"
    /\ Goto(w, "answered", worker[w].slot)
    /\ UNCHANGED <<row, tasks, dispatcherVars, sttLock, sweepPlan, submitted, historyVars>>

\* repair_mono_transcript: the LLM's usage is recorded with the task's session,
\* and record_llm_usage_sync commits it: the recording's lock is dropped before
\* the transcript is stored.  (A repair that fails commits nothing.)
RepairSpeakers(w) ==
    LET r == worker[w].rec IN
    /\ worker[w].at = "answered"
    /\ r \in MonoMixed
    /\ Unlock(r)
    /\ Goto(w, "repaired", worker[w].slot)
    /\ UNCHANGED <<row, tasks, dispatcherVars, sweepPlan, submitted, historyVars>>

\* The transcript is stored and the row handed to the evaluation, whatever
\* has become of the row since it was refreshed.  The session writes what it
\* changed: it loaded "transcribing" and no failed stage, so the status is
\* written, failed_stage is not, and stt_started_at only if it had one.
StoreTranscript(w) ==
    LET r == worker[w].rec IN
    /\ worker[w].at \in {"answered", "repaired"}
    /\ Writable(r)
    /\ SetRow(r, [row[r] EXCEPT !.status = "evaluating",
                                !.started = IF worker[w].slot THEN NoTime ELSE @])
    /\ Release(w)
    /\ Finish(w)
    /\ UNCHANGED <<tasks, dispatcherVars, sweepPlan, submitted, historyVars>>

\* The process dies: its transactions roll back, its locks are gone and the
\* unacknowledged message is delivered again.  A job the provider already
\* took is forgotten if its name was not stored.
Crash(w) ==
    LET r == worker[w].rec IN
    /\ worker[w] # Idle
    /\ faults < MaxFaults
    /\ Send(r)
    /\ Release(w)
    /\ submitted' = IF worker[w].at = "submitted" THEN [submitted EXCEPT ![r] = 0] ELSE submitted
    /\ Finish(w)
    /\ faults' = faults + 1
    /\ UNCHANGED <<row, dispatcherVars, sweepPlan, operations>>

-----------------------------------------------------------------------------
\* sweep_stuck: the rows are loaded and decided on, then written in one commit

\* What the code may decide about a row; the ages it compares are free.
MayDecide(seen, decision) ==
    LET started == StageHasStarted(seen, FALSE) IN
    /\ seen.status = "transcribing"
    /\ CASE decision = "requeue" -> ~started
         [] decision = "timeout" -> started
         [] decision = "resume"  -> started /\ seen.attempts < ResumeMaxAttempts

SweepLoad(R, decision) ==
    /\ Sweeping
    /\ \A r \in Recordings : sweepPlan[r] = Leave
    /\ R # {}
    /\ \A r \in R : MayDecide(row[r], decision[r])
    /\ sweepPlan' = [r \in Recordings |->
                        IF r \in R THEN [decision |-> decision[r], seen |-> row[r]]
                        ELSE Leave]
    /\ UNCHANGED <<row, tasks, dispatcherVars, sttLock, worker, submitted, historyVars>>

DecidedRow(plan) ==
    CASE plan.decision = "requeue" -> SweepQueuedRow(plan.seen)
      [] plan.decision = "timeout" -> SweepTimedOutRow(plan.seen)
      [] plan.decision = "resume"  -> SweepResumedRow(plan.seen)

Planned == {r \in Recordings : sweepPlan[r] # Leave}

\* The rows whose stage the sweep sends again.
Redispatched == {r \in Planned : \/ sweepPlan[r].decision # "timeout"
                                 \/ sweepPlan[r].seen.autoRetry > 0}

SweepCommit ==
    /\ Planned # {}
    /\ \A r \in Planned : Writable(r)
    /\ row' = [r \in Recordings |->
                 IF r \in Planned
                 THEN Flush(sweepPlan[r].seen, DecidedRow(sweepPlan[r]), row[r])
                 ELSE row[r]]
    /\ Forgotten
    /\ SendAll(Redispatched)
    /\ sweepPlan' = [r \in Recordings |-> Leave]
    /\ UNCHANGED <<dispatcherVars, sttLock, worker, historyVars>>

-----------------------------------------------------------------------------
\* Operators (batches.retry_failed, batches.rerun_batch_stt, recordings.reprocess)

Operate ==
    /\ operations < MaxOperations
    /\ operations' = operations + 1
    /\ Forgotten
    /\ UNCHANGED <<dispatcherVars, sttLock, worker, sweepPlan, faults>>

\* Failed recordings go back to the DB-backed queue; the dispatcher finds them.
RetryFailed ==
    LET failed == {r \in Recordings : row[r].status = "failed"} IN
    /\ failed # {}
    /\ row' = [r \in Recordings |->
                 IF r \in failed THEN RetryFailedRow(row[r], TRUE) ELSE row[r]]
    /\ UNCHANGED tasks
    /\ Operate

\* Every recording with normalized audio, whatever its status.
RerunStt ==
    /\ \A r \in Recordings : Writable(r)
    /\ row' = [r \in Recordings |-> SttRerunRow(row[r], TRUE, InitialRetries)]
    /\ UNCHANGED tasks
    /\ Operate

\* One recording, not a busy one; its task is sent at once, without a slot.
ReprocessStt(r) ==
    /\ row[r].status \notin {"converting", "transcribing", "evaluating"}
    /\ SetRow(r, ReprocessedRow(row[r], "stt"))
    /\ Send(r)
    /\ Operate

-----------------------------------------------------------------------------
WorkerStep(w) ==
    \/ \E r \in Recordings : Deliver(w, r)
    \/ TimedOut(w)
    \/ Raised(w)
    \/ AlreadyClaimed(w)
    \/ ClaimCount(w)
    \/ ClaimCommit(w)
    \/ LockRecording(w)
    \/ RelockRecording(w)
    \/ Submit(w)
    \/ StoreOperation(w)
    \/ RetryLater(w)
    \/ ProviderFails(w)
    \/ Answer(w)
    \/ RepairSpeakers(w)
    \/ StoreTranscript(w)

DispatcherStep ==
    \/ DispatchSelect
    \/ DispatchCommit
    \/ \E r \in Recordings, s \in Stamps : Publish(r, s)

Next ==
    \/ \E w \in Workers : WorkerStep(w)
    \/ DispatcherStep
    \/ \E r \in Recordings, s \in Stamps : PublishFails(r, s)
    \/ DispatcherCrash
    \/ \E w \in Workers : Crash(w)
    \/ \E R \in SUBSET Recordings : \E decision \in [R -> Decisions] : SweepLoad(R, decision)
    \/ SweepCommit
    \/ RetryFailed
    \/ RerunStt
    \/ \E r \in Recordings : ReprocessStt(r)

Spec == Init /\ [][Next]_vars

\* Workers and the 15-second dispatcher keep running; the sweep runs every five
\* minutes, and a stage that it finds started again and again is in the end
\* over its limit: polling refreshes updated_at, but a polled row has a slot
\* after its first redelivery and then the age of the slot is what counts.
SweepTimesOut(r) ==
    \E R \in SUBSET Recordings : \E decision \in [R -> Decisions] :
        r \in R /\ decision[r] = "timeout" /\ SweepLoad(R, decision)

Fairness ==
    /\ \A w \in Workers : WF_vars(WorkerStep(w))
    /\ WF_vars(DispatcherStep)
    /\ \A r \in Recordings : SF_vars(SweepTimesOut(r))
    /\ WF_vars(SweepCommit)

FairSpec == Spec /\ Fairness

-----------------------------------------------------------------------------
\* Properties

\* Every variable keeps its type.
TypeOK ==
    /\ row \in [Recordings -> Row]
    /\ tasks \in [Recordings -> 0 .. MaxCopies]
    /\ reserving \in BOOLEAN
    /\ reservedRows \in SUBSET Recordings
    /\ unpublished \in SUBSET (Recordings \X Stamps)
    /\ sttLock \in [Recordings -> Workers \cup {NoWorker}]
    /\ worker \in [Workers -> {Idle} \cup Busy]
    /\ sweepPlan \in [Recordings -> Plan \cup {Leave}]
    /\ submitted \in [Recordings -> Nat]
    /\ faults \in 0 .. MaxFaults
    /\ operations \in 0 .. MaxOperations

\* The dispatcher and _claim_stt_slot count under two different locks, so the
\* remote limit can be passed; it is never passed by more than itself, in
\* whatever order reservations, claims, sweeps and crashes fall.
SlotOvershootBounded == Cardinality(InFlight) <= 2 * SttMaxInFlight

\* Between two resets of a recording the provider is given its audio at most
\* once, however often its task is delivered (transcribe submits only under
\* the recording's lock and only if the refreshed row has no operation name).
NoDoubleSubmission == \A r \in Recordings : submitted[r] <= 1

\* Two deliveries for one recording are never both between the refresh under
\* the lock and the next commit of their session, which gives the lock up.
OneDeliveryInside ==
    \A v, w \in Workers :
        (/\ v # w
         /\ worker[v].at \in Locked
         /\ worker[w].at \in Locked) => worker[v].rec # worker[w].rec

\* No recording waits for the ASR for ever: slots are given back by answers,
\* failures and sweeps, and the dispatcher hands them to whoever waits, even
\* after a crash, a lost publish or a delivery dropped at a held lock.
EveryRecordingLeavesStt ==
    \A r \in Recordings :
        (row[r].status = "transcribing") ~> (row[r].status # "transcribing")

-----------------------------------------------------------------------------
\* Stated of the program and not true of it

\* What the docstrings of _claim_stt_slot and dispatch_stt_waiting promise:
\* no more recordings hold a remote slot than there are slots.  (They count
\* under two different locks: see SlotOvershootBounded.)
SlotLimit == Cardinality(InFlight) <= SttMaxInFlight

\* What the docstring of _try_stt_recording_lock promises: submission and
\* persistence of results are serialized per recording.  (A speaker repair has
\* dropped the lock when the transcript is stored: another delivery is let in.)
PersistenceSerialized ==
    \A v, w \in Workers :
        (/\ v # w
         /\ worker[v].at \in Locked \cup {"repaired"}
         /\ worker[w].at \in Locked \cup {"repaired"}) => worker[v].rec # worker[w].rec

\* DESIGN's status machine: a failed recording stays failed until an operator
\* sends it back.  (A transcript the provider still delivers after the sweep has
\* failed the recording takes it to its evaluation.)
FailedUntilOperator ==
    [][\A r \in Recordings :
        (row[r].status = "failed" /\ row'[r].status # "failed")
            => operations' = operations + 1]_vars
=============================================================================
