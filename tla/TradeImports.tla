---------------------------- MODULE TradeImports ----------------------------
(***************************************************************************)
(* The imports of transactions: the worker's tasks (files that a user      *)
(* uploads, pulls from an API that a user or the schedule starts), the     *)
(* API's handlers, and the page with the list of imports, the import       *)
(* wizard, the pull dialog and the detail of an import.                    *)
(*                                                                         *)
(* Imports run concurrently: each reads which imports it supersedes,       *)
(* deletes their transactions and reads the remaining ones in one database *)
(* transaction, and commits its own.  The page polls the list while it     *)
(* shows an import in flight; the wizard polls for its own import, with a  *)
(* timer that starts over whenever the list is shown anew.                 *)
(*                                                                         *)
(* There is one source of each kind, so a kind stands for its source.      *)
(***************************************************************************)
EXTENDS Integers, FiniteSets, FiniteSetsExt, Sequences

CONSTANTS Days,
          Files,       \* what a file holds once parsed: its rows, how many its template filters out
          Feeds,       \* what the API can answer to a pull
          MaxImports,  \* bound: imports
          MaxRequests, \* bound: uploads, pulls and deletions
          MaxFaults    \* bound: lost answers, unreadable data, redelivered tasks

None   == "none"
NoDay  == 0
NoFile == [rows |-> {}, filtered |-> 0]

\* A row has an external id and its own trade date, or none.
ASSUME TradeImportsAssumption ==
    /\ IsFiniteSet(Days) /\ Days # {} /\ Days \subseteq Nat \ {NoDay}
    /\ \A f \in Files \cup Feeds :
          /\ IsFiniteSet(f.rows) /\ f.filtered \in Nat
          /\ \A row \in f.rows : row = [ext |-> row.ext, day |-> row.day] /\ row.day \in Days \cup {NoDay}
    /\ NoFile \notin Files /\ Feeds # {}
    /\ MaxImports \in Nat \ {0} /\ {MaxRequests, MaxFaults} \subseteq Nat

VARIABLES
    imports,    \* the imports in the database, in the order of their creation
    jobs,       \* by import, what the worker does for it
    txns,       \* the transactions
    unchecked,  \* the days whose transactions changed since their last run was queued
    due,        \* the schedule asks for a pull
    panel,      \* the list of imports the page shows
    asked,      \* the list is being loaded
    tracking,   \* the wizard's own load is in flight
    fresh,      \* the table of transactions shows those there are (a refresh is immediate)
    modal,      \* the dialog that is open: the wizard, the pull, a detail
    call,       \* the request in flight that changes something, one at a time (a bound)
    requests, faults

worker == <<jobs, txns, unchecked, due>>
page   == <<panel, asked, tracking, modal, call>>
bounds == <<requests, faults>>
vars   == <<imports, worker, page, fresh, bounds>>

NewImport(kind, file, day, by, at) ==
    [kind |-> kind, file |-> file, day |-> day, by |-> by, at |-> at, imported |-> 0, skipped |-> 0]
NoJob  == [at |-> "idle", file |-> NoFile, prior |-> {}, gone |-> {}, keys |-> {}]
Queued == [NoJob EXCEPT !.at = "queued"]
Begun  == [NoJob EXCEPT !.at = "begun"]

Settled == {"completed", "failed"}
\* (Faulty variant: an import that waits for a worker is not watched.)
InFlightRunning(status) == status = "processing"
InFlight(status) == status \in {"pending", "processing"}

-----------------------------------------------------------------------------
\* The worker

Day(i, row) == IF row.day = NoDay THEN imports[i].day ELSE row.day
KeysIn(i, file) == {<<row.ext, Day(i, row)>> : row \in file.rows}
KeyOf(t) == <<t.ext, t.day>>
Own(i) == {t \in txns : t.imp = i}

\* The dates an import covers.
Dates(i, file) == IF file.rows = {} THEN {imports[i].day} ELSE {Day(i, row) : row \in file.rows}

\* (Faulty variant: a file is imported whatever its status.)
StartableAlways(i) == imports[i].at # "deleted"
\* import_csv returns on a settled import; pull_api does not look.
Startable(i) == imports[i].at \in IF imports[i].kind = "csv_upload" THEN {"pending", "processing"}
                                  ELSE {"pending", "processing"} \cup Settled

Taken(i) == [imports EXCEPT ![i].at = "processing"]

Begin(i) == /\ jobs[i].at = "queued"
            /\ IF Startable(i)
               THEN jobs' = [jobs EXCEPT ![i] = Begun] /\ imports' = Taken(i)
               ELSE jobs' = [jobs EXCEPT ![i] = NoJob] /\ UNCHANGED imports
            /\ UNCHANGED <<txns, unchecked, due, page, fresh, bounds>>

\* The file, or the API, cannot be read.
Unreadable(i) == /\ faults < MaxFaults /\ faults' = faults + 1
                 /\ jobs[i].at = "begun" /\ jobs' = [jobs EXCEPT ![i] = NoJob]
                 /\ imports' = [imports EXCEPT ![i].at = IF @ = "deleted" THEN @ ELSE "failed"]
                 /\ UNCHANGED <<txns, unchecked, due, page, fresh, requests>>

\* The rows, and the completed imports of the same source.
ReadPrior(i) ==
    /\ jobs[i].at = "begun"
    /\ \E file \in IF imports[i].kind = "csv_upload" THEN {imports[i].file} ELSE Feeds :
        jobs' = [jobs EXCEPT ![i] =
            [NoJob EXCEPT !.at = "read", !.file = file,
                !.prior = {p \in DOMAIN imports \ {i} : /\ imports[p].at = "completed"
                                                        /\ imports[p].kind = imports[i].kind}]]
    /\ UNCHANGED <<imports, txns, unchecked, due, page, fresh, bounds>>

\* (Faulty variant: whatever their dates.)
SupersededAll(i) == {t \in txns : t.imp \in jobs[i].prior}
\* Their transactions on the dates covered are deleted (and locked: another
\* import that deletes them waits), then the remaining keys are read.
Superseded(i) == {t \in txns : t.imp \in jobs[i].prior /\ t.day \in Dates(i, jobs[i].file)}
Locked(ts) == \E j \in DOMAIN jobs : jobs[j].at = "gathered" /\ jobs[j].gone \cap ts # {}
Gather(i) ==
    /\ jobs[i].at = "read" /\ ~Locked(Superseded(i))
    /\ jobs' = [jobs EXCEPT ![i].at = "gathered", ![i].gone = Superseded(i),
                            ![i].keys = {KeyOf(t) : t \in txns \ Superseded(i)}]
    /\ UNCHANGED <<imports, txns, unchecked, due, page, fresh, bounds>>

New(i) == {[imp |-> i, ext |-> key[1], day |-> key[2]] : key \in KeysIn(i, jobs[i].file) \ jobs[i].keys}
\* (Faulty variant: the table has no unique index.)
CollidesNever(i) == FALSE
\* The unique index on external id and date.
Collides(i) == \E t \in txns \ jobs[i].gone : KeyOf(t) \in {KeyOf(n) : n \in New(i)}

\* The commit.  On a collision the error path commits a session that was not
\* rolled back: that raises too, and the import stays in processing.
Land(i) ==
    /\ jobs[i].at = "gathered" /\ imports[i].at # "deleted" /\ ~Collides(i)
    /\ txns' = (txns \ jobs[i].gone) \cup New(i)
    /\ unchecked' = unchecked \cup {t.day : t \in jobs[i].gone \cup New(i)}
    /\ fresh' = (fresh /\ txns' = txns)
    /\ imports' = [imports EXCEPT ![i].at = "completed", ![i].imported = Cardinality(New(i)),
                       ![i].skipped = jobs[i].file.filtered + Cardinality(jobs[i].file.rows)
                                      - Cardinality(New(i))]
    /\ jobs' = [jobs EXCEPT ![i] = [NoJob EXCEPT !.at = "landed"]]
    /\ UNCHANGED <<due, page, bounds>>
Abort(i) == /\ jobs[i].at = "gathered" /\ (imports[i].at = "deleted" \/ Collides(i))
            /\ jobs' = [jobs EXCEPT ![i] = NoJob]
            /\ UNCHANGED <<imports, txns, unchecked, due, page, fresh, bounds>>

\* A run is queued for each day the import has transactions on; a pull notes
\* that it was made.
Finish(i) == /\ jobs[i].at = "landed" /\ jobs' = [jobs EXCEPT ![i] = NoJob]
             /\ unchecked' = unchecked \ {t.day : t \in Own(i)}
             /\ due' = (due /\ imports[i].kind = "csv_upload")
             /\ UNCHANGED <<imports, txns, page, fresh, bounds>>

\* A pull of today's trades.
StartPull == /\ Len(imports) < MaxImports
             /\ imports' = Append(imports, NewImport("api_pull", NoFile, Max(Days), "beat", "processing"))

\* Due until a pull has ended: one that has not is started again.
ScheduledPull == /\ due /\ StartPull /\ jobs' = Append(jobs, Begun)
                 /\ UNCHANGED <<txns, unchecked, due, page, fresh, bounds>>

\* A task is delivered again, while it runs (its worker was killed) or after
\* it.  The schedule's has no import of its own: it makes another.
Redeliver(i) ==
    /\ faults < MaxFaults /\ faults' = faults + 1
    /\ jobs[i].at # "queued"
    /\ IF imports[i].by = "beat"
       THEN StartPull /\ jobs' = Append([jobs EXCEPT ![i] = NoJob], Begun)
       ELSE jobs' = [jobs EXCEPT ![i] = Queued] /\ UNCHANGED imports
    /\ UNCHANGED <<txns, unchecked, due, page, fresh, requests>>

Working(i) == \/ Begin(i) \/ Unreadable(i) \/ ReadPrior(i) \/ Gather(i)
              \/ Land(i) \/ Abort(i) \/ Finish(i) \/ Redeliver(i)

-----------------------------------------------------------------------------
\* The list of imports

Listed == [i \in DOMAIN imports |-> [at |-> imports[i].at, skipped |-> imports[i].skipped]]
Polling == \E i \in DOMAIN panel.list : InFlight(panel.list[i].at)

Poll == /\ Polling /\ ~asked /\ asked' = TRUE
        /\ UNCHANGED <<imports, worker, panel, tracking, modal, call, fresh, bounds>>

\* The route is refreshed when the last import in flight has settled.
ListArrives ==
    /\ asked /\ asked' = FALSE
    /\ panel' = [known |-> TRUE, error |-> FALSE, list |-> Listed]
    /\ fresh' = (fresh \/ (Polling /\ \A i \in DOMAIN imports : ~InFlight(imports[i].at)))
    /\ UNCHANGED <<imports, worker, tracking, modal, call, bounds>>

\* The wizard's interval.
PollWizard == /\ modal.at = "importing" /\ ~tracking /\ tracking' = TRUE
              /\ UNCHANGED <<imports, worker, panel, asked, modal, call, fresh, bounds>>

\* (Faulty variant: a failed import is waited for.)
StepOfCompleted(i) == IF imports[i].at = "completed" THEN "done" ELSE "importing"
StepOf(i) == IF imports[i].at \in Settled THEN "done" ELSE "importing"

TrackArrives ==
    /\ tracking /\ tracking' = FALSE
    /\ IF modal.at = "importing"
       THEN /\ modal' = [modal EXCEPT !.at = StepOf(modal.imp)]
            /\ asked' = (asked \/ StepOf(modal.imp) = "done")
       ELSE UNCHANGED <<modal, asked>>
    /\ UNCHANGED <<imports, worker, panel, call, fresh, bounds>>

\* A lost answer: the list stays as it is, the error is shown when there is none.
LoseLoad == /\ faults < MaxFaults /\ faults' = faults + 1
            /\ \/ /\ asked /\ asked' = FALSE
                  /\ panel' = [panel EXCEPT !.error = ~panel.known]
                  /\ UNCHANGED tracking
               \/ /\ tracking /\ tracking' = FALSE
                  /\ UNCHANGED <<asked, panel>>
            /\ UNCHANGED <<imports, worker, modal, call, fresh, requests>>

-----------------------------------------------------------------------------
\* The dialogs

Idle   == [at |-> "idle", kind |-> None, file |-> NoFile, day |-> NoDay, imp |-> 0]
\* pending: the dialog waits for an answer; seen: the file whose preview it asked
\* for and has; rows: the skipped rows explained in a detail.
Closed == [at |-> "none", file |-> NoFile, seen |-> NoFile, imp |-> 0, rows |-> "none", pending |-> FALSE]

Show(new) == /\ modal' = new
             /\ UNCHANGED <<imports, worker, panel, asked, tracking, call, fresh, bounds>>
\* A request that changes something.
Change(new, c) == /\ call = Idle /\ call' = c /\ modal' = new
                  /\ requests < MaxRequests /\ requests' = requests + 1
                  /\ UNCHANGED <<imports, worker, panel, asked, tracking, fresh, faults>>

\* Dialogs are opened only while the bound leaves a request for them.
Openable   == modal = Closed /\ requests < MaxRequests
OpenWizard == Openable /\ Show([Closed EXCEPT !.at = "select"])
Close      == modal # Closed /\ Show(Closed)

\* A file is picked and its preview asked for.  It can be changed while the
\* preview is made.
OnPreview == /\ modal.at = "select" /\ ~modal.pending
             /\ \E f \in Files : Show([modal EXCEPT !.pending = TRUE, !.file = f, !.seen = f])
PickFile == /\ modal.at = "select" /\ modal.seen # NoFile
            /\ \E f \in Files \ {modal.file} : Show([modal EXCEPT !.file = f])
\* dry_run_csv answers, or fails on a file that it cannot parse.
PreviewEnds == /\ modal.at = "select" /\ modal.seen # NoFile
               /\ \/ Show([modal EXCEPT !.pending = FALSE, !.at = "preview"])
                  \/ Show([Closed EXCEPT !.at = "select"])
\* Also while the import is being sent.
Back == modal.at = "preview" /\ Show([Closed EXCEPT !.at = "select", !.pending = modal.pending])

DatesIn(file) == {row.day : row \in file.rows} \ {NoDay}
\* The date is asked for when the previewed file has none.
OnImport ==
    /\ modal.at = "preview" /\ ~modal.pending /\ modal.seen.rows # {}
    /\ \E d \in IF DatesIn(modal.seen) = {} THEN Days ELSE {NoDay} :
        Change([modal EXCEPT !.pending = TRUE],
               [Idle EXCEPT !.at = "sent", !.kind = "upload", !.file = modal.file, !.day = d])

\* The pull dialog is opened and sent; it stays open on an error.
OnPull == /\ modal.at \in {"none", "pull"} /\ ~modal.pending
          /\ \E d \in Days : Change([Closed EXCEPT !.at = "pull", !.pending = TRUE],
                                    [Idle EXCEPT !.at = "sent", !.kind = "pull", !.day = d])

\* The detail asks for the rows that were skipped, if there are any; the answer
\* comes from the stored file, parsed again, and is dropped when it is closed.
OpenDetail(i) ==
    /\ Openable /\ panel.list[i].at # "deleted"
    /\ Show([Closed EXCEPT !.at = "detail", !.imp = i,
                           !.rows = IF panel.list[i].skipped = 0 THEN "none" ELSE "loading"])
SkippedEnd == /\ modal.rows = "loading"
              /\ Show([modal EXCEPT !.rows = IF imports[modal.imp].at = "deleted" THEN "error" ELSE "known"])
\* Confirmed in the detail.
OnDelete == /\ modal.at = "detail" /\ ~modal.pending
            /\ Change([modal EXCEPT !.pending = TRUE],
                      [Idle EXCEPT !.at = "sent", !.kind = "delete", !.imp = modal.imp])

-----------------------------------------------------------------------------
\* The API's handlers

Answer(at, i) == [Idle EXCEPT !.at = at, !.kind = call.kind, !.imp = i]
Accept(i) == /\ imports' = Append(imports, i) /\ jobs' = Append(jobs, Queued)
             /\ UNCHANGED <<txns, unchecked, fresh>>

\* The date of a file that was sent without: the first of its own.
FirstDay(file) == Min(DatesIn(file))
Undated(c) == c.kind = "upload" /\ c.day = NoDay /\ DatesIn(c.file) = {}

ImportCsv == /\ call.kind = "upload" /\ ~Undated(call) /\ Len(imports) < MaxImports
             /\ LET day == IF call.day = NoDay THEN FirstDay(call.file) ELSE call.day
                IN  Accept(NewImport("csv_upload", call.file, day, "user", "pending"))
             /\ call' = Answer("ok", Len(imports) + 1)
PullSource == /\ call.kind = "pull" /\ Len(imports) < MaxImports
              /\ Accept(NewImport("api_pull", NoFile, call.day, "user", "pending"))
              /\ call' = Answer("ok", 0)

\* With its transactions; runs are queued for their days.
DeleteImport ==
    /\ call.kind = "delete" /\ ~Locked(Own(call.imp))
    /\ IF imports[call.imp].at = "deleted"
       THEN call' = Answer("error", 0) /\ UNCHANGED <<imports, txns, unchecked, fresh>>
       ELSE /\ imports' = [imports EXCEPT ![call.imp] = NewImport(@.kind, @.file, @.day, @.by, "deleted")]
            /\ txns' = txns \ Own(call.imp)
            /\ fresh' = (fresh /\ Own(call.imp) = {})
            /\ unchecked' = unchecked \ {t.day : t \in Own(call.imp)}
            /\ call' = Answer("ok", 0)
    /\ UNCHANGED jobs

Refuse == Undated(call) /\ call' = Answer("error", 0)
          /\ UNCHANGED <<imports, jobs, txns, unchecked, fresh>>

Serve == /\ call.at = "sent"
         /\ ImportCsv \/ PullSource \/ DeleteImport \/ Refuse
         /\ UNCHANGED <<due, panel, asked, tracking, modal, bounds>>

LoseAnswer == /\ faults < MaxFaults /\ faults' = faults + 1
              /\ call.at = "ok" /\ call' = Answer("error", 0)
              /\ UNCHANGED <<imports, worker, panel, asked, tracking, modal, fresh, requests>>

\* The continuations.  They change the dialog that asked, while it is open.
Answered(kind) == /\ call.kind = kind /\ call.at \in {"ok", "error"} /\ call' = Idle
                  /\ UNCHANGED <<imports, worker, panel, tracking, bounds>>
Failed == [modal EXCEPT !.pending = FALSE]

\* The list is loaded even when the wizard has been closed.
ImportEnds == /\ Answered("upload")
              /\ modal' = IF ~modal.pending THEN modal
                          ELSE IF call.at = "error" THEN Failed
                          ELSE [Closed EXCEPT !.at = "importing", !.imp = call.imp]
              /\ asked' = (asked \/ call.at = "ok")
              /\ UNCHANGED fresh
PullEnds == /\ Answered("pull")
            /\ modal' = IF modal.at # "pull" THEN modal ELSE IF call.at = "ok" THEN Closed ELSE Failed
            /\ asked' = (asked \/ call.at = "ok")
            /\ UNCHANGED fresh
\* Whichever detail is open by now is closed.
DeleteEnds == /\ Answered("delete")
              /\ modal' = IF modal.at # "detail" THEN modal
                          ELSE IF call.at = "ok" THEN Closed ELSE Failed
              /\ asked' = (asked \/ call.at = "ok")
              /\ fresh' = (fresh \/ call.at = "ok")

-----------------------------------------------------------------------------

\* No import yet, or one of a file; the schedule asks for a pull.
Imported(f) == [NewImport("csv_upload", f, FirstDay(f), "user", "completed")
                   EXCEPT !.imported = Cardinality(f.rows), !.skipped = f.filtered]

Init ==
    /\ \/ imports = <<>> /\ jobs = <<>> /\ txns = {}
       \/ \E f \in {g \in Files : g.rows # {} /\ {row.day : row \in g.rows} \subseteq Days} :
            /\ imports = <<Imported(f)>> /\ jobs = <<NoJob>>
            /\ txns = {[imp |-> 1, ext |-> row.ext, day |-> row.day] : row \in f.rows}
    /\ unchecked = {}
    /\ due = TRUE
    /\ panel = [known |-> FALSE, error |-> FALSE, list |-> <<>>]
    /\ asked = TRUE /\ tracking = FALSE
    /\ fresh = TRUE
    /\ modal = Closed /\ call = Idle
    /\ requests = 0 /\ faults = 0

Wizard  == OpenWizard \/ PickFile \/ OnPreview \/ PreviewEnds \/ Back \/ OnImport \/ OnPull \/ Close
Detail  == (\E i \in DOMAIN panel.list : OpenDetail(i)) \/ SkippedEnd \/ OnDelete
Loading == Poll \/ ListArrives \/ PollWizard \/ TrackArrives
Ending  == ImportEnds \/ PullEnds \/ DeleteEnds

Next == \/ \E i \in DOMAIN imports : Working(i)
        \/ ScheduledPull \/ Loading \/ LoseLoad \/ Wizard \/ Detail \/ Serve \/ LoseAnswer \/ Ending

Spec == Init /\ [][Next]_vars

\* Answers arrive, and the list's interval runs.  The wizard's interval starts
\* over with every list that arrives: it is sure to run out when no more do.
Fairness == /\ WF_vars(Poll) /\ WF_vars(ListArrives) /\ WF_vars(TrackArrives)
            /\ WF_vars(PollWizard /\ ~Polling /\ ~asked)
FairSpec == Spec /\ Fairness

-----------------------------------------------------------------------------
\* Properties

\* Every variable keeps its type, and an import that a worker has in hand says
\* so, unless it was deleted meanwhile.
TypeOK ==
    /\ Len(imports) <= MaxImports /\ DOMAIN jobs = DOMAIN imports
    /\ \A i \in DOMAIN imports :
        /\ imports[i].at \in {"pending", "processing", "deleted"} \cup Settled
        /\ jobs[i].at \in {"idle", "queued", "begun", "read", "gathered", "landed"}
        /\ jobs[i].at \in {"begun", "read", "gathered"} => imports[i].at \in {"processing", "deleted"}
    /\ \A t \in txns : t.imp \in DOMAIN imports /\ t.day \in Days
    /\ unchecked \subseteq Days
    /\ Len(panel.list) <= Len(imports)
    /\ modal.at = "importing" => modal.imp \in DOMAIN imports

\* No trade is there twice, and a transaction belongs to an import that still
\* exists and has been completed, which a file that has transactions still says
\* (a pull need not: it is made again when its task is delivered again).
Landed(i) == imports[i].at \in IF imports[i].kind = "csv_upload" THEN {"completed"}
                               ELSE {"processing"} \cup Settled
NoOrphans == \A t \in txns : /\ Landed(t.imp)
                             /\ \A s \in txns : KeyOf(s) = KeyOf(t) => s = t

\* What a completed file says it imported are its transactions, as long as no
\* other file was completed since, however often its task is delivered.
CountsOfFilesAreTrue == \A i \in DOMAIN imports :
    /\ imports[i].kind = "csv_upload" /\ imports[i].at = "completed"
    /\ \A j \in DOMAIN imports \ {i} : imports[j].kind = "csv_upload" => imports[j].at # "completed"
    => imports[i].imported = Cardinality(Own(i)) \/ \E j \in DOMAIN imports \ {i} : imports[j].at = "deleted"

\* "a re-import of the same source/kind replaces prior rows on the dates this
\* file covers": an import that completes leaves alone what another source
\* gave and the dates that its own rows do not have.
OnlySuperseded == [][\A i \in DOMAIN imports : jobs[i].at = "gathered" /\ jobs'[i].at = "landed" =>
    \A t \in txns \ txns' : /\ imports[t.imp].kind = imports[i].kind
                            /\ jobs[i].file.rows # {} => \E row \in jobs[i].file.rows : Day(i, row) = t.day]_vars

\* The list catches up with every import it shows in flight.
Behind(i) == /\ i \in DOMAIN panel.list /\ panel.list[i].at \in {"pending", "processing"}
             /\ imports[i].at \in Settled
ListCatchesUp == \A i \in 1..MaxImports : Behind(i) ~> ~Behind(i)

\* "this dialog tracks the queued job": once no import is in flight any more,
\* the wizard sees that its own has ended, or is closed.
NothingInFlight == \A i \in DOMAIN imports : imports[i].at \in Settled \cup {"deleted"}
WizardCatchesUp == modal.at = "importing" /\ NothingInFlight ~> modal.at # "importing" \/ ~NothingInFlight

-----------------------------------------------------------------------------
\* Stated of the program and not true of it

\* "this dialog tracks the queued job": with another import in flight, the list
\* is shown anew all the time and the wizard's interval starts over each time.
WizardTracksItsImport == \A i \in 1..MaxImports :
    LET waits == modal.at = "importing" /\ modal.imp = i /\ imports[i].at \in Settled
    IN  waits ~> ~waits

\* "Dry run only -- nothing is imported until you confirm": what is confirmed
\* need not be the file that was previewed.
ImportsWhatWasPreviewed == call.kind = "upload" /\ modal.pending => call.file = modal.seen

\* Every import settles: not one that collides with another on the index, and
\* not one that the schedule started and whose worker was killed.
NoneIsStuck == \A i \in DOMAIN imports : imports[i].at = "processing" => jobs[i].at # "idle"

\* "explain why each non-imported row was skipped": not those that another
\* source had already given.
SkippedAreExplained == \A i \in DOMAIN imports :
    imports[i].kind = "csv_upload" /\ imports[i].at = "completed"
    => imports[i].skipped = imports[i].file.filtered

\* "Auto-reconcile every date this import touched": not a date whose
\* transactions it only deleted, nor after a crash that follows its commit.
TouchedAreReconciled == (\A i \in DOMAIN jobs : jobs[i].at = "idle") => unchecked = {}

\* "When the last in-flight import settles, the transactions table is stale --
\* refresh the route once": not when the list never showed it in flight.
TableFollowsImports == /\ panel.known /\ ~asked /\ ~Polling
                       /\ \A i \in DOMAIN imports : i \in DOMAIN panel.list
                                                    /\ panel.list[i].at = imports[i].at
                       => fresh

\* "supersedes": of two imports of one source only the later has transactions
\* on a date; not when they run at the same time.
OneLiveImport == \A t, s \in txns : t.day = s.day /\ imports[t.imp].kind = imports[s.imp].kind => t.imp = s.imp
=============================================================================
