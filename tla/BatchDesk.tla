----------------------------- MODULE BatchDesk -----------------------------
(***************************************************************************)
(* A manager's browser on the pages of one batch, and the API behind it:   *)
(* the dialogs of the batch list (new batch, rerun all), the batch page    *)
(* with its upload client, poll, selected recordings, re-runs, finalize    *)
(* and delete.                                                             *)
(*                                                                         *)
(* An upload and a load of data are several steps: sent, read or committed *)
(* by the API, answered.  The answers of two loads arrive in any order.    *)
(* Every mount of the batch page is a visit; the uploads of a page that    *)
(* was left go on, its other answers go nowhere.  The pipeline that works  *)
(* on the recordings is one step per recording here (BatchLifecycle has    *)
(* its inside).                                                            *)
(***************************************************************************)
EXTENDS Integers, FiniteSets, SequencesExt

CONSTANTS Files,             \* files the manager can drop on the page
          Digest,            \* the content of a file, by number
          Zips,              \* the files that are ZIP archives
          UploadConcurrency, \* UPLOAD_CONCURRENCY
          MaxVisits,         \* bound: mounts of the batch page
          MaxLoads,          \* bound: loads in flight
          MaxCalls,          \* bound: requests that change the batch
          MaxFaults,         \* bound: requests lost or refused by the network
          OthersAct          \* whether somebody else uses the same requests

Digests == {Digest[f] : f \in Files}
Visits  == 1..MaxVisits
Slots   == 1..MaxLoads
Kinds   == {"create", "finalize", "retry", "stt", "eval", "bulk", "delete"}

ASSUME DeskAssumption ==
    /\ IsFiniteSet(Files)
    /\ Digest \in [Files -> Nat]
    /\ Zips \subseteq Files
    /\ UploadConcurrency \in Nat \ {0}
    /\ MaxVisits \in Nat \ {0}
    /\ MaxLoads \in Nat \ {0}
    /\ {MaxCalls, MaxFaults} \subseteq Nat
    /\ OthersAct \in BOOLEAN

VARIABLES
    status,    \* the batch in the database
    rows,      \* its recordings, by content
    stored,    \* ZIPs staged in the bucket
    page,      \* what the browser shows and remembers
    visit,     \* the number of the current mount
    leg,       \* how far each file's upload is
    owner,     \* the visit whose upload client has the file
    queue,     \* files waiting for an upload slot, per visit
    active,    \* uploads in flight, per visit
    call,      \* the request of each kind in flight
    load,      \* the load of the batch in flight
    calls, faults

server  == <<status, rows, stored>>
uploads == <<leg, owner, queue, active>>
bounds  == <<calls, faults>>
vars    == <<status, rows, stored, page, visit, leg, owner, queue,
             active, call, load, calls, faults>>

UploadStates == {"queued", "uploading", "done", "duplicate", "error"}
RowStates    == {"absent", "uploaded", "active", "completed", "failed"}
Terminal     == "terminal"

Existing    == {d \in Digests : rows[d] # "absent"}
In(state)   == {d \in Digests : rows[d] = state}
Batch       == [status : {"open", "processing", Terminal}, files : 0..Cardinality(Digests),
                failed : 0..Cardinality(Digests)]
NoBatch     == [status |-> "none", files |-> 0, failed |-> 0]
Idle        == [at |-> "idle"]
NoUploads   == [f \in Files |-> "none"]

BlankPage(screen) ==
    [screen |-> screen, batch |-> NoBatch, loadError |-> FALSE, uploads |-> NoUploads]

\* No batch yet, one with recordings uploaded before, or one worked through.
Init ==
    /\ \/ status = "none" /\ rows = [d \in Digests |-> "absent"]
       \/ status = "open" /\ rows = [d \in Digests |-> "uploaded"]
       \/ status = Terminal /\ rows = [d \in Digests |-> "failed"]
    /\ stored = {}
    /\ page = BlankPage("list")
    /\ visit = 0
    /\ leg = [f \in Files |-> "none"]
    /\ owner = [f \in Files |-> 0]
    /\ queue = [v \in Visits |-> <<>>]
    /\ active = [v \in Visits |-> 0]
    /\ call = [k \in Kinds |-> Idle]
    /\ load = [i \in Slots |-> Idle]
    /\ calls = 0
    /\ faults = 0

-----------------------------------------------------------------------------
\* Loading: what the page asks for and when

Detail   == page.screen = "detail"
Free     == {i \in Slots : load[i] = Idle}
Lowest(S) == CHOOSE i \in S : \A j \in S : i <= j
Refresh   == Free # {} /\ load' = [load EXCEPT ![Lowest(Free)] = [at |-> "sent"]]

\* The effect of the first render.
Mount == /\ visit < MaxVisits
         /\ visit' = visit + 1
         /\ page' = BlankPage("detail")
         /\ load' = [i \in Slots |-> IF i = 1 THEN [at |-> "sent"] ELSE Idle]

OpenBatch == /\ page.screen = "list"
             /\ status \notin {"none", "deleted"}
             /\ Mount
             /\ UNCHANGED <<server, uploads, call, bounds>>

Unmount == /\ page' = BlankPage("list")
           /\ load' = [i \in Slots |-> Idle]

BackToBatches == Detail /\ Unmount /\ UNCHANGED <<server, visit, uploads, call, bounds>>

\* (Faulty variant: the interval exists only where the first load failed.)
PollAfterError == /\ Detail
                  /\ page.loadError
                  /\ Refresh
                  /\ UNCHANGED <<server, page, visit, uploads, call, bounds>>
\* The interval exists while the batch it last loaded was processing.
Poll == /\ Detail
        /\ page.batch.status = "processing"
        /\ Refresh
        /\ UNCHANGED <<server, page, visit, uploads, call, bounds>>

\* The API reads.
Snapshot == [at |-> "answer",
             val |-> [status |-> status, files |-> Cardinality(Existing), failed |-> Cardinality(In("failed"))]]
ServeBatch(i) ==
    /\ load[i].at = "sent"
    /\ load' = [load EXCEPT ![i] = IF status = "deleted" THEN [at |-> "failure"] ELSE Snapshot]
    /\ UNCHANGED <<server, page, visit, uploads, call, bounds>>

LoseLoad(i) ==
    /\ faults < MaxFaults
    /\ faults' = faults + 1
    /\ load[i].at = "sent"
    /\ load' = [load EXCEPT ![i] = [at |-> "failure"]]
    /\ UNCHANGED <<server, page, visit, uploads, call, calls>>

\* loadBatch's continuation: a failure after a first success keeps the old data.
BatchArrives(i) ==
    /\ load[i].at \in {"answer", "failure"}
    /\ load' = [load EXCEPT ![i] = Idle]
    /\ page' = IF load[i].at = "answer"
               THEN [page EXCEPT !.batch = load[i].val, !.loadError = FALSE]
               ELSE [page EXCEPT !.loadError = @ \/ page.batch = NoBatch]
    /\ UNCHANGED <<server, visit, uploads, call, bounds>>

-----------------------------------------------------------------------------
\* The upload client

\* (Faulty variant: what is under way is not counted.)
StartedUncounted(v, q, a) == SubSeq(q, 1, IF UploadConcurrency < Len(q) THEN UploadConcurrency ELSE Len(q))
\* (Faulty variant: the queue of a page that was left does not move.)
StartedOnScreen(v, q, a) ==
    IF v = visit /\ Detail /\ a < UploadConcurrency /\ q # <<>> THEN <<Head(q)>> ELSE <<>>
Started(v, q, a) == LET room == UploadConcurrency - a
                    IN  SubSeq(q, 1, IF room < Len(q) THEN room ELSE Len(q))

\* Starts what fits: the new list of uploads is shown by the visit on screen.
Pump(v, q, a, shown) ==
    LET go == ToSet(Started(v, q, a))
    IN  /\ queue' = [queue EXCEPT ![v] = SubSeq(q, Cardinality(go) + 1, Len(q))]
        /\ active' = [active EXCEPT ![v] = a + Cardinality(go)]
        /\ page' = [page EXCEPT !.uploads = [f \in Files |->
                       IF f \in go /\ v = visit /\ Detail THEN "uploading" ELSE shown[f]]]

DropZoneShown == Detail /\ page.batch.status = "open"

\* A file with another extension than ACCEPTED_EXTS is shown as an error and
\* goes no further: Files are the others.
AddFiles(S) ==
    /\ DropZoneShown
    /\ S # {} /\ \A f \in S : leg[f] = "none"
    /\ LET q == queue[visit] \o SetToSeq(S)
           shown == [f \in Files |-> IF f \in S THEN "queued" ELSE page.uploads[f]]
           go == ToSet(Started(visit, q, active[visit]))
       IN  /\ Pump(visit, q, active[visit], shown)
           /\ leg' = [f \in Files |-> CASE f \in go -> "init"
                                        [] f \in S \ go -> "queued"
                                        [] OTHER -> leg[f]]
           /\ owner' = [f \in Files |-> IF f \in S THEN visit ELSE owner[f]]
    /\ UNCHANGED <<server, visit, call, load, bounds>>

Advance(f, to) == leg' = [leg EXCEPT ![f] = to]

\* POST direct-upload: only an open batch signs a URL.
InitUpload(f) ==
    /\ leg[f] = "init"
    /\ Advance(f, IF status = "open" THEN "put" ELSE "failed")
    /\ UNCHANGED <<server, page, visit, owner, queue, active, call, load, bounds>>

\* The PUT goes to the bucket and asks the API nothing.
PutObject(f) ==
    /\ leg[f] = "put"
    /\ Advance(f, "complete")
    /\ stored' = IF f \in Zips THEN stored \cup {f} ELSE stored
    /\ UNCHANGED <<status, rows, page, visit, owner, queue, active, call, load, bounds>>

\* POST direct-upload/complete: the row is the recording.
CompleteUpload(f) ==
    /\ leg[f] = "complete"
    /\ IF status # "open" THEN Advance(f, "failed") /\ UNCHANGED rows
       ELSE IF f \in Zips THEN Advance(f, "ok") /\ UNCHANGED rows
       ELSE IF Digest[f] \in Existing THEN Advance(f, "dup") /\ UNCHANGED rows
       ELSE /\ rows' = [rows EXCEPT ![Digest[f]] = "uploaded"]
            /\ Advance(f, "ok")
    /\ UNCHANGED <<status, stored, page, visit, owner, queue, active, call, load, bounds>>

\* A request of an upload, or its answer, is lost.
LoseUpload(f) ==
    /\ faults < MaxFaults
    /\ faults' = faults + 1
    /\ leg[f] \in {"init", "put", "complete", "ok", "dup"}
    /\ Advance(f, "failed")
    /\ UNCHANGED <<server, page, visit, owner, queue, active, call, load, calls>>

\* (Faulty variant: a failed upload is shown as done.)
OutcomeOptimistic(f) == IF leg[f] = "dup" THEN "duplicate" ELSE "done"
Outcome(f) == CASE leg[f] = "ok" -> "done" [] leg[f] = "dup" -> "duplicate" [] OTHER -> "error"

\* (Faulty variant: the slot is freed in then, not in finally.)
FreedBySuccess(f) == active[owner[f]] - (IF leg[f] = "failed" THEN 0 ELSE 1)
Freed(f)          == active[owner[f]] - 1

\* then or catch, and finally: the slot is free, the page reloads, the queue moves.
UploadEnds(f) ==
    /\ leg[f] \in {"ok", "dup", "failed"}
    /\ LET v == owner[f]
           shown == IF v = visit /\ Detail THEN [page.uploads EXCEPT ![f] = Outcome(f)] ELSE page.uploads
           go == ToSet(Started(v, queue[v], Freed(f)))
       IN  /\ Pump(v, queue[v], Freed(f), shown)
           /\ leg' = [g \in Files |-> CASE g = f -> "settled" [] g \in go -> "init" [] OTHER -> leg[g]]
           /\ IF v = visit /\ Detail THEN Refresh ELSE UNCHANGED load
    /\ UNCHANGED <<server, visit, owner, call, bounds>>

-----------------------------------------------------------------------------
\* What the page offers

Shown          == page.batch # NoBatch
UploadsInFlight == \E f \in Files : page.uploads[f] \in {"queued", "uploading"}
\* (Faulty variant: a file that failed counts as well.)
HasFilesTried  == page.batch.files > 0 \/ \E f \in Files : page.uploads[f] # "none"
HasFiles       == page.batch.files > 0 \/ \E f \in Files : page.uploads[f] = "done"
CanFinalize    == HasFiles /\ ~UploadsInFlight
RetryOffered   == Detail /\ Shown /\ page.batch.failed > 0
RerunOffered   == Detail /\ Shown /\ page.batch.status # "open" /\ page.batch.files > 0
SttOffered     == RerunOffered
FinalizeOffered == Detail /\ page.batch.status = "open"

\* A button is disabled while its request is pending; a request of an earlier
\* visit is waited for as well (a bound).
Request(k, ids) == /\ IF k = "create" THEN UNCHANGED calls ELSE calls < MaxCalls /\ calls' = calls + 1
                   /\ call[k] = Idle
                   /\ call' = [call EXCEPT ![k] = [at |-> "sent", visit |-> visit, ids |-> ids]]
                   /\ UNCHANGED <<server, visit, uploads, load, faults>>

\* A dialog holds nothing that a request depends on: opening it and confirming
\* in it are one step, and a dialog closed while its request is pending leaves
\* the request alone.
OnFinalize    == FinalizeOffered /\ CanFinalize /\ Request("finalize", {}) /\ UNCHANGED page
OnRetryFailed == RetryOffered /\ Request("retry", {}) /\ UNCHANGED page

OnRerunStt    == SttOffered /\ Request("stt", {}) /\ UNCHANGED page

\* The whole batch, ticked rows or one row: the table is in RecordingTable.
OnRerunEvaluation(ids) == Request("eval", ids) /\ UNCHANGED page
ReevaluateBatch == RerunOffered /\ OnRerunEvaluation({})
ReevaluateRows  == Detail /\ \E ids \in (SUBSET Existing) \ {{}} : OnRerunEvaluation(ids)

\* DeleteBatchButton, on the page and in a row of the list.
DeleteOffered == \/ Detail /\ Shown
                 \/ page.screen = "list" /\ status \notin {"none", "deleted"}
OnConfirm     == DeleteOffered /\ Request("delete", {}) /\ UNCHANGED page

\* The buttons of the batch list.  The one batch is created once.
CreateOffered == page.screen = "list" /\ status = "none"
OnCreate      == CreateOffered /\ Request("create", {}) /\ UNCHANGED page
BulkOffered   == page.screen = "list"
OnBulk        == BulkOffered /\ Request("bulk", {}) /\ UNCHANGED page

-----------------------------------------------------------------------------
\* The API's handlers

Became(S, to) == rows' = [d \in Digests |-> IF d \in S THEN to ELSE rows[d]]

Finalize == status = "open" /\ status' = "processing" /\ UNCHANGED <<rows, stored>>

RetryFailed == /\ status \notin {"none", "deleted"}
               /\ Became(In("failed"), "active")
               /\ status' = IF In("failed") # {} /\ status = Terminal THEN "processing" ELSE status
               /\ UNCHANGED stored

\* Every recording with normalized audio, whatever its status.
RerunStt == LET again == Existing \ In("uploaded")
            IN  /\ status \notin {"none", "deleted"}
                /\ Became(again, "active")
                /\ status' = IF again # {} THEN "processing" ELSE status
                /\ UNCHANGED stored

Reevaluate(ids) ==
    LET again == {d \in In("completed") \cup In("failed") : ids = {} \/ d \in ids}
    IN  /\ Became(again, "active")
        /\ status' = IF again # {} /\ status = Terminal THEN "processing" ELSE status
        /\ UNCHANGED stored

BulkRerunStt == LET again == IF status = Terminal THEN In("completed") \cup In("failed") ELSE {}
                IN  /\ Became(again, "active")
                    /\ status' = IF again # {} THEN "processing" ELSE status
                    /\ UNCHANGED stored

CreateBatch == status = "none" /\ status' = "open" /\ UNCHANGED <<rows, stored>>

DeleteBatch == /\ status \notin {"none", "deleted"}
               /\ status' = "deleted"
               /\ Became(Digests, "absent")
               /\ UNCHANGED stored

Refuses(k) == CASE k = "create" -> status # "none"
                [] k = "finalize" -> status # "open"
                [] k \in {"retry", "stt", "delete"} -> status \in {"none", "deleted"}
                [] OTHER -> FALSE

Handler(k, ids) == CASE k = "create" -> CreateBatch
                     [] k = "finalize" -> Finalize
                     [] k = "retry" -> RetryFailed
                     [] k = "stt" -> RerunStt
                     [] k = "eval" -> Reevaluate(ids)
                     [] k = "bulk" -> BulkRerunStt
                     [] OTHER -> DeleteBatch

Served(k, how) == call' = [call EXCEPT ![k].at = how]

ServeCall(k) == /\ call[k].at = "sent"
                /\ IF Refuses(k) THEN UNCHANGED server /\ Served(k, "error")
                   ELSE Handler(k, call[k].ids) /\ Served(k, "ok")
                /\ UNCHANGED <<page, visit, uploads, load, bounds>>

\* The answer is lost: the page takes it for a refusal.
LoseAnswer(k) == /\ faults < MaxFaults
                 /\ faults' = faults + 1
                 /\ call[k].at = "ok"
                 /\ Served(k, "error")
                 /\ UNCHANGED <<server, page, visit, uploads, load, calls>>

\* The continuation on the page that asked.
CallEnds(k) ==
    /\ call[k].at \in {"ok", "error"}
    /\ call' = [call EXCEPT ![k] = Idle]
    /\ LET ok == call[k].at = "ok" IN
       CASE ok /\ k = "delete" -> Unmount /\ UNCHANGED visit
         [] ok /\ k = "create" -> IF page.screen = "list" THEN Mount ELSE UNCHANGED <<page, visit, load>>
         [] ok /\ k \in {"finalize", "retry", "stt", "eval"} /\ call[k].visit = visit /\ Detail ->
                Refresh /\ UNCHANGED <<page, visit>>
         [] OTHER -> UNCHANGED <<page, visit, load>>
    /\ UNCHANGED <<server, uploads, bounds>>

-----------------------------------------------------------------------------
\* The rest of the world

\* Another tab, or another manager.
OtherManager == /\ OthersAct
                /\ calls < MaxCalls
                /\ calls' = calls + 1
                /\ \/ Finalize \/ RetryFailed \/ RerunStt \/ Reevaluate({}) \/ DeleteBatch
                /\ UNCHANGED <<page, visit, uploads, call, load, faults>>

\* expand_batch and normalize_audio, transcribe and evaluate, update_progress.
Expand == /\ status = "processing" /\ stored # {}
          /\ rows' = [d \in Digests |-> IF rows[d] = "absent" /\ \E z \in stored : Digest[z] = d
                                        THEN "active" ELSE rows[d]]
          /\ stored' = {}
          /\ UNCHANGED <<status, page, visit, uploads, call, load, bounds>>

Process == /\ status = "processing"
           /\ \E d \in In("uploaded") \cup In("active"), end \in {"completed", "failed"} :
                  rows' = [rows EXCEPT ![d] = end]
           /\ UNCHANGED <<status, stored, page, visit, uploads, call, load, bounds>>

Rollup == /\ status = "processing" /\ stored = {}
          /\ In("uploaded") \cup In("active") = {}
          /\ status' = Terminal
          /\ UNCHANGED <<rows, stored, page, visit, uploads, call, load, bounds>>

Browsing == \/ OpenBatch \/ BackToBatches \/ Poll
            \/ \E S \in SUBSET Files : AddFiles(S)
Clicking == \/ OnFinalize \/ OnRetryFailed \/ OnRerunStt \/ OnConfirm \/ OnCreate \/ OnBulk
            \/ ReevaluateBatch \/ ReevaluateRows
Uploading(f) == InitUpload(f) \/ PutObject(f) \/ CompleteUpload(f) \/ UploadEnds(f)
Calling(k)   == ServeCall(k) \/ CallEnds(k)
Loading(i)   == ServeBatch(i) \/ BatchArrives(i)
Pipeline     == Expand \/ Process \/ Rollup

Next == \/ Browsing \/ Clicking \/ Pipeline \/ OtherManager
        \/ \E i \in Slots : Loading(i) \/ LoseLoad(i)
        \/ \E f \in Files : Uploading(f) \/ LoseUpload(f)
        \/ \E k \in Kinds : Calling(k) \/ LoseAnswer(k)

Spec == Init /\ [][Next]_vars

\* Requests are answered, the browser runs its callbacks and its timer, the
\* workers work.  SF where another user of the bounded load slots may be in the
\* way of a callback that the browser would simply run.
Fairness == /\ SF_vars(Poll)
            /\ WF_vars(Pipeline)
            /\ \A i \in Slots : WF_vars(Loading(i))
            /\ SF_vars(\E f \in Files : Uploading(f))
            /\ SF_vars(\E k \in Kinds : Calling(k))

FairSpec == Spec /\ Fairness

-----------------------------------------------------------------------------
\* Properties

\* Every variable keeps its type: a page shows what the API can send, an upload
\* client counts its slots between zero and UPLOAD_CONCURRENCY.
TypeOK ==
    /\ status \in {"none", "open", "processing", Terminal, "deleted"}
    /\ rows \in [Digests -> RowStates]
    /\ stored \subseteq Zips
    /\ visit \in 0..MaxVisits
    /\ page.screen \in {"list", "detail"}
    /\ page.batch \in Batch \cup {NoBatch}
    /\ page.uploads \in [Files -> UploadStates \cup {"none"}]
    /\ active \in [Visits -> 0..UploadConcurrency]
    /\ \A v \in Visits : ToSet(queue[v]) \subseteq Files

\* A file shown as uploaded or as a duplicate is in the batch: its recording
\* exists, or its ZIP waits in the bucket or has been expanded.
DoneIsStored == \A f \in Files :
    page.uploads[f] \in {"done", "duplicate"} /\ status # "deleted"
        => f \in stored \/ Digest[f] \in Existing

\* The Finalize button is never the one that starts an empty batch, however
\* old the counts on the page are: when the page's request is served there is
\* something to work on.
FinalizesSomething == [][
    call["finalize"].at = "sent" /\ call'["finalize"].at = "ok" => Existing # {} \/ stored # {}]_vars

Stage == [f \in Files |-> CASE leg[f] = "none" -> "none"
                           [] leg[f] = "queued" -> "waiting"
                           [] leg[f] = "settled" -> "settled"
                           [] OTHER -> "sending"]
Ledger == INSTANCE UploadLedger WITH Clients <- Visits, Limit <- UploadConcurrency,
                                     stage <- Stage, client <- owner

\* The upload client implements UploadLedger: at most UPLOAD_CONCURRENCY files
\* of a page are under way, a slot never idles while a file waits, and a file
\* is sent once, whatever fails on the way and whether or not its page was left.
UploadsKeepLedger == Ledger!Safety

\* The rest of the promise: every file that was dropped settles (pump, called
\* again from finally).
UploadsSettle == Ledger!AllSettle

\* A page that shows a batch in progress learns that it is not, or is left
\* (the poll lives as long as "processing" is shown, and outlives a failed load).
PageCatchesUp == page.batch.status = "processing"
                     ~> page.batch.status # "processing" \/ status = "deleted"
-----------------------------------------------------------------------------
\* Stated of the program and not true of it

\* A page finalizes with none of its uploads under way: the drop zone stays
\* open while the request is pending, and a page that is mounted again knows
\* nothing of the uploads of its earlier visit.  They end refused.
FinalizesAfterItsUploads == [][
    call["finalize"].at = "sent" /\ call'["finalize"].at = "ok"
        => \A f \in Files : leg[f] \in {"none", "settled"}]_vars

\* A page that shows an open batch learns that it is not open any more: the
\* load after a request is made once, and without its answer no poll starts.
PageLearnsOfFinalize == Detail /\ page.batch.status = "open" /\ status = Terminal
                            ~> ~Detail \/ page.batch.status # "open" \/ status # Terminal
=============================================================================
