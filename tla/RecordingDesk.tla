--------------------------- MODULE RecordingDesk ---------------------------
(***************************************************************************)
(* A reviewer's browser on the page of one recording, the panel with its   *)
(* evaluation runs, and the API and the pipeline behind them.              *)
(*                                                                         *)
(* The page loads three things on their own: the recording, its            *)
(* transcript, the list of its runs.  A load of the recording is sent,     *)
(* read by the API and answered, and may be overtaken by the next; the     *)
(* other two are read when they are answered.  The page polls only while   *)
(* the status it shows is one the pipeline moves through.  Whoever answers *)
(* a dialog does so on what the page showed when the dialog was opened,    *)
(* and the page may have moved on.  The pipeline is one step per commit    *)
(* that the page can see (SttStage and EvalStage have its inside).         *)
(***************************************************************************)
EXTENDS EvaluationRuns, SequencesExt

CONSTANTS Answers,     \* what the LLM can say: by key, a verdict and a score
          MaxLoads,    \* bound: loads of the recording in flight
          MaxRequests, \* bound: requests that change something
          MaxFaults    \* bound: lost answers

Calls   == {"reprocess", "rerun", "review", "override"}

ASSUME RecordingDeskAssumption ==
    /\ IsFiniteSet(Criteria)
    /\ ScoreType \in [Criteria -> {"pass_fail", "scale_1_5"}]
    /\ Weight \in [Criteria -> Nat]
    /\ Answers \subseteq [Criteria -> Entries]
    /\ MaxLoads \in Nat \ {0}
    /\ {MaxRequests, MaxFaults} \subseteq Nat

VARIABLES
    status,   \* the recording in the database
    text,     \* the version of its transcript, 0 for none
    worker,   \* the evaluate task: between its commits
    load,     \* the loads of the recording in flight
    asked,    \* what else is being loaded: transcript, runs
    call,     \* the request in flight, one at a time (a bound)
    requests, faults

server == <<status, text, runs, worker>>
bounds == <<requests, faults>>
vars   == <<status, text, runs, worker, page, load, asked, call, requests, faults>>

InFlight == {"uploaded", "converting", "transcribing", "evaluating"}
Busy     == {"converting", "transcribing", "evaluating"}
Statuses == InFlight \cup {"completed", "failed"}
Loading  == -2
Failed   == -1
Idle     == [at |-> "idle", kind |-> "none"]
Closed   == [key |-> {}, run |-> 0]

\* A run: the transcript it read, what the LLM said, the rows of its results
\* that exist, the ones a reviewer has overridden, and its review.
NewRun == [of |-> text, status |-> "running", answer |-> {}, over |-> {}, review |-> "unreviewed"]

\* Loading, failed, and without a transcript are values of their own; a failed
\* load after a first success leaves the recording and the runs as they are.
FreshPage == [rec |-> "loading", text |-> Loading, evals |-> [at |-> "loading", runs |-> <<>>],
              selected |-> 0, dialog |-> Closed, pending |-> "none"]

Sent == [at |-> "sent"]

Init ==
    /\ \/ status = "completed" /\ text = 1 /\ \E a \in Answers : runs = <<Complete(NewRun, a)>>
       \/ status = "evaluating" /\ text = 1 /\ \E a \in Answers : runs = <<Complete(NewRun, a)>>
       \/ status = "failed" /\ text = 0 /\ runs = <<>>
    /\ worker = "idle"
    /\ page = FreshPage
    /\ load = <<Sent>>
    /\ asked = {"text"}
    /\ call = Idle
    /\ requests = 0
    /\ faults = 0

-----------------------------------------------------------------------------
\* Loading

Room == Len(load) < MaxLoads
\* What is asked for beside the recording is sent at once.
Ask(what) == /\ asked' = asked \cup (what \ {"rec"})
             /\ IF "rec" \in what THEN Room /\ load' = Append(load, Sent) ELSE UNCHANGED load

\* (Faulty variant: the page polls in the status its panel polls in.)
PollEvaluating == /\ page.rec = "evaluating"
                  /\ Ask({"rec"})
                  /\ UNCHANGED <<server, page, call, bounds>>
\* The interval of the page and the interval of its panel.
PollRecording == /\ page.rec \in InFlight
                 /\ Ask({"rec"})
                 /\ UNCHANGED <<server, page, call, bounds>>

PollRuns == /\ page.rec = "evaluating"
            /\ Ask({"evals"})
            /\ UNCHANGED <<server, page, call, bounds>>

ServeRecording == \E i \in DOMAIN load :
    /\ load[i] = Sent
    /\ load' = [load EXCEPT ![i] = [at |-> "answer", rec |-> status]]
    /\ UNCHANGED <<server, page, asked, call, bounds>>

\* What the effects ask for when the shown status changes: the panel, which is
\* mounted with the first recording, reloads its runs; the end of the processing
\* reloads the transcript.
StatusEffects(old, new) ==
    IF old = new THEN {}
    ELSE {"evals"} \cup (IF new = "completed" /\ old # "loading" THEN {"text"} ELSE {})

\* loadRecording's continuation.
RecordingArrives == \E i \in DOMAIN load :
    /\ load[i].at = "answer"
    /\ load' = RemoveAt(load, i)
    /\ page' = [page EXCEPT !.rec = load[i].rec]
    /\ asked' = asked \cup StatusEffects(page.rec, load[i].rec)
    /\ UNCHANGED <<server, call, bounds>>

\* loadTranscript's continuation: 404 is "no transcript yet".
TranscriptArrives ==
    /\ "text" \in asked
    /\ asked' = asked \ {"text"}
    /\ page' = [page EXCEPT !.text = text]
    /\ UNCHANGED <<server, load, call, bounds>>

\* The continuation of the panel's load.
RunsArrive ==
    /\ "evals" \in asked
    /\ asked' = asked \ {"evals"}
    /\ page' = [page EXCEPT !.evals = [at |-> "shown", runs |-> runs]]
    /\ UNCHANGED <<server, load, call, bounds>>

\* A lost answer: the first one leaves the recording's page without a
\* recording, a later one changes nothing that is shown but the transcript.
LoseLoad ==
    /\ faults < MaxFaults
    /\ faults' = faults + 1
    /\ \/ \E i \in DOMAIN load : load' = RemoveAt(load, i) /\ UNCHANGED <<asked, page>>
       \/ /\ "text" \in asked /\ asked' = asked \ {"text"}
          /\ page' = [page EXCEPT !.text = Failed]
          /\ UNCHANGED load
       \/ /\ "evals" \in asked /\ asked' = asked \ {"evals"}
          /\ page' = [page EXCEPT !.evals.at = IF @ = "shown" THEN @ ELSE "error"]
          /\ UNCHANGED load
    /\ UNCHANGED <<server, call, requests>>

Arrive == RecordingArrives \/ TranscriptArrives \/ RunsArrive

-----------------------------------------------------------------------------
\* What the page offers

Open     == page.rec # "loading"
Shown    == page.evals.runs
HasRuns  == Shown # <<>>
\* The latest run, unless the reviewer picked another of the list.
Selected == IF page.selected \in DOMAIN Shown THEN page.selected ELSE Len(Shown)
\* Which of its bodies the panel has.
Body == IF HasRuns THEN Shown[Selected].status
        ELSE IF page.evals.at # "shown" THEN page.evals.at
        ELSE IF page.rec \in {"evaluating", "completed"} THEN page.rec ELSE "unprocessed"
RunShown == Open /\ HasRuns /\ Body = "completed"
NoDialog == page.dialog = Closed

PickRun(r) == /\ Open /\ NoDialog
              /\ Len(Shown) > 1 /\ r \in DOMAIN Shown /\ r # Selected
              /\ page' = [page EXCEPT !.selected = r]
              /\ UNCHANGED <<server, load, asked, call, bounds>>

ReprocessOffered == Open /\ page.rec \notin Busy /\ page.pending # "reprocess"
\* Evaluate, under an empty list of a completed recording, and Re-evaluate.
RerunOffered    == Open /\ IF HasRuns THEN page.rec # "evaluating" ELSE Body = "completed"
ReviewOffered   == RunShown
OverrideOffered == RunShown

\* The dialog is given a result of the run that is selected now.
OpenOverride == /\ requests < MaxRequests
                /\ OverrideOffered /\ NoDialog
                /\ \E k \in Criteria : page' = [page EXCEPT !.dialog = [key |-> k, run |-> Selected],
                                           !.pending = IF @ = "override" THEN "none" ELSE @]
                /\ UNCHANGED <<server, load, asked, call, bounds>>

Cancel == /\ ~NoDialog
          /\ page' = [page EXCEPT !.dialog = Closed, !.pending = IF @ = "override" THEN "none" ELSE @]
          /\ UNCHANGED <<server, load, asked, call, bounds>>

\* The button of a dialog that was closed and opened again is enabled while the
\* first request is pending; another request waits for it (the bound).
Send(c, run, what) == /\ call = Idle
                      /\ call' = [at |-> "sent", kind |-> c, run |-> run, what |-> what]
                      /\ page' = [page EXCEPT !.pending = c]
                      /\ requests < MaxRequests
                      /\ requests' = requests + 1
                      /\ UNCHANGED <<server, load, asked, faults>>

\* The item of the menu: from which stage.
OnReprocess == /\ ReprocessOffered /\ NoDialog
               /\ \E stage \in {"convert", "stt"} : Send("reprocess", 0, stage)
\* The dialogs of a re-evaluation and of a review hold nothing that is sent but
\* a note: they are opened and confirmed in one step, and an answer that comes
\* after one was closed does the same.
ConfirmRerun == RerunOffered /\ NoDialog /\ Send("rerun", 0, {})
SubmitReview == /\ ReviewOffered /\ NoDialog
                /\ \E action \in {"approved", "overridden"} : Send("review", Selected, action)
\* The dialog is drawn for the selected run of the moment and for the result it
\* was opened with.
SubmitOverride == /\ ~NoDialog /\ HasRuns
                  /\ Send("override", Selected, page.dialog.key)

-----------------------------------------------------------------------------
\* The API's handlers

Reprocess(stage) == /\ status' = IF stage = "convert" THEN "uploaded" ELSE "transcribing"
                    /\ UNCHANGED <<text, runs, worker>>
Rerun            == status' = "evaluating" /\ UNCHANGED <<text, runs, worker>>
Review(r, to)    == runs' = [runs EXCEPT ![r].review = to] /\ UNCHANGED <<status, text, worker>>
\* It asks for the result's row, not for the status of the run.
Override(r, k)   == /\ runs' = [runs EXCEPT ![r].over = @ \cup {k}, ![r].review = "overridden"]
                    /\ UNCHANGED <<status, text, worker>>

HasResults(r) == runs[r].answer # {}

Refuses(c, r) == CASE c = "reprocess" -> status \in Busy
                   [] c = "rerun"     -> status \in InFlight \/ text = 0
                   [] c = "review"    -> runs[r].status # "completed"
                   [] OTHER           -> ~HasResults(r)

Handler(c, r, what) == CASE c = "reprocess" -> Reprocess(what)
                         [] c = "rerun"     -> Rerun
                         [] c = "review"    -> Review(r, what)
                         [] OTHER           -> Override(r, what)

ServeCall ==
    /\ call.at = "sent"
    /\ IF Refuses(call.kind, call.run)
       THEN call' = [call EXCEPT !.at = "error"] /\ UNCHANGED server
       ELSE /\ Handler(call.kind, call.run, call.what)
            /\ call' = [call EXCEPT !.at = "ok", !.what = IF call.run = 0 THEN <<>> ELSE runs'[call.run]]
    /\ UNCHANGED <<page, load, asked, bounds>>

LoseAnswer == /\ faults < MaxFaults
              /\ faults' = faults + 1
              /\ call.at = "ok"
              /\ call' = [call EXCEPT !.at = "error"]
              /\ UNCHANGED <<server, page, load, asked, requests>>

\* replaceEval: the answer of a review or an override is the run itself.
Replaced(r, run) == IF r \in DOMAIN Shown THEN [Shown EXCEPT ![r] = run] ELSE Shown

\* (Faulty variant: the button comes back only after a success.)
ReleasedBySuccess(c, ok) == IF ok /\ page.pending = c THEN "none" ELSE page.pending
Released(c, ok)          == IF page.pending = c THEN "none" ELSE page.pending

\* The continuations of the four requests.  An answer of an override closes the
\* dialog that is open then; a queued re-evaluation follows the newest run.
CallEnds ==
    LET ok == call.at = "ok"
        c  == call.kind
        closed == IF ok /\ c = "override" THEN Closed ELSE page.dialog
        again == CASE ~ok -> {} [] c = "reprocess" -> {"rec"} [] c = "rerun" -> {"rec", "evals"} [] OTHER -> {}
    IN  /\ call.at \in {"ok", "error"}
        /\ call' = Idle
        /\ Ask(again)
        /\ page' = [page EXCEPT !.dialog = closed,
                                !.pending = Released(c, ok),
                                !.selected = IF ok /\ c = "rerun" THEN 0 ELSE @,
                                !.evals.runs = IF ok /\ c \in {"review", "override"}
                                               THEN Replaced(call.run, call.what) ELSE @]
        /\ UNCHANGED <<server, bounds>>

-----------------------------------------------------------------------------
\* The pipeline

Normalize == /\ \/ status = "uploaded" /\ status' = "converting"
                \/ status = "converting" /\ status' = "transcribing"
             /\ UNCHANGED <<text, runs, worker, page, load, asked, call, bounds>>

Transcribe == /\ status = "transcribing"
              /\ status' = "evaluating"
              /\ text' = text + 1
              /\ UNCHANGED <<runs, worker, page, load, asked, call, bounds>>

StageFails == /\ status \in {"converting", "transcribing"}
              /\ status' = "failed"
              /\ UNCHANGED <<text, runs, worker, page, load, asked, call, bounds>>

StartRun == /\ status = "evaluating" /\ worker = "idle"
            /\ runs' = Append(runs, NewRun)
            /\ worker' = "running"
            /\ UNCHANGED <<status, text, page, load, asked, call, bounds>>

\* The results and the run's status are one commit, the recording's another.
\* (Faulty variant: the results are committed before.)
FinishRunLate(a) == runs' = [runs EXCEPT ![Len(runs)].answer = {a}] /\ UNCHANGED status
FinishRun(a)     == runs' = [runs EXCEPT ![Len(runs)] = Complete(@, a)] /\ UNCHANGED status

EndRun == /\ worker = "running"
          /\ \/ \E a \in Answers : FinishRun(a) /\ worker' = "completed"
             \/ /\ runs' = [runs EXCEPT ![Len(runs)].status = "failed"]
                /\ UNCHANGED status
                /\ worker' = "failed"
          /\ UNCHANGED <<text, page, load, asked, call, bounds>>

EndEvaluation == /\ worker \in {"completed", "failed"}
                 /\ status' = worker
                 /\ worker' = "idle"
                 /\ UNCHANGED <<text, runs, page, load, asked, call, bounds>>

\* Another tab: the list's "Re-evaluate filtered" takes what is completed or
\* failed and has a transcript.
ReevaluateFromList == /\ requests < MaxRequests
                      /\ requests' = requests + 1
                      /\ status \in {"completed", "failed"} /\ text > 0
                      /\ Rerun
                      /\ UNCHANGED <<page, load, asked, call, faults>>

Browsing == \/ \E r \in DOMAIN Shown : PickRun(r)
            \/ OpenOverride \/ Cancel
            \/ OnReprocess \/ ConfirmRerun \/ SubmitReview \/ SubmitOverride
Polling  == PollRecording \/ PollRuns
Pipeline == Normalize \/ Transcribe \/ StageFails \/ StartRun \/ EndRun \/ EndEvaluation
Loads    == ServeRecording \/ Arrive
Calling  == ServeCall \/ CallEnds

Next == \/ Browsing \/ Polling \/ Pipeline \/ Loads \/ ReevaluateFromList
        \/ LoseLoad \/ Calling \/ LoseAnswer

Spec == Init /\ [][Next]_vars

\* The interval runs, requests are answered and their continuations run, the
\* pipeline works.  SF of what waits for a place among the bounded loads.
Fairness == /\ SF_vars(PollRecording)
            /\ WF_vars(Pipeline)
            /\ WF_vars(ServeRecording) /\ SF_vars(RecordingArrives)
            /\ WF_vars(TranscriptArrives) /\ WF_vars(RunsArrive)
            /\ SF_vars(Calling)

FairSpec == Spec /\ Fairness

-----------------------------------------------------------------------------
\* Properties

\* Every variable keeps its type: the page shows what the API can send, the
\* request and the loads in flight are the ones their handlers expect.
TypeOK ==
    /\ status \in Statuses
    /\ text \in 0..MaxRequests + 1
    /\ worker \in {"idle", "running", "completed", "failed"}
    /\ \A r \in DOMAIN runs : /\ runs[r].status \in {"running", "completed", "failed"}
                              /\ runs[r].answer \subseteq Answers
                              /\ runs[r].over \subseteq Criteria
                              /\ runs[r].review \in {"unreviewed", "approved", "overridden"}
    /\ page.rec \in Statuses \cup {"loading"}
    /\ page.text \in {Loading, Failed} \cup 0..text
    /\ Len(Shown) <= Len(runs)
    /\ page.pending \in Calls \cup {"none"}
    /\ Len(load) <= MaxLoads /\ asked \subseteq {"text", "evals"}

\* A page that shows a recording in progress learns that it is not, whatever
\* answers are lost on the way or come late (the poll lives as long as an
\* IN_FLIGHT status is shown).
StatusCatchesUp == page.rec \in InFlight ~> page.rec \notin InFlight

\* No button stays disabled: each request that is pending ends.
PendingEnds == page.pending # "none" ~> page.pending = "none"

-----------------------------------------------------------------------------
\* Stated of the program and not true of it

\* "replaces the model's verdict for this run only": the run of an override is
\* the one whose result the dialog was opened on.  A run that lands while the
\* dialog is open becomes the selected one.
OverrideStaysInItsRun == [][
    call.kind = "none" /\ call'.kind = "override" => call'.run = page.dialog.run]_vars

\* "results appear here automatically": the list of runs is loaded once when
\* the status shown changes; that answer may be lost, or be overtaken.
ResultsAppear == Open /\ HasRuns /\ Shown[Selected].status = "running"
                     ~> ~HasRuns \/ Shown[Selected].status # "running"

\* "When processing finishes, pick up the fresh transcript": only a status seen
\* to change loads it, so a reprocess between two polls, or one that fails
\* after the transcript, leaves the old one.
TranscriptCatchesUp == status = "completed" /\ page.rec = "completed" /\ page.text < text
                           ~> page.text = text \/ status # "completed"
=============================================================================
