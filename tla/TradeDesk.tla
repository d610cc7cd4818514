------------------------------ MODULE TradeDesk ------------------------------
(***************************************************************************)
(* The reconciliation page of one project and one trade date, the drawer   *)
(* in which a reviewer decides on a finding, the API's handlers, and the   *)
(* worker that reconciles the trades with the calls and carries decisions  *)
(* from run to run.                                                        *)
(*                                                                         *)
(* The page polls its list of runs while it shows one that is running.     *)
(* The findings of the selected run and tab are loaded when the selection  *)
(* or the status shown changes; answers arrive in any order and the last   *)
(* one to arrive is shown.  What the matching engine proposes is chosen    *)
(* from a set: calls are evaluated again and parameters change between     *)
(* two runs.  The importer (TradeImports has its inside) is one action     *)
(* here: it replaces the transactions and queues a run.                    *)
(***************************************************************************)
EXTENDS Integers, FiniteSets, FiniteSetsExt, SequencesExt

CONSTANTS Txns, Recs,
          Proposals,   \* what the engine can propose: by transaction, a call and a status
          Mark,        \* why a trade has no call, how suspicious a call without trade is
          Filters,     \* the filters a reviewer sets, None for no filter
          MaxRuns,     \* bound: runs
          MaxLoads,    \* bound: loads of findings in flight
          MaxRequests, \* bound: requests that change something
          MaxImports,  \* bound: imports that replace the transactions
          MaxFaults    \* bound: lost answers, killed workers, lost tasks

None    == "none"
Buckets == {"matched", "txn_no_recording", "recording_no_txn"}

ASSUME TradeDeskAssumption ==
    /\ IsFiniteSet(Txns) /\ IsFiniteSet(Recs) /\ None \notin Txns \cup Recs
    /\ Proposals \subseteq [Txns -> [rec : Recs \cup {None}, status : {"auto_matched", "needs_review"}]]
    /\ Mark \in [Txns \cup Recs -> STRING] /\ None \in Filters
    /\ {MaxRuns, MaxLoads} \subseteq Nat \ {0}
    /\ {MaxRequests, MaxImports, MaxFaults} \subseteq Nat

VARIABLES
    runs,   \* the runs in the database, by started_at
    page,   \* what the browser shows and remembers
    asked,  \* the list of runs is being loaded
    loads,  \* the loads of findings in flight: their queries
    call,   \* the request in flight, one at a time (a bound)
    requests, imports, faults

bounds == <<requests, imports, faults>>
vars   == <<runs, page, asked, loads, call, requests, imports, faults>>

Undecided == {"auto_matched", "needs_review", "unmatched"}
Decided   == {"confirmed", "rejected", "manual_linked"}

\* One finding.  An import sets the transaction of the old ones to null.
Finding(type, t, r, status, mark) == [type |-> type, txn |-> t, rec |-> r, status |-> status, mark |-> mark]

NoStats == [matched |-> 0, missing |-> 0, calls |-> 0, carried |-> 0]
\* A run is queued, or its task is lost, or the worker has read the decisions
\* it carries, or its transactions are gone since.
NewRun(at) == [at |-> at, seen |-> {}, items |-> <<>>, stats |-> NoStats]
StatusOf(run) == CASE run.at = "done" -> "completed" [] run.at = "failed" -> "failed" [] OTHER -> "running"

Idle    == [at |-> "idle", kind |-> "none"]
NoItems == [known |-> FALSE, rows |-> {}, error |-> FALSE]
NoItem  == <<0, 0>>

FreshPage == [known |-> FALSE, error |-> FALSE, list |-> <<>>, selected |-> 0,
              tab |-> "matched", filter |-> None, items |-> NoItems, drawer |-> NoItem,
              pending |-> FALSE, creating |-> FALSE]

-----------------------------------------------------------------------------
\* The worker

\* What run_match lists: each trade with its call or without, each call that
\* no trade was given.
Missing(p) == {t \in Txns : p[t].rec = None}
Silent(p)  == Recs \ {p[t].rec : t \in Txns}
Engine(p) == {Finding("matched", t, p[t].rec, p[t].status, None) : t \in Txns \ Missing(p)}
             \cup {Finding("txn_no_recording", t, None, "unmatched", Mark[t]) : t \in Missing(p)}
             \cup {Finding("recording_no_txn", None, r, "unmatched", Mark[r]) : r \in Silent(p)}

Key(item) == <<item.type, item.txn, item.rec>>

\* The completed run that started last.
Previous(r) == {q \in DOMAIN runs \ {r} : runs[q].at = "done"}
DecidedOf(r) == IF Previous(r) = {} THEN {}
                ELSE {item \in ToSet(runs[Max(Previous(r))].items) : item.status \in Decided}
\* A dictionary by key: of equal keys the row that is read last stays.
Carried(r) == {c \in SUBSET DecidedOf(r) :
    \A item \in DecidedOf(r) : Cardinality({i \in c : Key(i) = Key(item)}) = 1}

\* make_item: an old decision on the same finding.
Apply(item, seen) == LET old == {o \in seen : Key(o) = Key(item)}
                     IN  IF old = {} THEN item ELSE [item EXCEPT !.status = (CHOOSE o \in old : TRUE).status]
\* (Faulty variant: only links made by hand survive.)
SurvivesLinked(item, p) == /\ item.status = "manual_linked"
                           /\ Key(item) \notin {Key(i) : i \in Engine(p)}
\* Decisions on findings the engine does not propose any more.
Survives(item, p) == /\ item.status \in {"manual_linked", "confirmed"}
                     /\ Key(item) \notin {Key(i) : i \in Engine(p)}
AsMatched(item) == [item EXCEPT !.type = "matched"]

Items(p, seen) ==
    LET rest == SetToSeq({o \in seen : Survives(o, p)})
    IN  SetToSeq({Apply(item, seen) : item \in Engine(p)}) \o [i \in DOMAIN rest |-> AsMatched(rest[i])]
Stats(p, seen) ==
    [matched |-> Cardinality(Txns \ Missing(p)), missing |-> Cardinality(Missing(p)),
     calls   |-> Cardinality(Silent(p)),
     carried |-> Cardinality({o \in seen : Survives(o, p) \/ Key(o) \in {Key(i) : i \in Engine(p)}})]

ReadRun(r) == /\ runs[r].at = "queued"
              /\ \E seen \in Carried(r) : runs' = [runs EXCEPT ![r].at = "read", ![r].seen = seen]
              /\ UNCHANGED <<page, asked, loads, call, bounds>>

CommitRun(r) == /\ runs[r].at = "read"
                /\ \E p \in Proposals :
                    runs' = [runs EXCEPT ![r].at = "done", ![r].items = Items(p, runs[r].seen),
                                         ![r].stats = Stats(p, runs[r].seen)]
                /\ UNCHANGED <<page, asked, loads, call, bounds>>

\* Rolled back, and failed in a transaction of its own.
FailRun(r) == /\ runs[r].at = "doomed"
              /\ runs' = [runs EXCEPT ![r].at = "failed"]
              /\ UNCHANGED <<page, asked, loads, call, bounds>>

Reconcile == \E r \in DOMAIN runs : ReadRun(r) \/ CommitRun(r) \/ FailRun(r)

\* A killed worker's task is delivered again, and the run is still running.
Redeliver == /\ faults < MaxFaults /\ faults' = faults + 1
             /\ \E r \in DOMAIN runs : /\ runs[r].at \in {"read", "doomed"}
                                       /\ runs' = [runs EXCEPT ![r].at = "queued", ![r].seen = {}]
             /\ UNCHANGED <<page, asked, loads, call, requests, imports>>

\* An import of the date: new rows for its transactions, SET NULL in the old
\* findings, a run.  A run that has read them cannot insert its findings.
Import == /\ imports < MaxImports /\ imports' = imports + 1
          /\ Len(runs) < MaxRuns
          /\ runs' = Append([r \in DOMAIN runs |->
                 [runs[r] EXCEPT !.items = [i \in DOMAIN @ |-> [@[i] EXCEPT !.txn = None]],
                                 !.at = IF @ = "read" THEN "doomed" ELSE @]], NewRun("queued"))
          /\ UNCHANGED <<page, asked, loads, call, requests, faults>>

-----------------------------------------------------------------------------
\* Loading

Query(pg) == [run |-> pg.selected, bucket |-> pg.tab, filter |-> pg.filter]
StatusShown(pg, r) == IF r \in DOMAIN pg.list THEN pg.list[r].status ELSE "none"

\* list_items: the rows of a bucket that pass its filter.
Matches(item, q) == /\ item.type = q.bucket
                    /\ q.filter \in {None, IF q.bucket = "matched" THEN item.status ELSE item.mark}
Rows(q) == {[id |-> <<q.run, i>>, item |-> runs[q.run].items[i]] :
               i \in {j \in DOMAIN runs[q.run].items : Matches(runs[q.run].items[j], q)}}

\* (Faulty variant: the effect does not depend on the status of the run.)
ChangesByQuery(new) == Query(new) # Query(page)
\* What the effect on the findings depends on.
Changes(new) == \/ Query(new) # Query(page)
                \/ StatusShown(new, new.selected) # StatusShown(page, page.selected)
\* The page becomes new: the effect empties the findings and loads the others.
Become(new) ==
    IF Changes(new)
    THEN /\ page' = [new EXCEPT !.items = NoItems]
         /\ IF StatusShown(new, new.selected) = "completed"
            THEN /\ loads' = loads \cup {Query(new)}
                 /\ Cardinality(loads') <= MaxLoads
            ELSE UNCHANGED loads
    ELSE page' = new /\ UNCHANGED loads

FirstBucket(s) == IF s.matched + s.carried > 0 THEN "matched"
                  ELSE IF s.missing > 0 THEN "txn_no_recording"
                  ELSE IF s.calls > 0 THEN "recording_no_txn" ELSE "matched"

Bucket(pg, b, f) == [pg EXCEPT !.tab = b, !.filter = f, !.drawer = NoItem, !.pending = FALSE]

\* The effects on another selection: the first bucket that has findings, as far
\* as the list knows, and the filters reset.
Select(pg, r) == LET sel == [pg EXCEPT !.selected = r]
                 IN  Bucket(sel, IF StatusShown(pg, r) = "completed" THEN FirstBucket(pg.list[r].stats)
                                 ELSE pg.tab, None)

Listed == [r \in DOMAIN runs |-> [status |-> StatusOf(runs[r]), stats |-> runs[r].stats]]

\* The interval of the list.
PollRuns == /\ \E r \in DOMAIN page.list : page.list[r].status = "running"
            /\ ~asked /\ asked' = TRUE
            /\ UNCHANGED <<runs, page, loads, call, bounds>>

\* runFor waits for this load before it ends.
Created == call.kind = "create" /\ page.creating

\* loadRuns' continuation, and the default selection.
RunsArrive ==
    LET new == [page EXCEPT !.known = TRUE, !.error = FALSE, !.list = Listed, !.creating = Created]
    IN  /\ asked /\ asked' = FALSE
        /\ Become(IF page.selected = 0 /\ runs # <<>> THEN Select(new, Len(runs)) ELSE new)
        /\ UNCHANGED <<runs, call, bounds>>

\* The continuation of loadItems, whichever query the page is at by now.
ItemsArrive(q) == /\ q \in loads /\ loads' = loads \ {q}
                  /\ page' = [page EXCEPT !.items = [known |-> TRUE, rows |-> Rows(q), error |-> FALSE]]
                  /\ UNCHANGED <<runs, asked, call, bounds>>

\* A lost answer: stale runs are kept, findings are replaced by an error.
LoseLoad == /\ faults < MaxFaults /\ faults' = faults + 1
            /\ \/ /\ asked /\ asked' = FALSE
                  /\ page' = [page EXCEPT !.error = ~page.known, !.creating = Created]
                  /\ UNCHANGED loads
               \/ /\ \E q \in loads : loads' = loads \ {q}
                  /\ page' = [page EXCEPT !.items.error = TRUE]
                  /\ UNCHANGED asked
            /\ UNCHANGED <<runs, call, requests, imports>>

-----------------------------------------------------------------------------
\* What the page offers

\* The header, the tabs and the findings belong to a run of the list.
Selected == page.selected \in DOMAIN page.list
Browse(new) == Become(new) /\ UNCHANGED <<runs, asked, call, bounds>>

\* A row of the runs.
SelectRun(r) == /\ r \in DOMAIN page.list /\ r # page.selected
                /\ Browse(Select(page, r))

\* A tab; a tile leads to a bucket with a filter.
GoTab(b) == Selected /\ b # page.tab /\ Browse(Bucket(page, b, None))
Tiles == {<<"matched", "auto_matched">>, <<"matched", "needs_review">>, <<"txn_no_recording", None>>,
          <<"recording_no_txn", "suspicious">>, <<"recording_no_txn", "info">>}
GoTile == /\ Selected /\ page.list[page.selected].status = "completed"
          /\ \E tile \in Tiles : tile[2] \in Filters /\ Browse(Bucket(page, tile[1], tile[2]))

\* The filter above the findings.
FiltersOf(b) == Filters \cap ({None} \cup CASE b = "matched" -> Undecided \cup Decided
                                          [] b = "txn_no_recording" -> {Mark[t] : t \in Txns}
                                          [] OTHER -> {"suspicious", "info"})
SetFilter(f) == /\ Selected /\ f # page.filter
                /\ Browse([page EXCEPT !.filter = f])

\* Which body the card of the findings has.
Body == IF page.list[page.selected].status # "completed" THEN page.list[page.selected].status
        ELSE IF page.items.error THEN "error" ELSE IF page.items.known THEN "rows" ELSE "loading"

\* The drawer is open while its finding is among the rows.
InDrawer == {row \in page.items.rows : row.id = page.drawer}

OpenDrawer(id) == /\ Selected /\ Body = "rows" /\ InDrawer = {}
                  /\ id \in {row.id : row \in page.items.rows}
                  /\ page' = [page EXCEPT !.drawer = id, !.pending = FALSE]
                  /\ UNCHANGED <<runs, asked, loads, call, bounds>>
CloseDrawer == /\ InDrawer # {}
               /\ page' = [page EXCEPT !.drawer = NoItem, !.pending = FALSE]
               /\ UNCHANGED <<runs, asked, loads, call, bounds>>

\* A request carries the query of the moment: the refresh that follows its
\* answer is for that one.
Send(c, id, what) == /\ call = Idle
                     /\ requests < MaxRequests /\ requests' = requests + 1
                     /\ call' = [at |-> "sent", kind |-> c, id |-> id, what |-> what, of |-> Query(page)]
                     /\ UNCHANGED <<runs, asked, loads, imports, faults>>

\* "Run reconciliation", and "Re-run" of a run that is not running.
OnRun == /\ ~page.creating
         /\ Send("create", NoItem, None)
         /\ page' = [page EXCEPT !.creating = TRUE]

InDrawerSend(c, what) == /\ Selected /\ ~page.pending
                         /\ Send(c, page.drawer, what)
                         /\ page' = [page EXCEPT !.pending = TRUE]

OnDecide == /\ InDrawer # {}
            /\ \E action \in {"confirm", "reject"} : InDrawerSend("decide", action)
\* The suggested calls, and those of the day.
OnManualLink == /\ \E row \in InDrawer : row.item.type = "txn_no_recording"
                /\ \E r \in Recs : InDrawerSend("link", [rec |-> r, txn |-> None])
\* The trades of the day, for a call.
OnLinkTransaction == \E row \in InDrawer :
    /\ row.item.type = "recording_no_txn" /\ row.item.rec # None
    /\ \E t \in Txns : InDrawerSend("link", [rec |-> row.item.rec, txn |-> t])

-----------------------------------------------------------------------------
\* The API's handlers

\* create_run refuses while calls of the dates are being processed; its task is
\* queued after the commit, and may be lost.
CreateRun == /\ Len(runs) < MaxRuns
             /\ \/ runs' = Append(runs, NewRun("queued")) /\ UNCHANGED faults
                \/ /\ faults < MaxFaults /\ faults' = faults + 1
                   /\ runs' = Append(runs, NewRun("lost"))

Decide(id, action) == runs' = [runs EXCEPT ![id[1]].items[id[2]].status =
                                  IF action = "confirm" THEN "confirmed" ELSE "rejected"]

\* (Faulty variant: the counterparts are left alone.)
ResolvedNone(item, t, r) == item
\* The other findings of the run about the same call.
Resolved(item, t, r) == IF item.rec = r /\ item.status = "unmatched"
                        THEN [item EXCEPT !.status = "manual_linked", !.txn = t] ELSE item

TxnOf(id, link) == IF link.txn # None THEN link.txn ELSE runs[id[1]].items[id[2]].txn
ManualLink(id, link) ==
    LET t == TxnOf(id, link)
    IN  runs' = [runs EXCEPT ![id[1]].items = [i \in DOMAIN @ |->
            IF i = id[2] THEN Finding("matched", t, link.rec, "manual_linked", "info")
            ELSE Resolved(@[i], t, link.rec)]]

Answered == [call EXCEPT !.at = "ok", !.what = IF call.kind = "create" THEN Len(runs')
                                               ELSE runs'[call.id[1]].items[call.id[2]]]
Refused  == [call EXCEPT !.at = "error"]

ServeCall ==
    /\ call.at = "sent"
    /\ \/ call.kind = "create" /\ CreateRun /\ call' = Answered
       \/ call.kind = "create" /\ call' = Refused /\ UNCHANGED <<runs, faults>>
       \/ /\ call.kind = "decide" /\ Decide(call.id, call.what) /\ call' = Answered /\ UNCHANGED faults
       \/ /\ call.kind = "link" /\ UNCHANGED faults
          /\ IF TxnOf(call.id, call.what) = None
             THEN call' = Refused /\ UNCHANGED runs
             ELSE ManualLink(call.id, call.what) /\ call' = Answered
    /\ UNCHANGED <<page, asked, loads, requests, imports>>

LoseAnswer == /\ faults < MaxFaults /\ faults' = faults + 1
              /\ call.at = "ok" /\ call' = Refused
              /\ UNCHANGED <<runs, page, asked, loads, requests, imports>>

\* The continuation of runFor: the new run is selected before the list has it.
CreateEnds == /\ call.kind = "create" /\ call.at \in {"ok", "error"}
              /\ call' = Idle
              /\ IF call.at = "ok" THEN Become(Select(page, call.what)) /\ asked' = TRUE
                 ELSE /\ page' = [page EXCEPT !.creating = FALSE]
                      /\ UNCHANGED <<asked, loads>>
              /\ UNCHANGED <<runs, bounds>>

\* onItemUpdated: the row is replaced, and the findings are loaded again.
Updated(rows) == {IF row.id = call.id THEN [row EXCEPT !.item = call.what] ELSE row : row \in rows}
ReviewEnds == /\ call.kind \in {"decide", "link"} /\ call.at \in {"ok", "error"}
              /\ call' = Idle
              /\ IF call.at = "ok"
                 THEN /\ page' = [page EXCEPT !.items.rows = Updated(@), !.pending = FALSE]
                      /\ loads' = loads \cup {call.of} /\ Cardinality(loads') <= MaxLoads
                 ELSE page' = [page EXCEPT !.pending = FALSE] /\ UNCHANGED loads
              /\ UNCHANGED <<runs, asked, bounds>>

-----------------------------------------------------------------------------

\* A first run, and the same after a reviewer has confirmed what it found.
First(p) == [NewRun("done") EXCEPT !.items = Items(p, {}), !.stats = Stats(p, {})]
Reviewed(run) == [run EXCEPT !.items = [i \in DOMAIN @ |-> [@[i] EXCEPT !.status = "confirmed"]]]

Init ==
    /\ \/ runs = <<>>
       \/ \E p \in Proposals : runs = <<First(p)>> \/ runs = <<Reviewed(First(p))>>
    /\ page = FreshPage
    /\ asked = TRUE
    /\ loads = {}
    /\ call = Idle
    /\ requests = 0 /\ imports = 0 /\ faults = 0

Browsing == \/ \E r \in DOMAIN page.list : SelectRun(r)
            \/ \E b \in Buckets : GoTab(b)
            \/ GoTile
            \/ \E f \in FiltersOf(page.tab) : SetFilter(f)
            \/ \E row \in page.items.rows : OpenDrawer(row.id)
            \/ CloseDrawer
Reviewing == OnRun \/ OnDecide \/ OnManualLink \/ OnLinkTransaction
Loading   == RunsArrive \/ (\E q \in loads : ItemsArrive(q))
Calling   == ServeCall \/ CreateEnds \/ ReviewEnds

Next == \/ Browsing \/ Reviewing \/ PollRuns \/ Loading \/ Calling \/ Reconcile
        \/ Redeliver \/ Import \/ LoseLoad \/ LoseAnswer

Spec == Init /\ [][Next]_vars

\* The interval runs, answers arrive and their continuations run.
Fairness == WF_vars(PollRuns) /\ WF_vars(RunsArrive) /\ WF_vars(\E q \in loads : ItemsArrive(q))
FairSpec == Spec /\ Fairness

-----------------------------------------------------------------------------
\* Properties

\* Every variable keeps its type: the page shows what the API can send, and a
\* load in flight asks for a run that exists.
TypeOK ==
    /\ Len(runs) <= MaxRuns
    /\ \A r \in DOMAIN runs : /\ runs[r].at \in {"queued", "lost", "read", "doomed", "done", "failed"}
                              /\ \A i \in DOMAIN runs[r].items :
                                    LET item == runs[r].items[i]
                                    IN  /\ item.type \in Buckets
                                        /\ item.txn \in Txns \cup {None} /\ item.rec \in Recs \cup {None}
                                        /\ item.status \in Undecided \cup Decided
    /\ page.selected \in 0..Len(runs) /\ page.tab \in Buckets
    /\ Len(page.list) <= Len(runs)
    /\ \A q \in loads : q.run \in DOMAIN runs /\ q.bucket \in Buckets
    /\ asked \in BOOLEAN

\* A call that a reviewer has linked to a trade is not listed as one without a
\* trade in the same run, until the next run ("Sibling items in the same run
\* referencing the counterpart are resolved as manual_linked too").
LinkResolvesTheCall == \A r \in DOMAIN runs : runs[r].stats.carried = 0 =>
    \A i, j \in DOMAIN runs[r].items :
        LET linked == runs[r].items[i]  other == runs[r].items[j]
        IN  /\ linked.status = "manual_linked" /\ other.rec = linked.rec
            => other.status # "unmatched"

\* The pairs a reviewer has confirmed or linked, as far as the worker has read
\* them, are all in the run it completes, decided, whether or not the engine
\* proposes them again ("survive as explicit items").
NoPairLost == [][\A r \in DOMAIN runs : runs[r].at = "read" /\ runs'[r].at = "done" =>
    \A old \in runs[r].seen : old.status \in {"confirmed", "manual_linked"} =>
        \E i \in DOMAIN runs'[r].items :
            LET new == runs'[r].items[i]
            IN  new.txn = old.txn /\ new.rec = old.rec /\ new.status \in {"confirmed", "manual_linked"}]_vars

\* "Reconciliation in progress -- items appear when it completes": once a run
\* that the page shows as running has ended, the page shows its end, with its
\* findings or the error of loading them, unless another run is selected.
ResultAppears == \A r \in 1..MaxRuns :
    /\ page.selected = r /\ StatusShown(page, r) = "running"
    /\ r \in DOMAIN runs /\ runs[r].at \in {"done", "failed"}
    ~> \/ page.selected # r \/ StatusShown(page, r) = "failed"
       \/ StatusShown(page, r) = "completed" /\ (page.items.known \/ page.items.error)

-----------------------------------------------------------------------------
\* Stated of the program and not true of it

\* "Works from either bucket ... Sibling items in the same run referencing the
\* counterpart are resolved": linking a call to a trade leaves the finding that
\* the trade has no recording.
LinkResolvesTheCounterpart == \A r \in DOMAIN runs : runs[r].stats.carried = 0 =>
    \A i, j \in DOMAIN runs[r].items :
        LET linked == runs[r].items[i]  other == runs[r].items[j]
        IN  /\ linked.status = "manual_linked" /\ linked.txn # None
            /\ other.rec = linked.rec \/ other.txn = linked.txn
            => other.status # "unmatched"

\* "so confirm/reject/manual-link work is never redone": the trade of a link
\* made by hand, or its call, is reported again as without the other.
LinkIsNotRedone == \A r \in DOMAIN runs : \A i, j \in DOMAIN runs[r].items :
    LET linked == runs[r].items[i]  other == runs[r].items[j]
    IN  /\ linked.status = "manual_linked" /\ other.rec = linked.rec
        => other.status # "unmatched"

\* "(keyed by transaction/recording identity)": a decision taken before an
\* import or while a run is computed is not in the run that completes after it.
ReviewSurvives == [][\A r \in DOMAIN runs : runs[r].at = "read" /\ runs'[r].at = "done" =>
    \A old \in DecidedOf(r) : old.status = "confirmed" =>
        \E i \in DOMAIN runs'[r].items : Key(runs'[r].items[i]) = Key(old)
                                         /\ runs'[r].items[i].status = "confirmed"]_vars

\* "jump to the first bucket that has findings -- so the reviewer isn't staring
\* at an empty Matched tab": a run that completes while it is selected does not.
OpensOnFindings == Selected /\ Body = "rows" /\ page.filter = None /\ page.tab = "matched"
    => LET s == page.list[page.selected].stats
       IN  s.matched + s.carried = 0 => s.missing + s.calls = 0

\* The findings under the header of a run are findings of that run and tab: an
\* answer that was overtaken is shown all the same.
RowsBelong == Selected /\ loads = {} => \A row \in page.items.rows :
    row.id[1] = page.selected /\ (row.item.type = page.tab \/ call # Idle)
=============================================================================
