------------------------------ MODULE RubricDesk ------------------------------
(***************************************************************************)
(* The evaluator page of a project: the tabs with its criteria, extraction *)
(* fields, checklist and industry terms, each a list with a dialog, and    *)
(* the panel that drafts a rubric from a description; and the API behind   *)
(* them, one table for each section.                                       *)
(*                                                                         *)
(* A tab that is left is unmounted: its state goes, and what it has sent   *)
(* goes on.  Other administrators write to the same tables meanwhile.      *)
(***************************************************************************)
EXTENDS Integers, FiniteSets, Sequences

CONSTANTS MaxKey,      \* bound: keys, numbered in their alphabetical order
          FormOrders,  \* bound: sort orders that the dialogs give
          SeedOrders,  \* the sort orders of the checklist there is in the beginning
          MaxRows,     \* bound: rows of all sections
          MaxRequests, \* bound: saves, deletions, moves, imports
          MaxSaves,    \* bound: saves of a draft
          MaxFaults    \* bound: lost answers and writes of other administrators

ASSUME RubricAssumption == /\ {MaxKey, MaxRows, MaxRequests, MaxSaves, MaxFaults} \subseteq Nat
                           /\ FormOrders \subseteq Nat /\ SeedOrders \subseteq [1..3 -> Nat]

Sections == {"criteria", "fields", "checklist", "terms"}
Keys     == 1..MaxKey

VARIABLES
    rows,    \* every row there was, in the order of their creation
    tab,     \* the tab that is shown
    list,    \* the section's list
    asked,   \* it is being loaded
    filter,  \* the category the terms are filtered by, if any
    modal,   \* the dialog that is open
    call,    \* the section's request that changes something, one at a time (a bound)
    move,    \* the reordering that is under way
    panel,   \* the panel that drafts
    posts,   \* the requests that save a draft
    requests, saves, faults

browser == <<tab, list, asked, filter, modal, call, move, panel, posts>>
bounds == <<requests, saves, faults>>
vars   == <<rows, browser, bounds>>

-----------------------------------------------------------------------------
\* Rows.  A term has a canonical name for a key and a category for an order.

Row(s, b) == [sec |-> s, key |-> b.key, order |-> b.order, there |-> TRUE,
              locked |-> FALSE, drafted |-> 0]

In(s) == {r \in DOMAIN rows : rows[r].there /\ rows[r].sec = s}
Taken(s, k, id) == \E r \in In(s) \ {id} : rows[r].key = k

Before(r, q) == \/ rows[r].order < rows[q].order
                \/ rows[r].order = rows[q].order /\ rows[r].key < rows[q].key
\* The rows of a section as the API lists them.
Listed(s) ==
    [i \in 1..Cardinality(In(s)) |->
        LET r == CHOOSE r \in In(s) : Cardinality({q \in In(s) : Before(q, r)}) = i - 1
        IN  [id |-> r, key |-> rows[r].key, order |-> rows[r].order, locked |-> rows[r].locked]]

-----------------------------------------------------------------------------
\* Loading a section

Unloaded == [known |-> FALSE, error |-> FALSE, rows |-> <<>>]
Closed   == [at |-> "none", id |-> 0, pending |-> FALSE]
Idle     == [at |-> "idle", kind |-> "none", sec |-> "none", id |-> 0,
             body |-> [key |-> 0, order |-> 0], twice |-> FALSE, here |-> FALSE]
Still    == [at |-> "no", item |-> 0, other |-> 0,
             body |-> [key |-> 0, order |-> 0], result |-> <<>>, clean |-> FALSE]
Empty    == [at |-> "empty", picked |-> {}, try |-> 0]

\* The list is taken away while it is loaded, its error is not.
Load == asked' = TRUE /\ list' = [list EXCEPT !.known = FALSE, !.rows = <<>>]

Arrives(s) == /\ tab = s /\ asked /\ asked' = FALSE
              /\ list' = [known |-> TRUE, error |-> FALSE, rows |-> Listed(s)]
              /\ UNCHANGED <<rows, tab, filter, modal, call, move, panel, posts, bounds>>
LoadCriteria  == Arrives("criteria")
LoadFields    == Arrives("fields")
LoadChecklist == Arrives("checklist")
LoadTerms     == Arrives("terms")

LoseLoad == /\ faults < MaxFaults /\ faults' = faults + 1
            /\ asked /\ asked' = FALSE /\ list' = [list EXCEPT !.error = TRUE]
            /\ UNCHANGED <<rows, tab, filter, modal, call, move, panel, posts, requests, saves>>

SetTab(t) == /\ tab' = t /\ t # tab
             /\ asked' = (t # "generate") /\ list' = Unloaded
             /\ filter' = {} /\ modal' = Closed
             /\ call' = [call EXCEPT !.here = FALSE]
             /\ panel' = Empty
             /\ UNCHANGED <<rows, move, posts, bounds>>

-----------------------------------------------------------------------------
\* The dialogs of the sections

\* A page that has saved a draft changes nothing else, nor the other way round
\* (a bound).
MayAsk  == requests < MaxRequests /\ panel.at = "empty" /\ posts = {}
MaySave == saves < MaxSaves /\ requests = 0

Show(new) == /\ modal' = new
             /\ UNCHANGED <<rows, tab, list, asked, filter, call, move, panel, posts, bounds>>
Send(c, new) == /\ call = Idle /\ call' = [c EXCEPT !.at = "sent", !.sec = tab, !.here = TRUE]
                /\ MayAsk /\ requests' = requests + 1
                /\ modal' = new
                /\ UNCHANGED <<rows, tab, list, asked, filter, panel, posts, saves, faults>>

Openable == modal = Closed /\ MayAsk
Shown == IF list.known /\ ~list.error THEN {list.rows[i] : i \in DOMAIN list.rows} ELSE {}

\* The rows that have buttons.
CriteriaTable  == IF tab = "criteria" THEN Shown ELSE {}
FieldsTable    == IF tab = "fields" THEN {r \in Shown : ~r.locked} ELSE {}
ChecklistTable == IF tab = "checklist" THEN Shown ELSE {}
TermsTable     == IF tab = "terms" THEN {r \in Shown : filter = {} \/ r.order \in filter} ELSE {}
Buttons == CriteriaTable \cup FieldsTable \cup ChecklistTable \cup TermsTable

\* A new dialog opens from the section's header also when its list failed.
AddCriterion == tab = "criteria" /\ Openable /\ Show([Closed EXCEPT !.at = "new"])
AddField     == tab = "fields" /\ Openable /\ Show([Closed EXCEPT !.at = "new"])
AddItem      == tab = "checklist" /\ Openable /\ Show([Closed EXCEPT !.at = "new"])
AddTerm      == tab = "terms" /\ Openable /\ Show([Closed EXCEPT !.at = "new"])

Edit(r)      == Openable /\ Show([at |-> "edit", id |-> r.id, pending |-> FALSE])
AskDelete(r) == Openable /\ Show([at |-> "delete", id |-> r.id, pending |-> FALSE])
Close        == modal # Closed /\ Show(Closed)

\* What a form may send: a key and an order that pass its checks.
Bodies == [key : Keys, order : FormOrders]
CriterionForm == IF tab = "criteria" THEN Bodies ELSE {}
FieldForm     == IF tab = "fields" THEN Bodies ELSE {}
ItemForm      == IF tab = "checklist" THEN Bodies ELSE {}
TermForm      == IF tab = "terms" THEN Bodies ELSE {}

Submit(b) == /\ modal.at \in {"new", "edit"} /\ ~modal.pending
             /\ Send([Idle EXCEPT !.kind = modal.at, !.id = modal.id, !.body = b],
                     [modal EXCEPT !.pending = TRUE])
             /\ UNCHANGED move
SubmitCriterion == \E b \in CriterionForm : Submit(b)
SubmitField     == \E b \in FieldForm : Submit(b)
SubmitItem      == \E b \in ItemForm : Submit(b)
SubmitTerm      == \E b \in TermForm : Submit(b)

Delete(s) == /\ tab = s /\ modal.at = "delete" /\ ~modal.pending
             /\ Send([Idle EXCEPT !.kind = "delete", !.id = modal.id], [modal EXCEPT !.pending = TRUE])
             /\ UNCHANGED move
DeleteCriterion == Delete("criteria")
DeleteField     == Delete("fields")
DeleteItem      == Delete("checklist")
DeleteTerm      == Delete("terms")

\* Filtered by a category that the list has.
FilterTerms(c) == /\ tab = "terms" /\ modal = Closed /\ filter' = c /\ c # filter
                  /\ c \subseteq {r.order : r \in Shown}
                  /\ UNCHANGED <<rows, tab, list, asked, modal, call, move, panel, posts, bounds>>

\* A file of one term, or one that names its term twice.
OnCsvPicked == /\ tab = "terms" /\ modal = Closed
               /\ \E b \in Bodies, twice \in BOOLEAN :
                    Send([Idle EXCEPT !.kind = "import", !.body = b, !.twice = twice], modal)
               /\ UNCHANGED move

-----------------------------------------------------------------------------
\* Moving an item of the checklist up or down

At(i) == list.rows[i]
BodyWithOrder(row, o) == [key |-> row.key, order |-> o]
Distinct(l) == \A i, j \in DOMAIN l : l[i].order = l[j].order => i = j
Swapped(l, i, j) == [l EXCEPT ![i] = l[j], ![j] = l[i]]
Ids(l) == [i \in DOMAIN l |-> l[i].id]

\* The orders that the item and its neighbour get, for places from 0 on.
\* (Faulty variant: just past the neighbour.)
OrdersPast(i, j) == <<At(j).order + (j - i), At(j).order>>
Orders(i, j) == IF At(i).order # At(j).order THEN <<At(j).order, At(i).order>> ELSE <<j - 1, i - 1>>

\* result: the order of the items that the move is for; clean: the list is what
\* the table has, no two orders are the same, and nobody else has written yet.
Move(i, j) ==
    /\ tab = "checklist" /\ ChecklistTable # {} /\ modal = Closed
    /\ {i, j} \subseteq DOMAIN list.rows
    /\ move' = [at |-> "first", item |-> At(i).id, other |-> At(j).id,
                body |-> BodyWithOrder(At(j), Orders(i, j)[2]),
                result |-> Ids(Swapped(list.rows, i, j)),
                clean |-> list.rows = Listed("checklist") /\ Distinct(list.rows)]
    /\ Send([Idle EXCEPT !.kind = "edit", !.id = At(i).id,
                !.body = BodyWithOrder(At(i), Orders(i, j)[1])], modal)
MoveUp   == \E i \in DOMAIN list.rows : i > 1 /\ Move(i, i - 1)
MoveDown == \E i \in DOMAIN list.rows : Move(i, i + 1)

\* The first went well: the second is sent, whatever tab is shown by now.
MoveOther == /\ move.at = "first" /\ call.at = "ok"
             /\ move' = [move EXCEPT !.at = "second"]
             /\ call' = [call EXCEPT !.at = "sent", !.id = move.other, !.body = move.body]
             /\ UNCHANGED <<rows, tab, list, asked, filter, modal, panel, posts, bounds>>

\* It ends with a load, or with the error in the place of the list.
MoveEnds == /\ \/ move.at # "no" /\ call.at = "error"
               \/ move.at = "second" /\ call.at = "ok"
            /\ move' = Still /\ call' = Idle
            /\ IF ~call.here THEN UNCHANGED <<list, asked>>
               ELSE IF call.at = "ok" THEN Load
               ELSE list' = [list EXCEPT !.error = TRUE] /\ UNCHANGED asked
            /\ UNCHANGED <<rows, tab, filter, modal, panel, posts, bounds>>

-----------------------------------------------------------------------------
\* The API

Write(s, id, b) == rows' = [rows EXCEPT ![id].key = b.key, ![id].order = b.order]

Insert(row) == Len(rows) < MaxRows /\ rows' = Append(rows, row)

Create == /\ call.kind = "new" /\ ~Taken(call.sec, call.body.key, 0)
          /\ Insert(Row(call.sec, call.body))
Writable == rows[call.id].there /\ ~rows[call.id].locked
Update == /\ call.kind = "edit" /\ Writable /\ ~Taken(call.sec, call.body.key, call.id)
          /\ Write(call.sec, call.id, call.body)
Remove == /\ call.kind = "delete" /\ Writable
          /\ rows' = [rows EXCEPT ![call.id].there = FALSE]

Named(k) == {r \in In("terms") : rows[r].key = k}
\* The terms that the file updates are looked up once, before it is read.
ImportCsv == /\ call.kind = "import"
             /\ IF Named(call.body.key) = {} THEN ~call.twice /\ Insert(Row("terms", call.body))
                ELSE \E r \in Named(call.body.key) : Write("terms", r, call.body)

Refused == /\ \/ call.kind = "new" /\ Taken(call.sec, call.body.key, 0)
              \/ call.kind = "edit" /\ (~Writable \/ Taken(call.sec, call.body.key, call.id))
              \/ call.kind = "delete" /\ ~Writable
              \/ call.kind = "import" /\ call.twice /\ Named(call.body.key) = {}
           /\ UNCHANGED rows

Serve == /\ call.at = "sent"
         /\ \/ (Create \/ Update \/ Remove \/ ImportCsv) /\ call' = [call EXCEPT !.at = "ok"]
            \/ Refused /\ call' = [call EXCEPT !.at = "error"]
         /\ UNCHANGED <<tab, list, asked, filter, modal, move, panel, posts, bounds>>

LoseAnswer == /\ faults < MaxFaults /\ faults' = faults + 1
              /\ call.at = "ok" /\ call' = [call EXCEPT !.at = "error"]
              /\ UNCHANGED <<rows, tab, list, asked, filter, modal, move, panel, posts, requests, saves>>

\* A save that went well closes the dialog that is open by now and loads; one
\* that did not lets the dialog go, if it is still the one.
Answered == /\ move.at = "no" /\ call.at \in {"ok", "error"} /\ call' = Idle
            /\ IF ~call.here THEN UNCHANGED <<modal, list, asked>>
               ELSE IF call.at = "error" THEN /\ modal' = [modal EXCEPT !.pending = FALSE]
                                              /\ UNCHANGED <<list, asked>>
               ELSE /\ modal' = IF \/ modal.at = call.kind
                                   \/ {modal.at, call.kind} \subseteq {"new", "edit"}
                                THEN Closed ELSE modal
                    /\ Load
            /\ UNCHANGED <<rows, tab, filter, move, panel, posts, bounds>>

\* Another administrator edits a row or deletes it.
Other == /\ faults < MaxFaults /\ faults' = faults + 1
         /\ \E r \in DOMAIN rows :
              /\ rows[r].there /\ ~rows[r].locked
              /\ \/ rows' = [rows EXCEPT ![r].there = FALSE]
                 \/ \E b \in Bodies : ~Taken(rows[r].sec, b.key, r) /\ Write(rows[r].sec, r, b)
         /\ move' = [move EXCEPT !.clean = FALSE]
         /\ UNCHANGED <<tab, list, asked, filter, modal, call, panel, posts, requests, saves>>

-----------------------------------------------------------------------------
\* The panel that drafts a rubric

Describable == panel.at \in {"empty", "draft", "saved"}
OnGenerate == /\ tab = "generate" /\ Describable
              /\ MaySave
              /\ panel' = [panel EXCEPT !.at = "drafting"]
              /\ UNCHANGED <<rows, tab, list, asked, filter, modal, call, move, posts, bounds>>
Drafts == {<<"criteria", 1>>, <<"fields", 2>>}
\* Everything is picked; or the drafting has failed, and an older draft stays.
DraftArrives == /\ panel.at = "drafting"
                /\ \/ \E items \in SUBSET Drafts \ {{}} :
                         panel' = [panel EXCEPT !.at = "draft", !.picked = items]
                   \/ panel' = [panel EXCEPT !.at = IF panel.picked = {} THEN "empty" ELSE "draft"]
                /\ UNCHANGED <<rows, tab, list, asked, filter, modal, call, move, posts, bounds>>
\* An item that is not picked is as good as not drafted.
Uncheck(item) == /\ panel.at = "draft" /\ item \in panel.picked /\ panel.picked # {item}
                 /\ panel' = [panel EXCEPT !.picked = @ \ {item}]
                 /\ UNCHANGED <<rows, tab, list, asked, filter, modal, call, move, posts, bounds>>

\* One request for each item, side by side.
Savable == panel.at = "draft"
OnSave == /\ Savable
          /\ MaySave /\ saves' = saves + 1
          /\ panel' = [panel EXCEPT !.at = "saving", !.try = saves']
          /\ posts' = posts \cup {[item |-> i, try |-> saves', at |-> "sent"] : i \in panel.picked}
          /\ UNCHANGED <<rows, tab, list, asked, filter, modal, call, move, requests, faults>>

Become(p, at) == posts' = (posts \ {p}) \cup {[p EXCEPT !.at = at]}
Rest == <<tab, list, asked, filter, modal, call, move, panel, requests, saves>>
ServePost(p) ==
    /\ p.at = "sent"
    /\ IF Taken(p.item[1], p.item[2], 0) THEN Become(p, "error") /\ UNCHANGED rows
       ELSE /\ Become(p, "ok")
            /\ Insert([Row(p.item[1], [key |-> p.item[2], order |-> 0]) EXCEPT !.drafted = p.item[2]])
    /\ UNCHANGED <<Rest, faults>>
LosePost(p) == /\ faults < MaxFaults /\ faults' = faults + 1
               /\ p.at = "ok" /\ Become(p, "error")
               /\ UNCHANGED <<rows, Rest>>

Mine == {p \in posts : p.try = panel.try}
\* (Faulty variant: all have an answer.)
AllSettled == \A p \in Mine : p.at # "sent"
AllWell == \A p \in Mine : p.at = "ok"

\* All must be well; the first that is not ends the wait for the others.
Saved == /\ panel.at = "saving" /\ AllWell
         /\ panel' = [panel EXCEPT !.at = "saved"]
         /\ UNCHANGED <<rows, tab, list, asked, filter, modal, call, move, posts, bounds>>
SaveFails == /\ panel.at = "saving" /\ \E p \in Mine : p.at = "error"
             /\ panel' = [panel EXCEPT !.at = "draft"]
             /\ UNCHANGED <<rows, tab, list, asked, filter, modal, call, move, posts, bounds>>

-----------------------------------------------------------------------------

\* Three items of a checklist in some order, or a few rows of each section.
Init ==
    /\ \/ \E o \in SeedOrders :
             rows = [i \in 1..3 |-> Row("checklist", [key |-> i, order |-> o[i]])]
       \/ rows = << [Row("fields", [key |-> 1, order |-> 0]) EXCEPT !.locked = TRUE],
                    Row("criteria", [key |-> 1, order |-> 0]),
                    Row("terms", [key |-> 2, order |-> 0]) >>
    /\ tab = "criteria" /\ list = Unloaded /\ asked = TRUE /\ filter = {}
    /\ modal = Closed /\ call = Idle /\ move = Still
    /\ panel = Empty /\ posts = {}
    /\ requests = 0 /\ saves = 0 /\ faults = 0

Loading  == LoadCriteria \/ LoadFields \/ LoadChecklist \/ LoadTerms
Dialogs  == \/ AddCriterion \/ AddField \/ AddItem \/ AddTerm \/ Close
            \/ \E r \in Buttons : Edit(r) \/ AskDelete(r)
            \/ SubmitCriterion \/ SubmitField \/ SubmitItem \/ SubmitTerm
            \/ DeleteCriterion \/ DeleteField \/ DeleteItem \/ DeleteTerm
            \/ \E c \in {{}} \cup {{o} : o \in 0..2} : FilterTerms(c)
            \/ OnCsvPicked \/ MoveUp \/ MoveDown
Answers  == Serve \/ LoseAnswer \/ MoveOther \/ MoveEnds \/ Answered
Drafting == \/ OnGenerate \/ DraftArrives \/ OnSave \/ Saved \/ SaveFails
            \/ \E i \in panel.picked : Uncheck(i)
            \/ \E p \in posts : ServePost(p) \/ LosePost(p)

Next == \/ Loading \/ LoseLoad \/ Dialogs \/ Answers \/ Drafting \/ Other
        \/ \E t \in Sections \cup {"generate"} : SetTab(t)

Spec == Init /\ [][Next]_vars

-----------------------------------------------------------------------------
\* Properties

\* The values of the variables; no two rows of a section share a key, and the
\* fields that reconciliation depends on stay.
TypeOK ==
    /\ \A r, q \in DOMAIN rows : rows[r].there /\ rows[q].there /\ rows[r].sec = rows[q].sec
                                 /\ rows[r].key = rows[q].key => r = q
    /\ \A r \in DOMAIN rows : rows[r].locked => rows[r].there /\ rows[r].key = 1
    /\ tab \in Sections \cup {"generate"} /\ list.known => ~asked
    /\ modal.pending => call # Idle
    /\ \A p \in posts : p.at \in {"sent", "ok", "error"}

\* "Swap the pair's sort_order": a move of an item by one place, begun on a list
\* that is up to date and without ties, leaves that order when both of its
\* requests have been served and nobody has written in between.
MoveSwaps == [][move.at = "second" /\ call.at = "sent" /\ call'.at = "ok" /\ move.clean
                => Ids(Listed("checklist"))' = move.result]_vars

\* "Saving creates the selected items": what is told as saved has been created
\* from a draft, item by item.
SavedIsCreated == panel.at = "saved" => \A i \in panel.picked :
    \E r \in DOMAIN rows : rows[r].sec = i[1] /\ rows[r].drafted = i[2]

-----------------------------------------------------------------------------
\* Stated of the program and not true of it

\* "if they tie, fall back to list positions": with a tie the item moves past
\* its neighbour alone only when they are the first two places of their tie.
MoveMovesByOne == [][move.at = "second" /\ call.at = "sent" /\ call'.at = "ok" /\ faults = 0 /\ requests = 1
                     => Ids(Listed("checklist"))' = move.result]_vars

\* "Save selected": a save that failed halfway cannot be saved again; every
\* item that it did create is refused for its key.
SavesAgain == panel.at = "saving"
    => \A p \in Mine : p.at = "error" => ~\E r \in DOMAIN rows : rows[r].sec = p.item[1] /\ rows[r].drafted = p.item[2]

\* A category that terms are filtered by is one of those offered.
FilterIsOffered == tab = "terms" /\ list.known /\ ~list.error
    => filter \subseteq {r.order : r \in Shown}
=============================================================================
