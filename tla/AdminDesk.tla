------------------------------- MODULE AdminDesk -------------------------------
(***************************************************************************)
(* The administration page: the tabs with the users, the single sign-on    *)
(* form and the audit log, and the API behind them: the accounts, the one  *)
(* row of the sign-on configuration, and the log that every change of them *)
(* leaves an entry in.                                                     *)
(*                                                                         *)
(* A handler reads its row, checks the request against it and commits the  *)
(* columns it has changed; with Overlap, other handlers commit in between. *)
(***************************************************************************)
EXTENDS Integers, FiniteSets, Sequences

CONSTANTS Users,       \* the accounts there are or may be
          Me,          \* the administrator at the page
          PageSize,    \* entries on a page of the log
          Starts,      \* bound: the accounts and the configurations there are at first
          Overlap,     \* whether handlers overlap
          MaxCalls,    \* bound: requests of the page at a time
          MaxLoads,    \* bound: loads of the log at a time
          MaxRequests, \* bound: requests that change something, of all administrators
          MaxFaults    \* bound: lost answers

ASSUME AdminAssumption == /\ Me \in Users /\ Overlap \in BOOLEAN /\ PageSize \in Nat \ {0}
                          /\ {MaxCalls, MaxLoads, MaxRequests, MaxFaults} \subseteq Nat

VARIABLES
    accounts, \* the users
    sso,      \* the configuration of the single sign-on
    log,      \* the audit log
    calls,    \* the page's requests that are not answered yet
    tab,      \* the section that is shown
    list,     \* the users' section: its list,
    asked,    \* whether a list (or the configuration) is being loaded,
    busy,     \* the row that is busy, if any,
    modal,    \* and its dialog
    form,     \* the form of the single sign-on
    audit,    \* the log's section: its filter, page, and what it shows,
    loads,    \* and the answers it waits for
    requests, faults

server == <<accounts, sso, log>>
users  == <<list, busy, modal>>
logs   == <<audit, loads>>
page   == <<tab, asked, users, form, logs>>
bounds == <<requests, faults>>
vars   == <<server, calls, page, bounds>>

-----------------------------------------------------------------------------
\* What a request may say.  A field that it leaves out is the empty set.

Maybe(S)  == {{}} \cup {{x} : x \in S}
\* ids: the tenant and the client; codes: some broker code.
Account   == [there : BOOLEAN, broker : BOOLEAN, active : BOOLEAN, codes : BOOLEAN]
Config    == [enabled : BOOLEAN, ids : BOOLEAN, secret : BOOLEAN]
Body      == [broker : Maybe(BOOLEAN), active : Maybe(BOOLEAN), codes : Maybe(BOOLEAN)]
Nothing   == [broker |-> {}, active |-> {}, codes |-> {}]
Blank     == [enabled |-> FALSE, ids |-> FALSE, secret |-> FALSE]
Nobody    == [there |-> FALSE, broker |-> FALSE, active |-> FALSE, codes |-> FALSE]

\* Both dialogs want a code of a broker.
Bodies == {b \in [broker : {{TRUE}, {FALSE}}, active : {{TRUE}, {FALSE}}, codes : {{TRUE}, {FALSE}}] :
              b.broker = {TRUE} => b.codes = {TRUE}}

\* Only the handler below writes the configuration, which is empty at first.
ASSUME StartsAssumption ==
    \A s \in Starts : /\ s.accounts \in [Users -> Account] /\ s.sso \in Config
                      /\ s.sso.enabled => s.sso.ids /\ s.sso.secret

\* body and put: what it asks for; seen and saw: the row as its handler read
\* it; here: its section is still mounted; own: so is its dialog.
Call(kind, user) == [kind |-> kind, user |-> user, at |-> "sent", body |-> Nothing, put |-> Blank,
                     seen |-> Nobody, saw |-> Blank, here |-> TRUE, own |-> TRUE]

-----------------------------------------------------------------------------
\* Loading

NoList   == [known |-> FALSE, error |-> FALSE, rows |-> [u \in Users |-> Nobody]]
NoForm   == [known |-> FALSE, error |-> FALSE, enabled |-> FALSE, ids |-> FALSE, secret |-> FALSE]
NoAudit  == [filter |-> "all", page |-> 1, loading |-> FALSE, error |-> FALSE,
             known |-> FALSE, total |-> 0, items |-> 0]
Closed   == [at |-> "none", user |-> Me, pending |-> FALSE]

\* A row is busy until the list has come that its switch asked for.
Waiting == {c \in calls : c.at = "loading"}
ListEnds == /\ calls' = calls \ Waiting
            /\ busy' = IF Waiting = {} THEN busy ELSE {}

LoadUsers == /\ tab = "users" /\ asked /\ asked' = FALSE
             /\ list' = [known |-> TRUE, error |-> FALSE, rows |-> accounts]
             /\ ListEnds
             /\ UNCHANGED <<server, tab, modal, form, logs, bounds>>

\* The form takes what is stored; the secret is never given out.
ApplyConfig(c) == form' = [known |-> TRUE, error |-> FALSE, enabled |-> c.enabled,
                           ids |-> c.ids, secret |-> FALSE]
LoadSso == /\ tab = "sso" /\ asked /\ asked' = FALSE
           /\ ApplyConfig(sso)
           /\ UNCHANGED <<server, calls, tab, users, logs, bounds>>

LoseLoad == /\ faults < MaxFaults /\ faults' = faults + 1
            /\ asked /\ asked' = FALSE
            /\ \/ tab = "users" /\ list' = [list EXCEPT !.error = TRUE] /\ ListEnds /\ UNCHANGED form
               \/ tab = "sso" /\ form' = [form EXCEPT !.error = TRUE] /\ UNCHANGED <<list, busy, calls>>
            /\ UNCHANGED <<server, tab, modal, logs, requests>>

Ask(filter, p) == [filter |-> filter, page |-> p]
\* A section that is left is unmounted: its state goes, and what it sent goes on.
SetTab(t) == /\ t # tab /\ tab' = t
             /\ asked' = (t \in {"users", "sso"})
             /\ list' = NoList /\ busy' = {} /\ modal' = Closed /\ form' = NoForm
             /\ audit' = [NoAudit EXCEPT !.loading = (t = "audit")]
             /\ loads' = IF t = "audit" THEN {Ask("all", 1)} ELSE {}
             /\ calls' = {[c EXCEPT !.here = FALSE, !.own = FALSE] :
                             c \in {d \in calls : d.at \in {"sent", "read"}}}
             /\ UNCHANGED <<server, bounds>>

-----------------------------------------------------------------------------
\* The users' section

Send(c) == /\ Cardinality(calls) < MaxCalls /\ c \notin calls /\ calls' = calls \cup {c}
           /\ requests < MaxRequests /\ requests' = requests + 1
           /\ UNCHANGED <<server, tab, asked, list, logs, faults>>

\* The rows with their buttons; a dialog covers them.
Shown == IF tab = "users" /\ list.known /\ ~list.error /\ modal = Closed
         THEN {u \in Users : list.rows[u].there} ELSE {}

\* The switch sends the opposite of what it shows.
ToggleActive(u) ==
    /\ u \in Shown /\ u \notin busy /\ busy' = {u}
    /\ Send([Call("switch", u) EXCEPT !.body.active = {~list.rows[u].active}])
    /\ UNCHANGED <<modal, form>>

SendReset(u) == /\ u \in Shown /\ u \notin busy /\ busy' = {u}
                /\ Send(Call("reset", u))
                /\ UNCHANGED <<modal, form>>

Open(at, u) == /\ requests < MaxRequests
               /\ modal' = [at |-> at, user |-> u, pending |-> FALSE]
               /\ UNCHANGED <<server, calls, tab, asked, list, busy, form, logs, bounds>>
\* There is the button for a new user also while there is no list.
AddUser        == tab = "users" /\ modal = Closed /\ Open("new", Me)
Edit(u)        == u \in Shown /\ Open("edit", u)
AskPassword(u) == u \in Shown /\ Open("password", u)

\* A dialog may be closed while its request is under way.
Close == /\ modal # Closed /\ modal' = Closed
         /\ calls' = {IF c.kind = modal.at THEN [c EXCEPT !.own = FALSE] ELSE c : c \in calls}
         /\ UNCHANGED <<server, tab, asked, list, busy, form, logs, bounds>>

Submit(at, c) == /\ modal.at = at /\ ~modal.pending /\ modal' = [modal EXCEPT !.pending = TRUE]
                 /\ Send(c)
                 /\ UNCHANGED <<busy, form>>
SubmitNew(u, b) == Submit("new", [Call("new", u) EXCEPT !.body = b])
SubmitEdit(b)   == Submit("edit", [Call("edit", modal.user) EXCEPT !.body = b])
SubmitPassword  == Submit("password", Call("password", modal.user))

-----------------------------------------------------------------------------
\* The section of the single sign-on

Editable == tab = "sso" /\ form.known /\ ~form.error
EditForm(f) == /\ Editable /\ f # form /\ form' = f
               /\ UNCHANGED <<server, calls, tab, asked, users, logs, bounds>>

Sending(kind) == \E c \in calls : c.here /\ c.kind = kind
\* Everything is sent, the secret only when one was typed.
BuildBody == [enabled |-> form.enabled, ids |-> form.ids, secret |-> form.secret]
OnSave == /\ Editable /\ ~Sending("put")
          /\ Send([Call("put", Me) EXCEPT !.put = BuildBody])
          /\ UNCHANGED <<busy, modal, form>>
OnTest == /\ Editable /\ ~Sending("test")
          /\ Send(Call("test", Me))
          /\ UNCHANGED <<busy, modal, form>>

-----------------------------------------------------------------------------
\* The section of the audit log

Filters == {"all", "user", "sso"}
Matching(f) == {i \in DOMAIN log : f \in {"all", log[i].type}}
TotalPages(n) == IF n = 0 THEN 1 ELSE (n + PageSize - 1) \div PageSize

Load(f, p) == /\ Cardinality(loads) < MaxLoads /\ loads' = loads \cup {Ask(f, p)}
              /\ audit' = [audit EXCEPT !.filter = f, !.page = p, !.loading = TRUE, !.error = FALSE]
              /\ UNCHANGED <<server, calls, tab, asked, users, form, bounds>>

\* (Faulty variant: the page stays.)
FirstOfSame == audit.page
First == 1
\* Also "Clear", with no filter; it takes effect when it changes something.
OnApply(f) == /\ tab = "audit" /\ Ask(f, First) # Ask(audit.filter, audit.page)
              /\ Load(f, First)
\* The pager counts the pages of the answer that came last.
Pager    == tab = "audit" /\ audit.known /\ audit.items > 0 /\ ~audit.loading
NextPage == /\ Pager /\ audit.page < TotalPages(audit.total)
            /\ Load(audit.filter, audit.page + 1)
Previous == /\ Pager /\ audit.page > 1
            /\ Load(audit.filter, audit.page - 1)

AnswerLoad(l, new) == /\ l \in loads /\ loads' = loads \ {l}
                      /\ audit' = [new EXCEPT !.loading = FALSE]
                      /\ UNCHANGED <<server, calls, tab, asked, users, form, requests>>

\* The newest entries come first; how many of them the page has.
OnPage(total, p) == LET left == total - (p - 1) * PageSize
                    IN  IF left < 0 THEN 0 ELSE IF left < PageSize THEN left ELSE PageSize
\* Answers come in any order, and the one that comes last is shown.
ListAudit(l) == LET n == Cardinality(Matching(l.filter))
                IN  /\ AnswerLoad(l, [audit EXCEPT !.known = TRUE, !.total = n, !.items = OnPage(n, l.page)])
                    /\ UNCHANGED faults
LoseAudit(l) == /\ faults < MaxFaults /\ faults' = faults + 1
                /\ AnswerLoad(l, [audit EXCEPT !.error = TRUE])

-----------------------------------------------------------------------------
\* The API

Become(c, new) == calls' = (calls \ {c}) \cup {new}
Drop(c) == calls' = calls \ {c}
\* What nobody waits for is forgotten when it is served.
End(c, at) == IF c.here THEN Become(c, [c EXCEPT !.at = at, !.seen = Nobody, !.saw = Blank])
              ELSE Drop(c)
Free == Overlap \/ \A c \in calls : c.at # "read"

Read(c) == /\ c \in calls /\ c.at = "sent" /\ Free
           /\ Become(c, [c EXCEPT !.at = "read", !.seen = accounts[c.user], !.saw = sso])
           /\ UNCHANGED <<server, page, bounds>>

The(S) == CHOOSE x \in S : TRUE
\* A column is written when the request gives it a value that the handler has
\* not seen in it.
Flush(given, seen, now) == IF given \in {{}, {seen}} THEN now ELSE The(given)

\* An entry gives what the request asked for.
\* (Faulty variant: what there was.)
EntryOfSeen(c) == [type |-> "user", user |-> c.user,
                   broker |-> {c.seen.broker}, active |-> {c.seen.active}]
EntryOf(c) == [type |-> "user", user |-> c.user, broker |-> c.body.broker, active |-> c.body.active]
LogAudit(e) == log' = Append(log, e)

Codes(given, now) == IF given = {} THEN now ELSE The(given)
Codeless(body, seen, now) ==
    /\ IF body.broker = {} THEN seen.broker ELSE The(body.broker)
    /\ ~Codes(body.codes, now.codes)

\* The account is there, it is not the administrator's own to be closed, and a
\* broker keeps a code.
Allowed(u, by, body, seen) ==
    /\ ~(body.active = {FALSE} /\ seen.active /\ u = by)
    /\ ~Codeless(body, seen, accounts[u])
Updated(u, body, seen) ==
    [accounts EXCEPT ![u] = [there |-> TRUE,
                             broker |-> Flush(body.broker, seen.broker, @.broker),
                             active |-> Flush(body.active, seen.active, @.active),
                             codes  |-> Codes(body.codes, @.codes)]]

Reading(c, kinds) == c \in calls /\ c.at = "read" /\ c.kind \in kinds
UpdateUser(c) == /\ Reading(c, {"switch", "edit"})
                 /\ Allowed(c.user, Me, c.body, c.seen)
                 /\ accounts' = Updated(c.user, c.body, c.seen)
                 /\ LogAudit(EntryOf(c)) /\ End(c, "ok")
                 /\ UNCHANGED <<sso, page, bounds>>

\* No two accounts have the same e-mail.
CreateUser(c) == /\ Reading(c, {"new"}) /\ ~accounts[c.user].there
                 /\ accounts' = [accounts EXCEPT ![c.user] =
                        [there |-> TRUE, broker |-> The(c.body.broker),
                         active |-> The(c.body.active), codes |-> The(c.body.codes)]]
                 /\ LogAudit(EntryOf(c)) /\ End(c, "ok")
                 /\ UNCHANGED <<sso, page, bounds>>

\* The password and the lock are not modelled, nor is the link that is mailed.
SetPassword(c) == /\ Reading(c, {"password"})
                  /\ LogAudit(EntryOf(c)) /\ End(c, "ok")
                  /\ UNCHANGED <<accounts, sso, page, bounds>>
ResetPassword(c) == /\ Reading(c, {"reset"}) /\ c.seen.active
                    /\ LogAudit(EntryOf(c)) /\ End(c, "ok")
                    /\ UNCHANGED <<accounts, sso, page, bounds>>

\* (Faulty variant: what is stored is enough.)
CompleteOfStored(put, saw) == put.enabled => (put.ids \/ saw.ids) /\ (saw.secret \/ put.secret)
Complete(put, saw) == put.enabled => put.ids /\ (saw.secret \/ put.secret)
\* A secret that is not given stays.
Configured(put, saw) ==
    [enabled |-> Flush({put.enabled}, saw.enabled, sso.enabled),
     ids     |-> Flush({put.ids}, saw.ids, sso.ids),
     secret  |-> put.secret \/ sso.secret]
SsoEntry == [type |-> "sso", user |-> Me, broker |-> {}, active |-> {}]
PutSso(c) == /\ Reading(c, {"put"}) /\ Complete(c.put, c.saw)
             /\ sso' = Configured(c.put, c.saw)
             /\ LogAudit(SsoEntry)
             /\ IF c.here THEN Become(c, [c EXCEPT !.at = "ok", !.saw = sso']) ELSE Drop(c)
             /\ UNCHANGED <<accounts, page, bounds>>

TestSso(c) == /\ Reading(c, {"test"}) /\ End(c, "ok")
              /\ UNCHANGED <<server, page, bounds>>

\* Also for a code that is unknown, and a password that is too short.
Refused(c) == \/ c.kind \in {"switch", "edit"} /\ ~Allowed(c.user, Me, c.body, c.seen)
              \/ c.kind \in {"new", "edit"} /\ c.body.codes = {TRUE}
              \/ c.kind = "new" /\ accounts[c.user].there
              \/ c.kind = "password"
              \/ c.kind = "reset" /\ ~c.seen.active
              \/ c.kind = "put" /\ ~Complete(c.put, c.saw)
Refuse(c) == /\ c \in calls /\ c.at = "read" /\ Refused(c) /\ End(c, "error")
             /\ UNCHANGED <<server, page, bounds>>

\* Another administrator, from a page of the same kind.
OtherUpdates(u, b) == /\ accounts[u].there /\ \E by \in Users \ {u} : Allowed(u, by, b, accounts[u])
                      /\ accounts' = Updated(u, b, accounts[u])
                      /\ LogAudit(EntryOf([Call("edit", u) EXCEPT !.body = b]))
                      /\ UNCHANGED sso
OtherPuts(put) == /\ Complete(put, sso) /\ sso' = Configured(put, sso)
                  /\ LogAudit(SsoEntry)
                  /\ UNCHANGED accounts
Other == /\ Free /\ requests < MaxRequests /\ requests' = requests + 1
         /\ \/ \E u \in Users, b \in Bodies : OtherUpdates(u, b)
            \/ \E put \in Config : OtherPuts(put)
         /\ UNCHANGED <<calls, page, faults>>

LoseAnswer(c) == /\ faults < MaxFaults /\ faults' = faults + 1
                 /\ c \in calls /\ c.at = "ok" /\ Become(c, [c EXCEPT !.at = "error"])
                 /\ UNCHANGED <<server, page, requests>>

-----------------------------------------------------------------------------
\* The answers

Done(c) == c \in calls /\ c.at \in {"ok", "error"}

\* A switch that worked has the list loaded before its row is free again; the
\* row that is freed is the one that is busy by then.
SwitchAnswered(c) == /\ Done(c) /\ c.kind = "switch"
                     /\ IF c.at = "ok"
                        THEN /\ Become(c, [c EXCEPT !.at = "loading"]) /\ asked' = TRUE
                             /\ UNCHANGED busy
                        ELSE Drop(c) /\ busy' = {} /\ UNCHANGED asked
                     /\ UNCHANGED <<server, tab, list, modal, form, logs, bounds>>
ResetAnswered(c) == /\ Done(c) /\ c.kind = "reset"
                    /\ Drop(c) /\ busy' = {}
                    /\ UNCHANGED <<server, tab, asked, list, modal, form, logs, bounds>>

\* A dialog's success closes the dialog of its kind that is open by now.
DialogAnswered(c) ==
    /\ Done(c) /\ c.kind \in {"new", "edit", "password"} /\ Drop(c)
    /\ IF c.at = "ok" THEN asked' = TRUE /\ modal' = IF modal.at = c.kind THEN Closed ELSE modal
       ELSE /\ modal' = IF c.own THEN [modal EXCEPT !.pending = FALSE] ELSE modal
            /\ UNCHANGED asked
    /\ UNCHANGED <<server, tab, list, busy, form, logs, bounds>>

\* The answer to a save has the row as it was stored, and the form takes it.
PutAnswered(c) == /\ Done(c) /\ c.kind = "put" /\ Drop(c)
                  /\ IF c.at = "ok" THEN ApplyConfig(c.saw) ELSE UNCHANGED form
                  /\ UNCHANGED <<server, tab, asked, users, logs, bounds>>
TestAnswered(c) == /\ Done(c) /\ c.kind = "test" /\ Drop(c)
                   /\ UNCHANGED <<server, page, bounds>>

-----------------------------------------------------------------------------

Init ==
    /\ \E s \in Starts : accounts = s.accounts /\ sso = s.sso
    /\ log = <<>> /\ calls = {}
    /\ tab = "users" /\ asked = TRUE
    /\ list = NoList /\ busy = {} /\ modal = Closed
    /\ form = NoForm /\ audit = NoAudit /\ loads = {}
    /\ requests = 0 /\ faults = 0

Loading == LoadUsers \/ LoadSso \/ LoseLoad
Users_ == \/ \E u \in Users : ToggleActive(u) \/ SendReset(u) \/ Edit(u) \/ AskPassword(u)
          \/ AddUser \/ Close
          \/ \E b \in Bodies : SubmitEdit(b) \/ \E u \in Users : SubmitNew(u, b)
          \/ SubmitPassword
Sso_ == \/ \E f \in Config : EditForm([form EXCEPT !.enabled = f.enabled, !.ids = f.ids, !.secret = f.secret])
        \/ OnSave \/ OnTest
Audit_ == \/ \E f \in Filters : OnApply(f)
          \/ NextPage \/ Previous
          \/ \E l \in loads : ListAudit(l) \/ LoseAudit(l)
Api == \E c \in calls : \/ Read(c) \/ UpdateUser(c) \/ CreateUser(c) \/ SetPassword(c) \/ ResetPassword(c)
                        \/ PutSso(c) \/ TestSso(c) \/ Refuse(c) \/ LoseAnswer(c)
Answers == \E c \in calls : \/ SwitchAnswered(c) \/ ResetAnswered(c) \/ DialogAnswered(c)
                            \/ PutAnswered(c) \/ TestAnswered(c)
SetTabs == \E t \in {"users", "sso", "audit"} : SetTab(t)

Next == Loading \/ Users_ \/ Sso_ \/ Audit_ \/ Api \/ Answers \/ SetTabs \/ Other

Spec == Init /\ [][Next]_vars

-----------------------------------------------------------------------------
\* Properties

\* Types and ranges of the accounts, the configuration and the page.
TypeOK ==
    /\ accounts \in [Users -> Account] /\ sso \in Config
    /\ \A c \in calls : c.user \in Users /\ c.body \in Body /\ c.put \in Config
    /\ tab \in {"users", "sso", "audit"} /\ asked \in BOOLEAN /\ busy \subseteq Users
    /\ modal \in [at : {"none", "new", "edit", "password"}, user : Users, pending : BOOLEAN]
    /\ audit.filter \in Filters /\ audit.page \in Nat \ {0}
    /\ requests \in 0..MaxRequests /\ faults \in 0..MaxFaults

\* "Guard: can't enable without the essentials": whatever forms are saved, and
\* whether or not they send the secret, a sign-on that is enabled has its
\* tenant, its client and its secret.  (Of handlers that do not overlap.)
EnabledIsComplete == sso.enabled => sso.ids /\ sso.secret

\* The log explains the accounts: the role and the state of an account are
\* those of the last entry that mentions them.  (Of handlers that do not
\* overlap.)
Explained(entries, field, u, now) ==
    \A i \in DOMAIN entries :
        (/\ entries[i].user = u /\ entries[i][field] # {}
         /\ \A j \in DOMAIN entries : j > i /\ entries[j].user = u => entries[j][field] = {})
        => entries[i][field] = {now}
LogExplains == \A u \in Users : /\ Explained(log, "broker", u, accounts[u].broker)
                               /\ Explained(log, "active", u, accounts[u].active)

\* The log never shows an empty page of entries that it counts: filters, pages
\* and entries that are added meanwhile do not lead past the last page.  (Of a
\* person that waits for an answer before the next request, and gets it.)
NeverAnEmptyPage == faults = 0 /\ audit.total > 0 => audit.items > 0

-----------------------------------------------------------------------------
\* Stated of the program and not true of it

\* "broker-role users need at least one broker code": with Overlap, one edit
\* takes the codes of a reviewer whom the other has just made a broker.
\* EnabledIsComplete and LogExplains do not hold with Overlap either: a handler
\* leaves the columns alone that already had, when it read them, what it is to
\* write.
BrokersHaveCodes == \A u \in Users : accounts[u].broker => accounts[u].codes

\* The list that is shown matches the filter that is applied (with MaxLoads = 2:
\* answers overtake each other).
ShowsWhatIsApplied ==
    tab = "audit" /\ audit.known /\ loads = {} /\ ~audit.error
        => audit.total <= Cardinality(Matching(audit.filter))

\* Nor does it after an answer that was lost: the pager is still that of the
\* answer before.
NeverAnEmptyPageAtAll == audit.total > 0 => audit.items > 0

\* "Tests the stored tenant": what a test of the page tests is what the form shows.
TestTestsTheForm == \A c \in calls : c.kind = "test" /\ c.here /\ c.at = "ok" => form.ids = sso.ids
=============================================================================
