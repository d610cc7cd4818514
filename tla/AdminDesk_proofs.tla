--------------------------- MODULE AdminDesk_proofs ---------------------------
(***************************************************************************)
(* What the administration page and its handlers keep true for any set of  *)
(* accounts, any page size, and any number of requests, loads and lost     *)
(* answers: the types, and, where handlers do not overlap, a sign-on that  *)
(* is complete when it is enabled and a log that explains the accounts.    *)
(***************************************************************************)
EXTENDS AdminDesk, SequenceTheorems, FiniteSetTheorems, TLAPS

-----------------------------------------------------------------------------
\* Types

Kinds   == {"switch", "reset", "new", "edit", "password", "put", "test"}
Request == [kind : Kinds, user : Users, at : {"sent", "read", "ok", "error", "loading"},
            body : Body, put : Config, seen : Account, saw : Config,
            here : BOOLEAN, own : BOOLEAN]
Entry   == [type : {"user", "sso"}, user : Users, broker : Maybe(BOOLEAN), active : Maybe(BOOLEAN)]
Loads   == [filter : Filters, page : Nat \ {0}]

ServerTypes == /\ accounts \in [Users -> Account] /\ sso \in Config
               /\ log \in Seq(Entry) /\ calls \subseteq Request
PageTypes   == /\ tab \in {"users", "sso", "audit"} /\ asked \in BOOLEAN /\ busy \subseteq Users
               /\ list \in [known : BOOLEAN, error : BOOLEAN, rows : [Users -> Account]]
               /\ modal \in [at : {"none", "new", "edit", "password"}, user : Users, pending : BOOLEAN]
               /\ form \in [known : BOOLEAN, error : BOOLEAN,
                            enabled : BOOLEAN, ids : BOOLEAN, secret : BOOLEAN]
AuditTypes  == /\ audit \in [filter : Filters, page : Nat \ {0}, loading : BOOLEAN, error : BOOLEAN,
                             known : BOOLEAN, total : Int, items : Int]
               /\ loads \subseteq Loads
BoundTypes  == requests \in 0 .. MaxRequests /\ faults \in 0 .. MaxFaults
Types == ServerTypes /\ PageTypes /\ AuditTypes /\ BoundTypes

LEMMA TypesSuffice == Types => TypeOK
BY DEF Types, ServerTypes, PageTypes, AuditTypes, BoundTypes, TypeOK, Request

LEMMA Constants_ ==
    /\ Blank \in Config /\ Nobody \in Account /\ Nothing \in Body
    /\ Bodies \subseteq Body
    /\ \A b \in Bodies : b.broker # {} /\ b.active # {}
<1>1. /\ Blank \in Config /\ Nobody \in Account
  BY DEF Blank, Config, Nobody, Account
<1>2. {} \in Maybe(BOOLEAN) /\ {TRUE} \in Maybe(BOOLEAN) /\ {FALSE} \in Maybe(BOOLEAN)
  BY DEF Maybe
<1>3. Nothing \in Body
  BY <1>2 DEF Nothing, Body
<1>4. Bodies \subseteq Body
  BY <1>2 DEF Bodies, Body
<1>5. \A b \in Bodies : b.broker # {} /\ b.active # {}
  BY DEF Bodies
<1>. QED  BY <1>1, <1>3, <1>4, <1>5

\* A request as it is sent.
LEMMA CallType ==
    ASSUME NEW kind \in Kinds, NEW user \in Users
    PROVE  Call(kind, user) \in Request
BY Constants_ DEF Call, Request

\* What a column becomes.
LEMMA FlushType ==
    ASSUME NEW given \in Maybe(BOOLEAN), NEW seen \in BOOLEAN, NEW now \in BOOLEAN
    PROVE  /\ Flush(given, seen, now) \in BOOLEAN
           /\ Codes(given, now) \in BOOLEAN
           /\ seen = now /\ given # {} => given = {Flush(given, seen, now)}
           /\ given = {} => Flush(given, seen, now) = now
<1>1. given = {} \/ \E x \in BOOLEAN : given = {x}
  BY DEF Maybe
<1>2. \A x : The({x}) = x
  BY DEF The
<1>3. CASE given = {}
  BY <1>3 DEF Flush, Codes
<1>4. ASSUME NEW x \in BOOLEAN, given = {x}
      PROVE  /\ Flush(given, seen, now) = IF x = seen THEN now ELSE x
             /\ Codes(given, now) = x
  BY <1>2, <1>4 DEF Flush, Codes
<1>. QED  BY <1>1, <1>3, <1>4

LEMMA FlushOne ==
    ASSUME NEW x \in BOOLEAN, NEW seen \in BOOLEAN, NEW now \in BOOLEAN
    PROVE  /\ Flush({x}, seen, now) \in BOOLEAN
           /\ seen = now => Flush({x}, seen, now) = x
<1>1. {x} \in Maybe(BOOLEAN) /\ {x} # {}
  BY DEF Maybe
<1>2. /\ Flush({x}, seen, now) \in BOOLEAN
      /\ seen = now => {x} = {Flush({x}, seen, now)}
  BY <1>1, FlushType, Zenon
<1>3. \A y : {x} = {y} => y = x
  BY Zenon
<1>. QED  BY <1>2, <1>3, Zenon

LEMMA UpdatedType ==
    ASSUME accounts \in [Users -> Account], NEW u \in Users, NEW body \in Body, NEW seen \in Account
    PROVE  /\ Updated(u, body, seen) \in [Users -> Account]
           /\ \A w \in Users \ {u} : Updated(u, body, seen)[w] = accounts[w]
           /\ Updated(u, body, seen)[u].broker = Flush(body.broker, seen.broker, accounts[u].broker)
           /\ Updated(u, body, seen)[u].active = Flush(body.active, seen.active, accounts[u].active)
<1>1. accounts[u] \in Account
  OBVIOUS
<1>2. /\ Flush(body.broker, seen.broker, accounts[u].broker) \in BOOLEAN
      /\ Flush(body.active, seen.active, accounts[u].active) \in BOOLEAN
      /\ Codes(body.codes, accounts[u].codes) \in BOOLEAN
  BY <1>1, FlushType DEF Account, Body
<1>3. [there |-> TRUE,
       broker |-> Flush(body.broker, seen.broker, accounts[u].broker),
       active |-> Flush(body.active, seen.active, accounts[u].active),
       codes  |-> Codes(body.codes, accounts[u].codes)] \in Account
  BY <1>2 DEF Account
<1>. QED  BY <1>3 DEF Updated

LEMMA ConfiguredType ==
    ASSUME sso \in Config, NEW put \in Config, NEW saw \in Config
    PROVE  /\ Configured(put, saw) \in Config
           /\ saw = sso => Configured(put, saw) =
                  [enabled |-> put.enabled, ids |-> put.ids, secret |-> put.secret \/ sso.secret]
<1>1. /\ put.enabled \in BOOLEAN /\ saw.enabled \in BOOLEAN /\ sso.enabled \in BOOLEAN
      /\ put.ids \in BOOLEAN /\ saw.ids \in BOOLEAN /\ sso.ids \in BOOLEAN
  BY DEF Config
<1>2. /\ Flush({put.enabled}, saw.enabled, sso.enabled) \in BOOLEAN
      /\ Flush({put.ids}, saw.ids, sso.ids) \in BOOLEAN
      /\ saw = sso => /\ Flush({put.enabled}, saw.enabled, sso.enabled) = put.enabled
                      /\ Flush({put.ids}, saw.ids, sso.ids) = put.ids
  BY <1>1, FlushOne, Zenon
<1>3. (put.secret \/ sso.secret) \in BOOLEAN
  OBVIOUS
<1>4. Configured(put, saw) \in Config
  BY <1>2, <1>3 DEF Configured, Config
<1>5. ASSUME saw = sso
      PROVE  Configured(put, saw) =
                 [enabled |-> put.enabled, ids |-> put.ids, secret |-> put.secret \/ sso.secret]
  <2>1. /\ Flush({put.enabled}, saw.enabled, sso.enabled) = put.enabled
        /\ Flush({put.ids}, saw.ids, sso.ids) = put.ids
    BY <1>2, <1>5
  <2>. QED  BY <2>1, Zenon DEF Configured
<1>. QED  BY <1>4, <1>5

LEMMA EntryTypes ==
    /\ SsoEntry \in Entry
    /\ \A c \in Request : EntryOf(c) \in Entry
BY AdminAssumption DEF SsoEntry, EntryOf, Entry, Request, Body, Maybe

\* A served request as it is kept, or forgotten.
LEMMA EndType ==
    ASSUME calls \subseteq Request, NEW c \in calls, NEW at \in {"ok", "error"}, End(c, at)
    PROVE  /\ calls' \subseteq Request
           /\ \A d \in calls' : \/ d \in calls \ {c}
                                \/ d.at = at /\ d.kind = c.kind /\ d.body = c.body
<1>. DEFINE kept == [c EXCEPT !.at = at, !.seen = Nobody, !.saw = Blank]
<1>1. c \in Request
  OBVIOUS
<1>2. kept \in Request
  BY <1>1, Constants_ DEF Request
<1>3. kept.at = at /\ kept.kind = c.kind /\ kept.body = c.body
  BY <1>1 DEF Request
<1>4. calls' = (calls \ {c}) \cup {kept} \/ calls' = calls \ {c}
  BY DEF End, Become, Drop
<1>. QED  BY <1>2, <1>3, <1>4

LEMMA Bounds_ == MaxRequests \in Nat /\ MaxFaults \in Nat /\ Me \in Users /\ PageSize \in Nat \ {0}
BY AdminAssumption

LEMMA SendTypes ==
    ASSUME Types, NEW c \in Request, Send(c)
    PROVE  /\ ServerTypes' /\ BoundTypes' /\ AuditTypes'
           /\ UNCHANGED <<tab, asked, list>>
           /\ calls' = calls \cup {c}
<1>1. requests' \in 0 .. MaxRequests
  BY Bounds_ DEF Types, BoundTypes, Send
<1>. QED  BY <1>1 DEF Types, ServerTypes, AuditTypes, BoundTypes, Send, server, logs

LEMMA LoadingTypes ==
    ASSUME Types, Loading
    PROVE  Types'
<1>1. CASE LoadUsers
  <2>1. list' \in [known : BOOLEAN, error : BOOLEAN, rows : [Users -> Account]]
    BY <1>1 DEF LoadUsers, Types, ServerTypes
  <2>2. PageTypes'
    BY <1>1, <2>1 DEF LoadUsers, ListEnds, Types, PageTypes
  <2>. QED  BY <1>1, <2>2 DEF LoadUsers, ListEnds, Types, ServerTypes, AuditTypes, BoundTypes, server, logs, bounds
<1>2. CASE LoadSso
  <2>1. form' \in [known : BOOLEAN, error : BOOLEAN, enabled : BOOLEAN, ids : BOOLEAN, secret : BOOLEAN]
    BY <1>2 DEF LoadSso, ApplyConfig, Types, ServerTypes, Config
  <2>2. PageTypes'
    BY <1>2, <2>1 DEF LoadSso, Types, PageTypes, users
  <2>. QED  BY <1>2, <2>2 DEF LoadSso, Types, ServerTypes, AuditTypes, BoundTypes, server, logs, bounds
<1>3. CASE LoseLoad
  <2>1. faults' \in 0 .. MaxFaults
    BY <1>3, Bounds_ DEF LoseLoad, Types, BoundTypes
  <2>2. /\ list' \in [known : BOOLEAN, error : BOOLEAN, rows : [Users -> Account]]
        /\ form' \in [known : BOOLEAN, error : BOOLEAN, enabled : BOOLEAN, ids : BOOLEAN, secret : BOOLEAN]
    BY <1>3 DEF LoseLoad, Types, PageTypes
  <2>3. busy' \subseteq Users /\ calls' \subseteq calls
    BY <1>3 DEF LoseLoad, ListEnds, Types, PageTypes
  <2>. QED  BY <1>3, <2>1, <2>2, <2>3
            DEF LoseLoad, Types, ServerTypes, PageTypes, AuditTypes, BoundTypes, server, logs
<1>. QED  BY <1>1, <1>2, <1>3 DEF Loading

LEMMA TabTypes ==
    ASSUME Types, NEW t \in {"users", "sso", "audit"}, SetTab(t)
    PROVE  Types'
<1>1. \A d \in Request : [d EXCEPT !.here = FALSE, !.own = FALSE] \in Request
  BY DEF Request
<1>2. calls' \subseteq Request
  BY <1>1 DEF SetTab, Types, ServerTypes
<1>3. list' \in [known : BOOLEAN, error : BOOLEAN, rows : [Users -> Account]]
  BY Constants_ DEF SetTab, NoList
<1>4. PageTypes'
  <2>1. asked' \in BOOLEAN
    <3>1. (t \in {"users", "sso"}) \in BOOLEAN
      OBVIOUS
    <3>. QED  BY <3>1, Zenon DEF SetTab
  <2>2. modal' \in [at : {"none", "new", "edit", "password"}, user : Users, pending : BOOLEAN]
    BY Bounds_ DEF SetTab, Closed
  <2>3. form' \in [known : BOOLEAN, error : BOOLEAN, enabled : BOOLEAN, ids : BOOLEAN, secret : BOOLEAN]
    BY DEF SetTab, NoForm
  <2>4. tab' \in {"users", "sso", "audit"} /\ busy' \subseteq Users
    BY DEF SetTab
  <2>. QED  BY <1>3, <2>1, <2>2, <2>3, <2>4 DEF PageTypes
<1>5. Ask("all", 1) \in Loads
  BY DEF Ask, Loads, Filters
<1>6. AuditTypes'
  <2>1. \A b \in BOOLEAN : [NoAudit EXCEPT !.loading = b] \in
            [filter : Filters, page : Nat \ {0}, loading : BOOLEAN, error : BOOLEAN,
             known : BOOLEAN, total : Int, items : Int]
    <3>1. NoAudit \in [filter : Filters, page : Nat \ {0}, loading : BOOLEAN, error : BOOLEAN,
                       known : BOOLEAN, total : Int, items : Int]
      BY DEF NoAudit, Filters
    <3>. QED  BY <3>1
  <2>2. audit' = [NoAudit EXCEPT !.loading = (t = "audit")] /\ loads' \subseteq {Ask("all", 1)}
    BY DEF SetTab
  <2>3. (t = "audit") \in BOOLEAN
    OBVIOUS
  <2>. QED  BY <1>5, <2>1, <2>2, <2>3, Zenon DEF AuditTypes
<1>. QED  BY <1>2, <1>4, <1>6 DEF SetTab, Types, ServerTypes, BoundTypes, server, bounds

\* What the page sends, and what follows for the dialogs' requests.
Asked(c) == /\ c.kind = "new" => c.body \in Bodies
            /\ c.kind \in {"password", "reset"} => c.body = Nothing

LEMMA UsersTypes ==
    ASSUME Types, Users_
    PROVE  Types' /\ (Close \/ \A c \in calls' : c \in calls \/ (c.at = "sent" /\ Asked(c)))
<1>1. ASSUME NEW c \in Request, Send(c), c.at = "sent", Asked(c), UNCHANGED form,
             busy' \subseteq Users,
             modal' \in [at : {"none", "new", "edit", "password"}, user : Users, pending : BOOLEAN]
      PROVE  Types' /\ \A d \in calls' : d \in calls \/ (d.at = "sent" /\ Asked(d))
  <2>1. /\ ServerTypes' /\ BoundTypes' /\ AuditTypes'
        /\ UNCHANGED <<tab, asked, list>>
        /\ calls' = calls \cup {c}
    BY <1>1, SendTypes
  <2>2. PageTypes'
    BY <1>1, <2>1 DEF Types, PageTypes
  <2>. QED  BY <1>1, <2>1, <2>2 DEF Types
<1>2. ASSUME NEW u \in Users, ToggleActive(u)
      PROVE  Types' /\ \A d \in calls' : d \in calls \/ (d.at = "sent" /\ Asked(d))
  <2>. DEFINE c == [Call("switch", u) EXCEPT !.body.active = {~list.rows[u].active}]
  <2>1. Call("switch", u) \in Request
    BY CallType DEF Kinds
  <2>2. {~list.rows[u].active} \in Maybe(BOOLEAN)
    BY DEF Maybe
  <2>3. c \in Request
    BY <2>1, <2>2 DEF Request, Body
  <2>4. c.at = "sent" /\ c.kind = "switch"
    BY DEF Call
  <2>5. busy' \subseteq Users /\ UNCHANGED <<modal, form>> /\ Send(c)
    BY <1>2 DEF ToggleActive
  <2>. QED  BY <1>1, <2>3, <2>4, <2>5 DEF Asked, Types, PageTypes
<1>3. ASSUME NEW u \in Users, SendReset(u)
      PROVE  Types' /\ \A d \in calls' : d \in calls \/ (d.at = "sent" /\ Asked(d))
  <2>1. Call("reset", u) \in Request
    BY CallType DEF Kinds
  <2>2. Call("reset", u).at = "sent" /\ Asked(Call("reset", u))
    BY DEF Call, Asked
  <2>3. busy' \subseteq Users /\ UNCHANGED <<modal, form>> /\ Send(Call("reset", u))
    BY <1>3 DEF SendReset
  <2>. QED  BY <1>1, <2>1, <2>2, <2>3 DEF Types, PageTypes
<1>4. ASSUME NEW at \in {"new", "edit", "password"}, NEW u \in Users, Open(at, u)
      PROVE  Types' /\ calls' = calls
  BY <1>4 DEF Open, Types, ServerTypes, PageTypes, AuditTypes, BoundTypes, server, logs, bounds
<1>5. CASE Close
  <2>1. \A d \in Request : [d EXCEPT !.own = FALSE] \in Request
    BY DEF Request
  <2>2. \A c \in calls' : c \in calls \/ \E d \in calls : c = [d EXCEPT !.own = FALSE]
    BY <1>5 DEF Close
  <2>3. calls' \subseteq Request
    BY <2>1, <2>2 DEF Types, ServerTypes
  <2>4. PageTypes'
    BY <1>5, Bounds_ DEF Close, Closed, Types, PageTypes
  <2>5. ServerTypes' /\ AuditTypes' /\ BoundTypes'
    BY <1>5, <2>3 DEF Close, Types, ServerTypes, AuditTypes, BoundTypes, server, logs, bounds
  <2>. QED  BY <1>5, <2>4, <2>5 DEF Types
<1>6. ASSUME NEW at \in {"new", "edit", "password"}, NEW c \in Request, c.at = "sent", Asked(c),
             Submit(at, c)
      PROVE  Types' /\ \A d \in calls' : d \in calls \/ (d.at = "sent" /\ Asked(d))
  <2>1. modal' \in [at : {"none", "new", "edit", "password"}, user : Users, pending : BOOLEAN]
    BY <1>6 DEF Submit, Types, PageTypes
  <2>. QED  BY <1>1, <1>6, <2>1 DEF Submit, Types, PageTypes
<1>7. ASSUME NEW u \in Users, NEW b \in Bodies, SubmitNew(u, b)
      PROVE  Types' /\ \A d \in calls' : d \in calls \/ (d.at = "sent" /\ Asked(d))
  <2>. DEFINE c == [Call("new", u) EXCEPT !.body = b]
  <2>1. Call("new", u) \in Request /\ b \in Body
    BY CallType, Constants_ DEF Kinds
  <2>2. c \in Request
    BY <2>1 DEF Request
  <2>3. c.at = "sent" /\ c.kind = "new" /\ c.body = b
    BY DEF Call
  <2>. QED  BY <1>6, <1>7, <2>2, <2>3 DEF SubmitNew, Asked
<1>8. ASSUME NEW b \in Bodies, SubmitEdit(b)
      PROVE  Types' /\ \A d \in calls' : d \in calls \/ (d.at = "sent" /\ Asked(d))
  <2>. DEFINE c == [Call("edit", modal.user) EXCEPT !.body = b]
  <2>1. Call("edit", modal.user) \in Request /\ b \in Body
    BY CallType, Constants_ DEF Kinds, Types, PageTypes
  <2>2. c \in Request
    BY <2>1 DEF Request
  <2>3. c.at = "sent" /\ c.kind = "edit"
    BY DEF Call
  <2>. QED  BY <1>6, <1>8, <2>2, <2>3 DEF SubmitEdit, Asked
<1>9. ASSUME SubmitPassword
      PROVE  Types' /\ \A d \in calls' : d \in calls \/ (d.at = "sent" /\ Asked(d))
  <2>. DEFINE c == Call("password", modal.user)
  <2>1. c \in Request
    BY CallType DEF Kinds, Types, PageTypes
  <2>2. c.at = "sent" /\ Asked(c)
    BY DEF Call, Asked
  <2>. QED  BY <1>6, <1>9, <2>1, <2>2 DEF SubmitPassword
<1>. QED  BY <1>2, <1>3, <1>4, <1>5, <1>7, <1>8, <1>9, Bounds_ DEF Users_, Edit, AskPassword, AddUser

LEMMA SsoTypes ==
    ASSUME Types, Sso_
    PROVE  Types' /\ \A c \in calls' : c \in calls \/ (c.at = "sent" /\ Asked(c))
<1>1. ASSUME NEW f \in Config,
             EditForm([form EXCEPT !.enabled = f.enabled, !.ids = f.ids, !.secret = f.secret])
      PROVE  Types' /\ calls' = calls
  <2>1. form' \in [known : BOOLEAN, error : BOOLEAN, enabled : BOOLEAN, ids : BOOLEAN, secret : BOOLEAN]
    BY <1>1 DEF EditForm, Types, PageTypes, Config
  <2>2. PageTypes'
    BY <1>1, <2>1 DEF EditForm, Types, PageTypes, users
  <2>. QED  BY <1>1, <2>2
            DEF EditForm, Types, ServerTypes, AuditTypes, BoundTypes, server, logs, bounds
<1>2. ASSUME NEW c \in Request, Send(c), c.at = "sent", Asked(c), UNCHANGED <<busy, modal, form>>
      PROVE  Types' /\ \A d \in calls' : d \in calls \/ (d.at = "sent" /\ Asked(d))
  <2>1. /\ ServerTypes' /\ BoundTypes' /\ AuditTypes'
        /\ UNCHANGED <<tab, asked, list>>
        /\ calls' = calls \cup {c}
    BY <1>2, SendTypes
  <2>2. PageTypes'
    BY <1>2, <2>1 DEF Types, PageTypes
  <2>. QED  BY <1>2, <2>1, <2>2 DEF Types
<1>3. ASSUME OnSave
      PROVE  Types' /\ \A d \in calls' : d \in calls \/ (d.at = "sent" /\ Asked(d))
  <2>. DEFINE c == [Call("put", Me) EXCEPT !.put = BuildBody]
  <2>1. Call("put", Me) \in Request
    BY CallType, Bounds_ DEF Kinds
  <2>2. BuildBody \in Config
    BY DEF BuildBody, Config, Types, PageTypes
  <2>3. c \in Request
    BY <2>1, <2>2 DEF Request
  <2>4. c.at = "sent" /\ Asked(c)
    BY DEF Call, Asked
  <2>. QED  BY <1>2, <1>3, <2>3, <2>4 DEF OnSave
<1>4. ASSUME OnTest
      PROVE  Types' /\ \A d \in calls' : d \in calls \/ (d.at = "sent" /\ Asked(d))
  <2>1. Call("test", Me) \in Request
    BY CallType, Bounds_ DEF Kinds
  <2>2. Call("test", Me).at = "sent" /\ Asked(Call("test", Me))
    BY DEF Call, Asked
  <2>. QED  BY <1>2, <1>4, <2>1, <2>2 DEF OnTest
<1>. QED  BY <1>1, <1>3, <1>4 DEF Sso_

LEMMA OnPageType ==
    ASSUME NEW total \in Nat, NEW p \in Nat \ {0}
    PROVE  OnPage(total, p) \in Int
<1>1. (p - 1) * PageSize \in Int
  BY Bounds_
<1>. QED  BY <1>1, Bounds_ DEF OnPage

LEMMA AuditStepTypes ==
    ASSUME Types, Audit_
    PROVE  Types' /\ UNCHANGED <<server, calls>>
<1>1. ASSUME NEW f \in Filters, NEW p \in Nat \ {0}, Load(f, p)
      PROVE  Types' /\ UNCHANGED <<server, calls>>
  <2>1. Ask(f, p) \in Loads
    BY DEF Ask, Loads
  <2>2. AuditTypes'
    BY <1>1, <2>1 DEF Load, Types, AuditTypes
  <2>. QED  BY <1>1, <2>2 DEF Load, Types, ServerTypes, PageTypes, BoundTypes, server, users, bounds
<1>2. audit.page \in Nat \ {0} /\ audit.filter \in Filters
  BY DEF Types, AuditTypes
<1>3. ASSUME NEW f \in Filters, OnApply(f)
      PROVE  Types' /\ UNCHANGED <<server, calls>>
  BY <1>1, <1>3 DEF OnApply, First
<1>4. ASSUME NextPage
      PROVE  Types' /\ UNCHANGED <<server, calls>>
  <2>1. audit.page + 1 \in Nat \ {0}
    BY <1>2
  <2>. QED  BY <1>1, <1>2, <1>4, <2>1 DEF NextPage
<1>5. ASSUME Previous
      PROVE  Types' /\ UNCHANGED <<server, calls>>
  <2>1. audit.page - 1 \in Nat \ {0}
    BY <1>2, <1>5 DEF Previous
  <2>. QED  BY <1>1, <1>2, <1>5, <2>1 DEF Previous
<1>6. ASSUME NEW l \in loads,
             NEW new \in [filter : Filters, page : Nat \ {0}, loading : BOOLEAN, error : BOOLEAN,
                          known : BOOLEAN, total : Int, items : Int],
             AnswerLoad(l, new), faults' \in 0 .. MaxFaults
      PROVE  Types' /\ UNCHANGED <<server, calls>>
  <2>1. AuditTypes'
    BY <1>6 DEF AnswerLoad, Types, AuditTypes
  <2>. QED  BY <1>6, <2>1 DEF AnswerLoad, Types, ServerTypes, PageTypes, BoundTypes, server, users
<1>7. ASSUME NEW l \in loads, ListAudit(l)
      PROVE  Types' /\ UNCHANGED <<server, calls>>
  <2>. DEFINE n == Cardinality(Matching(l.filter))
  <2>1. n \in Nat
    <3>1. DOMAIN log = 1 .. Len(log) /\ Len(log) \in Nat
      BY DEF Types, ServerTypes
    <3>2. IsFiniteSet(1 .. Len(log)) /\ Matching(l.filter) \subseteq 1 .. Len(log)
      BY <3>1, FS_Interval DEF Matching
    <3>. QED  BY <3>2, FS_Subset, FS_CardinalityType
  <2>2. OnPage(n, l.page) \in Int
    BY <2>1, OnPageType DEF Types, AuditTypes, Loads
  <2>. DEFINE new == [audit EXCEPT !.known = TRUE, !.total = n, !.items = OnPage(n, l.page)]
  <2>. HIDE DEF n
  <2>3. new \in [filter : Filters, page : Nat \ {0}, loading : BOOLEAN, error : BOOLEAN,
                 known : BOOLEAN, total : Int, items : Int]
    <3>1. \A t, i \in Int : [audit EXCEPT !.known = TRUE, !.total = t, !.items = i] \in
              [filter : Filters, page : Nat \ {0}, loading : BOOLEAN, error : BOOLEAN,
               known : BOOLEAN, total : Int, items : Int]
      BY DEF Types, AuditTypes
    <3>2. n \in Int
      BY <2>1
    <3>. QED  BY <2>2, <3>1, <3>2, Zenon
  <2>4. AnswerLoad(l, new) /\ faults' \in 0 .. MaxFaults
    BY <1>7 DEF ListAudit, n, Types, BoundTypes
  <2>. HIDE DEF new
  <2>. QED  BY <1>6, <2>3, <2>4
<1>8. ASSUME NEW l \in loads, LoseAudit(l)
      PROVE  Types' /\ UNCHANGED <<server, calls>>
  <2>1. [audit EXCEPT !.error = TRUE] \in
            [filter : Filters, page : Nat \ {0}, loading : BOOLEAN, error : BOOLEAN,
             known : BOOLEAN, total : Int, items : Int]
    BY DEF Types, AuditTypes
  <2>2. faults' \in 0 .. MaxFaults
    BY <1>8, Bounds_ DEF LoseAudit, Types, BoundTypes
  <2>. QED  BY <1>6, <1>8, <2>1, <2>2 DEF LoseAudit
<1>. QED  BY <1>3, <1>4, <1>5, <1>7, <1>8 DEF Audit_

\* A handler that has read its row is served, one way or the other.
Served(c) == \A d \in calls' : \/ d \in calls \ {c}
                               \/ d.at \notin {"sent", "read"} /\ d.kind = c.kind /\ d.body = c.body

LEMMA HandlerTypes ==
    ASSUME Types, NEW c \in calls, \A d \in calls : Asked(d),
           \/ UpdateUser(c) \/ CreateUser(c) \/ SetPassword(c) \/ ResetPassword(c)
           \/ PutSso(c) \/ TestSso(c) \/ Refuse(c) \/ LoseAnswer(c)
    PROVE  Types' /\ Served(c)
<1>1. c \in Request /\ calls \subseteq Request
  BY DEF Types, ServerTypes
<1>2. /\ c.user \in Users /\ c.body \in Body /\ c.seen \in Account
      /\ c.put \in Config /\ c.saw \in Config
  BY <1>1 DEF Request
<1>3. ASSUME NEW at \in {"ok", "error"}, End(c, at)
      PROVE  calls' \subseteq Request /\ Served(c)
  BY <1>1, <1>3, EndType DEF Served
<1>4. ASSUME NEW e \in Entry, LogAudit(e)
      PROVE  log' \in Seq(Entry)
  BY <1>4 DEF LogAudit, Types, ServerTypes
<1>5. EntryOf(c) \in Entry /\ SsoEntry \in Entry
  BY <1>1, EntryTypes
<1>6. ASSUME accounts' \in [Users -> Account], sso' \in Config, log' \in Seq(Entry),
             calls' \subseteq Request, UNCHANGED <<page, bounds>>
      PROVE  Types'
  BY <1>6 DEF Types, ServerTypes, PageTypes, AuditTypes, BoundTypes, page, users, logs, bounds
<1>7. CASE UpdateUser(c)
  <2>1. accounts' \in [Users -> Account]
    BY <1>2, <1>7, UpdatedType DEF UpdateUser, Types, ServerTypes
  <2>. QED  BY <1>3, <1>4, <1>5, <1>6, <1>7, <2>1 DEF UpdateUser, Types, ServerTypes
<1>8. CASE CreateUser(c)
  <2>1. c.body \in Bodies
    BY <1>8 DEF CreateUser, Reading, Asked
  <2>2. /\ The(c.body.broker) \in BOOLEAN /\ The(c.body.active) \in BOOLEAN
        /\ The(c.body.codes) \in BOOLEAN
    BY <2>1 DEF Bodies, The
  <2>3. [there |-> TRUE, broker |-> The(c.body.broker),
         active |-> The(c.body.active), codes |-> The(c.body.codes)] \in Account
    BY <2>2 DEF Account
  <2>4. accounts' \in [Users -> Account]
    BY <1>8, <2>3 DEF CreateUser, Types, ServerTypes
  <2>. QED  BY <1>3, <1>4, <1>5, <1>6, <1>8, <2>4 DEF CreateUser, Types, ServerTypes
<1>9. CASE SetPassword(c)
  BY <1>3, <1>4, <1>5, <1>6, <1>9 DEF SetPassword, Types, ServerTypes
<1>10. CASE ResetPassword(c)
  BY <1>3, <1>4, <1>5, <1>6, <1>10 DEF ResetPassword, Types, ServerTypes
<1>11. CASE PutSso(c)
  <2>1. sso' \in Config
    BY <1>2, <1>11, ConfiguredType DEF PutSso, Types, ServerTypes
  <2>. DEFINE kept == [c EXCEPT !.at = "ok", !.saw = sso']
  <2>2. kept \in Request /\ kept.at = "ok" /\ kept.kind = c.kind /\ kept.body = c.body
    BY <1>1, <2>1 DEF Request
  <2>3. calls' = (calls \ {c}) \cup {kept} \/ calls' = calls \ {c}
    BY <1>11 DEF PutSso, Become, Drop
  <2>. HIDE DEF kept
  <2>4. calls' \subseteq Request /\ Served(c)
    BY <1>1, <2>2, <2>3 DEF Served
  <2>. QED  BY <1>4, <1>5, <1>6, <1>11, <2>1, <2>4 DEF PutSso, Types, ServerTypes
<1>12. CASE TestSso(c)
  BY <1>3, <1>6, <1>12 DEF TestSso, server, Types, ServerTypes
<1>13. CASE Refuse(c)
  BY <1>3, <1>6, <1>13 DEF Refuse, server, Types, ServerTypes
<1>14. CASE LoseAnswer(c)
  <2>. DEFINE kept == [c EXCEPT !.at = "error"]
  <2>1. kept \in Request /\ kept.at = "error" /\ kept.kind = c.kind /\ kept.body = c.body
    BY <1>1 DEF Request
  <2>2. calls' = (calls \ {c}) \cup {kept}
    BY <1>14 DEF LoseAnswer, Become
  <2>. HIDE DEF kept
  <2>3. calls' \subseteq Request /\ Served(c)
    BY <1>1, <2>1, <2>2 DEF Served
  <2>4. faults' \in 0 .. MaxFaults
    BY <1>14, Bounds_ DEF LoseAnswer, Types, BoundTypes
  <2>. QED  BY <1>14, <2>3, <2>4
            DEF LoseAnswer, Types, ServerTypes, PageTypes, AuditTypes, BoundTypes, server, page, users, logs
<1>. QED  BY <1>7, <1>8, <1>9, <1>10, <1>11, <1>12, <1>13, <1>14

LEMMA ReadTypes ==
    ASSUME Types, NEW c \in calls, Read(c)
    PROVE  /\ Types'
           /\ \A d \in calls' : \/ d \in calls
                                \/ /\ d.at = "read" /\ d.kind = c.kind /\ d.body = c.body
                                   /\ d.seen = accounts[d.user] /\ d.saw = sso
<1>. DEFINE kept == [c EXCEPT !.at = "read", !.seen = accounts[c.user], !.saw = sso]
<1>1. c \in Request /\ calls \subseteq Request
  BY DEF Types, ServerTypes
<1>2. kept \in Request
  BY <1>1 DEF Request, Types, ServerTypes
<1>3. /\ kept.at = "read" /\ kept.kind = c.kind /\ kept.body = c.body
      /\ kept.seen = accounts[kept.user] /\ kept.saw = sso
  BY <1>1 DEF Request
<1>4. calls' = (calls \ {c}) \cup {kept}
  BY DEF Read, Become
<1>. HIDE DEF kept
<1>5. calls' \subseteq Request
  BY <1>1, <1>2, <1>4
<1>6. Types'
  BY <1>5 DEF Read, Types, ServerTypes, PageTypes, AuditTypes, BoundTypes, server, page, users, logs, bounds
<1>. QED  BY <1>3, <1>4, <1>6

LEMMA OtherTypes ==
    ASSUME Types, Other
    PROVE  Types' /\ UNCHANGED calls
<1>1. ASSUME NEW u \in Users, NEW b \in Bodies, OtherUpdates(u, b)
      PROVE  ServerTypes'
  <2>1. b \in Body /\ accounts[u] \in Account
    BY Constants_ DEF Types, ServerTypes
  <2>2. accounts' \in [Users -> Account]
    BY <1>1, <2>1, UpdatedType DEF OtherUpdates, Types, ServerTypes
  <2>3. [Call("edit", u) EXCEPT !.body = b] \in Request
    BY <2>1, CallType DEF Kinds, Request
  <2>4. log' \in Seq(Entry)
    BY <1>1, <2>3, EntryTypes DEF OtherUpdates, LogAudit, Types, ServerTypes
  <2>. QED  BY <1>1, <2>2, <2>4 DEF OtherUpdates, Other, Types, ServerTypes
<1>2. ASSUME NEW put \in Config, OtherPuts(put)
      PROVE  ServerTypes'
  <2>1. sso' \in Config
    BY <1>2, ConfiguredType DEF OtherPuts, Types, ServerTypes
  <2>2. log' \in Seq(Entry)
    BY <1>2, EntryTypes DEF OtherPuts, LogAudit, Types, ServerTypes
  <2>. QED  BY <1>2, <2>1, <2>2 DEF OtherPuts, Other, Types, ServerTypes
<1>3. requests' \in 0 .. MaxRequests
  BY Bounds_ DEF Other, Types, BoundTypes
<1>. QED  BY <1>1, <1>2, <1>3 DEF Other, Types, PageTypes, AuditTypes, BoundTypes, page, users, logs

LEMMA AnswersTypes ==
    ASSUME Types, NEW c \in calls,
           \/ SwitchAnswered(c) \/ ResetAnswered(c) \/ DialogAnswered(c)
           \/ PutAnswered(c) \/ TestAnswered(c)
    PROVE  Types' /\ Served(c) /\ UNCHANGED server
<1>1. c \in Request /\ calls \subseteq Request
  BY DEF Types, ServerTypes
<1>2. ASSUME Drop(c)
      PROVE  calls' \subseteq Request /\ Served(c)
  BY <1>1, <1>2 DEF Drop, Served
<1>3. ASSUME calls' \subseteq Request, PageTypes', UNCHANGED <<server, logs, bounds>>
      PROVE  Types'
  BY <1>3 DEF Types, ServerTypes, AuditTypes, BoundTypes, server, logs, bounds
<1>4. CASE SwitchAnswered(c)
  <2>. DEFINE kept == [c EXCEPT !.at = "loading"]
  <2>1. kept \in Request /\ kept.at = "loading" /\ kept.kind = c.kind /\ kept.body = c.body
    BY <1>1 DEF Request
  <2>2. calls' = (calls \ {c}) \cup {kept} \/ Drop(c)
    BY <1>4 DEF SwitchAnswered, Become
  <2>. HIDE DEF kept
  <2>3. calls' \subseteq Request /\ Served(c)
    BY <1>1, <1>2, <2>1, <2>2 DEF Served
  <2>4. PageTypes'
    BY <1>4 DEF SwitchAnswered, Types, PageTypes
  <2>. QED  BY <1>3, <1>4, <2>3, <2>4 DEF SwitchAnswered
<1>5. CASE ResetAnswered(c)
  <2>1. PageTypes'
    BY <1>5 DEF ResetAnswered, Types, PageTypes
  <2>. QED  BY <1>2, <1>3, <1>5, <2>1 DEF ResetAnswered
<1>6. CASE DialogAnswered(c)
  <2>1. modal' \in [at : {"none", "new", "edit", "password"}, user : Users, pending : BOOLEAN]
    <3>1. modal' = Closed \/ modal' = modal \/ modal' = [modal EXCEPT !.pending = FALSE]
      BY <1>6 DEF DialogAnswered
    <3>2. Closed \in [at : {"none", "new", "edit", "password"}, user : Users, pending : BOOLEAN]
      BY Bounds_ DEF Closed
    <3>. QED  BY <3>1, <3>2 DEF Types, PageTypes
  <2>2. PageTypes'
    BY <1>6, <2>1 DEF DialogAnswered, Types, PageTypes
  <2>. QED  BY <1>2, <1>3, <1>6, <2>2 DEF DialogAnswered
<1>7. CASE PutAnswered(c)
  <2>1. form' \in [known : BOOLEAN, error : BOOLEAN, enabled : BOOLEAN, ids : BOOLEAN, secret : BOOLEAN]
    <3>1. c.saw.enabled \in BOOLEAN /\ c.saw.ids \in BOOLEAN
      BY <1>1 DEF Request, Config
    <3>2. form' = form \/ form' = [known |-> TRUE, error |-> FALSE, enabled |-> c.saw.enabled,
                                  ids |-> c.saw.ids, secret |-> FALSE]
      BY <1>7 DEF PutAnswered, ApplyConfig
    <3>3. \A x, y \in BOOLEAN :
              [known |-> TRUE, error |-> FALSE, enabled |-> x, ids |-> y, secret |-> FALSE]
              \in [known : BOOLEAN, error : BOOLEAN, enabled : BOOLEAN, ids : BOOLEAN, secret : BOOLEAN]
      OBVIOUS
    <3>4. form \in [known : BOOLEAN, error : BOOLEAN, enabled : BOOLEAN, ids : BOOLEAN, secret : BOOLEAN]
      BY DEF Types, PageTypes
    <3>5. [known |-> TRUE, error |-> FALSE, enabled |-> c.saw.enabled,
           ids |-> c.saw.ids, secret |-> FALSE]
          \in [known : BOOLEAN, error : BOOLEAN, enabled : BOOLEAN, ids : BOOLEAN, secret : BOOLEAN]
      BY <3>1, <3>3, Zenon
    <3>. QED  BY <3>2, <3>4, <3>5, Zenon
  <2>2. PageTypes'
    BY <1>7, <2>1 DEF PutAnswered, Types, PageTypes, users
  <2>. QED  BY <1>2, <1>3, <1>7, <2>2 DEF PutAnswered
<1>8. CASE TestAnswered(c)
  <2>1. PageTypes'
    BY <1>8 DEF TestAnswered, Types, PageTypes, page, users
  <2>. QED  BY <1>2, <1>3, <1>8, <2>1 DEF TestAnswered, page
<1>. QED  BY <1>4, <1>5, <1>6, <1>7, <1>8

CallInv == Types /\ \A c \in calls : Asked(c)

LEMMA CallInit == Init => CallInv
<1>. SUFFICES ASSUME Init
             PROVE  CallInv
  OBVIOUS
<1>1. accounts \in [Users -> Account] /\ sso \in Config
  BY StartsAssumption DEF Init
<1>2. log \in Seq(Entry) /\ calls \subseteq Request
  BY DEF Init
<1>3. list \in [known : BOOLEAN, error : BOOLEAN, rows : [Users -> Account]]
  BY Constants_ DEF Init, NoList
<1>4. PageTypes
  BY <1>3, Bounds_ DEF Init, PageTypes, Closed, NoForm
<1>5. AuditTypes /\ BoundTypes
  BY Bounds_ DEF Init, AuditTypes, BoundTypes, NoAudit, Filters
<1>. QED  BY <1>1, <1>2, <1>4, <1>5 DEF Init, CallInv, Types, ServerTypes

\* Requests go on when a section is left or a dialog closed, as they were.
SameRequest(d, e) == /\ d.kind = e.kind /\ d.body = e.body /\ d.at = e.at
                     /\ d.user = e.user /\ d.seen = e.seen /\ d.saw = e.saw

LEMMA KeptRequests ==
    ASSUME CallInv, Close \/ SetTabs
    PROVE  /\ \A d \in calls' : \E e \in calls : SameRequest(d, e)
           /\ \A d, f \in calls' : d.at = "read" /\ f.at = "read"
                   /\ (\A e, g \in calls : e.at = "read" /\ g.at = "read" => e = g) => d = f
<1>1. calls \subseteq Request
  BY DEF CallInv, Types, ServerTypes
<1>2. CASE Close
  <2>. DEFINE F(c) == IF c.kind = modal.at THEN [c EXCEPT !.own = FALSE] ELSE c
  <2>1. \A e \in Request : SameRequest(F(e), e)
    BY DEF Request, SameRequest
  <2>2. calls' = {F(c) : c \in calls}
    BY <1>2 DEF Close
  <2>. HIDE DEF F
  <2>. QED  BY <1>1, <2>1, <2>2 DEF SameRequest
<1>3. ASSUME NEW t \in {"users", "sso", "audit"}, SetTab(t)
      PROVE  \E S \in SUBSET calls : calls' = {[c EXCEPT !.here = FALSE, !.own = FALSE] : c \in S}
  BY <1>3 DEF SetTab
<1>4. ASSUME NEW S \in SUBSET calls, calls' = {[c EXCEPT !.here = FALSE, !.own = FALSE] : c \in S}
      PROVE  /\ \A d \in calls' : \E e \in calls : SameRequest(d, e)
             /\ \A d, f \in calls' : d.at = "read" /\ f.at = "read"
                     /\ (\A e, g \in calls : e.at = "read" /\ g.at = "read" => e = g) => d = f
  <2>. DEFINE F(c) == [c EXCEPT !.here = FALSE, !.own = FALSE]
  <2>1. \A e \in Request : SameRequest(F(e), e)
    BY DEF Request, SameRequest
  <2>2. calls' = {F(c) : c \in S}
    BY <1>4
  <2>. HIDE DEF F
  <2>. QED  BY <1>1, <2>1, <2>2 DEF SameRequest
<1>. QED  BY <1>2, <1>3, <1>4 DEF SetTabs

LEMMA KeptAsked ==
    ASSUME CallInv, Close \/ SetTabs
    PROVE  \A d \in calls' : Asked(d)
<1>1. \A d \in calls' : \E e \in calls : d.kind = e.kind /\ d.body = e.body
  BY KeptRequests DEF SameRequest
<1>. QED  BY <1>1 DEF CallInv, Asked

LEMMA CallStep == CallInv /\ [Next]_vars => CallInv'
<1>. SUFFICES ASSUME CallInv, [Next]_vars
             PROVE  CallInv'
  OBVIOUS
<1>. USE DEF CallInv
<1>1. CASE Loading
  <2>1. calls' \subseteq calls
    BY <1>1 DEF Loading, LoadUsers, LoadSso, LoseLoad, ListEnds
  <2>. QED  BY <1>1, <2>1, LoadingTypes
<1>2. CASE Users_
  BY <1>2, UsersTypes, KeptAsked
<1>3. CASE Sso_
  BY <1>3, SsoTypes
<1>4. CASE Audit_
  BY <1>4, AuditStepTypes
<1>5. ASSUME NEW c \in calls, Read(c)
      PROVE  CallInv'
  BY <1>5, ReadTypes DEF Asked
<1>6. ASSUME NEW c \in calls,
             \/ UpdateUser(c) \/ CreateUser(c) \/ SetPassword(c) \/ ResetPassword(c)
             \/ PutSso(c) \/ TestSso(c) \/ Refuse(c) \/ LoseAnswer(c)
      PROVE  CallInv'
  <2>1. Types' /\ Served(c)
    BY <1>6, HandlerTypes
  <2>. QED  BY <2>1 DEF Served, Asked
<1>7. ASSUME NEW c \in calls,
             \/ SwitchAnswered(c) \/ ResetAnswered(c) \/ DialogAnswered(c)
             \/ PutAnswered(c) \/ TestAnswered(c)
      PROVE  CallInv'
  <2>1. Types' /\ Served(c)
    BY <1>7, AnswersTypes
  <2>. QED  BY <2>1 DEF Served, Asked
<1>8. CASE SetTabs
  <2>1. Types'
    BY <1>8, TabTypes DEF SetTabs
  <2>2. \A d \in calls' : Asked(d)
    BY <1>8, KeptAsked
  <2>. QED  BY <2>1, <2>2
<1>9. CASE Other
  BY <1>9, OtherTypes
<1>10. CASE UNCHANGED vars
  BY <1>10 DEF vars, server, page, users, logs, bounds,
              Types, ServerTypes, PageTypes, AuditTypes, BoundTypes
<1>11. CASE Api
  BY <1>5, <1>6, <1>11 DEF Api
<1>12. CASE Answers
  BY <1>7, <1>12 DEF Answers
<1>. QED  BY <1>1, <1>2, <1>3, <1>4, <1>8, <1>9, <1>10, <1>11, <1>12 DEF Next

\* Every account, request, form and page of the log keeps its range, whether or
\* not handlers overlap and whatever is lost.
THEOREM TypeCorrect == Spec => []TypeOK
<1>1. CallInv => TypeOK
  BY TypesSuffice DEF CallInv
<1>. QED  BY CallInit, CallStep, <1>1, PTL DEF Spec

-----------------------------------------------------------------------------
\* Handlers that do not overlap

\* One handler at a time has read its row, and the row is still as it read it.
Reads   == {c \in calls : c.at = "read"}
ReadInv == /\ \A c, d \in Reads : c = d
           /\ \A c \in Reads : c.seen = accounts[c.user] /\ c.saw = sso

LEMMA NoNewReader ==
    ASSUME ReadInv, Reads' \subseteq Reads, UNCHANGED server
    PROVE  ReadInv'
BY DEF ReadInv, server

LEMMA ReadStep ==
    ASSUME CallInv, ReadInv, ~Overlap, [Next]_vars
    PROVE  ReadInv'
<1>1. CASE Loading
  <2>1. calls' \subseteq calls /\ UNCHANGED server
    BY <1>1 DEF Loading, LoadUsers, LoadSso, LoseLoad, ListEnds
  <2>. QED  BY <2>1, NoNewReader DEF Reads
<1>2. CASE Close \/ SetTabs
  <2>1. /\ \A d \in calls' : \E e \in calls : SameRequest(d, e)
        /\ \A d, f \in calls' : d.at = "read" /\ f.at = "read"
                /\ (\A e, g \in calls : e.at = "read" /\ g.at = "read" => e = g) => d = f
    BY <1>2, KeptRequests
  <2>2. UNCHANGED server
    BY <1>2 DEF Close, SetTabs, SetTab
  <2>3. \A d \in Reads' : d.seen = accounts[d.user] /\ d.saw = sso
    BY <2>1 DEF Reads, ReadInv, SameRequest
  <2>4. \A d, f \in Reads' : d = f
    BY <2>1 DEF Reads, ReadInv
  <2>. QED  BY <2>2, <2>3, <2>4 DEF ReadInv, server
<1>3. CASE Users_ /\ ~Close
  <2>1. Reads' \subseteq Reads
    BY <1>3, UsersTypes DEF CallInv, Reads
  <2>2. UNCHANGED server
    BY <1>3 DEF Users_, ToggleActive, SendReset, Edit, AskPassword, AddUser, SubmitEdit, SubmitNew,
               SubmitPassword, Submit, Open, Send
  <2>. QED  BY <2>1, <2>2, NoNewReader
<1>4. CASE Sso_
  <2>1. Reads' \subseteq Reads
    BY <1>4, SsoTypes DEF CallInv, Reads
  <2>2. UNCHANGED server
    BY <1>4 DEF Sso_, EditForm, OnSave, OnTest, Send
  <2>. QED  BY <2>1, <2>2, NoNewReader
<1>5. CASE Audit_
  BY <1>5, AuditStepTypes, NoNewReader DEF CallInv, Reads
<1>6. ASSUME NEW c \in calls, Read(c)
      PROVE  ReadInv'
  <2>1. Reads = {} /\ UNCHANGED server
    BY <1>6 DEF Read, Free, Reads
  <2>2. \A d \in Reads' : d.seen = accounts[d.user] /\ d.saw = sso
    BY <1>6, <2>1, ReadTypes DEF CallInv, Reads
  <2>3. \A d, e \in Reads' : d = e
    BY <1>6, <2>1 DEF Read, Become, Reads
  <2>. QED  BY <2>1, <2>2, <2>3 DEF ReadInv, server
<1>7. ASSUME NEW c \in calls,
             \/ UpdateUser(c) \/ CreateUser(c) \/ SetPassword(c) \/ ResetPassword(c) \/ PutSso(c)
      PROVE  ReadInv'
  <2>1. c \in Reads
    BY <1>7 DEF UpdateUser, CreateUser, SetPassword, ResetPassword, PutSso, Reading, Reads
  <2>2. Served(c)
    BY <1>7, HandlerTypes DEF CallInv
  <2>3. Reads' = {}
    BY <2>1, <2>2 DEF Served, Reads, ReadInv
  <2>. QED  BY <2>3 DEF ReadInv
<1>8. ASSUME NEW c \in calls, TestSso(c) \/ Refuse(c) \/ LoseAnswer(c)
      PROVE  ReadInv'
  <2>1. Served(c)
    BY <1>8, HandlerTypes DEF CallInv
  <2>2. UNCHANGED server
    BY <1>8 DEF TestSso, Refuse, LoseAnswer
  <2>. QED  BY <2>1, <2>2, NoNewReader DEF Served, Reads
<1>9. ASSUME NEW c \in calls,
             \/ SwitchAnswered(c) \/ ResetAnswered(c) \/ DialogAnswered(c)
             \/ PutAnswered(c) \/ TestAnswered(c)
      PROVE  ReadInv'
  <2>1. Served(c) /\ UNCHANGED server
    BY <1>9, AnswersTypes DEF CallInv
  <2>. QED  BY <2>1, NoNewReader DEF Served, Reads
<1>10. CASE Other
  <2>1. Reads = {} /\ UNCHANGED calls
    BY <1>10 DEF Other, Free, Reads
  <2>. QED  BY <2>1 DEF ReadInv, Reads
<1>11. CASE UNCHANGED vars
  BY <1>11, NoNewReader DEF vars, Reads
<1>12. CASE Api
  BY <1>6, <1>7, <1>8, <1>12 DEF Api
<1>13. CASE Answers
  BY <1>9, <1>13 DEF Answers
<1>. QED  BY <1>1, <1>2, <1>3, <1>4, <1>5, <1>10, <1>11, <1>12, <1>13 DEF Next

LEMMA ReadInit == Init => ReadInv
BY DEF Init, ReadInv, Reads

-----------------------------------------------------------------------------
\* The sign-on

\* Who changes the configuration.
LEMMA SsoChanges ==
    ASSUME CallInv, [Next]_vars
    PROVE  \/ UNCHANGED sso
           \/ \E c \in calls : PutSso(c)
           \/ \E put \in Config : Free /\ OtherPuts(put)
BY DEF Next, Loading, LoadUsers, LoadSso, LoseLoad,
       Users_, ToggleActive, SendReset, Edit, AskPassword, AddUser, SubmitEdit, SubmitNew,
       SubmitPassword, Submit, Open, Send, Close, Sso_, EditForm, OnSave, OnTest,
       Audit_, OnApply, NextPage, Previous, Load, ListAudit, LoseAudit, AnswerLoad,
       Api, Read, UpdateUser, CreateUser, SetPassword, ResetPassword, TestSso, Refuse, LoseAnswer,
       Answers, SwitchAnswered, ResetAnswered, DialogAnswered, PutAnswered, TestAnswered,
       SetTabs, SetTab, Other, OtherUpdates, server, vars

LEMMA CompletePut ==
    ASSUME sso \in Config, NEW put \in Config, Complete(put, sso), sso' = Configured(put, sso)
    PROVE  EnabledIsComplete'
<1>1. sso' = [enabled |-> put.enabled, ids |-> put.ids, secret |-> put.secret \/ sso.secret]
  BY ConfiguredType
<1>2. sso'.enabled = put.enabled /\ sso'.ids = put.ids /\ sso'.secret = (put.secret \/ sso.secret)
  BY <1>1
<1>. QED  BY <1>2, Zenon DEF Complete, EnabledIsComplete

LEMMA SsoStep ==
    ASSUME CallInv, ReadInv, EnabledIsComplete, [Next]_vars
    PROVE  EnabledIsComplete'
<1>1. sso \in Config
  BY DEF CallInv, Types, ServerTypes
<1>2. ASSUME NEW c \in calls, PutSso(c)
      PROVE  EnabledIsComplete'
  <2>1. c.saw = sso /\ c.put \in Config
    BY <1>2 DEF PutSso, Reading, Reads, ReadInv, CallInv, Types, ServerTypes, Request
  <2>. QED  BY <1>1, <1>2, <2>1, CompletePut DEF PutSso
<1>3. ASSUME NEW put \in Config, OtherPuts(put)
      PROVE  EnabledIsComplete'
  BY <1>1, <1>3, CompletePut DEF OtherPuts
<1>4. CASE UNCHANGED sso
  BY <1>4 DEF EnabledIsComplete
<1>. QED  BY <1>2, <1>3, <1>4, SsoChanges

\* Where handlers do not overlap: whatever forms of however many administrators
\* are saved, with or without the secret, a sign-on that is enabled is complete.
THEOREM SignOnComplete ==
    ASSUME ~Overlap
    PROVE  Spec => []EnabledIsComplete
<1>1. Init => EnabledIsComplete
  BY StartsAssumption DEF Init, EnabledIsComplete
<1>2. CallInv /\ ReadInv /\ EnabledIsComplete /\ [Next]_vars
      => CallInv' /\ ReadInv' /\ EnabledIsComplete'
  <2>. SUFFICES ASSUME CallInv, ReadInv, EnabledIsComplete, [Next]_vars
               PROVE  CallInv' /\ ReadInv' /\ EnabledIsComplete'
    OBVIOUS
  <2>. QED  BY CallStep, ReadStep, SsoStep
<1>. QED  BY CallInit, ReadInit, <1>1, <1>2, PTL DEF Spec

-----------------------------------------------------------------------------
\* The log

\* Who writes the accounts and the log.
LEMMA LogChanges ==
    ASSUME CallInv, [Next]_vars
    PROVE  \/ UNCHANGED <<accounts, log>>
           \/ \E c \in calls : \/ UpdateUser(c) \/ CreateUser(c) \/ SetPassword(c)
                               \/ ResetPassword(c) \/ PutSso(c)
           \/ \E u \in Users, b \in Bodies : OtherUpdates(u, b)
           \/ \E put \in Config : OtherPuts(put)
BY DEF Next, Loading, LoadUsers, LoadSso, LoseLoad,
       Users_, ToggleActive, SendReset, Edit, AskPassword, AddUser, SubmitEdit, SubmitNew,
       SubmitPassword, Submit, Open, Send, Close, Sso_, EditForm, OnSave, OnTest,
       Audit_, OnApply, NextPage, Previous, Load, ListAudit, LoseAudit, AnswerLoad,
       Api, Read, TestSso, Refuse, LoseAnswer,
       Answers, SwitchAnswered, ResetAnswered, DialogAnswered, PutAnswered, TestAnswered,
       SetTabs, SetTab, Other, server, vars

\* An entry explains what it gives, and what it does not give is still explained
\* by the entries before it.
LEMMA AppendExplains ==
    ASSUME NEW entries \in Seq(Entry), NEW e \in Entry, NEW field \in {"broker", "active"},
           NEW u \in Users, NEW now, NEW next, Explained(entries, field, u, now),
           e.user = u /\ e[field] # {} => e[field] = {next},
           e.user # u \/ e[field] = {} => next = now
    PROVE  Explained(Append(entries, e), field, u, next)
<1>. DEFINE n   == Len(entries)
            all == Append(entries, e)
<1>1. n \in Nat /\ DOMAIN entries = 1 .. n
  OBVIOUS
<1>2. /\ Len(all) = n + 1 /\ DOMAIN all = 1 .. n + 1
      /\ \A i \in 1 .. n : all[i] = entries[i]
      /\ all[n + 1] = e
  BY AppendProperties
<1>. HIDE DEF n, all
<1>. SUFFICES ASSUME NEW i \in 1 .. n + 1, all[i].user = u, all[i][field] # {},
                     \A j \in 1 .. n + 1 : j > i /\ all[j].user = u => all[j][field] = {}
             PROVE  all[i][field] = {next}
  BY <1>2 DEF Explained, all
<1>3. CASE i = n + 1
  BY <1>2, <1>3
<1>4. CASE i # n + 1
  <2>1. i \in 1 .. n /\ n + 1 > i /\ n + 1 \in 1 .. n + 1
    BY <1>1, <1>4
  <2>2. e.user # u \/ e[field] = {}
    BY <1>2, <2>1
  <2>3. \A j \in 1 .. n : j > i /\ entries[j].user = u => entries[j][field] = {}
    <3>1. \A j \in 1 .. n : j \in 1 .. n + 1
      BY <1>1
    <3>. QED  BY <1>2, <3>1
  <2>4. entries[i][field] = {now}
    BY <1>1, <1>2, <2>1, <2>3 DEF Explained
  <2>. QED  BY <1>2, <2>1, <2>2, <2>4
<1>. QED  BY <1>3, <1>4

\* An entry that gives what was written, and gives what changed.
LEMMA EntryExplains ==
    ASSUME CallInv, LogExplains, NEW e \in Entry, LogAudit(e),
           \A u \in Users :
               /\ e.user = u /\ e.broker # {} => e.broker = {accounts'[u].broker}
               /\ e.user # u \/ e.broker = {} => accounts'[u].broker = accounts[u].broker
               /\ e.user = u /\ e.active # {} => e.active = {accounts'[u].active}
               /\ e.user # u \/ e.active = {} => accounts'[u].active = accounts[u].active
    PROVE  LogExplains'
<1>1. log \in Seq(Entry) /\ log' = Append(log, e)
  BY DEF CallInv, Types, ServerTypes, LogAudit
<1>2. ASSUME NEW u \in Users
      PROVE  /\ Explained(log', "broker", u, accounts'[u].broker)
             /\ Explained(log', "active", u, accounts'[u].active)
  <2>1. Explained(log, "broker", u, accounts[u].broker) /\ Explained(log, "active", u, accounts[u].active)
    BY DEF LogExplains
  <2>2. Explained(log', "broker", u, accounts'[u].broker)
    BY <1>1, <2>1, AppendExplains
  <2>3. Explained(log', "active", u, accounts'[u].active)
    BY <1>1, <2>1, AppendExplains
  <2>. QED  BY <2>2, <2>3
<1>. QED  BY <1>2 DEF LogExplains

LEMMA UpdateExplains ==
    ASSUME CallInv, LogExplains, NEW u \in Users, NEW body \in Body,
           accounts' = Updated(u, body, accounts[u]),
           NEW e \in Entry, e.user = u, e.broker = body.broker, e.active = body.active, LogAudit(e)
    PROVE  LogExplains'
<1>1. accounts \in [Users -> Account] /\ accounts[u] \in Account
  BY DEF CallInv, Types, ServerTypes
<1>2. /\ \A w \in Users \ {u} : accounts'[w] = accounts[w]
      /\ accounts'[u].broker = Flush(body.broker, accounts[u].broker, accounts[u].broker)
      /\ accounts'[u].active = Flush(body.active, accounts[u].active, accounts[u].active)
  BY <1>1, UpdatedType
<1>3. /\ body.broker \in Maybe(BOOLEAN) /\ body.active \in Maybe(BOOLEAN)
      /\ accounts[u].broker \in BOOLEAN /\ accounts[u].active \in BOOLEAN
  BY <1>1 DEF Body, Account
<1>4. /\ body.broker # {} => body.broker = {accounts'[u].broker}
      /\ body.broker = {} => accounts'[u].broker = accounts[u].broker
  <2>. DEFINE now == accounts[u].broker
  <2>1. /\ body.broker # {} => body.broker = {Flush(body.broker, now, now)}
        /\ body.broker = {} => Flush(body.broker, now, now) = now
    <3>. HIDE DEF now
    <3>. QED  BY <1>3, FlushType DEF now
  <2>. QED  BY <1>2, <2>1
<1>5. /\ body.active # {} => body.active = {accounts'[u].active}
      /\ body.active = {} => accounts'[u].active = accounts[u].active
  <2>. DEFINE now == accounts[u].active
  <2>1. /\ body.active # {} => body.active = {Flush(body.active, now, now)}
        /\ body.active = {} => Flush(body.active, now, now) = now
    <3>. HIDE DEF now
    <3>. QED  BY <1>3, FlushType DEF now
  <2>. QED  BY <1>2, <2>1
<1>. QED  BY <1>2, <1>4, <1>5, EntryExplains

LEMMA LogStep ==
    ASSUME CallInv, ReadInv, LogExplains, [Next]_vars
    PROVE  LogExplains'
<1>1. \A c \in calls : /\ c \in Request /\ c.user \in Users /\ c.body \in Body
                       /\ EntryOf(c) \in Entry /\ EntryOf(c).user = c.user
                       /\ EntryOf(c).broker = c.body.broker /\ EntryOf(c).active = c.body.active
  BY EntryTypes DEF EntryOf, Request, CallInv, Types, ServerTypes
<1>2. ASSUME NEW c \in calls, UpdateUser(c)
      PROVE  LogExplains'
  <2>1. c.seen = accounts[c.user]
    BY <1>2 DEF UpdateUser, Reading, Reads, ReadInv
  <2>. QED  BY <1>1, <1>2, <2>1, UpdateExplains DEF UpdateUser
<1>3. ASSUME NEW c \in calls, CreateUser(c)
      PROVE  LogExplains'
  <2>. DEFINE u == c.user
  <2>1. c.body \in Bodies
    BY <1>3 DEF CreateUser, Reading, CallInv, Asked
  <2>2. c.body.broker = {The(c.body.broker)} /\ c.body.active = {The(c.body.active)}
    BY <2>1 DEF Bodies, The
  <2>3. u \in Users /\ accounts \in [Users -> Account]
    BY <1>1 DEF CallInv, Types, ServerTypes
  <2>4. /\ accounts'[u].broker = The(c.body.broker) /\ accounts'[u].active = The(c.body.active)
        /\ \A w \in Users \ {u} : accounts'[w] = accounts[w]
    BY <1>3, <2>3 DEF CreateUser
  <2>5. EntryOf(c) \in Entry /\ LogAudit(EntryOf(c))
    BY <1>1, <1>3 DEF CreateUser
  <2>. QED  BY <1>1, <2>2, <2>4, <2>5, EntryExplains
<1>4. ASSUME NEW c \in calls, SetPassword(c) \/ ResetPassword(c)
      PROVE  LogExplains'
  <2>1. c.body.broker = {} /\ c.body.active = {}
    BY <1>4 DEF SetPassword, ResetPassword, Reading, CallInv, Asked, Nothing
  <2>2. UNCHANGED accounts /\ LogAudit(EntryOf(c))
    BY <1>4 DEF SetPassword, ResetPassword
  <2>. QED  BY <1>1, <2>1, <2>2, EntryExplains
<1>5. ASSUME UNCHANGED accounts, LogAudit(SsoEntry)
      PROVE  LogExplains'
  <2>1. SsoEntry \in Entry /\ SsoEntry.broker = {} /\ SsoEntry.active = {}
    BY EntryTypes DEF SsoEntry
  <2>. QED  BY <1>5, <2>1, EntryExplains
<1>6. ASSUME NEW u \in Users, NEW b \in Bodies, OtherUpdates(u, b)
      PROVE  LogExplains'
  <2>. DEFINE c == [Call("edit", u) EXCEPT !.body = b]
  <2>1. b \in Body
    BY Constants_
  <2>2. c \in Request /\ c.user = u /\ c.body = b
    BY <2>1, CallType DEF Call, Kinds, Request
  <2>3. /\ EntryOf(c) \in Entry /\ EntryOf(c).user = u
        /\ EntryOf(c).broker = b.broker /\ EntryOf(c).active = b.active
    BY <2>2, EntryTypes DEF EntryOf
  <2>4. LogAudit(EntryOf(c)) /\ accounts' = Updated(u, b, accounts[u])
    BY <1>6 DEF OtherUpdates
  <2>. QED  BY <2>1, <2>3, <2>4, UpdateExplains
<1>7. CASE UNCHANGED <<accounts, log>>
  BY <1>7 DEF LogExplains
<1>8. ASSUME NEW c \in calls, PutSso(c)
      PROVE  LogExplains'
  BY <1>5, <1>8 DEF PutSso
<1>9. ASSUME NEW put \in Config, OtherPuts(put)
      PROVE  LogExplains'
  BY <1>5, <1>9 DEF OtherPuts
<1>. QED  BY <1>2, <1>3, <1>4, <1>6, <1>7, <1>8, <1>9, LogChanges

\* Where handlers do not overlap: however many administrators change accounts,
\* the role and the state of each are those of the last entry that gives them.
THEOREM LogExplainsAccounts ==
    ASSUME ~Overlap
    PROVE  Spec => []LogExplains
<1>1. Init => LogExplains
  BY DEF Init, LogExplains, Explained
<1>2. CallInv /\ ReadInv /\ LogExplains /\ [Next]_vars => CallInv' /\ ReadInv' /\ LogExplains'
  <2>. SUFFICES ASSUME CallInv, ReadInv, LogExplains, [Next]_vars
               PROVE  CallInv' /\ ReadInv' /\ LogExplains'
    OBVIOUS
  <2>. QED  BY CallStep, ReadStep, LogStep
<1>. QED  BY CallInit, ReadInit, <1>1, <1>2, PTL DEF Spec
-----------------------------------------------------------------------------
\* The pages of the log

\* The log only grows, and with it what matches a filter.
LEMMA LogGrows ==
    ASSUME CallInv, [Next]_vars
    PROVE  \/ log' = log
           \/ \E e \in Entry : log' = Append(log, e)
<1>1. SsoEntry \in Entry /\ \A c \in calls : EntryOf(c) \in Entry
  BY EntryTypes DEF CallInv, Types, ServerTypes
<1>2. \A u \in Users, b \in Bodies : EntryOf([Call("edit", u) EXCEPT !.body = b]) \in Entry
  <2>. SUFFICES ASSUME NEW u \in Users, NEW b \in Bodies
               PROVE  EntryOf([Call("edit", u) EXCEPT !.body = b]) \in Entry
    OBVIOUS
  <2>1. b \in Body /\ Call("edit", u) \in Request
    BY Constants_, CallType DEF Kinds
  <2>2. [Call("edit", u) EXCEPT !.body = b] \in Request
    BY <2>1 DEF Request
  <2>. QED  BY <2>2, EntryTypes
<1>. QED  BY <1>1, <1>2, LogChanges
          DEF UpdateUser, CreateUser, SetPassword, ResetPassword, PutSso, OtherUpdates, OtherPuts, LogAudit

Count(f) == Cardinality(Matching(f))

LEMMA CountsGrow ==
    ASSUME CallInv, [Next]_vars
    PROVE  \A f : /\ IsFiniteSet(Matching(f)) /\ Count(f) \in Nat /\ Count(f)' \in Nat
                  /\ Count(f) <= Count(f)'
<1>1. log \in Seq(Entry) /\ log' \in Seq(Entry)
  BY CallStep DEF CallInv, Types, ServerTypes
<1>2. \A f : Matching(f) \subseteq 1 .. Len(log) /\ Matching(f)' \subseteq 1 .. Len(log')
  BY <1>1 DEF Matching
<1>3. Len(log) \in Nat /\ Len(log') \in Nat
  BY <1>1
<1>4. ASSUME NEW f
      PROVE  IsFiniteSet(Matching(f)) /\ IsFiniteSet(Matching(f)')
  <2>1. IsFiniteSet(1 .. Len(log)) /\ IsFiniteSet(1 .. Len(log'))
    BY <1>3, FS_Interval
  <2>2. Matching(f) \subseteq 1 .. Len(log) /\ Matching(f)' \subseteq 1 .. Len(log')
    BY <1>2
  <2>3. IsFiniteSet(Matching(f))
    BY <2>1, <2>2, FS_Subset
  <2>4. IsFiniteSet(Matching(f)')
    <3>. DEFINE M == Matching(f)'
    <3>1. M \subseteq 1 .. Len(log')
      BY <2>2
    <3>. HIDE DEF M
    <3>2. IsFiniteSet(M)
      BY <2>1, <3>1, FS_Subset
    <3>. QED  BY <3>2 DEF M
  <2>. QED  BY <2>3, <2>4
<1>5. \A f : Matching(f) \subseteq Matching(f)'
  <2>1. CASE log' = log
    BY <2>1 DEF Matching
  <2>2. ASSUME NEW e \in Entry, log' = Append(log, e)
        PROVE  \A f : Matching(f) \subseteq Matching(f)'
    <3>1. /\ DOMAIN log = 1 .. Len(log) /\ DOMAIN log' = 1 .. Len(log) + 1
          /\ \A i \in 1 .. Len(log) : log'[i] = log[i]
      BY <1>1, <2>2, AppendProperties
    <3>2. \A i \in 1 .. Len(log) : i \in 1 .. Len(log) + 1
      BY <1>3
    <3>. QED  BY <3>1, <3>2 DEF Matching
  <2>. QED  BY <2>1, <2>2, LogGrows
<1>. QED  BY <1>4, <1>5, FS_Subset, FS_CardinalityType DEF Count

\* There is a next page only where there are entries for it.
LEMMA PagesCovered ==
    ASSUME NEW total \in Nat, NEW p \in Nat \ {0}, p < TotalPages(total)
    PROVE  p * PageSize < total
<1>. DEFINE q == (total + PageSize - 1) \div PageSize
<1>1. PageSize \in Nat \ {0}
  BY Bounds_
<1>2. total # 0 /\ p < q
  BY DEF TotalPages
<1>3. q \in Int /\ q * PageSize <= total + PageSize - 1
  BY <1>1, SMTT(30)
<1>. HIDE DEF q
<1>4. q - p \in Nat \ {0}
  BY <1>2, <1>3
<1>5. PageSize <= (q - p) * PageSize
  BY <1>1, <1>4, SMTT(30)
<1>6. (q - p) * PageSize = q * PageSize - p * PageSize
  BY <1>1, <1>3, SMTT(30)
<1>7. q * PageSize \in Int /\ p * PageSize \in Int /\ (q - p) * PageSize \in Int
  BY <1>1, <1>3
<1>. QED  BY <1>1, <1>3, <1>5, <1>6, <1>7

\* The page has entries, or it is the first.
Reached(f, p) == p = 1 \/ (p - 1) * PageSize < Count(f)

\* As long as no answer is lost: the answer that is awaited is the one to the
\* filter and the page that are set, the page has been reached, and the pager
\* counts no entry that there is not.
PagerInv ==
    faults = 0 => /\ loads \subseteq {Ask(audit.filter, audit.page)}
                  /\ Reached(audit.filter, audit.page)
                  /\ loads = {} => audit.total <= Count(audit.filter)
                  /\ audit.total >= 0
                  /\ NeverAnEmptyPage

LEMMA ReachedStays ==
    ASSUME CallInv, [Next]_vars, NEW f, NEW p \in Nat \ {0}, Reached(f, p)
    PROVE  Reached(f, p)'
<1>1. /\ Count(f) \in Nat /\ Count(f)' \in Nat /\ Count(f) <= Count(f)'
  BY CountsGrow
<1>2. (p - 1) * PageSize \in Int
  BY Bounds_
<1>. QED  BY <1>1, <1>2 DEF Reached

\* Who moves the pages.
LEMMA PageChanges ==
    ASSUME CallInv, [Next]_vars
    PROVE  /\ faults' = faults \/ faults' = faults + 1
           /\ \/ UNCHANGED <<audit, loads>>
              \/ NextPage \/ Previous \/ \E f \in Filters : OnApply(f)
              \/ \E l \in loads : ListAudit(l) \/ (LoseAudit(l) /\ faults' = faults + 1)
              \/ \E t \in {"users", "sso", "audit"} : SetTab(t)
BY DEF Next, Loading, LoadUsers, LoadSso, LoseLoad,
       Users_, ToggleActive, SendReset, Edit, AskPassword, AddUser, SubmitEdit, SubmitNew,
       SubmitPassword, Submit, Open, Send, Close, Sso_, EditForm, OnSave, OnTest,
       Audit_, OnApply, NextPage, Previous, Load, ListAudit, LoseAudit, AnswerLoad,
       Api, Read, UpdateUser, CreateUser, SetPassword, ResetPassword, PutSso, TestSso, Refuse, LoseAnswer,
       Answers, SwitchAnswered, ResetAnswered, DialogAnswered, PutAnswered, TestAnswered,
       SetTabs, SetTab, Other, OtherUpdates, OtherPuts, server, page, logs, bounds, vars

LEMMA NothingAwaited ==
    ASSUME MaxLoads = 1, PagerInv, faults = 0, Cardinality(loads) < MaxLoads
    PROVE  loads = {}
<1>1. IsFiniteSet(loads)
  <2>1. loads \subseteq {Ask(audit.filter, audit.page)}
    BY DEF PagerInv
  <2>2. IsFiniteSet({Ask(audit.filter, audit.page)})
    BY FS_Singleton
  <2>. QED  BY <2>1, <2>2, FS_Subset
<1>2. Cardinality(loads) \in Nat /\ Cardinality(loads) < 1
  BY <1>1, FS_CardinalityType
<1>. QED  BY <1>1, <1>2, FS_EmptySet

\* A request for a page that is reached, when no other is awaited.
LEMMA LoadReaches ==
    ASSUME MaxLoads = 1, CallInv, PagerInv, faults = 0, [Next]_vars,
           NEW f \in Filters, NEW p \in Nat \ {0}, Load(f, p), Reached(f, p)
    PROVE  PagerInv'
<1>2. loads = {}
  BY NothingAwaited DEF Load
<1>3. loads' = {Ask(f, p)} /\ audit'.filter = f /\ audit'.page = p
  BY <1>2 DEF Load, CallInv, Types, AuditTypes
<1>4. audit'.total = audit.total /\ audit'.items = audit.items /\ faults' = faults
  BY DEF Load, CallInv, Types, AuditTypes, bounds
<1>5. Reached(f, p)'
  BY ReachedStays
<1>6. Reached(audit.filter, audit.page)'
  BY <1>3, <1>5 DEF Reached, Count, Matching
<1>. QED  BY <1>3, <1>4, <1>6 DEF PagerInv, NeverAnEmptyPage

LEMMA PagerStep ==
    ASSUME MaxLoads = 1, CallInv, PagerInv, [Next]_vars
    PROVE  PagerInv'
<1>. SUFFICES ASSUME faults' = 0
             PROVE  PagerInv'
  BY DEF PagerInv
<1>1. faults = 0 /\ faults \in Nat
  BY PageChanges, Bounds_ DEF CallInv, Types, BoundTypes
<1>2. /\ audit.filter \in Filters /\ audit.page \in Nat \ {0} /\ audit.total \in Nat /\ faults' = faults
      /\ loads \subseteq {Ask(audit.filter, audit.page)} /\ Reached(audit.filter, audit.page)
      /\ loads = {} => audit.total <= Count(audit.filter)
      /\ NeverAnEmptyPage
  BY <1>1 DEF PagerInv, CallInv, Types, AuditTypes
<1>3. \A f : Count(f) \in Nat /\ Count(f)' \in Nat /\ Count(f) <= Count(f)'
  BY CountsGrow
<1>4. CASE UNCHANGED <<audit, loads>>
  <2>1. Reached(audit.filter, audit.page)'
    <3>. DEFINE f == audit.filter
               p == audit.page
    <3>1. UNCHANGED audit /\ Count(f) <= Count(f)' /\ Count(f) \in Nat /\ Count(f)' \in Nat
      BY <1>3, <1>4 DEF Count, Matching
    <3>2. (p - 1) * PageSize \in Int
      BY <1>2, Bounds_
    <3>. QED  BY <1>2, <3>1, <3>2 DEF Reached
  <2>2. Count(audit.filter) \in Nat /\ Count(audit.filter)' \in Nat /\ Count(audit.filter) <= Count(audit.filter)'
    BY <1>3, <1>4 DEF Count, Matching
  <2>. QED  BY <1>2, <1>4, <2>1, <2>2 DEF PagerInv, NeverAnEmptyPage
<1>5. CASE NextPage
  <2>1. loads = {}
    BY <1>1, <1>5, NothingAwaited DEF NextPage, Load
  <2>2. audit.page * PageSize < audit.total
    BY <1>2, <1>5, PagesCovered DEF NextPage
  <2>3. Reached(audit.filter, audit.page + 1)
    <3>1. audit.page * PageSize \in Int /\ audit.total <= Count(audit.filter) /\ Count(audit.filter) \in Nat
      BY <1>2, <1>3, <2>1, Bounds_
    <3>2. (audit.page + 1) - 1 = audit.page
      BY <1>2
    <3>. QED  BY <1>2, <2>2, <3>1, <3>2 DEF Reached
  <2>. QED  BY <1>1, <1>2, <1>5, <2>3, LoadReaches DEF NextPage
<1>6. CASE Previous
  <2>. DEFINE p == audit.page - 1
  <2>1. p \in Nat \ {0} /\ audit.page # 1
    BY <1>2, <1>6 DEF Previous
  <2>2. (audit.page - 1) * PageSize < Count(audit.filter)
    BY <1>2, <2>1 DEF Reached
  <2>3. (p - 1) * PageSize < p * PageSize /\ (p - 1) * PageSize \in Int /\ p * PageSize \in Int
    <3>1. (p - 1) * PageSize = p * PageSize - PageSize
      BY <2>1, Bounds_, SMTT(30)
    <3>. QED  BY <2>1, <3>1, Bounds_
  <2>4. Reached(audit.filter, p)
    BY <1>3, <2>2, <2>3 DEF Reached
  <2>. QED  BY <1>1, <1>2, <1>6, <2>1, <2>4, LoadReaches DEF Previous
<1>7. ASSUME NEW f \in Filters, OnApply(f)
      PROVE  PagerInv'
  BY <1>1, <1>7, LoadReaches DEF OnApply, First, Reached
<1>8. ASSUME NEW l \in loads, ListAudit(l)
      PROVE  PagerInv'
  <2>. DEFINE f == audit.filter
             p == audit.page
             n == Count(f)
  <2>1. l = Ask(f, p) /\ l.filter = f /\ l.page = p /\ loads' = {}
    BY <1>2, <1>8 DEF Ask, ListAudit, AnswerLoad
  <2>2. /\ audit'.filter = f /\ audit'.page = p /\ audit'.total = n /\ audit'.items = OnPage(n, p)
        /\ log' = log
    BY <1>8, <2>1 DEF ListAudit, AnswerLoad, CallInv, Types, AuditTypes, Count, server
  <2>3. Count(audit.filter)' = n
    BY <2>2 DEF Count, Matching
  <2>4. Reached(audit.filter, audit.page)'
    BY <1>2, <2>2, <2>3 DEF Reached
  <2>5. n > 0 => OnPage(n, p) > 0
    <3>. SUFFICES ASSUME n > 0
                 PROVE  OnPage(n, p) > 0
      OBVIOUS
    <3>1. n \in Nat /\ p \in Nat \ {0}
      BY <1>2, <1>3
    <3>2. Reached(f, p)
      BY <1>2
    <3>. HIDE DEF n, p, f
    <3>3. (p - 1) * PageSize \in Int /\ (p - 1) * PageSize < n
      <4>1. CASE p = 1
        <5>1. (p - 1) * PageSize = 0
          BY <4>1, Bounds_
        <5>. QED  BY <3>1, <5>1
      <4>2. CASE p # 1
        BY <3>1, <3>2, <4>2, Bounds_ DEF Reached, n
      <4>. QED  BY <4>1, <4>2
    <3>. QED  BY <3>1, <3>3, Bounds_ DEF OnPage
  <2>. QED  BY <1>2, <1>3, <2>1, <2>2, <2>3, <2>4, <2>5 DEF PagerInv, NeverAnEmptyPage
<1>9. ASSUME NEW t \in {"users", "sso", "audit"}, SetTab(t)
      PROVE  PagerInv'
  <2>1. /\ audit'.filter = "all" /\ audit'.page = 1 /\ audit'.total = 0
        /\ loads' \subseteq {Ask("all", 1)}
    BY <1>9 DEF SetTab, NoAudit
  <2>2. Count(audit.filter)' \in Nat
    <3>1. Count("all")' \in Nat
      BY <1>3
    <3>. QED  BY <2>1, <3>1 DEF Count, Matching
  <2>. QED  BY <2>1, <2>2 DEF PagerInv, NeverAnEmptyPage, Reached
<1>. QED  BY <1>1, <1>4, <1>5, <1>6, <1>7, <1>8, <1>9, PageChanges

LEMMA PagerInit == Init => PagerInv
<1>. SUFFICES ASSUME Init
             PROVE  PagerInv
  OBVIOUS
<1>1. Matching("all") = {}
  BY DEF Init, Matching
<1>2. Count("all") = 0
  BY <1>1, FS_EmptySet DEF Count
<1>. QED  BY <1>2 DEF Init, NoAudit, PagerInv, NeverAnEmptyPage, Reached

\* Of a person that waits for an answer before the next request, and gets it:
\* whatever is filtered, paged and added to the log, the log never shows an
\* empty page of entries that it counts.
THEOREM PagesNeverEmpty ==
    ASSUME MaxLoads = 1
    PROVE  Spec => []NeverAnEmptyPage
<1>1. CallInv /\ PagerInv /\ [Next]_vars => CallInv' /\ PagerInv'
  <2>. SUFFICES ASSUME CallInv, PagerInv, [Next]_vars
               PROVE  CallInv' /\ PagerInv'
    OBVIOUS
  <2>. QED  BY CallStep, PagerStep
<1>2. CallInv /\ PagerInv => NeverAnEmptyPage
  BY Bounds_ DEF PagerInv, NeverAnEmptyPage
<1>. QED  BY CallInit, PagerInit, <1>1, <1>2, PTL DEF Spec
=============================================================================
