----------------------------- MODULE Desks_proofs -----------------------------
(***************************************************************************)
(* What three of the desks keep true, for every value of their constants:  *)
(*                                                                         *)
(* the evaluator page (RubricDesk): the tables are sound, a move that      *)
(* nobody disturbs leaves the order it was for, and a draft that is told   *)
(* as saved has been created;                                              *)
(*                                                                         *)
(* the knowledge base (KnowledgeDesk, as Know): a ready document can be    *)
(* searched, two tasks do not delete the same chunks, and an undisturbed   *)
(* task rebuilds its document's chunks;                                    *)
(*                                                                         *)
(* the page of a recording (RecordingDesk, as Rec): decisions are stored   *)
(* on completed runs only, and the breakdown adds up to the stored score.  *)
(*                                                                         *)
(* The desks do not interact.  They share a module of proofs, and the      *)
(* names of some variables and bounds; each theorem is about the           *)
(* specification of one.  KnowledgeBase and EvaluationRuns hold what the   *)
(* last two are about; Know and Rec are the desks over them, and bring     *)
(* their assumption in as a hypothesis.                                    *)
(***************************************************************************)
EXTENDS RubricDesk, KnowledgeBase, EvaluationRuns, SequenceTheorems, FiniteSetTheorems, TLAPS

CONSTANTS MaxDocs, MaxTasks  \* of the knowledge base
VARIABLE home
Know == INSTANCE KnowledgeDesk

CONSTANTS Judgements, MaxLoads  \* of the page of a recording
VARIABLES status, text, worker, load
Rec == INSTANCE RecordingDesk WITH Answers <- Judgements

-----------------------------------------------------------------------------
(***************************************************************************)
(* The evaluator page                                                      *)
(***************************************************************************)

-----------------------------------------------------------------------------
\* The invariant

RowSet   == [sec : Sections, key : Nat, order : Nat, there : BOOLEAN, locked : BOOLEAN, drafted : Nat]
BodySet  == [key : Nat, order : Nat]
ListRows == [id : Nat, key : Nat, order : Nat, locked : BOOLEAN]
Calls    == [at : {"idle", "sent", "ok", "error"}, kind : {"none", "new", "edit", "delete", "import"},
             sec : Sections \cup {"none", "generate"}, id : Nat, body : BodySet, twice : BOOLEAN, here : BOOLEAN]
Moves    == [at : {"no", "first", "second"}, item : Nat, other : Nat, body : BodySet,
             result : Seq(Nat), clean : BOOLEAN]
Panels   == [at : {"empty", "drafting", "draft", "saving", "saved"}, picked : SUBSET Drafts, try : Nat]
Modals   == [at : {"none", "new", "edit", "delete"}, id : Nat, pending : BOOLEAN]
Posts    == [item : Drafts, try : Nat, at : {"sent", "ok", "error"}]

\* Row r is one of section s.
Of(s, r) == r \in DOMAIN rows /\ rows[r].sec = s

\* The tables: no two rows of a section share a key, and a locked row is a
\* field that is as it was.
KeysOK   == \A r, q \in DOMAIN rows : rows[r].there /\ rows[q].there /\ rows[r].sec = rows[q].sec
                                      /\ rows[r].key = rows[q].key => r = q
LockedOK == \A r \in DOMAIN rows :
                rows[r].locked => rows[r].there /\ rows[r].key = 1 /\ rows[r].sec = "fields"
TablesOK == rows \in Seq(RowSet) /\ KeysOK /\ LockedOK

\* The list and the dialog are about rows of the tab's section.
ListOK  == /\ tab \in Sections \cup {"generate"}
           /\ asked \in BOOLEAN
           /\ list \in [known : BOOLEAN, error : BOOLEAN, rows : Seq(ListRows)]
           /\ list.known => ~asked
           /\ \A i \in DOMAIN list.rows : Of(tab, list.rows[i].id)
ModalOK == /\ modal \in Modals
           /\ modal.at \in {"edit", "delete"} => Of(tab, modal.id)
           /\ modal.pending => /\ call # Idle /\ call.kind = modal.at /\ call.here
                               /\ move.at = "no"

\* A request is about a row of its section.
CallOK == /\ call \in Calls
          /\ call.kind \in {"edit", "delete"} => Of(call.sec, call.id)
          /\ call.kind \in {"new", "edit", "delete", "import"} /\ call.at # "idle" => call.sec \in Sections
          /\ requests \in Nat
          /\ requests > 0 => posts = {}

\* The rows when an edit has been written.
Writing(rs, id, b) == [rs EXCEPT ![id].key = b.key, ![id].order = b.order]
\* A section's rows, and their ids as the API lists them.
InOf(rs, s) == {r \in DOMAIN rs : rs[r].there /\ rs[r].sec = s}
BeforeOf(rs, r, q) == \/ rs[r].order < rs[q].order
                      \/ rs[r].order = rs[q].order /\ rs[r].key < rs[q].key
RankIn(rs, s, r) == Cardinality({q \in InOf(rs, s) : BeforeOf(rs, q, r)})
IdsOf(rs, s) == [i \in 1..Cardinality(InOf(rs, s)) |-> CHOOSE r \in InOf(rs, s) : RankIn(rs, s, r) = i - 1]

\* A move that nobody has disturbed is as good as done: the writes that it has
\* still to do bring its result about.
MoveOK ==
    /\ move \in Moves
    /\ move.at # "no" => /\ call.at # "idle" /\ call.kind = "edit" /\ call.sec = "checklist"
                         /\ Of("checklist", move.other) /\ requests > 0
    /\ move.at = "second" => call.id = move.other /\ call.body = move.body
    /\ move.at = "first" /\ move.clean /\ call.at = "sent" =>
          IdsOf(Writing(Writing(rows, call.id, call.body), move.other, move.body), "checklist") = move.result
    /\ \/ move.at = "first" /\ move.clean /\ call.at = "ok"
       \/ move.at = "second" /\ move.clean /\ call.at = "sent"
       => IdsOf(Writing(rows, move.other, move.body), "checklist") = move.result

\* What a save has created.
Created(item) == \E r \in DOMAIN rows : rows[r].sec = item[1] /\ rows[r].drafted = item[2]
PanelOK ==
    /\ panel \in Panels /\ posts \in SUBSET Posts /\ saves \in Nat
    /\ panel.at = "saving" => \A i \in panel.picked : \E p \in Mine : p.item = i
    /\ \A p \in posts : p.at = "ok" => Created(p.item)
    /\ panel.at = "saved" => \A i \in panel.picked : Created(i)

RubricInv == TablesOK /\ ListOK /\ ModalOK /\ CallOK /\ MoveOK /\ PanelOK

-----------------------------------------------------------------------------
\* Sorting

PlaceIn(S, R, r) == Cardinality({q \in S : <<q, r>> \in R})

\* The places of the elements of a finite set under a strict total order are
\* the numbers from 0 on, each the place of one element.
LEMMA Places ==
    ASSUME NEW S, IsFiniteSet(S), NEW R,
           \A x \in S : <<x, x>> \notin R,
           \A x, y \in S : x # y => <<x, y>> \in R \/ <<y, x>> \in R,
           \A x, y, z \in S : <<x, y>> \in R /\ <<y, z>> \in R => <<x, z>> \in R
    PROVE  /\ Cardinality(S) \in Nat
           /\ \A r \in S : PlaceIn(S, R, r) \in 0 .. Cardinality(S) - 1
           /\ \A r, q \in S : PlaceIn(S, R, r) = PlaceIn(S, R, q) => r = q
           /\ \A k \in 0 .. Cardinality(S) - 1 : \E r \in S : PlaceIn(S, R, r) = k
<1>. DEFINE n == Cardinality(S)
            below(r) == {q \in S : <<q, r>> \in R}
            place(r) == Cardinality(below(r))
<1>1. n \in Nat
  BY FS_CardinalityType
<1>2. \A r \in S : below(r) \in SUBSET S /\ IsFiniteSet(below(r)) /\ place(r) \in Nat
  <2>. TAKE r \in S
  <2>1. below(r) \in SUBSET S
    OBVIOUS
  <2>. HIDE DEF below
  <2>2. IsFiniteSet(below(r))
    BY <2>1, FS_Subset
  <2>. QED  BY <2>1, <2>2, FS_CardinalityType
<1>3. \A r \in S : place(r) \in 0 .. n - 1
  <2>. TAKE r \in S
  <2>1. below(r) # S
    OBVIOUS
  <2>2. below(r) \in SUBSET S /\ place(r) \in Nat
    BY <1>2
  <2>. HIDE DEF below
  <2>3. Cardinality(below(r)) <= Cardinality(S) /\ Cardinality(S) # Cardinality(below(r))
    BY <2>1, <2>2, FS_Subset
  <2>. QED  BY <1>1, <2>2, <2>3
<1>4. \A r, q \in S : <<q, r>> \in R => place(q) < place(r)
  <2>. SUFFICES ASSUME NEW r \in S, NEW q \in S, <<q, r>> \in R PROVE place(q) < place(r)
    OBVIOUS
  <2>1. below(q) \in SUBSET below(r)
    OBVIOUS
  <2>2. q \in below(r) /\ q \notin below(q)
    OBVIOUS
  <2>3. IsFiniteSet(below(r)) /\ place(r) \in Nat /\ place(q) \in Nat
    BY <1>2
  <2>. HIDE DEF below
  <2>4. Cardinality(below(q)) <= Cardinality(below(r)) /\ Cardinality(below(r)) # Cardinality(below(q))
    BY <2>1, <2>2, <2>3, FS_Subset
  <2>. QED  BY <2>3, <2>4
<1>5. \A r, q \in S : place(r) = place(q) => r = q
  <2>. SUFFICES ASSUME NEW r \in S, NEW q \in S, place(r) = place(q), r # q PROVE FALSE
    OBVIOUS
  <2>1. place(r) \in Nat /\ place(q) \in Nat
    BY <1>2
  <2>2. place(q) < place(r) \/ place(r) < place(q)
    BY <1>4
  <2>. HIDE DEF place
  <2>. QED  BY <2>1, <2>2
<1>6. \A k \in 0 .. n - 1 : \E r \in S : place(r) = k
  <2>. DEFINE f == [r \in S |-> place(r)]
              T == 0 .. n - 1
  <2>1. f \in [S -> T] /\ \A r, q \in S : f[r] = f[q] => r = q
    <3>. HIDE DEF place
    <3>. QED  BY <1>3, <1>5
  <2>2. f \in Injection(S, T)
    <3>. HIDE DEF f
    <3>. QED  BY <2>1 DEF Injection, IsInjective
  <2>3. IsFiniteSet(T) /\ Cardinality(T) = n
    <3>. HIDE DEF n
    <3>1. 0 \in Int /\ n - 1 \in Int
      BY <1>1
    <3>2. IsFiniteSet(0 .. (n - 1)) /\ Cardinality(0 .. (n - 1)) = IF 0 > n - 1 THEN 0 ELSE (n - 1) - 0 + 1
      BY <3>1, FS_Interval
    <3>. QED  BY <1>1, <3>2
  <2>4. f \in Surjection(S, T)
    <3>. HIDE DEF f, T
    <3>. QED  BY <2>2, <2>3, FS_Injection
  <2>5. \A k \in T : \E r \in S : f[r] = k
    <3>. HIDE DEF f, T
    <3>. QED  BY <2>4 DEF Surjection
  <2>. QED  BY <2>5
<1>. QED  BY <1>1, <1>3, <1>5, <1>6 DEF PlaceIn

\* The rows that sort: with numbers for keys and orders, and no two of a
\* section with the same key.
Sortable(rs, s) ==
    /\ rs \in Seq(RowSet)
    /\ \A r, q \in InOf(rs, s) : rs[r].key = rs[q].key => r = q

LEMMA SortableTypes ==
    ASSUME NEW rs, NEW s, Sortable(rs, s)
    PROVE  \A q \in InOf(rs, s) : q \in DOMAIN rs /\ rs[q].key \in Nat /\ rs[q].order \in Nat
<1>1. \A q \in DOMAIN rs : rs[q] \in RowSet
  BY DEF Sortable
<1>. QED  BY <1>1 DEF InOf, RowSet

LEMMA RowsSort ==
    ASSUME NEW rs, NEW s, Sortable(rs, s)
    PROVE  /\ IsFiniteSet(InOf(rs, s)) /\ Cardinality(InOf(rs, s)) \in Nat
           /\ \A r \in InOf(rs, s) : RankIn(rs, s, r) \in 0 .. Cardinality(InOf(rs, s)) - 1
           /\ \A r, q \in InOf(rs, s) : RankIn(rs, s, r) = RankIn(rs, s, q) => r = q
           /\ \A k \in 0 .. Cardinality(InOf(rs, s)) - 1 : \E r \in InOf(rs, s) : RankIn(rs, s, r) = k
<1>. DEFINE S == InOf(rs, s)
            R == {p \in S \X S : BeforeOf(rs, p[1], p[2])}
<1>1. rs \in Seq(RowSet) /\ Len(rs) \in Nat /\ DOMAIN rs = 1 .. Len(rs)
  BY DEF Sortable
<1>2. IsFiniteSet(S)
  <2>1. IsFiniteSet(1 .. Len(rs))
    BY <1>1, FS_Interval
  <2>2. S \in SUBSET (1 .. Len(rs))
    BY <1>1 DEF InOf
  <2>. QED  BY <2>1, <2>2, FS_Subset
<1>3. \A r \in S : rs[r].key \in Nat /\ rs[r].order \in Nat
  BY SortableTypes
<1>4. \A r, q \in S : rs[r].key = rs[q].key => r = q
  BY DEF Sortable
<1>. HIDE DEF S
<1>5. \A x, y \in S : <<x, y>> \in R <=> BeforeOf(rs, x, y)
  OBVIOUS
<1>. HIDE DEF R
<1>6. \A x \in S : <<x, x>> \notin R
  BY <1>3, <1>5 DEF BeforeOf
<1>7. \A x, y \in S : x # y => <<x, y>> \in R \/ <<y, x>> \in R
  BY <1>3, <1>4, <1>5 DEF BeforeOf
<1>8. \A x, y, z \in S : <<x, y>> \in R /\ <<y, z>> \in R => <<x, z>> \in R
  BY <1>3, <1>5 DEF BeforeOf
<1>9. ASSUME NEW r \in S
      PROVE  RankIn(rs, s, r) = PlaceIn(S, R, r)
  <2>1. {q \in S : BeforeOf(rs, q, r)} = {q \in S : <<q, r>> \in R}
    BY <1>5
  <2>. QED  BY <2>1 DEF RankIn, S, PlaceIn
<1>10. /\ Cardinality(S) \in Nat
       /\ \A r \in S : PlaceIn(S, R, r) \in 0 .. Cardinality(S) - 1
       /\ \A r, q \in S : PlaceIn(S, R, r) = PlaceIn(S, R, q) => r = q
       /\ \A k \in 0 .. Cardinality(S) - 1 : \E r \in S : PlaceIn(S, R, r) = k
  BY <1>2, <1>6, <1>7, <1>8, Places
<1>. QED  BY <1>2, <1>9, <1>10 DEF S

\* What the API lists of a section: its rows, each in its place.
LEMMA ListedRows ==
    ASSUME NEW rs, NEW s, Sortable(rs, s)
    PROVE  /\ IdsOf(rs, s) \in Seq(Nat) /\ Len(IdsOf(rs, s)) = Cardinality(InOf(rs, s))
           /\ \A i \in 1 .. Cardinality(InOf(rs, s)) :
                 IdsOf(rs, s)[i] \in InOf(rs, s) /\ RankIn(rs, s, IdsOf(rs, s)[i]) = i - 1
<1>. DEFINE S == InOf(rs, s)
            n == Cardinality(S)
            ids == IdsOf(rs, s)
<1>1. n \in Nat /\ \A k \in 0 .. n - 1 : \E r \in S : RankIn(rs, s, r) = k
  BY RowsSort
<1>2. S \subseteq Nat
  BY DEF InOf, Sortable
<1>3. ids = [i \in 1 .. n |-> CHOOSE r \in S : RankIn(rs, s, r) = i - 1]
  BY DEF IdsOf
<1>. HIDE DEF n, S, ids
<1>4. ASSUME NEW i \in 1 .. n
      PROVE  ids[i] \in S /\ RankIn(rs, s, ids[i]) = i - 1
  <2>1. i - 1 \in 0 .. n - 1
    BY <1>1
  <2>2. \E r \in S : RankIn(rs, s, r) = i - 1
    BY <1>1, <2>1
  <2>3. ids[i] = CHOOSE r \in S : RankIn(rs, s, r) = i - 1
    BY <1>3
  <2>. QED  BY <2>2, <2>3
<1>5. ids \in Seq(Nat) /\ Len(ids) = n
  <2>1. ids \in [1 .. n -> Nat]
    BY <1>2, <1>3, <1>4
  <2>. QED  BY <1>1, <2>1
<1>. QED  BY <1>4, <1>5 DEF n, S, ids

LEMMA Written ==
    ASSUME NEW rs \in Seq(RowSet), NEW id, NEW b \in BodySet
    PROVE  /\ Writing(rs, id, b) \in Seq(RowSet)
           /\ DOMAIN Writing(rs, id, b) = DOMAIN rs
           /\ \A r \in DOMAIN rs : r # id => Writing(rs, id, b)[r] = rs[r]
           /\ id \in DOMAIN rs =>
                 /\ Writing(rs, id, b)[id].key = b.key /\ Writing(rs, id, b)[id].order = b.order
                 /\ Writing(rs, id, b)[id].sec = rs[id].sec /\ Writing(rs, id, b)[id].there = rs[id].there
                 /\ Writing(rs, id, b)[id].locked = rs[id].locked
                 /\ Writing(rs, id, b)[id].drafted = rs[id].drafted
<1>. DEFINE w == Writing(rs, id, b)
            x == [rs[id] EXCEPT !.key = b.key, !.order = b.order]
<1>1. DOMAIN rs = 1 .. Len(rs) /\ Len(rs) \in Nat /\ \A r \in DOMAIN rs : rs[r] \in RowSet
  OBVIOUS
<1>2. b.key \in Nat /\ b.order \in Nat
  BY DEF BodySet
<1>3. id \in DOMAIN rs => x \in RowSet
  BY <1>1, <1>2 DEF RowSet
<1>4. w = [rs EXCEPT ![id] = x]
  BY DEF Writing
<1>5. DOMAIN w = DOMAIN rs /\ \A r \in DOMAIN rs : w[r] = IF r = id THEN x ELSE rs[r]
  BY <1>4
<1>6. w \in [1 .. Len(rs) -> RowSet]
  <2>. HIDE DEF x
  <2>. QED  BY <1>1, <1>3, <1>4
<1>7. id \in DOMAIN rs => /\ x.key = b.key /\ x.order = b.order /\ x.sec = rs[id].sec
                          /\ x.there = rs[id].there /\ x.locked = rs[id].locked /\ x.drafted = rs[id].drafted
  BY <1>1 DEF RowSet
<1>. HIDE DEF w, x
<1>. QED  BY <1>1, <1>5, <1>6, <1>7 DEF w

\* Two rows exchange their orders, and with them their places.
Exchanged(q, a, b) == IF q = a THEN b ELSE IF q = b THEN a ELSE q

LEMMA OrdersExchanged ==
    ASSUME NEW rs, NEW s, Sortable(rs, s), NEW a \in InOf(rs, s), NEW b \in InOf(rs, s), a # b,
           \A q, r \in InOf(rs, s) : rs[q].order = rs[r].order => q = r,
           NEW w, w = Writing(Writing(rs, a, [key |-> rs[a].key, order |-> rs[b].order]),
                              b, [key |-> rs[b].key, order |-> rs[a].order])
    PROVE  /\ w \in Seq(RowSet) /\ InOf(w, s) = InOf(rs, s)
           /\ \A q \in InOf(rs, s) : w[q].key = rs[q].key /\ w[q].order = rs[Exchanged(q, a, b)].order
<1>. DEFINE b1 == [key |-> rs[a].key, order |-> rs[b].order]
            b2 == [key |-> rs[b].key, order |-> rs[a].order]
            v == Writing(rs, a, b1)
<1>1. rs \in Seq(RowSet) /\ \A r \in DOMAIN rs : rs[r] \in RowSet
  BY DEF Sortable
<1>2. a \in DOMAIN rs /\ b \in DOMAIN rs
  BY DEF InOf
<1>3. b1 \in BodySet /\ b2 \in BodySet
  BY <1>1, <1>2 DEF RowSet, BodySet
<1>. HIDE DEF v
<1>4. /\ v \in Seq(RowSet) /\ DOMAIN v = DOMAIN rs /\ \A r \in DOMAIN rs : r # a => v[r] = rs[r]
      /\ v[a].key = rs[a].key /\ v[a].order = rs[b].order /\ v[a].sec = rs[a].sec /\ v[a].there = rs[a].there
  <2>. HIDE DEF b1
  <2>1. /\ v \in Seq(RowSet) /\ DOMAIN v = DOMAIN rs /\ \A r \in DOMAIN rs : r # a => v[r] = rs[r]
        /\ v[a].key = b1.key /\ v[a].order = b1.order /\ v[a].sec = rs[a].sec /\ v[a].there = rs[a].there
    BY <1>1, <1>2, <1>3, Written DEF v
  <2>. QED  BY <2>1 DEF b1
<1>5. /\ w \in Seq(RowSet) /\ DOMAIN w = DOMAIN rs /\ \A r \in DOMAIN rs : r # b => w[r] = v[r]
      /\ w[b].key = rs[b].key /\ w[b].order = rs[a].order /\ w[b].sec = v[b].sec /\ w[b].there = v[b].there
  <2>. HIDE DEF b2
  <2>1. w = Writing(v, b, b2)
    BY DEF v, b2
  <2>2. v \in Seq(RowSet) /\ b \in DOMAIN v /\ b2 \in BodySet
    BY <1>2, <1>3, <1>4
  <2>. DEFINE u == Writing(v, b, b2)
  <2>3. /\ u \in Seq(RowSet) /\ DOMAIN u = DOMAIN v /\ \A r \in DOMAIN v : r # b => u[r] = v[r]
        /\ u[b].key = b2.key /\ u[b].order = b2.order /\ u[b].sec = v[b].sec /\ u[b].there = v[b].there
    BY <2>2, Written
  <2>. HIDE DEF u
  <2>. QED  BY <1>4, <2>1, <2>3 DEF b2, u
<1>6. \A r \in DOMAIN rs : w[r].sec = rs[r].sec /\ w[r].there = rs[r].there /\ w[r].key = rs[r].key
  BY <1>2, <1>4, <1>5
<1>7. InOf(w, s) = InOf(rs, s)
  BY <1>5, <1>6 DEF InOf
<1>8. \A q \in InOf(rs, s) : q \in DOMAIN rs
  BY DEF InOf
<1>9. \A q \in DOMAIN rs : w[q].order = rs[Exchanged(q, a, b)].order
  BY <1>2, <1>4, <1>5 DEF Exchanged
<1>. QED  BY <1>5, <1>6, <1>7, <1>8, <1>9

LEMMA PlacesExchanged ==
    ASSUME NEW rs, NEW s, Sortable(rs, s), NEW a \in InOf(rs, s), NEW b \in InOf(rs, s), a # b,
           \A q, r \in InOf(rs, s) : rs[q].order = rs[r].order => q = r,
           NEW w, w = Writing(Writing(rs, a, [key |-> rs[a].key, order |-> rs[b].order]),
                              b, [key |-> rs[b].key, order |-> rs[a].order])
    PROVE  /\ IdsOf(w, s) \in Seq(Nat) /\ Len(IdsOf(w, s)) = Len(IdsOf(rs, s))
           /\ \A i \in 1 .. Len(IdsOf(rs, s)) : IdsOf(w, s)[i] = Exchanged(IdsOf(rs, s)[i], a, b)
<1>. DEFINE S == InOf(rs, s)
            x(q) == Exchanged(q, a, b)
<1>1. /\ w \in Seq(RowSet) /\ InOf(w, s) = S
      /\ \A q \in S : w[q].key = rs[q].key /\ w[q].order = rs[x(q)].order
  BY OrdersExchanged
<1>2. Sortable(w, s)
  BY <1>1 DEF Sortable
<1>3. \A q \in S : x(q) \in S /\ x(x(q)) = q
  BY DEF Exchanged
<1>4. \A q \in S : rs[q].key \in Nat /\ rs[q].order \in Nat /\ w[q].key \in Nat
  BY <1>1, SortableTypes
<1>5. IsFiniteSet(S) /\ \A r, q \in S : RankIn(rs, s, r) = RankIn(rs, s, q) => r = q
  BY RowsSort
<1>. HIDE DEF S, x
<1>6. ASSUME NEW q \in S, NEW r \in S
      PROVE  BeforeOf(w, q, r) <=> BeforeOf(rs, x(q), x(r))
  <2>1. BeforeOf(rs, x(q), x(r)) <=> rs[x(q)].order < rs[x(r)].order
    <3>1. rs[x(q)].order = rs[x(r)].order => x(q) = x(r)
      BY <1>3 DEF S
    <3>2. x(q) = x(r) => ~(rs[x(q)].key < rs[x(r)].key)
      BY <1>3, <1>4
    <3>. QED  BY <3>1, <3>2 DEF BeforeOf
  <2>2. BeforeOf(w, q, r) <=> rs[x(q)].order < rs[x(r)].order
    <3>1. rs[x(q)].order = rs[x(r)].order => q = r
      BY <1>3 DEF S
    <3>2. ~(w[r].key < w[r].key)
      BY <1>4
    <3>. QED  BY <1>1, <3>1, <3>2 DEF BeforeOf
  <2>. QED  BY <2>1, <2>2
<1>7. ASSUME NEW r \in S
      PROVE  RankIn(w, s, r) = RankIn(rs, s, x(r))
  <2>. DEFINE A == {q \in S : BeforeOf(w, q, r)}
              B == {q \in S : BeforeOf(rs, q, x(r))}
              f == [q \in A |-> x(q)]
  <2>1. \A q \in A : x(q) \in B
    BY <1>3, <1>6
  <2>2. \A q \in B : x(q) \in A
    BY <1>3, <1>6
  <2>3. A \subseteq S /\ B \subseteq S /\ IsFiniteSet(A)
    BY <1>5, FS_Subset
  <2>. HIDE DEF A, B
  <2>4. f \in [A -> B] /\ (\A p, q \in A : f[p] = f[q] => p = q) /\ \A q \in B : \E p \in A : f[p] = q
    BY <1>3, <2>1, <2>2, <2>3
  <2>. HIDE DEF f
  <2>5. ExistsBijection(A, B)
    BY <2>4 DEF ExistsBijection, Bijection, Injection, Surjection, IsInjective
  <2>6. Cardinality(B) = Cardinality(A)
    BY <2>3, <2>5, FS_Bijection
  <2>. QED  BY <1>1, <2>6 DEF RankIn, A, B, S
<1>. DEFINE n == Cardinality(S)
            ids == IdsOf(rs, s)
            new == IdsOf(w, s)
<1>8. n \in Nat /\ ids \in Seq(Nat) /\ Len(ids) = n /\ \A i \in 1 .. n : ids[i] \in S /\ RankIn(rs, s, ids[i]) = i - 1
  BY ListedRows, RowsSort DEF S
<1>9. new \in Seq(Nat) /\ Len(new) = n /\ \A i \in 1 .. n : new[i] \in S /\ RankIn(w, s, new[i]) = i - 1
  <2>1. /\ new \in Seq(Nat) /\ Len(new) = Cardinality(InOf(w, s))
        /\ \A i \in 1 .. Cardinality(InOf(w, s)) : new[i] \in InOf(w, s) /\ RankIn(w, s, new[i]) = i - 1
    BY <1>2, ListedRows
  <2>. QED  BY <1>1, <2>1
<1>. HIDE DEF n, ids, new
<1>10. ASSUME NEW i \in 1 .. n
       PROVE  new[i] = x(ids[i])
  <2>1. RankIn(rs, s, x(new[i])) = i - 1 /\ new[i] \in S
    BY <1>7, <1>9
  <2>2. x(new[i]) = ids[i]
    BY <1>3, <1>5, <1>8, <2>1
  <2>. QED  BY <1>3, <2>1, <2>2
<1>. QED  BY <1>8, <1>9, <1>10 DEF ids, new, x

-----------------------------------------------------------------------------
\* What the API lists, and writes

Listing(rs, r) == [id |-> r, key |-> rs[r].key, order |-> rs[r].order, locked |-> rs[r].locked]

LEMMA ListedIs ==
    \A s : /\ Listed(s) = [i \in 1 .. Cardinality(InOf(rows, s)) |-> Listing(rows, IdsOf(rows, s)[i])]
           /\ Listed(s)' = [i \in 1 .. Cardinality(InOf(rows', s)) |-> Listing(rows', IdsOf(rows', s)[i])]
<1>. TAKE s
<1>1. Listed(s) = [i \in 1 .. Cardinality(InOf(rows, s)) |-> Listing(rows, IdsOf(rows, s)[i])]
  BY DEF Listed, Listing, IdsOf, RankIn, In, InOf, Before, BeforeOf
<1>2. Listed(s)' = [i \in 1 .. Cardinality(InOf(rows', s)) |-> Listing(rows', IdsOf(rows', s)[i])]
  BY DEF Listed, Listing, IdsOf, RankIn, In, InOf, Before, BeforeOf
<1>. QED  BY <1>1, <1>2

LEMMA ListedIds ==
    \A s : Ids(Listed(s)) = IdsOf(rows, s) /\ Ids(Listed(s))' = IdsOf(rows', s)
<1>. TAKE s
<1>1. \A rs, l : l = [i \in 1 .. Cardinality(InOf(rs, s)) |-> Listing(rs, IdsOf(rs, s)[i])]
                => Ids(l) = IdsOf(rs, s)
  <2>. TAKE rs, l
  <2>1. /\ DOMAIN IdsOf(rs, s) = 1 .. Cardinality(InOf(rs, s))
        /\ IdsOf(rs, s) = [i \in DOMAIN IdsOf(rs, s) |-> IdsOf(rs, s)[i]]
    BY DEF IdsOf
  <2>2. \A r : Listing(rs, r).id = r
    BY DEF Listing
  <2>. QED  BY <2>1, <2>2 DEF Ids
<1>2. Ids(Listed(s)) = IdsOf(rows, s)
  BY <1>1, ListedIs
<1>3. Ids(Listed(s)') = IdsOf(rows', s)
  BY <1>1, ListedIs
<1>. QED  BY <1>2, <1>3 DEF Ids

LEMMA TablesSort ==
    ASSUME TablesOK
    PROVE  \A s : Sortable(rows, s)
BY DEF TablesOK, KeysOK, Sortable, InOf

LEMMA ListedTypes ==
    ASSUME TablesOK, NEW s
    PROVE  /\ Listed(s) \in Seq(ListRows) /\ DOMAIN Listed(s) = 1 .. Cardinality(InOf(rows, s))
           /\ \A i \in DOMAIN Listed(s) : Of(s, Listed(s)[i].id)
           /\ \A i \in DOMAIN Listed(s) :
                 IdsOf(rows, s)[i] \in InOf(rows, s) /\ Listed(s)[i] = Listing(rows, IdsOf(rows, s)[i])
<1>. DEFINE n == Cardinality(InOf(rows, s))
            ids == IdsOf(rows, s)
<1>1. Sortable(rows, s)
  BY TablesSort
<1>2. n \in Nat /\ \A i \in 1 .. n : ids[i] \in InOf(rows, s)
  BY <1>1, ListedRows, RowsSort
<1>3. Listed(s) = [i \in 1 .. n |-> Listing(rows, ids[i])]
  BY ListedIs
<1>4. \A r \in InOf(rows, s) : Of(s, r) /\ r \in Nat /\ rows[r] \in RowSet
  BY DEF InOf, Of, TablesOK
<1>5. \A r \in InOf(rows, s) : Listing(rows, r) \in ListRows /\ Listing(rows, r).id = r
  BY <1>4 DEF ListRows, RowSet, Listing
<1>. HIDE DEF ids, n
<1>6. Listed(s) \in [1 .. n -> ListRows]
  BY <1>2, <1>3, <1>5
<1>7. Listed(s) \in Seq(ListRows) /\ DOMAIN Listed(s) = 1 .. n
  BY <1>2, <1>6
<1>8. \A i \in 1 .. n : ids[i] \in InOf(rows, s) /\ Listed(s)[i] = Listing(rows, ids[i])
  BY <1>2, <1>3
<1>9. \A i \in 1 .. n : Of(s, Listed(s)[i].id)
  BY <1>4, <1>5, <1>8
<1>. QED  BY <1>7, <1>8, <1>9 DEF ids, n

\* The rows that there are stay in their sections, and what they were drafted for.
RowsGrow == /\ DOMAIN rows \subseteq DOMAIN rows'
            /\ \A r \in DOMAIN rows : rows'[r].sec = rows[r].sec /\ rows'[r].drafted = rows[r].drafted

LEMMA RowWritten ==
    ASSUME TablesOK, NEW id \in DOMAIN rows, NEW b \in BodySet, ~rows[id].locked,
           ~Taken(rows[id].sec, b.key, id), rows' = Writing(rows, id, b)
    PROVE  TablesOK' /\ RowsGrow
<1>1. rows \in Seq(RowSet) /\ \A r \in DOMAIN rows : rows[r] \in RowSet
  BY DEF TablesOK
<1>2. /\ rows' \in Seq(RowSet) /\ DOMAIN rows' = DOMAIN rows
      /\ \A r \in DOMAIN rows : r # id => rows'[r] = rows[r]
      /\ rows'[id].key = b.key /\ rows'[id].sec = rows[id].sec /\ rows'[id].there = rows[id].there
      /\ rows'[id].locked = rows[id].locked /\ rows'[id].drafted = rows[id].drafted
  BY <1>1, Written
<1>3. KeysOK'
  <2>. SUFFICES ASSUME NEW r \in DOMAIN rows, NEW q \in DOMAIN rows, rows'[r].there, rows'[q].there,
                       rows'[r].sec = rows'[q].sec, rows'[r].key = rows'[q].key
                PROVE  r = q
    BY <1>2 DEF KeysOK
  <2>1. \A p \in DOMAIN rows \ {id} : rows[p].there /\ rows[p].sec = rows[id].sec => rows[p].key # b.key
    BY DEF Taken, In
  <2>2. CASE r # id /\ q # id
    BY <1>2, <2>2 DEF TablesOK, KeysOK
  <2>. QED  BY <1>2, <2>1, <2>2
<1>4. LockedOK'
  BY <1>2 DEF TablesOK, LockedOK
<1>5. RowsGrow
  BY <1>2 DEF RowsGrow
<1>. QED  BY <1>2, <1>3, <1>4, <1>5 DEF TablesOK

LEMMA RowInserted ==
    ASSUME TablesOK, NEW row \in RowSet, row.there, ~row.locked, ~Taken(row.sec, row.key, 0), Insert(row)
    PROVE  TablesOK' /\ RowsGrow /\ Len(rows) + 1 \in DOMAIN rows' /\ rows'[Len(rows) + 1] = row
<1>1. rows \in Seq(RowSet) /\ Len(rows) \in Nat /\ DOMAIN rows = 1 .. Len(rows)
  BY DEF TablesOK
<1>2. /\ rows' \in Seq(RowSet) /\ DOMAIN rows' = DOMAIN rows \cup {Len(rows) + 1}
      /\ rows'[Len(rows) + 1] = row /\ \A r \in DOMAIN rows : rows'[r] = rows[r]
  BY <1>1 DEF Insert
<1>3. \A p \in DOMAIN rows : rows[p].there /\ rows[p].sec = row.sec => rows[p].key # row.key
  BY <1>1 DEF Taken, In
<1>4. KeysOK'
  BY <1>2, <1>3 DEF TablesOK, KeysOK
<1>5. LockedOK'
  BY <1>2 DEF TablesOK, LockedOK
<1>6. RowsGrow
  BY <1>2 DEF RowsGrow
<1>. QED  BY <1>2, <1>4, <1>5, <1>6 DEF TablesOK

LEMMA RowRemoved ==
    ASSUME TablesOK, NEW id \in DOMAIN rows, ~rows[id].locked, rows' = [rows EXCEPT ![id].there = FALSE]
    PROVE  TablesOK' /\ RowsGrow
<1>1. rows \in Seq(RowSet) /\ DOMAIN rows = 1 .. Len(rows) /\ \A r \in DOMAIN rows : rows[r] \in RowSet
  BY DEF TablesOK
<1>. DEFINE x == [rows[id] EXCEPT !.there = FALSE]
<1>2. /\ x \in RowSet /\ ~x.there /\ x.key = rows[id].key /\ x.sec = rows[id].sec
      /\ x.locked = rows[id].locked /\ x.drafted = rows[id].drafted
  BY <1>1 DEF RowSet
<1>3. rows' = [rows EXCEPT ![id] = x]
  OBVIOUS
<1>. HIDE DEF x
<1>4. /\ rows' \in Seq(RowSet) /\ DOMAIN rows' = DOMAIN rows
      /\ rows'[id] = x /\ \A r \in DOMAIN rows : r # id => rows'[r] = rows[r]
  <2>1. rows \in [1 .. Len(rows) -> RowSet] /\ Len(rows) \in Nat /\ x \in RowSet
    BY <1>1, <1>2
  <2>2. rows' \in [1 .. Len(rows) -> RowSet]
    BY <1>3, <2>1
  <2>3. rows' \in Seq(RowSet)
    BY <2>1, <2>2
  <2>. QED  BY <1>1, <1>3, <2>3
<1>5. KeysOK'
  BY <1>2, <1>4 DEF TablesOK, KeysOK
<1>6. LockedOK'
  BY <1>2, <1>4 DEF TablesOK, LockedOK
<1>7. RowsGrow
  BY <1>2, <1>4 DEF RowsGrow
<1>. QED  BY <1>4, <1>5, <1>6, <1>7 DEF TablesOK

\* What a step leaves alone keeps its part of the invariant.
LEMMA Frames ==
    ASSUME RubricInv, TablesOK', RowsGrow
    PROVE  /\ UNCHANGED <<tab, list, asked>> => ListOK'
           /\ UNCHANGED <<tab, modal, call, move>> => ModalOK'
           /\ UNCHANGED <<call, requests, posts>> => CallOK'
           /\ UNCHANGED <<rows, call, move, requests>> => MoveOK'
           /\ UNCHANGED <<panel, posts, saves>> => PanelOK'
<1>. USE DEF RubricInv
<1>1. \A s, r : Of(s, r) => Of(s, r)'
  BY DEF Of, RowsGrow
<1>2. \A i : Created(i) => Created(i)'
  BY DEF Created, RowsGrow
<1>3. UNCHANGED <<tab, list, asked>> => ListOK'
  BY <1>1 DEF ListOK
<1>4. UNCHANGED <<tab, modal, call, move>> => ModalOK'
  BY <1>1 DEF ModalOK
<1>5. UNCHANGED <<call, requests, posts>> => CallOK'
  BY <1>1 DEF CallOK
<1>6. UNCHANGED <<rows, call, move, requests>> => MoveOK'
  BY <1>1 DEF MoveOK
<1>7. UNCHANGED <<panel, posts, saves>> => PanelOK'
  BY <1>2 DEF PanelOK, Mine
<1>. QED  BY <1>3, <1>4, <1>5, <1>6, <1>7

LEMMA RowsSame == RubricInv /\ UNCHANGED rows => TablesOK' /\ RowsGrow
BY DEF RubricInv, TablesOK, KeysOK, LockedOK, RowsGrow

-----------------------------------------------------------------------------
\* Lists and dialogs

LEMMA LoadStep ==
    ASSUME RubricInv, Loading \/ LoseLoad
    PROVE  RubricInv'
<1>1. UNCHANGED <<rows, tab, modal, call, move, panel, posts, requests, saves>>
  BY DEF Loading, LoseLoad, LoadCriteria, LoadFields, LoadChecklist, LoadTerms, Arrives, bounds
<1>2. TablesOK' /\ RowsGrow
  BY <1>1, RowsSame
<1>3. ModalOK' /\ CallOK' /\ MoveOK' /\ PanelOK'
  BY <1>1, <1>2, Frames
<1>4. CASE Loading
  <2>1. asked' = FALSE /\ list' = [known |-> TRUE, error |-> FALSE, rows |-> Listed(tab)]
    BY <1>4 DEF Loading, LoadCriteria, LoadFields, LoadChecklist, LoadTerms, Arrives
  <2>2. Listed(tab) \in Seq(ListRows) /\ \A i \in DOMAIN Listed(tab) : Of(tab, Listed(tab)[i].id)
    BY ListedTypes DEF RubricInv
  <2>3. ListOK'
    BY <1>1, <2>1, <2>2 DEF RubricInv, ListOK, Of
  <2>. QED  BY <1>2, <1>3, <2>3 DEF RubricInv
<1>5. CASE LoseLoad
  <2>1. asked' = FALSE /\ list' = [list EXCEPT !.error = TRUE]
    BY <1>5 DEF LoseLoad
  <2>2. ListOK'
    BY <1>1, <2>1 DEF RubricInv, ListOK, Of
  <2>. QED  BY <1>2, <1>3, <2>2 DEF RubricInv
<1>. QED  BY <1>4, <1>5

LEMMA IdleTypes == Idle \in Calls /\ Closed \in Modals
<1>. DEFINE idle(b) == [at |-> "idle", kind |-> "none", sec |-> "none", id |-> 0,
                        body |-> b, twice |-> FALSE, here |-> FALSE]
<1>1. \A b \in BodySet : idle(b) \in Calls
  BY DEF Calls
<1>2. [key |-> 0, order |-> 0] \in BodySet
  BY DEF BodySet
<1>3. Idle = idle([key |-> 0, order |-> 0])
  BY DEF Idle
<1>. HIDE DEF idle
<1>. QED  BY <1>1, <1>2, <1>3 DEF Closed, Modals

LEMMA TabStep ==
    ASSUME RubricInv, NEW t \in Sections \cup {"generate"}, SetTab(t)
    PROVE  RubricInv'
<1>1. /\ UNCHANGED rows /\ UNCHANGED move /\ UNCHANGED posts /\ UNCHANGED requests /\ UNCHANGED saves
      /\ tab' = t /\ asked' = (t # "generate") /\ list' = Unloaded /\ modal' = Closed
      /\ call' = [call EXCEPT !.here = FALSE] /\ panel' = Empty
  BY DEF SetTab, bounds
<1>2. TablesOK' /\ RowsGrow
  BY <1>1, RowsSame
<1>3. ListOK'
  BY <1>1 DEF ListOK, Unloaded
<1>4. ModalOK'
  BY <1>1 DEF ModalOK, Closed, Modals
<1>. DEFINE c == [call EXCEPT !.here = FALSE]
<1>5. c \in Calls /\ c.at = call.at /\ c.kind = call.kind /\ c.sec = call.sec /\ c.id = call.id /\ c.body = call.body
  BY DEF RubricInv, CallOK, Calls
<1>. HIDE DEF c
<1>6. call' = c
  BY <1>1 DEF c
<1>7. CallOK'
  BY <1>1, <1>5, <1>6 DEF RubricInv, CallOK, Of
<1>8. MoveOK'
  BY <1>1, <1>5, <1>6 DEF RubricInv, MoveOK, Of
<1>9. PanelOK'
  BY <1>1 DEF RubricInv, PanelOK, Panels, Empty, Created
<1>. QED  BY <1>2, <1>3, <1>4, <1>7, <1>8, <1>9 DEF RubricInv

LEMMA ShowStep ==
    ASSUME RubricInv, NEW new \in Modals, Show(new), ~new.pending,
           new.at \in {"edit", "delete"} => Of(tab, new.id)
    PROVE  RubricInv'
<1>1. modal' = new /\ UNCHANGED <<rows, tab, list, asked, call, move, panel, posts, requests, saves>>
  BY DEF Show, bounds
<1>2. TablesOK' /\ RowsGrow
  BY <1>1, RowsSame
<1>3. ListOK' /\ CallOK' /\ MoveOK' /\ PanelOK'
  BY <1>1, <1>2, Frames
<1>4. ModalOK'
  BY <1>1 DEF ModalOK, Of
<1>. QED  BY <1>2, <1>3, <1>4 DEF RubricInv

\* The page sends a request that is not a move.
LEMMA SendStep ==
    ASSUME RubricInv, NEW c \in Calls, NEW new \in Modals, Send(c, new), UNCHANGED move, tab \in Sections,
           c.kind \in {"new", "edit", "delete", "import"}, c.kind \in {"edit", "delete"} => Of(tab, c.id),
           new.at = modal.at /\ new.id = modal.id, new.pending => modal.pending \/ c.kind = modal.at
    PROVE  RubricInv'
<1>. DEFINE d == [c EXCEPT !.at = "sent", !.sec = tab, !.here = TRUE]
<1>1. /\ call = Idle /\ call' = d /\ posts = {} /\ requests' = requests + 1 /\ modal' = new
      /\ UNCHANGED <<rows, tab, list, asked, panel, posts, saves, move>>
  BY DEF Send, MayAsk
<1>2. d \in Calls /\ d.at = "sent" /\ d.sec = tab /\ d.kind = c.kind /\ d.id = c.id /\ d.here
  BY DEF Calls
<1>. HIDE DEF d
<1>3. TablesOK' /\ RowsGrow
  BY <1>1, RowsSame
<1>4. ListOK' /\ PanelOK'
  BY <1>1, <1>3, Frames
<1>5. ~modal.pending /\ move.at = "no"
  BY <1>1 DEF RubricInv, ModalOK, MoveOK, Idle
<1>6. ModalOK'
  BY <1>1, <1>2, <1>5 DEF RubricInv, ModalOK, Of, Idle
<1>7. CallOK'
  BY <1>1, <1>2 DEF RubricInv, CallOK, Of
<1>8. MoveOK'
  BY <1>1, <1>5 DEF RubricInv, MoveOK
<1>. QED  BY <1>3, <1>4, <1>6, <1>7, <1>8 DEF RubricInv

LEMMA FormsOK ==
    /\ Bodies \subseteq BodySet
    /\ CriterionForm # {} \/ FieldForm # {} \/ ItemForm # {} \/ TermForm # {} => tab \in Sections
    /\ CriterionForm \subseteq Bodies /\ FieldForm \subseteq Bodies
    /\ ItemForm \subseteq Bodies /\ TermForm \subseteq Bodies
<1>1. Bodies \subseteq BodySet
  <2>1. Keys \subseteq Nat /\ FormOrders \subseteq Nat
    BY RubricAssumption DEF Keys
  <2>. QED  BY <2>1 DEF Bodies, BodySet
<1>. QED  BY <1>1 DEF CriterionForm, FieldForm, ItemForm, TermForm, Sections

LEMMA DialogsStep ==
    ASSUME RubricInv,
           \/ AddCriterion \/ AddField \/ AddItem \/ AddTerm \/ Close
           \/ \E r \in Buttons : Edit(r) \/ AskDelete(r)
           \/ SubmitCriterion \/ SubmitField \/ SubmitItem \/ SubmitTerm
           \/ DeleteCriterion \/ DeleteField \/ DeleteItem \/ DeleteTerm
           \/ OnCsvPicked
    PROVE  RubricInv'
<1>1. modal \in Modals /\ (modal.at \in {"edit", "delete"} => Of(tab, modal.id))
  BY DEF RubricInv, ModalOK
<1>2. CASE AddCriterion \/ AddField \/ AddItem \/ AddTerm
  <2>. DEFINE new == [Closed EXCEPT !.at = "new"]
  <2>1. new \in Modals /\ ~new.pending /\ new.at = "new"
    BY DEF Modals, Closed
  <2>2. Show(new)
    BY <1>2 DEF AddCriterion, AddField, AddItem, AddTerm
  <2>. HIDE DEF new
  <2>. QED  BY <2>1, <2>2, ShowStep
<1>3. CASE Close
  <2>1. Closed \in Modals /\ ~Closed.pending /\ Closed.at = "none" /\ Show(Closed)
    BY <1>3 DEF Close, Modals, Closed
  <2>. QED  BY <2>1, ShowStep
<1>4. ASSUME NEW r \in Buttons, Edit(r) \/ AskDelete(r)
      PROVE  RubricInv'
  <2>1. r \in Shown
    BY DEF Buttons, CriteriaTable, FieldsTable, ChecklistTable, TermsTable
  <2>2. PICK i \in DOMAIN list.rows : r = list.rows[i]
    BY <2>1 DEF Shown
  <2>3. Of(tab, r.id) /\ r.id \in Nat
    <3>1. list.rows \in Seq(ListRows) /\ Of(tab, list.rows[i].id)
      BY DEF RubricInv, ListOK
    <3>2. list.rows[i] \in ListRows
      BY <3>1
    <3>. QED  BY <2>2, <3>1, <3>2 DEF ListRows
  <2>4. PICK at \in {"edit", "delete"} : Show([at |-> at, id |-> r.id, pending |-> FALSE])
    BY <1>4 DEF Edit, AskDelete
  <2>. DEFINE new == [at |-> at, id |-> r.id, pending |-> FALSE]
  <2>5. new \in Modals /\ ~new.pending /\ new.id = r.id
    BY <2>3 DEF Modals
  <2>. HIDE DEF new
  <2>. QED  BY <2>3, <2>4, <2>5, ShowStep DEF new
<1>. DEFINE new == [modal EXCEPT !.pending = TRUE]
<1>5. new \in Modals /\ new.at = modal.at /\ new.id = modal.id
  BY <1>1 DEF Modals
<1>. HIDE DEF new
<1>6. CASE SubmitCriterion \/ SubmitField \/ SubmitItem \/ SubmitTerm
  <2>1. PICK b \in BodySet : Submit(b) /\ tab \in Sections
    BY <1>6, FormsOK DEF SubmitCriterion, SubmitField, SubmitItem, SubmitTerm
  <2>. DEFINE c == [Idle EXCEPT !.kind = modal.at, !.id = modal.id, !.body = b]
  <2>2. modal.at \in {"new", "edit"} /\ modal.id \in Nat
    BY <1>1, <2>1 DEF Submit, Modals
  <2>3. c \in Calls /\ c.kind = modal.at /\ c.id = modal.id
    BY <2>2 DEF Calls, Idle, BodySet
  <2>4. Send(c, new) /\ UNCHANGED move
    BY <2>1 DEF Submit, new
  <2>. HIDE DEF c
  <2>. QED  BY <1>1, <1>5, <2>1, <2>2, <2>3, <2>4, SendStep
<1>7. CASE DeleteCriterion \/ DeleteField \/ DeleteItem \/ DeleteTerm
  <2>1. PICK s \in Sections : Delete(s)
    BY <1>7 DEF DeleteCriterion, DeleteField, DeleteItem, DeleteTerm, Sections
  <2>. DEFINE c == [Idle EXCEPT !.kind = "delete", !.id = modal.id]
  <2>2. modal.at = "delete" /\ modal.id \in Nat /\ tab \in Sections
    BY <1>1, <2>1 DEF Delete, Modals
  <2>3. c \in Calls /\ c.kind = "delete" /\ c.id = modal.id
    BY <2>2 DEF Calls, Idle, BodySet
  <2>4. Send(c, new) /\ UNCHANGED move
    BY <2>1 DEF Delete, new
  <2>. HIDE DEF c
  <2>. QED  BY <1>1, <1>5, <2>2, <2>3, <2>4, SendStep
<1>8. CASE OnCsvPicked
  <2>1. PICK b \in Bodies, twice \in BOOLEAN :
            Send([Idle EXCEPT !.kind = "import", !.body = b, !.twice = twice], modal)
    BY <1>8 DEF OnCsvPicked
  <2>. DEFINE c == [Idle EXCEPT !.kind = "import", !.body = b, !.twice = twice]
  <2>2. b \in BodySet
    BY FormsOK
  <2>3. c \in Calls /\ c.kind = "import"
    BY <2>2 DEF Calls, Idle, BodySet
  <2>4. tab \in Sections /\ UNCHANGED move
    BY <1>8 DEF OnCsvPicked, Sections
  <2>. HIDE DEF c
  <2>. QED  BY <1>1, <2>1, <2>3, <2>4, SendStep DEF c
<1>. QED  BY <1>2, <1>3, <1>4, <1>6, <1>7, <1>8

-----------------------------------------------------------------------------
\* Moves

\* On a list that is up to date and without ties, the two writes of a move swap
\* the two items and leave the others.
LEMMA MoveResult ==
    ASSUME TablesOK, NEW l, l = Listed("checklist"), Distinct(l),
           NEW i \in DOMAIN l, NEW j \in DOMAIN l, i # j
    PROVE  IdsOf(Writing(Writing(rows, l[i].id, [key |-> l[i].key, order |-> l[j].order]),
                         l[j].id, [key |-> l[j].key, order |-> l[i].order]), "checklist")
           = Ids(Swapped(l, i, j))
<1>. DEFINE S == InOf(rows, "checklist")
            n == Cardinality(S)
            ids == IdsOf(rows, "checklist")
            a == ids[i]
            b == ids[j]
            w == Writing(Writing(rows, a, [key |-> rows[a].key, order |-> rows[b].order]),
                         b, [key |-> rows[b].key, order |-> rows[a].order])
<1>1. Sortable(rows, "checklist")
  BY TablesSort
<1>2. /\ n \in Nat /\ \A k \in 1 .. n : ids[k] \in S /\ RankIn(rows, "checklist", ids[k]) = k - 1
      /\ Len(ids) = n
  BY <1>1, ListedRows, RowsSort
<1>3. /\ \A r \in S : RankIn(rows, "checklist", r) \in 0 .. n - 1
      /\ \A r, q \in S : RankIn(rows, "checklist", r) = RankIn(rows, "checklist", q) => r = q
  BY <1>1, RowsSort
<1>. HIDE DEF n, S, ids
<1>4. l \in Seq(ListRows) /\ DOMAIN l = 1 .. n /\ \A k \in 1 .. n : l[k] = Listing(rows, ids[k])
  BY ListedTypes DEF S, n, ids
<1>5. \A k \in 1 .. n : l[k].id = ids[k] /\ l[k].key = rows[ids[k]].key /\ l[k].order = rows[ids[k]].order
  <2>1. \A r : /\ Listing(rows, r).id = r /\ Listing(rows, r).key = rows[r].key
               /\ Listing(rows, r).order = rows[r].order
    BY DEF Listing
  <2>. QED  BY <1>4, <2>1
<1>6. ASSUME NEW r \in S
      PROVE  \E k \in 1 .. n : r = ids[k]
  <2>. DEFINE k == RankIn(rows, "checklist", r) + 1
  <2>1. k \in 1 .. n /\ RankIn(rows, "checklist", r) = k - 1
    BY <1>2, <1>3
  <2>. HIDE DEF k
  <2>2. r = ids[k]
    BY <1>2, <1>3, <2>1
  <2>. QED  BY <2>1, <2>2
<1>7. \A q, r \in S : rows[q].order = rows[r].order => q = r
  <2>. SUFFICES ASSUME NEW q \in S, NEW r \in S, rows[q].order = rows[r].order PROVE q = r
    OBVIOUS
  <2>1. PICK k \in 1 .. n : q = ids[k]
    BY <1>6
  <2>2. PICK m \in 1 .. n : r = ids[m]
    BY <1>6
  <2>3. l[k].order = l[m].order
    BY <1>5, <2>1, <2>2
  <2>. QED  BY <1>4, <2>1, <2>2, <2>3 DEF Distinct
<1>8. \A k, m \in 1 .. n : ids[k] = ids[m] => k = m
  BY <1>2
<1>9. a \in S /\ b \in S /\ a # b
  BY <1>2, <1>4, <1>8
<1>10. /\ IdsOf(w, "checklist") \in Seq(Nat) /\ Len(IdsOf(w, "checklist")) = n
       /\ \A k \in 1 .. n : IdsOf(w, "checklist")[k] = Exchanged(ids[k], a, b)
  <2>1. /\ IdsOf(w, "checklist") \in Seq(Nat) /\ Len(IdsOf(w, "checklist")) = Len(ids)
        /\ \A k \in 1 .. Len(ids) : IdsOf(w, "checklist")[k] = Exchanged(ids[k], a, b)
    <3>. HIDE DEF a, b
    <3>. QED  BY <1>1, <1>7, <1>9, PlacesExchanged DEF S, ids
  <2>. QED  BY <1>2, <2>1
<1>. DEFINE new == IdsOf(w, "checklist")
            sw == Ids(Swapped(l, i, j))
<1>11. DOMAIN sw = 1 .. n /\ \A k \in 1 .. n : sw[k] = Exchanged(ids[k], a, b)
  <2>1. DOMAIN Swapped(l, i, j) = 1 .. n
        /\ \A k \in 1 .. n : Swapped(l, i, j)[k] = IF k = j THEN l[i] ELSE IF k = i THEN l[j] ELSE l[k]
    BY <1>4 DEF Swapped
  <2>2. DOMAIN sw = 1 .. n /\ \A k \in 1 .. n : sw[k] = Swapped(l, i, j)[k].id
    BY <2>1 DEF Ids
  <2>. HIDE DEF sw
  <2>3. ASSUME NEW k \in 1 .. n
        PROVE  sw[k] = Exchanged(ids[k], a, b)
    <3>1. sw[k] = IF k = j THEN ids[i] ELSE IF k = i THEN ids[j] ELSE ids[k]
      <4>1. i \in 1 .. n /\ j \in 1 .. n
        BY <1>4
      <4>2. l[i].id = ids[i] /\ l[j].id = ids[j] /\ l[k].id = ids[k]
        BY <1>5, <4>1
      <4>3. sw[k] = (IF k = j THEN l[i] ELSE IF k = i THEN l[j] ELSE l[k]).id
        BY <2>1, <2>2
      <4>. QED  BY <4>2, <4>3
    <3>. QED  BY <1>4, <1>8, <3>1 DEF Exchanged
  <2>. QED  BY <2>2, <2>3
<1>12. new = sw
  <2>1. new = [k \in 1 .. n |-> new[k]]
    <3>1. new = [k \in DOMAIN new |-> new[k]]
      BY DEF IdsOf
    <3>2. DOMAIN new = 1 .. n
      BY <1>2, <1>10
    <3>. HIDE DEF new
    <3>. QED  BY <3>1, <3>2
  <2>2. sw = [k \in 1 .. n |-> sw[k]]
    BY <1>11 DEF Ids
  <2>. HIDE DEF new, sw
  <2>. QED  BY <1>10, <1>11, <2>1, <2>2 DEF new
<1>13. /\ l[i].id = a /\ l[i].key = rows[a].key /\ l[i].order = rows[a].order
       /\ l[j].id = b /\ l[j].key = rows[b].key /\ l[j].order = rows[b].order
  BY <1>4, <1>5
<1>. HIDE DEF a, b, sw
<1>. QED  BY <1>12, <1>13 DEF new, sw

\* The page sends the first request of a move.
LEMMA MoveStep ==
    ASSUME RubricInv, NEW i \in DOMAIN list.rows, NEW j, i # j, Move(i, j)
    PROVE  RubricInv'
<1>. DEFINE l == list.rows
            b1 == [key |-> l[i].key, order |-> Orders(i, j)[1]]
            b2 == [key |-> l[j].key, order |-> Orders(i, j)[2]]
            clean == l = Listed("checklist") /\ Distinct(l)
            c == [Idle EXCEPT !.kind = "edit", !.id = l[i].id, !.body = b1]
            d == [c EXCEPT !.at = "sent", !.sec = tab, !.here = TRUE]
            m == [at |-> "first", item |-> l[i].id, other |-> l[j].id, body |-> b2,
                  result |-> Ids(Swapped(l, i, j)), clean |-> clean]
<1>1. /\ tab = "checklist" /\ j \in DOMAIN l /\ move' = m /\ call = Idle /\ call' = d
      /\ posts = {} /\ requests' = requests + 1 /\ modal' = modal
      /\ UNCHANGED <<rows, tab, list, asked, panel, posts, saves>>
  BY DEF Move, Send, MayAsk, At, BodyWithOrder
<1>2. /\ l \in Seq(ListRows) /\ Len(l) \in Nat /\ DOMAIN l = 1 .. Len(l) /\ l[i] \in ListRows /\ l[j] \in ListRows
      /\ Of("checklist", l[i].id) /\ Of("checklist", l[j].id)
  BY <1>1 DEF RubricInv, ListOK
<1>3. l[i].order # l[j].order => b1.order = l[j].order /\ b2.order = l[i].order
  BY DEF Orders, At
<1>4. b1 \in BodySet /\ b2 \in BodySet
  <2>1. i - 1 \in Nat /\ j - 1 \in Nat
    BY <1>1, <1>2
  <2>2. Orders(i, j)[1] \in Nat /\ Orders(i, j)[2] \in Nat
    BY <1>2, <2>1 DEF Orders, At, ListRows
  <2>. QED  BY <1>2, <2>2 DEF BodySet, ListRows
<1>5. clean => IdsOf(Writing(Writing(rows, l[i].id, b1), l[j].id, b2), "checklist") = Ids(Swapped(l, i, j))
  <2>. SUFFICES ASSUME clean
                PROVE  IdsOf(Writing(Writing(rows, l[i].id, b1), l[j].id, b2), "checklist") = Ids(Swapped(l, i, j))
    OBVIOUS
  <2>1. l[i].order # l[j].order
    BY <1>1 DEF Distinct
  <2>2. b1 = [key |-> l[i].key, order |-> l[j].order] /\ b2 = [key |-> l[j].key, order |-> l[i].order]
    BY <1>3, <2>1
  <2>. HIDE DEF b1, b2
  <2>3. l = Listed("checklist") /\ Distinct(l) /\ TablesOK
    BY DEF RubricInv
  <2>. HIDE DEF l
  <2>. QED  BY <1>1, <2>2, <2>3, MoveResult DEF l
<1>6. Ids(Swapped(l, i, j)) \in Seq(Nat)
  <2>1. Swapped(l, i, j) \in Seq(ListRows)
    BY <1>1, <1>2 DEF Swapped
  <2>. DEFINE x == Swapped(l, i, j)
  <2>. HIDE DEF x
  <2>2. Len(x) \in Nat /\ DOMAIN x = 1 .. Len(x) /\ \A k \in DOMAIN x : x[k] \in ListRows
    BY <2>1 DEF x
  <2>3. \A k \in DOMAIN x : x[k].id \in Nat
    BY <2>2 DEF ListRows
  <2>4. Ids(x) \in [1 .. Len(x) -> Nat]
    BY <2>2, <2>3 DEF Ids
  <2>. QED  BY <2>2, <2>4 DEF x
<1>7. clean \in BOOLEAN
  OBVIOUS
<1>8. l[i].id \in Nat /\ l[j].id \in Nat
  BY <1>2 DEF ListRows
<1>. HIDE DEF b1, b2, clean
<1>9. m \in Moves
  <2>. DEFINE result == Ids(Swapped(l, i, j))
  <2>. HIDE DEF result, l
  <2>. QED  BY <1>4, <1>6, <1>7, <1>8 DEF Moves, result, l
<1>10. c \in Calls
  BY <1>4, <1>8, IdleTypes DEF Calls
<1>11. c.kind = "edit" /\ c.id = l[i].id /\ c.body = b1
  BY IdleTypes DEF Calls
<1>. HIDE DEF c
<1>12. d \in Calls /\ d.at = "sent" /\ d.sec = tab /\ d.kind = "edit" /\ d.id = l[i].id /\ d.body = b1
  BY <1>1, <1>10, <1>11 DEF Calls, Sections
<1>. HIDE DEF d
<1>13. TablesOK' /\ RowsGrow
  BY <1>1, RowsSame
<1>14. ListOK' /\ PanelOK'
  BY <1>1, <1>13, Frames
<1>15. ModalOK'
  BY <1>1 DEF RubricInv, ModalOK, Of
<1>16. CallOK'
  BY <1>1, <1>2, <1>12 DEF RubricInv, CallOK, Of, Sections
<1>17. MoveOK'
  <2>1. /\ m.at = "first" /\ m.other = l[j].id /\ m.body = b2 /\ m.result = Ids(Swapped(l, i, j))
        /\ m.clean = clean
    OBVIOUS
  <2>2. requests' > 0
    BY <1>1 DEF RubricInv, CallOK
  <2>. HIDE DEF m
  <2>. QED  BY <1>1, <1>2, <1>5, <1>9, <1>12, <2>1, <2>2 DEF MoveOK, Of
<1>. QED  BY <1>13, <1>14, <1>15, <1>16, <1>17 DEF RubricInv

-----------------------------------------------------------------------------
\* The API and its answers

\* The request is answered, or goes on to its second half.
LEMMA Answering ==
    ASSUME RubricInv, TablesOK', RowsGrow, NEW at \in {"ok", "error"},
           call.at # "idle", call' = [call EXCEPT !.at = at],
           UNCHANGED <<tab, list, asked, modal, move, panel, posts, requests, saves>>
    PROVE  /\ ListOK' /\ ModalOK' /\ CallOK' /\ PanelOK'
           /\ call'.at = at /\ call'.kind = call.kind /\ call'.sec = call.sec
           /\ call'.id = call.id /\ call'.body = call.body
<1>1. ListOK' /\ PanelOK'
  BY Frames
<1>. DEFINE c == [call EXCEPT !.at = at]
<1>2. /\ c \in Calls /\ c.at = at /\ c.kind = call.kind /\ c.sec = call.sec /\ c.id = call.id
      /\ c.body = call.body /\ c.here = call.here
  BY DEF RubricInv, CallOK, Calls
<1>. HIDE DEF c
<1>3. call' = c /\ c # Idle
  BY <1>2 DEF c, Idle
<1>4. \A s, r : Of(s, r) => Of(s, r)'
  BY DEF Of, RowsGrow
<1>5. ModalOK'
  BY <1>2, <1>3, <1>4 DEF RubricInv, ModalOK
<1>6. CallOK'
  BY <1>2, <1>3, <1>4 DEF RubricInv, CallOK
<1>. QED  BY <1>1, <1>2, <1>3, <1>5, <1>6

LEMMA ServeStep ==
    ASSUME RubricInv, Serve
    PROVE  RubricInv'
<1>1. /\ call.at = "sent" /\ UNCHANGED <<tab, list, asked, modal, move, panel, posts, requests, saves>>
  BY DEF Serve, bounds
<1>2. /\ call.body \in BodySet /\ call.body.key \in Nat /\ call.body.order \in Nat
      /\ call.kind \in {"new", "edit", "delete", "import"} => call.sec \in Sections
      /\ call.kind \in {"edit", "delete"} => call.id \in DOMAIN rows /\ rows[call.id].sec = call.sec
  BY <1>1 DEF RubricInv, CallOK, Calls, BodySet, Of
<1>3. ASSUME NEW s \in Sections
      PROVE  /\ Row(s, call.body) \in RowSet /\ Row(s, call.body).there /\ ~Row(s, call.body).locked
             /\ Row(s, call.body).sec = s /\ Row(s, call.body).key = call.body.key
  BY <1>2 DEF Row, RowSet
<1>4. ASSUME TablesOK', RowsGrow, call' = [call EXCEPT !.at = "ok"], call.kind # "edit"
      PROVE  RubricInv'
  <2>1. ListOK' /\ ModalOK' /\ CallOK' /\ PanelOK'
    BY <1>1, <1>4, Answering
  <2>2. move.at = "no"
    BY <1>4 DEF RubricInv, MoveOK
  <2>3. MoveOK'
    BY <1>1, <2>2 DEF RubricInv, MoveOK
  <2>. QED  BY <1>4, <2>1, <2>3 DEF RubricInv
<1>5. CASE Create /\ call' = [call EXCEPT !.at = "ok"]
  <2>1. call.kind = "new" /\ ~Taken(call.sec, call.body.key, 0) /\ Insert(Row(call.sec, call.body))
    BY <1>5 DEF Create
  <2>2. TablesOK' /\ RowsGrow
    BY <1>2, <1>3, <2>1, RowInserted DEF RubricInv
  <2>. QED  BY <1>4, <1>5, <2>1, <2>2
<1>6. CASE Update /\ call' = [call EXCEPT !.at = "ok"]
  <2>1. /\ call.kind = "edit" /\ ~rows[call.id].locked /\ ~Taken(call.sec, call.body.key, call.id)
        /\ rows' = Writing(rows, call.id, call.body)
    BY <1>6 DEF Update, Writable, Write, Writing
  <2>2. TablesOK' /\ RowsGrow
    BY <1>2, <2>1, RowWritten DEF RubricInv
  <2>3. /\ ListOK' /\ ModalOK' /\ CallOK' /\ PanelOK' /\ call'.at = "ok" /\ call'.kind = call.kind
        /\ call'.sec = call.sec /\ call'.id = call.id /\ call'.body = call.body
    BY <1>1, <1>6, <2>2, Answering
  <2>4. Of("checklist", move.other) => Of("checklist", move.other)'
    BY <1>1, <2>2 DEF Of, RowsGrow
  <2>5. MoveOK'
    BY <1>1, <2>1, <2>3, <2>4 DEF RubricInv, MoveOK
  <2>. QED  BY <2>2, <2>3, <2>5 DEF RubricInv
<1>7. CASE Remove /\ call' = [call EXCEPT !.at = "ok"]
  <2>1. call.kind = "delete" /\ ~rows[call.id].locked /\ rows' = [rows EXCEPT ![call.id].there = FALSE]
    BY <1>7 DEF Remove, Writable
  <2>2. TablesOK' /\ RowsGrow
    BY <1>2, <2>1, RowRemoved DEF RubricInv
  <2>. QED  BY <1>4, <1>7, <2>1, <2>2
<1>8. CASE ImportCsv /\ call' = [call EXCEPT !.at = "ok"]
  <2>1. call.kind = "import" /\ "terms" \in Sections
    BY <1>8 DEF ImportCsv, Sections
  <2>2. CASE Named(call.body.key) = {}
    <3>1. Insert(Row("terms", call.body)) /\ ~Taken("terms", call.body.key, 0)
      BY <1>8, <2>2 DEF ImportCsv, Named, Taken
    <3>2. TablesOK' /\ RowsGrow
      BY <1>3, <2>1, <3>1, RowInserted DEF RubricInv
    <3>. QED  BY <1>4, <1>8, <2>1, <3>2
  <2>3. CASE Named(call.body.key) # {}
    <3>1. PICK r \in Named(call.body.key) : rows' = Writing(rows, r, call.body)
      BY <1>8, <2>3 DEF ImportCsv, Write, Writing
    <3>2. r \in DOMAIN rows /\ rows[r].there /\ rows[r].sec = "terms" /\ rows[r].key = call.body.key
      BY DEF Named, In
    <3>3. ~rows[r].locked /\ ~Taken(rows[r].sec, call.body.key, r)
      BY <3>2 DEF RubricInv, TablesOK, LockedOK, KeysOK, Taken, In
    <3>4. TablesOK' /\ RowsGrow
      BY <1>2, <3>1, <3>2, <3>3, RowWritten DEF RubricInv
    <3>. QED  BY <1>4, <1>8, <2>1, <3>4
  <2>. QED  BY <2>2, <2>3
<1>9. CASE Refused /\ call' = [call EXCEPT !.at = "error"]
  <2>1. UNCHANGED rows
    BY <1>9 DEF Refused
  <2>2. TablesOK' /\ RowsGrow
    BY <2>1, RowsSame
  <2>3. /\ ListOK' /\ ModalOK' /\ CallOK' /\ PanelOK' /\ call'.at = "error" /\ call'.kind = call.kind
        /\ call'.sec = call.sec /\ call'.id = call.id /\ call'.body = call.body
    BY <1>1, <1>9, <2>2, Answering
  <2>4. MoveOK'
    BY <1>1, <2>1, <2>3 DEF RubricInv, MoveOK, Of
  <2>. QED  BY <2>2, <2>3, <2>4 DEF RubricInv
<1>. QED  BY <1>5, <1>6, <1>7, <1>8, <1>9 DEF Serve

LEMMA AnswersStep ==
    ASSUME RubricInv, LoseAnswer \/ MoveOther \/ MoveEnds \/ Answered
    PROVE  RubricInv'
<1>1. UNCHANGED <<rows, tab, panel, posts, requests, saves>>
  BY DEF LoseAnswer, MoveOther, MoveEnds, Answered, bounds
<1>2. TablesOK' /\ RowsGrow
  BY <1>1, RowsSame
<1>3. CASE LoseAnswer
  <2>1. call.at = "ok" /\ call' = [call EXCEPT !.at = "error"] /\ UNCHANGED <<list, asked, modal, move>>
    BY <1>3 DEF LoseAnswer
  <2>2. /\ ListOK' /\ ModalOK' /\ CallOK' /\ PanelOK' /\ call'.at = "error" /\ call'.kind = call.kind
        /\ call'.sec = call.sec /\ call'.id = call.id /\ call'.body = call.body
    BY <1>1, <1>2, <2>1, Answering
  <2>3. MoveOK'
    BY <1>1, <2>1, <2>2 DEF RubricInv, MoveOK, Of
  <2>. QED  BY <1>2, <2>2, <2>3 DEF RubricInv
<1>4. CASE MoveOther
  <2>1. /\ move.at = "first" /\ call.at = "ok" /\ move' = [move EXCEPT !.at = "second"]
        /\ call' = [call EXCEPT !.at = "sent", !.id = move.other, !.body = move.body]
        /\ UNCHANGED <<list, asked, modal>>
    BY <1>4 DEF MoveOther
  <2>. DEFINE m == [move EXCEPT !.at = "second"]
              c == [call EXCEPT !.at = "sent", !.id = move.other, !.body = move.body]
  <2>2. /\ m \in Moves /\ m.at = "second" /\ m.other = move.other /\ m.body = move.body
        /\ m.result = move.result /\ m.clean = move.clean
    BY DEF RubricInv, MoveOK, Moves
  <2>3. move.other \in Nat /\ move.body \in BodySet /\ call \in Calls
    BY DEF RubricInv, MoveOK, Moves, CallOK
  <2>4. /\ c \in Calls /\ c.at = "sent" /\ c.kind = call.kind /\ c.sec = call.sec
        /\ c.id = move.other /\ c.body = move.body /\ c.here = call.here
    BY <2>3 DEF Calls
  <2>. HIDE DEF m, c
  <2>5. move' = m /\ call' = c
    BY <2>1 DEF m, c
  <2>6. ListOK' /\ PanelOK'
    BY <1>1, <1>2, <2>1, Frames
  <2>7. ModalOK'
    BY <1>1, <2>1 DEF RubricInv, ModalOK, Of
  <2>8. CallOK'
    BY <1>1, <2>1, <2>4, <2>5 DEF RubricInv, CallOK, MoveOK, Of
  <2>9. MoveOK'
    BY <1>1, <2>1, <2>2, <2>4, <2>5 DEF RubricInv, MoveOK, Of
  <2>. QED  BY <1>2, <2>6, <2>7, <2>8, <2>9 DEF RubricInv
<1>5. ASSUME call' = Idle, (move' = move /\ move.at = "no") \/ move' = Still,
             \/ UNCHANGED <<list, asked>> \/ Load
             \/ list' = [list EXCEPT !.error = TRUE] /\ UNCHANGED asked,
             modal' \in Modals, ~modal'.pending,
             modal'.at = "none" \/ (modal'.at = modal.at /\ modal'.id = modal.id)
      PROVE  RubricInv'
  <2>1. PanelOK'
    BY <1>1, <1>2, Frames
  <2>2. ListOK'
    <3>1. CASE UNCHANGED <<list, asked>>
      BY <1>1, <1>2, <3>1, Frames
    <3>2. CASE Load
      <4>. DEFINE no == FALSE
                  none == <<>>
      <4>1. no \in BOOLEAN /\ none \in Seq(ListRows)
        OBVIOUS
      <4>2. list' = [list EXCEPT !.known = no, !.rows = none]
        BY <3>2 DEF Load
      <4>. HIDE DEF no, none
      <4>3. /\ list' \in [known : BOOLEAN, error : BOOLEAN, rows : Seq(ListRows)] /\ list'.known = no
            /\ list'.rows = none
        BY <4>1, <4>2 DEF RubricInv, ListOK
      <4>4. ~list'.known /\ DOMAIN list'.rows = {}
        BY <4>3 DEF no, none
      <4>. QED  BY <1>1, <3>2, <4>3, <4>4 DEF RubricInv, ListOK, Load
    <3>3. CASE list' = [list EXCEPT !.error = TRUE] /\ UNCHANGED asked
      BY <1>1, <3>3 DEF RubricInv, ListOK, Of
    <3>. QED  BY <1>5, <3>1, <3>2, <3>3
  <2>3. ModalOK'
    BY <1>1, <1>5 DEF RubricInv, ModalOK, Of
  <2>4. CallOK'
    BY <1>1, <1>5, IdleTypes DEF RubricInv, CallOK, Idle
  <2>5. MoveOK'
    <3>1. Still \in Moves /\ Still.at = "no"
      BY DEF Still, Moves, BodySet
    <3>. QED  BY <1>5, <3>1 DEF RubricInv, MoveOK
  <2>. QED  BY <1>2, <2>1, <2>2, <2>3, <2>4, <2>5 DEF RubricInv
<1>6. modal \in Modals
  BY DEF RubricInv, ModalOK
<1>7. CASE MoveEnds
  <2>1. move.at # "no" /\ UNCHANGED modal /\ call' = Idle /\ move' = Still
    BY <1>7 DEF MoveEnds
  <2>2. ~modal.pending
    BY <2>1 DEF RubricInv, ModalOK
  <2>. QED  BY <1>5, <1>6, <1>7, <2>1, <2>2 DEF MoveEnds
<1>8. CASE Answered
  <2>1. move.at = "no" /\ UNCHANGED move /\ call' = Idle
    BY <1>8 DEF Answered
  <2>2. modal' \in Modals /\ ~modal'.pending /\ (modal'.at = "none" \/ (modal'.at = modal.at /\ modal'.id = modal.id))
    <3>1. CASE ~call.here
      <4>1. UNCHANGED modal
        BY <1>8, <3>1 DEF Answered
      <4>. QED  BY <1>6, <3>1, <4>1 DEF RubricInv, ModalOK
    <3>2. CASE call.here /\ call.at = "error"
      <4>. DEFINE no == FALSE
      <4>1. modal' = [modal EXCEPT !.pending = no] /\ no \in BOOLEAN
        BY <1>8, <3>2 DEF Answered
      <4>. HIDE DEF no
      <4>2. modal' \in Modals /\ modal'.pending = no /\ modal'.at = modal.at /\ modal'.id = modal.id
        BY <1>6, <4>1 DEF Modals
      <4>. QED  BY <4>2 DEF no
    <3>3. CASE call.here /\ call.at # "error"
      <4>1. modal' = IF modal.at = call.kind \/ {modal.at, call.kind} \subseteq {"new", "edit"} THEN Closed ELSE modal
        BY <1>8, <3>3 DEF Answered
      <4>2. Closed \in Modals /\ ~Closed.pending /\ Closed.at = "none"
        BY IdleTypes DEF Closed
      <4>. QED  BY <1>6, <4>1, <4>2 DEF RubricInv, ModalOK
    <3>. QED  BY <3>1, <3>2, <3>3
  <2>. QED  BY <1>5, <1>8, <2>1, <2>2 DEF Answered
<1>. QED  BY <1>3, <1>4, <1>7, <1>8

LEMMA OtherStep ==
    ASSUME RubricInv, Other
    PROVE  RubricInv'
<1>1. /\ UNCHANGED <<tab, list, asked, modal, call, panel, posts, requests, saves>>
      /\ move' = [move EXCEPT !.clean = FALSE]
  BY DEF Other
<1>2. PICK r \in DOMAIN rows : /\ rows[r].there /\ ~rows[r].locked
                              /\ \/ rows' = [rows EXCEPT ![r].there = FALSE]
                                 \/ \E b \in Bodies : ~Taken(rows[r].sec, b.key, r) /\ Write(rows[r].sec, r, b)
  BY DEF Other
<1>3. TablesOK' /\ RowsGrow
  <2>1. CASE rows' = [rows EXCEPT ![r].there = FALSE]
    BY <1>2, <2>1, RowRemoved DEF RubricInv
  <2>2. ASSUME NEW b \in Bodies, ~Taken(rows[r].sec, b.key, r), Write(rows[r].sec, r, b)
        PROVE  TablesOK' /\ RowsGrow
    <3>1. b \in BodySet /\ rows' = Writing(rows, r, b)
      BY <2>2, FormsOK DEF Write, Writing
    <3>. QED  BY <1>2, <2>2, <3>1, RowWritten DEF RubricInv
  <2>. QED  BY <1>2, <2>1, <2>2
<1>4. ListOK' /\ CallOK' /\ PanelOK'
  BY <1>1, <1>3, Frames
<1>. DEFINE m == [move EXCEPT !.clean = FALSE]
<1>5. m \in Moves /\ m.at = move.at /\ m.other = move.other /\ m.body = move.body /\ ~m.clean
  BY DEF RubricInv, MoveOK, Moves
<1>. HIDE DEF m
<1>6. move' = m
  BY <1>1 DEF m
<1>7. \A s, q : Of(s, q) => Of(s, q)'
  BY <1>3 DEF Of, RowsGrow
<1>8. ModalOK'
  BY <1>1, <1>5, <1>6, <1>7 DEF RubricInv, ModalOK
<1>9. MoveOK'
  BY <1>1, <1>5, <1>6, <1>7 DEF RubricInv, MoveOK
<1>. QED  BY <1>3, <1>4, <1>8, <1>9 DEF RubricInv

-----------------------------------------------------------------------------
\* The panel that drafts

LEMMA FilterStep ==
    ASSUME RubricInv, NEW c, FilterTerms(c)
    PROVE  RubricInv'
<1>1. UNCHANGED <<rows, tab, list, asked, modal, call, move, panel, posts, requests, saves>>
  BY DEF FilterTerms, bounds
<1>2. TablesOK' /\ RowsGrow
  BY <1>1, RowsSame
<1>. QED  BY <1>1, <1>2, Frames DEF RubricInv

\* The panel changes, and no row does.
LEMMA PanelStep ==
    ASSUME RubricInv, PanelOK', UNCHANGED <<rows, tab, list, asked, modal, call, move, requests>>,
           requests = 0 \/ UNCHANGED posts
    PROVE  RubricInv'
<1>1. TablesOK' /\ RowsGrow
  BY RowsSame
<1>2. ListOK' /\ ModalOK' /\ MoveOK'
  BY <1>1, Frames
<1>3. CallOK'
  BY DEF RubricInv, CallOK, Of
<1>. QED  BY <1>1, <1>2, <1>3 DEF RubricInv

LEMMA PanelWith ==
    ASSUME panel \in Panels
    PROVE  /\ \A at \in {"empty", "drafting", "draft", "saving", "saved"} :
                 /\ [panel EXCEPT !.at = at] \in Panels
                 /\ [panel EXCEPT !.at = at].at = at /\ [panel EXCEPT !.at = at].picked = panel.picked
                 /\ [panel EXCEPT !.at = at].try = panel.try
           /\ \A items \in SUBSET Drafts :
                 /\ [panel EXCEPT !.picked = items] \in Panels
                 /\ [panel EXCEPT !.picked = items].at = panel.at
           /\ \A items \in SUBSET Drafts :
                 /\ [panel EXCEPT !.at = "draft", !.picked = items] \in Panels
                 /\ [panel EXCEPT !.at = "draft", !.picked = items].at = "draft"
           /\ \A try \in Nat :
                 /\ [panel EXCEPT !.at = "saving", !.try = try] \in Panels
                 /\ [panel EXCEPT !.at = "saving", !.try = try].at = "saving"
                 /\ [panel EXCEPT !.at = "saving", !.try = try].picked = panel.picked
                 /\ [panel EXCEPT !.at = "saving", !.try = try].try = try
BY DEF Panels

LEMMA DescribeStep ==
    ASSUME RubricInv, OnGenerate \/ DraftArrives \/ (\E i \in panel.picked : Uncheck(i)) \/ SaveFails
    PROVE  RubricInv'
<1>1. UNCHANGED <<rows, tab, list, asked, modal, call, move, posts, requests, saves>>
  BY DEF OnGenerate, DraftArrives, Uncheck, SaveFails, bounds
<1>2. panel \in Panels /\ panel.picked \in SUBSET Drafts
  BY DEF RubricInv, PanelOK, Panels
<1>3. panel' \in Panels /\ panel'.at \in {"empty", "drafting", "draft"}
  <2>1. CASE OnGenerate
    <3>1. panel' = [panel EXCEPT !.at = "drafting"]
      BY <2>1 DEF OnGenerate
    <3>. QED  BY <1>2, <3>1, PanelWith
  <2>2. CASE DraftArrives
    <3>1. ASSUME NEW items \in SUBSET Drafts, panel' = [panel EXCEPT !.at = "draft", !.picked = items]
          PROVE  panel' \in Panels /\ panel'.at \in {"empty", "drafting", "draft"}
      BY <1>2, <3>1, PanelWith
    <3>2. ASSUME NEW at \in {"empty", "draft"}, panel' = [panel EXCEPT !.at = at]
          PROVE  panel' \in Panels /\ panel'.at \in {"empty", "drafting", "draft"}
      BY <1>2, <3>2, PanelWith
    <3>. QED  BY <2>2, <3>1, <3>2 DEF DraftArrives
  <2>3. CASE \E i \in panel.picked : Uncheck(i)
    <3>1. PICK i \in panel.picked : panel.at = "draft" /\ panel' = [panel EXCEPT !.picked = panel.picked \ {i}]
      BY <2>3 DEF Uncheck
    <3>2. panel.picked \ {i} \in SUBSET Drafts
      BY <1>2
    <3>. QED  BY <1>2, <3>1, <3>2, PanelWith
  <2>4. CASE SaveFails
    <3>1. panel' = [panel EXCEPT !.at = "draft"]
      BY <2>4 DEF SaveFails
    <3>. QED  BY <1>2, <3>1, PanelWith
  <2>. QED  BY <2>1, <2>2, <2>3, <2>4
<1>4. PanelOK'
  BY <1>1, <1>3 DEF RubricInv, PanelOK, Created
<1>. QED  BY <1>1, <1>4, PanelStep

LEMMA SaveStep ==
    ASSUME RubricInv, OnSave \/ Saved
    PROVE  RubricInv'
<1>1. UNCHANGED <<rows, tab, list, asked, modal, call, move, requests>>
  BY DEF OnSave, Saved, bounds
<1>2. panel \in Panels /\ panel.picked \in SUBSET Drafts /\ panel.try \in Nat /\ saves \in Nat
  BY DEF RubricInv, PanelOK, Panels
<1>3. CASE OnSave
  <2>. DEFINE new == {[item |-> i, try |-> saves', at |-> "sent"] : i \in panel.picked}
  <2>1. /\ requests = 0 /\ saves' = saves + 1 /\ panel' = [panel EXCEPT !.at = "saving", !.try = saves']
        /\ posts' = posts \cup new
    BY <1>3 DEF OnSave, MaySave
  <2>2. saves' \in Nat
    BY <1>2, <2>1
  <2>3. panel' \in Panels /\ panel'.at = "saving" /\ panel'.picked = panel.picked /\ panel'.try = saves'
    BY <1>2, <2>1, <2>2, PanelWith
  <2>4. \A p \in new : p \in Posts /\ p.at = "sent"
    BY <1>2, <2>2 DEF Posts
  <2>5. ASSUME NEW i \in panel.picked
        PROVE  \E p \in new : p.item = i /\ p.try = panel'.try
    <3>. DEFINE p == [item |-> i, try |-> saves', at |-> "sent"]
    <3>1. p \in new /\ p.item = i /\ p.try = saves'
      OBVIOUS
    <3>. QED  BY <2>3, <3>1
  <2>. HIDE DEF new
  <2>6. PanelOK'
    BY <1>1, <2>1, <2>2, <2>3, <2>4, <2>5 DEF RubricInv, PanelOK, Created, Mine
  <2>. QED  BY <1>1, <2>1, <2>6, PanelStep
<1>4. CASE Saved
  <2>1. panel.at = "saving" /\ AllWell /\ panel' = [panel EXCEPT !.at = "saved"] /\ UNCHANGED <<posts, saves>>
    BY <1>4 DEF Saved, bounds
  <2>2. panel' \in Panels /\ panel'.at = "saved" /\ panel'.picked = panel.picked
    BY <1>2, <2>1, PanelWith
  <2>3. \A i \in panel.picked : Created(i)
    BY <2>1 DEF RubricInv, PanelOK, AllWell, Mine
  <2>4. PanelOK'
    BY <1>1, <2>1, <2>2, <2>3 DEF RubricInv, PanelOK, Created
  <2>. QED  BY <1>1, <2>1, <2>4, PanelStep
<1>. QED  BY <1>3, <1>4

\* The request for an item becomes another one for it.
LEMMA PostStep ==
    ASSUME RubricInv, TablesOK', RowsGrow, NEW p \in posts, NEW at \in {"ok", "error"}, Become(p, at),
           at = "ok" => Created(p.item)', UNCHANGED Rest
    PROVE  RubricInv'
<1>1. UNCHANGED <<tab, list, asked, modal, call, move, panel, requests, saves>>
  BY DEF Rest
<1>2. ListOK' /\ ModalOK'
  BY <1>1, Frames
<1>3. move.at = "no" /\ requests \in Nat /\ ~(requests > 0)
  BY DEF RubricInv, MoveOK, CallOK
<1>4. MoveOK'
  BY <1>1, <1>3 DEF RubricInv, MoveOK
<1>5. CallOK'
  BY <1>1, <1>3 DEF RubricInv, CallOK, Of, RowsGrow
<1>. DEFINE q == [p EXCEPT !.at = at]
<1>6. p \in Posts /\ q \in Posts /\ q.at = at /\ q.item = p.item /\ q.try = p.try
  <2>1. p \in Posts
    BY DEF RubricInv, PanelOK
  <2>. QED  BY <2>1 DEF Posts
<1>7. posts' = (posts \ {p}) \cup {q}
  BY DEF Become
<1>. HIDE DEF q
<1>8. \A i : Created(i) => Created(i)'
  BY DEF Created, RowsGrow
<1>9. PanelOK'
  <2>1. panel' \in Panels /\ posts' \in SUBSET Posts /\ saves' \in Nat
    BY <1>1, <1>6, <1>7 DEF RubricInv, PanelOK
  <2>2. \A x \in Mine : \E y \in Mine' : y.item = x.item
    BY <1>1, <1>6, <1>7 DEF Mine
  <2>3. panel'.at = "saving" => \A i \in panel'.picked : \E x \in Mine' : x.item = i
    BY <1>1, <2>2 DEF RubricInv, PanelOK
  <2>4. \A x \in posts' : x.at = "ok" => Created(x.item)'
    BY <1>6, <1>7, <1>8 DEF RubricInv, PanelOK
  <2>5. panel'.at = "saved" => \A i \in panel'.picked : Created(i)'
    BY <1>1, <1>8 DEF RubricInv, PanelOK
  <2>. QED  BY <2>1, <2>3, <2>4, <2>5 DEF PanelOK
<1>. QED  BY <1>2, <1>4, <1>5, <1>9 DEF RubricInv

\* The rows that a request or a draft inserts.
LEMMA RowTypes ==
    \A s \in Sections, k, o \in Nat :
        /\ Row(s, [key |-> k, order |-> o]) \in RowSet
        /\ Row(s, [key |-> k, order |-> o]).sec = s /\ Row(s, [key |-> k, order |-> o]).key = k
        /\ Row(s, [key |-> k, order |-> o]).there /\ ~Row(s, [key |-> k, order |-> o]).locked
BY DEF Row, RowSet

LEMMA RowDrafted ==
    \A row \in RowSet, d \in Nat :
        /\ [row EXCEPT !.drafted = d] \in RowSet /\ [row EXCEPT !.drafted = d].sec = row.sec
        /\ [row EXCEPT !.drafted = d].key = row.key /\ [row EXCEPT !.drafted = d].there = row.there
        /\ [row EXCEPT !.drafted = d].locked = row.locked /\ [row EXCEPT !.drafted = d].drafted = d
BY DEF RowSet

LEMMA RowLocked ==
    \A row \in RowSet :
        /\ [row EXCEPT !.locked = TRUE] \in RowSet /\ [row EXCEPT !.locked = TRUE].sec = row.sec
        /\ [row EXCEPT !.locked = TRUE].key = row.key /\ [row EXCEPT !.locked = TRUE].there = row.there
<1>. DEFINE yes == TRUE
<1>1. yes \in BOOLEAN
  OBVIOUS
<1>. HIDE DEF yes
<1>2. \A row \in RowSet :
        /\ [row EXCEPT !.locked = yes] \in RowSet /\ [row EXCEPT !.locked = yes].sec = row.sec
        /\ [row EXCEPT !.locked = yes].key = row.key /\ [row EXCEPT !.locked = yes].there = row.there
  BY <1>1 DEF RowSet
<1>. QED  BY <1>2 DEF yes

LEMMA PostsStep ==
    ASSUME RubricInv, NEW p \in posts, ServePost(p) \/ LosePost(p)
    PROVE  RubricInv'
<1>1. p \in Posts /\ UNCHANGED Rest
  BY DEF RubricInv, PanelOK, ServePost, LosePost
<1>2. CASE UNCHANGED rows /\ Become(p, "error")
  <2>1. TablesOK' /\ RowsGrow
    BY <1>2, RowsSame
  <2>. QED  BY <1>1, <1>2, <2>1, PostStep
<1>3. CASE ServePost(p) /\ ~Taken(p.item[1], p.item[2], 0)
  <2>. DEFINE plain == Row(p.item[1], [key |-> p.item[2], order |-> 0])
              row == [plain EXCEPT !.drafted = p.item[2]]
  <2>1. Become(p, "ok") /\ Insert(row)
    BY <1>3 DEF ServePost
  <2>2. /\ row \in RowSet /\ row.there /\ ~row.locked /\ row.sec = p.item[1] /\ row.key = p.item[2]
        /\ row.drafted = p.item[2]
    <3>1. p.item[1] \in Sections /\ p.item[2] \in Nat
      BY <1>1 DEF Posts, Drafts, Sections
    <3>2. plain \in RowSet /\ plain.there /\ ~plain.locked /\ plain.sec = p.item[1] /\ plain.key = p.item[2]
      BY <3>1, RowTypes
    <3>. HIDE DEF plain
    <3>. QED  BY <3>1, <3>2, RowDrafted
  <2>. HIDE DEF row
  <2>3. TablesOK' /\ RowsGrow /\ Len(rows) + 1 \in DOMAIN rows' /\ rows'[Len(rows) + 1] = row
    BY <1>3, <2>1, <2>2, RowInserted DEF RubricInv
  <2>4. Created(p.item)'
    BY <2>2, <2>3 DEF Created
  <2>. QED  BY <1>1, <2>1, <2>3, <2>4, PostStep
<1>. QED  BY <1>2, <1>3 DEF ServePost, LosePost

-----------------------------------------------------------------------------
\* Every step

LEMMA RubricStart == Init => RubricInv
<1>. SUFFICES ASSUME Init PROVE RubricInv
  OBVIOUS
<1>1. TablesOK
  <2>1. "criteria" \in Sections /\ "fields" \in Sections /\ "checklist" \in Sections /\ "terms" \in Sections
    BY DEF Sections
  <2>3. CASE \E o \in SeedOrders : rows = [i \in 1..3 |-> Row("checklist", [key |-> i, order |-> o[i]])]
    <3>1. PICK o \in SeedOrders : rows = [i \in 1..3 |-> Row("checklist", [key |-> i, order |-> o[i]])]
      BY <2>3
    <3>2. o \in [1..3 -> Nat]
      BY RubricAssumption
    <3>3. \A i \in 1..3 : i \in Nat /\ o[i] \in Nat
      BY <3>2
    <3>4. ASSUME NEW i \in 1..3
          PROVE  rows[i] \in RowSet /\ rows[i].key = i /\ ~rows[i].locked
      <4>1. rows[i] = Row("checklist", [key |-> i, order |-> o[i]])
        BY <3>1
      <4>2. i \in Nat /\ o[i] \in Nat
        BY <3>3
      <4>. QED  BY <2>1, <4>1, <4>2, RowTypes
    <3>5. DOMAIN rows = 1..3 /\ rows \in [1..3 -> RowSet]
      BY <3>1, <3>4
    <3>6. rows \in Seq(RowSet)
      <4>. DEFINE n == 3
      <4>1. n \in Nat /\ rows \in [1..n -> RowSet]
        BY <3>5
      <4>. HIDE DEF n
      <4>. QED  BY <4>1
    <3>. QED  BY <3>4, <3>5, <3>6 DEF TablesOK, KeysOK, LockedOK
  <2>4. CASE rows = << [Row("fields", [key |-> 1, order |-> 0]) EXCEPT !.locked = TRUE],
                       Row("criteria", [key |-> 1, order |-> 0]), Row("terms", [key |-> 2, order |-> 0]) >>
    <3>. DEFINE r0 == Row("fields", [key |-> 1, order |-> 0])
                r1 == [r0 EXCEPT !.locked = TRUE]
                r2 == Row("criteria", [key |-> 1, order |-> 0])
                r3 == Row("terms", [key |-> 2, order |-> 0])
    <3>1. r1 \in RowSet /\ r1.sec = "fields" /\ r1.key = 1 /\ r1.there
      <4>1. r0 \in RowSet /\ r0.sec = "fields" /\ r0.key = 1 /\ r0.there
        BY <2>1, RowTypes
      <4>. HIDE DEF r0
      <4>. QED  BY <4>1, RowLocked
    <3>2. r2 \in RowSet /\ r2.sec = "criteria" /\ ~r2.locked
      BY <2>1, RowTypes
    <3>3. r3 \in RowSet /\ r3.sec = "terms" /\ ~r3.locked
      BY <2>1, RowTypes
    <3>4. rows = <<r1, r2, r3>>
      BY <2>4
    <3>. HIDE DEF r1, r2, r3
    <3>5. rows \in Seq(RowSet) /\ DOMAIN rows = 1..3 /\ rows[1] = r1 /\ rows[2] = r2 /\ rows[3] = r3
      BY <3>1, <3>2, <3>3, <3>4
    <3>. QED  BY <3>1, <3>2, <3>3, <3>5 DEF TablesOK, KeysOK, LockedOK
  <2>. QED  BY <2>3, <2>4 DEF Init
<1>2. ListOK
  BY DEF Init, ListOK, Unloaded, Sections
<1>3. ModalOK
  BY IdleTypes DEF Init, ModalOK, Closed
<1>4. CallOK
  BY IdleTypes DEF Init, CallOK, Idle
<1>5. MoveOK
  <2>1. Still \in Moves /\ Still.at = "no"
    BY DEF Still, Moves, BodySet
  <2>. QED  BY <2>1 DEF Init, MoveOK
<1>6. PanelOK
  BY DEF Init, PanelOK, Empty, Panels, Posts
<1>. QED  BY <1>1, <1>2, <1>3, <1>4, <1>5, <1>6 DEF RubricInv

LEMMA RubricStep == RubricInv /\ [Next]_vars => RubricInv'
<1>. SUFFICES ASSUME RubricInv, [Next]_vars PROVE RubricInv'
  OBVIOUS
<1>1. CASE Loading \/ LoseLoad
  BY <1>1, LoadStep
<1>2. CASE Dialogs
  <2>1. CASE \E c \in {{}} \cup {{o} : o \in 0..2} : FilterTerms(c)
    BY <2>1, FilterStep
  <2>2. CASE MoveUp
    <3>1. PICK i \in DOMAIN list.rows : i > 1 /\ Move(i, i - 1)
      BY <2>2 DEF MoveUp
    <3>2. i # i - 1
      BY DEF RubricInv, ListOK
    <3>. QED  BY <3>1, <3>2, MoveStep
  <2>3. CASE MoveDown
    <3>1. PICK i \in DOMAIN list.rows : Move(i, i + 1)
      BY <2>3 DEF MoveDown
    <3>2. i # i + 1
      BY DEF RubricInv, ListOK
    <3>. QED  BY <3>1, <3>2, MoveStep
  <2>. QED  BY <1>2, <2>1, <2>2, <2>3, DialogsStep DEF Dialogs
<1>3. CASE Answers
  BY <1>3, ServeStep, AnswersStep DEF Answers
<1>4. CASE Drafting
  BY <1>4, DescribeStep, SaveStep, PostsStep DEF Drafting
<1>5. CASE Other
  BY <1>5, OtherStep
<1>6. CASE \E t \in Sections \cup {"generate"} : SetTab(t)
  BY <1>6, TabStep
<1>7. CASE UNCHANGED vars
  <2>1. UNCHANGED <<rows, tab, list, asked, modal, call, move, panel, posts, requests, saves>>
    BY <1>7 DEF vars, browser, bounds
  <2>2. TablesOK' /\ RowsGrow
    BY <2>1, RowsSame
  <2>. QED  BY <2>1, <2>2, Frames DEF RubricInv
<1>. QED  BY <1>1, <1>2, <1>3, <1>4, <1>5, <1>6, <1>7 DEF Next

\* The tables are sound, the page shows rows of its section, an undisturbed
\* move is as good as done, and what is saved has been created.
THEOREM RubricInvariant == Spec => []RubricInv
<1>. QED  BY RubricStart, RubricStep, PTL DEF Spec

\* No two rows of a section share a key, whatever the page, another
\* administrator and a draft write to it, and the locked fields stay.
THEOREM RubricTyped == Spec => []TypeOK
<1>1. RubricInv => TypeOK
  BY DEF RubricInv, TablesOK, KeysOK, LockedOK, ListOK, ModalOK, PanelOK, Posts, TypeOK
<1>. QED  BY <1>1, RubricInvariant, PTL

\* What the panel tells as saved has been created from a draft, item by item.
THEOREM SavedAreCreated == Spec => []SavedIsCreated
<1>1. RubricInv => SavedIsCreated
  BY DEF RubricInv, PanelOK, Created, SavedIsCreated
<1>. QED  BY <1>1, RubricInvariant, PTL

\* A move that nobody disturbs leaves the order that it was for.
THEOREM MovesSwap == Spec => MoveSwaps
<1>1. RubricInv /\ [Next]_vars =>
        (move.at = "second" /\ call.at = "sent" /\ call'.at = "ok" /\ move.clean
            => Ids(Listed("checklist"))' = move.result)
  <2>. SUFFICES ASSUME RubricInv, [Next]_vars, move.at = "second", call.at = "sent", call'.at = "ok", move.clean
                PROVE  Ids(Listed("checklist"))' = move.result
    OBVIOUS
  <2>1. call.kind = "edit" /\ call.id = move.other /\ call.body = move.body
        /\ IdsOf(Writing(rows, move.other, move.body), "checklist") = move.result
    BY DEF RubricInv, MoveOK
  <2>2. call' # call /\ call # Idle
    BY DEF Idle
  <2>3. Serve
    <3>1. ~(Loading \/ LoseLoad)
      BY <2>2 DEF Loading, LoseLoad, LoadCriteria, LoadFields, LoadChecklist, LoadTerms, Arrives
    <3>2. ~Dialogs
      <4>1. ~(AddCriterion \/ AddField \/ AddItem \/ AddTerm \/ Close \/ \E r \in Buttons : Edit(r) \/ AskDelete(r))
        BY <2>2 DEF AddCriterion, AddField, AddItem, AddTerm, Close, Edit, AskDelete, Show
      <4>2. \A c, new : ~Send(c, new)
        BY <2>2 DEF Send
      <4>3. ~(SubmitCriterion \/ SubmitField \/ SubmitItem \/ SubmitTerm)
        BY <4>2 DEF SubmitCriterion, SubmitField, SubmitItem, SubmitTerm, Submit
      <4>4. ~(DeleteCriterion \/ DeleteField \/ DeleteItem \/ DeleteTerm \/ OnCsvPicked)
        BY <4>2 DEF DeleteCriterion, DeleteField, DeleteItem, DeleteTerm, Delete, OnCsvPicked
      <4>5. ~(MoveUp \/ MoveDown)
        BY <4>2 DEF MoveUp, MoveDown, Move
      <4>6. \A c : ~FilterTerms(c)
        BY <2>2 DEF FilterTerms
      <4>. QED  BY <4>1, <4>3, <4>4, <4>5, <4>6 DEF Dialogs
    <3>3. ~(LoseAnswer \/ MoveOther \/ MoveEnds \/ Answered)
      BY DEF LoseAnswer, MoveOther, MoveEnds, Answered
    <3>4. ~Drafting
      BY <2>2 DEF Drafting, OnGenerate, DraftArrives, OnSave, Saved, SaveFails, Uncheck, ServePost,
                  LosePost, Rest
    <3>5. ~Other /\ ~UNCHANGED vars
      BY <2>2 DEF Other, vars, browser
    <3>6. \A t : ~SetTab(t)
      <4>1. [call EXCEPT !.here = FALSE].at = call.at
        BY DEF RubricInv, CallOK, Calls
      <4>. QED  BY <4>1 DEF SetTab
    <3>. QED  BY <3>1, <3>2, <3>3, <3>4, <3>5, <3>6 DEF Next, Answers
  <2>4. [call EXCEPT !.at = "error"].at = "error"
    BY DEF RubricInv, CallOK, Calls
  <2>5. Update
    BY <2>1, <2>3, <2>4 DEF Serve, Create, Remove, ImportCsv
  <2>6. rows' = Writing(rows, move.other, move.body)
    BY <2>1, <2>5 DEF Update, Write, Writing
  <2>. QED  BY <2>1, <2>6, ListedIds
<1>. QED  BY <1>1, RubricInvariant, PTL DEF Spec, MoveSwaps

-----------------------------------------------------------------------------
(***************************************************************************)
(* The knowledge base                                                      *)
(***************************************************************************)

-----------------------------------------------------------------------------
\* The invariant

DocStates == {"processing", "ready", "failed", "deleted"}
Doc   == [at : DocStates, content : Contents]
Chunk == [doc : Nat, by : Nat, content : Contents]
Texts == Contents \cup {NoContent}
Task  == [doc : Nat, at : {"sent", "read", "waiting", "embedding", "over"}, read : Texts,
          status : DocStates, old : SUBSET Chunk, alone : BOOLEAN]

Tables == /\ docs \in Seq(Doc) /\ chunks \in SUBSET Chunk /\ tasks \in Seq(Task)
          /\ \A t \in DOMAIN tasks : tasks[t].doc \in DOMAIN docs

\* The chunks belong to the documents there are, and a ready one has some.
ChunksOK == /\ \A c \in chunks : c.doc \in Know!Existing
            /\ \A d \in DOMAIN docs : docs[d].at = "ready" => Know!ChunksOf(d) # {}

\* A task deletes chunks of its own document only, and knows what to embed.
ReadsOK == \A t \in DOMAIN tasks :
    /\ \A c \in tasks[t].old : c.doc = tasks[t].doc
    /\ Know!InHand(t) => tasks[t].read \in Contents

\* Two tasks do not hold the locks of one chunk.
LocksOK == \A t, u \in DOMAIN tasks :
    tasks[t].at = "embedding" /\ tasks[u].at = "embedding" /\ t # u => tasks[t].old \cap tasks[u].old = {}

\* A task that is alone with its document never waits, has read what the document
\* says, and deletes all of its chunks.
AloneOK == \A t \in DOMAIN tasks : tasks[t].alone =>
    /\ tasks[t].at \in {"read", "embedding"}
    /\ Know!Others(t) = {}
    /\ docs[tasks[t].doc].at # "deleted" => tasks[t].read = docs[tasks[t].doc].content
    /\ tasks[t].at = "embedding" => tasks[t].old = Know!ChunksOf(tasks[t].doc)

Kinds == {"new", "edit", "delete", "upload"}
\* The page has at most the documents there are; a dialog about a document and
\* the request it sends name one of them; what is saved has a content.
DocPageOK ==
       /\ list.known \in BOOLEAN /\ list.docs \in Seq(DocStates) /\ Len(list.docs) <= Len(docs)
       /\ modal \in [at : {"none", "new", "edit", "delete", "retrieve"}, doc : Nat, text : Texts,
                     loading : BOOLEAN, pending : BOOLEAN]
       /\ modal.at \in {"edit", "delete"} => modal.doc \in DOMAIN docs
       /\ modal.loading => modal.at = "edit"
       /\ call \in [at : {"idle", "sent", "ok", "error"}, kind : Kinds \cup {"none"}, doc : Nat, text : Texts]
       /\ call.at = "sent" => /\ call.kind \in {"edit", "delete"} => call.doc \in DOMAIN docs
                              /\ call.kind \in {"new", "edit", "upload"} => call.text \in Contents

KnowledgeInv == Tables /\ ChunksOK /\ ReadsOK /\ LocksOK /\ AloneOK /\ DocPageOK

-----------------------------------------------------------------------------
\* Values

LEMMA Values ==
    ASSUME Know!KnowledgeAssumption
    PROVE  /\ NoContent \in Texts /\ NoContent \notin Contents
           /\ \A c \in Contents : c \in Texts /\ Know!NewDoc(c) \in Doc /\ Know!NewDoc(c).at = "processing"
           /\ \A d \in Nat : Know!NewTask(d) \in Task
           /\ \A x \in Task : /\ Know!Over(x) \in Task /\ Know!Over(x).doc = x.doc /\ Know!Over(x).at = "over"
                              /\ Know!Over(x).old = {} /\ ~Know!Over(x).alone
BY DEF Know!KnowledgeAssumption, Texts, Know!NewDoc, Doc, DocStates, Know!NewTask, Task, Know!Over

LEMMA Indices ==
    ASSUME Tables
    PROVE  /\ DOMAIN tasks = 1 .. Len(tasks) /\ Len(tasks) \in Nat
           /\ DOMAIN docs = 1 .. Len(docs) /\ Len(docs) \in Nat
           /\ \A t \in DOMAIN tasks : tasks[t] \in Task /\ t \in Nat
           /\ \A d \in DOMAIN docs : docs[d] \in Doc /\ d \in Nat
BY DEF Tables

\* Disturbing changes who is alone, and nothing else.
LEMMA DisturbedTasks ==
    ASSUME Tables, NEW d
    PROVE  /\ Know!Disturbed(tasks, d) \in Seq(Task) /\ Len(Know!Disturbed(tasks, d)) = Len(tasks)
           /\ \A t \in DOMAIN tasks :
                 LET x == Know!Disturbed(tasks, d)[t]
                 IN  /\ x.doc = tasks[t].doc /\ x.at = tasks[t].at /\ x.read = tasks[t].read
                     /\ x.status = tasks[t].status /\ x.old = tasks[t].old
                     /\ x.alone => tasks[t].alone /\ tasks[t].doc # d
<1>. DEFINE D == Know!Disturbed(tasks, d)
            b(t) == tasks[t].alone /\ tasks[t].doc # d
<1>1. \A t \in DOMAIN tasks : b(t) \in BOOLEAN
  OBVIOUS
<1>2. D = [t \in DOMAIN tasks |-> [tasks[t] EXCEPT !.alone = b(t)]]
  BY DEF Know!Disturbed
<1>. HIDE DEF b
<1>3. ASSUME NEW t \in DOMAIN tasks
      PROVE  /\ D[t] \in Task /\ D[t].doc = tasks[t].doc /\ D[t].at = tasks[t].at
             /\ D[t].read = tasks[t].read /\ D[t].status = tasks[t].status
             /\ D[t].old = tasks[t].old /\ D[t].alone = b(t)
  <2>1. tasks[t] \in Task /\ D[t] = [tasks[t] EXCEPT !.alone = b(t)]
    BY <1>2, Indices
  <2>. HIDE DEF D
  <2>. QED  BY <1>1, <2>1 DEF Task
<1>4. D \in Seq(Task) /\ Len(D) = Len(tasks)
  <2>1. DOMAIN D = 1 .. Len(tasks) /\ Len(tasks) \in Nat
    BY <1>2, Indices
  <2>2. D \in [1 .. Len(tasks) -> Task]
    BY <1>2, <1>3, <2>1
  <2>. HIDE DEF D
  <2>. QED  BY <2>1, <2>2
<1>. QED  BY <1>3, <1>4 DEF b

-----------------------------------------------------------------------------
\* Tasks

\* A task that a step leaves in hand as it was.  If it is still alone, its
\* document and the chunks of it are as they were, too.
Kept(u) == /\ u \in DOMAIN tasks
           /\ tasks'[u].doc = tasks[u].doc /\ tasks'[u].at = tasks[u].at
           /\ tasks'[u].read = tasks[u].read /\ tasks'[u].old = tasks[u].old
           /\ tasks'[u].alone =>
                 /\ tasks[u].alone
                 /\ {c \in chunks' : c.doc = tasks[u].doc} = Know!ChunksOf(tasks[u].doc)
                 /\ docs'[tasks[u].doc].at # "deleted" =>
                       /\ docs[tasks[u].doc].at # "deleted"
                       /\ docs'[tasks[u].doc].content = docs[tasks[u].doc].content

\* A task that nobody has in hand.
Rests(u) == /\ tasks'[u].at \in {"sent", "over"} /\ tasks'[u].doc \in DOMAIN docs'
            /\ tasks'[u].old = {} /\ ~tasks'[u].alone

\* A task that goes on.
GoesOn(t) == /\ tasks'[t].doc \in DOMAIN docs'
             /\ \A c \in tasks'[t].old : c.doc = tasks'[t].doc
             /\ tasks'[t].read \in Contents
             /\ \A u \in DOMAIN tasks' \ {t} :
                   /\ tasks'[t].at = "embedding" /\ tasks'[u].at = "embedding" => tasks'[t].old \cap tasks'[u].old = {}
                   /\ tasks'[u].doc = tasks'[t].doc => ~tasks'[u].alone
             /\ tasks'[t].alone =>
                   /\ tasks'[t].at \in {"read", "embedding"}
                   /\ Know!Others(t)' = {}
                   /\ docs'[tasks'[t].doc].at # "deleted" => tasks'[t].read = docs'[tasks'[t].doc].content
                   /\ tasks'[t].at = "embedding" => tasks'[t].old = {c \in chunks' : c.doc = tasks'[t].doc}

TaskInv == Tables /\ ReadsOK /\ LocksOK /\ AloneOK

LEMMA TasksStep ==
    ASSUME TaskInv, docs' \in Seq(Doc), DOMAIN docs \subseteq DOMAIN docs',
           chunks' \in SUBSET Chunk, tasks' \in Seq(Task),
           NEW t, \A u \in DOMAIN tasks' \ {t} : Kept(u) \/ Rests(u),
           t \in DOMAIN tasks' => GoesOn(t)
    PROVE  TaskInv'
<1>1. Tables'
  BY DEF TaskInv, Tables, Kept, Rests, GoesOn
<1>2. ReadsOK'
  BY DEF TaskInv, ReadsOK, Kept, Rests, GoesOn, Know!InHand
<1>3. LocksOK'
  <2>. SUFFICES ASSUME NEW u \in DOMAIN tasks', NEW v \in DOMAIN tasks',
                       tasks'[u].at = "embedding", tasks'[v].at = "embedding", u # v
                PROVE  tasks'[u].old \cap tasks'[v].old = {}
    BY DEF LocksOK
  <2>1. CASE u = t \/ v = t
    BY <2>1 DEF GoesOn
  <2>2. CASE u # t /\ v # t
    <3>1. Kept(u) /\ Kept(v)
      BY <2>2 DEF Rests
    <3>. QED  BY <3>1 DEF Kept, TaskInv, LocksOK
  <2>. QED  BY <2>1, <2>2
<1>4. AloneOK'
  <2>. SUFFICES ASSUME NEW u \in DOMAIN tasks', tasks'[u].alone
                PROVE  /\ tasks'[u].at \in {"read", "embedding"}
                       /\ Know!Others(u)' = {}
                       /\ docs'[tasks'[u].doc].at # "deleted" => tasks'[u].read = docs'[tasks'[u].doc].content
                       /\ tasks'[u].at = "embedding" => tasks'[u].old = Know!ChunksOf(tasks[u].doc)'
    BY DEF AloneOK
  <2>1. CASE u = t
    BY <2>1 DEF GoesOn, Know!ChunksOf
  <2>2. CASE u # t
    <3>1. Kept(u) /\ tasks[u].alone
      BY <2>2 DEF Rests, Kept
    <3>2. ASSUME NEW v \in DOMAIN tasks' \ {u}, tasks'[v].doc = tasks'[u].doc, Know!InHand(v)'
          PROVE  FALSE
      <4>1. v # t
        BY <2>2, <3>2 DEF GoesOn
      <4>2. Kept(v)
        BY <3>2, <4>1 DEF Rests, Know!InHand
      <4>3. v \in Know!Others(u)
        BY <3>1, <3>2, <4>2 DEF Kept, Know!Others, Know!InHand
      <4>. QED  BY <3>1, <4>3 DEF Kept, TaskInv, AloneOK
    <3>3. Know!Others(u)' = {}
      BY <3>2 DEF Know!Others
    <3>. QED  BY <3>1, <3>3 DEF Kept, TaskInv, AloneOK, Know!ChunksOf
  <2>. QED  BY <2>1, <2>2
<1>. QED  BY <1>1, <1>2, <1>3, <1>4 DEF TaskInv

LEMMA TaskBecomes ==
    ASSUME Tables, NEW t \in DOMAIN tasks, NEW x \in Task, tasks' = [tasks EXCEPT ![t] = x]
    PROVE  /\ tasks' \in Seq(Task) /\ DOMAIN tasks' = DOMAIN tasks /\ tasks'[t] = x
           /\ \A u \in DOMAIN tasks \ {t} : tasks'[u] = tasks[u]
BY Indices DEF Tables

\* A step that changes neither documents nor chunks keeps the tasks it leaves alone.
LEMMA KeptAsItWas ==
    ASSUME UNCHANGED <<docs, chunks>>, NEW u \in DOMAIN tasks, tasks'[u] = tasks[u]
    PROVE  Kept(u)
BY DEF Kept, Know!ChunksOf

LEMMA SameChunks ==
    ASSUME ChunksOK, UNCHANGED <<docs, chunks>>
    PROVE  ChunksOK'
BY DEF ChunksOK, Know!Existing, Know!ChunksOf

LEMMA SameServer ==
    ASSUME TaskInv, ChunksOK, UNCHANGED Know!server
    PROVE  TaskInv' /\ ChunksOK'
<1>1. UNCHANGED docs /\ UNCHANGED chunks /\ UNCHANGED tasks
  BY DEF Know!server
<1>2. ChunksOK'
  BY <1>1, SameChunks
<1>3. TaskInv'
  BY <1>1 DEF TaskInv, Tables, ReadsOK, LocksOK, AloneOK, Know!InHand, Know!Others, Know!ChunksOf
<1>. QED  BY <1>2, <1>3

\* A task is put down, and documents and chunks stay as they are: it is over, or
\* its message waits again.
LEMMA TaskPutDown ==
    ASSUME Know!KnowledgeAssumption, TaskInv, ChunksOK, NEW t \in DOMAIN tasks, UNCHANGED <<docs, chunks>>,
           NEW x \in {Know!Over(tasks[t]), Know!NewTask(tasks[t].doc)},
           tasks' = [tasks EXCEPT ![t] = x]
    PROVE  TaskInv' /\ ChunksOK'
<1>1. Tables /\ tasks[t] \in Task /\ tasks[t].doc \in Nat /\ tasks[t].doc \in DOMAIN docs
  BY Indices DEF TaskInv, Tables, Task
<1>2. /\ x \in Task /\ x.doc = tasks[t].doc /\ x.at \in {"sent", "over"} /\ x.old = {} /\ ~x.alone
  BY <1>1, Values DEF Know!NewTask
<1>3. /\ tasks' \in Seq(Task) /\ DOMAIN tasks' = DOMAIN tasks /\ tasks'[t] = x
      /\ \A u \in DOMAIN tasks \ {t} : tasks'[u] = tasks[u]
  BY <1>1, <1>2, TaskBecomes
<1>4. Rests(t)
  BY <1>1, <1>2, <1>3 DEF Rests
<1>5. \A u \in DOMAIN tasks' \ {0} : Kept(u) \/ Rests(u)
  BY <1>3, <1>4, KeptAsItWas
<1>6. 0 \notin DOMAIN tasks'
  BY <1>1, <1>3, Indices
<1>7. TaskInv'
  BY <1>1, <1>3, <1>5, <1>6, TasksStep DEF TaskInv, Tables
<1>. QED  BY <1>7, SameChunks

\* Start of ingest_kb_document: the document is read.
LEMMA StartStep ==
    ASSUME Know!KnowledgeAssumption, TaskInv, ChunksOK, NEW t \in DOMAIN tasks, Know!Start(t)
    PROVE  TaskInv' /\ ChunksOK'
<1>. DEFINE d == tasks[t].doc
            alone == Know!Others(t) = {}
            D == Know!Disturbed(tasks, d)
            x == [D[t] EXCEPT !.at = "read", !.read = docs[d].content, !.status = docs[d].at, !.alone = alone]
<1>1. Tables /\ UNCHANGED docs /\ UNCHANGED chunks /\ UNCHANGED <<docs, chunks>>
  BY DEF Know!Start, TaskInv
<1>2. tasks[t] \in Task /\ d \in DOMAIN docs /\ docs[d] \in Doc
  BY <1>1, Indices DEF Tables
<1>3. CASE docs[d].at = "deleted"
  BY <1>1, <1>3, TaskPutDown DEF Know!Start
<1>4. CASE docs[d].at # "deleted"
  <2>1. tasks' = [D EXCEPT ![t] = x]
    BY <1>4 DEF Know!Start
  <2>2. /\ D \in Seq(Task) /\ Len(D) = Len(tasks)
        /\ \A u \in DOMAIN tasks :
              /\ D[u].doc = tasks[u].doc /\ D[u].at = tasks[u].at /\ D[u].read = tasks[u].read
              /\ D[u].status = tasks[u].status /\ D[u].old = tasks[u].old
              /\ D[u].alone => tasks[u].alone /\ tasks[u].doc # d
    BY <1>1, DisturbedTasks
  <2>3. alone \in BOOLEAN
    OBVIOUS
  <2>. HIDE DEF D, alone
  <2>4. DOMAIN D = DOMAIN tasks /\ D[t] \in Task
    BY <2>2, <1>1, Indices
  <2>5. /\ x \in Task /\ x.doc = d /\ x.at = "read" /\ x.read = docs[d].content
        /\ x.old = tasks[t].old /\ x.alone = alone
    BY <1>2, <2>2, <2>3, <2>4 DEF Task, Doc, Texts
  <2>. HIDE DEF x
  <2>6. /\ tasks' \in Seq(Task) /\ DOMAIN tasks' = DOMAIN tasks /\ tasks'[t] = x
        /\ \A u \in DOMAIN tasks \ {t} : tasks'[u] = D[u]
    BY <2>1, <2>2, <2>4, <2>5
  <2>7. \A u \in DOMAIN tasks' \ {t} : Kept(u)
    BY <1>1, <2>2, <2>6 DEF Kept, Know!ChunksOf
  <2>8. GoesOn(t)
    <3>1. \A c \in tasks'[t].old : c.doc = tasks'[t].doc
      BY <2>5, <2>6 DEF TaskInv, ReadsOK
    <3>2. tasks'[t].read \in Contents /\ tasks'[t].at = "read"
      BY <1>2, <2>5, <2>6 DEF Doc
    <3>3. \A u \in DOMAIN tasks' \ {t} : tasks'[u].doc = tasks'[t].doc => ~tasks'[u].alone
      BY <2>2, <2>5, <2>6
    <3>4. tasks'[t].alone => Know!Others(t)' = {}
      <4>1. alone => Know!Others(t) = {}
        BY DEF alone
      <4>2. Know!Others(t)' \subseteq Know!Others(t)
        BY <2>2, <2>5, <2>6 DEF Know!Others, Know!InHand
      <4>. QED  BY <2>5, <2>6, <4>1, <4>2
    <3>. QED  BY <1>1, <1>2, <2>5, <2>6, <3>1, <3>2, <3>3, <3>4 DEF GoesOn
  <2>9. TaskInv'
    BY <1>1, <2>6, <2>7, <2>8, TasksStep DEF TaskInv, Tables
  <2>. QED  BY <1>1, <2>9, SameChunks
<1>. QED  BY <1>3, <1>4

\* The statement that deletes the old chunks, or waits for those who do, and its end.
LEMMA DeleteStep ==
    ASSUME TaskInv, ChunksOK, NEW t \in DOMAIN tasks, Know!Delete(t) \/ Know!Unlock(t)
    PROVE  TaskInv' /\ ChunksOK'
<1>. DEFINE d == tasks[t].doc
            free == IF tasks[t].at = "read" THEN Know!LockedBy(t, Know!ChunksOf(d)) = {} ELSE TRUE
            old  == IF tasks[t].at = "read" THEN Know!ChunksOf(d) ELSE tasks[t].old \cap chunks
            at   == IF free THEN "embedding" ELSE "waiting"
            x == [tasks[t] EXCEPT !.at = at, !.old = old]
<1>1. Tables /\ UNCHANGED docs /\ UNCHANGED chunks /\ UNCHANGED <<docs, chunks>>
  BY DEF Know!Delete, Know!Unlock, TaskInv
<1>2. tasks[t] \in Task /\ d \in DOMAIN docs /\ tasks \in Seq(Task) /\ chunks \in SUBSET Chunk
  BY <1>1, Indices DEF Tables
<1>3. tasks[t].at \in {"read", "waiting"} /\ (tasks[t].at = "waiting" => Know!LockedBy(t, tasks[t].old) = {})
  BY DEF Know!Delete, Know!Unlock
<1>4. old \in SUBSET Chunk /\ \A c \in old : c.doc = d
  BY <1>2 DEF Know!ChunksOf, TaskInv, ReadsOK
<1>5. free => Know!LockedBy(t, old) = {}
  BY <1>3 DEF Know!LockedBy
<1>6. tasks' = [tasks EXCEPT ![t] = x]
  <2>1. CASE Know!Delete(t)
    <3>1. tasks[t].at = "read" /\ tasks' = [tasks EXCEPT ![t].at = at, ![t].old = old]
      BY <2>1 DEF Know!Delete, Know!Old
    <3>. HIDE DEF at, old
    <3>. QED  BY <1>2, <3>1
  <2>2. CASE Know!Unlock(t)
    <3>1. tasks[t].at = "waiting"
      BY <2>2 DEF Know!Unlock
    <3>2. tasks' = [tasks EXCEPT ![t].at = at, ![t].old = old]
      BY <2>2, <3>1 DEF Know!Unlock
    <3>. HIDE DEF at, old
    <3>. QED  BY <1>2, <3>2
  <2>. QED  BY <2>1, <2>2
<1>7. tasks[t].alone => tasks[t].at = "read" /\ Know!Others(t) = {}
  BY <1>3 DEF TaskInv, AloneOK
<1>8. tasks[t].alone => free
  <2>. SUFFICES ASSUME tasks[t].alone, NEW u \in Know!LockedBy(t, Know!ChunksOf(d))
                PROVE  FALSE
    BY <1>7
  <2>1. PICK c \in Know!ChunksOf(d) : c \in tasks[u].old
    BY DEF Know!LockedBy
  <2>2. tasks[u].doc = d
    BY <2>1 DEF Know!LockedBy, Know!ChunksOf, TaskInv, ReadsOK
  <2>3. u \in Know!Others(t)
    BY <2>2 DEF Know!LockedBy, Know!Others, Know!InHand
  <2>. QED  BY <1>7, <2>3
<1>9. at \in {"embedding", "waiting"} /\ (at = "embedding" <=> free)
  OBVIOUS
<1>10. tasks[t].alone => old = Know!ChunksOf(d)
  BY <1>7
<1>. HIDE DEF at, old, free
<1>11. /\ x \in Task /\ x.doc = d /\ x.at = at /\ x.read = tasks[t].read
       /\ x.old = old /\ x.alone = tasks[t].alone
  BY <1>2, <1>4, <1>9 DEF Task
<1>. HIDE DEF x
<1>12. /\ tasks' \in Seq(Task) /\ DOMAIN tasks' = DOMAIN tasks /\ tasks'[t] = x
       /\ \A u \in DOMAIN tasks \ {t} : tasks'[u] = tasks[u]
  BY <1>1, <1>6, <1>11, TaskBecomes
<1>13. \A u \in DOMAIN tasks' \ {t} : Kept(u)
  BY <1>1, <1>12, KeptAsItWas
<1>14. GoesOn(t)
  <2>1. tasks'[t].read \in Contents /\ tasks'[t].doc \in DOMAIN docs'
    BY <1>1, <1>2, <1>3, <1>11, <1>12 DEF TaskInv, ReadsOK, Know!InHand
  <2>2. ASSUME NEW u \in DOMAIN tasks' \ {t}
        PROVE  /\ tasks'[t].at = "embedding" /\ tasks'[u].at = "embedding" => tasks'[t].old \cap tasks'[u].old = {}
               /\ tasks'[u].doc = tasks'[t].doc => ~tasks'[u].alone
    <3>1. tasks'[t].at = "embedding" /\ tasks'[u].at = "embedding" => tasks'[t].old \cap tasks'[u].old = {}
      BY <1>5, <1>9, <1>11, <1>12 DEF Know!LockedBy
    <3>2. tasks[u].doc = d => t \in Know!Others(u)
      BY <1>3, <1>12 DEF Know!Others, Know!InHand
    <3>. QED  BY <1>11, <1>12, <3>1, <3>2 DEF TaskInv, AloneOK
  <2>3. tasks'[t].alone =>
            /\ tasks'[t].at \in {"read", "embedding"}
            /\ Know!Others(t)' = {}
            /\ docs'[tasks'[t].doc].at # "deleted" => tasks'[t].read = docs'[tasks'[t].doc].content
            /\ tasks'[t].at = "embedding" => tasks'[t].old = {c \in chunks' : c.doc = tasks'[t].doc}
    <3>1. tasks[t].alone => Know!Others(t)' = {}
      BY <1>7, <1>11, <1>12 DEF Know!Others, Know!InHand
    <3>. QED  BY <1>1, <1>7, <1>8, <1>9, <1>10, <1>11, <1>12, <3>1 DEF Know!ChunksOf, TaskInv, AloneOK
  <2>. QED  BY <1>4, <1>11, <1>12, <2>1, <2>2, <2>3 DEF GoesOn
<1>15. TaskInv'
  BY <1>1, <1>12, <1>13, <1>14, TasksStep DEF TaskInv, Tables
<1>. QED  BY <1>1, <1>15, SameChunks

\* A document changes its status, but is not deleted, and stays what it says.
LEMMA StatusWritten ==
    ASSUME Tables, NEW d \in DOMAIN docs, NEW at \in DocStates, docs' = [docs EXCEPT ![d].at = at]
    PROVE  /\ docs' \in Seq(Doc) /\ DOMAIN docs' = DOMAIN docs /\ docs'[d].at = at
           /\ \A e \in DOMAIN docs : docs'[e].content = docs[e].content
           /\ \A e \in DOMAIN docs \ {d} : docs'[e] = docs[e]
<1>1. docs[d] \in Doc /\ docs \in Seq(Doc)
  BY Indices DEF Tables
<1>. DEFINE x == [docs[d] EXCEPT !.at = at]
<1>2. x \in Doc /\ x.at = at /\ x.content = docs[d].content
  BY <1>1 DEF Doc
<1>3. docs' = [docs EXCEPT ![d] = x]
  BY <1>1
<1>. HIDE DEF x
<1>. QED  BY <1>1, <1>2, <1>3

\* A task that is at work keeps the others of its document from being alone.
LEMMA NobodyElseAlone ==
    ASSUME AloneOK, NEW t \in DOMAIN tasks, Know!InHand(t), NEW u \in DOMAIN tasks \ {t}, tasks[u].alone
    PROVE  tasks[u].doc # tasks[t].doc
BY DEF AloneOK, Know!Others

\* The commit of chunks and status.
LEMMA FinishStep ==
    ASSUME Know!KnowledgeAssumption, TaskInv, ChunksOK, NEW t \in DOMAIN tasks, Know!Finish(t)
    PROVE  TaskInv' /\ ChunksOK'
<1>. DEFINE d == tasks[t].doc
            new == [doc |-> d, by |-> t, content |-> tasks[t].read]
<1>1. Tables /\ tasks' = [tasks EXCEPT ![t] = Know!Over(tasks[t])] /\ tasks[t].at = "embedding" /\ Know!InHand(t)
  BY DEF Know!Finish, Know!InHand, TaskInv
<1>2. /\ tasks[t] \in Task /\ d \in DOMAIN docs /\ d \in Nat /\ t \in Nat /\ docs[d] \in Doc
      /\ chunks \in SUBSET Chunk /\ docs \in Seq(Doc)
  BY <1>1, Indices DEF Tables
<1>3. CASE Know!Gone(d)
  BY <1>1, <1>3, TaskPutDown DEF Know!Finish
<1>4. CASE ~Know!Gone(d)
  <2>1. chunks' = (chunks \ tasks[t].old) \cup {new}
    BY <1>4 DEF Know!Finish
  <2>2. docs' = docs \/ docs' = [docs EXCEPT ![d].at = "ready"]
    BY <1>4 DEF Know!Finish
  <2>3. new \in Chunk /\ new.doc = d
    BY <1>1, <1>2 DEF Chunk, TaskInv, ReadsOK
  <2>. HIDE DEF new
  <2>4. /\ docs' \in Seq(Doc) /\ DOMAIN docs' = DOMAIN docs
        /\ \A e \in DOMAIN docs : docs'[e].content = docs[e].content
        /\ \A e \in DOMAIN docs \ {d} : docs'[e] = docs[e]
        /\ docs'[d].at # "deleted" /\ docs[d].at # "deleted"
    <3>1. "ready" \in DocStates
      BY DEF DocStates
    <3>. QED  BY <1>1, <1>2, <1>4, <2>2, <3>1, StatusWritten DEF Know!Gone
  <2>5. \A c \in tasks[t].old : c.doc = d
    BY DEF TaskInv, ReadsOK
  <2>6. \A e : e # d => {c \in chunks' : c.doc = e} = Know!ChunksOf(e)
    BY <2>1, <2>3, <2>5 DEF Know!ChunksOf
  <2>7. ChunksOK'
    <3>1. \A c \in chunks' : c.doc \in Know!Existing'
      BY <2>1, <2>3, <2>4, <1>2 DEF ChunksOK, Know!Existing
    <3>2. ASSUME NEW e \in DOMAIN docs', docs'[e].at = "ready"
          PROVE  Know!ChunksOf(e)' # {}
      <4>1. CASE e = d
        BY <2>1, <2>3, <4>1 DEF Know!ChunksOf
      <4>2. CASE e # d
        BY <2>4, <2>6, <3>2, <4>2 DEF ChunksOK, Know!ChunksOf
      <4>. QED  BY <4>1, <4>2
    <3>. QED  BY <3>1, <3>2 DEF ChunksOK
  <2>8. /\ tasks' \in Seq(Task) /\ DOMAIN tasks' = DOMAIN tasks /\ tasks'[t] = Know!Over(tasks[t])
        /\ \A u \in DOMAIN tasks \ {t} : tasks'[u] = tasks[u]
    BY <1>1, <1>2, Values, TaskBecomes
  <2>9. Rests(t)
    BY <1>2, <2>4, <2>8, Values DEF Rests
  <2>10. ASSUME NEW u \in DOMAIN tasks \ {t}
         PROVE  Kept(u)
    <3>1. tasks[u].alone => tasks[u].doc # d
      BY <1>1, NobodyElseAlone DEF TaskInv
    <3>2. tasks[u].doc \in DOMAIN docs
      BY <1>1 DEF Tables
    <3>. QED  BY <2>4, <2>6, <2>8, <3>1, <3>2 DEF Kept
  <2>11. 0 \notin DOMAIN tasks' /\ chunks' \in SUBSET Chunk
    BY <1>1, <1>2, <2>1, <2>3, <2>8, Indices
  <2>12. \A u \in DOMAIN tasks' \ {0} : Kept(u) \/ Rests(u)
    BY <2>8, <2>9, <2>10
  <2>13. TaskInv'
    BY <2>4, <2>8, <2>11, <2>12, TasksStep
  <2>. QED  BY <2>7, <2>13
<1>. QED  BY <1>3, <1>4

\* The embedding fails.
LEMMA FailStep ==
    ASSUME Know!KnowledgeAssumption, TaskInv, ChunksOK, NEW t \in DOMAIN tasks, Know!Fail(t)
    PROVE  TaskInv' /\ ChunksOK'
<1>. DEFINE d == tasks[t].doc
            at == IF docs[d].at = "deleted" THEN "deleted" ELSE "failed"
<1>1. Tables /\ tasks' = [tasks EXCEPT ![t] = Know!Over(tasks[t])] /\ chunks' = chunks
  BY DEF Know!Fail, TaskInv
<1>2. tasks[t] \in Task /\ d \in DOMAIN docs /\ chunks \in SUBSET Chunk /\ docs \in Seq(Doc) /\ docs[d] \in Doc
  BY <1>1, Indices DEF Tables
<1>3. docs' = [docs EXCEPT ![d].at = at]
  BY <1>2 DEF Know!Fail
<1>4. at \in DocStates /\ at # "ready" /\ (at = "deleted" <=> docs[d].at = "deleted")
  BY DEF DocStates
<1>. HIDE DEF at
<1>5. /\ docs' \in Seq(Doc) /\ DOMAIN docs' = DOMAIN docs /\ docs'[d].at = at
      /\ \A e \in DOMAIN docs : docs'[e].content = docs[e].content
      /\ \A e \in DOMAIN docs \ {d} : docs'[e] = docs[e]
  BY <1>1, <1>2, <1>3, <1>4, StatusWritten
<1>6. ChunksOK'
  BY <1>1, <1>4, <1>5 DEF ChunksOK, Know!Existing, Know!ChunksOf
<1>7. /\ tasks' \in Seq(Task) /\ DOMAIN tasks' = DOMAIN tasks /\ tasks'[t] = Know!Over(tasks[t])
      /\ \A u \in DOMAIN tasks \ {t} : tasks'[u] = tasks[u]
  BY <1>1, <1>2, Values, TaskBecomes
<1>8. Rests(t)
  BY <1>2, <1>5, <1>7, Values DEF Rests
<1>9. ASSUME NEW u \in DOMAIN tasks \ {t}
      PROVE  Kept(u)
  <2>1. tasks[u].doc \in DOMAIN docs
    BY <1>1 DEF Tables
  <2>. QED  BY <1>1, <1>4, <1>5, <1>7, <2>1 DEF Kept, Know!ChunksOf
<1>10. 0 \notin DOMAIN tasks'
  BY <1>1, <1>7, Indices
<1>11. TaskInv'
  <2>1. \A u \in DOMAIN tasks' \ {0} : Kept(u) \/ Rests(u)
    BY <1>7, <1>8, <1>9
  <2>. QED  BY <1>1, <1>2, <1>5, <1>7, <1>10, <2>1, TasksStep
<1>. QED  BY <1>6, <1>11

\* A message is delivered again.
LEMMA RedeliverStep ==
    ASSUME Know!KnowledgeAssumption, TaskInv, ChunksOK, NEW t \in DOMAIN tasks, Know!Redeliver(t)
    PROVE  TaskInv' /\ ChunksOK'
<1>1. Tables /\ UNCHANGED docs /\ UNCHANGED chunks /\ UNCHANGED <<docs, chunks>>
  BY DEF Know!Redeliver, TaskInv
<1>2. CASE tasks' = [tasks EXCEPT ![t] = Know!NewTask(tasks[t].doc)]
  BY <1>1, <1>2, TaskPutDown
<1>3. CASE tasks' = Append(tasks, Know!NewTask(tasks[t].doc))
  <2>. DEFINE x == Know!NewTask(tasks[t].doc)
  <2>1. tasks[t].doc \in DOMAIN docs /\ tasks[t].doc \in Nat
    BY <1>1, Indices DEF Tables
  <2>2. x \in Task /\ x.doc = tasks[t].doc /\ x.at = "sent" /\ x.old = {} /\ ~x.alone
    BY <2>1, Values DEF Know!NewTask
  <2>. HIDE DEF x
  <2>3. /\ tasks' \in Seq(Task) /\ DOMAIN tasks' = DOMAIN tasks \cup {Len(tasks) + 1}
        /\ tasks'[Len(tasks) + 1] = x /\ \A u \in DOMAIN tasks : tasks'[u] = tasks[u]
    BY <1>1, <1>3, <2>2, Indices DEF x, Tables
  <2>4. Rests(Len(tasks) + 1)
    BY <1>1, <2>1, <2>2, <2>3 DEF Rests
  <2>5. \A u \in DOMAIN tasks' \ {0} : Kept(u) \/ Rests(u)
    BY <1>1, <2>3, <2>4, KeptAsItWas
  <2>6. 0 \notin DOMAIN tasks'
    BY <1>1, <2>3, Indices
  <2>7. TaskInv'
    BY <1>1, <2>3, <2>5, <2>6, TasksStep DEF TaskInv, Tables
  <2>. QED  BY <1>1, <2>7, SameChunks
<1>. QED  BY <1>2, <1>3 DEF Know!Redeliver

\* What a save commits: a document that is new or says something else, the tasks
\* that had it in hand not alone any more, and a message or an error.
LEMMA CommitStep ==
    ASSUME Know!KnowledgeAssumption, TaskInv, ChunksOK, NEW ds \in Seq(Doc), NEW d \in DOMAIN ds, d \in Nat,
           DOMAIN docs \subseteq DOMAIN ds, ds[d].at = "processing",
           \A e \in DOMAIN ds \ {d} : e \in DOMAIN docs /\ ds[e] = docs[e],
           Know!Commit(ds, d), UNCHANGED chunks
    PROVE  TaskInv' /\ ChunksOK'
<1>. DEFINE D == Know!Disturbed(tasks, d)
            x == Know!NewTask(d)
<1>1. Tables /\ docs' = ds /\ tasks' \in {D, Append(D, x)}
  BY DEF Know!Commit, TaskInv
<1>2. ChunksOK'
  BY <1>1 DEF ChunksOK, Know!Existing, Know!ChunksOf
<1>3. /\ D \in Seq(Task) /\ Len(D) = Len(tasks)
      /\ \A u \in DOMAIN tasks :
            /\ D[u].doc = tasks[u].doc /\ D[u].at = tasks[u].at /\ D[u].read = tasks[u].read
            /\ D[u].old = tasks[u].old
            /\ D[u].alone => tasks[u].alone /\ tasks[u].doc # d
  BY <1>1, DisturbedTasks
<1>4. x \in Task /\ x.doc = d /\ x.at = "sent" /\ x.old = {} /\ ~x.alone
  BY Values DEF Know!NewTask
<1>. HIDE DEF D, x
<1>5. /\ tasks' \in Seq(Task) /\ DOMAIN tasks \subseteq DOMAIN tasks' /\ 0 \notin DOMAIN tasks'
      /\ \A u \in DOMAIN tasks : tasks'[u] = D[u]
      /\ \A u \in DOMAIN tasks' \ DOMAIN tasks : tasks'[u] = x
  <2>1. Len(D) \in Nat /\ DOMAIN D = DOMAIN tasks /\ DOMAIN tasks = 1 .. Len(D)
    BY <1>1, <1>3, Indices
  <2>2. CASE tasks' = D
    BY <1>3, <2>1, <2>2
  <2>3. CASE tasks' = Append(D, x)
    BY <1>3, <1>4, <2>1, <2>3
  <2>. QED  BY <1>1, <2>2, <2>3
<1>6. \A u \in DOMAIN tasks' \ DOMAIN tasks : Rests(u)
  BY <1>1, <1>4, <1>5 DEF Rests
<1>7. ASSUME NEW u \in DOMAIN tasks
      PROVE  Kept(u)
  <2>1. tasks[u].doc \in DOMAIN docs
    BY <1>1 DEF Tables
  <2>. QED  BY <1>1, <1>3, <1>5, <2>1 DEF Kept, Know!ChunksOf
<1>8. TaskInv'
  <2>1. \A u \in DOMAIN tasks' \ {0} : Kept(u) \/ Rests(u)
    BY <1>6, <1>7
  <2>. QED  BY <1>1, <1>5, <2>1, TasksStep DEF TaskInv, Tables
<1>. QED  BY <1>2, <1>8

\* Serving a request: create_document, upload_document, update_document, delete_document.
LEMMA DocServeStep ==
    ASSUME Know!KnowledgeAssumption, TaskInv, ChunksOK, DocPageOK, Know!Serve
    PROVE  TaskInv' /\ ChunksOK' /\ Len(docs) <= Len(docs')
<1>1. Tables /\ docs \in Seq(Doc) /\ chunks \in SUBSET Chunk
  BY DEF TaskInv, Tables
<1>2. /\ call.at = "sent"
      /\ call.kind \in {"edit", "delete"} => call.doc \in DOMAIN docs
      /\ call.kind \in {"new", "edit", "upload"} => call.text \in Contents
  BY DEF Know!Serve, DocPageOK
<1>3. CASE Know!CreateDocument
  <2>. DEFINE ds == Append(docs, Know!NewDoc(call.text))
              d  == Len(docs) + 1
  <2>1. Know!NewDoc(call.text) \in Doc /\ Know!NewDoc(call.text).at = "processing"
    BY <1>2, <1>3, Values DEF Know!CreateDocument
  <2>2. /\ ds \in Seq(Doc) /\ d \in DOMAIN ds /\ d \in Nat /\ DOMAIN docs \subseteq DOMAIN ds
        /\ ds[d].at = "processing" /\ Len(ds) = Len(docs) + 1
        /\ \A e \in DOMAIN ds \ {d} : e \in DOMAIN docs /\ ds[e] = docs[e]
    BY <1>1, <2>1
  <2>3. Know!Commit(ds, d) /\ UNCHANGED chunks /\ docs' = ds
    BY <1>3 DEF Know!CreateDocument, Know!Commit
  <2>. HIDE DEF ds, d
  <2>. QED  BY <1>1, <2>2, <2>3, CommitStep
<1>4. CASE Know!UpdateDocument
  <2>. DEFINE d  == call.doc
              ds == [docs EXCEPT ![d] = Know!NewDoc(call.text)]
  <2>1. /\ Know!NewDoc(call.text) \in Doc /\ Know!NewDoc(call.text).at = "processing"
        /\ d \in DOMAIN docs /\ d \in Nat
    BY <1>1, <1>2, <1>4, Values DEF Know!UpdateDocument
  <2>2. /\ ds \in Seq(Doc) /\ d \in DOMAIN ds /\ DOMAIN docs \subseteq DOMAIN ds
        /\ ds[d].at = "processing" /\ Len(ds) = Len(docs)
        /\ \A e \in DOMAIN ds \ {d} : e \in DOMAIN docs /\ ds[e] = docs[e]
    BY <1>1, <2>1
  <2>3. CASE Know!Commit(ds, d)
    <3>1. UNCHANGED chunks /\ docs' = ds
      BY <1>4, <2>3 DEF Know!UpdateDocument, Know!Commit
    <3>. HIDE DEF ds, d
    <3>. QED  BY <1>1, <2>1, <2>2, <2>3, <3>1, CommitStep
  <2>4. CASE \E at : Know!Answer(at)
    <3>1. UNCHANGED Know!server
      BY <1>4, <2>4 DEF Know!UpdateDocument, Know!Answer, Know!server
    <3>. QED  BY <1>1, <3>1, SameServer DEF Know!server
  <2>. QED  BY <1>4, <2>3, <2>4 DEF Know!UpdateDocument
<1>5. CASE Know!DeleteDocument
  <2>. DEFINE d == call.doc
  <2>1. d \in DOMAIN docs /\ d \in Nat
    BY <1>1, <1>2, <1>5 DEF Know!DeleteDocument
  <2>2. CASE docs[d].at = "deleted"
    <3>1. UNCHANGED Know!server
      BY <1>5, <2>2 DEF Know!DeleteDocument, Know!Answer, Know!server
    <3>. QED  BY <1>1, <3>1, SameServer DEF Know!server
  <2>3. CASE docs[d].at # "deleted"
    <3>. DEFINE D == Know!Disturbed(tasks, d)
    <3>1. docs' = [docs EXCEPT ![d].at = "deleted"] /\ chunks' = chunks \ Know!ChunksOf(d) /\ tasks' = D
      BY <1>5, <2>3 DEF Know!DeleteDocument
    <3>2. "deleted" \in DocStates
      BY DEF DocStates
    <3>3. /\ docs' \in Seq(Doc) /\ DOMAIN docs' = DOMAIN docs /\ docs'[d].at = "deleted"
          /\ \A e \in DOMAIN docs \ {d} : docs'[e] = docs[e]
      BY <1>1, <2>1, <3>1, <3>2, StatusWritten
    <3>4. ChunksOK'
      <4>1. \A e : e # d => {c \in chunks' : c.doc = e} = Know!ChunksOf(e)
        BY <3>1 DEF Know!ChunksOf
      <4>2. \A c \in chunks' : c \in chunks /\ c.doc # d
        BY <3>1 DEF Know!ChunksOf
      <4>. QED  BY <3>3, <4>1, <4>2 DEF ChunksOK, Know!Existing, Know!ChunksOf
    <3>5. /\ D \in Seq(Task) /\ Len(D) = Len(tasks)
          /\ \A u \in DOMAIN tasks :
                /\ D[u].doc = tasks[u].doc /\ D[u].at = tasks[u].at /\ D[u].read = tasks[u].read
                /\ D[u].old = tasks[u].old
                /\ D[u].alone => tasks[u].alone /\ tasks[u].doc # d
      BY <1>1, DisturbedTasks
    <3>. HIDE DEF D
    <3>6. tasks' \in Seq(Task) /\ DOMAIN tasks' = DOMAIN tasks /\ 0 \notin DOMAIN tasks'
      BY <1>1, <3>1, <3>5, Indices
    <3>7. ASSUME NEW u \in DOMAIN tasks
          PROVE  Kept(u)
      <4>1. tasks[u].doc \in DOMAIN docs
        BY <1>1 DEF Tables
      <4>. QED  BY <3>1, <3>3, <3>5, <4>1 DEF Kept, Know!ChunksOf
    <3>8. TaskInv'
      <4>1. \A u \in DOMAIN tasks' \ {0} : Kept(u) \/ Rests(u)
        BY <3>6, <3>7
      <4>. QED  BY <1>1, <3>1, <3>3, <3>6, <4>1, TasksStep
    <3>. QED  BY <1>1, <3>3, <3>4, <3>8
  <2>. QED  BY <2>2, <2>3
<1>. QED  BY <1>3, <1>4, <1>5 DEF Know!Serve

-----------------------------------------------------------------------------
\* The page

\* The documents only grow in number.
LEMMA PageKept ==
    ASSUME DocPageOK, docs \in Seq(Doc), docs' \in Seq(Doc), Len(docs) <= Len(docs'),
           UNCHANGED <<list, modal, call>>
    PROVE  DocPageOK'
<1>1. DOMAIN docs \subseteq DOMAIN docs' /\ list' = list /\ modal' = modal /\ call' = call
  OBVIOUS
<1>2. list.docs \in Seq(DocStates) => Len(list.docs) \in Nat
  OBVIOUS
<1>. QED  BY <1>1, <1>2 DEF DocPageOK

DocDialogs == [at : {"none", "new", "edit", "delete", "retrieve"}, doc : Nat, text : Texts,
               loading : BOOLEAN, pending : BOOLEAN]

\* What a dialog may become.
DocDialogOK(m) == /\ m \in DocDialogs
                  /\ m.at \in {"edit", "delete"} => m.doc \in DOMAIN docs
                  /\ m.loading => m.at = "edit"

LEMMA DialogStep ==
    ASSUME DocPageOK, UNCHANGED <<docs, list, call>>, DocDialogOK(modal')
    PROVE  DocPageOK'
BY DEF DocPageOK, DocDialogOK, DocDialogs

LEMMA DialogsOpen ==
    ASSUME Know!KnowledgeAssumption
    PROVE  /\ DocDialogOK(Know!Closed)
           /\ DocDialogOK([Know!Closed EXCEPT !.at = "new"]) /\ DocDialogOK([Know!Closed EXCEPT !.at = "retrieve"])
           /\ \A d \in DOMAIN docs : d \in Nat =>
                 /\ DocDialogOK([Know!Closed EXCEPT !.at = "edit", !.doc = d, !.loading = TRUE])
                 /\ DocDialogOK([Know!Closed EXCEPT !.at = "delete", !.doc = d])
BY Values DEF DocDialogOK, DocDialogs, Know!Closed

\* Dialogs, and what they send.
LEMMA EditingStep ==
    ASSUME Know!KnowledgeAssumption, Tables, DocPageOK, Know!Editing
    PROVE  DocPageOK' /\ UNCHANGED Know!server
<1>1. UNCHANGED Know!server /\ UNCHANGED list /\ UNCHANGED docs
  BY DEF Know!Editing, Know!Add, Know!DetailArrives, Know!Close, Know!OnSubmit, Know!OnDelete,
         Know!Retrieve, Know!Run, Know!Hits, Know!Type, Know!OnUpload, Know!Edit, Know!AskDelete,
         Know!Show, Know!Send, Know!server
<1>. SUFFICES DocPageOK'
  BY <1>1
<1>2. DocDialogOK(modal) /\ modal \in DocDialogs
  BY DEF DocPageOK, DocDialogOK, DocDialogs
<1>3. \A d \in DOMAIN list.docs : d \in DOMAIN docs /\ d \in Nat
  BY DEF DocPageOK, Tables
<1>4. ASSUME NEW m, Know!Show(m), DocDialogOK(m)
      PROVE  DocPageOK'
  BY <1>1, <1>4, DialogStep DEF Know!Show
<1>5. CASE Know!Add \/ Know!Close \/ Know!Retrieve \/ \E d \in DOMAIN list.docs : Know!Edit(d) \/ Know!AskDelete(d)
  BY <1>3, <1>4, <1>5, DialogsOpen DEF Know!Add, Know!Close, Know!Retrieve, Know!Edit, Know!AskDelete
<1>6. CASE Know!DetailArrives
  <2>1. modal.loading /\ modal.at = "edit" /\ modal.doc \in DOMAIN docs
    BY <1>2, <1>6 DEF Know!DetailArrives, DocDialogOK
  <2>2. PICK said \in Texts : Know!Show([modal EXCEPT !.loading = FALSE, !.text = said])
    <3>1. docs[modal.doc].content \in Texts /\ NoContent \in Texts
      BY <2>1, Indices, Values DEF Doc
    <3>. QED  BY <1>6, <3>1 DEF Know!DetailArrives
  <2>3. DocDialogOK([modal EXCEPT !.loading = FALSE, !.text = said])
    BY <1>2 DEF DocDialogOK, DocDialogs
  <2>. QED  BY <1>4, <2>2, <2>3
<1>7. CASE \E c \in Contents : Know!Type(c)
  <2>1. PICK c \in Contents : Know!Show([modal EXCEPT !.text = c])
    BY <1>7 DEF Know!Type
  <2>2. DocDialogOK([modal EXCEPT !.text = c])
    BY <1>2, Values DEF DocDialogOK, DocDialogs
  <2>. QED  BY <1>4, <2>1, <2>2
<1>8. CASE Know!Run
  <2>1. DocDialogOK([modal EXCEPT !.pending = TRUE, !.text = NoContent])
    BY <1>2, Values DEF DocDialogOK, DocDialogs
  <2>. QED  BY <1>4, <1>8, <2>1 DEF Know!Run
<1>9. CASE Know!Hits
  <2>1. PICK hit \in {c.content : c \in chunks} \cup {NoContent} :
            Know!Show([modal EXCEPT !.pending = FALSE, !.text = hit])
    BY <1>9 DEF Know!Hits
  <2>2. hit \in Texts
    BY Values DEF Tables, Chunk, Texts
  <2>3. DocDialogOK([modal EXCEPT !.pending = FALSE, !.text = hit])
    BY <1>2, <2>2 DEF DocDialogOK, DocDialogs
  <2>. QED  BY <1>4, <2>1, <2>3
<1>10. ASSUME NEW c, NEW m, Know!Send(c, m), DocDialogOK(m),
              c \in [at : {"idle"}, kind : Kinds, doc : Nat, text : Texts],
              c.kind \in {"edit", "delete"} => c.doc \in DOMAIN docs,
              c.kind \in {"new", "edit", "upload"} => c.text \in Contents
       PROVE  DocPageOK'
  <2>1. modal' = m /\ call' = [c EXCEPT !.at = "sent"]
    BY <1>10 DEF Know!Send
  <2>2. /\ call' \in [at : {"sent"}, kind : Kinds, doc : Nat, text : Texts]
        /\ call'.kind = c.kind /\ call'.doc = c.doc /\ call'.text = c.text
    BY <1>10, <2>1
  <2>. QED  BY <1>1, <1>10, <2>1, <2>2 DEF DocPageOK, DocDialogOK, DocDialogs
<1>11. CASE Know!OnSubmit
  <2>. DEFINE c == [Know!Idle EXCEPT !.kind = modal.at, !.doc = modal.doc, !.text = modal.text]
              m == [modal EXCEPT !.pending = TRUE]
  <2>1. modal.at \in {"new", "edit"} /\ modal.text # NoContent /\ Know!Send(c, m)
    BY <1>11 DEF Know!OnSubmit
  <2>2. DocDialogOK(m)
    BY <1>2 DEF DocDialogOK, DocDialogs
  <2>3. /\ c \in [at : {"idle"}, kind : Kinds, doc : Nat, text : Texts]
        /\ c.kind = modal.at /\ c.doc = modal.doc /\ c.text \in Contents
    BY <1>2, <2>1 DEF DocDialogs, Know!Idle, Kinds, Texts
  <2>. HIDE DEF c, m
  <2>. QED  BY <1>2, <1>10, <2>1, <2>2, <2>3 DEF DocDialogOK
<1>12. CASE Know!OnDelete
  <2>. DEFINE c == [Know!Idle EXCEPT !.kind = "delete", !.doc = modal.doc]
              m == [modal EXCEPT !.pending = TRUE]
  <2>1. modal.at = "delete" /\ Know!Send(c, m)
    BY <1>12 DEF Know!OnDelete
  <2>2. DocDialogOK(m)
    BY <1>2 DEF DocDialogOK, DocDialogs
  <2>3. c \in [at : {"idle"}, kind : Kinds, doc : Nat, text : Texts] /\ c.kind = "delete" /\ c.doc = modal.doc
    BY <1>2, Values DEF DocDialogs, Know!Idle, Kinds
  <2>. HIDE DEF c, m
  <2>. QED  BY <1>2, <1>10, <2>1, <2>2, <2>3 DEF DocDialogOK
<1>13. CASE \E t \in Contents : Know!OnUpload(t)
  <2>1. PICK t \in Contents : Know!Send([Know!Idle EXCEPT !.kind = "upload", !.text = t], modal)
    BY <1>13 DEF Know!OnUpload
  <2>. DEFINE c == [Know!Idle EXCEPT !.kind = "upload", !.text = t]
  <2>2. c \in [at : {"idle"}, kind : Kinds, doc : Nat, text : Texts] /\ c.kind = "upload" /\ c.text = t
    BY Values DEF Know!Idle, Kinds
  <2>. HIDE DEF c
  <2>. QED  BY <1>2, <1>10, <2>1, <2>2 DEF c
<1>. QED  BY <1>1, <1>5, <1>6, <1>7, <1>8, <1>9, <1>11, <1>12, <1>13 DEF Know!Editing

\* The list is loaded, the request is answered.
LEMMA PageStep ==
    ASSUME Know!KnowledgeAssumption, Tables, DocPageOK,
           Know!Poll \/ Know!ListArrives \/ Know!LoseList \/ Know!LoseAnswer \/ Know!Answered
    PROVE  DocPageOK' /\ UNCHANGED Know!server
<1>1. UNCHANGED Know!server /\ UNCHANGED docs
  BY DEF Know!Poll, Know!ListArrives, Know!LoseList, Know!LoseAnswer, Know!Answered, Know!server
<1>. SUFFICES DocPageOK'
  BY <1>1
<1>2. CASE Know!Poll
  BY <1>1, <1>2 DEF Know!Poll, DocPageOK
<1>3. CASE Know!ListArrives
  <2>1. list'.known \in BOOLEAN /\ list'.docs = Know!Listed /\ modal' = modal /\ call' = call
    BY <1>3 DEF Know!ListArrives
  <2>2. Know!Listed \in Seq(DocStates) /\ Len(Know!Listed) = Len(docs)
    <3>1. DOMAIN docs = 1 .. Len(docs) /\ Len(docs) \in Nat /\ \A d \in DOMAIN docs : docs[d].at \in DocStates
      BY Indices DEF Doc
    <3>2. Know!Listed = [d \in 1 .. Len(docs) |-> docs[d].at]
      BY <3>1 DEF Know!Listed
    <3>3. Know!Listed \in [1 .. Len(docs) -> DocStates]
      BY <3>1, <3>2
    <3>. QED  BY <3>1, <3>3
  <2>. QED  BY <1>1, <2>1, <2>2, Indices DEF DocPageOK
<1>4. CASE Know!LoseList
  <2>1. list' = [list EXCEPT !.error = TRUE] /\ modal' = modal /\ call' = call
    BY <1>4 DEF Know!LoseList
  <2>2. list'.known = list.known /\ list'.docs = list.docs
    BY <2>1
  <2>. QED  BY <1>1, <2>1, <2>2 DEF DocPageOK
<1>5. CASE Know!LoseAnswer
  <2>1. call' = [call EXCEPT !.at = "error"] /\ list' = list /\ modal' = modal
    BY <1>5 DEF Know!LoseAnswer
  <2>. QED  BY <1>1, <2>1 DEF DocPageOK
<1>6. CASE Know!Answered
  <2>1. call' = Know!Idle /\ list' = list
    BY <1>6 DEF Know!Answered
  <2>2. modal' \in {modal, Know!Closed, [modal EXCEPT !.pending = FALSE]}
    BY <1>6 DEF Know!Answered
  <2>3. DocDialogOK(modal')
    <3>1. DocDialogOK(modal) /\ DocDialogOK([modal EXCEPT !.pending = FALSE])
      BY DEF DocPageOK, DocDialogOK, DocDialogs
    <3>. QED  BY <2>2, <3>1, DialogsOpen
  <2>. QED  BY <1>1, <2>1, <2>3, Values DEF DocPageOK, DocDialogOK, DocDialogs, Know!Idle
<1>. QED  BY <1>2, <1>3, <1>4, <1>5, <1>6

\* What the API does to the request it serves.
LEMMA ServedPage ==
    ASSUME DocPageOK, Know!Serve, docs \in Seq(Doc), docs' \in Seq(Doc), Len(docs) <= Len(docs')
    PROVE  DocPageOK'
<1>1. PICK at \in {"ok", "error"} : call' = [call EXCEPT !.at = at]
  BY DEF Know!Serve, Know!CreateDocument, Know!UpdateDocument, Know!DeleteDocument, Know!Commit, Know!Answer
<1>2. UNCHANGED list /\ UNCHANGED modal
  BY DEF Know!Serve
<1>3. DOMAIN docs \subseteq DOMAIN docs'
  OBVIOUS
<1>4. list.docs \in Seq(DocStates) => Len(list.docs) \in Nat
  OBVIOUS
<1>. QED  BY <1>1, <1>2, <1>3, <1>4 DEF DocPageOK

-----------------------------------------------------------------------------
\* The invariant holds

LEMMA KnowledgeStart ==
    ASSUME Know!KnowledgeAssumption
    PROVE  Know!Init => KnowledgeInv
<1>. SUFFICES ASSUME Know!Init
              PROVE  KnowledgeInv
  OBVIOUS
<1>1. \/ docs = <<>> /\ chunks = {}
      \/ \E c \in Contents : /\ docs = <<[at |-> "ready", content |-> c]>>
                             /\ chunks = {[doc |-> 1, by |-> 0, content |-> c]}
  BY DEF Know!Init
<1>2. docs \in Seq(Doc) /\ chunks \in SUBSET Chunk
  <2>1. CASE docs = <<>> /\ chunks = {}
    BY <2>1
  <2>2. ASSUME NEW c \in Contents, docs = <<[at |-> "ready", content |-> c]>>,
               chunks = {[doc |-> 1, by |-> 0, content |-> c]}
        PROVE  docs \in Seq(Doc) /\ chunks \in SUBSET Chunk
    <3>1. [at |-> "ready", content |-> c] \in Doc /\ [doc |-> 1, by |-> 0, content |-> c] \in Chunk
      BY DEF Doc, DocStates, Chunk
    <3>. HIDE DEF Doc, Chunk
    <3>. QED  BY <2>2, <3>1
  <2>. QED  BY <1>1, <2>1, <2>2
<1>3. tasks \in Seq(Task) /\ DOMAIN tasks = {}
  BY DEF Know!Init
<1>4. ChunksOK
  <2>1. CASE docs = <<>> /\ chunks = {}
    BY <2>1 DEF ChunksOK
  <2>2. ASSUME NEW c \in Contents, docs = <<[at |-> "ready", content |-> c]>>,
               chunks = {[doc |-> 1, by |-> 0, content |-> c]}
        PROVE  ChunksOK
    <3>1. DOMAIN docs = {1} /\ docs[1].at = "ready"
      BY <2>2
    <3>2. 1 \in Know!Existing
      BY <3>1 DEF Know!Existing
    <3>. DEFINE first == [doc |-> 1, by |-> 0, content |-> c]
    <3>3. first \in Know!ChunksOf(1) /\ \A k \in chunks : k.doc = 1
      <4>1. first.doc = 1
        OBVIOUS
      <4>. HIDE DEF first
      <4>2. chunks = {first}
        BY <2>2 DEF first
      <4>. QED  BY <4>1, <4>2 DEF Know!ChunksOf
    <3>. HIDE DEF first
    <3>. QED  BY <3>1, <3>2, <3>3 DEF ChunksOK
  <2>. QED  BY <1>1, <2>1, <2>2
<1>5. Tables /\ ReadsOK /\ LocksOK /\ AloneOK
  BY <1>2, <1>3 DEF Tables, ReadsOK, LocksOK, AloneOK
<1>6. DocPageOK
  <2>1. list.known = FALSE /\ list.docs = <<>> /\ modal = Know!Closed
    BY DEF Know!Init
  <2>2. DocDialogOK(Know!Closed)
    BY DialogsOpen
  <2>3. list.docs \in Seq(DocStates) /\ Len(list.docs) <= Len(docs)
    BY <1>2, <2>1
  <2>4. call.at = "idle" /\ call.kind = "none" /\ call.doc = 0 /\ call.text = NoContent
        /\ call \in [at : {"idle"}, kind : {"none"}, doc : Nat, text : Texts]
    BY Values DEF Know!Init, Know!Idle
  <2>. QED  BY <2>1, <2>2, <2>3, <2>4 DEF DocPageOK, DocDialogOK, DocDialogs
<1>. QED  BY <1>4, <1>5, <1>6 DEF KnowledgeInv

LEMMA KnowledgeStep ==
    ASSUME Know!KnowledgeAssumption, KnowledgeInv, [Know!Next]_Know!vars
    PROVE  KnowledgeInv'
<1>1. TaskInv /\ ChunksOK /\ DocPageOK /\ Tables /\ docs \in Seq(Doc) /\ Len(docs) \in Nat
  BY DEF KnowledgeInv, TaskInv, Tables
<1>2. ASSUME NEW t \in DOMAIN tasks, Know!Ingest(t)
      PROVE  KnowledgeInv'
  <2>1. TaskInv' /\ ChunksOK'
    BY <1>1, <1>2, StartStep, DeleteStep, FinishStep, FailStep, RedeliverStep DEF Know!Ingest
  <2>2. UNCHANGED list /\ UNCHANGED modal /\ UNCHANGED call
    BY <1>2 DEF Know!Ingest, Know!Start, Know!Delete, Know!Unlock, Know!Finish, Know!Fail,
                Know!Redeliver, Know!page
  <2>3. Len(docs') = Len(docs)
    BY <1>1, <1>2 DEF Know!Ingest, Know!Start, Know!Delete, Know!Unlock, Know!Finish, Know!Fail, Know!Redeliver
  <2>4. DocPageOK'
    BY <1>1, <2>1, <2>2, <2>3, PageKept DEF TaskInv, Tables
  <2>. QED  BY <2>1, <2>4 DEF KnowledgeInv, TaskInv
<1>3. CASE Know!Serve
  <2>1. TaskInv' /\ ChunksOK' /\ Len(docs) <= Len(docs')
    BY <1>1, <1>3, DocServeStep
  <2>2. DocPageOK'
    BY <1>1, <1>3, <2>1, ServedPage DEF TaskInv, Tables
  <2>. QED  BY <2>1, <2>2 DEF KnowledgeInv, TaskInv
<1>4. CASE Know!Editing \/ Know!Poll \/ Know!ListArrives \/ Know!LoseList \/ Know!LoseAnswer \/ Know!Answered
  <2>1. DocPageOK' /\ UNCHANGED Know!server
    BY <1>1, <1>4, EditingStep, PageStep
  <2>. QED  BY <1>1, <2>1, SameServer DEF KnowledgeInv, TaskInv
<1>5. CASE UNCHANGED Know!vars
  <2>1. UNCHANGED Know!server /\ UNCHANGED list /\ UNCHANGED modal /\ UNCHANGED call /\ UNCHANGED docs
    BY <1>5 DEF Know!vars, Know!page, Know!server
  <2>2. DocPageOK'
    BY <1>1, <2>1 DEF DocPageOK
  <2>. QED  BY <1>1, <2>1, <2>2, SameServer DEF KnowledgeInv, TaskInv
<1>. QED  BY <1>2, <1>3, <1>4, <1>5 DEF Know!Next

\* The documents, chunks, locks and dialogs are consistent in every state, and a
\* task that is alone with its document has read what it says.
THEOREM KnowledgeInvariant ==
    ASSUME Know!KnowledgeAssumption
    PROVE  Know!Spec => []KnowledgeInv
BY KnowledgeStart, KnowledgeStep, PTL DEF Know!Spec

\* Every variable keeps its type: a task is about a document, and holds what the
\* form may hold or a content.
THEOREM KnowledgeTyped ==
    ASSUME Know!KnowledgeAssumption
    PROVE  Know!Spec => []Know!TypeOK
<1>1. KnowledgeInv => Know!TypeOK
  <2>. SUFFICES ASSUME KnowledgeInv
                PROVE  Know!TypeOK
    OBVIOUS
  <2>1. \A d \in DOMAIN docs : docs[d].at \in DocStates
    BY Indices DEF KnowledgeInv, Doc
  <2>2. \A c \in chunks : c.doc \in DOMAIN docs /\ c.content \in Contents
    BY DEF KnowledgeInv, Tables, Chunk, ChunksOK, Know!Existing
  <2>3. \A t \in DOMAIN tasks : tasks[t] \in Task
    BY Indices DEF KnowledgeInv, Tables
  <2>. QED  BY <2>1, <2>2, <2>3 DEF KnowledgeInv, Tables, Task, Texts, DocPageOK, Know!TypeOK, DocStates
<1>. QED  BY <1>1, KnowledgeInvariant, PTL

\* A chunk belongs to a document that exists, a document that is ready can be found
\* by its chunks, and two tasks never delete the same ones, however many tasks a
\* document has (ingest_document).
THEOREM ReadyCanBeFound ==
    ASSUME Know!KnowledgeAssumption
    PROVE  Know!Spec => []ReadyIsSearchable
<1>1. KnowledgeInv => ReadyIsSearchable
  <2>. SUFFICES ASSUME KnowledgeInv
                PROVE  ReadyIsSearchable
    OBVIOUS
  <2>1. /\ \A c \in chunks : c.doc \in Existing
        /\ \A d \in DOMAIN docs : docs[d].at = "ready" => ChunksOf(d) # {}
    BY DEF KnowledgeInv, ChunksOK, Know!Existing, Know!ChunksOf, Existing, ChunksOf
  <2>2. \A t \in DOMAIN tasks : tasks[t].at = "embedding" => LockedBy(t, tasks[t].old) = {}
    BY DEF KnowledgeInv, LocksOK, LockedBy
  <2>. QED  BY <2>1, <2>2 DEF ReadyIsSearchable
<1>. QED  BY <1>1, KnowledgeInvariant, PTL

\* Only its own commit, or its failure, ends a task at work.
LEMMA WhoEnds ==
    ASSUME TaskInv, [Know!Next]_Know!vars, NEW t \in DOMAIN tasks, Know!InHand(t), tasks'[t].at = "over"
    PROVE  Know!Finish(t) \/ Know!Fail(t)
<1>1. Tables /\ tasks \in Seq(Task) /\ tasks' # tasks
  BY DEF TaskInv, Tables, Know!InHand
<1>2. ASSUME NEW d, \/ tasks' = Know!Disturbed(tasks, d)
                    \/ \E x : tasks' = Append(Know!Disturbed(tasks, d), x)
      PROVE  FALSE
  <2>. DEFINE D == Know!Disturbed(tasks, d)
  <2>1. /\ D \in Seq(Task) /\ Len(D) = Len(tasks) /\ D[t].at = tasks[t].at
    BY <1>1, DisturbedTasks
  <2>. HIDE DEF D
  <2>2. tasks'[t] = D[t]
    BY <1>1, <1>2, <2>1 DEF D
  <2>. QED  BY <2>1, <2>2 DEF Know!InHand
<1>3. ASSUME NEW u \in DOMAIN tasks, Know!Start(u)
      PROVE  FALSE
  <2>1. u # t
    BY <1>3 DEF Know!Start, Know!InHand
  <2>2. CASE tasks' = [tasks EXCEPT ![u] = Know!Over(@)]
    BY <1>1, <2>1, <2>2 DEF Know!InHand
  <2>3. ASSUME NEW x, tasks' = [Know!Disturbed(tasks, tasks[u].doc) EXCEPT ![u] = x]
        PROVE  FALSE
    <3>. DEFINE D == Know!Disturbed(tasks, tasks[u].doc)
    <3>1. /\ D \in Seq(Task) /\ Len(D) = Len(tasks) /\ D[t].at = tasks[t].at
      BY <1>1, DisturbedTasks
    <3>. HIDE DEF D
    <3>2. tasks'[t] = D[t]
      BY <1>1, <2>1, <2>3, <3>1 DEF D
    <3>. QED  BY <3>1, <3>2 DEF Know!InHand
  <2>. QED  BY <1>3, <2>2, <2>3 DEF Know!Start
<1>4. ASSUME NEW u \in DOMAIN tasks, Know!Ingest(u)
      PROVE  Know!Finish(t) \/ Know!Fail(t)
  <2>1. CASE Know!Delete(u) \/ Know!Unlock(u)
    <3>0. PICK at \in {"embedding", "waiting"} : \E old : tasks' = [tasks EXCEPT ![u].at = at, ![u].old = old]
      BY <2>1 DEF Know!Delete, Know!Unlock
    <3>1. PICK old : tasks' = [tasks EXCEPT ![u].at = at, ![u].old = old]
      BY <3>0
    <3>2. tasks[t] \in Task /\ tasks[u] \in Task
      BY <1>1
    <3>. QED  BY <1>1, <3>1, <3>2 DEF Know!InHand, Task
  <2>2. CASE Know!Finish(u) \/ Know!Fail(u)
    <3>1. tasks' = [tasks EXCEPT ![u] = Know!Over(@)]
      BY <2>2 DEF Know!Finish, Know!Fail
    <3>2. u = t
      BY <1>1, <3>1 DEF Know!InHand
    <3>. QED  BY <2>2, <3>2
  <2>3. CASE Know!Redeliver(u)
    <3>1. CASE tasks' = [tasks EXCEPT ![u] = Know!NewTask(tasks[u].doc)]
      BY <1>1, <3>1 DEF Know!InHand, Know!NewTask
    <3>2. CASE tasks' = Append(tasks, Know!NewTask(tasks[u].doc))
      BY <1>1, <3>2 DEF Know!InHand
    <3>. QED  BY <2>3, <3>1, <3>2 DEF Know!Redeliver
  <2>. QED  BY <1>3, <1>4, <2>1, <2>2, <2>3 DEF Know!Ingest
<1>5. CASE Know!Serve
  BY <1>1, <1>2, <1>5 DEF Know!Serve, Know!CreateDocument, Know!UpdateDocument, Know!DeleteDocument,
                          Know!Commit, Know!Answer
<1>6. ~(\/ Know!Editing \/ Know!Poll \/ Know!ListArrives \/ Know!LoseList \/ Know!LoseAnswer
        \/ Know!Answered \/ UNCHANGED Know!vars)
  BY <1>1 DEF Know!Editing, Know!Add, Know!DetailArrives, Know!Close, Know!OnSubmit, Know!OnDelete,
              Know!Retrieve, Know!Run, Know!Hits, Know!Type, Know!OnUpload, Know!Edit, Know!AskDelete,
              Know!Show, Know!Send, Know!Poll, Know!ListArrives, Know!LoseList, Know!LoseAnswer,
              Know!Answered, Know!vars, Know!server
<1>. QED  BY <1>4, <1>5, <1>6 DEF Know!Next

\* A task that nobody disturbs leaves one chunk of its document, with what the
\* document says by then: "re-chunk from scratch so re-ingest is idempotent".
THEOREM UndisturbedRebuilds ==
    ASSUME Know!KnowledgeAssumption
    PROVE  Know!Spec => IngestRebuilds
<1>1. ASSUME KnowledgeInv, [Know!Next]_Know!vars, NEW t \in DOMAIN tasks,
             tasks[t].alone, tasks'[t].at = "over", docs'[tasks[t].doc].at = "ready"
      PROVE  /\ Cardinality({c \in chunks' : c.doc = tasks[t].doc}) = 1
             /\ \A c \in {k \in chunks' : k.doc = tasks[t].doc} : c.content = docs'[tasks[t].doc].content
  <2>. DEFINE d == tasks[t].doc
              now == {c \in chunks' : c.doc = d}
              new == [doc |-> d, by |-> t, content |-> tasks[t].read]
  <2>1. /\ Know!InHand(t) /\ TaskInv
        /\ docs[d].at # "deleted" => tasks[t].read = docs[d].content
        /\ tasks[t].at = "embedding" => tasks[t].old = Know!ChunksOf(d)
    BY <1>1 DEF KnowledgeInv, TaskInv, AloneOK, Know!InHand
  <2>2. Tables /\ docs \in Seq(Doc) /\ d \in DOMAIN docs /\ docs[d] \in Doc
    BY <2>1, Indices DEF TaskInv, Tables
  <2>3. Know!Finish(t)
    <3>1. CASE Know!Fail(t)
      BY <1>1, <2>2, <3>1 DEF Know!Fail
    <3>. QED  BY <1>1, <2>1, <3>1, WhoEnds
  <2>4. ~Know!Gone(d)
    BY <1>1, <2>3 DEF Know!Finish, Know!Gone
  <2>5. chunks' = (chunks \ Know!ChunksOf(d)) \cup {new}
    BY <2>1, <2>3, <2>4 DEF Know!Finish
  <2>6. now = {new}
    BY <2>5 DEF Know!ChunksOf
  <2>7. docs' = docs \/ docs' = [docs EXCEPT ![d].at = "ready"]
    BY <2>3, <2>4 DEF Know!Finish
  <2>8. docs'[d].content = docs[d].content
    BY <2>2, <2>7 DEF Doc
  <2>9. new.content = docs'[d].content
    BY <2>1, <2>4, <2>8 DEF Know!Gone
  <2>10. Cardinality(now) = 1
    BY <2>6, FS_Singleton
  <2>. QED  BY <2>6, <2>9, <2>10
<1>2. KnowledgeInv /\ [Know!Next]_Know!vars => \A t \in DOMAIN tasks : tasks[t].alone /\ tasks'[t].at = "over" =>
          LET d == tasks[t].doc
              now == {c \in chunks' : c.doc = d}
          IN  docs'[d].at = "ready" =>
                  Cardinality(now) = 1 /\ \A c \in now : c.content = docs'[d].content
  BY <1>1
<1>. QED  BY <1>2, KnowledgeInvariant, PTL DEF Know!Spec, IngestRebuilds

-----------------------------------------------------------------------------
(***************************************************************************)
(* The page of a recording                                                 *)
(***************************************************************************)

-----------------------------------------------------------------------------
\* The invariant

RunStates == {"running", "completed", "failed"}
Reviews   == {"unreviewed", "approved", "overridden"}
Run == [of : Nat, status : RunStates, answer : SUBSET Judgements, over : SUBSET Criteria, review : Reviews]

\* A run has results, and decisions on them, only when it has completed, and then
\* it has one answer.
Sound(run) == /\ run.status = "completed" => \E a \in Judgements : run.answer = {a}
              /\ run.status # "completed" => run.answer = {} /\ run.over = {} /\ run.review = "unreviewed"
SoundRuns == {run \in Run : Sound(run)}

\* The task that runs works on the latest run.
RunsOK == /\ runs \in Seq(SoundRuns)
          /\ worker \in {"idle", "running", "completed", "failed"}
          /\ worker = "running" => runs # <<>> /\ runs[Len(runs)].status = "running"

\* A transcript costs a reprocess, but for the first.
ToCome == (IF status \in {"uploaded", "converting", "transcribing"} THEN 1 ELSE 0)
          + (IF call.at = "sent" /\ call.kind = "reprocess" THEN 1 ELSE 0)
TextsOK == /\ status \in Rec!Statuses /\ text \in Nat
           /\ requests \in Nat /\ requests <= MaxRequests
           /\ text + ToCome <= requests + 1

ShownRuns == [at : {"loading", "shown", "error"}, runs : Seq(SoundRuns)]
RunDialogs   == [key : Criteria \cup {{}}, run : Nat]
PageTypes ==
    page \in [rec : Rec!Statuses \cup {"loading"}, text : Int, evals : ShownRuns,
                 selected : Nat, dialog : RunDialogs, pending : Rec!Calls \cup {"none"}]
LoadStates == {Rec!Sent} \cup [at : {"answer"}, rec : Rec!Statuses]
\* What is shown was read from what there is, and a dialog is about a criterion.
RunPageOK == /\ PageTypes
             /\ page.text \in {Rec!Loading, Rec!Failed} \cup 0 .. text
             /\ Len(Rec!Shown) <= Len(runs)
             /\ page.dialog # Rec!Closed => page.dialog.key \in Criteria
             /\ load \in Seq(LoadStates) /\ Len(load) <= MaxLoads
             /\ asked \subseteq {"text", "evals"}

\* The request is about a run there is, and its answer brings a run back.
Request(at, kind, run, what) == [at |-> at, kind |-> kind, run |-> run, what |-> what]
Asks(kind, run, what) == CASE kind = "reprocess" -> run = 0 /\ what \in {"convert", "stt"}
                           [] kind = "rerun"     -> run = 0
                           [] kind = "review"    -> run \in DOMAIN runs /\ what \in {"approved", "overridden"}
                           [] OTHER              -> run \in DOMAIN runs /\ what \in Criteria
RunCallOK == \/ call = Rec!Idle
             \/ \E at \in {"sent", "ok", "error"}, kind \in Rec!Calls, run \in Nat : \E what :
                   /\ call = Request(at, kind, run, what)
                   /\ at = "sent" => Asks(kind, run, what)
                   /\ at = "ok" /\ kind \in {"review", "override"} => what \in SoundRuns

RecordingInv == RunsOK /\ TextsOK /\ RunPageOK /\ RunCallOK

-----------------------------------------------------------------------------
\* Runs

LEMMA RunTypes ==
    /\ SoundRuns \subseteq Run
    /\ text \in Nat => Rec!NewRun \in SoundRuns /\ Rec!NewRun.status = "running"
    /\ \A run \in SoundRuns : \A a \in Judgements :
          run.status = "running" => Rec!Complete(run, a) \in SoundRuns
    /\ \A run \in SoundRuns :
          run.status = "running" => [run EXCEPT !.status = "failed"] \in SoundRuns
    /\ \A run \in SoundRuns : \A to \in Reviews :
          run.status = "completed" => [run EXCEPT !.review = to] \in SoundRuns
    /\ \A run \in SoundRuns : \A k \in Criteria :
          run.answer # {} => /\ run.status = "completed"
                             /\ [run EXCEPT !.over = @ \cup {k}, !.review = "overridden"] \in SoundRuns
<1>1. SoundRuns \subseteq Run
  BY DEF SoundRuns
<1>2. text \in Nat => Rec!NewRun \in SoundRuns /\ Rec!NewRun.status = "running"
  BY DEF Rec!NewRun, SoundRuns, Run, RunStates, Reviews, Sound
<1>3. ASSUME NEW run \in SoundRuns, NEW a \in Judgements, run.status = "running"
      PROVE  Rec!Complete(run, a) \in SoundRuns
  <2>. DEFINE x == Rec!Complete(run, a)
  <2>1. /\ x \in Run /\ x.status = "completed" /\ x.answer = {a}
    BY <1>3 DEF Rec!Complete, SoundRuns, Run, RunStates
  <2>. QED  BY <2>1 DEF SoundRuns, Sound
<1>4. ASSUME NEW run \in SoundRuns, run.status = "running"
      PROVE  [run EXCEPT !.status = "failed"] \in SoundRuns
  BY <1>4 DEF SoundRuns, Run, RunStates, Sound
<1>5. ASSUME NEW run \in SoundRuns, NEW to \in Reviews, run.status = "completed"
      PROVE  [run EXCEPT !.review = to] \in SoundRuns
  BY <1>5 DEF SoundRuns, Run, Sound
<1>6. ASSUME NEW run \in SoundRuns, NEW k \in Criteria, run.answer # {}
      PROVE  /\ run.status = "completed"
             /\ [run EXCEPT !.over = @ \cup {k}, !.review = "overridden"] \in SoundRuns
  <2>1. run.status = "completed"
    BY <1>6 DEF SoundRuns, Sound
  <2>2. run.over \cup {k} \in SUBSET Criteria /\ "overridden" \in Reviews
    BY DEF SoundRuns, Run, Reviews
  <2>. QED  BY <2>1, <2>2 DEF SoundRuns, Run, Sound
<1>. QED  BY <1>1, <1>2, <1>3, <1>4, <1>5, <1>6

LEMMA RunIndices ==
    ASSUME runs \in Seq(SoundRuns)
    PROVE  /\ DOMAIN runs = 1 .. Len(runs) /\ Len(runs) \in Nat
           /\ \A r \in DOMAIN runs : r \in Nat /\ runs[r] \in SoundRuns
OBVIOUS

\* A run is written.
LEMMA RunWritten ==
    ASSUME runs \in Seq(SoundRuns), NEW r \in DOMAIN runs, NEW x \in SoundRuns,
           runs' = [runs EXCEPT ![r] = x]
    PROVE  /\ runs' \in Seq(SoundRuns) /\ Len(runs') = Len(runs) /\ DOMAIN runs' = DOMAIN runs
           /\ runs'[r] = x /\ \A q \in DOMAIN runs \ {r} : runs'[q] = runs[q]
OBVIOUS

\* A request does not touch a run that is under way.
LEMMA DecisionWritten ==
    ASSUME RunsOK, NEW r \in DOMAIN runs, NEW x \in SoundRuns, x.status = runs[r].status,
           runs' = [runs EXCEPT ![r] = x], UNCHANGED worker
    PROVE  RunsOK' /\ Len(runs') = Len(runs) /\ runs'[r] = x
<1>1. /\ runs' \in Seq(SoundRuns) /\ Len(runs') = Len(runs) /\ DOMAIN runs' = DOMAIN runs
      /\ runs'[r] = x /\ \A q \in DOMAIN runs \ {r} : runs'[q] = runs[q]
  BY RunWritten DEF RunsOK
<1>2. worker = "running" => Len(runs) \in DOMAIN runs /\ runs' # <<>>
  BY <1>1, RunIndices DEF RunsOK
<1>. QED  BY <1>1, <1>2 DEF RunsOK

-----------------------------------------------------------------------------
\* The pipeline

LEMMA PipelineRuns ==
    ASSUME RunsOK, text \in Nat, Rec!Pipeline
    PROVE  RunsOK' /\ Len(runs) <= Len(runs')
<1>1. runs \in Seq(SoundRuns) /\ Len(runs) \in Nat
  BY RunIndices DEF RunsOK
<1>2. CASE Rec!Normalize \/ Rec!Transcribe \/ Rec!StageFails
  BY <1>1, <1>2 DEF Rec!Normalize, Rec!Transcribe, Rec!StageFails, RunsOK
<1>3. CASE Rec!StartRun
  <2>1. /\ runs' = Append(runs, Rec!NewRun) /\ worker' = "running"
        /\ Rec!NewRun \in SoundRuns /\ Rec!NewRun.status = "running"
    BY <1>3, RunTypes DEF Rec!StartRun
  <2>2. runs' \in Seq(SoundRuns) /\ Len(runs') = Len(runs) + 1 /\ runs'[Len(runs')] = Rec!NewRun
    BY <1>1, <2>1
  <2>. QED  BY <1>1, <2>1, <2>2 DEF RunsOK
<1>4. CASE Rec!EndRun
  <2>1. Len(runs) \in DOMAIN runs /\ runs[Len(runs)] \in SoundRuns /\ runs[Len(runs)].status = "running"
    BY <1>1, <1>4 DEF Rec!EndRun, RunsOK
  <2>2. PICK x \in SoundRuns : runs' = [runs EXCEPT ![Len(runs)] = x]
    <3>1. ASSUME NEW a \in Judgements, Rec!FinishRun(a)
          PROVE  \E x \in SoundRuns : runs' = [runs EXCEPT ![Len(runs)] = x]
      BY <2>1, <3>1, RunTypes DEF Rec!FinishRun
    <3>2. CASE runs' = [runs EXCEPT ![Len(runs)].status = "failed"]
      BY <2>1, <3>2, RunTypes
    <3>. QED  BY <1>4, <3>1, <3>2 DEF Rec!EndRun
  <2>3. worker' \in {"completed", "failed"}
    BY <1>4 DEF Rec!EndRun
  <2>4. runs' \in Seq(SoundRuns) /\ Len(runs') = Len(runs)
    BY <1>1, <2>1, <2>2, RunWritten
  <2>. QED  BY <1>1, <2>3, <2>4 DEF RunsOK
<1>5. CASE Rec!EndEvaluation
  BY <1>1, <1>5 DEF Rec!EndEvaluation, RunsOK
<1>. QED  BY <1>2, <1>3, <1>4, <1>5 DEF Rec!Pipeline

LEMMA PipelineTexts ==
    ASSUME RunsOK, TextsOK, Rec!Pipeline
    PROVE  TextsOK' /\ text <= text'
<1>1. UNCHANGED requests /\ UNCHANGED call
  BY DEF Rec!Pipeline, Rec!Normalize, Rec!Transcribe, Rec!StageFails, Rec!StartRun, Rec!EndRun,
         Rec!EndEvaluation, Rec!bounds
<1>. DEFINE sent == IF call.at = "sent" /\ call.kind = "reprocess" THEN 1 ELSE 0
            on   == IF status \in {"uploaded", "converting", "transcribing"} THEN 1 ELSE 0
            on2  == IF status' \in {"uploaded", "converting", "transcribing"} THEN 1 ELSE 0
<1>2. ToCome = on + sent /\ ToCome' = on2 + sent /\ sent \in {0, 1}
  BY <1>1 DEF ToCome
<1>. HIDE DEF sent
<1>3. CASE Rec!Normalize
  BY <1>1, <1>2, <1>3 DEF Rec!Normalize, TextsOK, Rec!Statuses, Rec!InFlight
<1>4. CASE Rec!Transcribe
  BY <1>1, <1>2, <1>4 DEF Rec!Transcribe, TextsOK, Rec!Statuses, Rec!InFlight
<1>5. CASE Rec!StageFails
  BY <1>1, <1>2, <1>5 DEF Rec!StageFails, TextsOK, Rec!Statuses
<1>6. CASE Rec!StartRun \/ Rec!EndRun
  <2>1. UNCHANGED status /\ UNCHANGED text
    BY <1>6 DEF Rec!StartRun, Rec!EndRun, Rec!FinishRun
  <2>. QED  BY <1>1, <1>2, <2>1 DEF TextsOK
<1>7. CASE Rec!EndEvaluation
  BY <1>1, <1>2, <1>7 DEF Rec!EndEvaluation, TextsOK, Rec!Statuses, RunsOK
<1>. QED  BY <1>3, <1>4, <1>5, <1>6, <1>7 DEF Rec!Pipeline

\* The transcript stays, and no more is to come.
LEMMA TextsAsked ==
    ASSUME Rec!RecordingDeskAssumption, TextsOK,
           ToCome \in Nat, ToCome' \in Nat, ToCome' <= ToCome, status' \in Rec!Statuses, text' = text,
           requests' = requests + 1, requests < MaxRequests
    PROVE  TextsOK'
<1>1. /\ status \in Rec!Statuses /\ text \in Nat /\ requests \in Nat /\ requests <= MaxRequests
      /\ text + ToCome <= requests + 1 /\ MaxRequests \in Nat
  BY DEF Rec!RecordingDeskAssumption, TextsOK
<1>2. text' \in Nat /\ requests' \in Nat /\ requests' <= MaxRequests /\ requests <= requests'
  BY <1>1
<1>3. text' + ToCome' <= requests' + 1
  <2>1. \A t, a, b, q, r \in Nat : b <= a /\ q <= r /\ t + a <= q + 1 => t + b <= r + 1
    OBVIOUS
  <2>. QED  BY <1>1, <1>2, <2>1, Zenon
<1>. QED  BY <1>2, <1>3 DEF TextsOK

LEMMA TextsStay ==
    ASSUME TextsOK,
           ToCome \in Nat, ToCome' \in Nat, ToCome' <= ToCome, status' \in Rec!Statuses,
           text' = text, requests' = requests
    PROVE  TextsOK'
<1>1. \A t, a, b, q \in Nat : b <= a /\ t + a <= q + 1 => t + b <= q + 1
  OBVIOUS
<1>2. text \in Nat /\ requests \in Nat /\ requests <= MaxRequests /\ text + ToCome <= requests + 1
  BY DEF TextsOK
<1>3. text + ToCome' <= requests + 1
  BY <1>1, <1>2, Zenon
<1>. QED  BY <1>2, <1>3 DEF TextsOK

-----------------------------------------------------------------------------
\* What the page shows, and asks for

LEMMA PageRuns ==
    ASSUME PageTypes
    PROVE  /\ Rec!Shown \in Seq(SoundRuns) /\ DOMAIN Rec!Shown = 1 .. Len(Rec!Shown) /\ Len(Rec!Shown) \in Nat
           /\ Rec!HasRuns => Rec!Selected \in DOMAIN Rec!Shown /\ Rec!Selected \in Nat
<1>1. Rec!Shown \in Seq(SoundRuns) /\ page.selected \in Nat
  BY DEF PageTypes, Rec!Shown, ShownRuns
<1>. QED  BY <1>1 DEF Rec!HasRuns, Rec!Selected

\* The server moves on, and the page stays behind.
LEMMA PageStays ==
    ASSUME RunPageOK, text \in Nat, text' \in Nat, text <= text', Len(runs) \in Nat,
           Len(runs') \in Nat, Len(runs) <= Len(runs'), UNCHANGED <<page, load, asked>>
    PROVE  RunPageOK'
<1>1. PageTypes' /\ UNCHANGED Rec!Shown /\ page' = page /\ load' = load /\ asked' = asked
  BY DEF RunPageOK, PageTypes, Rec!Shown
<1>2. Len(Rec!Shown) \in Nat
  BY PageRuns DEF RunPageOK
<1>. QED  BY <1>1, <1>2 DEF RunPageOK

\* A request that was sent is still about a run there is.
LEMMA CallStays ==
    ASSUME RunCallOK, DOMAIN runs \subseteq DOMAIN runs', UNCHANGED call
    PROVE  RunCallOK'
BY DEF RunCallOK, Asks

LEMMA AskedMore ==
    ASSUME Rec!RecordingDeskAssumption, RunPageOK, NEW what \in SUBSET {"rec", "text", "evals"}, Rec!Ask(what)
    PROVE  /\ load' \in Seq(LoadStates) /\ Len(load') <= MaxLoads
           /\ asked' \subseteq {"text", "evals"}
<1>1. load \in Seq(LoadStates) /\ Len(load) \in Nat /\ Rec!Sent \in LoadStates /\ MaxLoads \in Nat
  BY DEF Rec!RecordingDeskAssumption, RunPageOK, LoadStates
<1>2. asked' = asked \cup (what \ {"rec"})
  BY DEF Rec!Ask
<1>3. load' = load \/ (Len(load) < MaxLoads /\ load' = Append(load, Rec!Sent))
  BY DEF Rec!Ask, Rec!Room
<1>4. load' \in Seq(LoadStates) /\ Len(load') <= MaxLoads
  <2>1. CASE load' = load
    BY <2>1 DEF RunPageOK
  <2>2. CASE Len(load) < MaxLoads /\ load' = Append(load, Rec!Sent)
    <3>. HIDE DEF LoadStates
    <3>1. load' \in Seq(LoadStates) /\ Len(load') = Len(load) + 1
      BY <1>1, <2>2
    <3>. QED  BY <1>1, <2>2, <3>1
  <2>. QED  BY <1>3, <2>1, <2>2
<1>. QED  BY <1>2, <1>4 DEF RunPageOK

LEMMA LoadRemoved ==
    ASSUME load \in Seq(LoadStates), NEW i \in DOMAIN load, load' = Rec!RemoveAt(load, i)
    PROVE  load' \in Seq(LoadStates) /\ Len(load') <= Len(load) /\ Len(load) \in Nat
<1>1. SubSeq(load, 1, i - 1) \in Seq(LoadStates) /\ Len(SubSeq(load, 1, i - 1)) = i - 1
  OBVIOUS
<1>2. /\ SubSeq(load, i + 1, Len(load)) \in Seq(LoadStates)
      /\ Len(SubSeq(load, i + 1, Len(load))) = Len(load) - i
  OBVIOUS
<1>3. load' = SubSeq(load, 1, i - 1) \o SubSeq(load, i + 1, Len(load))
  BY DEF Rec!RemoveAt
<1>. QED  BY <1>1, <1>2, <1>3

\* The page itself changes, to something that is still right.
PageBecomes == /\ PageTypes'
               /\ page'.text \in {Rec!Loading, Rec!Failed} \cup 0 .. text
               /\ Len(page'.evals.runs) <= Len(runs)
               /\ page'.dialog # Rec!Closed => page'.dialog.key \in Criteria

LEMMA PageChanges ==
    ASSUME PageBecomes, UNCHANGED Rec!server,
           load' \in Seq(LoadStates), Len(load') <= MaxLoads, asked' \subseteq {"text", "evals"}
    PROVE  RunPageOK'
BY DEF PageBecomes, RunPageOK, Rec!server, Rec!Shown

\* The page as it is, with a new value of a part of it.
LEMMA PageParts ==
    ASSUME RunPageOK
    PROVE  /\ page' = page => PageBecomes
           /\ \A rec \in Rec!Statuses : page' = [page EXCEPT !.rec = rec] => PageBecomes
           /\ \A t \in {Rec!Loading, Rec!Failed} \cup 0 .. text : t \in Int =>
                  (page' = [page EXCEPT !.text = t] => PageBecomes)
           /\ \A r \in Nat : page' = [page EXCEPT !.selected = r] => PageBecomes
           /\ \A c \in Rec!Calls \cup {"none"} : page' = [page EXCEPT !.pending = c] => PageBecomes
           /\ \A e \in ShownRuns : Len(e.runs) <= Len(runs) =>
                  (page' = [page EXCEPT !.evals = e] => PageBecomes)
<1>. USE DEF RunPageOK, PageBecomes, PageTypes, Rec!Shown
<1>1. page' = page => PageBecomes
  OBVIOUS
<1>2. \A rec \in Rec!Statuses : page' = [page EXCEPT !.rec = rec] => PageBecomes
  OBVIOUS
<1>3. \A t \in {Rec!Loading, Rec!Failed} \cup 0 .. text :
          t \in Int => (page' = [page EXCEPT !.text = t] => PageBecomes)
  OBVIOUS
<1>4. \A r \in Nat : page' = [page EXCEPT !.selected = r] => PageBecomes
  OBVIOUS
<1>5. \A c \in Rec!Calls \cup {"none"} : page' = [page EXCEPT !.pending = c] => PageBecomes
  OBVIOUS
<1>6. \A e \in ShownRuns : Len(e.runs) <= Len(runs) => (page' = [page EXCEPT !.evals = e] => PageBecomes)
  OBVIOUS
<1>. QED  BY <1>1, <1>2, <1>3, <1>4, <1>5, <1>6

LEMMA DialogParts ==
    ASSUME RunPageOK, NEW pending \in Rec!Calls \cup {"none"}, NEW d \in RunDialogs,
           d # Rec!Closed => d.key \in Criteria,
           page' = [page EXCEPT !.dialog = d, !.pending = pending]
    PROVE  PageBecomes
BY DEF RunPageOK, PageBecomes, PageTypes, Rec!Shown

LEMMA DialogTypes ==
    /\ Rec!Closed \in RunDialogs
    /\ \A k \in Criteria, r \in Nat : [key |-> k, run |-> r] \in RunDialogs
BY DEF Rec!Closed, RunDialogs

LEMMA LoadsStep ==
    ASSUME Rec!RecordingDeskAssumption, RunsOK, TextsOK, RunPageOK, Rec!Polling \/ Rec!Loads \/ Rec!LoseLoad
    PROVE  RunPageOK' /\ UNCHANGED <<Rec!server, call, requests>>
<1>1. UNCHANGED Rec!server /\ UNCHANGED call /\ UNCHANGED requests
  BY DEF Rec!Polling, Rec!PollRecording, Rec!PollRuns, Rec!Loads, Rec!ServeRecording, Rec!Arrive,
         Rec!RecordingArrives, Rec!TranscriptArrives, Rec!RunsArrive, Rec!LoseLoad, Rec!bounds
<1>. SUFFICES RunPageOK'
  BY <1>1
<1>2. load \in Seq(LoadStates) /\ Len(load) <= MaxLoads /\ Len(load) \in Nat /\ asked \subseteq {"text", "evals"}
      /\ MaxLoads \in Nat
  BY DEF Rec!RecordingDeskAssumption, RunPageOK
<1>3. CASE Rec!Polling
  <2>1. \E what \in SUBSET {"rec", "text", "evals"} : Rec!Ask(what) /\ page' = page
    BY <1>3 DEF Rec!Polling, Rec!PollRecording, Rec!PollRuns
  <2>. QED  BY <1>1, <2>1, AskedMore, PageParts, PageChanges
<1>4. CASE Rec!ServeRecording
  <2>1. PICK i \in DOMAIN load : load' = [load EXCEPT ![i] = [at |-> "answer", rec |-> status]]
    BY <1>4 DEF Rec!ServeRecording
  <2>2. [at |-> "answer", rec |-> status] \in LoadStates
    BY DEF LoadStates, TextsOK
  <2>3. load' \in Seq(LoadStates) /\ Len(load') = Len(load)
    BY <1>2, <2>1, <2>2
  <2>4. page' = page /\ asked' = asked
    BY <1>4 DEF Rec!ServeRecording
  <2>. QED  BY <1>1, <1>2, <2>3, <2>4, PageParts, PageChanges
<1>5. CASE Rec!RecordingArrives
  <2>1. PICK i \in DOMAIN load : /\ load[i].at = "answer" /\ load' = Rec!RemoveAt(load, i)
                                 /\ page' = [page EXCEPT !.rec = load[i].rec]
                                 /\ asked' = asked \cup Rec!StatusEffects(page.rec, load[i].rec)
    BY <1>5 DEF Rec!RecordingArrives
  <2>2. load[i].rec \in Rec!Statuses
    BY <1>2, <2>1 DEF LoadStates, Rec!Sent
  <2>3. asked' \subseteq {"text", "evals"}
    BY <1>2, <2>1 DEF Rec!StatusEffects
  <2>4. load' \in Seq(LoadStates) /\ Len(load') <= MaxLoads
    BY <1>2, <2>1, LoadRemoved
  <2>5. PageBecomes
    BY <2>1, <2>2, PageParts
  <2>. QED  BY <1>1, <2>3, <2>4, <2>5, PageChanges
<1>6. CASE Rec!TranscriptArrives
  <2>1. /\ load' = load /\ asked' \subseteq asked
        /\ page' = [page EXCEPT !.text = text]
    BY <1>6 DEF Rec!TranscriptArrives
  <2>2. text \in {Rec!Loading, Rec!Failed} \cup 0 .. text /\ text \in Int
    BY DEF TextsOK
  <2>. QED  BY <1>1, <1>2, <2>1, <2>2, PageParts, PageChanges
<1>7. CASE Rec!RunsArrive
  <2>1. /\ load' = load /\ asked' \subseteq asked
        /\ page' = [page EXCEPT !.evals = [at |-> "shown", runs |-> runs]]
    BY <1>7 DEF Rec!RunsArrive
  <2>2. PageBecomes
    <3>. DEFINE e == [at |-> "shown", runs |-> runs]
    <3>1. e \in ShownRuns /\ Len(e.runs) <= Len(runs)
      BY RunIndices DEF RunsOK, ShownRuns
    <3>. HIDE DEF e
    <3>. QED  BY <2>1, <3>1, PageParts DEF e
  <2>. QED  BY <1>1, <1>2, <2>1, <2>2, PageChanges
<1>8. CASE Rec!LoseLoad
  <2>1. CASE \E i \in DOMAIN load : load' = Rec!RemoveAt(load, i) /\ UNCHANGED <<asked, page>>
    <3>1. load' \in Seq(LoadStates) /\ Len(load') <= MaxLoads
      BY <1>2, <2>1, LoadRemoved
    <3>. QED  BY <1>1, <1>2, <2>1, <3>1, PageParts, PageChanges
  <2>2. CASE asked' \subseteq asked /\ page' = [page EXCEPT !.text = Rec!Failed] /\ UNCHANGED load
    <3>1. Rec!Failed \in Int
      BY DEF Rec!Failed
    <3>2. PageBecomes
      BY <2>2, <3>1, PageParts
    <3>. QED  BY <1>1, <1>2, <2>2, <3>2, PageChanges
  <2>3. CASE /\ asked' \subseteq asked /\ UNCHANGED load
             /\ page' = [page EXCEPT !.evals.at = IF @ = "shown" THEN @ ELSE "error"]
    <3>. DEFINE at == IF page.evals.at = "shown" THEN page.evals.at ELSE "error"
                e  == [page.evals EXCEPT !.at = at]
    <3>1. page.evals \in ShownRuns /\ page' = [page EXCEPT !.evals = e]
      BY <2>3 DEF RunPageOK, PageTypes
    <3>2. at \in {"loading", "shown", "error"}
      BY <3>1 DEF ShownRuns
    <3>. HIDE DEF at
    <3>3. e \in ShownRuns /\ e.runs = Rec!Shown
      BY <3>1, <3>2 DEF ShownRuns, Rec!Shown
    <3>. HIDE DEF e
    <3>4. PageBecomes
      BY <3>1, <3>3, PageParts DEF RunPageOK
    <3>. QED  BY <1>1, <1>2, <2>3, <3>4, PageChanges
  <2>. QED  BY <1>8, <2>1, <2>2, <2>3 DEF Rec!LoseLoad
<1>. QED  BY <1>3, <1>4, <1>5, <1>6, <1>7, <1>8 DEF Rec!Loads, Rec!Arrive

\* The page sends a request.
LEMMA RequestSent ==
    ASSUME Rec!RecordingDeskAssumption, RecordingInv, NEW kind \in Rec!Calls, NEW run \in Nat, NEW what,
           Rec!Send(kind, run, what), Asks(kind, run, what)
    PROVE  RecordingInv'
<1>1. /\ call = Rec!Idle /\ call' = Request("sent", kind, run, what)
      /\ page' = [page EXCEPT !.pending = kind]
      /\ requests < MaxRequests /\ requests' = requests + 1
      /\ UNCHANGED Rec!server /\ UNCHANGED load /\ UNCHANGED asked
  BY DEF Rec!Send, Request
<1>2. RunPageOK'
  BY <1>1, PageParts, PageChanges DEF RecordingInv, RunPageOK
<1>3. RunsOK'
  BY <1>1 DEF RecordingInv, RunsOK, Rec!server
<1>4. TextsOK'
  <2>1. MaxRequests \in Nat
    BY DEF Rec!RecordingDeskAssumption
  <2>2. ToCome' <= ToCome + 1 /\ ToCome \in Nat /\ ToCome' \in Nat
    BY <1>1 DEF ToCome, Rec!server, Rec!Idle
  <2>. QED  BY <1>1, <2>1, <2>2 DEF RecordingInv, TextsOK, Rec!server
<1>5. RunCallOK'
  <2>1. Asks(kind, run, what)'
    BY <1>1 DEF Asks, Rec!server
  <2>. QED  BY <1>1, <2>1 DEF RunCallOK
<1>. QED  BY <1>2, <1>3, <1>4, <1>5 DEF RecordingInv

LEMMA BrowsingStep ==
    ASSUME Rec!RecordingDeskAssumption, RecordingInv, Rec!Browsing
    PROVE  RecordingInv'
<1>. USE DEF RecordingInv
<1>1. /\ RunPageOK /\ PageTypes /\ Rec!Shown \in Seq(SoundRuns)
      /\ DOMAIN Rec!Shown = 1 .. Len(Rec!Shown) /\ Len(Rec!Shown) \in Nat
  BY PageRuns DEF RunPageOK
<1>2. DOMAIN runs = 1 .. Len(runs) /\ Len(runs) \in Nat
  BY RunIndices DEF RunsOK
<1>3. Rec!HasRuns => Rec!Selected \in DOMAIN runs /\ Rec!Selected \in Nat
  BY <1>1, <1>2, PageRuns DEF RunPageOK
<1>4. ASSUME PageBecomes, UNCHANGED <<Rec!server, load, asked, call, requests>>
      PROVE  RecordingInv'
  <2>1. RunPageOK'
    BY <1>1, <1>4, PageChanges DEF RunPageOK
  <2>2. RunsOK' /\ TextsOK' /\ RunCallOK'
    BY <1>4 DEF Rec!server, RunsOK, TextsOK, ToCome, RunCallOK, Asks
  <2>. QED  BY <2>1, <2>2
<1>5. ASSUME NEW r \in DOMAIN Rec!Shown, Rec!PickRun(r)
      PROVE  RecordingInv'
  <2>1. PageBecomes
    BY <1>1, <1>5, PageParts DEF Rec!PickRun
  <2>. QED  BY <1>4, <1>5, <2>1 DEF Rec!PickRun, Rec!bounds
<1>. DEFINE free == IF page.pending = "override" THEN "none" ELSE page.pending
<1>6. free \in Rec!Calls \cup {"none"}
  BY <1>1 DEF PageTypes
<1>. HIDE DEF free
<1>7. CASE Rec!OpenOverride
  <2>1. PICK k \in Criteria : page' = [page EXCEPT !.dialog = [key |-> k, run |-> Rec!Selected], !.pending = free]
    BY <1>7 DEF Rec!OpenOverride, free
  <2>2. Rec!HasRuns
    BY <1>7 DEF Rec!OpenOverride, Rec!OverrideOffered, Rec!RunShown
  <2>. DEFINE d == [key |-> k, run |-> Rec!Selected]
  <2>3. d \in RunDialogs /\ d.key \in Criteria
    BY <1>3, <2>2, DialogTypes
  <2>. HIDE DEF d
  <2>4. PageBecomes
    BY <1>1, <1>6, <2>1, <2>3, DialogParts DEF d
  <2>. QED  BY <1>4, <1>7, <2>4 DEF Rec!OpenOverride, Rec!bounds
<1>8. CASE Rec!Cancel
  <2>1. page' = [page EXCEPT !.dialog = Rec!Closed, !.pending = free]
    BY <1>8 DEF Rec!Cancel, free
  <2>2. PageBecomes
    BY <1>1, <1>6, <2>1, DialogTypes, DialogParts
  <2>. QED  BY <1>4, <1>8, <2>2 DEF Rec!Cancel, Rec!bounds
<1>9. CASE Rec!OnReprocess
  <2>1. PICK stage \in {"convert", "stt"} : Rec!Send("reprocess", 0, stage)
    BY <1>9 DEF Rec!OnReprocess
  <2>. QED  BY <2>1, RequestSent DEF Asks, Rec!Calls
<1>10. CASE Rec!ConfirmRerun
  BY <1>10, RequestSent DEF Rec!ConfirmRerun, Asks, Rec!Calls
<1>11. CASE Rec!SubmitReview
  <2>1. PICK action \in {"approved", "overridden"} : Rec!Send("review", Rec!Selected, action)
    BY <1>11 DEF Rec!SubmitReview
  <2>2. Rec!HasRuns
    BY <1>11 DEF Rec!SubmitReview, Rec!ReviewOffered, Rec!RunShown
  <2>. QED  BY <1>3, <2>1, <2>2, RequestSent DEF Asks, Rec!Calls
<1>12. CASE Rec!SubmitOverride
  <2>1. Rec!HasRuns /\ Rec!Send("override", Rec!Selected, page.dialog.key) /\ page.dialog.key \in Criteria
    BY <1>1, <1>12 DEF Rec!SubmitOverride, RunPageOK, Rec!NoDialog
  <2>. QED  BY <1>3, <2>1, RequestSent DEF Asks, Rec!Calls
<1>. QED  BY <1>5, <1>7, <1>8, <1>9, <1>10, <1>11, <1>12 DEF Rec!Browsing

\* The API serves a request: a decision is stored on a run that has completed.
LEMMA ServeCallStep ==
    ASSUME RecordingInv, Rec!ServeCall
    PROVE  RecordingInv'
<1>. USE DEF RecordingInv
<1>0. PICK kind \in Rec!Calls, run \in Nat :
          \E what : call = Request("sent", kind, run, what) /\ Asks(kind, run, what)
  BY DEF Rec!ServeCall, RunCallOK, Request, Rec!Idle
<1>1. PICK what : call = Request("sent", kind, run, what) /\ Asks(kind, run, what)
  BY <1>0
<1>2. UNCHANGED <<page, load, asked, requests>>
  BY DEF Rec!ServeCall, Rec!bounds
<1>3. call.at = "sent" /\ call.kind = kind /\ call.run = run /\ call.what = what
  BY <1>1 DEF Request
<1>4. DOMAIN runs = 1 .. Len(runs) /\ Len(runs) \in Nat /\ \A r \in DOMAIN runs : runs[r] \in SoundRuns
  BY RunIndices DEF RunsOK
<1>5. CASE Rec!Refuses(kind, run)
  <2>1. UNCHANGED Rec!server /\ call' = Request("error", kind, run, what)
    BY <1>1, <1>3, <1>5 DEF Rec!ServeCall, Request
  <2>2. RunsOK'
    BY <2>1 DEF Rec!server, RunsOK
  <2>3. TextsOK'
    <3>1. ToCome' <= ToCome /\ ToCome \in Nat /\ ToCome' \in Nat
      BY <1>3, <2>1 DEF ToCome, Rec!server, Request
    <3>. QED  BY <1>2, <2>1, <3>1, TextsStay DEF TextsOK, Rec!server
  <2>4. RunPageOK'
    BY <1>2, <1>4, <2>1, PageStays DEF TextsOK, Rec!server
  <2>5. RunCallOK'
    BY <2>1 DEF RunCallOK
  <2>. QED  BY <2>2, <2>3, <2>4, <2>5
<1>6. CASE ~Rec!Refuses(kind, run)
  <2>1. /\ Rec!Handler(kind, run, what)
        /\ call' = Request("ok", kind, run, IF run = 0 THEN <<>> ELSE runs'[run])
    BY <1>1, <1>3, <1>6 DEF Rec!ServeCall, Request
  <2>2. CASE kind = "reprocess"
    <3>1. status' \in {"uploaded", "transcribing"} /\ UNCHANGED text /\ UNCHANGED runs /\ UNCHANGED worker
      BY <2>1, <2>2 DEF Rec!Handler, Rec!Reprocess
    <3>2. status \in Rec!Statuses \ Rec!Busy
      BY <1>6, <2>2 DEF Rec!Refuses, TextsOK
    <3>3. ToCome' <= ToCome /\ ToCome \in Nat /\ ToCome' \in Nat
      BY <1>3, <2>1, <2>2, <3>1 DEF ToCome, Request
    <3>4. TextsOK'
      BY <1>2, <3>1, <3>3, TextsStay DEF Rec!Statuses, Rec!InFlight
    <3>5. RunsOK'
      BY <3>1 DEF RunsOK
    <3>6. RunPageOK'
      BY <1>2, <1>4, <3>1, PageStays DEF TextsOK
    <3>7. RunCallOK'
      BY <2>1, <2>2 DEF RunCallOK
    <3>. QED  BY <3>4, <3>5, <3>6, <3>7
  <2>3. CASE kind = "rerun"
    <3>1. status' = "evaluating" /\ UNCHANGED text /\ UNCHANGED runs /\ UNCHANGED worker
      BY <2>1, <2>3 DEF Rec!Handler, Rec!Rerun
    <3>2. ToCome' <= ToCome /\ ToCome \in Nat /\ ToCome' \in Nat
      BY <1>3, <2>1, <2>3, <3>1 DEF ToCome, Request
    <3>3. TextsOK'
      BY <1>2, <3>1, <3>2, TextsStay DEF Rec!Statuses, Rec!InFlight
    <3>4. RunsOK'
      BY <3>1 DEF RunsOK
    <3>5. RunPageOK'
      BY <1>2, <1>4, <3>1, PageStays DEF TextsOK
    <3>6. RunCallOK'
      BY <2>1, <2>3 DEF RunCallOK
    <3>. QED  BY <3>3, <3>4, <3>5, <3>6
  <2>4. CASE kind \in {"review", "override"}
    <3>1. run \in DOMAIN runs /\ run # 0 /\ runs[run] \in SoundRuns
      BY <1>1, <1>4, <2>4 DEF Asks
    <3>2. PICK x \in SoundRuns : x.status = runs[run].status /\ runs' = [runs EXCEPT ![run] = x]
      <4>1. CASE kind = "review"
        <5>1. runs[run].status = "completed" /\ what \in Reviews
          BY <1>1, <1>6, <4>1 DEF Rec!Refuses, Asks, Reviews
        <5>. DEFINE x == [runs[run] EXCEPT !.review = what]
        <5>2. x \in SoundRuns /\ x.status = runs[run].status
          BY <3>1, <5>1, RunTypes DEF SoundRuns, Run
        <5>3. runs' = [runs EXCEPT ![run] = x]
          BY <2>1, <4>1 DEF Rec!Handler, Rec!Review
        <5>. QED  BY <5>2, <5>3
      <4>2. CASE kind = "override"
        <5>1. runs[run].answer # {} /\ what \in Criteria
          BY <1>1, <1>6, <4>2 DEF Rec!Refuses, Asks, Rec!HasResults
        <5>. DEFINE x == [runs[run] EXCEPT !.over = @ \cup {what}, !.review = "overridden"]
        <5>2. x \in SoundRuns /\ x.status = runs[run].status
          BY <3>1, <5>1, RunTypes DEF SoundRuns, Run
        <5>3. runs' = [runs EXCEPT ![run] = x]
          BY <2>1, <4>2 DEF Rec!Handler, Rec!Override
        <5>. QED  BY <5>2, <5>3
      <4>. QED  BY <2>4, <4>1, <4>2
    <3>3. UNCHANGED status /\ UNCHANGED text /\ UNCHANGED worker
      BY <2>1, <2>4 DEF Rec!Handler, Rec!Review, Rec!Override
    <3>4. RunsOK' /\ Len(runs') = Len(runs) /\ runs'[run] = x
      BY <3>1, <3>2, <3>3, DecisionWritten
    <3>5. TextsOK'
      <4>1. ToCome' <= ToCome /\ ToCome \in Nat /\ ToCome' \in Nat
        BY <2>1, <3>3 DEF ToCome, Request
      <4>. QED  BY <1>2, <3>3, <4>1, TextsStay DEF TextsOK
    <3>6. RunPageOK'
      BY <1>2, <1>4, <3>3, <3>4, PageStays DEF TextsOK
    <3>7. call' = Request("ok", kind, run, x)
      BY <2>1, <3>1, <3>4
    <3>8. RunCallOK'
      BY <3>7 DEF RunCallOK
    <3>. QED  BY <3>4, <3>5, <3>6, <3>8
  <2>. QED  BY <2>2, <2>3, <2>4 DEF Rec!Calls
<1>. QED  BY <1>5, <1>6

\* An answer comes back.
LEMMA CallEndsStep ==
    ASSUME Rec!RecordingDeskAssumption, RecordingInv, Rec!CallEnds
    PROVE  RecordingInv'
<1>. USE DEF RecordingInv
<1>0. PICK at \in {"ok", "error"}, kind \in Rec!Calls, run \in Nat : \E what :
          /\ call = Request(at, kind, run, what)
          /\ at = "ok" /\ kind \in {"review", "override"} => what \in SoundRuns
  BY DEF Rec!CallEnds, RunCallOK, Request, Rec!Idle
<1>1. PICK what : /\ call = Request(at, kind, run, what)
                  /\ at = "ok" /\ kind \in {"review", "override"} => what \in SoundRuns
  BY <1>0
<1>2. call.at = at /\ call.kind = kind /\ call.run = run /\ call.what = what
  BY <1>1 DEF Request
<1>3. /\ RunPageOK /\ PageTypes /\ Rec!Shown \in Seq(SoundRuns)
      /\ DOMAIN Rec!Shown = 1 .. Len(Rec!Shown) /\ Len(Rec!Shown) \in Nat
  BY PageRuns DEF RunPageOK
<1>. DEFINE closed   == IF at = "ok" /\ kind = "override" THEN Rec!Closed ELSE page.dialog
            again    == CASE at # "ok" -> {} [] kind = "reprocess" -> {"rec"}
                          [] kind = "rerun" -> {"rec", "evals"} [] OTHER -> {}
            pending  == Rec!Released(kind, at = "ok")
            selected == IF at = "ok" /\ kind = "rerun" THEN 0 ELSE page.selected
            shown    == IF at = "ok" /\ kind \in {"review", "override"} THEN Rec!Replaced(run, what) ELSE Rec!Shown
<1>4. /\ call' = Rec!Idle /\ Rec!Ask(again) /\ UNCHANGED Rec!server /\ UNCHANGED requests
      /\ page' = [page EXCEPT !.dialog = closed, !.pending = pending, !.selected = selected, !.evals.runs = shown]
  BY <1>2 DEF Rec!CallEnds, Rec!bounds, Rec!Shown
<1>5. closed \in RunDialogs /\ (closed # Rec!Closed => closed.key \in Criteria)
  BY <1>3, DialogTypes DEF RunPageOK, PageTypes
<1>6. again \in SUBSET {"rec", "text", "evals"}
  OBVIOUS
<1>7. pending \in Rec!Calls \cup {"none"}
  BY <1>3 DEF Rec!Released, PageTypes
<1>8. selected \in Nat
  BY <1>3 DEF PageTypes
<1>9. shown \in Seq(SoundRuns) /\ Len(shown) = Len(Rec!Shown)
  <2>1. CASE at = "ok" /\ kind \in {"review", "override"} /\ run \in DOMAIN Rec!Shown
    <3>1. shown = [Rec!Shown EXCEPT ![run] = what] /\ what \in SoundRuns
      BY <1>1, <2>1 DEF Rec!Replaced
    <3>. HIDE DEF shown
    <3>. QED  BY <1>3, <2>1, <3>1
  <2>2. CASE ~(at = "ok" /\ kind \in {"review", "override"} /\ run \in DOMAIN Rec!Shown)
    BY <1>3, <2>2 DEF Rec!Replaced
  <2>. QED  BY <2>1, <2>2
<1>. HIDE DEF closed, again, pending, selected, shown
<1>10. PageBecomes
  <2>. DEFINE e == [page.evals EXCEPT !.runs = shown]
  <2>1. e \in ShownRuns /\ e.runs = shown
    BY <1>3, <1>9 DEF PageTypes, ShownRuns
  <2>2. page' = [page EXCEPT !.dialog = closed, !.pending = pending, !.selected = selected, !.evals = e]
    BY <1>3, <1>4 DEF PageTypes
  <2>. HIDE DEF e
  <2>. QED  BY <1>3, <1>5, <1>7, <1>8, <1>9, <2>1, <2>2 DEF RunPageOK, PageBecomes, PageTypes
<1>11. RunPageOK'
  BY <1>3, <1>4, <1>6, <1>10, AskedMore, PageChanges
<1>12. RunsOK'
  BY <1>4 DEF Rec!server, RunsOK
<1>13. TextsOK'
  <2>1. ToCome' <= ToCome /\ ToCome \in Nat /\ ToCome' \in Nat
    BY <1>4 DEF ToCome, Rec!server, Rec!Idle
  <2>. QED  BY <1>4, <2>1, TextsStay DEF TextsOK, Rec!server
<1>14. RunCallOK'
  BY <1>4 DEF RunCallOK
<1>. QED  BY <1>11, <1>12, <1>13, <1>14

LEMMA OtherSteps ==
    ASSUME Rec!RecordingDeskAssumption, RecordingInv,
           Rec!LoseAnswer \/ Rec!ReevaluateFromList \/ Rec!Pipeline \/ UNCHANGED Rec!vars
    PROVE  RecordingInv'
<1>. USE DEF RecordingInv
<1>1. Len(runs) \in Nat /\ DOMAIN runs = 1 .. Len(runs)
  BY RunIndices DEF RunsOK
<1>2. CASE Rec!LoseAnswer
  <2>1. /\ UNCHANGED <<Rec!server, page, load, asked, requests>>
        /\ call.at = "ok" /\ call' = [call EXCEPT !.at = "error"]
    BY <1>2 DEF Rec!LoseAnswer
  <2>0. PICK kind \in Rec!Calls, run \in Nat : \E what : call = Request("ok", kind, run, what)
    BY <2>1 DEF RunCallOK, Request, Rec!Idle
  <2>2. PICK what : call = Request("ok", kind, run, what)
    BY <2>0
  <2>3. call' = Request("error", kind, run, what)
    BY <2>1, <2>2 DEF Request
  <2>4. RunCallOK'
    BY <2>3 DEF RunCallOK
  <2>5. RunsOK' /\ RunPageOK'
    BY <1>1, <2>1, PageStays DEF RunsOK, TextsOK, Rec!server
  <2>6. TextsOK'
    <3>1. ToCome' <= ToCome /\ ToCome \in Nat /\ ToCome' \in Nat
      BY <2>1, <2>3 DEF ToCome, Rec!server, Request
    <3>. QED  BY <2>1, <3>1, TextsStay DEF TextsOK, Rec!server
  <2>. QED  BY <2>4, <2>5, <2>6
<1>3. CASE Rec!ReevaluateFromList
  <2>1. /\ requests < MaxRequests /\ requests' = requests + 1 /\ status' = "evaluating"
        /\ UNCHANGED <<page, load, asked, call>> /\ UNCHANGED <<text, runs, worker>>
    BY <1>3 DEF Rec!ReevaluateFromList, Rec!Rerun
  <2>2. RunsOK' /\ RunPageOK' /\ RunCallOK'
    BY <1>1, <2>1, PageStays DEF RunsOK, TextsOK, RunCallOK, Asks
  <2>3. TextsOK'
    <3>1. ToCome' <= ToCome /\ ToCome \in Nat /\ ToCome' \in Nat
      BY <2>1 DEF ToCome
    <3>. QED  BY <2>1, <3>1, TextsAsked DEF Rec!Statuses, Rec!InFlight
  <2>. QED  BY <2>2, <2>3
<1>4. CASE Rec!Pipeline
  <2>1. UNCHANGED <<page, load, asked, call>>
    BY <1>4 DEF Rec!Pipeline, Rec!Normalize, Rec!Transcribe, Rec!StageFails, Rec!StartRun, Rec!EndRun,
                Rec!EndEvaluation
  <2>2. RunsOK' /\ TextsOK' /\ Len(runs) <= Len(runs') /\ text <= text'
    BY <1>4, PipelineRuns, PipelineTexts DEF TextsOK
  <2>3. Len(runs') \in Nat /\ DOMAIN runs' = 1 .. Len(runs')
    BY <2>2 DEF RunsOK
  <2>4. RunPageOK'
    BY <1>1, <2>1, <2>2, <2>3, PageStays DEF TextsOK
  <2>5. RunCallOK'
    BY <1>1, <2>1, <2>2, <2>3, CallStays
  <2>. QED  BY <2>2, <2>4, <2>5
<1>5. CASE UNCHANGED Rec!vars
  BY <1>5 DEF Rec!vars, RunsOK, TextsOK, ToCome, RunPageOK, PageTypes, Rec!Shown, RunCallOK, Asks
<1>. QED  BY <1>2, <1>3, <1>4, <1>5

-----------------------------------------------------------------------------
\* The theorems

LEMMA RecordingStart ==
    ASSUME Rec!RecordingDeskAssumption
    PROVE  Rec!Init => RecordingInv
<1>. SUFFICES ASSUME Rec!Init PROVE RecordingInv
  OBVIOUS
<1>1. /\ page = Rec!FreshPage /\ load = <<Rec!Sent>> /\ asked = {"text"} /\ call = Rec!Idle
      /\ requests = 0 /\ worker = "idle"
  BY DEF Rec!Init
<1>2. /\ status \in {"completed", "evaluating", "failed"} /\ text \in Nat
      /\ text <= 1 /\ runs \in Seq(SoundRuns)
  <2>1. ASSUME NEW a \in Judgements, text = 1, runs = <<Rec!Complete(Rec!NewRun, a)>>
        PROVE  runs \in Seq(SoundRuns)
    <3>1. Rec!NewRun \in SoundRuns /\ Rec!NewRun.status = "running"
      BY <2>1, RunTypes
    <3>2. Rec!Complete(Rec!NewRun, a) \in SoundRuns
      BY <3>1, RunTypes
    <3>. QED  BY <2>1, <3>2
  <2>2. CASE text = 0 /\ runs = <<>> /\ status = "failed"
    BY <2>2
  <2>. QED  BY <2>1, <2>2 DEF Rec!Init
<1>3. RunsOK
  BY <1>1, <1>2 DEF RunsOK
<1>4. TextsOK
  <2>1. ToCome = 0
    BY <1>1, <1>2 DEF ToCome, Rec!Idle
  <2>. QED  BY <1>1, <1>2, <2>1 DEF Rec!RecordingDeskAssumption, TextsOK, Rec!Statuses, Rec!InFlight
<1>5. RunPageOK
  <2>1. PageTypes /\ Rec!Shown = <<>>
    BY <1>1 DEF PageTypes, Rec!FreshPage, Rec!Shown, ShownRuns, RunDialogs, Rec!Closed, Rec!Loading
  <2>2. load \in Seq(LoadStates) /\ Len(load) = 1
    BY <1>1 DEF LoadStates
  <2>. QED  BY <1>1, <1>2, <2>1, <2>2, RunIndices DEF Rec!RecordingDeskAssumption, RunPageOK,
                                                      Rec!FreshPage, Rec!Loading, Rec!Failed
<1>6. RunCallOK
  BY <1>1 DEF RunCallOK
<1>. QED  BY <1>3, <1>4, <1>5, <1>6 DEF RecordingInv

LEMMA RecordingStep ==
    ASSUME Rec!RecordingDeskAssumption
    PROVE  RecordingInv /\ [Rec!Next]_Rec!vars => RecordingInv'
<1>. SUFFICES ASSUME RecordingInv, [Rec!Next]_Rec!vars PROVE RecordingInv'
  OBVIOUS
<1>1. CASE Rec!Polling \/ Rec!Loads \/ Rec!LoseLoad
  <2>1. RunPageOK' /\ UNCHANGED <<Rec!server, call, requests>>
    BY <1>1, LoadsStep DEF RecordingInv
  <2>2. RunsOK' /\ TextsOK' /\ RunCallOK'
    BY <2>1 DEF RecordingInv, Rec!server, RunsOK, TextsOK, ToCome, RunCallOK, Asks
  <2>. QED  BY <2>1, <2>2 DEF RecordingInv
<1>. QED  BY <1>1, BrowsingStep, ServeCallStep, CallEndsStep, OtherSteps DEF Rec!Next, Rec!Calling

\* In every state a run has results only when it has completed, the page shows what
\* was read from the runs there are, and a request is about one of them.
THEOREM RecordingInvariant ==
    ASSUME Rec!RecordingDeskAssumption
    PROVE  Rec!Spec => []RecordingInv
BY RecordingStart, RecordingStep, PTL DEF Rec!Spec

LEMMA Typed ==
    ASSUME Rec!RecordingDeskAssumption
    PROVE  RecordingInv => Rec!TypeOK
<1>. SUFFICES ASSUME RecordingInv PROVE Rec!TypeOK
  OBVIOUS
<1>1. RunsOK /\ TextsOK /\ RunPageOK
  BY DEF RecordingInv
<1>2. \A r \in DOMAIN runs : runs[r] \in Run
  BY <1>1, RunIndices, RunTypes DEF RunsOK
<1>3. text \in 0 .. MaxRequests + 1
  <2>1. text \in Nat /\ ToCome \in Nat /\ requests \in Nat /\ MaxRequests \in Nat
        /\ requests <= MaxRequests /\ text + ToCome <= requests + 1
    BY <1>1 DEF Rec!RecordingDeskAssumption, TextsOK, ToCome
  <2>2. \A t, c, q, m \in Nat : t + c <= q + 1 /\ q <= m => t \in 0 .. m + 1
    OBVIOUS
  <2>. QED  BY <2>1, <2>2, Zenon
<1>4. page.rec \in Rec!Statuses \cup {"loading"} /\ page.pending \in Rec!Calls \cup {"none"}
  BY <1>1 DEF RunPageOK, PageTypes
<1>. QED  BY <1>1, <1>2, <1>3, <1>4 DEF Rec!TypeOK, RunsOK, TextsOK, RunPageOK, Run, RunStates, Reviews

\* The types of everything the page, the API and the pipeline keep.
THEOREM RecordingTyped ==
    ASSUME Rec!RecordingDeskAssumption
    PROVE  Rec!Spec => []Rec!TypeOK
BY RecordingInvariant, Typed, PTL

\* Whatever runs start, end or fail while a dialog is open, a review or an
\* override is only ever stored on a run that has completed.
THEOREM DecisionsLandOnCompleted ==
    ASSUME Rec!RecordingDeskAssumption
    PROVE  Rec!Spec => []DecisionsOnFinishedRuns
<1>1. RecordingInv => DecisionsOnFinishedRuns
  BY RunIndices DEF RecordingInv, RunsOK, DecisionsOnFinishedRuns, SoundRuns, Sound
<1>. QED  BY <1>1, RecordingInvariant, PTL

\* The rows the worker stores stand for the LLM's answer: a criterion counts
\* in the breakdown when it counts in the score, and with the same points.
LEMMA RowsStandForAnswer ==
    ASSUME Rec!RecordingDeskAssumption, NEW a \in Judgements, NEW run \in SoundRuns, run.answer = {a}
    PROVE  Breakdown(run) = OverallScore(a)
<1>1. a \in [Criteria -> Entries] /\ ScoreType \in [Criteria -> {"pass_fail", "scale_1_5"}]
  BY DEF Rec!RecordingDeskAssumption, Rec!Entries, Rec!Unknown, Entries, Unknown
<1>2. \A k \in Criteria : Counted(run, k) = ResultRow(a, k)
  <2>1. (CHOOSE b \in run.answer : TRUE) = a
    OBVIOUS
  <2>. QED  BY <2>1 DEF Counted
<1>. DEFINE judged   == {k \in Criteria : \/ ScoreType[k] = "pass_fail" /\ a[k].passed # "null"
                                          \/ ScoreType[k] = "scale_1_5" /\ a[k].score # Unknown}
            included == {k \in Criteria :
                IF ScoreType[k] = "pass_fail" THEN Counted(run, k).passed # "null"
                ELSE Counted(run, k).score # Unknown}
            points(k) == IF ScoreType[k] = "scale_1_5" THEN Clamped(a[k].score) - 1
                         ELSE IF a[k].passed = "true" THEN 4 ELSE 0
            counted(k) == IF ScoreType[k] = "scale_1_5" THEN Clamped(Counted(run, k).score) - 1
                          ELSE IF Counted(run, k).passed = "true" THEN 4 ELSE 0
<1>3. \A k \in Criteria : /\ a[k].score \in Int
                          /\ Clamped(a[k].score) \in 1 .. 5
                          /\ Clamped(Clamped(a[k].score)) = Clamped(a[k].score)
  BY <1>1 DEF Entries, Clamped, Unknown
<1>4. ASSUME NEW k \in Criteria
      PROVE  k \in judged <=> k \in included
  <2>1. CASE ScoreType[k] = "pass_fail"
    BY <1>2, <2>1 DEF ResultRow
  <2>2. CASE ScoreType[k] = "scale_1_5"
    <3>1. Counted(run, k).score = IF a[k].score # Unknown THEN Clamped(a[k].score) ELSE Unknown
      BY <1>2, <2>2 DEF ResultRow
    <3>. QED  BY <1>3, <2>2, <3>1 DEF Unknown
  <2>. QED  BY <1>1, <2>1, <2>2
<1>5. judged = included
  BY <1>4
<1>6. ASSUME NEW k \in judged
      PROVE  points(k) = counted(k)
  <2>1. CASE ScoreType[k] = "pass_fail"
    BY <1>2, <2>1 DEF ResultRow
  <2>2. CASE ScoreType[k] = "scale_1_5"
    <3>1. Counted(run, k).score = Clamped(a[k].score)
      BY <1>2, <2>2 DEF ResultRow
    <3>. QED  BY <1>3, <2>2, <3>1
  <2>. QED  BY <1>1, <2>1, <2>2
<1>7. OverallScore(a) = Weighted([k \in judged |-> points(k)], judged)
  BY DEF OverallScore
<1>8. Breakdown(run) = Weighted([k \in included |-> counted(k)], included)
  BY DEF Breakdown
<1>9. [k \in judged |-> points(k)] = [k \in included |-> counted(k)]
  BY <1>5, <1>6
<1>. HIDE DEF judged, included
<1>. QED  BY <1>5, <1>7, <1>8, <1>9

\* The breakdown of a run on the page adds up to the score the worker stored,
\* whatever has been overridden since, for any criteria, weights and answers.
THEOREM BreakdownMatchesScore ==
    ASSUME Rec!RecordingDeskAssumption
    PROVE  Rec!Spec => []BreakdownAddsUp
<1>1. RecordingInv => BreakdownAddsUp
  <2>. SUFFICES ASSUME RecordingInv, NEW r \in DOMAIN page.evals.runs, page.evals.runs[r].status = "completed"
               PROVE  Breakdown(page.evals.runs[r]) = OverallScore(CHOOSE b \in page.evals.runs[r].answer : TRUE)
    BY DEF BreakdownAddsUp
  <2>1. page.evals.runs \in Seq(SoundRuns)
    BY PageRuns DEF RecordingInv, RunPageOK, Rec!Shown
  <2>2. page.evals.runs[r] \in SoundRuns
    BY <2>1
  <2>3. PICK a \in Judgements : page.evals.runs[r].answer = {a}
    BY <2>2 DEF SoundRuns, Sound
  <2>4. (CHOOSE b \in page.evals.runs[r].answer : TRUE) = a
    BY <2>3
  <2>. QED  BY <2>2, <2>3, <2>4, RowsStandForAnswer
<1>. QED  BY <1>1, RecordingInvariant, PTL
=============================================================================
