-------------------------- MODULE TradeDesk_proofs --------------------------
(***************************************************************************)
(* What reconciliation keeps true for any trades and calls, whatever the   *)
(* engine proposes, any number of runs, imports, reviews and lost answers: *)
(* the types, that a call linked by hand is not reported as unmatched in   *)
(* its run, and that no confirmed pair is lost from run to run.            *)
(***************************************************************************)
EXTENDS TradeDesk, SequenceTheorems, FiniteSetTheorems, FunctionTheorems,
        WellFoundedInduction, TLAPS

-----------------------------------------------------------------------------
\* Sequences and sets

\* A nonempty set of places of a sequence has a last one.
LEMMA LastPlace ==
    ASSUME NEW n \in Nat, NEW S \in SUBSET (1 .. n), S # {}
    PROVE  Max(S) \in S
<1>0. \A z \in S : z \in Nat
  OBVIOUS
<1>. DEFINE Past(x) == {z \in S : z > x}
            F == {Past(x) : x \in S}
<1>1. IsFiniteSet(S)
  <2>1. IsFiniteSet(1 .. n)
    BY FS_Interval
  <2>. QED  BY <2>1, FS_Subset
<1>2. F \subseteq FiniteSubsetsOf(S) /\ F # {}
  <2>1. ASSUME NEW x \in S
        PROVE  Past(x) \in FiniteSubsetsOf(S)
    <3>1. Past(x) \in SUBSET S
      OBVIOUS
    <3>. HIDE DEF Past
    <3>. QED  BY <1>1, <3>1, FS_Subset DEF FiniteSubsetsOf
  <2>2. \E x \in S : TRUE
    OBVIOUS
  <2>. HIDE DEF Past
  <2>. QED  BY <2>1, <2>2
<1>3. PICK U \in F : \A V \in F : <<V, U>> \notin StrictSubsetOrdering(S)
  <2>1. IsWellFoundedOn(StrictSubsetOrdering(S), FiniteSubsetsOf(S))
    BY FS_StrictSubsetOrderingWellFounded
  <2>. HIDE DEF F
  <2>. QED  BY <1>2, <2>1, WFMin
<1>4. PICK x \in S : U = Past(x)
  BY <1>3
<1>5. U = {}
  <2>. SUFFICES ASSUME NEW y \in U
                PROVE  FALSE
    OBVIOUS
  <2>1. y \in S /\ y \in Nat /\ x \in Nat /\ y > x
    BY <1>0, <1>4
  <2>2. Past(y) \in F
    BY <2>1
  <2>3. Past(y) \subseteq U /\ y \notin Past(y)
    <3>1. \A z \in Past(y) : z \in U
      BY <1>0, <1>4, <2>1
    <3>2. ~(y > y)
      BY <2>1
    <3>. QED  BY <3>1, <3>2
  <2>4. U \in SUBSET S
    BY <1>4
  <2>. HIDE DEF F, Past
  <2>5. <<Past(y), U>> \in StrictSubsetOrdering(S)
    BY <2>3, <2>4 DEF StrictSubsetOrdering
  <2>. QED  BY <1>3, <2>2, <2>5
<1>6. \A y \in S : x >= y
  BY <1>4, <1>5
<1>. QED  BY <1>4, <1>6 DEF Max

\* The elements of a set, in some order.
LEMMA SeqOfSet ==
    ASSUME NEW S, IsFiniteSet(S)
    PROVE  /\ SetToSeq(S) \in Seq(S)
           /\ Len(SetToSeq(S)) = Cardinality(S)
           /\ \A x \in S : \E i \in 1 .. Len(SetToSeq(S)) : SetToSeq(S)[i] = x
<1>1. Cardinality(S) \in Nat /\ ExistsBijection(1 .. Cardinality(S), S)
  BY FS_CardinalityType
<1>2. PICK b : b \in Bijection(1 .. Cardinality(S), S)
  BY <1>1, Fun_ExistsBij
<1>3. b \in [1 .. Cardinality(S) -> S] /\ IsInjective(b)
  BY <1>2 DEF Bijection, Injection
<1>. DEFINE q == SetToSeq(S)
<1>4. q \in [1 .. Cardinality(S) -> S] /\ IsInjective(q)
  BY <1>3 DEF SetToSeq
<1>. HIDE DEF q
<1>5. q \in Seq(S) /\ Len(q) = Cardinality(S)
  BY <1>1, <1>4
<1>. DEFINE R == {q[i] : i \in 1 .. Len(q)}
<1>6. R \subseteq S
  BY <1>4, <1>5
<1>7. Cardinality(R) = Cardinality(S)
  <2>1. q \in Bijection(1 .. Len(q), R)
    <3>1. q \in [1 .. Len(q) -> R]
      BY <1>4, <1>5
    <3>2. \A i, j \in 1 .. Len(q) : q[i] = q[j] => i = j
      BY <1>4, <1>5 DEF IsInjective
    <3>. QED  BY <3>1, <3>2, Fun_IsBij
  <2>2. ExistsBijection(1 .. Len(q), R)
    BY <2>1, Fun_ExistsBij
  <2>. HIDE DEF R
  <2>. QED  BY <1>1, <1>5, <2>2, FS_CountingElements, FS_NatBijection
<1>8. R = S
  BY <1>6, <1>7, FS_Subset
<1>. QED  BY <1>5, <1>8 DEF q

\* What a function gives for the elements of a finite set is finitely much.
LEMMA FiniteImage ==
    ASSUME NEW S, IsFiniteSet(S), NEW f, DOMAIN f = S, f = [x \in S |-> f[x]]
    PROVE  IsFiniteSet({f[x] : x \in S})
<1>1. f \in Surjection(S, {f[x] : x \in S})
  BY DEF Surjection
<1>. QED  BY <1>1, FS_Surjection

-----------------------------------------------------------------------------
\* The values

Grounds == {Mark[x] : x \in Txns \cup Recs} \cup {None, "info"}
Item == [type : Buckets, txn : Txns \cup {None}, rec : Recs \cup {None},
         status : Undecided \cup Decided, mark : Grounds]
Counts == [matched : Nat, missing : Nat, calls : Nat, carried : Nat]
Run == [at : {"queued", "lost", "read", "doomed", "done", "failed"},
        seen : SUBSET Item, items : Seq(Item), stats : Counts]

Queries == [run : Nat, bucket : Buckets, filter : Filters]
Places  == Nat \X Nat
Shown   == [id : Places, item : Item]
Pages   == [known : BOOLEAN, error : BOOLEAN,
            list : Seq([status : {"completed", "failed", "running"}, stats : Counts]),
            selected : Nat, tab : Buckets, filter : Filters,
            items : [known : BOOLEAN, rows : SUBSET Shown, error : BOOLEAN],
            drawer : Places, pending : BOOLEAN, creating : BOOLEAN]

Link == [rec : Recs, txn : Txns \cup {None}]
Asks(c) == /\ c = [at |-> c.at, kind |-> c.kind, id |-> c.id, what |-> c.what, of |-> c.of]
           /\ c.at \in {"sent", "ok", "error"} /\ c.kind \in {"create", "decide", "link"}
           /\ c.id \in Places /\ c.of \in Queries

-----------------------------------------------------------------------------
\* The invariant

\* Decisions by what they are about: one for each.
Unlike(seen) == \A a, b \in seen : Key(a) = Key(b) => a = b

\* A call that is linked in these findings is not unmatched in them.
LinksResolved(items) == \A i, j \in 1 .. Len(items) :
    items[i].status = "manual_linked" /\ items[j].rec = items[i].rec => items[j].status # "unmatched"

WellRun(run) == /\ run.at # "done" => run.items = <<>>
                /\ IsFiniteSet(run.seen) /\ Unlike(run.seen)
                /\ run.stats.carried = 0 => LinksResolved(run.items)

RunsOK(rs) == /\ rs \in Seq(Run) /\ Len(rs) <= MaxRuns
              /\ \A r \in 1 .. Len(rs) : WellRun(rs[r])

\* A finding that there is.
Held(id, rs) == id[1] \in 1 .. Len(rs) /\ id[2] \in 1 .. Len(rs[id[1]].items)

PageOK(pg, rs) == /\ pg \in Pages
                  /\ pg.selected \in 0 .. Len(rs)
                  /\ Len(pg.list) <= Len(rs)
                  /\ \A row \in pg.items.rows : Held(row.id, rs)

LoadsOK(ls, rs) == \A q \in ls : q \in Queries /\ q.run \in 1 .. Len(rs)

\* A review is about a finding that there is; what is created is a run.
CallOK(c, rs) ==
    \/ c = Idle
    \/ /\ Asks(c)
       /\ c.kind \in {"decide", "link"} => /\ Held(c.id, rs)
                                           /\ c.of.run \in 1 .. Len(rs)
                                           /\ c.at = "ok" => c.what \in Item
       /\ c.kind = "link" /\ c.at = "sent" => c.what \in Link
       /\ c.kind = "create" /\ c.at = "ok" => c.what \in 1 .. Len(rs)

ReconInv == /\ RunsOK(runs)
            /\ PageOK(page, runs) /\ LoadsOK(loads, runs) /\ CallOK(call, runs)
            /\ asked \in BOOLEAN

-----------------------------------------------------------------------------
\* What a run finds

Pair(p, t)    == Finding("matched", t, p[t].rec, p[t].status, None)
Alone(t)      == Finding("txn_no_recording", t, None, "unmatched", Mark[t])
Unclaimed(r)  == Finding("recording_no_txn", None, r, "unmatched", Mark[r])

LEMMA EngineTyped ==
    ASSUME NEW p \in Proposals
    PROVE  /\ IsFiniteSet(Engine(p)) /\ Engine(p) \subseteq Item
           /\ \A item \in Engine(p) : item.status # "manual_linked"
<1>. DEFINE A == {Pair(p, t) : t \in Txns \ Missing(p)}
            B == {Alone(t) : t \in Missing(p)}
            C == {Unclaimed(r) : r \in Silent(p)}
<1>1. Engine(p) = A \cup B \cup C
  BY DEF Engine, Pair, Alone, Unclaimed
<1>2. p \in [Txns -> [rec : Recs \cup {None}, status : {"auto_matched", "needs_review"}]]
  BY TradeDeskAssumption
<1>3. Missing(p) \subseteq Txns /\ Silent(p) \subseteq Recs
  BY DEF Missing, Silent
<1>4. IsFiniteSet(A)
  <2>. DEFINE f == [t \in Txns \ Missing(p) |-> Pair(p, t)]
  <2>1. IsFiniteSet(Txns \ Missing(p))
    BY TradeDeskAssumption, FS_Subset
  <2>2. IsFiniteSet({f[t] : t \in Txns \ Missing(p)})
    BY <2>1, FiniteImage
  <2>. QED  BY <2>2
<1>5. IsFiniteSet(B)
  <2>. DEFINE f == [t \in Missing(p) |-> Alone(t)]
  <2>1. IsFiniteSet(Missing(p))
    BY <1>3, TradeDeskAssumption, FS_Subset
  <2>2. IsFiniteSet({f[t] : t \in Missing(p)})
    BY <2>1, FiniteImage
  <2>. QED  BY <2>2
<1>6. IsFiniteSet(C)
  <2>. DEFINE f == [r \in Silent(p) |-> Unclaimed(r)]
  <2>1. IsFiniteSet(Silent(p))
    BY <1>3, TradeDeskAssumption, FS_Subset
  <2>2. IsFiniteSet({f[r] : r \in Silent(p)})
    BY <2>1, FiniteImage
  <2>. QED  BY <2>2
<1>7. \A item \in A : item \in Item /\ item.status # "manual_linked"
  <2>. SUFFICES ASSUME NEW t \in Txns
                PROVE  Pair(p, t) \in Item /\ Pair(p, t).status # "manual_linked"
    OBVIOUS
  <2>1. p[t].rec \in Recs \cup {None} /\ p[t].status \in {"auto_matched", "needs_review"}
    BY <1>2
  <2>2. None \in Grounds
    BY DEF Grounds
  <2>. QED  BY <2>1, <2>2 DEF Pair, Finding, Item, Buckets, Undecided
<1>8. \A item \in B : item \in Item /\ item.status # "manual_linked"
  <2>. SUFFICES ASSUME NEW t \in Txns
                PROVE  Alone(t) \in Item /\ Alone(t).status # "manual_linked"
    BY <1>3
  <2>1. Mark[t] \in Grounds
    BY DEF Grounds
  <2>. QED  BY <2>1 DEF Alone, Finding, Item, Buckets, Undecided
<1>9. \A item \in C : item \in Item /\ item.status # "manual_linked"
  <2>. SUFFICES ASSUME NEW r \in Recs
                PROVE  Unclaimed(r) \in Item /\ Unclaimed(r).status # "manual_linked"
    BY <1>3
  <2>1. Mark[r] \in Grounds
    BY DEF Grounds
  <2>. QED  BY <2>1 DEF Unclaimed, Finding, Item, Buckets, Undecided
<1>. HIDE DEF A, B, C
<1>10. IsFiniteSet(A \cup B) /\ IsFiniteSet((A \cup B) \cup C)
  BY <1>4, <1>5, <1>6, FS_Union
<1>. QED  BY <1>1, <1>7, <1>8, <1>9, <1>10

\* A finding keeps what it is about when a decision on it is applied; it
\* keeps everything when there is none.
LEMMA Applied ==
    ASSUME NEW item \in Item, NEW seen \in SUBSET Item
    PROVE  /\ Apply(item, seen) \in Item /\ Key(Apply(item, seen)) = Key(item)
           /\ (\A o \in seen : Key(o) # Key(item)) => Apply(item, seen) = item
           /\ \A o \in seen : Unlike(seen) /\ Key(o) = Key(item) => Apply(item, seen).status = o.status
<1>. DEFINE old == {o \in seen : Key(o) = Key(item)}
<1>1. CASE old = {}
  <2>1. Apply(item, seen) = item
    BY <1>1 DEF Apply
  <2>2. \A o \in seen : Key(o) # Key(item)
    BY <1>1
  <2>. QED  BY <2>1, <2>2
<1>2. CASE old # {}
  <2>. DEFINE c == CHOOSE o \in old : TRUE
  <2>1. c \in old
    BY <1>2
  <2>2. Apply(item, seen) = [item EXCEPT !.status = c.status]
    BY <1>2 DEF Apply
  <2>3. c \in seen /\ Key(c) = Key(item)
    BY <2>1
  <2>. HIDE DEF c
  <2>4. Apply(item, seen) \in Item /\ Apply(item, seen).status = c.status
    BY <2>2, <2>3 DEF Item
  <2>5. Key(Apply(item, seen)) = Key(item)
    BY <2>2 DEF Key, Item
  <2>6. \A o \in seen : Unlike(seen) /\ Key(o) = Key(item) => o = c
    BY <2>3 DEF Unlike
  <2>. QED  BY <2>3, <2>4, <2>5, <2>6
<1>. QED  BY <1>1, <1>2

\* The pairs a reviewer confirmed or linked, among the findings of a run.
Includes(items, old) == \E i \in 1 .. Len(items) :
    /\ items[i].txn = old.txn /\ items[i].rec = old.rec
    /\ items[i].status \in {"confirmed", "manual_linked"}
PairsKept(seen, items) == \A old \in seen :
    old.status \in {"confirmed", "manual_linked"} => Includes(items, old)

\* The findings of a run: those the engine proposes, then what a reviewer has
\* paired and the engine does not propose.
LEMMA ItemsOfRun ==
    ASSUME NEW p \in Proposals, NEW seen \in SUBSET Item, IsFiniteSet(seen), Unlike(seen)
    PROVE  /\ Items(p, seen) \in Seq(Item)
           /\ Stats(p, seen) \in Counts
           /\ Stats(p, seen).carried = 0 =>
                /\ LinksResolved(Items(p, seen))
                /\ \A i \in 1 .. Len(Items(p, seen)) : Items(p, seen)[i].status # "manual_linked"
           /\ PairsKept(seen, Items(p, seen))
<1>. DEFINE E    == Engine(p)
            news == {Apply(item, seen) : item \in E}
            stay == {o \in seen : Survives(o, p)}
            also == {o \in seen : Survives(o, p) \/ Key(o) \in {Key(i) : i \in E}}
            s    == SetToSeq(news)
            rest == SetToSeq(stay)
            t    == [i \in DOMAIN rest |-> AsMatched(rest[i])]
            q    == s \o t
<1>1. IsFiniteSet(E) /\ E \subseteq Item /\ \A item \in E : item.status # "manual_linked"
  BY EngineTyped
<1>2. IsFiniteSet(news)
  <2>. DEFINE f == [item \in E |-> Apply(item, seen)]
  <2>. HIDE DEF E
  <2>1. IsFiniteSet({f[item] : item \in E})
    BY <1>1, FiniteImage
  <2>. QED  BY <2>1
<1>3. news \subseteq Item
  BY <1>1, Applied
<1>4. stay \in SUBSET seen /\ also \in SUBSET seen
  OBVIOUS
<1>5. IsFiniteSet(stay) /\ IsFiniteSet(also)
  <2>. HIDE DEF stay, also
  <2>. QED  BY <1>4, FS_Subset
<1>6. /\ s \in Seq(news) /\ s \in Seq(Item) /\ Len(s) \in Nat
      /\ \A x \in news : \E i \in 1 .. Len(s) : s[i] = x
  <2>. HIDE DEF news
  <2>1. /\ s \in Seq(news)
        /\ \A x \in news : \E i \in 1 .. Len(s) : s[i] = x
    BY <1>2, SeqOfSet
  <2>. HIDE DEF s
  <2>. QED  BY <1>3, <2>1
<1>7. /\ rest \in Seq(stay) /\ rest \in Seq(Item) /\ Len(rest) = Cardinality(stay) /\ Len(rest) \in Nat
      /\ \A x \in stay : \E i \in 1 .. Len(rest) : rest[i] = x
  <2>. HIDE DEF stay
  <2>1. /\ rest \in Seq(stay) /\ Len(rest) = Cardinality(stay)
        /\ \A x \in stay : \E i \in 1 .. Len(rest) : rest[i] = x
    BY <1>5, SeqOfSet
  <2>. HIDE DEF rest
  <2>. QED  BY <1>4, <2>1
<1>8. /\ t \in Seq(Item) /\ Len(t) = Len(rest)
      /\ \A i \in 1 .. Len(t) : t[i] = AsMatched(rest[i])
  <2>. HIDE DEF rest
  <2>1. \A i \in 1 .. Len(rest) : AsMatched(rest[i]) \in Item
    <3>. SUFFICES ASSUME NEW i \in 1 .. Len(rest)
                  PROVE  AsMatched(rest[i]) \in Item
      OBVIOUS
    <3>1. rest[i] \in Item
      BY <1>7
    <3>. QED  BY <3>1 DEF AsMatched, Item, Buckets
  <2>2. DOMAIN rest = 1 .. Len(rest)
    BY <1>7
  <2>. DEFINE n == Len(rest)
  <2>3. n \in Nat /\ t \in [1 .. n -> Item] /\ \A i \in 1 .. n : t[i] = AsMatched(rest[i])
    BY <1>7, <2>1, <2>2
  <2>. HIDE DEF n, t
  <2>4. t \in Seq(Item) /\ Len(t) = n
    BY <2>3
  <2>. QED  BY <2>3, <2>4 DEF n
<1>9. Items(p, seen) = q
  BY DEF Items
<1>. HIDE DEF s, t, rest
<1>10. /\ q \in Seq(Item) /\ Len(q) = Len(s) + Len(t)
       /\ \A i \in 1 .. Len(s) + Len(t) : q[i] = IF i <= Len(s) THEN s[i] ELSE t[i - Len(s)]
  BY <1>6, <1>8, ConcatProperties
<1>11. Stats(p, seen) \in Counts /\ Stats(p, seen).carried = Cardinality(also)
  <2>1. IsFiniteSet(Txns \ Missing(p)) /\ IsFiniteSet(Missing(p)) /\ IsFiniteSet(Silent(p))
    <3>1. /\ Txns \ Missing(p) \in SUBSET Txns /\ Missing(p) \in SUBSET Txns
          /\ Silent(p) \in SUBSET Recs
      BY DEF Missing, Silent
    <3>. QED  BY <3>1, TradeDeskAssumption, FS_Subset
  <2>2. /\ Cardinality(Txns \ Missing(p)) \in Nat /\ Cardinality(Missing(p)) \in Nat
        /\ Cardinality(Silent(p)) \in Nat /\ Cardinality(also) \in Nat
    <3>. HIDE DEF also
    <3>. QED  BY <1>5, <2>1, FS_CardinalityType
  <2>3. Stats(p, seen) = [matched |-> Cardinality(Txns \ Missing(p)), missing |-> Cardinality(Missing(p)),
                          calls |-> Cardinality(Silent(p)), carried |-> Cardinality(also)]
    BY DEF Stats
  <2>. HIDE DEF also
  <2>. QED  BY <2>2, <2>3 DEF Counts
<1>12. ASSUME Cardinality(also) = 0
       PROVE  \A i \in 1 .. Len(q) : q[i].status # "manual_linked"
  <2>1. also = {}
    <3>. HIDE DEF also
    <3>. QED  BY <1>5, <1>12, FS_EmptySet
  <2>2. stay = {} /\ \A item \in E : \A o \in seen : Key(o) # Key(item)
    BY <2>1
  <2>3. news \subseteq E
    <3>1. \A item \in E : Apply(item, seen) = item
      BY <1>1, <2>2, Applied
    <3>. QED  BY <3>1
  <2>4. Len(t) = 0
    <3>1. Cardinality(stay) = 0
      BY <2>2, FS_EmptySet
    <3>. HIDE DEF stay
    <3>. QED  BY <1>7, <1>8, <3>1
  <2>5. \A i \in 1 .. Len(s) : s[i] \in news
    <3>. HIDE DEF news
    <3>. QED  BY <1>6
  <2>6. \A i \in 1 .. Len(q) : q[i] = s[i] /\ i \in 1 .. Len(s)
    <3>. HIDE DEF q
    <3>. QED  BY <1>6, <1>10, <2>4
  <2>. HIDE DEF news, q, E
  <2>. QED  BY <1>1, <2>3, <2>5, <2>6
<1>13. PairsKept(seen, q)
  <2>. SUFFICES ASSUME NEW old \in seen, old.status \in {"confirmed", "manual_linked"}
                PROVE  Includes(q, old)
    BY DEF PairsKept
  <2>1. old \in Item
    OBVIOUS
  <2>2. CASE Survives(old, p)
    <3>1. PICK k \in 1 .. Len(rest) : rest[k] = old
      BY <1>7, <2>2
    <3>2. Len(s) + k \in 1 .. Len(q) /\ q[Len(s) + k] = AsMatched(old)
      <4>1. k \in 1 .. Len(t) /\ t[k] = AsMatched(old)
        BY <1>8, <3>1
      <4>. DEFINE m == Len(s) + k
      <4>2. m \in 1 .. Len(s) + Len(t) /\ ~(m <= Len(s)) /\ m - Len(s) = k
        BY <1>6, <1>7, <1>8, <4>1
      <4>. HIDE DEF q, m
      <4>3. m \in 1 .. Len(q) /\ q[m] = t[k]
        BY <1>10, <4>2
      <4>. QED  BY <4>1, <4>3 DEF m
    <3>3. /\ AsMatched(old).txn = old.txn /\ AsMatched(old).rec = old.rec
          /\ AsMatched(old).status = old.status
      BY <2>1 DEF AsMatched, Item
    <3>. HIDE DEF q
    <3>. QED  BY <3>2, <3>3 DEF Includes
  <2>3. CASE ~Survives(old, p)
    <3>1. PICK item \in E : Key(item) = Key(old)
      <4>1. Key(old) \in {Key(i) : i \in E}
        BY <2>3 DEF Survives
      <4>. QED  BY <4>1
    <3>. DEFINE new == Apply(item, seen)
    <3>2. item \in Item
      BY <1>1
    <3>3. new \in Item /\ Key(new) = Key(old) /\ new.status = old.status
      BY <3>1, <3>2, Applied
    <3>4. new \in news
      OBVIOUS
    <3>5. PICK i \in 1 .. Len(s) : s[i] = new
      <4>. HIDE DEF news, new
      <4>. QED  BY <1>6, <3>4
    <3>. HIDE DEF new, q
    <3>6. i \in 1 .. Len(q) /\ q[i] = new
      BY <1>6, <1>7, <1>8, <1>10, <3>5
    <3>7. new.txn = old.txn /\ new.rec = old.rec
      BY <3>3 DEF Key
    <3>. QED  BY <3>3, <3>6, <3>7 DEF Includes
  <2>. QED  BY <2>2, <2>3
<1>14. Cardinality(also) = 0 => LinksResolved(q)
  <2>. HIDE DEF q, also
  <2>. QED  BY <1>12 DEF LinksResolved
<1>. HIDE DEF q, also
<1>. QED  BY <1>9, <1>10, <1>11, <1>12, <1>13, <1>14

-----------------------------------------------------------------------------
\* The runs

Grows(rs, new) == /\ Len(rs) <= Len(new)
                  /\ \A r \in 1 .. Len(rs) : Len(rs[r].items) <= Len(new[r].items)
Carries(rs, new) == \A r \in 1 .. Len(rs) :
    rs[r].at = "read" /\ new[r].at = "done" => PairsKept(rs[r].seen, new[r].items)
\* What every step does to the runs.
Onward(rs, new) == RunsOK(new) /\ Grows(rs, new) /\ Carries(rs, new)

LEMMA RunTyped ==
    ASSUME NEW rs \in Seq(Run), NEW r \in 1 .. Len(rs)
    PROVE  rs[r] \in Run /\ rs[r].items \in Seq(Item) /\ Len(rs[r].items) \in Nat
<1>1. rs[r] \in Run
  BY ElementOfSeq
<1>2. rs[r].items \in Seq(Item)
  BY <1>1 DEF Run
<1>. QED  BY <1>1, <1>2, LenProperties

LEMMA OneRun ==
    ASSUME NEW rs, RunsOK(rs), NEW r \in 1 .. Len(rs), NEW run \in Run, WellRun(run),
           Len(rs[r].items) <= Len(run.items),
           rs[r].at = "read" /\ run.at = "done" => PairsKept(rs[r].seen, run.items)
    PROVE  Onward(rs, [rs EXCEPT ![r] = run])
<1>. DEFINE new == [rs EXCEPT ![r] = run]
<1>1. rs \in Seq(Run) /\ Len(rs) \in Nat
  BY DEF RunsOK
<1>2. /\ new \in Seq(Run) /\ Len(new) = Len(rs)
      /\ \A q \in 1 .. Len(rs) : new[q] = IF q = r THEN run ELSE rs[q]
  BY <1>1, ExceptSeq
<1>. HIDE DEF new
<1>3. RunsOK(new)
  BY <1>2 DEF RunsOK
<1>4. \A q \in 1 .. Len(rs) : Len(rs[q].items) \in Nat
  BY <1>1, RunTyped
<1>5. Grows(rs, new)
  BY <1>1, <1>2, <1>4 DEF Grows
<1>6. Carries(rs, new)
  BY <1>2 DEF Carries
<1>. QED  BY <1>3, <1>5, <1>6 DEF Onward, new

LEMMA OneMore ==
    ASSUME NEW rs, RunsOK(rs), Len(rs) < MaxRuns, NEW at \in {"queued", "lost"}
    PROVE  Onward(rs, Append(rs, NewRun(at)))
<1>. DEFINE run == NewRun(at)
            new == Append(rs, run)
<1>1. rs \in Seq(Run) /\ Len(rs) \in Nat /\ MaxRuns \in Nat
  BY TradeDeskAssumption DEF RunsOK
<1>2. run \in Run
  BY DEF NewRun, NoStats, Run, Counts
<1>3. WellRun(run)
  <2>1. run.items = <<>> /\ run.seen = {}
    BY DEF NewRun
  <2>2. Len(run.items) = 0
    BY <2>1
  <2>. HIDE DEF run
  <2>. QED  BY <2>1, <2>2, FS_EmptySet DEF WellRun, Unlike, LinksResolved
<1>. HIDE DEF run
<1>4. /\ new \in Seq(Run) /\ Len(new) = Len(rs) + 1
      /\ \A q \in 1 .. Len(rs) : new[q] = rs[q]
      /\ new[Len(rs) + 1] = run
  BY <1>1, <1>2, AppendProperties
<1>. HIDE DEF new
<1>5. RunsOK(new)
  <2>1. \A q \in 1 .. Len(rs) : WellRun(new[q])
    BY <1>4 DEF RunsOK
  <2>2. \A q \in 1 .. Len(new) : q \in 1 .. Len(rs) \/ q = Len(rs) + 1
    BY <1>1, <1>4
  <2>. QED  BY <1>1, <1>3, <1>4, <2>1, <2>2 DEF RunsOK
<1>6. Grows(rs, new)
  <2>1. \A q \in 1 .. Len(rs) : Len(rs[q].items) \in Nat
    BY <1>1, RunTyped
  <2>. QED  BY <1>1, <1>4, <2>1 DEF Grows
<1>7. Carries(rs, new)
  BY <1>4 DEF Carries
<1>. QED  BY <1>5, <1>6, <1>7 DEF Onward, new, run

\* The decisions that a run takes over.
LEMMA CarriedTyped ==
    ASSUME RunsOK(runs), NEW r \in DOMAIN runs, NEW seen \in Carried(r)
    PROVE  seen \in SUBSET Item /\ IsFiniteSet(seen) /\ Unlike(seen)
<1>1. runs \in Seq(Run) /\ Len(runs) \in Nat /\ DOMAIN runs = 1 .. Len(runs)
  BY DEF RunsOK
<1>2. /\ seen \in SUBSET DecidedOf(r)
      /\ \A item \in DecidedOf(r) : Cardinality({i \in seen : Key(i) = Key(item)}) = 1
  BY DEF Carried
<1>3. DecidedOf(r) \subseteq Item /\ IsFiniteSet(DecidedOf(r))
  <2>1. CASE Previous(r) = {}
    BY <2>1, FS_EmptySet DEF DecidedOf
  <2>2. CASE Previous(r) # {}
    <3>1. Max(Previous(r)) \in 1 .. Len(runs)
      <4>1. Previous(r) \in SUBSET (1 .. Len(runs))
        BY <1>1 DEF Previous
      <4>. QED  BY <1>1, <2>2, <4>1, LastPlace
    <3>. DEFINE items == runs[Max(Previous(r))].items
    <3>2. items \in Seq(Item)
      BY <1>1, <3>1, RunTyped
    <3>3. DecidedOf(r) = {item \in ToSet(items) : item.status \in Decided}
      BY <2>2 DEF DecidedOf
    <3>. HIDE DEF items
    <3>4. DOMAIN items = 1 .. Len(items) /\ Len(items) \in Nat /\ items = [i \in 1 .. Len(items) |-> items[i]]
      BY <3>2
    <3>5. IsFiniteSet(1 .. Len(items))
      <4>1. 1 \in Int /\ Len(items) \in Int
        BY <3>4
      <4>. QED  BY <4>1, FS_Interval
    <3>6. IsFiniteSet({items[i] : i \in 1 .. Len(items)})
      BY <3>4, <3>5, FiniteImage
    <3>7. ToSet(items) = {items[i] : i \in 1 .. Len(items)} /\ ToSet(items) \subseteq Item
      BY <3>2, <3>4 DEF ToSet
    <3>8. DecidedOf(r) \in SUBSET ToSet(items)
      BY <3>3
    <3>. QED  BY <3>6, <3>7, <3>8, FS_Subset
  <2>. QED  BY <2>1, <2>2
<1>4. IsFiniteSet(seen)
  BY <1>2, <1>3, FS_Subset
<1>5. Unlike(seen)
  <2>. SUFFICES ASSUME NEW a \in seen, NEW b \in seen, Key(a) = Key(b)
                PROVE  a = b
    BY DEF Unlike
  <2>. DEFINE alike == {i \in seen : Key(i) = Key(a)}
  <2>1. alike \in SUBSET seen /\ a \in alike /\ b \in alike
    OBVIOUS
  <2>2. Cardinality(alike) = 1
    BY <1>2
  <2>. HIDE DEF alike
  <2>3. \E x : alike = {x}
    BY <1>4, <2>1, <2>2, FS_Subset, FS_Singleton
  <2>. QED  BY <2>1, <2>3
<1>. QED  BY <1>2, <1>3, <1>4, <1>5

LEMMA ReconcileOnward ==
    ASSUME RunsOK(runs), Reconcile \/ Redeliver
    PROVE  Onward(runs, runs')
<1>1. runs \in Seq(Run) /\ DOMAIN runs = 1 .. Len(runs)
  BY DEF RunsOK
<1>2. ASSUME NEW r \in 1 .. Len(runs)
      PROVE  /\ runs[r] \in Run /\ WellRun(runs[r])
             /\ runs[r].items \in Seq(Item) /\ Len(runs[r].items) \in Nat
             /\ Len(runs[r].items) <= Len(runs[r].items)
  <2>1. runs[r] \in Run /\ WellRun(runs[r])
    BY <1>1 DEF RunsOK
  <2>2. runs[r].items \in Seq(Item)
    BY <2>1 DEF Run
  <2>. QED  BY <2>1, <2>2
<1>3. ASSUME NEW r \in 1 .. Len(runs), ReadRun(r)
      PROVE  Onward(runs, runs')
  <2>1. PICK seen \in Carried(r) : runs' = [runs EXCEPT ![r].at = "read", ![r].seen = seen]
    BY <1>3 DEF ReadRun
  <2>2. seen \in SUBSET Item /\ IsFiniteSet(seen) /\ Unlike(seen)
    BY <1>1, CarriedTyped
  <2>. DEFINE run == [runs[r] EXCEPT !.at = "read", !.seen = seen]
  <2>3. /\ run \in Run /\ run.items = runs[r].items /\ run.stats = runs[r].stats
        /\ run.at = "read" /\ run.seen = seen
    BY <1>2, <2>2 DEF Run
  <2>4. runs[r].items = <<>>
    BY <1>2, <1>3 DEF ReadRun, WellRun
  <2>5. runs' = [runs EXCEPT ![r] = run]
    BY <1>1, <2>1
  <2>. HIDE DEF run
  <2>6. WellRun(run)
    BY <1>2, <2>2, <2>3, <2>4 DEF WellRun
  <2>. QED  BY <1>2, <2>3, <2>5, <2>6, OneRun
<1>4. ASSUME NEW r \in 1 .. Len(runs), CommitRun(r)
      PROVE  Onward(runs, runs')
  <2>1. PICK p \in Proposals : runs' = [runs EXCEPT ![r].at = "done", ![r].items = Items(p, runs[r].seen),
                                                    ![r].stats = Stats(p, runs[r].seen)]
    BY <1>4 DEF CommitRun
  <2>. DEFINE seen == runs[r].seen
              run  == [runs[r] EXCEPT !.at = "done", !.items = Items(p, seen), !.stats = Stats(p, seen)]
  <2>2. seen \in SUBSET Item /\ IsFiniteSet(seen) /\ Unlike(seen)
    BY <1>2 DEF Run, WellRun
  <2>3. runs' = [runs EXCEPT ![r] = run]
    BY <1>1, <2>1
  <2>4. /\ Items(p, seen) \in Seq(Item) /\ Stats(p, seen) \in Counts
        /\ Stats(p, seen).carried = 0 => LinksResolved(Items(p, seen))
        /\ PairsKept(seen, Items(p, seen))
    <3>. HIDE DEF seen
    <3>. QED  BY <2>2, ItemsOfRun
  <2>5. /\ run \in Run /\ run.items = Items(p, seen) /\ run.stats = Stats(p, seen)
        /\ run.at = "done" /\ run.seen = seen
    <3>. DEFINE items == Items(p, seen)
                stats == Stats(p, seen)
    <3>1. items \in Seq(Item) /\ stats \in Counts /\ runs[r] \in Run
      BY <1>2, <2>4
    <3>. HIDE DEF items, stats, seen
    <3>2. run = [runs[r] EXCEPT !.at = "done", !.items = items, !.stats = stats]
      BY DEF items, stats
    <3>. HIDE DEF run
    <3>3. /\ run \in Run /\ run.items = items /\ run.stats = stats
          /\ run.at = "done" /\ run.seen = runs[r].seen
      BY <3>1, <3>2 DEF Run
    <3>. QED  BY <3>3 DEF items, stats, seen
  <2>6. Len(runs[r].items) = 0
    BY <1>2, <1>4 DEF CommitRun, WellRun
  <2>7. Len(run.items) \in Nat
    <3>. HIDE DEF run, seen
    <3>. QED  BY <2>4, <2>5
  <2>8. PairsKept(runs[r].seen, run.items)
    BY <2>4, <2>5
  <2>. HIDE DEF run, seen
  <2>9. WellRun(run)
    BY <2>2, <2>4, <2>5 DEF WellRun
  <2>10. Len(runs[r].items) <= Len(run.items)
    BY <2>6, <2>7
  <2>. QED  BY <2>3, <2>5, <2>8, <2>9, <2>10, OneRun
<1>5. ASSUME NEW r \in 1 .. Len(runs), FailRun(r)
      PROVE  Onward(runs, runs')
  <2>. DEFINE run == [runs[r] EXCEPT !.at = "failed"]
  <2>1. /\ run \in Run /\ run.items = runs[r].items /\ run.stats = runs[r].stats
        /\ run.at = "failed" /\ run.seen = runs[r].seen
    BY <1>2 DEF Run
  <2>2. runs[r].items = <<>>
    BY <1>2, <1>5 DEF FailRun, WellRun
  <2>3. runs' = [runs EXCEPT ![r] = run]
    BY <1>1, <1>5 DEF FailRun
  <2>. HIDE DEF run
  <2>4. WellRun(run)
    BY <1>2, <2>1, <2>2 DEF WellRun
  <2>. QED  BY <1>2, <2>1, <2>3, <2>4, OneRun
<1>6. ASSUME Redeliver
      PROVE  Onward(runs, runs')
  <2>1. PICK r \in 1 .. Len(runs) : /\ runs[r].at \in {"read", "doomed"}
                                    /\ runs' = [runs EXCEPT ![r].at = "queued", ![r].seen = {}]
    BY <1>1, <1>6 DEF Redeliver
  <2>. DEFINE run == [runs[r] EXCEPT !.at = "queued", !.seen = {}]
  <2>2. /\ run \in Run /\ run.items = runs[r].items /\ run.stats = runs[r].stats
        /\ run.at = "queued" /\ run.seen = {}
    BY <1>2 DEF Run
  <2>3. runs[r].items = <<>>
    BY <1>2, <2>1 DEF WellRun
  <2>4. runs' = [runs EXCEPT ![r] = run]
    BY <1>1, <2>1
  <2>. HIDE DEF run
  <2>5. WellRun(run)
    BY <1>2, <2>2, <2>3, FS_EmptySet DEF WellRun, Unlike
  <2>. QED  BY <1>2, <2>2, <2>4, <2>5, OneRun
<1>. QED  BY <1>1, <1>3, <1>4, <1>5, <1>6 DEF Reconcile

\* An import takes the trades out of the findings there are.
LEMMA ImportOnward ==
    ASSUME RunsOK(runs), Import
    PROVE  Onward(runs, runs')
<1>. DEFINE Cut(run) == [run EXCEPT !.items = [i \in DOMAIN @ |-> [@[i] EXCEPT !.txn = None]],
                                    !.at = IF @ = "read" THEN "doomed" ELSE @]
            rs == [r \in DOMAIN runs |-> Cut(runs[r])]
<1>1. runs \in Seq(Run) /\ DOMAIN runs = 1 .. Len(runs) /\ Len(runs) \in Nat
  BY DEF RunsOK
<1>2. runs' = Append(rs, NewRun("queued")) /\ Len(runs) < MaxRuns
  BY DEF Import
<1>3. ASSUME NEW r \in 1 .. Len(runs)
      PROVE  /\ Cut(runs[r]) \in Run /\ WellRun(Cut(runs[r]))
             /\ Cut(runs[r]).at = "done" => runs[r].at # "read"
             /\ Len(Cut(runs[r]).items) = Len(runs[r].items) /\ Len(runs[r].items) \in Nat
  <2>. DEFINE run   == runs[r]
              items == run.items
              new   == [i \in DOMAIN items |-> [items[i] EXCEPT !.txn = None]]
              at    == IF run.at = "read" THEN "doomed" ELSE run.at
              cut   == [run EXCEPT !.items = new, !.at = at]
  <2>1. run \in Run /\ WellRun(run)
    BY <1>1 DEF RunsOK
  <2>2. items \in Seq(Item) /\ Len(items) \in Nat /\ DOMAIN items = 1 .. Len(items)
    BY <2>1 DEF Run
  <2>3. Cut(run) = cut
    BY <2>1 DEF Run
  <2>4. \A i \in 1 .. Len(items) : /\ new[i] \in Item /\ new[i].rec = items[i].rec
                                   /\ new[i].status = items[i].status
    <3>1. \A i \in 1 .. Len(items) : items[i] \in Item
      BY <2>2
    <3>. HIDE DEF items
    <3>. QED  BY <2>2, <3>1 DEF Item
  <2>5. new \in Seq(Item) /\ Len(new) = Len(items)
    <3>1. DOMAIN new = 1 .. Len(items)
      BY <2>2
    <3>2. new = [i \in 1 .. Len(items) |-> new[i]]
      BY <2>2
    <3>3. \A i \in 1 .. Len(items) : new[i] \in Item
      BY <2>4
    <3>4. Len(items) \in Nat
      BY <2>2
    <3>. DEFINE n == Len(items)
    <3>. HIDE DEF new, n
    <3>5. new \in [1 .. n -> Item] /\ n \in Nat
      BY <3>2, <3>3, <3>4 DEF n
    <3>6. new \in Seq(Item) /\ Len(new) = n
      BY <3>5
    <3>. QED  BY <3>6 DEF n
  <2>6. at \in {"queued", "lost", "read", "doomed", "done", "failed"}
    BY <2>1 DEF Run
  <2>7. /\ cut \in Run /\ cut.items = new /\ cut.at = at
        /\ cut.seen = run.seen /\ cut.stats = run.stats
    <3>1. cut = [run EXCEPT !.items = new, !.at = at]
      OBVIOUS
    <3>. HIDE DEF new, at, run, cut
    <3>. QED  BY <2>1, <2>5, <2>6, <3>1 DEF Run
  <2>8. LinksResolved(items) => LinksResolved(new)
    <3>. HIDE DEF new, items
    <3>. QED  BY <2>4, <2>5 DEF LinksResolved
  <2>9. at # "done" => new = <<>>
    <3>1. at # "done" => items = <<>>
      BY <2>1 DEF WellRun
    <3>2. items = <<>> => Len(new) = 0
      BY <2>5
    <3>. HIDE DEF new, items, at
    <3>. QED  BY <2>5, <3>1, <3>2, EmptySeq
  <2>10. at = "done" => run.at # "read"
    OBVIOUS
  <2>11. WellRun(cut)
    <3>. HIDE DEF cut, new, at
    <3>. QED  BY <2>1, <2>7, <2>8, <2>9 DEF WellRun
  <2>12. Cut(runs[r]) = cut
    BY <2>3
  <2>. HIDE DEF Cut, cut, new, at
  <2>. QED  BY <2>2, <2>5, <2>7, <2>10, <2>11, <2>12
<1>4. \A r \in 1 .. Len(runs) : rs[r] = Cut(runs[r])
  BY <1>1
<1>5. rs = [r \in 1 .. Len(runs) |-> rs[r]]
  BY <1>1
<1>. HIDE DEF Cut, rs
<1>6. rs \in Seq(Run) /\ Len(rs) = Len(runs)
  BY <1>1, <1>3, <1>4, <1>5
<1>7. RunsOK(rs)
  BY <1>3, <1>4, <1>6 DEF RunsOK
<1>8. Onward(rs, runs')
  BY <1>2, <1>6, <1>7, OneMore
<1>9. \A r \in 1 .. Len(rs) : runs'[r] = rs[r]
  <2>1. NewRun("queued") \in Run
    BY DEF NewRun, NoStats, Run, Counts
  <2>. QED  BY <1>2, <1>6, <2>1, AppendProperties
<1>10. RunsOK(runs')
  BY <1>8 DEF Onward
<1>11. Grows(runs, runs')
  <2>1. Len(rs) <= Len(runs') /\ \A r \in 1 .. Len(rs) : Len(rs[r].items) <= Len(runs'[r].items)
    BY <1>8 DEF Onward, Grows
  <2>. QED  BY <1>3, <1>4, <1>6, <2>1 DEF Grows
<1>12. Carries(runs, runs')
  BY <1>3, <1>4, <1>6, <1>9 DEF Carries
<1>. QED  BY <1>10, <1>11, <1>12 DEF Onward

-----------------------------------------------------------------------------
\* The API's handlers

\* Other findings in the place of those of one run.
LEMMA OtherItems ==
    ASSUME RunsOK(runs), NEW r \in 1 .. Len(runs), NEW items \in Seq(Item),
           Len(items) = Len(runs[r].items), Len(items) # 0,
           LinksResolved(runs[r].items) => LinksResolved(items),
           runs' = [runs EXCEPT ![r].items = items]
    PROVE  Onward(runs, runs') /\ runs'[r].items = items /\ Len(runs') = Len(runs)
<1>. DEFINE run == [runs[r] EXCEPT !.items = items]
<1>1. runs \in Seq(Run) /\ DOMAIN runs = 1 .. Len(runs) /\ Len(runs) \in Nat
  BY DEF RunsOK
<1>2. /\ runs[r] \in Run /\ runs[r].items \in Seq(Item) /\ WellRun(runs[r])
      /\ Len(runs[r].items) \in Nat
  BY <1>1, RunTyped DEF RunsOK
<1>3. /\ run \in Run /\ run.items = items /\ run.stats = runs[r].stats
      /\ run.at = runs[r].at /\ run.seen = runs[r].seen
  BY <1>2 DEF Run
<1>4. runs' = [runs EXCEPT ![r] = run]
  BY <1>1
<1>5. runs[r].at = "done"
  <2>1. Len(runs[r].items) # 0
    OBVIOUS
  <2>2. runs[r].items # <<>>
    BY <2>1, EmptySeq
  <2>. QED  BY <1>2, <2>2 DEF WellRun
<1>. HIDE DEF run
<1>6. WellRun(run)
  BY <1>2, <1>3, <1>5 DEF WellRun
<1>7. Len(runs[r].items) <= Len(run.items)
  BY <1>2, <1>3
<1>8. Onward(runs, runs')
  <2>1. runs[r].at = "read" /\ run.at = "done" => PairsKept(runs[r].seen, run.items)
    BY <1>5
  <2>2. Onward(runs, [runs EXCEPT ![r] = run])
    BY <1>3, <1>6, <1>7, <2>1, OneRun
  <2>. QED  BY <1>4, <2>2
<1>9. runs'[r] = run /\ Len(runs') = Len(runs)
  BY <1>1, <1>3, <1>4, ExceptSeq
<1>. QED  BY <1>3, <1>8, <1>9

LEMMA DecideOnward ==
    ASSUME RunsOK(runs), NEW id \in Places, Held(id, runs), NEW action, Decide(id, action)
    PROVE  Onward(runs, runs') /\ Len(runs') = Len(runs) /\ runs'[id[1]].items[id[2]] \in Item
<1>. DEFINE r     == id[1]
            k     == id[2]
            old   == runs[r].items
            to    == IF action = "confirm" THEN "confirmed" ELSE "rejected"
            item  == [old[k] EXCEPT !.status = to]
            items == [old EXCEPT ![k] = item]
<1>1. /\ runs \in Seq(Run) /\ DOMAIN runs = 1 .. Len(runs)
      /\ r \in 1 .. Len(runs) /\ k \in 1 .. Len(old)
  BY DEF RunsOK, Held
<1>2. runs[r] \in Run /\ old \in Seq(Item) /\ Len(old) \in Nat
  BY <1>1, RunTyped
<1>3. old[k] \in Item
  BY <1>1, <1>2, ElementOfSeq
<1>4. to \in {"confirmed", "rejected"}
  OBVIOUS
<1>5. item \in Item /\ item.status = to
  <2>. HIDE DEF old, to
  <2>. QED  BY <1>3, <1>4 DEF Item, Decided
<1>6. runs' = [runs EXCEPT ![r].items = items]
  <2>1. runs' = [runs EXCEPT ![r].items[k].status = to]
    BY DEF Decide
  <2>. QED  BY <1>1, <1>2, <2>1 DEF Run
<1>. HIDE DEF item, old, r, k, to
<1>7. /\ items \in Seq(Item) /\ Len(items) = Len(old)
      /\ \A i \in 1 .. Len(old) : items[i] = IF i = k THEN item ELSE old[i]
  BY <1>1, <1>2, <1>5, ExceptSeq
<1>. HIDE DEF items
<1>8. LinksResolved(old) => LinksResolved(items)
  BY <1>4, <1>5, <1>7 DEF LinksResolved
<1>9. Len(items) # 0
  BY <1>1, <1>2, <1>7
<1>10. Onward(runs, runs') /\ runs'[r].items = items /\ Len(runs') = Len(runs)
  BY <1>1, <1>6, <1>7, <1>8, <1>9, OtherItems DEF old
<1>11. items[k] \in Item
  BY <1>1, <1>5, <1>7
<1>. QED  BY <1>10, <1>11 DEF r, k

\* The findings about the call that is linked are linked with it.
LEMMA ManualLinkOnward ==
    ASSUME RunsOK(runs), NEW id \in Places, Held(id, runs), NEW link \in Link, ManualLink(id, link)
    PROVE  Onward(runs, runs') /\ Len(runs') = Len(runs) /\ runs'[id[1]].items[id[2]] \in Item
<1>. DEFINE r     == id[1]
            k     == id[2]
            old   == runs[r].items
            t     == TxnOf(id, link)
            item  == Finding("matched", t, link.rec, "manual_linked", "info")
            items == [i \in DOMAIN old |-> IF i = k THEN item ELSE Resolved(old[i], t, link.rec)]
<1>1. /\ runs \in Seq(Run) /\ DOMAIN runs = 1 .. Len(runs)
      /\ r \in 1 .. Len(runs) /\ k \in 1 .. Len(old)
  BY DEF RunsOK, Held
<1>2. runs[r] \in Run /\ old \in Seq(Item) /\ Len(old) \in Nat /\ DOMAIN old = 1 .. Len(old)
  BY <1>1, RunTyped
<1>3. \A i \in 1 .. Len(old) : old[i] \in Item
  BY <1>2, ElementOfSeq
<1>4. t \in Txns \cup {None} /\ link.rec \in Recs
  <2>1. old[k].txn \in Txns \cup {None}
    BY <1>1, <1>3 DEF Item
  <2>. QED  BY <2>1 DEF TxnOf, Link
<1>5. runs' = [runs EXCEPT ![r].items = items]
  BY <1>1 DEF ManualLink
<1>. HIDE DEF t, old, r, k
<1>6. item \in Item /\ item.rec = link.rec
  <2>1. "info" \in Grounds
    BY DEF Grounds
  <2>. QED  BY <1>4, <2>1 DEF Finding, Item, Buckets, Decided
<1>. HIDE DEF item
<1>7. ASSUME NEW x \in Item
      PROVE  LET y == Resolved(x, t, link.rec)
             IN  /\ y \in Item /\ y.rec = x.rec
                 /\ x.rec = link.rec => y.status # "unmatched"
                 /\ x.rec # link.rec => y.status = x.status
                 /\ y.status = "unmatched" => x.status = "unmatched"
  <2>1. CASE x.rec = link.rec /\ x.status = "unmatched"
    <3>1. Resolved(x, t, link.rec) = [x EXCEPT !.status = "manual_linked", !.txn = t]
      BY <2>1 DEF Resolved
    <3>. QED  BY <1>4, <2>1, <3>1 DEF Item, Decided
  <2>2. CASE ~(x.rec = link.rec /\ x.status = "unmatched")
    <3>1. Resolved(x, t, link.rec) = x
      BY <2>2 DEF Resolved
    <3>. QED  BY <2>2, <3>1
  <2>. QED  BY <2>1, <2>2
<1>8. /\ \A i \in 1 .. Len(old) : items[i] = IF i = k THEN item ELSE Resolved(old[i], t, link.rec)
      /\ DOMAIN items = 1 .. Len(old) /\ items = [i \in 1 .. Len(old) |-> items[i]]
  BY <1>2
<1>. HIDE DEF items
<1>9. \A i \in 1 .. Len(old) : items[i] \in Item
  BY <1>3, <1>6, <1>7, <1>8
<1>10. items \in Seq(Item) /\ Len(items) = Len(old)
  <2>. DEFINE n == Len(old)
  <2>1. n \in Nat /\ items \in [1 .. n -> Item]
    BY <1>2, <1>8, <1>9
  <2>. HIDE DEF n
  <2>2. items \in Seq(Item) /\ Len(items) = n
    BY <2>1
  <2>. QED  BY <2>2 DEF n
<1>11. LinksResolved(old) => LinksResolved(items)
  <2>. SUFFICES ASSUME LinksResolved(old), NEW i \in 1 .. Len(old), NEW j \in 1 .. Len(old),
                       items[i].status = "manual_linked", items[j].rec = items[i].rec,
                       items[j].status = "unmatched"
                PROVE  FALSE
    BY <1>10 DEF LinksResolved
  <2>1. item.status = "manual_linked"
    BY DEF item, Finding
  <2>2. j # k
    BY <1>8, <2>1
  <2>3. items[j] = Resolved(old[j], t, link.rec) /\ old[j] \in Item
    BY <1>3, <1>8, <2>2
  <2>4. old[j].rec # link.rec /\ old[j].status = "unmatched" /\ items[j].rec = old[j].rec
    BY <1>7, <2>3
  <2>5. i # k
    BY <1>6, <1>8, <2>4
  <2>6. items[i] = Resolved(old[i], t, link.rec) /\ old[i] \in Item
    BY <1>3, <1>8, <2>5
  <2>7. old[i].rec = old[j].rec /\ old[i].status = "manual_linked"
    <3>1. items[i].rec = old[i].rec
      BY <1>7, <2>6
    <3>2. old[i].rec # link.rec
      BY <2>4, <3>1
    <3>3. items[i].status = old[i].status
      BY <1>7, <2>6, <3>2
    <3>. QED  BY <2>4, <3>1, <3>3
  <2>. QED  BY <2>4, <2>7 DEF LinksResolved
<1>12. Len(items) # 0
  BY <1>1, <1>2, <1>10
<1>13. Onward(runs, runs') /\ runs'[r].items = items /\ Len(runs') = Len(runs)
  BY <1>1, <1>5, <1>10, <1>11, <1>12, OtherItems DEF old
<1>14. items[k] \in Item
  BY <1>1, <1>9
<1>. QED  BY <1>13, <1>14 DEF r, k

\* What was there stays so.
LEMMA StillThere ==
    ASSUME NEW rs, NEW new, RunsOK(rs), RunsOK(new), Grows(rs, new)
    PROVE  /\ \A id \in Places : Held(id, rs) => Held(id, new)
           /\ \A pg : PageOK(pg, rs) => PageOK(pg, new)
           /\ \A ls : LoadsOK(ls, rs) => LoadsOK(ls, new)
           /\ \A c : CallOK(c, rs) => CallOK(c, new)
<1>1. rs \in Seq(Run) /\ new \in Seq(Run) /\ Len(rs) \in Nat /\ Len(new) \in Nat /\ Len(rs) <= Len(new)
  BY DEF RunsOK, Grows
<1>2. \A id \in Places : Held(id, rs) => Held(id, new)
  <2>. SUFFICES ASSUME NEW id \in Places, Held(id, rs)
                PROVE  Held(id, new)
    OBVIOUS
  <2>1. id[1] \in 1 .. Len(rs) /\ id[1] \in 1 .. Len(new)
    BY <1>1 DEF Held
  <2>2. Len(rs[id[1]].items) \in Nat /\ Len(new[id[1]].items) \in Nat
    BY <1>1, <2>1, RunTyped
  <2>3. Len(rs[id[1]].items) <= Len(new[id[1]].items)
    BY <2>1 DEF Grows
  <2>4. id[2] \in 1 .. Len(rs[id[1]].items)
    BY DEF Held
  <2>. QED  BY <2>1, <2>2, <2>3, <2>4 DEF Held
<1>3. ASSUME NEW pg, PageOK(pg, rs)
      PROVE  PageOK(pg, new)
  <2>1. \A row \in pg.items.rows : row.id \in Places
    BY <1>3 DEF PageOK, Pages, Shown
  <2>2. Len(pg.list) \in Nat
    <3>1. pg.list \in Seq([status : {"completed", "failed", "running"}, stats : Counts])
      BY <1>3 DEF PageOK, Pages
    <3>. QED  BY <3>1, LenProperties
  <2>. QED  BY <1>1, <1>2, <1>3, <2>1, <2>2 DEF PageOK
<1>4. ASSUME NEW ls, LoadsOK(ls, rs)
      PROVE  LoadsOK(ls, new)
  BY <1>1, <1>4 DEF LoadsOK
<1>5. ASSUME NEW c, CallOK(c, rs)
      PROVE  CallOK(c, new)
  BY <1>1, <1>2, <1>5 DEF CallOK, Asks
<1>. QED  BY <1>2, <1>3, <1>4, <1>5

LEMMA ServeCallKeeps ==
    ASSUME ReconInv, ServeCall
    PROVE  Onward(runs, runs') /\ CallOK(call', runs')
<1>1. RunsOK(runs) /\ CallOK(call, runs) /\ call.at = "sent"
  BY DEF ReconInv, ServeCall
<1>2. /\ call = [at |-> call.at, kind |-> call.kind, id |-> call.id, what |-> call.what, of |-> call.of]
      /\ call.kind \in {"create", "decide", "link"} /\ call.id \in Places /\ call.of \in Queries
      /\ call.kind \in {"decide", "link"} => Held(call.id, runs) /\ call.of.run \in 1 .. Len(runs)
      /\ call.kind = "link" => call.what \in Link
  BY <1>1 DEF CallOK, Asks, Idle
<1>. DEFINE c(at, what) == [at |-> at, kind |-> call.kind, id |-> call.id, what |-> what, of |-> call.of]
<1>3. CASE call' = Refused /\ UNCHANGED runs
  <2>1. call' = c("error", call.what)
    BY <1>2, <1>3 DEF Refused
  <2>2. CallOK(call', runs)
    BY <1>2, <2>1 DEF CallOK, Asks
  <2>3. Onward(runs, runs)
    <3>1. \A r \in 1 .. Len(runs) : Len(runs[r].items) \in Nat
      BY <1>1, RunTyped DEF RunsOK
    <3>2. Len(runs) \in Nat
      BY <1>1 DEF RunsOK
    <3>. QED  BY <1>1, <3>1, <3>2 DEF Onward, Grows, Carries
  <2>. QED  BY <1>3, <2>2, <2>3
<1>4. CASE call.kind = "create" /\ CreateRun /\ call' = Answered
  <2>1. PICK at \in {"queued", "lost"} : runs' = Append(runs, NewRun(at)) /\ Len(runs) < MaxRuns
    BY <1>4 DEF CreateRun
  <2>2. Onward(runs, runs')
    BY <1>1, <2>1, OneMore
  <2>3. call' = c("ok", Len(runs'))
    BY <1>2, <1>4 DEF Answered
  <2>4. Len(runs') \in 1 .. Len(runs')
    <3>1. runs \in Seq(Run) /\ Len(runs) \in Nat
      BY <1>1 DEF RunsOK
    <3>2. NewRun(at) \in Run
      BY DEF NewRun, NoStats, Run, Counts
    <3>3. Len(runs') = Len(runs) + 1
      BY <2>1, <3>1, <3>2, AppendProperties
    <3>. QED  BY <3>1, <3>3
  <2>5. CallOK(call', runs')
    BY <1>2, <1>4, <2>3, <2>4 DEF CallOK, Asks
  <2>. QED  BY <2>2, <2>5
<1>5. CASE \/ call.kind = "decide" /\ Decide(call.id, call.what) /\ call' = Answered
           \/ call.kind = "link" /\ ManualLink(call.id, call.what) /\ call' = Answered
  <2>1. /\ Onward(runs, runs') /\ Len(runs') = Len(runs)
        /\ runs'[call.id[1]].items[call.id[2]] \in Item
    BY <1>1, <1>2, <1>5, DecideOnward, ManualLinkOnward
  <2>2. call' = c("ok", runs'[call.id[1]].items[call.id[2]])
    BY <1>2, <1>5 DEF Answered
  <2>3. Held(call.id, runs')
    BY <1>1, <1>2, <1>5, <2>1, StillThere DEF Onward
  <2>4. CallOK(call', runs')
    <3>. DEFINE item == runs'[call.id[1]].items[call.id[2]]
    <3>1. item \in Item /\ call' = c("ok", item)
      BY <2>1, <2>2
    <3>. HIDE DEF item
    <3>. QED  BY <1>2, <1>5, <2>1, <2>3, <3>1 DEF CallOK, Asks
  <2>. QED  BY <2>1, <2>4
<1>. QED  BY <1>3, <1>4, <1>5 DEF ServeCall

-----------------------------------------------------------------------------
\* The page

LEMMA RunsServed ==
    ASSUME RunsOK(runs)
    PROVE  /\ Len(runs) \in Nat /\ DOMAIN runs = 1 .. Len(runs)
           /\ Listed \in Seq([status : {"completed", "failed", "running"}, stats : Counts])
           /\ Len(Listed) = Len(runs)
           /\ \A q \in Queries : q.run \in 1 .. Len(runs) =>
                Rows(q) \in SUBSET Shown /\ \A row \in Rows(q) : Held(row.id, runs)
<1>1. runs \in Seq(Run) /\ Len(runs) \in Nat /\ DOMAIN runs = 1 .. Len(runs)
  BY DEF RunsOK
<1>. DEFINE Rec == [status : {"completed", "failed", "running"}, stats : Counts]
<1>2. \A r \in 1 .. Len(runs) : Listed[r] \in Rec
  <2>. SUFFICES ASSUME NEW r \in 1 .. Len(runs)
                PROVE  Listed[r] \in Rec
    OBVIOUS
  <2>1. runs[r] \in Run
    BY <1>1, RunTyped
  <2>2. runs[r].stats \in Counts /\ StatusOf(runs[r]) \in {"completed", "failed", "running"}
    BY <2>1 DEF Run, StatusOf
  <2>3. Listed[r] = [status |-> StatusOf(runs[r]), stats |-> runs[r].stats]
    BY <1>1 DEF Listed
  <2>. QED  BY <2>2, <2>3
<1>3. Listed = [r \in 1 .. Len(runs) |-> Listed[r]]
  BY <1>1 DEF Listed
<1>4. Listed \in Seq(Rec) /\ Len(Listed) = Len(runs)
  <2>. HIDE DEF Rec
  <2>. QED  BY <1>1, <1>2, <1>3
<1>5. ASSUME NEW q \in Queries, q.run \in 1 .. Len(runs), NEW row \in Rows(q)
      PROVE  row \in Shown /\ Held(row.id, runs)
  <2>. DEFINE items == runs[q.run].items
  <2>1. items \in Seq(Item) /\ Len(items) \in Nat /\ DOMAIN items = 1 .. Len(items)
    BY <1>1, <1>5, RunTyped
  <2>2. PICK i \in 1 .. Len(items) : row = [id |-> <<q.run, i>>, item |-> items[i]]
    BY <1>5, <2>1 DEF Rows
  <2>3. items[i] \in Item
    BY <2>1, ElementOfSeq
  <2>4. <<q.run, i>> \in Places
    BY <1>1, <1>5, <2>1 DEF Places
  <2>5. row \in Shown
    <3>. HIDE DEF items
    <3>. QED  BY <2>2, <2>3, <2>4 DEF Shown
  <2>6. row.id[1] = q.run /\ row.id[2] = i
    BY <2>2
  <2>. QED  BY <1>5, <2>2, <2>5, <2>6 DEF Held
<1>. QED  BY <1>1, <1>4, <1>5

\* The bucket, the filter and the run that are shown.
LEMMA Selections ==
    ASSUME RunsOK(runs), NEW pg, PageOK(pg, runs)
    PROVE  /\ \A b \in Buckets, f \in Filters : PageOK(Bucket(pg, b, f), runs)
           /\ \A r \in 1 .. Len(runs) : PageOK(Select(pg, r), runs)
           /\ \A f \in Filters : PageOK([pg EXCEPT !.filter = f], runs)
           /\ Query(pg) \in Queries
           /\ StatusShown(pg, pg.selected) = "completed" => pg.selected \in 1 .. Len(runs)
<1>1. NoItem \in Places /\ None \in Filters
  BY TradeDeskAssumption DEF NoItem, Places
<1>2. ASSUME NEW p, PageOK(p, runs), NEW b \in Buckets, NEW f \in Filters
      PROVE  PageOK(Bucket(p, b, f), runs)
  <2>. DEFINE new == Bucket(p, b, f)
  <2>1. /\ new \in Pages /\ new.selected = p.selected /\ new.list = p.list /\ new.items = p.items
    BY <1>1, <1>2 DEF PageOK, Pages, Bucket
  <2>. HIDE DEF new
  <2>2. PageOK(new, runs)
    BY <1>2, <2>1 DEF PageOK
  <2>. QED  BY <2>2 DEF new
<1>3. ASSUME NEW r \in 1 .. Len(runs)
      PROVE  PageOK(Select(pg, r), runs)
  <2>. DEFINE sel == [pg EXCEPT !.selected = r]
              b == IF StatusShown(pg, r) = "completed" THEN FirstBucket(pg.list[r].stats) ELSE pg.tab
  <2>1. PageOK(sel, runs)
    <3>1. Len(runs) \in Nat
      BY DEF RunsOK
    <3>. QED  BY <3>1 DEF PageOK, Pages
  <2>2. b \in Buckets
    BY DEF FirstBucket, Buckets, PageOK, Pages
  <2>3. Select(pg, r) = Bucket(sel, b, None)
    BY DEF Select
  <2>. HIDE DEF sel, b
  <2>. QED  BY <1>1, <1>2, <2>1, <2>2, <2>3
<1>4. \A f \in Filters : PageOK([pg EXCEPT !.filter = f], runs)
  BY DEF PageOK, Pages
<1>5. Query(pg) \in Queries
  BY DEF Query, Queries, PageOK, Pages
<1>6. StatusShown(pg, pg.selected) = "completed" => pg.selected \in 1 .. Len(runs)
  <2>1. pg.list \in Seq([status : {"completed", "failed", "running"}, stats : Counts])
    BY DEF PageOK, Pages
  <2>2. DOMAIN pg.list = 1 .. Len(pg.list) /\ Len(pg.list) \in Nat
    BY <2>1
  <2>3. StatusShown(pg, pg.selected) = "completed" => pg.selected \in DOMAIN pg.list
    BY DEF StatusShown
  <2>. QED  BY <2>2, <2>3 DEF PageOK, RunsOK
<1>. QED  BY <1>2, <1>3, <1>4, <1>5, <1>6

LEMMA BecomeKeeps ==
    ASSUME RunsOK(runs), LoadsOK(loads, runs), NEW new, PageOK(new, runs), Become(new)
    PROVE  PageOK(page', runs) /\ LoadsOK(loads', runs)
<1>1. Query(new) \in Queries /\ Query(new).run = new.selected
  BY Selections DEF Query
<1>2. StatusShown(new, new.selected) = "completed" => new.selected \in 1 .. Len(runs)
  BY Selections
<1>3. PageOK([new EXCEPT !.items = NoItems], runs)
  <2>1. NoItems \in [known : BOOLEAN, rows : SUBSET Shown, error : BOOLEAN] /\ NoItems.rows = {}
    BY DEF NoItems
  <2>. HIDE DEF NoItems
  <2>. QED  BY <2>1 DEF PageOK, Pages
<1>4. PageOK(page', runs)
  BY <1>3 DEF Become
<1>5. LoadsOK(loads', runs)
  BY <1>1, <1>2 DEF Become, LoadsOK
<1>. QED  BY <1>4, <1>5

\* What is shown when a list or findings arrive, or do not.
LEMMA LoadingKeeps ==
    ASSUME ReconInv, Loading \/ LoseLoad
    PROVE  PageOK(page', runs) /\ LoadsOK(loads', runs) /\ asked' \in BOOLEAN /\ call' = call /\ runs' = runs
<1>1. RunsOK(runs) /\ PageOK(page, runs) /\ LoadsOK(loads, runs) /\ asked \in BOOLEAN
  BY DEF ReconInv
<1>2. Created \in BOOLEAN
  BY <1>1 DEF Created, PageOK, Pages
<1>3. CASE RunsArrive
  <2>. DEFINE new == [page EXCEPT !.known = TRUE, !.error = FALSE, !.list = Listed, !.creating = Created]
              shown == IF page.selected = 0 /\ runs # <<>> THEN Select(new, Len(runs)) ELSE new
  <2>1. PageOK(new, runs)
    <3>. DEFINE l == Listed
                c == Created
    <3>1. /\ l \in Seq([status : {"completed", "failed", "running"}, stats : Counts])
          /\ Len(l) = Len(runs) /\ Len(runs) \in Nat /\ c \in BOOLEAN
      BY <1>1, <1>2, RunsServed
    <3>2. page \in Pages
      BY <1>1 DEF PageOK
    <3>. HIDE DEF l, c
    <3>3. new = [page EXCEPT !.known = TRUE, !.error = FALSE, !.list = l, !.creating = c]
      BY DEF l, c
    <3>. HIDE DEF new
    <3>4. /\ new \in Pages /\ new.selected = page.selected /\ new.items = page.items
          /\ new.list = l
      BY <3>1, <3>2, <3>3 DEF Pages
    <3>. QED  BY <1>1, <3>1, <3>4 DEF PageOK
  <2>2. PageOK(shown, runs)
    <3>1. runs # <<>> => Len(runs) \in 1 .. Len(runs)
      BY <1>1, EmptySeq DEF RunsOK
    <3>. HIDE DEF new
    <3>. QED  BY <1>1, <2>1, <3>1, Selections
  <2>3. Become(shown) /\ asked' = FALSE /\ call' = call /\ runs' = runs
    BY <1>3 DEF RunsArrive
  <2>. HIDE DEF shown
  <2>. QED  BY <1>1, <2>2, <2>3, BecomeKeeps
<1>4. CASE \E q \in loads : ItemsArrive(q)
  <2>1. PICK q \in loads : ItemsArrive(q)
    BY <1>4
  <2>2. Rows(q) \in SUBSET Shown /\ \A row \in Rows(q) : Held(row.id, runs)
    BY <1>1, RunsServed DEF LoadsOK
  <2>3. page' = [page EXCEPT !.items = [known |-> TRUE, rows |-> Rows(q), error |-> FALSE]]
    BY <2>1 DEF ItemsArrive
  <2>4. PageOK(page', runs)
    BY <1>1, <2>2, <2>3 DEF PageOK, Pages
  <2>5. LoadsOK(loads', runs) /\ asked' \in BOOLEAN /\ call' = call /\ runs' = runs
    BY <1>1, <2>1 DEF ItemsArrive, LoadsOK
  <2>. QED  BY <2>4, <2>5
<1>5. CASE LoseLoad
  <2>1. PageOK([page EXCEPT !.error = ~page.known, !.creating = Created], runs)
    BY <1>1, <1>2 DEF PageOK, Pages
  <2>2. PageOK([page EXCEPT !.items.error = TRUE], runs)
    BY <1>1 DEF PageOK, Pages
  <2>3. PageOK(page', runs)
    BY <1>5, <2>1, <2>2 DEF LoseLoad
  <2>4. LoadsOK(loads', runs) /\ asked' \in BOOLEAN /\ call' = call /\ runs' = runs
    BY <1>1, <1>5 DEF LoseLoad, LoadsOK
  <2>. QED  BY <2>3, <2>4
<1>. QED  BY <1>3, <1>4, <1>5 DEF Loading

LEMMA BrowsingKeeps ==
    ASSUME ReconInv, Browsing
    PROVE  PageOK(page', runs) /\ LoadsOK(loads', runs) /\ asked' = asked /\ call' = call /\ runs' = runs
<1>1. RunsOK(runs) /\ PageOK(page, runs) /\ LoadsOK(loads, runs)
  BY DEF ReconInv
<1>2. \A new : PageOK(new, runs) /\ Browse(new) =>
        PageOK(page', runs) /\ LoadsOK(loads', runs) /\ asked' = asked /\ call' = call /\ runs' = runs
  BY <1>1, BecomeKeeps DEF Browse
<1>3. ASSUME NEW r \in DOMAIN page.list, SelectRun(r)
      PROVE  PageOK(Select(page, r), runs) /\ Browse(Select(page, r))
  <2>1. page.list \in Seq([status : {"completed", "failed", "running"}, stats : Counts])
    BY <1>1 DEF PageOK, Pages
  <2>2. DOMAIN page.list = 1 .. Len(page.list) /\ Len(page.list) \in Nat
    BY <2>1
  <2>3. r \in 1 .. Len(runs)
    BY <1>1, <2>2 DEF PageOK, RunsOK
  <2>. QED  BY <1>1, <1>3, <2>3, Selections DEF SelectRun
<1>4. ASSUME NEW b \in Buckets, GoTab(b)
      PROVE  PageOK(Bucket(page, b, None), runs) /\ Browse(Bucket(page, b, None))
  BY <1>1, <1>4, Selections, TradeDeskAssumption DEF GoTab
<1>5. ASSUME GoTile
      PROVE  \E new : PageOK(new, runs) /\ Browse(new)
  <2>1. PICK tile \in Tiles : tile[2] \in Filters /\ Browse(Bucket(page, tile[1], tile[2]))
    BY <1>5 DEF GoTile
  <2>2. tile[1] \in Buckets
    BY DEF Tiles, Buckets
  <2>. QED  BY <1>1, <2>1, <2>2, Selections
<1>6. ASSUME NEW f \in FiltersOf(page.tab), SetFilter(f)
      PROVE  PageOK([page EXCEPT !.filter = f], runs) /\ Browse([page EXCEPT !.filter = f])
  BY <1>1, <1>6, Selections DEF SetFilter, FiltersOf
<1>7. \A id \in Places : PageOK([page EXCEPT !.drawer = id, !.pending = FALSE], runs)
  BY <1>1 DEF PageOK, Pages
<1>8. ASSUME NEW row \in page.items.rows, OpenDrawer(row.id)
      PROVE  PageOK(page', runs) /\ loads' = loads /\ asked' = asked /\ call' = call /\ runs' = runs
  <2>1. row.id \in Places
    BY <1>1 DEF PageOK, Pages, Shown
  <2>. QED  BY <1>7, <1>8, <2>1 DEF OpenDrawer
<1>9. ASSUME CloseDrawer
      PROVE  PageOK(page', runs) /\ loads' = loads /\ asked' = asked /\ call' = call /\ runs' = runs
  <2>1. NoItem \in Places
    BY DEF NoItem, Places
  <2>. QED  BY <1>7, <1>9, <2>1 DEF CloseDrawer
<1>. QED  BY <1>1, <1>2, <1>3, <1>4, <1>5, <1>6, <1>8, <1>9 DEF Browsing

\* Requests of the page, and their answers.
LEMMA ReviewingKeeps ==
    ASSUME ReconInv, Reviewing
    PROVE  PageOK(page', runs) /\ CallOK(call', runs) /\ loads' = loads /\ asked' = asked /\ runs' = runs
<1>1. RunsOK(runs) /\ PageOK(page, runs)
  BY DEF ReconInv
<1>2. Query(page) \in Queries /\ NoItem \in Places
  BY <1>1, Selections DEF NoItem, Places
<1>3. PageOK([page EXCEPT !.creating = TRUE], runs) /\ PageOK([page EXCEPT !.pending = TRUE], runs)
  BY <1>1 DEF PageOK, Pages
<1>4. ASSUME NEW row \in InDrawer
      PROVE  row.item \in Item /\ page.drawer \in Places /\ Held(page.drawer, runs)
  <2>1. row \in page.items.rows /\ row.id = page.drawer
    BY <1>4 DEF InDrawer
  <2>2. row \in Shown /\ Held(row.id, runs)
    BY <1>1, <2>1 DEF PageOK, Pages
  <2>. QED  BY <2>1, <2>2 DEF Shown
<1>5. ASSUME Selected
      PROVE  page.selected \in 1 .. Len(runs) /\ Query(page).run = page.selected
  <2>1. page.list \in Seq([status : {"completed", "failed", "running"}, stats : Counts])
    BY <1>1 DEF PageOK, Pages
  <2>2. DOMAIN page.list = 1 .. Len(page.list) /\ Len(page.list) \in Nat
    BY <2>1
  <2>. QED  BY <1>1, <1>5, <2>2 DEF Selected, Query, PageOK, RunsOK
<1>6. CASE OnRun
  <2>. DEFINE of == Query(page)
  <2>1. call' = [at |-> "sent", kind |-> "create", id |-> NoItem, what |-> None, of |-> of]
    BY <1>6 DEF OnRun, Send
  <2>2. CallOK(call', runs)
    <3>. HIDE DEF of
    <3>1. of \in Queries
      BY <1>2 DEF of
    <3>. QED  BY <1>2, <2>1, <3>1 DEF CallOK, Asks
  <2>. QED  BY <1>3, <1>6, <2>2 DEF OnRun, Send
<1>7. ASSUME NEW c \in {"decide", "link"}, NEW what, InDrawerSend(c, what),
             NEW row \in InDrawer, c = "link" => what \in Link
      PROVE  PageOK(page', runs) /\ CallOK(call', runs) /\ loads' = loads /\ asked' = asked /\ runs' = runs
  <2>. DEFINE of == Query(page)
              id == page.drawer
  <2>1. call' = [at |-> "sent", kind |-> c, id |-> id, what |-> what, of |-> of]
    BY <1>7 DEF InDrawerSend, Send
  <2>2. of \in Queries /\ of.run \in 1 .. Len(runs) /\ id \in Places /\ Held(id, runs)
    BY <1>2, <1>4, <1>5, <1>7 DEF InDrawerSend
  <2>3. CallOK(call', runs)
    <3>. HIDE DEF of, id
    <3>. QED  BY <1>7, <2>1, <2>2 DEF CallOK, Asks
  <2>. QED  BY <1>3, <1>7, <2>3 DEF InDrawerSend, Send
<1>8. CASE OnDecide
  <2>1. PICK row \in InDrawer : TRUE
    BY <1>8 DEF OnDecide
  <2>2. PICK action \in {"confirm", "reject"} : InDrawerSend("decide", action)
    BY <1>8 DEF OnDecide
  <2>. QED  BY <1>7, <2>1, <2>2
<1>9. CASE OnManualLink
  <2>1. PICK row \in InDrawer : TRUE
    BY <1>9 DEF OnManualLink
  <2>2. PICK r \in Recs : InDrawerSend("link", [rec |-> r, txn |-> None])
    BY <1>9 DEF OnManualLink
  <2>3. [rec |-> r, txn |-> None] \in Link
    BY DEF Link
  <2>. QED  BY <1>7, <2>1, <2>2, <2>3
<1>10. CASE OnLinkTransaction
  <2>1. PICK row \in InDrawer : /\ row.item.rec # None
                                /\ \E t \in Txns : InDrawerSend("link", [rec |-> row.item.rec, txn |-> t])
    BY <1>10 DEF OnLinkTransaction
  <2>2. PICK t \in Txns : InDrawerSend("link", [rec |-> row.item.rec, txn |-> t])
    BY <2>1
  <2>3. row.item.rec \in Recs
    BY <1>4, <2>1 DEF Item
  <2>4. [rec |-> row.item.rec, txn |-> t] \in Link
    BY <2>3 DEF Link
  <2>. QED  BY <1>7, <2>1, <2>2, <2>4
<1>. QED  BY <1>6, <1>8, <1>9, <1>10 DEF Reviewing

LEMMA AnswersKeep ==
    ASSUME ReconInv, CreateEnds \/ ReviewEnds \/ LoseAnswer
    PROVE  /\ PageOK(page', runs) /\ LoadsOK(loads', runs) /\ CallOK(call', runs)
           /\ asked' \in BOOLEAN /\ runs' = runs
<1>1. RunsOK(runs) /\ PageOK(page, runs) /\ LoadsOK(loads, runs) /\ CallOK(call, runs) /\ asked \in BOOLEAN
  BY DEF ReconInv
<1>2. CallOK(Idle, runs)
  BY DEF CallOK
<1>3. \A x, y \in BOOLEAN : PageOK([page EXCEPT !.creating = x], runs) /\ PageOK([page EXCEPT !.pending = y], runs)
  BY <1>1 DEF PageOK, Pages
<1>4. CASE CreateEnds
  <2>1. CASE call.at = "ok"
    <3>1. call.what \in 1 .. Len(runs)
      BY <1>1, <1>4, <2>1 DEF CreateEnds, CallOK, Idle
    <3>2. PageOK(Select(page, call.what), runs)
      BY <1>1, <3>1, Selections
    <3>3. Become(Select(page, call.what)) /\ asked' = TRUE /\ call' = Idle /\ runs' = runs
      BY <1>4, <2>1 DEF CreateEnds
    <3>. QED  BY <1>1, <1>2, <3>2, <3>3, BecomeKeeps
  <2>2. CASE call.at # "ok"
    <3>1. /\ page' = [page EXCEPT !.creating = FALSE] /\ asked' = asked /\ loads' = loads
          /\ call' = Idle /\ runs' = runs
      BY <1>4, <2>2 DEF CreateEnds
    <3>. QED  BY <1>1, <1>2, <1>3, <3>1
  <2>. QED  BY <2>1, <2>2
<1>5. CASE ReviewEnds
  <2>0. call' = Idle /\ asked' = asked /\ runs' = runs
    BY <1>5 DEF ReviewEnds
  <2>1. CASE call.at = "ok"
    <3>1. call.what \in Item /\ call.of \in Queries /\ call.of.run \in 1 .. Len(runs)
      BY <1>1, <1>5, <2>1 DEF ReviewEnds, CallOK, Asks, Idle
    <3>. DEFINE rows == Updated(page.items.rows)
    <3>2. rows \in SUBSET Shown /\ \A row \in rows : Held(row.id, runs)
      <4>. SUFFICES ASSUME NEW row \in page.items.rows
                    PROVE  LET new == IF row.id = call.id THEN [row EXCEPT !.item = call.what] ELSE row
                           IN  new \in Shown /\ Held(new.id, runs)
        BY DEF Updated
      <4>1. row \in Shown /\ Held(row.id, runs)
        BY <1>1 DEF PageOK, Pages
      <4>2. [row EXCEPT !.item = call.what] \in Shown /\ [row EXCEPT !.item = call.what].id = row.id
        BY <3>1, <4>1 DEF Shown
      <4>. QED  BY <4>1, <4>2
    <3>3. page' = [page EXCEPT !.items.rows = rows, !.pending = FALSE] /\ loads' = loads \cup {call.of}
      BY <1>5, <2>1 DEF ReviewEnds
    <3>. HIDE DEF rows
    <3>4. PageOK(page', runs)
      BY <1>1, <3>2, <3>3 DEF PageOK, Pages
    <3>5. LoadsOK(loads', runs)
      BY <1>1, <3>1, <3>3 DEF LoadsOK
    <3>. QED  BY <1>1, <1>2, <2>0, <3>4, <3>5
  <2>2. CASE call.at # "ok"
    <3>1. page' = [page EXCEPT !.pending = FALSE] /\ loads' = loads
      BY <1>5, <2>2 DEF ReviewEnds
    <3>. QED  BY <1>1, <1>2, <1>3, <2>0, <3>1
  <2>. QED  BY <2>1, <2>2
<1>6. CASE LoseAnswer
  <2>1. call.at = "ok" /\ call' = [call EXCEPT !.at = "error"]
    BY <1>6 DEF LoseAnswer, Refused
  <2>2. CallOK(call', runs)
    BY <1>1, <2>1 DEF CallOK, Asks, Idle
  <2>. QED  BY <1>1, <1>6, <2>2 DEF LoseAnswer
<1>. QED  BY <1>4, <1>5, <1>6

-----------------------------------------------------------------------------
\* The theorems

LEMMA ReconStep ==
    ASSUME ReconInv, [Next]_vars
    PROVE  ReconInv' /\ (runs' = runs \/ Onward(runs, runs'))
<1>1. /\ RunsOK(runs) /\ PageOK(page, runs) /\ LoadsOK(loads, runs) /\ CallOK(call, runs)
      /\ asked \in BOOLEAN
  BY DEF ReconInv
<1>2. CASE UNCHANGED vars
  BY <1>1, <1>2 DEF vars, ReconInv
<1>3. CASE Reconcile \/ Redeliver \/ Import
  <2>1. page' = page /\ asked' = asked /\ loads' = loads /\ call' = call
    BY <1>3 DEF Reconcile, ReadRun, CommitRun, FailRun, Redeliver, Import
  <2>2. Onward(runs, runs')
    BY <1>1, <1>3, ReconcileOnward, ImportOnward
  <2>3. PageOK(page, runs') /\ LoadsOK(loads, runs') /\ CallOK(call, runs')
    BY <1>1, <2>2, StillThere DEF Onward
  <2>. QED  BY <1>1, <2>1, <2>2, <2>3 DEF Onward, ReconInv
<1>4. CASE ServeCall
  <2>1. Onward(runs, runs') /\ CallOK(call', runs')
    BY <1>4, ServeCallKeeps
  <2>2. page' = page /\ asked' = asked /\ loads' = loads
    BY <1>4 DEF ServeCall
  <2>3. PageOK(page, runs') /\ LoadsOK(loads, runs')
    BY <1>1, <2>1, StillThere DEF Onward
  <2>. QED  BY <1>1, <2>1, <2>2, <2>3 DEF Onward, ReconInv
<1>5. CASE Loading \/ LoseLoad
  BY <1>1, <1>5, LoadingKeeps DEF ReconInv
<1>6. CASE Browsing
  BY <1>1, <1>6, BrowsingKeeps DEF ReconInv
<1>7. CASE Reviewing
  BY <1>1, <1>7, ReviewingKeeps DEF ReconInv
<1>8. CASE CreateEnds \/ ReviewEnds \/ LoseAnswer
  BY <1>1, <1>8, AnswersKeep DEF ReconInv
<1>9. CASE PollRuns
  BY <1>1, <1>9 DEF PollRuns, ReconInv
<1>. QED  BY <1>2, <1>3, <1>4, <1>5, <1>6, <1>7, <1>8, <1>9 DEF Next, Calling

\* The first run there is, as the engine left it or as a reviewer did.
LEMMA FirstRun ==
    ASSUME NEW p \in Proposals
    PROVE  /\ First(p) \in Run /\ WellRun(First(p))
           /\ Reviewed(First(p)) \in Run /\ WellRun(Reviewed(First(p)))
<1>. DEFINE items == Items(p, {})
            stats == Stats(p, {})
            run   == First(p)
            new   == [i \in DOMAIN items |-> [items[i] EXCEPT !.status = "confirmed"]]
            done  == Reviewed(run)
<1>1. IsFiniteSet({}) /\ Unlike({})
  BY FS_EmptySet DEF Unlike
<1>2. items \in Seq(Item) /\ stats \in Counts /\ (stats.carried = 0 => LinksResolved(items))
  BY <1>1, ItemsOfRun
<1>3. Len(items) \in Nat /\ DOMAIN items = 1 .. Len(items) /\ \A i \in 1 .. Len(items) : items[i] \in Item
  <2>. HIDE DEF items
  <2>. QED  BY <1>2, ElementOfSeq
<1>. HIDE DEF items, stats
<1>4. /\ run \in Run /\ run.at = "done" /\ run.seen = {}
      /\ run.items = items /\ run.stats = stats
  <2>. DEFINE base == NewRun("done")
  <2>1. base \in Run /\ base.at = "done" /\ base.seen = {}
    BY DEF NewRun, NoStats, Run, Counts
  <2>2. run = [base EXCEPT !.items = items, !.stats = stats]
    BY DEF First, items, stats
  <2>. HIDE DEF base, run
  <2>. QED  BY <1>2, <2>1, <2>2 DEF Run
<1>. HIDE DEF run
<1>5. WellRun(run)
  BY <1>1, <1>2, <1>4 DEF WellRun
<1>6. \A i \in 1 .. Len(items) : new[i] \in Item /\ new[i].status = "confirmed"
  BY <1>3 DEF Item, Decided
<1>7. new = [i \in 1 .. Len(items) |-> new[i]]
  BY <1>3
<1>8. done = [run EXCEPT !.items = new]
  BY <1>4 DEF Reviewed
<1>. HIDE DEF new, done
<1>9. new \in Seq(Item) /\ Len(new) = Len(items)
  <2>. DEFINE n == Len(items)
  <2>1. n \in Nat /\ new \in [1 .. n -> Item]
    BY <1>3, <1>6, <1>7
  <2>. HIDE DEF n
  <2>2. new \in Seq(Item) /\ Len(new) = n
    BY <2>1
  <2>. QED  BY <2>2 DEF n
<1>10. done \in Run /\ WellRun(done)
  <2>1. done \in Run /\ done.at = "done" /\ done.seen = {} /\ done.items = new
    BY <1>4, <1>8, <1>9 DEF Run
  <2>2. LinksResolved(new)
    BY <1>6, <1>9 DEF LinksResolved
  <2>. QED  BY <1>1, <2>1, <2>2 DEF WellRun
<1>. QED  BY <1>4, <1>5, <1>10 DEF run, done

LEMMA ReconInit == Init => ReconInv
<1>. SUFFICES ASSUME Init
              PROVE  ReconInv
  OBVIOUS
<1>1. MaxRuns \in Nat \ {0} /\ None \in Filters
  BY TradeDeskAssumption
<1>2. RunsOK(runs)
  <2>1. CASE runs = <<>>
    <3>1. runs \in Seq(Run) /\ Len(runs) = 0
      BY <2>1, EmptySeq
    <3>. QED  BY <1>1, <3>1 DEF RunsOK
  <2>2. CASE runs # <<>>
    <3>1. PICK run \in Run : WellRun(run) /\ runs = <<run>>
      BY <2>2, FirstRun DEF Init
    <3>2. runs \in Seq(Run) /\ Len(runs) = 1 /\ runs[1] = run
      BY <3>1
    <3>. QED  BY <1>1, <3>1, <3>2 DEF RunsOK
  <2>. QED  BY <2>1, <2>2
<1>3. PageOK(page, runs)
  <2>1. NoItems \in [known : BOOLEAN, rows : SUBSET Shown, error : BOOLEAN] /\ NoItems.rows = {}
    BY DEF NoItems
  <2>2. NoItem \in Places
    BY DEF NoItem, Places
  <2>. DEFINE l == <<>>
  <2>3. l \in Seq([status : {"completed", "failed", "running"}, stats : Counts]) /\ Len(l) = 0
    BY EmptySeq
  <2>4. page = [known |-> FALSE, error |-> FALSE, list |-> l, selected |-> 0,
                tab |-> "matched", filter |-> None, items |-> NoItems, drawer |-> NoItem,
                pending |-> FALSE, creating |-> FALSE]
    BY DEF Init, FreshPage
  <2>. HIDE DEF l, NoItems, NoItem
  <2>5. page \in Pages /\ page.selected = 0 /\ page.list = l /\ page.items = NoItems
    BY <1>1, <2>1, <2>2, <2>3, <2>4 DEF Pages, Buckets
  <2>. QED  BY <1>2, <2>1, <2>3, <2>5 DEF PageOK, RunsOK
<1>4. LoadsOK(loads, runs) /\ CallOK(call, runs) /\ asked \in BOOLEAN
  BY DEF Init, LoadsOK, CallOK
<1>. QED  BY <1>2, <1>3, <1>4 DEF ReconInv

LEMMA ReconInvariant == Spec => []ReconInv
<1>1. ReconInv /\ [Next]_vars => ReconInv'
  BY ReconStep
<1>. QED  BY <1>1, ReconInit, PTL DEF Spec

\* Every variable keeps its type, what the page shows and asks for exists.
THEOREM ReconTyped == Spec => []TypeOK
<1>1. ReconInv => TypeOK
  <2>. SUFFICES ASSUME ReconInv
                PROVE  TypeOK
    OBVIOUS
  <2>1. /\ RunsOK(runs) /\ PageOK(page, runs) /\ LoadsOK(loads, runs) /\ asked \in BOOLEAN
    BY DEF ReconInv
  <2>2. runs \in Seq(Run) /\ DOMAIN runs = 1 .. Len(runs) /\ Len(runs) <= MaxRuns
    BY <2>1 DEF RunsOK
  <2>3. ASSUME NEW r \in DOMAIN runs
        PROVE  /\ runs[r].at \in {"queued", "lost", "read", "doomed", "done", "failed"}
               /\ \A i \in DOMAIN runs[r].items : runs[r].items[i] \in Item
    <3>1. runs[r] \in Run /\ runs[r].items \in Seq(Item)
      BY <2>2, RunTyped
    <3>. QED  BY <3>1 DEF Run
  <2>4. \A item \in Item : /\ item.type \in Buckets
                           /\ item.txn \in Txns \cup {None} /\ item.rec \in Recs \cup {None}
                           /\ item.status \in Undecided \cup Decided
    BY DEF Item
  <2>5. page.selected \in 0 .. Len(runs) /\ page.tab \in Buckets /\ Len(page.list) <= Len(runs)
    BY <2>1 DEF PageOK, Pages
  <2>6. \A q \in loads : q.run \in DOMAIN runs /\ q.bucket \in Buckets
    BY <2>1, <2>2 DEF LoadsOK, Queries
  <2>. QED  BY <2>1, <2>2, <2>3, <2>4, <2>5, <2>6 DEF TypeOK
<1>. QED  BY <1>1, ReconInvariant, PTL

\* manual_link: whatever is decided, linked, imported or run again, a call that
\* is linked by hand is not reported as one without a trade in the same run.
THEOREM LinkedCallIsResolved == Spec => []LinkResolvesTheCall
<1>1. ReconInv => LinkResolvesTheCall
  <2>. SUFFICES ASSUME ReconInv, NEW r \in DOMAIN runs, runs[r].stats.carried = 0
                PROVE  LinksResolved(runs[r].items) /\ DOMAIN runs[r].items = 1 .. Len(runs[r].items)
    BY DEF LinkResolvesTheCall, LinksResolved
  <2>1. runs \in Seq(Run) /\ r \in 1 .. Len(runs) /\ WellRun(runs[r])
    BY DEF ReconInv, RunsOK
  <2>2. runs[r].items \in Seq(Item)
    BY <2>1, RunTyped
  <2>. QED  BY <2>1, <2>2 DEF WellRun
<1>. QED  BY <1>1, ReconInvariant, PTL

\* run_match's carry-over: every pair that a reviewer had confirmed or linked is,
\* decided, among the findings that the next run commits.
THEOREM PairsSurvive == Spec => NoPairLost
<1>. DEFINE Lossless == \A r \in DOMAIN runs : runs[r].at = "read" /\ runs'[r].at = "done" =>
        \A old \in runs[r].seen : old.status \in {"confirmed", "manual_linked"} =>
            \E i \in DOMAIN runs'[r].items :
                LET new == runs'[r].items[i]
                IN  new.txn = old.txn /\ new.rec = old.rec /\ new.status \in {"confirmed", "manual_linked"}
<1>1. ReconInv /\ [Next]_vars => [Lossless]_vars
  <2>. SUFFICES ASSUME ReconInv, [Next]_vars
                PROVE  Lossless
    OBVIOUS
  <2>. SUFFICES ASSUME NEW r \in DOMAIN runs, runs[r].at = "read", runs'[r].at = "done",
                       NEW old \in runs[r].seen, old.status \in {"confirmed", "manual_linked"}
                PROVE  /\ Includes(runs'[r].items, old)
                       /\ DOMAIN runs'[r].items = 1 .. Len(runs'[r].items)
    BY DEF Includes
  <2>1. ReconInv' /\ Onward(runs, runs')
    BY ReconStep
  <2>2. runs \in Seq(Run) /\ runs' \in Seq(Run) /\ r \in 1 .. Len(runs) /\ Len(runs) <= Len(runs')
    BY <2>1 DEF ReconInv, RunsOK, Onward, Grows
  <2>3. PairsKept(runs[r].seen, runs'[r].items)
    BY <2>1, <2>2 DEF Onward, Carries
  <2>4. Includes(runs'[r].items, old)
    BY <2>3 DEF PairsKept
  <2>5. r \in 1 .. Len(runs')
    BY <2>2
  <2>6. runs'[r].items \in Seq(Item)
    BY <2>2, <2>5, RunTyped
  <2>. QED  BY <2>4, <2>6
<1>. QED  BY <1>1, ReconInvariant, PTL DEF Spec, NoPairLost
=============================================================================
