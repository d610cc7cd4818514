--------------------------- MODULE BatchDesk_proofs ---------------------------
(***************************************************************************)
(* The upload client of BatchDesk implements UploadLedger (its safety) for *)
(* any files, any limit, any number of visits, and whatever the network,   *)
(* the API and the rest of the page do meanwhile; and what the pages show  *)
(* of the batch (types, files that are done, files to finalize) is so.     *)
(***************************************************************************)
EXTENDS BatchDesk, FiniteSetTheorems, FunctionTheorems, SequenceTheorems, TLAPS

-----------------------------------------------------------------------------
\* Queues

\* A queue: files, each of them once.
Line == {q \in Seq(Files) : \A i, j \in 1 .. Len(q) : q[i] = q[j] => i = j}

LEMMA ElementsOfSeq ==
    ASSUME NEW q \in Seq(Files)
    PROVE  ToSet(q) = {q[i] : i \in 1 .. Len(q)}
BY DEF ToSet

\* What n different places of a queue hold is n files.
LEMMA CountOfLine ==
    ASSUME NEW q \in Line
    PROVE  IsFiniteSet(ToSet(q)) /\ Cardinality(ToSet(q)) = Len(q)
<1>1. q \in [1 .. Len(q) -> Files] /\ Len(q) \in Nat
  BY DEF Line
<1>2. ToSet(q) = {q[i] : i \in 1 .. Len(q)}
  BY ElementsOfSeq DEF Line
<1>3. q \in [1 .. Len(q) -> ToSet(q)]
  BY <1>1, <1>2
<1>4. q \in Bijection(1 .. Len(q), ToSet(q))
  BY <1>2, <1>3, Fun_IsBij DEF Line
<1>5. ExistsBijection(1 .. Len(q), ToSet(q))
  BY <1>4, Fun_ExistsBij
<1>. QED  BY <1>1, <1>5, FS_CountingElements, FS_NatBijection

LEMMA SeqOfSet ==
    ASSUME NEW S \in SUBSET Files
    PROVE  SetToSeq(S) \in Line /\ ToSet(SetToSeq(S)) = S
<1>1. IsFiniteSet(S)
  BY DeskAssumption, FS_Subset
<1>2. Cardinality(S) \in Nat /\ ExistsBijection(1 .. Cardinality(S), S)
  BY <1>1, FS_CardinalityType
<1>3. PICK b : b \in Bijection(1 .. Cardinality(S), S)
  BY <1>2, Fun_ExistsBij
<1>4. b \in [1 .. Cardinality(S) -> S] /\ IsInjective(b)
  BY <1>3 DEF Bijection, Injection
<1>. DEFINE q == SetToSeq(S)
<1>5. q \in [1 .. Cardinality(S) -> S] /\ IsInjective(q)
  BY <1>4 DEF SetToSeq
<1>. HIDE DEF q
<1>6. q \in Seq(Files) /\ Len(q) = Cardinality(S)
  BY <1>2, <1>5
<1>7. \A i, j \in 1 .. Cardinality(S) : q[i] = q[j] => i = j
  BY <1>5 DEF IsInjective
<1>8. q \in Line
  BY <1>6, <1>7 DEF Line
<1>9. ToSet(q) \subseteq S
  BY <1>5, <1>6, ElementsOfSeq
<1>10. Cardinality(ToSet(q)) = Cardinality(S)
  BY <1>6, <1>8, CountOfLine
<1>11. ToSet(q) = S
  BY <1>1, <1>9, <1>10, FS_Subset
<1>. QED  BY <1>8, <1>11 DEF q

LEMMA LongerLine ==
    ASSUME NEW q \in Line, NEW p \in Line, ToSet(q) \cap ToSet(p) = {}
    PROVE  q \o p \in Line /\ ToSet(q \o p) = ToSet(q) \cup ToSet(p)
<1>1. /\ q \in Seq(Files) /\ p \in Seq(Files) /\ q \o p \in Seq(Files)
      /\ Len(q) \in Nat /\ Len(p) \in Nat
      /\ Len(q \o p) = Len(q) + Len(p)
  BY ConcatProperties DEF Line
<1>2. \A i \in 1 .. Len(q) + Len(p) : (q \o p)[i] = IF i <= Len(q) THEN q[i] ELSE p[i - Len(q)]
  BY <1>1, ConcatProperties
<1>3. ToSet(q) = {q[i] : i \in 1 .. Len(q)} /\ ToSet(p) = {p[i] : i \in 1 .. Len(p)}
      /\ ToSet(q \o p) = {(q \o p)[i] : i \in 1 .. Len(q) + Len(p)}
  BY <1>1, ElementsOfSeq
<1>. DEFINE s == q \o p
<1>4. \A i \in 1 .. Len(q) : s[i] = q[i] /\ i \in 1 .. Len(q) + Len(p)
  BY <1>1, <1>2
<1>5. \A i \in 1 .. Len(p) : s[Len(q) + i] = p[i] /\ Len(q) + i \in 1 .. Len(q) + Len(p)
  BY <1>1, <1>2
<1>6. \A i \in 1 .. Len(q) + Len(p) :
         i \in 1 .. Len(q) \/ (i - Len(q) \in 1 .. Len(p) /\ s[i] = p[i - Len(q)])
  BY <1>1, <1>2
<1>. HIDE DEF s
<1>7. ToSet(s) = ToSet(q) \cup ToSet(p)
  BY <1>3, <1>4, <1>5, <1>6 DEF s
<1>8. ASSUME NEW i \in 1 .. Len(q) + Len(p), NEW j \in 1 .. Len(q) + Len(p), s[i] = s[j]
      PROVE  i = j
  <2>1. CASE i \in 1 .. Len(q) /\ j \in 1 .. Len(q)
    BY <1>4, <1>8, <2>1 DEF Line
  <2>2. CASE i \notin 1 .. Len(q) /\ j \notin 1 .. Len(q)
    <3>1. i - Len(q) = j - Len(q)
      BY <1>6, <1>8, <2>2 DEF Line
    <3>. QED  BY <1>1, <3>1
  <2>3. CASE i \in 1 .. Len(q) /\ j \notin 1 .. Len(q)
    BY <1>3, <1>4, <1>6, <1>8, <2>3
  <2>4. CASE i \notin 1 .. Len(q) /\ j \in 1 .. Len(q)
    BY <1>3, <1>4, <1>6, <1>8, <2>4
  <2>. QED  BY <2>1, <2>2, <2>3, <2>4
<1>. QED  BY <1>1, <1>7, <1>8 DEF Line, s

\* The files that are started when a of the slots are taken, and those that
\* stay in the queue.
Going(v, q, a)   == ToSet(Started(v, q, a))
Staying(v, q, a) == SubSeq(q, Cardinality(Going(v, q, a)) + 1, Len(q))

LEMMA StartedFiles ==
    ASSUME NEW v, NEW q \in Line, NEW a \in 0 .. UploadConcurrency
    PROVE  /\ Going(v, q, a) \subseteq ToSet(q)
           /\ Cardinality(Going(v, q, a)) \in Nat
           /\ Staying(v, q, a) \in Line
           /\ ToSet(Staying(v, q, a)) = ToSet(q) \ Going(v, q, a)
           /\ a + Cardinality(Going(v, q, a)) <= UploadConcurrency
           /\ ToSet(Staying(v, q, a)) # {} => a + Cardinality(Going(v, q, a)) = UploadConcurrency
<1>. DEFINE room == UploadConcurrency - a
           n    == Len(q)
           k    == IF room < n THEN room ELSE n
           s    == SubSeq(q, 1, k)
           r    == SubSeq(q, k + 1, n)
<1>1. n \in Nat /\ UploadConcurrency \in Nat /\ a \in Nat /\ room \in Nat /\ q \in Seq(Files)
  BY DeskAssumption DEF Line
<1>2. k \in 0 .. n /\ k <= room /\ (k < n => k = room)
  BY <1>1
<1>3. s = Started(v, q, a)
  BY DEF Started
<1>. HIDE DEF k
<1>4. \A i \in 1 .. n : q[i] \in Files
  BY <1>1
<1>5. s \in Seq(Files) /\ Len(s) = k /\ \A i \in 1 .. k : s[i] = q[i]
  BY <1>1, <1>2, <1>4, SubSeqProperties
<1>6. r \in Seq(Files) /\ Len(r) = n - k /\ \A i \in 1 .. n - k : r[i] = q[k + i]
  BY <1>1, <1>2, <1>4, SubSeqProperties
<1>. HIDE DEF s, r
<1>7. s \in Line
  BY <1>1, <1>2, <1>5 DEF Line
<1>8. r \in Line
  <2>. SUFFICES ASSUME NEW i \in 1 .. n - k, NEW j \in 1 .. n - k, r[i] = r[j]
               PROVE  i = j
    BY <1>6 DEF Line
  <2>1. q[k + i] = q[k + j] /\ k + i \in 1 .. n /\ k + j \in 1 .. n
    BY <1>1, <1>2, <1>6
  <2>2. k + i = k + j
    BY <2>1 DEF Line
  <2>. QED  BY <1>1, <1>2, <2>2
<1>9. Going(v, q, a) = ToSet(s) /\ Cardinality(ToSet(s)) = k
  BY <1>3, <1>5, <1>7, CountOfLine DEF Going
<1>10. Staying(v, q, a) = r
  BY <1>9 DEF Staying, r
<1>11. /\ ToSet(s) = {s[i] : i \in 1 .. k}
       /\ ToSet(r) = {r[i] : i \in 1 .. n - k}
       /\ ToSet(q) = {q[i] : i \in 1 .. n}
  BY <1>1, <1>5, <1>6, ElementsOfSeq
<1>12. ToSet(s) \subseteq ToSet(q)
  BY <1>1, <1>2, <1>5, <1>11
<1>13. ToSet(r) = ToSet(q) \ ToSet(s)
  <2>1. ASSUME NEW i \in 1 .. n - k
        PROVE  r[i] \in ToSet(q) /\ r[i] \notin ToSet(s)
    <3>1. r[i] = q[k + i] /\ k + i \in 1 .. n
      BY <1>1, <1>2, <1>6
    <3>2. \A j \in 1 .. k : s[j] = q[j] /\ j \in 1 .. n /\ j # k + i
      BY <1>1, <1>2, <1>5
    <3>. QED  BY <1>11, <3>1, <3>2 DEF Line
  <2>2. ASSUME NEW i \in 1 .. n, q[i] \notin ToSet(s)
        PROVE  q[i] \in ToSet(r)
    <3>1. i - k \in 1 .. n - k
      BY <1>1, <1>2, <1>5, <1>11, <2>2
    <3>2. r[i - k] = q[i]
      BY <1>1, <1>2, <1>6, <3>1
    <3>. QED  BY <1>11, <3>1, <3>2
  <2>. QED  BY <1>11, <2>1, <2>2
<1>14. ToSet(r) # {} => k < n
  BY <1>1, <1>2, <1>11
<1>15. k \in Nat /\ a + k <= UploadConcurrency /\ (k < n => a + k = UploadConcurrency)
  BY <1>1, <1>2
<1>. QED  BY <1>8, <1>9, <1>10, <1>12, <1>13, <1>14, <1>15

-----------------------------------------------------------------------------
\* The page

\* The upload client of a page has the number of a visit.
PageOK == /\ visit \in 0 .. MaxVisits
          /\ "screen" \in DOMAIN page
          /\ Detail => visit \in Visits

HasScreen(p, at) == "screen" \in DOMAIN p /\ p.screen = at

\* Writes of other fields of the page.
LEMMA OtherFields ==
    ASSUME NEW p, NEW at, NEW x, NEW y, HasScreen(p, at)
    PROVE  /\ HasScreen([p EXCEPT !.uploads = x], at)
           /\ HasScreen([p EXCEPT !.loadError = x], at)
           /\ HasScreen([p EXCEPT !.batch = x, !.loadError = y], at)
<1>1. HasScreen([p EXCEPT !.uploads = x], at)
  BY DEF HasScreen
<1>2. HasScreen([p EXCEPT !.loadError = x], at)
  BY DEF HasScreen
<1>3. HasScreen([p EXCEPT !.batch = x], at)
  BY DEF HasScreen
<1>. DEFINE q == [p EXCEPT !.batch = x]
<1>. HIDE DEF q
<1>4. HasScreen(q, at)
  BY <1>3 DEF q
<1>5. HasScreen([q EXCEPT !.loadError = y], at)
  BY <1>4 DEF HasScreen
<1>. QED  BY <1>1, <1>2, <1>5, Zenon DEF q

LEMMA SameScreen ==
    ASSUME PageOK, UNCHANGED visit, HasScreen(page', page.screen)
    PROVE  PageOK'
BY DEF PageOK, HasScreen, Detail

LEMMA PageMounts ==
    ASSUME PageOK
    PROVE  /\ Mount => PageOK'
           /\ Unmount /\ UNCHANGED visit => PageOK'
<1>1. ASSUME Mount
      PROVE  PageOK'
  <2>1. visit' \in Visits /\ page' = BlankPage("detail")
    BY <1>1, DeskAssumption DEF Mount, PageOK, Visits
  <2>2. "screen" \in DOMAIN page'
    BY <2>1 DEF BlankPage
  <2>. QED  BY <2>1, <2>2, DeskAssumption DEF PageOK, Visits
<1>2. ASSUME Unmount, UNCHANGED visit
      PROVE  PageOK'
  <2>1. "screen" \in DOMAIN page' /\ page'.screen = "list"
    BY <1>2 DEF Unmount, BlankPage
  <2>. QED  BY <1>2, <2>1 DEF PageOK, Detail
<1>. QED  BY <1>1, <1>2

LEMMA PagePumps ==
    ASSUME PageOK, UNCHANGED visit, NEW v, NEW q, NEW a, NEW shown, Pump(v, q, a, shown)
    PROVE  PageOK'
<1>1. HasScreen(page, page.screen)
  BY DEF PageOK, HasScreen
<1>2. PICK x : page' = [page EXCEPT !.uploads = x]
  BY DEF Pump
<1>3. HasScreen(page', page.screen)
  BY <1>1, <1>2, OtherFields, Zenon
<1>. QED  BY <1>3, SameScreen

LEMMA PageStep ==
    ASSUME PageOK, [Next]_vars
    PROVE  PageOK'
<1>1. ASSUME UNCHANGED <<page, visit>>
      PROVE  PageOK'
  BY <1>1 DEF PageOK, Detail
<1>2. CASE Browsing
  <2>1. CASE OpenBatch
    BY <2>1, PageMounts DEF OpenBatch
  <2>2. CASE BackToBatches
    BY <2>2, PageMounts DEF BackToBatches
  <2>3. CASE Poll
    BY <1>1, <2>3 DEF Poll
  <2>4. ASSUME NEW S \in SUBSET Files, AddFiles(S)
        PROVE  PageOK'
    BY <2>4, PagePumps DEF AddFiles
  <2>. QED  BY <1>2, <2>1, <2>2, <2>3, <2>4 DEF Browsing
<1>3. CASE Clicking
  BY <1>1, <1>3 DEF Clicking, OnFinalize, OnRetryFailed, OnRerunStt, OnConfirm, OnCreate, OnBulk,
                    ReevaluateBatch, ReevaluateRows, OnRerunEvaluation, Request
<1>4. CASE Pipeline \/ OtherManager
  BY <1>1, <1>4 DEF Pipeline, Expand, Process, Rollup, OtherManager
<1>5. ASSUME NEW i \in Slots, Loading(i) \/ LoseLoad(i)
      PROVE  PageOK'
  <2>1. CASE ServeBatch(i) \/ LoseLoad(i)
    BY <1>1, <2>1 DEF ServeBatch, LoseLoad
  <2>2. CASE BatchArrives(i)
    <3>0. HasScreen(page, page.screen)
      BY DEF PageOK, HasScreen
    <3>1. UNCHANGED visit
      BY <2>2 DEF BatchArrives
    <3>2. CASE load[i].at = "answer"
      <4>1. page' = [page EXCEPT !.batch = load[i].val, !.loadError = FALSE]
        BY <2>2, <3>2 DEF BatchArrives
      <4>2. HasScreen(page', page.screen)
        BY <3>0, <4>1, OtherFields, Zenon
      <4>. QED  BY <3>1, <4>2, SameScreen
    <3>3. CASE load[i].at # "answer"
      <4>1. page' = [page EXCEPT !.loadError = @ \/ page.batch = NoBatch]
        BY <2>2, <3>3 DEF BatchArrives
      <4>2. HasScreen(page', page.screen)
        BY <3>0, <4>1, OtherFields, Zenon
      <4>. QED  BY <3>1, <4>2, SameScreen
    <3>. QED  BY <3>2, <3>3
  <2>. QED  BY <1>5, <2>1, <2>2 DEF Loading
<1>6. ASSUME NEW f \in Files, Uploading(f) \/ LoseUpload(f)
      PROVE  PageOK'
  <2>1. CASE InitUpload(f) \/ PutObject(f) \/ CompleteUpload(f) \/ LoseUpload(f)
    BY <1>1, <2>1 DEF InitUpload, PutObject, CompleteUpload, LoseUpload
  <2>2. CASE UploadEnds(f)
    BY <2>2, PagePumps DEF UploadEnds
  <2>. QED  BY <1>6, <2>1, <2>2 DEF Uploading
<1>7. ASSUME NEW k \in Kinds, Calling(k) \/ LoseAnswer(k)
      PROVE  PageOK'
  <2>1. CASE ServeCall(k) \/ LoseAnswer(k)
    BY <1>1, <2>1 DEF ServeCall, LoseAnswer
  <2>2. CASE CallEnds(k)
    <3>1. \/ Unmount /\ UNCHANGED visit
          \/ Mount
          \/ UNCHANGED <<page, visit>>
      BY <2>2 DEF CallEnds
    <3>. QED  BY <1>1, <3>1, PageMounts
  <2>. QED  BY <1>7, <2>1, <2>2 DEF Calling
<1>8. CASE UNCHANGED vars
  BY <1>1, <1>8 DEF vars
<1>. QED  BY <1>2, <1>3, <1>4, <1>5, <1>6, <1>7, <1>8 DEF Next

-----------------------------------------------------------------------------
\* The upload client

Legs == {"none", "queued", "init", "put", "complete", "ok", "dup", "failed", "settled"}

Waiting(v) == {f \in Files : owner[f] = v /\ leg[f] = "queued"}
Flying(v)  == {f \in Files : owner[f] = v /\ leg[f] \notin {"none", "queued", "settled"}}

\* The queue of a visit is what waits, its counter is what flies.
ClientOK(v) == /\ ToSet(queue[v]) = Waiting(v)
               /\ active[v] = Cardinality(Flying(v))
               /\ active[v] <= UploadConcurrency
               /\ Waiting(v) # {} => active[v] = UploadConcurrency

LegsOK == /\ queue \in [Visits -> Line]
          /\ active \in [Visits -> Nat]
          /\ leg \in [Files -> Legs]
          /\ owner \in [Files -> Visits \cup {0}]
          /\ \A f \in Files : leg[f] # "none" => owner[f] \in Visits

ClientInv == LegsOK /\ \A v \in Visits : ClientOK(v)

LEMMA FlyingIsFinite ==
    ASSUME NEW v
    PROVE  IsFiniteSet(Flying(v)) /\ Cardinality(Flying(v)) \in Nat
<1>1. Flying(v) \subseteq Files
  BY DEF Flying
<1>. QED  BY <1>1, DeskAssumption, FS_Subset, FS_CardinalityType

\* What pump starts joins what flies.
LEMMA PumpCounts ==
    ASSUME NEW v, NEW q \in Line, NEW A \in SUBSET Files, ToSet(q) \cap A = {},
           Cardinality(A) <= UploadConcurrency
    PROVE  /\ Cardinality(A) \in 0 .. UploadConcurrency
           /\ Cardinality(A \cup Going(v, q, Cardinality(A)))
                  = Cardinality(A) + Cardinality(Going(v, q, Cardinality(A)))
<1>1. IsFiniteSet(A) /\ Cardinality(A) \in Nat
  BY DeskAssumption, FS_Subset, FS_CardinalityType
<1>2. Cardinality(A) \in 0 .. UploadConcurrency
  BY <1>1, DeskAssumption
<1>. DEFINE go == Going(v, q, Cardinality(A))
<1>3. go \subseteq ToSet(q) /\ Cardinality(go) \in Nat
  BY <1>2, StartedFiles
<1>. HIDE DEF go
<1>4. IsFiniteSet(go)
  BY <1>3, CountOfLine, FS_Subset
<1>5. A \cap go = {}
  BY <1>3
<1>6. Cardinality(A \cup go) = Cardinality(A) + Cardinality(go) - Cardinality({})
  BY <1>1, <1>4, <1>5, FS_Union
<1>7. Cardinality({}) = 0
  BY FS_EmptySet
<1>. QED  BY <1>1, <1>2, <1>3, <1>6, <1>7 DEF go

LEMMA PumpWrites ==
    ASSUME LegsOK, NEW v \in Visits, NEW q \in Line, NEW a \in 0 .. UploadConcurrency,
           NEW shown, Pump(v, q, a, shown)
    PROVE  /\ queue' \in [Visits -> Line]
           /\ active' \in [Visits -> Nat]
           /\ queue'[v] = Staying(v, q, a)
           /\ active'[v] = a + Cardinality(Going(v, q, a))
           /\ \A u \in Visits \ {v} : queue'[u] = queue[u] /\ active'[u] = active[u]
<1>1. /\ queue' = [queue EXCEPT ![v] = Staying(v, q, a)]
      /\ active' = [active EXCEPT ![v] = a + Cardinality(Going(v, q, a))]
  BY DEF Pump, Staying, Going
<1>2. Staying(v, q, a) \in Line /\ Cardinality(Going(v, q, a)) \in Nat
  BY StartedFiles
<1>3. a + Cardinality(Going(v, q, a)) \in Nat
  BY <1>2, DeskAssumption
<1>. QED  BY <1>1, <1>2, <1>3 DEF LegsOK

\* The client that pumps.
LEMMA PumpOK ==
    ASSUME LegsOK, NEW v \in Visits, NEW q \in Line, NEW A \in SUBSET Files,
           ToSet(q) \cap A = {}, Cardinality(A) <= UploadConcurrency,
           NEW shown, Pump(v, q, Cardinality(A), shown),
           Waiting(v)' = ToSet(q) \ Going(v, q, Cardinality(A)),
           Flying(v)' = A \cup Going(v, q, Cardinality(A))
    PROVE  ClientOK(v)'
<1>. DEFINE a == Cardinality(A)
           go == Going(v, q, a)
<1>1. a \in 0 .. UploadConcurrency /\ Cardinality(A \cup go) = a + Cardinality(go)
  BY PumpCounts
<1>2. queue'[v] = Staying(v, q, a) /\ active'[v] = a + Cardinality(go)
  BY <1>1, PumpWrites
<1>3. /\ ToSet(Staying(v, q, a)) = ToSet(q) \ go
      /\ a + Cardinality(go) <= UploadConcurrency
      /\ ToSet(Staying(v, q, a)) # {} => a + Cardinality(go) = UploadConcurrency
  BY <1>1, StartedFiles
<1>4. Waiting(v)' = ToSet(q) \ go /\ Flying(v)' = A \cup go
  OBVIOUS
<1>. HIDE DEF go, a
<1>5. (ToSet(queue[v]) = Waiting(v))'
  BY <1>2, <1>3, <1>4
<1>6. (active[v] = Cardinality(Flying(v)))'
  BY <1>1, <1>2, <1>4
<1>7. (active[v] <= UploadConcurrency /\ (Waiting(v) # {} => active[v] = UploadConcurrency))'
  BY <1>2, <1>3, <1>4
<1>. QED  BY <1>5, <1>6, <1>7 DEF ClientOK

\* A client that nothing happens to.
LEMMA ClientKept ==
    ASSUME NEW v, ClientOK(v), Waiting(v)' = Waiting(v), Flying(v)' = Flying(v),
           queue'[v] = queue[v], active'[v] = active[v]
    PROVE  ClientOK(v)'
<1>1. (ToSet(queue[v]) = Waiting(v))' /\ (active[v] = Cardinality(Flying(v)))'
  BY DEF ClientOK
<1>2. (active[v] <= UploadConcurrency /\ (Waiting(v) # {} => active[v] = UploadConcurrency))'
  BY DEF ClientOK
<1>. QED  BY <1>1, <1>2 DEF ClientOK

\* The ledger counts as the page does.
LEMMA SameCount ==
    ASSUME NEW S
    PROVE  Ledger!Cardinality(S) = Cardinality(S)
BY Zenon DEF Cardinality, Ledger!Cardinality

\* A balanced ledger is what the invariant of the clients comes to.
LEMMA BalancedClients ==
    ASSUME ClientInv
    PROVE  Ledger!Balanced
<1>. SUFFICES ASSUME NEW v \in Visits
              PROVE  /\ Cardinality(Ledger!At(v, "sending")) <= UploadConcurrency
                     /\ Ledger!At(v, "waiting") # {} => Cardinality(Ledger!At(v, "sending")) = UploadConcurrency
  BY SameCount DEF Ledger!Balanced
<1>1. \A f \in Files : /\ Stage[f] = "sending" <=> leg[f] \notin {"none", "queued", "settled"}
                       /\ Stage[f] = "waiting" <=> leg[f] = "queued"
  BY DEF Stage, ClientInv, LegsOK, Legs
<1>2. Ledger!At(v, "sending") = Flying(v) /\ Ledger!At(v, "waiting") = Waiting(v)
  BY <1>1 DEF Ledger!At, Flying, Waiting
<1>3. ClientOK(v)
  BY DEF ClientInv
<1>. QED  BY <1>2, <1>3 DEF ClientOK

-----------------------------------------------------------------------------
\* The steps

\* What an offer or an end does to the queue of its client, and what it is in
\* the ledger.
LEMMA AddFilesOK ==
    ASSUME ClientInv, PageOK, NEW S \in SUBSET Files, AddFiles(S)
    PROVE  ClientInv' /\ Ledger!Offer
<1>0. PICK v \in Visits : v = visit
  BY DEF AddFiles, DropZoneShown, PageOK
<1>. DEFINE p  == SetToSeq(S)
           q  == queue[v] \o p
           a  == Cardinality(Flying(v))
           go == Going(v, q, a)
           shown == [f \in Files |-> IF f \in S THEN "queued" ELSE page.uploads[f]]
<1>1. LegsOK /\ ClientOK(v)
  BY DEF ClientInv
<1>2. queue[v] \in Line /\ ToSet(queue[v]) = Waiting(v) /\ active[v] = a /\ a <= UploadConcurrency
  BY <1>1 DEF LegsOK, ClientOK
<1>3. p \in Line /\ ToSet(p) = S
  BY SeqOfSet
<1>4. S # {} /\ \A f \in S : leg[f] = "none"
  BY DEF AddFiles
<1>5. q \in Line /\ ToSet(q) = Waiting(v) \cup S
  <2>1. ToSet(queue[v]) \cap ToSet(p) = {}
    BY <1>2, <1>3, <1>4 DEF Waiting
  <2>. QED  BY <1>2, <1>3, <2>1, LongerLine
<1>6. Flying(v) \subseteq Files /\ ToSet(q) \cap Flying(v) = {}
  BY <1>4, <1>5 DEF Waiting, Flying
<1>7. a \in 0 .. UploadConcurrency
  BY <1>2, FlyingIsFinite, DeskAssumption
<1>8. go \subseteq Waiting(v) \cup S
  BY <1>5, <1>7, StartedFiles
<1>p. Pump(v, q, a, shown)
  BY <1>0, <1>2 DEF AddFiles, Going
<1>l. leg' = [f \in Files |-> CASE f \in go -> "init" [] f \in S \ go -> "queued" [] OTHER -> leg[f]]
  BY <1>0, <1>2 DEF AddFiles, Going
<1>o. owner' = [f \in Files |-> IF f \in S THEN v ELSE owner[f]]
  BY <1>0, <1>2 DEF AddFiles, Going
<1>. HIDE DEF p, q, a, go, shown
<1>9. \A f \in Files : leg'[f] = IF f \in go THEN "init" ELSE IF f \in S THEN "queued" ELSE leg[f]
  BY <1>l
<1>10. \A f \in Files : owner'[f] = IF f \in S THEN v ELSE owner[f]
  BY <1>o
<1>11. Waiting(v)' = ToSet(q) \ go
  BY <1>4, <1>5, <1>8, <1>9, <1>10 DEF Waiting
<1>12. Flying(v)' = Flying(v) \cup go
  BY <1>4, <1>8, <1>9, <1>10 DEF Waiting, Flying
<1>13. ClientOK(v)'
  <2>1. Pump(v, q, Cardinality(Flying(v)), shown) /\ Cardinality(Flying(v)) <= UploadConcurrency
    BY <1>2, <1>p DEF a
  <2>2. Waiting(v)' = ToSet(q) \ Going(v, q, Cardinality(Flying(v)))
        /\ Flying(v)' = Flying(v) \cup Going(v, q, Cardinality(Flying(v)))
    BY <1>11, <1>12 DEF go, a
  <2>. QED  BY <1>1, <1>5, <1>6, <2>1, <2>2, PumpOK
<1>14. /\ queue' \in [Visits -> Line] /\ active' \in [Visits -> Nat]
       /\ \A u \in Visits \ {v} : queue'[u] = queue[u] /\ active'[u] = active[u]
  BY <1>1, <1>5, <1>7, <1>p, PumpWrites
<1>15. LegsOK'
  <2>1. leg' \in [Files -> Legs]
    BY <1>1, <1>l DEF LegsOK, Legs
  <2>2. owner' \in [Files -> Visits \cup {0}]
    BY <1>1, <1>o DEF LegsOK
  <2>3. \A f \in Files : leg'[f] # "none" => owner'[f] \in Visits
    BY <1>1, <1>8, <1>9, <1>10 DEF LegsOK, Waiting
  <2>. QED  BY <1>14, <2>1, <2>2, <2>3 DEF LegsOK
<1>16. ASSUME NEW u \in Visits \ {v}
       PROVE  ClientOK(u)'
  <2>1. Waiting(u)' = Waiting(u) /\ Flying(u)' = Flying(u)
    BY <1>4, <1>8, <1>9, <1>10 DEF Waiting, Flying
  <2>2. ClientOK(u)
    BY DEF ClientInv
  <2>. QED  BY <1>14, <2>1, <2>2, ClientKept
<1>17. ClientInv'
  BY <1>13, <1>15, <1>16 DEF ClientInv
<1>18. \A f \in Files :
          /\ f \in S => Stage[f] = "none" /\ Stage'[f] \in {"waiting", "sending"} /\ owner'[f] = v
          /\ f \notin S => owner'[f] = owner[f]
          /\ f \notin S => Stage'[f] = Stage[f]
                             \/ (owner[f] = v /\ Stage[f] = "waiting" /\ Stage'[f] = "sending")
  BY <1>4, <1>8, <1>9, <1>10 DEF Stage, Waiting
<1>19. Ledger!Offer
  BY <1>1, <1>4, <1>18 DEF Ledger!Offer, Ledger!Sends
<1>. QED  BY <1>17, <1>19

LEMMA UploadEndsOK ==
    ASSUME ClientInv, NEW f \in Files, UploadEnds(f)
    PROVE  ClientInv' /\ Ledger!Settle
<1>0. leg[f] \in {"ok", "dup", "failed"}
  BY DEF UploadEnds
<1>v. PICK v \in Visits : v = owner[f]
  BY <1>0 DEF ClientInv, LegsOK
<1>. DEFINE q  == queue[v]
           A  == Flying(v) \ {f}
           a  == Cardinality(A)
           go == Going(v, q, a)
           shown == IF v = visit /\ Detail THEN [page.uploads EXCEPT ![f] = Outcome(f)] ELSE page.uploads
<1>1. LegsOK /\ ClientOK(v)
  BY DEF ClientInv
<1>2. q \in Line /\ ToSet(q) = Waiting(v) /\ active[v] = Cardinality(Flying(v)) /\ active[v] <= UploadConcurrency
  BY <1>1 DEF LegsOK, ClientOK
<1>3. f \in Flying(v)
  BY <1>0, <1>v DEF Flying
<1>4. a = Cardinality(Flying(v)) - 1
  BY <1>3, FlyingIsFinite, FS_RemoveElement
<1>5. a \in 0 .. UploadConcurrency
  <2>1. IsFiniteSet(A) /\ a \in Nat
    BY FlyingIsFinite, FS_Subset, FS_CardinalityType
  <2>. QED  BY <1>2, <1>4, <2>1, FlyingIsFinite, DeskAssumption
<1>. HIDE DEF q, A, a, go
<1>6. A \subseteq Files /\ ToSet(q) \cap A = {}
  <2>1. \A g \in Waiting(v) : g \notin Flying(v)
    BY DEF Waiting, Flying
  <2>2. Flying(v) \subseteq Files
    BY DEF Flying
  <2>. QED  BY <1>2, <2>1, <2>2 DEF A
<1>7. go \subseteq Waiting(v)
  BY <1>2, <1>5, StartedFiles DEF go
<1>8. Freed(f) = a
  BY <1>v, <1>2, <1>4 DEF Freed
<1>p. Pump(v, q, a, shown)
  BY <1>v, <1>8 DEF UploadEnds, q
<1>l. leg' = [g \in Files |-> CASE g = f -> "settled" [] g \in go -> "init" [] OTHER -> leg[g]]
  BY <1>v, <1>8 DEF UploadEnds, Going, go, q
<1>9. owner' = owner
  BY DEF UploadEnds
<1>. HIDE DEF shown
<1>10. \A g \in Files : leg'[g] = IF g = f THEN "settled" ELSE IF g \in go THEN "init" ELSE leg[g]
  BY <1>0, <1>7, <1>l DEF Waiting
<1>11. Waiting(v)' = ToSet(q) \ go
  BY <1>0, <1>2, <1>7, <1>9, <1>10 DEF Waiting
<1>12. Flying(v)' = A \cup go
  BY <1>0, <1>7, <1>9, <1>10 DEF Waiting, Flying, A
<1>13. ClientOK(v)'
  <2>1. Pump(v, q, Cardinality(A), shown) /\ Cardinality(A) <= UploadConcurrency
    BY <1>5, <1>p, DeskAssumption DEF a
  <2>2. Waiting(v)' = ToSet(q) \ Going(v, q, Cardinality(A))
        /\ Flying(v)' = A \cup Going(v, q, Cardinality(A))
    BY <1>11, <1>12 DEF go, a
  <2>. QED  BY <1>1, <1>2, <1>6, <2>1, <2>2, PumpOK
<1>14. /\ queue' \in [Visits -> Line] /\ active' \in [Visits -> Nat]
       /\ \A u \in Visits \ {v} : queue'[u] = queue[u] /\ active'[u] = active[u]
  BY <1>1, <1>2, <1>5, <1>p, PumpWrites
<1>15. LegsOK'
  <2>1. leg' \in [Files -> Legs]
    BY <1>1, <1>l DEF LegsOK, Legs
  <2>2. \A g \in Files : leg'[g] # "none" => owner'[g] \in Visits
    BY <1>0, <1>1, <1>7, <1>9, <1>10 DEF LegsOK, Waiting
  <2>. QED  BY <1>1, <1>9, <1>14, <2>1, <2>2 DEF LegsOK
<1>16. ASSUME NEW u \in Visits \ {v}
       PROVE  ClientOK(u)'
  <2>1. owner[f] # u
    BY <1>v
  <2>2. Waiting(u)' = Waiting(u) /\ Flying(u)' = Flying(u)
    BY <1>0, <1>7, <1>9, <1>10, <2>1 DEF Waiting, Flying
  <2>3. ClientOK(u)
    BY DEF ClientInv
  <2>. QED  BY <1>14, <2>2, <2>3, ClientKept
<1>17. ClientInv'
  BY <1>13, <1>15, <1>16 DEF ClientInv
<1>18. \A g \in Files \ {f} :
          Stage'[g] = Stage[g] \/ (owner[g] = v /\ Stage[g] = "waiting" /\ Stage'[g] = "sending")
  BY <1>7, <1>10 DEF Stage, Waiting
<1>19. Stage[f] = "sending" /\ Stage'[f] = "settled"
  BY <1>0, <1>10 DEF Stage
<1>20. Ledger!Settle
  BY <1>v, <1>9, <1>18, <1>19 DEF Ledger!Settle, Ledger!Sends
<1>. QED  BY <1>17, <1>20

\* An upload that only gets further.
LEMMA FlyingOn ==
    ASSUME ClientInv, NEW f \in Files, NEW to \in Legs \ {"none", "queued", "settled"},
           leg[f] \notin {"none", "queued", "settled"}, Advance(f, to),
           UNCHANGED <<owner, queue, active>>
    PROVE  ClientInv' /\ UNCHANGED Ledger!ledger
<1>1. \A g \in Files : leg'[g] = IF g = f THEN to ELSE leg[g]
  BY DEF Advance, ClientInv, LegsOK
<1>2. LegsOK'
  <2>1. leg' \in [Files -> Legs]
    BY DEF Advance, ClientInv, LegsOK
  <2>2. \A g \in Files : leg'[g] # "none" => owner'[g] \in Visits
    BY <1>1 DEF ClientInv, LegsOK
  <2>. QED  BY <2>1, <2>2 DEF ClientInv, LegsOK
<1>3. ASSUME NEW v \in Visits
      PROVE  ClientOK(v)'
  <2>1. Waiting(v)' = Waiting(v) /\ Flying(v)' = Flying(v)
    BY <1>1 DEF Waiting, Flying
  <2>2. ClientOK(v)
    BY DEF ClientInv
  <2>. QED  BY <2>1, <2>2, ClientKept
<1>4. Stage' = Stage
  BY <1>1 DEF Stage
<1>. QED  BY <1>2, <1>3, <1>4 DEF ClientInv, Ledger!ledger

\* Everything else leaves the clients alone.
LEMMA UploadsAlone ==
    ASSUME ClientInv, UNCHANGED uploads
    PROVE  ClientInv' /\ UNCHANGED Ledger!ledger
<1>1. UNCHANGED <<leg, owner, queue, active>>
  BY DEF uploads
<1>2. ASSUME NEW v \in Visits
      PROVE  ClientOK(v)'
  <2>1. Waiting(v)' = Waiting(v) /\ Flying(v)' = Flying(v)
    BY <1>1 DEF Waiting, Flying
  <2>2. ClientOK(v)
    BY DEF ClientInv
  <2>. QED  BY <1>1, <2>1, <2>2, ClientKept
<1>3. LegsOK'
  BY <1>1 DEF ClientInv, LegsOK
<1>4. Stage' = Stage
  BY <1>1 DEF Stage
<1>. QED  BY <1>1, <1>2, <1>3, <1>4 DEF ClientInv, Ledger!ledger

LEMMA LedgerStep ==
    ASSUME ClientInv, PageOK, [Next]_vars
    PROVE  ClientInv' /\ (Ledger!Offer \/ Ledger!Settle \/ UNCHANGED Ledger!ledger)
<1>1. CASE Browsing
  <2>1. CASE OpenBatch \/ BackToBatches \/ Poll
    BY <2>1, UploadsAlone DEF OpenBatch, BackToBatches, Poll
  <2>2. ASSUME NEW S \in SUBSET Files, AddFiles(S)
        PROVE  ClientInv' /\ Ledger!Offer
    BY <2>2, AddFilesOK
  <2>. QED  BY <1>1, <2>1, <2>2 DEF Browsing
<1>2. CASE Clicking
  BY <1>2, UploadsAlone DEF Clicking, OnFinalize, OnRetryFailed, OnRerunStt, OnConfirm, OnCreate, OnBulk,
                            ReevaluateBatch, ReevaluateRows, OnRerunEvaluation, Request
<1>3. CASE Pipeline \/ OtherManager
  BY <1>3, UploadsAlone DEF Pipeline, Expand, Process, Rollup, OtherManager
<1>4. ASSUME NEW i \in Slots, Loading(i) \/ LoseLoad(i)
      PROVE  UNCHANGED uploads
  BY <1>4 DEF Loading, ServeBatch, BatchArrives, LoseLoad
<1>5. ASSUME NEW f \in Files, Uploading(f) \/ LoseUpload(f)
      PROVE  ClientInv' /\ (Ledger!Settle \/ UNCHANGED Ledger!ledger)
  <2>1. CASE InitUpload(f)
    <3>1. leg[f] = "init" /\ UNCHANGED <<owner, queue, active>>
          /\ (Advance(f, "put") \/ Advance(f, "failed"))
      BY <2>1 DEF InitUpload
    <3>. QED  BY <3>1, FlyingOn DEF Legs
  <2>2. CASE PutObject(f)
    <3>1. leg[f] = "put" /\ UNCHANGED <<owner, queue, active>> /\ Advance(f, "complete")
      BY <2>2 DEF PutObject
    <3>. QED  BY <3>1, FlyingOn DEF Legs
  <2>3. CASE CompleteUpload(f)
    <3>1. leg[f] = "complete" /\ UNCHANGED <<owner, queue, active>>
          /\ (Advance(f, "failed") \/ Advance(f, "ok") \/ Advance(f, "dup"))
      BY <2>3 DEF CompleteUpload
    <3>. QED  BY <3>1, FlyingOn DEF Legs
  <2>4. CASE LoseUpload(f)
    <3>1. leg[f] \in {"init", "put", "complete", "ok", "dup"} /\ UNCHANGED <<owner, queue, active>>
          /\ Advance(f, "failed")
      BY <2>4 DEF LoseUpload
    <3>. QED  BY <3>1, FlyingOn DEF Legs
  <2>5. CASE UploadEnds(f)
    BY <2>5, UploadEndsOK
  <2>. QED  BY <1>5, <2>1, <2>2, <2>3, <2>4, <2>5 DEF Uploading
<1>6. ASSUME NEW k \in Kinds, Calling(k) \/ LoseAnswer(k)
      PROVE  UNCHANGED uploads
  BY <1>6 DEF Calling, ServeCall, CallEnds, LoseAnswer
<1>7. CASE UNCHANGED vars
  BY <1>7, UploadsAlone DEF vars, uploads
<1>. QED  BY <1>1, <1>2, <1>3, <1>4, <1>5, <1>6, <1>7, UploadsAlone DEF Next

\* A page starts with an empty queue and no upload, and the ledger with it.
LEMMA LedgerStarts ==
    ASSUME Init
    PROVE  ClientInv /\ PageOK /\ Ledger!Init
<1>1. /\ leg = [f \in Files |-> "none"]
      /\ owner = [f \in Files |-> 0]
      /\ queue = [v \in Visits |-> <<>>]
      /\ active = [v \in Visits |-> 0]
      /\ visit = 0 /\ page = BlankPage("list")
  BY DEF Init
<1>2. <<>> \in Line /\ ToSet(<<>>) = {}
  BY DEF Line, ToSet
<1>3. LegsOK
  BY <1>1, <1>2 DEF LegsOK, Legs
<1>4. ASSUME NEW v \in Visits
      PROVE  ClientOK(v)
  <2>1. Waiting(v) = {} /\ Flying(v) = {}
    BY <1>1 DEF Waiting, Flying
  <2>. QED  BY <1>1, <1>2, <2>1, FS_EmptySet, DeskAssumption DEF ClientOK
<1>5. PageOK
  <2>1. "screen" \in DOMAIN page /\ page.screen = "list"
    BY <1>1 DEF BlankPage
  <2>. QED  BY <1>1, <2>1, DeskAssumption DEF PageOK, Detail
<1>6. Ledger!Init
  BY <1>1 DEF Ledger!Init, Stage
<1>. QED  BY <1>3, <1>4, <1>5, <1>6 DEF ClientInv

\* The upload client implements UploadLedger: no page has more uploads under
\* way than UPLOAD_CONCURRENCY, none lets a slot idle while a file waits, and
\* no file is sent twice, with any files, visits and faults.
THEOREM ClientKeepsLedger == Spec => UploadsKeepLedger
<1>1. Init => ClientInv /\ PageOK
  BY LedgerStarts
<1>2. ClientInv /\ PageOK /\ [Next]_vars => (ClientInv /\ PageOK)'
  BY LedgerStep, PageStep
<1>3. Init => Ledger!Init
  BY LedgerStarts
<1>4. ClientInv /\ PageOK /\ [Next]_vars => [Ledger!Next]_(Ledger!ledger)
  <2>. SUFFICES ASSUME ClientInv, PageOK, [Next]_vars
                PROVE  [Ledger!Next]_(Ledger!ledger)
    OBVIOUS
  <2>1. ClientInv' /\ (Ledger!Offer \/ Ledger!Settle \/ UNCHANGED Ledger!ledger)
    BY LedgerStep
  <2>2. Ledger!Balanced'
    BY <2>1, BalancedClients, PTL
  <2>. QED  BY <2>1, <2>2 DEF Ledger!Next
<1>. QED  BY <1>1, <1>2, <1>3, <1>4, PTL DEF Spec, UploadsKeepLedger, Ledger!Safety
-----------------------------------------------------------------------------
\* What the pages show and the API has

Statuses == {"none", "open", "processing", Terminal, "deleted"}
Requests == {Idle} \cup [at : {"sent", "ok", "error"}, visit : 0 .. MaxVisits, ids : SUBSET Digests]
Loads    == {Idle, [at |-> "sent"], [at |-> "failure"]} \cup [at : {"answer"}, val : Batch]
Pages    == [screen : {"list", "detail"}, batch : Batch \cup {NoBatch}, loadError : BOOLEAN,
             uploads : [Files -> UploadStates \cup {"none"}]]

ServerTypes == status \in Statuses /\ rows \in [Digests -> RowStates] /\ stored \subseteq Zips
DeskTypes   == /\ ServerTypes
               /\ visit \in 0 .. MaxVisits
               /\ page \in Pages
               /\ call \in [Kinds -> Requests]
               /\ load \in [Slots -> Loads]

\* Nothing is shown or loaded of a batch before there is one.
Begun == /\ Detail => status # "none"
         /\ \A i \in Slots : load[i] # Idle => status # "none"
         /\ call["create"].at = "ok" => status # "none"

\* The batch has the file, or is gone.
Has(f)    == status = "deleted" \/ f \in stored \/ Digest[f] \in Existing
Something == \E f \in Files : Has(f)

\* What an upload has reached is there: a ZIP from the PUT on, every file from
\* the answer to complete on, and what the page says of it.
UploadsKept == \A f \in Files :
    /\ leg[f] = "complete" /\ f \in Zips => Has(f)
    /\ leg[f] \in {"ok", "dup"} => Has(f)
    /\ page.uploads[f] \in {"done", "duplicate"} => Has(f)

\* Counts on the page, on their way to it, and what was clicked because of them.
CountsKept == /\ page.batch.files > 0 => Something
              /\ \A i \in Slots : load[i].at = "answer" /\ load[i].val.files > 0 => Something
              /\ call["finalize"].at = "sent" => Something

DeskInv == DeskTypes /\ Begun /\ UploadsKept /\ CountsKept

\* What every step does to the batch.
Onward == /\ ServerTypes'
          /\ status # "none" => status' # "none"
          /\ \A f \in Files : Has(f) => Has(f)'

LEMMA SizeTypes ==
    /\ Cardinality(Digests) \in Nat
    /\ \A S \in SUBSET Digests : /\ Cardinality(S) \in 0 .. Cardinality(Digests)
                                 /\ Cardinality(S) > 0 => S # {}
<1>. DEFINE D == [f \in Files |-> Digest[f]]
<1>1. D \in Surjection(Files, Digests)
  BY Fun_IsSurj DEF Digests
<1>2. IsFiniteSet(Digests)
  BY <1>1, DeskAssumption, FS_Surjection
<1>3. Cardinality(Digests) \in Nat
  BY <1>2, FS_CardinalityType
<1>4. ASSUME NEW S \in SUBSET Digests
      PROVE  /\ Cardinality(S) \in 0 .. Cardinality(Digests)
             /\ Cardinality(S) > 0 => S # {}
  <2>1. IsFiniteSet(S) /\ Cardinality(S) <= Cardinality(Digests)
    BY <1>2, FS_Subset
  <2>2. Cardinality(S) \in Nat
    BY <2>1, FS_CardinalityType
  <2>. QED  BY <1>3, <2>1, <2>2, FS_EmptySet
<1>. QED  BY <1>3, <1>4

\* A recording is never lost but with its batch.
LEMMA KeepsAll ==
    ASSUME ServerTypes, ServerTypes', status # "none" => status' # "none",
           status = "deleted" => status' = "deleted",
           \A d \in Digests : rows[d] # "absent" => rows'[d] # "absent" \/ status' = "deleted",
           \A f \in stored : f \in stored' \/ rows'[Digest[f]] # "absent"
    PROVE  Onward
<1>1. ASSUME NEW f \in Files, Has(f)
      PROVE  Has(f)'
  <2>1. Digest[f] \in Digests
    BY DEF Digests
  <2>2. Has(f)' <=> status' = "deleted" \/ f \in stored' \/ rows'[Digest[f]] # "absent"
    BY <2>1 DEF Has, Existing
  <2>. QED  BY <1>1, <2>1, <2>2 DEF Has, Existing
<1>. QED  BY <1>1 DEF Onward

LEMMA BecameTypes ==
    ASSUME ServerTypes, NEW S, NEW to \in RowStates, Became(S, to)
    PROVE  /\ rows' \in [Digests -> RowStates]
           /\ to # "absent" => \A d \in Digests : rows[d] # "absent" => rows'[d] # "absent"
BY DEF Became, ServerTypes

LEMMA HandlersOnward ==
    ASSUME ServerTypes,
           \/ CreateBatch \/ Finalize \/ RetryFailed \/ RerunStt \/ BulkRerunStt \/ DeleteBatch
           \/ \E ids : Reevaluate(ids)
    PROVE  Onward
<1>1. CASE CreateBatch
  BY <1>1, KeepsAll DEF CreateBatch, ServerTypes, Statuses
<1>2. CASE Finalize
  BY <1>2, KeepsAll DEF Finalize, ServerTypes, Statuses
<1>3. ASSUME NEW S, Became(S, "active"), UNCHANGED stored, status' = status \/ status' = "processing",
             status \in {"none", "deleted"} => status' = status
      PROVE  Onward
  <2>1. /\ rows' \in [Digests -> RowStates]
        /\ \A d \in Digests : rows[d] # "absent" => rows'[d] # "absent"
    BY <1>3, BecameTypes DEF RowStates
  <2>2. status' \in Statuses /\ stored' \subseteq Zips
    BY <1>3 DEF ServerTypes, Statuses
  <2>3. ServerTypes'
    BY <2>1, <2>2 DEF ServerTypes
  <2>. QED  BY <1>3, <2>1, <2>3, KeepsAll
<1>4. CASE RetryFailed
  BY <1>3, <1>4 DEF RetryFailed
<1>5. CASE RerunStt
  BY <1>3, <1>5 DEF RerunStt
<1>6. CASE BulkRerunStt
  BY <1>3, <1>6 DEF BulkRerunStt, Terminal
<1>7. ASSUME NEW ids, Reevaluate(ids)
      PROVE  Onward
  BY <1>3, <1>7 DEF Reevaluate, Terminal
<1>8. CASE DeleteBatch
  <2>1. rows' \in [Digests -> RowStates]
    BY <1>8, BecameTypes DEF DeleteBatch, RowStates
  <2>2. ServerTypes' /\ status' = "deleted" /\ UNCHANGED stored
    BY <1>8, <2>1 DEF DeleteBatch, ServerTypes, Statuses
  <2>. QED  BY <2>2, KeepsAll
<1>. QED  BY <1>1, <1>2, <1>4, <1>5, <1>6, <1>7, <1>8

LEMMA UploadsOnward ==
    ASSUME ServerTypes, NEW f \in Files, PutObject(f) \/ CompleteUpload(f)
    PROVE  Onward
<1>1. CASE PutObject(f)
  BY <1>1, KeepsAll DEF PutObject, ServerTypes
<1>2. CASE CompleteUpload(f)
  <2>1. Digest[f] \in Digests /\ UNCHANGED <<status, stored>>
    BY <1>2 DEF CompleteUpload, Digests
  <2>2. rows' = rows \/ rows' = [rows EXCEPT ![Digest[f]] = "uploaded"]
    BY <1>2 DEF CompleteUpload
  <2>3. rows' \in [Digests -> RowStates] /\ \A d \in Digests : rows[d] # "absent" => rows'[d] # "absent"
    BY <2>1, <2>2 DEF ServerTypes, RowStates
  <2>4. ServerTypes'
    BY <2>1, <2>3 DEF ServerTypes
  <2>. QED  BY <2>1, <2>3, <2>4, KeepsAll
<1>. QED  BY <1>1, <1>2

LEMMA PipelineOnward ==
    ASSUME ServerTypes, Pipeline
    PROVE  Onward
<1>1. CASE Expand
  <2>1. rows' \in [Digests -> RowStates] /\ \A d \in Digests : rows[d] # "absent" => rows'[d] # "absent"
    BY <1>1 DEF Expand, ServerTypes, RowStates
  <2>2. \A f \in stored : rows'[Digest[f]] # "absent"
    <3>1. \A f \in stored : Digest[f] \in Digests
      BY DeskAssumption DEF ServerTypes, Digests
    <3>. QED  BY <1>1, <3>1 DEF Expand
  <2>3. ServerTypes' /\ UNCHANGED status
    BY <1>1, <2>1 DEF Expand, ServerTypes
  <2>. QED  BY <2>1, <2>2, <2>3, KeepsAll
<1>2. CASE Process
  <2>1. rows' \in [Digests -> RowStates] /\ \A d \in Digests : rows[d] # "absent" => rows'[d] # "absent"
    BY <1>2 DEF Process, ServerTypes, RowStates
  <2>2. ServerTypes' /\ UNCHANGED <<status, stored>>
    BY <1>2, <2>1 DEF Process, ServerTypes
  <2>. QED  BY <2>1, <2>2, KeepsAll
<1>3. CASE Rollup
  BY <1>3, KeepsAll DEF Rollup, ServerTypes, Statuses, Terminal
<1>. QED  BY <1>1, <1>2, <1>3 DEF Pipeline

LEMMA HandlerCases ==
    ASSUME NEW k \in Kinds, NEW ids, Handler(k, ids)
    PROVE  /\ k = "create" => CreateBatch
           /\ k = "finalize" => Finalize
           /\ \/ CreateBatch \/ Finalize \/ RetryFailed \/ RerunStt \/ BulkRerunStt \/ DeleteBatch
              \/ Reevaluate(ids)
BY DEF Handler, Kinds

\* Who changes the batch.
LEMMA ServerChanges ==
    ASSUME [Next]_vars
    PROVE  \/ UNCHANGED server
           \/ Pipeline
           \/ \E f \in Files : PutObject(f) \/ CompleteUpload(f)
           \/ \E k \in Kinds : Handler(k, call[k].ids)
           \/ Finalize \/ RetryFailed \/ RerunStt \/ Reevaluate({}) \/ DeleteBatch
BY DEF Next, Browsing, OpenBatch, BackToBatches, Poll, AddFiles,
       Clicking, OnFinalize, OnRetryFailed, OnRerunStt, OnConfirm, OnCreate, OnBulk,
       ReevaluateBatch, ReevaluateRows, OnRerunEvaluation, Request, OtherManager,
       Loading, ServeBatch, BatchArrives, LoseLoad, Uploading, InitUpload, UploadEnds, LoseUpload,
       Calling, ServeCall, CallEnds, LoseAnswer, server, vars

LEMMA ServerStep ==
    ASSUME ServerTypes, [Next]_vars
    PROVE  Onward
<1>1. CASE UNCHANGED server
  <2>1. UNCHANGED <<status, rows, stored>>
    BY <1>1 DEF server
  <2>2. ServerTypes'
    BY <2>1 DEF ServerTypes
  <2>. QED  BY <2>1, <2>2, KeepsAll
<1>2. ASSUME NEW k \in Kinds, Handler(k, call[k].ids)
      PROVE  Onward
  BY <1>2, HandlerCases, HandlersOnward
<1>. QED  BY <1>1, <1>2, ServerChanges, PipelineOnward, UploadsOnward, HandlersOnward

-----------------------------------------------------------------------------
\* Requests and loads

\* Who changes the requests.
LEMMA CallChanges ==
    ASSUME [Next]_vars
    PROVE  \/ UNCHANGED call
           \/ Clicking
           \/ \E k \in Kinds : ServeCall(k) \/ CallEnds(k) \/ LoseAnswer(k)
BY DEF Next, Browsing, OpenBatch, BackToBatches, Poll, AddFiles,
       Pipeline, Expand, Process, Rollup, OtherManager,
       Loading, ServeBatch, BatchArrives, LoseLoad,
       Uploading, InitUpload, PutObject, CompleteUpload, UploadEnds, LoseUpload, Calling, vars

LEMMA ClickSends ==
    ASSUME Clicking
    PROVE  \E k \in Kinds, ids \in SUBSET Digests : Request(k, ids) /\ (k = "finalize" => HasFiles)
<1>1. {} \in SUBSET Digests /\ SUBSET Existing \subseteq SUBSET Digests
  BY DEF Existing
<1>2. CASE OnFinalize
  BY <1>1, <1>2 DEF OnFinalize, CanFinalize, Kinds
<1>3. CASE OnRetryFailed \/ OnRerunStt \/ OnConfirm \/ OnCreate \/ OnBulk
  BY <1>1, <1>3 DEF OnRetryFailed, OnRerunStt, OnConfirm, OnCreate, OnBulk, Kinds
<1>4. CASE ReevaluateBatch
  BY <1>1, <1>4 DEF ReevaluateBatch, OnRerunEvaluation, Kinds
<1>5. ASSUME NEW ids \in SUBSET Existing, OnRerunEvaluation(ids)
      PROVE  Request("eval", ids) /\ ids \in SUBSET Digests
  BY <1>1, <1>5 DEF OnRerunEvaluation
<1>6. CASE ReevaluateRows
  BY <1>5, <1>6 DEF ReevaluateRows, Kinds
<1>. QED  BY <1>2, <1>3, <1>4, <1>6 DEF Clicking

LEMMA ServeCases ==
    ASSUME NEW k \in Kinds, ServeCall(k)
    PROVE  /\ call[k].at = "sent"
           /\ \/ Served(k, "error")
              \/ Handler(k, call[k].ids) /\ Served(k, "ok")
BY DEF ServeCall

LEMMA ServedTypes ==
    ASSUME call \in [Kinds -> Requests], NEW k \in Kinds, call[k] # Idle, NEW how \in {"ok", "error"},
           Served(k, how)
    PROVE  /\ call' \in [Kinds -> Requests]
           /\ call'[k].at = how
           /\ \A j \in Kinds \ {k} : call'[j] = call[j]
<1>1. call[k] \in [at : {"sent", "ok", "error"}, visit : 0 .. MaxVisits, ids : SUBSET Digests]
  BY DEF Requests
<1>2. call' = [call EXCEPT ![k] = [call[k] EXCEPT !.at = how]]
  BY DEF Served
<1>3. [call[k] EXCEPT !.at = how] \in [at : {"sent", "ok", "error"}, visit : 0 .. MaxVisits, ids : SUBSET Digests]
  BY <1>1
<1>4. [call[k] EXCEPT !.at = how].at = how
  BY <1>1
<1>. QED  BY <1>2, <1>3, <1>4 DEF Requests

LEMMA CallStep ==
    ASSUME DeskTypes, [Next]_vars
    PROVE  /\ call' \in [Kinds -> Requests]
           /\ call'["create"].at = "ok" => call["create"].at = "ok" \/ CreateBatch
           /\ call'["finalize"].at = "sent" => call["finalize"].at = "sent" \/ HasFiles
           /\ call'["finalize"].at = "ok" => call["finalize"].at = "ok" \/ Finalize
<1>0. call \in [Kinds -> Requests] /\ visit \in 0 .. MaxVisits /\ {"create", "finalize"} \subseteq Kinds
  BY DEF DeskTypes, Kinds
<1>1. CASE UNCHANGED call
  BY <1>0, <1>1
<1>2. ASSUME NEW k \in Kinds, NEW ids \in SUBSET Digests, Request(k, ids), k = "finalize" => HasFiles
      PROVE  /\ call' \in [Kinds -> Requests]
             /\ call'["create"].at = "ok" => call["create"].at = "ok"
             /\ call'["finalize"].at = "sent" => call["finalize"].at = "sent" \/ HasFiles
             /\ call'["finalize"].at = "ok" => call["finalize"].at = "ok"
  <2>. DEFINE r == [at |-> "sent", visit |-> visit, ids |-> ids]
  <2>1. call' = [call EXCEPT ![k] = r]
    BY <1>2 DEF Request
  <2>2. r \in Requests /\ r.at = "sent"
    BY <1>0 DEF Requests
  <2>. HIDE DEF r
  <2>. QED  BY <1>0, <1>2, <2>1, <2>2
<1>3. ASSUME NEW k \in Kinds, ServeCall(k)
      PROVE  /\ call' \in [Kinds -> Requests]
             /\ call'["create"].at = "ok" => call["create"].at = "ok" \/ CreateBatch
             /\ call'["finalize"].at = "sent" => call["finalize"].at = "sent"
             /\ call'["finalize"].at = "ok" => call["finalize"].at = "ok" \/ Finalize
  <2>1. call[k] # Idle
    BY <1>3, ServeCases DEF Idle
  <2>2. CASE Served(k, "error")
    BY <1>0, <2>1, <2>2, ServedTypes
  <2>3. CASE Handler(k, call[k].ids) /\ Served(k, "ok")
    <3>1. /\ call' \in [Kinds -> Requests] /\ call'[k].at = "ok"
          /\ \A j \in Kinds \ {k} : call'[j] = call[j]
      BY <1>0, <2>1, <2>3, ServedTypes
    <3>. QED  BY <1>0, <2>3, <3>1, HandlerCases
  <2>. QED  BY <1>3, <2>2, <2>3, ServeCases
<1>4. ASSUME NEW k \in Kinds, CallEnds(k)
      PROVE  /\ call' \in [Kinds -> Requests]
             /\ call'["create"].at = "ok" => call["create"].at = "ok"
             /\ call'["finalize"].at = "sent" => call["finalize"].at = "sent"
             /\ call'["finalize"].at = "ok" => call["finalize"].at = "ok"
  <2>1. call' = [call EXCEPT ![k] = Idle]
    BY <1>4 DEF CallEnds
  <2>. QED  BY <1>0, <2>1 DEF Idle, Requests
<1>5. ASSUME NEW k \in Kinds, LoseAnswer(k)
      PROVE  /\ call' \in [Kinds -> Requests]
             /\ call'["create"].at = "ok" => call["create"].at = "ok"
             /\ call'["finalize"].at = "sent" => call["finalize"].at = "sent"
             /\ call'["finalize"].at = "ok" => call["finalize"].at = "ok"
  <2>1. call[k] # Idle /\ Served(k, "error")
    BY <1>5 DEF LoseAnswer, Idle
  <2>. QED  BY <1>0, <2>1, ServedTypes
<1>. QED  BY <1>1, <1>2, <1>3, <1>4, <1>5, CallChanges, ClickSends

\* Who changes the loads.
LEMMA LoadChanges ==
    ASSUME [Next]_vars
    PROVE  \/ UNCHANGED load
           \/ Mount /\ (OpenBatch \/ call["create"].at = "ok")
           \/ Unmount
           \/ Detail /\ Refresh
           \/ \E i \in Slots : ServeBatch(i) \/ LoseLoad(i) \/ BatchArrives(i)
<1>1. ASSUME NEW k \in Kinds, CallEnds(k)
      PROVE  \/ UNCHANGED load
             \/ Mount /\ call["create"].at = "ok"
             \/ Unmount
             \/ Detail /\ Refresh
  BY <1>1 DEF CallEnds
<1>2. ASSUME NEW f \in Files, UploadEnds(f)
      PROVE  UNCHANGED load \/ (Detail /\ Refresh)
  BY <1>2 DEF UploadEnds
<1>. QED
  BY <1>1, <1>2
  DEF Next, Browsing, OpenBatch, BackToBatches, Poll, AddFiles,
      Clicking, OnFinalize, OnRetryFailed, OnRerunStt, OnConfirm, OnCreate, OnBulk,
      ReevaluateBatch, ReevaluateRows, OnRerunEvaluation, Request,
      Pipeline, Expand, Process, Rollup, OtherManager,
      Loading, Uploading, InitUpload, PutObject, CompleteUpload, LoseUpload,
      Calling, ServeCall, LoseAnswer, uploads, vars

LEMMA SnapshotType ==
    ASSUME ServerTypes, status \notin {"none", "deleted"}
    PROVE  Snapshot \in Loads /\ Snapshot.at = "answer" /\ (Snapshot.val.files > 0 => Existing # {})
<1>1. Existing \subseteq Digests /\ In("failed") \subseteq Digests
  BY DEF Existing, In
<1>2. /\ Cardinality(Existing) \in 0 .. Cardinality(Digests)
      /\ Cardinality(In("failed")) \in 0 .. Cardinality(Digests)
      /\ Cardinality(Existing) > 0 => Existing # {}
  BY <1>1, SizeTypes
<1>3. status \in {"open", "processing", Terminal}
  BY DEF ServerTypes, Statuses
<1>4. Snapshot.val \in Batch
  BY <1>2, <1>3 DEF Snapshot, Batch
<1>. QED  BY <1>2, <1>4 DEF Snapshot, Loads

\* A load is of a batch, and its answer is what there is.
LEMMA LoadStep ==
    ASSUME DeskTypes, Begun, [Next]_vars
    PROVE  /\ load' \in [Slots -> Loads]
           /\ \A i \in Slots : load'[i] # Idle => status # "none"
           /\ \A i \in Slots : load'[i].at = "answer" /\ load'[i].val.files > 0
                  => (load'[i] = load[i] \/ (Existing # {} /\ status' = status))
<1>0. load \in [Slots -> Loads] /\ {Idle, [at |-> "sent"], [at |-> "failure"]} \subseteq Loads
  BY DEF DeskTypes, Loads
<1>1. Idle.at # "answer" /\ [at |-> "sent"].at # "answer" /\ [at |-> "failure"].at # "answer"
  BY DEF Idle
<1>2. CASE UNCHANGED load
  BY <1>0, <1>2 DEF Begun
<1>3. CASE Mount /\ (OpenBatch \/ call["create"].at = "ok")
  <2>1. load' = [i \in Slots |-> IF i = 1 THEN [at |-> "sent"] ELSE Idle]
    BY <1>3 DEF Mount
  <2>2. status # "none"
    BY <1>3 DEF OpenBatch, Begun
  <2>. QED  BY <1>0, <1>1, <2>1, <2>2
<1>4. CASE Unmount
  BY <1>0, <1>1, <1>4 DEF Unmount
<1>5. CASE Detail /\ Refresh
  <2>1. PICK j : load' = [load EXCEPT ![j] = [at |-> "sent"]]
    BY <1>5 DEF Refresh
  <2>2. \A i \in Slots : load'[i] = load[i] \/ load'[i] = [at |-> "sent"]
    BY <1>0, <2>1
  <2>. QED  BY <1>0, <1>1, <1>5, <2>1, <2>2 DEF Begun
<1>6. ASSUME NEW i \in Slots, load[i] # Idle, NEW x \in Loads, load' = [load EXCEPT ![i] = x],
             x.at = "answer" /\ x.val.files > 0 => Existing # {} /\ status' = status
      PROVE  /\ load' \in [Slots -> Loads]
             /\ \A j \in Slots : load'[j] # Idle => status # "none"
             /\ \A j \in Slots : load'[j].at = "answer" /\ load'[j].val.files > 0
                    => (load'[j] = load[j] \/ (Existing # {} /\ status' = status))
  <2>1. \A j \in Slots : load'[j] = IF j = i THEN x ELSE load[j]
    BY <1>0, <1>6
  <2>2. load' \in [Slots -> Loads]
    BY <1>0, <1>6
  <2>3. \A j \in Slots : load'[j] # Idle => status # "none"
    BY <1>6, <2>1 DEF Begun
  <2>. QED  BY <1>6, <2>1, <2>2, <2>3
<1>7. ASSUME NEW i \in Slots, ServeBatch(i)
      PROVE  \E x \in Loads : /\ load[i] # Idle /\ load' = [load EXCEPT ![i] = x]
                              /\ x.at = "answer" /\ x.val.files > 0 => Existing # {} /\ status' = status
  <2>1. load[i] # Idle /\ status' = status
    BY <1>7 DEF ServeBatch, Idle, server
  <2>2. CASE status = "deleted"
    BY <1>0, <1>1, <1>7, <2>1, <2>2 DEF ServeBatch
  <2>3. CASE status # "deleted"
    <3>1. Snapshot \in Loads /\ (Snapshot.val.files > 0 => Existing # {})
      BY <2>1, <2>3, SnapshotType DEF Begun, DeskTypes
    <3>. QED  BY <1>7, <2>1, <2>3, <3>1 DEF ServeBatch
  <2>. QED  BY <2>2, <2>3
<1>8. ASSUME NEW i \in Slots, LoseLoad(i) \/ BatchArrives(i)
      PROVE  \E x \in Loads : /\ load[i] # Idle /\ load' = [load EXCEPT ![i] = x] /\ x.at # "answer"
  BY <1>0, <1>1, <1>8 DEF LoseLoad, BatchArrives, Idle
<1>9. ASSUME NEW i \in Slots, ServeBatch(i) \/ LoseLoad(i) \/ BatchArrives(i)
      PROVE  /\ load' \in [Slots -> Loads]
             /\ \A j \in Slots : load'[j] # Idle => status # "none"
             /\ \A j \in Slots : load'[j].at = "answer" /\ load'[j].val.files > 0
                    => (load'[j] = load[j] \/ (Existing # {} /\ status' = status))
  BY <1>6, <1>7, <1>8, <1>9
<1>. QED  BY <1>2, <1>3, <1>4, <1>5, <1>9, LoadChanges

-----------------------------------------------------------------------------
\* The page and the uploads

\* Who changes the page, and how far the uploads are.
LEMMA PageChanges ==
    ASSUME [Next]_vars
    PROVE  \/ UNCHANGED page
           \/ Mount /\ (OpenBatch \/ call["create"].at = "ok")
           \/ Unmount
           \/ \E S \in SUBSET Files : AddFiles(S)
           \/ \E f \in Files : UploadEnds(f)
           \/ \E i \in Slots : BatchArrives(i)
<1>1. ASSUME NEW k \in Kinds, CallEnds(k)
      PROVE  \/ UNCHANGED page
             \/ Mount /\ call["create"].at = "ok"
             \/ Unmount
  BY <1>1 DEF CallEnds
<1>. QED
  BY <1>1
  DEF Next, Browsing, OpenBatch, BackToBatches, Poll,
      Clicking, OnFinalize, OnRetryFailed, OnRerunStt, OnConfirm, OnCreate, OnBulk,
      ReevaluateBatch, ReevaluateRows, OnRerunEvaluation, Request,
      Pipeline, Expand, Process, Rollup, OtherManager,
      Loading, ServeBatch, LoseLoad, Uploading, InitUpload, PutObject, CompleteUpload, LoseUpload,
      Calling, ServeCall, LoseAnswer, uploads, vars

LEMMA LegChanges ==
    ASSUME [Next]_vars
    PROVE  \/ UNCHANGED leg
           \/ \E S \in SUBSET Files : AddFiles(S)
           \/ \E f \in Files : Uploading(f) \/ LoseUpload(f)
BY DEF Next, Browsing, OpenBatch, BackToBatches, Poll,
       Clicking, OnFinalize, OnRetryFailed, OnRerunStt, OnConfirm, OnCreate, OnBulk,
       ReevaluateBatch, ReevaluateRows, OnRerunEvaluation, Request,
       Pipeline, Expand, Process, Rollup, OtherManager,
       Loading, ServeBatch, BatchArrives, LoseLoad,
       Calling, ServeCall, CallEnds, LoseAnswer, uploads, vars

\* The visit number.
LEMMA VisitStep ==
    ASSUME PageOK, [Next]_vars
    PROVE  visit' \in 0 .. MaxVisits
BY PageStep DEF PageOK

LEMMA BlankPages ==
    ASSUME NEW screen \in {"list", "detail"}
    PROVE  /\ BlankPage(screen) \in Pages
           /\ BlankPage(screen).batch = NoBatch
           /\ \A f \in Files : BlankPage(screen).uploads[f] = "none"
BY DEF BlankPage, Pages, NoUploads

\* What Pump writes on the page.
LEMMA PumpShows ==
    ASSUME page \in Pages, NEW v, NEW q, NEW a, NEW shown, Pump(v, q, a, shown),
           \A f \in Files : shown[f] \in UploadStates \cup {"none"}
    PROVE  /\ page' \in Pages
           /\ page'.screen = page.screen /\ page'.batch = page.batch
           /\ \A f \in Files : page'.uploads[f] \in {"uploading", shown[f]}
<1>. DEFINE u == [f \in Files |-> IF f \in ToSet(Started(v, q, a)) /\ v = visit /\ Detail
                                  THEN "uploading" ELSE shown[f]]
<1>1. page' = [page EXCEPT !.uploads = u]
  BY DEF Pump
<1>2. u \in [Files -> UploadStates \cup {"none"}] /\ \A f \in Files : u[f] \in {"uploading", shown[f]}
  BY DEF UploadStates
<1>. HIDE DEF u
<1>. QED  BY <1>1, <1>2 DEF Pages

\* A page that is shown is of a batch, its counts have been answered, and an
\* upload that it shows as stored has been.
PageFollows ==
    /\ page' \in Pages
    /\ page'.screen = "detail" => status # "none"
    /\ \/ page'.batch \in {NoBatch, page.batch}
       \/ \E i \in Slots : load[i].at = "answer" /\ page'.batch = load[i].val
    /\ \A f \in Files : page'.uploads[f] \in {"done", "duplicate"}
           => page.uploads[f] \in {"done", "duplicate"} \/ leg[f] \in {"ok", "dup"}

LEMMA PageDataStep ==
    ASSUME DeskTypes, Begun, [Next]_vars
    PROVE  PageFollows
<1>0. page \in Pages
  BY DEF DeskTypes
<1>1. CASE UNCHANGED page
  BY <1>0, <1>1 DEF PageFollows, Begun, Detail
<1>2. CASE Mount /\ (OpenBatch \/ call["create"].at = "ok")
  <2>1. page' = BlankPage("detail") /\ status # "none"
    BY <1>2 DEF Mount, OpenBatch, Begun
  <2>. QED  BY <2>1, BlankPages DEF PageFollows
<1>3. CASE Unmount
  <2>1. page' = BlankPage("list") /\ BlankPage("list").screen = "list"
    BY <1>3 DEF Unmount, BlankPage
  <2>. QED  BY <2>1, BlankPages DEF PageFollows
<1>4. ASSUME NEW v, NEW q, NEW a, NEW shown, Pump(v, q, a, shown),
             \A f \in Files : shown[f] \in UploadStates \cup {"none"},
             \A f \in Files : shown[f] \in {"done", "duplicate"}
                 => page.uploads[f] \in {"done", "duplicate"} \/ leg[f] \in {"ok", "dup"}
      PROVE  PageFollows
  <2>1. /\ page' \in Pages
        /\ page'.screen = page.screen /\ page'.batch = page.batch
        /\ \A f \in Files : page'.uploads[f] \in {"uploading", shown[f]}
    BY <1>0, <1>4, PumpShows
  <2>. QED  BY <1>4, <2>1 DEF PageFollows, Begun, Detail
<1>5. ASSUME NEW S \in SUBSET Files, AddFiles(S)
      PROVE  PageFollows
  <2>. DEFINE shown == [f \in Files |-> IF f \in S THEN "queued" ELSE page.uploads[f]]
  <2>1. PICK v, q, a : Pump(v, q, a, shown)
    BY <1>5 DEF AddFiles
  <2>2. \A f \in Files : /\ shown[f] \in {"queued", page.uploads[f]}
                         /\ shown[f] \in UploadStates \cup {"none"}
    BY <1>0 DEF UploadStates, Pages
  <2>. HIDE DEF shown
  <2>. QED  BY <1>4, <2>1, <2>2
<1>6. ASSUME NEW f \in Files, UploadEnds(f)
      PROVE  PageFollows
  <2>1. PICK v : v = owner[f]
    OBVIOUS
  <2>. DEFINE shown == IF v = visit /\ Detail THEN [page.uploads EXCEPT ![f] = Outcome(f)] ELSE page.uploads
  <2>2. Pump(v, queue[v], Freed(f), shown) /\ leg[f] \in {"ok", "dup", "failed"}
    BY <1>6, <2>1 DEF UploadEnds
  <2>3. Outcome(f) \in {"done", "duplicate", "error"} /\ (Outcome(f) # "error" => leg[f] \in {"ok", "dup"})
    BY DEF Outcome
  <2>4. page.uploads \in [Files -> UploadStates \cup {"none"}]
    BY <1>0 DEF Pages
  <2>5. \A g \in Files : /\ shown[g] \in UploadStates \cup {"none"}
                         /\ shown[g] = page.uploads[g] \/ (g = f /\ shown[g] = Outcome(f))
    BY <2>3, <2>4 DEF UploadStates
  <2>. HIDE DEF shown
  <2>6. \A g \in Files : shown[g] \in {"done", "duplicate"}
                 => page.uploads[g] \in {"done", "duplicate"} \/ leg[g] \in {"ok", "dup"}
    BY <2>3, <2>5
  <2>. QED  BY <1>4, <2>2, <2>5, <2>6
<1>7. ASSUME NEW i \in Slots, BatchArrives(i)
      PROVE  PageFollows
  <2>1. CASE load[i].at = "answer"
    <3>1. load[i] \in [at : {"answer"}, val : Batch]
      BY <2>1 DEF DeskTypes, Loads, Idle
    <3>2. page' = [page EXCEPT !.batch = load[i].val, !.loadError = FALSE]
      BY <1>7, <2>1 DEF BatchArrives
    <3>3. /\ page' \in Pages /\ page'.screen = page.screen
          /\ page'.batch = load[i].val /\ page'.uploads = page.uploads
      BY <1>0, <3>1, <3>2 DEF Pages
    <3>. QED  BY <2>1, <3>3 DEF PageFollows, Begun, Detail
  <2>2. CASE load[i].at # "answer"
    <3>1. page' = [page EXCEPT !.loadError = page.loadError \/ page.batch = NoBatch]
      BY <1>7, <2>2 DEF BatchArrives
    <3>2. (page.loadError \/ page.batch = NoBatch) \in BOOLEAN
      OBVIOUS
    <3>3. /\ page' \in Pages /\ page'.screen = page.screen
          /\ page'.batch = page.batch /\ page'.uploads = page.uploads
      BY <1>0, <3>1, <3>2 DEF Pages
    <3>. QED  BY <3>3 DEF PageFollows, Begun, Detail
  <2>. QED  BY <2>1, <2>2
<1>. QED  BY <1>1, <1>2, <1>3, <1>5, <1>6, <1>7, PageChanges

\* An upload gets no further than the bucket and the API have.
LEMMA LegStep ==
    ASSUME LegsOK, ServerTypes, UploadsKept, [Next]_vars
    PROVE  \A f \in Files : /\ leg'[f] = "complete" /\ f \in Zips => Has(f)'
                            /\ leg'[f] \in {"ok", "dup"} => Has(f)'
<1>0. leg \in [Files -> Legs] /\ Onward
  BY ServerStep DEF LegsOK
<1>1. ASSUME NEW f \in Files, leg'[f] = leg[f] \/ leg'[f] \notin {"complete", "ok", "dup"}
      PROVE  /\ leg'[f] = "complete" /\ f \in Zips => Has(f)'
             /\ leg'[f] \in {"ok", "dup"} => Has(f)'
  BY <1>0, <1>1 DEF UploadsKept, Onward
<1>2. CASE UNCHANGED leg
  BY <1>1, <1>2
<1>3. ASSUME NEW S \in SUBSET Files, AddFiles(S)
      PROVE  \A f \in Files : leg'[f] = leg[f] \/ leg'[f] \notin {"complete", "ok", "dup"}
  BY <1>3 DEF AddFiles
<1>4. ASSUME NEW f \in Files, UploadEnds(f)
      PROVE  \A g \in Files : leg'[g] = leg[g] \/ leg'[g] \notin {"complete", "ok", "dup"}
  BY <1>4 DEF UploadEnds
<1>5. ASSUME NEW f \in Files, NEW to, Advance(f, to)
      PROVE  \A g \in Files : leg'[g] = IF g = f THEN to ELSE leg[g]
  BY <1>0, <1>5 DEF Advance
<1>6. ASSUME NEW f \in Files, InitUpload(f) \/ LoseUpload(f)
      PROVE  \A g \in Files : leg'[g] = leg[g] \/ leg'[g] \notin {"complete", "ok", "dup"}
  BY <1>5, <1>6 DEF InitUpload, LoseUpload
<1>7. ASSUME NEW f \in Files, PutObject(f)
      PROVE  \A g \in Files : /\ leg'[g] = "complete" /\ g \in Zips => Has(g)'
                              /\ leg'[g] \in {"ok", "dup"} => Has(g)'
  <2>1. \A g \in Files : leg'[g] = IF g = f THEN "complete" ELSE leg[g]
    BY <1>5, <1>7 DEF PutObject
  <2>2. f \in Zips => Has(f)'
    BY <1>7 DEF PutObject, Has
  <2>. QED  BY <1>1, <2>1, <2>2
<1>8. ASSUME NEW f \in Files, CompleteUpload(f)
      PROVE  \A g \in Files : /\ leg'[g] = "complete" /\ g \in Zips => Has(g)'
                              /\ leg'[g] \in {"ok", "dup"} => Has(g)'
  <2>1. PICK to : Advance(f, to)
    BY <1>8 DEF CompleteUpload
  <2>2. \A g \in Files : leg'[g] = IF g = f THEN to ELSE leg[g]
    BY <1>5, <2>1
  <2>3. Digest[f] \in Digests
    BY DEF Digests
  <2>4. to \in {"failed", "ok", "dup"} /\ (to # "failed" => Has(f)')
    <3>1. CASE status # "open"
      BY <1>0, <1>8, <2>2, <3>1 DEF CompleteUpload, Advance
    <3>2. CASE status = "open" /\ f \in Zips
      <4>1. Has(f)
        BY <1>8, <3>2 DEF UploadsKept, CompleteUpload
      <4>2. leg'[f] = "ok"
        BY <1>0, <1>8, <3>2 DEF CompleteUpload, Advance
      <4>. QED  BY <1>0, <2>2, <4>1, <4>2 DEF Onward
    <3>3. CASE status = "open" /\ f \notin Zips /\ Digest[f] \in Existing
      <4>1. Has(f)
        BY <3>3 DEF Has
      <4>2. leg'[f] = "dup"
        BY <1>0, <1>8, <3>3 DEF CompleteUpload, Advance
      <4>. QED  BY <1>0, <2>2, <4>1, <4>2 DEF Onward
    <3>4. CASE status = "open" /\ f \notin Zips /\ Digest[f] \notin Existing
      <4>1. rows' = [rows EXCEPT ![Digest[f]] = "uploaded"] /\ leg'[f] = "ok"
        BY <1>0, <1>8, <3>4 DEF CompleteUpload, Advance
      <4>2. rows'[Digest[f]] # "absent"
        BY <2>3, <4>1 DEF ServerTypes
      <4>3. Has(f)'
        BY <2>3, <4>2 DEF Has, Existing
      <4>. QED  BY <2>2, <4>1, <4>3
    <3>. QED  BY <3>1, <3>2, <3>3, <3>4
  <2>. QED  BY <1>1, <2>2, <2>4
<1>. QED  BY <1>1, <1>2, <1>3, <1>4, <1>6, <1>7, <1>8, LegChanges DEF Uploading

-----------------------------------------------------------------------------
\* What a page says is so

\* Something there stays there.
LEMMA SomethingStays ==
    ASSUME Onward, Something
    PROVE  Something'
<1>1. PICK f \in Files : Has(f)
  BY DEF Something
<1>2. Has(f)'
  BY <1>1 DEF Onward
<1>. QED  BY <1>2 DEF Something

LEMMA ExistingIsSomething ==
    ASSUME Existing # {}
    PROVE  Something
<1>1. PICK d \in Existing : TRUE
  OBVIOUS
<1>2. PICK f \in Files : Digest[f] = d
  BY <1>1 DEF Existing, Digests
<1>. QED  BY <1>1, <1>2 DEF Something, Has

LEMMA DeskStep ==
    ASSUME ClientInv, PageOK, DeskInv, [Next]_vars
    PROVE  DeskInv'
<1>1. DeskTypes /\ Begun /\ UploadsKept /\ CountsKept /\ LegsOK /\ ServerTypes
  BY DEF DeskInv, ClientInv, DeskTypes
<1>2. Onward
  BY <1>1, ServerStep
<1>3. /\ call' \in [Kinds -> Requests]
      /\ call'["create"].at = "ok" => call["create"].at = "ok" \/ CreateBatch
      /\ call'["finalize"].at = "sent" => call["finalize"].at = "sent" \/ HasFiles
  BY <1>1, CallStep
<1>4. /\ load' \in [Slots -> Loads]
      /\ \A i \in Slots : load'[i] # Idle => status # "none"
      /\ \A i \in Slots : load'[i].at = "answer" /\ load'[i].val.files > 0
             => (load'[i] = load[i] \/ (Existing # {} /\ status' = status))
  BY <1>1, LoadStep
<1>5. PageFollows
  BY <1>1, PageDataStep
<1>6. DeskTypes'
  BY <1>2, <1>3, <1>4, <1>5, VisitStep DEF DeskTypes, Onward, PageFollows
<1>7. Begun'
  <2>1. CreateBatch => status' # "none"
    BY DEF CreateBatch
  <2>. QED  BY <1>1, <1>2, <1>3, <1>4, <1>5, <2>1 DEF Begun, Onward, PageFollows, Detail
<1>8. UploadsKept'
  <2>1. \A f \in Files : page'.uploads[f] \in {"done", "duplicate"} => Has(f)
    BY <1>1, <1>5 DEF PageFollows, UploadsKept
  <2>2. \A f \in Files : page'.uploads[f] \in {"done", "duplicate"} => Has(f)'
    BY <1>2, <2>1 DEF Onward
  <2>. QED  BY <1>1, <2>2, LegStep DEF UploadsKept
<1>9. CountsKept'
  <2>1. Something => Something'
    BY <1>2, SomethingStays
  <2>2. page'.batch.files > 0 => Something
    <3>1. NoBatch.files = 0
      BY DEF NoBatch
    <3>. QED  BY <1>1, <1>5, <3>1 DEF PageFollows, CountsKept
  <2>3. \A i \in Slots : load'[i].at = "answer" /\ load'[i].val.files > 0 => Something
    BY <1>1, <1>4, ExistingIsSomething DEF CountsKept
  <2>4. HasFiles => Something
    BY <1>1 DEF HasFiles, CountsKept, UploadsKept, Something
  <2>5. call'["finalize"].at = "sent" => Something
    BY <1>1, <1>3, <2>4 DEF CountsKept
  <2>. QED  BY <2>1, <2>2, <2>3, <2>5 DEF CountsKept
<1>. QED  BY <1>6, <1>7, <1>8, <1>9 DEF DeskInv

LEMMA DeskStarts ==
    ASSUME Init
    PROVE  DeskInv
<1>1. ServerTypes
  BY DEF Init, ServerTypes, Statuses, RowStates
<1>2. page = BlankPage("list") /\ page \in Pages /\ page.batch = NoBatch
      /\ \A f \in Files : page.uploads[f] = "none"
  BY BlankPages DEF Init
<1>3. page.screen = "list"
  BY <1>2 DEF BlankPage
<1>4. DeskTypes
  BY <1>1, <1>2, DeskAssumption DEF Init, DeskTypes, Requests, Loads
<1>5. Begun
  BY <1>3 DEF Init, Begun, Detail, Idle, Kinds
<1>6. UploadsKept
  BY <1>2 DEF Init, UploadsKept
<1>7. CountsKept
  BY <1>2 DEF Init, CountsKept, Idle, Kinds, NoBatch
<1>. QED  BY <1>4, <1>5, <1>6, <1>7 DEF DeskInv

DeskAll == ClientInv /\ PageOK /\ DeskInv

LEMMA DeskAllHolds == Spec => []DeskAll
<1>1. Init => DeskAll
  BY LedgerStarts, DeskStarts DEF DeskAll
<1>2. DeskAll /\ [Next]_vars => DeskAll'
  <2>. SUFFICES ASSUME DeskAll, [Next]_vars
               PROVE  DeskAll'
    OBVIOUS
  <2>1. ClientInv' /\ PageOK' /\ DeskInv'
    BY LedgerStep, PageStep, DeskStep DEF DeskAll
  <2>. QED  BY <2>1 DEF DeskAll
<1>. QED  BY <1>1, <1>2, PTL DEF Spec

\* Every variable keeps its type: a page shows what the API can send, and an
\* upload client counts its slots between zero and UPLOAD_CONCURRENCY.
THEOREM DeskTyped == Spec => []TypeOK
<1>1. DeskAll => TypeOK
  <2>. SUFFICES ASSUME DeskAll
               PROVE  TypeOK
    OBVIOUS
  <2>1. /\ status \in Statuses /\ rows \in [Digests -> RowStates] /\ stored \subseteq Zips
        /\ visit \in 0 .. MaxVisits /\ page \in Pages
    BY DEF DeskAll, DeskInv, DeskTypes, ServerTypes
  <2>2. /\ page.screen \in {"list", "detail"}
        /\ page.batch \in Batch \cup {NoBatch}
        /\ page.uploads \in [Files -> UploadStates \cup {"none"}]
    BY <2>1 DEF Pages
  <2>3. active \in [Visits -> 0 .. UploadConcurrency]
    <3>1. \A v \in Visits : active[v] \in Nat /\ active[v] <= UploadConcurrency
      BY DEF DeskAll, ClientInv, LegsOK, ClientOK
    <3>2. active \in [Visits -> Nat]
      BY DEF DeskAll, ClientInv, LegsOK
    <3>. QED  BY <3>1, <3>2, DeskAssumption
  <2>4. \A v \in Visits : ToSet(queue[v]) \subseteq Files
    BY DEF DeskAll, ClientInv, ClientOK, Waiting
  <2>. QED  BY <2>1, <2>2, <2>3, <2>4 DEF TypeOK, Statuses
<1>. QED  BY <1>1, DeskAllHolds, PTL

\* What a page shows as uploaded, or as a duplicate, the batch has, whatever
\* became of the requests of the upload and of the batch meanwhile.
THEOREM DoneIsInTheBatch == Spec => []DoneIsStored
<1>1. DeskAll => DoneIsStored
  BY DEF DeskAll, DeskInv, UploadsKept, Has, DoneIsStored
<1>. QED  BY <1>1, DeskAllHolds, PTL

\* Nobody starts an empty batch with the Finalize button, however old the
\* counts are that it was enabled by.
THEOREM FinalizeHasFiles == Spec => FinalizesSomething
<1>1. DeskAll /\ [Next]_vars
      => [call["finalize"].at = "sent" /\ call'["finalize"].at = "ok"
              => Existing # {} \/ stored # {}]_vars
  <2>. SUFFICES ASSUME DeskAll, [Next]_vars,
                       call["finalize"].at = "sent", call'["finalize"].at = "ok"
               PROVE  Existing # {} \/ stored # {}
    OBVIOUS
  <2>1. Finalize
    BY CallStep DEF DeskAll, DeskInv
  <2>2. PICK f \in Files : Has(f)
    BY DEF DeskAll, DeskInv, CountsKept, Something
  <2>. QED  BY <2>1, <2>2 DEF Has, Finalize
<1>. QED  BY <1>1, DeskAllHolds, PTL DEF Spec, FinalizesSomething
=============================================================================
