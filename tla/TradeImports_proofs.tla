------------------------- MODULE TradeImports_proofs -------------------------
(***************************************************************************)
(* What the imports of transactions keep true for any dates, files and     *)
(* answers of the API, any number of imports at a time, and however often  *)
(* tasks are delivered again, data cannot be read and answers are lost:    *)
(* the types, no trade twice and none of an import that is gone, the       *)
(* counts of a file, and that an import replaces only what it may.         *)
(***************************************************************************)
EXTENDS TradeImports, SequenceTheorems, FiniteSetTheorems, FunctionTheorems,
        WellFoundedInduction, TLAPS

-----------------------------------------------------------------------------
\* Dates

\* A finite set of dates has a first and a last.
LEMMA FirstAndLast ==
    ASSUME NEW S \in SUBSET Nat, IsFiniteSet(S), S # {}
    PROVE  Min(S) \in S /\ Max(S) \in S
<1>. DEFINE Ended(T)   == /\ \E x \in T : \A y \in T : x <= y
                          /\ \E x \in T : \A y \in T : y <= x
            Endless    == {T \in FiniteSubsetsOf(S) : T # {} /\ ~Ended(T)}
<1>1. S \in FiniteSubsetsOf(S)
  BY DEF FiniteSubsetsOf
<1>2. SUFFICES Endless = {}
  <2>1. Ended(S)
    BY <1>1, <1>2
  <2>2. \E x \in S : \A y \in S : x >= y
    BY <2>1
  <2>. QED  BY <2>1, <2>2 DEF Min, Max
<1>3. SUFFICES ASSUME Endless # {}
               PROVE  FALSE
  OBVIOUS
<1>4. PICK T \in Endless : \A U \in Endless : <<U, T>> \notin StrictSubsetOrdering(S)
  <2>1. IsWellFoundedOn(StrictSubsetOrdering(S), FiniteSubsetsOf(S))
    BY FS_StrictSubsetOrderingWellFounded
  <2>2. Endless \subseteq FiniteSubsetsOf(S)
    OBVIOUS
  <2>. HIDE DEF Endless
  <2>. QED  BY <1>3, <2>1, <2>2, WFMin
<1>5. PICK t \in T : TRUE
  OBVIOUS
<1>6. T \in SUBSET Nat /\ T \in SUBSET S /\ IsFiniteSet(T)
  BY DEF FiniteSubsetsOf
<1>. DEFINE U == T \ {t}
<1>7. CASE U = {}
  <2>1. \A y \in T : y = t
    BY <1>7
  <2>2. Ended(T)
    BY <1>5, <1>6, <2>1
  <2>. QED  BY <2>2
<1>8. CASE U # {}
  <2>1. U \in FiniteSubsetsOf(S) /\ <<U, T>> \in StrictSubsetOrdering(S)
    BY <1>5, <1>6, FS_RemoveElement DEF FiniteSubsetsOf, StrictSubsetOrdering
  <2>2. U \notin Endless
    BY <1>4, <2>1
  <2>3. Ended(U)
    BY <1>8, <2>1, <2>2
  <2>4. PICK lo \in U : \A y \in U : lo <= y
    BY <2>3
  <2>5. PICK hi \in U : \A y \in U : y <= hi
    BY <2>3
  <2>6. \A y \in T : y = t \/ y \in U
    OBVIOUS
  <2>7. \E x \in T : \A y \in T : x <= y
    <3>1. CASE t <= lo
      <4>1. \A y \in T : t <= y
        BY <1>6, <2>4, <2>6, <3>1
      <4>. QED  BY <1>5, <4>1
    <3>2. CASE ~(t <= lo)
      <4>1. \A y \in T : lo <= y
        BY <1>5, <1>6, <2>4, <2>6, <3>2
      <4>. QED  BY <4>1
    <3>. QED  BY <3>1, <3>2
  <2>8. \E x \in T : \A y \in T : y <= x
    <3>1. CASE hi <= t
      <4>1. \A y \in T : y <= t
        BY <1>6, <2>5, <2>6, <3>1
      <4>. QED  BY <1>5, <4>1
    <3>2. CASE ~(hi <= t)
      <4>1. \A y \in T : y <= hi
        BY <1>5, <1>6, <2>5, <2>6, <3>2
      <4>. QED  BY <4>1
    <3>. QED  BY <3>1, <3>2
  <2>. QED  BY <2>7, <2>8
<1>. QED  BY <1>7, <1>8

LEMMA Constants_ ==
    /\ MaxImports \in Nat \ {0} /\ Days \subseteq Nat /\ NoDay \notin Days
    /\ IsFiniteSet(Days) /\ Max(Days) \in Days
BY FirstAndLast, TradeImportsAssumption

-----------------------------------------------------------------------------
\* Types

NoDayYet == Days \cup {NoDay}
AnyFile  == Files \cup {NoFile}
Parsed   == Files \cup Feeds \cup {NoFile}
Exts     == UNION {{row.ext : row \in f.rows} : f \in Files \cup Feeds}
Trade    == [imp : Nat, ext : Exts, day : Days]
Import   == [kind : {"csv_upload", "api_pull"}, file : AnyFile, day : Days, by : {"user", "beat"},
             at : {"pending", "processing", "deleted"} \cup Settled, imported : Nat, skipped : Int]
Job      == [at : {"idle", "queued", "begun", "read", "gathered", "landed"}, file : Parsed,
             prior : SUBSET Nat, gone : SUBSET Trade, keys : SUBSET (Exts \X Days)]
Request  == [at : {"idle", "sent", "ok", "error"}, kind : {None, "upload", "pull", "delete"},
             file : AnyFile, day : NoDayYet, imp : Nat]
Dialog   == [at : {"none", "select", "preview", "importing", "done", "pull", "detail"},
             file : AnyFile, seen : AnyFile, imp : Nat,
             rows : {"none", "loading", "known", "error"}, pending : BOOLEAN]
Panel    == [known : BOOLEAN, error : BOOLEAN,
             list : Seq([at : {"pending", "processing", "deleted"} \cup Settled, skipped : Int])]

ImportTypes == /\ imports \in Seq(Import) /\ jobs \in Seq(Job)
               /\ Len(imports) = Len(jobs) /\ Len(imports) <= MaxImports
               /\ txns \subseteq Trade /\ \A t \in txns : t.imp \in DOMAIN imports
               /\ unchecked \subseteq Days

\* A dialog shows, and a request asks for, one of the imports that there are.
ShowsOne(dialog, there) ==
    /\ dialog \in Dialog
    /\ dialog.at \in {"importing", "detail"} => dialog.imp \in there
AsksOne(request, there) ==
    /\ request \in Request
    /\ request.kind = "upload" /\ request.at = "ok" => request.imp \in there
    /\ request.kind = "delete" /\ request.at = "sent" => request.imp \in there
    /\ request.kind = "pull" /\ request.at = "sent" => request.day \in Days

PageTypes   == /\ panel \in Panel /\ Len(panel.list) <= Len(imports)
               /\ ShowsOne(modal, DOMAIN imports) /\ AsksOne(call, DOMAIN imports)

\* An import that a worker has in hand says so.
InHand(i) == jobs[i].at \in {"begun", "read", "gathered"} => imports[i].at \in {"processing", "deleted"}

\* The dates that a file covers which was sent for a day.
Covered(day, file) == IF file.rows = {} THEN {day}
                      ELSE {IF row.day = NoDay THEN day ELSE row.day : row \in file.rows}

\* What an import replaces: trades of other imports of its source, on its dates.
Replaces(i) == /\ jobs[i].prior \subseteq {p \in DOMAIN imports \ {i} : imports[p].kind = imports[i].kind}
               /\ \A t \in jobs[i].gone : /\ t.imp \in jobs[i].prior
                                          /\ t.day \in Covered(imports[i].day, jobs[i].file)

WorkInv == \A i \in DOMAIN imports : InHand(i) /\ Replaces(i)

DataInv   == ImportTypes /\ WorkInv /\ NoOrphans /\ CountsOfFilesAreTrue
ImportInv == DataInv /\ PageTypes

LEMMA ParsedFiles ==
    ASSUME NEW f \in Parsed
    PROVE  /\ IsFiniteSet(f.rows) /\ f.filtered \in Nat /\ Cardinality(f.rows) \in Nat
           /\ \A row \in f.rows : /\ row = [ext |-> row.ext, day |-> row.day]
                                  /\ row.ext \in Exts /\ row.day \in Days \cup {NoDay}
<1>1. CASE f = NoFile
  BY <1>1, FS_EmptySet DEF NoFile
<1>2. CASE f \in Files \cup Feeds
  BY <1>2, FS_CardinalityType, TradeImportsAssumption DEF Exts
<1>. QED  BY <1>1, <1>2 DEF Parsed

LEMMA FirstDayType ==
    ASSUME NEW f \in AnyFile, DatesIn(f) # {}
    PROVE  FirstDay(f) \in Days
<1>1. \A row \in f.rows : row.day \in Days \cup {NoDay}
  BY ParsedFiles DEF AnyFile, Parsed
<1>2. DatesIn(f) \subseteq Days
  BY <1>1 DEF DatesIn
<1>3. IsFiniteSet(DatesIn(f)) /\ DatesIn(f) \in SUBSET Nat
  BY <1>2, Constants_, FS_Subset
<1>. DEFINE S == DatesIn(f)
<1>4. S \in SUBSET Nat /\ IsFiniteSet(S) /\ S # {}
  BY <1>3
<1>. HIDE DEF S
<1>5. Min(S) \in S
  BY <1>4, FirstAndLast
<1>. QED  BY <1>2, <1>5 DEF FirstDay, S

-----------------------------------------------------------------------------
\* Imports and their jobs

LEMMA JobTypes ==
    /\ NoJob \in Job /\ Queued \in Job /\ Begun \in Job
    /\ \A j \in {NoJob, Queued, Begun} : j.prior = {} /\ j.gone = {}
    /\ NoJob.at = "idle" /\ Queued.at = "queued" /\ Begun.at = "begun"
BY DEF NoJob, Queued, Begun, Job, Parsed

LEMMA NewImportType ==
    ASSUME NEW kind \in {"csv_upload", "api_pull"}, NEW file \in AnyFile, NEW day \in Days,
           NEW by \in {"user", "beat"}, NEW at \in {"pending", "processing", "deleted"} \cup Settled
    PROVE  /\ NewImport(kind, file, day, by, at) \in Import
           /\ NewImport(kind, file, day, by, at).at = at
           /\ NewImport(kind, file, day, by, at).kind = kind
           /\ NewImport(kind, file, day, by, at).day = day
BY DEF NewImport, Import

LEMMA Entries ==
    ASSUME ImportTypes
    PROVE  /\ DOMAIN imports = 1 .. Len(imports) /\ DOMAIN jobs = DOMAIN imports /\ Len(imports) \in Nat
           /\ \A i \in DOMAIN imports : i \in Nat /\ imports[i] \in Import /\ jobs[i] \in Job
<1>1. imports \in Seq(Import) /\ jobs \in Seq(Job) /\ Len(imports) = Len(jobs)
  BY DEF ImportTypes
<1>. QED  BY <1>1

\* The trades an import brings: one of each of its keys.
LEMMA NewTrades ==
    ASSUME ImportTypes, NEW i \in DOMAIN imports
    PROVE  /\ New(i) \subseteq Trade
           /\ \A n \in New(i) : n.imp = i
           /\ \A n, m \in New(i) : KeyOf(n) = KeyOf(m) => n = m
           /\ Cardinality(New(i)) \in Nat
<1>. DEFINE file == jobs[i].file
<1>1. file \in Parsed /\ imports[i].day \in Days /\ i \in Nat
  BY Entries DEF Job, Import
<1>2. \A row \in file.rows : row.ext \in Exts /\ Day(i, row) \in Days
  BY <1>1, ParsedFiles DEF Day
<1>3. KeysIn(i, file) \subseteq Exts \X Days
  BY <1>2 DEF KeysIn
<1>4. \A key \in KeysIn(i, file) : key = <<key[1], key[2]>> /\ key[1] \in Exts /\ key[2] \in Days
  BY <1>3
<1>. DEFINE K == KeysIn(i, file) \ jobs[i].keys
            trade == [key \in K |-> [imp |-> i, ext |-> key[1], day |-> key[2]]]
<1>5. New(i) = {trade[key] : key \in K}
  BY DEF New
<1>6. \A key \in K : /\ trade[key] \in Trade /\ trade[key].imp = i
                     /\ KeyOf(trade[key]) = key
  BY <1>1, <1>4 DEF Trade, KeyOf
<1>7. IsFiniteSet(K)
  <2>. DEFINE keys == [row \in file.rows |-> <<row.ext, Day(i, row)>>]
  <2>1. keys \in Surjection(file.rows, KeysIn(i, file))
    BY Fun_IsSurj DEF KeysIn
  <2>2. IsFiniteSet(KeysIn(i, file))
    BY <1>1, <2>1, ParsedFiles, FS_Surjection
  <2>. QED  BY <2>2, FS_Subset
<1>. HIDE DEF K
<1>8. trade \in Surjection(K, New(i))
  BY <1>5, Fun_IsSurj
<1>9. IsFiniteSet(New(i))
  BY <1>7, <1>8, FS_Surjection
<1>. HIDE DEF trade
<1>. QED  BY <1>5, <1>6, <1>9, FS_CardinalityType

-----------------------------------------------------------------------------
\* Steps that change one import and its job

LEMMA EditTypes ==
    ASSUME ImportTypes, NEW i \in DOMAIN imports, NEW x \in Import, NEW y \in Job,
           imports' = [imports EXCEPT ![i] = x], jobs' = [jobs EXCEPT ![i] = y]
    PROVE  /\ imports' \in Seq(Import) /\ jobs' \in Seq(Job)
           /\ Len(imports') = Len(imports) /\ Len(jobs') = Len(imports)
           /\ DOMAIN imports' = DOMAIN imports
           /\ imports'[i] = x /\ jobs'[i] = y
           /\ \A j \in DOMAIN imports \ {i} : imports'[j] = imports[j] /\ jobs'[j] = jobs[j]
<1>1. /\ imports \in Seq(Import) /\ jobs \in Seq(Job) /\ Len(jobs) = Len(imports)
      /\ DOMAIN imports = 1 .. Len(imports) /\ DOMAIN jobs = DOMAIN imports
  BY Entries DEF ImportTypes
<1>2. /\ imports' \in Seq(Import) /\ Len(imports') = Len(imports)
      /\ \A j \in 1 .. Len(imports) : imports'[j] = IF j = i THEN x ELSE imports[j]
  BY <1>1, ExceptSeq
<1>3. /\ jobs' \in Seq(Job) /\ Len(jobs') = Len(jobs)
      /\ \A j \in 1 .. Len(jobs) : jobs'[j] = IF j = i THEN y ELSE jobs[j]
  BY <1>1, ExceptSeq
<1>. QED  BY <1>1, <1>2, <1>3

\* A job may be taken by its import as it is.
Fits(i, x, y) ==
    /\ y.at \in {"begun", "read", "gathered"} => x.at \in {"processing", "deleted"}
    /\ y.prior \subseteq {p \in DOMAIN imports \ {i} : imports[p].kind = imports[i].kind}
    /\ \A t \in y.gone : t.imp \in y.prior /\ t.day \in Covered(x.day, y.file)

LEMMA EditWork ==
    ASSUME ImportTypes, WorkInv, NEW i \in DOMAIN imports, NEW x \in Import, NEW y \in Job,
           imports' = [imports EXCEPT ![i] = x], jobs' = [jobs EXCEPT ![i] = y],
           x.kind = imports[i].kind, x.day = imports[i].day, Fits(i, x, y)
    PROVE  WorkInv'
<1>1. /\ DOMAIN imports' = DOMAIN imports
      /\ imports'[i] = x /\ jobs'[i] = y
      /\ \A j \in DOMAIN imports \ {i} : imports'[j] = imports[j] /\ jobs'[j] = jobs[j]
  BY EditTypes
<1>2. \A j \in DOMAIN imports : imports'[j].kind = imports[j].kind /\ imports'[j].day = imports[j].day
  BY <1>1
<1>3. ASSUME NEW j \in DOMAIN imports
      PROVE  InHand(j)' /\ Replaces(j)'
  <2>1. CASE j = i
    <3>1. InHand(i)'
      BY <1>1 DEF Fits, InHand
    <3>2. Replaces(i)'
      <4>1. jobs'[i].prior \subseteq {p \in DOMAIN imports' \ {i} : imports'[p].kind = imports'[i].kind}
        BY <1>1, <1>2 DEF Fits
      <4>2. \A t \in jobs'[i].gone : /\ t.imp \in jobs'[i].prior
                                     /\ t.day \in Covered(x.day, y.file)
        BY <1>1 DEF Fits
      <4>. QED  BY <1>1, <4>1, <4>2 DEF Replaces
    <3>. QED  BY <2>1, <3>1, <3>2
  <2>2. CASE j # i
    <3>1. InHand(j) /\ Replaces(j) /\ imports'[j] = imports[j] /\ jobs'[j] = jobs[j]
      BY <1>1, <2>2 DEF WorkInv
    <3>2. InHand(j)'
      BY <3>1 DEF InHand
    <3>3. jobs'[j].prior \subseteq {p \in DOMAIN imports' \ {j} : imports'[p].kind = imports'[j].kind}
      BY <1>1, <1>2, <3>1 DEF Replaces
    <3>4. Replaces(j)'
      BY <3>1, <3>3 DEF Replaces
    <3>. QED  BY <3>2, <3>4
  <2>. QED  BY <2>1, <2>2
<1>. QED  BY <1>1, <1>3 DEF WorkInv

\* A status that changes while the trades stay.
Allowed(old, new) ==
    /\ new.kind = old.kind /\ new.day = old.day
    /\ old.at = "deleted" => new.at = "deleted"
    /\ IF old.kind = "csv_upload"
       THEN (new.at = "completed" <=> old.at = "completed") /\ new.imported = old.imported
       ELSE old.at \in {"processing"} \cup Settled => new.at \in {"processing"} \cup Settled

LEMMA EditTrades ==
    ASSUME ImportTypes, NoOrphans, CountsOfFilesAreTrue,
           NEW i \in DOMAIN imports, NEW x \in Import, NEW y \in Job,
           imports' = [imports EXCEPT ![i] = x], jobs' = [jobs EXCEPT ![i] = y],
           UNCHANGED txns, Allowed(imports[i], x)
    PROVE  NoOrphans' /\ CountsOfFilesAreTrue'
<1>1. /\ DOMAIN imports' = DOMAIN imports
      /\ \A j \in DOMAIN imports : j = i \/ imports'[j] = imports[j]
      /\ imports'[i] = x
  BY EditTypes
<1>2. \A j \in DOMAIN imports :
          /\ imports'[j].kind = imports[j].kind
          /\ imports[j].at = "deleted" => imports'[j].at = "deleted"
          /\ imports[j].kind = "csv_upload"
                 => /\ imports'[j].at = "completed" <=> imports[j].at = "completed"
                    /\ imports'[j].imported = imports[j].imported
          /\ Landed(j) => Landed(j)'
  <2>1. \A j \in DOMAIN imports \ {i} : Landed(j) => Landed(j)'
    BY <1>1 DEF Landed
  <2>2. Landed(i) => Landed(i)'
    BY <1>1 DEF Landed, Allowed, Settled
  <2>. QED  BY <1>1, <2>1, <2>2 DEF Allowed
<1>3. NoOrphans'
  BY <1>2 DEF NoOrphans, ImportTypes, KeyOf
<1>4. \A j : Own(j)' = Own(j)
  BY DEF Own
<1>5. CountsOfFilesAreTrue'
  BY <1>1, <1>2, <1>4 DEF CountsOfFilesAreTrue
<1>. QED  BY <1>3, <1>5

LEMMA EditStep ==
    ASSUME ImportTypes, WorkInv, NoOrphans, CountsOfFilesAreTrue,
           NEW i \in DOMAIN imports, NEW x \in Import, NEW y \in Job,
           imports' = [imports EXCEPT ![i] = x], jobs' = [jobs EXCEPT ![i] = y],
           UNCHANGED txns, unchecked' \subseteq unchecked, Allowed(imports[i], x), Fits(i, x, y)
    PROVE  ImportTypes' /\ WorkInv' /\ NoOrphans' /\ CountsOfFilesAreTrue'
<1>1. /\ imports' \in Seq(Import) /\ jobs' \in Seq(Job)
      /\ Len(imports') = Len(imports) /\ Len(jobs') = Len(imports)
      /\ DOMAIN imports' = DOMAIN imports
  BY EditTypes
<1>2. ImportTypes'
  BY <1>1 DEF ImportTypes
<1>3. WorkInv'
  BY EditWork DEF Allowed
<1>. QED  BY <1>2, <1>3, EditTrades

\* A job that ends, waits or begins fits.
LEMMA NothingTaken ==
    ASSUME NEW i, NEW x, NEW y \in {NoJob, Queued, Begun},
           y = Begun => x.at \in {"processing", "deleted"}
    PROVE  Fits(i, x, y)
BY JobTypes DEF Fits

\* An import that is as it was.
LEMMA SameImport ==
    ASSUME ImportTypes, NEW i \in DOMAIN imports
    PROVE  /\ [imports EXCEPT ![i] = imports[i]] = imports
           /\ imports[i] \in Import /\ Allowed(imports[i], imports[i])
<1>1. imports \in Seq(Import) /\ imports[i] \in Import
  BY Entries DEF ImportTypes
<1>2. [imports EXCEPT ![i] = imports[i]] = imports
  BY <1>1
<1>. QED  BY <1>1, <1>2 DEF Allowed

-----------------------------------------------------------------------------
\* Steps that add an import

LEMMA AppendStep ==
    ASSUME DataInv, Len(imports) < MaxImports,
           NEW x \in Import, NEW y \in {Queued, Begun}, NEW J \in Seq(Job),
           Len(J) = Len(jobs), \A i \in DOMAIN imports : J[i] \in {jobs[i], NoJob},
           imports' = Append(imports, x), jobs' = Append(J, y),
           x.at \in {"pending", "processing"}, y = Begun => x.at = "processing",
           UNCHANGED <<txns, unchecked>>
    PROVE  DataInv' /\ Len(imports) <= Len(imports')
<1>. DEFINE n == Len(imports)
<1>1. /\ imports \in Seq(Import) /\ n \in Nat /\ Len(J) = n /\ DOMAIN imports = 1 .. n
      /\ MaxImports \in Nat /\ y \in Job
  BY Entries, JobTypes, Constants_ DEF DataInv, ImportTypes
<1>2. /\ imports' \in Seq(Import) /\ Len(imports') = n + 1 /\ DOMAIN imports' = 1 .. (n + 1)
      /\ \A j \in 1 .. n : imports'[j] = imports[j]
      /\ imports'[n + 1] = x
  BY <1>1
<1>3. /\ jobs' \in Seq(Job) /\ Len(jobs') = n + 1
      /\ \A j \in 1 .. n : jobs'[j] = J[j]
      /\ jobs'[n + 1] = y
  BY <1>1
<1>. HIDE DEF n
<1>4. ImportTypes'
  BY <1>1, <1>2, <1>3 DEF DataInv, ImportTypes, n
<1>5. ASSUME NEW j \in 1 .. n
      PROVE  InHand(j)' /\ Replaces(j)'
  <2>1. InHand(j) /\ Replaces(j) /\ imports'[j] = imports[j] /\ jobs'[j] \in {jobs[j], NoJob}
    BY <1>1, <1>2, <1>3 DEF DataInv, WorkInv
  <2>2. InHand(j)'
    BY <2>1, JobTypes DEF InHand
  <2>3. jobs'[j].prior \subseteq {p \in DOMAIN imports' \ {j} : imports'[p].kind = imports'[j].kind}
    BY <1>1, <1>2, <2>1, JobTypes DEF Replaces
  <2>4. \A t \in jobs'[j].gone : /\ t.imp \in jobs'[j].prior
                                 /\ t.day \in Covered(imports'[j].day, jobs'[j].file)
    BY <2>1, JobTypes DEF Replaces
  <2>. QED  BY <2>2, <2>3, <2>4 DEF Replaces
<1>6. ASSUME NEW j, j = n + 1
      PROVE  InHand(j)' /\ Replaces(j)'
  <2>1. /\ imports'[j] = x /\ jobs'[j] = y /\ y.prior = {} /\ y.gone = {}
        /\ y.at = "queued" \/ x.at = "processing"
    BY <1>2, <1>3, <1>6, JobTypes
  <2>2. InHand(j)'
    BY <2>1 DEF InHand
  <2>3. Replaces(j)'
    BY <2>1 DEF Replaces
  <2>. QED  BY <2>2, <2>3
<1>7. WorkInv'
  <2>1. \A j \in DOMAIN imports' : j \in 1 .. n \/ j = n + 1
    BY <1>1, <1>2
  <2>. SUFFICES ASSUME NEW j \in DOMAIN imports'
                PROVE  InHand(j)' /\ Replaces(j)'
    BY DEF WorkInv
  <2>. QED  BY <1>5, <1>6, <2>1
<1>8. NoOrphans'
  <2>1. \A t \in txns : Landed(t.imp) => Landed(t.imp)'
    BY <1>1, <1>2 DEF DataInv, ImportTypes, Landed
  <2>. QED  BY <2>1 DEF DataInv, NoOrphans, KeyOf
<1>9. CountsOfFilesAreTrue'
  <2>1. \A j : Own(j)' = Own(j)
    BY DEF Own
  <2>2. x.at # "completed"
    OBVIOUS
  <2>. SUFFICES ASSUME NEW j \in DOMAIN imports',
                       imports'[j].kind = "csv_upload", imports'[j].at = "completed",
                       \A k \in DOMAIN imports' \ {j} :
                           imports'[k].kind = "csv_upload" => imports'[k].at # "completed"
                PROVE  \/ imports'[j].imported = Cardinality(Own(j)')
                       \/ \E k \in DOMAIN imports' \ {j} : imports'[k].at = "deleted"
    BY DEF CountsOfFilesAreTrue
  <2>3. j \in DOMAIN imports /\ imports'[j] = imports[j]
    BY <1>1, <1>2, <2>2
  <2>4. \A k \in DOMAIN imports \ {j} : k \in DOMAIN imports' \ {j} /\ imports'[k] = imports[k]
    BY <1>1, <1>2
  <2>. QED  BY <2>1, <2>3, <2>4 DEF DataInv, CountsOfFilesAreTrue
<1>. QED  BY <1>1, <1>2, <1>4, <1>7, <1>8, <1>9 DEF DataInv, n

LEMMA EditKeeps ==
    ASSUME DataInv, NEW i \in DOMAIN imports, NEW x \in Import, NEW y \in Job,
           imports' = [imports EXCEPT ![i] = x], jobs' = [jobs EXCEPT ![i] = y],
           UNCHANGED txns, unchecked' \subseteq unchecked, Allowed(imports[i], x), Fits(i, x, y)
    PROVE  DataInv' /\ Len(imports) <= Len(imports')
<1>1. ImportTypes' /\ WorkInv' /\ NoOrphans' /\ CountsOfFilesAreTrue'
  BY EditStep DEF DataInv
<1>2. Len(imports') = Len(imports)
  BY EditTypes DEF DataInv
<1>. QED  BY <1>1, <1>2, Entries DEF DataInv

\* The import stays, its job changes.
LEMMA JobKeeps ==
    ASSUME DataInv, NEW i \in DOMAIN imports, NEW y \in Job,
           imports' = imports, jobs' = [jobs EXCEPT ![i] = y],
           UNCHANGED txns, unchecked' \subseteq unchecked, Fits(i, imports[i], y)
    PROVE  DataInv' /\ Len(imports) <= Len(imports')
<1>1. imports' = [imports EXCEPT ![i] = imports[i]] /\ imports[i] \in Import
      /\ Allowed(imports[i], imports[i])
  BY SameImport DEF DataInv
<1>. HIDE DEF Import, Job
<1>. QED  BY <1>1, EditKeeps

-----------------------------------------------------------------------------
\* The worker

LEMMA BeginKeeps ==
    ASSUME DataInv, NEW i \in DOMAIN imports, Begin(i)
    PROVE  DataInv' /\ Len(imports) <= Len(imports')
<1>1. imports[i] \in Import
  BY Entries DEF DataInv
<1>2. CASE Startable(i)
  <2>. DEFINE x == [imports[i] EXCEPT !.at = "processing"]
  <2>1. /\ imports' = [imports EXCEPT ![i] = x] /\ jobs' = [jobs EXCEPT ![i] = Begun]
        /\ UNCHANGED <<txns, unchecked>>
    BY <1>2 DEF Begin, Taken
  <2>2. x \in Import /\ x.at = "processing"
    BY <1>1 DEF Import
  <2>3. Allowed(imports[i], x)
    BY <1>1, <1>2 DEF Allowed, Startable, Import, Settled
  <2>4. Fits(i, x, Begun)
    BY <2>2, NothingTaken
  <2>. HIDE DEF x
  <2>. QED  BY <2>1, <2>2, <2>3, <2>4, EditKeeps, JobTypes
<1>3. CASE ~Startable(i)
  <2>1. /\ imports' = imports /\ jobs' = [jobs EXCEPT ![i] = NoJob]
        /\ UNCHANGED <<txns, unchecked>>
    BY <1>3 DEF Begin
  <2>2. Fits(i, imports[i], NoJob)
    BY NothingTaken, JobTypes
  <2>. QED  BY <2>1, <2>2, JobKeeps, JobTypes
<1>. QED  BY <1>2, <1>3

LEMMA UnreadableKeeps ==
    ASSUME DataInv, NEW i \in DOMAIN imports, Unreadable(i)
    PROVE  DataInv' /\ Len(imports) <= Len(imports')
<1>. DEFINE x == [imports[i] EXCEPT !.at = IF @ = "deleted" THEN @ ELSE "failed"]
<1>1. imports[i] \in Import /\ imports[i].at \in {"processing", "deleted"}
  BY Entries DEF DataInv, WorkInv, InHand, Unreadable
<1>2. /\ imports' = [imports EXCEPT ![i] = x] /\ jobs' = [jobs EXCEPT ![i] = NoJob]
      /\ UNCHANGED <<txns, unchecked>>
  BY DEF Unreadable
<1>3. x \in Import
  BY <1>1 DEF Import, Settled
<1>4. Allowed(imports[i], x)
  BY <1>1 DEF Allowed, Import, Settled
<1>5. Fits(i, x, NoJob)
  BY NothingTaken, JobTypes
<1>. HIDE DEF x
<1>. QED  BY <1>2, <1>3, <1>4, <1>5, EditKeeps, JobTypes

LEMMA ReadPriorKeeps ==
    ASSUME DataInv, NEW i \in DOMAIN imports, ReadPrior(i)
    PROVE  DataInv' /\ Len(imports) <= Len(imports')
<1>1. imports[i] \in Import /\ imports[i].at \in {"processing", "deleted"} /\ DOMAIN imports \subseteq Nat
  BY Entries DEF DataInv, WorkInv, InHand, ReadPrior
<1>. DEFINE before == {p \in DOMAIN imports \ {i} : /\ imports[p].at = "completed"
                                                    /\ imports[p].kind = imports[i].kind}
<1>2. PICK file \in IF imports[i].kind = "csv_upload" THEN {imports[i].file} ELSE Feeds :
          jobs' = [jobs EXCEPT ![i] = [NoJob EXCEPT !.at = "read", !.file = file, !.prior = before]]
  BY DEF ReadPrior
<1>. DEFINE y == [NoJob EXCEPT !.at = "read", !.file = file, !.prior = before]
<1>3. file \in Parsed
  BY <1>1 DEF Import, AnyFile, Parsed
<1>4. y \in Job /\ y.at = "read" /\ y.prior = before /\ y.gone = {}
  BY <1>1, <1>3, JobTypes DEF Job, NoJob
<1>5. Fits(i, imports[i], y)
  BY <1>1, <1>4 DEF Fits
<1>6. jobs' = [jobs EXCEPT ![i] = y] /\ UNCHANGED <<imports, txns, unchecked>>
  BY <1>2 DEF ReadPrior
<1>. HIDE DEF y
<1>. QED  BY <1>4, <1>5, <1>6, JobKeeps

LEMMA DatesAreCovered ==
    ASSUME NEW i, NEW file
    PROVE  Dates(i, file) = Covered(imports[i].day, file)
BY DEF Dates, Day, Covered

LEMMA GatherKeeps ==
    ASSUME DataInv, NEW i \in DOMAIN imports, Gather(i)
    PROVE  DataInv' /\ Len(imports) <= Len(imports')
<1>1. jobs[i] \in Job /\ jobs \in Seq(Job) /\ i \in DOMAIN jobs /\ InHand(i) /\ Replaces(i) /\ txns \subseteq Trade
  BY Entries DEF DataInv, WorkInv, ImportTypes
<1>. DEFINE gone == Superseded(i)
            left == {KeyOf(t) : t \in txns \ gone}
            y == [jobs[i] EXCEPT !.at = "gathered", !.gone = gone, !.keys = left]
<1>2. gone \subseteq Trade
  BY <1>1 DEF Superseded
<1>3. left \subseteq Exts \X Days
  BY <1>1 DEF KeyOf, Trade
<1>4. \A t \in gone : t.imp \in jobs[i].prior /\ t.day \in Covered(imports[i].day, jobs[i].file)
  BY DatesAreCovered DEF Superseded
<1>5. jobs' = [jobs EXCEPT ![i].at = "gathered", ![i].gone = gone, ![i].keys = left]
      /\ UNCHANGED <<imports, txns, unchecked>> /\ jobs[i].at = "read"
  BY DEF Gather
<1>. HIDE DEF gone, left
<1>6. y \in Job /\ y.at = "gathered" /\ y.prior = jobs[i].prior /\ y.gone = gone
      /\ y.file = jobs[i].file
  BY <1>1, <1>2, <1>3 DEF Job
<1>7. Fits(i, imports[i], y)
  BY <1>1, <1>4, <1>5, <1>6 DEF Fits, InHand, Replaces
<1>8. jobs' = [jobs EXCEPT ![i] = y]
  BY <1>1, <1>5
<1>. HIDE DEF y
<1>. QED  BY <1>5, <1>6, <1>7, <1>8, JobKeeps

LEMMA AbortKeeps ==
    ASSUME DataInv, NEW i \in DOMAIN imports, Abort(i)
    PROVE  DataInv' /\ Len(imports) <= Len(imports')
<1>1. /\ imports' = imports /\ jobs' = [jobs EXCEPT ![i] = NoJob] /\ UNCHANGED <<txns, unchecked>>
  BY DEF Abort
<1>2. Fits(i, imports[i], NoJob)
  BY NothingTaken, JobTypes
<1>. QED  BY <1>1, <1>2, JobKeeps, JobTypes

LEMMA FinishKeeps ==
    ASSUME DataInv, NEW i \in DOMAIN imports, Finish(i)
    PROVE  DataInv' /\ Len(imports) <= Len(imports')
<1>1. /\ imports' = imports /\ jobs' = [jobs EXCEPT ![i] = NoJob] /\ txns' = txns
      /\ unchecked' \subseteq unchecked
  BY DEF Finish
<1>2. Fits(i, imports[i], NoJob)
  BY NothingTaken, JobTypes
<1>. QED  BY <1>1, <1>2, JobKeeps, JobTypes

\* The pull that the schedule makes.
LEMMA PulledToday ==
    /\ NewImport("api_pull", NoFile, Max(Days), "beat", "processing") \in Import
    /\ NewImport("api_pull", NoFile, Max(Days), "beat", "processing").at = "processing"
<1>1. PICK day \in Days : day = Max(Days)
  BY Constants_
<1>2. NoFile \in AnyFile
  BY DEF AnyFile
<1>3. /\ NewImport("api_pull", NoFile, day, "beat", "processing") \in Import
      /\ NewImport("api_pull", NoFile, day, "beat", "processing").at = "processing"
  BY <1>2 DEF NewImport, Import
<1>. QED  BY <1>1, <1>3

LEMMA RedeliverKeeps ==
    ASSUME DataInv, NEW i \in DOMAIN imports, Redeliver(i)
    PROVE  DataInv' /\ Len(imports) <= Len(imports')
<1>1. UNCHANGED <<txns, unchecked>>
  BY DEF Redeliver
<1>2. CASE imports[i].by = "beat"
  <2>. DEFINE x == NewImport("api_pull", NoFile, Max(Days), "beat", "processing")
              J == [jobs EXCEPT ![i] = NoJob]
  <2>1. /\ Len(imports) < MaxImports /\ imports' = Append(imports, x) /\ jobs' = Append(J, Begun)
    BY <1>2 DEF Redeliver, StartPull
  <2>2. x \in Import /\ x.at = "processing"
    BY PulledToday
  <2>3. jobs \in Seq(Job) /\ DOMAIN jobs = DOMAIN imports
    BY Entries DEF DataInv, ImportTypes
  <2>4. J \in Seq(Job) /\ Len(J) = Len(jobs) /\ \A j \in DOMAIN imports : J[j] \in {jobs[j], NoJob}
    BY <2>3, JobTypes, ExceptSeq
  <2>. HIDE DEF x, J
  <2>. QED  BY <1>1, <2>1, <2>2, <2>4, AppendStep
<1>3. CASE imports[i].by # "beat"
  <2>1. imports' = imports /\ jobs' = [jobs EXCEPT ![i] = Queued]
    BY <1>3 DEF Redeliver
  <2>2. Fits(i, imports[i], Queued)
    BY NothingTaken, JobTypes
  <2>. QED  BY <1>1, <2>1, <2>2, JobKeeps, JobTypes
<1>. QED  BY <1>2, <1>3

LEMMA ScheduledPullKeeps ==
    ASSUME DataInv, ScheduledPull
    PROVE  DataInv' /\ Len(imports) <= Len(imports')
<1>. DEFINE x == NewImport("api_pull", NoFile, Max(Days), "beat", "processing")
<1>1. /\ Len(imports) < MaxImports /\ imports' = Append(imports, x) /\ jobs' = Append(jobs, Begun)
      /\ UNCHANGED <<txns, unchecked>>
  BY DEF ScheduledPull, StartPull
<1>2. x \in Import /\ x.at = "processing"
  BY PulledToday
<1>3. jobs \in Seq(Job)
  BY DEF DataInv, ImportTypes
<1>. HIDE DEF x
<1>. QED  BY <1>1, <1>2, <1>3, AppendStep

\* What an import that completes leaves: its new trades instead of those it replaces.
LEMMA LandedTrades ==
    ASSUME DataInv, NEW i \in DOMAIN imports, Land(i), NEW x \in Import,
           imports' = [imports EXCEPT ![i] = x],
           x.at = "completed", x.kind = imports[i].kind
    PROVE  NoOrphans'
<1>1. /\ txns \subseteq Trade /\ \A t \in txns : t.imp \in DOMAIN imports
      /\ imports \in Seq(Import)
  BY DEF DataInv, ImportTypes
<1>2. \A t \in New(i) : t.imp = i
  BY NewTrades DEF DataInv
<1>3. \A n, m \in New(i) : KeyOf(n) = KeyOf(m) => n = m
  BY NewTrades DEF DataInv
<1>4. /\ imports'[i] = x
      /\ \A j \in DOMAIN imports \ {i} : imports'[j] = imports[j]
  BY <1>1
<1>5. Landed(i)'
  BY <1>4 DEF Landed, Settled
<1>6. \A j \in DOMAIN imports \ {i} : Landed(j) => Landed(j)'
  BY <1>4 DEF Landed
<1>7. txns' = (txns \ jobs[i].gone) \cup New(i)
  BY DEF Land
<1>8. \A t \in txns' : Landed(t.imp)'
  BY <1>1, <1>2, <1>5, <1>6, <1>7 DEF DataInv, NoOrphans
<1>9. \A t \in txns \ jobs[i].gone, n \in New(i) : KeyOf(t) # KeyOf(n)
  BY DEF Land, Collides
<1>10. \A t, s \in txns : KeyOf(t) = KeyOf(s) => s = t
  BY DEF DataInv, NoOrphans
<1>11. \A t, s \in txns' : KeyOf(t) = KeyOf(s) => s = t
  BY <1>3, <1>7, <1>9, <1>10
<1>. QED  BY <1>8, <1>11 DEF NoOrphans, KeyOf

LEMMA LandKeeps ==
    ASSUME DataInv, NEW i \in DOMAIN imports, Land(i)
    PROVE  DataInv' /\ Len(imports) <= Len(imports')
<1>. DEFINE n == Cardinality(New(i))
            s == jobs[i].file.filtered + Cardinality(jobs[i].file.rows) - n
            x == [imports[i] EXCEPT !.at = "completed", !.imported = n, !.skipped = s]
            y == [NoJob EXCEPT !.at = "landed"]
<1>1. /\ imports \in Seq(Import) /\ jobs \in Seq(Job) /\ imports[i] \in Import /\ jobs[i] \in Job
      /\ InHand(i) /\ Replaces(i) /\ txns \subseteq Trade /\ unchecked \subseteq Days
      /\ \A t \in txns : t.imp \in DOMAIN imports
  BY Entries DEF DataInv, WorkInv, ImportTypes
<1>2. New(i) \subseteq Trade /\ n \in Nat /\ \A t \in New(i) : t.imp = i
  BY NewTrades DEF DataInv
<1>3. s \in Int
  <2>1. jobs[i].file \in Parsed
    BY <1>1 DEF Job
  <2>2. jobs[i].file.filtered \in Nat /\ Cardinality(jobs[i].file.rows) \in Nat
    BY <2>1, ParsedFiles
  <2>. HIDE DEF n
  <2>. QED  BY <1>2, <2>2
<1>4. /\ imports' = [imports EXCEPT ![i].at = "completed", ![i].imported = n, ![i].skipped = s]
      /\ jobs' = [jobs EXCEPT ![i] = y]
      /\ txns' = (txns \ jobs[i].gone) \cup New(i)
      /\ unchecked' = unchecked \cup {t.day : t \in jobs[i].gone \cup New(i)}
      /\ jobs[i].at = "gathered" /\ imports[i].at # "deleted"
  BY DEF Land
<1>. HIDE DEF n, s
<1>5. /\ x \in Import /\ x.at = "completed" /\ x.imported = n
      /\ x.kind = imports[i].kind /\ x.day = imports[i].day
  BY <1>1, <1>2, <1>3 DEF Import, Settled
<1>6. imports' = [imports EXCEPT ![i] = x]
  BY <1>1, <1>4
<1>7. y \in Job /\ y.at = "landed" /\ y.prior = {} /\ y.gone = {}
  BY JobTypes DEF Job, NoJob
<1>. HIDE DEF x, y
<1>8. /\ imports' \in Seq(Import) /\ jobs' \in Seq(Job)
      /\ Len(imports') = Len(imports) /\ Len(jobs') = Len(imports)
      /\ DOMAIN imports' = DOMAIN imports /\ imports'[i] = x
      /\ \A j \in DOMAIN imports \ {i} : imports'[j] = imports[j]
  BY <1>4, <1>5, <1>6, <1>7, EditTypes DEF DataInv
<1>9. ImportTypes'
  <2>1. \A t \in jobs[i].gone \cup New(i) : t.day \in Days
    BY <1>1, <1>2 DEF Job, Trade
  <2>2. txns' \subseteq Trade /\ \A t \in txns' : t.imp \in DOMAIN imports
    BY <1>1, <1>2, <1>4
  <2>3. unchecked' \subseteq Days
    BY <1>1, <1>4, <2>1
  <2>. QED  BY <1>8, <2>2, <2>3 DEF DataInv, ImportTypes
<1>10. WorkInv'
  <2>1. Fits(i, x, y)
    BY <1>7 DEF Fits
  <2>. QED  BY <1>4, <1>5, <1>6, <1>7, <2>1, EditWork DEF DataInv
<1>11. NoOrphans'
  BY <1>5, <1>6, LandedTrades
<1>12. CountsOfFilesAreTrue'
  <2>. SUFFICES ASSUME NEW j \in DOMAIN imports,
                       imports'[j].kind = "csv_upload", imports'[j].at = "completed",
                       \A k \in DOMAIN imports \ {j} :
                           imports'[k].kind = "csv_upload" => imports'[k].at # "completed"
                PROVE  \/ imports'[j].imported = Cardinality(Own(j)')
                       \/ \E k \in DOMAIN imports \ {j} : imports'[k].at = "deleted"
    BY <1>8 DEF CountsOfFilesAreTrue
  <2>1. CASE j = i
    <3>1. imports[i].at = "processing" /\ imports[i].kind = "csv_upload"
      BY <1>1, <1>4, <1>5, <1>8, <2>1 DEF InHand
    <3>2. Own(i) = {}
      BY <3>1 DEF DataInv, NoOrphans, Landed, Own
    <3>3. Own(i)' = New(i)
      BY <1>2, <1>4, <3>2 DEF Own
    <3>. QED  BY <1>5, <1>8, <2>1, <3>3 DEF n
  <2>2. CASE j # i
    <3>1. imports'[j] = imports[j] /\ imports[i].kind # "csv_upload"
      BY <1>5, <1>8, <2>2
    <3>2. \A t \in jobs[i].gone : t.imp # j
      BY <1>1, <3>1 DEF Replaces
    <3>3. Own(j)' = Own(j)
      BY <1>2, <1>4, <2>2, <3>2 DEF Own
    <3>4. \A k \in DOMAIN imports \ {j} :
              imports[k].kind = "csv_upload" => imports[k].at # "completed"
      BY <1>8, <3>1
    <3>5. \/ imports[j].imported = Cardinality(Own(j))
          \/ \E k \in DOMAIN imports \ {j} : imports[k].at = "deleted"
      BY <3>1, <3>4 DEF DataInv, CountsOfFilesAreTrue
    <3>. QED  BY <1>4, <1>8, <3>1, <3>3, <3>5
  <2>. QED  BY <2>1, <2>2
<1>. QED  BY <1>8, <1>9, <1>10, <1>11, <1>12, Entries DEF DataInv

LEMMA WorkerKeeps ==
    ASSUME DataInv, NEW i \in DOMAIN imports, Working(i)
    PROVE  DataInv' /\ Len(imports) <= Len(imports')
BY BeginKeeps, UnreadableKeeps, ReadPriorKeeps, GatherKeeps, LandKeeps, AbortKeeps, FinishKeeps,
   RedeliverKeeps DEF Working

-----------------------------------------------------------------------------
\* The API's handlers

\* A step that leaves the imports, the work and the trades alone.
LEMMA StillData ==
    ASSUME DataInv, UNCHANGED <<imports, jobs, txns, unchecked>>
    PROVE  DataInv' /\ Len(imports) <= Len(imports')
<1>1. ImportTypes'
  BY DEF DataInv, ImportTypes
<1>2. WorkInv'
  BY DEF DataInv, WorkInv, InHand, Replaces
<1>3. NoOrphans'
  BY DEF DataInv, NoOrphans, Landed, KeyOf
<1>4. CountsOfFilesAreTrue'
  BY DEF DataInv, CountsOfFilesAreTrue, Own
<1>. QED  BY <1>1, <1>2, <1>3, <1>4, Entries DEF DataInv

LEMMA DeleteKeeps ==
    ASSUME DataInv, call.imp \in DOMAIN imports, DeleteImport
    PROVE  DataInv' /\ Len(imports) <= Len(imports')
<1>1. CASE imports[call.imp].at = "deleted"
  <2>1. UNCHANGED <<imports, jobs, txns, unchecked>>
    BY <1>1 DEF DeleteImport
  <2>. QED  BY <2>1, StillData
<1>2. CASE imports[call.imp].at # "deleted"
  <2>1. PICK i \in DOMAIN imports : i = call.imp
    OBVIOUS
  <2>. DEFINE x == NewImport(imports[i].kind, imports[i].file, imports[i].day, imports[i].by, "deleted")
              y == jobs[i]
  <2>2. /\ imports \in Seq(Import) /\ jobs \in Seq(Job) /\ imports[i] \in Import /\ y \in Job
        /\ InHand(i) /\ Replaces(i) /\ txns \subseteq Trade /\ unchecked \subseteq Days
        /\ \A t \in txns : t.imp \in DOMAIN imports
        /\ DOMAIN jobs = DOMAIN imports
    BY Entries DEF DataInv, WorkInv, ImportTypes
  <2>3. x \in Import /\ x.at = "deleted" /\ x.kind = imports[i].kind /\ x.day = imports[i].day
    BY <2>2 DEF NewImport, Import
  <2>4. /\ imports' = [imports EXCEPT ![i] = x]
        /\ txns' = txns \ Own(i)
        /\ unchecked' = unchecked \ {t.day : t \in Own(i)}
        /\ jobs' = jobs
    BY <1>2, <2>1 DEF DeleteImport
  <2>5. jobs' = [jobs EXCEPT ![i] = y]
    BY <2>2, <2>4
  <2>. HIDE DEF x
  <2>6. Fits(i, x, y)
    BY <2>2, <2>3 DEF Fits, InHand, Replaces
  <2>. HIDE DEF y
  <2>7. /\ imports' \in Seq(Import) /\ jobs' \in Seq(Job)
        /\ Len(imports') = Len(imports) /\ Len(jobs') = Len(imports)
        /\ DOMAIN imports' = DOMAIN imports /\ imports'[i] = x
        /\ \A j \in DOMAIN imports \ {i} : imports'[j] = imports[j]
    BY <2>2, <2>3, <2>4, <2>5, EditTypes DEF DataInv
  <2>8. txns' \subseteq txns /\ unchecked' \subseteq unchecked /\ \A t \in txns' : t.imp # i
    BY <2>4 DEF Own
  <2>9. ImportTypes'
    BY <2>2, <2>7, <2>8 DEF DataInv, ImportTypes
  <2>10. WorkInv'
    BY <2>2, <2>3, <2>4, <2>5, <2>6, EditWork DEF DataInv
  <2>11. NoOrphans'
    <3>1. \A j \in DOMAIN imports \ {i} : Landed(j) => Landed(j)'
      BY <2>7 DEF Landed
    <3>. QED  BY <2>2, <2>8, <3>1 DEF DataInv, NoOrphans, KeyOf
  <2>12. CountsOfFilesAreTrue'
    <3>1. ASSUME NEW j \in DOMAIN imports, imports'[j].at = "completed"
          PROVE  \E k \in DOMAIN imports \ {j} : imports'[k].at = "deleted"
      BY <2>3, <2>7, <3>1
    <3>. QED  BY <2>7, <3>1 DEF CountsOfFilesAreTrue
  <2>. QED  BY <2>7, <2>9, <2>10, <2>11, <2>12, Entries DEF DataInv
<1>. QED  BY <1>1, <1>2

LEMMA AcceptKeeps ==
    ASSUME DataInv, NEW x \in Import, x.at = "pending", Len(imports) < MaxImports, Accept(x)
    PROVE  DataInv' /\ Len(imports') = Len(imports) + 1
<1>1. imports \in Seq(Import) /\ jobs \in Seq(Job)
  BY DEF DataInv, ImportTypes
<1>2. /\ imports' = Append(imports, x) /\ jobs' = Append(jobs, Queued) /\ UNCHANGED <<txns, unchecked>>
  BY DEF Accept
<1>3. Queued # Begun
  BY JobTypes
<1>4. Len(imports') = Len(imports) + 1
  BY <1>1, <1>2
<1>5. DataInv'
  BY <1>1, <1>2, <1>3, AppendStep
<1>. QED  BY <1>4, <1>5

LEMMA ImportCsvKeeps ==
    ASSUME DataInv, call \in Request, ImportCsv
    PROVE  DataInv' /\ Len(imports') = Len(imports) + 1
<1>. DEFINE day == IF call.day = NoDay THEN FirstDay(call.file) ELSE call.day
            x == NewImport("csv_upload", call.file, day, "user", "pending")
<1>1. call.file \in AnyFile /\ call.day \in Days \cup {NoDay}
  BY DEF Request, NoDayYet
<1>2. call.day = NoDay => DatesIn(call.file) # {}
  BY DEF ImportCsv, Undated
<1>3. day \in Days
  BY <1>1, <1>2, FirstDayType
<1>4. Accept(x) /\ Len(imports) < MaxImports
  BY DEF ImportCsv
<1>. HIDE DEF day
<1>5. x \in Import /\ x.at = "pending"
  BY <1>1, <1>3 DEF NewImport, Import
<1>. HIDE DEF x
<1>. QED  BY <1>4, <1>5, AcceptKeeps

LEMMA PullSourceKeeps ==
    ASSUME DataInv, call.day \in Days, PullSource
    PROVE  DataInv' /\ Len(imports') = Len(imports) + 1
<1>. DEFINE x == NewImport("api_pull", NoFile, call.day, "user", "pending")
<1>1. Accept(x) /\ Len(imports) < MaxImports
  BY DEF PullSource
<1>2. NoFile \in AnyFile
  BY DEF AnyFile
<1>3. x \in Import /\ x.at = "pending"
  BY <1>2 DEF NewImport, Import
<1>. HIDE DEF x
<1>. QED  BY <1>1, <1>3, AcceptKeeps

LEMMA WorkersKeepPage ==
    ASSUME (\E i \in DOMAIN imports : Working(i)) \/ ScheduledPull
    PROVE  UNCHANGED page
<1>1. ASSUME NEW i \in DOMAIN imports, Working(i)
      PROVE  UNCHANGED page
  BY <1>1 DEF Working, Begin, Unreadable, ReadPrior, Gather, Land, Abort, Finish, Redeliver
<1>. QED  BY <1>1 DEF ScheduledPull

\* Only the worker, the schedule and the handlers change the imports, their
\* jobs or the trades; the page changes only what it shows.
LEMMA WhoChangesData ==
    ASSUME [Next]_vars
    PROVE  \/ UNCHANGED <<imports, jobs, txns, unchecked>>
           \/ (\E i \in DOMAIN imports : Working(i)) /\ UNCHANGED page
           \/ ScheduledPull /\ UNCHANGED page
           \/ Serve /\ (ImportCsv \/ PullSource \/ DeleteImport) /\ UNCHANGED <<panel, modal>>
<1>1. CASE UNCHANGED vars
  BY <1>1 DEF vars, worker
<1>2. CASE (\E i \in DOMAIN imports : Working(i)) \/ ScheduledPull
  BY <1>2, WorkersKeepPage
<1>3. CASE Loading \/ LoseLoad \/ LoseAnswer \/ Ending
  BY <1>3 DEF Loading, Poll, ListArrives, PollWizard, TrackArrives, LoseLoad, LoseAnswer, Ending,
        ImportEnds, PullEnds, DeleteEnds, Answered, worker
<1>4. CASE Wizard \/ Detail
  BY <1>4 DEF Wizard, OpenWizard, PickFile, OnPreview, PreviewEnds, Back, OnImport, OnPull, Close,
        Detail, OpenDetail, SkippedEnd, OnDelete, Show, Change, worker
<1>5. CASE Serve
  BY <1>5 DEF Serve, Refuse
<1>. QED  BY <1>1, <1>2, <1>3, <1>4, <1>5 DEF Next

LEMMA DataSteps ==
    ASSUME ImportInv, [Next]_vars
    PROVE  DataInv' /\ Len(imports) <= Len(imports')
<1>1. CASE UNCHANGED <<imports, jobs, txns, unchecked>>
  BY <1>1, StillData DEF ImportInv
<1>2. CASE \E i \in DOMAIN imports : Working(i)
  BY <1>2, WorkerKeeps DEF ImportInv
<1>3. CASE ScheduledPull
  BY <1>3, ScheduledPullKeeps DEF ImportInv
<1>4. CASE Serve /\ (ImportCsv \/ PullSource \/ DeleteImport)
  <2>1. DataInv /\ call \in Request /\ Len(imports) \in Nat
    BY Entries DEF ImportInv, PageTypes, AsksOne, DataInv
  <2>2. CASE ImportCsv
    BY <2>1, <2>2, ImportCsvKeeps
  <2>3. CASE PullSource
    <3>1. call.day \in Days
      BY <1>4, <2>3 DEF ImportInv, PageTypes, AsksOne, Serve, PullSource
    <3>. QED  BY <2>1, <2>3, <3>1, PullSourceKeeps
  <2>4. CASE DeleteImport
    <3>1. call.imp \in DOMAIN imports
      BY <1>4, <2>4 DEF ImportInv, PageTypes, AsksOne, Serve, DeleteImport
    <3>. QED  BY <2>1, <2>4, <3>1, DeleteKeeps
  <2>. QED  BY <1>4, <2>2, <2>3, <2>4
<1>. QED  BY <1>1, <1>2, <1>3, <1>4, WhoChangesData


-----------------------------------------------------------------------------
\* The page

LEMMA PageConstants ==
    /\ NoFile \in AnyFile /\ Files \subseteq AnyFile
    /\ Closed \in Dialog /\ Closed.at = "none"
    /\ Idle \in Request /\ Idle.at = "idle" /\ Idle.kind = None
BY DEF AnyFile, Closed, Dialog, Idle, Request, None, NoDayYet

\* Imports only become more: what the page shows, and asks for, stays there.
LEMMA PageGrows ==
    ASSUME DataInv, DataInv', Len(imports) <= Len(imports'),
           panel' \in Panel, Len(panel'.list) <= Len(imports), ShowsOne(modal', DOMAIN imports),
           AsksOne(call', DOMAIN imports) \/ AsksOne(call', DOMAIN imports')
    PROVE  PageTypes'
<1>1. /\ DOMAIN imports = 1 .. Len(imports) /\ Len(imports) \in Nat
      /\ DOMAIN imports' = 1 .. Len(imports') /\ Len(imports') \in Nat
  BY DEF DataInv, ImportTypes
<1>2. DOMAIN imports \subseteq DOMAIN imports'
  BY <1>1
<1>3. ShowsOne(modal', DOMAIN imports') /\ AsksOne(call', DOMAIN imports')
  BY <1>2 DEF ShowsOne, AsksOne
<1>. DEFINE L == panel'.list
            Shown == [at : {"pending", "processing", "deleted"} \cup Settled, skipped : Int]
<1>4. L \in Seq(Shown) /\ Len(L) <= Len(imports)
  BY DEF Panel
<1>. HIDE DEF L, Shown
<1>5. Len(L) <= Len(imports')
  BY <1>1, <1>4
<1>. QED  BY <1>3, <1>5 DEF PageTypes, L

\* The list as it arrives.
LEMMA ListArrivesShows ==
    ASSUME DataInv, panel \in Panel, ListArrives
    PROVE  panel' \in Panel /\ Len(panel'.list) <= Len(imports)
<1>. DEFINE Shown == [at : {"pending", "processing", "deleted"} \cup Settled, skipped : Int]
<1>1. /\ DOMAIN imports = 1 .. Len(imports) /\ Len(imports) \in Nat
      /\ \A i \in DOMAIN imports : imports[i] \in Import
  BY Entries DEF DataInv
<1>2. \A i \in DOMAIN imports : [at |-> imports[i].at, skipped |-> imports[i].skipped] \in Shown
  BY <1>1 DEF Import
<1>. HIDE DEF Shown
<1>3. Listed \in Seq(Shown) /\ Len(Listed) = Len(imports)
  BY <1>1, <1>2 DEF Listed
<1>4. panel' = [known |-> TRUE, error |-> FALSE, list |-> Listed]
  BY DEF ListArrives
<1>. QED  BY <1>1, <1>3, <1>4 DEF Panel, Shown

LEMMA PanelSteps ==
    ASSUME ImportInv, [Next]_vars
    PROVE  panel' \in Panel /\ Len(panel'.list) <= Len(imports)
<1>1. panel \in Panel /\ Len(panel.list) <= Len(imports) /\ DataInv
  BY DEF ImportInv, PageTypes
<1>2. CASE UNCHANGED panel
  BY <1>1, <1>2
<1>3. CASE ListArrives
  BY <1>1, <1>3, ListArrivesShows
<1>4. CASE LoseLoad
  <2>1. panel' = panel \/ panel' = [panel EXCEPT !.error = ~panel.known]
    BY <1>4 DEF LoseLoad
  <2>. QED  BY <1>1, <2>1 DEF Panel
<1>5. UNCHANGED panel \/ ListArrives \/ LoseLoad
  <2>1. CASE Loading \/ LoseAnswer \/ Ending
    BY <2>1 DEF Loading, Poll, PollWizard, TrackArrives, LoseAnswer, Ending,
          ImportEnds, PullEnds, DeleteEnds, Answered
  <2>2. CASE Wizard \/ Detail
    BY <2>2 DEF Wizard, OpenWizard, PickFile, OnPreview, PreviewEnds, Back, OnImport, OnPull, Close,
          Detail, OpenDetail, SkippedEnd, OnDelete, Show, Change
  <2>3. CASE Serve \/ UNCHANGED vars
    BY <2>3 DEF Serve, vars, page
  <2>4. CASE (\E i \in DOMAIN imports : Working(i)) \/ ScheduledPull
    BY <2>4, WorkersKeepPage DEF page
  <2>. QED  BY <2>1, <2>2, <2>3, <2>4 DEF Next
<1>. QED  BY <1>2, <1>3, <1>4, <1>5

LEMMA ModalSteps ==
    ASSUME ImportInv, [Next]_vars
    PROVE  ShowsOne(modal', DOMAIN imports)
<1>1. /\ ShowsOne(modal, DOMAIN imports) /\ modal \in Dialog /\ DOMAIN imports \subseteq Nat
      /\ DOMAIN panel.list \subseteq DOMAIN imports
  <2>1. panel.list \in Seq([at : {"pending", "processing", "deleted"} \cup Settled, skipped : Int])
    BY DEF ImportInv, PageTypes, Panel
  <2>2. DOMAIN imports = 1 .. Len(imports) /\ Len(imports) \in Nat
    BY Entries DEF ImportInv, DataInv
  <2>. QED  BY <2>1, <2>2 DEF ImportInv, PageTypes, ShowsOne
<1>2. CASE UNCHANGED modal
  BY <1>1, <1>2
<1>3. CASE Wizard
  <2>1. CASE OpenWizard \/ Close
    BY <2>1, PageConstants DEF OpenWizard, Close, Show, ShowsOne, Closed, Dialog
  <2>2. CASE OnPreview
    <3>1. PICK f \in Files : modal' = [modal EXCEPT !.pending = TRUE, !.file = f, !.seen = f]
      BY <2>2 DEF OnPreview, Show
    <3>. QED  BY <1>1, <3>1, PageConstants DEF ShowsOne, Dialog
  <2>3. CASE PickFile
    <3>1. PICK f \in Files : modal' = [modal EXCEPT !.file = f]
      BY <2>3 DEF PickFile, Show
    <3>. QED  BY <1>1, <3>1, PageConstants DEF ShowsOne, Dialog
  <2>4. CASE PreviewEnds
    <3>1. \/ modal' = [modal EXCEPT !.pending = FALSE, !.at = "preview"]
          \/ modal' = [Closed EXCEPT !.at = "select"]
      BY <2>4 DEF PreviewEnds, Show
    <3>. QED  BY <1>1, <3>1, PageConstants DEF ShowsOne, Dialog
  <2>5. CASE Back
    <3>1. modal' = [Closed EXCEPT !.at = "select", !.pending = modal.pending]
      BY <2>5 DEF Back, Show
    <3>. QED  BY <1>1, <3>1, PageConstants DEF ShowsOne, Dialog
  <2>6. CASE OnImport
    <3>1. modal' = [modal EXCEPT !.pending = TRUE]
      BY <2>6 DEF OnImport, Change
    <3>. QED  BY <1>1, <3>1 DEF ShowsOne, Dialog
  <2>7. CASE OnPull
    <3>1. modal' = [Closed EXCEPT !.at = "pull", !.pending = TRUE]
      BY <2>7 DEF OnPull, Change
    <3>. QED  BY <1>1, <3>1, PageConstants DEF ShowsOne, Dialog
  <2>. QED  BY <1>3, <2>1, <2>2, <2>3, <2>4, <2>5, <2>6, <2>7 DEF Wizard
<1>4. CASE Detail
  <2>1. ASSUME NEW i \in DOMAIN panel.list, OpenDetail(i)
        PROVE  ShowsOne(modal', DOMAIN imports)
    <3>1. PICK rows \in {"none", "loading"} :
              modal' = [Closed EXCEPT !.at = "detail", !.imp = i, !.rows = rows]
      BY <2>1 DEF OpenDetail, Show
    <3>2. i \in DOMAIN imports /\ i \in Nat
      BY <1>1
    <3>. QED  BY <3>1, <3>2, PageConstants DEF ShowsOne, Dialog
  <2>2. CASE SkippedEnd
    <3>1. PICK rows \in {"error", "known"} : modal' = [modal EXCEPT !.rows = rows]
      BY <2>2 DEF SkippedEnd, Show
    <3>. QED  BY <1>1, <3>1 DEF ShowsOne, Dialog
  <2>3. CASE OnDelete
    <3>1. modal' = [modal EXCEPT !.pending = TRUE]
      BY <2>3 DEF OnDelete, Change
    <3>. QED  BY <1>1, <3>1 DEF ShowsOne, Dialog
  <2>. QED  BY <1>4, <2>1, <2>2, <2>3 DEF Detail
<1>5. CASE TrackArrives
  <2>1. CASE modal.at = "importing"
    <3>1. PICK at \in {"done", "importing"} : modal' = [modal EXCEPT !.at = at]
      BY <1>5, <2>1 DEF TrackArrives, StepOf
    <3>. QED  BY <1>1, <2>1, <3>1 DEF ShowsOne, Dialog
  <2>2. CASE modal.at # "importing"
    BY <1>1, <1>5, <2>2 DEF TrackArrives
  <2>. QED  BY <2>1, <2>2
<1>6. CASE Ending
  <2>1. Failed \in Dialog /\ Failed.at = modal.at /\ Failed.imp = modal.imp
    BY <1>1 DEF Failed, Dialog
  <2>2. CASE ImportEnds
    <3>1. CASE modal' = modal \/ modal' = Failed
      BY <1>1, <2>1, <3>1 DEF ShowsOne
    <3>2. CASE call.at = "ok" /\ modal' = [Closed EXCEPT !.at = "importing", !.imp = call.imp]
      <4>1. call.imp \in DOMAIN imports
        BY <2>2, <3>2 DEF ImportEnds, Answered, ImportInv, PageTypes, AsksOne
      <4>. QED  BY <1>1, <3>2, <4>1, PageConstants DEF ShowsOne, Dialog
    <3>. QED  BY <2>2, <3>1, <3>2 DEF ImportEnds, Answered
  <2>3. CASE PullEnds \/ DeleteEnds
    <3>1. modal' \in {modal, Failed, Closed}
      BY <2>3 DEF PullEnds, DeleteEnds
    <3>. QED  BY <1>1, <2>1, <3>1, PageConstants DEF ShowsOne
  <2>. QED  BY <1>6, <2>2, <2>3 DEF Ending
<1>7. UNCHANGED modal \/ Wizard \/ Detail \/ TrackArrives \/ Ending
  <2>1. CASE Loading \/ LoseLoad \/ LoseAnswer
    BY <2>1 DEF Loading, Poll, ListArrives, PollWizard, LoseLoad, LoseAnswer
  <2>2. CASE Serve \/ UNCHANGED vars
    BY <2>2 DEF Serve, vars, page
  <2>3. CASE (\E i \in DOMAIN imports : Working(i)) \/ ScheduledPull
    BY <2>3, WorkersKeepPage DEF page
  <2>. QED  BY <2>1, <2>2, <2>3 DEF Next
<1>. QED  BY <1>2, <1>3, <1>4, <1>5, <1>6, <1>7

LEMMA CallSteps ==
    ASSUME ImportInv, [Next]_vars
    PROVE  AsksOne(call', DOMAIN imports) \/ AsksOne(call', DOMAIN imports')
<1>1. /\ call \in Request /\ AsksOne(call, DOMAIN imports)
      /\ modal \in Dialog
      /\ modal.at = "detail" => modal.imp \in DOMAIN imports
      /\ Len(imports) \in Nat
  BY Entries DEF ImportInv, DataInv, PageTypes, AsksOne, ShowsOne
<1>2. CASE UNCHANGED call \/ call' = Idle
  BY <1>1, <1>2, PageConstants DEF AsksOne, None
<1>3. CASE OnImport
  <2>1. PICK d \in NoDayYet :
            call' = [Idle EXCEPT !.at = "sent", !.kind = "upload", !.file = modal.file, !.day = d]
    BY <1>3 DEF OnImport, Change, NoDayYet
  <2>2. modal.file \in AnyFile
    BY <1>1 DEF Dialog
  <2>. QED  BY <2>1, <2>2, PageConstants DEF AsksOne, Idle, Request
<1>4. CASE OnPull
  <2>1. PICK d \in Days : call' = [Idle EXCEPT !.at = "sent", !.kind = "pull", !.day = d]
    BY <1>4 DEF OnPull, Change
  <2>. QED  BY <2>1, PageConstants DEF AsksOne, Idle, Request, NoDayYet
<1>5. CASE OnDelete
  <2>1. /\ call' = [Idle EXCEPT !.at = "sent", !.kind = "delete", !.imp = modal.imp]
        /\ modal.imp \in DOMAIN imports /\ modal.imp \in Nat
    BY <1>1, <1>5 DEF OnDelete, Change, Dialog
  <2>. QED  BY <2>1, PageConstants DEF AsksOne, Idle, Request
\* The answers.
<1>6. ASSUME NEW at \in {"ok", "error"}, NEW i \in Nat, call' = Answer(at, i),
             call.kind = "upload" /\ at = "ok" => i \in DOMAIN imports'
      PROVE  AsksOne(call', DOMAIN imports')
  <2>1. /\ call' \in Request /\ call'.at = at /\ call'.kind = call.kind /\ call'.imp = i
    BY <1>1, <1>6, PageConstants DEF Answer, Request, Idle
  <2>. QED  BY <1>6, <2>1 DEF AsksOne
<1>7. CASE Serve
  <2>1. CASE ImportCsv
    <3>1. call' = Answer("ok", Len(imports) + 1)
      BY <2>1 DEF ImportCsv
    <3>2. Len(imports) + 1 \in DOMAIN imports'
      <4>1. DataInv' /\ Len(imports') = Len(imports) + 1
        BY <1>1, <2>1, ImportCsvKeeps DEF ImportInv
      <4>2. DOMAIN imports' = 1 .. Len(imports')
        BY <4>1 DEF DataInv, ImportTypes
      <4>. QED  BY <1>1, <4>1, <4>2
    <3>. QED  BY <1>1, <1>6, <3>1, <3>2
  <2>2. CASE PullSource
    <3>1. call' = Answer("ok", 0) /\ call.kind = "pull"
      BY <2>2 DEF PullSource
    <3>. QED  BY <1>6, <3>1
  <2>3. CASE DeleteImport
    <3>1. call.kind = "delete" /\ (call' = Answer("ok", 0) \/ call' = Answer("error", 0))
      BY <2>3 DEF DeleteImport
    <3>. QED  BY <1>6, <3>1
  <2>4. CASE Refuse
    <3>1. call' = Answer("error", 0)
      BY <2>4 DEF Refuse
    <3>. QED  BY <1>6, <3>1
  <2>. QED  BY <1>7, <2>1, <2>2, <2>3, <2>4 DEF Serve
<1>8. CASE LoseAnswer
  <2>1. call' = Answer("error", 0)
    BY <1>8 DEF LoseAnswer
  <2>. QED  BY <1>6, <2>1
<1>9. \/ UNCHANGED call \/ call' = Idle \/ OnImport \/ OnPull \/ OnDelete \/ Serve \/ LoseAnswer
  <2>1. CASE Loading \/ LoseLoad \/ Ending \/ UNCHANGED vars
    BY <2>1 DEF Loading, Poll, ListArrives, PollWizard, TrackArrives, LoseLoad, Ending,
          ImportEnds, PullEnds, DeleteEnds, Answered, vars, page
  <2>2. CASE Wizard \/ Detail
    BY <2>2 DEF Wizard, OpenWizard, PickFile, OnPreview, PreviewEnds, Back, Close,
          Detail, OpenDetail, SkippedEnd, Show
  <2>3. CASE (\E i \in DOMAIN imports : Working(i)) \/ ScheduledPull
    BY <2>3, WorkersKeepPage DEF page
  <2>. QED  BY <2>1, <2>2, <2>3 DEF Next
<1>. QED  BY <1>2, <1>3, <1>4, <1>5, <1>7, <1>8, <1>9

-----------------------------------------------------------------------------
\* The theorems

LEMMA ImportInvNext ==
    ImportInv /\ [Next]_vars => ImportInv'
<1>. SUFFICES ASSUME ImportInv, [Next]_vars
              PROVE  ImportInv'
  OBVIOUS
<1>1. DataInv' /\ Len(imports) <= Len(imports')
  BY DataSteps
<1>2. panel' \in Panel /\ Len(panel'.list) <= Len(imports)
  BY PanelSteps
<1>3. ShowsOne(modal', DOMAIN imports)
  BY ModalSteps
<1>4. AsksOne(call', DOMAIN imports) \/ AsksOne(call', DOMAIN imports')
  BY CallSteps
<1>5. PageTypes'
  BY <1>1, <1>2, <1>3, <1>4, PageGrows DEF ImportInv
<1>. QED  BY <1>1, <1>5 DEF ImportInv

\* An import of a file, as the database may hold one at the beginning.
LEMMA FirstImport ==
    ASSUME NEW f \in Files, f.rows # {}, {row.day : row \in f.rows} \subseteq Days,
           imports = <<Imported(f)>>, jobs = <<NoJob>>, unchecked = {},
           txns = {[imp |-> 1, ext |-> row.ext, day |-> row.day] : row \in f.rows}
    PROVE  DataInv
<1>1. /\ IsFiniteSet(f.rows) /\ f.filtered \in Nat /\ Cardinality(f.rows) \in Nat /\ f \in AnyFile
      /\ \A row \in f.rows : /\ row = [ext |-> row.ext, day |-> row.day]
                             /\ row.ext \in Exts /\ row.day \in Days
  BY ParsedFiles DEF Parsed, AnyFile
<1>2. FirstDay(f) \in Days
  <2>1. DatesIn(f) # {}
    BY <1>1, Constants_ DEF DatesIn
  <2>. QED  BY <1>1, <2>1, FirstDayType
<1>3. /\ Imported(f) \in Import /\ Imported(f).kind = "csv_upload" /\ Imported(f).at = "completed"
      /\ Imported(f).imported = Cardinality(f.rows)
  <2>. DEFINE new == NewImport("csv_upload", f, FirstDay(f), "user", "completed")
              n   == Cardinality(f.rows)
              s   == f.filtered
  <2>1. new \in Import /\ new.kind = "csv_upload" /\ new.at = "completed"
    BY <1>1, <1>2 DEF NewImport, Import, Settled
  <2>2. Imported(f) = [new EXCEPT !.imported = n, !.skipped = s]
    BY DEF Imported
  <2>3. n \in Nat /\ s \in Int
    BY <1>1
  <2>. HIDE DEF new, n, s
  <2>4. Imported(f) \in Import
    BY <2>1, <2>2, <2>3 DEF Import, Settled
  <2>5. Imported(f).kind = new.kind /\ Imported(f).at = new.at /\ Imported(f).imported = n
    BY <2>1, <2>2 DEF Import
  <2>. QED  BY <2>1, <2>4, <2>5 DEF n
<1>4. /\ imports[1] = Imported(f) /\ jobs[1] = NoJob /\ DOMAIN imports = {1} /\ Len(imports) = 1
      /\ imports \in Seq(Import) /\ jobs \in Seq(Job) /\ Len(jobs) = 1
  BY <1>3, JobTypes
<1>5. txns \subseteq Trade /\ \A t \in txns : t.imp = 1
  BY <1>1 DEF Trade
<1>6. ImportTypes
  BY <1>4, <1>5, Constants_ DEF ImportTypes
<1>7. WorkInv
  BY <1>4, JobTypes DEF WorkInv, InHand, Replaces
<1>8. NoOrphans
  <2>1. \A t \in txns : Landed(t.imp)
    BY <1>3, <1>4, <1>5 DEF Landed
  <2>2. \A t, s \in txns : KeyOf(s) = KeyOf(t) => s = t
    BY DEF KeyOf
  <2>. QED  BY <2>1, <2>2 DEF NoOrphans
<1>9. Own(1) = txns
  BY <1>5 DEF Own
<1>10. Cardinality(txns) = Cardinality(f.rows)
  <2>. DEFINE trade == [row \in f.rows |-> [imp |-> 1, ext |-> row.ext, day |-> row.day]]
  <2>1. trade \in Surjection(f.rows, txns)
    BY Fun_IsSurj
  <2>2. \A a, b \in f.rows : trade[a] = trade[b] => a = b
    BY <1>1
  <2>3. trade \in Bijection(f.rows, txns)
    BY <2>1, <2>2, Fun_IsBij DEF Surjection
  <2>. HIDE DEF trade
  <2>. QED  BY <1>1, <2>3, FS_Bijection DEF ExistsBijection
<1>11. CountsOfFilesAreTrue
  BY <1>3, <1>4, <1>9, <1>10 DEF CountsOfFilesAreTrue
<1>. QED  BY <1>6, <1>7, <1>8, <1>11 DEF DataInv

LEMMA ImportInvInit ==
    Init => ImportInv
<1>. SUFFICES ASSUME Init
              PROVE  ImportInv
  OBVIOUS
<1>1. PageTypes
  <2>1. panel = [known |-> FALSE, error |-> FALSE, list |-> <<>>] /\ modal = Closed /\ call = Idle
    BY DEF Init
  <2>2. panel \in Panel /\ Len(panel.list) = 0
    BY <2>1 DEF Panel
  <2>3. Len(imports) \in Nat
    BY DEF Init
  <2>. QED  BY <2>1, <2>2, <2>3, PageConstants DEF PageTypes, ShowsOne, AsksOne, None
<1>2. CASE imports = <<>> /\ jobs = <<>> /\ txns = {}
  <2>1. DOMAIN imports = {} /\ Len(imports) = 0 /\ Len(jobs) = 0
        /\ imports \in Seq(Import) /\ jobs \in Seq(Job) /\ unchecked = {}
    BY <1>2 DEF Init
  <2>2. ImportTypes
    BY <1>2, <2>1, Constants_ DEF ImportTypes
  <2>. QED  BY <1>1, <1>2, <2>1, <2>2 DEF ImportInv, DataInv, WorkInv, NoOrphans, CountsOfFilesAreTrue
<1>3. ASSUME NEW f \in {g \in Files : g.rows # {} /\ {row.day : row \in g.rows} \subseteq Days},
             imports = <<Imported(f)>> /\ jobs = <<NoJob>>,
             txns = {[imp |-> 1, ext |-> row.ext, day |-> row.day] : row \in f.rows}
      PROVE  ImportInv
  <2>1. unchecked = {}
    BY DEF Init
  <2>. QED  BY <1>1, <1>3, <2>1, FirstImport DEF ImportInv
<1>. QED  BY <1>2, <1>3 DEF Init

\* The invariant of the imports: it is inductive.
THEOREM ImportsInvariant == Spec => []ImportInv
<1>. QED  BY ImportInvInit, ImportInvNext, PTL DEF Spec

\* Every variable keeps its type, and an import that a worker has in hand says
\* so, unless it was deleted meanwhile.
THEOREM ImportsTyped == Spec => []TypeOK
<1>1. ImportInv => TypeOK
  <2>. SUFFICES ASSUME ImportInv
                PROVE  TypeOK
    OBVIOUS
  <2>1. \A i \in DOMAIN imports : /\ imports[i].at \in {"pending", "processing", "deleted"} \cup Settled
                                  /\ jobs[i].at \in {"idle", "queued", "begun", "read", "gathered", "landed"}
    BY Entries DEF ImportInv, DataInv, Import, Job
  <2>2. \A i \in DOMAIN imports :
            jobs[i].at \in {"begun", "read", "gathered"} => imports[i].at \in {"processing", "deleted"}
    BY DEF ImportInv, DataInv, WorkInv, InHand
  <2>3. \A t \in txns : t.imp \in DOMAIN imports /\ t.day \in Days
    BY DEF ImportInv, DataInv, ImportTypes, Trade
  <2>4. Len(imports) <= MaxImports /\ DOMAIN jobs = DOMAIN imports /\ unchecked \subseteq Days
    BY Entries DEF ImportInv, DataInv, ImportTypes
  <2>5. Len(panel.list) <= Len(imports) /\ (modal.at = "importing" => modal.imp \in DOMAIN imports)
    BY DEF ImportInv, PageTypes, ShowsOne
  <2>. QED  BY <2>1, <2>2, <2>3, <2>4, <2>5 DEF TypeOK
<1>. QED  BY <1>1, ImportsInvariant, PTL

\* No trade is there twice, and none belongs to an import that was deleted, that
\* waits for a worker, or to a file that has not completed: whatever imports run
\* at the same time, fail, are delivered again or are deleted under the worker's
\* hands (import_csv, pull_api and delete_import).
THEOREM NoTradeIsOrphaned == Spec => []NoOrphans
<1>1. ImportInv => NoOrphans
  BY DEF ImportInv, DataInv
<1>. QED  BY <1>1, ImportsInvariant, PTL

\* The count a completed file shows is that of its transactions, as long as no
\* other file replaced some and no import was deleted.
THEOREM FilesCountTrue == Spec => []CountsOfFilesAreTrue
<1>1. ImportInv => CountsOfFilesAreTrue
  BY DEF ImportInv, DataInv
<1>. QED  BY <1>1, ImportsInvariant, PTL

\* An import completes only by its own commit.
LEMMA WhoLands ==
    ASSUME ImportInv, [Next]_vars, NEW i \in DOMAIN imports,
           jobs[i].at = "gathered", jobs'[i].at = "landed"
    PROVE  Land(i)
<1>1. jobs \in Seq(Job) /\ DOMAIN jobs = DOMAIN imports /\ DOMAIN imports = 1 .. Len(jobs)
      /\ Len(jobs) \in Nat
  BY Entries DEF ImportInv, DataInv, ImportTypes
<1>2. jobs' # jobs
  OBVIOUS
<1>3. ASSUME NEW x, NEW J \in Seq(Job), Len(J) = Len(jobs), jobs' = Append(J, x)
      PROVE  jobs'[i] = J[i]
  BY <1>1, <1>3
<1>4. ASSUME NEW j \in DOMAIN imports, Working(j)
      PROVE  Land(i)
  <2>1. CASE \E y : jobs' = [jobs EXCEPT ![j] = y] /\ y.at # "landed"
    BY <1>1, <2>1
  <2>2. CASE Begin(j) \/ Unreadable(j) \/ Abort(j) \/ Finish(j)
    <3>1. \E y \in {NoJob, Begun} : jobs' = [jobs EXCEPT ![j] = y]
      BY <2>2 DEF Begin, Unreadable, Abort, Finish
    <3>. QED  BY <2>1, <3>1, JobTypes
  <2>3. CASE ReadPrior(j)
    <3>. DEFINE before == {p \in DOMAIN imports \ {j} : /\ imports[p].at = "completed"
                                                        /\ imports[p].kind = imports[j].kind}
    <3>1. PICK file \in IF imports[j].kind = "csv_upload" THEN {imports[j].file} ELSE Feeds :
              jobs' = [jobs EXCEPT ![j] = [NoJob EXCEPT !.at = "read", !.file = file, !.prior = before]]
      BY <2>3 DEF ReadPrior
    <3>. HIDE DEF before
    <3>2. [NoJob EXCEPT !.at = "read", !.file = file, !.prior = before].at # "landed"
      BY DEF NoJob
    <3>. QED  BY <2>1, <3>1, <3>2
  <2>4. CASE Gather(j)
    <3>. DEFINE gone == Superseded(j)
                keys == {KeyOf(t) : t \in txns \ gone}
    <3>1. jobs' = [jobs EXCEPT ![j].at = "gathered", ![j].gone = gone, ![j].keys = keys]
      BY <2>4 DEF Gather
    <3>. HIDE DEF gone, keys
    <3>2. jobs[j] \in Job
      BY <1>1
    <3>3. jobs'[i].at = "gathered"
      BY <1>1, <3>1, <3>2 DEF Job
    <3>. QED  BY <3>3
  <2>5. CASE Land(j)
    <3>1. jobs' = [jobs EXCEPT ![j] = [NoJob EXCEPT !.at = "landed"]]
      BY <2>5 DEF Land
    <3>2. j = i
      BY <1>1, <3>1
    <3>. QED  BY <2>5, <3>2
  <2>6. CASE Redeliver(j)
    <3>1. CASE jobs' = [jobs EXCEPT ![j] = Queued]
      BY <2>1, <3>1, JobTypes
    <3>2. CASE jobs' = Append([jobs EXCEPT ![j] = NoJob], Begun)
      <4>. DEFINE J == [jobs EXCEPT ![j] = NoJob]
      <4>1. J \in Seq(Job) /\ Len(J) = Len(jobs) /\ J[i] \in {jobs[i], NoJob}
        BY <1>1, JobTypes, ExceptSeq
      <4>. HIDE DEF J
      <4>. QED  BY <1>3, <3>2, <4>1, JobTypes DEF J
    <3>. QED  BY <2>6, <3>1, <3>2 DEF Redeliver
  <2>. QED  BY <1>4, <2>2, <2>3, <2>4, <2>5, <2>6 DEF Working
<1>5. CASE ScheduledPull
  <2>1. jobs' = Append(jobs, Begun)
    BY <1>5 DEF ScheduledPull
  <2>. QED  BY <1>1, <1>3, <2>1
<1>6. CASE Serve
  <2>1. jobs' = Append(jobs, Queued)
    BY <1>2, <1>6 DEF Serve, ImportCsv, PullSource, DeleteImport, Refuse, Accept
  <2>. QED  BY <1>1, <1>3, <2>1
<1>. QED  BY <1>2, <1>4, <1>5, <1>6, WhoChangesData

\* An import that completes deletes only trades of its own source, and only on
\* the dates of its own rows when it has any: those it decided on when it read
\* the imports before it, whatever has committed or was deleted since
\* (_supersede_prior and the commit of import_csv and pull_api).
THEOREM ReplacesOnlyItsOwn == Spec => OnlySuperseded
<1>1. ImportInv /\ [Next]_vars =>
          \A i \in DOMAIN imports : jobs[i].at = "gathered" /\ jobs'[i].at = "landed" =>
              \A t \in txns \ txns' :
                  /\ imports[t.imp].kind = imports[i].kind
                  /\ jobs[i].file.rows # {} => \E row \in jobs[i].file.rows : Day(i, row) = t.day
  <2>. SUFFICES ASSUME ImportInv, [Next]_vars, NEW i \in DOMAIN imports,
                       jobs[i].at = "gathered", jobs'[i].at = "landed", NEW t \in txns \ txns'
                PROVE  /\ imports[t.imp].kind = imports[i].kind
                       /\ jobs[i].file.rows # {} => \E row \in jobs[i].file.rows : Day(i, row) = t.day
    OBVIOUS
  <2>1. t \in jobs[i].gone
    BY WhoLands DEF Land
  <2>2. Replaces(i)
    BY DEF ImportInv, DataInv, WorkInv
  <2>3. imports[t.imp].kind = imports[i].kind
    BY <2>1, <2>2 DEF Replaces
  <2>4. t.day \in Covered(imports[i].day, jobs[i].file)
    BY <2>1, <2>2 DEF Replaces
  <2>. QED  BY <2>3, <2>4 DEF Covered, Day
<1>. QED  BY <1>1, ImportsInvariant, PTL DEF Spec, OnlySuperseded
=============================================================================
