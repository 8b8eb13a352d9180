------------------------- MODULE MediaImportProofs --------------------------
(***************************************************************************)
(* Proofs about MediaImport for any number of importers, editors, sources  *)
(* and media: a failed import leaves the catalog or the source registry as it*)
(* found them, or as another one, met while it ran, has left them.         *)
(***************************************************************************)
EXTENDS MediaImport, FiniteSetTheorems, WellFoundedInduction, TLAPS

\* A record with the fields of a job.
IsJob(j) ==
  j = [f \in {"stage", "plan", "read", "fetched", "good", "bad", "on", "merged", "raw", "single",
               "original", "before", "alone"} |-> j[f]]

\* Finitely many items of which no source has more than the limit allows.
Sparse(items) ==
  /\ DOMAIN items \subseteq Nat /\ IsFiniteSet(DOMAIN items)
  /\ \A k \in DOMAIN items :
       Cardinality({j \in DOMAIN items : items[j] = items[k] /\ j > k}) < Limit

-----------------------------------------------------------------------------
(* What an import writes.                                                   *)

LEMMA BalancedIsSparse ==
  ASSUME NEW items, DOMAIN items \subseteq Nat, IsFiniteSet(DOMAIN items), NEW on
  PROVE  Sparse(Balanced(items, on))
<1> DEFINE listed == IF on = {} THEN items ELSE Of(items, on)
           Newer(k) == {j \in DOMAIN listed : listed[j] = listed[k] /\ j > k}
           keys == {k \in DOMAIN listed : Cardinality(Newer(k)) < Limit}
           kept == [k \in keys |-> listed[k]]
<1>1. Balanced(items, on) = kept
  BY DEF Balanced
<1>2. DOMAIN listed \subseteq DOMAIN items
  BY DEF Of
<1>3. DOMAIN listed \subseteq Nat /\ IsFiniteSet(DOMAIN listed)
  <2> HIDE DEF listed
  <2> QED
    BY <1>2, FS_Subset
<1> HIDE DEF listed
<1>4. keys \subseteq Nat /\ IsFiniteSet(keys)
  BY <1>3, FS_Subset
<1>5. ASSUME NEW k \in keys
      PROVE  Cardinality({j \in keys : kept[j] = kept[k] /\ j > k}) < Limit
  <2> DEFINE N == {j \in keys : kept[j] = kept[k] /\ j > k}
  <2>1. N \subseteq Newer(k)
    OBVIOUS
  <2>2. IsFiniteSet(Newer(k)) /\ Newer(k) \subseteq DOMAIN listed
    BY <1>3, FS_Subset
  <2>3. Cardinality(N) <= Cardinality(Newer(k)) /\ IsFiniteSet(N)
    BY <2>1, <2>2, FS_Subset
  <2>4. Cardinality(Newer(k)) < Limit
    OBVIOUS
  <2>5. Cardinality(N) \in Nat /\ Cardinality(Newer(k)) \in Nat /\ Limit \in Nat
    BY <2>2, <2>3, FS_CardinalityType, MediaAssumption
  <2> HIDE DEF N, Newer
  <2> QED
    BY <2>3, <2>4, <2>5 DEF N
<1>6. DOMAIN kept = keys
  OBVIOUS
<1> HIDE DEF kept, keys
<1> QED
  BY <1>1, <1>4, <1>5, <1>6 DEF Sparse

\* What the job of an import has read and fetched.
Collected(j) ==
  /\ Sparse(j.read)
  /\ DOMAIN j.fetched \subseteq Nat /\ IsFiniteSet(DOMAIN j.fetched)
  /\ \A k \in DOMAIN j.fetched : j.fetched[k] \in j.good

LEMMA JoinedForm ==
  ASSUME NEW j, Collected(j)
  PROVE  LET joined == Over(Except(j.read, j.good), j.fetched)
         IN  /\ DOMAIN joined = DOMAIN Except(j.read, j.good) \cup DOMAIN j.fetched
             /\ DOMAIN joined \subseteq Nat /\ IsFiniteSet(DOMAIN joined)
             /\ \A k \in DOMAIN joined :
                  joined[k] = IF k \in DOMAIN Except(j.read, j.good) THEN j.read[k] ELSE j.fetched[k]
<1> DEFINE kept == Except(j.read, j.good)
           joined == Over(kept, j.fetched)
<1>1. DOMAIN kept \subseteq DOMAIN j.read /\ \A k \in DOMAIN kept : kept[k] = j.read[k]
  BY DEF Except
<1>2. DOMAIN kept \subseteq Nat /\ IsFiniteSet(DOMAIN kept)
  <2> HIDE DEF kept
  <2> QED
    BY <1>1, FS_Subset DEF Collected, Sparse
<1> HIDE DEF kept
<1>3. /\ DOMAIN joined = DOMAIN kept \cup DOMAIN j.fetched
      /\ \A k \in DOMAIN joined : joined[k] = IF k \in DOMAIN kept THEN kept[k] ELSE j.fetched[k]
  BY DEF Over
<1> HIDE DEF joined
<1>4. IsFiniteSet(DOMAIN kept \cup DOMAIN j.fetched)
  BY <1>2, FS_Union DEF Collected
<1> QED
  BY <1>1, <1>2, <1>3, <1>4 DEF Collected, kept, joined

LEMMA MergedIsSparse ==
  ASSUME NEW j, Collected(j), NEW on
  PROVE  Sparse(Merged(j, on))
BY JoinedForm, BalancedIsSparse DEF Merged

\* The items of a source that did not answer, and is enabled, survive the merge.
LEMMA MergedKeeps ==
  ASSUME NEW j, Collected(j), NEW on, NEW k \in DOMAIN j.read, j.read[k] \in on \ j.good
  PROVE  k \in DOMAIN Merged(j, on) /\ Merged(j, on)[k] = j.read[k]
<1> DEFINE kept == Except(j.read, j.good)
           joined == Over(kept, j.fetched)
           listed == Of(joined, on)
           Newer == {i \in DOMAIN listed : listed[i] = listed[k] /\ i > k}
           Behind == {i \in DOMAIN j.read : j.read[i] = j.read[k] /\ i > k}
<1>1. k \in DOMAIN kept /\ DOMAIN kept \subseteq DOMAIN j.read
  BY DEF Except
<1>2. /\ DOMAIN joined = DOMAIN kept \cup DOMAIN j.fetched
      /\ \A i \in DOMAIN joined : joined[i] = IF i \in DOMAIN kept THEN j.read[i] ELSE j.fetched[i]
  BY JoinedForm
<1> HIDE DEF kept, joined
<1>3. k \in DOMAIN joined /\ joined[k] = j.read[k]
  BY <1>1, <1>2
<1>4. /\ DOMAIN listed \subseteq DOMAIN joined /\ k \in DOMAIN listed
      /\ \A i \in DOMAIN listed : listed[i] = joined[i]
  BY <1>3 DEF Of
<1> HIDE DEF listed
<1>5. Newer \subseteq Behind
  <2> SUFFICES ASSUME NEW i \in Newer PROVE i \in Behind
    OBVIOUS
  <2>1. i \in DOMAIN joined /\ joined[i] = j.read[k] /\ i > k
    BY <1>3, <1>4
  <2>2. i \in DOMAIN kept
    BY <1>2, <2>1 DEF Collected
  <2> QED
    BY <1>1, <1>2, <2>1, <2>2
<1>6. IsFiniteSet(Behind) /\ Cardinality(Behind) < Limit
  <2>1. Behind \subseteq DOMAIN j.read /\ IsFiniteSet(DOMAIN j.read)
    BY DEF Collected, Sparse
  <2>2. IsFiniteSet(Behind)
    <3> HIDE DEF Behind
    <3> QED
      BY <2>1, FS_Subset
  <2> QED
    BY <2>2 DEF Collected, Sparse
<1>7. Cardinality(Newer) < Limit
  <2> HIDE DEF Newer, Behind
  <2>1. Cardinality(Newer) <= Cardinality(Behind) /\ IsFiniteSet(Newer)
    BY <1>5, <1>6, FS_Subset
  <2>2. Cardinality(Newer) \in Nat /\ Cardinality(Behind) \in Nat /\ Limit \in Nat
    BY <1>6, <2>1, FS_CardinalityType, MediaAssumption
  <2> QED
    BY <1>6, <2>1, <2>2
<1>8. on # {}
  OBVIOUS
<1>9. Merged(j, on) = Balanced(joined, on)
  BY DEF Merged, joined, kept
<1>10. Balanced(joined, on) =
        [i \in {i \in DOMAIN listed : Cardinality({m \in DOMAIN listed : listed[m] = listed[i] /\ m > i}) < Limit}
           |-> listed[i]]
  BY <1>8 DEF Balanced, listed
<1> QED
  BY <1>3, <1>4, <1>7, <1>9, <1>10

-----------------------------------------------------------------------------
(* The invariant.  A job that means to write the catalogue merged what it   *)
(* read and fetched; an import of one source that nobody disturbed keeps    *)
(* the registry as it found it.                                             *)

Sane(j, reg) ==
  /\ IsJob(j) /\ j.single \in BOOLEAN /\ j.alone \in BOOLEAN
  /\ Collected(j)
  /\ j.stage = "write" => j.merged = Merged(j, j.on)
  /\ j.stage \in {"original", "select", "plan", "restore"} => j.single
  /\ j.single => j.stage # "idle"
  /\ j.single /\ j.alone => IF j.stage = "original" THEN reg = j.before ELSE j.original = j.before

MediaInv ==
  /\ Sparse(catalog)
  /\ job = [p \in Importers |-> job[p]]
  /\ \A p \in Importers : Sane(job[p], registry)

LEMMA IdleIsSane ==
  ASSUME NEW reg
  PROVE  Sane(Idle, reg)
<1>1. /\ IsJob(Idle) /\ Idle.single = FALSE /\ Idle.alone = TRUE /\ Idle.stage = "idle"
      /\ Idle.read = <<>> /\ Idle.fetched = <<>>
  BY DEF IsJob, Idle
<1>2. DOMAIN <<>> = {} /\ IsFiniteSet({})
  BY FS_EmptySet
<1>3. Collected(Idle)
  BY <1>1, <1>2 DEF Collected, Sparse
<1> HIDE DEF Idle
<1> QED
  BY <1>1, <1>3 DEF Sane

LEMMA CutIsSane ==
  ASSUME NEW reg
  PROVE  Sane(Cut, reg)
<1>1. PICK j : j = Idle /\ Sane(j, reg) /\ IsJob(j)
  BY IdleIsSane DEF Sane
<1>2. PICK k : k = [j EXCEPT !.stage = "cut"] /\ k = Cut
  BY <1>1 DEF Cut
<1>3. /\ IsJob(k) /\ k.stage = "cut" /\ k.single = j.single /\ k.alone = j.alone
      /\ k.read = j.read /\ k.fetched = j.fetched /\ k.good = j.good
  BY <1>1, <1>2 DEF IsJob
<1>4. j.single = FALSE
  BY <1>1 DEF Idle
<1>5. Collected(k)
  BY <1>1, <1>3 DEF Sane, Collected
<1>6. Sane(k, reg)
  <2>1. j.alone \in BOOLEAN
    BY <1>1 DEF Sane
  <2> QED
    BY <1>3, <1>4, <1>5, <2>1 DEF Sane
<1> QED
  BY <1>2, <1>6

LEMMA AloneSet ==
  ASSUME NEW j, IsJob(j), NEW v
  PROVE  LET k == [j EXCEPT !.alone = v]
         IN  /\ IsJob(k) /\ k.alone = v /\ k.stage = j.stage /\ k.single = j.single
             /\ k.read = j.read /\ k.fetched = j.fetched /\ k.good = j.good
             /\ k.on = j.on /\ k.merged = j.merged
BY DEF IsJob

\* Somebody else's write of the registry.
LEMMA DisturbedIsSane ==
  ASSUME NEW j, NEW reg, Sane(j, reg), NEW other
  PROVE  Sane([j EXCEPT !.alone = FALSE], other)
<1> DEFINE k == [j EXCEPT !.alone = FALSE]
<1>1. /\ IsJob(k) /\ k.alone = FALSE /\ k.stage = j.stage /\ k.single = j.single
      /\ k.read = j.read /\ k.fetched = j.fetched /\ k.good = j.good
      /\ k.on = j.on /\ k.merged = j.merged
  BY AloneSet DEF Sane
<1> HIDE DEF k
<1>2. Collected(k) /\ (Merged(k, k.on) = Merged(j, j.on))
  BY <1>1 DEF Sane, Collected, Merged
<1>3. Sane(k, other)
  BY <1>1, <1>2 DEF Sane
<1> QED
  BY <1>3 DEF k

\* One job changes, and the others are not disturbed or are.
LEMMA OneJob ==
  ASSUME MediaInv, NEW p \in Importers, NEW j, job' = [job EXCEPT ![p] = j], Sparse(catalog)',
         registry' = registry, Sane(j, registry)
  PROVE  MediaInv'
<1>1. job' = [q \in Importers |-> job'[q]] /\ \A q \in Importers : job'[q] = IF q = p THEN j ELSE job[q]
  BY DEF MediaInv
<1>2. \A q \in Importers : Sane(job'[q], registry')
  BY <1>1 DEF MediaInv
<1> QED
  BY <1>1, <1>2 DEF MediaInv

LEMMA OthersDisturbed ==
  ASSUME MediaInv, NEW p, NEW jobs, jobs = [q \in Importers |-> jobs[q]],
         \A q \in Importers : q # p => jobs[q] = job[q],
         job' = Disturbed(p, jobs), catalog' = catalog,
         p \in Importers => Sane(jobs[p], registry')
  PROVE  MediaInv'
<1>1. \A q \in Importers :
        job'[q] = IF q # p /\ jobs[q].single THEN [jobs[q] EXCEPT !.alone = FALSE] ELSE jobs[q]
  BY DEF Disturbed
<1>2. job' = [q \in Importers |-> job'[q]]
  BY DEF Disturbed
<1>3. ASSUME NEW q \in Importers PROVE Sane(job'[q], registry')
  <2>1. CASE q = p
    BY <1>1, <2>1
  <2>2. CASE q # p
    <3>1. Sane(job[q], registry) /\ jobs[q] = job[q]
      BY <2>2 DEF MediaInv
    <3>2. CASE job[q].single
      <4>1. job'[q] = [job[q] EXCEPT !.alone = FALSE]
        BY <1>1, <2>2, <3>1, <3>2
      <4> QED
        BY <3>1, <4>1, DisturbedIsSane
    <3>3. CASE ~job[q].single
      <4>1. job'[q] = job[q]
        BY <1>1, <3>1, <3>3
      <4> QED
        BY <3>1, <3>3, <4>1 DEF Sane
    <3> QED
      BY <3>2, <3>3
  <2> QED
    BY <2>1, <2>2
<1>4. Sparse(catalog)'
  BY DEF MediaInv, Sparse
<1> QED
  BY <1>2, <1>3, <1>4 DEF MediaInv

\* The end of an import.
LEMMA EndedForm ==
  ASSUME MediaInv, NEW p \in Importers, NEW reg, job[p].stage # "original"
  PROVE  \E j : /\ Ended(p) = [job EXCEPT ![p] = j]
                /\ Sane(j, reg)
                /\ j.stage \in {"idle", "restore"}
<1> DEFINE k == [job[p] EXCEPT !.stage = "restore"]
           j == IF job[p].single THEN k ELSE Idle
<1>1. Ended(p) = [job EXCEPT ![p] = j]
  BY DEF Ended, MediaInv
<1>2. Sane(job[p], registry)
  BY DEF MediaInv
<1>3. /\ IsJob(k) /\ k.stage = "restore" /\ k.alone = job[p].alone /\ k.single = job[p].single
      /\ k.read = job[p].read /\ k.fetched = job[p].fetched /\ k.good = job[p].good
      /\ k.original = job[p].original /\ k.before = job[p].before
  BY <1>2 DEF Sane, IsJob
<1>4. job[p].single => Sane(k, reg)
  <2> HIDE DEF k
  <2>1. Collected(k)
    BY <1>2, <1>3 DEF Sane, Collected
  <2> QED
    BY <1>2, <1>3, <2>1 DEF Sane
<1>5. Sane(Idle, reg) /\ Idle.stage = "idle"
  BY IdleIsSane DEF Idle
<1>6. Sane(j, reg) /\ j.stage \in {"idle", "restore"}
  <2> HIDE DEF k
  <2> QED
    BY <1>3, <1>4, <1>5
<1> HIDE DEF j
<1> QED
  BY <1>1, <1>6

-----------------------------------------------------------------------------
(* The steps of an import.                                                  *)

\* A job whose stage, plan and list of sources change, but not what it collected.
LEMMA Moved ==
  ASSUME NEW j, NEW k, NEW reg, Sane(j, reg), IsJob(k),
         k.read = j.read, k.fetched = j.fetched, k.good = j.good,
         k.single = j.single, k.alone = j.alone, k.before = j.before,
         k.original = j.original, j.stage # "original", k.stage \notin {"original", "write", "idle"},
         k.stage \in {"select", "plan", "restore"} => j.single
  PROVE  Sane(k, reg)
<1>1. Collected(k)
  BY DEF Sane, Collected
<1> QED
  BY <1>1 DEF Sane

LEMMA StartsKeep ==
  ASSUME MediaInv, NEW p \in Importers, Import(p) \/ Select(p)
  PROVE  MediaInv'
<1>1. PICK j : j = Idle /\ Sane(j, registry) /\ IsJob(j)
  BY IdleIsSane DEF Sane
<1>2. registry' = registry /\ catalog' = catalog
  BY DEF Import, Select
<1>3. Sparse(catalog)'
  BY <1>2 DEF MediaInv, Sparse
<1>4. ASSUME Import(p) PROVE MediaInv'
  <2>1. PICK filter \in Filters : Plan(p, Idle, filter)
    BY <1>4 DEF Import
  <2> DEFINE plan == SelectSeq(registry, LAMBDA s : s.enabled /\ s.id \in filter)
  <2>2. PICK k : k = [[j EXCEPT !.plan = plan] EXCEPT !.stage = "catalog"] /\ job' = [job EXCEPT ![p] = k]
    BY <1>1, <2>1 DEF Plan, Goto
  <2> HIDE DEF plan
  <2>3. /\ IsJob(k) /\ k.read = j.read /\ k.fetched = j.fetched /\ k.good = j.good
        /\ k.single = j.single /\ k.alone = j.alone /\ k.before = j.before
        /\ k.original = j.original /\ k.stage = "catalog"
    BY <1>1, <2>2 DEF IsJob
  <2>4. j.stage # "original"
    BY <1>1 DEF Idle
  <2>5. Sane(k, registry)
    BY <1>1, <2>3, <2>4, Moved
  <2> QED
    BY <1>2, <1>3, <2>2, <2>5, OneJob
<1>5. ASSUME Select(p) PROVE MediaInv'
  <2>1. PICK s \in Ids(registry) :
          Goto(p, [Idle EXCEPT !.single = TRUE, !.before = registry,
                               !.raw = Flagged(registry, LAMBDA r : r.id = s)], "original")
    BY <1>5 DEF Select
  <2> DEFINE raw == Flagged(registry, LAMBDA r : r.id = s)
  <2>2. PICK k : /\ k = [[j EXCEPT !.single = TRUE, !.before = registry, !.raw = raw] EXCEPT !.stage = "original"]
                 /\ job' = [job EXCEPT ![p] = k]
    BY <1>1, <2>1 DEF Goto
  <2> HIDE DEF raw
  <2>4. /\ IsJob(k) /\ k.single = TRUE /\ k.before = registry /\ k.stage = "original"
        /\ k.read = j.read /\ k.fetched = j.fetched /\ k.good = j.good
        /\ k.alone = j.alone
    BY <1>1, <2>2 DEF IsJob
  <2>5. Collected(k)
    BY <1>1, <2>4 DEF Sane, Collected
  <2>6. Sane(k, registry)
    BY <1>1, <2>4, <2>5 DEF Sane
  <2> QED
    BY <1>2, <1>3, <2>2, <2>6, OneJob
<1> QED
  BY <1>4, <1>5

LEMMA ReadsKeep ==
  ASSUME MediaInv, NEW p \in Importers,
         ReadCatalog(p) \/ ReadSources(p) \/ ReadOriginal(p) \/ PlanSelected(p)
  PROVE  MediaInv'
<1>1. PICK j : j = job[p] /\ Sane(j, registry) /\ IsJob(j)
  BY DEF MediaInv, Sane
<1>2. registry' = registry /\ catalog' = catalog
  BY DEF ReadCatalog, ReadSources, ReadOriginal, PlanSelected
<1>3. Sparse(catalog) /\ Sparse(catalog)'
  BY <1>2 DEF MediaInv, Sparse
<1>4. ASSUME ReadCatalog(p) PROVE MediaInv'
  <2>1. PICK k : /\ k = [[j EXCEPT !.read = catalog] EXCEPT !.stage = "fetch"]
                 /\ job' = [job EXCEPT ![p] = k] /\ j.stage = "catalog"
    BY <1>1, <1>4 DEF ReadCatalog, Goto, At
  <2>2. /\ IsJob(k) /\ k.read = catalog /\ k.fetched = j.fetched /\ k.good = j.good
        /\ k.single = j.single /\ k.alone = j.alone /\ k.before = j.before
        /\ k.original = j.original /\ k.stage = "fetch"
    BY <1>1, <2>1 DEF IsJob
  <2>3. Collected(k)
    BY <1>1, <1>3, <2>2 DEF Sane, Collected
  <2>4. Sane(k, registry)
    BY <1>1, <2>1, <2>2, <2>3 DEF Sane
  <2> QED
    BY <1>2, <1>3, <2>1, <2>4, OneJob
<1>5. ASSUME ReadSources(p) PROVE MediaInv'
  <2>1. PICK k : /\ k = [[j EXCEPT !.raw = registry] EXCEPT !.stage = "save"]
                 /\ job' = [job EXCEPT ![p] = k] /\ j.stage = "sources"
    BY <1>1, <1>5 DEF ReadSources, Goto, At
  <2>2. /\ IsJob(k) /\ k.read = j.read /\ k.fetched = j.fetched /\ k.good = j.good
        /\ k.single = j.single /\ k.alone = j.alone /\ k.before = j.before
        /\ k.original = j.original /\ k.stage = "save"
    BY <1>1, <2>1 DEF IsJob
  <2>3. Sane(k, registry)
    BY <1>1, <2>1, <2>2, Moved
  <2> QED
    BY <1>2, <1>3, <2>1, <2>3, OneJob
<1>6. ASSUME ReadOriginal(p) PROVE MediaInv'
  <2>1. PICK k : /\ k = [[j EXCEPT !.original = registry] EXCEPT !.stage = "select"]
                 /\ job' = [job EXCEPT ![p] = k] /\ j.stage = "original"
    BY <1>1, <1>6 DEF ReadOriginal, Goto, At
  <2>2. /\ IsJob(k) /\ k.read = j.read /\ k.fetched = j.fetched /\ k.good = j.good
        /\ k.single = j.single /\ k.alone = j.alone /\ k.before = j.before
        /\ k.original = registry /\ k.stage = "select"
    BY <1>1, <2>1 DEF IsJob
  <2>3. Collected(k)
    BY <1>1, <2>2 DEF Sane, Collected
  <2>4. Sane(k, registry)
    BY <1>1, <2>1, <2>2, <2>3 DEF Sane
  <2> QED
    BY <1>2, <1>3, <2>1, <2>4, OneJob
<1>7. ASSUME PlanSelected(p) PROVE MediaInv'
  <2> DEFINE plan == SelectSeq(registry, LAMBDA s : s.enabled /\ s.id \in Sources)
  <2>1. PICK k : /\ k = [[j EXCEPT !.plan = plan] EXCEPT !.stage = "catalog"]
                 /\ job' = [job EXCEPT ![p] = k] /\ j.stage = "plan"
    BY <1>1, <1>7 DEF PlanSelected, Plan, Goto, At
  <2> HIDE DEF plan
  <2>2. /\ IsJob(k) /\ k.read = j.read /\ k.fetched = j.fetched /\ k.good = j.good
        /\ k.single = j.single /\ k.alone = j.alone /\ k.before = j.before
        /\ k.original = j.original /\ k.stage = "catalog"
    BY <1>1, <2>1 DEF IsJob
  <2>3. Sane(k, registry)
    BY <1>1, <2>1, <2>2, Moved
  <2> QED
    BY <1>2, <1>3, <2>1, <2>3, OneJob
<1> QED
  BY <1>4, <1>5, <1>6, <1>7

LEMMA FetchKeeps ==
  ASSUME MediaInv, NEW p \in Importers, Fetch(p)
  PROVE  MediaInv'
<1>1. PICK j : j = job[p] /\ Sane(j, registry) /\ IsJob(j)
  BY DEF MediaInv, Sane
<1>2. registry' = registry /\ Sparse(catalog)' /\ j.stage = "fetch"
  BY <1>1 DEF Fetch, MediaInv, Sparse, At
<1> DEFINE s == Head(j.plan).id
           rest == Tail(j.plan)
<1>3. CASE Goto(p, [[j EXCEPT !.plan = rest] EXCEPT !.bad = @ \cup {s}], "fetch")
  <2>1. PICK bad : bad = [j EXCEPT !.plan = rest].bad \cup {s}
    OBVIOUS
  <2>2. PICK k : /\ k = [[[j EXCEPT !.plan = rest] EXCEPT !.bad = bad] EXCEPT !.stage = "fetch"]
                 /\ job' = [job EXCEPT ![p] = k]
    BY <1>3, <2>1 DEF Goto
  <2> HIDE DEF s, rest
  <2>3. /\ IsJob(k) /\ k.read = j.read /\ k.fetched = j.fetched /\ k.good = j.good
        /\ k.single = j.single /\ k.alone = j.alone /\ k.before = j.before
        /\ k.original = j.original /\ k.stage = "fetch"
    BY <1>1, <2>2 DEF IsJob
  <2>4. Sane(k, registry)
    BY <1>1, <1>2, <2>3, Moved
  <2> QED
    BY <1>2, <2>2, <2>4, OneJob
<1>4. ASSUME NEW keys \in SUBSET Keys, IsFiniteSet(keys),
             Goto(p, [[j EXCEPT !.plan = rest] EXCEPT !.good = @ \cup {s},
                          !.fetched = Over([k \in keys |-> s], @)], "fetch")
      PROVE  MediaInv'
  <2> DEFINE new == [k \in keys |-> s]
  <2>1. PICK i : i = [j EXCEPT !.plan = rest]
    OBVIOUS
  <2>2. PICK good, fetched : good = i.good \cup {s} /\ fetched = Over(new, i.fetched)
    OBVIOUS
  <2>3. i.good = j.good /\ i.fetched = j.fetched
    <3> HIDE DEF s, rest, new
    <3> QED
      BY <1>1, <2>1 DEF IsJob
  <2>4. PICK k : /\ k = [[i EXCEPT !.good = good, !.fetched = fetched] EXCEPT !.stage = "fetch"]
                 /\ job' = [job EXCEPT ![p] = k]
    BY <1>4, <2>1, <2>2 DEF Goto
  <2>5. /\ IsJob(k) /\ k.read = j.read /\ k.fetched = fetched /\ k.good = good
        /\ k.single = j.single /\ k.alone = j.alone /\ k.before = j.before
        /\ k.original = j.original /\ k.stage = "fetch"
    <3> HIDE DEF s, rest, new
    <3>1. /\ IsJob(i) /\ i.read = j.read /\ i.single = j.single /\ i.alone = j.alone
          /\ i.before = j.before /\ i.original = j.original
      BY <1>1, <2>1 DEF IsJob
    <3> QED
      BY <2>4, <3>1 DEF IsJob
  <2>6. /\ DOMAIN fetched = keys \cup DOMAIN j.fetched
        /\ \A m \in DOMAIN fetched : fetched[m] = IF m \in keys THEN s ELSE j.fetched[m]
    BY <2>2, <2>3 DEF Over
  <2>7. keys \subseteq Nat /\ IsFiniteSet(keys \cup DOMAIN j.fetched)
    BY <1>1, <1>4, FS_Union, MediaAssumption DEF Sane, Collected
  <2> HIDE DEF s, new
  <2>8. /\ DOMAIN fetched \subseteq Nat /\ IsFiniteSet(DOMAIN fetched)
        /\ \A m \in DOMAIN fetched : fetched[m] \in good
    BY <1>1, <2>2, <2>3, <2>6, <2>7 DEF Sane, Collected
  <2>9. Collected(k)
    BY <1>1, <2>5, <2>8 DEF Sane, Collected
  <2>10. Sane(k, registry)
    BY <1>1, <1>2, <2>5, <2>9 DEF Sane
  <2> QED
    BY <1>2, <2>4, <2>10, OneJob
<1> QED
  BY <1>1, <1>3, <1>4 DEF Fetch

LEMMA MergeKeeps ==
  ASSUME MediaInv, NEW p \in Importers, Merge(p)
  PROVE  MediaInv'
<1>1. PICK j : j = job[p] /\ Sane(j, registry) /\ IsJob(j)
  BY DEF MediaInv, Sane
<1>2. registry' = registry /\ Sparse(catalog)' /\ j.stage = "fetch"
  BY <1>1 DEF Merge, MediaInv, Sparse, At
<1> DEFINE on == Enabled(registry)
           merged == Merged(j, on)
<1>3. CASE job' = Ended(p)
  <2>1. PICK k : Ended(p) = [job EXCEPT ![p] = k] /\ Sane(k, registry)
    BY <1>1, <1>2, EndedForm
  <2> QED
    BY <1>2, <1>3, <2>1, OneJob
<1>4. CASE Goto(p, [j EXCEPT !.on = on, !.merged = merged], "write")
  <2>1. PICK v, w : v = on /\ w = merged
    OBVIOUS
  <2>2. PICK k : /\ k = [[j EXCEPT !.on = v, !.merged = w] EXCEPT !.stage = "write"]
                 /\ job' = [job EXCEPT ![p] = k]
    BY <1>4, <2>1 DEF Goto
  <2> HIDE DEF on, merged
  <2>3. /\ IsJob(k) /\ k.read = j.read /\ k.fetched = j.fetched /\ k.good = j.good
        /\ k.single = j.single /\ k.alone = j.alone /\ k.before = j.before
        /\ k.original = j.original /\ k.stage = "write" /\ k.on = v /\ k.merged = w
    BY <1>1, <2>2 DEF IsJob
  <2>4. Collected(k) /\ Merged(k, k.on) = Merged(j, v)
    BY <1>1, <2>3 DEF Sane, Collected, Merged
  <2>5. Sane(k, registry)
    BY <1>1, <1>2, <2>1, <2>3, <2>4 DEF Sane, merged
  <2> QED
    BY <1>2, <2>2, <2>5, OneJob
<1> QED
  BY <1>1, <1>3, <1>4 DEF Merge

LEMMA WriteCatalogKeeps ==
  ASSUME MediaInv, NEW p \in Importers, WriteCatalog(p)
  PROVE  MediaInv'
<1>1. PICK j : j = job[p] /\ Sane(j, registry) /\ IsJob(j)
  BY DEF MediaInv, Sane
<1>2. registry' = registry /\ Sparse(catalog) /\ j.stage = "write"
  BY <1>1 DEF WriteCatalog, MediaInv, At
<1>3. CASE catalog' = j.merged /\ Goto(p, j, "sources")
  <2>1. Sparse(catalog)'
    <3>1. Sparse(j.merged)
      BY <1>1, <1>2, MergedIsSparse DEF Sane
    <3> QED
      BY <1>3, <3>1 DEF Sparse
  <2>2. PICK k : k = [j EXCEPT !.stage = "sources"] /\ job' = [job EXCEPT ![p] = k]
    BY <1>3 DEF Goto
  <2>3. /\ IsJob(k) /\ k.read = j.read /\ k.fetched = j.fetched /\ k.good = j.good
        /\ k.single = j.single /\ k.alone = j.alone /\ k.before = j.before
        /\ k.original = j.original /\ k.stage = "sources"
    BY <1>1, <2>2 DEF IsJob
  <2>4. Sane(k, registry)
    BY <1>1, <1>2, <2>3, Moved
  <2> QED
    BY <1>2, <2>1, <2>2, <2>4, OneJob
<1>4. CASE job' = Ended(p) /\ catalog' = catalog
  <2>1. PICK k : Ended(p) = [job EXCEPT ![p] = k] /\ Sane(k, registry)
    BY <1>1, <1>2, EndedForm
  <2>2. Sparse(catalog)'
    BY <1>2, <1>4 DEF Sparse
  <2> QED
    BY <1>2, <1>4, <2>1, <2>2, OneJob
<1> QED
  BY <1>1, <1>3, <1>4 DEF WriteCatalog

-----------------------------------------------------------------------------
(* The writes of the registry, and the death of the process.                *)

LEMMA SaveKeeps ==
  ASSUME MediaInv, NEW p \in Importers, SaveSources(p)
  PROVE  MediaInv'
<1>1. job[p].stage = "save" /\ catalog' = catalog
  BY DEF SaveSources, At
<1>2. PICK k : Ended(p) = [job EXCEPT ![p] = k] /\ Sane(k, registry')
  BY <1>1, EndedForm
<1>3. /\ Ended(p) = [q \in Importers |-> Ended(p)[q]] /\ Ended(p)[p] = k
      /\ \A q \in Importers : q # p => Ended(p)[q] = job[q]
  BY <1>2 DEF MediaInv
<1>4. CASE job' = Disturbed(p, Ended(p))
  BY <1>1, <1>2, <1>3, <1>4, OthersDisturbed
<1>5. CASE job' = Ended(p) /\ registry' = registry
  <2>1. Sparse(catalog)'
    BY <1>1 DEF MediaInv, Sparse
  <2> QED
    BY <1>2, <1>5, <2>1, OneJob
<1> QED
  BY <1>4, <1>5 DEF SaveSources

LEMMA WriteSelectedKeeps ==
  ASSUME MediaInv, NEW p \in Importers, WriteSelected(p)
  PROVE  MediaInv'
<1>1. PICK j : j = job[p] /\ Sane(j, registry) /\ IsJob(j)
  BY DEF MediaInv, Sane
<1>2. PICK k : k = [j EXCEPT !.stage = "plan"]
  OBVIOUS
<1> DEFINE jobs == [job EXCEPT ![p].stage = "plan"]
<1>3. j.stage = "select" /\ catalog' = catalog
  BY <1>1 DEF WriteSelected, At
<1>4. /\ jobs = [q \in Importers |-> jobs[q]] /\ jobs[p] = k
      /\ \A q \in Importers : q # p => jobs[q] = job[q]
  BY <1>1, <1>2 DEF MediaInv
<1>5. /\ IsJob(k) /\ k.read = j.read /\ k.fetched = j.fetched /\ k.good = j.good
      /\ k.single = j.single /\ k.alone = j.alone /\ k.before = j.before
      /\ k.original = j.original /\ k.stage = "plan"
  BY <1>1, <1>2 DEF IsJob
<1>6. Sane(k, registry)
  <2>1. j.single
    BY <1>1, <1>3 DEF Sane
  <2> QED
    BY <1>1, <1>3, <1>5, <2>1, Moved
<1>7. Sane(k, registry')
  BY <1>5, <1>6 DEF Sane
<1>8. CASE job' = Disturbed(p, jobs)
  <2> HIDE DEF jobs
  <2> QED
    BY <1>3, <1>4, <1>7, <1>8, OthersDisturbed
<1>9. CASE job' = Ended(p) /\ registry' = registry
  <2>1. PICK i : Ended(p) = [job EXCEPT ![p] = i] /\ Sane(i, registry)
    BY <1>1, <1>3, EndedForm
  <2>2. Sparse(catalog)'
    BY <1>3 DEF MediaInv, Sparse
  <2> QED
    BY <1>9, <2>1, <2>2, OneJob
<1> QED
  BY <1>8, <1>9 DEF WriteSelected

LEMMA RestoreKeeps ==
  ASSUME MediaInv, NEW p \in Importers, Restore(p)
  PROVE  MediaInv'
<1> DEFINE jobs == [job EXCEPT ![p] = Idle]
<1>1. catalog' = catalog
  BY DEF Restore
<1>2. /\ jobs = [q \in Importers |-> jobs[q]] /\ jobs[p] = Idle
      /\ \A q \in Importers : q # p => jobs[q] = job[q]
  BY DEF MediaInv
<1>3. Sane(jobs[p], registry')
  BY <1>2, IdleIsSane
<1>4. CASE job' = Disturbed(p, jobs)
  <2> HIDE DEF jobs
  <2> QED
    BY <1>1, <1>2, <1>3, <1>4, OthersDisturbed
<1>5. CASE job' = [job EXCEPT ![p] = Cut] /\ registry' = registry
  <2>1. Sparse(catalog)'
    BY <1>1 DEF MediaInv, Sparse
  <2> QED
    BY <1>5, <2>1, CutIsSane, OneJob
<1> QED
  BY <1>4, <1>5 DEF Restore

LEMMA EditsKeep ==
  ASSUME MediaInv, NEW e \in Editors, Edit(e) \/ WriteEdit(e)
  PROVE  MediaInv'
<1>1. CASE Edit(e)
  BY <1>1 DEF Edit, MediaInv, Sane, Sparse, Collected, Merged
<1>2. CASE WriteEdit(e)
  <2>1. catalog' = catalog /\ e \notin Importers
    BY <1>2, MediaAssumption DEF WriteEdit
  <2>2. CASE job' = Disturbed(e, job)
    BY <2>1, <2>2, OthersDisturbed DEF MediaInv
  <2>3. CASE registry' = registry /\ job' = job
    BY <2>1, <2>3 DEF MediaInv, Sane, Sparse, Collected, Merged
  <2> QED
    BY <1>2, <2>2, <2>3 DEF WriteEdit
<1> QED
  BY <1>1, <1>2

LEMMA CrashKeeps ==
  ASSUME MediaInv, Crash
  PROVE  MediaInv'
<1>1. /\ job' = [p \in Importers |-> IF Free(p) THEN job[p] ELSE Cut]
      /\ catalog' = catalog /\ registry' = registry
  BY DEF Crash
<1>2. \A p \in Importers : Sane(job'[p], registry')
  BY <1>1, CutIsSane DEF MediaInv
<1> QED
  BY <1>1, <1>2 DEF MediaInv, Sparse

LEMMA MediaStep == MediaInv /\ [Next]_vars => MediaInv'
<1> SUFFICES ASSUME MediaInv, [Next]_vars PROVE MediaInv'
  OBVIOUS
<1>1. ASSUME NEW p \in Importers, ImportStep(p) PROVE MediaInv'
  BY <1>1, StartsKeep, ReadsKeep, FetchKeeps, MergeKeeps, WriteCatalogKeeps, SaveKeeps,
     WriteSelectedKeeps, RestoreKeeps DEF ImportStep
<1>2. ASSUME NEW e \in Editors, Edit(e) \/ WriteEdit(e) PROVE MediaInv'
  BY <1>2, EditsKeep
<1>3. ASSUME Crash PROVE MediaInv'
  BY <1>3, CrashKeeps
<1>4. ASSUME UNCHANGED vars PROVE MediaInv'
  BY <1>4 DEF vars, MediaInv, Sane, Sparse, Collected, Merged
<1> QED
  BY <1>1, <1>2, <1>3, <1>4 DEF Next

LEMMA MediaStart == Init => MediaInv
<1> SUFFICES ASSUME Init PROVE MediaInv
  OBVIOUS
<1>1. catalog = <<>> /\ job = [p \in Importers |-> Idle]
  BY DEF Init
<1>2. DOMAIN <<>> = {} /\ IsFiniteSet({})
  BY FS_EmptySet
<1>3. Sparse(catalog)
  BY <1>1, <1>2 DEF Sparse
<1>4. \A p \in Importers : Sane(job[p], registry)
  BY <1>1, IdleIsSane
<1> QED
  BY <1>1, <1>3, <1>4 DEF MediaInv

-----------------------------------------------------------------------------
(* What the steps never do.                                                 *)

\* A step of one importer leaves another's job alone, or notes that it was met.
LEMMA OthersAtMostDisturbed ==
  ASSUME MediaInv, NEW p \in Importers, NEW q \in Importers, q # p, ImportStep(q)
  PROVE  job'[p] = job[p] \/ job'[p] = [job[p] EXCEPT !.alone = FALSE]
<1> DEFINE Same(jobs) == jobs[p] = job[p]
<1>1. \A v : Same([job EXCEPT ![q] = v])
  BY DEF MediaInv
<1>2. Same(Ended(q)) /\ Same([job EXCEPT ![q].stage = "plan"])
  BY DEF MediaInv, Ended
<1>3. ASSUME NEW jobs, Same(jobs), job' = Disturbed(q, jobs)
      PROVE  job'[p] = job[p] \/ job'[p] = [job[p] EXCEPT !.alone = FALSE]
  BY <1>3 DEF Disturbed
<1>4. ASSUME Import(q) \/ ReadCatalog(q) \/ Fetch(q) \/ Merge(q) \/ WriteCatalog(q) \/ ReadSources(q)
               \/ Select(q) \/ ReadOriginal(q) \/ PlanSelected(q)
      PROVE  Same(job')
  <2> HIDE DEF Same
  <2>1. \A k, stage : Goto(q, k, stage) => Same(job')
    BY <1>1 DEF Goto
  <2> QED
    BY <1>1, <1>2, <1>4, <2>1 DEF Import, ReadCatalog, Fetch, Merge, WriteCatalog, ReadSources,
       Select, ReadOriginal, PlanSelected, Plan
<1>5. ASSUME SaveSources(q) \/ WriteSelected(q) \/ Restore(q)
      PROVE  \E jobs : Same(jobs) /\ (job' = jobs \/ job' = Disturbed(q, jobs))
  <2> HIDE DEF Same
  <2> QED
    BY <1>1, <1>2, <1>5 DEF SaveSources, WriteSelected, Restore
<1> QED
  BY <1>3, <1>4, <1>5 DEF ImportStep

\* An import of one source is over only by its finally clause.
LEMMA OnlyRestoreEnds ==
  ASSUME MediaInv, NEW p \in Importers, job[p].single, job[p].stage # "idle", ImportStep(p),
         job'[p].stage = "idle"
  PROVE  Restore(p)
<1> PICK j : j = job[p]
  OBVIOUS
<1>1. "stage" \in DOMAIN j /\ j.single
  BY DEF MediaInv, Sane, IsJob
<1>2. ASSUME NEW k, NEW stage, "stage" \in DOMAIN k, stage # "idle", Goto(p, k, stage)
      PROVE  FALSE
  <2>1. job'[p] = [k EXCEPT !.stage = stage]
    BY <1>2 DEF Goto, MediaInv
  <2> QED
    BY <1>2, <2>1
<1>3. job' # Ended(p)
  <2>1. Ended(p)[p] = [j EXCEPT !.stage = "restore"]
    BY <1>1 DEF Ended, MediaInv
  <2> QED
    BY <1>1, <2>1
<1>4. ASSUME ReadCatalog(p) \/ ReadSources(p) \/ ReadOriginal(p) \/ PlanSelected(p) PROVE FALSE
  <2>1. PICK read, raw, original, plan :
          \/ Goto(p, [j EXCEPT !.read = read], "fetch") \/ Goto(p, [j EXCEPT !.raw = raw], "save")
          \/ Goto(p, [j EXCEPT !.original = original], "select")
          \/ Goto(p, [j EXCEPT !.plan = plan], "catalog")
    BY <1>4 DEF ReadCatalog, ReadSources, ReadOriginal, PlanSelected, Plan
  <2> QED
    BY <1>1, <1>2, <2>1
<1>5. ASSUME Import(p) \/ Select(p) PROVE FALSE
  <2>1. "stage" \in DOMAIN Idle
    BY DEF Idle
  <2> PICK i : i = Idle
    OBVIOUS
  <2>2. PICK plan, before, raw :
          \/ Goto(p, [i EXCEPT !.plan = plan], "catalog")
          \/ Goto(p, [i EXCEPT !.single = TRUE, !.before = before, !.raw = raw], "original")
    BY <1>5 DEF Import, Select, Plan
  <2> QED
    BY <1>2, <2>1, <2>2
<1>6. ASSUME Fetch(p) \/ Merge(p) \/ WriteCatalog(p) PROVE FALSE
  <2>1. PICK plan, good, bad, fetched, on, merged :
          \/ Goto(p, [[j EXCEPT !.plan = plan] EXCEPT !.bad = bad], "fetch")
          \/ Goto(p, [[j EXCEPT !.plan = plan] EXCEPT !.good = good, !.fetched = fetched], "fetch")
          \/ Goto(p, [j EXCEPT !.on = on, !.merged = merged], "write")
          \/ Goto(p, j, "sources")
    BY <1>3, <1>6 DEF Fetch, Merge, WriteCatalog
  <2> QED
    BY <1>1, <1>2, <2>1
<1>7. ASSUME SaveSources(p) \/ WriteSelected(p) PROVE FALSE
  <2>1. Disturbed(p, Ended(p))[p] = Ended(p)[p]
    BY DEF Disturbed
  <2>2. Ended(p)[p] = [j EXCEPT !.stage = "restore"]
    BY <1>1 DEF Ended, MediaInv
  <2>3. Disturbed(p, [job EXCEPT ![p].stage = "plan"])[p] = [j EXCEPT !.stage = "plan"]
    BY DEF Disturbed, MediaInv
  <2>4. job'[p] = [j EXCEPT !.stage = "restore"] \/ job'[p] = [j EXCEPT !.stage = "plan"]
    BY <1>7, <2>1, <2>2, <2>3 DEF SaveSources, WriteSelected
  <2> QED
    BY <1>1, <2>4
<1> QED
  BY <1>4, <1>5, <1>6, <1>7 DEF ImportStep

\* However imports, edits, failed writes and deaths of the process interleave: an import of
\* one source that nobody disturbed, and that neither died nor failed to write back, is over
\* only with the registry as it found it (import_source).
THEOREM SourcesRestored == Spec => Restored
<1> DEFINE Back == \A p \in Importers :
              job[p].single /\ job[p].alone /\ job'[p].stage = "idle" => registry' = job[p].before
<1>1. MediaInv /\ [Next]_vars => [Back]_vars
  <2> SUFFICES ASSUME MediaInv, Next, NEW p \in Importers,
                      job[p].single, job[p].alone, job'[p].stage = "idle"
               PROVE  registry' = job[p].before
    OBVIOUS
  <2> PICK j : j = job[p]
    OBVIOUS
  <2>1. Sane(j, registry) /\ IsJob(j) /\ j.stage # "idle" /\ j.single
    BY DEF MediaInv, Sane
  <2>2. job'[p] # j /\ job'[p] # [j EXCEPT !.alone = FALSE]
    <3>1. [j EXCEPT !.alone = FALSE].stage = j.stage
      BY <2>1, AloneSet
    <3> QED
      BY <2>1, <3>1
  <2>3. ASSUME NEW q \in Importers, ImportStep(q) PROVE registry' = job[p].before
    <3>1. q = p
      BY <2>2, <2>3, OthersAtMostDisturbed
    <3>2. Restore(p)
      BY <2>1, <2>3, <3>1, OnlyRestoreEnds
    <3>3. At(p, "restore") /\ job'[p] # Cut
      BY <3>2 DEF Restore, Cut, Idle
    <3>4. registry' = job[p].original
      BY <3>2, <3>3 DEF Restore, MediaInv
    <3> QED
      BY <2>1, <3>3, <3>4 DEF Sane, At
  <2>4. ASSUME NEW e \in Editors, Edit(e) \/ WriteEdit(e) PROVE FALSE
    <3>1. e # p
      BY MediaAssumption
    <3>2. job'[p] = j \/ job'[p] = [j EXCEPT !.alone = FALSE]
      BY <2>4, <3>1 DEF Edit, WriteEdit, Disturbed
    <3> QED
      BY <2>2, <3>2
  <2>5. ASSUME Crash PROVE FALSE
    <3>1. job'[p] = j \/ job'[p] = Cut
      BY <2>5 DEF Crash
    <3> QED
      BY <2>2, <3>1 DEF Cut, Idle
  <2> QED
    BY <2>3, <2>4, <2>5 DEF Next
<1> QED
  BY <1>1, MediaStart, MediaStep, PTL DEF Spec, Restored

\* However imports overlap and fail and the registry is edited: media of a source leave the
\* catalogue only by the write of an import that the source answered, that found it
\* disabled, or that had read the catalogue before another import wrote it (import_latest).
THEOREM MediaKeptOnFailure == Spec => KeptOnFailure
<1> DEFINE Kept == \A k \in DOMAIN catalog :
       \/ k \in DOMAIN catalog' /\ catalog'[k] = catalog[k]
       \/ \E p \in Importers :
            /\ At(p, "write") /\ job'[p].stage # "write"
            /\ catalog[k] \notin job[p].on \ job[p].good \/ job[p].read # catalog
<1>1. MediaInv /\ [Next]_vars => [Kept]_vars
  <2> SUFFICES ASSUME MediaInv, [Next]_vars, NEW k \in DOMAIN catalog,
                      ~(k \in DOMAIN catalog' /\ catalog'[k] = catalog[k])
               PROVE  \E p \in Importers :
                        /\ At(p, "write") /\ job'[p].stage # "write"
                        /\ catalog[k] \notin job[p].on \ job[p].good \/ job[p].read # catalog
    BY Zenon
  <2>1. catalog' # catalog
    OBVIOUS
  <2>2. PICK p \in Importers : WriteCatalog(p)
    BY <2>1 DEF Next, ImportStep, Import, ReadCatalog, Fetch, Merge, ReadSources, SaveSources, Select,
       ReadOriginal, WriteSelected, PlanSelected, Restore, Edit, WriteEdit, Crash, vars
  <2>3. Sane(job[p], registry)
    BY DEF MediaInv
  <2>4. catalog' = job[p].merged /\ Goto(p, job[p], "sources") /\ At(p, "write")
    BY <2>1, <2>2 DEF WriteCatalog
  <2>5. job'[p].stage # "write"
    <3> PICK j : j = job[p]
      OBVIOUS
    <3>1. job'[p] = [j EXCEPT !.stage = "sources"]
      BY <2>4 DEF Goto, MediaInv
    <3>2. job'[p].stage = "sources"
      BY <2>3, <3>1 DEF Sane, IsJob
    <3> QED
      BY <3>2
  <2>6. ASSUME catalog[k] \in job[p].on \ job[p].good, job[p].read = catalog
        PROVE  FALSE
    <3>1. job[p].merged = Merged(job[p], job[p].on) /\ Collected(job[p])
      BY <2>3, <2>4 DEF Sane, At
    <3>2. PICK j, on : j = job[p] /\ on = job[p].on
      OBVIOUS
    <3>3. Collected(j) /\ k \in DOMAIN j.read /\ j.read[k] \in on \ j.good
      BY <2>6, <3>1, <3>2
    <3>4. k \in DOMAIN Merged(j, on) /\ Merged(j, on)[k] = j.read[k]
      BY <3>3, MergedKeeps
    <3> QED
      BY <2>4, <2>6, <3>1, <3>2, <3>4
  <2> QED
    BY <2>4, <2>5, <2>6
<1> QED
  BY <1>1, MediaStart, MediaStep, PTL DEF Spec, KeptOnFailure

LEMMA LeastOf ==
  ASSUME NEW T, T \subseteq Nat, T # {}
  PROVE  \E m \in T : \A k \in T : m <= k
<1> DEFINE R == OpToRel(<, Nat)
<1>1. IsWellFoundedOn(R, Nat)
  BY NatLessThanWellFounded
<1>2. \A x, y \in Nat : x < y => <<x, y>> \in R
  BY DEF OpToRel
<1> HIDE DEF R
<1>3. PICK m \in T : \A k \in T : ~ (<<k, m>> \in R)
  BY <1>1, WFMin
<1>4. \A k \in T : ~(k < m)
  BY <1>2, <1>3
<1>5. \A k \in T : m <= k
  BY <1>4
<1> QED
  BY <1>5

\* What no source has more of than the limit behind each item, it has no more of at all.
LEMMA SparseIsLimited ==
  ASSUME NEW items, Sparse(items), NEW s
  PROVE  Cardinality(DOMAIN Of(items, {s})) <= Limit
<1> DEFINE D == {k \in DOMAIN items : items[k] \in {s}}
<1>1. DOMAIN Of(items, {s}) = D
  BY DEF Of
<1>2. D \subseteq Nat /\ IsFiniteSet(D) /\ Cardinality(D) \in Nat
  <2>1. D \subseteq DOMAIN items
    OBVIOUS
  <2> HIDE DEF D
  <2> QED
    BY <2>1, FS_Subset, FS_CardinalityType DEF Sparse
<1>3. Limit \in Nat \ {0}
  BY MediaAssumption
<1>4. CASE D = {}
  <2>1. Cardinality(D) = 0
    BY <1>4, FS_EmptySet
  <2> HIDE DEF D
  <2> QED
    BY <1>1, <1>3, <2>1
<1>5. CASE D # {}
  <2>1. PICK m \in D : \A k \in D : m <= k
    <3> HIDE DEF D
    <3> QED
      BY <1>2, <1>5, LeastOf
  <2>2. {j \in DOMAIN items : items[j] = items[m] /\ j > m} = D \ {m}
    BY <1>2, <2>1
  <2>3. Cardinality(D \ {m}) < Limit
    BY <2>1, <2>2 DEF Sparse
  <2> HIDE DEF D
  <2>4. Cardinality(D \ {m}) = Cardinality(D) - 1
    BY <1>2, <2>1, FS_RemoveElement
  <2> QED
    BY <1>1, <1>2, <1>3, <2>3, <2>4
<1> QED
  BY <1>4, <1>5

\* However imports overlap, fail and die, and whichever sources are enabled when one ends:
\* the catalogue never holds more media of a source than the limit (_balance_by_source).
THEOREM CatalogLimited ==
  Spec => [](\A s \in Sources : Cardinality(DOMAIN Of(catalog, {s})) <= Limit)
<1>1. MediaInv => \A s \in Sources : Cardinality(DOMAIN Of(catalog, {s})) <= Limit
  BY SparseIsLimited DEF MediaInv
<1> QED
  BY <1>1, MediaStart, MediaStep, PTL DEF Spec
=============================================================================
