---------------------------- MODULE MediaImport ----------------------------
(***************************************************************************)
(* The media catalogue and the source registry, and the calls that change  *)
(* them: the import of the enabled sources, the import of one source, and  *)
(* the edits of the registry (services/media_import_engine.py, called by   *)
(* the /api/sources and /api/media endpoints, the OPS console and the      *)
(* automation).  Both files are replaced atomically and read afresh by     *)
(* every call; nothing locks them between a read and the write that        *)
(* follows, so an edit may come between any two steps of an import.        *)
(*                                                                         *)
(* A media item is its deduplication key; keys are numbered in the order   *)
(* of publication.  The catalogue maps the keys it holds to their source.  *)
(***************************************************************************)
EXTENDS Integers, Sequences, FiniteSets, SequencesExt

CONSTANTS
  Sources,     \* ids a media source may have
  Keys,        \* media items, a newer one is greater
  Feed,        \* most items one fetch returns
  Limit,       \* max_media_per_source()
  Filters,     \* what a type filter lets through: sets of sources
  Importers, Editors, \* threads that import, threads that edit the registry
  MaxCalls     \* bound on the number of calls

ASSUME MediaAssumption ==
  /\ Keys \subseteq Nat /\ Feed \in Nat /\ Limit \in Nat \ {0}
  /\ Filters \subseteq SUBSET Sources /\ MaxCalls \in Nat
  /\ Importers \cap Editors = {}

VARIABLES
  registry,    \* media_sources.json: the sources in file order
  catalog,     \* media_catalog.json
  job,         \* per importer: the local variables of its call
  edit,        \* per editor: the registry it read and means to write
  calls        \* calls made so far

vars == <<registry, catalog, job, edit, calls>>

(* A source is its id, whether it is enabled, and whether its last import  *)
(* is recorded as failed.                                                  *)
Source == [id : Sources, enabled : BOOLEAN, failed : BOOLEAN]

Ids(reg) == {reg[i].id : i \in DOMAIN reg}
Enabled(reg) == {reg[i].id : i \in {j \in DOMAIN reg : reg[j].enabled}}

(* The registry with every enabled flag decided by On.                     *)
Flagged(reg, On(_)) == [i \in DOMAIN reg |-> [reg[i] EXCEPT !.enabled = On(reg[i])]]

Idle == [stage |-> "idle", plan |-> <<>>, read |-> <<>>, fetched |-> <<>>, good |-> {},
         bad |-> {}, on |-> {}, merged |-> <<>>, raw |-> <<>>, single |-> FALSE,
         original |-> <<>>, before |-> <<>>, alone |-> TRUE]

(* What is left of a call that died, or whose write back failed.           *)
Cut == [Idle EXCEPT !.stage = "cut"]

Init ==
  /\ \E s \in Sources :
       registry = <<[id |-> s, enabled |-> TRUE, failed |-> FALSE]>>
  /\ catalog = <<>>
  /\ job = [p \in Importers |-> Idle]
  /\ edit = [p \in Editors |-> <<>>]
  /\ calls = 0

-----------------------------------------------------------------------------
(* Items of a catalogue that belong to one of the sources, and to none.    *)
Of(items, sources) ==
  LET keys == {k \in DOMAIN items : items[k] \in sources} IN [k \in keys |-> items[k]]
Except(items, sources) ==
  LET keys == {k \in DOMAIN items : items[k] \notin sources} IN [k \in keys |-> items[k]]

(* The items of both, those of the first where they share a key.           *)
Over(f, g) ==
  [k \in DOMAIN f \cup DOMAIN g |-> IF k \in DOMAIN f THEN f[k] ELSE g[k]]

(* _balance_by_source: only sources enabled now, unless none is, and of    *)
(* each the Limit newest items.                                            *)
Balanced(items, on) ==
  LET listed == IF on = {} THEN items ELSE Of(items, on)
      Newer(k) == {j \in DOMAIN listed : listed[j] = listed[k] /\ j > k}
      keys == {k \in DOMAIN listed : Cardinality(Newer(k)) < Limit}
  IN  [k \in keys |-> listed[k]]

\* Mutant: a source that failed counts as answered.
Merged_FailedToo(j, on) ==
  Balanced(Over(Except(j.read, j.good \cup j.bad), j.fetched), on)

(* What the import writes: an existing item of a source that was not       *)
(* fetched successfully wins over a fetched one with its key.              *)
Merged(j, on) ==
  Balanced(Over(Except(j.read, j.good), j.fetched), on)

At(p, stage) == job[p].stage = stage
Free(p) == job[p].stage \in {"idle", "cut"}
Goto(p, j, stage) == job' = [job EXCEPT ![p] = [j EXCEPT !.stage = stage]]

(* A write of the registry by p: the single imports under way remember     *)
(* that they were not alone.  This and the registry they found (before)    *)
(* are history, read by Restored only.                                     *)
Disturbed(p, jobs) ==
  [q \in Importers |-> IF q # p /\ jobs[q].single THEN [jobs[q] EXCEPT !.alone = FALSE]
                                                 ELSE jobs[q]]

\* Mutant: what follows a single import stands after it, not in a finally clause.
Ended_NoFinally(p) ==
  [job EXCEPT ![p] = IF @.single /\ @.stage = "save" THEN [@ EXCEPT !.stage = "restore"] ELSE Idle]

(* The end of an import, with or without an error: a single one has its    *)
(* finally clause to run.                                                  *)
Ended(p) == [job EXCEPT ![p] = IF @.single THEN [@ EXCEPT !.stage = "restore"] ELSE Idle]

Call == calls < MaxCalls /\ calls' = calls + 1

-----------------------------------------------------------------------------
(* import_latest: the enabled sources of the asked type, in file order.    *)
Plan(p, j, filter) ==
  Goto(p, [j EXCEPT !.plan = SelectSeq(registry, LAMBDA s : s.enabled /\ s.id \in filter)],
       "catalog")

Import(p) ==
  /\ Free(p) /\ Call
  /\ \E filter \in Filters : Plan(p, Idle, filter)
  /\ UNCHANGED <<registry, catalog, edit>>

ReadCatalog(p) ==
  /\ At(p, "catalog")
  /\ Goto(p, [job[p] EXCEPT !.read = catalog], "fetch")
  /\ UNCHANGED <<registry, catalog, edit, calls>>

(* One source: an error, reported or raised, or the items it lists now.    *)
Fetch(p) ==
  /\ At(p, "fetch") /\ job[p].plan # <<>>
  /\ LET s == Head(job[p].plan).id
         j == [job[p] EXCEPT !.plan = Tail(@)]
     IN  \/ Goto(p, [j EXCEPT !.bad = @ \cup {s}], "fetch")
         \/ \E keys \in SUBSET Keys :
              /\ IsFiniteSet(keys) /\ Cardinality(keys) <= Feed
              /\ Goto(p, [j EXCEPT !.good = @ \cup {s},
                                   !.fetched = Over([k \in keys |-> s], @)], "fetch")
  /\ UNCHANGED <<registry, catalog, edit, calls>>

(* The registry is read again; an import that fetched items and would      *)
(* write none is refused.                                                  *)
Merge(p) ==
  /\ At(p, "fetch") /\ job[p].plan = <<>>
  /\ LET on == Enabled(registry)
         merged == Merged(job[p], on)
     IN  IF DOMAIN job[p].fetched # {} /\ DOMAIN merged = {}
         THEN job' = Ended(p)
         ELSE Goto(p, [job[p] EXCEPT !.on = on, !.merged = merged], "write")
  /\ UNCHANGED <<registry, catalog, edit, calls>>

(* The write, which may fail: then the old file stays.                     *)
WriteCatalog(p) ==
  /\ At(p, "write")
  /\ \/ catalog' = job[p].merged /\ Goto(p, job[p], "sources")
     \/ job' = Ended(p) /\ UNCHANGED catalog
  /\ UNCHANGED <<registry, edit, calls>>

(* _save_sources: the registry is read once more, the sources of this      *)
(* import get their outcome, and the file is written, which may fail.      *)
Recorded(j) ==
  [i \in DOMAIN j.raw |->
     IF j.raw[i].id \in j.good \cup j.bad
     THEN [j.raw[i] EXCEPT !.failed = j.raw[i].id \in j.bad]
     ELSE j.raw[i]]

ReadSources(p) ==
  /\ At(p, "sources")
  /\ Goto(p, [job[p] EXCEPT !.raw = registry], "save")
  /\ UNCHANGED <<registry, catalog, edit, calls>>

SaveSources(p) ==
  /\ At(p, "save")
  /\ \/ registry' = Recorded(job[p]) /\ job' = Disturbed(p, Ended(p))
     \/ job' = Ended(p) /\ UNCHANGED registry
  /\ UNCHANGED <<catalog, edit, calls>>

-----------------------------------------------------------------------------
(* import_source: the file is read with only this source enabled, read     *)
(* again as it was, the selection written, the import run on it, and the   *)
(* second reading written back whatever happened.  Either write may fail:  *)
(* the first is tried inside the try block, the last one's error is the    *)
(* call's.                                                                 *)
Select(p) ==
  /\ Free(p) /\ Call
  /\ \E s \in Ids(registry) :
       Goto(p, [Idle EXCEPT !.single = TRUE, !.before = registry,
                            !.raw = Flagged(registry, LAMBDA r : r.id = s)], "original")
  /\ UNCHANGED <<registry, catalog, edit>>

ReadOriginal(p) ==
  /\ At(p, "original")
  /\ Goto(p, [job[p] EXCEPT !.original = registry], "select")
  /\ UNCHANGED <<registry, catalog, edit, calls>>

WriteSelected(p) ==
  /\ At(p, "select")
  /\ \/ registry' = job[p].raw /\ job' = Disturbed(p, [job EXCEPT ![p].stage = "plan"])
     \/ job' = Ended(p) /\ UNCHANGED registry
  /\ UNCHANGED <<catalog, edit, calls>>

PlanSelected(p) ==
  /\ At(p, "plan")
  /\ Plan(p, job[p], Sources)
  /\ UNCHANGED <<registry, catalog, edit, calls>>

Restore(p) ==
  /\ At(p, "restore")
  /\ \/ registry' = job[p].original /\ job' = Disturbed(p, [job EXCEPT ![p] = Idle])
     \/ job' = [job EXCEPT ![p] = Cut] /\ UNCHANGED registry
  /\ UNCHANGED <<catalog, edit, calls>>

-----------------------------------------------------------------------------
(* add_source, update_source, delete_source and resolve_all: the file as   *)
(* it will be written, computed from the file as it is read; the network   *)
(* is asked in between.                                                    *)
Added(reg, s, on) == Append(reg, [id |-> s, enabled |-> on, failed |-> FALSE])
Updated(reg, s, on) == Flagged(reg, LAMBDA r : IF r.id = s THEN on ELSE r.enabled)
Deleted(reg, s) == SelectSeq(reg, LAMBDA r : r.id # s)
Resolved(reg, ok, error) == Recorded([raw |-> reg, good |-> ok, bad |-> error])

Edits(reg) ==
  {Added(reg, s, on) : s \in Sources \ Ids(reg), on \in BOOLEAN}
  \cup {Updated(reg, s, on) : s \in Ids(reg), on \in BOOLEAN}
  \cup {Deleted(reg, s) : s \in Ids(reg)}
  \cup {Resolved(reg, ok, error \ ok) : ok, error \in SUBSET Enabled(reg)}

Edit(p) ==
  /\ edit[p] = <<>> /\ Call
  /\ \E reg \in Edits(registry) : edit' = [edit EXCEPT ![p] = <<reg>>]
  /\ UNCHANGED <<registry, catalog, job>>

WriteEdit(p) ==
  /\ edit[p] # <<>>
  /\ edit' = [edit EXCEPT ![p] = <<>>]
  /\ \/ registry' = edit[p][1] /\ job' = Disturbed(p, job)
     \/ UNCHANGED <<registry, job>>
  /\ UNCHANGED <<catalog, calls>>

(* The process dies between two steps and starts again.                    *)
Crash ==
  /\ \E p \in Importers : ~Free(p)
  /\ job' = [p \in Importers |-> IF Free(p) THEN job[p] ELSE Cut]
  /\ edit' = [p \in Editors |-> <<>>]
  /\ UNCHANGED <<registry, catalog, calls>>

ImportStep(p) ==
  \/ Import(p) \/ ReadCatalog(p) \/ Fetch(p) \/ Merge(p) \/ WriteCatalog(p)
  \/ ReadSources(p) \/ SaveSources(p)
  \/ Select(p) \/ ReadOriginal(p) \/ WriteSelected(p) \/ PlanSelected(p) \/ Restore(p)

Next ==
  \/ \E p \in Importers : ImportStep(p)
  \/ \E p \in Editors : Edit(p) \/ WriteEdit(p)
  \/ Crash

Spec == Init /\ [][Next]_vars

-----------------------------------------------------------------------------
(* What the files may hold: no two sources of one id, and of no source     *)
(* more media than the limit (validate_sources, _balance_by_source).       *)
TypeOK ==
  /\ registry \in Seq(Source) /\ Len(registry) = Cardinality(Ids(registry))
  /\ catalog \in [DOMAIN catalog -> Sources] /\ DOMAIN catalog \subseteq Keys
  /\ \A s \in Sources : Cardinality(DOMAIN Of(catalog, {s})) <= Limit
  /\ calls <= MaxCalls

(* Media leave the catalogue, or change hands, only because their source   *)
(* answered this import or was no longer enabled when the results were     *)
(* merged: a source that fails, or that the type filter leaves out, keeps  *)
(* what it has, whatever the other sources return and whoever edits the    *)
(* registry meanwhile.  Only an import that another one's write met after  *)
(* it had read the catalogue takes back what the other one wrote.          *)
KeptOnFailure ==
  [][\A k \in DOMAIN catalog :
       \/ k \in DOMAIN catalog' /\ catalog'[k] = catalog[k]
       \/ \E p \in Importers :
            /\ At(p, "write") /\ job'[p].stage # "write"
            /\ catalog[k] \notin job[p].on \ job[p].good \/ job[p].read # catalog
    ]_vars

(* An import of one source, which disables all others while it runs, is    *)
(* over only when the registry is again what it was when the call came:    *)
(* whatever fails on the way, its own writes of the registry included, and *)
(* unless somebody else wrote the registry meanwhile.  Excepted are the    *)
(* calls that are cut: the process dies, or the writing back itself fails. *)
Restored ==
  [][\A p \in Importers :
       job[p].single /\ job[p].alone /\ job'[p].stage = "idle"
         => registry' = job[p].before]_vars

=============================================================================
