----------------------------- MODULE Operations -----------------------------
(***************************************************************************)
(* What the worker threads of src/app/main.py share beside the books: the  *)
(* locks and the audit file of the OPS endpoints, the cache of the market  *)
(* ideas with its single background refresh, and the flag and state file   *)
(* of the media automation (app/services/media_automation.py).             *)
(*                                                                         *)
(* A thread handles one call at a time: an OPS operation, a change of a    *)
(* media source, a request of the ideas page, an import cycle (three jobs  *)
(* of the scheduler and /api/cron/tick start them) or the nightly          *)
(* maintenance.  Calls are numbered; a number stands for the record the    *)
(* call writes.                                                            *)
(***************************************************************************)
EXTENDS Naturals, Sequences, FiniteSets

CONSTANTS
    Threads,
    Names,      \* the operations that have a lock, "cache_clear" among them
    OpsCap,     \* records kept when an operation is audited (200)
    SourceCap,  \* records kept when a source change is audited (300)
    NotesCap,   \* notifications kept (50)
    MaxCalls,   \* bound: calls made
    None

ASSUME CapsAssumption ==
    /\ {OpsCap, SourceCap, NotesCap} \subseteq Nat \ {0}
    /\ OpsCap <= SourceCap
    /\ MaxCalls \in Nat
ASSUME NoneAssumption == None \notin Threads
ASSUME NamesAssumption ==
    /\ None \notin Names
    /\ (Names \cup {None}) \cap {"source", "ideas", "cycle", "maintenance"} = {}

VARIABLES
    lock,       \* OPS_LOCKS: [Names -> the thread that holds it, or None]
    audit,      \* ops_audit.json
    ideas,      \* MARKET_IDEAS_CACHE: "none", "fresh" or "stale"
    refreshing, \* MARKET_IDEAS_REFRESH_IN_PROGRESS
    job,        \* the jobs of the refresh executor, the first one under way
    running,    \* MediaAutomationService._running
    notes,      \* notifications of the automation's state file
    thread,     \* what each thread is doing
    calls,
    audited, auditMet,   \* history: records written; two writers met
    raced,      \* history: two cycles tested the flag before either set it
    stuck       \* history: the executor refused a job

files   == <<audit, notes>>
flags   == <<lock, refreshing, running>>
history == <<audited, auditMet, raced, stuck>>
vars    == <<files, flags, ideas, job, thread, calls, history>>

Idle == [pc |-> "idle", op |-> None, call |-> 0, failed |-> FALSE, seen |-> <<>>]

Init ==
    /\ lock = [n \in Names |-> None]
    /\ audit = <<>> /\ notes = <<>>
    /\ ideas = "none" /\ refreshing = FALSE /\ job = <<>>
    /\ running = FALSE
    /\ thread = [t \in Threads |-> Idle]
    /\ calls = 0
    /\ audited = <<>> /\ auditMet = FALSE
    /\ raced = FALSE /\ stuck = FALSE

LastOf(s, n) == SubSeq(s, IF Len(s) < n THEN 1 ELSE Len(s) - n + 1, Len(s))

At(t, pc) == thread[t].pc = pc
Goto(t, pc) == thread' = [thread EXCEPT ![t].pc = pc]
Done(t) == thread' = [thread EXCEPT ![t] = Idle]
Others(t, pcs) == \E u \in Threads \ {t} : thread[u].pc \in pcs

(* A call begins; `op` is its lock, or the kind of a call without one. *)
Call(t, op, pc) ==
    /\ At(t, "idle") /\ calls < MaxCalls
    /\ calls' = calls + 1
    /\ thread' = [thread EXCEPT ![t] = [Idle EXCEPT !.pc = pc, !.op = op, !.call = calls']]

-----------------------------------------------------------------------------
(* The OPS endpoints: _run_locked_ops. *)

(* A lock that is held answers 409 and leaves everything as it is. *)
OpsAcquire(t, n) ==
    /\ lock[n] = None
    /\ Call(t, n, "operation")
    /\ lock' = [lock EXCEPT ![n] = t]
    /\ UNCHANGED <<files, refreshing, running, ideas, job, history>>

(* The operation returns or raises: it is audited either way.  The caches  *)
(* are cleared without the lock of the ideas cache.                        *)
OpsRun(t) ==
    /\ At(t, "operation")
    /\ \/ ideas' = IF thread[t].op = "cache_clear" THEN "none" ELSE ideas
       \/ UNCHANGED ideas
    /\ Goto(t, "auditRead")
    /\ UNCHANGED <<files, flags, job, calls, history>>

(* A change of a source is audited in the same file, without any lock. *)
SourceChange(t) ==
    /\ Call(t, "source", "auditRead")
    /\ UNCHANGED <<files, flags, ideas, job, history>>

AuditRead(t) ==
    /\ At(t, "auditRead")
    /\ thread' = [thread EXCEPT ![t].pc = "auditWrite", ![t].seen = audit]
    /\ auditMet' = (auditMet \/ Others(t, {"auditWrite"}))
    /\ UNCHANGED <<files, flags, ideas, job, calls, audited, raced, stuck>>

AuditCap(t) == IF thread[t].op = "source" THEN SourceCap ELSE OpsCap
AfterAudit(t) == IF thread[t].op = "source" THEN Done(t) ELSE Goto(t, "release")

(* Mutant: the file keeps the oldest records. *)
AuditWrite_Oldest(t) ==
    /\ At(t, "auditWrite")
    /\ LET all == Append(thread[t].seen, thread[t].call) IN
          \/ /\ audit' = SubSeq(all, 1, IF Len(all) < AuditCap(t) THEN Len(all) ELSE AuditCap(t))
             /\ audited' = Append(audited, thread[t].call)
          \/ UNCHANGED <<audit, audited>>
    /\ AfterAudit(t)
    /\ UNCHANGED <<notes, flags, ideas, job, calls, auditMet, raced, stuck>>

(* The file is replaced as a whole; an error of the write is swallowed. *)
AuditWrite(t) ==
    /\ At(t, "auditWrite")
    /\ \/ /\ audit' = LastOf(Append(thread[t].seen, thread[t].call), AuditCap(t))
          /\ audited' = Append(audited, thread[t].call)
       \/ UNCHANGED <<audit, audited>>
    /\ AfterAudit(t)
    /\ UNCHANGED <<notes, flags, ideas, job, calls, auditMet, raced, stuck>>

OpsRelease(t) ==
    /\ At(t, "release")
    /\ lock' = [lock EXCEPT ![thread[t].op] = None]
    /\ Done(t)
    /\ UNCHANGED <<files, refreshing, running, ideas, job, calls, history>>

-----------------------------------------------------------------------------
(* The market ideas: ideas_market and its background refresh. *)

(* The payload is read; one that is missing or past its time asks for a    *)
(* refresh.                                                                *)
IdeasGet(t) ==
    /\ ideas # "fresh"
    /\ Call(t, "ideas", "queue")
    /\ UNCHANGED <<files, flags, ideas, job, history>>

(* The start of the program and /api/cron/tick ask for one in any case.    *)
IdeasTick(t) ==
    /\ Call(t, "ideas", "queue")
    /\ UNCHANGED <<files, flags, ideas, job, history>>

(* Mutant: the flag is not looked at. *)
IdeasQueue_Always(t) ==
    /\ At(t, "queue")
    /\ refreshing' = TRUE /\ Goto(t, "submit")
    /\ UNCHANGED <<files, lock, running, ideas, job, calls, history>>

(* _queue_market_ideas_refresh tests and sets the flag under the lock. *)
IdeasQueue(t) ==
    /\ At(t, "queue")
    /\ \/ refreshing /\ Done(t) /\ UNCHANGED refreshing
       \/ ~refreshing /\ refreshing' = TRUE /\ Goto(t, "submit")
    /\ UNCHANGED <<files, lock, running, ideas, job, calls, history>>

(* The job is handed over outside the lock, and nothing takes the flag     *)
(* back when the executor refuses it.                                      *)
IdeasSubmit(t) ==
    /\ At(t, "submit")
    /\ \/ job' = Append(job, "build") /\ UNCHANGED stuck
       \/ stuck' = TRUE /\ UNCHANGED job
    /\ Done(t)
    /\ UNCHANGED <<files, flags, ideas, calls, audited, auditMet, raced>>

(* Mutant: a refresh that failed keeps the flag. *)
RefreshBuild_Fails ==
    /\ job # <<>> /\ Head(job) = "build"
    /\ \/ job' = <<"store">> \o Tail(job)
       \/ job' = Tail(job)
    /\ UNCHANGED <<files, flags, ideas, thread, calls, history>>

(* The executor's only worker: build_market returns or raises, the payload *)
(* is replaced under the lock, the finally clause clears the flag.         *)
RefreshBuild ==
    /\ job # <<>> /\ Head(job) = "build"
    /\ \E next \in {"store", "finish"} : job' = <<next>> \o Tail(job)
    /\ UNCHANGED <<files, flags, ideas, thread, calls, history>>

RefreshStore ==
    /\ job # <<>> /\ Head(job) = "store"
    /\ ideas' = "fresh"
    /\ job' = <<"finish">> \o Tail(job)
    /\ UNCHANGED <<files, flags, thread, calls, history>>

RefreshFinish ==
    /\ job # <<>> /\ Head(job) = "finish"
    /\ refreshing' = FALSE
    /\ job' = Tail(job)
    /\ UNCHANGED <<files, lock, running, ideas, thread, calls, history>>

(* MARKET_IDEAS_CACHE_TTL_SECONDS pass. *)
IdeasAge ==
    /\ ideas = "fresh"
    /\ ideas' = "stale"
    /\ UNCHANGED <<files, flags, job, thread, calls, history>>

-----------------------------------------------------------------------------
(* The media automation: run_import_cycle and its state file. *)

(* A cycle that finds the flag set is skipped. *)
CycleTest(t) ==
    /\ ~running
    /\ Call(t, "cycle", "set")
    /\ raced' = (raced \/ Others(t, {"set"}))
    /\ UNCHANGED <<files, flags, ideas, job, audited, auditMet, stuck>>

CycleSet(t) ==
    /\ At(t, "set")
    /\ running' = TRUE
    /\ Goto(t, "import")
    /\ UNCHANGED <<files, lock, refreshing, ideas, job, calls, history>>

(* Mutant: the flag is cleared before the event is written. *)
CycleImport_Ends(t) ==
    /\ At(t, "import")
    /\ running' = FALSE
    /\ \E failed \in BOOLEAN :
          thread' = [thread EXCEPT ![t].pc = "noteRead", ![t].failed = failed]
    /\ UNCHANGED <<files, lock, refreshing, ideas, job, calls, history>>

(* Import, pipeline and publication succeed, or one of them raises. *)
CycleImport(t) ==
    /\ At(t, "import")
    /\ \E failed \in BOOLEAN :
          thread' = [thread EXCEPT ![t].pc = "noteRead", ![t].failed = failed]
    /\ UNCHANGED <<files, flags, ideas, job, calls, history>>

(* The nightly job asks no flag, and its event is not a failure. *)
Maintenance(t) ==
    /\ Call(t, "maintenance", "noteRead")
    /\ UNCHANGED <<files, flags, ideas, job, history>>

(* _write_state_event reads the file, adds a notification if it is about a *)
(* failure or its payload speaks of a quota, and replaces the file.        *)
NoteRead(t) ==
    /\ At(t, "noteRead")
    /\ thread' = [thread EXCEPT ![t].pc = "noteWrite", ![t].seen = notes]
    /\ UNCHANGED <<files, flags, ideas, job, calls, history>>

AfterNote(t) ==
    IF thread[t].op = "maintenance" THEN Done(t) ELSE Goto(t, "end")

NoteWrite(t) ==
    /\ At(t, "noteWrite")
    /\ \E noted \in {TRUE, thread[t].failed} :
          notes' = IF noted THEN LastOf(Append(thread[t].seen, thread[t].call), NotesCap)
                            ELSE LastOf(thread[t].seen, NotesCap)
    /\ AfterNote(t)
    /\ UNCHANGED <<audit, flags, ideas, job, calls, history>>

(* The write raises: a cycle that had finished reports a failure instead;  *)
(* one that was reporting a failure, and the maintenance, end.             *)
NoteRaises(t) ==
    /\ At(t, "noteWrite")
    /\ IF thread[t].op = "cycle" /\ ~thread[t].failed
       THEN thread' = [thread EXCEPT ![t].pc = "noteRead", ![t].failed = TRUE,
                                     ![t].seen = <<>>]
       ELSE AfterNote(t)
    /\ UNCHANGED <<files, flags, ideas, job, calls, history>>

(* The finally clause. *)
CycleEnd(t) ==
    /\ At(t, "end")
    /\ running' = FALSE
    /\ Done(t)
    /\ UNCHANGED <<files, lock, refreshing, ideas, job, calls, history>>

-----------------------------------------------------------------------------
(* The process dies and is started again: the files are what stays. *)
Crash ==
    /\ \E t \in Threads : ~At(t, "idle")
    /\ lock' = [n \in Names |-> None]
    /\ ideas' = "none" /\ refreshing' = FALSE /\ job' = <<>>
    /\ running' = FALSE
    /\ thread' = [t \in Threads |-> Idle]
    /\ raced' = FALSE /\ stuck' = FALSE
    /\ UNCHANGED <<files, calls, audited, auditMet>>

Begin(t) ==
    \/ \E n \in Names : OpsAcquire(t, n)
    \/ SourceChange(t) \/ IdeasGet(t) \/ IdeasTick(t) \/ CycleTest(t) \/ Maintenance(t)
Step(t) ==
    \/ OpsRun(t) \/ AuditRead(t) \/ AuditWrite(t) \/ OpsRelease(t)
    \/ IdeasQueue(t) \/ IdeasSubmit(t)
    \/ CycleSet(t) \/ CycleImport(t) \/ NoteRead(t) \/ NoteWrite(t) \/ NoteRaises(t)
    \/ CycleEnd(t)
Refresh == RefreshBuild \/ RefreshStore \/ RefreshFinish

Next == (\E t \in Threads : Begin(t) \/ Step(t)) \/ Refresh \/ IdeasAge \/ Crash

Spec == Init /\ [][Next]_vars

(* A call that has begun goes on, and so does the executor's worker. *)
FairSpec == Spec /\ (\A t \in Threads : WF_vars(Step(t))) /\ WF_vars(Refresh)

-----------------------------------------------------------------------------
(* Properties. *)

Records == Seq(1..MaxCalls)

(* Every variable has its type; the files never exceed their limits. *)
TypeOK ==
    /\ lock \in [Names -> Threads \cup {None}]
    /\ audit \in Records /\ Len(audit) <= SourceCap
    /\ notes \in Records /\ Len(notes) <= NotesCap
    /\ ideas \in {"none", "fresh", "stale"}
    /\ refreshing \in BOOLEAN /\ running \in BOOLEAN
    /\ job \in Seq({"build", "store", "finish"})
    /\ thread \in [Threads ->
         [pc : {"idle", "operation", "auditRead", "auditWrite", "release", "queue",
                "submit", "set", "import", "noteRead", "noteWrite", "end"},
          op : Names \cup {None, "source", "ideas", "cycle", "maintenance"},
          call : 0..MaxCalls, failed : BOOLEAN, seen : Records]]
    /\ calls \in 0..MaxCalls
    /\ audited \in Records
    /\ {auditMet, raced, stuck} \subseteq BOOLEAN

(* While no two writers met, the audit file ends with the latest records   *)
(* that could be written, of operations and source changes alike, and no   *)
(* fewer of them than OpsCap: no operation's record is lost to another.    *)
AuditKept ==
    ~auditMet =>
        /\ audit = LastOf(audited, Len(audit))
        /\ Len(audit) >= OpsCap \/ audit = audited

InCycle(t) == thread[t].op = "cycle" /\ thread[t].pc # "set"

(* Two import cycles never run at once, unless both tested the flag before *)
(* either had set it.                                                      *)
OneCycle == ~raced => \A t, u \in Threads : InCycle(t) /\ InCycle(u) => t = u

(* However many requests find the ideas missing or old, at most one        *)
(* refresh is queued or under way, and the flag tells whether it is.       *)
OneRefresh ==
    /\ Len(job) + Cardinality({t \in Threads : At(t, "submit")}) <= 1
    /\ job # <<>> => refreshing

(* No flag stays set: the lock of every operation is free again, the       *)
(* import cycle ends, and a refresh ends unless the executor refused it.   *)
FlagsCleared ==
    /\ \A n \in Names : lock[n] # None ~> lock[n] = None
    /\ running ~> ~running
    /\ refreshing ~> ~refreshing \/ stuck
=============================================================================
