-------------------------- MODULE OperationsProofs --------------------------
(***************************************************************************)
(* Proofs about Operations for any number of threads, operations, calls    *)
(* and crashes, and any caps: import cycles exclude each other unless two  *)
(* tested the flag before either set it, at most one refresh of the ideas  *)
(* is under way, and the audit file loses no record while writers do not   *)
(* meet.                                                                   *)
(***************************************************************************)
EXTENDS Operations, SequenceTheorems, FiniteSetTheorems, TLAPS

Kinds == Names \cup {None, "source", "ideas", "cycle", "maintenance"}
Places == {"idle", "operation", "auditRead", "auditWrite", "release", "queue",
           "submit", "set", "import", "noteRead", "noteWrite", "end"}
Thread == [pc : Places, op : Kinds, call : 0..MaxCalls, failed : BOOLEAN, seen : Records]

\* What LastOf keeps of a list: at most n elements, and those at its end.
LEMMA LastOfProperties ==
  ASSUME NEW S, NEW s \in Seq(S), NEW n \in Nat
  PROVE  /\ LastOf(s, n) \in Seq(S)
         /\ Len(LastOf(s, n)) = IF Len(s) < n THEN Len(s) ELSE n
         /\ \A i \in 1..Len(LastOf(s, n)) :
              LastOf(s, n)[i] = s[Len(s) - Len(LastOf(s, n)) + i]
<1> DEFINE m == IF Len(s) < n THEN 1 ELSE Len(s) - n + 1
<1>1. Len(s) \in Nat /\ m \in Int /\ m >= 1
  BY LenProperties
<1>2. \A i \in m..Len(s) : s[i] \in S
  BY <1>1, ElementOfSeq
<1>3. /\ SubSeq(s, m, Len(s)) \in Seq(S)
      /\ Len(SubSeq(s, m, Len(s))) = IF m <= Len(s) THEN Len(s) - m + 1 ELSE 0
      /\ \A i \in 1..(Len(s) - m + 1) : SubSeq(s, m, Len(s))[i] = s[m + i - 1]
  BY <1>1, <1>2, SubSeqProperties
<1>4. LastOf(s, n) = SubSeq(s, m, Len(s))
  BY DEF LastOf
<1>5. Len(LastOf(s, n)) = IF Len(s) < n THEN Len(s) ELSE n
  <2>1. CASE Len(s) < n
    BY <1>1, <1>3, <1>4, <2>1
  <2>2. CASE ~(Len(s) < n)
    BY <1>1, <1>3, <1>4, <2>2
  <2> QED BY <2>1, <2>2
<1>6. ASSUME NEW i \in 1..Len(LastOf(s, n))
      PROVE  LastOf(s, n)[i] = s[Len(s) - Len(LastOf(s, n)) + i]
  <2>1. i \in 1..(Len(s) - m + 1)
    BY <1>1, <1>3, <1>4
  <2>2. m + i - 1 = Len(s) - Len(LastOf(s, n)) + i
    BY <1>1, <1>5, <2>1
  <2> QED BY <1>3, <1>4, <2>1, <2>2
<1> QED BY <1>3, <1>4, <1>5, <1>6

\* A thread's record after each change of some of its fields.
LEMMA RecordsOfThread ==
  ASSUME NEW r \in Thread, NEW pc \in Places
  PROVE  /\ [r EXCEPT !.pc = pc] \in Thread
         /\ Idle \in Thread
BY CapsAssumption, EmptySeq DEF Thread, Places, Kinds, Idle, Records

\* A call puts a fresh record in its thread's place.
LEMMA CallType ==
  ASSUME TypeOK, NEW t \in Threads, NEW op \in Kinds, NEW pc \in Places, Call(t, op, pc)
  PROVE  /\ calls' \in 0..MaxCalls
         /\ thread' \in [Threads -> Thread]
         /\ thread'[t].pc = pc /\ thread'[t].op = op /\ thread'[t].call = calls'
         /\ \A u \in Threads \ {t} : thread'[u] = thread[u]
<1> DEFINE new == [Idle EXCEPT !.pc = pc, !.op = op, !.call = calls']
<1>1. calls' \in 0..MaxCalls
  BY CapsAssumption DEF Call, TypeOK
<1>2. new \in Thread /\ new.pc = pc /\ new.op = op /\ new.call = calls'
  BY <1>1, EmptySeq DEF Thread, Records, Idle
<1>3. thread \in [Threads -> Thread]
  BY DEF TypeOK, Thread, Places, Kinds
<1>4. thread' = [thread EXCEPT ![t] = new]
  BY DEF Call
<1> QED BY <1>1, <1>2, <1>3, <1>4

\* The two ways a thread goes on: another place, or idle.
LEMMA MoveType ==
  ASSUME TypeOK, NEW t \in Threads, NEW pc \in Places
  PROVE  /\ Goto(t, pc) => /\ thread' \in [Threads -> Thread]
                           /\ thread'[t] = [thread[t] EXCEPT !.pc = pc]
                           /\ \A u \in Threads \ {t} : thread'[u] = thread[u]
         /\ Done(t) => /\ thread' \in [Threads -> Thread]
                       /\ thread'[t] = Idle
                       /\ \A u \in Threads \ {t} : thread'[u] = thread[u]
<1>1. thread \in [Threads -> Thread]
  BY DEF TypeOK, Thread, Places, Kinds
<1>2. [thread[t] EXCEPT !.pc = pc] \in Thread /\ Idle \in Thread
  BY <1>1, RecordsOfThread
<1>3. Goto(t, pc) => thread' = [thread EXCEPT ![t] = [thread[t] EXCEPT !.pc = pc]]
  BY DEF Goto
<1> QED BY <1>1, <1>2, <1>3 DEF Done

\* A call that is under way has a number, the record it may write.
Numbered == \A t \in Threads : thread[t].pc # "idle" => thread[t].call >= 1
Typed == TypeOK /\ Numbered

\* The lists that are written back: what was read, and the record of the call.
LEMMA WrittenList ==
  ASSUME Typed, NEW t \in Threads, thread[t].pc # "idle", NEW n \in Nat
  PROVE  /\ thread[t].seen \in Records
         /\ thread[t].call \in 1..MaxCalls
         /\ Append(thread[t].seen, thread[t].call) \in Records
         /\ LastOf(Append(thread[t].seen, thread[t].call), n) \in Records
         /\ Len(LastOf(Append(thread[t].seen, thread[t].call), n)) <= n
         /\ LastOf(thread[t].seen, n) \in Records
         /\ Len(LastOf(thread[t].seen, n)) <= n
<1> USE DEF Records
<1>1. thread[t].seen \in Seq(1..MaxCalls) /\ thread[t].call \in 1..MaxCalls
  BY CapsAssumption DEF Typed, TypeOK, Numbered
<1>2. Append(thread[t].seen, thread[t].call) \in Seq(1..MaxCalls)
  BY <1>1, AppendProperties
<1>3. /\ LastOf(thread[t].seen, n) \in Seq(1..MaxCalls)
      /\ Len(LastOf(thread[t].seen, n)) = IF Len(thread[t].seen) < n THEN Len(thread[t].seen) ELSE n
  BY <1>1, LastOfProperties
<1>4. LET all == Append(thread[t].seen, thread[t].call) IN
      /\ LastOf(all, n) \in Seq(1..MaxCalls)
      /\ Len(LastOf(all, n)) = IF Len(all) < n THEN Len(all) ELSE n
  BY <1>2, LastOfProperties
<1>5. Len(thread[t].seen) \in Nat /\ Len(Append(thread[t].seen, thread[t].call)) \in Nat
  BY <1>1, <1>2, LenProperties
<1> QED BY <1>1, <1>2, <1>3, <1>4, <1>5

LEMMA TypedInit == Init => Typed
<1> SUFFICES ASSUME Init PROVE Typed
  OBVIOUS
<1>1. <<>> \in Records /\ Len(<<>>) = 0 /\ <<>> \in Seq({"build", "store", "finish"})
  BY EmptySeq DEF Records
<1>2. Idle \in Thread
  BY CapsAssumption, <1>1 DEF Idle, Thread, Places, Kinds
<1>3. thread \in [Threads -> Thread] /\ \A t \in Threads : thread[t].pc = "idle"
  BY <1>2 DEF Init, Idle
<1>4. lock \in [Names -> Threads \cup {None}] /\ calls \in 0..MaxCalls
  BY CapsAssumption DEF Init
<1>5. 0 <= SourceCap /\ 0 <= NotesCap
  BY CapsAssumption
<1>6. TypeOK
  BY <1>1, <1>3, <1>4, <1>5 DEF Init, TypeOK, Thread, Places, Kinds
<1> QED BY <1>3, <1>6 DEF Typed, Numbered

LEMMA TypedStep == Typed /\ [Next]_vars => Typed'
<1> SUFFICES ASSUME Typed, [Next]_vars PROVE Typed'
  OBVIOUS
<1> USE DEF files, flags, history
<1>0. TypeOK /\ thread \in [Threads -> Thread]
  BY DEF Typed, TypeOK, Thread, Places, Kinds
<1>1. ASSUME NEW t \in Threads, NEW op \in Kinds, NEW pc \in Places, Call(t, op, pc),
             UNCHANGED <<files, refreshing, running, ideas, job, audited, auditMet, stuck>>,
             lock' \in [Names -> Threads \cup {None}], raced' \in BOOLEAN
      PROVE  Typed'
  <2>1. /\ calls' \in 0..MaxCalls /\ thread' \in [Threads -> Thread]
        /\ thread'[t].call = calls'
        /\ \A u \in Threads \ {t} : thread'[u] = thread[u]
    BY <1>0, <1>1, CallType
  <2>2. calls' >= 1
    BY <1>0, <1>1 DEF Call, TypeOK
  <2>3. TypeOK'
    BY <1>0, <1>1, <2>1 DEF TypeOK, Thread, Places, Kinds
  <2> QED BY <2>1, <2>2, <2>3 DEF Typed, Numbered
<1>2. ASSUME NEW t \in Threads, NEW pc \in Places, thread[t].pc # "idle",
             Goto(t, pc) \/ Done(t), UNCHANGED calls,
             lock' \in [Names -> Threads \cup {None}],
             audit' \in Records, Len(audit') <= SourceCap, audited' \in Records,
             notes' \in Records, Len(notes') <= NotesCap,
             ideas' \in {"none", "fresh", "stale"},
             refreshing' \in BOOLEAN, running' \in BOOLEAN,
             job' \in Seq({"build", "store", "finish"}),
             auditMet' \in BOOLEAN, raced' \in BOOLEAN, stuck' \in BOOLEAN
      PROVE  Typed'
  <2>1. /\ thread' \in [Threads -> Thread]
        /\ thread'[t] = [thread[t] EXCEPT !.pc = pc] \/ thread'[t] = Idle
        /\ \A u \in Threads \ {t} : thread'[u] = thread[u]
    BY <1>0, <1>2, MoveType
  <2>2. TypeOK'
    BY <1>0, <1>2, <2>1 DEF TypeOK, Thread, Places, Kinds
  <2>3. thread'[t].call = thread[t].call \/ thread'[t].pc = "idle"
    BY <1>0, <2>1 DEF Idle, Thread
  <2> QED BY <1>2, <2>1, <2>2, <2>3 DEF Typed, Numbered
<1>3. ASSUME NEW t \in Threads, NEW n \in Names, OpsAcquire(t, n) PROVE Typed'
  BY <1>0, <1>1, <1>3 DEF OpsAcquire, Kinds, Places, TypeOK
<1>4. ASSUME NEW t \in Threads, SourceChange(t) PROVE Typed'
  BY <1>0, <1>1, <1>4 DEF SourceChange, Kinds, Places, TypeOK
<1>5. ASSUME NEW t \in Threads, IdeasGet(t) \/ IdeasTick(t) PROVE Typed'
  BY <1>0, <1>1, <1>5 DEF IdeasGet, IdeasTick, Kinds, Places, TypeOK
<1>6. ASSUME NEW t \in Threads, CycleTest(t) PROVE Typed'
  BY <1>0, <1>1, <1>6 DEF CycleTest, Kinds, Places, TypeOK
<1>7. ASSUME NEW t \in Threads, Maintenance(t) PROVE Typed'
  BY <1>0, <1>1, <1>7 DEF Maintenance, Kinds, Places, TypeOK
<1>8. ASSUME NEW t \in Threads, OpsRun(t) PROVE Typed'
  BY <1>0, <1>2, <1>8 DEF OpsRun, At, Places, TypeOK
<1>9. ASSUME NEW t \in Threads, AuditRead(t) PROVE Typed'
  <2>1. thread' = [thread EXCEPT ![t] = [[@ EXCEPT !.pc = "auditWrite"] EXCEPT !.seen = audit]]
    BY <1>0, <1>9 DEF AuditRead, Thread
  <2>2. [[thread[t] EXCEPT !.pc = "auditWrite"] EXCEPT !.seen = audit] \in Thread
    BY <1>0 DEF Thread, Places, TypeOK
  <2>3. thread' \in [Threads -> Thread]
    BY <1>0, <2>1, <2>2
  <2>4. thread'[t].call = thread[t].call /\ \A u \in Threads \ {t} : thread'[u] = thread[u]
    BY <1>0, <2>1 DEF Thread
  <2>5. TypeOK'
    BY <1>0, <1>9, <2>3 DEF AuditRead, TypeOK, Thread, Places, Kinds
  <2> QED BY <1>9, <2>4, <2>5 DEF AuditRead, At, Typed, Numbered
<1>10. ASSUME NEW t \in Threads, AuditWrite(t) PROVE Typed'
  <2>1. thread[t].pc # "idle"
    BY <1>10 DEF AuditWrite, At
  <2>2. AuditCap(t) \in Nat /\ AuditCap(t) <= SourceCap
    BY CapsAssumption DEF AuditCap
  <2>3. audit' \in Records /\ Len(audit') <= SourceCap
    <3>1. CASE audit' = LastOf(Append(thread[t].seen, thread[t].call), AuditCap(t))
      <4>1. audit' \in Records /\ Len(audit') <= AuditCap(t)
        BY <2>1, <2>2, <3>1, WrittenList
      <4>2. Len(audit') \in Nat /\ SourceCap \in Nat
        BY <4>1, LenProperties, CapsAssumption DEF Records
      <4> QED BY <2>2, <4>1, <4>2
    <3>2. CASE audit' = audit
      BY <1>0, <3>2 DEF TypeOK
    <3> QED BY <1>10, <3>1, <3>2 DEF AuditWrite
  <2>4. audited' \in Records
    <3>1. thread[t].call \in 1..MaxCalls /\ audited \in Seq(1..MaxCalls)
      BY <1>0, <2>1, CapsAssumption, WrittenList DEF TypeOK, Records
    <3>2. Append(audited, thread[t].call) \in Seq(1..MaxCalls)
      BY <3>1, AppendProperties
    <3>3. audited' = audited \/ audited' = Append(audited, thread[t].call)
      BY <1>10 DEF AuditWrite
    <3> QED BY <3>1, <3>2, <3>3 DEF Records
  <2>5. Goto(t, "release") \/ Done(t)
    BY <1>10 DEF AuditWrite, AfterAudit
  <2>6. UNCHANGED <<notes, flags, ideas, job, calls, auditMet, raced, stuck>>
    BY <1>10 DEF AuditWrite
  <2> QED BY <1>0, <1>2, <2>1, <2>3, <2>4, <2>5, <2>6 DEF Places, TypeOK
<1>11. ASSUME NEW t \in Threads, OpsRelease(t) PROVE Typed'
  <2>1. Goto(t, "idle") \/ Done(t)
    BY <1>11 DEF OpsRelease
  <2> QED BY <1>0, <1>2, <1>11, <2>1 DEF OpsRelease, At, Places, TypeOK
<1>12. ASSUME NEW t \in Threads, IdeasQueue(t) PROVE Typed'
  BY <1>0, <1>2, <1>12 DEF IdeasQueue, At, Places, TypeOK
<1>13. ASSUME NEW t \in Threads, IdeasSubmit(t) PROVE Typed'
  <2>1. Append(job, "build") \in Seq({"build", "store", "finish"})
    BY <1>0, AppendProperties DEF TypeOK
  <2>2. Goto(t, "idle") \/ Done(t)
    BY <1>13 DEF IdeasSubmit
  <2> QED BY <1>0, <1>2, <1>13, <2>1, <2>2 DEF IdeasSubmit, At, Places, TypeOK
<1>14. ASSUME NEW t \in Threads, CycleSet(t) PROVE Typed'
  BY <1>0, <1>2, <1>14 DEF CycleSet, At, Places, TypeOK
<1>15. ASSUME NEW t \in Threads, NEW new \in Thread, thread[t].pc # "idle",
              new.call = thread[t].call, thread' = [thread EXCEPT ![t] = new],
              UNCHANGED <<files, flags, ideas, job, calls, history>>
       PROVE  Typed'
  <2>1. thread' \in [Threads -> Thread] /\ thread'[t] = new
        /\ \A u \in Threads \ {t} : thread'[u] = thread[u]
    BY <1>0, <1>15
  <2>2. TypeOK'
    BY <1>0, <1>15, <2>1 DEF TypeOK, Thread, Places, Kinds
  <2> QED BY <1>15, <2>1, <2>2 DEF Typed, Numbered
<1>16. ASSUME NEW t \in Threads, CycleImport(t) PROVE Typed'
  <2>1. PICK failed \in BOOLEAN :
          thread' = [thread EXCEPT ![t] = [[@ EXCEPT !.pc = "noteRead"] EXCEPT !.failed = failed]]
    BY <1>0, <1>16 DEF CycleImport, Thread
  <2> DEFINE new == [[thread[t] EXCEPT !.pc = "noteRead"] EXCEPT !.failed = failed]
  <2>2. new \in Thread /\ new.call = thread[t].call
    BY <1>0 DEF Thread, Places
  <2>3. thread' = [thread EXCEPT ![t] = new]
    BY <1>0, <2>1
  <2> QED BY <1>15, <1>16, <2>2, <2>3 DEF CycleImport, At
<1>17. ASSUME NEW t \in Threads, NoteRead(t) PROVE Typed'
  <2> DEFINE new == [[thread[t] EXCEPT !.pc = "noteWrite"] EXCEPT !.seen = notes]
  <2>1. thread' = [thread EXCEPT ![t] = new]
    BY <1>0, <1>17 DEF NoteRead, Thread
  <2>2. new \in Thread /\ new.call = thread[t].call
    BY <1>0 DEF Thread, Places, TypeOK
  <2> QED BY <1>15, <1>17, <2>1, <2>2 DEF NoteRead, At
<1>18. ASSUME NEW t \in Threads, NoteWrite(t) PROVE Typed'
  <2>1. thread[t].pc # "idle" /\ NotesCap \in Nat
    BY <1>18, CapsAssumption DEF NoteWrite, At
  <2>2. notes' \in Records /\ Len(notes') <= NotesCap
    BY <1>18, <2>1, WrittenList DEF NoteWrite
  <2>3. Goto(t, "end") \/ Done(t)
    BY <1>18 DEF NoteWrite, AfterNote
  <2> QED BY <1>0, <1>2, <1>18, <2>1, <2>2, <2>3 DEF NoteWrite, Places, TypeOK
<1>19. ASSUME NEW t \in Threads, NoteRaises(t) PROVE Typed'
  <2>1. CASE thread[t].op = "cycle" /\ ~thread[t].failed
    <3> DEFINE new == [[[thread[t] EXCEPT !.pc = "noteRead"] EXCEPT !.failed = TRUE] EXCEPT !.seen = <<>>]
    <3>1. thread' = [thread EXCEPT ![t] = new]
      BY <1>0, <1>19, <2>1 DEF NoteRaises, Thread
    <3>2. new \in Thread /\ new.call = thread[t].call
      BY <1>0, EmptySeq DEF Thread, Places, Records
    <3> QED BY <1>15, <1>19, <3>1, <3>2 DEF NoteRaises, At
  <2>2. CASE Goto(t, "end") \/ Done(t)
    BY <1>0, <1>2, <1>19, <2>2 DEF NoteRaises, At, Places, TypeOK
  <2> QED BY <1>19, <2>1, <2>2 DEF NoteRaises, AfterNote
<1>20. ASSUME NEW t \in Threads, CycleEnd(t) PROVE Typed'
  <2>1. Goto(t, "idle") \/ Done(t)
    BY <1>20 DEF CycleEnd
  <2> QED BY <1>0, <1>2, <1>20, <2>1 DEF CycleEnd, At, Places, TypeOK
<1>21. ASSUME Refresh \/ IdeasAge PROVE Typed'
  <2>1. ASSUME job # <<>>, NEW next \in {"store", "finish"}
        PROVE  <<next>> \o Tail(job) \in Seq({"build", "store", "finish"})
    <3>1. Tail(job) \in Seq({"build", "store", "finish"}) /\ <<next>> \in Seq({"build", "store", "finish"})
      BY <1>0, <2>1, HeadTailProperties DEF TypeOK
    <3> QED BY <3>1, ConcatProperties
  <2>2. job # <<>> => Tail(job) \in Seq({"build", "store", "finish"})
    BY <1>0, HeadTailProperties DEF TypeOK
  <2>3. job' \in Seq({"build", "store", "finish"})
    BY <1>0, <1>21, <2>1, <2>2
    DEF Refresh, RefreshBuild, RefreshStore, RefreshFinish, IdeasAge, TypeOK
  <2>4. /\ UNCHANGED <<files, lock, running, thread, calls, history>>
        /\ ideas' \in {"none", "fresh", "stale"} /\ refreshing' \in BOOLEAN
    BY <1>0, <1>21 DEF Refresh, RefreshBuild, RefreshStore, RefreshFinish, IdeasAge, TypeOK
  <2> QED BY <1>0, <2>3, <2>4 DEF Typed, Numbered, TypeOK
<1>22. ASSUME Crash PROVE Typed'
  <2>1. Idle \in Thread /\ <<>> \in Seq({"build", "store", "finish"})
    BY CapsAssumption, EmptySeq DEF Idle, Thread, Places, Kinds, Records
  <2>2. thread' \in [Threads -> Thread] /\ \A t \in Threads : thread'[t].pc = "idle"
    BY <1>22, <2>1 DEF Crash, Idle
  <2>3. TypeOK'
    BY <1>0, <1>22, <2>1, <2>2 DEF Crash, TypeOK, Thread, Places, Kinds
  <2> QED BY <2>2, <2>3 DEF Typed, Numbered
<1>23. ASSUME UNCHANGED vars PROVE Typed'
  BY <1>23 DEF vars, Typed, Numbered, TypeOK
<1> QED
  BY <1>3, <1>4, <1>5, <1>6, <1>7, <1>8, <1>9, <1>10, <1>11, <1>12, <1>13, <1>14, <1>16,
     <1>17, <1>18, <1>19, <1>20, <1>21, <1>22, <1>23
  DEF Next, Begin, Step

\* Every variable keeps its type and the two files their limits, through any
\* interleaving and restart.
THEOREM TypeCorrect == Spec => []TypeOK
<1>1. Typed => TypeOK
  BY DEF Typed
<1> QED BY TypedInit, TypedStep, <1>1, PTL DEF Spec

-----------------------------------------------------------------------------
(* What one step does to where the threads are.                            *)

\* A step changes one thread at most, or it is a crash; every other thread keeps
\* its place and what it holds.
Moves(t) == \A u \in Threads \ {t} : thread'[u] = thread[u]

LEMMA OneMoves ==
  ASSUME TypeOK, NEW t \in Threads, Begin(t) \/ Step(t)
  PROVE  Moves(t)
<1>1. thread \in [Threads -> Thread]
  BY DEF TypeOK, Thread, Places, Kinds
<1>2. CASE Begin(t)
  BY <1>1, <1>2 DEF Begin, OpsAcquire, SourceChange, IdeasGet, IdeasTick, CycleTest, Maintenance, Call, Moves
<1>3. CASE OpsRun(t) \/ AuditRead(t) \/ AuditWrite(t) \/ OpsRelease(t)
  BY <1>1, <1>3 DEF OpsRun, AuditRead, AuditWrite, AfterAudit, OpsRelease, Goto, Done, Moves
<1>4. CASE IdeasQueue(t) \/ IdeasSubmit(t)
  BY <1>1, <1>4 DEF IdeasQueue, IdeasSubmit, Goto, Done, Moves
<1>5. CASE CycleSet(t) \/ CycleImport(t) \/ CycleEnd(t)
  BY <1>1, <1>5 DEF CycleSet, CycleImport, CycleEnd, Goto, Done, Moves
<1>6. CASE NoteRead(t) \/ NoteWrite(t) \/ NoteRaises(t)
  BY <1>1, <1>6 DEF NoteRead, NoteWrite, NoteRaises, AfterNote, Goto, Done, Moves
<1> QED BY <1>2, <1>3, <1>4, <1>5, <1>6 DEF Step

\* What a thread that begins a call does next, and under which name.
LEMMA Begins ==
  ASSUME TypeOK, NEW t \in Threads, Begin(t)
  PROVE  /\ thread'[t].pc \in {"operation", "auditRead", "queue", "set", "noteRead"}
         /\ thread'[t].op = "cycle" <=> CycleTest(t)
         /\ thread'[t].pc = "set" <=> CycleTest(t)
         /\ thread'[t].pc = "noteRead" => thread'[t].op = "maintenance"
<1>1. thread \in [Threads -> Thread]
  BY DEF TypeOK, Thread, Places, Kinds
<1>2. ASSUME NEW n \in Names, OpsAcquire(t, n) PROVE thread'[t].pc = "operation" /\ thread'[t].op = n
  BY <1>2, CallType DEF OpsAcquire, Kinds, Places
<1>3. ASSUME SourceChange(t) PROVE thread'[t].pc = "auditRead" /\ thread'[t].op = "source"
  BY <1>3, CallType DEF SourceChange, Kinds, Places
<1>4. ASSUME IdeasGet(t) \/ IdeasTick(t) PROVE thread'[t].pc = "queue" /\ thread'[t].op = "ideas"
  BY <1>4, CallType DEF IdeasGet, IdeasTick, Kinds, Places
<1>5. ASSUME CycleTest(t) PROVE thread'[t].pc = "set" /\ thread'[t].op = "cycle"
  BY <1>5, CallType DEF CycleTest, Kinds, Places
<1>6. ASSUME Maintenance(t) PROVE thread'[t].pc = "noteRead" /\ thread'[t].op = "maintenance"
  BY <1>6, CallType DEF Maintenance, Kinds, Places
<1>7. \A n \in Names : n # "cycle"
  BY NamesAssumption
<1> QED BY <1>2, <1>3, <1>4, <1>5, <1>6, <1>7 DEF Begin

-----------------------------------------------------------------------------
(* Import cycles.                                                           *)

\* Who is in a cycle says so, the flag is set while one is past its test, and unless
\* two tested it before either had set it there is one cycle in all.
CycleInv ==
  /\ \A t \in Threads :
       /\ thread[t].pc \in {"set", "import", "end"} => thread[t].op = "cycle"
       /\ thread[t].pc \in {"noteRead", "noteWrite"} => thread[t].op \in {"cycle", "maintenance"}
  /\ ~raced =>
       /\ \A t, u \in Threads : thread[t].op = "cycle" /\ thread[u].op = "cycle" => t = u
       /\ \A t \in Threads : InCycle(t) => running

LEMMA CycleStep == Typed /\ CycleInv /\ [Next]_vars => CycleInv'
<1> SUFFICES ASSUME Typed, CycleInv, [Next]_vars PROVE CycleInv'
  OBVIOUS
<1> USE DEF files, flags, history
<1>0. /\ TypeOK /\ thread \in [Threads -> Thread]
      /\ Idle.op = None /\ Idle.pc = "idle" /\ None # "cycle"
  BY NamesAssumption DEF Typed, TypeOK, Thread, Places, Kinds, Idle
<1>1. ASSUME NEW t \in Threads, CycleTest(t) PROVE CycleInv'
  <2>1. Moves(t) /\ thread'[t].pc = "set" /\ thread'[t].op = "cycle"
    BY <1>0, <1>1, OneMoves, Begins DEF Begin
  <2>2. ~running /\ running' = running /\ raced' = (raced \/ Others(t, {"set"}))
    BY <1>1 DEF CycleTest
  <2>3. ASSUME ~raced', NEW u \in Threads \ {t} PROVE thread'[u].op # "cycle"
    <3>1. ~raced /\ thread[u].pc # "set" /\ thread'[u] = thread[u]
      BY <2>1, <2>2, <2>3 DEF Others, Moves
    <3> QED BY <2>2, <3>1 DEF CycleInv, InCycle
  <2> QED BY <2>1, <2>2, <2>3 DEF CycleInv, InCycle, Moves
<1>2. ASSUME NEW t \in Threads, Begin(t), ~CycleTest(t) PROVE CycleInv'
  <2>1. /\ Moves(t) /\ thread'[t].op # "cycle"
        /\ thread'[t].pc \notin {"set", "import", "end", "noteWrite"}
        /\ thread'[t].pc = "noteRead" => thread'[t].op = "maintenance"
    BY <1>0, <1>2, OneMoves, Begins
  <2>2. UNCHANGED <<running, raced>>
    BY <1>2 DEF Begin, OpsAcquire, SourceChange, IdeasGet, IdeasTick, Maintenance
  <2> QED BY <2>1, <2>2 DEF CycleInv, InCycle, Moves
<1>3. ASSUME NEW t \in Threads, Moves(t), UNCHANGED <<running, raced>>, thread'[t] = Idle
      PROVE  CycleInv'
  BY <1>0, <1>3 DEF CycleInv, InCycle, Moves
<1>4. ASSUME NEW t \in Threads, Moves(t), UNCHANGED <<running, raced>>,
             thread'[t].op = thread[t].op, thread[t].pc # "set",
             thread'[t].pc \in {"set", "import", "end"} => thread[t].op = "cycle",
             thread'[t].pc \in {"noteRead", "noteWrite"} => thread[t].op \in {"cycle", "maintenance"}
      PROVE  CycleInv'
  BY <1>4 DEF CycleInv, InCycle, Moves
<1>5. ASSUME NEW t \in Threads, OpsRun(t) \/ AuditRead(t) \/ IdeasQueue(t) \/ NoteRead(t) \/ CycleImport(t)
      PROVE  CycleInv'
  <2>1. Moves(t) /\ UNCHANGED <<running, raced>>
    BY <1>0, <1>5, OneMoves DEF Step, OpsRun, AuditRead, IdeasQueue, NoteRead, CycleImport
  <2>2. CASE thread'[t] = Idle
    BY <1>3, <2>1, <2>2
  <2>3. CASE thread'[t] # Idle
    <3>1. /\ thread'[t].op = thread[t].op /\ thread[t].pc # "set"
          /\ thread'[t].pc \in {"auditRead", "auditWrite", "submit", "noteRead", "noteWrite"}
          /\ thread'[t].pc \in {"noteRead", "noteWrite"} => thread[t].pc \in {"import", "noteRead"}
      BY <1>0, <1>5, <2>3
      DEF OpsRun, AuditRead, IdeasQueue, NoteRead, CycleImport, At, Goto, Done, Thread
    <3> QED BY <1>4, <2>1, <3>1 DEF CycleInv
  <2> QED BY <2>2, <2>3
<1>6. ASSUME NEW t \in Threads, AuditWrite(t) \/ OpsRelease(t) \/ IdeasSubmit(t) PROVE CycleInv'
  <2>1. Moves(t) /\ UNCHANGED <<running, raced>>
    BY <1>0, <1>6, OneMoves DEF Step, AuditWrite, OpsRelease, IdeasSubmit
  <2>2. Done(t) \/ (AuditWrite(t) /\ Goto(t, "release"))
    BY <1>6 DEF AuditWrite, OpsRelease, IdeasSubmit, AfterAudit
  <2>3. CASE Done(t)
    BY <1>0, <1>3, <2>1, <2>3 DEF Done
  <2>4. CASE AuditWrite(t) /\ Goto(t, "release")
    <3>1. thread'[t].op = thread[t].op /\ thread[t].pc = "auditWrite" /\ thread'[t].pc = "release"
      BY <1>0, <2>4 DEF AuditWrite, At, Goto, Thread
    <3> QED BY <1>4, <2>1, <3>1
  <2> QED BY <2>2, <2>3, <2>4
<1>7. ASSUME NEW t \in Threads, CycleSet(t) PROVE CycleInv'
  <2>1. Moves(t) /\ running' = TRUE /\ raced' = raced
    BY <1>0, <1>7, OneMoves DEF Step, CycleSet
  <2>2. thread[t].pc = "set" /\ thread'[t].op = thread[t].op /\ thread'[t].pc = "import"
    BY <1>0, <1>7 DEF CycleSet, At, Goto, Thread
  <2> QED BY <2>1, <2>2 DEF CycleInv, InCycle, Moves
<1>8. ASSUME NEW t \in Threads, NoteWrite(t) \/ NoteRaises(t) PROVE CycleInv'
  <2>1. Moves(t) /\ UNCHANGED <<running, raced>> /\ thread[t].pc = "noteWrite"
    BY <1>0, <1>8, OneMoves DEF Step, NoteWrite, NoteRaises, At
  <2>2. CASE Done(t)
    BY <1>0, <1>3, <2>1, <2>2 DEF Done
  <2>3. CASE Goto(t, "end") /\ thread[t].op # "maintenance"
    <3>1. thread'[t].op = thread[t].op /\ thread'[t].pc = "end"
      BY <1>0, <2>3 DEF Goto, Thread
    <3> QED BY <1>4, <2>1, <2>3, <3>1 DEF CycleInv
  <2>4. CASE /\ thread[t].op = "cycle"
             /\ thread' = [thread EXCEPT ![t].pc = "noteRead", ![t].failed = TRUE, ![t].seen = <<>>]
    <3>1. thread'[t].op = thread[t].op /\ thread'[t].pc = "noteRead"
      BY <1>0, <2>4 DEF Thread
    <3> QED BY <1>4, <2>1, <2>4, <3>1
  <2> QED BY <1>8, <2>2, <2>3, <2>4 DEF NoteWrite, NoteRaises, AfterNote
<1>9. ASSUME NEW t \in Threads, CycleEnd(t) PROVE CycleInv'
  <2>1. Moves(t) /\ raced' = raced /\ thread[t].pc = "end" /\ thread'[t] = Idle
    BY <1>0, <1>9, OneMoves DEF Step, CycleEnd, At, Done
  <2>2. ~raced => \A u \in Threads : thread'[u].op # "cycle"
    BY <1>0, <2>1 DEF CycleInv, Moves
  <2> QED BY <1>0, <2>1, <2>2 DEF CycleInv, InCycle, Moves
<1>10. ASSUME Refresh \/ IdeasAge \/ UNCHANGED vars PROVE CycleInv'
  <2>1. UNCHANGED <<thread, running, raced>>
    BY <1>10 DEF Refresh, RefreshBuild, RefreshStore, RefreshFinish, IdeasAge, vars
  <2> QED BY <2>1 DEF CycleInv, InCycle
<1>11. ASSUME Crash PROVE CycleInv'
  BY <1>0, <1>11 DEF Crash, CycleInv, InCycle
<1> QED
  BY <1>1, <1>2, <1>5, <1>6, <1>7, <1>8, <1>9, <1>10, <1>11 DEF Next, Step

\* Two import cycles never run at once unless both tested MediaAutomationService's
\* flag before either had set it.
THEOREM CyclesExclude == Spec => []OneCycle
<1>1. Init => CycleInv
  BY NamesAssumption DEF Init, CycleInv, InCycle, Idle
<1>2. Typed /\ CycleInv => OneCycle
  BY DEF CycleInv, OneCycle, InCycle
<1> QED BY TypedInit, TypedStep, CycleStep, <1>1, <1>2, PTL DEF Spec

-----------------------------------------------------------------------------
(* The refresh of the ideas.                                                *)

Submits(t) == thread[t].pc = "submit"

\* One refresh in all: a thread that is about to hand one over, or the job.
RefreshInv ==
  /\ \A t, u \in Threads : Submits(t) /\ Submits(u) => t = u
  /\ \A t \in Threads : Submits(t) => refreshing /\ job = <<>>
  /\ job # <<>> => refreshing /\ Len(job) = 1

LEMMA RefreshStep == Typed /\ RefreshInv /\ [Next]_vars => RefreshInv'
<1> SUFFICES ASSUME Typed, RefreshInv, [Next]_vars PROVE RefreshInv'
  OBVIOUS
<1> USE DEF files, flags, history
<1>0. /\ TypeOK /\ thread \in [Threads -> Thread]
      /\ Idle.pc = "idle"
  BY DEF Typed, TypeOK, Thread, Places, Kinds, Idle
<1>1. ASSUME NEW t \in Threads, Moves(t), UNCHANGED <<refreshing, job>>, ~Submits(t)'
      PROVE  RefreshInv'
  BY <1>1 DEF RefreshInv, Submits, Moves
<1>2. ASSUME NEW t \in Threads, Begin(t) PROVE RefreshInv'
  <2>1. UNCHANGED <<refreshing, job>>
    BY <1>2 DEF Begin, OpsAcquire, SourceChange, IdeasGet, IdeasTick, CycleTest, Maintenance
  <2>2. Moves(t) /\ ~Submits(t)'
    BY <1>0, <1>2, OneMoves, Begins DEF Submits
  <2> QED BY <1>1, <2>1, <2>2
<1>3. ASSUME NEW t \in Threads, OpsRun(t) \/ AuditRead(t) \/ AuditWrite(t) \/ OpsRelease(t) PROVE RefreshInv'
  <2>1. UNCHANGED <<refreshing, job>>
    BY <1>3 DEF OpsRun, AuditRead, AuditWrite, OpsRelease
  <2>2. thread'[t].pc \in {"idle", "auditRead", "auditWrite", "release"}
    BY <1>0, <1>3 DEF OpsRun, AuditRead, AuditWrite, AfterAudit, OpsRelease, Goto, Done, Thread
  <2>3. Moves(t)
    BY <1>0, <1>3, OneMoves DEF Step
  <2> QED BY <1>1, <2>1, <2>2, <2>3 DEF Submits
<1>4. ASSUME NEW t \in Threads,
             CycleSet(t) \/ CycleImport(t) \/ NoteRead(t) \/ NoteWrite(t) \/ NoteRaises(t) \/ CycleEnd(t)
      PROVE  RefreshInv'
  <2>1. UNCHANGED <<refreshing, job>>
    BY <1>4 DEF CycleSet, CycleImport, NoteRead, NoteWrite, NoteRaises, CycleEnd
  <2>2. thread'[t].pc \in {"idle", "import", "noteRead", "noteWrite", "end"}
    <3>1. CASE CycleSet(t) \/ CycleImport(t) \/ CycleEnd(t)
      BY <1>0, <3>1 DEF CycleSet, CycleImport, CycleEnd, Goto, Done, Thread
    <3>2. CASE NoteRead(t) \/ NoteWrite(t) \/ NoteRaises(t)
      BY <1>0, <3>2 DEF NoteRead, NoteWrite, NoteRaises, AfterNote, Goto, Done, Thread
    <3> QED BY <1>4, <3>1, <3>2
  <2>3. Moves(t)
    BY <1>0, <1>4, OneMoves DEF Step
  <2> QED BY <1>1, <2>1, <2>2, <2>3 DEF Submits
<1>5. ASSUME NEW t \in Threads, IdeasQueue(t) PROVE RefreshInv'
  <2>1. Moves(t) /\ job' = job
    BY <1>0, <1>5, OneMoves DEF Step, IdeasQueue
  <2>2. CASE Done(t) /\ refreshing' = refreshing
    BY <1>0, <1>1, <2>1, <2>2 DEF Done, Submits
  <2>3. CASE ~refreshing /\ refreshing' = TRUE
    BY <2>1, <2>3 DEF RefreshInv, Submits, Moves
  <2> QED BY <1>5, <2>2, <2>3 DEF IdeasQueue
<1>6. ASSUME NEW t \in Threads, IdeasSubmit(t) PROVE RefreshInv'
  <2>1. /\ Moves(t) /\ refreshing' = refreshing /\ Submits(t) /\ ~Submits(t)'
        /\ job' = job \/ job' = Append(job, "build")
    BY <1>0, <1>6, OneMoves DEF Step, IdeasSubmit, At, Done, Submits
  <2>2. job = <<>> /\ refreshing /\ \A u \in Threads : ~Submits(u)'
    BY <2>1 DEF RefreshInv, Submits, Moves
  <2>3. Len(Append(job, "build")) = 1
    BY <2>2
  <2> QED BY <2>1, <2>2, <2>3 DEF RefreshInv
<1>7. ASSUME Refresh PROVE RefreshInv'
  <2>1. job # <<>> /\ thread' = thread
    BY <1>7 DEF Refresh, RefreshBuild, RefreshStore, RefreshFinish
  <2>2. refreshing /\ Len(job) = 1 /\ \A t \in Threads : ~Submits(t)'
    BY <2>1 DEF RefreshInv, Submits
  <2>3. Tail(job) = <<>>
    <3>1. Tail(job) \in Seq({"build", "store", "finish"}) /\ Len(Tail(job)) = 0
      BY <1>0, <2>1, <2>2, HeadTailProperties DEF TypeOK
    <3> QED BY <3>1, EmptySeq
  <2>4. \A x : <<x>> \o <<>> = <<x>> /\ Len(<<x>>) = 1
    OBVIOUS
  <2>5. RefreshFinish => job' = <<>>
    BY <2>3 DEF RefreshFinish
  <2>6. RefreshBuild \/ RefreshStore => refreshing' = refreshing /\ \E next : job' = <<next>>
    BY <2>3, <2>4 DEF RefreshBuild, RefreshStore
  <2> QED BY <1>7, <2>2, <2>4, <2>5, <2>6 DEF Refresh, RefreshInv
<1>8. ASSUME IdeasAge \/ UNCHANGED vars PROVE RefreshInv'
  <2>1. UNCHANGED <<thread, refreshing, job>>
    BY <1>8 DEF IdeasAge, vars
  <2> QED BY <2>1 DEF RefreshInv, Submits
<1>9. ASSUME Crash PROVE RefreshInv'
  BY <1>0, <1>9 DEF Crash, RefreshInv, Submits
<1> QED
  BY <1>2, <1>3, <1>4, <1>5, <1>6, <1>7, <1>8, <1>9 DEF Next, Step

\* However many requests ask for the market ideas at once, one refresh of them is
\* queued or under way at most, and the flag is set while it is.
THEOREM RefreshesExclude == Spec => []OneRefresh
<1>1. Init => RefreshInv
  BY DEF Init, RefreshInv, Submits, Idle
<1>2. Typed /\ RefreshInv => OneRefresh
  <2> SUFFICES ASSUME Typed, RefreshInv PROVE OneRefresh
    OBVIOUS
  <2> DEFINE S == {t \in Threads : At(t, "submit")}
  <2>1. S = {} \/ \E t \in Threads : S = {t} /\ job = <<>>
    BY DEF RefreshInv, Submits, At
  <2>2. job # <<>> => Len(job) = 1 /\ refreshing
    BY DEF RefreshInv
  <2> HIDE DEF S
  <2>3. CASE job = <<>>
    <3>1. Len(job) = 0
      BY <2>3
    <3>2. Cardinality(S) \in {0, 1}
      BY <2>1, FS_EmptySet, FS_Singleton
    <3>3. Len(job) + Cardinality(S) <= 1
      BY <3>1, <3>2
    <3> QED BY <2>3, <3>3 DEF OneRefresh, S
  <2>4. CASE job # <<>>
    <3>1. Len(job) = 1 /\ refreshing
      BY <2>2, <2>4
    <3>2. Cardinality(S) = 0
      BY <2>1, <2>4, FS_EmptySet
    <3>3. Len(job) + Cardinality(S) <= 1
      BY <3>1, <3>2
    <3> QED BY <3>1, <3>3 DEF OneRefresh, S
  <2> QED BY <2>3, <2>4
<1> QED BY TypedInit, TypedStep, RefreshStep, <1>1, <1>2, PTL DEF Spec

-----------------------------------------------------------------------------
(* The audit file.                                                          *)

\* The first list is the end of the second.
Ends(s, all) ==
  /\ Len(s) <= Len(all)
  /\ \A i \in 1..Len(s) : s[i] = all[Len(all) - Len(s) + i]

\* A list that is the end of another is what LastOf keeps of it.
LEMMA EndIsLast ==
  ASSUME NEW S, NEW s \in Seq(S), NEW all \in Seq(S)
  PROVE  /\ Ends(s, all) => s = LastOf(all, Len(s))
         /\ \A n \in Nat : Len(s) <= n => LastOf(s, n) = s
<1>1. Len(s) \in Nat /\ Len(all) \in Nat
  BY LenProperties
<1>2. ASSUME Ends(s, all) PROVE s = LastOf(all, Len(s))
  <2>1. /\ LastOf(all, Len(s)) \in Seq(S) /\ Len(LastOf(all, Len(s))) = Len(s)
        /\ \A i \in 1..Len(s) : LastOf(all, Len(s))[i] = all[Len(all) - Len(s) + i]
    BY <1>1, <1>2, LastOfProperties DEF Ends
  <2> QED BY <1>2, <2>1, SeqEqual DEF Ends
<1>3. ASSUME NEW n \in Nat, Len(s) <= n PROVE LastOf(s, n) = s
  <2>1. /\ LastOf(s, n) \in Seq(S) /\ Len(LastOf(s, n)) = Len(s)
        /\ \A i \in 1..Len(s) : LastOf(s, n)[i] = s[Len(s) - Len(s) + i]
    BY <1>1, <1>3, LastOfProperties
  <2>2. \A i \in 1..Len(s) : LastOf(s, n)[i] = s[i]
    BY <1>1, <2>1
  <2> QED BY <2>1, <2>2, SeqEqual
<1> QED BY <1>2, <1>3

\* One record more in both lists, and the shorter one cut to n: it is still the end.
LEMMA EndExtends ==
  ASSUME NEW S, NEW s \in Seq(S), NEW all \in Seq(S), NEW x \in S, NEW n \in Nat, Ends(s, all)
  PROVE  /\ Ends(LastOf(Append(s, x), n), Append(all, x))
         /\ Len(LastOf(Append(s, x), n)) = IF Len(s) + 1 < n THEN Len(s) + 1 ELSE n
<1>1. PICK a \in Nat, b \in Nat : a = Len(s) /\ b = Len(all)
  BY LenProperties
<1>2. PICK longer \in Seq(S), longest \in Seq(S) : longer = Append(s, x) /\ longest = Append(all, x)
  BY AppendProperties
<1>3. /\ Len(longer) = a + 1 /\ longer[a + 1] = x
      /\ \A i \in 1..a : longer[i] = s[i]
  BY <1>1, <1>2, AppendProperties
<1>4. /\ Len(longest) = b + 1 /\ longest[b + 1] = x
      /\ \A i \in 1..b : longest[i] = all[i]
  BY <1>1, <1>2, AppendProperties
<1>5. PICK cut \in Seq(S) : cut = LastOf(longer, n)
  BY LastOfProperties
<1>6. PICK c \in Nat : c = Len(cut)
  BY LenProperties
<1>7. /\ c = IF a + 1 < n THEN a + 1 ELSE n
      /\ \A i \in 1..c : cut[i] = longer[a + 1 - c + i]
  <2>1. /\ Len(cut) = IF Len(longer) < n THEN Len(longer) ELSE n
        /\ \A i \in 1..Len(cut) : cut[i] = longer[Len(longer) - Len(cut) + i]
    BY <1>5, LastOfProperties
  <2>2. /\ c = IF a + 1 < n THEN a + 1 ELSE n
    BY <1>3, <1>6, <2>1
  <2> QED BY <1>3, <1>6, <2>1, <2>2
<1>8. a <= b /\ \A i \in 1..a : s[i] = all[b - a + i]
  BY <1>1 DEF Ends
<1>9. ASSUME NEW i \in 1..c PROVE cut[i] = longest[b + 1 - c + i]
  <2>1. PICK k \in 1..(a + 1) : k = a + 1 - c + i
    <3>1. c <= a + 1
      BY <1>7
    <3>2. a + 1 - c + i \in 1..(a + 1)
      BY <3>1
    <3> QED BY <3>2
  <2>2. cut[i] = longer[k]
    BY <1>7, <2>1
  <2>3. CASE k = a + 1
    <3>1. b + 1 - c + i = b + 1
      BY <2>1, <2>3
    <3> QED BY <1>3, <1>4, <2>2, <2>3, <3>1
  <2>4. CASE k # a + 1
    <3>1. k \in 1..a
      BY <2>1, <2>4
    <3>2. longer[k] = s[k] /\ s[k] = all[b - a + k]
      BY <1>3, <1>8, <3>1
    <3>3. b - a + k = b + 1 - c + i /\ b - a + k \in 1..b
      BY <1>8, <2>1, <3>1
    <3>4. longest[b - a + k] = all[b - a + k]
      BY <1>4, <3>3
    <3> QED BY <2>2, <3>2, <3>3, <3>4
  <2> QED BY <2>3, <2>4
<1>10. c <= b + 1
  BY <1>7, <1>8
<1>11. Ends(cut, longest)
  BY <1>4, <1>6, <1>9, <1>10 DEF Ends
<1> QED BY <1>1, <1>2, <1>5, <1>6, <1>7, <1>11

Writes(t) == thread[t].pc = "auditWrite"

\* While no two writers met, there is one writer at most and what it has read is what
\* the file holds; the file is the end of all that was written, at least OpsCap of it.
AuditInv ==
  ~auditMet =>
    /\ \A t, u \in Threads : Writes(t) /\ Writes(u) => t = u
    /\ \A t \in Threads : Writes(t) => thread[t].seen = audit
    /\ Ends(audit, audited)
    /\ Len(audit) >= OpsCap \/ audit = audited

LEMMA AuditStep == Typed /\ AuditInv /\ [Next]_vars => AuditInv'
<1> SUFFICES ASSUME Typed, AuditInv, [Next]_vars PROVE AuditInv'
  OBVIOUS
<1> USE DEF files, flags, history
<1>0. /\ TypeOK /\ thread \in [Threads -> Thread]
      /\ Idle.pc = "idle"
  BY DEF Typed, TypeOK, Thread, Places, Kinds, Idle
<1>1. ASSUME NEW t \in Threads, Moves(t), UNCHANGED <<audit, audited, auditMet>>, ~Writes(t)'
      PROVE  AuditInv'
  BY <1>1 DEF AuditInv, Writes, Moves, Ends
<1>2. ASSUME NEW t \in Threads, Begin(t) PROVE AuditInv'
  <2>1. UNCHANGED <<audit, audited, auditMet>>
    BY <1>2 DEF Begin, OpsAcquire, SourceChange, IdeasGet, IdeasTick, CycleTest, Maintenance
  <2>2. Moves(t) /\ ~Writes(t)'
    BY <1>0, <1>2, OneMoves, Begins DEF Writes
  <2> QED BY <1>1, <2>1, <2>2
<1>3. ASSUME NEW t \in Threads, OpsRun(t) \/ OpsRelease(t) \/ IdeasQueue(t) \/ IdeasSubmit(t)
      PROVE  AuditInv'
  <2>1. UNCHANGED <<audit, audited, auditMet>>
    BY <1>3 DEF OpsRun, OpsRelease, IdeasQueue, IdeasSubmit
  <2>2. thread'[t].pc \in {"idle", "auditRead", "submit"}
    BY <1>0, <1>3 DEF OpsRun, OpsRelease, IdeasQueue, IdeasSubmit, Goto, Done, Thread
  <2>3. Moves(t)
    BY <1>0, <1>3, OneMoves DEF Step
  <2> QED BY <1>1, <2>1, <2>2, <2>3 DEF Writes
<1>4. ASSUME NEW t \in Threads,
             CycleSet(t) \/ CycleImport(t) \/ NoteRead(t) \/ NoteWrite(t) \/ NoteRaises(t) \/ CycleEnd(t)
      PROVE  AuditInv'
  <2>1. UNCHANGED <<audit, audited, auditMet>>
    BY <1>4 DEF CycleSet, CycleImport, NoteRead, NoteWrite, NoteRaises, CycleEnd
  <2>2. thread'[t].pc \in {"idle", "import", "noteRead", "noteWrite", "end"}
    <3>1. CASE CycleSet(t) \/ CycleImport(t) \/ CycleEnd(t)
      BY <1>0, <3>1 DEF CycleSet, CycleImport, CycleEnd, Goto, Done, Thread
    <3>2. CASE NoteRead(t) \/ NoteWrite(t) \/ NoteRaises(t)
      BY <1>0, <3>2 DEF NoteRead, NoteWrite, NoteRaises, AfterNote, Goto, Done, Thread
    <3> QED BY <1>4, <3>1, <3>2
  <2>3. Moves(t)
    BY <1>0, <1>4, OneMoves DEF Step
  <2> QED BY <1>1, <2>1, <2>2, <2>3 DEF Writes
<1>5. ASSUME NEW t \in Threads, AuditRead(t) PROVE AuditInv'
  <2>1. /\ Moves(t) /\ UNCHANGED <<audit, audited>>
        /\ auditMet' = (auditMet \/ Others(t, {"auditWrite"}))
    BY <1>0, <1>5, OneMoves DEF Step, AuditRead
  <2>2. thread'[t].seen = audit
    BY <1>0, <1>5 DEF AuditRead, Thread
  <2>3. ~auditMet' => ~auditMet /\ \A u \in Threads \ {t} : ~Writes(u)'
    BY <2>1 DEF Others, Moves, Writes
  <2> QED BY <2>1, <2>2, <2>3 DEF AuditInv, Writes, Moves, Ends
<1>6. ASSUME NEW t \in Threads, AuditWrite(t) PROVE AuditInv'
  <2>1. Moves(t) /\ auditMet' = auditMet /\ Writes(t)
    BY <1>0, <1>6, OneMoves DEF Step, AuditWrite, At, Writes
  <2>2. ~Writes(t)'
    BY <1>0, <1>6 DEF AuditWrite, AfterAudit, Goto, Done, Thread, Writes
  <2>3. CASE UNCHANGED <<audit, audited>>
    BY <1>1, <2>1, <2>2, <2>3
  <2>4. CASE /\ audit' = LastOf(Append(thread[t].seen, thread[t].call), AuditCap(t))
             /\ audited' = Append(audited, thread[t].call)
    <3> SUFFICES ASSUME ~auditMet PROVE AuditInv'
      BY <2>1 DEF AuditInv
    <3> DEFINE x == thread[t].call
               n == AuditCap(t)
    <3>1. /\ thread[t].seen = audit /\ \A u \in Threads : ~Writes(u)'
          /\ Ends(audit, audited)
      BY <2>1, <2>2 DEF AuditInv, Moves, Writes
    <3>2. /\ audit \in Seq(1..MaxCalls) /\ audited \in Seq(1..MaxCalls) /\ x \in 1..MaxCalls
      BY <1>0, <2>1, CapsAssumption, WrittenList DEF TypeOK, Records, Writes
    <3>3. n \in Nat /\ OpsCap \in Nat /\ n >= OpsCap
      BY CapsAssumption DEF AuditCap
    <3> HIDE DEF x, n
    <3>4. audit' = LastOf(Append(audit, x), n) /\ audited' = Append(audited, x)
      BY <2>4, <3>1 DEF x, n
    <3>5. /\ Ends(audit', audited')
          /\ Len(audit') = IF Len(audit) + 1 < n THEN Len(audit) + 1 ELSE n
      <4> DEFINE C == 1..MaxCalls
      <4>1. audit \in Seq(C) /\ audited \in Seq(C) /\ x \in C /\ n \in Nat /\ Ends(audit, audited)
        BY <3>1, <3>2, <3>3
      <4> HIDE DEF C
      <4>2. /\ Ends(LastOf(Append(audit, x), n), Append(audited, x))
            /\ Len(LastOf(Append(audit, x), n)) = IF Len(audit) + 1 < n THEN Len(audit) + 1 ELSE n
        BY <4>1, EndExtends
      <4> QED BY <3>4, <4>2
    <3>6. Len(audit) \in Nat
      BY <3>2, LenProperties
    <3>7. Len(audit') >= OpsCap \/ audit' = audited'
      <4>1. CASE Len(audit) >= OpsCap
        BY <3>3, <3>5, <3>6, <4>1
      <4>2. CASE audit = audited /\ Len(audit) + 1 <= n
        <5>1. Append(audit, x) \in Seq(1..MaxCalls) /\ Len(Append(audit, x)) = Len(audit) + 1
          BY <3>2, AppendProperties
        <5>2. LastOf(Append(audit, x), n) = Append(audit, x)
          BY <3>3, <4>2, <5>1, EndIsLast
        <5> QED BY <3>4, <4>2, <5>2
      <4>3. CASE Len(audit) + 1 > n
        BY <3>3, <3>5, <3>6, <4>3
      <4> QED BY <3>3, <3>6, <4>1, <4>2, <4>3 DEF AuditInv
    <3> QED BY <3>1, <3>5, <3>7 DEF AuditInv, Ends, Writes
  <2> QED BY <1>6, <2>3, <2>4 DEF AuditWrite
<1>7. ASSUME Refresh \/ IdeasAge \/ UNCHANGED vars PROVE AuditInv'
  <2>1. UNCHANGED <<thread, audit, audited, auditMet>>
    BY <1>7 DEF Refresh, RefreshBuild, RefreshStore, RefreshFinish, IdeasAge, vars
  <2> QED BY <2>1 DEF AuditInv, Writes, Ends
<1>8. ASSUME Crash PROVE AuditInv'
  BY <1>0, <1>8 DEF Crash, AuditInv, Writes, Ends
<1> QED
  BY <1>2, <1>3, <1>4, <1>5, <1>6, <1>7, <1>8 DEF Next, Step

\* While no two writers met, ops_audit.json ends with the latest records that could be
\* written, of operations and source changes alike, and holds OpsCap of them at least
\* if there are as many.
THEOREM AuditComplete == Spec => []AuditKept
<1>1. Init => AuditInv
  <2> SUFFICES ASSUME Init PROVE AuditInv
    OBVIOUS
  <2>1. audit = <<>> /\ audited = <<>> /\ \A t \in Threads : ~Writes(t)
    BY DEF Init, Writes, Idle
  <2>2. Len(<<>>) = 0
    OBVIOUS
  <2> QED BY <2>1, <2>2 DEF AuditInv, Ends
<1>2. Typed /\ AuditInv => AuditKept
  <2> SUFFICES ASSUME Typed, AuditInv, ~auditMet
               PROVE  audit = LastOf(audited, Len(audit)) /\ (Len(audit) >= OpsCap \/ audit = audited)
    BY DEF AuditKept
  <2>1. audit \in Seq(1..MaxCalls) /\ audited \in Seq(1..MaxCalls)
    BY DEF Typed, TypeOK, Records
  <2> QED BY <2>1, EndIsLast DEF AuditInv
<1> QED BY TypedInit, TypedStep, AuditStep, <1>1, <1>2, PTL DEF Spec
=============================================================================
