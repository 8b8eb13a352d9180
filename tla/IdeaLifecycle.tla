--------------------------- MODULE IdeaLifecycle ---------------------------
(***************************************************************************)
(* The life cycle of published trade ideas                                 *)
(* (app/services/idea_lifecycle.py).                                       *)
(*                                                                         *)
(* GET /api/ideas, /api/signals and /api/archive and the background        *)
(* refresh of /api/ideas/market all call apply_idea_lifecycle, each in its *)
(* own thread and with no lock: load active_ideas.json and archive.json,   *)
(* close what hit a level, open what became tradable, and save the two     *)
(* files one after the other.  Saving writes a temporary file, the same    *)
(* for every request, and renames it.  A step here is one load, or one     *)
(* open, write or rename of a save.                                        *)
(***************************************************************************)
EXTENDS Naturals, Sequences, FiniteSets, SequencesExt

CONSTANTS
  Requests,   \* the threads that may be inside apply_idea_lifecycle at once
  Symbols,
  Setups,     \* levels of tradable ideas: [action, sl, tp]
  Wait,       \* the setup of a live idea that is not tradable
  Prices,     \* current prices a live idea can carry
  ArchiveCap, \* archive records kept by a save (1000 in the code)
  MaxCalls,   \* bound: calls of apply_idea_lifecycle
  Faults,     \* {"crash"} or {}
  NoFile,     \* no such file
  Torn        \* content that is not JSON: empty, or two writes over each other

ASSUME LevelAssumption ==
  /\ Setups \subseteq [action : {"BUY", "SELL"}, sl : Nat, tp : Nat]
  /\ Prices \subseteq Nat
  /\ Wait \notin Setups
ASSUME BoundAssumption == ArchiveCap \in Nat /\ MaxCalls \in Nat
ASSUME SymbolsAssumption == IsFiniteSet(Symbols)

Files == {"active", "archive"}
\* An active idea; call is the call that opened it and, with its symbol, its idea_id.
Idea   == [call : 0..MaxCalls, setup : Setups, price : Prices]
Record == [symbol : Symbols, call : 0..MaxCalls, setup : Setups, status : {"tp_hit", "sl_hit"}]
Live   == [setup : Setups \cup {Wait}, price : Prices]
Ideas  == UNION {[D -> Idea] : D \in SUBSET Symbols}
Lives  == UNION {[D -> Live] : D \in SUBSET Symbols}

ASSUME ContentAssumption ==
  /\ NoFile # Torn
  /\ NoFile \notin Ideas /\ NoFile \notin Seq(Record)
  /\ Torn \notin Ideas /\ Torn \notin Seq(Record)

VARIABLES
  disk,    \* contents of active_ideas.json and archive.json
  tmp,     \* contents of the two temporary files
  pc,      \* where each request stands
  saving,  \* the file a request is saving
  fd,      \* where the file is that a request opened as the temporary file
  act,     \* active ideas a request holds in memory
  arch,    \* archive a request holds in memory
  call,    \* number of the request's call
  calls,   \* calls so far
  \* history, read by properties only
  opened,  \* ideas saved as active since the process last died
  met      \* two requests have been inside at once

local == <<pc, saving, fd, act, arch, call>>
vars  == <<disk, tmp, local, calls, opened, met>>

TypeOK ==
  /\ disk \in [active : {Torn} \cup Ideas, archive : {Torn} \cup Seq(Record)]
  /\ tmp \in [active : {Torn, NoFile} \cup Ideas, archive : {Torn, NoFile} \cup Seq(Record)]
  /\ pc \in [Requests -> {"idle", "archive", "open", "write", "replace"}]
  /\ saving \in [Requests -> Files]
  /\ fd \in [Requests -> {"none", "tmp", "disk", "unlinked"}]
  /\ act \in [Requests -> Ideas]
  /\ arch \in [Requests -> Seq(Record)]
  /\ call \in [Requests -> 0..MaxCalls]
  /\ calls \in 0..MaxCalls
  /\ opened \subseteq [symbol : Symbols, call : 0..MaxCalls]
  /\ met \in BOOLEAN

NoIdeas == [s \in {} |-> Wait]

\* First start: a missing file loads as its fallback, {} or [].
Init ==
  /\ disk = [active |-> NoIdeas, archive |-> <<>>]
  /\ tmp = [active |-> NoFile, archive |-> NoFile]
  /\ pc = [r \in Requests |-> "idle"]
  /\ saving = [r \in Requests |-> "active"]
  /\ fd = [r \in Requests |-> "none"]
  /\ act = [r \in Requests |-> NoIdeas]
  /\ arch = [r \in Requests |-> <<>>]
  /\ call = [r \in Requests |-> 0]
  /\ calls = 0
  /\ opened = {} /\ met = FALSE

-----------------------------------------------------------------------------
(* What one call computes.                                                 *)

\* The target is looked at before the stop.
HitStatus(setup, price) ==
  LET beyond(level) == IF setup.action = "BUY" THEN price >= level ELSE price <= level
      short(level)  == IF setup.action = "BUY" THEN price <= level ELSE price >= level
  IN CASE beyond(setup.tp) -> "tp_hit"
       [] ~beyond(setup.tp) /\ short(setup.sl) -> "sl_hit"
       [] OTHER -> "active"

\* A symbol without a live idea is judged by the price stored with its active idea.
StatusOf(ideas, live, s) ==
  HitStatus(ideas[s].setup, IF s \in DOMAIN live THEN live[s].price ELSE ideas[s].price)
Closed(ideas, live) == {s \in DOMAIN ideas : StatusOf(ideas, live, s) # "active"}

\* Mutant: a tradable live idea replaces the active one of its symbol.
Opened_Replaces(ideas, live) == {s \in DOMAIN live : live[s].setup # Wait}

\* A symbol whose idea was just closed may open another one in the same call.
Opened(ideas, live) ==
  {s \in DOMAIN live : live[s].setup # Wait /\ s \notin DOMAIN ideas \ Closed(ideas, live)}

\* Mutant: a closed idea is not popped.
ActiveAfter_KeepsClosed(ideas, live, n) ==
  [s \in DOMAIN ideas \cup Opened(ideas, live) |->
     IF s \in DOMAIN ideas THEN ideas[s]
     ELSE [call |-> n, setup |-> live[s].setup, price |-> live[s].price]]

\* Mutant: an active idea takes the levels of the live one.
ActiveAfter_FreshLevels(ideas, live, n) ==
  [s \in (DOMAIN ideas \ Closed(ideas, live)) \cup Opened(ideas, live) |->
     [call |-> IF s \in Opened(ideas, live) THEN n ELSE ideas[s].call,
      setup |-> IF s \in DOMAIN live /\ live[s].setup # Wait THEN live[s].setup ELSE ideas[s].setup,
      price |-> IF s \in DOMAIN live THEN live[s].price ELSE ideas[s].price]]

ActiveAfter(ideas, live, n) ==
  [s \in (DOMAIN ideas \ Closed(ideas, live)) \cup Opened(ideas, live) |->
     IF s \in Opened(ideas, live)
     THEN [call |-> n, setup |-> live[s].setup, price |-> live[s].price]
     ELSE ideas[s]]

\* Mutant: the archive of this call replaces the earlier records.
ArchiveAfter_Overwrites(ideas, live, records) ==
  LET record(s) == [symbol |-> s, call |-> ideas[s].call, setup |-> ideas[s].setup,
                    status |-> StatusOf(ideas, live, s)]
  IN SetToSeq({record(s) : s \in Closed(ideas, live)})

\* Closed ideas are inserted at the front.
ArchiveAfter(ideas, live, records) ==
  LET record(s) == [symbol |-> s, call |-> ideas[s].call, setup |-> ideas[s].setup,
                    status |-> StatusOf(ideas, live, s)]
  IN SetToSeq({record(s) : s \in Closed(ideas, live)}) \o records

-----------------------------------------------------------------------------
(* apply_idea_lifecycle.                                                   *)

\* Unreadable JSON loads as the fallback, like a missing file.
Begin(r) ==
  /\ pc[r] = "idle"
  /\ calls < MaxCalls
  /\ calls' = calls + 1
  /\ call' = [call EXCEPT ![r] = calls + 1]
  /\ act' = [act EXCEPT ![r] = IF disk.active = Torn THEN NoIdeas ELSE disk.active]
  /\ pc' = [pc EXCEPT ![r] = "archive"]
  /\ met' = (met \/ \E q \in Requests : pc[q] # "idle")
  /\ UNCHANGED <<disk, tmp, saving, fd, arch, opened>>

\* Load the archive and compute what both files will hold.
Apply(r) ==
  /\ pc[r] = "archive"
  /\ \E live \in Lives :
       LET records == IF disk.archive = Torn THEN <<>> ELSE disk.archive IN
       /\ act' = [act EXCEPT ![r] = ActiveAfter(@, live, call[r])]
       /\ arch' = [arch EXCEPT ![r] = ArchiveAfter(act[r], live, records)]
  /\ saving' = [saving EXCEPT ![r] = "active"]
  /\ pc' = [pc EXCEPT ![r] = "open"]
  /\ UNCHANGED <<disk, tmp, fd, call, calls, opened, met>>

Content(r) ==
  IF saving[r] = "active" THEN act[r]
  ELSE SubSeq(arch[r], 1, IF Len(arch[r]) < ArchiveCap THEN Len(arch[r]) ELSE ArchiveCap)

\* write_text opens <file>.tmp, truncating whatever another request has there.
Open(r) ==
  /\ pc[r] = "open"
  /\ tmp' = [tmp EXCEPT ![saving[r]] = Torn]
  /\ fd' = [fd EXCEPT ![r] = "tmp"]
  /\ pc' = [pc EXCEPT ![r] = "write"]
  /\ UNCHANGED <<disk, saving, act, arch, call, calls, opened, met>>

\* Over somebody else's bytes the result need not be JSON; over none it is ours.
Overwrite(old, new) == IF old \in {Torn, new} THEN {new} ELSE {new, Torn}

\* The text goes to the opened file, wherever a rename has put it meanwhile.
Write(r) ==
  /\ pc[r] = "write"
  /\ LET f == saving[r] IN
       \/ /\ fd[r] = "tmp"
          /\ \E c \in Overwrite(tmp[f], Content(r)) : tmp' = [tmp EXCEPT ![f] = c]
          /\ UNCHANGED disk
       \/ /\ fd[r] = "disk"
          /\ \E c \in Overwrite(disk[f], Content(r)) : disk' = [disk EXCEPT ![f] = c]
          /\ UNCHANGED tmp
       \/ fd[r] = "unlinked" /\ UNCHANGED <<disk, tmp>>
  /\ fd' = [fd EXCEPT ![r] = "none"]
  /\ pc' = [pc EXCEPT ![r] = "replace"]
  /\ UNCHANGED <<saving, act, arch, call, calls, opened, met>>

\* The request is over.
Return(r) ==
  /\ pc' = [pc EXCEPT ![r] = "idle"]
  /\ saving' = [saving EXCEPT ![r] = "active"]
  /\ act' = [act EXCEPT ![r] = NoIdeas]
  /\ arch' = [arch EXCEPT ![r] = <<>>]
  /\ call' = [call EXCEPT ![r] = 0]

\* Rename; handles other requests hold on either file move along.
Replace(r) ==
  LET f == saving[r]
      moved(q) == CASE saving[q] = f /\ fd[q] = "tmp"  -> "disk"
                    [] saving[q] = f /\ fd[q] = "disk" -> "unlinked"
                    [] OTHER -> fd[q]
  IN
  /\ pc[r] = "replace"
  /\ tmp[f] # NoFile
  /\ disk' = [disk EXCEPT ![f] = tmp[f]]
  /\ tmp' = [tmp EXCEPT ![f] = NoFile]
  /\ fd' = [q \in Requests |-> moved(q)]
  /\ IF f = "active"
     THEN /\ saving' = [saving EXCEPT ![r] = "archive"]
          /\ pc' = [pc EXCEPT ![r] = "open"]
          /\ UNCHANGED <<act, arch, call>>
     ELSE Return(r)
  /\ opened' = IF f = "active" /\ tmp[f] # Torn
               THEN opened \cup {[symbol |-> s, call |-> tmp[f][s].call] : s \in DOMAIN tmp[f]}
               ELSE opened
  /\ UNCHANGED <<calls, met>>

\* Another request renamed the temporary file first: FileNotFoundError, a 500.
ReplaceFails(r) ==
  /\ pc[r] = "replace"
  /\ tmp[saving[r]] = NoFile
  /\ Return(r)
  /\ UNCHANGED <<disk, tmp, fd, calls, opened, met>>

Crash ==
  /\ "crash" \in Faults
  /\ pc' = [r \in Requests |-> "idle"]
  /\ saving' = [r \in Requests |-> "active"]
  /\ fd' = [r \in Requests |-> "none"]
  /\ act' = [r \in Requests |-> NoIdeas]
  /\ arch' = [r \in Requests |-> <<>>]
  /\ call' = [r \in Requests |-> 0]
  /\ opened' = {}
  /\ UNCHANGED <<disk, tmp, calls, met>>

Step(r) == Begin(r) \/ Apply(r) \/ Open(r) \/ Write(r) \/ Replace(r) \/ ReplaceFails(r)
Next == (\E r \in Requests : Step(r)) \/ Crash
Spec == Init /\ [][Next]_vars

-----------------------------------------------------------------------------
(* Properties.                                                             *)

Visible(s, n) == s \in DOMAIN disk.active /\ disk.active[s].call = n
Archived(records, s, n) == \E k \in DOMAIN records : records[k].symbol = s /\ records[k].call = n

\* test_active_idea_is_locked_until_tp_or_sl, and "the idea is fixed and does not
\* change until TP or SL": as long as no two requests met, an idea leaves the active
\* file only when the request that saves the file has archived it with a hit.
LockedUntilHit ==
  [][\A s \in Symbols :
       (~met /\ s \in DOMAIN disk.active /\ ~(s \in DOMAIN disk'.active /\ disk'.active[s] = disk.active[s]))
       => \E r \in Requests : pc[r] # "idle" /\ Archived(arch[r], s, disk.active[s].call)]_disk

\* A result counts once: unless requests met, no idea is in the archive twice, even when
\* the process dies between saving the two files and the next call sees them disagree.
ArchivedOnce ==
  ~met =>
    \A j, k \in DOMAIN disk.archive :
      disk.archive[j].symbol = disk.archive[k].symbol /\ disk.archive[j].call = disk.archive[k].call
        => j = k

\* "An idea does not vanish": unless requests met, every idea saved as active since the
\* process last died is either still active or archived, never both, unless the archive
\* is full.
NothingLost ==
  ~met /\ (\A r \in Requests : pc[r] = "idle") =>
    \A o \in opened :
      \/ Visible(o.symbol, o.call) # Archived(disk.archive, o.symbol, o.call)
      \/ Len(disk.archive) = ArchiveCap /\ ~Visible(o.symbol, o.call)

\* The ids and levels of a map of ideas, and of a sequence of records.
IdeasIn(m)   == {[symbol |-> s, call |-> m[s].call, setup |-> m[s].setup] : s \in DOMAIN m}
RecordsIn(q) == {[symbol |-> q[k].symbol, call |-> q[k].call, setup |-> q[k].setup] : k \in DOMAIN q}

\* However calls overlap and files tear, an idea_id means one set of levels: no copy
\* on disk or in a request's memory pairs an idea with the levels of another.
OneMeaning ==
  LET ids == (IF disk.active = Torn THEN {} ELSE IdeasIn(disk.active))
             \cup (IF disk.archive = Torn THEN {} ELSE RecordsIn(disk.archive))
             \cup UNION {IdeasIn(act[r]) \cup RecordsIn(arch[r]) : r \in Requests}
  IN \A a, b \in ids : a.symbol = b.symbol /\ a.call = b.call => a.setup = b.setup
=============================================================================
