------------------------ MODULE IdeaLifecycleProofs ------------------------
(***************************************************************************)
(* Proofs about IdeaLifecycle for any number of requests and symbols, any  *)
(* levels and prices: what an idea_id means however requests overlap, and  *)
(* what one request after the other keeps of the active ideas and the      *)
(* archive when the process may die at any step.                           *)
(***************************************************************************)
EXTENDS IdeaLifecycle, FiniteSetTheorems, TLAPS

-----------------------------------------------------------------------------
(* Sequences of a set, and maps of ideas.                                   *)

\* A finite set listed as a sequence: every element, once.
LEMMA Listed ==
  ASSUME NEW S, IsFiniteSet(S)
  PROVE  /\ SetToSeq(S) \in Seq(S) /\ Len(SetToSeq(S)) = Cardinality(S)
         /\ DOMAIN SetToSeq(S) = 1..Cardinality(S) /\ Cardinality(S) \in Nat
         /\ \A x \in S : \E k \in DOMAIN SetToSeq(S) : SetToSeq(S)[k] = x
         /\ \A j, k \in DOMAIN SetToSeq(S) : SetToSeq(S)[j] = SetToSeq(S)[k] => j = k
<1> DEFINE n == Cardinality(S)
           f == SetToSeq(S)
<1>1. n \in Nat /\ ExistsBijection(1..n, S)
  BY FS_CardinalityType
<1>2. \E g \in [1..n -> S] : IsInjective(g)
  BY <1>1 DEF ExistsBijection, Bijection, Injection
<1>3. f \in [1..n -> S] /\ IsInjective(f)
  BY <1>2 DEF SetToSeq
<1> HIDE DEF f
<1>4. f \in Injection(1..n, S)
  BY <1>3 DEF Injection
<1>5. Cardinality(1..n) = n
  BY <1>1, FS_Interval
<1>6. f \in Surjection(1..n, S)
  BY <1>4, <1>5, FS_Injection
<1>7. \A x \in S : \E k \in 1..n : f[k] = x
  BY <1>6 DEF Surjection
<1>8. f \in Seq(S) /\ Len(f) = n
  BY <1>1, <1>3
<1>9. QED BY <1>1, <1>3, <1>7, <1>8 DEF IsInjective, f

LEMMA IdeasType ==
  ASSUME NEW m \in Ideas
  PROVE  /\ DOMAIN m \subseteq Symbols
         /\ \A s \in DOMAIN m : m[s] \in Idea /\ m[s].call \in 0..MaxCalls
                               /\ m[s].setup \in Setups /\ m[s].price \in Prices
BY DEF Ideas, Idea

LEMMA LivesType ==
  ASSUME NEW m \in Lives
  PROVE  /\ DOMAIN m \subseteq Symbols
         /\ \A s \in DOMAIN m : m[s].setup \in Setups \cup {Wait} /\ m[s].price \in Prices
BY DEF Lives, Live

LEMMA NoIdeasType == NoIdeas \in Ideas /\ DOMAIN NoIdeas = {}
<1>1. NoIdeas \in [{} -> Idea]
  BY DEF NoIdeas
<1>2. QED BY <1>1 DEF Ideas, NoIdeas

-----------------------------------------------------------------------------
(* What one call computes.                                                  *)

LEMMA HitType ==
  ASSUME NEW setup, NEW price
  PROVE  HitStatus(setup, price) \in {"tp_hit", "sl_hit", "active"}
BY DEF HitStatus

LEMMA ClosedFinite ==
  ASSUME NEW m \in Ideas, NEW live
  PROVE  IsFiniteSet(Closed(m, live)) /\ Closed(m, live) \subseteq DOMAIN m
<1>1. Closed(m, live) \subseteq DOMAIN m
  BY DEF Closed
<1>2. Closed(m, live) \subseteq Symbols
  BY <1>1, IdeasType
<1>3. QED BY <1>1, <1>2, FS_Subset, SymbolsAssumption

\* What a call makes of the active ideas: those it keeps are as they were, and
\* those it opens have its number and the levels of the live idea.
LEMMA ActiveAfterType ==
  ASSUME NEW m \in Ideas, NEW live \in Lives, NEW n \in 0..MaxCalls
  PROVE  /\ ActiveAfter(m, live, n) \in Ideas
         /\ \A s \in DOMAIN ActiveAfter(m, live, n) :
              \/ /\ s \in Opened(m, live) /\ s \in DOMAIN live
                 /\ ActiveAfter(m, live, n)[s].call = n
                 /\ ActiveAfter(m, live, n)[s].setup = live[s].setup
              \/ /\ s \in DOMAIN m \ Closed(m, live)
                 /\ ActiveAfter(m, live, n)[s] = m[s]
         /\ \A s \in DOMAIN m \ Closed(m, live) :
              s \in DOMAIN ActiveAfter(m, live, n) /\ ActiveAfter(m, live, n)[s] = m[s]
<1> DEFINE D == (DOMAIN m \ Closed(m, live)) \cup Opened(m, live)
           a == ActiveAfter(m, live, n)
           idea(s) == [call |-> n, setup |-> live[s].setup, price |-> live[s].price]
<1>1. a = [s \in D |-> IF s \in Opened(m, live) THEN idea(s) ELSE m[s]]
  BY DEF ActiveAfter
<1>2. Opened(m, live) \subseteq DOMAIN live /\ D \subseteq Symbols
  BY IdeasType, LivesType DEF Opened
<1>3. ASSUME NEW s \in Opened(m, live) PROVE idea(s) \in Idea
  <2>1. s \in DOMAIN live /\ live[s].setup # Wait
    BY <1>3 DEF Opened
  <2>2. live[s].setup \in Setups /\ live[s].price \in Prices
    BY <2>1, LivesType
  <2>3. QED BY <2>2 DEF Idea
<1>4. ASSUME NEW s \in D PROVE a[s] \in Idea
  <2>1. a[s] = IF s \in Opened(m, live) THEN idea(s) ELSE m[s]
    BY <1>1
  <2>2. s \notin Opened(m, live) => m[s] \in Idea
    BY IdeasType
  <2>3. QED BY <1>3, <2>1, <2>2
<1>5. a \in [D -> Idea]
  BY <1>1, <1>4
<1>6. a \in Ideas
  BY <1>2, <1>5 DEF Ideas
<1>7. ASSUME NEW s \in Opened(m, live)
      PROVE  a[s].call = n /\ a[s].setup = live[s].setup /\ s \in DOMAIN live
  BY <1>1, <1>2
<1>8. ASSUME NEW s \in DOMAIN m \ Closed(m, live)
      PROVE  s \in DOMAIN a /\ a[s] = m[s]
  <2>1. s \notin Opened(m, live)
    BY DEF Opened
  <2>2. QED BY <1>1, <2>1
<1>9. DOMAIN a = D
  BY <1>1
<1> HIDE DEF a, idea
<1>10. QED BY <1>6, <1>7, <1>8, <1>9 DEF a
Unique(q) == \A j, k \in DOMAIN q : q[j].symbol = q[k].symbol /\ q[j].call = q[k].call => j = k
Apart(m, q) == \A s \in DOMAIN m : ~Archived(q, s, m[s].call)
Covers(q, records) == \A k \in DOMAIN records : Archived(q, records[k].symbol, records[k].call)

\* The record of an idea that a live price closed.
RecordOf(m, live, s) ==
  [symbol |-> s, call |-> m[s].call, setup |-> m[s].setup, status |-> StatusOf(m, live, s)]

LEMMA RecordsOfClosed ==
  ASSUME NEW m \in Ideas, NEW live
  PROVE  LET S == {RecordOf(m, live, s) : s \in Closed(m, live)}
         IN IsFiniteSet(S) /\ S \subseteq Record
<1> DEFINE C == Closed(m, live)
           S == {RecordOf(m, live, s) : s \in C}
           f == [s \in C |-> RecordOf(m, live, s)]
<1>1. IsFiniteSet(C) /\ C \subseteq DOMAIN m /\ C \subseteq Symbols
  BY ClosedFinite, IdeasType
<1>2. f \in Surjection(C, S)
  BY DEF Surjection
<1>3. IsFiniteSet(S)
  <2> HIDE DEF f, S, C
  <2> QED BY <1>1, <1>2, FS_Surjection
<1>4. ASSUME NEW s \in C PROVE RecordOf(m, live, s) \in Record
  <2>1. StatusOf(m, live, s) \in {"tp_hit", "sl_hit"}
    BY HitType DEF Closed, StatusOf
  <2>2. m[s].call \in 0..MaxCalls /\ m[s].setup \in Setups /\ s \in Symbols
    BY <1>1, IdeasType
  <2>3. QED BY <2>1, <2>2 DEF RecordOf, Record
<1>5. QED BY <1>3, <1>4

\* The archive a call computes: a record of every idea it closed, in front of
\* all the earlier records, and nothing else.
LEMMA ArchiveAfterType ==
  ASSUME NEW m \in Ideas, NEW live, NEW records \in Seq(Record)
  PROVE  /\ ArchiveAfter(m, live, records) \in Seq(Record)
         /\ Len(ArchiveAfter(m, live, records)) >= Len(records)
         /\ \A k \in DOMAIN ArchiveAfter(m, live, records) :
              \/ \E s \in Closed(m, live) :
                   ArchiveAfter(m, live, records)[k] = RecordOf(m, live, s)
              \/ \E j \in DOMAIN records : ArchiveAfter(m, live, records)[k] = records[j]
         /\ \A s \in Closed(m, live) :
              Archived(ArchiveAfter(m, live, records), s, m[s].call)
         /\ Covers(ArchiveAfter(m, live, records), records)
         /\ Unique(records) /\ Apart(m, records) => Unique(ArchiveAfter(m, live, records))
<1> DEFINE C == Closed(m, live)
           S == {RecordOf(m, live, s) : s \in C}
           new == SetToSeq(S)
           a == ArchiveAfter(m, live, records)
           N == Cardinality(S)
<1>1. IsFiniteSet(S) /\ S \subseteq Record
  BY RecordsOfClosed
<1>2. a = new \o records
  BY DEF ArchiveAfter, RecordOf
<1>3. /\ new \in Seq(S) /\ Len(new) = N /\ DOMAIN new = 1..N /\ N \in Nat
      /\ \A x \in S : \E k \in 1..N : new[k] = x
      /\ \A j, k \in 1..N : new[j] = new[k] => j = k
  <2> HIDE DEF S
  <2> QED BY <1>1, Listed
<1>4. \A x \in S : \E s \in C : x = RecordOf(m, live, s)
  OBVIOUS
<1>5. \A s \in C : RecordOf(m, live, s) \in S
  OBVIOUS
<1> HIDE DEF S, new, N, a
<1>6. new \in Seq(Record) /\ \A k \in 1..N : new[k] \in S
  BY <1>1, <1>3
<1>7. PICK L \in Nat : Len(records) = L /\ DOMAIN records = 1..L
  OBVIOUS
<1>8. /\ a \in Seq(Record) /\ Len(a) = N + L /\ DOMAIN a = 1..(N + L)
      /\ \A k \in 1..N : a[k] = new[k]
      /\ \A k \in (N + 1)..(N + L) : a[k] = records[k - N]
  <2>1. a \in Seq(Record)
    BY <1>2, <1>6
  <2>2. Len(a) = N + L
    <3>1. Len(new) = N /\ Len(records) = L
      BY <1>3, <1>7
    <3>2. Len(a) = Len(new) + Len(records)
      BY <1>2, <1>6
    <3>3. QED BY <3>1, <3>2
  <2>3. DOMAIN a = 1..(N + L)
    BY <2>1, <2>2
  <2>4. ASSUME NEW k \in 1..N PROVE a[k] = new[k]
    BY <1>2, <1>3, <1>6, <1>7
  <2>5. ASSUME NEW k \in (N + 1)..(N + L) PROVE a[k] = records[k - N]
    BY <1>2, <1>3, <1>6, <1>7
  <2>6. QED BY <2>1, <2>2, <2>3, <2>4, <2>5
<1>9. \A k \in 1..(N + L) : k \in 1..N \/ (k \in (N + 1)..(N + L) /\ k - N \in 1..L)
  BY <1>3, <1>7
<1>10. ASSUME NEW k \in DOMAIN a
       PROVE  \/ \E s \in C : a[k] = RecordOf(m, live, s)
              \/ \E j \in DOMAIN records : a[k] = records[j]
  <2>1. CASE k \in 1..N
    BY <1>4, <1>6, <1>8, <2>1
  <2>2. CASE k \in (N + 1)..(N + L) /\ k - N \in 1..L
    BY <1>7, <1>8, <2>2
  <2>3. QED BY <1>8, <1>9, <2>1, <2>2
<1>11. ASSUME NEW s \in C PROVE Archived(a, s, m[s].call)
  <2>1. PICK k \in 1..N : new[k] = RecordOf(m, live, s)
    BY <1>3, <1>5
  <2>2. k \in DOMAIN a /\ a[k] = RecordOf(m, live, s)
    BY <1>3, <1>7, <1>8, <2>1
  <2>3. a[k].symbol = s /\ a[k].call = m[s].call
    BY <2>2 DEF RecordOf
  <2>4. QED BY <2>2, <2>3 DEF Archived
<1>12. Covers(a, records)
  <2>1. ASSUME NEW j \in DOMAIN records PROVE Archived(a, records[j].symbol, records[j].call)
    <3>1. N + j \in (N + 1)..(N + L) /\ N + j \in 1..(N + L) /\ (N + j) - N = j
      BY <1>3, <1>7
    <3>2. N + j \in DOMAIN a /\ a[N + j] = records[j]
      BY <1>8, <3>1
    <3>3. QED BY <3>2 DEF Archived
  <2>2. QED BY <2>1 DEF Covers
<1>13. ASSUME Unique(records), Apart(m, records) PROVE Unique(a)
  <2> SUFFICES ASSUME NEW j \in DOMAIN a, NEW k \in DOMAIN a,
                      a[j].symbol = a[k].symbol, a[j].call = a[k].call
               PROVE  j = k
    BY DEF Unique
  <2>1. ASSUME NEW i \in 1..N
        PROVE  \E s \in DOMAIN m : s \in C /\ a[i] = RecordOf(m, live, s)
                 /\ a[i].symbol = s /\ a[i].call = m[s].call
    <3>1. PICK s \in C : new[i] = RecordOf(m, live, s)
      BY <1>4, <1>6
    <3>2. s \in DOMAIN m
      BY ClosedFinite
    <3>3. a[i] = RecordOf(m, live, s)
      BY <1>8, <3>1
    <3>4. QED BY <3>2, <3>3 DEF RecordOf
  <2>2. CASE j \in 1..N /\ k \in 1..N
    <3>1. a[j] = a[k]
      BY <2>1, <2>2
    <3>2. QED BY <1>3, <1>8, <2>2, <3>1
  <2>3. ASSUME NEW x \in 1..N, NEW y \in (N + 1)..(N + L), y - N \in 1..L,
               a[x].symbol = a[y].symbol, a[x].call = a[y].call
        PROVE  FALSE
    <3>1. PICK s \in DOMAIN m : a[x].symbol = s /\ a[x].call = m[s].call
      BY <2>1
    <3>2. a[y] = records[y - N] /\ y - N \in DOMAIN records
      BY <1>7, <1>8, <2>3
    <3>3. Archived(records, s, m[s].call)
      BY <2>3, <3>1, <3>2 DEF Archived
    <3>4. QED BY <1>13, <3>3 DEF Apart
  <2>4. CASE j \in (N + 1)..(N + L) /\ k \in (N + 1)..(N + L) /\ j - N \in 1..L /\ k - N \in 1..L
    <3>1. a[j] = records[j - N] /\ a[k] = records[k - N]
      BY <1>8, <2>4
    <3>2. j - N = k - N
      BY <1>7, <1>13, <2>4, <3>1 DEF Unique
    <3>3. QED BY <1>3, <1>7, <2>4, <3>2
  <2>5. QED BY <1>8, <1>9, <2>2, <2>3, <2>4
<1>14. Len(a) >= Len(records)
  BY <1>3, <1>7, <1>8
<1>15. QED BY <1>8, <1>10, <1>11, <1>12, <1>13, <1>14 DEF a

-----------------------------------------------------------------------------
(* Types.                                                                   *)

\* What a request saves is a map of ideas, or records cut to the archive's cap.
LEMMA ContentType ==
  ASSUME TypeOK, NEW r \in Requests
  PROVE  /\ saving[r] = "active" => Content(r) = act[r] /\ Content(r) \in Ideas
         /\ saving[r] = "archive" =>
              /\ Content(r) \in Seq(Record)
              /\ Len(Content(r)) \in Nat /\ Len(Content(r)) <= Len(arch[r])
              /\ Len(Content(r)) = IF Len(arch[r]) < ArchiveCap THEN Len(arch[r]) ELSE ArchiveCap
              /\ \A k \in DOMAIN Content(r) : k \in DOMAIN arch[r] /\ Content(r)[k] = arch[r][k]
<1>1. act[r] \in Ideas /\ arch[r] \in Seq(Record)
  BY DEF TypeOK
<1>2. CASE saving[r] = "active"
  BY <1>1, <1>2 DEF Content
<1>3. CASE saving[r] = "archive"
  <2>1. PICK L \in Nat : Len(arch[r]) = L /\ DOMAIN arch[r] = 1..L
    BY <1>1
  <2> DEFINE n == IF L < ArchiveCap THEN L ELSE ArchiveCap
  <2>2. n \in Nat /\ n <= L
    BY BoundAssumption
  <2>3. Content(r) = SubSeq(arch[r], 1, n)
    BY <1>3, <2>1 DEF Content
  <2> HIDE DEF n
  <2>4. Content(r) \in Seq(Record) /\ Len(Content(r)) = n
    BY <1>1, <2>1, <2>2, <2>3
  <2>5. DOMAIN Content(r) = 1..n
    BY <2>4
  <2>6. ASSUME NEW k \in 1..n PROVE k \in 1..L /\ Content(r)[k] = arch[r][k]
    BY <1>1, <2>1, <2>2, <2>3
  <2>7. QED BY <1>3, <2>1, <2>2, <2>4, <2>5, <2>6 DEF n
<1>4. QED BY <1>2, <1>3

\* The kinds of content a file on disk and a temporary file may have.
FileOf(f) == IF f = "active" THEN Ideas ELSE Seq(Record)

LEMMA FilesType ==
  ASSUME TypeOK, NEW f \in Files
  PROVE  disk[f] \in {Torn} \cup FileOf(f) /\ tmp[f] \in {Torn, NoFile} \cup FileOf(f)
BY DEF TypeOK, Files, FileOf

LEMMA OverwriteType ==
  ASSUME TypeOK, NEW r \in Requests, NEW old, NEW c \in Overwrite(old, Content(r))
  PROVE  c = Torn \/ (c = Content(r) /\ c \in FileOf(saving[r]))
<1>1. saving[r] \in Files
  BY DEF TypeOK
<1>2. Content(r) \in FileOf(saving[r])
  BY <1>1, ContentType DEF Files, FileOf
<1>3. QED BY <1>2 DEF Overwrite

LEMMA TypeInductive ==
  TypeOK /\ [Next]_vars => TypeOK'
<1> SUFFICES ASSUME TypeOK, [Next]_vars PROVE TypeOK'
  OBVIOUS
<1>1. /\ disk \in [active : {Torn} \cup Ideas, archive : {Torn} \cup Seq(Record)]
      /\ tmp \in [active : {Torn, NoFile} \cup Ideas, archive : {Torn, NoFile} \cup Seq(Record)]
      /\ pc \in [Requests -> {"idle", "archive", "open", "write", "replace"}]
      /\ saving \in [Requests -> Files]
      /\ fd \in [Requests -> {"none", "tmp", "disk", "unlinked"}]
      /\ act \in [Requests -> Ideas] /\ arch \in [Requests -> Seq(Record)]
      /\ call \in [Requests -> 0..MaxCalls] /\ calls \in 0..MaxCalls
      /\ opened \subseteq [symbol : Symbols, call : 0..MaxCalls] /\ met \in BOOLEAN
  BY DEF TypeOK
<1>2. 0 \in 0..MaxCalls /\ NoIdeas \in Ideas /\ <<>> \in Seq(Record)
  BY BoundAssumption, NoIdeasType
<1>3. ASSUME NEW f \in Files, NEW c \in {Torn} \cup FileOf(f)
      PROVE /\ [disk EXCEPT ![f] = c] \in [active : {Torn} \cup Ideas, archive : {Torn} \cup Seq(Record)]
            /\ [tmp EXCEPT ![f] = c] \in [active : {Torn, NoFile} \cup Ideas, archive : {Torn, NoFile} \cup Seq(Record)]
            /\ [tmp EXCEPT ![f] = NoFile] \in [active : {Torn, NoFile} \cup Ideas, archive : {Torn, NoFile} \cup Seq(Record)]
  BY <1>1 DEF Files, FileOf
<1>4. ASSUME NEW r \in Requests, Begin(r) PROVE TypeOK'
  <2>1. calls + 1 \in 0..MaxCalls
    BY <1>1, <1>4, BoundAssumption DEF Begin
  <2>2. (IF disk.active = Torn THEN NoIdeas ELSE disk.active) \in Ideas
    BY <1>1, <1>2
  <2>3. QED BY <1>1, <1>4, <2>1, <2>2 DEF Begin, TypeOK
<1>5. ASSUME NEW r \in Requests, Apply(r) PROVE TypeOK'
  <2> DEFINE records == IF disk.archive = Torn THEN <<>> ELSE disk.archive
  <2>1. PICK live \in Lives :
          /\ act' = [act EXCEPT ![r] = ActiveAfter(act[r], live, call[r])]
          /\ arch' = [arch EXCEPT ![r] = ArchiveAfter(act[r], live, records)]
    BY <1>5 DEF Apply
  <2>2. records \in Seq(Record) /\ act[r] \in Ideas /\ call[r] \in 0..MaxCalls
    BY <1>1, <1>2
  <2> HIDE DEF records
  <2>3. /\ ActiveAfter(act[r], live, call[r]) \in Ideas
        /\ ArchiveAfter(act[r], live, records) \in Seq(Record)
    BY <2>2, ActiveAfterType, ArchiveAfterType
  <2>4. act' \in [Requests -> Ideas] /\ arch' \in [Requests -> Seq(Record)]
    BY <1>1, <2>1, <2>3
  <2>5. /\ pc' \in [Requests -> {"idle", "archive", "open", "write", "replace"}]
        /\ saving' \in [Requests -> Files]
    BY <1>1, <1>5 DEF Apply, Files
  <2>6. QED BY <1>1, <1>5, <2>4, <2>5 DEF Apply, TypeOK
<1>6. ASSUME NEW r \in Requests, Open(r) PROVE TypeOK'
  <2>1. tmp' \in [active : {Torn, NoFile} \cup Ideas, archive : {Torn, NoFile} \cup Seq(Record)]
    BY <1>1, <1>3, <1>6 DEF Open
  <2>2. QED BY <1>1, <1>6, <2>1 DEF Open, TypeOK
<1>7. ASSUME NEW r \in Requests, Write(r) PROVE TypeOK'
  <2> DEFINE f == saving[r]
  <2>1. f \in Files
    BY <1>1
  <2>2. /\ disk' \in [active : {Torn} \cup Ideas, archive : {Torn} \cup Seq(Record)]
        /\ tmp' \in [active : {Torn, NoFile} \cup Ideas, archive : {Torn, NoFile} \cup Seq(Record)]
    <3>1. CASE UNCHANGED disk /\ \E c \in Overwrite(tmp[f], Content(r)) : tmp' = [tmp EXCEPT ![f] = c]
      BY <1>1, <1>3, <2>1, <3>1, OverwriteType
    <3>2. CASE UNCHANGED tmp /\ \E c \in Overwrite(disk[f], Content(r)) : disk' = [disk EXCEPT ![f] = c]
      BY <1>1, <1>3, <2>1, <3>2, OverwriteType
    <3>3. CASE UNCHANGED <<disk, tmp>>
      BY <1>1, <3>3
    <3>4. QED BY <1>7, <3>1, <3>2, <3>3 DEF Write
  <2> HIDE DEF f
  <2>3. QED BY <1>1, <1>7, <2>2 DEF Write, TypeOK
<1>8. ASSUME NEW r \in Requests, Return(r)
      PROVE  /\ pc' \in [Requests -> {"idle", "archive", "open", "write", "replace"}]
             /\ saving' \in [Requests -> Files]
             /\ act' \in [Requests -> Ideas] /\ arch' \in [Requests -> Seq(Record)]
             /\ call' \in [Requests -> 0..MaxCalls]
  BY <1>1, <1>2, <1>8 DEF Return, Files
<1>9. ASSUME NEW r \in Requests, Replace(r) PROVE TypeOK'
  <2> DEFINE f == saving[r]
  <2>1. f \in Files /\ tmp[f] \in {Torn} \cup FileOf(f)
    BY <1>1, <1>9, FilesType DEF Replace
  <2>2. /\ disk' \in [active : {Torn} \cup Ideas, archive : {Torn} \cup Seq(Record)]
        /\ tmp' \in [active : {Torn, NoFile} \cup Ideas, archive : {Torn, NoFile} \cup Seq(Record)]
    BY <1>3, <1>9, <2>1 DEF Replace
  <2>3. /\ pc' \in [Requests -> {"idle", "archive", "open", "write", "replace"}]
        /\ saving' \in [Requests -> Files]
        /\ act' \in [Requests -> Ideas] /\ arch' \in [Requests -> Seq(Record)]
        /\ call' \in [Requests -> 0..MaxCalls]
    <3>1. CASE f = "active"
      BY <1>1, <1>9, <3>1 DEF Replace, Files
    <3>2. CASE f # "active"
      BY <1>8, <1>9, <3>2 DEF Replace
    <3>3. QED BY <3>1, <3>2
  <2>4. fd' \in [Requests -> {"none", "tmp", "disk", "unlinked"}]
    BY <1>1, <1>9 DEF Replace
  <2>5. opened' \subseteq [symbol : Symbols, call : 0..MaxCalls]
    <3>1. CASE f = "active" /\ tmp[f] # Torn
      <4>1. tmp[f] \in Ideas
        BY <2>1, <3>1 DEF FileOf
      <4>2. opened' = opened \cup {[symbol |-> s, call |-> tmp[f][s].call] : s \in DOMAIN tmp[f]}
        BY <1>9, <3>1 DEF Replace
      <4>3. \A s \in DOMAIN tmp[f] : s \in Symbols /\ tmp[f][s].call \in 0..MaxCalls
        BY <4>1, IdeasType
      <4> HIDE DEF f
      <4>4. QED BY <1>1, <4>2, <4>3
    <3>2. CASE ~(f = "active" /\ tmp[f] # Torn)
      BY <1>1, <1>9, <3>2 DEF Replace
    <3>3. QED BY <3>1, <3>2
  <2>6. UNCHANGED <<calls, met>>
    BY <1>9 DEF Replace
  <2> HIDE DEF f
  <2>7. QED BY <1>1, <2>2, <2>3, <2>4, <2>5, <2>6 DEF TypeOK
<1>10. ASSUME NEW r \in Requests, ReplaceFails(r) PROVE TypeOK'
  BY <1>1, <1>8, <1>10 DEF ReplaceFails, TypeOK
<1>11. CASE Crash
  <2>1. /\ pc' \in [Requests -> {"idle", "archive", "open", "write", "replace"}]
        /\ saving' \in [Requests -> Files]
        /\ fd' \in [Requests -> {"none", "tmp", "disk", "unlinked"}]
    BY <1>11 DEF Crash, Files
  <2>2. /\ act' \in [Requests -> Ideas] /\ arch' \in [Requests -> Seq(Record)]
        /\ call' \in [Requests -> 0..MaxCalls]
    BY <1>2, <1>11 DEF Crash
  <2>3. UNCHANGED <<disk, tmp, calls, met>> /\ opened' = {}
    BY <1>11 DEF Crash
  <2>4. QED BY <1>1, <2>1, <2>2, <2>3 DEF TypeOK
<1>12. CASE UNCHANGED vars
  BY <1>1, <1>12 DEF vars, local, TypeOK
<1>13. QED
  BY <1>4, <1>5, <1>6, <1>7, <1>9, <1>10, <1>11, <1>12 DEF Next, Step

LEMMA InitTypes ==
  Init => TypeOK
<1> SUFFICES ASSUME Init PROVE TypeOK
  OBVIOUS
<1>1. 0 \in 0..MaxCalls /\ NoIdeas \in Ideas /\ <<>> \in Seq(Record)
  BY BoundAssumption, NoIdeasType
<1>2. disk \in [active : {Torn} \cup Ideas, archive : {Torn} \cup Seq(Record)]
  BY <1>1 DEF Init
<1>3. tmp \in [active : {Torn, NoFile} \cup Ideas, archive : {Torn, NoFile} \cup Seq(Record)]
  BY DEF Init
<1>4. /\ pc \in [Requests -> {"idle", "archive", "open", "write", "replace"}]
      /\ saving \in [Requests -> Files]
      /\ fd \in [Requests -> {"none", "tmp", "disk", "unlinked"}]
  BY DEF Init, Files
<1>5. /\ act \in [Requests -> Ideas] /\ arch \in [Requests -> Seq(Record)]
      /\ call \in [Requests -> 0..MaxCalls]
  BY <1>1 DEF Init
<1>6. calls \in 0..MaxCalls /\ opened = {} /\ met \in BOOLEAN
  BY <1>1 DEF Init
<1>7. QED BY <1>2, <1>3, <1>4, <1>5, <1>6 DEF TypeOK

\* Files, temporary files and what requests hold are ideas and records of the
\* known symbols and levels, or torn, whatever requests overlap or die.
THEOREM TypeCorrect == Spec => []TypeOK
BY InitTypes, TypeInductive, PTL DEF Spec

-----------------------------------------------------------------------------
(* What an idea_id means.                                                   *)

\* The ids with their levels in a file, on disk or temporary.
FileClaims(f, c) ==
  IF c \in {Torn, NoFile} THEN {} ELSE IF f = "active" THEN IdeasIn(c) ELSE RecordsIn(c)

\* All copies of ids with their levels, those in temporary files included.
Claims ==
  (UNION {FileClaims(f, disk[f]) \cup FileClaims(f, tmp[f]) : f \in Files})
  \cup UNION {IdeasIn(act[r]) \cup RecordsIn(arch[r]) : r \in Requests}

OneSetup == \A a, b \in Claims : a.symbol = b.symbol /\ a.call = b.call => a.setup = b.setup
Numbered == \A a \in Claims : a.call \in 0..MaxCalls /\ a.call <= calls

\* Until it has computed, nothing bears a request's number.
FreshCall ==
  \A r \in Requests : pc[r] = "archive" =>
    /\ call[r] <= calls
    /\ \A a \in Claims : a.call # call[r]
    /\ \A q \in Requests : q # r /\ pc[q] = "archive" => call[q] # call[r]

MeaningInv == OneSetup /\ Numbered /\ FreshCall

\* The ids a call may open.
NewClaims(live, n) == {[symbol |-> s, call |-> n, setup |-> live[s].setup] : s \in DOMAIN live}

LEMMA ClaimsOfFiles ==
  ASSUME NEW f \in Files
  PROVE  FileClaims(f, disk[f]) \subseteq Claims /\ FileClaims(f, tmp[f]) \subseteq Claims
<1> DEFINE here(g) == FileClaims(g, disk[g]) \cup FileClaims(g, tmp[g])
           all == {here(g) : g \in Files}
<1>1. here(f) \in all
  OBVIOUS
<1>2. FileClaims(f, disk[f]) \subseteq here(f) /\ FileClaims(f, tmp[f]) \subseteq here(f)
  OBVIOUS
<1>3. UNION all \subseteq Claims
  BY DEF Claims
<1> HIDE DEF here, all
<1>4. QED BY <1>1, <1>2, <1>3

LEMMA ClaimsOfRequests ==
  ASSUME NEW r \in Requests
  PROVE  IdeasIn(act[r]) \subseteq Claims /\ RecordsIn(arch[r]) \subseteq Claims
<1> DEFINE here(q) == IdeasIn(act[q]) \cup RecordsIn(arch[q])
           all == {here(q) : q \in Requests}
<1>1. here(r) \in all
  OBVIOUS
<1>2. IdeasIn(act[r]) \subseteq here(r) /\ RecordsIn(arch[r]) \subseteq here(r)
  OBVIOUS
<1>3. UNION all \subseteq Claims
  BY DEF Claims
<1> HIDE DEF here, all
<1>4. QED BY <1>1, <1>2, <1>3

LEMMA ClaimsNext ==
  ASSUME NEW X,
         \A f \in Files : FileClaims(f, disk'[f]) \subseteq X /\ FileClaims(f, tmp'[f]) \subseteq X,
         \A r \in Requests : IdeasIn(act'[r]) \subseteq X /\ RecordsIn(arch'[r]) \subseteq X
  PROVE  Claims' \subseteq X
<1> DEFINE file(f) == FileClaims(f, disk'[f]) \cup FileClaims(f, tmp'[f])
           request(r) == IdeasIn(act'[r]) \cup RecordsIn(arch'[r])
           files == {file(f) : f \in Files}
           requests == {request(r) : r \in Requests}
<1>1. Claims' = (UNION files) \cup (UNION requests)
  BY DEF Claims
<1>2. \A f \in Files : file(f) \subseteq X
  OBVIOUS
<1>3. \A r \in Requests : request(r) \subseteq X
  OBVIOUS
<1> HIDE DEF file, request
<1>4. (\A S \in files : S \subseteq X) /\ (\A S \in requests : S \subseteq X)
  BY <1>2, <1>3
<1> HIDE DEF files, requests
<1>5. UNION files \subseteq X /\ UNION requests \subseteq X
  BY <1>4
<1>6. QED BY <1>1, <1>5

LEMMA NothingClaimed ==
  IdeasIn(NoIdeas) = {} /\ RecordsIn(<<>>) = {}
BY NoIdeasType DEF IdeasIn, RecordsIn

\* What is saved was in the request's memory.
LEMMA ContentClaims ==
  ASSUME TypeOK, NEW r \in Requests
  PROVE  FileClaims(saving[r], Content(r)) \subseteq Claims
<1>1. saving[r] \in Files
  BY DEF TypeOK
<1>2. CASE saving[r] = "active"
  BY <1>2, ContentType, ClaimsOfRequests DEF FileClaims
<1>3. CASE saving[r] = "archive"
  <2>1. \A k \in DOMAIN Content(r) : k \in DOMAIN arch[r] /\ Content(r)[k] = arch[r][k]
    BY <1>3, ContentType
  <2>2. RecordsIn(Content(r)) \subseteq RecordsIn(arch[r])
    BY <2>1 DEF RecordsIn
  <2>3. QED BY <1>3, <2>2, ClaimsOfRequests DEF FileClaims
<1>4. QED BY <1>1, <1>2, <1>3 DEF Files

\* Only the computation makes ids; every other step moves copies about.
LEMMA ClaimsMove ==
  ASSUME TypeOK, [Next]_vars, \A r \in Requests : ~Apply(r)
  PROVE  Claims' \subseteq Claims
<1>1. /\ \A f \in Files : FileClaims(f, disk[f]) \subseteq Claims /\ FileClaims(f, tmp[f]) \subseteq Claims
      /\ \A r \in Requests : IdeasIn(act[r]) \subseteq Claims /\ RecordsIn(arch[r]) \subseteq Claims
  BY ClaimsOfFiles, ClaimsOfRequests
<1>2. /\ disk \in [active : {Torn} \cup Ideas, archive : {Torn} \cup Seq(Record)]
      /\ tmp \in [active : {Torn, NoFile} \cup Ideas, archive : {Torn, NoFile} \cup Seq(Record)]
      /\ act \in [Requests -> Ideas] /\ arch \in [Requests -> Seq(Record)]
      /\ saving \in [Requests -> Files]
  BY DEF TypeOK
<1>3. \A f : FileClaims(f, Torn) = {} /\ FileClaims(f, NoFile) = {}
  BY DEF FileClaims
<1> DEFINE FilesMove == \A f \in Files : /\ FileClaims(f, disk'[f]) \subseteq Claims
                                         /\ FileClaims(f, tmp'[f]) \subseteq Claims
           MemoryMoves == \A r \in Requests : /\ IdeasIn(act'[r]) \subseteq Claims
                                              /\ RecordsIn(arch'[r]) \subseteq Claims
<1>4. UNCHANGED <<disk, tmp>> => FilesMove
  BY <1>1
<1>5. UNCHANGED <<act, arch>> => MemoryMoves
  BY <1>1
<1>6. ASSUME NEW f \in Files, NEW c, FileClaims(f, c) \subseteq Claims,
             \/ disk' = [disk EXCEPT ![f] = c] /\ UNCHANGED tmp
             \/ tmp' = [tmp EXCEPT ![f] = c] /\ UNCHANGED disk
      PROVE  FilesMove
  BY <1>1, <1>2, <1>6 DEF Files
<1>7. SUFFICES FilesMove /\ MemoryMoves
  BY ClaimsNext
<1>8. ASSUME NEW r \in Requests, Begin(r) PROVE FilesMove /\ MemoryMoves
  <2> DEFINE m == IF disk.active = Torn THEN NoIdeas ELSE disk.active
  <2>1. IdeasIn(m) \subseteq Claims
    <3>1. CASE disk.active = Torn
      BY <3>1, NothingClaimed
    <3>2. CASE disk.active # Torn
      <4>1. disk.active # NoFile /\ "active" \in Files
        BY <1>2, <3>2, ContentAssumption DEF Files
      <4>2. FileClaims("active", disk["active"]) = IdeasIn(disk.active)
        BY <3>2, <4>1 DEF FileClaims
      <4>3. QED BY <1>1, <3>2, <4>1, <4>2
    <3>3. QED BY <3>1, <3>2
  <2>2. act' = [act EXCEPT ![r] = m] /\ UNCHANGED <<disk, tmp, arch>>
    BY <1>8 DEF Begin
  <2> HIDE DEF m
  <2>3. MemoryMoves
    BY <1>1, <1>2, <2>1, <2>2
  <2>4. FilesMove
    BY <1>4, <2>2
  <2>5. QED BY <2>3, <2>4
<1>9. ASSUME NEW r \in Requests, Open(r) PROVE FilesMove /\ MemoryMoves
  <2>1. tmp' = [tmp EXCEPT ![saving[r]] = Torn] /\ UNCHANGED <<disk, act, arch>>
    BY <1>9 DEF Open
  <2>2. QED BY <1>2, <1>3, <1>5, <1>6, <2>1
<1>10. ASSUME NEW r \in Requests, Write(r) PROVE FilesMove /\ MemoryMoves
  <2> DEFINE f == saving[r]
  <2>1. ASSUME NEW old, NEW c \in Overwrite(old, Content(r))
        PROVE FileClaims(f, c) \subseteq Claims
    BY <1>3, <2>1, OverwriteType, ContentClaims
  <2>2. FilesMove
    <3>1. CASE UNCHANGED disk /\ \E c \in Overwrite(tmp[f], Content(r)) : tmp' = [tmp EXCEPT ![f] = c]
      <4>1. PICK c \in Overwrite(tmp[f], Content(r)) : tmp' = [tmp EXCEPT ![f] = c]
        BY <3>1
      <4>2. f \in Files /\ FileClaims(f, c) \subseteq Claims
        BY <1>2, <2>1
      <4>3. QED BY <1>6, <3>1, <4>1, <4>2
    <3>2. CASE UNCHANGED tmp /\ \E c \in Overwrite(disk[f], Content(r)) : disk' = [disk EXCEPT ![f] = c]
      <4>1. PICK c \in Overwrite(disk[f], Content(r)) : disk' = [disk EXCEPT ![f] = c]
        BY <3>2
      <4>2. f \in Files /\ FileClaims(f, c) \subseteq Claims
        BY <1>2, <2>1
      <4>3. QED BY <1>6, <3>2, <4>1, <4>2
    <3>3. CASE UNCHANGED <<disk, tmp>>
      BY <1>4, <3>3
    <3>4. QED BY <1>10, <3>1, <3>2, <3>3 DEF Write
  <2>3. UNCHANGED <<act, arch>>
    BY <1>10 DEF Write
  <2>4. QED BY <1>5, <2>2, <2>3
<1>11. ASSUME NEW r \in Requests, Return(r) PROVE MemoryMoves
  BY <1>1, <1>2, <1>11, NothingClaimed DEF Return
<1>12. ASSUME NEW r \in Requests, Replace(r) PROVE FilesMove /\ MemoryMoves
  <2> DEFINE f == saving[r]
  <2>1. f \in Files /\ FileClaims(f, tmp[f]) \subseteq Claims
    BY <1>1, <1>2
  <2>2. disk' = [disk EXCEPT ![f] = tmp[f]] /\ tmp' = [tmp EXCEPT ![f] = NoFile]
    BY <1>12 DEF Replace
  <2>3. MemoryMoves
    <3>1. CASE f = "active"
      BY <1>5, <1>12, <3>1 DEF Replace
    <3>2. CASE f # "active"
      BY <1>11, <1>12, <3>2 DEF Replace
    <3>3. QED BY <3>1, <3>2
  <2> HIDE DEF f
  <2>4. FilesMove
    BY <1>1, <1>2, <1>3, <2>1, <2>2 DEF Files
  <2>5. QED BY <2>3, <2>4
<1>13. ASSUME NEW r \in Requests, ReplaceFails(r) PROVE FilesMove /\ MemoryMoves
  BY <1>4, <1>11, <1>13 DEF ReplaceFails
<1>14. CASE Crash
  <2>1. FilesMove
    BY <1>4, <1>14 DEF Crash
  <2>2. MemoryMoves
    BY <1>14, NothingClaimed DEF Crash
  <2>3. QED BY <2>1, <2>2
<1>15. CASE UNCHANGED vars
  BY <1>4, <1>5, <1>15 DEF vars, local
<1> HIDE DEF FilesMove, MemoryMoves
<1>16. QED
  BY <1>8, <1>9, <1>10, <1>12, <1>13, <1>14, <1>15 DEF Next, Step

\* The computation of a call opens ids of its own number, one setup for each,
\* and copies what it read.
LEMMA ClaimsOpen ==
  ASSUME TypeOK, NEW r \in Requests, Apply(r)
  PROVE  \E live \in Lives : Claims' \subseteq Claims \cup NewClaims(live, call[r])
<1> DEFINE records == IF disk.archive = Torn THEN <<>> ELSE disk.archive
           m == act[r]
           n == call[r]
<1>1. PICK live \in Lives :
        /\ act' = [act EXCEPT ![r] = ActiveAfter(m, live, n)]
        /\ arch' = [arch EXCEPT ![r] = ArchiveAfter(m, live, records)]
  BY DEF Apply
<1>2. /\ m \in Ideas /\ n \in 0..MaxCalls /\ records \in Seq(Record)
      /\ act \in [Requests -> Ideas] /\ arch \in [Requests -> Seq(Record)]
  BY DEF TypeOK
<1>3. RecordsIn(records) \subseteq Claims
  <2>1. CASE disk.archive = Torn
    BY <2>1, NothingClaimed
  <2>2. CASE disk.archive # Torn
    <3>1. disk.archive # NoFile /\ "archive" \in Files
      BY <2>2, ContentAssumption DEF TypeOK, Files
    <3>2. FileClaims("archive", disk["archive"]) = RecordsIn(disk.archive)
      BY <2>2, <3>1 DEF FileClaims
    <3>3. QED BY <2>2, <3>1, <3>2, ClaimsOfFiles
  <2>3. QED BY <2>1, <2>2
<1>4. UNCHANGED <<disk, tmp>>
  BY DEF Apply
<1> HIDE DEF records, m, n
<1>5. IdeasIn(m) \subseteq Claims
  BY ClaimsOfRequests DEF m
<1>6. IdeasIn(ActiveAfter(m, live, n)) \subseteq IdeasIn(m) \cup NewClaims(live, n)
  <2> DEFINE a == ActiveAfter(m, live, n)
  <2>1. \A s \in DOMAIN a :
          \/ s \in DOMAIN live /\ a[s].call = n /\ a[s].setup = live[s].setup
          \/ s \in DOMAIN m /\ a[s] = m[s]
    BY <1>2, ActiveAfterType
  <2> HIDE DEF a
  <2>2. IdeasIn(a) \subseteq IdeasIn(m) \cup NewClaims(live, n)
    BY <2>1 DEF IdeasIn, NewClaims
  <2>3. QED BY <2>2 DEF a
<1>7. RecordsIn(ArchiveAfter(m, live, records)) \subseteq IdeasIn(m) \cup RecordsIn(records)
  <2> DEFINE a == ArchiveAfter(m, live, records)
  <2>1. \A k \in DOMAIN a :
          \/ \E s \in DOMAIN m : a[k] = RecordOf(m, live, s)
          \/ \E j \in DOMAIN records : a[k] = records[j]
    BY <1>2, ArchiveAfterType, ClosedFinite
  <2>2. \A s : /\ RecordOf(m, live, s).symbol = s /\ RecordOf(m, live, s).call = m[s].call
               /\ RecordOf(m, live, s).setup = m[s].setup
    BY DEF RecordOf
  <2> HIDE DEF a
  <2>3. RecordsIn(a) \subseteq IdeasIn(m) \cup RecordsIn(records)
    BY <2>1, <2>2 DEF IdeasIn, RecordsIn
  <2>4. QED BY <2>3 DEF a
<1> DEFINE X == Claims \cup NewClaims(live, n)
<1>8. \A q \in Requests : IdeasIn(act'[q]) \subseteq X /\ RecordsIn(arch'[q]) \subseteq X
  <2>1. ASSUME NEW q \in Requests, q # r
        PROVE  act'[q] = act[q] /\ arch'[q] = arch[q]
    BY <1>1, <1>2, <2>1
  <2>2. act'[r] = ActiveAfter(m, live, n) /\ arch'[r] = ArchiveAfter(m, live, records)
    BY <1>1, <1>2
  <2>3. QED BY <1>3, <1>5, <1>6, <1>7, <2>1, <2>2, ClaimsOfRequests
<1>9. \A f \in Files : FileClaims(f, disk'[f]) \subseteq X /\ FileClaims(f, tmp'[f]) \subseteq X
  BY <1>4, ClaimsOfFiles
<1> HIDE DEF X
<1>10. Claims' \subseteq X
  BY <1>8, <1>9, ClaimsNext
<1>11. QED BY <1>10 DEF X, n

LEMMA MeaningInductive ==
  TypeOK /\ MeaningInv /\ [Next]_vars => MeaningInv'
<1> SUFFICES ASSUME TypeOK, MeaningInv, [Next]_vars PROVE MeaningInv'
  OBVIOUS
<1>1. /\ OneSetup /\ Numbered /\ FreshCall
      /\ calls \in 0..MaxCalls /\ pc \in [Requests -> {"idle", "archive", "open", "write", "replace"}]
      /\ call \in [Requests -> 0..MaxCalls]
  BY DEF MeaningInv, TypeOK
<1>2. ASSUME NEW r \in Requests, Begin(r) PROVE MeaningInv'
  <2>1. Claims' \subseteq Claims
    BY <1>2, ClaimsMove DEF Begin, Apply
  <2>2. calls' = calls + 1 /\ calls \in Nat
    BY <1>1, <1>2, BoundAssumption DEF Begin
  <2>3. OneSetup'
    BY <1>1, <2>1 DEF OneSetup
  <2>4. Numbered'
    BY <1>1, <2>1, <2>2, BoundAssumption DEF Numbered
  <2>5. /\ pc'[r] = "archive" /\ call'[r] = calls + 1
        /\ \A q \in Requests : q # r => pc'[q] = pc[q] /\ call'[q] = call[q]
    BY <1>1, <1>2 DEF Begin
  <2>6. \A a \in Claims : a.call # calls + 1
    BY <1>1, <2>2, BoundAssumption DEF Numbered
  <2>7. \A q \in Requests : q # r /\ pc[q] = "archive" => call[q] <= calls /\ call[q] # calls + 1
    BY <1>1, <2>2, BoundAssumption DEF FreshCall
  <2>8. FreshCall'
    <3> SUFFICES ASSUME NEW p \in Requests, pc'[p] = "archive"
                 PROVE  /\ call'[p] <= calls'
                        /\ \A a \in Claims' : a.call # call'[p]
                        /\ \A q \in Requests : q # p /\ pc'[q] = "archive" => call'[q] # call'[p]
      BY DEF FreshCall
    <3>1. CASE p = r
      BY <2>1, <2>2, <2>5, <2>6, <2>7, <3>1
    <3>2. CASE p # r
      <4>1. pc[p] = "archive" /\ call'[p] = call[p] /\ call[p] <= calls /\ call[p] # calls + 1
        BY <2>5, <2>7, <3>2
      <4>2. call[p] <= calls + 1
        BY <1>1, <2>2, <4>1, BoundAssumption
      <4>3. \A a \in Claims' : a.call # call[p]
        BY <1>1, <2>1, <4>1 DEF FreshCall
      <4>4. \A q \in Requests : q # p /\ pc'[q] = "archive" => call'[q] # call[p]
        BY <1>1, <2>5, <4>1 DEF FreshCall
      <4>5. QED BY <2>2, <4>1, <4>2, <4>3, <4>4
    <3>3. QED BY <3>1, <3>2
  <2>9. QED BY <2>3, <2>4, <2>8 DEF MeaningInv
<1>3. ASSUME NEW r \in Requests, Apply(r) PROVE MeaningInv'
  <2>1. PICK live \in Lives : Claims' \subseteq Claims \cup NewClaims(live, call[r])
    BY <1>3, ClaimsOpen
  <2>2. /\ pc[r] = "archive" /\ UNCHANGED <<call, calls>>
        /\ pc' = [pc EXCEPT ![r] = "open"]
    BY <1>3 DEF Apply
  <2>3. /\ call[r] <= calls /\ call[r] \in 0..MaxCalls
        /\ \A a \in Claims : a.call # call[r]
        /\ \A q \in Requests : q # r /\ pc[q] = "archive" => call[q] # call[r]
    BY <1>1, <2>2 DEF FreshCall
  <2>4. \A a \in NewClaims(live, call[r]) : a.call = call[r] /\ a.setup = live[a.symbol].setup
    BY DEF NewClaims
  <2>5. OneSetup'
    <3> SUFFICES ASSUME NEW a \in Claims', NEW b \in Claims', a.symbol = b.symbol, a.call = b.call
                 PROVE  a.setup = b.setup
      BY DEF OneSetup
    <3>1. CASE a \in Claims /\ b \in Claims
      BY <1>1, <3>1 DEF OneSetup
    <3>2. CASE a \in NewClaims(live, call[r]) /\ b \in NewClaims(live, call[r])
      BY <2>4, <3>2
    <3>3. QED BY <2>1, <2>3, <2>4, <3>1, <3>2
  <2>6. Numbered'
    BY <1>1, <2>1, <2>2, <2>3, <2>4 DEF Numbered
  <2>7. FreshCall'
    <3> SUFFICES ASSUME NEW p \in Requests, pc'[p] = "archive"
                 PROVE  /\ call[p] <= calls
                        /\ \A a \in Claims' : a.call # call[p]
                        /\ \A q \in Requests : q # p /\ pc'[q] = "archive" => call[q] # call[p]
      BY <2>2 DEF FreshCall
    <3>1. p # r /\ pc[p] = "archive" /\ \A q \in Requests : pc'[q] = "archive" => pc[q] = "archive"
      BY <1>1, <2>2
    <3>2. call[p] # call[r]
      BY <2>3, <3>1
    <3>3. QED BY <1>1, <2>1, <2>4, <3>1, <3>2 DEF FreshCall
  <2>8. QED BY <2>5, <2>6, <2>7 DEF MeaningInv
<1>4. ASSUME \A r \in Requests : ~Apply(r), UNCHANGED calls,
             \A r \in Requests : pc'[r] = "archive" => pc[r] = "archive" /\ call'[r] = call[r]
      PROVE  MeaningInv'
  <2>1. Claims' \subseteq Claims
    BY <1>4, ClaimsMove
  <2>2. OneSetup' /\ Numbered'
    BY <1>1, <1>4, <2>1 DEF OneSetup, Numbered
  <2>3. FreshCall'
    BY <1>1, <1>4, <2>1 DEF FreshCall
  <2>4. QED BY <2>2, <2>3 DEF MeaningInv
<1> DEFINE Calm == /\ UNCHANGED calls
                   /\ \A r \in Requests : pc'[r] = "archive" => pc[r] = "archive" /\ call'[r] = call[r]
<1>5. ASSUME NEW r \in Requests, Return(r) PROVE
        \A q \in Requests : pc'[q] = "archive" => pc[q] = "archive" /\ call'[q] = call[q]
  BY <1>1, <1>5 DEF Return
<1>6. ASSUME NEW r \in Requests, Open(r) \/ Write(r) PROVE Calm
  BY <1>1, <1>6 DEF Open, Write
<1>7. ASSUME NEW r \in Requests, Replace(r) PROVE Calm
  <2>1. CASE saving[r] = "active"
    BY <1>1, <1>7, <2>1 DEF Replace
  <2>2. CASE saving[r] # "active"
    BY <1>5, <1>7, <2>2 DEF Replace
  <2>3. QED BY <2>1, <2>2
<1>8. ASSUME NEW r \in Requests, ReplaceFails(r) PROVE Calm
  BY <1>5, <1>8 DEF ReplaceFails
<1>9. CASE Crash
  <2>1. Calm
    BY <1>9 DEF Crash
  <2>2. \A r \in Requests : ~Apply(r) \/ MeaningInv'
    BY <1>3
  <2>3. QED BY <1>4, <2>1, <2>2
<1>10. CASE UNCHANGED vars
  <2>1. Calm
    BY <1>10 DEF vars, local
  <2>2. \A r \in Requests : ~Apply(r) \/ MeaningInv'
    BY <1>3
  <2>3. QED BY <1>4, <2>1, <2>2
<1>11. QED
  <2>1. SUFFICES ASSUME \A r \in Requests : ~Apply(r) PROVE MeaningInv'
    BY <1>3
  <2>2. CASE Calm
    BY <1>4, <2>1, <2>2
  <2>3. CASE \E r \in Requests : Begin(r)
    BY <1>2, <2>3
  <2> HIDE DEF Calm
  <2>4. QED BY <1>6, <1>7, <1>8, <1>9, <1>10, <2>1, <2>2, <2>3 DEF Next, Step

LEMMA InitMeaning ==
  Init => MeaningInv
<1> SUFFICES ASSUME Init PROVE MeaningInv
  OBVIOUS
<1>1. \A f \in Files : FileClaims(f, disk[f]) = {} /\ FileClaims(f, tmp[f]) = {}
  BY NothingClaimed DEF Init, Files, FileClaims
<1>2. \A r \in Requests : IdeasIn(act[r]) = {} /\ RecordsIn(arch[r]) = {}
  BY NothingClaimed DEF Init
<1>3. Claims = {}
  BY <1>1, <1>2 DEF Claims
<1>4. QED BY <1>3 DEF Init, MeaningInv, OneSetup, Numbered, FreshCall

\* However requests overlap, files tear and the process dies, an idea_id means
\* one set of levels, on disk and in every request's memory.
THEOREM IdsHaveOneMeaning == Spec => []OneMeaning
<1>1. TypeOK /\ MeaningInv => OneMeaning
  <2> SUFFICES ASSUME TypeOK, MeaningInv PROVE OneMeaning
    OBVIOUS
  <2> DEFINE active == IF disk.active = Torn THEN {} ELSE IdeasIn(disk.active)
             archive == IF disk.archive = Torn THEN {} ELSE RecordsIn(disk.archive)
             here(r) == IdeasIn(act[r]) \cup RecordsIn(arch[r])
             memory == UNION {here(r) : r \in Requests}
  <2>1. disk.active # NoFile /\ disk.archive # NoFile
    BY ContentAssumption DEF TypeOK
  <2>2. active = FileClaims("active", disk["active"]) /\ archive = FileClaims("archive", disk["archive"])
    BY <2>1 DEF FileClaims
  <2>3. active \subseteq Claims /\ archive \subseteq Claims
    BY <2>2, ClaimsOfFiles DEF Files
  <2>4. \A r \in Requests : here(r) \subseteq Claims
    BY ClaimsOfRequests
  <2>5. memory \subseteq Claims
    <3> HIDE DEF here
    <3> QED BY <2>4
  <2>6. OneMeaning <=> \A a, b \in active \cup archive \cup memory :
                         a.symbol = b.symbol /\ a.call = b.call => a.setup = b.setup
    BY DEF OneMeaning
  <2> HIDE DEF active, archive, memory
  <2>7. QED BY <2>3, <2>5, <2>6 DEF MeaningInv, OneSetup
<1>2. QED
  BY <1>1, InitTypes, InitMeaning, TypeInductive, MeaningInductive, PTL DEF Spec

-----------------------------------------------------------------------------
(* One request after the other.                                             *)

Saving(r) == pc[r] \in {"open", "write", "replace"}

\* No two requests are inside.
Alone == \A q, r \in Requests : pc[q] # "idle" /\ pc[r] # "idle" => q = r

\* Both files load, no idea is archived twice, and none is active and archived.
DiskSound ==
  /\ disk.active # Torn /\ disk.archive # Torn
  /\ Unique(disk.archive) /\ Apart(disk.active, disk.archive)
  /\ Len(disk.archive) <= ArchiveCap

\* What a request has computed and not yet saved accounts for every active idea
\* and every record on disk; once the active file is saved it is on disk.
Computed(r) ==
  /\ Unique(arch[r]) /\ Apart(act[r], arch[r]) /\ Covers(arch[r], disk.archive)
  /\ Len(arch[r]) >= Len(disk.archive)
  /\ saving[r] = "active" =>
       \A s \in DOMAIN disk.active :
         \/ s \in DOMAIN act[r] /\ act[r][s] = disk.active[s]
         \/ Archived(arch[r], s, disk.active[s].call)
  /\ saving[r] = "archive" => disk.active = act[r]

RequestSound(r) ==
  /\ pc[r] = "archive" => act[r] = disk.active
  /\ Saving(r) => Computed(r)
  /\ pc[r] = "write" => fd[r] = "tmp" /\ tmp[saving[r]] = Torn
  /\ pc[r] = "replace" => tmp[saving[r]] = Content(r)

Kept(o, records) ==
  Visible(o.symbol, o.call) \/ Archived(records, o.symbol, o.call) \/ Len(records) >= ArchiveCap

\* The archive as it will be once the request inside is over.
Pending(r) == IF Saving(r) /\ saving[r] = "archive" THEN arch[r] ELSE disk.archive

OpenedKept ==
  /\ (\A r \in Requests : pc[r] = "idle") => \A o \in opened : Kept(o, disk.archive)
  /\ \A r \in Requests : pc[r] # "idle" => \A o \in opened : Kept(o, Pending(r))

AloneInv ==
  ~met => /\ Alone /\ DiskSound
          /\ \A r \in Requests : RequestSound(r)
          /\ OpenedKept

\* With the others outside, the state of one request is all there is to check.
LEMMA AloneAfter ==
  ASSUME NEW r \in Requests, \A q \in Requests : q # r => pc'[q] = "idle",
         DiskSound', RequestSound(r)', \A o \in opened' : Kept(o, Pending(r))'
  PROVE  AloneInv'
<1>1. Alone'
  BY DEF Alone
<1>2. \A q \in Requests : RequestSound(q)'
  BY DEF RequestSound, Saving
<1>3. OpenedKept'
  <2>1. ASSUME \A q \in Requests : pc'[q] = "idle" PROVE \A o \in opened' : Kept(o, disk.archive)'
    <3>1. Pending(r)' = disk'.archive
      BY <2>1 DEF Pending, Saving
    <3>2. \A o : Kept(o, Pending(r))' <=> Kept(o, disk.archive)'
      BY <3>1 DEF Kept
    <3>3. QED BY <3>2
  <2>2. QED BY <2>1 DEF OpenedKept
<1>4. QED BY <1>1, <1>2, <1>3 DEF AloneInv

LEMMA ArchivedByCover ==
  ASSUME NEW q, NEW records, Covers(q, records), NEW s, NEW n, Archived(records, s, n)
  PROVE  Archived(q, s, n)
BY DEF Covers, Archived

LEMMA AloneInductive ==
  TypeOK /\ MeaningInv /\ AloneInv /\ [Next]_vars => AloneInv'
<1> SUFFICES ASSUME TypeOK, MeaningInv, AloneInv, [Next]_vars, ~met' PROVE AloneInv'
  BY DEF AloneInv
<1>1. ~met
  BY DEF Next, Step, Begin, Apply, Open, Write, Replace, ReplaceFails, Crash, vars, local
<1>2. /\ Alone /\ DiskSound /\ \A r \in Requests : RequestSound(r)
      /\ OpenedKept
  BY <1>1 DEF AloneInv
<1>3. /\ disk.active \in Ideas /\ disk.archive \in Seq(Record)
      /\ tmp \in [active : {Torn, NoFile} \cup Ideas, archive : {Torn, NoFile} \cup Seq(Record)]
      /\ disk \in [active : {Torn} \cup Ideas, archive : {Torn} \cup Seq(Record)]
      /\ pc \in [Requests -> {"idle", "archive", "open", "write", "replace"}]
      /\ saving \in [Requests -> Files] /\ fd \in [Requests -> {"none", "tmp", "disk", "unlinked"}]
      /\ act \in [Requests -> Ideas] /\ arch \in [Requests -> Seq(Record)]
      /\ call \in [Requests -> 0..MaxCalls]
  BY <1>2 DEF TypeOK, DiskSound
<1>4. ASSUME NEW r \in Requests, pc[r] # "idle", NEW q \in Requests, q # r PROVE pc[q] = "idle"
  BY <1>2, <1>4 DEF Alone
<1>5. ASSUME NEW r \in Requests, pc[r] # "idle"
      PROVE  RequestSound(r) /\ \A o \in opened : Kept(o, Pending(r))
  BY <1>2, <1>5 DEF OpenedKept
<1>6. ASSUME NEW r \in Requests, Begin(r) PROVE AloneInv'
  <2>1. \A q \in Requests : pc[q] = "idle"
    BY <1>6 DEF Begin
  <2>2. /\ pc'[r] = "archive" /\ act'[r] = disk.active /\ UNCHANGED <<disk, opened>>
        /\ \A q \in Requests : q # r => pc'[q] = "idle"
    BY <1>2, <1>3, <1>6, <2>1 DEF Begin, DiskSound
  <2>3. DiskSound'
    BY <1>2, <2>2 DEF DiskSound
  <2>4. RequestSound(r)'
    BY <2>2 DEF RequestSound, Saving
  <2>5. \A o \in opened' : Kept(o, Pending(r))'
    <3>1. \A o \in opened : Kept(o, disk.archive)
      BY <1>2, <2>1 DEF OpenedKept
    <3>2. Pending(r)' = disk.archive
      BY <2>2 DEF Pending, Saving
    <3>3. QED BY <2>2, <3>1, <3>2 DEF Kept, Visible
  <2>6. QED BY <2>2, <2>3, <2>4, <2>5, AloneAfter
<1>7. ASSUME NEW r \in Requests, Apply(r) PROVE AloneInv'
  <2>1. pc[r] = "archive" /\ act[r] = disk.active /\ \A a \in Claims : a.call # call[r]
    BY <1>2, <1>7 DEF Apply, RequestSound, MeaningInv, FreshCall
  <2> DEFINE m == disk.active
             records == disk.archive
             n == call[r]
  <2>2. PICK live \in Lives :
          /\ act' = [act EXCEPT ![r] = ActiveAfter(m, live, n)]
          /\ arch' = [arch EXCEPT ![r] = ArchiveAfter(m, live, records)]
    BY <1>2, <1>7, <2>1 DEF Apply, DiskSound
  <2> DEFINE a == ActiveAfter(m, live, n)
             b == ArchiveAfter(m, live, records)
  <2>3. act'[r] = a /\ arch'[r] = b
    BY <1>3, <2>2
  <2>4. /\ pc'[r] = "open" /\ saving'[r] = "active" /\ UNCHANGED <<disk, opened>>
        /\ \A q \in Requests : q # r => pc'[q] = "idle"
    BY <1>3, <1>4, <1>7, <2>1 DEF Apply
  <2>5. m \in Ideas /\ records \in Seq(Record) /\ n \in 0..MaxCalls
    BY <1>3
  <2>6. /\ \A s \in DOMAIN a :
              \/ s \in DOMAIN live /\ a[s].call = n
              \/ s \in DOMAIN m \ Closed(m, live) /\ a[s] = m[s]
        /\ \A s \in DOMAIN m \ Closed(m, live) : s \in DOMAIN a /\ a[s] = m[s]
    BY <2>5, ActiveAfterType
  <2>7. /\ Len(b) >= Len(records) /\ Covers(b, records)
        /\ \A k \in DOMAIN b : \/ \E s \in Closed(m, live) : b[k] = RecordOf(m, live, s)
                               \/ \E j \in DOMAIN records : b[k] = records[j]
        /\ \A s \in Closed(m, live) : Archived(b, s, m[s].call)
        /\ Unique(records) /\ Apart(m, records) => Unique(b)
    BY <2>5, ArchiveAfterType
  <2>8. Unique(records) /\ Apart(m, records)
    BY <1>2 DEF DiskSound
  <2>9. \A s \in DOMAIN m : m[s].call # n
    <3>1. IdeasIn(m) \subseteq Claims
      BY <2>1, ClaimsOfRequests
    <3> HIDE DEF m, n
    <3>2. \A s \in DOMAIN m : [symbol |-> s, call |-> m[s].call, setup |-> m[s].setup] \in Claims
      BY <3>1 DEF IdeasIn
    <3>3. QED BY <2>1, <3>2 DEF n
  <2>10. \A j \in DOMAIN records : records[j].call # n
    <3>1. RecordsIn(records) \subseteq Claims
      <4>1. disk.archive # Torn /\ disk.archive # NoFile
        BY <1>3, ContentAssumption
      <4>2. FileClaims("archive", disk["archive"]) = RecordsIn(records)
        BY <4>1 DEF FileClaims
      <4>3. QED BY <4>2, ClaimsOfFiles DEF Files
    <3> HIDE DEF records, n
    <3>2. \A j \in DOMAIN records :
            [symbol |-> records[j].symbol, call |-> records[j].call, setup |-> records[j].setup] \in Claims
      BY <3>1 DEF RecordsIn
    <3>3. QED BY <2>1, <3>2 DEF n
  <2>11. \A s : RecordOf(m, live, s).symbol = s /\ RecordOf(m, live, s).call = m[s].call
    BY DEF RecordOf
  <2>12. Closed(m, live) \subseteq DOMAIN m
    BY DEF Closed
  <2> HIDE DEF m, records, n, a, b
  <2>13. Apart(a, b)
    <3> SUFFICES ASSUME NEW s \in DOMAIN a, NEW k \in DOMAIN b,
                        b[k].symbol = s, b[k].call = a[s].call
                 PROVE  FALSE
      BY DEF Apart, Archived
    <3>1. b[k].call # n
      BY <2>7, <2>9, <2>10, <2>11, <2>12
    <3>2. s \in DOMAIN m \ Closed(m, live) /\ a[s] = m[s]
      BY <2>6, <3>1
    <3>3. PICK j \in DOMAIN records : b[k] = records[j]
      BY <2>7, <2>11, <3>2
    <3>4. Archived(records, s, m[s].call)
      BY <3>2, <3>3 DEF Archived
    <3>5. QED BY <2>8, <3>2, <3>4 DEF Apart
  <2>14. \A s \in DOMAIN m : \/ s \in DOMAIN a /\ a[s] = m[s]
                             \/ Archived(b, s, m[s].call)
    BY <2>6, <2>7
  <2>15. Computed(r)'
    BY <2>3, <2>4, <2>7, <2>8, <2>13, <2>14 DEF Computed, m, records
  <2>16. RequestSound(r)'
    BY <2>4, <2>15 DEF RequestSound
  <2>17. DiskSound'
    BY <1>2, <2>4 DEF DiskSound
  <2>18. \A o \in opened' : Kept(o, Pending(r))'
    <3>1. Pending(r) = disk.archive /\ Pending(r)' = disk.archive
      BY <2>1, <2>4 DEF Pending, Saving
    <3>2. \A o \in opened : Kept(o, disk.archive)
      BY <1>5, <2>1, <3>1
    <3>3. QED BY <2>4, <3>1, <3>2 DEF Kept, Visible
  <2>19. QED BY <2>4, <2>16, <2>17, <2>18, AloneAfter
<1>8. ASSUME NEW r \in Requests, pc[r] # "idle", NEW next \in {"write", "replace"},
             pc' = [pc EXCEPT ![r] = next],
             UNCHANGED <<disk, saving, act, arch, opened>>, Saving(r)
      PROVE  /\ \A q \in Requests : q # r => pc'[q] = "idle"
             /\ pc'[r] = next /\ DiskSound' /\ Computed(r)'
             /\ \A o \in opened' : Kept(o, Pending(r))'
  <2>1. pc'[r] = next /\ \A q \in Requests : q # r => pc'[q] = "idle"
    BY <1>3, <1>4, <1>8
  <2>2. DiskSound'
    BY <1>2, <1>8 DEF DiskSound
  <2>3. Computed(r)'
    BY <1>5, <1>8 DEF RequestSound, Computed
  <2>4. \A o \in opened' : Kept(o, Pending(r))'
    <3>1. Pending(r)' = Pending(r)
      BY <1>8, <2>1 DEF Pending, Saving
    <3>2. QED BY <1>5, <1>8, <3>1 DEF Kept, Visible
  <2>5. QED BY <2>1, <2>2, <2>3, <2>4
<1>9. ASSUME NEW r \in Requests, Open(r) PROVE AloneInv'
  <2>1. /\ pc[r] # "idle" /\ Saving(r) /\ pc' = [pc EXCEPT ![r] = "write"]
        /\ UNCHANGED <<disk, saving, act, arch, opened>>
    BY <1>9 DEF Open, Saving
  <2>2. saving[r] \in Files
    BY <1>3
  <2>3. fd'[r] = "tmp" /\ tmp'[saving[r]] = Torn
    BY <1>3, <1>9, <2>2 DEF Open, Files
  <2>4. RequestSound(r)'
    <3>1. pc'[r] = "write" /\ Computed(r)'
      BY <1>8, <2>1
    <3>2. QED BY <2>1, <2>3, <3>1 DEF RequestSound
  <2>5. QED BY <1>8, <2>1, <2>4, AloneAfter
<1>10. ASSUME NEW r \in Requests, Write(r) PROVE AloneInv'
  <2>1. pc[r] = "write" /\ fd[r] = "tmp" /\ tmp[saving[r]] = Torn /\ saving[r] \in Files
    BY <1>2, <1>3, <1>10 DEF Write, RequestSound
  <2>2. UNCHANGED disk /\ \E c \in Overwrite(tmp[saving[r]], Content(r)) :
                             tmp' = [tmp EXCEPT ![saving[r]] = c]
    BY <1>10, <2>1 DEF Write
  <2>3. Overwrite(tmp[saving[r]], Content(r)) = {Content(r)}
    BY <2>1 DEF Overwrite
  <2>4. tmp'[saving[r]] = Content(r)
    BY <1>3, <2>1, <2>2, <2>3 DEF Files
  <2>5. /\ pc[r] # "idle" /\ Saving(r) /\ pc' = [pc EXCEPT ![r] = "replace"]
        /\ UNCHANGED <<disk, saving, act, arch, opened>>
    BY <1>10, <2>1, <2>2 DEF Write, Saving
  <2>6. RequestSound(r)'
    <3>1. pc'[r] = "replace" /\ Computed(r)'
      BY <1>8, <2>5
    <3>2. Content(r)' = Content(r)
      BY <2>5 DEF Content
    <3>3. QED BY <2>4, <2>5, <3>1, <3>2 DEF RequestSound
  <2>7. QED BY <1>8, <2>5, <2>6, AloneAfter
<1>11. ASSUME NEW r \in Requests, Replace(r) PROVE AloneInv'
  <2> DEFINE f == saving[r]
  <2>1. /\ pc[r] = "replace" /\ tmp[f] = Content(r) /\ Computed(r) /\ f \in Files
        /\ RequestSound(r)
    BY <1>2, <1>3, <1>11 DEF Replace, RequestSound, Saving
  <2>2. disk' = [disk EXCEPT ![f] = Content(r)]
    BY <1>11, <2>1 DEF Replace
  <2>3. \A o \in opened : Kept(o, Pending(r))
    BY <1>5, <2>1
  <2>4. \A q \in Requests : q # r => pc[q] = "idle"
    BY <1>4, <2>1
  <2>5. CASE f = "active"
    <3>1. /\ Content(r) = act[r] /\ disk'.active = act[r] /\ disk'.archive = disk.archive
          /\ act[r] \in Ideas /\ act[r] # Torn
      BY <1>3, <2>2, <2>5, ContentType, ContentAssumption
    <3>2. /\ pc'[r] = "open" /\ saving'[r] = "archive" /\ UNCHANGED <<act, arch>>
          /\ \A q \in Requests : q # r => pc'[q] = "idle"
      BY <1>3, <1>11, <2>4, <2>5 DEF Replace
    <3>3. opened' = opened \cup {[symbol |-> s, call |-> act[r][s].call] : s \in DOMAIN act[r]}
      BY <1>11, <2>1, <2>5, <3>1 DEF Replace
    <3>4. Apart(act[r], disk.archive)
      BY <2>1, ArchivedByCover DEF Computed, Apart
    <3>5. DiskSound'
      BY <1>2, <3>1, <3>4 DEF DiskSound
    <3>6. Computed(r)'
      BY <2>1, <3>1, <3>2 DEF Computed
    <3>7. RequestSound(r)'
      BY <3>2, <3>6 DEF RequestSound
    <3>8. ASSUME NEW o \in opened' PROVE Kept(o, Pending(r))'
      <4>1. Pending(r)' = arch[r] /\ Pending(r) = disk.archive
        BY <2>5, <3>2 DEF Pending, Saving
      <4>2. CASE o \in opened
        <5>1. Kept(o, disk.archive)
          BY <2>3, <4>1, <4>2
        <5>2. CASE Visible(o.symbol, o.call)
          <6>1. /\ o.symbol \in DOMAIN disk.active /\ disk.active[o.symbol].call = o.call
            BY <5>2 DEF Visible
          <6>2. \/ o.symbol \in DOMAIN act[r] /\ act[r][o.symbol] = disk.active[o.symbol]
                \/ Archived(arch[r], o.symbol, o.call)
            BY <2>1, <2>5, <6>1 DEF Computed
          <6>3. Visible(o.symbol, o.call)' \/ Archived(arch[r], o.symbol, o.call)
            BY <3>1, <6>1, <6>2 DEF Visible
          <6>4. QED BY <4>1, <6>3 DEF Kept
        <5>3. CASE Archived(disk.archive, o.symbol, o.call)
          <6>1. Archived(arch[r], o.symbol, o.call)
            BY <2>1, <5>3, ArchivedByCover DEF Computed
          <6>2. QED BY <4>1, <6>1 DEF Kept
        <5>4. CASE Len(disk.archive) >= ArchiveCap
          <6>1. arch[r] \in Seq(Record) /\ disk.archive \in Seq(Record)
            BY <1>3
          <6>2. Len(arch[r]) \in Nat /\ Len(disk.archive) \in Nat
            BY <6>1
          <6>3. Len(arch[r]) >= Len(disk.archive)
            BY <2>1 DEF Computed
          <6>4. Len(arch[r]) >= ArchiveCap
            BY <5>4, <6>2, <6>3, BoundAssumption
          <6>5. QED BY <4>1, <6>4 DEF Kept
        <5>5. QED BY <5>1, <5>2, <5>3, <5>4 DEF Kept
      <4>3. CASE o \notin opened
        <5>1. PICK s \in DOMAIN act[r] : o = [symbol |-> s, call |-> act[r][s].call]
          BY <3>3, <4>3
        <5>2. Visible(o.symbol, o.call)'
          BY <3>1, <5>1 DEF Visible
        <5>3. QED BY <5>2 DEF Kept
      <4>4. QED BY <4>2, <4>3
    <3>9. QED BY <3>2, <3>5, <3>7, <3>8, AloneAfter
  <2>6. CASE f = "archive"
    <3>1. /\ disk'.archive = Content(r) /\ disk'.active = disk.active
          /\ disk.active = act[r]
      BY <1>3, <2>1, <2>2, <2>6 DEF Computed
    <3>2. /\ Content(r) \in Seq(Record) /\ Content(r) # Torn
          /\ Len(Content(r)) = IF Len(arch[r]) < ArchiveCap THEN Len(arch[r]) ELSE ArchiveCap
          /\ \A k \in DOMAIN Content(r) : k \in DOMAIN arch[r] /\ Content(r)[k] = arch[r][k]
      BY <2>6, ContentType, ContentAssumption
    <3>3. /\ pc'[r] = "idle" /\ opened' = opened
          /\ \A q \in Requests : q # r => pc'[q] = "idle"
      BY <1>3, <1>11, <2>4, <2>6 DEF Replace, Return
    <3>4. Len(arch[r]) \in Nat /\ Len(Content(r)) \in Nat /\ DOMAIN arch[r] = 1..Len(arch[r])
          /\ DOMAIN Content(r) = 1..Len(Content(r))
      <4>1. arch[r] \in Seq(Record)
        BY <1>3
      <4>2. QED BY <3>2, <4>1
    <3>5. DiskSound'
      <4>1. Unique(Content(r))
        BY <2>1, <3>2 DEF Computed, Unique
      <4>2. Apart(act[r], Content(r))
        BY <2>1, <3>2 DEF Computed, Apart, Archived
      <4>3. Len(Content(r)) <= ArchiveCap
        BY <3>2, <3>4, BoundAssumption
      <4>4. QED BY <1>2, <3>1, <3>2, <4>1, <4>2, <4>3 DEF DiskSound
    <3>6. RequestSound(r)'
      BY <3>3 DEF RequestSound, Saving
    <3>7. ASSUME NEW o \in opened' PROVE Kept(o, Pending(r))'
      <4>1. Pending(r)' = Content(r) /\ Pending(r) = arch[r]
        BY <2>1, <2>6, <3>1, <3>3 DEF Pending, Saving
      <4>2. Kept(o, arch[r])
        BY <2>3, <3>3, <4>1
      <4>3. CASE Visible(o.symbol, o.call)
        <5>1. Visible(o.symbol, o.call)'
          BY <3>1, <4>3 DEF Visible
        <5>2. QED BY <5>1 DEF Kept
      <4>4. CASE Len(arch[r]) >= ArchiveCap
        <5>1. Len(Content(r)) >= ArchiveCap
          BY <3>2, <3>4, <4>4, BoundAssumption
        <5>2. QED BY <4>1, <5>1 DEF Kept
      <4>5. CASE Archived(arch[r], o.symbol, o.call) /\ ~(Len(arch[r]) >= ArchiveCap)
        <5>1. DOMAIN Content(r) = DOMAIN arch[r]
          BY <3>2, <3>4, <4>5, BoundAssumption
        <5>2. Archived(Content(r), o.symbol, o.call)
          BY <3>2, <4>5, <5>1 DEF Archived
        <5>3. QED BY <4>1, <5>2 DEF Kept
      <4>6. QED BY <4>2, <4>3, <4>4, <4>5 DEF Kept
    <3>8. QED BY <3>3, <3>5, <3>6, <3>7, AloneAfter
  <2>7. QED BY <2>1, <2>5, <2>6 DEF Files
<1>12. ASSUME NEW r \in Requests, ReplaceFails(r) PROVE AloneInv'
  <2>1. tmp[saving[r]] = Content(r) /\ tmp[saving[r]] = NoFile /\ saving[r] \in Files
    BY <1>2, <1>3, <1>12 DEF ReplaceFails, RequestSound
  <2>2. Content(r) \in Ideas \/ Content(r) \in Seq(Record)
    BY <2>1, ContentType DEF Files
  <2>3. QED BY <2>1, <2>2, ContentAssumption
<1>13. CASE Crash
  <2>1. (\A q \in Requests : pc'[q] = "idle") /\ opened' = {} /\ UNCHANGED disk
    BY <1>13 DEF Crash
  <2>2. DiskSound'
    BY <1>2, <2>1 DEF DiskSound
  <2>3. Alone' /\ (\A q \in Requests : RequestSound(q)') /\ OpenedKept'
    BY <2>1 DEF Alone, RequestSound, Saving, OpenedKept
  <2>4. QED BY <2>2, <2>3 DEF AloneInv
<1>14. CASE UNCHANGED vars
  <2>1. UNCHANGED <<disk, tmp, pc, saving, fd, act, arch, opened>>
    BY <1>14 DEF vars, local
  <2>2. Alone' /\ DiskSound'
    BY <1>2, <2>1 DEF Alone, DiskSound
  <2>3. \A q \in Requests : RequestSound(q)'
    BY <1>2, <2>1 DEF RequestSound, Saving, Computed, Content
  <2>4. OpenedKept'
    BY <1>2, <2>1 DEF OpenedKept, Kept, Visible, Pending, Saving
  <2>5. QED BY <2>2, <2>3, <2>4 DEF AloneInv
<1>15. QED
  BY <1>6, <1>7, <1>9, <1>10, <1>11, <1>12, <1>13, <1>14 DEF Next, Step

LEMMA InitAlone ==
  Init => MeaningInv /\ AloneInv
<1> SUFFICES ASSUME Init PROVE MeaningInv /\ AloneInv
  OBVIOUS
<1>1. MeaningInv
  BY InitMeaning
<1>2. disk.active = NoIdeas /\ disk.archive = <<>> /\ \A r \in Requests : pc[r] = "idle"
  BY DEF Init
<1>3. DOMAIN NoIdeas = {} /\ DOMAIN <<>> = {} /\ Len(<<>>) = 0
  BY NoIdeasType
<1>4. disk.active # Torn /\ disk.archive # Torn
  BY InitTypes, ContentAssumption, <1>2, NoIdeasType
<1>5. DiskSound
  BY <1>2, <1>3, <1>4, BoundAssumption DEF DiskSound, Unique, Apart
<1>6. Alone /\ (\A r \in Requests : RequestSound(r)) /\ OpenedKept
  BY <1>2 DEF Init, Alone, RequestSound, Saving, OpenedKept
<1>7. QED BY <1>1, <1>5, <1>6 DEF AloneInv

\* Unless requests met, no result is in the archive twice, even when the process
\* died between the saves of the two files.
THEOREM ResultsCountOnce == Spec => []ArchivedOnce
<1>1. AloneInv => ArchivedOnce
  BY DEF AloneInv, DiskSound, Unique, ArchivedOnce
<1>2. QED
  BY <1>1, InitTypes, InitAlone, TypeInductive, MeaningInductive, AloneInductive, PTL DEF Spec

\* Unless requests met, every idea saved as active since the process last died is
\* still active or archived, never both, unless the archive is full.
THEOREM IdeasDoNotVanish == Spec => []NothingLost
<1>1. TypeOK /\ AloneInv => NothingLost
  <2> SUFFICES ASSUME TypeOK, AloneInv, ~met, \A r \in Requests : pc[r] = "idle", NEW o \in opened
               PROVE  \/ Visible(o.symbol, o.call) # Archived(disk.archive, o.symbol, o.call)
                      \/ Len(disk.archive) = ArchiveCap /\ ~Visible(o.symbol, o.call)
    BY DEF NothingLost
  <2>1. DiskSound /\ Kept(o, disk.archive)
    BY DEF AloneInv, OpenedKept
  <2>2. Visible(o.symbol, o.call) => ~Archived(disk.archive, o.symbol, o.call)
    BY <2>1 DEF DiskSound, Apart, Visible
  <2>3. Visible(o.symbol, o.call) \in BOOLEAN /\ Archived(disk.archive, o.symbol, o.call) \in BOOLEAN
    BY DEF Visible, Archived
  <2>4. CASE Visible(o.symbol, o.call)
    BY <2>2, <2>3, <2>4
  <2>5. CASE ~Visible(o.symbol, o.call) /\ Archived(disk.archive, o.symbol, o.call)
    BY <2>3, <2>5
  <2>6. CASE ~Visible(o.symbol, o.call) /\ Len(disk.archive) >= ArchiveCap
    <3>1. Len(disk.archive) \in Nat
      BY <2>1 DEF DiskSound, TypeOK
    <3>2. Len(disk.archive) = ArchiveCap
      BY <2>1, <2>6, <3>1, BoundAssumption DEF DiskSound
    <3>3. QED BY <2>6, <3>2
  <2>7. QED BY <2>1, <2>4, <2>5, <2>6 DEF Kept
<1>2. QED
  BY <1>1, InitTypes, InitAlone, TypeInductive, MeaningInductive, AloneInductive, PTL DEF Spec

\* Unless requests met, an idea leaves the active file, or changes in it, only
\* when the request that saves the file has archived it with a hit.
THEOREM IdeasAreLocked == Spec => LockedUntilHit
<1> DEFINE Locked ==
         \A s \in Symbols :
           (~met /\ s \in DOMAIN disk.active /\ ~(s \in DOMAIN disk'.active /\ disk'.active[s] = disk.active[s]))
           => \E r \in Requests : pc[r] # "idle" /\ Archived(arch[r], s, disk.active[s].call)
<1>1. TypeOK /\ AloneInv /\ [Next]_vars => [Locked]_disk
  <2> SUFFICES ASSUME TypeOK, AloneInv, [Next]_vars, disk' # disk, NEW s \in Symbols, ~met,
                      s \in DOMAIN disk.active,
                      ~(s \in DOMAIN disk'.active /\ disk'.active[s] = disk.active[s])
               PROVE  \E r \in Requests : pc[r] # "idle" /\ Archived(arch[r], s, disk.active[s].call)
    OBVIOUS
  <2>1. DiskSound /\ \A r \in Requests : RequestSound(r)
    BY DEF AloneInv
  <2>2. PICK r \in Requests : Write(r) \/ Replace(r)
    BY DEF Next, Step, Begin, Apply, Open, ReplaceFails, Crash, vars
  <2>3. ~Write(r)
    <3> SUFFICES ASSUME Write(r) PROVE FALSE
      OBVIOUS
    <3>1. fd[r] = "tmp"
      BY <2>1 DEF Write, RequestSound
    <3>2. QED BY <3>1 DEF Write
  <2>4. /\ pc[r] = "replace" /\ Computed(r) /\ tmp[saving[r]] = Content(r)
        /\ disk' = [disk EXCEPT ![saving[r]] = Content(r)]
    BY <2>1, <2>2, <2>3 DEF Replace, RequestSound, Saving
  <2>5. saving[r] \in Files /\ disk \in [active : {Torn} \cup Ideas, archive : {Torn} \cup Seq(Record)]
    BY DEF TypeOK
  <2>6. saving[r] = "active"
    BY <2>4, <2>5 DEF Files
  <2>7. disk'.active = act[r]
    BY <2>4, <2>5, <2>6, ContentType
  <2>8. Archived(arch[r], s, disk.active[s].call)
    BY <2>4, <2>6, <2>7 DEF Computed
  <2>9. QED BY <2>4, <2>8
<1> QED
  BY <1>1, InitTypes, InitAlone, TypeInductive, MeaningInductive, AloneInductive, PTL
     DEF Spec, LockedUntilHit
=============================================================================
