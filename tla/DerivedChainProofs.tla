------------------------- MODULE DerivedChainProofs -------------------------
(***************************************************************************)
(* Proofs about DerivedChain: builds nest only as engines call one another *)
(* and as hooks run cascades; as long as no two calls met and no hook ran, *)
(* no engine knows a later source than the one it is built from and no     *)
(* cache disagrees with its file; and a cascade that met nobody leaves one *)
(* version in all the files, for any number of threads, calls, failures,   *)
(* changes and cascades inside one another.                                *)
(***************************************************************************)
EXTENDS DerivedChain, TLAPS

-----------------------------------------------------------------------------
(* Stacks of frames.                                                       *)

\* The innermost frame of a stack and those below it.
LEMMA StackParts ==
  ASSUME NEW S, NEW st \in Seq(S), st # <<>>
  PROVE  /\ Len(st) \in Nat /\ Len(st) >= 1
         /\ st[Len(st)] \in S /\ st[1] \in S
         /\ SubSeq(st, 1, Len(st) - 1) \in Seq(S)
         /\ Len(SubSeq(st, 1, Len(st) - 1)) = Len(st) - 1
         /\ \A i \in 1 .. Len(st) - 1 : SubSeq(st, 1, Len(st) - 1)[i] = st[i]
<1>1. Len(st) \in Nat /\ Len(st) >= 1
  OBVIOUS
<1>2. st[Len(st)] \in S /\ st[1] \in S
  BY <1>1
<1>3. PICK n \in Nat : n = Len(st) - 1
  BY <1>1
<1>4. SubSeq(st, 1, n) \in Seq(S) /\ Len(SubSeq(st, 1, n)) = n
  BY <1>1, <1>3
<1>5. \A i \in 1 .. n : SubSeq(st, 1, n)[i] = st[i]
  BY <1>1, <1>3
<1>6. QED BY <1>1, <1>2, <1>3, <1>4, <1>5

\* f may take the place of g: it is a frame of the same build, or g was one of a cascade.
Succeeds(f, g) ==
  /\ f.depth = g.depth
  /\ g.chain \/ (f.layer = g.layer /\ f.chain = g.chain)

\* What waited for g can wait for f.
LEMMA WaitsOn ==
  ASSUME NEW e, NEW f, NEW g, Waits(e, g), Succeeds(f, g)
  PROVE  Waits(e, f)
BY DEF Waits, Succeeds

\* The innermost frame is replaced.
LEMMA BecomeStack ==
  ASSUME NEW S, NEW st \in Seq(S), st # <<>>, Nested(st),
         NEW f \in S, Succeeds(f, st[Len(st)])
  PROVE  LET new == Append(SubSeq(st, 1, Len(st) - 1), f)
         IN /\ new \in Seq(S) /\ Len(new) = Len(st) /\ new # <<>>
            /\ \A i \in 1 .. Len(st) - 1 : new[i] = st[i]
            /\ new[Len(st)] = f
            /\ Nested(new)
<1> DEFINE rest == SubSeq(st, 1, Len(st) - 1)
           new == Append(rest, f)
<1>1. /\ Len(st) \in Nat /\ Len(st) >= 1 /\ rest \in Seq(S) /\ Len(rest) = Len(st) - 1
      /\ \A i \in 1 .. Len(st) - 1 : rest[i] = st[i]
  BY StackParts
<1> HIDE DEF rest
<1>2. /\ new \in Seq(S) /\ Len(new) = Len(st)
      /\ \A i \in 1 .. Len(st) - 1 : new[i] = rest[i]
      /\ new[Len(st)] = f
  BY <1>1
<1> HIDE DEF new
<1>3. \A i \in 1 .. Len(st) - 1 : new[i] = st[i]
  BY <1>1, <1>2
<1>4. ASSUME NEW i \in 1 .. Len(new) - 1
      PROVE  Waits(new[i], new[i + 1])
  <2>1. i \in 1 .. Len(st) - 1 /\ Waits(st[i], st[i + 1]) /\ new[i] = st[i]
    BY <1>2, <1>3 DEF Nested
  <2>2. CASE i + 1 = Len(st)
    BY <1>2, <2>1, <2>2, WaitsOn
  <2>3. CASE i + 1 # Len(st)
    <3>1. i + 1 \in 1 .. Len(st) - 1
      BY <1>1, <2>1, <2>3
    <3>2. QED BY <1>3, <2>1, <3>1
  <2>4. QED BY <2>2, <2>3
<1>5. new[1].depth = 0
  <2>1. st[1].depth = 0
    BY DEF Nested
  <2>2. CASE Len(st) = 1
    BY <1>2, <2>1, <2>2 DEF Succeeds
  <2>3. CASE Len(st) # 1
    <3>1. 1 \in 1 .. Len(st) - 1
      BY <1>1, <2>3
    <3>2. QED BY <1>3, <2>1, <3>1
  <2>4. QED BY <2>2, <2>3
<1>6. new # <<>>
  BY <1>1, <1>2
<1>7. QED BY <1>2, <1>3, <1>4, <1>5, <1>6 DEF new, rest, Nested

\* The innermost frame calls another.
LEMMA CallStack ==
  ASSUME NEW S, NEW st \in Seq(S), st # <<>>, Nested(st),
         NEW f \in S, Succeeds(f, st[Len(st)]), NEW g \in S, Waits(f, g)
  PROVE  LET new == Append(Append(SubSeq(st, 1, Len(st) - 1), f), g)
         IN /\ new \in Seq(S) /\ Len(new) = Len(st) + 1 /\ new # <<>>
            /\ \A i \in 1 .. Len(st) - 1 : new[i] = st[i]
            /\ new[Len(st)] = f /\ new[Len(st) + 1] = g
            /\ Nested(new)
<1> DEFINE mid == Append(SubSeq(st, 1, Len(st) - 1), f)
           new == Append(mid, g)
<1>1. /\ mid \in Seq(S) /\ Len(mid) = Len(st) /\ mid # <<>>
      /\ \A i \in 1 .. Len(st) - 1 : mid[i] = st[i]
      /\ mid[Len(st)] = f /\ Nested(mid)
  BY BecomeStack
<1>2. Len(st) \in Nat /\ Len(st) >= 1
  OBVIOUS
<1> HIDE DEF mid
<1>3. /\ new \in Seq(S) /\ Len(new) = Len(st) + 1
      /\ \A i \in 1 .. Len(st) : new[i] = mid[i]
      /\ new[Len(st) + 1] = g
  BY <1>1, <1>2
<1> HIDE DEF new
<1>4. ASSUME NEW i \in 1 .. Len(new) - 1
      PROVE  Waits(new[i], new[i + 1])
  <2>1. i \in 1 .. Len(st) /\ i \in Nat
    BY <1>2, <1>3
  <2>2. CASE i = Len(st)
    BY <1>1, <1>3, <2>1, <2>2
  <2>3. CASE i # Len(st)
    <3>1. i \in 1 .. Len(mid) - 1 /\ i + 1 \in 1 .. Len(st)
      BY <1>1, <1>2, <2>1, <2>3
    <3>2. Waits(mid[i], mid[i + 1])
      BY <1>1, <3>1 DEF Nested
    <3>3. QED BY <1>3, <2>1, <3>1, <3>2
  <2>4. QED BY <2>2, <2>3
<1>5. new[1].depth = 0
  <2>1. 1 \in 1 .. Len(st) /\ mid[1].depth = 0
    BY <1>1, <1>2 DEF Nested
  <2>2. QED BY <1>3, <2>1
<1>6. \A i \in 1 .. Len(st) - 1 : new[i] = st[i]
  <2>1. \A i \in 1 .. Len(st) - 1 : i \in 1 .. Len(st)
    BY <1>2
  <2>2. QED BY <1>1, <1>3, <2>1
<1>7. new[Len(st)] = f /\ new # <<>>
  <2>1. Len(st) \in 1 .. Len(st) /\ Len(new) # 0
    BY <1>2, <1>3
  <2>2. QED BY <1>1, <1>3, <2>1
<1>8. QED BY <1>3, <1>4, <1>5, <1>6, <1>7 DEF new, mid, Nested

\* The innermost frame is gone, and the one under it replaced.
LEMMA ResumeStack ==
  ASSUME NEW S, NEW st \in Seq(S), Len(st) > 1, Nested(st),
         NEW f \in S, Succeeds(f, st[Len(st) - 1])
  PROVE  LET rest == SubSeq(st, 1, Len(st) - 1)
             new == [rest EXCEPT ![Len(st) - 1] = f]
         IN /\ new \in Seq(S) /\ Len(new) = Len(st) - 1 /\ new # <<>>
            /\ \A i \in 1 .. Len(st) - 2 : new[i] = st[i]
            /\ new[Len(st) - 1] = f
            /\ Nested(new)
<1> DEFINE rest == SubSeq(st, 1, Len(st) - 1)
           new == [rest EXCEPT ![Len(st) - 1] = f]
<1>1. st # <<>>
  OBVIOUS
<1>2. /\ Len(st) \in Nat /\ rest \in Seq(S) /\ Len(rest) = Len(st) - 1
      /\ \A i \in 1 .. Len(st) - 1 : rest[i] = st[i]
  BY <1>1, StackParts
<1> HIDE DEF rest
<1>3. /\ new \in Seq(S) /\ Len(new) = Len(rest)
      /\ \A i \in 1 .. Len(rest) : new[i] = IF i = Len(rest) THEN f ELSE rest[i]
  BY <1>2
<1> HIDE DEF new
<1>4. \A i \in 1 .. Len(st) - 2 : new[i] = st[i]
  BY <1>2, <1>3
<1>5. new[Len(st) - 1] = f
  BY <1>2, <1>3
<1>6. ASSUME NEW i \in 1 .. Len(new) - 1
      PROVE  Waits(new[i], new[i + 1])
  <2>1. i \in 1 .. Len(st) - 2 /\ i \in 1 .. Len(st) - 1 /\ i \in Nat
    BY <1>2, <1>3
  <2>2. Waits(st[i], st[i + 1]) /\ new[i] = st[i]
    BY <1>4, <2>1 DEF Nested
  <2>3. CASE i + 1 = Len(st) - 1
    BY <1>5, <2>2, <2>3, WaitsOn
  <2>4. CASE i + 1 # Len(st) - 1
    <3>1. i + 1 \in 1 .. Len(st) - 2
      BY <1>2, <2>1, <2>4
    <3>2. QED BY <1>4, <2>2, <3>1
  <2>5. QED BY <2>3, <2>4
<1>7. new[1].depth = 0
  <2>1. st[1].depth = 0
    BY <1>1 DEF Nested
  <2>2. CASE Len(st) - 1 = 1
    BY <1>5, <2>1, <2>2 DEF Succeeds
  <2>3. CASE Len(st) - 1 # 1
    <3>1. 1 \in 1 .. Len(st) - 2
      BY <1>2, <2>3
    <3>2. QED BY <1>4, <2>1, <3>1
  <2>4. QED BY <2>2, <2>3
<1>8. new # <<>>
  BY <1>2, <1>3
<1>9. QED BY <1>2, <1>3, <1>4, <1>5, <1>6, <1>7, <1>8 DEF new, rest, Nested

-----------------------------------------------------------------------------
(* Frames.                                                                 *)

\* The layers, one by one.
LEMMA LayerFacts ==
  /\ Layers = {1, 2, 3, 4} /\ Cached = {1, 2, 3} /\ MarketState .. Signals = {-1, 0, 1, 2, 3, 4}
  /\ MarketState = -1 /\ MultiTimeframe = 0
  /\ Confluence = 1 /\ Opportunities = 2 /\ Decisions = 3 /\ Signals = 4
BY DEF Layers, Cached, MarketState, MultiTimeframe, Confluence, Opportunities, Decisions, Signals

\* The versions of the state, and the payloads made of them.
LEMMA VersionFacts ==
  ASSUME TypeOK
  PROVE  /\ source \in Nat /\ source >= 1 /\ source \in Versions
         /\ None \in Payloads /\ NoData \in Payloads /\ Of(source) \in Payloads
         /\ \A v \in Payloads : /\ v.old \in Int /\ v.new \in Int /\ v.new <= source /\ v.old <= source
                                /\ v.old >= -1 /\ v.new >= -1
                                /\ [v EXCEPT !.new = source] \in Payloads
         /\ \A l \in Layers : file[l] \in Payloads
         /\ \A l \in Cached : cache[l] \in Payloads
<1>1. source \in Nat /\ source >= 1
  BY ChainAssumption DEF TypeOK
<1>2. source \in Versions /\ -1 \in Versions /\ 0 \in Versions
  BY <1>1 DEF Versions
<1>3. None \in Payloads /\ NoData \in Payloads /\ Of(source) \in Payloads
  BY <1>2 DEF Payloads, None, NoData, Of
<1>4. \A v \in Payloads : /\ v.old \in Int /\ v.new \in Int /\ v.new <= source /\ v.old <= source
                          /\ v.old >= -1 /\ v.new >= -1
  BY <1>1 DEF Payloads, Versions
<1>5. \A v \in Payloads : [v EXCEPT !.new = source] \in Payloads
  BY <1>2 DEF Payloads
<1>6. QED BY <1>1, <1>2, <1>3, <1>4, <1>5 DEF TypeOK

\* What a frame is made of.
LEMMA FrameFacts ==
  ASSUME NEW f \in Frames
  PROVE  /\ f.layer \in {-1, 0, 1, 2, 3, 4} /\ f.at \in Stages(f.layer) /\ f.val \in Payloads
         /\ f.chain \in BOOLEAN /\ f.depth \in 0 .. MaxNest
         /\ f.layer = 4 => f.chain
         /\ f.at \in {"look", "read", "store"} => f.layer \in Cached
         /\ f.at \in {"rebuild", "load", "save"} => f.layer \in Layers
         /\ f.at = "evaluate" => f.layer <= 2
         /\ f.at = "end" => f.layer <= 0
BY LayerFacts DEF Frames, Stages

\* A frame that goes on stays one of its layer.
LEMMA AsFrames ==
  ASSUME NEW f \in Frames, NEW at, NEW v \in Payloads, at \in Stages(f.layer)
  PROVE  /\ As(f, at, v) \in Frames /\ Succeeds(As(f, at, v), f)
         /\ As(f, at, v).layer = f.layer /\ As(f, at, v).chain = f.chain
         /\ As(f, at, v).depth = f.depth
         /\ As(f, at, v).at = at /\ As(f, at, v).val = v
<1>1. at \in {"look", "read", "rebuild", "load", "evaluate", "save", "store", "rescue", "end"}
  BY FrameFacts, LayerFacts DEF Stages
<1>2. QED BY <1>1 DEF Frames, As, Succeeds

\* Which stages there are.
LEMMA StageFacts ==
  /\ \A l \in {-1, 0} : "evaluate" \in Stages(l) /\ "rescue" \in Stages(l) /\ "end" \in Stages(l)
  /\ \A l \in Layers : "rebuild" \in Stages(l) /\ "load" \in Stages(l) /\ "save" \in Stages(l) /\ "rescue" \in Stages(l)
  /\ \A l \in Cached : "look" \in Stages(l) /\ "read" \in Stages(l) /\ "store" \in Stages(l)
  /\ "evaluate" \in Stages(1) /\ "evaluate" \in Stages(2)
BY LayerFacts DEF Stages

\* The frames calls begin with.
LEMMA RebuildFrames ==
  ASSUME TypeOK, NEW depth \in 0 .. MaxNest, NEW chain \in BOOLEAN,
         NEW l \in MarketState .. Signals, l = Signals => chain
  PROVE  /\ RebuildFrame(l, chain, depth) \in Frames
         /\ RebuildFrame(l, chain, depth).layer = l
         /\ RebuildFrame(l, chain, depth).chain = chain
         /\ RebuildFrame(l, chain, depth).depth = depth
         /\ RebuildFrame(l, chain, depth).val = None
         /\ RebuildFrame(l, chain, depth).at = (IF l < Confluence THEN "evaluate" ELSE "rebuild")
<1>1. None \in Payloads
  BY VersionFacts
<1>2. FirstStep(l) \in Stages(l)
  BY LayerFacts DEF FirstStep, Stages
<1>3. FirstStep(l) \in {"evaluate", "rebuild"}
  BY DEF FirstStep
<1>4. RebuildFrame(l, chain, depth) \in Frames
  BY <1>1, <1>2, <1>3 DEF RebuildFrame, Frame, Frames
<1>5. QED BY <1>4 DEF RebuildFrame, FirstStep, Frame

LEMMA LookFrames ==
  ASSUME TypeOK, NEW depth \in 0 .. MaxNest, NEW l \in Cached
  PROVE  /\ Frame(l, "look", FALSE, depth) \in Frames
         /\ Frame(l, "look", FALSE, depth).layer = l
         /\ Frame(l, "look", FALSE, depth).chain = FALSE
         /\ Frame(l, "look", FALSE, depth).depth = depth
         /\ Frame(l, "look", FALSE, depth).val = None
         /\ Frame(l, "look", FALSE, depth).at = "look"
<1>1. None \in Payloads
  BY VersionFacts
<1>2. "look" \in Stages(l) /\ l \in MarketState .. Signals /\ l # Signals
  BY StageFacts, LayerFacts
<1>3. Frame(l, "look", FALSE, depth) \in Frames
  BY <1>1, <1>2 DEF Frame, Frames
<1>4. QED BY <1>3 DEF Frame

\* What an evaluation goes on with, when no hook is left to run.
LEMMA EvaluatedFrames ==
  ASSUME TypeOK, NEW f \in Frames, f.at = "evaluate"
  PROVE  /\ Evaluated(f) \in Frames /\ Succeeds(Evaluated(f), f)
         /\ \/ f.layer >= 1 /\ Evaluated(f) = As(f, "save", [f.val EXCEPT !.new = source])
            \/ f.layer < 1 /\ f.chain /\ Evaluated(f) = RebuildFrame(f.layer + 1, TRUE, f.depth)
            \/ f.layer < 1 /\ ~f.chain /\ Evaluated(f) = As(f, "end", None)
<1>1. /\ f.layer \in {-1, 0, 1, 2} /\ f.val \in Payloads /\ f.chain \in BOOLEAN /\ f.depth \in 0 .. MaxNest
      /\ None \in Payloads /\ [f.val EXCEPT !.new = source] \in Payloads
  BY FrameFacts, VersionFacts
<1>2. CASE f.layer >= 1
  <2>1. Evaluated(f) = As(f, "save", [f.val EXCEPT !.new = source])
    BY <1>2, LayerFacts DEF Evaluated
  <2>2. "save" \in Stages(f.layer)
    BY <1>1, <1>2, StageFacts, LayerFacts
  <2>3. /\ As(f, "save", [f.val EXCEPT !.new = source]) \in Frames
        /\ Succeeds(As(f, "save", [f.val EXCEPT !.new = source]), f)
    BY <1>1, <2>2, AsFrames
  <2>4. QED BY <1>2, <2>1, <2>3
<1>3. CASE f.layer < 1 /\ f.chain
  <2>1. Evaluated(f) = RebuildFrame(f.layer + 1, TRUE, f.depth)
    <3>1. ~(f.layer >= Confluence)
      BY <1>1, <1>3, LayerFacts
    <3>2. QED BY <1>3, <3>1, Zenon DEF Evaluated, Following
  <2>2. f.layer + 1 \in MarketState .. Signals /\ f.layer + 1 # Signals
    BY <1>1, <1>3, LayerFacts
  <2>3. /\ RebuildFrame(f.layer + 1, TRUE, f.depth) \in Frames
        /\ RebuildFrame(f.layer + 1, TRUE, f.depth).depth = f.depth
    BY <1>1, <2>2, RebuildFrames
  <2>4. QED BY <1>3, <2>1, <2>3 DEF Succeeds
<1>4. CASE f.layer < 1 /\ ~f.chain
  <2>1. Evaluated(f) = As(f, "end", None)
    BY <1>1, <1>4, LayerFacts DEF Evaluated
  <2>2. "end" \in Stages(f.layer)
    BY <1>1, <1>4, StageFacts
  <2>3. As(f, "end", None) \in Frames /\ Succeeds(As(f, "end", None), f)
    BY <1>1, <2>2, AsFrames
  <2>4. QED BY <1>4, <2>1, <2>3
<1>5. f.layer >= 1 \/ f.layer < 1
  BY <1>1
<1>6. QED BY <1>1, <1>2, <1>3, <1>4, <1>5

\* What a build goes on with when the engine above answers, or raises.
LEMMA LoadedFrames ==
  ASSUME TypeOK, NEW f \in Frames, f.at = "load", NEW v \in Payloads
  PROVE  /\ Loaded(f, v) \in Frames /\ Succeeds(Loaded(f, v), f)
         /\ NotLoaded(f) \in Frames /\ Succeeds(NotLoaded(f), f)
<1>1. f.layer \in Layers /\ None \in Payloads /\ NoData \in Payloads
  BY FrameFacts, VersionFacts
<1>2. "save" \in Stages(f.layer) /\ "rescue" \in Stages(f.layer)
  BY <1>1, StageFacts
<1>3. f.layer = Opportunities => "evaluate" \in Stages(f.layer)
  BY StageFacts, LayerFacts
<1>4. Loaded(f, v) = As(f, "save", v) \/ (f.layer = Opportunities /\ Loaded(f, v) = As(f, "evaluate", v))
  BY DEF Loaded
<1>5. Loaded(f, v) \in Frames /\ Succeeds(Loaded(f, v), f)
  <2>1. CASE Loaded(f, v) = As(f, "save", v)
    BY <1>2, <2>1, AsFrames
  <2>2. CASE f.layer = Opportunities /\ Loaded(f, v) = As(f, "evaluate", v)
    BY <1>3, <2>2, AsFrames
  <2>3. QED BY <1>4, <2>1, <2>2
<1>6. NotLoaded(f) = As(f, "save", NoData) \/ NotLoaded(f) = As(f, "rescue", None)
  BY DEF NotLoaded
<1>7. NotLoaded(f) \in Frames /\ Succeeds(NotLoaded(f), f)
  <2>1. CASE NotLoaded(f) = As(f, "save", NoData)
    BY <1>1, <1>2, <2>1, AsFrames
  <2>2. CASE NotLoaded(f) = As(f, "rescue", None)
    BY <1>1, <1>2, <2>2, AsFrames
  <2>3. QED BY <1>6, <2>1, <2>2
<1>8. QED BY <1>5, <1>7

-----------------------------------------------------------------------------
(* Types.                                                                  *)

\* What a running call's stack is.
LEMMA RunningStack ==
  ASSUME TypeOK, NEW p \in Procs, ~Idle(p)
  PROVE  /\ stack[p] \in Seq(Frames) /\ stack[p] # <<>> /\ Nested(stack[p])
         /\ Len(stack[p]) \in Nat /\ Len(stack[p]) >= 1
         /\ Top(p) = stack[p][Len(stack[p])] /\ Top(p) \in Frames
         /\ \A i \in 1 .. Len(stack[p]) : stack[p][i] \in Frames
         /\ \A i \in 1 .. Len(stack[p]) - 1 : Waits(stack[p][i], stack[p][i + 1])
         /\ stack[p][1].depth = 0
         /\ Len(stack[p]) > 1 =>
              /\ Caller(p) = stack[p][Len(stack[p]) - 1] /\ Caller(p) \in Frames
              /\ Waits(Caller(p), Top(p))
<1>1. stack[p] \in Seq(Frames) /\ stack[p] # <<>> /\ Nested(stack[p])
  BY DEF TypeOK, Idle
<1>2. Len(stack[p]) \in Nat /\ Len(stack[p]) >= 1
  BY <1>1, StackParts
<1>3. \A i \in 1 .. Len(stack[p]) : stack[p][i] \in Frames
  BY <1>1
<1>4. /\ \A i \in 1 .. Len(stack[p]) - 1 : Waits(stack[p][i], stack[p][i + 1])
      /\ stack[p][1].depth = 0
  BY <1>1 DEF Nested
<1>5. Top(p) = stack[p][Len(stack[p])] /\ Top(p) \in Frames
  BY <1>2, <1>3 DEF Top
<1>6. ASSUME Len(stack[p]) > 1
      PROVE  /\ Caller(p) = stack[p][Len(stack[p]) - 1] /\ Caller(p) \in Frames
             /\ Waits(Caller(p), Top(p))
  <2> DEFINE n == Len(stack[p]) - 1
  <2>1. n \in 1 .. Len(stack[p]) /\ n \in 1 .. Len(stack[p]) - 1 /\ n + 1 = Len(stack[p])
    BY <1>2, <1>6
  <2>2. Caller(p) = stack[p][n]
    BY DEF Caller
  <2>3. stack[p][n] \in Frames
    BY <1>3, <2>1
  <2>4. Waits(stack[p][n], stack[p][n + 1])
    BY <1>4, <2>1
  <2>5. QED BY <1>5, <2>1, <2>2, <2>3, <2>4
<1>7. QED BY <1>1, <1>2, <1>3, <1>4, <1>5, <1>6

\* p's stack becomes st.
Becomes(p, st) ==
  /\ st \in Seq(Frames) /\ Nested(st) /\ stack' = [stack EXCEPT ![p] = st]

\* The innermost frame becomes f.
Replaced(p, f) ==
  \E st :
    /\ Becomes(p, st) /\ st # <<>> /\ Len(st) = Len(stack[p])
    /\ \A i \in 1 .. Len(stack[p]) - 1 : st[i] = stack[p][i]
    /\ st[Len(stack[p])] = f

\* It becomes f and calls g.
Called(p, f, g) ==
  \E st :
    /\ Becomes(p, st) /\ st # <<>> /\ Len(st) = Len(stack[p]) + 1
    /\ \A i \in 1 .. Len(stack[p]) - 1 : st[i] = stack[p][i]
    /\ st[Len(stack[p])] = f /\ st[Len(stack[p]) + 1] = g

\* It is gone, and the one under it becomes f.
Resumed(p, f) ==
  \E st :
    /\ Becomes(p, st) /\ st # <<>> /\ Len(st) = Len(stack[p]) - 1
    /\ \A i \in 1 .. Len(stack[p]) - 2 : st[i] = stack[p][i]
    /\ st[Len(stack[p]) - 1] = f

LEMMA BecomeCases ==
  ASSUME TypeOK, NEW p \in Procs, ~Idle(p), NEW f \in Frames, Succeeds(f, Top(p)), Become(p, f)
  PROVE  Replaced(p, f)
<1> DEFINE st == Append(SubSeq(stack[p], 1, Len(stack[p]) - 1), f)
<1>1. stack[p] \in Seq(Frames) /\ stack[p] # <<>> /\ Nested(stack[p]) /\ Top(p) = stack[p][Len(stack[p])]
  BY RunningStack
<1>2. stack' = [stack EXCEPT ![p] = st]
  BY DEF Become, Below
<1>3. /\ st \in Seq(Frames) /\ Len(st) = Len(stack[p]) /\ st # <<>>
      /\ \A i \in 1 .. Len(stack[p]) - 1 : st[i] = stack[p][i]
      /\ st[Len(stack[p])] = f
      /\ Nested(st)
  BY <1>1, BecomeStack
<1> HIDE DEF st
<1>4. QED BY <1>2, <1>3 DEF Replaced, Becomes

LEMMA CallCases ==
  ASSUME TypeOK, NEW p \in Procs, ~Idle(p), NEW f \in Frames, Succeeds(f, Top(p)),
         NEW g \in Frames, Waits(f, g), Call(p, f, g)
  PROVE  Called(p, f, g)
<1> DEFINE st == Append(Append(SubSeq(stack[p], 1, Len(stack[p]) - 1), f), g)
<1>1. stack[p] \in Seq(Frames) /\ stack[p] # <<>> /\ Nested(stack[p]) /\ Top(p) = stack[p][Len(stack[p])]
  BY RunningStack
<1>2. stack' = [stack EXCEPT ![p] = st]
  BY DEF Call, Below
<1>3. /\ st \in Seq(Frames) /\ Len(st) = Len(stack[p]) + 1 /\ st # <<>>
      /\ \A i \in 1 .. Len(stack[p]) - 1 : st[i] = stack[p][i]
      /\ st[Len(stack[p])] = f /\ st[Len(stack[p]) + 1] = g
      /\ Nested(st)
  BY <1>1, CallStack
<1> HIDE DEF st
<1>4. QED BY <1>2, <1>3 DEF Called, Becomes

LEMMA ResumeCases ==
  ASSUME TypeOK, NEW p \in Procs, ~Idle(p), Len(stack[p]) > 1,
         NEW f \in Frames, Succeeds(f, Caller(p)), Resume(p, f)
  PROVE  Resumed(p, f)
<1> DEFINE st == [SubSeq(stack[p], 1, Len(stack[p]) - 1) EXCEPT ![Len(stack[p]) - 1] = f]
<1>1. stack[p] \in Seq(Frames) /\ Nested(stack[p]) /\ Caller(p) = stack[p][Len(stack[p]) - 1]
  BY RunningStack
<1>2. stack' = [stack EXCEPT ![p] = st]
  BY DEF Resume, Below
<1>3. /\ st \in Seq(Frames) /\ Len(st) = Len(stack[p]) - 1 /\ st # <<>>
      /\ \A i \in 1 .. Len(stack[p]) - 2 : st[i] = stack[p][i]
      /\ st[Len(stack[p]) - 1] = f
      /\ Nested(st)
  BY <1>1, ResumeStack
<1> HIDE DEF st
<1>4. QED BY <1>2, <1>3 DEF Resumed, Becomes

\* The innermost frame goes on.
LEMMA GoCases ==
  ASSUME TypeOK, NEW p \in Procs, ~Idle(p), NEW at, NEW v \in Payloads, at \in Stages(Top(p).layer),
         Go(p, at, v)
  PROVE  Replaced(p, As(Top(p), at, v))
<1>1. Top(p) \in Frames
  BY RunningStack
<1> DEFINE f == As(Top(p), at, v)
<1>2. f \in Frames /\ Succeeds(f, Top(p))
  BY <1>1, AsFrames
<1>3. Become(p, f)
  BY DEF Go
<1> HIDE DEF f
<1>4. Replaced(p, f)
  BY <1>2, <1>3, BecomeCases
<1>5. QED BY <1>4 DEF f

\* The ways a call goes on when an engine's all() or rebuild() returns.
LEMMA ReturnCases ==
  ASSUME TypeOK, NEW p \in Procs, ~Idle(p), Top(p).layer \in Cached, NEW v \in Payloads, Return(p, v)
  PROVE  \/ Len(stack[p]) = 1 /\ ~Top(p).chain /\ Over(p)
         \/ /\ Top(p).chain /\ UNCHANGED lock
            /\ Replaced(p, RebuildFrame(Top(p).layer + 1, TRUE, Top(p).depth))
         \/ /\ Len(stack[p]) > 1 /\ ~Top(p).chain /\ UNCHANGED lock
            /\ Caller(p).at = "evaluate" /\ Resumed(p, Evaluated(Caller(p)))
         \/ /\ Len(stack[p]) > 1 /\ ~Top(p).chain /\ UNCHANGED lock
            /\ Caller(p).at = "load" /\ Caller(p).layer = Top(p).layer + 1
            /\ Resumed(p, Loaded(Caller(p), v))
<1>1. Top(p) \in Frames /\ Len(stack[p]) \in Nat /\ Len(stack[p]) >= 1
  BY RunningStack
<1>2. Top(p).chain \in BOOLEAN /\ Top(p).depth \in 0 .. MaxNest
  BY <1>1, FrameFacts
<1>3. CASE ~Top(p).chain /\ Len(stack[p]) = 1
  BY <1>3 DEF Return
<1>4. CASE Top(p).chain
  <2> DEFINE f == RebuildFrame(Top(p).layer + 1, TRUE, Top(p).depth)
  <2>1. Become(p, f) /\ UNCHANGED lock
    BY <1>4 DEF Return, Following
  <2>2. Top(p).layer + 1 \in MarketState .. Signals
    BY LayerFacts
  <2>3. f \in Frames /\ f.depth = Top(p).depth
    BY <1>2, <2>2, RebuildFrames
  <2>4. Succeeds(f, Top(p))
    BY <1>4, <2>3 DEF Succeeds
  <2> HIDE DEF f
  <2>5. Replaced(p, f)
    BY <2>1, <2>3, <2>4, BecomeCases
  <2>6. QED BY <1>4, <2>1, <2>5 DEF f
<1>5. CASE ~Top(p).chain /\ Len(stack[p]) # 1
  <2>1. /\ Len(stack[p]) > 1 /\ UNCHANGED lock
        /\ IF Caller(p).at = "evaluate" THEN Resume(p, Evaluated(Caller(p)))
           ELSE Resume(p, Loaded(Caller(p), v))
    <3>1. Len(stack[p]) > 1
      <4>1. \A n \in Nat : n >= 1 /\ n # 1 => n > 1
        OBVIOUS
      <4>2. QED BY <1>1, <1>5, <4>1, Zenon
    <3>2. QED BY <1>5, <3>1 DEF Return
  <2>2. Caller(p) \in Frames /\ Waits(Caller(p), Top(p))
    BY <2>1, RunningStack
  <2>3. CASE Caller(p).at = "evaluate"
    <3> DEFINE f == Evaluated(Caller(p))
    <3>1. f \in Frames /\ Succeeds(f, Caller(p))
      BY <2>2, <2>3, EvaluatedFrames
    <3>2. Resume(p, f)
      BY <2>1, <2>3
    <3> HIDE DEF f
    <3>3. Resumed(p, f)
      BY <2>1, <3>1, <3>2, ResumeCases
    <3>4. QED BY <1>5, <2>1, <2>3, <3>3 DEF f
  <2>4. CASE Caller(p).at # "evaluate"
    <3> DEFINE f == Loaded(Caller(p), v)
    <3>1. Caller(p).at = "load" /\ Top(p).layer = Caller(p).layer - 1
      BY <2>2, <2>4 DEF Waits
    <3>2. f \in Frames /\ Succeeds(f, Caller(p))
      BY <2>2, <3>1, LoadedFrames
    <3>3. Resume(p, f)
      BY <2>1, <2>4
    <3> HIDE DEF f
    <3>4. Resumed(p, f)
      BY <2>1, <3>2, <3>3, ResumeCases
    <3>5. Caller(p).layer = Top(p).layer + 1
      <4>1. Caller(p).layer \in {-1, 0, 1, 2, 3, 4}
        BY <2>2, FrameFacts
      <4>2. QED BY <3>1, <4>1
    <3>6. QED BY <1>5, <2>1, <3>1, <3>4, <3>5 DEF f
  <2>5. QED BY <2>3, <2>4
<1>6. QED BY <1>2, <1>3, <1>4, <1>5

\* The ways it goes on when one raises.
LEMMA RaiseCases ==
  ASSUME TypeOK, NEW p \in Procs, ~Idle(p), Raise(p)
  PROVE  \/ Len(stack[p]) = 1 /\ Over(p)
         \/ /\ Len(stack[p]) > 1 /\ UNCHANGED lock
            /\ Caller(p).at = "evaluate" /\ Resumed(p, Evaluated(Caller(p)))
         \/ /\ Len(stack[p]) > 1 /\ UNCHANGED lock
            /\ Caller(p).at = "load" /\ Caller(p).layer = Top(p).layer + 1 /\ ~Top(p).chain
            /\ Resumed(p, NotLoaded(Caller(p)))
<1>1. Top(p) \in Frames /\ Len(stack[p]) \in Nat /\ Len(stack[p]) >= 1
  BY RunningStack
<1>2. CASE Len(stack[p]) = 1
  BY <1>2 DEF Raise
<1>3. CASE Len(stack[p]) # 1
  <2>1. /\ Len(stack[p]) > 1 /\ UNCHANGED lock
        /\ Resume(p, IF Caller(p).at = "evaluate" THEN Evaluated(Caller(p)) ELSE NotLoaded(Caller(p)))
    <3>1. Len(stack[p]) > 1
      <4>1. \A n \in Nat : n >= 1 /\ n # 1 => n > 1
        OBVIOUS
      <4>2. QED BY <1>1, <1>3, <4>1, Zenon
    <3>2. QED BY <1>3, <3>1 DEF Raise
  <2>2. Caller(p) \in Frames /\ Waits(Caller(p), Top(p))
    BY <2>1, RunningStack
  <2>3. CASE Caller(p).at = "evaluate"
    <3> DEFINE f == Evaluated(Caller(p))
    <3>1. f \in Frames /\ Succeeds(f, Caller(p))
      BY <2>2, <2>3, EvaluatedFrames
    <3>2. Resume(p, f)
      BY <2>1, <2>3
    <3> HIDE DEF f
    <3>3. Resumed(p, f)
      BY <2>1, <3>1, <3>2, ResumeCases
    <3>4. QED BY <2>1, <2>3, <3>3 DEF f
  <2>4. CASE Caller(p).at # "evaluate"
    <3> DEFINE f == NotLoaded(Caller(p))
    <3>1. Caller(p).at = "load" /\ Top(p).layer = Caller(p).layer - 1 /\ ~Top(p).chain
      BY <2>2, <2>4 DEF Waits
    <3>2. f \in Frames /\ Succeeds(f, Caller(p))
      <4>1. None \in Payloads
        BY VersionFacts
      <4>2. QED BY <2>2, <3>1, <4>1, LoadedFrames
    <3>3. Resume(p, f)
      BY <2>1, <2>4
    <3> HIDE DEF f
    <3>4. Resumed(p, f)
      BY <2>1, <3>2, <3>3, ResumeCases
    <3>5. Caller(p).layer = Top(p).layer + 1
      <4>1. Caller(p).layer \in {-1, 0, 1, 2, 3, 4} /\ Top(p).layer \in {-1, 0, 1, 2, 3, 4}
        BY <1>1, <2>2, FrameFacts
      <4>2. QED BY <3>1, <4>1
    <3>6. QED BY <2>1, <3>1, <3>4, <3>5 DEF f
  <2>5. QED BY <2>3, <2>4
<1>4. QED BY <1>2, <1>3

\* A step of p that leaves it a stack of its type.
LEMMA StepTypes ==
  ASSUME TypeOK, NEW p \in Procs, NEW st, Becomes(p, st),
         source' = source, finished' = finished,
         file' \in [Layers -> Payloads], cache' \in [Cached -> Payloads],
         lock' \in [Procs -> {"none"} \cup DOMAIN Operations],
         st = <<>> => lock'[p] = "none",
         \A q \in Procs : q # p => lock'[q] = lock[q],
         calls' \in 0 .. MaxCalls, fails' \in 0 .. MaxFails,
         lone' \in Procs \cup {"none"}, order' \in {"equal", "kept", "raced"}
  PROVE  TypeOK'
<1>1. /\ stack' \in [Procs -> Seq(Frames)]
      /\ \A q \in Procs : stack'[q] = IF q = p THEN st ELSE stack[q]
      /\ Nested(st)
  BY DEF TypeOK, Becomes
<1>2. Frames' = Frames /\ Payloads' = Payloads
  BY DEF Frames, Payloads, Versions
<1>3. ASSUME NEW q \in Procs
      PROVE  Nested(stack'[q]) /\ (stack'[q] = <<>> => lock'[q] = "none")
  BY <1>1 DEF TypeOK, Idle
<1>4. source' \in 1 .. MaxChanges + 1 /\ finished' \in BOOLEAN
  BY DEF TypeOK
<1>5. QED BY <1>1, <1>2, <1>3, <1>4 DEF TypeOK, Idle, Nested

\* What a step leaves besides the stack of p and the locks.
Rest ==
  /\ source' = source /\ finished' = finished
  /\ file' \in [Layers -> Payloads] /\ cache' \in [Cached -> Payloads]
  /\ calls' \in 0 .. MaxCalls /\ fails' \in 0 .. MaxFails
  /\ lone' \in Procs \cup {"none"} /\ order' \in {"equal", "kept", "raced"}

LEMMA RunTypes ==
  ASSUME TypeOK, NEW p \in Procs, NEW st, Becomes(p, st), st # <<>>, UNCHANGED lock, Rest
  PROVE  TypeOK'
<1>1. lock' \in [Procs -> {"none"} \cup DOMAIN Operations]
  BY DEF TypeOK
<1>2. QED BY <1>1, StepTypes DEF Rest

LEMMA OverTypes ==
  ASSUME TypeOK, NEW p \in Procs, Over(p), Rest
  PROVE  TypeOK'
<1>1. <<>> \in Seq(Frames) /\ Nested(<<>>)
  BY DEF Nested
<1>2. Becomes(p, <<>>)
  BY <1>1 DEF Over, Becomes
<1>3. /\ lock' \in [Procs -> {"none"} \cup DOMAIN Operations] /\ lock'[p] = "none"
      /\ \A q \in Procs : q # p => lock'[q] = lock[q]
  BY DEF Over, TypeOK
<1>4. QED BY <1>2, <1>3, StepTypes DEF Rest

LEMMA ReplacedTypes ==
  ASSUME TypeOK, NEW p \in Procs, NEW f, Replaced(p, f), UNCHANGED lock, Rest
  PROVE  TypeOK'
BY RunTypes DEF Replaced

LEMMA ResumedTypes ==
  ASSUME TypeOK, NEW p \in Procs, NEW f, Resumed(p, f), UNCHANGED lock, Rest
  PROVE  TypeOK'
BY RunTypes DEF Resumed

LEMMA CalledTypes ==
  ASSUME TypeOK, NEW p \in Procs, NEW f, NEW g, Called(p, f, g), UNCHANGED lock, Rest
  PROVE  TypeOK'
BY RunTypes DEF Called

LEMMA GoTypes ==
  ASSUME TypeOK, NEW p \in Procs, ~Idle(p), NEW at, NEW v \in Payloads, at \in Stages(Top(p).layer),
         Go(p, at, v), UNCHANGED lock, Rest
  PROVE  TypeOK'
BY GoCases, ReplacedTypes

LEMMA ReturnTypes ==
  ASSUME TypeOK, NEW p \in Procs, ~Idle(p), Top(p).layer \in Cached, NEW v \in Payloads, Return(p, v), Rest
  PROVE  TypeOK'
BY ReturnCases, OverTypes, ReplacedTypes, ResumedTypes

LEMMA RaiseTypes ==
  ASSUME TypeOK, NEW p \in Procs, ~Idle(p), Raise(p), Rest
  PROVE  TypeOK'
BY RaiseCases, OverTypes, ResumedTypes

\* What the steps of a running call do, with all that is known of its frame.
Hits(p) ==
  /\ Top(p).at = "look" /\ Top(p).layer \in Cached /\ cache[Top(p).layer] # None
  /\ Return(p, cache[Top(p).layer]) /\ UNCHANGED <<file, cache, order, fails, lone>>
Misses(p) ==
  /\ Top(p).at = "look" /\ Top(p).layer \in Cached /\ Go(p, "read", None)
  /\ cache' = [cache EXCEPT ![Top(p).layer] = None] /\ UNCHANGED <<file, lock, order, fails, lone>>
FileAnswers(p) ==
  /\ Top(p).at = "read" /\ Top(p).layer \in Cached /\ file[Top(p).layer] # None /\ Go(p, "store", file[Top(p).layer])
  /\ UNCHANGED <<file, cache, lock, order, fails, lone>>
NoFile(p) ==
  /\ Top(p).at = "read" /\ Top(p).layer \in Cached /\ file[Top(p).layer] = None /\ Go(p, "rebuild", None)
  /\ UNCHANGED <<file, cache, lock, order, fails, lone>>
RebuildsTop(p) ==
  /\ Top(p).at = "rebuild" /\ Top(p).layer = 1 /\ Go(p, "load", None)
  /\ cache' = [cache EXCEPT ![Top(p).layer] = None] /\ UNCHANGED <<file, lock, order, fails, lone>>
RebuildsBelow(p) ==
  /\ Top(p).at = "rebuild" /\ Top(p).layer \in {2, 3, 4}
  /\ Called(p, As(Top(p), "load", None), Frame(Top(p).layer - 1, "look", FALSE, Top(p).depth))
  /\ cache' = IF Top(p).layer \in Cached THEN [cache EXCEPT ![Top(p).layer] = None] ELSE cache
  /\ UNCHANGED <<file, lock, order, fails, lone>>
Loads(p) ==
  /\ Top(p).at = "load" /\ Top(p).layer = 1 /\ Go(p, "evaluate", Of(source))
  /\ UNCHANGED <<file, cache, lock, order, fails, lone>>
Evaluates(p) ==
  /\ Top(p).at = "evaluate" /\ (~finished \/ Top(p).depth = MaxNest) /\ Replaced(p, Evaluated(Top(p)))
  /\ UNCHANGED <<file, cache, lock, order, fails, lone>>
Hooks(p) ==
  /\ Top(p).at = "evaluate" /\ finished /\ Top(p).depth < MaxNest
  /\ Called(p, Top(p), RebuildFrame(MarketState, TRUE, Top(p).depth + 1))
  /\ order' = "raced" /\ UNCHANGED <<file, cache, lock, fails, lone>>
Fails(p) ==
  /\ Top(p).at \in {"evaluate", "save"} /\ Go(p, "rescue", None)
  /\ \/ fails' \in 0 .. MaxFails /\ lone' = "none"
     \/ Top(p).depth = MaxNest /\ UNCHANGED <<fails, lone>>
  /\ UNCHANGED <<file, cache, lock, order>>
Counts(p) ==
  /\ Top(p).at = "save" /\ Top(p).layer = 4 /\ Top(p).chain /\ file' = [file EXCEPT ![4] = Top(p).val]
  /\ Replaced(p, CountDecisions(Top(p)))
  /\ order' = (IF lone = p /\ Top(p).depth = 0 THEN "equal" ELSE order)
  /\ UNCHANGED <<cache, lock, fails, lone>>
Saves(p) ==
  /\ Top(p).at = "save" /\ Top(p).layer \in Cached /\ file' = [file EXCEPT ![Top(p).layer] = Top(p).val]
  /\ Go(p, "store", Top(p).val) /\ UNCHANGED <<cache, lock, order, fails, lone>>
Stores(p) ==
  /\ Top(p).at = "store" /\ Top(p).layer \in Cached /\ cache' = [cache EXCEPT ![Top(p).layer] = Top(p).val]
  /\ Return(p, Top(p).val) /\ UNCHANGED <<file, order, fails, lone>>
Ends(p) ==
  /\ Top(p).at = "end" /\ Top(p).layer <= 0 /\ Over(p) /\ UNCHANGED <<file, cache, order, fails, lone>>
Rescues(p) ==
  /\ Top(p).at = "rescue" /\ Top(p).layer \in Cached /\ file[Top(p).layer] # None /\ Go(p, "store", file[Top(p).layer])
  /\ UNCHANGED <<file, cache, lock, order, fails, lone>>
GivesUp(p) ==
  /\ Top(p).at = "rescue" /\ Raise(p) /\ UNCHANGED <<file, cache, order, fails, lone>>
Stepped(p) ==
  \/ Hits(p) \/ Misses(p) \/ FileAnswers(p) \/ NoFile(p) \/ RebuildsTop(p) \/ RebuildsBelow(p)
  \/ Loads(p) \/ Evaluates(p) \/ Hooks(p) \/ Fails(p) \/ Counts(p) \/ Saves(p)
  \/ Stores(p) \/ Ends(p) \/ Rescues(p) \/ GivesUp(p)

LEMMA StepCases ==
  ASSUME TypeOK, NEW p \in Procs, Step(p) \/ Fail(p)
  PROVE  ~Idle(p) /\ Stepped(p) /\ UNCHANGED <<source, finished, calls>>
<1>1. ~Idle(p) /\ UNCHANGED <<source, finished, calls>>
  BY DEF Step, Look, ReadFile, Rebuild, Load, Evaluate, Hook, Save, Store, End, Rescue, Fail, Running
<1> SUFFICES Stepped(p)
  BY <1>1
<1>2. Top(p) \in Frames
  BY <1>1, RunningStack
<1>3. /\ Top(p).layer \in {-1, 0, 1, 2, 3, 4} /\ Top(p).at \in Stages(Top(p).layer) /\ Top(p).val \in Payloads
      /\ Top(p).chain \in BOOLEAN /\ Top(p).depth \in 0 .. MaxNest
      /\ Top(p).layer = 4 => Top(p).chain
      /\ Top(p).at \in {"look", "read", "store"} => Top(p).layer \in Cached
      /\ Top(p).at \in {"rebuild", "load", "save"} => Top(p).layer \in Layers
      /\ Top(p).at = "evaluate" => Top(p).layer <= 2
      /\ Top(p).at = "end" => Top(p).layer <= 0
  BY <1>2, FrameFacts
<1>4. None \in Payloads
  BY VersionFacts
<1>5. CASE Look(p)
  BY <1>3, <1>5 DEF Look, Running, Stepped, Hits, Misses
<1>6. CASE ReadFile(p)
  BY <1>3, <1>6 DEF ReadFile, Running, Stepped, FileAnswers, NoFile
<1>7. CASE Rebuild(p)
  <2>1. Top(p).at = "rebuild" /\ Top(p).layer \in Layers
    BY <1>3, <1>7 DEF Rebuild, Running
  <2>2. CASE Top(p).layer = 1
    <3>1. /\ cache' = [cache EXCEPT ![Top(p).layer] = None] /\ Go(p, "load", None)
          /\ UNCHANGED <<file, lock, order, fails, lone>>
      BY <1>7, <2>2, LayerFacts DEF Rebuild
    <3>2. QED BY <1>1, <2>1, <2>2, <3>1 DEF Stepped, RebuildsTop
  <2>3. CASE Top(p).layer \in {2, 3, 4}
    <3> DEFINE f == As(Top(p), "load", None)
               g == Frame(Top(p).layer - 1, "look", FALSE, Top(p).depth)
    <3>1. /\ cache' = IF Top(p).layer \in Cached THEN [cache EXCEPT ![Top(p).layer] = None] ELSE cache
          /\ Call(p, f, g)
          /\ UNCHANGED <<file, lock, order, fails, lone>>
      <4>1. Top(p).layer # Confluence
        BY <2>3, LayerFacts
      <4>2. QED BY <1>7, <4>1 DEF Rebuild
    <3>2. "load" \in Stages(Top(p).layer)
      BY <2>1, StageFacts
    <3>3. /\ f \in Frames /\ Succeeds(f, Top(p)) /\ f.at = "load" /\ f.layer = Top(p).layer /\ f.depth = Top(p).depth
      BY <1>2, <1>4, <3>2, AsFrames
    <3>4. Top(p).layer - 1 \in Cached
      BY <2>3, LayerFacts
    <3>5. g \in Frames /\ g.layer = Top(p).layer - 1 /\ ~g.chain /\ g.depth = Top(p).depth
      BY <1>3, <3>4, LookFrames
    <3>6. Waits(f, g)
      BY <3>3, <3>5 DEF Waits
    <3>7. Called(p, f, g)
      <4> HIDE DEF f, g
      <4>1. QED BY <1>1, <3>1, <3>3, <3>5, <3>6, CallCases
    <3>8. RebuildsBelow(p)
      BY <2>1, <2>3, <3>1, <3>7 DEF RebuildsBelow
    <3>9. QED BY <3>8 DEF Stepped
  <2>4. QED BY <2>1, <2>2, <2>3, LayerFacts
<1>8. CASE Load(p)
  BY <1>8, LayerFacts DEF Load, Running, Stepped, Loads
<1>9. CASE Evaluate(p)
  <2> DEFINE f == Evaluated(Top(p))
  <2>1. /\ Top(p).at = "evaluate" /\ Become(p, f) /\ (~finished \/ Top(p).depth = MaxNest)
        /\ UNCHANGED <<file, cache, lock, order, fails, lone>>
    BY <1>9 DEF Evaluate, Running
  <2>2. f \in Frames /\ Succeeds(f, Top(p))
    BY <1>2, <2>1, EvaluatedFrames
  <2>3. Replaced(p, f)
    <3> HIDE DEF f
    <3>1. QED BY <1>1, <2>1, <2>2, BecomeCases
  <2>4. Evaluates(p)
    BY <2>1, <2>3 DEF Evaluates
  <2>5. QED BY <2>4 DEF Stepped
<1>10. CASE Hook(p)
  <2> DEFINE g == RebuildFrame(MarketState, TRUE, Top(p).depth + 1)
  <2>1. /\ Top(p).at = "evaluate" /\ Call(p, Top(p), g) /\ finished /\ Top(p).depth < MaxNest
        /\ order' = "raced" /\ UNCHANGED <<file, cache, lock, fails, lone>>
    BY <1>10 DEF Hook, Running
  <2>2. Top(p).depth + 1 \in 0 .. MaxNest /\ MarketState \in MarketState .. Signals
    BY <1>3, <2>1, LayerFacts, ChainAssumption
  <2>3. g \in Frames /\ g.depth = Top(p).depth + 1
    BY <2>2, RebuildFrames
  <2>4. Waits(Top(p), g) /\ Succeeds(Top(p), Top(p))
    BY <2>1, <2>3 DEF Waits, Succeeds
  <2>5. Called(p, Top(p), g)
    <3> HIDE DEF g
    <3>1. QED BY <1>1, <1>2, <2>1, <2>3, <2>4, CallCases
  <2>6. Hooks(p)
    BY <2>1, <2>5 DEF Hooks
  <2>7. QED BY <2>6 DEF Stepped
<1>11. CASE Fail(p)
  <2>1. fails \in 0 .. MaxFails
    BY DEF TypeOK
  <2>2. fails < MaxFails => fails + 1 \in 0 .. MaxFails
    BY <2>1, ChainAssumption
  <2>3. Top(p).at \in {"evaluate", "save"}
    BY <1>11 DEF Fail
  <2>4. /\ Go(p, "rescue", None) /\ UNCHANGED <<file, cache, lock, order>>
        /\ \/ fails' \in 0 .. MaxFails /\ lone' = "none"
           \/ Top(p).depth = MaxNest /\ UNCHANGED <<fails, lone>>
    BY <1>11, <2>2 DEF Fail
  <2>5. Fails(p)
    BY <2>3, <2>4 DEF Fails
  <2>6. QED BY <2>5 DEF Stepped
<1>12. CASE Save(p)
  <2>1. Top(p).at = "save" /\ Top(p).layer \in Layers
    BY <1>3, <1>12 DEF Save, Running
  <2>2. CASE Top(p).layer = 4
    <3> DEFINE f == CountDecisions(Top(p))
    <3>1. /\ file' = [file EXCEPT ![4] = Top(p).val] /\ Become(p, f)
          /\ order' = (IF lone = p /\ Top(p).depth = 0 THEN "equal" ELSE order)
          /\ UNCHANGED <<cache, lock, fails, lone>>
      BY <1>12, <2>2, LayerFacts DEF Save
    <3>2. f \in Frames /\ f.depth = Top(p).depth
      BY <1>3, LookFrames, LayerFacts DEF CountDecisions
    <3>3. Succeeds(f, Top(p)) /\ Top(p).chain
      BY <1>3, <2>2, <3>2 DEF Succeeds
    <3>4. Replaced(p, f)
      <4> HIDE DEF f
      <4>1. QED BY <1>1, <3>1, <3>2, <3>3, BecomeCases
    <3>5. Counts(p)
      BY <2>1, <2>2, <3>1, <3>3, <3>4 DEF Counts
    <3>6. QED BY <3>5 DEF Stepped
  <2>3. CASE Top(p).layer # 4
    <3>1. Top(p).layer \in Cached
      BY <2>1, <2>3, LayerFacts
    <3>2. /\ file' = [file EXCEPT ![Top(p).layer] = Top(p).val] /\ Go(p, "store", Top(p).val)
          /\ UNCHANGED <<cache, lock, order, fails, lone>>
      BY <1>12, <2>3, LayerFacts DEF Save
    <3>3. Saves(p)
      BY <2>1, <3>1, <3>2 DEF Saves
    <3>4. QED BY <3>3 DEF Stepped
  <2>4. QED BY <2>2, <2>3
<1>13. CASE Store(p)
  BY <1>3, <1>13 DEF Store, Running, Stepped, Stores
<1>14. CASE End(p)
  BY <1>3, <1>14 DEF End, Running, Stepped, Ends
<1>15. CASE Rescue(p)
  BY <1>3, <1>15 DEF Rescue, Running, Stepped, Rescues, GivesUp
<1>16. QED BY <1>5, <1>6, <1>7, <1>8, <1>9, <1>10, <1>11, <1>12, <1>13, <1>14, <1>15 DEF Step

\* A step of a running call.
LEMMA StepTyped ==
  ASSUME TypeOK, NEW p \in Procs, Step(p) \/ Fail(p)
  PROVE  TypeOK'
<1>1. ~Idle(p) /\ Stepped(p) /\ UNCHANGED <<source, finished, calls>>
  BY StepCases
<1>2. Top(p) \in Frames
  BY <1>1, RunningStack
<1>3. Top(p).layer \in {-1, 0, 1, 2, 3, 4} /\ Top(p).at \in Stages(Top(p).layer) /\ Top(p).val \in Payloads
  BY <1>2, FrameFacts
<1>4. None \in Payloads /\ Of(source) \in Payloads
  BY VersionFacts
<1>5. /\ file \in [Layers -> Payloads] /\ cache \in [Cached -> Payloads]
      /\ calls' \in 0 .. MaxCalls /\ fails \in 0 .. MaxFails
      /\ lone \in Procs \cup {"none"} /\ order \in {"equal", "kept", "raced"}
      /\ source' = source /\ finished' = finished
  BY <1>1 DEF TypeOK
<1>6. \A l \in Cached : l \in Layers /\ file[l] \in Payloads /\ cache[l] \in Payloads
  BY VersionFacts, LayerFacts
<1>7. [cache EXCEPT ![Top(p).layer] = None] \in [Cached -> Payloads]
  BY <1>4, <1>5
<1>8. CASE Hits(p)
  <2>1. Rest
    BY <1>5, <1>8 DEF Hits, Rest
  <2>2. QED BY <1>1, <1>6, <1>8, <2>1, ReturnTypes DEF Hits
<1>9. CASE Misses(p)
  <2>1. Rest /\ "read" \in Stages(Top(p).layer)
    BY <1>5, <1>7, <1>9, StageFacts DEF Misses, Rest
  <2>2. QED BY <1>1, <1>4, <1>9, <2>1, GoTypes DEF Misses
<1>10. CASE FileAnswers(p)
  <2>1. Rest /\ "store" \in Stages(Top(p).layer) /\ file[Top(p).layer] \in Payloads
    BY <1>5, <1>6, <1>10, StageFacts DEF FileAnswers, Rest
  <2>2. QED BY <1>1, <1>10, <2>1, GoTypes DEF FileAnswers
<1>11. CASE NoFile(p)
  <2>1. Rest /\ "rebuild" \in Stages(Top(p).layer)
    BY <1>5, <1>6, <1>11, StageFacts DEF NoFile, Rest
  <2>2. QED BY <1>1, <1>4, <1>11, <2>1, GoTypes DEF NoFile
<1>12. CASE RebuildsTop(p)
  <2>1. Rest /\ "load" \in Stages(Top(p).layer)
    BY <1>5, <1>7, <1>12, StageFacts, LayerFacts DEF RebuildsTop, Rest
  <2>2. QED BY <1>1, <1>4, <1>12, <2>1, GoTypes DEF RebuildsTop
<1>13. CASE RebuildsBelow(p)
  <2>1. Rest
    BY <1>5, <1>7, <1>13 DEF RebuildsBelow, Rest
  <2>2. QED BY <1>1, <1>13, <2>1, CalledTypes DEF RebuildsBelow
<1>14. CASE Loads(p)
  <2>1. Rest /\ "evaluate" \in Stages(Top(p).layer)
    BY <1>5, <1>14, StageFacts DEF Loads, Rest
  <2>2. QED BY <1>1, <1>4, <1>14, <2>1, GoTypes DEF Loads
<1>15. CASE Evaluates(p)
  <2>1. Rest
    BY <1>5, <1>15 DEF Evaluates, Rest
  <2>2. QED BY <1>1, <1>15, <2>1, ReplacedTypes DEF Evaluates
<1>16. CASE Hooks(p)
  <2>1. Rest
    BY <1>5, <1>16 DEF Hooks, Rest
  <2>2. QED BY <1>1, <1>16, <2>1, CalledTypes DEF Hooks
<1>17. CASE Fails(p)
  <2>1. Rest
    BY <1>5, <1>17 DEF Fails, Rest
  <2>2. "rescue" \in Stages(Top(p).layer)
    BY <1>3, StageFacts, LayerFacts
  <2>3. QED BY <1>1, <1>4, <1>17, <2>1, <2>2, GoTypes DEF Fails
<1>18. CASE Counts(p)
  <2>1. Rest
    BY <1>3, <1>5, <1>18, LayerFacts DEF Counts, Rest
  <2>2. QED BY <1>1, <1>18, <2>1, ReplacedTypes DEF Counts
<1>19. CASE Saves(p)
  <2>1. Rest /\ "store" \in Stages(Top(p).layer)
    BY <1>3, <1>5, <1>6, <1>19, StageFacts DEF Saves, Rest
  <2>2. QED BY <1>1, <1>3, <1>19, <2>1, GoTypes DEF Saves
<1>20. CASE Stores(p)
  <2>1. Rest
    BY <1>3, <1>5, <1>20 DEF Stores, Rest
  <2>2. QED BY <1>1, <1>3, <1>20, <2>1, ReturnTypes DEF Stores
<1>21. CASE Ends(p)
  <2>1. Rest
    BY <1>5, <1>21 DEF Ends, Rest
  <2>2. QED BY <1>21, <2>1, OverTypes DEF Ends
<1>22. CASE Rescues(p)
  <2>1. Rest /\ "store" \in Stages(Top(p).layer) /\ file[Top(p).layer] \in Payloads
    BY <1>5, <1>6, <1>22, StageFacts DEF Rescues, Rest
  <2>2. QED BY <1>1, <1>22, <2>1, GoTypes DEF Rescues
<1>23. CASE GivesUp(p)
  <2>1. Rest
    BY <1>5, <1>23 DEF GivesUp, Rest
  <2>2. QED BY <1>1, <1>23, <2>1, RaiseTypes DEF GivesUp
<1>24. QED
  BY <1>1, <1>8, <1>9, <1>10, <1>11, <1>12, <1>13, <1>14, <1>15, <1>16, <1>17, <1>18, <1>19, <1>20,
     <1>21, <1>22, <1>23 DEF Stepped

\* The frames calls begin with.
Begins(p, f, operation) ==
  /\ f \in Frames /\ f.depth = 0 /\ Start(p, f, operation)
  /\ operation \in {"none"} \cup DOMAIN Operations /\ calls' \in 0 .. MaxCalls
  /\ f.val = None /\ f.at \in {"look", "rebuild", "evaluate"}
  /\ f.at = "evaluate" => f.layer <= 0
  /\ f.chain /\ f.layer <= 1 => f.at = "evaluate"

LEMMA StartCases ==
  ASSUME TypeOK, Round \/ \E p \in Clients : Read(p) \/ \E o \in DOMAIN Operations : Operate(p, o)
  PROVE  \E p \in Procs, f \in Frames, operation \in {"none"} \cup DOMAIN Operations : Begins(p, f, operation)
<1>1. calls \in 0 .. MaxCalls /\ 0 \in 0 .. MaxNest
  BY ChainAssumption DEF TypeOK
<1>2. /\ DOMAIN Operations = {"confluence_rebuild", "market_state_rebuild", "opportunities_rebuild", "decisions_rebuild"}
      /\ Operations["confluence_rebuild"].first = 1 /\ Operations["market_state_rebuild"].first = -1
      /\ Operations["opportunities_rebuild"].first = 2 /\ Operations["decisions_rebuild"].first = 3
      /\ Operations["confluence_rebuild"].chain = FALSE
      /\ \A o \in DOMAIN Operations : Operations[o].chain \in BOOLEAN
  <2> DEFINE confluence == [first |-> Confluence,    chain |-> FALSE]
             states == [first |-> MarketState,   chain |-> TRUE]
             opportunities == [first |-> Opportunities, chain |-> TRUE]
             decisions == [first |-> Decisions,     chain |-> TRUE]
  <2>1. /\ DOMAIN Operations = {"confluence_rebuild", "market_state_rebuild", "opportunities_rebuild", "decisions_rebuild"}
        /\ Operations["confluence_rebuild"] = confluence /\ Operations["market_state_rebuild"] = states
        /\ Operations["opportunities_rebuild"] = opportunities /\ Operations["decisions_rebuild"] = decisions
    BY DEF Operations
  <2>2. /\ confluence.first = 1 /\ states.first = -1 /\ opportunities.first = 2 /\ decisions.first = 3
        /\ confluence.chain = FALSE
    BY LayerFacts
  <2>3. /\ confluence.chain \in BOOLEAN /\ states.chain \in BOOLEAN
        /\ opportunities.chain \in BOOLEAN /\ decisions.chain \in BOOLEAN
    OBVIOUS
  <2> HIDE DEF confluence, states, opportunities, decisions
  <2>4. QED BY <2>1, <2>2, <2>3
<1>3. CASE Round
  <2> DEFINE f == RebuildFrame(MultiTimeframe, TRUE, 0)
  <2>1. Start("scheduler", f, "none") /\ calls' \in 0 .. MaxCalls
    BY <1>1, <1>3 DEF Round
  <2>2. MultiTimeframe \in MarketState .. Signals /\ MultiTimeframe = 0 /\ MultiTimeframe < Confluence
    BY LayerFacts
  <2>3. f \in Frames /\ f.layer = 0 /\ f.chain = TRUE /\ f.depth = 0 /\ f.val = None /\ f.at = "evaluate"
    <3>1. /\ f \in Frames /\ f.layer = MultiTimeframe /\ f.chain = TRUE /\ f.depth = 0 /\ f.val = None
          /\ f.at = (IF MultiTimeframe < Confluence THEN "evaluate" ELSE "rebuild")
      BY <1>1, <2>2, RebuildFrames
    <3>2. QED BY <2>2, <3>1
  <2> HIDE DEF f
  <2>4. Begins("scheduler", f, "none")
    BY <2>1, <2>3 DEF Begins
  <2>5. QED BY <2>3, <2>4 DEF Procs
<1>4. ASSUME NEW p \in Clients, Read(p)
      PROVE  \E q \in Procs, f \in Frames, operation \in {"none"} \cup DOMAIN Operations : Begins(q, f, operation)
  <2>1. calls' \in 0 .. MaxCalls /\ p \in Procs
    BY <1>1, <1>4, ChainAssumption DEF Read, Procs
  <2>2. CASE \E l \in Cached : Start(p, Frame(l, "look", FALSE, 0), "none")
    <3>1. PICK l \in Cached : Start(p, Frame(l, "look", FALSE, 0), "none")
      BY <2>2
    <3> DEFINE f == Frame(l, "look", FALSE, 0)
    <3>2. f \in Frames /\ f.chain = FALSE /\ f.depth = 0 /\ f.val = None /\ f.at = "look"
      BY <1>1, <3>1, LookFrames
    <3>3. Start(p, f, "none")
      BY <3>1
    <3> HIDE DEF f
    <3>4. Begins(p, f, "none")
      BY <2>1, <3>2, <3>3 DEF Begins
    <3>5. QED BY <2>1, <3>2, <3>4
  <2>3. CASE Start(p, RebuildFrame(MultiTimeframe, FALSE, 0), "none")
    <3> DEFINE f == RebuildFrame(MultiTimeframe, FALSE, 0)
    <3>1. /\ MultiTimeframe \in MarketState .. Signals /\ MultiTimeframe # Signals
          /\ MultiTimeframe = 0 /\ MultiTimeframe < Confluence
      BY LayerFacts
    <3>2. f \in Frames /\ f.layer = 0 /\ f.chain = FALSE /\ f.depth = 0 /\ f.val = None /\ f.at = "evaluate"
      <4>1. /\ f \in Frames /\ f.layer = MultiTimeframe /\ f.chain = FALSE /\ f.depth = 0 /\ f.val = None
            /\ f.at = (IF MultiTimeframe < Confluence THEN "evaluate" ELSE "rebuild")
        BY <1>1, <3>1, RebuildFrames
      <4>2. QED BY <3>1, <4>1
    <3>3. Start(p, f, "none")
      BY <2>3
    <3> HIDE DEF f
    <3>4. Begins(p, f, "none")
      BY <2>1, <3>2, <3>3 DEF Begins
    <3>5. QED BY <2>1, <3>2, <3>4
  <2>4. QED BY <1>4, <2>2, <2>3 DEF Read
<1>5. ASSUME NEW p \in Clients, NEW o \in DOMAIN Operations, Operate(p, o)
      PROVE  \E q \in Procs, f \in Frames, operation \in {"none"} \cup DOMAIN Operations : Begins(q, f, operation)
  <2> DEFINE f == RebuildFrame(Operations[o].first, Operations[o].chain, 0)
  <2>1. calls' \in 0 .. MaxCalls /\ p \in Procs /\ Start(p, f, o)
    BY <1>1, <1>5, ChainAssumption DEF Operate, Procs
  <2>2. /\ Operations[o].first \in MarketState .. Signals /\ Operations[o].first # Signals
        /\ Operations[o].chain \in BOOLEAN
        /\ Operations[o].first # 1 \/ Operations[o].chain = FALSE
        /\ Operations[o].first \in {-1, 1, 2, 3}
    <3>1. /\ Operations[o].chain \in BOOLEAN
          /\ Operations[o].first # 1 \/ Operations[o].chain = FALSE
          /\ Operations[o].first \in {-1, 1, 2, 3}
      <4>1. CASE o = "confluence_rebuild"
        BY <1>2, <4>1
      <4>2. CASE o = "market_state_rebuild"
        BY <1>2, <4>2
      <4>3. CASE o = "opportunities_rebuild"
        BY <1>2, <4>3
      <4>4. CASE o = "decisions_rebuild"
        BY <1>2, <4>4
      <4>5. QED BY <1>2, <4>1, <4>2, <4>3, <4>4
    <3>2. QED BY <3>1, LayerFacts
  <2>3. /\ f \in Frames /\ f.layer = Operations[o].first /\ f.chain = Operations[o].chain /\ f.depth = 0
        /\ f.val = None /\ f.at = (IF Operations[o].first < 1 THEN "evaluate" ELSE "rebuild")
    BY <1>1, <2>2, RebuildFrames, LayerFacts
  <2> HIDE DEF f
  <2>4. /\ f.at \in {"rebuild", "evaluate"} /\ (f.at = "evaluate" => f.layer <= 0)
        /\ f.chain /\ f.layer <= 1 => f.at = "evaluate"
    BY <2>2, <2>3
  <2>5. Begins(p, f, o)
    BY <1>5, <2>1, <2>3, <2>4 DEF Begins
  <2>6. QED BY <2>1, <2>3, <2>5
<1>6. QED BY <1>3, <1>4, <1>5

LEMMA StartTyped ==
  ASSUME TypeOK, NEW p \in Procs, NEW f \in Frames, NEW operation, Begins(p, f, operation)
  PROVE  TypeOK'
<1>1. <<f>> \in Seq(Frames) /\ Nested(<<f>>) /\ <<f>> # <<>>
  BY DEF Begins, Nested
<1>2. Becomes(p, <<f>>)
  BY <1>1 DEF Begins, Start, Becomes
<1>3. Rest
  BY DEF Begins, Start, TypeOK, Rest
<1>4. /\ lock' \in [Procs -> {"none"} \cup DOMAIN Operations]
      /\ \A q \in Procs : q # p => lock'[q] = lock[q]
  BY DEF Begins, Start, TypeOK
<1>5. QED BY <1>1, <1>2, <1>3, <1>4, StepTypes DEF Rest

\* Surroundings.
LEMMA QuietTyped ==
  ASSUME TypeOK, ClearCaches \/ NewSource \/ UNCHANGED vars
  PROVE  TypeOK'
<1>1. CASE ClearCaches
  <2>1. /\ UNCHANGED <<source, finished, file, stack, lock, fails, lone, order>>
        /\ calls' \in 0 .. MaxCalls /\ cache' \in [Cached -> Payloads]
    BY <1>1, VersionFacts, ChainAssumption DEF ClearCaches, TypeOK
  <2>2. Payloads' = Payloads /\ Frames' = Frames
    BY <2>1 DEF Versions, Payloads, Frames
  <2>3. QED BY <2>1, <2>2 DEF TypeOK, Idle, Nested
<1>2. CASE NewSource
  <2>1. /\ UNCHANGED <<file, cache, stack, lock, fails, order>>
        /\ source' \in 1 .. MaxChanges + 1 /\ source' = source + 1 /\ source \in Nat
        /\ finished' \in BOOLEAN /\ calls' \in 0 .. MaxCalls /\ lone' \in Procs \cup {"none"}
    <3>1. /\ UNCHANGED <<file, cache, stack, lock, fails, order>>
          /\ source <= MaxChanges /\ source' = source + 1
          /\ UNCHANGED calls \/ (calls < MaxCalls /\ calls' = calls + 1)
      BY <1>2 DEF NewSource
    <3>2. source \in 1 .. MaxChanges + 1 /\ calls \in 0 .. MaxCalls /\ lone \in Procs \cup {"none"}
      BY DEF TypeOK
    <3>3. source' \in 1 .. MaxChanges + 1 /\ source \in Nat /\ calls' \in 0 .. MaxCalls
      BY <3>1, <3>2, ChainAssumption
    <3>4. finished' \in BOOLEAN /\ lone' \in Procs \cup {"none"}
      BY <1>2, <3>2, Zenon DEF NewSource
    <3>5. QED BY <3>1, <3>3, <3>4
  <2>2. Versions \subseteq Versions'
    BY <2>1 DEF Versions
  <2>3. Payloads \subseteq Payloads'
    BY <2>2 DEF Payloads
  <2>4. Frames \subseteq Frames'
    BY <2>3 DEF Frames
  <2>5. file' \in [Layers -> Payloads'] /\ cache' \in [Cached -> Payloads'] /\ stack' \in [Procs -> Seq(Frames')]
    <3>1. \A s \in Seq(Frames) : s \in Seq(Frames')
      BY <2>4
    <3>2. QED BY <2>1, <2>3, <3>1 DEF TypeOK
  <2>6. QED BY <2>1, <2>5 DEF TypeOK, Idle, Nested
<1>3. CASE UNCHANGED vars
  <2>1. UNCHANGED <<source, finished, file, cache, stack, lock, calls, fails, lone, order>>
    BY <1>3 DEF vars
  <2>2. Payloads' = Payloads /\ Frames' = Frames
    BY <2>1 DEF Versions, Payloads, Frames
  <2>3. QED BY <2>1, <2>2 DEF TypeOK, Idle, Nested
<1>4. QED BY <1>1, <1>2, <1>3

LEMMA TypeInductive == TypeOK /\ [Next]_vars => TypeOK'
<1> SUFFICES ASSUME TypeOK, [Next]_vars PROVE TypeOK'
  OBVIOUS
<1>1. CASE ClearCaches \/ NewSource \/ UNCHANGED vars
  BY <1>1, QuietTyped
<1>2. CASE Round \/ \E p \in Clients : Read(p) \/ \E o \in DOMAIN Operations : Operate(p, o)
  BY <1>2, StartCases, StartTyped
<1>3. CASE \E p \in Procs : Step(p) \/ Fail(p)
  BY <1>3, StepTyped
<1>4. QED BY <1>1, <1>2, <1>3 DEF Next

LEMMA TypeInit == Init => TypeOK
<1> SUFFICES ASSUME Init PROVE TypeOK
  OBVIOUS
<1>1. source \in 1 .. MaxChanges + 1 /\ calls \in 0 .. MaxCalls /\ fails \in 0 .. MaxFails /\ finished \in BOOLEAN
  <2>1. source = 1 /\ calls = 0 /\ fails = 0 /\ finished = FALSE
    BY DEF Init
  <2>2. source \in 1 .. MaxChanges + 1 /\ calls \in 0 .. MaxCalls /\ fails \in 0 .. MaxFails
    BY <2>1, ChainAssumption
  <2>3. QED BY <2>1, <2>2
<1>2. None \in Payloads
  BY DEF Init, Payloads, Versions, None, Of
<1>3. file \in [Layers -> Payloads] /\ cache \in [Cached -> Payloads]
  BY <1>2 DEF Init
<1>4. stack \in [Procs -> Seq(Frames)] /\ \A p \in Procs : stack[p] = <<>> /\ Nested(stack[p])
  BY DEF Init, Nested
<1>5. /\ lock \in [Procs -> {"none"} \cup DOMAIN Operations] /\ \A p \in Procs : lock[p] = "none"
      /\ lone \in Procs \cup {"none"} /\ order \in {"equal", "kept", "raced"}
  BY DEF Init
<1>6. QED BY <1>1, <1>3, <1>4, <1>5 DEF TypeOK

\* The types of the state hold, whatever threads, failures, changes and cascades inside one
\* another there are: a build waits only for all() of the engine right above it or for the
\* cascade of its own hook, each such cascade is one deeper, up to the limit, and a call
\* that ends, or raises from any depth, leaves no lock held (app/main.py, _run_locked_ops,
\* _rebuild_*_safely and _performance_completion_hook).
THEOREM TypeCorrect == Spec => []TypeOK
<1>1. QED BY TypeInit, TypeInductive, PTL DEF Spec

-----------------------------------------------------------------------------
(* Order.  While no calls met and no hook ran, at most one call runs, and  *)
(* what it holds half-way agrees with the files: a layer that is being     *)
(* rebuilt answers nothing from its cache, a payload that waits to be      *)
(* written is what the engine above has in its file, with what             *)
(* opportunities read themselves, and one that waits for the cache is what *)
(* the file holds.                                                         *)

\* What InOrder says of files fl and caches ca.
Ordered(fl, ca) ==
  /\ \A l \in Cached :
       /\ Rank(fl[l + 1].old) <= Rank(fl[l].old)
       /\ l # Confluence => Rank(fl[l + 1].new) <= Rank(fl[l].new)
  /\ \A l \in Cached : ca[l] # None => ca[l] = fl[l]

\* What a frame holds half-way.
FrameOK(f, fl, ca) ==
  /\ f.depth = 0
  /\ f.at \in {"load", "evaluate", "save", "rescue"} /\ f.layer \in Cached => ca[f.layer] = None
  /\ f.at \in {"evaluate", "save"} /\ f.layer = 1 => Rank(fl[1].old) <= f.val.old
  /\ f.at = "evaluate" /\ f.layer = 2 => f.val = fl[1] /\ f.val # None
  /\ f.at = "save" /\ f.layer = 2 => f.val.old = fl[1].old /\ Rank(fl[2].new) <= f.val.new
  /\ f.at = "save" /\ f.layer \in {3, 4} =>
       \/ f.val = fl[f.layer - 1] /\ f.val # None
       \/ f.val = NoData /\ fl[f.layer] = None
  /\ f.at = "store" => f.val = fl[f.layer] /\ f.val # None

\* Builds wait for the engine above them, and for nothing else.
Ladder(st) ==
  \A i, j \in 1 .. Len(st) : i < j => st[i].at = "load" /\ st[i].layer > st[j].layer

OrderInv ==
  order # "raced" =>
    /\ Ordered(file, cache)
    /\ \A p, q \in Procs : stack[p] # <<>> /\ stack[q] # <<>> => p = q
    /\ \A p \in Procs : Ladder(stack[p]) /\ \A i \in 1 .. Len(stack[p]) : FrameOK(stack[p][i], file, cache)

\* A step of the one call that runs.
LEMMA OrderStep ==
  ASSUME TypeOK, OrderInv, order # "raced", NEW p \in Procs, ~Idle(p), NEW st, Becomes(p, st),
         Ordered(file', cache'), Ladder(st), \A i \in 1 .. Len(st) : FrameOK(st[i], file', cache')
  PROVE  OrderInv'
<1>1. stack' \in [Procs -> Seq(Frames)] /\ \A q \in Procs : stack'[q] = IF q = p THEN st ELSE stack[q]
  BY DEF TypeOK, Becomes
<1>2. \A q \in Procs : q # p => stack'[q] = <<>>
  BY <1>1 DEF OrderInv, Idle
<1>3. \A q, r \in Procs : stack'[q] # <<>> /\ stack'[r] # <<>> => q = r
  BY <1>2
<1>4. ASSUME NEW q \in Procs
      PROVE  Ladder(stack'[q]) /\ \A i \in 1 .. Len(stack'[q]) : FrameOK(stack'[q][i], file', cache')
  <2>1. CASE q = p
    BY <1>1, <2>1
  <2>2. CASE q # p
    <3>1. stack'[q] = <<>> /\ Len(stack'[q]) = 0
      BY <1>2, <2>2
    <3>2. \A i \in 1 .. Len(stack'[q]) : FALSE
      BY <3>1
    <3>3. QED BY <3>2 DEF Ladder
  <2>3. QED BY <2>1, <2>2
<1>5. QED BY <1>3, <1>4 DEF OrderInv, Ordered, Ladder, FrameOK

\* What is known of the one call that runs.
LEMMA OrderFacts ==
  ASSUME TypeOK, OrderInv, order # "raced", NEW p \in Procs, ~Idle(p)
  PROVE  /\ Ordered(file, cache) /\ Ladder(stack[p]) /\ FrameOK(Top(p), file, cache)
         /\ \A i \in 1 .. Len(stack[p]) : FrameOK(stack[p][i], file, cache)
         /\ Top(p).chain => Len(stack[p]) = 1
         /\ Len(stack[p]) > 1 =>
              /\ Caller(p).at = "load" /\ Caller(p).layer > Top(p).layer
              /\ FrameOK(Caller(p), file, cache)
<1>1. /\ Len(stack[p]) \in Nat /\ Len(stack[p]) >= 1 /\ Top(p) = stack[p][Len(stack[p])]
      /\ Len(stack[p]) > 1 => Caller(p) = stack[p][Len(stack[p]) - 1] /\ Waits(Caller(p), Top(p))
  BY RunningStack
<1>2. /\ Ordered(file, cache) /\ Ladder(stack[p])
      /\ \A i \in 1 .. Len(stack[p]) : FrameOK(stack[p][i], file, cache)
  BY DEF OrderInv
<1>3. Len(stack[p]) \in 1 .. Len(stack[p])
  BY <1>1
<1>4. FrameOK(Top(p), file, cache)
  BY <1>1, <1>2, <1>3
<1>5. ASSUME Len(stack[p]) > 1
      PROVE  /\ Caller(p).at = "load" /\ Caller(p).layer > Top(p).layer
             /\ FrameOK(Caller(p), file, cache) /\ ~Top(p).chain
  <2> DEFINE n == Len(stack[p]) - 1
  <2>1. n \in 1 .. Len(stack[p]) /\ n < Len(stack[p])
    BY <1>1, <1>5
  <2>2. stack[p][n].at = "load" /\ stack[p][n].layer > stack[p][Len(stack[p])].layer
    BY <1>2, <1>3, <2>1 DEF Ladder
  <2>3. Caller(p) = stack[p][n] /\ Waits(Caller(p), Top(p)) /\ FrameOK(stack[p][n], file, cache)
    BY <1>1, <1>2, <1>5, <2>1
  <2>4. ~Top(p).chain
    BY <2>2, <2>3 DEF Waits
  <2>5. QED BY <1>1, <2>2, <2>3, <2>4
<1>6. Len(stack[p]) > 1 \/ Len(stack[p]) = 1
  <2>1. \A n \in Nat : n >= 1 => n > 1 \/ n = 1
    OBVIOUS
  <2>2. QED BY <1>1, <2>1, Zenon
<1>7. QED BY <1>2, <1>4, <1>5, <1>6

\* Builds that wait mind only their own caches.
LEMMA Waiting ==
  ASSUME TypeOK, OrderInv, order # "raced", NEW p \in Procs, ~Idle(p), NEW fl, NEW ca,
         \A l \in Cached : l > Top(p).layer => ca[l] \in {None, cache[l]}
  PROVE  \A i \in 1 .. Len(stack[p]) - 1 :
           /\ FrameOK(stack[p][i], fl, ca)
           /\ stack[p][i].layer \in Cached => ca[stack[p][i].layer] = None
<1> SUFFICES ASSUME NEW i \in 1 .. Len(stack[p]) - 1
             PROVE  /\ FrameOK(stack[p][i], fl, ca)
                    /\ stack[p][i].layer \in Cached => ca[stack[p][i].layer] = None
  OBVIOUS
<1>1. Len(stack[p]) \in Nat /\ Top(p) = stack[p][Len(stack[p])]
  BY RunningStack
<1>2. i \in 1 .. Len(stack[p]) /\ Len(stack[p]) \in 1 .. Len(stack[p]) /\ i < Len(stack[p])
  BY <1>1
<1>3. stack[p][i].at = "load" /\ stack[p][i].layer > Top(p).layer
  BY <1>1, <1>2, OrderFacts DEF Ladder
<1>4. FrameOK(stack[p][i], file, cache)
  BY <1>2, OrderFacts
<1>5. stack[p][i].layer \in Cached => ca[stack[p][i].layer] = None
  BY <1>3, <1>4 DEF FrameOK
<1>6. QED BY <1>3, <1>4, <1>5 DEF FrameOK

\* The three ways the stack changes, when the frames it ends with agree with the files.
LEMMA ReplacedOrdered ==
  ASSUME TypeOK, OrderInv, order # "raced", NEW p \in Procs, ~Idle(p), NEW f, Replaced(p, f),
         f.layer = Top(p).layer \/ Top(p).chain,
         \A l \in Cached : l > Top(p).layer => cache'[l] \in {None, cache[l]},
         Ordered(file', cache'), FrameOK(f, file', cache')
  PROVE  OrderInv'
<1>1. PICK st :
        /\ Becomes(p, st) /\ Len(st) = Len(stack[p])
        /\ \A i \in 1 .. Len(stack[p]) - 1 : st[i] = stack[p][i]
        /\ st[Len(stack[p])] = f
  BY DEF Replaced
<1>2. Len(stack[p]) \in Nat /\ Len(stack[p]) >= 1 /\ Top(p) = stack[p][Len(stack[p])]
  BY RunningStack
<1>3. \A i \in 1 .. Len(stack[p]) - 1 : FrameOK(stack[p][i], file', cache')
  BY Waiting
<1>4. ASSUME NEW i \in 1 .. Len(st)
      PROVE  FrameOK(st[i], file', cache')
  <2>1. CASE i = Len(stack[p])
    BY <1>1, <2>1
  <2>2. CASE i # Len(stack[p])
    <3>1. i \in 1 .. Len(stack[p]) - 1
      BY <1>1, <1>2, <2>2
    <3>2. QED BY <1>1, <1>3, <3>1
  <2>3. QED BY <2>1, <2>2
<1>5. ASSUME NEW i \in 1 .. Len(st), NEW j \in 1 .. Len(st), i < j
      PROVE  st[i].at = "load" /\ st[i].layer > st[j].layer
  <2>1. i \in 1 .. Len(stack[p]) - 1 /\ i \in 1 .. Len(stack[p]) /\ j \in 1 .. Len(stack[p]) /\ st[i] = stack[p][i]
    BY <1>1, <1>2, <1>5
  <2>2. stack[p][i].at = "load" /\ stack[p][i].layer > stack[p][j].layer
    BY <1>5, <2>1, OrderFacts DEF Ladder
  <2>3. CASE j = Len(stack[p])
    <3>1. ~Top(p).chain
      BY <1>2, <1>5, <2>1, <2>3, OrderFacts
    <3>2. QED BY <1>1, <1>2, <2>1, <2>2, <2>3, <3>1
  <2>4. CASE j # Len(stack[p])
    <3>1. j \in 1 .. Len(stack[p]) - 1
      BY <1>2, <2>1, <2>4
    <3>2. QED BY <1>1, <2>1, <2>2, <3>1
  <2>5. QED BY <2>3, <2>4
<1>6. Ladder(st)
  BY <1>5 DEF Ladder
<1>7. QED BY <1>1, <1>4, <1>6, OrderStep

LEMMA CalledOrdered ==
  ASSUME TypeOK, OrderInv, order # "raced", NEW p \in Procs, ~Idle(p), NEW f, NEW g, Called(p, f, g),
         f.layer = Top(p).layer, f.at = "load", f.layer \in Int, g.layer = f.layer - 1,
         \A l \in Cached : l > Top(p).layer => cache'[l] \in {None, cache[l]},
         Ordered(file', cache'), FrameOK(f, file', cache'), FrameOK(g, file', cache')
  PROVE  OrderInv'
<1>1. PICK st :
        /\ Becomes(p, st) /\ Len(st) = Len(stack[p]) + 1
        /\ \A i \in 1 .. Len(stack[p]) - 1 : st[i] = stack[p][i]
        /\ st[Len(stack[p])] = f /\ st[Len(stack[p]) + 1] = g
  BY DEF Called
<1>2. /\ Len(stack[p]) \in Nat /\ Len(stack[p]) >= 1 /\ Top(p) = stack[p][Len(stack[p])]
      /\ \A i \in 1 .. Len(stack[p]) : stack[p][i] \in Frames
  BY RunningStack
<1>3. \A i \in 1 .. Len(stack[p]) - 1 : FrameOK(stack[p][i], file', cache')
  BY Waiting
<1>4. ASSUME NEW i \in 1 .. Len(st)
      PROVE  FrameOK(st[i], file', cache')
  <2>1. CASE i = Len(stack[p]) \/ i = Len(stack[p]) + 1
    BY <1>1, <2>1
  <2>2. CASE ~(i = Len(stack[p]) \/ i = Len(stack[p]) + 1)
    <3>1. i \in 1 .. Len(stack[p]) - 1
      BY <1>1, <1>2, <2>2
    <3>2. QED BY <1>1, <1>3, <3>1
  <2>3. QED BY <2>1, <2>2
<1>5. ASSUME NEW i \in 1 .. Len(st), NEW j \in 1 .. Len(st), i < j
      PROVE  st[i].at = "load" /\ st[i].layer > st[j].layer
  <2>1. CASE i = Len(stack[p])
    <3>1. j = Len(stack[p]) + 1
      BY <1>1, <1>2, <1>5, <2>1
    <3>2. QED BY <1>1, <2>1, <3>1
  <2>2. CASE i # Len(stack[p])
    <3>1. /\ i \in 1 .. Len(stack[p]) - 1 /\ i \in 1 .. Len(stack[p]) /\ i < Len(stack[p])
          /\ Len(stack[p]) \in 1 .. Len(stack[p]) /\ st[i] = stack[p][i]
      BY <1>1, <1>2, <1>5, <2>2
    <3>2. stack[p][i].at = "load" /\ stack[p][i].layer > Top(p).layer
      BY <1>2, <3>1, OrderFacts DEF Ladder
    <3>3. stack[p][i].layer \in Int
      <4>1. \A k \in {-1, 0, 1, 2, 3, 4} : k \in Int
        OBVIOUS
      <4>2. stack[p][i] \in Frames
        BY <1>2, <3>1
      <4>3. QED BY <4>1, <4>2, FrameFacts
    <3>4. CASE j = Len(stack[p])
      BY <1>1, <3>1, <3>2, <3>4
    <3>5. CASE j = Len(stack[p]) + 1
      BY <1>1, <3>1, <3>2, <3>3, <3>5
    <3>6. CASE ~(j = Len(stack[p]) \/ j = Len(stack[p]) + 1)
      <4>1. j \in 1 .. Len(stack[p]) - 1 /\ j \in 1 .. Len(stack[p])
        BY <1>1, <1>2, <3>6
      <4>2. stack[p][i].layer > stack[p][j].layer
        BY <1>5, <3>1, <4>1, OrderFacts DEF Ladder
      <4>3. QED BY <1>1, <3>1, <3>2, <4>1, <4>2
    <3>7. QED BY <3>4, <3>5, <3>6
  <2>3. QED BY <2>1, <2>2
<1>6. Ladder(st)
  BY <1>5 DEF Ladder
<1>7. QED BY <1>1, <1>4, <1>6, OrderStep

LEMMA ResumedOrdered ==
  ASSUME TypeOK, OrderInv, order # "raced", NEW p \in Procs, ~Idle(p), Len(stack[p]) > 1,
         NEW f, Resumed(p, f), f.layer = Caller(p).layer,
         \A l \in Cached : l > Top(p).layer => cache'[l] \in {None, cache[l]},
         Ordered(file', cache'), FrameOK(f, file', cache')
  PROVE  OrderInv'
<1>1. PICK st :
        /\ Becomes(p, st) /\ Len(st) = Len(stack[p]) - 1
        /\ \A i \in 1 .. Len(stack[p]) - 2 : st[i] = stack[p][i]
        /\ st[Len(stack[p]) - 1] = f
  BY DEF Resumed
<1>2. Len(stack[p]) \in Nat /\ Len(stack[p]) >= 1 /\ Caller(p) = stack[p][Len(stack[p]) - 1]
  BY RunningStack
<1>3. \A i \in 1 .. Len(stack[p]) - 1 : FrameOK(stack[p][i], file', cache')
  BY Waiting
<1>4. ASSUME NEW i \in 1 .. Len(st)
      PROVE  FrameOK(st[i], file', cache')
  <2>1. CASE i = Len(stack[p]) - 1
    BY <1>1, <2>1
  <2>2. CASE i # Len(stack[p]) - 1
    <3>1. i \in 1 .. Len(stack[p]) - 2 /\ i \in 1 .. Len(stack[p]) - 1
      BY <1>1, <1>2, <2>2
    <3>2. QED BY <1>1, <1>3, <3>1
  <2>3. QED BY <2>1, <2>2
<1>5. ASSUME NEW i \in 1 .. Len(st), NEW j \in 1 .. Len(st), i < j
      PROVE  st[i].at = "load" /\ st[i].layer > st[j].layer
  <2>1. /\ i \in 1 .. Len(stack[p]) - 2 /\ i \in 1 .. Len(stack[p]) /\ j \in 1 .. Len(stack[p])
        /\ st[i] = stack[p][i]
    BY <1>1, <1>2, <1>5
  <2>2. stack[p][i].at = "load" /\ stack[p][i].layer > stack[p][j].layer
    BY <1>5, <2>1, OrderFacts DEF Ladder
  <2>3. CASE j = Len(stack[p]) - 1
    BY <1>1, <1>2, <2>1, <2>2, <2>3
  <2>4. CASE j # Len(stack[p]) - 1
    <3>1. j \in 1 .. Len(stack[p]) - 2
      BY <1>1, <1>2, <2>4
    <3>2. QED BY <1>1, <2>1, <2>2, <3>1
  <2>5. QED BY <2>3, <2>4
<1>6. Ladder(st)
  BY <1>5 DEF Ladder
<1>7. QED BY <1>1, <1>4, <1>6, OrderStep

LEMMA OverOrdered ==
  ASSUME TypeOK, OrderInv, order # "raced", NEW p \in Procs, ~Idle(p), Over(p), Ordered(file', cache')
  PROVE  OrderInv'
<1>1. <<>> \in Seq(Frames) /\ Nested(<<>>) /\ Len(<<>>) = 0
  BY DEF Nested
<1>2. Becomes(p, <<>>)
  BY <1>1 DEF Over, Becomes
<1>3. \A i \in 1 .. Len(<<>>) : FALSE
  BY <1>1
<1>4. Ladder(<<>>) /\ \A i \in 1 .. Len(<<>>) : FrameOK(<<>>[i], file', cache')
  BY <1>3 DEF Ladder
<1>5. QED BY <1>2, <1>4, OrderStep

LEMMA GoOrdered ==
  ASSUME TypeOK, OrderInv, order # "raced", NEW p \in Procs, ~Idle(p), NEW at, NEW v \in Payloads,
         at \in Stages(Top(p).layer), Go(p, at, v),
         \A l \in Cached : l > Top(p).layer => cache'[l] \in {None, cache[l]},
         Ordered(file', cache'), FrameOK(As(Top(p), at, v), file', cache')
  PROVE  OrderInv'
<1>1. As(Top(p), at, v).layer = Top(p).layer
  BY RunningStack, AsFrames
<1>2. QED BY <1>1, GoCases, ReplacedOrdered

\* The innermost frame returns what is in the file of its layer.
LEMMA ReturnOrdered ==
  ASSUME TypeOK, OrderInv, order # "raced", NEW p \in Procs, ~Idle(p), Top(p).layer \in Cached,
         NEW v \in Payloads, v # None, Return(p, v), v = file'[Top(p).layer],
         \A l \in Cached : l > Top(p).layer => cache'[l] \in {None, cache[l]},
         Ordered(file', cache')
  PROVE  OrderInv'
<1>1. FrameOK(Top(p), file, cache) /\ Top(p) \in Frames
  BY OrderFacts, RunningStack
<1>2. Top(p).depth = 0
  BY <1>1 DEF FrameOK
<1>3. CASE Len(stack[p]) = 1 /\ ~Top(p).chain /\ Over(p)
  BY <1>3, OverOrdered
<1>4. CASE Top(p).chain /\ Replaced(p, RebuildFrame(Top(p).layer + 1, TRUE, Top(p).depth))
  <2> DEFINE f == RebuildFrame(Top(p).layer + 1, TRUE, Top(p).depth)
  <2>1. Top(p).layer + 1 \in MarketState .. Signals /\ ~(Top(p).layer + 1 < Confluence) /\ 0 \in 0 .. MaxNest
    BY LayerFacts, ChainAssumption
  <2>2. f.depth = 0 /\ f.at = "rebuild"
    <3>1. Top(p).depth \in 0 .. MaxNest
      BY <1>1, FrameFacts
    <3>2. /\ f.depth = Top(p).depth
          /\ f.at = (IF Top(p).layer + 1 < Confluence THEN "evaluate" ELSE "rebuild")
      BY <2>1, <3>1, RebuildFrames
    <3>3. QED BY <1>2, <2>1, <3>2
  <2> HIDE DEF f
  <2>3. FrameOK(f, file', cache')
    BY <2>2 DEF FrameOK
  <2>4. Replaced(p, f)
    BY <1>4 DEF f
  <2>5. QED BY <1>4, <2>3, <2>4, ReplacedOrdered
<1>5. CASE Len(stack[p]) > 1 /\ Caller(p).at = "evaluate"
  BY <1>5, OrderFacts
<1>6. CASE /\ Len(stack[p]) > 1 /\ Caller(p).at = "load" /\ Caller(p).layer = Top(p).layer + 1
           /\ Resumed(p, Loaded(Caller(p), v))
  <2> DEFINE f == Loaded(Caller(p), v)
  <2>1. Caller(p) \in Frames /\ FrameOK(Caller(p), file, cache)
    BY <1>6, OrderFacts, RunningStack
  <2>2. /\ f.layer = Caller(p).layer /\ f.depth = Caller(p).depth /\ f.val = v
        /\ f.at = (IF Caller(p).layer = 2 THEN "evaluate" ELSE "save")
    BY LayerFacts DEF Loaded, As, Frames
  <2>3. Caller(p).layer \in {2, 3, 4} /\ Caller(p).layer - 1 = Top(p).layer
    BY <1>6, LayerFacts
  <2>4. Caller(p).layer \in Cached => cache'[Caller(p).layer] = None
    BY <1>6, <2>1, <2>3, LayerFacts DEF FrameOK
  <2>5. Caller(p).depth = 0
    BY <2>1 DEF FrameOK
  <2> HIDE DEF f
  <2>6. FrameOK(f, file', cache')
    <3>1. CASE Caller(p).layer = 2
      <4>1. f.at = "evaluate" /\ f.layer = 2 /\ v = file'[1]
        BY <2>2, <2>3, <3>1
      <4>2. QED BY <2>2, <2>4, <2>5, <3>1, <4>1 DEF FrameOK
    <3>2. CASE Caller(p).layer \in {3, 4}
      <4>1. f.at = "save" /\ f.layer \in {3, 4} /\ v = file'[f.layer - 1]
        BY <2>2, <2>3, <3>2
      <4>2. QED BY <2>2, <2>4, <2>5, <3>2, <4>1 DEF FrameOK
    <3>3. QED BY <2>3, <3>1, <3>2
  <2>7. Resumed(p, f)
    BY <1>6 DEF f
  <2>8. QED BY <1>6, <2>2, <2>6, <2>7, ResumedOrdered
<1>7. QED BY <1>3, <1>4, <1>5, <1>6, ReturnCases

\* The innermost frame raises; files and caches stay.
LEMMA RaiseOrdered ==
  ASSUME TypeOK, OrderInv, order # "raced", NEW p \in Procs, ~Idle(p), Raise(p), UNCHANGED <<file, cache>>
  PROVE  OrderInv'
<1>1. Ordered(file', cache') /\ \A l \in Cached : cache'[l] \in {None, cache[l]}
  BY OrderFacts DEF Ordered
<1>2. CASE Len(stack[p]) = 1 /\ Over(p)
  BY <1>1, <1>2, OverOrdered
<1>3. CASE Len(stack[p]) > 1 /\ Caller(p).at = "evaluate"
  BY <1>3, OrderFacts
<1>4. CASE Len(stack[p]) > 1 /\ Caller(p).at = "load" /\ Resumed(p, NotLoaded(Caller(p)))
  <2> DEFINE f == NotLoaded(Caller(p))
  <2>1. Caller(p) \in Frames /\ FrameOK(Caller(p), file, cache)
    BY <1>4, OrderFacts, RunningStack
  <2>2. /\ f.layer = Caller(p).layer /\ f.depth = Caller(p).depth
        /\ \/ f.at = "save" /\ f.layer = 3 /\ f.val = NoData /\ file[3] = None
           \/ f.at = "rescue"
    BY <2>1, LayerFacts DEF NotLoaded, As, Frames
  <2>3. Caller(p).layer \in Cached => cache'[Caller(p).layer] = None
    BY <1>4, <2>1 DEF FrameOK
  <2>4. Caller(p).depth = 0
    BY <2>1 DEF FrameOK
  <2> HIDE DEF f
  <2>5. FrameOK(f, file', cache')
    BY <2>2, <2>3, <2>4 DEF FrameOK
  <2>6. Resumed(p, f)
    BY <1>4 DEF f
  <2>7. QED BY <1>1, <1>4, <2>2, <2>5, <2>6, ResumedOrdered
<1>5. QED BY <1>2, <1>3, <1>4, RaiseCases

\* Ranks of versions.
LEMMA RankFacts ==
  ASSUME TypeOK, NEW v \in Versions
  PROVE  /\ v \in Int /\ v >= -1 /\ v <= source /\ Rank(v) \in Nat /\ Rank(v) >= v /\ Rank(v) <= source
         /\ v >= 0 => Rank(v) = v
<1>1. source \in Nat /\ source >= 1
  BY VersionFacts
<1>2. v \in Int /\ v >= -1 /\ v <= source
  BY <1>1 DEF Versions
<1>3. QED BY <1>1, <1>2 DEF Rank

\* A payload that FrameOK allows to be written keeps the order of the files.
LEMMA SaveOrdered ==
  ASSUME TypeOK, NEW f \in Frames, Ordered(file, cache), FrameOK(f, file, cache), f.at = "save",
         file' = [file EXCEPT ![f.layer] = f.val], cache' = cache
  PROVE  Ordered(file', cache') /\ f.val # None
<1> DEFINE l == f.layer
           v == f.val
<1>1. l \in {1, 2, 3, 4} /\ v \in Payloads
  BY FrameFacts, LayerFacts
<1>2. \A k \in {1, 2, 3, 4} : file'[k] = (IF k = l THEN v ELSE file[k]) /\ file[k] \in Payloads
  BY <1>1, LayerFacts DEF TypeOK
<1>3. /\ l = 1 => Rank(file[1].old) <= v.old
      /\ l = 2 => v.old = file[1].old /\ Rank(file[2].new) <= v.new
      /\ l \in {3, 4} => (v = file[l - 1] /\ v # None) \/ (v = NoData /\ file[l] = None)
      /\ l \in Cached => cache[l] = None
  BY DEF FrameOK
<1> HIDE DEF l, v
<1>4. \A w \in Payloads : w.old \in Versions /\ w.new \in Versions
  BY DEF Payloads
<1>5. \A k \in {1, 2, 3, 4} : Rank(file[k].old) \in Nat /\ Rank(file[k].new) \in Nat
  BY <1>2, <1>4, RankFacts
<1>6. /\ v.old \in Int /\ v.new \in Int /\ Rank(v.old) \in Nat /\ Rank(v.new) \in Nat
      /\ Rank(v.old) >= v.old /\ Rank(v.new) >= v.new
  BY <1>1, <1>4, RankFacts
<1>7. /\ None.old = -1 /\ None.new = -1 /\ NoData.old = 0 /\ NoData.new = 0
      /\ Rank(-1) = 0 /\ Rank(0) = 0
  BY DEF None, NoData, Of, Rank
<1>8. /\ Rank(file[2].old) <= Rank(file[1].old) /\ Rank(file[3].old) <= Rank(file[2].old)
      /\ Rank(file[4].old) <= Rank(file[3].old)
      /\ Rank(file[3].new) <= Rank(file[2].new) /\ Rank(file[4].new) <= Rank(file[3].new)
  BY LayerFacts DEF Ordered
<1>9. v # None
  <2>1. CASE l = 1
    <3>1. v.old >= 0
      BY <1>2, <1>3, <1>5, <1>6, <2>1
    <3>2. QED BY <1>7, <3>1
  <2>2. CASE l = 2
    <3>1. v.new >= 0
      BY <1>2, <1>3, <1>5, <1>6, <2>2
    <3>2. QED BY <1>7, <3>1
  <2>3. CASE l \in {3, 4}
    <3>1. NoData # None
      BY <1>7
    <3>2. QED BY <1>3, <2>3, <3>1
  <2>4. QED BY <1>1, <2>1, <2>2, <2>3
<1>10. /\ Rank(file'[2].old) <= Rank(file'[1].old) /\ Rank(file'[3].old) <= Rank(file'[2].old)
       /\ Rank(file'[4].old) <= Rank(file'[3].old)
       /\ Rank(file'[3].new) <= Rank(file'[2].new) /\ Rank(file'[4].new) <= Rank(file'[3].new)
  <2>1. CASE l = 1
    <3>1. file'[1] = v /\ file'[2] = file[2] /\ file'[3] = file[3] /\ file'[4] = file[4]
      BY <1>2, <2>1
    <3>2. Rank(file[1].old) <= v.old
      BY <1>3, <2>1
    <3>3. QED BY <1>5, <1>6, <1>8, <3>1, <3>2
  <2>2. CASE l = 2
    <3>1. file'[2] = v /\ file'[1] = file[1] /\ file'[3] = file[3] /\ file'[4] = file[4]
      BY <1>2, <2>2
    <3>2. v.old = file[1].old /\ Rank(file[2].new) <= v.new
      BY <1>3, <2>2
    <3>3. QED BY <1>5, <1>6, <1>8, <3>1, <3>2
  <2>3. CASE l = 3
    <3>1. file'[3] = v /\ file'[1] = file[1] /\ file'[2] = file[2] /\ file'[4] = file[4]
      BY <1>2, <2>3
    <3>2. v = file[2] \/ (v = NoData /\ file[3] = None)
      BY <1>3, <2>3
    <3>3. CASE v = file[2]
      BY <1>5, <1>6, <1>8, <3>1, <3>3
    <3>4. CASE v = NoData /\ file[3] = None
      <4>1. Rank(v.old) = 0 /\ Rank(v.new) = 0 /\ Rank(file[3].old) = 0 /\ Rank(file[3].new) = 0
        BY <1>7, <3>4
      <4>2. QED BY <1>5, <1>6, <1>8, <3>1, <4>1
    <3>5. QED BY <3>2, <3>3, <3>4
  <2>4. CASE l = 4
    <3>1. file'[4] = v /\ file'[1] = file[1] /\ file'[2] = file[2] /\ file'[3] = file[3]
      BY <1>2, <2>4
    <3>2. v = file[3] \/ (v = NoData /\ file[4] = None)
      BY <1>3, <2>4
    <3>3. CASE v = file[3]
      BY <1>5, <1>6, <1>8, <3>1, <3>3
    <3>4. CASE v = NoData /\ file[4] = None
      <4>1. Rank(v.old) = 0 /\ Rank(v.new) = 0
        BY <1>7, <3>4
      <4>2. QED BY <1>5, <1>6, <1>8, <3>1, <4>1
    <3>5. QED BY <3>2, <3>3, <3>4
  <2>5. QED BY <1>1, <2>1, <2>2, <2>3, <2>4
<1>11. ASSUME NEW k \in Cached, cache[k] # None
       PROVE  cache[k] = file'[k]
  <2>1. k # l /\ k \in {1, 2, 3, 4}
    BY <1>3, <1>11, LayerFacts
  <2>2. QED BY <1>2, <1>11, <2>1 DEF Ordered
<1>12. Ordered(file', cache')
  BY <1>10, <1>11, LayerFacts DEF Ordered
<1>13. QED BY <1>9, <1>12 DEF v

\* Caches that are emptied agree with the files all the same.
LEMMA EmptiedOrdered ==
  ASSUME Ordered(file, cache), NEW ca, \A l \in Cached : ca[l] \in {None, cache[l]}
  PROVE  Ordered(file, ca)
BY DEF Ordered

\* A step of the one call that runs, without a hook.
LEMMA OrderStepped ==
  ASSUME TypeOK, OrderInv, order # "raced", NEW p \in Procs, Step(p) \/ Fail(p)
  PROVE  OrderInv'
<1>1. ~Idle(p) /\ Stepped(p) /\ UNCHANGED <<source, finished, calls>>
  BY StepCases
<1>2. Top(p) \in Frames
  BY <1>1, RunningStack
<1>3. /\ Top(p).layer \in {-1, 0, 1, 2, 3, 4} /\ Top(p).at \in Stages(Top(p).layer) /\ Top(p).val \in Payloads
      /\ Top(p).depth \in 0 .. MaxNest
  BY <1>2, FrameFacts
<1>4. None \in Payloads /\ Of(source) \in Payloads
  BY VersionFacts
<1>5. Ordered(file, cache) /\ FrameOK(Top(p), file, cache)
  BY <1>1, OrderFacts
<1>6. Top(p).depth = 0
  BY <1>5 DEF FrameOK
<1>7. \A l \in Cached : l \in Layers /\ file[l] \in Payloads /\ cache[l] \in Payloads
  BY VersionFacts, LayerFacts
<1>8. \A l \in Cached : cache[l] # None => cache[l] = file[l]
  BY <1>5 DEF Ordered
<1>9. /\ cache \in [Cached -> Payloads] /\ file \in [Layers -> Payloads]
      /\ \A l \in Cached : [cache EXCEPT ![Top(p).layer] = None][l] \in {None, cache[l]}
  BY DEF TypeOK
<1>10. Ordered(file, [cache EXCEPT ![Top(p).layer] = None])
  BY <1>5, <1>9, EmptiedOrdered
<1>11. CASE Hits(p)
  <2> DEFINE v == cache[Top(p).layer]
  <2>1. v \in Payloads /\ v # None /\ v = file'[Top(p).layer]
    BY <1>7, <1>8, <1>11 DEF Hits
  <2>2. Return(p, v) /\ Top(p).layer \in Cached /\ UNCHANGED <<file, cache>>
    BY <1>11 DEF Hits
  <2>3. Ordered(file', cache') /\ \A l \in Cached : cache'[l] \in {None, cache[l]}
    BY <1>5, <2>2
  <2> HIDE DEF v
  <2>4. QED BY <1>1, <2>1, <2>2, <2>3, ReturnOrdered
<1>12. CASE Misses(p)
  <2>1. /\ Go(p, "read", None) /\ "read" \in Stages(Top(p).layer) /\ file' = file
        /\ cache' = [cache EXCEPT ![Top(p).layer] = None]
    BY <1>12, StageFacts DEF Misses
  <2>2. FrameOK(As(Top(p), "read", None), file', cache')
    BY <1>2, <1>4, <1>6, <2>1, AsFrames DEF FrameOK
  <2>3. QED BY <1>1, <1>4, <1>9, <1>10, <2>1, <2>2, GoOrdered
<1>13. CASE FileAnswers(p) \/ Rescues(p)
  <2> DEFINE v == file[Top(p).layer]
  <2>1. /\ Go(p, "store", v) /\ "store" \in Stages(Top(p).layer) /\ UNCHANGED <<file, cache>>
        /\ v \in Payloads /\ v # None /\ v = file'[Top(p).layer]
    BY <1>7, <1>13, StageFacts DEF FileAnswers, Rescues
  <2> HIDE DEF v
  <2>2. FrameOK(As(Top(p), "store", v), file', cache')
    BY <1>2, <1>6, <2>1, AsFrames DEF FrameOK
  <2>3. Ordered(file', cache') /\ \A l \in Cached : cache'[l] \in {None, cache[l]}
    BY <1>5, <2>1
  <2>4. QED BY <1>1, <2>1, <2>2, <2>3, GoOrdered
<1>14. CASE NoFile(p)
  <2>1. /\ Go(p, "rebuild", None) /\ "rebuild" \in Stages(Top(p).layer) /\ UNCHANGED <<file, cache>>
    BY <1>7, <1>14, StageFacts DEF NoFile
  <2>2. FrameOK(As(Top(p), "rebuild", None), file', cache')
    BY <1>2, <1>4, <1>6, <2>1, AsFrames DEF FrameOK
  <2>3. Ordered(file', cache') /\ \A l \in Cached : cache'[l] \in {None, cache[l]}
    BY <1>5, <2>1
  <2>4. QED BY <1>1, <1>4, <2>1, <2>2, <2>3, GoOrdered
<1>15. CASE RebuildsTop(p)
  <2>1. /\ Go(p, "load", None) /\ "load" \in Stages(Top(p).layer) /\ file' = file
        /\ cache' = [cache EXCEPT ![Top(p).layer] = None] /\ Top(p).layer = 1
    BY <1>15, StageFacts, LayerFacts DEF RebuildsTop
  <2>2. cache'[1] = None
    BY <1>9, <2>1, LayerFacts
  <2>3. FrameOK(As(Top(p), "load", None), file', cache')
    BY <1>2, <1>4, <1>6, <2>1, <2>2, AsFrames DEF FrameOK
  <2>4. QED BY <1>1, <1>4, <1>9, <1>10, <2>1, <2>3, GoOrdered
<1>16. CASE RebuildsBelow(p)
  <2> DEFINE f == As(Top(p), "load", None)
             g == Frame(Top(p).layer - 1, "look", FALSE, Top(p).depth)
  <2>1. /\ Called(p, f, g) /\ Top(p).layer \in {2, 3, 4} /\ file' = file
        /\ cache' = IF Top(p).layer \in Cached THEN [cache EXCEPT ![Top(p).layer] = None] ELSE cache
    BY <1>16 DEF RebuildsBelow
  <2>2. "load" \in Stages(Top(p).layer) /\ Top(p).layer - 1 \in Cached
    BY <2>1, StageFacts, LayerFacts
  <2>3. f.layer = Top(p).layer /\ f.depth = 0 /\ f.at = "load"
    BY <1>2, <1>4, <1>6, <2>2, AsFrames
  <2>4. g.layer = Top(p).layer - 1 /\ g.depth = 0 /\ g.at = "look"
    BY <1>3, <1>6, <2>2, LookFrames
  <2>5. /\ Ordered(file', cache') /\ \A l \in Cached : cache'[l] \in {None, cache[l]}
        /\ Top(p).layer \in Cached => cache'[Top(p).layer] = None
    BY <1>5, <1>9, <1>10, <2>1
  <2> HIDE DEF f, g
  <2>6. FrameOK(f, file', cache')
    BY <2>3, <2>5 DEF FrameOK
  <2>7. FrameOK(g, file', cache')
    BY <2>4 DEF FrameOK
  <2>8. f.layer \in Int /\ g.layer = f.layer - 1
    BY <2>1, <2>3, <2>4
  <2>9. QED BY <1>1, <2>1, <2>3, <2>5, <2>6, <2>7, <2>8, CalledOrdered
<1>17. CASE Loads(p)
  <2>1. /\ Go(p, "evaluate", Of(source)) /\ "evaluate" \in Stages(Top(p).layer) /\ UNCHANGED <<file, cache>>
        /\ Top(p).at = "load" /\ Top(p).layer = 1
    BY <1>17, StageFacts DEF Loads
  <2>2. cache'[1] = None
    BY <1>5, <2>1, LayerFacts DEF FrameOK
  <2>3. file[1].old \in Versions /\ Rank(file[1].old) <= Of(source).old
    <3>1. file[1] \in Payloads /\ Of(source).old = source
      BY <1>7, LayerFacts DEF Of
    <3>2. file[1].old \in Versions
      BY <3>1 DEF Payloads
    <3>3. QED BY <3>1, <3>2, RankFacts
  <2>4. FrameOK(As(Top(p), "evaluate", Of(source)), file', cache')
    BY <1>2, <1>4, <1>6, <2>1, <2>2, <2>3, AsFrames DEF FrameOK
  <2>5. Ordered(file', cache') /\ \A l \in Cached : cache'[l] \in {None, cache[l]}
    BY <1>5, <2>1
  <2>6. QED BY <1>1, <1>4, <2>1, <2>4, <2>5, GoOrdered
<1>18. CASE Evaluates(p)
  <2> DEFINE f == Evaluated(Top(p))
  <2>1. Top(p).at = "evaluate" /\ Replaced(p, f) /\ UNCHANGED <<file, cache>>
    BY <1>18 DEF Evaluates
  <2>2. Ordered(file', cache') /\ \A l \in Cached : cache'[l] \in {None, cache[l]}
    BY <1>5, <2>1
  <2>3. \/ Top(p).layer >= 1 /\ f = As(Top(p), "save", [Top(p).val EXCEPT !.new = source])
        \/ Top(p).layer < 1 /\ Top(p).chain /\ f = RebuildFrame(Top(p).layer + 1, TRUE, Top(p).depth)
        \/ Top(p).layer < 1 /\ ~Top(p).chain /\ f = As(Top(p), "end", None)
    BY <1>2, <2>1, EvaluatedFrames
  <2> HIDE DEF f
  <2>4. CASE Top(p).layer >= 1 /\ f = As(Top(p), "save", [Top(p).val EXCEPT !.new = source])
    <3> DEFINE w == [Top(p).val EXCEPT !.new = source]
    <3>1. w \in Payloads /\ w.old = Top(p).val.old /\ w.new = source
      BY <1>3, VersionFacts DEF Payloads
    <3>2. Top(p).layer \in {1, 2} /\ "save" \in Stages(Top(p).layer)
      BY <1>2, <2>1, <2>4, FrameFacts, StageFacts, LayerFacts
    <3> HIDE DEF w
    <3>3. f.layer = Top(p).layer /\ f.at = "save" /\ f.val = w /\ f.depth = 0
      BY <1>2, <1>6, <2>4, <3>1, <3>2, AsFrames DEF w
    <3>4. /\ cache[Top(p).layer] = None
          /\ Top(p).layer = 1 => Rank(file[1].old) <= Top(p).val.old
          /\ Top(p).layer = 2 => Top(p).val = file[1]
      BY <1>5, <2>1, <3>2, LayerFacts DEF FrameOK
    <3>5. file[2].new \in Versions
      BY <1>7, LayerFacts DEF Payloads
    <3>6. Rank(file[2].new) <= source
      BY <3>5, RankFacts
    <3>7. FrameOK(f, file', cache')
      BY <2>1, <3>1, <3>2, <3>3, <3>4, <3>6 DEF FrameOK
    <3>8. QED BY <1>1, <2>1, <2>2, <3>3, <3>7, ReplacedOrdered
  <2>5. CASE Top(p).layer < 1 /\ Top(p).chain /\ f = RebuildFrame(Top(p).layer + 1, TRUE, Top(p).depth)
    <3> DEFINE l == Top(p).layer + 1
    <3>1. l \in {0, 1} /\ l \in MarketState .. Signals
      BY <1>3, <2>5, LayerFacts
    <3>2. /\ f.layer = l /\ f.depth = Top(p).depth
          /\ f.at = (IF l < Confluence THEN "evaluate" ELSE "rebuild")
      <4> HIDE DEF l
      <4>1. f = RebuildFrame(l, TRUE, Top(p).depth)
        BY <2>5 DEF l
      <4>2. l # Signals /\ Top(p).depth \in 0 .. MaxNest
        BY <1>3, <3>1, LayerFacts
      <4>3. /\ RebuildFrame(l, TRUE, Top(p).depth).layer = l
            /\ RebuildFrame(l, TRUE, Top(p).depth).depth = Top(p).depth
            /\ RebuildFrame(l, TRUE, Top(p).depth).at = (IF l < Confluence THEN "evaluate" ELSE "rebuild")
        BY <3>1, <4>2, RebuildFrames
      <4>4. QED BY <4>1, <4>3
    <3> HIDE DEF l
    <3>3. f.at = "rebuild" \/ (f.at = "evaluate" /\ f.layer = 0)
      BY <3>1, <3>2, LayerFacts
    <3>4. FrameOK(f, file', cache')
      BY <1>6, <3>2, <3>3, LayerFacts DEF FrameOK
    <3>5. QED BY <1>1, <2>1, <2>2, <2>5, <3>4, ReplacedOrdered
  <2>6. CASE Top(p).layer < 1 /\ ~Top(p).chain /\ f = As(Top(p), "end", None)
    <3>1. "end" \in Stages(Top(p).layer)
      BY <1>3, <2>6, StageFacts
    <3>2. f.layer = Top(p).layer /\ f.at = "end" /\ f.depth = 0
      BY <1>2, <1>4, <1>6, <2>6, <3>1, AsFrames
    <3>3. FrameOK(f, file', cache')
      BY <3>2 DEF FrameOK
    <3>4. QED BY <1>1, <2>1, <2>2, <3>2, <3>3, ReplacedOrdered
  <2>7. QED BY <2>3, <2>4, <2>5, <2>6
<1>19. CASE Hooks(p)
  BY <1>19 DEF Hooks, OrderInv
<1>20. CASE Fails(p)
  <2>1. Top(p).at \in {"evaluate", "save"} /\ Go(p, "rescue", None) /\ UNCHANGED <<file, cache>>
    BY <1>20 DEF Fails
  <2>2. "rescue" \in Stages(Top(p).layer)
    BY <1>3, StageFacts, LayerFacts
  <2>3. Top(p).layer \in Cached => cache'[Top(p).layer] = None
    BY <1>5, <2>1 DEF FrameOK
  <2>4. FrameOK(As(Top(p), "rescue", None), file', cache')
    BY <1>2, <1>4, <1>6, <2>2, <2>3, AsFrames DEF FrameOK
  <2>5. Ordered(file', cache') /\ \A l \in Cached : cache'[l] \in {None, cache[l]}
    BY <1>5, <2>1
  <2>6. QED BY <1>1, <1>4, <2>1, <2>2, <2>4, <2>5, GoOrdered
<1>21. CASE Counts(p)
  <2> DEFINE f == CountDecisions(Top(p))
  <2>1. /\ Top(p).at = "save" /\ Top(p).layer = 4 /\ Top(p).chain /\ Replaced(p, f)
        /\ file' = [file EXCEPT ![Top(p).layer] = Top(p).val] /\ cache' = cache
    BY <1>21 DEF Counts
  <2>2. Ordered(file', cache')
    BY <1>2, <1>5, <2>1, SaveOrdered
  <2>3. f.depth = 0 /\ f.at = "look"
    BY <1>3, <1>6, LookFrames, LayerFacts DEF CountDecisions
  <2> HIDE DEF f
  <2>4. FrameOK(f, file', cache')
    BY <2>3 DEF FrameOK
  <2>5. \A l \in Cached : cache'[l] \in {None, cache[l]}
    BY <2>1
  <2>6. QED BY <1>1, <2>1, <2>2, <2>4, <2>5, ReplacedOrdered
<1>22. CASE Saves(p)
  <2>1. /\ Top(p).at = "save" /\ Top(p).layer \in Cached /\ Go(p, "store", Top(p).val)
        /\ file' = [file EXCEPT ![Top(p).layer] = Top(p).val] /\ cache' = cache
    BY <1>22 DEF Saves
  <2>2. Ordered(file', cache') /\ Top(p).val # None
    BY <1>2, <1>5, <2>1, SaveOrdered
  <2>3. "store" \in Stages(Top(p).layer) /\ file'[Top(p).layer] = Top(p).val
    BY <1>7, <1>9, <2>1, StageFacts
  <2>4. FrameOK(As(Top(p), "store", Top(p).val), file', cache')
    BY <1>2, <1>3, <1>6, <2>2, <2>3, AsFrames DEF FrameOK
  <2>5. \A l \in Cached : cache'[l] \in {None, cache[l]}
    BY <2>1
  <2>6. QED BY <1>1, <1>3, <2>1, <2>2, <2>3, <2>4, <2>5, GoOrdered
<1>23. CASE Stores(p)
  <2> DEFINE v == Top(p).val
  <2>1. /\ Top(p).at = "store" /\ Top(p).layer \in Cached /\ Return(p, v)
        /\ cache' = [cache EXCEPT ![Top(p).layer] = v] /\ file' = file
    BY <1>23 DEF Stores
  <2>2. v \in Payloads /\ v = file'[Top(p).layer] /\ v # None
    BY <1>3, <1>5, <2>1 DEF FrameOK
  <2> HIDE DEF v
  <2>3. \A l \in Cached : cache'[l] = IF l = Top(p).layer THEN v ELSE cache[l]
    BY <1>9, <2>1
  <2>4. Ordered(file', cache')
    BY <1>5, <2>1, <2>2, <2>3 DEF Ordered
  <2>5. \A l \in Cached : l > Top(p).layer => cache'[l] \in {None, cache[l]}
    BY <1>3, <2>3, LayerFacts
  <2>6. QED BY <1>1, <2>1, <2>2, <2>4, <2>5, ReturnOrdered
<1>24. CASE Ends(p)
  <2>1. Over(p) /\ Ordered(file', cache')
    BY <1>5, <1>24 DEF Ends
  <2>2. QED BY <1>1, <2>1, OverOrdered
<1>25. CASE GivesUp(p)
  BY <1>1, <1>25, RaiseOrdered DEF GivesUp
<1>26. QED
  BY <1>1, <1>11, <1>12, <1>13, <1>14, <1>15, <1>16, <1>17, <1>18, <1>19, <1>20,
     <1>21, <1>22, <1>23, <1>24, <1>25 DEF Stepped

\* A call that begins meets nobody, or the history counts as raced.
LEMMA StartOrdered ==
  ASSUME TypeOK, OrderInv, NEW p \in Procs, NEW f \in Frames, NEW operation, Begins(p, f, operation)
  PROVE  OrderInv'
<1> SUFFICES ASSUME order' # "raced" PROVE OrderInv'
  BY DEF OrderInv
<1>1. /\ stack' = [stack EXCEPT ![p] = <<f>>] /\ UNCHANGED <<file, cache>> /\ Idle(p)
      /\ order # "raced" /\ \A q \in Procs : Idle(q)
      /\ f.depth = 0 /\ f.at \in {"look", "rebuild", "evaluate"} /\ (f.at = "evaluate" => f.layer <= 0)
  BY DEF Begins, Start
<1>2. \A q \in Procs : stack'[q] = IF q = p THEN <<f>> ELSE <<>>
  BY <1>1 DEF TypeOK, Idle
<1>3. f.layer \in {-1, 0, 1, 2, 3, 4}
  BY FrameFacts
<1>4. FrameOK(f, file', cache')
  BY <1>1, <1>3, LayerFacts DEF FrameOK
<1>5. Len(<<f>>) = 1 /\ <<f>>[1] = f /\ Len(<<>>) = 0
  OBVIOUS
<1>6. ASSUME NEW q \in Procs
      PROVE  Ladder(stack'[q]) /\ \A i \in 1 .. Len(stack'[q]) : FrameOK(stack'[q][i], file', cache')
  <2>1. CASE q = p
    <3>1. stack'[q] = <<f>>
      BY <1>2, <2>1
    <3>2. \A i \in 1 .. Len(<<f>>) : i = 1
      BY <1>5
    <3>3. Ladder(<<f>>)
      BY <3>2 DEF Ladder
    <3>4. \A i \in 1 .. Len(<<f>>) : FrameOK(<<f>>[i], file', cache')
      BY <1>4, <1>5, <3>2
    <3>5. QED BY <3>1, <3>3, <3>4
  <2>2. CASE q # p
    <3>1. stack'[q] = <<>> /\ Len(stack'[q]) = 0
      BY <1>2, <2>2
    <3>2. \A i \in 1 .. Len(stack'[q]) : FALSE
      BY <3>1
    <3>3. QED BY <3>2 DEF Ladder
  <2>3. QED BY <2>1, <2>2
<1>7. Ordered(file', cache')
  BY <1>1 DEF OrderInv
<1>8. \A q, r \in Procs : stack'[q] # <<>> /\ stack'[r] # <<>> => q = r
  BY <1>2
<1>9. QED BY <1>6, <1>7, <1>8 DEF OrderInv, Ordered, Ladder, FrameOK

LEMMA QuietOrdered ==
  ASSUME TypeOK, OrderInv, ClearCaches \/ NewSource \/ UNCHANGED vars
  PROVE  OrderInv'
<1> SUFFICES ASSUME order' # "raced" PROVE OrderInv'
  BY DEF OrderInv
<1>1. UNCHANGED <<file, stack, order>> /\ (cache' = cache \/ cache' = [l \in Cached |-> None])
  BY DEF ClearCaches, NewSource, vars
<1>2. \A l \in Cached : cache'[l] \in {None, cache[l]}
  BY <1>1
<1>3. Ordered(file, cache) /\ order # "raced"
  BY <1>1 DEF OrderInv
<1>4. Ordered(file', cache')
  BY <1>1, <1>2, <1>3, EmptiedOrdered
<1>5. ASSUME NEW q \in Procs
      PROVE  Ladder(stack'[q]) /\ \A i \in 1 .. Len(stack'[q]) : FrameOK(stack'[q][i], file', cache')
  <2>1. stack'[q] = stack[q] /\ Ladder(stack[q]) /\ \A i \in 1 .. Len(stack[q]) : FrameOK(stack[q][i], file, cache)
    BY <1>1, <1>3 DEF OrderInv
  <2>2. ASSUME NEW i \in 1 .. Len(stack[q])
        PROVE  FrameOK(stack[q][i], file', cache')
    BY <1>1, <1>2, <2>1 DEF FrameOK
  <2>3. QED BY <2>1, <2>2
<1>6. \A q, r \in Procs : stack'[q] # <<>> /\ stack'[r] # <<>> => q = r
  BY <1>1, <1>3 DEF OrderInv
<1>7. QED BY <1>4, <1>5, <1>6 DEF OrderInv, Ordered, Ladder, FrameOK

-----------------------------------------------------------------------------
(* A cascade that meets nobody.  It holds the files of the layers it has   *)
(* rebuilt, whatever the hooks inside it do: with a finished outcome the   *)
(* source rests, and what they write again is the same.                    *)

\* The file of layer k is what a cascade leaves there.
Written(k, fl, src, fin) ==
  /\ fl[k] # None /\ fl[k].old = fl[1].old
  /\ k # 1 => fl[k].new = fl[2].new
  /\ fin => fl[k] = Of(src)

\* What the build of frame b is about to write.
Holds(b, fl, src, fin) ==
  b.layer >= 1 =>
    /\ b.val # None /\ (fin => b.val = Of(src))
    /\ b.layer # 1 => b.val.old = fl[1].old
    /\ b.layer \in {3, 4} => b.val = fl[b.layer - 1]

\* A frame of a cascade inside, when confluence has been rebuilt.
Inside(f, src) == f.layer = 1 /\ f.at \in {"evaluate", "save", "store"} => f.val = Of(src)

\* The layers above the one that the cascade rebuilds.
Above(l, fl, ca, src, fin) ==
  \A k \in Layers : k < l => Written(k, fl, src, fin) /\ (k # 4 => ca[k] \in {None, fl[k]})

\* The cascade with its own frame b, as far as it is.
Stage(st, b, fl, src, fin) ==
  \/ Len(st) = 1 /\ b.at = "rebuild"
  \/ Len(st) = 1 /\ b.at = "load" /\ b.layer = 1
  \/ /\ Len(st) = 2 /\ b.at = "load" /\ b.layer \in {2, 3, 4}
     /\ st[2].layer = b.layer - 1 /\ ~st[2].chain /\ st[2].at \in {"look", "read", "store"}
     /\ st[2].at = "store" => st[2].val = fl[b.layer - 1]
  \/ /\ b.at = "evaluate" /\ Holds(b, fl, src, fin)
     /\ Len(st) > 1 => fin
     /\ b.layer = 2 => \A i \in 2 .. Len(st) : Inside(st[i], src)
  \/ Len(st) = 1 /\ b.at = "save" /\ Holds(b, fl, src, fin)
  \/ Len(st) = 1 /\ b.at = "store" /\ b.val = fl[b.layer] /\ Written(b.layer, fl, src, fin)

Progress(st, fl, ca, src, fin) ==
  st[1].chain /\ Above(st[1].layer, fl, ca, src, fin) /\ Stage(st, st[1], fl, src, fin)

\* After it, the strategy evaluation counts the decisions.
Counting(st, fl) ==
  /\ Len(st) = 1 /\ st[1].layer = 3 /\ ~st[1].chain /\ st[1].depth = 0 /\ fl[3] # None
  /\ st[1].at \in {"look", "read", "store"}

LoneInv ==
  lone # "none" =>
    /\ \A q \in Procs : q # lone => stack[q] = <<>>
    /\ stack[lone] # <<>> =>
         Progress(stack[lone], file, cache, source, finished) \/ Counting(stack[lone], file)

EqualInv ==
  order = "equal" =>
    /\ CascadeAgrees
    /\ \A q \in Procs : stack[q] # <<>> => Counting(stack[q], file)

\* The call goes on as the cascade it is, or ends.
LEMMA Continues ==
  ASSUME TypeOK, LoneInv, NEW p \in Procs, lone = p, lone' \in {p, "none"}, NEW st, Becomes(p, st),
         UNCHANGED <<source, finished>>,
         st = <<>> \/ Progress(st, file', cache', source, finished) \/ Counting(st, file')
  PROVE  LoneInv'
<1> SUFFICES ASSUME lone' = p PROVE LoneInv'
  BY DEF LoneInv
<1>1. p # "none"
  BY ChainAssumption DEF Procs
<1>2. \A q \in Procs : stack'[q] = IF q = p THEN st ELSE stack[q]
  BY DEF TypeOK, Becomes
<1>3. \A q \in Procs : q # p => stack'[q] = <<>>
  BY <1>1, <1>2 DEF LoneInv
<1>4. stack'[p] = st
  BY <1>2
<1>5. stack'[p] # <<>> => Progress(stack'[p], file', cache', source', finished') \/ Counting(stack'[p], file')
  BY <1>4
<1>6. QED BY <1>3, <1>5 DEF LoneInv, Progress, Above, Stage, Written, Holds, Inside, Counting

\* What the files and caches above keep.
LEMMA AboveKept ==
  ASSUME NEW l \in {-1, 0, 1, 2, 3, 4}, Above(l, file, cache, source, finished), NEW fl, NEW ca,
         \A k \in Layers : k < l => fl[k] = file[k] /\ (k # 4 => ca[k] \in {None, cache[k], file[k]})
  PROVE  Above(l, fl, ca, source, finished)
<1> SUFFICES ASSUME NEW k \in Layers, k < l
             PROVE  Written(k, fl, source, finished) /\ (k # 4 => ca[k] \in {None, fl[k]})
  BY DEF Above
<1>1. Written(k, file, source, finished) /\ (k # 4 => cache[k] \in {None, file[k]})
  BY DEF Above
<1>2. fl[k] = file[k] /\ (k # 4 => ca[k] \in {None, fl[k]})
  BY <1>1
<1>3. fl[1] = file[1] /\ (k # 1 => fl[2] = file[2])
  BY LayerFacts
<1>4. QED BY <1>1, <1>2, <1>3 DEF Written

\* The frame of the cascade after its evaluation.
LEMMA EvaluatedProgress ==
  ASSUME TypeOK, NEW b \in Frames, b.chain, b.at = "evaluate",
         NEW fl, NEW ca, Above(b.layer, fl, ca, source, finished), Holds(b, fl, source, finished),
         NEW st, Len(st) = 1, st[1] = Evaluated(b)
  PROVE  Progress(st, fl, ca, source, finished)
<1> DEFINE f == Evaluated(b)
<1>1. b.layer \in {-1, 0, 1, 2} /\ b.val \in Payloads /\ b.depth \in 0 .. MaxNest
  BY FrameFacts
<1>2. \/ b.layer >= 1 /\ f = As(b, "save", [b.val EXCEPT !.new = source])
      \/ b.layer < 1 /\ f = RebuildFrame(b.layer + 1, TRUE, b.depth)
  BY EvaluatedFrames
<1> HIDE DEF f
<1>3. CASE b.layer >= 1 /\ f = As(b, "save", [b.val EXCEPT !.new = source])
  <2> DEFINE w == [b.val EXCEPT !.new = source]
  <2>1. w \in Payloads /\ w.old = b.val.old /\ w.new = source /\ source >= 1 /\ source \in Nat
    BY <1>1, VersionFacts DEF Payloads
  <2>2. b.layer \in {1, 2} /\ "save" \in Stages(b.layer)
    BY <1>1, <1>3, StageFacts, LayerFacts
  <2>3. w # None
    <3>1. None.new = -1
      BY DEF None, Of
    <3>2. w.new # None.new
      BY <2>1, <3>1
    <3>3. QED BY <3>2
  <2>4. finished => w = Of(source)
    BY <2>2 DEF Holds, Of
  <2>5. b.layer = 2 => w.old = fl[1].old
    BY <2>1 DEF Holds
  <2>6. f = As(b, "save", w)
    BY <1>3
  <2> HIDE DEF w
  <2>7. f.layer = b.layer /\ f.chain = b.chain /\ f.at = "save" /\ f.val = w
    BY <2>1, <2>2, <2>6, AsFrames
  <2>8. Holds(f, fl, source, finished)
    BY <2>2, <2>3, <2>4, <2>5, <2>7 DEF Holds
  <2>9. QED BY <2>7, <2>8 DEF Progress, Stage, f
<1>4. CASE b.layer < 1 /\ f = RebuildFrame(b.layer + 1, TRUE, b.depth)
  <2> DEFINE l == b.layer + 1
  <2>1. l \in {0, 1} /\ l \in MarketState .. Signals /\ l # Signals
    BY <1>1, <1>4, LayerFacts
  <2>2. f = RebuildFrame(l, TRUE, b.depth)
    BY <1>4
  <2> HIDE DEF l
  <2>3. /\ RebuildFrame(l, TRUE, b.depth).layer = l /\ RebuildFrame(l, TRUE, b.depth).chain = TRUE
        /\ RebuildFrame(l, TRUE, b.depth).at = (IF l < Confluence THEN "evaluate" ELSE "rebuild")
    BY DEF RebuildFrame, Frame, FirstStep
  <2>4. f.layer = l /\ f.chain /\ (f.at = "rebuild" \/ (f.at = "evaluate" /\ f.layer = 0))
    <3>1. f.layer = l /\ f.chain = TRUE /\ f.at = (IF l < Confluence THEN "evaluate" ELSE "rebuild")
      BY <2>2, <2>3, Zenon
    <3>2. QED BY <2>1, <3>1, LayerFacts
  <2>5. Above(f.layer, fl, ca, source, finished)
    BY <2>1, <2>4, LayerFacts DEF Above
  <2>6. f.at = "evaluate" => Holds(f, fl, source, finished)
    BY <2>1, <2>4 DEF Holds
  <2>7. ~(Len(st) > 1)
    OBVIOUS
  <2>8. f.at = "evaluate" => f.layer # 2
    BY <2>1, <2>4
  <2>9. Stage(st, f, fl, source, finished)
    BY <2>4, <2>6, <2>7, <2>8 DEF Stage
  <2>10. QED BY <2>4, <2>5, <2>9 DEF Progress, f
<1>5. QED BY <1>2, <1>3, <1>4

\* The frame of the cascade when the engine above has answered with its file.
LEMMA LoadedProgress ==
  ASSUME TypeOK, NEW b \in Frames, b.chain, b.at = "load", b.layer \in {2, 3, 4}, NEW ca,
         Above(b.layer, file, ca, source, finished),
         NEW st, Len(st) = 1, st[1] = Loaded(b, file[b.layer - 1])
  PROVE  Progress(st, file, ca, source, finished)
<1> DEFINE l == b.layer - 1
           v == file[l]
           f == Loaded(b, v)
<1>1. l \in Layers /\ l < b.layer
  BY LayerFacts
<1>2. v # None /\ v.old = file[1].old /\ (finished => v = Of(source))
  BY <1>1 DEF Above, Written
<1>3. v \in Payloads
  BY <1>1, VersionFacts
<1>4. /\ f.layer = b.layer /\ f.chain = b.chain /\ f.val = v
      /\ f.at = (IF b.layer = 2 THEN "evaluate" ELSE "save")
  BY <1>3, LayerFacts DEF Loaded, As, Frames
<1>5. st[1] = f
  OBVIOUS
<1> HIDE DEF f, v
<1>6. Holds(f, file, source, finished)
  BY <1>2, <1>4 DEF Holds, v
<1>7. ~(Len(st) > 1) /\ \A i \in 2 .. Len(st) : FALSE
  OBVIOUS
<1>8. Stage(st, f, file, source, finished)
  BY <1>4, <1>6, <1>7 DEF Stage
<1>9. QED BY <1>4, <1>5, <1>8 DEF Progress

\* The write of the cascade.
LEMMA WrittenNow ==
  ASSUME TypeOK, NEW b \in Frames, b.layer \in Layers, Above(b.layer, file, cache, source, finished),
         Holds(b, file, source, finished), file' = [file EXCEPT ![b.layer] = b.val], cache' = cache
  PROVE  /\ Written(b.layer, file', source, finished) /\ file'[b.layer] = b.val
         /\ Above(b.layer, file', cache', source, finished)
<1> DEFINE l == b.layer
           v == b.val
<1>1. l \in {1, 2, 3, 4} /\ \A k \in {1, 2, 3, 4} : file'[k] = IF k = l THEN v ELSE file[k]
  BY LayerFacts DEF TypeOK
<1>2. /\ v # None /\ (finished => v = Of(source))
      /\ l # 1 => v.old = file[1].old
      /\ l \in {3, 4} => v = file[l - 1]
  BY <1>1 DEF Holds
<1>3. \A k \in {1, 2, 3, 4} : k < l => Written(k, file, source, finished)
  BY LayerFacts DEF Above
<1> HIDE DEF l, v
<1>4. l = 4 => file[3].new = file[2].new
  BY <1>3 DEF Written
<1>5. Written(l, file', source, finished)
  BY <1>1, <1>2, <1>4 DEF Written
<1>6. \A k \in Layers : k < l => file'[k] = file[k] /\ (k # 4 => cache'[k] \in {None, cache[k], file[k]})
  BY <1>1, LayerFacts
<1>7. Above(l, file', cache', source, finished)
  BY <1>1, <1>6, AboveKept DEF l
<1>8. QED BY <1>1, <1>5, <1>7 DEF l, v

\* A step of a call with one frame.
LEMMA OneFrame ==
  ASSUME TypeOK, LoneInv, NEW p \in Procs, lone = p, lone' \in {p, "none"}, UNCHANGED <<source, finished>>,
         Len(stack[p]) = 1, NEW f, Replaced(p, f),
         f.chain, Above(f.layer, file', cache', source, finished),
         \A st : Len(st) = 1 => Stage(st, f, file', source, finished)
  PROVE  LoneInv'
<1>1. PICK st : Becomes(p, st) /\ Len(st) = 1 /\ st[1] = f
  BY DEF Replaced
<1>2. Progress(st, file', cache', source, finished)
  BY <1>1 DEF Progress
<1>3. QED BY <1>1, <1>2, Continues

\* The cascade between two calls of the engines above.
LEMMA LoneAlone ==
  ASSUME TypeOK, LoneInv, NEW p \in Procs, lone = p, ~Idle(p), Stepped(p), UNCHANGED <<source, finished>>,
         Progress(stack[p], file, cache, source, finished), Len(stack[p]) = 1
  PROVE  LoneInv'
<1> DEFINE b == Top(p)
<1>1. b \in Frames /\ b = stack[p][1] /\ b.depth = 0
  BY RunningStack
<1>2. b.layer \in {-1, 0, 1, 2, 3, 4} /\ b.val \in Payloads /\ b.at \in Stages(b.layer)
  BY <1>1, FrameFacts
<1>3. None \in Payloads /\ Of(source) \in Payloads
  BY VersionFacts
<1>4. b.chain /\ Above(b.layer, file, cache, source, finished) /\ Stage(stack[p], b, file, source, finished)
  BY <1>1 DEF Progress
<1>5. /\ b.at \in {"rebuild", "load", "evaluate", "save", "store"}
      /\ b.at \in {"evaluate", "save"} => Holds(b, file, source, finished)
      /\ b.at = "store" => b.val = file[b.layer] /\ Written(b.layer, file, source, finished)
      /\ b.at = "load" => b.layer = 1
  BY <1>4 DEF Stage
<1>6. 0 # MaxNest
  BY ChainAssumption
<1>7. cache \in [Cached -> Payloads] /\ file \in [Layers -> Payloads]
  BY DEF TypeOK
<1>8. \A st : Len(st) = 1 => ~(Len(st) > 1) /\ \A i \in 2 .. Len(st) : FALSE
  OBVIOUS
<1> HIDE DEF b
<1>9. CASE RebuildsTop(p)
  <2> DEFINE f == As(b, "load", None)
  <2>1. /\ b.layer = 1 /\ Go(p, "load", None) /\ lone' = lone
    BY <1>9 DEF RebuildsTop, b
  <2>2. "load" \in Stages(b.layer)
    BY <2>1, StageFacts, LayerFacts
  <2>3. f.layer = 1 /\ f.chain /\ f.at = "load"
    BY <1>1, <1>3, <1>4, <2>1, <2>2, AsFrames
  <2>4. Replaced(p, f)
    BY <1>3, <2>1, <2>2, GoCases DEF b
  <2> HIDE DEF f
  <2>5. Above(f.layer, file', cache', source, finished)
    BY <2>3, LayerFacts DEF Above
  <2>6. \A st : Len(st) = 1 => Stage(st, f, file', source, finished)
    BY <2>3 DEF Stage
  <2>7. QED BY <2>1, <2>3, <2>4, <2>5, <2>6, OneFrame
<1>10. CASE RebuildsBelow(p)
  <2> DEFINE f == As(b, "load", None)
             g == Frame(b.layer - 1, "look", FALSE, b.depth)
  <2>1. /\ Called(p, f, g) /\ b.layer \in {2, 3, 4} /\ file' = file /\ lone' = lone
        /\ cache' = IF b.layer \in Cached THEN [cache EXCEPT ![b.layer] = None] ELSE cache
    BY <1>10 DEF RebuildsBelow, b
  <2>2. "load" \in Stages(b.layer) /\ b.layer - 1 \in Cached /\ b.depth \in 0 .. MaxNest
    BY <1>1, <2>1, StageFacts, LayerFacts, ChainAssumption
  <2>3. f.layer = b.layer /\ f.chain /\ f.at = "load"
    BY <1>1, <1>3, <1>4, <2>2, AsFrames
  <2>4. g.layer = b.layer - 1 /\ g.chain = FALSE /\ g.at = "look"
    BY <2>2, LookFrames
  <2> HIDE DEF f, g
  <2>5. PICK st : Becomes(p, st) /\ Len(st) = 2 /\ st[1] = f /\ st[2] = g
    <3>1. PICK st : /\ Becomes(p, st) /\ Len(st) = Len(stack[p]) + 1
                    /\ st[Len(stack[p])] = f /\ st[Len(stack[p]) + 1] = g
      BY <2>1 DEF Called
    <3>2. QED BY <3>1
  <2>6. \A k \in Layers : k < b.layer => file'[k] = file[k] /\ (k # 4 => cache'[k] \in {None, cache[k], file[k]})
    BY <1>2, <1>7, <2>1, LayerFacts
  <2>7. Above(f.layer, file', cache', source, finished)
    BY <1>2, <1>4, <2>3, <2>6, AboveKept
  <2>8. Progress(st, file', cache', source, finished)
    BY <2>1, <2>3, <2>4, <2>5, <2>7 DEF Progress, Stage
  <2>9. QED BY <2>1, <2>5, <2>8, Continues
<1>11. CASE Loads(p)
  <2> DEFINE f == As(b, "evaluate", Of(source))
  <2>1. /\ b.layer = 1 /\ Go(p, "evaluate", Of(source)) /\ lone' = lone
    BY <1>11 DEF Loads, b
  <2>2. "evaluate" \in Stages(b.layer)
    BY <2>1, StageFacts
  <2>3. f.layer = 1 /\ f.chain /\ f.at = "evaluate" /\ f.val = Of(source)
    BY <1>1, <1>3, <1>4, <2>1, <2>2, AsFrames
  <2>4. Replaced(p, f)
    BY <1>3, <2>1, <2>2, GoCases DEF b
  <2>5. Of(source) # None
    <3>1. source >= 1 /\ source \in Nat
      BY VersionFacts
    <3>2. QED BY <3>1 DEF Of, None
  <2> HIDE DEF f
  <2>6. Above(f.layer, file', cache', source, finished)
    BY <2>3, LayerFacts DEF Above
  <2>7. Holds(f, file', source, finished)
    BY <2>3, <2>5 DEF Holds
  <2>8. \A st : Len(st) = 1 => Stage(st, f, file', source, finished)
    BY <1>8, <2>3, <2>7 DEF Stage
  <2>9. QED BY <2>1, <2>3, <2>4, <2>6, <2>8, OneFrame
<1>12. CASE Evaluates(p)
  <2>1. b.at = "evaluate" /\ Replaced(p, Evaluated(b)) /\ UNCHANGED <<file, cache, lone>>
    BY <1>12 DEF Evaluates, b
  <2>2. PICK st : Becomes(p, st) /\ Len(st) = 1 /\ st[1] = Evaluated(b)
    BY <2>1 DEF Replaced
  <2>3. Progress(st, file, cache, source, finished)
    BY <1>1, <1>4, <1>5, <2>1, <2>2, EvaluatedProgress
  <2>4. QED BY <2>1, <2>2, <2>3, Continues
<1>13. CASE Hooks(p)
  <2> DEFINE g == RebuildFrame(MarketState, TRUE, b.depth + 1)
  <2>1. b.at = "evaluate" /\ finished /\ Called(p, b, g) /\ UNCHANGED <<file, cache, lone>> /\ b.depth < MaxNest
    BY <1>13 DEF Hooks, b
  <2>2. g.layer = -1
    BY DEF RebuildFrame, Frame, MarketState
  <2> HIDE DEF g
  <2>3. PICK st : Becomes(p, st) /\ Len(st) = 2 /\ st[1] = b /\ st[2] = g
    <3>1. PICK st : /\ Becomes(p, st) /\ Len(st) = Len(stack[p]) + 1
                    /\ st[Len(stack[p])] = b /\ st[Len(stack[p]) + 1] = g
      BY <2>1 DEF Called
    <3>2. QED BY <3>1
  <2>4. \A i \in 2 .. Len(st) : Inside(st[i], source)
    BY <2>2, <2>3 DEF Inside
  <2>5. Progress(st, file, cache, source, finished)
    BY <1>4, <1>5, <2>1, <2>3, <2>4 DEF Progress, Stage
  <2>6. QED BY <2>1, <2>3, <2>5, Continues
<1>14. CASE Fails(p)
  <2>1. lone' = "none"
    BY <1>1, <1>6, <1>14 DEF Fails, b
  <2>2. QED BY <2>1 DEF LoneInv
<1>15. CASE Counts(p)
  <2> DEFINE f == CountDecisions(b)
  <2>1. /\ b.at = "save" /\ b.layer = 4 /\ Replaced(p, f)
        /\ file' = [file EXCEPT ![b.layer] = b.val] /\ cache' = cache /\ lone' = lone
    BY <1>15 DEF Counts, b
  <2>2. f.layer = 3 /\ f.chain = FALSE /\ f.at = "look" /\ f.depth = 0
    BY <1>1, LayerFacts DEF CountDecisions, Frame
  <2>3. file'[3] # None
    <3>1. file'[3] = file[3] /\ 3 \in Layers /\ 3 < b.layer
      BY <1>7, <2>1, LayerFacts
    <3>2. QED BY <1>4, <3>1 DEF Above, Written
  <2> HIDE DEF f
  <2>4. PICK st : Becomes(p, st) /\ Len(st) = 1 /\ st[1] = f
    BY <2>1 DEF Replaced
  <2>5. Counting(st, file')
    BY <2>2, <2>3, <2>4 DEF Counting
  <2>6. QED BY <2>1, <2>4, <2>5, Continues
<1>16. CASE Saves(p)
  <2> DEFINE f == As(b, "store", b.val)
  <2>1. /\ b.at = "save" /\ b.layer \in Cached /\ Go(p, "store", b.val)
        /\ file' = [file EXCEPT ![b.layer] = b.val] /\ cache' = cache /\ lone' = lone
    BY <1>16 DEF Saves, b
  <2>2. "store" \in Stages(b.layer) /\ b.layer \in Layers
    BY <2>1, StageFacts, LayerFacts
  <2>3. f.layer = b.layer /\ f.chain /\ f.at = "store" /\ f.val = b.val
    BY <1>1, <1>2, <1>4, <2>2, AsFrames
  <2>4. Replaced(p, f)
    BY <1>2, <2>1, <2>2, GoCases DEF b
  <2>5. /\ Written(b.layer, file', source, finished) /\ file'[b.layer] = b.val
        /\ Above(b.layer, file', cache', source, finished)
    BY <1>1, <1>4, <1>5, <2>1, <2>2, WrittenNow
  <2> HIDE DEF f
  <2>6. \A st : Len(st) = 1 => Stage(st, f, file', source, finished)
    BY <2>3, <2>5 DEF Stage
  <2>7. Above(f.layer, file', cache', source, finished)
    BY <2>3, <2>5
  <2>8. QED BY <2>1, <2>3, <2>4, <2>6, <2>7, OneFrame
<1>17. CASE Stores(p)
  <2> DEFINE l == b.layer + 1
             f == RebuildFrame(l, TRUE, b.depth)
  <2>1. /\ b.at = "store" /\ b.layer \in Cached /\ Return(p, b.val)
        /\ cache' = [cache EXCEPT ![b.layer] = b.val] /\ file' = file /\ lone' = lone
    BY <1>17 DEF Stores, b
  <2>2. Replaced(p, f)
    BY <1>2, <1>4, <2>1, ReturnCases DEF b
  <2>3. l \in {2, 3, 4} /\ l \in MarketState .. Signals /\ ~(l < Confluence) /\ b.depth \in 0 .. MaxNest
    BY <1>1, <2>1, LayerFacts, ChainAssumption
  <2>4. /\ RebuildFrame(l, TRUE, b.depth).layer = l /\ RebuildFrame(l, TRUE, b.depth).chain = TRUE
        /\ RebuildFrame(l, TRUE, b.depth).at = (IF l < Confluence THEN "evaluate" ELSE "rebuild")
    BY DEF RebuildFrame, Frame, FirstStep
  <2>5. f.layer = l /\ f.chain /\ f.at = "rebuild"
    BY <2>3, <2>4
  <2>6. ASSUME NEW k \in Layers, k < l
        PROVE  Written(k, file, source, finished) /\ (k # 4 => cache'[k] \in {None, file[k]})
    <3>1. CASE k = b.layer
      BY <1>5, <1>7, <2>1, <3>1
    <3>2. CASE k # b.layer
      <4>1. k < b.layer /\ k \in Cached
        BY <2>1, <2>6, <3>2, LayerFacts
      <4>2. cache'[k] = cache[k]
        BY <1>7, <2>1, <3>2, <4>1
      <4>3. QED BY <1>4, <4>1, <4>2 DEF Above
    <3>3. QED BY <3>1, <3>2
  <2> HIDE DEF f
  <2>7. Above(f.layer, file', cache', source, finished)
    BY <2>1, <2>5, <2>6 DEF Above
  <2>8. \A st : Len(st) = 1 => Stage(st, f, file', source, finished)
    BY <2>5 DEF Stage
  <2>9. QED BY <2>1, <2>2, <2>5, <2>7, <2>8, OneFrame
<1>18. CASE Hits(p) \/ Misses(p) \/ FileAnswers(p) \/ NoFile(p) \/ Ends(p) \/ Rescues(p) \/ GivesUp(p)
  BY <1>5, <1>18 DEF Hits, Misses, FileAnswers, NoFile, Ends, Rescues, GivesUp, b
<1>19. QED
  BY <1>9, <1>10, <1>11, <1>12, <1>13, <1>14, <1>15, <1>16, <1>17, <1>18 DEF Stepped

\* The cascade while the engine above answers: its file is there, so it builds nothing.
LEMMA LoneLoading ==
  ASSUME TypeOK, LoneInv, NEW p \in Procs, lone = p, ~Idle(p), Stepped(p), UNCHANGED <<source, finished>>,
         Progress(stack[p], file, cache, source, finished), Len(stack[p]) # 1, stack[p][1].at # "evaluate"
  PROVE  LoneInv'
<1> DEFINE b == stack[p][1]
           f == Top(p)
           v == file[f.layer]
<1>1. /\ Len(stack[p]) = 2 /\ b.at = "load" /\ b.layer \in {2, 3, 4} /\ b.chain
      /\ stack[p][2].layer = b.layer - 1 /\ ~stack[p][2].chain /\ stack[p][2].at \in {"look", "read", "store"}
      /\ stack[p][2].at = "store" => stack[p][2].val = file[b.layer - 1]
      /\ Above(b.layer, file, cache, source, finished)
  BY DEF Progress, Stage
<1>2. f = stack[p][2] /\ f \in Frames /\ b \in Frames /\ Caller(p) = b
  BY <1>1, RunningStack
<1>3. /\ f.layer \in {1, 2, 3} /\ f.layer = b.layer - 1 /\ f.layer \in Cached /\ f.layer \in Layers /\ f.layer < b.layer
      /\ ~f.chain /\ f.at \in {"look", "read", "store"} /\ (f.at = "store" => f.val = v)
  BY <1>1, <1>2, LayerFacts
<1>4. v # None /\ v \in Payloads /\ cache[f.layer] \in {None, v} /\ Written(f.layer, file, source, finished)
  <2>1. Written(f.layer, file, source, finished) /\ (f.layer # 4 => cache[f.layer] \in {None, v})
    BY <1>1, <1>3 DEF Above
  <2>2. v \in Payloads
    BY <1>3, VersionFacts
  <2>3. QED BY <1>3, <2>1, <2>2 DEF Written
<1>5. cache \in [Cached -> Payloads] /\ None \in Payloads
  BY VersionFacts DEF TypeOK
<1>6. b = stack[p][1] /\ v = file[b.layer - 1]
  BY <1>3
<1> HIDE DEF b, f
<1>7. ASSUME file' = file, lone' = lone, Return(p, v), \A k \in Cached : cache'[k] \in {None, cache[k], file[k]}
      PROVE  LoneInv'
  <2>1. /\ Caller(p).at = "load" /\ Caller(p).layer = f.layer + 1
        /\ Resumed(p, Loaded(b, v))
    BY <1>1, <1>2, <1>3, <1>4, <1>7, ReturnCases DEF f
  <2>2. PICK st : Becomes(p, st) /\ Len(st) = 1 /\ st[1] = Loaded(b, file[b.layer - 1])
    <3>1. PICK st : Becomes(p, st) /\ Len(st) = Len(stack[p]) - 1 /\ st[Len(stack[p]) - 1] = Loaded(b, v)
      BY <2>1 DEF Resumed
    <3>2. QED BY <1>1, <1>6, <3>1
  <2>3. \A k \in Layers : k < b.layer => file'[k] = file[k] /\ (k # 4 => cache'[k] \in {None, cache[k], file[k]})
    BY <1>7, LayerFacts
  <2>4. Above(b.layer, file', cache', source, finished)
    BY <1>1, <2>3, AboveKept
  <2>5. Progress(st, file', cache', source, finished)
    BY <1>1, <1>2, <1>7, <2>2, <2>4, LoadedProgress
  <2>6. QED BY <1>7, <2>2, <2>5, Continues
<1>8. ASSUME NEW at \in {"read", "store"}, NEW w \in Payloads, Go(p, at, w), at = "store" => w = v,
             file' = file, lone' = lone, \A k \in Cached : cache'[k] \in {None, cache[k], file[k]}
      PROVE  LoneInv'
  <2> DEFINE g == As(f, at, w)
  <2>1. at \in Stages(f.layer)
    BY <1>3, StageFacts
  <2>2. Replaced(p, g)
    BY <1>8, <2>1, GoCases DEF f
  <2>3. g.layer = f.layer /\ g.chain = f.chain /\ g.at = at /\ g.val = w
    BY <1>2, <2>1, AsFrames
  <2> HIDE DEF g
  <2>4. PICK st : Becomes(p, st) /\ Len(st) = 2 /\ st[1] = b /\ st[2] = g
    <3>1. PICK st : /\ Becomes(p, st) /\ Len(st) = Len(stack[p])
                    /\ \A i \in 1 .. Len(stack[p]) - 1 : st[i] = stack[p][i]
                    /\ st[Len(stack[p])] = g
      BY <2>2 DEF Replaced
    <3>2. 1 \in 1 .. Len(stack[p]) - 1
      BY <1>1
    <3>3. QED BY <1>1, <1>6, <3>1, <3>2
  <2>5. \A k \in Layers : k < b.layer => file'[k] = file[k] /\ (k # 4 => cache'[k] \in {None, cache[k], file[k]})
    BY <1>8, LayerFacts
  <2>6. Above(b.layer, file', cache', source, finished)
    BY <1>1, <2>5, AboveKept
  <2>7. Progress(st, file', cache', source, finished)
    BY <1>1, <1>3, <1>6, <1>8, <2>3, <2>4, <2>6 DEF Progress, Stage
  <2>8. QED BY <1>8, <2>4, <2>7, Continues
<1>9. CASE Hits(p)
  BY <1>3, <1>4, <1>7, <1>9 DEF Hits, f
<1>10. CASE Misses(p)
  <2>1. Go(p, "read", None) /\ UNCHANGED <<file, lone>> /\ cache' = [cache EXCEPT ![f.layer] = None]
    BY <1>10 DEF Misses, f
  <2>2. \A k \in Cached : cache'[k] \in {None, cache[k], file[k]}
    BY <1>5, <2>1
  <2>3. QED BY <1>5, <1>8, <2>1, <2>2
<1>11. CASE FileAnswers(p)
  <2>1. Go(p, "store", v) /\ UNCHANGED <<file, cache, lone>>
    BY <1>11 DEF FileAnswers, f
  <2>2. QED BY <1>4, <1>8, <2>1
<1>12. CASE Stores(p)
  <2>1. Return(p, v) /\ UNCHANGED <<file, lone>> /\ cache' = [cache EXCEPT ![f.layer] = v]
    BY <1>3, <1>12 DEF Stores, f
  <2>2. \A k \in Cached : cache'[k] \in {None, cache[k], file[k]}
    BY <1>5, <2>1
  <2>3. QED BY <1>7, <2>1, <2>2
<1>13. CASE NoFile(p)
  BY <1>4, <1>13 DEF NoFile, f
<1>14. CASE RebuildsTop(p) \/ RebuildsBelow(p) \/ Loads(p) \/ Evaluates(p) \/ Hooks(p) \/ Fails(p)
  BY <1>3, <1>14 DEF RebuildsTop, RebuildsBelow, Loads, Evaluates, Hooks, Fails, f
<1>15. CASE Counts(p) \/ Saves(p) \/ Ends(p) \/ Rescues(p) \/ GivesUp(p)
  BY <1>3, <1>15 DEF Counts, Saves, Ends, Rescues, GivesUp, f
<1>16. QED BY <1>9, <1>10, <1>11, <1>12, <1>13, <1>14, <1>15 DEF Stepped

\* The call that counts the decisions answers from the cache or the file.
LEMMA CountingStepped ==
  ASSUME TypeOK, NEW p \in Procs, ~Idle(p), Stepped(p), Counting(stack[p], file)
  PROVE  /\ UNCHANGED <<file, order, lone>>
         /\ \E st : Becomes(p, st) /\ (st = <<>> \/ Counting(st, file))
<1> DEFINE f == Top(p)
<1>1. f = stack[p][1] /\ f \in Frames /\ Len(stack[p]) = 1
  BY RunningStack DEF Counting
<1>2. /\ f.layer = 3 /\ ~f.chain /\ f.depth = 0 /\ f.at \in {"look", "read", "store"} /\ file[3] # None
      /\ 3 \in Cached /\ 3 \in Layers
  BY <1>1, LayerFacts DEF Counting
<1>3. None \in Payloads /\ file[3] \in Payloads /\ cache[3] \in Payloads /\ f.val \in Payloads
  BY <1>1, <1>2, VersionFacts, FrameFacts
<1> HIDE DEF f
<1>4. ASSUME NEW v \in Payloads, Return(p, v)
      PROVE  Becomes(p, <<>>)
  <2>1. Over(p)
    <3>1. Top(p).layer \in Cached /\ ~Top(p).chain
      BY <1>2 DEF f
    <3>2. ~(Len(stack[p]) > 1)
      BY <1>1
    <3>3. QED BY <1>4, <3>1, <3>2, ReturnCases
  <2>2. <<>> \in Seq(Frames) /\ Nested(<<>>)
    BY DEF Nested
  <2>3. QED BY <2>1, <2>2 DEF Over, Becomes
<1>5. ASSUME NEW at \in {"read", "store"}, NEW v \in Payloads, Go(p, at, v)
      PROVE  \E st : Becomes(p, st) /\ Counting(st, file)
  <2> DEFINE g == As(f, at, v)
  <2>1. at \in Stages(f.layer)
    BY <1>2, StageFacts
  <2>2. Replaced(p, g)
    BY <1>5, <2>1, GoCases DEF f
  <2>3. g.layer = f.layer /\ g.chain = f.chain /\ g.depth = f.depth /\ g.at = at
    BY <1>1, <2>1, AsFrames
  <2> HIDE DEF g
  <2>4. PICK st : Becomes(p, st) /\ Len(st) = 1 /\ st[1] = g
    BY <1>1, <2>2 DEF Replaced
  <2>5. Counting(st, file)
    BY <1>2, <2>3, <2>4 DEF Counting
  <2>6. QED BY <2>4, <2>5
<1>6. CASE Hits(p)
  BY <1>2, <1>3, <1>4, <1>6 DEF Hits, f
<1>7. CASE Misses(p)
  BY <1>3, <1>5, <1>7 DEF Misses
<1>8. CASE FileAnswers(p)
  BY <1>2, <1>3, <1>5, <1>8 DEF FileAnswers, f
<1>9. CASE Stores(p)
  BY <1>3, <1>4, <1>9 DEF Stores, f
<1>10. CASE NoFile(p)
  BY <1>2, <1>10 DEF NoFile, f
<1>11. CASE RebuildsTop(p) \/ RebuildsBelow(p) \/ Loads(p) \/ Evaluates(p) \/ Hooks(p) \/ Fails(p)
  BY <1>2, <1>11 DEF RebuildsTop, RebuildsBelow, Loads, Evaluates, Hooks, Fails, f
<1>12. CASE Counts(p) \/ Saves(p) \/ Ends(p) \/ Rescues(p) \/ GivesUp(p)
  BY <1>2, <1>12 DEF Counts, Saves, Ends, Rescues, GivesUp, f
<1>13. QED BY <1>6, <1>7, <1>8, <1>9, <1>10, <1>11, <1>12 DEF Stepped

\* An evaluation inside goes on with what it has.
LEMMA InsideEvaluated ==
  ASSUME TypeOK, NEW e \in Frames, e.at = "evaluate", Inside(e, source)
  PROVE  Inside(Evaluated(e), source)
<1> DEFINE f == Evaluated(e)
<1>1. e.layer \in {-1, 0, 1, 2} /\ e.val \in Payloads
  BY FrameFacts
<1>2. \/ e.layer >= 1 /\ f = As(e, "save", [e.val EXCEPT !.new = source])
      \/ e.layer < 1 /\ e.chain /\ f = RebuildFrame(e.layer + 1, TRUE, e.depth)
      \/ e.layer < 1 /\ ~e.chain /\ f = As(e, "end", None)
  BY EvaluatedFrames
<1> HIDE DEF f
<1>3. CASE e.layer >= 1 /\ f = As(e, "save", [e.val EXCEPT !.new = source])
  <2> DEFINE w == [e.val EXCEPT !.new = source]
  <2>1. f = As(e, "save", w) /\ w \in Payloads
    BY <1>1, <1>3, VersionFacts
  <2>2. e.layer = 1 => w = Of(source)
    BY DEF Inside, Of
  <2> HIDE DEF w
  <2>3. "save" \in Stages(e.layer)
    BY <1>1, <1>3, StageFacts, LayerFacts
  <2>4. f.layer = e.layer /\ f.val = w
    BY <2>1, <2>3, AsFrames
  <2>5. QED BY <2>2, <2>4 DEF Inside, f
<1>4. CASE e.layer < 1 /\ f = RebuildFrame(e.layer + 1, TRUE, e.depth)
  <2> DEFINE l == e.layer + 1
  <2>1. l \in {0, 1} /\ f = RebuildFrame(l, TRUE, e.depth)
    BY <1>1, <1>4
  <2> HIDE DEF l
  <2>2. f.layer = l /\ f.at = (IF l < Confluence THEN "evaluate" ELSE "rebuild")
    BY <2>1 DEF RebuildFrame, Frame, FirstStep
  <2>3. f.layer = 1 => f.at = "rebuild"
    BY <2>2, LayerFacts
  <2>4. QED BY <2>3 DEF Inside, f
<1>5. CASE e.layer < 1 /\ f = As(e, "end", None)
  <2>1. None \in Payloads /\ "end" \in Stages(e.layer)
    BY <1>1, <1>5, VersionFacts, StageFacts
  <2>2. f.at = "end"
    BY <1>5, <2>1, AsFrames
  <2>3. QED BY <2>2 DEF Inside, f
<1>6. QED BY <1>2, <1>3, <1>4, <1>5

\* Lengths, without the stack they are of.
LEMMA Lengths ==
  ASSUME NEW m \in Nat
  PROVE  /\ m >= 1 /\ m # 1 => m > 1 /\ 1 \in 1 .. m
         /\ m > 1 => m = 2 \/ m > 2
OBVIOUS

\* The cascade while the hook of its evaluation runs others.
LEMMA LoneInside ==
  ASSUME TypeOK, LoneInv, NEW p \in Procs, lone = p, ~Idle(p), Stepped(p), UNCHANGED <<source, finished>>,
         Progress(stack[p], file, cache, source, finished), Len(stack[p]) # 1, stack[p][1].at = "evaluate"
  PROVE  LoneInv'
<1> DEFINE b == stack[p][1]
           f == Top(p)
           n == Len(stack[p])
<1>1. n \in Nat /\ n > 1 /\ f = stack[p][n] /\ f \in Frames /\ Caller(p) = stack[p][n - 1]
      /\ Caller(p) \in Frames /\ b \in Frames
  <2>1. n \in Nat /\ n >= 1 /\ \A i \in 1 .. n : stack[p][i] \in Frames
    BY RunningStack
  <2>2. n > 1 /\ 1 \in 1 .. n
    <3>1. n \in Nat /\ n >= 1 /\ n # 1
      BY <2>1
    <3> HIDE DEF n
    <3>2. QED BY <3>1, Lengths
  <2>3. QED BY <2>1, <2>2, RunningStack
<1>2. /\ b.chain /\ b.at = "evaluate" /\ Above(b.layer, file, cache, source, finished)
      /\ Holds(b, file, source, finished)
      /\ n > 1 => finished
      /\ b.layer = 2 => \A i \in 2 .. n : Inside(stack[p][i], source)
  BY DEF Progress, Stage
<1>3. b.layer \in {-1, 0, 1, 2}
  BY <1>1, <1>2, FrameFacts
<1>4. finished /\ (b.layer = 2 => Inside(f, source) /\ (n > 2 => Inside(Caller(p), source)))
  <2>1. n \in 2 .. n /\ (n > 2 => n - 1 \in 2 .. n)
    BY <1>1
  <2>2. QED BY <1>1, <1>2, <2>1
<1>5. b.layer = 2 => file[1] = Of(source) /\ cache[1] \in {None, Of(source)}
  <2>1. 1 \in Layers /\ 1 # 4
    BY LayerFacts
  <2>2. QED BY <1>2, <1>4, <2>1 DEF Above, Written
<1>6. /\ f.layer \in {-1, 0, 1, 2, 3, 4} /\ f.at \in Stages(f.layer) /\ f.val \in Payloads /\ f.depth \in 0 .. MaxNest
      /\ f.chain \in BOOLEAN
  BY <1>1, FrameFacts
<1>7. /\ cache \in [Cached -> Payloads] /\ file \in [Layers -> Payloads]
      /\ None \in Payloads /\ Of(source) \in Payloads
      /\ \A l \in Cached : l \in Layers /\ file[l] \in Payloads /\ cache[l] \in Payloads
  BY VersionFacts, LayerFacts DEF TypeOK
<1>8. Of(source) # None /\ [Of(source) EXCEPT !.new = source] = Of(source)
  <2>1. source \in Nat /\ source >= 1
    BY VersionFacts
  <2>2. QED BY <2>1 DEF Of, None
<1> HIDE DEF b, f
\* What the cascade inside writes again is the same, where the one around it has been.
<1> DEFINE Same == b.layer = 2 => file'[1] = Of(source) /\ cache'[1] \in {None, Of(source)}
<1>9. ASSUME Same
      PROVE  Above(b.layer, file', cache', source, finished) /\ Holds(b, file', source, finished)
  <2>1. CASE b.layer = 2
    <3>1. file'[1] = Of(source) /\ cache'[1] \in {None, Of(source)}
      BY <1>9, <2>1
    <3>2. \A k \in Layers : k < b.layer => k = 1
      BY <2>1, LayerFacts
    <3>3. Above(b.layer, file', cache', source, finished)
      BY <1>8, <3>1, <3>2 DEF Above, Written
    <3>4. b.val = Of(source) /\ Holds(b, file', source, finished)
      BY <1>2, <1>4, <1>8, <2>1, <3>1 DEF Holds
    <3>5. QED BY <3>3, <3>4
  <2>2. CASE b.layer \in {-1, 0, 1}
    <3>1. Above(b.layer, file', cache', source, finished)
      BY <2>2, LayerFacts DEF Above
    <3>2. Holds(b, file', source, finished)
      BY <1>2, <2>2 DEF Holds
    <3>3. QED BY <3>1, <3>2
  <2>3. QED BY <1>3, <2>1, <2>2
<1> HIDE DEF Same
<1>10. ASSUME NEW st, Len(st) > 1, st[1] = b, Becomes(p, st), Same, lone' \in {p, "none"},
              b.layer = 2 => \A i \in 2 .. Len(st) : Inside(st[i], source)
       PROVE  LoneInv'
  <2>1. Progress(st, file', cache', source, finished)
    BY <1>2, <1>4, <1>9, <1>10 DEF Progress, Stage
  <2>2. QED BY <1>10, <2>1, Continues
<1>11. ASSUME NEW g, Replaced(p, g), Same, lone' \in {p, "none"}, b.layer = 2 => Inside(g, source)
       PROVE  LoneInv'
  <2>1. PICK st : /\ Becomes(p, st) /\ Len(st) = n
                  /\ \A i \in 1 .. n - 1 : st[i] = stack[p][i]
                  /\ st[n] = g
    BY <1>11 DEF Replaced
  <2>2. st[1] = b /\ Len(st) > 1
    BY <1>1, <2>1 DEF b
  <2>3. ASSUME b.layer = 2, NEW i \in 2 .. Len(st)
        PROVE  Inside(st[i], source)
    <3>1. i = n \/ i \in 1 .. n - 1
      BY <1>1, <2>1
    <3>2. QED BY <1>2, <1>11, <2>1, <2>3, <3>1
  <2>4. QED BY <1>10, <1>11, <2>1, <2>2, <2>3
<1>12. ASSUME NEW e, NEW g, Called(p, e, g), Same, lone' \in {p, "none"},
              b.layer = 2 => Inside(e, source) /\ Inside(g, source)
       PROVE  LoneInv'
  <2>1. PICK st : /\ Becomes(p, st) /\ Len(st) = n + 1
                  /\ \A i \in 1 .. n - 1 : st[i] = stack[p][i]
                  /\ st[n] = e /\ st[n + 1] = g
    BY <1>12 DEF Called
  <2>2. st[1] = b /\ Len(st) > 1
    BY <1>1, <2>1 DEF b
  <2>3. ASSUME b.layer = 2, NEW i \in 2 .. Len(st)
        PROVE  Inside(st[i], source)
    <3>1. i = n \/ i = n + 1 \/ (i \in 1 .. n - 1 /\ i \in 2 .. n)
      BY <1>1, <2>1
    <3>2. QED BY <1>2, <1>12, <2>1, <2>3, <3>1
  <2>4. QED BY <1>10, <1>12, <2>1, <2>2, <2>3
<1>13. ASSUME n > 2, NEW g, Resumed(p, g), Same, lone' \in {p, "none"}, b.layer = 2 => Inside(g, source)
       PROVE  LoneInv'
  <2>1. PICK st : /\ Becomes(p, st) /\ Len(st) = n - 1
                  /\ \A i \in 1 .. n - 2 : st[i] = stack[p][i]
                  /\ st[n - 1] = g
    BY <1>13 DEF Resumed
  <2>2. st[1] = b /\ Len(st) > 1
    BY <1>1, <1>13, <2>1 DEF b
  <2>3. ASSUME b.layer = 2, NEW i \in 2 .. Len(st)
        PROVE  Inside(st[i], source)
    <3>1. i = n - 1 \/ (i \in 1 .. n - 2 /\ i \in 2 .. n)
      BY <1>1, <2>1
    <3>2. QED BY <1>2, <1>13, <2>1, <2>3, <3>1
  <2>4. QED BY <1>10, <1>13, <2>1, <2>2, <2>3
\* The hook is over: the evaluation around it goes on.
<1>14. ASSUME Caller(p).at = "evaluate", Resumed(p, Evaluated(Caller(p))), Same, lone' \in {p, "none"}
       PROVE  LoneInv'
  <2>1. CASE n > 2
    <3> DEFINE g == Evaluated(Caller(p))
    <3>1. b.layer = 2 => Inside(g, source)
      BY <1>1, <1>4, <1>14, <2>1, InsideEvaluated
    <3>2. Resumed(p, g)
      BY <1>14
    <3> HIDE DEF g
    <3>3. QED BY <1>13, <1>14, <2>1, <3>1, <3>2
  <2>2. CASE n = 2
    <3>1. Caller(p) = b
      BY <1>1, <2>2 DEF b
    <3>2. PICK st : Becomes(p, st) /\ Len(st) = 1 /\ st[1] = Evaluated(b)
      <4>1. PICK st : Becomes(p, st) /\ Len(st) = n - 1 /\ st[n - 1] = Evaluated(Caller(p))
        BY <1>14 DEF Resumed
      <4>2. QED BY <2>2, <3>1, <4>1
    <3>3. Progress(st, file', cache', source, finished)
      BY <1>1, <1>2, <1>9, <1>14, <3>2, EvaluatedProgress
    <3>4. QED BY <1>14, <3>2, <3>3, Continues
  <2>3. n = 2 \/ n > 2
    <3>1. n \in Nat /\ n > 1
      BY <1>1
    <3> HIDE DEF n
    <3>2. QED BY <3>1, Lengths
  <2>4. QED BY <2>1, <2>2, <2>3
<1>15. ASSUME f.layer \in Cached, NEW v \in Payloads, Return(p, v), Same, lone' \in {p, "none"}
       PROVE  LoneInv'
  <2>1. CASE f.chain /\ Replaced(p, RebuildFrame(f.layer + 1, TRUE, f.depth))
    <3> DEFINE g == RebuildFrame(f.layer + 1, TRUE, f.depth)
    <3>1. g.layer # 1
      BY <1>15, LayerFacts DEF RebuildFrame, Frame
    <3>2. Replaced(p, g)
      BY <2>1
    <3> HIDE DEF g
    <3>3. QED BY <1>11, <1>15, <3>1, <3>2 DEF Inside
  <2>2. CASE Caller(p).at = "evaluate" /\ Resumed(p, Evaluated(Caller(p)))
    BY <1>14, <1>15, <2>2
  <2>3. CASE Caller(p).at = "load" /\ Caller(p).layer = f.layer + 1 /\ Resumed(p, Loaded(Caller(p), v))
    <3> DEFINE g == Loaded(Caller(p), v)
    <3>1. n > 2
      <4>1. n # 2
        BY <1>1, <1>2, <2>3 DEF b
      <4>2. n \in Nat /\ n > 1
        BY <1>1
      <4> HIDE DEF n
      <4>3. QED BY <4>1, <4>2, Lengths
    <3>2. Caller(p).layer # 1
      BY <1>15, <2>3, LayerFacts
    <3>3. g.layer = Caller(p).layer
      BY <1>1, LayerFacts DEF Loaded, As, Frames
    <3>4. Resumed(p, g)
      BY <2>3
    <3> HIDE DEF g
    <3>5. QED BY <1>13, <1>15, <3>1, <3>2, <3>3, <3>4 DEF Inside
  <2>4. QED BY <1>1, <1>15, <2>1, <2>2, <2>3, ReturnCases DEF f
<1>16. ASSUME NEW at, at \in Stages(f.layer), NEW w \in Payloads, Go(p, at, w), Same, lone' \in {p, "none"},
              b.layer = 2 /\ f.layer = 1 /\ at \in {"evaluate", "save", "store"} => w = Of(source)
       PROVE  LoneInv'
  <2> DEFINE g == As(f, at, w)
  <2>1. g.layer = f.layer /\ g.at = at /\ g.val = w
    BY <1>1, <1>16, AsFrames
  <2>2. Replaced(p, g)
    BY <1>16, GoCases DEF f
  <2> HIDE DEF g
  <2>3. QED BY <1>11, <1>16, <2>1, <2>2 DEF Inside
<1>17. UNCHANGED <<file, cache>> => Same
  BY <1>5 DEF Same
<1>18. file' = file /\ cache' = [cache EXCEPT ![f.layer] = None] => Same
  BY <1>5, <1>7, LayerFacts DEF Same
<1>19. CASE Hits(p)
  BY <1>7, <1>15, <1>17, <1>19 DEF Hits, f
<1>20. CASE Misses(p)
  <2>1. /\ Go(p, "read", None) /\ "read" \in Stages(f.layer) /\ Same /\ lone' = lone
    BY <1>18, <1>20, StageFacts DEF Misses, f
  <2>2. QED BY <1>7, <1>16, <2>1
<1>21. CASE FileAnswers(p) \/ Rescues(p)
  <2> DEFINE w == file[f.layer]
  <2>1. /\ Go(p, "store", w) /\ "store" \in Stages(f.layer) /\ Same /\ lone' = lone /\ w \in Payloads
    BY <1>7, <1>17, <1>21, StageFacts DEF FileAnswers, Rescues, f
  <2>2. b.layer = 2 /\ f.layer = 1 => w = Of(source)
    BY <1>5
  <2> HIDE DEF w
  <2>3. QED BY <1>16, <2>1, <2>2
<1>22. CASE NoFile(p)
  <2>1. /\ Go(p, "rebuild", None) /\ "rebuild" \in Stages(f.layer) /\ Same /\ lone' = lone
    BY <1>7, <1>17, <1>22, StageFacts DEF NoFile, f
  <2>2. QED BY <1>7, <1>16, <2>1
<1>23. CASE RebuildsTop(p)
  <2>1. /\ Go(p, "load", None) /\ "load" \in Stages(f.layer) /\ Same /\ lone' = lone
    BY <1>18, <1>23, StageFacts, LayerFacts DEF RebuildsTop, f
  <2>2. QED BY <1>7, <1>16, <2>1
<1>24. CASE RebuildsBelow(p)
  <2> DEFINE e == As(f, "load", None)
             g == Frame(f.layer - 1, "look", FALSE, f.depth)
  <2>1. Called(p, e, g) /\ lone' = lone /\ Same
    BY <1>17, <1>18, <1>24 DEF RebuildsBelow, f
  <2>2. e.at = "load" /\ g.at = "look"
    BY <1>1 DEF As, Frame, Frames
  <2> HIDE DEF e, g
  <2>3. QED BY <1>12, <2>1, <2>2 DEF Inside
<1>25. CASE Loads(p)
  <2>1. /\ Go(p, "evaluate", Of(source)) /\ "evaluate" \in Stages(f.layer) /\ Same /\ lone' = lone
    BY <1>17, <1>25, StageFacts DEF Loads, f
  <2>2. QED BY <1>7, <1>16, <2>1
<1>26. CASE Evaluates(p)
  <2> DEFINE g == Evaluated(f)
  <2>1. f.at = "evaluate" /\ Replaced(p, g) /\ Same /\ lone' = lone
    BY <1>17, <1>26 DEF Evaluates, f
  <2>2. b.layer = 2 => Inside(g, source)
    BY <1>1, <1>4, <2>1, InsideEvaluated
  <2> HIDE DEF g
  <2>3. QED BY <1>11, <2>1, <2>2
<1>27. CASE Hooks(p)
  <2> DEFINE g == RebuildFrame(MarketState, TRUE, f.depth + 1)
  <2>1. Called(p, f, g) /\ Same /\ lone' = lone
    BY <1>17, <1>27 DEF Hooks, f
  <2>2. g.layer # 1
    BY LayerFacts DEF RebuildFrame, Frame
  <2> HIDE DEF g
  <2>3. QED BY <1>4, <1>12, <2>1, <2>2 DEF Inside
<1>28. CASE Fails(p)
  <2>1. Go(p, "rescue", None) /\ Same /\ lone' \in {p, "none"}
    BY <1>17, <1>28 DEF Fails
  <2>2. "rescue" \in Stages(f.layer)
    BY <1>6, StageFacts, LayerFacts
  <2>3. QED BY <1>7, <1>16, <2>1, <2>2
<1>29. CASE Counts(p)
  <2> DEFINE g == CountDecisions(f)
  <2>1. /\ Replaced(p, g) /\ lone' = lone /\ file' = [file EXCEPT ![4] = f.val] /\ cache' = cache
    BY <1>29 DEF Counts, f
  <2>2. Same
    BY <1>5, <1>7, <2>1, LayerFacts DEF Same
  <2>3. g.layer # 1
    BY LayerFacts DEF CountDecisions, Frame
  <2> HIDE DEF g
  <2>4. QED BY <1>11, <2>1, <2>2, <2>3 DEF Inside
<1>30. CASE Saves(p)
  <2>1. /\ f.at = "save" /\ f.layer \in Cached /\ Go(p, "store", f.val) /\ "store" \in Stages(f.layer)
        /\ file' = [file EXCEPT ![f.layer] = f.val] /\ cache' = cache /\ lone' = lone
    BY <1>30, StageFacts DEF Saves, f
  <2>2. b.layer = 2 /\ f.layer = 1 => f.val = Of(source)
    BY <1>4, <2>1 DEF Inside
  <2>3. Same
    BY <1>5, <1>7, <2>1, <2>2, LayerFacts DEF Same
  <2>4. QED BY <1>6, <1>16, <2>1, <2>2, <2>3
<1>31. CASE Stores(p)
  <2>1. /\ f.at = "store" /\ f.layer \in Cached /\ Return(p, f.val)
        /\ cache' = [cache EXCEPT ![f.layer] = f.val] /\ file' = file /\ lone' = lone
    BY <1>31 DEF Stores, f
  <2>2. b.layer = 2 /\ f.layer = 1 => f.val = Of(source)
    BY <1>4, <2>1 DEF Inside
  <2>3. Same
    BY <1>5, <1>7, <2>1, <2>2, LayerFacts DEF Same
  <2>4. QED BY <1>6, <1>15, <2>1, <2>3
<1>32. CASE Ends(p)
  <2>1. <<>> \in Seq(Frames) /\ Nested(<<>>)
    BY DEF Nested
  <2>2. Becomes(p, <<>>) /\ lone' = lone
    BY <1>32, <2>1 DEF Ends, Over, Becomes
  <2>3. QED BY <2>2, Continues
<1>33. CASE GivesUp(p)
  <2>1. Raise(p) /\ Same /\ lone' = lone
    BY <1>17, <1>33 DEF GivesUp
  <2>2. CASE Caller(p).at = "evaluate" /\ Resumed(p, Evaluated(Caller(p)))
    BY <1>14, <2>1, <2>2
  <2>3. CASE Caller(p).at = "load" /\ Resumed(p, NotLoaded(Caller(p)))
    <3> DEFINE g == NotLoaded(Caller(p))
    <3>1. n > 2
      <4>1. n # 2
        BY <1>1, <1>2, <2>3 DEF b
      <4>2. n \in Nat /\ n > 1
        BY <1>1
      <4> HIDE DEF n
      <4>3. QED BY <4>1, <4>2, Lengths
    <3>2. g.at = "rescue" \/ g.layer = 3
      BY <1>1, LayerFacts DEF NotLoaded, As, Frames
    <3>3. Resumed(p, g)
      BY <2>3
    <3> HIDE DEF g
    <3>4. QED BY <1>13, <2>1, <3>1, <3>2, <3>3 DEF Inside
  <2>4. QED BY <1>1, <2>1, <2>2, <2>3, RaiseCases
<1>34. QED
  BY <1>19, <1>20, <1>21, <1>22, <1>23, <1>24, <1>25, <1>26, <1>27, <1>28, <1>29, <1>30, <1>31, <1>32,
     <1>33 DEF Stepped

\* A step of the cascade that has met nobody.
LEMMA LoneStepped ==
  ASSUME TypeOK, LoneInv, NEW p \in Procs, Step(p) \/ Fail(p)
  PROVE  LoneInv'
<1>1. ~Idle(p) /\ Stepped(p) /\ UNCHANGED <<source, finished, calls>>
  BY StepCases
<1>2. lone' \in {lone, "none"}
  BY <1>1 DEF Stepped, Hits, Misses, FileAnswers, NoFile, RebuildsTop, RebuildsBelow, Loads, Evaluates,
     Hooks, Fails, Counts, Saves, Stores, Ends, Rescues, GivesUp
<1>3. CASE lone' = "none"
  BY <1>3 DEF LoneInv
<1>4. CASE lone # "none" /\ lone' = lone
  <2>1. lone = p /\ stack[p] # <<>>
    BY <1>1, <1>4 DEF LoneInv, Idle
  <2>2. CASE Progress(stack[p], file, cache, source, finished)
    BY <1>1, <2>1, <2>2, LoneAlone, LoneLoading, LoneInside
  <2>3. CASE Counting(stack[p], file)
    <3>1. file' = file /\ \E st : Becomes(p, st) /\ (st = <<>> \/ Counting(st, file))
      BY <1>1, <2>3, CountingStepped
    <3>2. PICK st : Becomes(p, st) /\ (st = <<>> \/ Counting(st, file))
      BY <3>1
    <3>3. st = <<>> \/ Counting(st, file')
      BY <3>1, <3>2
    <3>4. QED BY <1>1, <1>4, <2>1, <3>2, <3>3, Continues
  <2>4. QED BY <1>4, <2>1, <2>2, <2>3 DEF LoneInv
<1>5. QED BY <1>2, <1>3, <1>4

LEMMA LoneStarted ==
  ASSUME TypeOK, NEW p \in Procs, NEW f \in Frames, NEW operation, Begins(p, f, operation)
  PROVE  LoneInv'
<1> SUFFICES ASSUME lone' # "none" PROVE LoneInv'
  BY DEF LoneInv
<1>1. /\ stack' = [stack EXCEPT ![p] = <<f>>] /\ lone' = p /\ \A q \in Procs : Idle(q)
      /\ f.chain /\ f.layer <= Confluence /\ f.at = "evaluate" /\ f.layer <= 0
  BY LayerFacts DEF Begins, Start
<1>2. \A q \in Procs : stack'[q] = IF q = p THEN <<f>> ELSE <<>>
  BY <1>1 DEF TypeOK, Idle
<1>3. f.layer \in {-1, 0}
  BY <1>1, FrameFacts
<1>4. Len(<<f>>) = 1 /\ <<f>>[1] = f /\ ~(Len(<<f>>) > 1)
  OBVIOUS
<1>5. Above(f.layer, file', cache', source', finished')
  BY <1>3, LayerFacts DEF Above
<1>6. Holds(f, file', source', finished')
  BY <1>3 DEF Holds
<1>7. Stage(<<f>>, f, file', source', finished')
  BY <1>1, <1>3, <1>4, <1>6 DEF Stage
<1>8. Progress(<<f>>, file', cache', source', finished')
  BY <1>1, <1>4, <1>5, <1>7 DEF Progress
<1>9. (\A q \in Procs : q # lone' => stack'[q] = <<>>) /\ stack'[lone'] = <<f>>
  BY <1>1, <1>2
<1>10. stack'[lone'] # <<>> => Progress(stack'[lone'], file', cache', source', finished') \/ Counting(stack'[lone'], file')
  BY <1>8, <1>9
<1>11. QED BY <1>9, <1>10 DEF LoneInv, Progress, Above, Stage, Written, Holds, Inside, Counting

\* The source changes only while nothing in it is finished, or the cascade has met somebody.
LEMMA LoneQuiet ==
  ASSUME TypeOK, LoneInv, ClearCaches \/ NewSource \/ UNCHANGED vars
  PROVE  LoneInv'
<1> SUFFICES ASSUME lone' # "none" PROVE LoneInv'
  BY DEF LoneInv
<1>1. /\ UNCHANGED <<file, stack, lone>> /\ (cache' = cache \/ cache' = [l \in Cached |-> None])
      /\ UNCHANGED <<source, finished>> \/ (~finished /\ ~finished')
  BY DEF ClearCaches, NewSource, vars
<1>2. \A q \in Procs : q # lone' => stack'[q] = <<>>
  BY <1>1 DEF LoneInv
<1>3. ASSUME stack[lone] # <<>>
      PROVE  Progress(stack[lone], file, cache', source', finished') \/ Counting(stack[lone], file)
  <2> DEFINE st == stack[lone]
  <2> SUFFICES ASSUME Progress(st, file, cache, source, finished)
               PROVE  Progress(st, file, cache', source', finished')
    BY <1>1, <1>3 DEF LoneInv
  <2>1. st[1].chain /\ Above(st[1].layer, file, cache, source, finished) /\ Stage(st, st[1], file, source, finished)
    BY DEF Progress
  <2> HIDE DEF st
  <2>2. \A k : Written(k, file, source, finished) => Written(k, file, source', finished')
    BY <1>1 DEF Written
  <2>3. \A k \in Layers : k # 4 /\ cache[k] \in {None, file[k]} => cache'[k] \in {None, file[k]}
    BY <1>1, LayerFacts
  <2>4. Above(st[1].layer, file, cache', source', finished')
    BY <2>1, <2>2, <2>3 DEF Above
  <2>5. Holds(st[1], file, source, finished) => Holds(st[1], file, source', finished')
    BY <1>1 DEF Holds
  <2>6. Stage(st, st[1], file, source', finished')
    <3>1. CASE UNCHANGED <<source, finished>>
      BY <2>1, <3>1
    <3>2. CASE ~finished /\ ~finished'
      <4>1. CASE st[1].at = "evaluate"
        <5>1. Holds(st[1], file, source, finished) /\ ~(Len(st) > 1) /\ (st[1].layer = 2 => \A i \in 2 .. Len(st) : Inside(st[i], source))
          BY <2>1, <3>2, <4>1 DEF Stage
        <5>2. st[1].layer = 2 => \A i \in 2 .. Len(st) : Inside(st[i], source')
          <6>1. \A i \in 2 .. Len(st) : FALSE
            BY <5>1
          <6>2. QED BY <6>1
        <5>3. QED BY <2>5, <4>1, <5>1, <5>2 DEF Stage
      <4>2. CASE st[1].at # "evaluate"
        BY <2>1, <2>2, <2>5, <4>2 DEF Stage
      <4>3. QED BY <4>1, <4>2
    <3>3. QED BY <1>1, <3>1, <3>2
  <2>7. QED BY <2>1, <2>4, <2>6 DEF Progress
<1>4. stack'[lone'] # <<>> =>
        Progress(stack'[lone'], file', cache', source', finished') \/ Counting(stack'[lone'], file')
  BY <1>1, <1>3
<1>5. QED BY <1>2, <1>4 DEF LoneInv, Progress, Above, Stage, Written, Holds, Inside, Counting

-----------------------------------------------------------------------------
(* Both together.                                                          *)

\* The last write of a cascade that has met nobody: whatever raced before, the files agree.
LEMMA CountsAgree ==
  ASSUME TypeOK, LoneInv, NEW p \in Procs, ~Idle(p), Counts(p), lone = p, Top(p).depth = 0
  PROVE  OrderInv' /\ EqualInv'
<1> DEFINE b == Top(p)
           f == CountDecisions(b)
<1>1. /\ b.at = "save" /\ b.layer = 4 /\ b.chain /\ Replaced(p, f)
      /\ file' = [file EXCEPT ![b.layer] = b.val] /\ cache' = cache /\ order' = "equal"
  BY DEF Counts
<1>2. b \in Frames /\ b.layer \in Layers
  BY <1>1, RunningStack, LayerFacts
<1>3. Len(stack[p]) = 1 /\ b = stack[p][1]
  <2>1. ~(Len(stack[p]) > 1)
    <3> SUFFICES ASSUME Len(stack[p]) > 1 PROVE FALSE
      OBVIOUS
    <3>1. Caller(p) \in Frames /\ Waits(Caller(p), b)
      BY RunningStack
    <3>2. b.depth = Caller(p).depth + 1 /\ Caller(p).depth \in 0 .. MaxNest
      BY <1>1, <3>1, FrameFacts DEF Waits
    <3>3. QED BY <3>2
  <2>2. Len(stack[p]) \in Nat /\ Len(stack[p]) >= 1 /\ b = stack[p][Len(stack[p])]
    BY RunningStack
  <2>3. QED BY <2>1, <2>2, Lengths
<1>4. p # "none"
  BY ChainAssumption DEF Procs
<1>5. Above(b.layer, file, cache, source, finished) /\ Holds(b, file, source, finished)
  <2>1. Progress(stack[p], file, cache, source, finished) \/ Counting(stack[p], file)
    BY <1>4 DEF LoneInv, Idle
  <2>2. ~Counting(stack[p], file)
    BY <1>1, <1>3 DEF Counting
  <2>3. QED BY <1>1, <1>3, <2>1, <2>2 DEF Progress, Stage
<1>6. Written(4, file', source, finished) /\ Above(4, file', cache', source, finished)
  BY <1>1, <1>2, <1>5, WrittenNow
<1>7. /\ f.layer = 3 /\ f.chain = FALSE /\ f.at = "look" /\ f.depth = 0
  BY LayerFacts DEF CountDecisions, Frame
<1> HIDE DEF b, f
<1>8. /\ \A k \in {1, 2, 3, 4} : Written(k, file', source, finished)
      /\ \A k \in {1, 2, 3} : cache'[k] \in {None, file'[k]}
  BY <1>6, LayerFacts DEF Above
<1>9. /\ file'[2].old = file'[1].old /\ file'[3].old = file'[2].old /\ file'[4].old = file'[3].old
      /\ file'[3].new = file'[2].new /\ file'[4].new = file'[3].new /\ file'[3] # None
  BY <1>8 DEF Written
<1>10. CascadeAgrees'
  BY <1>9, LayerFacts DEF CascadeAgrees
<1>11. Ordered(file', cache')
  <2>1. \A k \in {1, 2, 3, 4} : Rank(file'[k].old) \in Int /\ Rank(file'[k].new) \in Int
    <3>1. \A k \in {1, 2, 3, 4} : file'[k] \in Payloads
      BY <1>1, <1>2, VersionFacts, LayerFacts, FrameFacts DEF TypeOK
    <3>2. \A v \in Payloads : v.old \in Versions /\ v.new \in Versions
      BY DEF Payloads
    <3>3. QED BY <3>1, <3>2, RankFacts
  <2>2. \A m \in Int : m <= m
    OBVIOUS
  <2>3. /\ Rank(file'[2].old) <= Rank(file'[1].old) /\ Rank(file'[3].old) <= Rank(file'[2].old)
        /\ Rank(file'[4].old) <= Rank(file'[3].old)
        /\ Rank(file'[3].new) <= Rank(file'[2].new) /\ Rank(file'[4].new) <= Rank(file'[3].new)
    BY <1>9, <2>1, <2>2
  <2>4. QED BY <1>8, <2>3, LayerFacts DEF Ordered
<1>12. PICK st : Becomes(p, st) /\ Len(st) = 1 /\ st[1] = f
  BY <1>1, <1>3 DEF Replaced
<1>13. \A q \in Procs : stack'[q] = IF q = p THEN st ELSE <<>>
  BY <1>4, <1>12 DEF TypeOK, Becomes, LoneInv
<1>14. Counting(st, file')
  BY <1>7, <1>9, <1>12 DEF Counting
<1>15. FrameOK(f, file', cache')
  BY <1>7 DEF FrameOK
<1>16. ASSUME NEW q \in Procs
       PROVE  Ladder(stack'[q]) /\ \A i \in 1 .. Len(stack'[q]) : FrameOK(stack'[q][i], file', cache')
  <2>1. CASE q = p
    <3>1. \A i \in 1 .. Len(st) : i = 1
      BY <1>12
    <3>2. Ladder(st) /\ \A i \in 1 .. Len(st) : FrameOK(st[i], file', cache')
      BY <1>12, <1>15, <3>1 DEF Ladder
    <3>3. QED BY <1>13, <2>1, <3>2
  <2>2. CASE q # p
    <3>1. stack'[q] = <<>> /\ Len(stack'[q]) = 0
      BY <1>13, <2>2
    <3>2. \A i \in 1 .. Len(stack'[q]) : FALSE
      BY <3>1
    <3>3. QED BY <3>2 DEF Ladder
  <2>3. QED BY <2>1, <2>2
<1>17. \A q, r \in Procs : stack'[q] # <<>> /\ stack'[r] # <<>> => q = r
  BY <1>13
<1>18. OrderInv'
  BY <1>11, <1>16, <1>17 DEF OrderInv, Ordered, Ladder, FrameOK
<1>19. \A q \in Procs : stack'[q] # <<>> => Counting(stack'[q], file')
  BY <1>13, <1>14
<1>20. EqualInv'
  BY <1>10, <1>19 DEF EqualInv, Counting
<1>21. QED BY <1>18, <1>20

LEMMA EqualStepped ==
  ASSUME TypeOK, LoneInv, OrderInv, EqualInv, NEW p \in Procs, Step(p) \/ Fail(p)
  PROVE  OrderInv' /\ EqualInv'
<1>1. ~Idle(p) /\ Stepped(p)
  BY StepCases
<1>2. CASE Counts(p) /\ lone = p /\ Top(p).depth = 0
  BY <1>1, <1>2, CountsAgree
<1>3. CASE ~(Counts(p) /\ lone = p /\ Top(p).depth = 0)
  <2>1. order' = order \/ order' = "raced"
    BY <1>1, <1>3 DEF Stepped, Hits, Misses, FileAnswers, NoFile, RebuildsTop, RebuildsBelow, Loads, Evaluates,
       Hooks, Fails, Counts, Saves, Stores, Ends, Rescues, GivesUp
  <2>2. OrderInv'
    <3>1. CASE order = "raced"
      BY <2>1, <3>1 DEF OrderInv
    <3>2. QED BY <3>1, OrderStepped
  <2>3. EqualInv'
    <3> SUFFICES ASSUME order' = "equal" PROVE EqualInv'
      BY DEF EqualInv
    <3>1. order = "equal" /\ CascadeAgrees /\ \A q \in Procs : stack[q] # <<>> => Counting(stack[q], file)
      BY <2>1 DEF EqualInv
    <3>2. Counting(stack[p], file)
      BY <1>1, <3>1 DEF Idle
    <3>3. UNCHANGED <<file, order>> /\ \E st : Becomes(p, st) /\ (st = <<>> \/ Counting(st, file))
      BY <1>1, <3>2, CountingStepped
    <3>4. PICK st : Becomes(p, st) /\ (st = <<>> \/ Counting(st, file))
      BY <3>3
    <3>5. \A q \in Procs : stack'[q] = IF q = p THEN st ELSE stack[q]
      BY <3>4 DEF TypeOK, Becomes
    <3>6. \A q \in Procs : stack'[q] # <<>> => Counting(stack'[q], file')
      BY <3>1, <3>3, <3>4, <3>5
    <3>7. CascadeAgrees'
      BY <3>1, <3>3 DEF CascadeAgrees
    <3>8. QED BY <3>6, <3>7 DEF EqualInv, Counting
  <2>4. QED BY <2>2, <2>3
<1>4. QED BY <1>2, <1>3

\* The inductive invariant.
ChainInv == TypeOK /\ LoneInv /\ OrderInv /\ EqualInv

LEMMA ChainInit == Init => ChainInv
<1> SUFFICES ASSUME Init PROVE ChainInv
  OBVIOUS
<1>1. TypeOK
  BY TypeInit
<1>2. /\ lone = "none" /\ order = "kept" /\ \A q \in Procs : stack[q] = <<>>
      /\ \A l \in Layers : file[l] = None /\ \A k \in Cached : cache[k] = None
  BY DEF Init
<1>3. Ordered(file, cache)
  <2>1. \A l \in Cached : l \in Layers /\ l + 1 \in Layers
    BY LayerFacts
  <2>2. None.old = -1 /\ None.new = -1 /\ Rank(-1) = 0
    BY DEF None, Of, Rank
  <2>3. QED BY <1>2, <2>1, <2>2, LayerFacts DEF Ordered
<1>4. ASSUME NEW q \in Procs
      PROVE  Ladder(stack[q]) /\ \A i \in 1 .. Len(stack[q]) : FrameOK(stack[q][i], file, cache)
  <2>1. stack[q] = <<>> /\ Len(stack[q]) = 0
    BY <1>2
  <2>2. \A i \in 1 .. Len(stack[q]) : FALSE
    BY <2>1
  <2>3. QED BY <2>2 DEF Ladder
<1>5. OrderInv
  BY <1>2, <1>3, <1>4 DEF OrderInv
<1>6. LoneInv /\ EqualInv
  BY <1>2 DEF LoneInv, EqualInv
<1>7. QED BY <1>1, <1>5, <1>6 DEF ChainInv

LEMMA ChainInductive == ChainInv /\ [Next]_vars => ChainInv'
<1> SUFFICES ASSUME ChainInv, [Next]_vars PROVE ChainInv'
  OBVIOUS
<1>1. TypeOK /\ LoneInv /\ OrderInv /\ EqualInv
  BY DEF ChainInv
<1>2. TypeOK'
  BY <1>1, TypeInductive
<1>3. CASE ClearCaches \/ NewSource \/ UNCHANGED vars
  <2>1. UNCHANGED <<file, stack, order>>
    BY <1>3 DEF ClearCaches, NewSource, vars
  <2>2. EqualInv'
    <3> SUFFICES ASSUME order' = "equal" PROVE EqualInv'
      BY DEF EqualInv
    <3>1. CascadeAgrees /\ \A q \in Procs : stack[q] # <<>> => Counting(stack[q], file)
      BY <1>1, <2>1 DEF EqualInv
    <3>2. CascadeAgrees'
      BY <2>1, <3>1 DEF CascadeAgrees
    <3>3. QED BY <2>1, <3>1, <3>2 DEF EqualInv, Counting
  <2>3. QED BY <1>1, <1>2, <1>3, <2>2, QuietOrdered, LoneQuiet DEF ChainInv
<1>4. CASE Round \/ \E p \in Clients : Read(p) \/ \E o \in DOMAIN Operations : Operate(p, o)
  <2>1. PICK p \in Procs, f \in Frames, operation \in {"none"} \cup DOMAIN Operations : Begins(p, f, operation)
    BY <1>1, <1>4, StartCases
  <2>2. order' # "equal"
    BY <2>1 DEF Begins, Start
  <2>3. EqualInv'
    BY <2>2 DEF EqualInv
  <2>4. OrderInv' /\ LoneInv'
    BY <1>1, <2>1, StartOrdered, LoneStarted
  <2>5. QED BY <1>2, <2>3, <2>4 DEF ChainInv
<1>5. CASE \E p \in Procs : Step(p) \/ Fail(p)
  BY <1>1, <1>2, <1>5, EqualStepped, LoneStepped DEF ChainInv
<1>6. QED BY <1>3, <1>4, <1>5 DEF Next

\* As long as no two calls met and no cascade ran inside a build, no engine's file comes
\* from a later source than the file it was built from, except for what opportunities read
\* themselves, and no cache answers anything but what the file holds, whatever failed,
\* expired or was cleared, and again after the first complete cascade that met nobody
\* (rebuild() and all() of the engines, evaluate_all of the strategy engine).
THEOREM FilesInOrder == Spec => []InOrder
<1>1. ChainInv => InOrder
  BY DEF ChainInv, OrderInv, Ordered, InOrder
<1>2. QED BY <1>1, ChainInit, ChainInductive, PTL DEF Spec

\* A cascade that met nobody and no failure leaves one version of the source in the files of
\* all the engines, what opportunities read themselves aside, which decisions and signals
\* then know too: whatever raced before it, and however many cascades its hooks ran inside
\* its builds (app/main.py, _rebuild_*_safely and _performance_completion_hook).
THEOREM CascadesAgree == Spec => []CascadeAgrees
<1>1. ChainInv => CascadeAgrees
  BY DEF ChainInv, EqualInv, CascadeAgrees
<1>2. QED BY <1>1, ChainInit, ChainInductive, PTL DEF Spec
=============================================================================
