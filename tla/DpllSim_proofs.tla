---------------------------- MODULE DpllSim_proofs ----------------------------
(***************************************************************************)
(* The threads of the program, and the lock stages that its dpll_thread    *)
(* goes through: the program conserves its buffers and its sources outlast *)
(* them, for any number of buffers; a stage is entered for its reasons     *)
(* alone, for every number of stages and all counts with                   *)
(* lock_thresh_count < lock_fail_count.                                    *)
(***************************************************************************)
EXTENDS DpllSim, LockStages, FiniteSetTheorems, TLAPS

\* What a thread's position says of the buffer it holds, and main's of the
\* threads.
Positions ==
    /\ \A w \in Sources : pc[w] \in {"new", "loop", "wait", "send", "exited"}
    /\ pc[DPLL] \in {"new", "loop", "dequeue", "handle", "exited"}
    /\ \A w \in Sources : held[w] # Null <=> pc[w] \in {"wait", "send"}
    /\ held[DPLL] # Null <=> pc[DPLL] = "handle"

Creating ==
    /\ main = "add" => pc[REF] = "new"
    /\ main \in {"add", "create", "nap"} => ~ done
    /\ pc[REF] = "new" => pc[OSC] = "new" /\ q = << >>
    /\ pc[OSC] = "new" => pc[DPLL] = "new"
    /\ \A w \in Sources : pc[w] = "new" => owed[w] = 0
    /\ pc[DPLL] = "exited" => done
    /\ pc[DPLL] = "new" => main \in {"add", "create", "nap", "failed"}

\* How many buffers the threads hold.
Holds(t) == IF held[t] # Null THEN 1 ELSE 0
InUse    == Holds(REF) + Holds(OSC) + Holds(DPLL)

CInv ==
    /\ TypeOK /\ Positions /\ Creating
    /\ main # "add" => free + Len(q) + InUse = NumBuffers

\* A thread that may or may not be one of the holders counts as one or none.
LEMMA CountOne ==
    ASSUME NEW S, IsFiniteSet(S), Cardinality(S) \in Nat, NEW t, t \notin S,
           NEW H, H = IF held[t] # Null THEN {t} ELSE {}
    PROVE  /\ IsFiniteSet(S \cup H) /\ Cardinality(S \cup H) \in Nat
           /\ Cardinality(S \cup H) = Cardinality(S) + Holds(t)
<1>1. CASE held[t] # Null
  BY <1>1, FS_AddElement DEF Holds
<1>2. CASE held[t] = Null
  <2>1. S \cup H = S
    BY <1>2
  <2> QED BY <1>2, <2>1 DEF Holds
<1> QED BY <1>1, <1>2

\* The threads that hold a buffer are counted one by one.
LEMMA HoldersCounted ==
    Cardinality(Holders) = InUse /\ InUse \in Nat
<1> DEFINE H(t) == IF held[t] # Null THEN {t} ELSE {}
<1>1. REF # OSC /\ REF # DPLL /\ OSC # DPLL
  BY WhichAssumption, SimAssumption DEF Which
<1>2. Holders = (({} \cup H(REF)) \cup H(OSC)) \cup H(DPLL)
  BY DEF Holders, Threads, Sources, Which
<1>3. /\ OSC \notin {} \cup H(REF)
      /\ DPLL \notin ({} \cup H(REF)) \cup H(OSC)
  BY <1>1
<1>4. IsFiniteSet({}) /\ Cardinality({}) = 0
  BY FS_EmptySet
<1>5. \A t : Holds(t) \in Nat
  BY DEF Holds
<1> DEFINE A == {} \cup H(REF)
           B == A \cup H(OSC)
           C == B \cup H(DPLL)
<1>6. IsFiniteSet(A) /\ Cardinality(A) \in Nat /\ Cardinality(A) = 0 + Holds(REF)
  BY <1>4, CountOne
<1>7. OSC \notin A /\ DPLL \notin B /\ Holders = C
  BY <1>2, <1>3
<1>8. /\ IsFiniteSet(B) /\ Cardinality(B) \in Nat
      /\ Cardinality(B) = Cardinality(A) + Holds(OSC)
  <2> HIDE DEF A
  <2> QED BY <1>6, <1>7, CountOne
<1>9. Cardinality(C) = Cardinality(B) + Holds(DPLL)
  <2> HIDE DEF B
  <2> QED BY <1>7, <1>8, CountOne
<1> HIDE DEF A, B, C, H
<1> QED BY <1>5, <1>6, <1>7, <1>8, <1>9 DEF InUse

\* Before main adds the buffers nothing is in use.
LEMMA CInvInit == Init => CInv
<1> SUFFICES ASSUME Init PROVE CInv
  OBVIOUS
<1> USE WhichAssumption, SimAssumption DEF Init, Threads, Sources, Which
<1>1. TypeOK
  <2>1. q \in Seq(Which) /\ owed \in [Which -> 0 .. MaxOwed] /\ free \in 0 .. NumBuffers
    OBVIOUS
  <2>2. held \in [Which \cup {DPLL} -> Which \cup {Null}] /\ backlog \in 0 .. MaxBacklog
    OBVIOUS
  <2> QED BY <2>1, <2>2 DEF TypeOK
<1>2. Positions /\ Creating
  BY DEF Positions, Creating
<1> QED BY <1>1, <1>2 DEF CInv

\* Every step keeps the types.
LEMMA TypesKept ==
    ASSUME CInv, [Next]_vars
    PROVE  TypeOK'
<1> USE WhichAssumption, SimAssumption DEF Threads, Sources, Which, CInv, TypeOK, run, Goto, At
<1>1. InUse \in Nat /\ Len(q) \in Nat
  BY HoldersCounted
<1>2. CASE Creation \/ CreateFails \/ KeyPressed \/ JoinAll
  <2>1. CASE AddBuffers
    BY <2>1 DEF AddBuffers
  <2>2. ASSUME NEW t \in Threads, Create(t) PROVE TypeOK'
    BY <2>2 DEF Create
  <2>3. CASE NapEnds
    BY <2>3 DEF NapEnds
  <2> QED BY <1>2, <2>1, <2>2, <2>3 DEF Creation, CreateFails, KeyPressed, JoinAll
<1>3. ASSUME NEW w \in Sources, Source(w) PROVE TypeOK'
  <2>1. CASE SourceQuits(w) \/ AllocFails(w) \/ Alloc(w)
    BY <2>1 DEF SourceQuits, AllocFails, Alloc
  <2>2. CASE TickDue(w)
    BY <2>2 DEF TickDue
  <2>3. CASE Send(w)
    <3>1. held[w] \in Sources
      BY <2>3 DEF Send, Positions
    <3> QED BY <2>3, <3>1 DEF Send
  <2> QED BY <1>3, <2>1, <2>2, <2>3 DEF Source
<1>4. CASE Dpll
  <2>1. CASE DpllQuits \/ CallDequeue \/ TimesOut
    BY <2>1 DEF DpllQuits, CallDequeue, TimesOut
  <2>2. CASE Take
    BY <2>2 DEF Take
  <2>3. CASE Release
    <3>1. main # "add" /\ held[DPLL] # Null
      BY <2>3 DEF Release, Positions, Creating
    <3>2. InUse >= 1
      BY <3>1 DEF InUse, Holds
    <3>3. free + 1 <= NumBuffers
      BY <1>1, <3>1, <3>2
    <3> QED BY <2>3, <3>3 DEF Release
  <2> QED BY <1>4, <2>1, <2>2, <2>3 DEF Dpll
<1>5. CASE Tick
  BY <1>5 DEF Tick, Ticking
<1>6. CASE UNCHANGED vars
  BY <1>6 DEF vars
<1> QED BY <1>2, <1>3, <1>4, <1>5, <1>6 DEF Next, Ended

\* Every step keeps what positions say.
LEMMA PositionsKept ==
    ASSUME CInv, [Next]_vars
    PROVE  Positions' /\ Creating'
<1> USE WhichAssumption, SimAssumption
    DEF Threads, Sources, Which, CInv, TypeOK, run, Goto, At, Alive, Positions, Creating
<1>2. CASE Creation \/ CreateFails \/ KeyPressed \/ JoinAll
  <2>1. CASE AddBuffers
    BY <2>1 DEF AddBuffers
  <2>2. ASSUME NEW t \in Threads, Create(t) PROVE Positions' /\ Creating'
    BY <2>2 DEF Create
  <2>3. CASE NapEnds
    BY <2>3 DEF NapEnds
  <2> QED BY <1>2, <2>1, <2>2, <2>3 DEF Creation, CreateFails, KeyPressed, JoinAll
<1>3. ASSUME NEW w \in Sources, Source(w) PROVE Positions' /\ Creating'
  <2>1. CASE SourceQuits(w) \/ AllocFails(w) \/ Alloc(w)
    BY <2>1 DEF SourceQuits, AllocFails, Alloc
  <2>2. CASE TickDue(w)
    BY <2>2 DEF TickDue
  <2>3. CASE Send(w)
    BY <2>3 DEF Send
  <2> QED BY <1>3, <2>1, <2>2, <2>3 DEF Source
<1>4. CASE Dpll
  <2>1. CASE DpllQuits \/ CallDequeue \/ TimesOut
    BY <2>1 DEF DpllQuits, CallDequeue, TimesOut
  <2>2. CASE Take
    BY <2>2 DEF Take
  <2>3. CASE Release
    BY <2>3 DEF Release
  <2> QED BY <1>4, <2>1, <2>2, <2>3 DEF Dpll
<1>5. CASE Tick
  BY <1>5 DEF Tick, Ticking
<1>6. CASE UNCHANGED vars
  BY <1>6 DEF vars
<1> QED BY <1>2, <1>3, <1>4, <1>5, <1>6 DEF Next, Ended

\* Every step moves a buffer from one place to another, or none.
LEMMA CInvNext ==
    ASSUME CInv, [Next]_vars
    PROVE  CInv'
<1>1. TypeOK' /\ Positions' /\ Creating'
  BY TypesKept, PositionsKept
<1> SUFFICES ASSUME main' # "add" PROVE free' + Len(q') + InUse' = NumBuffers
  BY <1>1 DEF CInv
<1>0. /\ REF # OSC /\ DPLL # REF /\ DPLL # OSC /\ Sources = {REF, OSC}
      /\ Threads = {REF, OSC, DPLL} /\ Null \notin Sources
      /\ held \in [Threads -> Sources \cup {Null}] /\ held' \in [Threads -> Sources \cup {Null}]
      /\ q \in Seq(Sources) /\ Len(q) \in Nat /\ free \in Nat /\ NumBuffers \in Nat
  BY <1>1, WhichAssumption, SimAssumption DEF CInv, TypeOK, Which, Threads, Sources
<1> DEFINE conserved == main # "add" => free + Len(q) + InUse = NumBuffers
<1>2. conserved
  BY DEF CInv
<1>3. \A t \in Threads : Holds(t) \in Nat /\ Holds(t)' \in Nat
  BY DEF Holds
<1>4. ASSUME NEW w \in Threads, \A t \in Threads \ {w} : held'[t] = held[t]
      PROVE  InUse' = InUse + Holds(w)' - Holds(w)
  <2>1. \A t \in Threads \ {w} : Holds(t)' = Holds(t)
    BY <1>4 DEF Holds
  <2>2. /\ InUse = Holds(REF) + Holds(OSC) + Holds(DPLL)
        /\ InUse' = Holds(REF)' + Holds(OSC)' + Holds(DPLL)'
    BY DEF InUse
  <2>3. w = REF \/ w = OSC \/ w = DPLL
    BY <1>0
  <2>4. /\ Holds(REF) \in Nat /\ Holds(OSC) \in Nat /\ Holds(DPLL) \in Nat
        /\ Holds(REF)' \in Nat /\ Holds(OSC)' \in Nat /\ Holds(DPLL)' \in Nat
    BY <1>0, <1>3
  <2>5. CASE w = REF
    BY <1>0, <2>1, <2>2, <2>4, <2>5
  <2>6. CASE w = OSC
    BY <1>0, <2>1, <2>2, <2>4, <2>6
  <2>7. CASE w = DPLL
    BY <1>0, <2>1, <2>2, <2>4, <2>7
  <2> QED BY <2>3, <2>5, <2>6, <2>7
<1>5. CASE main = "add"
  <2>1. AddBuffers \/ NapEnds \/ CreateFails \/ KeyPressed \/ JoinAll \/ (\E t \in Threads : Create(t))
        \/ (\E w \in Sources : Source(w)) \/ Dpll \/ Tick \/ Ended \/ UNCHANGED vars
    BY DEF Next, Creation
  <2>2. \A t \in Threads : pc[t] = "new"
    BY <1>0, <1>5 DEF CInv, Creating
  <2>3. AddBuffers
    BY <1>0, <1>5, <2>1, <2>2
       DEF NapEnds, CreateFails, KeyPressed, JoinAll, Create, Source, SourceQuits, AllocFails, Alloc,
           TickDue, Send, Dpll, DpllQuits, CallDequeue, Take, TimesOut, Release, Tick, Ended,
           Ticking, At, vars
  <2>4. InUse = 0 /\ q = << >>
    BY <1>0, <2>2 DEF CInv, Creating, Positions, InUse, Holds
  <2>5. InUse' = InUse /\ q' = q /\ free' = NumBuffers
    BY <2>3 DEF AddBuffers, InUse, Holds
  <2> QED BY <1>0, <2>4, <2>5
<1>6. ASSUME main # "add", UNCHANGED <<free, q, held>>
      PROVE  free' + Len(q') + InUse' = NumBuffers
  BY <1>2, <1>6 DEF InUse, Holds
<1>7. ASSUME main # "add", NEW w \in Sources, Alloc(w)
      PROVE  free' + Len(q') + InUse' = NumBuffers
  <2>1. free' = free - 1 /\ q' = q /\ held' = [held EXCEPT ![w] = w] /\ pc[w] = "loop"
    BY <1>7 DEF Alloc, At
  <2>2. Holds(w) = 0 /\ Holds(w)' = 1 /\ w \in Threads
    BY <1>0, <2>1 DEF Holds, CInv, Positions
  <2>3. InUse' = InUse + 1
    BY <1>0, <1>4, <2>1, <2>2, HoldersCounted
  <2> QED BY <1>0, <1>2, <1>7, <2>1, <2>3, HoldersCounted
<1>8. ASSUME main # "add", NEW w \in Sources, Send(w)
      PROVE  free' + Len(q') + InUse' = NumBuffers
  <2>1. free' = free /\ q' = Append(q, held[w]) /\ held' = [held EXCEPT ![w] = Null]
        /\ pc[w] = "send"
    BY <1>8 DEF Send, At
  <2>2. Holds(w) = 1 /\ Holds(w)' = 0 /\ w \in Threads
    BY <1>0, <2>1 DEF Holds, CInv, Positions
  <2>3. InUse' = InUse - 1
    BY <1>0, <1>4, <2>1, <2>2, HoldersCounted
  <2>4. Len(q') = Len(q) + 1
    BY <1>0, <2>1
  <2> QED BY <1>0, <1>2, <1>8, <2>1, <2>3, <2>4, HoldersCounted
<1>9. ASSUME main # "add", Take
      PROVE  free' + Len(q') + InUse' = NumBuffers
  <2>1. free' = free /\ q' = Tail(q) /\ held' = [held EXCEPT ![DPLL] = Head(q)]
        /\ pc[DPLL] = "dequeue" /\ q # << >>
    BY <1>9 DEF Take, At
  <2>2. Head(q) \in Sources /\ Len(q') = Len(q) - 1
    BY <1>0, <2>1
  <2>3. Holds(DPLL) = 0 /\ Holds(DPLL)' = 1
    BY <1>0, <2>1, <2>2 DEF Holds, CInv, Positions
  <2>4. InUse' = InUse + 1
    BY <1>0, <1>4, <2>1, <2>3, HoldersCounted
  <2> QED BY <1>0, <1>2, <1>9, <2>1, <2>2, <2>4, HoldersCounted
<1>10. ASSUME main # "add", Release
       PROVE  free' + Len(q') + InUse' = NumBuffers
  <2>1. free' = free + 1 /\ q' = q /\ held' = [held EXCEPT ![DPLL] = Null] /\ pc[DPLL] = "handle"
    BY <1>10 DEF Release, At
  <2>2. Holds(DPLL) = 1 /\ Holds(DPLL)' = 0
    BY <1>0, <2>1 DEF Holds, CInv, Positions
  <2>3. InUse' = InUse - 1
    BY <1>0, <1>4, <2>1, <2>2, HoldersCounted
  <2> QED BY <1>0, <1>2, <1>10, <2>1, <2>3, HoldersCounted
<1>11. CASE main # "add"
  <2>1. \/ UNCHANGED <<free, q, held>>
        \/ \E w \in Sources : Alloc(w) \/ Send(w)
        \/ Take \/ Release
    BY <1>11 DEF Next, Creation, AddBuffers, Create, NapEnds, CreateFails, KeyPressed, JoinAll, Source,
           SourceQuits, AllocFails, TickDue, Dpll, DpllQuits, CallDequeue, TimesOut, Tick,
           Ended, vars
  <2> QED BY <1>6, <1>7, <1>8, <1>9, <1>10, <1>11, <2>1
<1> QED BY <1>5, <1>11

\* The values the program's variables take.
THEOREM SimTypes == Spec => []TypeOK
<1>1. CInv => TypeOK
  BY DEF CInv
<1> QED BY <1>1, CInvInit, CInvNext, PTL DEF Spec, SafeSpec

\* From p.add on every one of the HZ buffers is free, queued or held by one
\* thread, whatever the threads do and however they are stopped
\* (dpll_sim.cc:115, 141, 229, 426, 453).
THEOREM SimBuffersConserved == Spec => []BuffersConserved
<1>1. CInv => BuffersConserved
  BY HoldersCounted DEF CInv, BuffersConserved
<1> QED BY <1>1, CInvInit, CInvNext, PTL DEF Spec, SafeSpec
-----------------------------------------------------------------------------
(* The buffers last                                                        *)

\* The messages that may still be handled before the clock moves on: those on
\* their way, and those the sources can send without waiting.
Sendable(w) == owed[w] + (IF pc[w] = "send" THEN 1 ELSE 0)
Pending     == Len(q) + Holds(DPLL) + Sendable(REF) + Sendable(OSC)

\* With threads scheduled at once there are at most as many as in the backlog,
\* and one more if a tick falls into main's naps; later one of each source.  So a
\* source that allocates finds a buffer.
Roof == IF backlog + 1 > 2 THEN backlog + 1 ELSE 2

Bounded ==
    prompt /\ backlog + 3 <= NumBuffers /\ ~ done =>
      /\ Pending <= Roof
      /\ main \in {"add", "create", "nap"} /\ ~ early => Pending <= backlog
      /\ \A w \in Sources : pc[w] # "exited"

\* The numbers that Pending is made of.
LEMMA PendingNumbers ==
    ASSUME CInv
    PROVE  /\ REF # OSC /\ DPLL # REF /\ DPLL # OSC /\ Sources = {REF, OSC}
           /\ Threads = {REF, OSC, DPLL} /\ Null \notin Sources
           /\ Len(q) \in Nat /\ q \in Seq(Sources) /\ backlog \in Nat
           /\ \A t \in Threads : Holds(t) \in {0, 1}
           /\ \A w \in Sources : owed[w] \in Nat /\ Sendable(w) \in Nat
           /\ NumBuffers \in Nat /\ NumBuffers >= 4
           /\ Pending \in Nat
<1>1. /\ REF # OSC /\ DPLL # REF /\ DPLL # OSC /\ Sources = {REF, OSC}
      /\ Threads = {REF, OSC, DPLL} /\ Null \notin Sources
      /\ Len(q) \in Nat /\ q \in Seq(Sources) /\ backlog \in Nat
      /\ \A t \in Threads : Holds(t) \in {0, 1}
      /\ \A w \in Sources : owed[w] \in Nat /\ Sendable(w) \in Nat
      /\ NumBuffers \in Nat /\ NumBuffers >= 4
  BY WhichAssumption, SimAssumption
     DEF CInv, TypeOK, Which, Threads, Sources, Holds, Sendable
<1>2. Holds(DPLL) \in Nat /\ Sendable(REF) \in Nat /\ Sendable(OSC) \in Nat
  BY <1>1
<1> QED BY <1>1, <1>2 DEF Pending

\* While few messages are pending no source finds the pool empty.
LEMMA PoolNotEmpty ==
    ASSUME CInv, Bounded, prompt, backlog + 3 <= NumBuffers, ~ done,
           NEW w \in Sources, pc[w] = "loop"
    PROVE  free # 0
<1> USE PendingNumbers
<1>1. Pending <= Roof /\ Roof + 1 < NumBuffers /\ Roof \in Nat
  BY DEF Bounded, Roof
<1>2. main # "add"
  BY DEF CInv, Creating
<1>3. free + Len(q) + InUse = NumBuffers
  BY <1>2 DEF CInv
<1>4. Holds(w) = 0
  BY DEF CInv, Positions, Holds
<1>5. Len(q) + Holds(DPLL) <= Pending
  BY SMTT(20) DEF Pending
<1>6. InUse <= Holds(DPLL) + 1
  BY <1>4 DEF InUse
<1>7. InUse \in Nat /\ Pending \in Nat /\ free \in Nat
  BY HoldersCounted DEF CInv, TypeOK
<1> QED BY <1>1, <1>3, <1>5, <1>6, <1>7, SMTT(20)

\* What is pending is within the bounds, and the sources are there.
Within ==
    /\ Pending <= Roof
    /\ main \in {"add", "create", "nap"} /\ ~ early => Pending <= backlog
    /\ \A w \in Sources : pc[w] # "exited"

\* Every step but the clock's keeps what is pending or makes it less; the clock
\* adds one message of each source when there are none, or one of the reference
\* while main creates the threads.
LEMMA BoundedNext ==
    ASSUME CInv, CInv', Bounded, [Next]_vars
    PROVE  Bounded'
<1> SUFFICES ASSUME prompt', backlog' + 3 <= NumBuffers, ~ done' PROVE Within'
  BY DEF Bounded, Within
<1>0. /\ REF # OSC /\ DPLL # REF /\ DPLL # OSC /\ Sources = {REF, OSC}
      /\ Threads = {REF, OSC, DPLL} /\ Null \notin Sources
      /\ Len(q) \in Nat /\ q \in Seq(Sources) /\ backlog \in Nat
      /\ Holds(DPLL) \in {0, 1}
      /\ owed[REF] \in Nat /\ owed[OSC] \in Nat
      /\ Sendable(REF) \in Nat /\ Sendable(OSC) \in Nat /\ backlog' \in Nat
      /\ pc \in [Threads -> {"new", "loop", "wait", "send", "dequeue", "handle", "exited"}]
      /\ owed \in [Sources -> Nat] /\ DOMAIN held = Threads
  BY PendingNumbers, SimAssumption DEF CInv, TypeOK
<1>1. CASE \E t \in Threads : Create(t)
  <2>1. CASE Create(REF)
    <3>1. /\ pc[REF] = "new" /\ pc' = [pc EXCEPT ![REF] = "loop"]
          /\ owed' = [owed EXCEPT ![REF] = backlog'] /\ q' = q /\ held' = held
      BY <2>1 DEF Create, Goto
    <3>2. /\ pc[OSC] = "new" /\ pc[DPLL] = "new" /\ q = << >> /\ owed[OSC] = 0
          /\ held[DPLL] = Null
      BY <1>0, <3>1 DEF CInv, Creating, Positions
    <3>3. Pending' = 0 + 0 + backlog' + 0
      BY <1>0, <3>1, <3>2 DEF Pending, Sendable, Holds
    <3>4. Pending' <= Roof' /\ Pending' <= backlog'
      <4>1. PICK n \in Nat : n = backlog'
        BY <1>0
      <4>2. 0 + 0 + n + 0 = n /\ n <= n /\ n <= IF n + 1 > 2 THEN n + 1 ELSE 2
        OBVIOUS
      <4>3. Pending' = 0 + 0 + n + 0 /\ Roof' = IF n + 1 > 2 THEN n + 1 ELSE 2
        BY <3>3, <4>1, Zenon DEF Roof
      <4> QED BY <4>1, <4>2, <4>3, Zenon
    <3>5. \A w \in Sources : pc'[w] # "exited"
      BY <1>0, <3>1, <3>2
    <3> QED BY <3>4, <3>5 DEF Within
  <2>2. ASSUME NEW t \in {OSC, DPLL}, Create(t) PROVE Within'
    <3>1. /\ pc[t] = "new" /\ pc' = [pc EXCEPT ![t] = "loop"] /\ main = "create"
          /\ UNCHANGED <<owed, q, held, backlog, prompt, early, done>>
      BY <1>0, <2>2 DEF Create, Goto
    <3>2. Pending' = Pending
      BY <1>0, <3>1 DEF Pending, Sendable, Holds
    <3>3. prompt /\ backlog + 3 <= NumBuffers /\ ~ done /\ Roof' = Roof
      BY <3>1 DEF Roof
    <3>4. Within
      BY <3>3 DEF Bounded, Within
    <3>5. \A w \in Sources : pc'[w] # "exited"
      BY <1>0, <3>1, <3>4 DEF Within
    <3> QED BY <3>1, <3>2, <3>3, <3>4, <3>5 DEF Within
  <2> QED BY <1>0, <1>1, <2>1, <2>2
<1>n. \/ \E t \in Threads : Create(t)
      \/ UNCHANGED run
      \/ Tick
  BY DEF Next, Creation, AddBuffers, NapEnds, CreateFails, KeyPressed, JoinAll, Source,
         SourceQuits, AllocFails, Alloc, TickDue, Send, Dpll, DpllQuits, CallDequeue, Take,
         TimesOut, Release, Ended, run, vars
<1> SUFFICES ASSUME ~ \E t \in Threads : Create(t), UNCHANGED run \/ Tick
             PROVE  Within'
  BY <1>1, <1>n
<1>s. UNCHANGED <<prompt, backlog>>
  BY DEF run, Tick
<1>2. /\ prompt /\ backlog + 3 <= NumBuffers /\ Roof' = Roof
      /\ Roof \in Nat /\ Roof >= 2 /\ Roof >= backlog + 1
  BY <1>0, <1>s DEF Roof
<1>3. ~ done
  BY DEF Next, Creation, AddBuffers, Create, NapEnds, CreateFails, KeyPressed, JoinAll, Source,
         SourceQuits, AllocFails, Alloc, TickDue, Send, Dpll, DpllQuits, CallDequeue, Take,
         TimesOut, Release, Tick, Ended, vars
<1>4. Within /\ \A w \in Sources : pc[w] # "exited"
  BY <1>2, <1>3 DEF Bounded, Within
<1>5. ASSUME UNCHANGED <<pc, q, held, owed>>
      PROVE  Pending' = Pending /\ pc' = pc
  BY <1>5 DEF Pending, Sendable, Holds
<1>6. ASSUME NEW w \in Sources, Source(w)
      PROVE  Pending' <= Pending /\ \A v \in Sources : pc'[v] # "exited"
  <2>1. ~ SourceQuits(w) /\ ~ AllocFails(w)
    BY <1>2, <1>3, PoolNotEmpty DEF SourceQuits, AllocFails, At
  <2>2. CASE Alloc(w)
    <3>1. /\ pc[w] = "loop" /\ pc' = [pc EXCEPT ![w] = "wait"]
          /\ held' = [held EXCEPT ![w] = w] /\ q' = q /\ owed' = owed
      BY <2>2 DEF Alloc, At, Goto
    <3>2. Pending' = Pending
      BY <1>0, <3>1 DEF Pending, Sendable, Holds
    <3> QED BY <1>0, <1>4, <3>1, <3>2 DEF Pending
  <2>3. CASE TickDue(w)
    <3>1. /\ pc[w] = "wait" /\ pc' = [pc EXCEPT ![w] = "send"]
          /\ owed' = [owed EXCEPT ![w] = @ - 1] /\ q' = q /\ held' = held
      BY <2>3 DEF TickDue, At, Goto
    <3>2. Pending' = Pending
      BY <1>0, <3>1 DEF Pending, Sendable, Holds
    <3> QED BY <1>0, <1>4, <3>1, <3>2 DEF Pending
  <2>4. CASE Send(w)
    <3>1. /\ pc[w] = "send" /\ pc' = [pc EXCEPT ![w] = "loop"]
          /\ q' = Append(q, held[w]) /\ held' = [held EXCEPT ![w] = Null] /\ owed' = owed
      BY <2>4 DEF Send, At, Goto
    <3>2. Len(q') = Len(q) + 1
      BY <1>0, <3>1
    <3>3. Holds(DPLL)' = Holds(DPLL)
      BY <1>0, <3>1 DEF Holds
    <3>4. w = REF => Pending' = Pending
      <4> SUFFICES ASSUME w = REF PROVE Pending' = Pending
        OBVIOUS
      <4>1. /\ pc[REF] = "send" /\ pc'[REF] = "loop" /\ pc'[OSC] = pc[OSC]
            /\ owed'[REF] = owed[REF] /\ owed'[OSC] = owed[OSC]
        BY <1>0, <3>1
      <4>2. Sendable(REF)' = Sendable(REF) - 1 /\ Sendable(OSC)' = Sendable(OSC)
        BY <1>0, <4>1 DEF Sendable
      <4>3. Pending' = (Len(q) + 1) + Holds(DPLL) + (Sendable(REF) - 1) + Sendable(OSC)
        BY <3>2, <3>3, <4>2, Zenon DEF Pending
      <4> QED BY <1>0, <4>3, SMTT(20) DEF Pending
    <3>5. w = OSC => Pending' = Pending
      <4> SUFFICES ASSUME w = OSC PROVE Pending' = Pending
        OBVIOUS
      <4>1. /\ pc[OSC] = "send" /\ pc'[OSC] = "loop" /\ pc'[REF] = pc[REF]
            /\ owed'[REF] = owed[REF] /\ owed'[OSC] = owed[OSC]
        BY <1>0, <3>1
      <4>2. Sendable(OSC)' = Sendable(OSC) - 1 /\ Sendable(REF)' = Sendable(REF)
        BY <1>0, <4>1 DEF Sendable
      <4>3. Pending' = (Len(q) + 1) + Holds(DPLL) + Sendable(REF) + (Sendable(OSC) - 1)
        BY <3>2, <3>3, <4>2, Zenon DEF Pending
      <4> QED BY <1>0, <4>3, SMTT(20) DEF Pending
    <3>6. \A v \in Sources : pc'[v] # "exited"
      BY <1>0, <1>4, <3>1
    <3>7. Pending \in Int
      BY <1>0 DEF Pending
    <3> QED BY <1>0, <3>4, <3>5, <3>6, <3>7
  <2> QED BY <1>6, <2>1, <2>2, <2>3, <2>4 DEF Source
<1>7. ASSUME Dpll
      PROVE  Pending' <= Pending /\ \A v \in Sources : pc'[v] # "exited"
  <2>1. CASE DpllQuits \/ CallDequeue \/ TimesOut
    <3>1. UNCHANGED <<q, held, owed>> /\ \E l \in {"exited", "dequeue", "loop"} : Goto(DPLL, l)
      BY <2>1 DEF DpllQuits, CallDequeue, TimesOut
    <3> QED BY <1>0, <1>4, <3>1 DEF Goto, Pending, Sendable, Holds
  <2>2. CASE Take
    <3>1. /\ pc' = [pc EXCEPT ![DPLL] = "handle"] /\ q # << >> /\ q' = Tail(q)
          /\ held' = [held EXCEPT ![DPLL] = Head(q)] /\ owed' = owed /\ pc[DPLL] = "dequeue"
      BY <2>2 DEF Take, At, Goto
    <3>2. Len(q') = Len(q) - 1 /\ Head(q) \in Sources
      BY <1>0, <3>1
    <3>3. held[DPLL] = Null
      BY <3>1 DEF CInv, Positions
    <3>4. Pending' = Pending
      BY <1>0, <3>1, <3>2, <3>3 DEF Pending, Sendable, Holds
    <3> QED BY <1>0, <1>4, <3>1, <3>4 DEF Pending
  <2>3. CASE Release
    <3>1. /\ pc' = [pc EXCEPT ![DPLL] = "loop"] /\ q' = q
          /\ held' = [held EXCEPT ![DPLL] = Null] /\ owed' = owed /\ pc[DPLL] = "handle"
      BY <2>3 DEF Release, At, Goto
    <3>2. Pending' <= Pending
      BY <1>0, <3>1 DEF Pending, Sendable, Holds
    <3> QED BY <1>0, <1>4, <3>1, <3>2
  <2> QED BY <1>7, <2>1, <2>2, <2>3 DEF Dpll
<1>p. Pending \in Nat /\ Pending' \in Nat
  <2>1. Pending \in Nat
    BY PendingNumbers
  <2>2. /\ Len(q') \in Nat /\ Holds(DPLL)' \in Nat
        /\ \A w \in Sources : owed'[w] \in Nat
    BY SimAssumption DEF CInv, TypeOK, Holds
  <2>3. \A w \in Sources : Sendable(w)' \in Nat
    BY <2>2 DEF Sendable
  <2>4. Pending' \in Nat
    BY <1>0, <2>2, <2>3, SMTT(20) DEF Pending
  <2> QED BY <2>1, <2>4
<1>8. CASE Tick
  <2>1. /\ Idle /\ UNCHANGED <<q, pc, held, main>>
        /\ owed' = [w \in Sources |-> IF Ticking(w) THEN owed[w] + 1 ELSE owed[w]]
        /\ early' = (early \/ (prompt /\ main = "nap"))
    BY <1>2, <1>8 DEF Tick
  <2>2. \A w \in Sources : pc[w] = "new" \/ (pc[w] = "wait" /\ owed[w] = 0)
    BY <1>4, <2>1 DEF Idle
  <2>3. CASE main = "nap"
    <3>1. ~ early /\ early'
      BY <1>2, <1>8, <2>1, <2>3 DEF Tick, Ticking
    <3>2. owed'[OSC] = owed[OSC] /\ owed'[REF] \in Nat /\ owed'[REF] <= owed[REF] + 1
      BY <1>0, <1>2, <2>1, <2>3 DEF Ticking
    <3>3. /\ Sendable(OSC)' = Sendable(OSC)
          /\ Sendable(REF)' \in Nat /\ Sendable(REF)' <= Sendable(REF) + 1
      BY <1>0, <2>1, <3>2 DEF Sendable
    <3>4. Len(q') = Len(q) /\ Holds(DPLL)' = Holds(DPLL) /\ Holds(DPLL) \in Nat
      BY <1>0, <2>1 DEF Holds
    <3>5. Pending' <= Pending + 1 /\ Pending' \in Nat /\ Pending \in Nat
      <4>1. Pending' = Len(q) + Holds(DPLL) + Sendable(REF)' + Sendable(OSC)
        BY <3>3, <3>4, Zenon DEF Pending
      <4> QED BY <1>0, <3>3, <3>4, <4>1, SMTT(20) DEF Pending
    <3>6. Pending <= backlog
      BY <1>4, <2>3, <3>1 DEF Within
    <3> QED BY <1>0, <1>2, <1>4, <2>1, <3>1, <3>5, <3>6 DEF Within
  <2>4. CASE main # "nap"
    <3>1. /\ pc[DPLL] = "dequeue" /\ q = << >>
          /\ \A w \in Sources : pc[w] = "wait" /\ owed[w] = 0
      <4>1. pc[DPLL] \notin {"new", "exited"}
        BY <1>3, <1>8, <2>1, <2>4 DEF Idle, CInv, Creating, Tick, Alive
      <4>2. \A w \in Sources : pc[w] # "new"
        BY <1>0, <4>1 DEF CInv, Creating
      <4> QED BY <2>1, <2>2, <4>1, <4>2 DEF Idle
    <3>2. held[DPLL] = Null
      BY <3>1 DEF CInv, Positions
    <3>3. owed'[REF] <= 1 /\ owed'[OSC] <= 1 /\ owed'[REF] \in Nat /\ owed'[OSC] \in Nat
      BY <1>0, <2>1, <3>1
    <3>4. Pending' <= 2 /\ Pending' \in Nat
      BY <1>0, <2>1, <3>1, <3>2, <3>3 DEF Pending, Sendable, Holds
    <3>5. main' \notin {"add", "create", "nap"}
      BY <2>1, <2>4 DEF Idle
    <3> QED BY <1>2, <1>4, <2>1, <3>4, <3>5 DEF Within
  <2> QED BY <2>3, <2>4
<1>9. CASE ~ Tick
  <2>1. \/ UNCHANGED <<pc, q, held, owed>>
        \/ \E w \in Sources : Source(w)
        \/ Dpll
    BY <1>9 DEF Next, Creation, AddBuffers, NapEnds, CreateFails, KeyPressed, JoinAll, Ended, vars
  <2>2. Pending' <= Pending /\ \A w \in Sources : pc'[w] # "exited"
    BY <1>4, <1>5, <1>6, <1>7, <1>p, <2>1
  <2>3. /\ main' \in {"add", "create", "nap"} => main \in {"add", "create", "nap"}
        /\ early' = early /\ backlog' = backlog
    BY <1>9 DEF Next, Creation, AddBuffers, NapEnds, CreateFails, KeyPressed, JoinAll, Source,
           SourceQuits, AllocFails, Alloc, TickDue, Send, Dpll, DpllQuits, CallDequeue, Take,
           TimesOut, Release, Ended, run, vars
  <2> QED BY <1>0, <1>2, <1>4, <1>p, <2>2, <2>3 DEF Within
<1> QED BY <1>8, <1>9

\* A source never ends before the user ends the program, when the threads are
\* scheduled at once and the pool has three buffers more than the backlog
\* (dpll_sim.cc:116-119, 165-168: "shouldn't happen").
THEOREM SimSourcesOutlast == Spec => []SourcesOutlast
<1>1. Init => Bounded
  BY WhichAssumption, SimAssumption
     DEF Init, Bounded, Pending, Sendable, Holds, Roof, Sources, Threads, Which
<1>2. Bounded => SourcesOutlast
  BY DEF Bounded, SourcesOutlast, SourceEnded
<1>3. CInv /\ CInv' /\ Bounded /\ [Next]_vars => Bounded'
  BY BoundedNext
<1> QED BY <1>1, <1>2, <1>3, CInvInit, CInvNext, PTL DEF Spec, SafeSpec
-----------------------------------------------------------------------------
\* The lock stages.

\* A step that accepts a reading, with its two alternatives for a good one.
AcceptStep(good) ==
    /\ negative' \in BOOLEAN
    /\ got' = IF got < HistorySize THEN got + 1 ELSE got
    /\ IF good THEN Good(negative' # negative) ELSE Bad
    /\ Observe(good, negative' # negative)

\* What the parameters of one stage are allowed to be.
LEMMA Thresholds ==
    ASSUME NEW i \in Stages
    PROVE  /\ lock_thresh_count[i] \in Nat /\ lock_thresh_count[i] > 0
           /\ lock_fail_count[i] \in Nat
           /\ unlock_thresh_count[i] \in Nat /\ unlock_thresh_count[i] > 0
           /\ lock_thresh_count[i] < lock_fail_count[i]
           /\ lock_fail_count[i] <= MaxCount /\ unlock_thresh_count[i] <= MaxCount
BY StagesAssumption

\* What a good and a bad reading do to the three variables of the code, free of
\* the ghosts.
LEMMA GoodCases ==
    ASSUME StagesTypeOK, NEW crossed \in BOOLEAN, Good(crossed)
    PROVE  /\ unlock_count' = 0
           /\ \/ /\ crossed /\ lock_count >= lock_thresh_count[stage]
                 /\ stage' = stage + 1 /\ stage < Last /\ lock_count' = 0
              \/ /\ crossed /\ lock_count >= lock_thresh_count[stage]
                 /\ stage' = stage /\ stage = Last /\ lock_count' = 0
              \/ /\ ~ crossed \/ lock_count < lock_thresh_count[stage]
                 /\ stage > 0 /\ stage < Last
                 /\ lock_count + 1 >= lock_fail_count[stage]
                 /\ stage' = stage - 1 /\ lock_count' = 0
              \/ /\ ~ crossed \/ lock_count < lock_thresh_count[stage]
                 /\ stage' = stage /\ stage < Last
                 /\ stage > 0 => lock_count + 1 < lock_fail_count[stage]
                 /\ lock_count' = Count(lock_count)
              \/ stage' = stage /\ stage = Last /\ lock_count' = lock_count
<1>1. /\ stage \in Int /\ stage >= 0 /\ stage <= Last /\ Last \in Int
      /\ lock_count \in Nat
  BY StagesAssumption DEF StagesTypeOK, Stages, Last
<1>2. /\ lock_thresh_count[stage] \in Nat /\ lock_fail_count[stage] \in Nat
  BY Thresholds DEF StagesTypeOK
<1>3. CASE Advance(crossed)
  BY <1>1, <1>2, <1>3 DEF Good, Advance
<1>4. CASE Hold(crossed)
  BY <1>1, <1>2, <1>4 DEF Good, Hold
<1> QED BY <1>3, <1>4 DEF Good

\* What a reading outside the threshold does to the counters and the stage.
LEMMA BadCases ==
    ASSUME StagesTypeOK, Bad
    PROVE  /\ lock_count' = 0
           /\ \/ /\ stage > 0 /\ unlock_count + 1 >= unlock_thresh_count[stage]
                 /\ stage' = stage - 1 /\ unlock_count' = 0
              \/ /\ stage' = stage /\ unlock_count' = Count(unlock_count)
                 /\ stage > 0 => unlock_count + 1 < unlock_thresh_count[stage]
<1>1. stage \in Int /\ stage >= 0 /\ unlock_count \in Nat
  BY StagesAssumption DEF StagesTypeOK, Stages
<1>2. unlock_thresh_count[stage] \in Nat
  BY Thresholds DEF StagesTypeOK
<1> QED BY <1>1, <1>2 DEF Bad
-----------------------------------------------------------------------------
\* The first reading finds stage 0 and an empty history.
LEMMA TypesInit == StagesInit => StagesTypeOK
<1> SUFFICES ASSUME StagesInit PROVE StagesTypeOK
  OBVIOUS
<1>1. 0 \in Stages /\ 0 \in 0 .. HistorySize
  BY StagesAssumption DEF Stages
<1>2. stage = 0 /\ lock_count = 0 /\ unlock_count = 0 /\ got = 0
  BY DEF StagesInit
<1>3. goodRun = 0 /\ badRun = 0 /\ quiet = 0
  BY DEF StagesInit
<1>4. negative \in BOOLEAN /\ lastGood \in BOOLEAN
  BY DEF StagesInit
<1> QED BY <1>1, <1>2, <1>3, <1>4 DEF StagesTypeOK

\* The ghosts count in the naturals.
LEMMA CountType == \A n \in Nat : Count(n) \in Nat
BY StagesAssumption DEF Count

\* No reading takes the stage out of the table or the counters below 0.
LEMMA TypesNext == StagesTypeOK /\ [StagesNext]_stagesVars => StagesTypeOK'
<1> SUFFICES ASSUME StagesTypeOK, [StagesNext]_stagesVars PROVE StagesTypeOK'
  OBVIOUS
<1>1. CASE UNCHANGED stagesVars
  BY <1>1 DEF stagesVars, ghosts, StagesTypeOK
<1>2. CASE Outlier
  BY <1>2 DEF Outlier, stagesVars, ghosts, StagesTypeOK
<1>3. ASSUME NEW good \in BOOLEAN, AcceptStep(good) PROVE StagesTypeOK'
  <2>1. Last \in Int /\ \A i : i \in Stages <=> i \in Int /\ 0 <= i /\ i <= Last
    BY StagesAssumption DEF Stages, Last
  <2>2. stage' \in Stages /\ lock_count' \in Nat /\ unlock_count' \in Nat
    <3>1. CASE good
      <4>1. PICK crossed \in BOOLEAN : Good(crossed)
        BY <1>3, <3>1 DEF AcceptStep
      <4>2. stage \in Stages /\ lock_count \in Nat /\ unlock_count \in Nat
        BY DEF StagesTypeOK
      <4> QED BY <2>1, <4>1, <4>2, GoodCases, CountType
    <3>2. CASE ~ good
      <4>1. Bad
        BY <1>3, <3>2 DEF AcceptStep
      <4>2. stage \in Stages /\ lock_count \in Nat /\ unlock_count \in Nat
        BY DEF StagesTypeOK
      <4> QED BY <2>1, <4>1, <4>2, BadCases, CountType
    <3> QED BY <3>1, <3>2
  <2>3. got' \in 0 .. HistorySize
    BY <1>3, StagesAssumption DEF AcceptStep, StagesTypeOK
  <2>4. goodRun' \in Nat /\ badRun' \in Nat /\ quiet' \in Nat /\ lastGood' \in BOOLEAN
    BY <1>3, CountType DEF AcceptStep, Observe, StagesTypeOK
  <2>5. negative' \in BOOLEAN
    BY <1>3 DEF AcceptStep
  <2> QED BY <2>2, <2>3, <2>4, <2>5 DEF StagesTypeOK
<1> QED BY <1>1, <1>2, <1>3 DEF StagesNext, Accept, AcceptStep

\* stage_params is only indexed with stages that exist.
THEOREM StagesTypes == StagesSafeSpec => []StagesTypeOK
<1> QED BY TypesInit, TypesNext, PTL DEF StagesSafeSpec
-----------------------------------------------------------------------------
\* What relates the counters of the code to the runs of readings that really
\* happened, and bounds them: the strengthening behind the other theorems.
CountsAreRuns ==
    /\ lock_count <= MaxCount /\ unlock_count <= MaxCount
    /\ lock_count <= goodRun /\ unlock_count <= badRun
    /\ stage < Last => lock_count <= quiet + lock_thresh_count[stage]
    /\ stage = Last => lock_count = 0

IInv == StagesTypeOK /\ ExclusiveCounts /\ BoundedCounts /\ CountsAreRuns

\* A ghost grows by at most one and stops at its bound.
LEMMA CountStep ==
    ASSUME NEW c \in Nat, c <= MaxCount
    PROVE  Count(c) \in Nat /\ Count(c) <= MaxCount /\ Count(c) <= c + 1
BY StagesAssumption DEF Count

\* Counting both sides of a comparison keeps it.
LEMMA CountUp ==
    ASSUME NEW n \in Nat, NEW c \in Nat, c <= n
    PROVE  Count(c) <= Count(n)
BY StagesAssumption DEF Count

\* Before the first reading no run is under way.
LEMMA InvInit == StagesInit => IInv
<1> SUFFICES ASSUME StagesInit PROVE IInv
  OBVIOUS
<1>1. /\ stage = 0 /\ lock_count = 0 /\ unlock_count = 0
      /\ goodRun = 0 /\ badRun = 0 /\ quiet = 0
  BY DEF StagesInit
<1>2. 0 \in Stages /\ MaxCount \in Nat
  BY StagesAssumption DEF Stages
<1>3. lock_thresh_count[0] \in Nat
  BY <1>2, Thresholds
<1>4. ExclusiveCounts /\ BoundedCounts
  BY <1>1 DEF ExclusiveCounts, BoundedCounts
<1>5. CountsAreRuns
  BY <1>1, <1>2, <1>3 DEF CountsAreRuns
<1> QED BY <1>4, <1>5, TypesInit DEF IInv

\* A reading inside the threshold keeps counters and runs related.
LEMMA InvGood ==
    ASSUME IInv, StagesTypeOK', NEW crossed \in BOOLEAN, Good(crossed), Observe(TRUE, crossed)
    PROVE  ExclusiveCounts' /\ BoundedCounts' /\ CountsAreRuns'
<1>1. /\ StagesTypeOK /\ CountsAreRuns
      /\ stage \in Int /\ stage >= 0 /\ stage <= Last /\ Last \in Int
      /\ stage' \in Int /\ stage' >= 0 /\ stage' <= Last
      /\ lock_count \in Nat /\ goodRun \in Nat /\ badRun \in Nat /\ quiet \in Nat
      /\ goodRun' \in Nat /\ badRun' \in Nat /\ quiet' \in Nat /\ MaxCount \in Nat
  BY StagesAssumption DEF IInv, StagesTypeOK, Stages, Last
<1>2. /\ lock_thresh_count[stage] \in Nat /\ lock_thresh_count[stage] > 0
      /\ lock_thresh_count[stage'] \in Nat
      /\ lock_fail_count[stage'] \in Nat /\ lock_fail_count[stage'] > 0
      /\ unlock_thresh_count[stage'] \in Nat /\ unlock_thresh_count[stage'] > 0
  BY Thresholds DEF IInv, StagesTypeOK
<1>3. unlock_count' = 0
  BY <1>1, GoodCases
<1>4. \/ lock_count' = 0
      \/ stage' = stage /\ lock_count' = lock_count /\ stage = Last
      \/ /\ ~ crossed \/ lock_count < lock_thresh_count[stage]
         /\ stage' = stage /\ stage < Last
         /\ stage > 0 => lock_count + 1 < lock_fail_count[stage]
         /\ lock_count' = Count(lock_count)
  BY <1>1, GoodCases
<1>c. Count(lock_count) \in Nat /\ Count(lock_count) <= MaxCount
      /\ Count(lock_count) <= lock_count + 1
  BY <1>1, CountStep DEF CountsAreRuns
<1>5. CASE lock_count' = 0
  BY <1>1, <1>2, <1>3, <1>5 DEF ExclusiveCounts, BoundedCounts, CountsAreRuns
<1>6. CASE stage' = stage /\ lock_count' = lock_count /\ stage = Last
  <2>1. lock_count = 0
    BY <1>1, <1>6 DEF CountsAreRuns
  <2> QED BY <1>5, <1>6, <2>1
<1>7. CASE /\ ~ crossed \/ lock_count < lock_thresh_count[stage]
           /\ stage' = stage /\ stage < Last
           /\ stage > 0 => lock_count + 1 < lock_fail_count[stage]
           /\ lock_count' = Count(lock_count)
  <2>1. ExclusiveCounts'
    BY <1>3 DEF ExclusiveCounts
  <2>2. BoundedCounts'
    BY <1>1, <1>c, <1>2, <1>3, <1>7 DEF BoundedCounts
  <2>3. lock_count' <= goodRun'
    <3>1. goodRun' = Count(goodRun)
      BY <1>7 DEF Observe
    <3>2. lock_count <= goodRun
      BY <1>1 DEF CountsAreRuns
    <3> QED BY <1>1, <1>7, <3>1, <3>2, CountUp
  <2>4. lock_count' <= quiet' + lock_thresh_count[stage']
    <3>1. CASE lock_count < lock_thresh_count[stage]
      BY <1>1, <1>c, <1>2, <1>7, <3>1
    <3>2. CASE ~ crossed
      <4>1. quiet' = Count(quiet)
        BY <3>2 DEF Observe
      <4>2. lock_count <= quiet + lock_thresh_count[stage]
        BY <1>1, <1>7 DEF CountsAreRuns
      <4>3. Count(quiet) = quiet + 1 \/ (Count(quiet) = quiet /\ quiet >= MaxCount)
        BY <1>1 DEF Count
      <4> QED BY <1>1, <1>c, <1>2, <1>7, <4>1, <4>2, <4>3
    <3> QED BY <1>7, <3>1, <3>2
  <2>5. CountsAreRuns'
    BY <1>1, <1>c, <1>3, <1>7, <2>3, <2>4 DEF CountsAreRuns
  <2> QED BY <2>1, <2>2, <2>5
<1> QED BY <1>4, <1>5, <1>6, <1>7

\* A reading outside the threshold keeps counters and runs related.
LEMMA InvBad ==
    ASSUME IInv, StagesTypeOK', NEW crossed \in BOOLEAN, Bad, Observe(FALSE, crossed)
    PROVE  ExclusiveCounts' /\ BoundedCounts' /\ CountsAreRuns'
<1>1. /\ StagesTypeOK /\ CountsAreRuns
      /\ stage' \in Int /\ stage' >= 0 /\ stage' <= Last /\ Last \in Int
      /\ unlock_count \in Nat /\ goodRun' \in Nat /\ quiet' \in Nat
      /\ badRun \in Nat /\ badRun' \in Nat /\ MaxCount \in Nat
  BY StagesAssumption DEF IInv, StagesTypeOK, Stages, Last
<1>2. /\ lock_thresh_count[stage'] \in Nat
      /\ lock_fail_count[stage'] \in Nat /\ lock_fail_count[stage'] > 0
      /\ unlock_thresh_count[stage'] \in Nat /\ unlock_thresh_count[stage'] > 0
  BY Thresholds DEF IInv, StagesTypeOK
<1>3. lock_count' = 0
  BY <1>1, BadCases
<1>4. \/ unlock_count' = 0
      \/ /\ stage' = stage /\ unlock_count' = Count(unlock_count)
         /\ stage > 0 => unlock_count + 1 < unlock_thresh_count[stage]
  BY <1>1, BadCases
<1>c. Count(unlock_count) \in Nat /\ Count(unlock_count) <= MaxCount
      /\ Count(unlock_count) <= unlock_count + 1
  BY <1>1, CountStep DEF CountsAreRuns
<1>5. ExclusiveCounts'
  BY <1>3 DEF ExclusiveCounts
<1>6. BoundedCounts'
  BY <1>1, <1>c, <1>2, <1>3, <1>4 DEF BoundedCounts
<1>7. unlock_count' <= badRun' /\ unlock_count' <= MaxCount
  <2>1. CASE unlock_count' = 0
    BY <1>1, <2>1
  <2>2. CASE stage' = stage /\ unlock_count' = Count(unlock_count)
    <3>1. badRun' = Count(badRun)
      BY <2>2 DEF Observe
    <3>2. unlock_count <= badRun
      BY <1>1 DEF CountsAreRuns
    <3> QED BY <1>1, <1>c, <2>2, <3>1, <3>2, CountUp
  <2> QED BY <1>4, <2>1, <2>2
<1>8. CountsAreRuns'
  BY <1>1, <1>2, <1>3, <1>7 DEF CountsAreRuns
<1> QED BY <1>5, <1>6, <1>8

\* Every step keeps the invariant.
LEMMA InvNext == IInv /\ [StagesNext]_stagesVars => IInv'
<1> SUFFICES ASSUME IInv, [StagesNext]_stagesVars PROVE IInv'
  OBVIOUS
<1>1. StagesTypeOK'
  BY TypesNext DEF IInv
<1>2. CASE UNCHANGED stagesVars
  <2>1. IInv
    OBVIOUS
  <2> QED BY <1>2, <2>1 DEF stagesVars, ghosts, IInv, StagesTypeOK, ExclusiveCounts,
                            BoundedCounts, CountsAreRuns
<1>3. CASE Outlier
  BY <1>2, <1>3 DEF Outlier
<1>4. CASE Accept
  <2>1. PICK good \in BOOLEAN : AcceptStep(good)
    BY <1>4 DEF Accept, AcceptStep
  <2>2. CASE good
    <3>1. PICK crossed \in BOOLEAN : Good(crossed) /\ Observe(TRUE, crossed)
      <4>1. Good(negative' # negative) /\ Observe(good, negative' # negative)
        BY <2>1, <2>2 DEF AcceptStep
      <4>2. good = TRUE
        BY <2>2
      <4> QED BY <4>1, <4>2
    <3> QED BY <1>1, <3>1, InvGood DEF IInv
  <2>3. CASE ~ good
    <3>1. PICK crossed \in BOOLEAN : Bad /\ Observe(FALSE, crossed)
      <4>1. Bad /\ Observe(good, negative' # negative)
        BY <2>1, <2>3 DEF AcceptStep
      <4>2. good = FALSE
        BY <2>3
      <4> QED BY <4>1, <4>2
    <3> QED BY <1>1, <3>1, InvBad DEF IInv
  <2> QED BY <2>2, <2>3
<1> QED BY <1>2, <1>3, <1>4 DEF StagesNext

\* The invariant holds in every state.
LEMMA InvAlways == StagesSafeSpec => []IInv
<1> QED BY InvInit, InvNext, PTL DEF StagesSafeSpec

\* A run of good and a run of bad readings are never counted at once.
THEOREM StagesExclusive == StagesSafeSpec => []ExclusiveCounts
<1>1. IInv => ExclusiveCounts
  BY DEF IInv
<1> QED BY <1>1, InvAlways, PTL

\* Every stage but the first is left before its counters pass their thresholds.
THEOREM StagesBounded == StagesSafeSpec => []BoundedCounts
<1>1. IInv => BoundedCounts
  BY DEF IInv
<1> QED BY <1>1, InvAlways, PTL

\* The next stage is earned: enough good readings in a row within this one, and
\* a zero-crossing at the last.
THEOREM StagesUpEarned == StagesSafeSpec => UpEarned
<1>1. IInv /\ [StagesNext]_stagesVars =>
        [stage' > stage =>
           /\ stage' = stage + 1
           /\ negative' # negative
           /\ goodRun >= lock_thresh_count[stage]]_stagesVars
  <2> SUFFICES ASSUME IInv, StagesNext, stage' > stage
               PROVE  /\ stage' = stage + 1
                      /\ negative' # negative
                      /\ goodRun >= lock_thresh_count[stage]
    OBVIOUS
  <2>1. /\ StagesTypeOK /\ CountsAreRuns /\ stage \in Int /\ lock_count \in Nat
        /\ goodRun \in Nat /\ lock_thresh_count[stage] \in Nat
    BY Thresholds, StagesAssumption DEF IInv, StagesTypeOK, Stages
  <2>2. Accept
    BY <2>1 DEF StagesNext, Outlier, stagesVars
  <2>3. PICK good \in BOOLEAN : AcceptStep(good)
    BY <2>2 DEF Accept, AcceptStep
  <2>4. good
    <3>1. Bad => stage' = stage \/ stage' = stage - 1
      BY <2>1, BadCases
    <3> QED BY <2>1, <2>3, <3>1 DEF AcceptStep
  <2>5. Good(negative' # negative)
    BY <2>3, <2>4 DEF AcceptStep
  <2>6. /\ negative' # negative
        /\ lock_count >= lock_thresh_count[stage] /\ stage' = stage + 1
    <3>1. PICK crossed \in BOOLEAN : Good(crossed) /\ (crossed <=> negative' # negative)
      BY <2>5
    <3>2. Good(crossed) /\ StagesTypeOK
      BY <2>1, <3>1
    <3>3. /\ crossed
          /\ lock_count >= lock_thresh_count[stage] /\ stage' = stage + 1
      BY <2>1, <3>2, GoodCases
    <3> QED BY <3>1, <3>3
  <2>7. lock_count <= goodRun
    BY <2>1 DEF CountsAreRuns
  <2> QED BY <2>1, <2>6, <2>7
<1> QED BY <1>1, InvAlways, PTL DEF StagesSafeSpec, UpEarned

\* A stage is given up only for a run of bad readings within it or for a run of
\* good ones that left the whole window for a sign change unused.
THEOREM StagesDownEarned == StagesSafeSpec => DownEarned
<1> DEFINE Earned ==
      /\ stage' = stage - 1
      /\ \/ badRun + 1 >= unlock_thresh_count[stage]
         \/ /\ stage < Last
            /\ goodRun + 1 >= lock_fail_count[stage]
            /\ quiet' >= lock_fail_count[stage] - lock_thresh_count[stage]
<1>1. IInv /\ [StagesNext]_stagesVars => [stage' < stage => Earned]_stagesVars
  <2> SUFFICES ASSUME IInv, StagesNext, stage' < stage PROVE Earned
    OBVIOUS
  <2>1. /\ StagesTypeOK /\ CountsAreRuns /\ BoundedCounts
        /\ stage \in Int /\ lock_count \in Nat /\ unlock_count \in Nat
        /\ goodRun \in Nat /\ badRun \in Nat /\ quiet \in Nat /\ MaxCount \in Nat
        /\ lock_thresh_count[stage] \in Nat /\ lock_fail_count[stage] \in Nat
        /\ lock_thresh_count[stage] > 0
        /\ lock_thresh_count[stage] < lock_fail_count[stage]
        /\ unlock_thresh_count[stage] \in Nat
    BY Thresholds, StagesAssumption DEF IInv, StagesTypeOK, Stages
  <2>2. Accept
    BY <2>1 DEF StagesNext, Outlier, stagesVars
  <2>3. PICK good \in BOOLEAN : AcceptStep(good)
    BY <2>2 DEF Accept, AcceptStep
  <2>4. CASE ~ good
    <3>1. Bad
      BY <2>3, <2>4 DEF AcceptStep
    <3>2. unlock_count + 1 >= unlock_thresh_count[stage] /\ stage' = stage - 1
      BY <2>1, <3>1, BadCases
    <3>3. unlock_count <= badRun
      BY <2>1 DEF CountsAreRuns
    <3> QED BY <2>1, <3>2, <3>3
  <2>5. CASE good
    <3>1. PICK crossed \in BOOLEAN : Good(crossed) /\ Observe(good, crossed)
      BY <2>3, <2>5 DEF AcceptStep
    <3>2. /\ ~ crossed \/ lock_count < lock_thresh_count[stage]
          /\ stage > 0 /\ stage < Last
          /\ lock_count + 1 >= lock_fail_count[stage]
          /\ stage' = stage - 1
      BY <2>1, <3>1, GoodCases
    <3>3. ~ crossed
      BY <2>1, <3>2
    <3>4. quiet' = Count(quiet)
      BY <3>1, <3>3 DEF Observe
    <3>5. /\ lock_count <= goodRun /\ lock_count <= MaxCount
          /\ lock_count <= quiet + lock_thresh_count[stage]
          /\ lock_count < lock_fail_count[stage]
      BY <2>1, <3>2 DEF CountsAreRuns, BoundedCounts
    <3>6. Count(quiet) = quiet + 1 \/ (Count(quiet) = quiet /\ quiet >= MaxCount)
      BY <2>1 DEF Count
    <3>7. quiet' >= lock_fail_count[stage] - lock_thresh_count[stage]
      BY <2>1, <3>2, <3>4, <3>5, <3>6
    <3> QED BY <2>1, <3>2, <3>5, <3>7
  <2> QED BY <2>4, <2>5
<1> QED BY <1>1, InvAlways, PTL DEF StagesSafeSpec, DownEarned
=============================================================================
