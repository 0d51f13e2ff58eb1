------------------------------ MODULE DpllSim ------------------------------
(***************************************************************************)
(* The threads of dpll_sim and what they share: main creates ref_thread,   *)
(* osc_thread and dpll_thread one after the other, waits for the user,     *)
(* sets "done" and joins them; the two sources take buffers from the pool  *)
(* p and send them through the queue q to dpll_thread, which releases      *)
(* them.  A source that finds the pool empty ends for good.                *)
(*                                                                         *)
(* The pool and the queue are their abstract specifications, one atomic    *)
(* step per operation (SlingerPool and SlingerQueue model the steps        *)
(* within and show that no buffer is ever in two places; the queue is      *)
(* proved to implement a deque), so here a buffer is its "which", and the  *)
(* pool is a number of buffers.  Time is a count of the ticks that are due *)
(* and not sent.  ref_thread starts at the last full second, with up to    *)
(* HZ - 1 ticks already due, which it sends without sleeping.              *)
(***************************************************************************)
EXTENDS Mymsg, Naturals, Sequences, FiniteSets

CONSTANTS
    DPLL,            \* dpll_thread; a source is called by its which_t
    NumBuffers,      \* p.add(100): HZ of them
    MaxBacklog,      \* the most ticks due when ref_thread starts: HZ - 1 = 99
    MaxOwed,         \* bound: where the model stops counting ticks due
    Null

ASSUME SimAssumption ==
    /\ DPLL \notin Which
    /\ MaxBacklog \in Nat /\ MaxOwed \in Nat \ {0} /\ MaxBacklog <= MaxOwed
    /\ NumBuffers \in Nat /\ NumBuffers >= 4  \* each source has one sent, one held
    /\ Null \notin Which

Sources == Which
Threads == Sources \cup {DPLL}

VARIABLES
    main,    \* where main is
    done,
    free,    \* how many buffers are in the pool p
    q,       \* the queue q: the which of each message
    pc,      \* per thread
    held,    \* per thread: the which of the buffer it holds, or Null
    owed,    \* per source: ticks due and not sent
    prompt,  \* constant during a behaviour.  TRUE: threads are scheduled at
             \* once, so that the clock moves only when none of them can run
    early,   \* with prompt: a tick has fallen into main's naps
    backlog  \* ghost: the ticks that were due when ref_thread started

vars == <<main, done, free, q, pc, held, owed, prompt, early, backlog>>
run  == <<prompt, early, backlog>>

Queued == {q[i] : i \in 1 .. Len(q)}
Holders == {t \in Threads : held[t] # Null}

TypeOK ==
    /\ main \in {"add", "create", "nap", "read", "join", "exited", "failed"}
    /\ done \in BOOLEAN
    /\ free \in 0 .. NumBuffers
    /\ q \in Seq(Sources)
    /\ pc \in [Threads -> {"new", "loop", "wait", "send", "dequeue", "handle", "exited"}]
    /\ held \in [Threads -> Sources \cup {Null}]
    /\ owed \in [Sources -> 0 .. MaxOwed]
    /\ prompt \in BOOLEAN /\ early \in BOOLEAN /\ backlog \in 0 .. MaxBacklog

Init ==
    /\ main = "add" /\ done = FALSE
    /\ free = 0 /\ q = << >>
    /\ pc = [t \in Threads |-> "new"]
    /\ held = [t \in Threads |-> Null]
    /\ owed = [w \in Sources |-> 0]
    /\ prompt \in BOOLEAN /\ early = FALSE /\ backlog = 0

\* The process lives until main returns.
Alive == main \notin {"exited", "failed"}

At(t, l)        == Alive /\ pc[t] = l
Goto(t, l)      == pc' = [pc EXCEPT ![t] = l]
-----------------------------------------------------------------------------
\* main: p.add(100), the creation loop, read, done = true, the joins.
AddBuffers ==
    /\ main = "add"
    /\ free' = NumBuffers
    /\ main' = "create"
    /\ UNCHANGED <<done, q, pc, held, owed, run>>

\* The threads are created in this order; REF starts with a backlog.
Create(t) ==
    /\ main = "create" /\ pc[t] = "new"
    /\ t = OSC => pc[REF] # "new"
    /\ t = DPLL => pc[OSC] # "new"
    /\ Goto(t, "loop")
    /\ IF t = REF
       THEN backlog' \in 0 .. MaxBacklog /\ owed' = [owed EXCEPT ![REF] = backlog']
       ELSE UNCHANGED <<owed, backlog>>
    /\ main' = "nap"
    /\ UNCHANGED <<done, free, q, held, prompt, early>>

\* usleep(100): "to ensure the thread has a chance to start".
NapEnds ==
    /\ main = "nap"
    /\ main' = IF pc[DPLL] = "new" THEN "create" ELSE "read"
    /\ UNCHANGED <<done, free, q, pc, held, owed, run>>

\* pthread_create fails: main returns, and the threads there are end with it.
CreateFails ==
    /\ main = "create"
    /\ main' = "failed"
    /\ UNCHANGED <<done, free, q, pc, held, owed, run>>

KeyPressed ==
    /\ main = "read"
    /\ done' = TRUE
    /\ main' = "join"
    /\ UNCHANGED <<free, q, pc, held, owed, run>>

JoinAll ==
    /\ main = "join"
    /\ \A t \in Threads : pc[t] = "exited"
    /\ main' = "exited"
    /\ UNCHANGED <<done, free, q, pc, held, owed, run>>
-----------------------------------------------------------------------------
\* ref_thread and osc_thread.  while (!done)
SourceQuits(w) ==
    /\ At(w, "loop") /\ done
    /\ Goto(w, "exited")
    /\ UNCHANGED <<main, done, free, q, held, owed, run>>

\* p.alloc(0, false, which): NULL from an empty pool, "shouldn't happen, but bad".
AllocFails(w) ==
    /\ At(w, "loop") /\ ~ done /\ free = 0
    /\ Goto(w, "exited")
    /\ UNCHANGED <<main, done, free, q, held, owed, run>>

Alloc(w) ==
    /\ At(w, "loop") /\ ~ done /\ free > 0
    /\ free' = free - 1
    /\ held' = [held EXCEPT ![w] = w]
    /\ Goto(w, "wait")
    /\ UNCHANGED <<main, done, q, owed, run>>

\* The sleep and the spin end once the tick is due: at once in a backlog.
TickDue(w) ==
    /\ At(w, "wait") /\ owed[w] > 0
    /\ owed' = [owed EXCEPT ![w] = @ - 1]
    /\ Goto(w, "send")
    /\ UNCHANGED <<main, done, free, q, held, run>>

\* Mutant: the message is used again after it was enqueued.
M_SendKeeps(w) ==
    /\ At(w, "send")
    /\ q' = Append(q, held[w])
    /\ held' = held
    /\ Goto(w, "loop")
    /\ UNCHANGED <<main, done, free, owed, run>>

\* q.enqueue(m).
Send(w) ==
    /\ At(w, "send")
    /\ q' = Append(q, held[w])
    /\ held' = [held EXCEPT ![w] = Null]
    /\ Goto(w, "loop")
    /\ UNCHANGED <<main, done, free, owed, run>>
-----------------------------------------------------------------------------
\* dpll_thread.  while (!done) q.dequeue(1000)
DpllQuits ==
    /\ At(DPLL, "loop") /\ done
    /\ Goto(DPLL, "exited")
    /\ UNCHANGED <<main, done, free, q, held, owed, run>>

CallDequeue ==
    /\ At(DPLL, "loop") /\ ~ done
    /\ Goto(DPLL, "dequeue")
    /\ UNCHANGED <<main, done, free, q, held, owed, run>>

\* Mutant: the newest message is taken.
M_TakeNewest ==
    /\ At(DPLL, "dequeue") /\ q # << >>
    /\ held' = [held EXCEPT ![DPLL] = q[Len(q)]]
    /\ q' = SubSeq(q, 1, Len(q) - 1)
    /\ Goto(DPLL, "handle")
    /\ UNCHANGED <<main, done, free, owed, run>>

Take ==
    /\ At(DPLL, "dequeue") /\ q # << >>
    /\ held' = [held EXCEPT ![DPLL] = Head(q)]
    /\ q' = Tail(q)
    /\ Goto(DPLL, "handle")
    /\ UNCHANGED <<main, done, free, owed, run>>

\* Mutant: dequeue(-1), which waits for a message.
M_NeverTimesOut ==
    /\ At(DPLL, "dequeue") /\ q # << >> /\ ~ done
    /\ Goto(DPLL, "loop")
    /\ UNCHANGED <<main, done, free, q, held, owed, run>>

\* A millisecond without a message.
TimesOut ==
    /\ At(DPLL, "dequeue") /\ q = << >>
    /\ Goto(DPLL, "loop")
    /\ UNCHANGED <<main, done, free, q, held, owed, run>>

\* Mutant: "goto next_iter" leaves out the release.
M_ReleaseSkipped ==
    /\ At(DPLL, "handle")
    /\ free' \in {free, free + 1}
    /\ held' = [held EXCEPT ![DPLL] = Null]
    /\ Goto(DPLL, "loop")
    /\ UNCHANGED <<main, done, q, owed, run>>

\* The handler (PhaseDetector, LockStages), which always ends in p.release(m).
Release ==
    /\ At(DPLL, "handle")
    /\ free' = free + 1
    /\ held' = [held EXCEPT ![DPLL] = Null]
    /\ Goto(DPLL, "loop")
    /\ UNCHANGED <<main, done, q, owed, run>>
-----------------------------------------------------------------------------
\* No thread can do anything before the next tick: main sleeps, reads or joins,
\* the sources there are wait, and dpll_thread, once there, has emptied the queue.
Idle ==
    /\ main \notin {"add", "create"}
    /\ \A w \in Sources : pc[w] \in {"new", "exited"} \/ (pc[w] = "wait" /\ owed[w] = 0)
    /\ pc[DPLL] \in {"new", "dequeue", "exited"}
    /\ q = << >> \/ pc[DPLL] \in {"new", "exited"}

\* The sources that a tick can come to.  With prompt threads the three naps are
\* over within an INTERVAL: in them one tick may come to ref_thread, which keeps
\* to the seconds, and none to osc_thread, whose first is a whole INTERVAL after
\* its start.
Ticking(w) ==
    /\ pc[w] \notin {"new", "exited"} /\ owed[w] < MaxOwed
    /\ prompt /\ main = "nap" => w = REF /\ ~ early

\* An INTERVAL passes; a source that has not started owes nothing.
Tick ==
    /\ Alive /\ (prompt => Idle)
    /\ \E w \in Sources : Ticking(w)
    /\ owed' = [w \in Sources |-> IF Ticking(w) THEN owed[w] + 1 ELSE owed[w]]
    /\ early' = (early \/ (prompt /\ main = "nap"))
    /\ UNCHANGED <<main, done, free, q, pc, held, prompt, backlog>>

Source(w) == SourceQuits(w) \/ AllocFails(w) \/ Alloc(w) \/ TickDue(w) \/ Send(w)
Dpll      == DpllQuits \/ CallDequeue \/ Take \/ TimesOut \/ Release
Creation  == AddBuffers \/ (\E t \in Threads : Create(t)) \/ NapEnds

\* The process is gone.
Ended == ~ Alive /\ UNCHANGED vars

Next ==
    \/ Creation \/ CreateFails \/ KeyPressed \/ JoinAll
    \/ \E w \in Sources : Source(w)
    \/ Dpll
    \/ Tick
    \/ Ended

\* Every thread keeps running and time passes; the user may never press a key.
Fairness ==
    /\ WF_vars(Creation) /\ WF_vars(JoinAll)
    /\ \A w \in Sources : WF_vars(Source(w))
    /\ WF_vars(Dpll) /\ WF_vars(Tick)

SafeSpec == Init /\ [][Next]_vars
Spec     == SafeSpec /\ Fairness
-----------------------------------------------------------------------------
\* Every buffer added to the pool is at all times in exactly one place: free, in
\* the queue, or held by one thread.
BuffersConserved ==
    main # "add" => free + Len(q) + Cardinality(Holders) = NumBuffers

\* Once the user has ended the program it ends, however the threads stood: the
\* sources within a tick, dpll_thread within the time-out of its dequeue.
Terminates == done ~> main = "exited"

\* The loop keeps hearing of both sources: while the program runs, a message of
\* a source in the queue leads to one of that source being handled.
SentIsHandled ==
    \A w \in Sources :
      (w \in Queued /\ main = "read") ~> (held[DPLL] = w \/ done)

SourceEnded == \E w \in Sources : pc[w] = "exited"

\* No source ends before the user ends the program: with threads that are
\* scheduled at once, the buffers last for a start-up backlog, a tick that comes
\* before dpll_thread is there, one message that each source holds, and
\* everything after.
SourcesOutlast ==
    prompt /\ backlog + 3 <= NumBuffers => (SourceEnded => done)
=============================================================================
