------------------------------- MODULE Ticker -------------------------------
(***************************************************************************)
(* pxfe_ticker (lib/posix_fe.h): a thread that writes a byte to a pipe     *)
(* every interval, with start, pause, resume, stopjoin and its destructor. *)
(*                                                                         *)
(* The thread selects on closer_pipe with the interval as its timeout, and *)
(* writes a tick when nothing came.  A pipe holds so many bytes; a write   *)
(* to a full one blocks, and nobody is obliged to read the ticks.  paused  *)
(* is read and written without mut, as is the state that running() tests.  *)
(***************************************************************************)
EXTENDS PosixThread

CONSTANT Cap       \* bytes in a pipe: 65536

ASSUME CapAssumption == Cap \in Nat \ {0}

VARIABLES
    paused,
    closer, pipe,  \* bytes in closer_pipe and in pipe
    body,          \* where in entry() each thread is
    op,            \* what each user is calling
    late           \* ghost: ticks written since paused was set

tickVars == <<paused, closer, pipe, body, op, late>>
vars     == <<threadVars, tickVars>>

TypeOK ==
    /\ ThreadTypeOK
    /\ paused \in BOOLEAN
    /\ closer \in 0 .. Cap
    /\ pipe \in 0 .. Cap
    /\ body \in [Ids -> {"select", "write"}]
    /\ op \in [Users -> {"none", "start", "stop", "join", "stopjoin", "destroy"}]
    /\ late \in Nat

\* The constructors of closer_pipe and pipe.
NewPipes == closer = 0 /\ pipe = 0

Init ==
    /\ ThreadInit
    /\ paused = FALSE
    /\ NewPipes
    /\ body = [i \in Ids |-> "select"]
    /\ op = [u \in Users |-> "none"]
    /\ late = 0

Calls(u, what, first) ==
    /\ Goes(u, "idle", first)
    /\ op' = [op EXCEPT ![u] = what]

\* Nobody uses an object that is being destroyed, and one thread at a time may
\* be the one that joins.
InUse      == \A u \in Users : op[u] # "destroy"
MayJoin    == \A u \in Users : op[u] \notin {"join", "stopjoin", "destroy"}
-----------------------------------------------------------------------------
\* start(): running() is tested before create() is called.
Start(u) ==
    /\ InUse
    /\ Calls(u, "start", IF state = "INIT" THEN "test" ELSE "returned")
    /\ UNCHANGED <<state, id, thread, paused, closer, pipe, body, late>>

\* pause() and resume().
SetPaused(b) == paused' = b /\ late' = 0

Pause  == InUse /\ ~paused /\ SetPaused(TRUE) /\ UNCHANGED <<threadVars, closer, pipe, body, op>>
Resume == InUse /\ paused /\ SetPaused(FALSE) /\ UNCHANGED <<threadVars, closer, pipe, body, op>>

\* stop(), join() and stopjoin().
CallStop(u) ==
    /\ InUse
    /\ \/ Calls(u, "stop", "stop")
       \/ MayJoin /\ Calls(u, "join", "stopped")
       \/ MayJoin /\ Calls(u, "stopjoin", "stop")
    /\ UNCHANGED <<state, id, thread, paused, closer, pipe, body, late>>

\* ~pxfe_ticker, when nobody else is in a call.
DestroyTicker(u) ==
    /\ \A v \in Users : call[v] = "idle"
    /\ Calls(u, "destroy", "stop")
    /\ IF paused THEN UNCHANGED <<paused, late>> ELSE SetPaused(TRUE)
    /\ UNCHANGED <<state, id, thread, closer, pipe, body>>

\* send_stop(), under mut.
SendStop == closer' = closer + 1 /\ UNCHANGED pipe

Joins(u) == IF op[u] = "stop" THEN "returned" ELSE "stopped"

TickerStop(u) ==
    /\ Stop(u, Joins(u), SendStop, UNCHANGED <<closer, pipe>>)
    /\ UNCHANGED <<paused, body, op, late>>

\* The call returns: start() resumes, and after the destructor the object is
\* constructed anew, with new pipes.
Return(u) ==
    /\ Goes(u, "returned", "idle")
    /\ op' = [op EXCEPT ![u] = "none"]
    /\ IF op[u] \in {"start", "destroy"} THEN SetPaused(FALSE) ELSE UNCHANGED <<paused, late>>
    /\ IF op[u] = "destroy" THEN closer' = 0 /\ pipe' = 0 ELSE UNCHANGED <<closer, pipe>>
    /\ UNCHANGED <<state, id, thread, body>>

\* doread().
Read == pipe > 0 /\ pipe' = pipe - 1 /\ UNCHANGED <<threadVars, paused, closer, body, op, late>>
-----------------------------------------------------------------------------
\* select() on closer_pipe.readEnd answers at once when the pipe holds a byte, and
\* otherwise after the interval.
Readable == closer > 0

InEntry(i, where) == thread[i] = "entry" /\ body[i] = where

\* Mutant: entry() does not look at paused.
M_TickIgnoresPause(i) ==
    /\ InEntry(i, "select") /\ ~Readable
    /\ body' = [body EXCEPT ![i] = "write"]
    /\ UNCHANGED <<threadVars, paused, closer, pipe, op, late>>

\* Mutant: a tick that is due is written before closer_pipe is looked at.
M_TickFirst(i) ==
    /\ InEntry(i, "select") /\ ~paused
    /\ body' = [body EXCEPT ![i] = "write"]
    /\ UNCHANGED <<threadVars, paused, closer, pipe, op, late>>

\* select() times out and entry() finds the ticker not paused.  (When it is
\* paused the loop goes round.)
Tick(i) ==
    /\ InEntry(i, "select") /\ ~Readable /\ ~paused
    /\ body' = [body EXCEPT ![i] = "write"]
    /\ UNCHANGED <<threadVars, paused, closer, pipe, op, late>>

\* pipe.write, which waits for room.
Write(i) ==
    /\ InEntry(i, "write") /\ pipe < Cap
    /\ pipe' = pipe + 1
    /\ body' = [body EXCEPT ![i] = "select"]
    /\ late' = IF paused THEN late + 1 ELSE 0
    /\ UNCHANGED <<threadVars, paused, closer, op>>

\* closer_pipe is readable: read its byte and leave the loop.
LeaveLoop(i) ==
    /\ InEntry(i, "select") /\ Readable
    /\ closer' = closer - 1
    /\ Becomes(i, "entry", "ending")
    /\ UNCHANGED <<state, id, call, paused, pipe, body, op, late>>

ThreadStep(i) ==
    \/ (EntryRuns(i) \/ EntrySignals(i) \/ EntryEnds(i)) /\ UNCHANGED tickVars
    \/ Tick(i) \/ Write(i) \/ LeaveLoop(i)

UserStep(u) ==
    \/ CallStep(u) /\ UNCHANGED tickVars
    \/ TickerStop(u)
    \/ Return(u)

TimeOut(u) == WaitEnds(u) /\ UNCHANGED tickVars

Next ==
    \/ \E u \in Users : Start(u) \/ CallStop(u) \/ DestroyTicker(u) \/ UserStep(u) \/ TimeOut(u)
    \/ \E i \in Ids : ThreadStep(i)
    \/ Pause \/ Resume \/ Read

\* Threads and calls that can go on do; the wait of create ends in time.  Nobody
\* need call anything, or read the ticks.
Fairness ==
    /\ \A u \in Users : WF_vars(UserStep(u)) /\ WF_vars(TimeOut(u))
    /\ \A i \in Ids : WF_vars(ThreadStep(i))

Spec == Init /\ [][Next]_vars /\ Fairness
-----------------------------------------------------------------------------
\* An object has at most one thread.  It has none, and no stop byte is left in
\* closer_pipe to end the next one at once, when its state says INIT, so that it
\* may be created again, and when its destructor goes on to close the pipes
\* (posix_fe.h:1280-1319, 2442, 2452), however the stop fell on the thread.
Idle == Alive = {} /\ closer = 0

IdleIsClean ==
    /\ Cardinality(Alive) <= 1
    /\ state = "INIT" => Idle
    /\ \A u \in Users : op[u] = "destroy" /\ call[u] = "returned" => Idle

\* After pause() at most one more tick comes, the one entry() was about to write
\* (posix_fe.h:2429): paused is tested once per interval, without a lock.
OneLateTick == paused => late <= 1

\* A stopjoin, and so the destructor, can hang only because the pipe of the ticks
\* stays full for ever: in any other case the thread comes to see the stop byte.
StopReturns == \A u \in Users : <>[](call[u] = "join") => <>[](pipe = Cap)

\* A create returns unless the object goes on being stopped and created again
\* under it.  The signal of _entry wakes one waiter only, perhaps another one,
\* so it is the 5 seconds of its wait that keep it from hanging.
CreateReturns ==
    <>[](state # "NEWBORN") => \A u \in Users : (call[u] = "waiting") ~> (call[u] = "returned")
=============================================================================
