----------------------------- MODULE PosixThread -----------------------------
(***************************************************************************)
(* pxfe_pthread (lib/posix_fe.h): an object that creates, stops and joins  *)
(* a thread for its user.  What the thread does in entry(), and what       *)
(* send_stop() does, belongs to the derived class.                         *)
(*                                                                         *)
(* A critical section on mut touches state only and is one step.  What is  *)
(* outside of mut is a step of its own: pthread_create, the signal of      *)
(* _entry, the wait of create, and pthread_join.  Two threads in           *)
(* pthread_join for one id are undefined behaviour, which the class leaves *)
(* to its users to avoid.                                                  *)
(***************************************************************************)
EXTENDS Integers, FiniteSets

CONSTANTS
    Users,    \* the threads that call the object
    Ids       \* values of pthread_t

VARIABLES
    state,    \* as in the code
    id,       \* the thread created last
    thread,   \* how far each thread has come
    call      \* how far the call of each user has come

threadVars == <<state, id, thread, call>>

ThreadTypeOK ==
    /\ state \in {"INIT", "NEWBORN", "RUNNING", "STOPPING", "ZOMBIE"}
    /\ id \in Ids
    /\ thread \in [Ids -> {"free", "born", "starting", "entry", "ending", "dead"}]
    /\ call \in [Users -> {"idle", "test", "create", "created", "waiting", "failed",
                           "stop", "stopped", "join", "joined", "returned"}]

ThreadInit ==
    /\ state = "INIT"
    /\ id \in Ids
    /\ thread = [i \in Ids |-> "free"]
    /\ call = [u \in Users |-> "idle"]

\* A call, or a thread, goes on to its next step.
Goes(u, from, to)   == call[u] = from /\ call' = [call EXCEPT ![u] = to]
Becomes(i, from, to) == thread[i] = from /\ thread' = [thread EXCEPT ![i] = to]

Alive == {i \in Ids : thread[i] # "free"}
-----------------------------------------------------------------------------
\* create(): NEWBORN, or -1 when the object is in use.
Create(u) ==
    /\ IF state = "INIT"
       THEN state' = "NEWBORN" /\ Goes(u, "test", "create")
       ELSE state' = state /\ Goes(u, "test", "returned")
    /\ UNCHANGED <<id, thread>>

\* pthread_create.
Spawn(u) ==
    /\ Goes(u, "create", "created")
    /\ \E i \in Ids \ Alive : Becomes(i, "free", "born") /\ id' = i
    /\ UNCHANGED state

SpawnFails(u) == Goes(u, "create", "failed") /\ UNCHANGED <<state, id, thread>>

CreateFails(u) == Goes(u, "failed", "returned") /\ state' = "INIT" /\ UNCHANGED <<id, thread>>

\* The loop of create: wait while the thread is NEWBORN.
Await(u) ==
    /\ Goes(u, "created", IF state = "NEWBORN" THEN "waiting" ELSE "returned")
    /\ UNCHANGED <<state, id, thread>>

\* Mutant: cond.wait is called without ts, so only a signal ends the wait.
M_WaitForever(u) == FALSE /\ UNCHANGED threadVars

\* The wait ends after 5 seconds, or spuriously.
WaitEnds(u) == Goes(u, "waiting", "created") /\ UNCHANGED <<state, id, thread>>

\* _entry up to unlock().
EntryRuns(i) ==
    /\ Becomes(i, "born", "starting")
    /\ state' = "RUNNING"
    /\ UNCHANGED <<id, call>>

\* cond.signal(): it wakes one waiting create, if there is one.
EntrySignals(i) ==
    /\ Becomes(i, "starting", "entry")
    /\ LET waiting == {u \in Users : call[u] = "waiting"}
       IN  IF waiting = {} THEN UNCHANGED call
           ELSE \E u \in waiting : Goes(u, "waiting", "created")
    /\ UNCHANGED <<state, id>>

\* entry() has returned.
EntryEnds(i) ==
    /\ Becomes(i, "ending", "dead")
    /\ state' = "ZOMBIE"
    /\ UNCHANGED <<id, call>>

\* stop(), for a derived class with the given send_stop(), on the way to next.
Stop(u, next, SendStop, NoStop) ==
    /\ Goes(u, "stop", next)
    /\ IF state = "RUNNING"
       THEN state' = "STOPPING" /\ SendStop
       ELSE state' = state /\ NoStop
    /\ UNCHANGED <<id, thread>>

\* Mutant: only a thread that has ended already is joined.
M_JoinZombie(u) ==
    /\ Goes(u, "stopped", IF state = "ZOMBIE" THEN "join" ELSE "returned")
    /\ UNCHANGED <<state, id, thread>>

\* join() up to unlock().
Join(u) ==
    /\ Goes(u, "stopped", IF state \in {"STOPPING", "ZOMBIE"} THEN "join" ELSE "returned")
    /\ UNCHANGED <<state, id, thread>>

\* pthread_join returns.
Joined(u) ==
    /\ Goes(u, "join", "joined")
    /\ Becomes(id, "dead", "free")
    /\ UNCHANGED <<state, id>>

JoinEnds(u) == Goes(u, "joined", "returned") /\ state' = "INIT" /\ UNCHANGED <<id, thread>>

\* The steps of a create or join that has been called, and of a thread.
CallStep(u) ==
    \/ Create(u) \/ Spawn(u) \/ SpawnFails(u) \/ CreateFails(u) \/ Await(u)
    \/ Join(u) \/ Joined(u) \/ JoinEnds(u)
=============================================================================
