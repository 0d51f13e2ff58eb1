----------------------------- MODULE MultiQueue -----------------------------
(***************************************************************************)
(* The static _dequeue of _thread_slinger_queue (lib/thread_slinger.cc),   *)
(* which waits on several queues at once, with the Semaphore it waits on   *)
(* (lib/LockWait.h) and the half of _enqueue that gives it.                *)
(*                                                                         *)
(* The receiver stores a pointer to one semaphore, that of its first       *)
(* queue, in waiter_sem of each of its queues, resets the semaphore,       *)
(* looks into the queues in order, and waits on the semaphore when all     *)
(* are empty.  It writes waiter_sem without the mutex of the queue, and    *)
(* value without the lock of the semaphore: value++ in a give is a load    *)
(* and a store here, between which the reset can fall.                     *)
(*                                                                         *)
(* A queue has one receiver ("send a message to the receiver").  There is  *)
(* one here, so the semaphore is one too, and waiter_sem is a boolean.     *)
(***************************************************************************)
EXTENDS Naturals, Sequences, FiniteSets

CONSTANTS
    Senders,     \* the threads that send
    Messages,
    NumQueues,   \* the length of queues[]
    Null,
    MaxValue     \* bound: the value of the semaphore stops there

Queues == 1 .. NumQueues

ASSUME MultiAssumption ==
    /\ IsFiniteSet(Senders)
    /\ NumQueues \in Nat \ {0}
    /\ Null \notin Messages /\ Null \notin Senders
    /\ MaxValue \in Nat \ {0}

VARIABLES
    msgs,        \* per queue: its list
    waiter_sem,  \* per queue: waiter_sem # NULL
    value,       \* of the semaphore
    semlock,     \* the sender in the critical section of give, or Null
    loaded,      \* what it loaded
    pc, msg, at, \* per sender: where it is, its message, its queue
    rpc,         \* where the receiver is
    ind,         \* its loop index
    timed,       \* uSecs >= 0: the wait has a deadline
    pMsg,        \* its result
    late         \* ghost: the messages enqueued since its pass over the queues began

sender   == <<semlock, loaded, pc, msg, at>>
receiver == <<rpc, ind, timed, pMsg>>
vars     == <<msgs, waiter_sem, value, sender, receiver, late>>

PCs  == {"idle", "enqueue", "give", "store", "signal"}
RPCs == {"idle", "publish", "init", "scan", "take", "blocked", "signalled",
         "expired", "clear", "returned"}

TypeOK ==
    /\ msgs \in [Queues -> Seq(Messages)]
    /\ waiter_sem \in [Queues -> BOOLEAN]
    /\ value \in 0 .. MaxValue
    /\ semlock \in Senders \cup {Null}
    /\ loaded \in 0 .. MaxValue
    /\ pc \in [Senders -> PCs]
    /\ msg \in [Senders -> Messages \cup {Null}]
    /\ at \in [Senders -> Queues]
    /\ rpc \in RPCs
    /\ ind \in Queues
    /\ timed \in BOOLEAN
    /\ pMsg \in Messages \cup {Null}
    /\ late \subseteq Messages

Init ==
    /\ msgs = [i \in Queues |-> <<>>]
    /\ waiter_sem = [i \in Queues |-> FALSE]
    /\ value = 0
    /\ semlock = Null /\ loaded = 0
    /\ pc = [t \in Senders |-> "idle"]
    /\ msg = [t \in Senders |-> Null]
    /\ at = [t \in Senders |-> 1]
    /\ rpc = "idle" /\ ind = 1 /\ timed = FALSE /\ pMsg = Null
    /\ late = {}

Queued(i) == {msgs[i][n] : n \in 1 .. Len(msgs[i])}
Owned(m)  == m = pMsg \/ (\E i \in Queues : m \in Queued(i)) \/ (\E t \in Senders : msg[t] = m)
Goto(t, l) == pc' = [pc EXCEPT ![t] = l]
-----------------------------------------------------------------------------
(* A sender: _enqueue or _enqueue_head, and give.                          *)

CallEnqueue(t) ==
    /\ pc[t] = "idle"
    /\ \E m \in Messages, i \in Queues :
         /\ ~ Owned(m)
         /\ msg' = [msg EXCEPT ![t] = m]
         /\ at' = [at EXCEPT ![t] = i]
    /\ Goto(t, "enqueue")
    /\ UNCHANGED <<msgs, waiter_sem, value, semlock, loaded, receiver, late>>

\* lock(); add_tail or add_head; sem = waiter_sem; unlock().
EnqueueLocked(t) ==
    /\ pc[t] = "enqueue"
    /\ \/ msgs' = [msgs EXCEPT ![at[t]] = Append(@, msg[t])]
       \/ msgs' = [msgs EXCEPT ![at[t]] = <<msg[t]>> \o @]
    /\ late' = late \cup {msg[t]}
    /\ msg' = [msg EXCEPT ![t] = Null]
    /\ Goto(t, IF waiter_sem[at[t]] THEN "give" ELSE "idle")
    /\ UNCHANGED <<waiter_sem, value, semlock, loaded, at, receiver>>

\* { Lock lock(&semawait); value++; }: the load.
GiveLoad(t) ==
    /\ pc[t] = "give" /\ semlock = Null
    /\ semlock' = t
    /\ loaded' = value
    /\ Goto(t, "store")
    /\ UNCHANGED <<msgs, waiter_sem, value, msg, at, receiver, late>>

\* ... and the store.
GiveStore(t) ==
    /\ pc[t] = "store"
    /\ value' = IF loaded < MaxValue THEN loaded + 1 ELSE loaded
    /\ semlock' = Null
    /\ Goto(t, "signal")
    /\ UNCHANGED <<msgs, waiter_sem, loaded, msg, at, receiver, late>>

\* semawait.waiterSignal().
Signal(t) ==
    /\ pc[t] = "signal"
    /\ Goto(t, "idle")
    /\ rpc' = IF rpc = "blocked" THEN "signalled" ELSE rpc
    /\ UNCHANGED <<msgs, waiter_sem, value, semlock, loaded, msg, at, ind, timed, pMsg, late>>
-----------------------------------------------------------------------------
(* The receiver.                                                           *)

CallDequeue ==
    /\ rpc = "idle"
    /\ timed' \in BOOLEAN
    /\ rpc' = "publish" /\ ind' = 1
    /\ UNCHANGED <<msgs, waiter_sem, value, sender, pMsg, late>>

\* Mutant: only the queue that owns the semaphore is told of it.
M_PublishFirst ==
    /\ rpc = "publish"
    /\ waiter_sem' = [waiter_sem EXCEPT ![1] = TRUE]
    /\ rpc' = "init" /\ ind' = ind
    /\ UNCHANGED <<msgs, value, sender, timed, pMsg, late>>

\* "add sem to all queues", without their mutexes.
Publish ==
    /\ rpc = "publish"
    /\ waiter_sem' = [waiter_sem EXCEPT ![ind] = TRUE]
    /\ IF ind < NumQueues
       THEN ind' = ind + 1 /\ rpc' = rpc
       ELSE ind' = ind /\ rpc' = "init"
    /\ UNCHANGED <<msgs, value, sender, timed, pMsg, late>>

\* sem->init(0), without its lock; and into the do loop.
InitSemaphore ==
    /\ rpc = "init"
    /\ value' = 0
    /\ rpc' = "scan" /\ ind' = 1 /\ late' = {}
    /\ UNCHANGED <<msgs, waiter_sem, sender, timed, pMsg>>

Found ==
    /\ msgs[ind] # <<>>
    /\ pMsg' = Head(msgs[ind])
    /\ msgs' = [msgs EXCEPT ![ind] = Tail(@)]
    /\ rpc' = "clear" /\ ind' = 1

\* Mutant: the semaphore is reset after the pass instead of before it.
M_ScanThenInit ==
    /\ rpc = "scan"
    /\ \/ Found /\ value' = value
       \/ /\ msgs[ind] = <<>>
          /\ IF ind < NumQueues
             THEN ind' = ind + 1 /\ rpc' = rpc /\ value' = value
             ELSE ind' = ind /\ rpc' = "take" /\ value' = 0
          /\ UNCHANGED <<msgs, pMsg>>
    /\ UNCHANGED <<waiter_sem, sender, timed, late>>

\* lock(); __dequeue(); unlock(), on the queues in order up to the first message.
Scan ==
    /\ rpc = "scan"
    /\ \/ Found
       \/ /\ msgs[ind] = <<>>
          /\ IF ind < NumQueues
             THEN ind' = ind + 1 /\ rpc' = rpc
             ELSE ind' = ind /\ rpc' = "take"
          /\ UNCHANGED <<msgs, pMsg>>
    /\ UNCHANGED <<waiter_sem, value, sender, timed, late>>

\* Mutant: the pass after a give starts at the queue where the last one ended.
M_TakeResumes ==
    /\ rpc \in {"take", "signalled"} /\ semlock = Null
    /\ IF value > 0
       THEN value' = value - 1 /\ rpc' = "scan" /\ ind' = ind /\ late' = {}
       ELSE rpc' = "blocked" /\ UNCHANGED <<value, ind, late>>
    /\ UNCHANGED <<msgs, waiter_sem, sender, timed, pMsg>>

\* sem->take(): the lock, and its loop from a test of value to the next wait.
Take ==
    /\ rpc \in {"take", "signalled"} /\ semlock = Null
    /\ IF value > 0
       THEN value' = value - 1 /\ rpc' = "scan" /\ ind' = 1 /\ late' = {}
       ELSE rpc' = "blocked" /\ UNCHANGED <<value, ind, late>>
    /\ UNCHANGED <<msgs, waiter_sem, sender, timed, pMsg>>

\* pthread_cond_timedwait refuses an abstime whose tv_nsec is 1000000000, which
\* setup_abstime can return: take() returns false at once.
TakeRefused ==
    /\ rpc \in {"take", "signalled"} /\ semlock = Null
    /\ timed /\ value = 0
    /\ rpc' = "clear" /\ ind' = 1
    /\ UNCHANGED <<msgs, waiter_sem, value, sender, timed, pMsg, late>>

\* The deadline passes.
Expire ==
    /\ rpc = "blocked" /\ timed
    /\ rpc' = "expired"
    /\ UNCHANGED <<msgs, waiter_sem, value, sender, ind, timed, pMsg, late>>

SpuriousWakeup ==
    /\ rpc = "blocked"
    /\ rpc' = "signalled"
    /\ UNCHANGED <<msgs, waiter_sem, value, sender, ind, timed, pMsg, late>>

\* Mutant: the loop of take goes on after a timeout.
M_ExpiredRetries ==
    /\ rpc = "expired" /\ semlock = Null
    /\ rpc' = "take"
    /\ UNCHANGED <<msgs, waiter_sem, value, sender, ind, timed, pMsg, late>>

\* With the lock back, take() returns false without a look at value, and
\* _dequeue breaks out of its loop without a look at the queues.
Expired ==
    /\ rpc = "expired" /\ semlock = Null
    /\ rpc' = "clear" /\ ind' = 1
    /\ UNCHANGED <<msgs, waiter_sem, value, sender, timed, pMsg, late>>

\* "remove sem from all queues", without their mutexes.
Clear ==
    /\ rpc = "clear"
    /\ waiter_sem' = [waiter_sem EXCEPT ![ind] = FALSE]
    /\ IF ind < NumQueues
       THEN ind' = ind + 1 /\ rpc' = rpc
       ELSE ind' = ind /\ rpc' = "returned"
    /\ UNCHANGED <<msgs, value, sender, timed, pMsg, late>>

Return ==
    /\ rpc = "returned"
    /\ rpc' = "idle" /\ pMsg' = Null
    /\ UNCHANGED <<msgs, waiter_sem, value, sender, ind, timed, late>>
-----------------------------------------------------------------------------
Sender(t) == EnqueueLocked(t) \/ GiveLoad(t) \/ GiveStore(t) \/ Signal(t)
Receiver  == Publish \/ InitSemaphore \/ Scan \/ Take \/ TakeRefused \/ Expired \/ Clear \/ Return

Next ==
    \/ \E t \in Senders : CallEnqueue(t) \/ Sender(t)
    \/ CallDequeue \/ Receiver \/ Expire \/ SpuriousWakeup

SafeSpec == Init /\ [][Next]_vars

\* Threads that can run do run.  A sender in the critical section of give leaves
\* it, so the receiver gets the lock (strong fairness: others may take it in
\* between), and a deadline that has passed ends every later wait.
Fairness ==
    /\ \A t \in Senders : SF_vars(Sender(t))
    /\ SF_vars(Receiver)
    /\ SF_vars(Expire)

Spec == SafeSpec /\ Fairness
-----------------------------------------------------------------------------
Announcing == \E t \in Senders : pc[t] \in {"give", "store", "signal"}
Waiting    == \E i \in Queues : msgs[i] # <<>>

\* The receiver never sleeps on a message, nor on a positive semaphore, that
\* nobody is about to wake it for: although it publishes the semaphore and resets
\* it with no lock, a message either is there before its pass over the queues or
\* is announced after the reset.
NoSleepOnMessage == rpc = "blocked" /\ (Waiting \/ value > 0) => Announcing

\* "dequeue from a set of queues in priority order": a message is taken from a
\* queue only when those before it hold nothing older than the pass itself.
PriorityKept ==
    [][pMsg = Null /\ pMsg' # Null =>
         \A i \in 1 .. ind - 1 : Queued(i) \subseteq late]_vars

\* A call made or waiting while a queue holds a message returns, with or
\* without a deadline.
MessageServed == (rpc \notin {"idle", "returned"} /\ Waiting) ~> rpc = "returned"

\* A call with a deadline returns, however often it is woken for nothing.
TimedReturns == (rpc = "publish" /\ timed) ~> rpc = "returned"
=============================================================================
