---------------------------- MODULE SlingerQueue ----------------------------
(***************************************************************************)
(* _thread_slinger_queue, the single-queue half: _enqueue, _enqueue_head   *)
(* (lib/thread_slinger.cc) and _dequeue_int (lib/thread_slinger.tcc).      *)
(*                                                                         *)
(* Everything between lock() and unlock() touches only state the mutex     *)
(* protects, so a critical section is one step.  The steps that are        *)
(* separate are those the code separates: the signal comes after unlock(), *)
(* a waiter leaves the mutex while it waits, and a woken waiter has to get *)
(* the mutex back before it looks at the list again.                       *)
(*                                                                         *)
(* The callers are any threads with any interleaving; a caller enqueues    *)
(* only a message that is neither queued nor in another thread's call.     *)
(***************************************************************************)
EXTENDS Naturals, Sequences, FiniteSets

CONSTANTS
    Threads,     \* the threads that use the queue
    Messages,    \* the messages that go through it
    Null,        \* the null pointer
    ClientWaits  \* the classes of uSecs the callers pass to dequeue

\* The classes of uSecs _dequeue_int tells apart: 0, -1, > 0, and < -1.
WaitClasses == {"zero", "forever", "timed", "negative"}

ASSUME QueueAssumption ==
    /\ IsFiniteSet(Threads)
    /\ Null \notin Messages
    /\ ClientWaits \subseteq WaitClasses

VARIABLES
    msgs,    \* messageList_t msgs, head first
    waiter,  \* waiter # NULL; there is one condition variable, _waiter
    pc,      \* pc[t]: where thread t is
    msg,     \* msg[t]: the argument of an enqueue, the result of a dequeue
    opt      \* opt[t]: which end of the list, and the class of uSecs

vars == <<msgs, waiter, pc, msg, opt>>

PCs == {"idle",
        "enqueue",    \* called, before lock()
        "signal",     \* after unlock(), before pthread_cond_signal
        "dequeue",    \* called, before lock()
        "blocked",    \* inside pthread_cond_(timed)wait, mutex released
        "signalled",  \* the wait ended with 0, mutex not yet back
        "expired",    \* the wait ended with an error, mutex not yet back
        "returned"}   \* result in msg[t]

NoCall == [uSecs |-> "zero", tail |-> FALSE]

Init ==
    /\ msgs = <<>>
    /\ waiter = FALSE
    /\ pc = [t \in Threads |-> "idle"]
    /\ msg = [t \in Threads |-> Null]
    /\ opt = [t \in Threads |-> NoCall]

InQueue(m) == \E i \in 1 .. Len(msgs) : msgs[i] = m
Owned(m)   == InQueue(m) \/ \E t \in Threads : msg[t] = m
Blocked    == {t \in Threads : pc[t] = "blocked"}

-----------------------------------------------------------------------------
(* enqueue                                                                 *)

CallEnqueue(t) ==
    /\ pc[t] = "idle"
    /\ \E m \in Messages :
         /\ ~ Owned(m)
         /\ msg' = [msg EXCEPT ![t] = m]
    /\ \E tail \in BOOLEAN :   \* enqueue() or enqueue_head()
         opt' = [opt EXCEPT ![t] = [uSecs |-> "zero", tail |-> tail]]
    /\ pc' = [pc EXCEPT ![t] = "enqueue"]
    /\ UNCHANGED <<msgs, waiter>>

\* Mutant: signals only when the list was empty.
M_EnqueueSignalsFirstOnly(t) ==
    /\ pc[t] = "enqueue"
    /\ msgs' = IF opt[t].tail THEN Append(msgs, msg[t]) ELSE <<msg[t]>> \o msgs
    /\ msg' = [msg EXCEPT ![t] = Null]
    /\ pc' = [pc EXCEPT ![t] = IF waiter /\ msgs = <<>> THEN "signal" ELSE "idle"]
    /\ opt' = [opt EXCEPT ![t] = NoCall]
    /\ UNCHANGED waiter

\* lock(); add; read waiter; unlock().
EnqueueLocked(t) ==
    /\ pc[t] = "enqueue"
    /\ msgs' = IF opt[t].tail THEN Append(msgs, msg[t]) ELSE <<msg[t]>> \o msgs
    /\ msg' = [msg EXCEPT ![t] = Null]
    /\ pc' = [pc EXCEPT ![t] = IF waiter THEN "signal" ELSE "idle"]
    /\ opt' = [opt EXCEPT ![t] = NoCall]
    /\ UNCHANGED waiter

\* if (w) pthread_cond_signal(w): wakes one of the threads that wait now.
Signal(t) ==
    /\ pc[t] = "signal"
    /\ IF Blocked = {}
       THEN pc' = [pc EXCEPT ![t] = "idle"]
       ELSE \E c \in Blocked :
              pc' = [pc EXCEPT ![t] = "idle", ![c] = "signalled"]
    /\ UNCHANGED <<msgs, waiter, msg, opt>>

-----------------------------------------------------------------------------
(* dequeue                                                                 *)

CallDequeue(t) ==
    /\ pc[t] = "idle"
    /\ \E u \in ClientWaits, tail \in BOOLEAN :  \* dequeue() or dequeue_tail()
         opt' = [opt EXCEPT ![t] = [uSecs |-> u, tail |-> tail]]
    /\ pc' = [pc EXCEPT ![t] = "dequeue"]
    /\ UNCHANGED <<msgs, waiter, msg>>

\* __dequeue() or __dequeue_tail() on a list that is not empty, and unlock().
TakeMessage(t) ==
    /\ msgs # <<>>
    /\ IF opt[t].tail
       THEN /\ msg' = [msg EXCEPT ![t] = msgs[Len(msgs)]]
            /\ msgs' = SubSeq(msgs, 1, Len(msgs) - 1)
       ELSE /\ msg' = [msg EXCEPT ![t] = Head(msgs)]
            /\ msgs' = Tail(msgs)
    /\ pc' = [pc EXCEPT ![t] = "returned"]
    /\ UNCHANGED <<waiter, opt>>

\* unlock() and return NULL.
ReturnNull(t) ==
    /\ msgs = <<>>
    /\ pc' = [pc EXCEPT ![t] = "returned"]
    /\ UNCHANGED <<msgs, waiter, msg, opt>>

\* waiter = &_waiter, then the wait releases the mutex.  waiter stays set
\* for the life of the queue: the lines that would clear it are commented out.
Wait(t) ==
    /\ msgs = <<>>
    /\ opt[t].uSecs # "zero"
    /\ waiter' = TRUE
    /\ pc' = [pc EXCEPT ![t] = "blocked"]
    /\ UNCHANGED <<msgs, msg, opt>>

\* pthread_cond_timedwait refuses the abstime without releasing the mutex:
\* setup_abstime leaves tv_nsec at exactly 1000000000 when the sum is that,
\* and does not fill abstime at all for uSecs < -1.
RefuseAbstime(t) ==
    /\ msgs = <<>>
    /\ opt[t].uSecs \in {"timed", "negative"}
    /\ waiter' = TRUE
    /\ pc' = [pc EXCEPT ![t] = "returned"]
    /\ UNCHANGED <<msgs, msg, opt>>

\* The first look at the list, with the mutex: uSecs = 0 never waits.
DequeueLocked(t) ==
    /\ pc[t] = "dequeue"
    /\ \/ TakeMessage(t)
       \/ opt[t].uSecs = "zero" /\ ReturnNull(t)
       \/ Wait(t)
       \/ RefuseAbstime(t)

\* Mutant: the commented-out "waiter = NULL" after the wait is restored.
M_WakeClearsWaiter(t) ==
    /\ pc[t] = "signalled"
    /\ \/ /\ msgs # <<>>
          /\ msg' = [msg EXCEPT ![t] = IF opt[t].tail THEN msgs[Len(msgs)] ELSE Head(msgs)]
          /\ msgs' = IF opt[t].tail THEN SubSeq(msgs, 1, Len(msgs) - 1) ELSE Tail(msgs)
          /\ pc' = [pc EXCEPT ![t] = "returned"]
          /\ waiter' = FALSE
          /\ UNCHANGED opt
       \/ Wait(t)
       \/ RefuseAbstime(t)

\* The wait ended with 0: back in the while loop, which tests the list again.
WakeLocked(t) ==
    /\ pc[t] = "signalled"
    /\ \/ TakeMessage(t)
       \/ Wait(t)
       \/ RefuseAbstime(t)

\* Mutant: returns NULL on a timeout without a last look at the list.
M_ExpireGivesUp(t) ==
    /\ pc[t] = "expired"
    /\ pc' = [pc EXCEPT ![t] = "returned"]
    /\ UNCHANGED <<msgs, waiter, msg, opt>>

\* Mutant: the result of the timed wait is ignored, the loop goes on.
M_ExpireIgnored(t) ==
    /\ pc[t] = "expired"
    /\ TakeMessage(t) \/ Wait(t)

\* The wait ended with an error: break, then take whatever is there.
ExpireLocked(t) ==
    /\ pc[t] = "expired"
    /\ TakeMessage(t) \/ ReturnNull(t)

\* The deadline passes.  uSecs < -1 waits on an abstime in the past.
Expire(t) ==
    /\ pc[t] = "blocked"
    /\ opt[t].uSecs \in {"timed", "negative"}
    /\ pc' = [pc EXCEPT ![t] = "expired"]
    /\ UNCHANGED <<msgs, waiter, msg, opt>>

\* A condition variable may wake a waiter nobody signalled.
SpuriousWakeup(t) ==
    /\ pc[t] = "blocked"
    /\ pc' = [pc EXCEPT ![t] = "signalled"]
    /\ UNCHANGED <<msgs, waiter, msg, opt>>

Return(t) ==
    /\ pc[t] = "returned"
    /\ pc' = [pc EXCEPT ![t] = "idle"]
    /\ msg' = [msg EXCEPT ![t] = Null]
    /\ opt' = [opt EXCEPT ![t] = NoCall]
    /\ UNCHANGED <<msgs, waiter>>

-----------------------------------------------------------------------------
Next == \E t \in Threads :
    \/ CallEnqueue(t) \/ EnqueueLocked(t) \/ Signal(t)
    \/ CallDequeue(t) \/ DequeueLocked(t) \/ WakeLocked(t) \/ ExpireLocked(t)
    \/ Expire(t) \/ SpuriousWakeup(t) \/ Return(t)

SafeSpec == Init /\ [][Next]_vars

\* The scheduler runs every thread that is not blocked.  An absolute deadline
\* that has passed ends every later wait, so a waiter that keeps being woken
\* for nothing expires in the end: strong fairness of Expire.  Nothing is
\* assumed of the callers (CallEnqueue, CallDequeue) nor of spurious wakeups.
Fairness == \A t \in Threads :
    /\ WF_vars(EnqueueLocked(t))
    /\ WF_vars(Signal(t))
    /\ WF_vars(DequeueLocked(t))
    /\ WF_vars(WakeLocked(t))
    /\ WF_vars(ExpireLocked(t))
    /\ WF_vars(Return(t))
    /\ SF_vars(Expire(t))

Spec == SafeSpec /\ Fairness

-----------------------------------------------------------------------------
(* Properties                                                              *)

\* Every variable has the type the code gives it.
TypeOK ==
    /\ msgs \in Seq(Messages)
    /\ waiter \in BOOLEAN
    /\ pc \in [Threads -> PCs]
    /\ msg \in [Threads -> Messages \cup {Null}]
    /\ opt \in [Threads -> [uSecs : WaitClasses, tail : BOOLEAN]]

\* A blocked receiver is always visible to the next _enqueue, which reads
\* waiter under the mutex: the two "wrong waiter = NULL" lines stay out.
WaiterVisible == Blocked # {} => waiter

Signallers == {t \in Threads : pc[t] = "signal"}
Signalled  == {t \in Threads : pc[t] = "signalled"}

\* No lost wakeup: as long as a receiver is blocked, every message in the list
\* has a wakeup of its own under way, a signal that an _enqueue is about to
\* send or a woken receiver that has not looked at the list yet.
NoLostWakeup ==
    Blocked # {} => Len(msgs) <= Cardinality(Signallers) + Cardinality(Signalled)

\* A message is in one place: queued once, or in the call of one thread.  Two
\* receivers never get the same message, and none is on the list twice.
OnePlace ==
    /\ \A i, j \in 1 .. Len(msgs) : msgs[i] = msgs[j] => i = j
    /\ \A t \in Threads : msg[t] # Null => ~ InQueue(msg[t])
    /\ \A s, t \in Threads : msg[s] = msg[t] /\ msg[s] # Null => s = t

\* The two-step handshake and the list implement an atomic deque: a NULL
\* result only when the deque was empty, never for uSecs = -1, and a
\* receiver is served while messages stay available.
PhaseOf(t) ==
    CASE pc[t] = "enqueue" -> "putting"
      [] pc[t] \in {"dequeue", "blocked", "signalled", "expired"} -> "taking"
      [] pc[t] = "returned" -> "returned"
      [] OTHER -> "idle"
Phase == [t \in Threads |-> PhaseOf(t)]
Deque == INSTANCE MessageDeque WITH content <- msgs, phase <- Phase, arg <- msg
ImplementsDeque == Deque!Spec

\* A dequeue that does not wait for ever (uSecs # -1) returns, whatever the
\* other threads do and however often it is woken for nothing.
TimedDequeueReturns == \A t \in Threads :
    (pc[t] = "dequeue" /\ opt[t].uSecs # "forever") ~> (pc[t] = "returned")

\* A message enqueued for a blocked receiver does not rest in the list: it is
\* taken, or the receivers stop waiting.
QueuedMessageMoves ==
    (msgs # <<>> /\ Blocked # {}) ~> (msgs = <<>> \/ Blocked = {})
=============================================================================
