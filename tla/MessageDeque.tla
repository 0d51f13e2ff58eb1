---------------------------- MODULE MessageDeque ----------------------------
(***************************************************************************)
(* What a thread_slinger_queue promises its callers: a double-ended queue  *)
(* of messages on which every call takes effect in one step between its    *)
(* call and its return.  There is no mutex, no condition variable and no   *)
(* wakeup here; SlingerQueue shows that the code's use of those implements *)
(* this specification.                                                     *)
(***************************************************************************)
EXTENDS Naturals, Sequences

CONSTANTS
    Threads,     \* the threads that use the queue
    Messages,    \* the messages that go through it
    Null,        \* the null pointer
    ClientWaits  \* the classes of uSecs the callers pass to dequeue

VARIABLES
    content,     \* the queued messages, head first
    phase,       \* phase[t]: where thread t is in its call
    arg,         \* arg[t]: the message put, or the result taken
    opt          \* opt[t]: which end, and the class of uSecs

vars == <<content, phase, arg, opt>>

NoCall == [uSecs |-> "zero", tail |-> FALSE]

Init ==
    /\ content = <<>>
    /\ phase = [t \in Threads |-> "idle"]
    /\ arg = [t \in Threads |-> Null]
    /\ opt = [t \in Threads |-> NoCall]

CallPut(t) ==
    /\ phase[t] = "idle"
    /\ phase' = [phase EXCEPT ![t] = "putting"]
    /\ \E m \in Messages : arg' = [arg EXCEPT ![t] = m]
    /\ \E tail \in BOOLEAN :
         opt' = [opt EXCEPT ![t] = [uSecs |-> "zero", tail |-> tail]]
    /\ UNCHANGED content

Put(t) ==
    /\ phase[t] = "putting"
    /\ content' = IF opt[t].tail THEN Append(content, arg[t])
                                 ELSE <<arg[t]>> \o content
    /\ phase' = [phase EXCEPT ![t] = "idle"]
    /\ arg' = [arg EXCEPT ![t] = Null]
    /\ opt' = [opt EXCEPT ![t] = NoCall]

CallTake(t) ==
    /\ phase[t] = "idle"
    /\ phase' = [phase EXCEPT ![t] = "taking"]
    /\ \E u \in ClientWaits, tail \in BOOLEAN :
         opt' = [opt EXCEPT ![t] = [uSecs |-> u, tail |-> tail]]
    /\ UNCHANGED <<content, arg>>

Take(t) ==
    /\ phase[t] = "taking"
    /\ content # <<>>
    /\ IF opt[t].tail
       THEN /\ arg' = [arg EXCEPT ![t] = content[Len(content)]]
            /\ content' = SubSeq(content, 1, Len(content) - 1)
       ELSE /\ arg' = [arg EXCEPT ![t] = Head(content)]
            /\ content' = Tail(content)
    /\ phase' = [phase EXCEPT ![t] = "returned"]
    /\ UNCHANGED opt

\* A take comes back empty-handed only at a moment the queue is empty, and
\* never when the caller asked to wait for ever (uSecs = -1).
Fail(t) ==
    /\ phase[t] = "taking"
    /\ content = <<>>
    /\ opt[t].uSecs # "forever"
    /\ phase' = [phase EXCEPT ![t] = "returned"]
    /\ UNCHANGED <<content, arg, opt>>

Return(t) ==
    /\ phase[t] = "returned"
    /\ phase' = [phase EXCEPT ![t] = "idle"]
    /\ arg' = [arg EXCEPT ![t] = Null]
    /\ opt' = [opt EXCEPT ![t] = NoCall]
    /\ UNCHANGED content

Next == \E t \in Threads :
    \/ CallPut(t) \/ Put(t)
    \/ CallTake(t) \/ Take(t) \/ Fail(t)
    \/ Return(t)

SafeSpec == Init /\ [][Next]_vars

\* A put completes, a taker is served while messages stay available, and a
\* taker that need not wait for ever gets an answer one way or the other.
Fairness == \A t \in Threads :
    /\ WF_vars(Put(t))
    /\ WF_vars(Take(t))
    /\ WF_vars(Take(t) \/ Fail(t))
    /\ WF_vars(Return(t))

Spec == SafeSpec /\ Fairness
=============================================================================
