------------------------ MODULE SlingerQueue_proofs ------------------------
(***************************************************************************)
(* What SlingerQueue guarantees for every number of threads and messages:  *)
(* types, the no-lost-wakeup invariant, and the refinement of MessageDeque *)
(* (its safety part).                                                      *)
(***************************************************************************)
EXTENDS SlingerQueue, FiniteSetTheorems, SequenceTheorems, TLAPS

\* What a thread's position says of its call.
CallShape == \A t \in Threads :
    /\ pc[t] = "enqueue" => msg[t] \in Messages
    /\ pc[t] = "expired" => opt[t].uSecs \in {"timed", "negative"}

\* The two counters of NoLostWakeup after a step that moves one thread, or
\* two, between positions.
LEMMA CountMoves ==
    ASSUME NEW S, IsFiniteSet(S), NEW x
    PROVE  /\ Cardinality(S) \in Nat
           /\ x \notin S => /\ IsFiniteSet(S \cup {x})
                            /\ Cardinality(S \cup {x}) = Cardinality(S) + 1
           /\ x \in S    => /\ IsFiniteSet(S \ {x})
                            /\ Cardinality(S \ {x}) = Cardinality(S) - 1
           /\ x \notin S => S \ {x} = S
<1>1. Cardinality(S) \in Nat
  BY FS_CardinalityType
<1>2. x \notin S => IsFiniteSet(S \cup {x}) /\ Cardinality(S \cup {x}) = Cardinality(S) + 1
  BY FS_AddElement
<1>3. x \in S => IsFiniteSet(S \ {x}) /\ Cardinality(S \ {x}) = Cardinality(S) - 1
  BY FS_RemoveElement
<1>4. x \notin S => S \ {x} = S
  OBVIOUS
<1> QED BY <1>1, <1>2, <1>3, <1>4

\* dequeue_tail shortens the list by its last message.
LEMMA DropLast ==
    ASSUME NEW T, NEW s \in Seq(T), s # <<>>
    PROVE  /\ SubSeq(s, 1, Len(s) - 1) \in Seq(T)
           /\ Len(SubSeq(s, 1, Len(s) - 1)) = Len(s) - 1
           /\ \A i \in 1 .. Len(s) - 1 : SubSeq(s, 1, Len(s) - 1)[i] = s[i]
<1>1. Len(s) \in Nat /\ Len(s) > 0 /\ \A i \in 1 .. Len(s) : s[i] \in T
  OBVIOUS
<1>2. PICK n \in Nat : n = Len(s) - 1
  BY <1>1
<1>3. \A i \in 1 .. n : s[i] \in T
  BY <1>1, <1>2
<1>4. /\ SubSeq(s, 1, n) \in Seq(T)
      /\ Len(SubSeq(s, 1, n)) = IF 1 <= n THEN n - 1 + 1 ELSE 0
      /\ \A i \in 1 .. n - 1 + 1 : SubSeq(s, 1, n)[i] = s[1 + i - 1]
  BY <1>3, SubSeqProperties
<1>5. \A i \in 1 .. n : SubSeq(s, 1, n)[i] = s[i]
  BY <1>4
<1>6. Len(SubSeq(s, 1, n)) = n
  BY <1>4
<1> QED BY <1>2, <1>4, <1>5, <1>6

\* Sets of threads have a cardinality.
LEMMA FiniteThreadSets ==
    ASSUME NEW P \in SUBSET Threads
    PROVE  IsFiniteSet(P) /\ Cardinality(P) \in Nat
BY QueueAssumption, FS_Subset, FS_CardinalityType

-----------------------------------------------------------------------------
(* Type correctness                                                        *)

TInv == TypeOK /\ CallShape

\* The queue starts empty and every thread outside a call.
LEMMA TInvInit == Init => TInv
<1> SUFFICES ASSUME Init PROVE TInv
  OBVIOUS
<1>1. msgs \in Seq(Messages)
  BY DEF Init
<1>2. opt \in [Threads -> [uSecs : WaitClasses, tail : BOOLEAN]]
  BY DEF Init, NoCall, WaitClasses
<1>3. waiter \in BOOLEAN
  BY DEF Init
<1>4. pc \in [Threads -> PCs] /\ msg \in [Threads -> Messages \cup {Null}]
  BY DEF Init, PCs
<1>5. CallShape
  BY DEF Init, CallShape
<1> QED BY <1>1, <1>2, <1>3, <1>4, <1>5 DEF TInv, TypeOK

\* The pieces a dequeue is made of keep the types, whoever runs them.
LEMMA DequeueParts ==
    ASSUME TInv, NEW t \in Threads,
           pc[t] \in {"dequeue", "signalled", "expired"},
           \/ TakeMessage(t) \/ Wait(t) \/ RefuseAbstime(t) \/ ReturnNull(t)
    PROVE  TInv'
<1> USE DEF TInv
<1>1. CASE TakeMessage(t)
  <2>1. msgs # <<>> /\ msgs \in Seq(Messages)
    BY <1>1 DEF TakeMessage, TypeOK
  <2>2. /\ Head(msgs) \in Messages /\ Tail(msgs) \in Seq(Messages)
        /\ msgs[Len(msgs)] \in Messages
        /\ SubSeq(msgs, 1, Len(msgs) - 1) \in Seq(Messages)
    BY <2>1, DropLast
  <2>3. msgs' \in Seq(Messages) /\ msg' \in [Threads -> Messages \cup {Null}]
    BY <1>1, <2>2 DEF TakeMessage, TypeOK
  <2>4. \A u \in Threads : u # t => msg'[u] = msg[u] /\ pc'[u] = pc[u]
    BY <1>1 DEF TakeMessage, TypeOK
  <2>5. pc'[t] = "returned" /\ pc' \in [Threads -> PCs] /\ opt' = opt /\ waiter' = waiter
    BY <1>1 DEF TakeMessage, TypeOK, PCs
  <2> QED BY <2>3, <2>4, <2>5 DEF TypeOK, CallShape
<1>2. CASE Wait(t)
  BY <1>2 DEF Wait, TypeOK, CallShape, PCs
<1>3. CASE RefuseAbstime(t)
  BY <1>3 DEF RefuseAbstime, TypeOK, CallShape, PCs
<1>4. CASE ReturnNull(t)
  BY <1>4 DEF ReturnNull, TypeOK, CallShape, PCs
<1> QED BY <1>1, <1>2, <1>3, <1>4

\* Every step of a call keeps the types and the shape of the calls.
LEMMA TInvNext ==
    ASSUME TInv, [Next]_vars
    PROVE  TInv'
<1> USE DEF TInv
<1>0. CASE UNCHANGED vars
  BY <1>0 DEF vars, TypeOK, CallShape
<1> SUFFICES ASSUME NEW t \in Threads,
                    \/ CallEnqueue(t) \/ EnqueueLocked(t) \/ Signal(t)
                    \/ CallDequeue(t) \/ DequeueLocked(t) \/ WakeLocked(t)
                    \/ ExpireLocked(t) \/ Expire(t) \/ SpuriousWakeup(t) \/ Return(t)
             PROVE  TInv'
  BY <1>0 DEF Next
<1>1. CASE CallEnqueue(t)
  <2>1. PICK m \in Messages, tail \in BOOLEAN :
          /\ msg' = [msg EXCEPT ![t] = m]
          /\ opt' = [opt EXCEPT ![t] = [uSecs |-> "zero", tail |-> tail]]
    BY <1>1 DEF CallEnqueue
  <2> QED BY <1>1, <2>1 DEF CallEnqueue, TypeOK, CallShape, PCs, WaitClasses
<1>2. CASE EnqueueLocked(t)
  <2>1. msg[t] \in Messages /\ msgs \in Seq(Messages)
    BY <1>2 DEF EnqueueLocked, CallShape, TypeOK
  <2>2. Append(msgs, msg[t]) \in Seq(Messages) /\ <<msg[t]>> \o msgs \in Seq(Messages)
    BY <2>1
  <2>3. msgs' \in Seq(Messages)
    BY <1>2, <2>2 DEF EnqueueLocked
  <2>4. opt' \in [Threads -> [uSecs : WaitClasses, tail : BOOLEAN]]
    BY <1>2 DEF EnqueueLocked, TypeOK, NoCall, WaitClasses
  <2>5. pc' \in [Threads -> PCs] /\ msg' \in [Threads -> Messages \cup {Null}] /\ waiter' \in BOOLEAN
    BY <1>2 DEF EnqueueLocked, TypeOK, PCs
  <2>6. CallShape'
    BY <1>2 DEF EnqueueLocked, TypeOK, CallShape
  <2> QED BY <2>3, <2>4, <2>5, <2>6 DEF TypeOK
<1>3. CASE Signal(t)
  <2>1. CASE Blocked = {}
    BY <1>3, <2>1 DEF Signal, TypeOK, CallShape, PCs
  <2>2. CASE Blocked # {}
    <3>1. PICK c \in Threads : pc' = [pc EXCEPT ![t] = "idle", ![c] = "signalled"]
      BY <1>3, <2>2 DEF Signal, Blocked
    <3> QED BY <1>3, <3>1 DEF Signal, TypeOK, CallShape, PCs
  <2> QED BY <2>1, <2>2
<1>4. CASE CallDequeue(t)
  <2>1. PICK u \in ClientWaits, tail \in BOOLEAN :
          opt' = [opt EXCEPT ![t] = [uSecs |-> u, tail |-> tail]]
    BY <1>4 DEF CallDequeue
  <2> QED BY <1>4, <2>1, QueueAssumption DEF CallDequeue, TypeOK, CallShape, PCs
<1>5. CASE DequeueLocked(t)
  BY <1>5, DequeueParts DEF DequeueLocked
<1>6. CASE WakeLocked(t)
  BY <1>6, DequeueParts DEF WakeLocked
<1>7. CASE ExpireLocked(t)
  BY <1>7, DequeueParts DEF ExpireLocked
<1>8. CASE Expire(t)
  BY <1>8 DEF Expire, TypeOK, CallShape, PCs
<1>9. CASE SpuriousWakeup(t)
  BY <1>9 DEF SpuriousWakeup, TypeOK, CallShape, PCs
<1>10. CASE Return(t)
  BY <1>10 DEF Return, TypeOK, CallShape, PCs, NoCall, WaitClasses
<1> QED BY <1>1, <1>2, <1>3, <1>4, <1>5, <1>6, <1>7, <1>8, <1>9, <1>10

\* Every state of the queue is well typed: no thread ever hands _enqueue a
\* NULL message, and only a timed wait can end with an error.
THEOREM QueueTypes == Spec => []TypeOK
<1>1. Init => TInv
  BY TInvInit
<1>2. TInv /\ [Next]_vars => TInv'
  BY TInvNext
<1>3. TInv => TypeOK
  BY DEF TInv
<1> QED BY <1>1, <1>2, <1>3, PTL DEF Spec, SafeSpec

-----------------------------------------------------------------------------
(* No lost wakeup                                                          *)

WInv == TInv /\ WaiterVisible /\ NoLostWakeup

\* At the start nobody is blocked.
LEMMA WInvInit == Init => WInv
<1> SUFFICES ASSUME Init PROVE WInv
  OBVIOUS
<1>1. Blocked = {}
  BY DEF Init, Blocked
<1> QED BY <1>1, TInvInit DEF WInv, WaiterVisible, NoLostWakeup

\* Every way to finish or to start a wait with the mutex held.  The thread
\* that runs it may itself be a woken one, which is then no longer counted.
LEMMA DequeueWakeups ==
    ASSUME WInv, NEW t \in Threads,
           pc[t] \in {"dequeue", "signalled", "expired"},
           \/ TakeMessage(t) \/ Wait(t) \/ RefuseAbstime(t) \/ ReturnNull(t)
    PROVE  WaiterVisible' /\ NoLostWakeup'
<1> DEFINE S == Signallers
           W == Signalled
<1>0. /\ msgs \in Seq(Messages) /\ pc \in [Threads -> PCs]
      /\ IsFiniteSet(S) /\ Cardinality(S) \in Nat
      /\ IsFiniteSet(W) /\ Cardinality(W) \in Nat
  BY FiniteThreadSets DEF WInv, TInv, TypeOK, Signallers, Signalled
<1>1. CASE TakeMessage(t)
  <2>1. /\ Blocked' = Blocked /\ S' = S /\ W' = W \ {t} /\ waiter' = waiter
    BY <1>0, <1>1 DEF TakeMessage, Blocked, Signallers, Signalled
  <2>2. msgs # <<>> /\ Len(msgs') = Len(msgs) - 1 /\ Len(msgs) \in Nat
    <3>1. msgs # <<>> /\ Len(msgs) \in Nat /\ Len(msgs) > 0
      BY <1>0, <1>1 DEF TakeMessage
    <3>2. Len(Tail(msgs)) = Len(msgs) - 1
      BY <1>0, <3>1
    <3>3. Len(SubSeq(msgs, 1, Len(msgs) - 1)) = Len(msgs) - 1
      BY <1>0, <3>1, DropLast
    <3> QED BY <1>1, <3>1, <3>2, <3>3 DEF TakeMessage
  <2>3. Cardinality(W') \in Nat /\ Cardinality(W) <= Cardinality(W') + 1
    <3>0. Cardinality(W') \in Nat
      BY FiniteThreadSets DEF Signalled
    <3>1. CASE t \in W
      <4>1. Cardinality(W \ {t}) = Cardinality(W) - 1
        BY <1>0, <3>1, CountMoves
      <4> QED BY <1>0, <2>1, <3>0, <4>1
    <3>2. CASE t \notin W
      <4>1. W' = W
        BY <2>1, <3>2
      <4> QED BY <1>0, <4>1
    <3> QED BY <3>1, <3>2
  <2> QED BY <1>0, <2>1, <2>2, <2>3 DEF WInv, WaiterVisible, NoLostWakeup
<1>2. CASE Wait(t) \/ RefuseAbstime(t) \/ ReturnNull(t)
  <2>1. msgs' = <<>> /\ (waiter => waiter')
    BY <1>2 DEF Wait, RefuseAbstime, ReturnNull
  <2>2. Cardinality(S') \in Nat /\ Cardinality(W') \in Nat
    BY FiniteThreadSets DEF Signallers, Signalled
  <2>3. NoLostWakeup'
    BY <2>1, <2>2 DEF NoLostWakeup
  <2>4. (Blocked' # {}) => waiter'
    <3>1. CASE ReturnNull(t)
      BY <1>0, <3>1 DEF ReturnNull, Blocked, WInv, WaiterVisible
    <3>2. CASE Wait(t) \/ RefuseAbstime(t)
      BY <3>2 DEF Wait, RefuseAbstime
    <3> QED BY <1>2, <3>1, <3>2
  <2> QED BY <2>3, <2>4 DEF WaiterVisible
<1> QED BY <1>1, <1>2

\* Every step keeps the waiter visible and a wakeup for every message.
LEMMA WInvNext ==
    ASSUME WInv, [Next]_vars
    PROVE  WInv'
<1> DEFINE S == Signallers
           W == Signalled
<1>0. /\ msgs \in Seq(Messages) /\ Len(msgs) \in Nat /\ pc \in [Threads -> PCs]
      /\ IsFiniteSet(S) /\ Cardinality(S) \in Nat
      /\ IsFiniteSet(W) /\ Cardinality(W) \in Nat
  <2>1. msgs \in Seq(Messages) /\ pc \in [Threads -> PCs]
    BY DEF WInv, TInv, TypeOK
  <2> QED BY <2>1, FiniteThreadSets DEF Signallers, Signalled
<1>t. TInv'
  BY TInvNext DEF WInv
<1> SUFFICES WaiterVisible' /\ NoLostWakeup'
  BY <1>t DEF WInv
<1>u. CASE UNCHANGED vars
  BY <1>u DEF vars, WInv, WaiterVisible, NoLostWakeup, Blocked, Signallers, Signalled
<1> SUFFICES ASSUME NEW t \in Threads,
                    \/ CallEnqueue(t) \/ EnqueueLocked(t) \/ Signal(t)
                    \/ CallDequeue(t) \/ DequeueLocked(t) \/ WakeLocked(t)
                    \/ ExpireLocked(t) \/ Expire(t) \/ SpuriousWakeup(t) \/ Return(t)
             PROVE  WaiterVisible' /\ NoLostWakeup'
  BY <1>u DEF Next
<1>1. CASE CallEnqueue(t) \/ CallDequeue(t) \/ Return(t)
  <2>1. /\ Blocked' = Blocked /\ S' = S /\ W' = W
        /\ waiter' = waiter /\ msgs' = msgs
    BY <1>0, <1>1 DEF CallEnqueue, CallDequeue, Return, Blocked, Signallers, Signalled
  <2> QED BY <2>1 DEF WInv, WaiterVisible, NoLostWakeup
<1>2. CASE EnqueueLocked(t)
  <2>1. Blocked' = Blocked /\ W' = W /\ waiter' = waiter /\ t \notin S
    BY <1>0, <1>2 DEF EnqueueLocked, Blocked, Signallers, Signalled
  <2>2. waiter => S' = S \cup {t}
    BY <1>0, <1>2 DEF EnqueueLocked, Signallers
  <2>3. Len(msgs') = Len(msgs) + 1
    <3>1. msg[t] \in Messages
      BY <1>2 DEF EnqueueLocked, WInv, TInv, CallShape
    <3>2. Len(Append(msgs, msg[t])) = Len(msgs) + 1 /\ Len(<<msg[t]>> \o msgs) = Len(msgs) + 1
      BY <1>0, <3>1
    <3> QED BY <1>2, <3>2 DEF EnqueueLocked
  <2>4. waiter => Cardinality(S') = Cardinality(S) + 1
    BY <1>0, <2>1, <2>2, CountMoves
  <2> QED BY <1>0, <2>1, <2>3, <2>4 DEF WInv, WaiterVisible, NoLostWakeup
<1>3. CASE Signal(t)
  <2>1. CASE Blocked = {}
    <3>1. Blocked' = {}
      BY <1>0, <1>3, <2>1 DEF Signal, Blocked
    <3> QED BY <3>1 DEF WaiterVisible, NoLostWakeup
  <2>2. CASE Blocked # {}
    <3>1. PICK c \in Blocked : pc' = [pc EXCEPT ![t] = "idle", ![c] = "signalled"]
      BY <1>3, <2>2 DEF Signal
    <3>2. /\ t \in S /\ c \notin W /\ c # t
          /\ S' = S \ {t} /\ W' = W \cup {c}
      BY <1>0, <1>3, <3>1 DEF Signal, Blocked, Signallers, Signalled
    <3>3. Cardinality(S') = Cardinality(S) - 1 /\ Cardinality(W') = Cardinality(W) + 1
      BY <1>0, <3>2, CountMoves
    <3>4. msgs' = msgs /\ waiter' = waiter
      BY <1>3 DEF Signal
    <3> QED BY <1>0, <2>2, <3>3, <3>4 DEF WInv, WaiterVisible, NoLostWakeup
  <2> QED BY <2>1, <2>2
<1>4. CASE DequeueLocked(t)
  BY <1>4, DequeueWakeups DEF DequeueLocked
<1>5. CASE WakeLocked(t)
  BY <1>5, DequeueWakeups DEF WakeLocked
<1>6. CASE ExpireLocked(t)
  BY <1>6, DequeueWakeups DEF ExpireLocked
<1>7. CASE Expire(t)
  <2>1. /\ Blocked' \subseteq Blocked /\ S' = S /\ W' = W
        /\ waiter' = waiter /\ msgs' = msgs
    BY <1>0, <1>7 DEF Expire, Blocked, Signallers, Signalled
  <2> QED BY <2>1 DEF WInv, WaiterVisible, NoLostWakeup
<1>8. CASE SpuriousWakeup(t)
  <2>1. /\ Blocked' \subseteq Blocked /\ S' = S /\ W' = W \cup {t} /\ t \notin W
        /\ waiter' = waiter /\ msgs' = msgs
    BY <1>0, <1>8 DEF SpuriousWakeup, Blocked, Signallers, Signalled
  <2>2. Cardinality(W') = Cardinality(W) + 1
    BY <1>0, <2>1, CountMoves
  <2> QED BY <1>0, <2>1, <2>2 DEF WInv, WaiterVisible, NoLostWakeup
<1> QED BY <1>1, <1>2, <1>3, <1>4, <1>5, <1>6, <1>7, <1>8

\* For any number of senders and receivers, a blocked receiver is visible to
\* every later _enqueue: waiter is never NULL while a thread waits.
THEOREM QueueWaiterVisible == Spec => []WaiterVisible
<1>1. WInv => WaiterVisible
  BY DEF WInv
<1> QED BY <1>1, WInvInit, WInvNext, PTL DEF Spec, SafeSpec

\* For any number of senders and receivers, no message is left in the list
\* without a wakeup of its own while a receiver is blocked.
THEOREM QueueNoLostWakeup == Spec => []NoLostWakeup
<1>1. WInv => NoLostWakeup
  BY DEF WInv
<1> QED BY <1>1, WInvInit, WInvNext, PTL DEF Spec, SafeSpec


-----------------------------------------------------------------------------
(* A message is in one place                                               *)

OInv == TInv /\ OnePlace

\* Adding a message that is not queued, at either end, keeps the list free of
\* duplicates and adds nothing else to it.
LEMMA AddFresh ==
    ASSUME NEW s \in Seq(Messages), NEW m \in Messages, NEW r,
           \A i, j \in 1 .. Len(s) : s[i] = s[j] => i = j,
           \A i \in 1 .. Len(s) : s[i] # m,
           r = Append(s, m) \/ r = <<m>> \o s
    PROVE  /\ \A i, j \in 1 .. Len(r) : r[i] = r[j] => i = j
           /\ \A i \in 1 .. Len(r) : r[i] = m \/ \E k \in 1 .. Len(s) : r[i] = s[k]
<1>1. CASE r = Append(s, m)
  BY <1>1
<1>2. CASE r = <<m>> \o s
  <2>1. Len(r) = Len(s) + 1 /\ r[1] = m /\ \A i \in 2 .. Len(r) : r[i] = s[i - 1]
    BY <1>2
  <2>2. \A i \in 1 .. Len(r) : i = 1 \/ (i \in 2 .. Len(r) /\ i - 1 \in 1 .. Len(s))
    BY <2>1
  <2>3. \A i \in 1 .. Len(r) : r[i] = m \/ \E k \in 1 .. Len(s) : r[i] = s[k]
    BY <2>1, <2>2
  <2>4. ASSUME NEW i \in 1 .. Len(r), NEW j \in 1 .. Len(r), r[i] = r[j]
        PROVE  i = j
    <3>1. CASE i = 1 /\ j = 1
      BY <3>1
    <3>2. CASE i # 1 /\ j # 1
      <4>1. s[i - 1] = s[j - 1] /\ i - 1 \in 1 .. Len(s) /\ j - 1 \in 1 .. Len(s)
        BY <2>1, <2>2, <2>4, <3>2
      <4>2. i - 1 = j - 1
        BY <4>1
      <4> QED BY <4>2
    <3>3. CASE i = 1 /\ j # 1
      BY <2>1, <2>2, <2>4, <3>3
    <3>4. CASE i # 1 /\ j = 1
      BY <2>1, <2>2, <2>4, <3>4
    <3> QED BY <3>1, <3>2, <3>3, <3>4
  <2> QED BY <2>3, <2>4
<1> QED BY <1>1, <1>2

\* Taking either end of the list: x leaves it, the rest stays as it was.
LEMMA TakeEnd ==
    ASSUME NEW s \in Seq(Messages), s # <<>>, NEW r, NEW x,
           \A i, j \in 1 .. Len(s) : s[i] = s[j] => i = j,
           \/ x = s[Len(s)] /\ r = SubSeq(s, 1, Len(s) - 1)
           \/ x = Head(s) /\ r = Tail(s)
    PROVE  /\ \A i, j \in 1 .. Len(r) : r[i] = r[j] => i = j
           /\ \A i \in 1 .. Len(r) : r[i] # x /\ \E k \in 1 .. Len(s) : r[i] = s[k]
           /\ \E k \in 1 .. Len(s) : x = s[k]
<1>1. Len(s) \in Nat /\ Len(s) > 0
  OBVIOUS
<1>2. CASE x = s[Len(s)] /\ r = SubSeq(s, 1, Len(s) - 1)
  <2>1. Len(r) = Len(s) - 1 /\ \A i \in 1 .. Len(s) - 1 : r[i] = s[i]
    BY <1>2, DropLast
  <2>2. \A i \in 1 .. Len(r) : i \in 1 .. Len(s) /\ i # Len(s)
    BY <1>1, <2>1
  <2>3. Len(s) \in 1 .. Len(s)
    BY <1>1
  <2> QED BY <1>2, <2>1, <2>2, <2>3
<1>3. CASE x = Head(s) /\ r = Tail(s)
  <2>1. Len(r) = Len(s) - 1 /\ x = s[1] /\ \A i \in 1 .. Len(r) : r[i] = s[i + 1]
    BY <1>3
  <2>2. \A i \in 1 .. Len(r) : i + 1 \in 1 .. Len(s) /\ i + 1 # 1
    BY <1>1, <2>1
  <2>3. 1 \in 1 .. Len(s)
    BY <1>1
  <2> QED BY <2>1, <2>2, <2>3
<1> QED BY <1>2, <1>3

\* At the start no message is queued.
LEMMA OInvInit == Init => OInv
<1> SUFFICES ASSUME Init PROVE OnePlace
  BY TInvInit DEF OInv
<1> QED BY DEF Init, OnePlace, InQueue

\* A message that is taken leaves the list as the thread gets it.
LEMMA OnePlaceTake ==
    ASSUME OInv, NEW t \in Threads, TakeMessage(t)
    PROVE  OnePlace'
<1>1. /\ msgs \in Seq(Messages) /\ msgs # <<>>
      /\ msg \in [Threads -> Messages \cup {Null}]
  BY DEF OInv, TInv, TypeOK, TakeMessage
<1>2. PICK x : /\ \/ x = msgs[Len(msgs)] /\ msgs' = SubSeq(msgs, 1, Len(msgs) - 1)
                  \/ x = Head(msgs) /\ msgs' = Tail(msgs)
               /\ msg' = [msg EXCEPT ![t] = x]
  BY DEF TakeMessage
<1>3. \A i, j \in 1 .. Len(msgs) : msgs[i] = msgs[j] => i = j
  BY DEF OInv, OnePlace
<1>4. /\ \A i, j \in 1 .. Len(msgs') : msgs'[i] = msgs'[j] => i = j
      /\ \A i \in 1 .. Len(msgs') :
            msgs'[i] # x /\ \E k \in 1 .. Len(msgs) : msgs'[i] = msgs[k]
      /\ \E k \in 1 .. Len(msgs) : x = msgs[k]
  <2>1. CASE x = msgs[Len(msgs)] /\ msgs' = SubSeq(msgs, 1, Len(msgs) - 1)
    BY <1>1, <1>3, <2>1, TakeEnd
  <2>2. CASE x = Head(msgs) /\ msgs' = Tail(msgs)
    BY <1>1, <1>3, <2>2, TakeEnd
  <2> QED BY <1>2, <2>1, <2>2
<1>5. /\ \E k \in 1 .. Len(msgs) : msgs[k] = x
      /\ \A i \in 1 .. Len(msgs') : msgs'[i] # x /\ \E k \in 1 .. Len(msgs) : msgs[k] = msgs'[i]
  BY <1>4
<1>6. msg'[t] = x /\ \A u \in Threads : u # t => msg'[u] = msg[u]
  BY <1>1, <1>2
<1>i. \A u \in Threads : msg[u] # Null => ~ \E k \in 1 .. Len(msgs) : msgs[k] = msg[u]
  BY DEF OInv, OnePlace, InQueue
<1>7. ASSUME NEW u \in Threads, msg'[u] # Null
      PROVE  ~ \E i \in 1 .. Len(msgs') : msgs'[i] = msg'[u]
  BY <1>5, <1>6, <1>7, <1>i
<1>8. \A u, v \in Threads : msg'[u] = msg'[v] /\ msg'[u] # Null => u = v
  BY <1>5, <1>6, <1>i DEF OInv, OnePlace
<1> QED BY <1>4, <1>7, <1>8 DEF OnePlace, InQueue

\* Every step keeps each message in one place.
LEMMA OInvNext ==
    ASSUME OInv, [Next]_vars
    PROVE  OInv'
<1>t. TInv'
  BY TInvNext DEF OInv
<1> SUFFICES OnePlace'
  BY <1>t DEF OInv
<1>s. ASSUME UNCHANGED <<msgs, msg>> PROVE OnePlace'
  BY <1>s DEF OInv, OnePlace, InQueue
<1> SUFFICES ASSUME NEW t \in Threads,
                    \/ CallEnqueue(t) \/ EnqueueLocked(t) \/ Return(t) \/ TakeMessage(t)
             PROVE  OnePlace'
  BY <1>s DEF Next, vars, Signal, CallDequeue, DequeueLocked, WakeLocked, ExpireLocked,
              Wait, RefuseAbstime, ReturnNull, Expire, SpuriousWakeup
<1>0. /\ msgs \in Seq(Messages) /\ msg \in [Threads -> Messages \cup {Null}]
      /\ Null \notin Messages
  BY QueueAssumption DEF OInv, TInv, TypeOK
<1>1. CASE CallEnqueue(t)
  <2>1. PICK m \in Messages : ~ Owned(m) /\ msg' = [msg EXCEPT ![t] = m]
    BY <1>1 DEF CallEnqueue
  <2>2. msgs' = msgs
    BY <1>1 DEF CallEnqueue
  <2>3. \A u \in Threads : msg'[u] = IF u = t THEN m ELSE msg[u]
    BY <1>0, <2>1
  <2> QED BY <2>1, <2>2, <2>3 DEF OInv, OnePlace, Owned, InQueue
<1>2. CASE EnqueueLocked(t)
  <2>1. PICK m \in Messages : m = msg[t]
    BY <1>2 DEF EnqueueLocked, OInv, TInv, CallShape
  <2>2. msgs' = Append(msgs, m) \/ msgs' = <<m>> \o msgs
    BY <1>2, <2>1 DEF EnqueueLocked
  <2>3. /\ \A i, j \in 1 .. Len(msgs) : msgs[i] = msgs[j] => i = j
        /\ \A i \in 1 .. Len(msgs) : msgs[i] # m
    BY <1>0, <2>1 DEF OInv, OnePlace, InQueue
  <2>4. /\ \A i, j \in 1 .. Len(msgs') : msgs'[i] = msgs'[j] => i = j
        /\ \A i \in 1 .. Len(msgs') :
              msgs'[i] = m \/ \E k \in 1 .. Len(msgs) : msgs'[i] = msgs[k]
    BY <1>0, <2>1, <2>2, <2>3, AddFresh
  <2>5. \A u \in Threads : msg'[u] = IF u = t THEN Null ELSE msg[u]
    BY <1>0, <1>2 DEF EnqueueLocked
  <2>6. \A u \in Threads : msg'[u] # Null => msg[u] # m
    BY <1>0, <2>1, <2>5 DEF OInv, OnePlace
  <2>i. \A u \in Threads : msg[u] # Null => ~ \E k \in 1 .. Len(msgs) : msgs[k] = msg[u]
    BY DEF OInv, OnePlace, InQueue
  <2>7. ASSUME NEW u \in Threads, msg'[u] # Null
        PROVE  ~ \E i \in 1 .. Len(msgs') : msgs'[i] = msg'[u]
    BY <2>4, <2>5, <2>6, <2>7, <2>i
  <2>8. \A u, v \in Threads : msg'[u] = msg'[v] /\ msg'[u] # Null => u = v
    BY <2>5 DEF OInv, OnePlace
  <2> QED BY <2>4, <2>7, <2>8 DEF OnePlace, InQueue
<1>3. CASE Return(t)
  <2>1. \A u \in Threads : msg'[u] = IF u = t THEN Null ELSE msg[u]
    BY <1>0, <1>3 DEF Return
  <2> QED BY <1>3, <2>1 DEF Return, OInv, OnePlace, InQueue
<1>4. CASE TakeMessage(t)
  BY <1>4, OnePlaceTake
<1> QED BY <1>1, <1>2, <1>3, <1>4

\* A message is never on the list twice, never handed to two receivers, and
\* never handed out while it is still linked.
THEOREM QueueOnePlace == Spec => []OnePlace
<1>1. OInv => OnePlace
  BY DEF OInv
<1> QED BY <1>1, OInvInit, OInvNext, PTL DEF Spec, SafeSpec

-----------------------------------------------------------------------------
(* Refinement of the abstract deque                                        *)

\* How one thread's step to position q changes the abstract phases.
LEMMA PhaseStep ==
    ASSUME TInv, NEW t \in Threads, NEW q \in PCs, pc' = [pc EXCEPT ![t] = q]
    PROVE  Phase' = [Phase EXCEPT ![t] =
                       CASE q = "enqueue" -> "putting"
                         [] q \in {"dequeue", "blocked", "signalled", "expired"} -> "taking"
                         [] q = "returned" -> "returned"
                         [] OTHER -> "idle"]
<1>1. pc \in [Threads -> PCs]
  BY DEF TInv, TypeOK
<1>2. pc'[t] = q /\ \A u \in Threads : u # t => pc'[u] = pc[u]
  BY <1>1
<1>3. \A u \in Threads : u # t => PhaseOf(u)' = PhaseOf(u)
  BY <1>2 DEF PhaseOf
<1>4. PhaseOf(t)' = CASE q = "enqueue" -> "putting"
                      [] q \in {"dequeue", "blocked", "signalled", "expired"} -> "taking"
                      [] q = "returned" -> "returned"
                      [] OTHER -> "idle"
  BY <1>2 DEF PhaseOf
<1> QED BY <1>3, <1>4 DEF Phase

\* The abstract phase of one thread.
LEMMA PhaseNow == ASSUME NEW t \in Threads PROVE Phase[t] = PhaseOf(t)
BY DEF Phase

\* A dequeue that takes a message takes it from the abstract deque.
LEMMA RefineTake ==
    ASSUME TInv, NEW t \in Threads, TakeMessage(t),
           pc[t] \in {"dequeue", "signalled", "expired"}
    PROVE  Deque!Take(t)
<1>1. Phase' = [Phase EXCEPT ![t] = "returned"]
  BY PhaseStep DEF TakeMessage, PCs
<1>2. Phase[t] = "taking"
  BY PhaseNow DEF PhaseOf
<1> QED BY <1>1, <1>2 DEF TakeMessage, Deque!Take

\* Giving up on an empty queue fails on the abstract deque as well.
LEMMA RefineFail ==
    ASSUME TInv, NEW t \in Threads, opt[t].uSecs # "forever", msgs = <<>>,
           pc[t] \in {"dequeue", "signalled", "expired"},
           pc' = [pc EXCEPT ![t] = "returned"], UNCHANGED <<msgs, msg, opt>>
    PROVE  Deque!Fail(t)
<1>1. Phase' = [Phase EXCEPT ![t] = "returned"]
  BY PhaseStep DEF PCs
<1>2. Phase[t] = "taking"
  BY PhaseNow DEF PhaseOf
<1> QED BY <1>1, <1>2 DEF Deque!Fail

\* Waiting, being woken and expiring are invisible to the callers.
LEMMA RefineStutter ==
    ASSUME TInv, NEW t \in Threads, NEW q \in {"blocked", "signalled", "expired"},
           pc[t] \in {"dequeue", "blocked", "signalled", "expired"},
           pc' = [pc EXCEPT ![t] = q], UNCHANGED <<msgs, msg, opt>>
    PROVE  UNCHANGED Deque!vars
<1>1. Phase' = [Phase EXCEPT ![t] = "taking"]
  BY PhaseStep DEF PCs
<1>2. Phase[t] = "taking"
  BY PhaseNow DEF PhaseOf
<1>3. Phase' = Phase
  BY <1>1, <1>2 DEF Phase
<1> QED BY <1>3 DEF Deque!vars

\* The empty queue is an empty deque.
LEMMA RefineInit == Init => Deque!Init
<1> SUFFICES ASSUME Init PROVE Deque!Init
  OBVIOUS
<1>1. Phase = [t \in Threads |-> "idle"]
  BY DEF Init, Phase, PhaseOf
<1> QED BY <1>1 DEF Init, NoCall, Deque!Init, Deque!NoCall

\* Every step of the queue is a step of the deque or none.
LEMMA RefineNext ==
    ASSUME TInv, [Next]_vars
    PROVE  [Deque!Next]_(Deque!vars)
<1>0. CASE UNCHANGED vars
  BY <1>0 DEF vars, Deque!vars, Phase, PhaseOf
<1> SUFFICES ASSUME NEW t \in Threads,
                    \/ CallEnqueue(t) \/ EnqueueLocked(t) \/ Signal(t)
                    \/ CallDequeue(t) \/ DequeueLocked(t) \/ WakeLocked(t)
                    \/ ExpireLocked(t) \/ Expire(t) \/ SpuriousWakeup(t) \/ Return(t)
             PROVE  [Deque!Next]_(Deque!vars)
  BY <1>0 DEF Next
<1>t. /\ pc \in [Threads -> PCs]
      /\ msg \in [Threads -> Messages \cup {Null}]
      /\ opt \in [Threads -> [uSecs : WaitClasses, tail : BOOLEAN]]
  BY DEF TInv, TypeOK
<1>1. CASE CallEnqueue(t)
  <2>1. Phase' = [Phase EXCEPT ![t] = "putting"]
    BY <1>1, PhaseStep DEF CallEnqueue, PCs
  <2>2. Phase[t] = "idle"
    BY <1>1, PhaseNow DEF CallEnqueue, PhaseOf
  <2>3. PICK m \in Messages : msg' = [msg EXCEPT ![t] = m]
    BY <1>1 DEF CallEnqueue
  <2>4. PICK tail \in BOOLEAN :
          opt' = [opt EXCEPT ![t] = [uSecs |-> "zero", tail |-> tail]]
    BY <1>1 DEF CallEnqueue
  <2>5. Deque!CallPut(t)
    BY <1>1, <2>1, <2>2, <2>3, <2>4 DEF CallEnqueue, Deque!CallPut
  <2> QED BY <2>5 DEF Deque!Next
<1>2. CASE EnqueueLocked(t)
  <2>1. Phase' = [Phase EXCEPT ![t] = "idle"]
    <3>1. CASE waiter
      BY <1>2, <3>1, PhaseStep DEF EnqueueLocked, PCs
    <3>2. CASE ~ waiter
      BY <1>2, <3>2, PhaseStep DEF EnqueueLocked, PCs
    <3> QED BY <3>1, <3>2
  <2>2. Phase[t] = "putting"
    BY <1>2, PhaseNow DEF EnqueueLocked, PhaseOf
  <2>3. Deque!Put(t)
    BY <1>2, <2>1, <2>2 DEF EnqueueLocked, NoCall, Deque!Put, Deque!NoCall
  <2> QED BY <2>3 DEF Deque!Next
<1>3. CASE Signal(t)
  <2>1. ASSUME NEW u \in Threads PROVE PhaseOf(u)' = PhaseOf(u)
    <3>1. CASE Blocked = {}
      BY <1>3, <1>t, <2>1, <3>1 DEF Signal, PhaseOf
    <3>2. CASE Blocked # {}
      BY <1>3, <1>t, <2>1, <3>2 DEF Signal, PhaseOf, Blocked
    <3> QED BY <3>1, <3>2
  <2>2. Phase' = Phase
    BY <2>1 DEF Phase
  <2> QED BY <1>3, <2>2 DEF Signal, Deque!vars
<1>4. CASE CallDequeue(t)
  <2>1. Phase' = [Phase EXCEPT ![t] = "taking"]
    BY <1>4, PhaseStep DEF CallDequeue, PCs
  <2>2. Phase[t] = "idle"
    BY <1>4, PhaseNow DEF CallDequeue, PhaseOf
  <2>3. Deque!CallTake(t)
    BY <1>4, <2>1, <2>2 DEF CallDequeue, Deque!CallTake
  <2> QED BY <2>3 DEF Deque!Next
<1>w. ASSUME Wait(t), pc[t] \in {"dequeue", "signalled", "expired"}
      PROVE  UNCHANGED Deque!vars
  BY <1>w, RefineStutter DEF Wait
<1>r. ASSUME RefuseAbstime(t), pc[t] \in {"dequeue", "signalled", "expired"}
      PROVE  Deque!Fail(t)
  BY <1>r, RefineFail DEF RefuseAbstime
<1>5. CASE DequeueLocked(t)
  <2>1. CASE TakeMessage(t)
    BY <1>5, <2>1, RefineTake DEF DequeueLocked, Deque!Next
  <2>2. CASE opt[t].uSecs = "zero" /\ ReturnNull(t)
    <3>1. Deque!Fail(t)
      BY <1>5, <2>2, RefineFail DEF DequeueLocked, ReturnNull
    <3> QED BY <3>1 DEF Deque!Next
  <2> QED BY <1>5, <1>w, <1>r, <2>1, <2>2 DEF DequeueLocked, Deque!Next
<1>6. CASE WakeLocked(t)
  <2>1. CASE TakeMessage(t)
    BY <1>6, <2>1, RefineTake DEF WakeLocked, Deque!Next
  <2> QED BY <1>6, <1>w, <1>r, <2>1 DEF WakeLocked, Deque!Next
<1>7. CASE ExpireLocked(t)
  <2>1. CASE TakeMessage(t)
    BY <1>7, <2>1, RefineTake DEF ExpireLocked, Deque!Next
  <2>2. CASE ReturnNull(t)
    <3>1. opt[t].uSecs # "forever"
      BY <1>7 DEF ExpireLocked, TInv, CallShape
    <3>2. Deque!Fail(t)
      BY <1>7, <2>2, <3>1, RefineFail DEF ExpireLocked, ReturnNull
    <3> QED BY <3>2 DEF Deque!Next
  <2> QED BY <1>7, <2>1, <2>2 DEF ExpireLocked
<1>8. CASE Expire(t)
  BY <1>8, RefineStutter DEF Expire
<1>9. CASE SpuriousWakeup(t)
  BY <1>9, RefineStutter DEF SpuriousWakeup
<1>10. CASE Return(t)
  <2>1. Phase' = [Phase EXCEPT ![t] = "idle"]
    BY <1>10, PhaseStep DEF Return, PCs
  <2>2. Phase[t] = "returned"
    BY <1>10, PhaseNow DEF Return, PhaseOf
  <2>3. Deque!Return(t)
    BY <1>10, <2>1, <2>2 DEF Return, NoCall, Deque!Return, Deque!NoCall
  <2> QED BY <2>3 DEF Deque!Next
<1> QED BY <1>1, <1>2, <1>3, <1>4, <1>5, <1>6, <1>7, <1>8, <1>9, <1>10

\* The mutex, the late signal, the wait loop and its timeouts implement an
\* atomic deque: every result a caller gets is one the abstract queue could
\* have given, in particular NULL only when the list was empty and never for
\* uSecs = -1.
THEOREM QueueRefinesDeque == Spec => Deque!SafeSpec
<1>1. Init => Deque!Init
  BY RefineInit
<1>2. TInv /\ [Next]_vars => [Deque!Next]_(Deque!vars)
  BY RefineNext
<1> QED BY <1>1, <1>2, TInvInit, TInvNext, PTL DEF Spec, SafeSpec, Deque!SafeSpec
=============================================================================
