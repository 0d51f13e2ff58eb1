-------------------------- MODULE MultiQueue_proofs --------------------------
(***************************************************************************)
(* Whatever the number of queues and of senders, the receiver of several   *)
(* queues never sleeps on a message that nobody will wake it for, although *)
(* it publishes and resets its semaphore without any lock, and takes them  *)
(* in the order of priority.                                               *)
(***************************************************************************)
EXTENDS MultiQueue, TLAPS

\* What the steps need of the types.
Shape ==
    /\ msgs \in [Queues -> Seq(Messages)]
    /\ waiter_sem \in [Queues -> BOOLEAN]
    /\ value \in Nat /\ loaded \in Nat
    /\ pc \in [Senders -> PCs]
    /\ msg \in [Senders -> Messages \cup {Null}]
    /\ \A t \in Senders : pc[t] = "enqueue" => msg[t] \in Messages
    /\ at \in [Senders -> Queues]
    /\ rpc \in RPCs
    /\ ind \in Queues

\* The semaphore is published in every queue before the reset, and stays so until
\* the receiver has its result.
Published ==
    /\ rpc = "publish" => \A i \in 1 .. ind - 1 : waiter_sem[i]
    /\ rpc \in {"init", "scan", "take", "blocked", "signalled", "expired"} =>
          \A i \in Queues : waiter_sem[i]

\* A sender whose value++ is still to come: it will be there, even if the reset
\* falls between its load and its store.
Giving == \E t \in Senders : pc[t] \in {"give", "store"}

\* A message behind the receiver's back is in the semaphore, or about to be.
Counted ==
    /\ rpc = "scan" => \A i \in 1 .. ind - 1 : msgs[i] # << >> => value > 0 \/ Giving
    /\ rpc \in {"take", "blocked", "signalled"} => (Waiting => value > 0 \/ Giving)

\* Who made the semaphore positive under a sleeping receiver is about to signal.
Signalling ==
    rpc = "blocked" /\ value > 0 => \E t \in Senders : pc[t] = "signal"

MInv == Shape /\ Published /\ Counted /\ Signalling

\* At the start nothing is queued and nobody waits.
LEMMA MInvInit == Init => MInv
<1> SUFFICES ASSUME Init PROVE MInv
  OBVIOUS
<1> USE MultiAssumption
<1>1. Shape
  <2>1. << >> \in Seq(Messages) /\ 1 \in Queues
    BY DEF Queues
  <2>2. [i \in Queues |-> << >>] \in [Queues -> Seq(Messages)]
    BY <2>1
  <2> QED BY <2>1, <2>2 DEF Init, Shape, PCs, RPCs
<1>2. Published /\ Counted /\ Signalling
  BY DEF Init, Published, Counted, Signalling
<1> QED BY <1>1, <1>2 DEF MInv

\* A message can be added to a list on either end.
LEMMA Longer ==
    ASSUME NEW s \in Seq(Messages), NEW m \in Messages
    PROVE  Append(s, m) \in Seq(Messages) /\ <<m>> \o s \in Seq(Messages)
<1>1. Append(s, m) \in Seq(Messages)
  OBVIOUS
<1>2. <<m>> \in Seq(Messages)
  OBVIOUS
<1> QED BY <1>1, <1>2

\* A step of a sender keeps the invariant: it announces what it adds to a queue
\* whose semaphore is published, and what it gives it signals.
LEMMA SenderKeeps ==
    ASSUME MInv, NEW t \in Senders, CallEnqueue(t) \/ Sender(t)
    PROVE  MInv'
<1> USE MultiAssumption
<1>t. /\ msgs \in [Queues -> Seq(Messages)] /\ waiter_sem \in [Queues -> BOOLEAN]
      /\ value \in Nat /\ loaded \in Nat
      /\ pc \in [Senders -> PCs] /\ msg \in [Senders -> Messages \cup {Null}]
      /\ \A u \in Senders : pc[u] = "enqueue" => msg[u] \in Messages
      /\ at \in [Senders -> Queues] /\ rpc \in RPCs /\ ind \in Queues
  BY DEF MInv, Shape
<1>q. \A i \in 1 .. ind - 1 : i \in Queues
  BY <1>t DEF Queues
<1>i. Published /\ Counted /\ Signalling
  BY DEF MInv
<1>1. CASE CallEnqueue(t)
  <2>1. PICK m \in Messages, i \in Queues :
           /\ pc[t] = "idle" /\ pc' = [pc EXCEPT ![t] = "enqueue"]
           /\ msg' = [msg EXCEPT ![t] = m] /\ at' = [at EXCEPT ![t] = i]
           /\ UNCHANGED <<msgs, waiter_sem, value, loaded, rpc, ind>>
    BY <1>1 DEF CallEnqueue, Goto, receiver
  <2>2. Shape'
    BY <1>t, <2>1 DEF Shape, PCs
  <2>3. Published'
    BY <1>i, <2>1 DEF Published
  <2>4. Giving' <=> Giving
    BY <1>t, <2>1 DEF Giving
  <2>5. Counted' /\ Signalling'
    BY <1>i, <1>t, <2>1, <2>4 DEF Counted, Signalling, Waiting
  <2> QED BY <2>2, <2>3, <2>5 DEF MInv
<1>2. CASE EnqueueLocked(t)
  <2> DEFINE i == at[t]
  <2>1. /\ pc[t] = "enqueue"
        /\ msgs' = [msgs EXCEPT ![i] = Append(@, msg[t])] \/ msgs' = [msgs EXCEPT ![i] = <<msg[t]>> \o @]
        /\ msg' = [msg EXCEPT ![t] = Null]
        /\ pc' = [pc EXCEPT ![t] = IF waiter_sem[i] THEN "give" ELSE "idle"]
        /\ UNCHANGED <<waiter_sem, value, loaded, at, rpc, ind>>
    BY <1>2 DEF EnqueueLocked, Goto, receiver
  <2>2. i \in Queues /\ msg[t] \in Messages
    BY <1>t, <2>1
  <2>3. /\ msgs' \in [Queues -> Seq(Messages)]
        /\ \A j \in Queues : j # i => msgs'[j] = msgs[j]
    <3>1. Append(msgs[i], msg[t]) \in Seq(Messages) /\ <<msg[t]>> \o msgs[i] \in Seq(Messages)
      BY <1>t, <2>2, Longer
    <3> QED BY <1>t, <2>1, <2>2, <3>1
  <2>4. Shape'
    <3>1. pc' \in [Senders -> PCs]
      BY <1>t, <2>1 DEF PCs
    <3>2. \A u \in Senders : pc'[u] = "enqueue" => msg'[u] \in Messages
      BY <1>t, <2>1
    <3>3. msg' \in [Senders -> Messages \cup {Null}]
      BY <1>t, <2>1
    <3> QED BY <1>t, <2>1, <2>3, <3>1, <3>2, <3>3 DEF Shape
  <2>5. Published'
    BY <1>i, <2>1 DEF Published
  <2>6. Giving => Giving'
    BY <1>t, <2>1 DEF Giving
  <2>7. waiter_sem[i] => Giving'
    BY <1>t, <2>1 DEF Giving
  <2>8. Counted'
    <3>1. ASSUME rpc' = "scan", NEW j \in 1 .. ind' - 1, msgs'[j] # << >>
          PROVE  value' > 0 \/ Giving'
      <4>1. CASE j = i
        BY <1>i, <2>1, <2>2, <2>7, <3>1, <4>1 DEF Published
      <4>2. CASE j # i
        BY <1>i, <1>q, <2>1, <2>3, <2>6, <3>1, <4>2 DEF Counted
      <4> QED BY <4>1, <4>2
    <3>2. ASSUME rpc' \in {"take", "blocked", "signalled"} PROVE value' > 0 \/ Giving'
      BY <1>i, <2>1, <2>2, <2>7, <3>2 DEF Published
    <3> QED BY <3>1, <3>2 DEF Counted
  <2>9. Signalling'
    BY <1>i, <1>t, <2>1 DEF Signalling
  <2> QED BY <2>4, <2>5, <2>8, <2>9 DEF MInv
<1>3. CASE GiveLoad(t)
  <2>1. /\ pc[t] = "give" /\ pc' = [pc EXCEPT ![t] = "store"] /\ loaded' = value
        /\ UNCHANGED <<msgs, waiter_sem, value, msg, at, rpc, ind>>
    BY <1>3 DEF GiveLoad, Goto, receiver
  <2>2. Shape'
    BY <1>t, <2>1 DEF Shape, PCs
  <2>3. Giving'
    BY <1>t, <2>1 DEF Giving
  <2>4. Published'
    BY <1>i, <2>1 DEF Published
  <2>5. Counted' /\ Signalling'
    BY <1>i, <1>t, <2>1, <2>3 DEF Counted, Signalling
  <2> QED BY <2>2, <2>4, <2>5 DEF MInv
<1>4. CASE GiveStore(t)
  <2>1. /\ pc[t] = "store" /\ pc' = [pc EXCEPT ![t] = "signal"]
        /\ value' = IF loaded < MaxValue THEN loaded + 1 ELSE loaded
        /\ UNCHANGED <<msgs, waiter_sem, loaded, msg, at, rpc, ind>>
    BY <1>4 DEF GiveStore, Goto, receiver
  <2>2. value' \in Nat /\ value' > 0
    BY <1>t, <2>1
  <2>3. Shape'
    BY <1>t, <2>1, <2>2 DEF Shape, PCs
  <2>4. Published'
    BY <1>i, <2>1 DEF Published
  <2>5. Counted' /\ Signalling'
    BY <1>t, <2>1, <2>2 DEF Counted, Signalling
  <2> QED BY <2>3, <2>4, <2>5 DEF MInv
<1>5. CASE Signal(t)
  <2>1. /\ pc[t] = "signal" /\ pc' = [pc EXCEPT ![t] = "idle"]
        /\ rpc' = IF rpc = "blocked" THEN "signalled" ELSE rpc
        /\ UNCHANGED <<msgs, waiter_sem, value, loaded, msg, at, ind>>
    BY <1>5 DEF Signal, Goto
  <2>2. Shape'
    BY <1>t, <2>1 DEF Shape, PCs, RPCs
  <2>3. Giving' <=> Giving
    BY <1>t, <2>1 DEF Giving
  <2>4. Published'
    BY <1>i, <2>1 DEF Published
  <2>5. Counted'
    BY <1>i, <2>1, <2>3 DEF Counted, Waiting
  <2>6. Signalling'
    BY <2>1 DEF Signalling
  <2> QED BY <2>2, <2>4, <2>5, <2>6 DEF MInv
<1> QED BY <1>1, <1>2, <1>3, <1>4, <1>5 DEF Sender

\* A step of the receiver keeps the invariant: it looks into every queue after its
\* last take or reset, and sleeps only when the semaphore is 0.
LEMMA ReceiverKeeps ==
    ASSUME MInv, CallDequeue \/ Receiver \/ Expire \/ SpuriousWakeup
    PROVE  MInv'
<1> USE MultiAssumption
<1>t. /\ msgs \in [Queues -> Seq(Messages)] /\ waiter_sem \in [Queues -> BOOLEAN]
      /\ value \in Nat /\ loaded \in Nat
      /\ pc \in [Senders -> PCs] /\ msg \in [Senders -> Messages \cup {Null}]
      /\ \A u \in Senders : pc[u] = "enqueue" => msg[u] \in Messages
      /\ at \in [Senders -> Queues] /\ rpc \in RPCs /\ ind \in Queues
      /\ ind \in Nat /\ 1 \in Queues
  BY DEF MInv, Shape, Queues
<1>q. \A i \in 1 .. ind - 1 : i \in Queues
  BY <1>t DEF Queues
<1>i. Published /\ Counted /\ Signalling
  BY DEF MInv
<1> DEFINE SendersRest == UNCHANGED <<loaded, pc, msg, at>>
<1>g. SendersRest => (Giving' <=> Giving)
  BY DEF Giving
<1>1. CASE CallDequeue
  <2>1. rpc' = "publish" /\ ind' = 1 /\ SendersRest /\ UNCHANGED <<msgs, waiter_sem, value>>
    BY <1>1 DEF CallDequeue, sender
  <2>2. Shape'
    BY <1>t, <2>1 DEF Shape, RPCs
  <2>3. Published' /\ Counted' /\ Signalling'
    BY <2>1 DEF Published, Counted, Signalling
  <2> QED BY <2>2, <2>3 DEF MInv
<1>2. CASE Publish
  <2>1. /\ rpc = "publish" /\ waiter_sem' = [waiter_sem EXCEPT ![ind] = TRUE]
        /\ SendersRest /\ UNCHANGED <<msgs, value>>
        /\ \/ ind < NumQueues /\ ind' = ind + 1 /\ rpc' = rpc
           \/ ind >= NumQueues /\ ind' = ind /\ rpc' = "init"
    BY <1>2, <1>t DEF Publish, sender
  <2>2. Shape'
    <3>1. ind' \in Queues /\ rpc' \in RPCs
      BY <1>t, <2>1 DEF Queues, RPCs
    <3> QED BY <1>t, <2>1, <3>1 DEF Shape
  <2>3. \A i \in 1 .. ind : waiter_sem'[i]
    <3> SUFFICES ASSUME NEW i \in 1 .. ind PROVE waiter_sem'[i]
      OBVIOUS
    <3>1. i \in Queues
      BY <1>t DEF Queues
    <3>2. CASE i = ind
      BY <1>t, <2>1, <3>2
    <3>3. CASE i # ind
      <4>1. i \in 1 .. ind - 1
        BY <1>t, <3>3
      <4> QED BY <1>i, <1>t, <2>1, <3>1, <3>3, <4>1 DEF Published
    <3> QED BY <3>2, <3>3
  <2>4. Published'
    <3>1. CASE ind < NumQueues
      BY <1>t, <2>1, <2>3, <3>1 DEF Published
    <3>2. CASE ind >= NumQueues
      BY <1>t, <2>1, <2>3, <3>2 DEF Published, Queues
    <3> QED BY <1>t, <3>1, <3>2
  <2>5. Counted' /\ Signalling'
    BY <2>1 DEF Counted, Signalling
  <2> QED BY <2>2, <2>4, <2>5 DEF MInv
<1>3. CASE InitSemaphore
  <2>1. /\ rpc = "init" /\ value' = 0 /\ rpc' = "scan" /\ ind' = 1
        /\ SendersRest /\ UNCHANGED <<msgs, waiter_sem>>
    BY <1>3 DEF InitSemaphore, sender
  <2>2. Shape'
    BY <1>t, <2>1 DEF Shape, RPCs
  <2>3. Published'
    BY <1>i, <2>1 DEF Published
  <2>4. Counted' /\ Signalling'
    BY <2>1 DEF Counted, Signalling
  <2> QED BY <2>2, <2>3, <2>4 DEF MInv
<1>4. CASE Scan
  <2>1. rpc = "scan" /\ SendersRest /\ UNCHANGED <<waiter_sem, value>>
    BY <1>4 DEF Scan, sender
  <2>2. CASE Found
    <3>1. /\ msgs[ind] # << >> /\ msgs' = [msgs EXCEPT ![ind] = Tail(@)]
          /\ rpc' = "clear" /\ ind' = 1
      BY <2>2 DEF Found
    <3>2. Tail(msgs[ind]) \in Seq(Messages)
      BY <1>t, <3>1
    <3>3. Shape'
      BY <1>t, <2>1, <3>1, <3>2 DEF Shape, RPCs
    <3>4. Published' /\ Counted' /\ Signalling'
      BY <3>1 DEF Published, Counted, Signalling
    <3> QED BY <3>3, <3>4 DEF MInv
  <2>3. CASE /\ msgs[ind] = << >>
             /\ IF ind < NumQueues
                THEN ind' = ind + 1 /\ rpc' = rpc
                ELSE ind' = ind /\ rpc' = "take"
             /\ UNCHANGED <<msgs, pMsg>>
    <3>1. \A i \in 1 .. ind : msgs[i] # << >> => value > 0 \/ Giving
      <4> SUFFICES ASSUME NEW i \in 1 .. ind, msgs[i] # << >> PROVE value > 0 \/ Giving
        OBVIOUS
      <4>1. i \in 1 .. ind - 1
        BY <1>t, <2>3
      <4> QED BY <1>i, <2>1, <4>1 DEF Counted
    <3>2. CASE ind < NumQueues
      <4>1. ind' = ind + 1 /\ rpc' = "scan" /\ msgs' = msgs
        BY <2>1, <2>3, <3>2
      <4>2. ind + 1 \in Queues /\ 1 .. (ind + 1) - 1 = 1 .. ind
        BY <1>t, <3>2 DEF Queues
      <4>3. Shape'
        BY <1>t, <2>1, <4>1, <4>2 DEF Shape, RPCs
      <4>4. Published' /\ Signalling'
        BY <1>i, <2>1, <4>1 DEF Published, Signalling
      <4>5. Counted'
        BY <1>g, <2>1, <3>1, <4>1, <4>2 DEF Counted
      <4> QED BY <4>3, <4>4, <4>5 DEF MInv
    <3>3. CASE ~ (ind < NumQueues)
      <4>1. ind' = ind /\ rpc' = "take" /\ msgs' = msgs
        BY <2>3, <3>3
      <4>2. 1 .. ind = Queues
        BY <1>t, <3>3 DEF Queues
      <4>3. Shape'
        BY <1>t, <2>1, <4>1 DEF Shape, RPCs
      <4>4. Published' /\ Signalling'
        BY <1>i, <2>1, <4>1 DEF Published, Signalling
      <4>5. Counted'
        BY <1>g, <2>1, <3>1, <4>1, <4>2 DEF Counted, Waiting
      <4> QED BY <4>3, <4>4, <4>5 DEF MInv
    <3> QED BY <3>2, <3>3
  <2> QED BY <1>4, <2>2, <2>3 DEF Scan
<1>5. CASE Take
  <2>1. /\ rpc \in {"take", "signalled"} /\ SendersRest /\ UNCHANGED <<msgs, waiter_sem>>
        /\ \/ value > 0 /\ value' = value - 1 /\ rpc' = "scan" /\ ind' = 1
           \/ value = 0 /\ value' = value /\ rpc' = "blocked" /\ ind' = ind
    BY <1>5, <1>t DEF Take, sender
  <2>2. Shape'
    <3>1. value' \in Nat /\ rpc' \in RPCs /\ ind' \in Queues
      BY <1>t, <2>1 DEF RPCs
    <3> QED BY <1>t, <2>1, <3>1 DEF Shape
  <2>3. Published'
    BY <1>i, <2>1 DEF Published
  <2>4. Counted'
    BY <1>g, <1>i, <2>1 DEF Counted, Waiting
  <2>5. Signalling'
    BY <2>1 DEF Signalling
  <2> QED BY <2>2, <2>3, <2>4, <2>5 DEF MInv
<1>6. CASE TakeRefused \/ Expired
  <2>1. rpc' = "clear" /\ ind' = 1 /\ SendersRest /\ UNCHANGED <<msgs, waiter_sem, value>>
    BY <1>6 DEF TakeRefused, Expired, sender
  <2>2. Shape'
    BY <1>t, <2>1 DEF Shape, RPCs
  <2>3. Published' /\ Counted' /\ Signalling'
    BY <2>1 DEF Published, Counted, Signalling
  <2> QED BY <2>2, <2>3 DEF MInv
<1>7. CASE Clear \/ Return
  <2>1. /\ rpc' \in {"clear", "returned", "idle"} /\ SendersRest /\ UNCHANGED <<msgs, value>>
        /\ waiter_sem' \in [Queues -> BOOLEAN]
    BY <1>7, <1>t DEF Clear, Return, sender
  <2>2. ind' \in Queues
    BY <1>7, <1>t DEF Clear, Return, Queues
  <2>3. Shape'
    BY <1>t, <2>1, <2>2 DEF Shape, RPCs
  <2>4. Published' /\ Counted' /\ Signalling'
    BY <2>1 DEF Published, Counted, Signalling
  <2> QED BY <2>3, <2>4 DEF MInv
<1>8. CASE Expire \/ SpuriousWakeup
  <2>1. /\ rpc = "blocked" /\ rpc' \in {"expired", "signalled"}
        /\ SendersRest /\ UNCHANGED <<msgs, waiter_sem, value, ind>>
    BY <1>8 DEF Expire, SpuriousWakeup, sender
  <2>2. Shape'
    BY <1>t, <2>1 DEF Shape, RPCs
  <2>3. Published'
    BY <1>i, <2>1 DEF Published
  <2>4. Counted' /\ Signalling'
    BY <1>g, <1>i, <2>1 DEF Counted, Signalling, Waiting
  <2> QED BY <2>2, <2>3, <2>4 DEF MInv
<1> QED BY <1>1, <1>2, <1>3, <1>4, <1>5, <1>6, <1>7, <1>8 DEF Receiver

\* Every step of the specification keeps the invariant.
LEMMA MInvNext == MInv /\ [Next]_vars => MInv'
<1> SUFFICES ASSUME MInv, [Next]_vars PROVE MInv'
  OBVIOUS
<1>1. CASE UNCHANGED vars
  <2>1. UNCHANGED <<msgs, waiter_sem, value, loaded, pc, msg, at, rpc, ind>>
    BY <1>1 DEF vars, sender, receiver
  <2> QED BY <2>1 DEF MInv, Shape, Published, Counted, Signalling, Giving, Waiting
<1> QED BY <1>1, SenderKeeps, ReceiverKeeps DEF Next

\* The receiver never sleeps on a message, or on a positive semaphore, that no
\* sender is about to announce.
THEOREM MultiNoSleepOnMessage == Spec => []NoSleepOnMessage
<1>1. MInv => NoSleepOnMessage
  BY DEF MInv, Counted, Signalling, Giving, NoSleepOnMessage, Announcing
<1> QED BY <1>1, MInvInit, MInvNext, PTL DEF Spec, SafeSpec

\* The receiver's pass: the queues it has found empty hold only what was enqueued
\* since it began.
Pass == rpc = "scan" => \A i \in 1 .. ind - 1 : Queued(i) \subseteq late

\* The messages in a list.
Listed(s) == {s[n] : n \in 1 .. Len(s)}

\* Who adds a message to a list adds no other.
LEMMA OneMore ==
    ASSUME NEW s \in Seq(Messages), NEW m \in Messages, NEW r, r = Append(s, m) \/ r = <<m>> \o s
    PROVE  Listed(r) \subseteq Listed(s) \cup {m}
<1> USE DEF Listed
<1>1. CASE r = Append(s, m)
  <2>1. /\ Len(r) = Len(s) + 1 /\ r[Len(s) + 1] = m
        /\ \A n \in 1 .. Len(s) : r[n] = s[n]
    BY <1>1
  <2> QED BY <2>1
<1>2. CASE r = <<m>> \o s
  <2>1. Len(r) = Len(s) + 1 /\ r[1] = m
    BY <1>2
  <2>2. \A n \in 1 .. Len(s) + 1 : n # 1 => r[n] = s[n - 1] /\ n - 1 \in 1 .. Len(s)
    BY <1>2
  <2> QED BY <2>1, <2>2
<1> QED BY <1>1, <1>2

\* What a step does to the pass: a sender that adds a message behind the receiver's
\* back counts it as late, and the receiver goes on from an empty queue.
LEMMA PassKept ==
    ASSUME MInv, Pass, [Next]_vars
    PROVE  Pass'
<1>t. /\ msgs \in [Queues -> Seq(Messages)] /\ ind \in Nat /\ ind \in Queues
      /\ at \in [Senders -> Queues]
      /\ \A u \in Senders : pc[u] = "enqueue" => msg[u] \in Messages
  BY DEF MInv, Shape, Queues
<1>1. CASE UNCHANGED <<msgs, ind, late>> /\ (rpc' = "scan" => rpc = "scan")
  BY <1>1 DEF Pass, Queued
<1>2. ASSUME NEW t \in Senders, EnqueueLocked(t) PROVE Pass'
  <2>1. PICK i \in Queues, m \in Messages : i = at[t] /\ m = msg[t]
    BY <1>2, <1>t DEF EnqueueLocked
  <2>2. /\ msgs' = [msgs EXCEPT ![i] = Append(msgs[i], m)] \/ msgs' = [msgs EXCEPT ![i] = <<m>> \o msgs[i]]
        /\ late' = late \cup {m} /\ ind' = ind /\ rpc' = rpc
    BY <1>2, <2>1 DEF EnqueueLocked, receiver
  <2>3. \A j \in Queues : j # i => msgs'[j] = msgs[j]
    BY <1>t, <2>2
  <2>4. PICK r : r = msgs'[i]
    OBVIOUS
  <2>5. r = Append(msgs[i], m) \/ r = <<m>> \o msgs[i]
    BY <1>t, <2>2, <2>4
  <2>6. Listed(r) \subseteq Listed(msgs[i]) \cup {m}
    <3>1. msgs[i] \in Seq(Messages)
      BY <1>t
    <3> QED BY <2>5, <3>1, OneMore, Zenon
  <2>7. ASSUME NEW j \in Queues PROVE Queued(j)' \subseteq Queued(j) \cup {m}
    <3>1. CASE j = i
      BY <2>4, <2>6, <3>1 DEF Queued, Listed
    <3>2. CASE j # i
      BY <2>3, <3>2 DEF Queued
    <3> QED BY <3>1, <3>2
  <2>8. \A j \in 1 .. ind - 1 : j \in Queues
    BY <1>t, MultiAssumption DEF Queues
  <2> QED BY <2>2, <2>7, <2>8 DEF Pass
<1>3. CASE Scan
  <2>1. rpc = "scan" /\ late' = late
    BY <1>3 DEF Scan
  <2>2. CASE Found
    BY <2>2 DEF Found, Pass
  <2>3. CASE ~ Found
    <3>1. msgs[ind] = << >> /\ msgs' = msgs
      BY <1>3, <2>3 DEF Scan
    <3>2. ind' = ind + 1 \/ rpc' = "take"
      BY <1>3, <2>3 DEF Scan
    <3>3. Queued(ind) = {}
      BY <3>1 DEF Queued
    <3>4. \A i \in 1 .. (ind + 1) - 1 : Queued(i) \subseteq late
      BY <1>t, <2>1, <3>3 DEF Pass
    <3> QED BY <2>1, <3>1, <3>2, <3>4 DEF Pass, Queued
  <2> QED BY <2>2, <2>3
<1>4. CASE CallDequeue \/ Publish \/ InitSemaphore \/ Take \/ TakeRefused \/ Expired \/ Clear \/ Return
           \/ Expire \/ SpuriousWakeup
  <2>1. rpc' = "scan" => ind' = 1 \/ (UNCHANGED <<msgs, ind, late>> /\ rpc = "scan")
    BY <1>4 DEF CallDequeue, Publish, InitSemaphore, Take, TakeRefused, Expired, Clear, Return,
                Expire, SpuriousWakeup
  <2> QED BY <1>1, <2>1 DEF Pass
<1>5. ASSUME NEW t \in Senders, CallEnqueue(t) \/ GiveLoad(t) \/ GiveStore(t) \/ Signal(t)
      PROVE  Pass'
  <2>1. UNCHANGED <<msgs, ind>> /\ (rpc' = "scan" => rpc = "scan") /\ late' = late
    BY <1>5 DEF CallEnqueue, GiveLoad, GiveStore, Signal, receiver
  <2> QED BY <1>1, <2>1
<1>6. CASE UNCHANGED vars
  BY <1>1, <1>6 DEF vars, receiver
<1> QED BY <1>2, <1>3, <1>4, <1>5, <1>6 DEF Next, Sender, Receiver

\* A message is taken only from a queue before which the pass has found nothing.
LEMMA TakenInOrder ==
    ASSUME Pass, Next, pMsg = Null, pMsg' # Null
    PROVE  \A i \in 1 .. ind - 1 : Queued(i) \subseteq late
<1>1. Scan
  BY DEF Next, Sender, Receiver, CallEnqueue, EnqueueLocked, GiveLoad, GiveStore, Signal,
         CallDequeue, Publish, InitSemaphore, Take, TakeRefused, Expired, Clear, Return,
         Expire, SpuriousWakeup, receiver
<1> QED BY <1>1 DEF Scan, Pass

\* Every variable stays in its type, and the semaphore within its bound.
THEOREM MultiTypes == Spec => []TypeOK
<1>1. Init => TypeOK
  <2>1. << >> \in Seq(Messages) /\ 1 \in Queues
    BY MultiAssumption DEF Queues
  <2>2. [i \in Queues |-> << >>] \in [Queues -> Seq(Messages)]
    BY <2>1
  <2>3. Init => timed \in BOOLEAN
    BY Zenon DEF Init
  <2> QED BY <2>1, <2>2, <2>3, MultiAssumption DEF Init, TypeOK, PCs, RPCs
<1>2. MInv /\ TypeOK /\ [Next]_vars => TypeOK'
  <2> SUFFICES ASSUME MInv, TypeOK, [Next]_vars PROVE TypeOK'
    OBVIOUS
  <2>0. Shape'
    BY MInvNext DEF MInv
  <2> USE MultiAssumption DEF TypeOK
  <2>1. value' \in 0 .. MaxValue /\ loaded' \in 0 .. MaxValue /\ semlock' \in Senders \cup {Null}
    <3>1. ASSUME NEW t \in Senders, CallEnqueue(t) \/ Sender(t)
          PROVE  value' \in 0 .. MaxValue /\ loaded' \in 0 .. MaxValue /\ semlock' \in Senders \cup {Null}
      BY <3>1 DEF CallEnqueue, Sender, EnqueueLocked, GiveLoad, GiveStore, Signal
    <3>2. CASE CallDequeue \/ Receiver \/ Expire \/ SpuriousWakeup
      BY <3>2 DEF CallDequeue, Receiver, Publish, InitSemaphore, Scan, Take, TakeRefused, Expired,
                  Clear, Return, Expire, SpuriousWakeup, sender
    <3>3. CASE UNCHANGED vars
      BY <3>3 DEF vars, sender
    <3> QED BY <3>1, <3>2, <3>3 DEF Next
  <2>2. timed' \in BOOLEAN
    BY Zenon DEF Next, vars, CallEnqueue, Sender, EnqueueLocked, GiveLoad, GiveStore, Signal,
       CallDequeue, Receiver, Publish, InitSemaphore, Scan, Take, TakeRefused, Expired,
       Clear, Return, Expire, SpuriousWakeup, sender, receiver
  <2>3. late' \subseteq Messages /\ pMsg' \in Messages \cup {Null}
    <3>1. ASSUME NEW t \in Senders, CallEnqueue(t) \/ Sender(t)
          PROVE  late' \subseteq Messages /\ pMsg' \in Messages \cup {Null}
      <4>1. EnqueueLocked(t) => msg[t] \in Messages
        BY DEF EnqueueLocked, MInv, Shape
      <4> QED BY <3>1, <4>1 DEF CallEnqueue, Sender, EnqueueLocked, GiveLoad, GiveStore, Signal, receiver
    <3>2. CASE Scan
      <4>1. msgs[ind] \in Seq(Messages)
        OBVIOUS
      <4>2. CASE Found
        <5>1. Head(msgs[ind]) \in Messages
          BY <4>1, <4>2 DEF Found
        <5> QED BY <3>2, <4>2, <5>1 DEF Scan, Found
      <4>3. CASE ~ Found
        BY <3>2, <4>3 DEF Scan
      <4> QED BY <4>2, <4>3
    <3>3. CASE CallDequeue \/ Publish \/ InitSemaphore \/ Take \/ TakeRefused \/ Expired
               \/ Clear \/ Return \/ Expire \/ SpuriousWakeup
      BY <3>3 DEF CallDequeue, Publish, InitSemaphore, Take, TakeRefused, Expired,
                  Clear, Return, Expire, SpuriousWakeup
    <3>4. CASE UNCHANGED vars
      BY <3>4 DEF vars, receiver
    <3> QED BY <3>1, <3>2, <3>3, <3>4 DEF Next, Receiver
  <2> QED BY <2>0, <2>1, <2>2, <2>3 DEF Shape
<1> QED BY <1>1, <1>2, MInvInit, MInvNext, PTL DEF Spec, SafeSpec

\* A message is taken from a queue only when those before it hold nothing older
\* than the pass ("dequeue from a set of queues in priority order",
\* thread_slinger.h), for any number of queues and whoever sends meanwhile.
THEOREM MultiPriorityKept == Spec => PriorityKept
<1>1. Init => Pass
  BY DEF Init, Pass
<1>2. MInv /\ Pass /\ [Next]_vars => Pass'
  BY PassKept
<1>3. Pass /\ [Next]_vars =>
        [pMsg = Null /\ pMsg' # Null => \A i \in 1 .. ind - 1 : Queued(i) \subseteq late]_vars
  BY TakenInOrder
<1> QED BY <1>1, <1>2, <1>3, MInvInit, MInvNext, PTL DEF Spec, SafeSpec, PriorityKept
=============================================================================
