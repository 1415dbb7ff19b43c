-------------------------- MODULE ChatServerProofs --------------------------
(***************************************************************************)
(* Proofs about ChatServer: for every number of loops, clients and         *)
(* messages the server implements the chat room.                           *)
(***************************************************************************)
EXTENDS ChatServer, SequenceTheorems, TLAPS

(* Nobody connects, and nothing is read, before every loop is registered.   *)
AfterStart ==
  /\ \A c \in Client : status[c] # "new" => loops = Loop
  /\ \A l \in Loop : reading[l] # None => loops = Loop

(* Only the holder of mutex_ queues functors: those of the newest message.  *)
HolderQueues ==
  /\ \A l \in Loop : todo[l] # {} => mutex = l
  /\ mutex # None => /\ Len(order) > 0
                     /\ order[Len(order)] = reading[mutex]
                     /\ reading[mutex] # None

(* 1 while loop k has yet to get the functor of the newest message.         *)
Owed(k) == IF mutex # None /\ k \in todo[mutex] THEN 1 ELSE 0

(* What a loop has run, and what is queued in it, is the order so far.      *)
QueueIsOrder ==
  \A k \in Loop :
    /\ ran[k] + Len(pending[k]) + Owed(k) = Len(order)
    /\ \A i \in 1..Len(pending[k]) : pending[k][i] = order[ran[k] + i]

NewIsSilent == \A c \in Client : status[c] = "new" => outbox[c] = <<>>

IInv ==
  /\ TypeOK
  /\ AfterStart
  /\ HolderQueues
  /\ QueueIsOrder
  /\ NewIsSilent
  /\ LoopInStep
  /\ SegmentOfOrder

-----------------------------------------------------------------------------
LEMMA InitIInv == Init => IInv
<1> SUFFICES ASSUME Init PROVE IInv
  OBVIOUS
<1>1. <<>> \in Seq(Message) /\ Len(<<>>) = 0
  BY EmptySeq
<1>2. TypeOK
  BY <1>1, ChatServerAssumption DEF Init, TypeOK
<1>3. AfterStart /\ HolderQueues /\ NewIsSilent /\ LoopInStep
  BY DEF Init, AfterStart, HolderQueues, NewIsSilent, LoopInStep
<1>4. QueueIsOrder
  BY <1>1 DEF Init, QueueIsOrder, Owed
<1>5. SegmentOfOrder
  BY <1>1 DEF Init, SegmentOfOrder
<1>. QED
  BY <1>2, <1>3, <1>4, <1>5 DEF IInv

(* The numbers and sequences in the invariant are what they should be.      *)
LEMMA Lengths ==
  ASSUME TypeOK
  PROVE  /\ Len(order) \in Nat
         /\ \A k \in Loop : ran[k] \in Nat /\ Len(pending[k]) \in Nat
                              /\ Owed(k) \in {0, 1}
         /\ \A c \in Client : start[c] \in Nat /\ Len(outbox[c]) \in Nat
BY LenProperties DEF TypeOK, Owed

LEMMA ThreadInitIInv ==
  ASSUME IInv, NEW l \in Loop, ThreadInit(l) PROVE IInv'
<1>1. TypeOK'
  BY DEF IInv, ThreadInit, TypeOK
<1>2. AfterStart'
  BY DEF IInv, ThreadInit, AfterStart
<1>3. HolderQueues' /\ NewIsSilent' /\ LoopInStep' /\ SegmentOfOrder'
  BY DEF IInv, ThreadInit, HolderQueues, NewIsSilent, LoopInStep, SegmentOfOrder
<1>4. QueueIsOrder'
  BY DEF IInv, ThreadInit, QueueIsOrder, Owed
<1>. QED
  BY <1>1, <1>2, <1>3, <1>4 DEF IInv

LEMMA AcceptIInv ==
  ASSUME IInv, NEW l \in Loop, NEW c \in Client, Accept(l, c) PROVE IInv'
<1>1. TypeOK'
  BY DEF IInv, Accept, TypeOK
<1>2. AfterStart'
  BY DEF IInv, Accept, AfterStart, Listening
<1>3. HolderQueues' /\ NewIsSilent'
  BY DEF IInv, Accept, HolderQueues, NewIsSilent, TypeOK
<1>4. QueueIsOrder'
  BY DEF IInv, Accept, QueueIsOrder, Owed
<1>5. /\ outbox[c] = <<>> /\ Len(outbox[c]) = 0
      /\ ran[l] \in Nat /\ Len(order) \in Nat /\ ran[l] <= Len(order)
  BY Lengths, EmptySeq DEF IInv, Accept, NewIsSilent, QueueIsOrder
<1>6. LoopInStep'
  <2>1. ASSUME NEW k \in Loop, NEW d \in local'[k]
        PROVE  /\ status'[d] \in {"up", "shut"} /\ home'[d] = k
               /\ status'[d] = "up" => start'[d] + Len(outbox'[d]) = ran'[k]
    <3>1. d \in Client
      BY <1>1, <2>1 DEF TypeOK
    <3>2. CASE d = c
      <4>1. k = l
        BY <2>1, <3>2 DEF IInv, TypeOK, Accept, LoopInStep
      <4>. QED
        BY <1>5, <3>2, <4>1 DEF IInv, TypeOK, Accept
    <3>3. CASE d # c
      <4>1. d \in local[k]
        BY <2>1, <3>3 DEF IInv, TypeOK, Accept
      <4>. QED
        BY <3>1, <3>3, <4>1 DEF IInv, TypeOK, Accept, LoopInStep
    <3>. QED
      BY <3>2, <3>3
  <2>. QED
    BY <2>1 DEF LoopInStep
<1>7. SegmentOfOrder'
  <2>1. ASSUME NEW d \in Client
        PROVE  /\ start'[d] + Len(outbox'[d]) <= Len(order')
               /\ \A i \in 1..Len(outbox'[d]) : outbox'[d][i] = order'[start'[d] + i]
    <3>1. CASE d = c
      BY <1>5, <3>1 DEF IInv, TypeOK, Accept
    <3>2. CASE d # c
      BY <3>2 DEF IInv, TypeOK, Accept, SegmentOfOrder
    <3>. QED
      BY <3>1, <3>2
  <2>. QED
    BY <2>1 DEF SegmentOfOrder
<1>. QED
  BY <1>1, <1>2, <1>3, <1>4, <1>6, <1>7 DEF IInv

LEMMA CloseIInv ==
  ASSUME IInv, NEW l \in Loop, NEW c \in Client, Close(l, c) PROVE IInv'
<1>1. TypeOK'
  BY DEF IInv, Close, TypeOK
<1>2. AfterStart'
  BY DEF IInv, Close, AfterStart, TypeOK
<1>3. HolderQueues' /\ NewIsSilent' /\ SegmentOfOrder'
  BY DEF IInv, Close, HolderQueues, NewIsSilent, SegmentOfOrder, TypeOK
<1>4. QueueIsOrder'
  BY DEF IInv, Close, QueueIsOrder, Owed
<1>5. LoopInStep'
  <2>1. ASSUME NEW k \in Loop, NEW d \in local'[k]
        PROVE  d # c /\ d \in local[k] /\ d \in Client
    BY <1>1, <2>1 DEF IInv, TypeOK, Close, LoopInStep
  <2>. QED
    BY <2>1 DEF IInv, TypeOK, Close, LoopInStep
<1>. QED
  BY <1>1, <1>2, <1>3, <1>4, <1>5 DEF IInv

LEMMA InvalidLengthIInv ==
  ASSUME IInv, NEW l \in Loop, NEW c \in Client, InvalidLength(l, c) PROVE IInv'
<1>1. TypeOK'
  BY DEF IInv, InvalidLength, TypeOK
<1>2. AfterStart'
  BY DEF IInv, InvalidLength, AfterStart, TypeOK
<1>3. HolderQueues' /\ NewIsSilent' /\ SegmentOfOrder'
  BY DEF IInv, InvalidLength, HolderQueues, NewIsSilent, SegmentOfOrder, TypeOK
<1>4. QueueIsOrder'
  BY DEF IInv, InvalidLength, QueueIsOrder, Owed
<1>5. LoopInStep'
  BY DEF IInv, InvalidLength, LoopInStep, TypeOK
<1>. QED
  BY <1>1, <1>2, <1>3, <1>4, <1>5 DEF IInv

LEMMA ReceiveIInv ==
  ASSUME IInv, NEW l \in Loop, NEW m \in Message, Receive(l, m) PROVE IInv'
<1>1. TypeOK'
  BY DEF IInv, Receive, TypeOK
<1>2. AfterStart'
  BY ChatServerAssumption DEF IInv, Receive, AfterStart, TypeOK
<1>3. HolderQueues'
  BY DEF IInv, Receive, HolderQueues, TypeOK, Idle
<1>4. NewIsSilent' /\ LoopInStep' /\ SegmentOfOrder'
  BY DEF IInv, Receive, NewIsSilent, LoopInStep, SegmentOfOrder
<1>5. QueueIsOrder'
  BY DEF IInv, Receive, QueueIsOrder, Owed
<1>. QED
  BY <1>1, <1>2, <1>3, <1>4, <1>5 DEF IInv

-----------------------------------------------------------------------------
(* Taking mutex_ puts the message at the end of the order and owes its      *)
(* functor to every loop.                                                   *)
LEMMA LockIInv == ASSUME IInv, NEW l \in Loop, Lock(l) PROVE IInv'
<1>1. /\ reading[l] \in Message /\ reading[l] # None
      /\ mutex = None /\ mutex' = l
      /\ todo' = [todo EXCEPT ![l] = loops]
      /\ order' = Append(order, reading[l])
      /\ loops = Loop
      /\ UNCHANGED <<loops, reading, pending, local, status, home, spoken,
                     outbox, start, ran>>
  BY ChatServerAssumption DEF Lock, IInv, TypeOK, AfterStart
<1>2. /\ order' \in Seq(Message)
      /\ Len(order) \in Nat
      /\ Len(order') = Len(order) + 1
      /\ \A i \in 1..Len(order) : order'[i] = order[i]
      /\ order'[Len(order) + 1] = reading[l]
  BY <1>1, AppendProperties, LenProperties DEF IInv, TypeOK
<1>3. TypeOK'
  BY <1>1, <1>2 DEF IInv, TypeOK
<1>4. AfterStart' /\ NewIsSilent' /\ LoopInStep'
  BY <1>1 DEF IInv, AfterStart, NewIsSilent, LoopInStep
<1>5. HolderQueues'
  <2>1. \A k \in Loop : todo'[k] # {} => k = l
    BY <1>1, ChatServerAssumption DEF IInv, HolderQueues, TypeOK
  <2>. QED
    BY <1>1, <1>2, <2>1 DEF HolderQueues
<1>6. QueueIsOrder'
  <2> SUFFICES ASSUME NEW k \in Loop
               PROVE  /\ ran'[k] + Len(pending'[k]) + Owed(k)' = Len(order')
                      /\ \A i \in 1..Len(pending'[k]) :
                           pending'[k][i] = order'[ran'[k] + i]
    BY DEF QueueIsOrder
  <2>1. Owed(k)' = 1 /\ Owed(k) = 0
    BY <1>1, ChatServerAssumption DEF Owed, IInv, TypeOK
  <2>2. /\ ran[k] \in Nat /\ Len(pending[k]) \in Nat
        /\ ran[k] + Len(pending[k]) = Len(order)
    BY <2>1, Lengths DEF IInv, QueueIsOrder
  <2>3. ASSUME NEW i \in 1..Len(pending[k])
        PROVE  pending[k][i] = order'[ran[k] + i]
    <3>1. ran[k] + i \in 1..Len(order)
      BY <2>2
    <3>. QED
      BY <1>2, <3>1 DEF IInv, QueueIsOrder
  <2>. QED
    BY <1>1, <1>2, <2>1, <2>2, <2>3
<1>7. SegmentOfOrder'
  <2> SUFFICES ASSUME NEW c \in Client
               PROVE  /\ start'[c] + Len(outbox'[c]) <= Len(order')
                      /\ \A i \in 1..Len(outbox'[c]) :
                           outbox'[c][i] = order'[start'[c] + i]
    BY DEF SegmentOfOrder
  <2>1. /\ start[c] \in Nat /\ Len(outbox[c]) \in Nat
        /\ start[c] + Len(outbox[c]) <= Len(order)
    BY Lengths DEF IInv, SegmentOfOrder
  <2>2. ASSUME NEW i \in 1..Len(outbox[c])
        PROVE  outbox[c][i] = order'[start[c] + i]
    <3>1. start[c] + i \in 1..Len(order)
      BY <1>2, <2>1
    <3>. QED
      BY <1>2, <3>1 DEF IInv, SegmentOfOrder
  <2>. QED
    BY <1>1, <1>2, <2>1, <2>2
<1>. QED
  BY <1>3, <1>4, <1>5, <1>6, <1>7 DEF IInv

(* queueInLoop pays the debt to one loop.                                   *)
LEMMA QueueInLoopIInv ==
  ASSUME IInv, NEW l \in Loop, NEW k \in Loop, QueueInLoop(l, k) PROVE IInv'
<1>1. /\ k \in todo[l] /\ mutex = l /\ mutex # None
      /\ pending' = [pending EXCEPT ![k] = Append(pending[k], reading[l])]
      /\ todo' = [todo EXCEPT ![l] = @ \ {k}]
      /\ UNCHANGED <<loops, mutex, reading, local, status, home, spoken,
                     outbox, order, start, ran>>
  BY ChatServerAssumption DEF QueueInLoop, WithFunctor, IInv, HolderQueues
<1>2. /\ reading[l] \in Message
      /\ Len(order) > 0 /\ order[Len(order)] = reading[l]
      /\ pending[k] \in Seq(Message)
  BY <1>1 DEF IInv, HolderQueues, TypeOK
<1>3. /\ pending'[k] \in Seq(Message)
      /\ Len(pending[k]) \in Nat
      /\ Len(pending'[k]) = Len(pending[k]) + 1
      /\ \A i \in 1..Len(pending[k]) : pending'[k][i] = pending[k][i]
      /\ pending'[k][Len(pending[k]) + 1] = reading[l]
      /\ \A j \in Loop \ {k} : pending'[j] = pending[j]
  <2>1. pending'[k] = Append(pending[k], reading[l])
    BY <1>1 DEF IInv, TypeOK
  <2>2. \A j \in Loop \ {k} : pending'[j] = pending[j]
    BY <1>1 DEF IInv, TypeOK
  <2>. QED
    BY <1>2, <2>1, <2>2, AppendProperties, LenProperties
<1>4. TypeOK'
  <2>1. pending' \in [Loop -> Seq(Message)]
    BY <1>1, <1>3 DEF IInv, TypeOK
  <2>. QED
    BY <1>1, <2>1 DEF IInv, TypeOK
<1>5. AfterStart' /\ NewIsSilent' /\ LoopInStep' /\ SegmentOfOrder'
  BY <1>1 DEF IInv, AfterStart, NewIsSilent, LoopInStep, SegmentOfOrder
<1>6. HolderQueues'
  BY <1>1 DEF IInv, HolderQueues, TypeOK
<1>7. QueueIsOrder'
  <2> SUFFICES ASSUME NEW j \in Loop
               PROVE  /\ ran'[j] + Len(pending'[j]) + Owed(j)' = Len(order')
                      /\ \A i \in 1..Len(pending'[j]) :
                           pending'[j][i] = order'[ran'[j] + i]
    BY DEF QueueIsOrder
  <2>1. CASE j = k
    <3>1. Owed(k) = 1 /\ Owed(k)' = 0
      BY <1>1 DEF Owed, IInv, TypeOK
    <3>2. ran[k] \in Nat /\ ran[k] + Len(pending[k]) + 1 = Len(order)
      BY <3>1, Lengths DEF IInv, QueueIsOrder
    <3>3. ran'[k] + Len(pending'[k]) + Owed(k)' = Len(order')
      BY <1>1, <1>3, <3>1, <3>2
    <3>4. ASSUME NEW i \in 1..Len(pending'[k])
          PROVE  pending'[k][i] = order[ran[k] + i]
      <4>1. CASE i \in 1..Len(pending[k])
        BY <1>3, <4>1 DEF IInv, QueueIsOrder
      <4>2. CASE i = Len(pending[k]) + 1
        <5>1. ran[k] + i = Len(order)
          BY <1>3, <3>2, <4>2
        <5>. QED
          BY <1>2, <1>3, <4>2, <5>1
      <4>. QED
        BY <1>3, <4>1, <4>2
    <3>. QED
      BY <1>1, <2>1, <3>3, <3>4
  <2>2. CASE j # k
    <3>1. Owed(j)' = Owed(j)
      BY <1>1, <2>2 DEF Owed, IInv, TypeOK
    <3>2. pending'[j] = pending[j]
      BY <1>3, <2>2
    <3>. QED
      BY <1>1, <3>1, <3>2 DEF IInv, QueueIsOrder
  <2>. QED
    BY <2>1, <2>2
<1>. QED
  BY <1>4, <1>5, <1>6, <1>7 DEF IInv

LEMMA UnlockIInv == ASSUME IInv, NEW l \in Loop, Unlock(l) PROVE IInv'
<1>1. TypeOK'
  BY DEF IInv, Unlock, TypeOK
<1>2. AfterStart'
  BY DEF IInv, Unlock, AfterStart, TypeOK
<1>3. NewIsSilent' /\ LoopInStep' /\ SegmentOfOrder'
  BY DEF IInv, Unlock, NewIsSilent, LoopInStep, SegmentOfOrder
<1>4. HolderQueues'
  BY ChatServerAssumption DEF IInv, Unlock, HolderQueues
<1>5. QueueIsOrder'
  <2>1. \A k \in Loop : Owed(k)' = Owed(k)
    BY ChatServerAssumption DEF IInv, Unlock, Owed
  <2>. QED
    BY <2>1 DEF IInv, Unlock, QueueIsOrder
<1>. QED
  BY <1>1, <1>2, <1>3, <1>4, <1>5 DEF IInv

(* The front of a loop's queue is what its connections have to hear next.   *)
LEMMA NextInOrder ==
  ASSUME IInv, NEW l \in Loop, pending[l] # <<>>
  PROVE  /\ ran[l] + 1 <= Len(order)
         /\ Head(pending[l]) = order[ran[l] + 1]
         /\ Head(pending[l]) \in Message
         /\ Tail(pending[l]) \in Seq(Message)
         /\ Len(Tail(pending[l])) = Len(pending[l]) - 1
         /\ \A i \in 1..Len(Tail(pending[l])) :
              Tail(pending[l])[i] = pending[l][i + 1]
<1>1. pending[l] \in Seq(Message)
  BY DEF IInv, TypeOK
<1>2. /\ Head(pending[l]) = pending[l][1]
      /\ Head(pending[l]) \in Message
      /\ Tail(pending[l]) \in Seq(Message)
      /\ Len(Tail(pending[l])) = Len(pending[l]) - 1
      /\ \A i \in 1..Len(Tail(pending[l])) : Tail(pending[l])[i] = pending[l][i + 1]
  BY <1>1, HeadTailProperties
<1>3. Len(pending[l]) \in Nat /\ Len(pending[l]) >= 1
  BY <1>1, EmptySeq
<1>4. ran[l] + 1 <= Len(order) /\ pending[l][1] = order[ran[l] + 1]
  BY <1>3, Lengths DEF IInv, QueueIsOrder
<1>. QED
  BY <1>2, <1>4

LEMMA DistributeIInv ==
  ASSUME IInv, NEW l \in Loop, DistributeMessage(l) PROVE IInv'
<1> DEFINE h == Head(pending[l])
<1>1. /\ pending[l] # <<>>
      /\ outbox' = [c \in Client |-> IF c \in Receivers(l)
                                    THEN Append(outbox[c], h) ELSE outbox[c]]
      /\ pending' = [pending EXCEPT ![l] = Tail(pending[l])]
      /\ ran' = [ran EXCEPT ![l] = ran[l] + 1]
      /\ UNCHANGED <<loops, mutex, reading, todo, local, status, home, spoken,
                     order, start>>
  BY DEF DistributeMessage
<1>2. /\ ran[l] + 1 <= Len(order)
      /\ h = order[ran[l] + 1] /\ h \in Message
      /\ Tail(pending[l]) \in Seq(Message)
      /\ Len(Tail(pending[l])) = Len(pending[l]) - 1
      /\ \A i \in 1..Len(Tail(pending[l])) :
           Tail(pending[l])[i] = pending[l][i + 1]
  BY <1>1, NextInOrder
<1> HIDE DEF h
<1>3. /\ Len(order) \in Nat
      /\ \A k \in Loop : ran[k] \in Nat /\ Len(pending[k]) \in Nat
      /\ \A c \in Client : start[c] \in Nat /\ Len(outbox[c]) \in Nat
  BY Lengths DEF IInv
<1>4. ASSUME NEW c \in Client, c \in Receivers(l)
      PROVE  /\ outbox'[c] \in Seq(Message)
             /\ Len(outbox'[c]) = Len(outbox[c]) + 1
             /\ \A i \in 1..Len(outbox[c]) : outbox'[c][i] = outbox[c][i]
             /\ outbox'[c][Len(outbox[c]) + 1] = h
  <2>1. outbox'[c] = Append(outbox[c], h) /\ outbox[c] \in Seq(Message)
    BY <1>1, <1>4 DEF IInv, TypeOK
  <2>. QED
    BY <1>2, <2>1, AppendProperties
<1>5. \A c \in Client : c \notin Receivers(l) => outbox'[c] = outbox[c]
  BY <1>1
<1>6. TypeOK'
  <2>1. outbox' \in [Client -> Seq(Message)]
    <3>1. \A c \in Client : outbox'[c] \in Seq(Message)
      BY <1>4, <1>5 DEF IInv, TypeOK
    <3>. QED
      BY <1>1, <3>1
  <2>2. pending' \in [Loop -> Seq(Message)] /\ ran' \in [Loop -> Nat]
    BY <1>1, <1>2 DEF IInv, TypeOK
  <2>. QED
    BY <1>1, <2>1, <2>2 DEF IInv, TypeOK
<1>7. AfterStart' /\ HolderQueues'
  BY <1>1 DEF IInv, AfterStart, HolderQueues
<1>8. NewIsSilent'
  <2>1. \A c \in Client : status[c] = "new" => c \notin Receivers(l)
    BY DEF Receivers
  <2>. QED
    BY <1>1, <1>5, <2>1 DEF IInv, NewIsSilent
<1>9. QueueIsOrder'
  <2> SUFFICES ASSUME NEW k \in Loop
               PROVE  /\ ran'[k] + Len(pending'[k]) + Owed(k)' = Len(order')
                      /\ \A i \in 1..Len(pending'[k]) :
                           pending'[k][i] = order'[ran'[k] + i]
    BY DEF QueueIsOrder
  <2>1. Owed(k)' = Owed(k) /\ Owed(k) \in {0, 1}
    BY <1>1 DEF Owed
  <2>2. CASE k = l
    <3>1. pending'[l] = Tail(pending[l]) /\ ran'[l] = ran[l] + 1
      BY <1>1 DEF IInv, TypeOK
    <3>2. ran'[l] + Len(pending'[l]) + Owed(l)' = Len(order')
      <4>1. ran[l] + Len(pending[l]) + Owed(l) = Len(order)
        BY DEF IInv, QueueIsOrder
      <4>2. Len(pending'[l]) = Len(pending[l]) - 1 /\ order' = order
        BY <1>1, <1>2, <3>1
      <4>3. Owed(l)' = Owed(l) /\ Owed(l) \in {0, 1}
        BY <2>1, <2>2
      <4>. QED
        BY <1>3, <3>1, <4>1, <4>2, <4>3
    <3>3. ASSUME NEW i \in 1..Len(pending'[l])
          PROVE  pending'[l][i] = order'[ran'[l] + i]
      <4>1. i + 1 \in 1..Len(pending[l]) /\ ran[l] + (i + 1) = ran'[l] + i
        BY <1>2, <1>3, <3>1
      <4>2. pending'[l][i] = pending[l][i + 1]
        BY <1>2, <3>1
      <4>. QED
        BY <1>1, <4>1, <4>2 DEF IInv, QueueIsOrder
    <3>. QED
      BY <2>2, <3>2, <3>3
  <2>3. CASE k # l
    <3>1. pending'[k] = pending[k] /\ ran'[k] = ran[k]
      BY <1>1, <2>3 DEF IInv, TypeOK
    <3>. QED
      BY <1>1, <2>1, <3>1 DEF IInv, QueueIsOrder
  <2>. QED
    BY <2>2, <2>3
<1>10. LoopInStep'
  <2>1. ASSUME NEW k \in Loop, NEW c \in local'[k]
        PROVE  /\ status'[c] \in {"up", "shut"} /\ home'[c] = k
               /\ status'[c] = "up" => start'[c] + Len(outbox'[c]) = ran'[k]
    <3>1. /\ c \in Client /\ c \in local[k]
          /\ status[c] \in {"up", "shut"} /\ home[c] = k
          /\ status[c] = "up" => start[c] + Len(outbox[c]) = ran[k]
      BY <1>1, <2>1 DEF IInv, TypeOK, LoopInStep
    <3>2. CASE k = l
      <4>1. status[c] = "up" => Len(outbox'[c]) = Len(outbox[c]) + 1
        BY <1>4, <3>1, <3>2 DEF Receivers
      <4>2. ran'[l] = ran[l] + 1
        BY <1>1 DEF IInv, TypeOK
      <4>3. status'[c] = status[c] /\ home'[c] = home[c] /\ start'[c] = start[c]
        BY <1>1
      <4>. QED
        BY <1>3, <3>1, <3>2, <4>1, <4>2, <4>3
    <3>3. CASE k # l
      <4>1. c \notin Receivers(l)
        BY <3>1, <3>3 DEF IInv, LoopInStep, Receivers
      <4>. QED
        BY <1>1, <1>5, <3>1, <3>3, <4>1 DEF IInv, TypeOK
    <3>. QED
      BY <3>2, <3>3
  <2>. QED
    BY <2>1 DEF LoopInStep
<1>11. SegmentOfOrder'
  <2> SUFFICES ASSUME NEW c \in Client
               PROVE  /\ start'[c] + Len(outbox'[c]) <= Len(order')
                      /\ \A i \in 1..Len(outbox'[c]) :
                           outbox'[c][i] = order'[start'[c] + i]
    BY DEF SegmentOfOrder
  <2>1. CASE c \in Receivers(l)
    <3>1. start[c] + Len(outbox[c]) = ran[l]
      BY <2>1 DEF IInv, LoopInStep, Receivers
    <3>2. start'[c] + Len(outbox'[c]) <= Len(order')
      BY <1>1, <1>2, <1>3, <1>4, <2>1, <3>1
    <3>3. ASSUME NEW i \in 1..Len(outbox'[c])
          PROVE  outbox'[c][i] = order'[start'[c] + i]
      <4>1. CASE i \in 1..Len(outbox[c])
        BY <1>1, <1>4, <2>1, <4>1 DEF IInv, SegmentOfOrder
      <4>2. CASE i = Len(outbox[c]) + 1
        <5>1. start[c] + i = ran[l] + 1
          BY <1>3, <3>1, <4>2
        <5>. QED
          BY <1>1, <1>2, <1>4, <2>1, <4>2, <5>1
      <4>. QED
        BY <1>3, <1>4, <2>1, <4>1, <4>2
    <3>. QED
      BY <3>2, <3>3
  <2>2. CASE c \notin Receivers(l)
    BY <1>1, <1>5, <2>2 DEF IInv, SegmentOfOrder
  <2>. QED
    BY <2>1, <2>2
<1>. QED
  BY <1>6, <1>7, <1>8, <1>9, <1>10, <1>11 DEF IInv

LEMMA NextIInv == IInv /\ [Next]_vars => IInv'
<1> SUFFICES ASSUME IInv, [Next]_vars PROVE IInv'
  OBVIOUS
<1>1. CASE UNCHANGED vars
  BY <1>1 DEF vars, IInv, TypeOK, AfterStart, HolderQueues, QueueIsOrder, Owed,
              NewIsSilent, LoopInStep, SegmentOfOrder
<1>2. ASSUME NEW l \in Loop, ThreadInit(l) PROVE IInv'
  BY <1>2, ThreadInitIInv
<1>3. ASSUME NEW l \in Loop, NEW c \in Client, Accept(l, c) \/ InvalidLength(l, c) \/ Close(l, c)
      PROVE  IInv'
  BY <1>3, AcceptIInv, InvalidLengthIInv, CloseIInv
<1>4. ASSUME NEW l \in Loop, NEW m \in Message, Receive(l, m) PROVE IInv'
  BY <1>4, ReceiveIInv
<1>5. ASSUME NEW l \in Loop, Work(l) PROVE IInv'
  BY <1>5, LockIInv, QueueInLoopIInv, UnlockIInv, DistributeIInv DEF Work
<1>. QED
  BY <1>1, <1>2, <1>3, <1>4, <1>5 DEF Next

-----------------------------------------------------------------------------
(* The inductive invariant holds in every reachable state.                  *)
THEOREM InvariantHolds == Spec => []IInv
<1>. QED
  BY InitIInv, NextIInv, PTL DEF Spec

(* Every variable keeps its type.                                           *)
THEOREM TypeCorrect == Spec => []TypeOK
<1>1. IInv => TypeOK
  BY DEF IInv
<1>. QED
  BY <1>1, InvariantHolds, PTL

(* What each client is sent is a gapless stretch of the one order in which  *)
(* messages took mutex_, for any number of loops and clients.               *)
THEOREM TotalOrder == Spec => []SegmentOfOrder
<1>1. IInv => SegmentOfOrder
  BY DEF IInv
<1>. QED
  BY <1>1, InvariantHolds, PTL

-----------------------------------------------------------------------------
(* A distribution lets the connections of the loop hear what comes next.    *)
LEMMA DistributeIsHear ==
  ASSUME IInv, NEW l \in Loop, DistributeMessage(l)
  PROVE  Room!Hear(Receivers(l))
<1>1. \A c \in Receivers(l) :
        /\ c \in Client /\ Present[c] = "up"
        /\ start[c] + Len(outbox[c]) = ran[l]
  BY DEF IInv, TypeOK, LoopInStep, Receivers, Present
<1>2. /\ ran[l] + 1 <= Len(order) /\ Head(pending[l]) = order[ran[l] + 1]
      /\ ran[l] \in Nat /\ Len(order) \in Nat
  BY NextInOrder, Lengths DEF IInv, DistributeMessage
<1>3. \A c \in Receivers(l) : Present[c] = "up" /\ Room!Position(c) < Len(order)
  BY <1>1, <1>2 DEF Room!Position
<1>4. outbox' = [c \in Client |-> IF c \in Receivers(l)
                                 THEN Append(outbox[c], order[Room!Position(c) + 1])
                                 ELSE outbox[c]]
  BY <1>1, <1>2 DEF DistributeMessage, Room!Position
<1>5. UNCHANGED <<order, Present, start>>
  BY DEF DistributeMessage, Present
<1>. QED
  BY <1>3, <1>4, <1>5 DEF Room!Hear

LEMMA StepIsRoomStep ==
  IInv /\ [Next]_vars => [Room!Next]_(Room!roomVars)
<1> SUFFICES ASSUME IInv, [Next]_vars
             PROVE  Room!Next \/ UNCHANGED <<order, Present, start, outbox>>
  BY DEF Room!roomVars
<1>1. UNCHANGED vars => UNCHANGED <<order, Present, start, outbox>>
  BY DEF vars, Present
<1>2. ASSUME NEW l \in Loop,
             ThreadInit(l) \/ Unlock(l) \/ \E k \in Loop : QueueInLoop(l, k)
      PROVE  UNCHANGED <<order, Present, start, outbox>>
  BY <1>2 DEF ThreadInit, Unlock, QueueInLoop, Present
<1>3. ASSUME NEW l \in Loop, NEW m \in Message, Receive(l, m)
      PROVE  UNCHANGED <<order, Present, start, outbox>>
  BY <1>3 DEF Receive, Present
<1>4. ASSUME NEW l \in Loop, Lock(l) PROVE Room!Next
  <2>1. reading[l] \in Message /\ Room!Say(reading[l])
    BY <1>4 DEF IInv, TypeOK, Lock, Room!Say, Present
  <2>. QED
    BY <2>1 DEF Room!Next
<1>5. ASSUME NEW l \in Loop, NEW c \in Client, Accept(l, c) PROVE Room!Next
  <2>1. ran[l] \in 0..Len(order)
    BY Lengths DEF IInv, QueueIsOrder
  <2>2. Present[c] = "new" /\ Present' = [Present EXCEPT ![c] = "up"]
    BY <1>5 DEF Accept, Present, IInv, TypeOK
  <2>3. Room!Join(c)
    BY <1>5, <2>1, <2>2 DEF Accept, Room!Join
  <2>. QED
    BY <2>3 DEF Room!Next
<1>6. ASSUME NEW l \in Loop, NEW c \in Client, InvalidLength(l, c) \/ Close(l, c)
      PROVE  Room!Next \/ UNCHANGED <<order, Present, start, outbox>>
  <2>1. UNCHANGED <<order, start, outbox>>
    BY <1>6 DEF InvalidLength, Close
  <2>2. CASE status[c] = "up"
    <3>1. Present[c] = "up" /\ Present' = [Present EXCEPT ![c] = "down"]
      BY <1>6, <2>2 DEF InvalidLength, Close, Present, IInv, TypeOK
    <3>. QED
      BY <2>1, <3>1 DEF Room!Leave, Room!Next
  <2>3. CASE status[c] # "up"
    <3>1. Present' = Present
      BY <1>6, <2>3 DEF InvalidLength, Close, Present, IInv, TypeOK
    <3>. QED
      BY <2>1, <3>1
  <2>. QED
    BY <2>2, <2>3
<1>7. ASSUME NEW l \in Loop, DistributeMessage(l) PROVE Room!Next
  <2>1. Receivers(l) \in SUBSET Client
    BY DEF IInv, TypeOK, Receivers
  <2>2. Room!Hear(Receivers(l))
    BY <1>7, DistributeIsHear
  <2>. QED
    BY <2>1, <2>2 DEF Room!Next
<1>. QED
  BY <1>1, <1>2, <1>3, <1>4, <1>5, <1>6, <1>7 DEF Next, Work

(* Threads, functors and the mutex are invisible: for any number of loops   *)
(* and clients the server is one chat room.                                 *)
THEOREM ServerIsRoom == Spec => ImplementsRoom
<1>1. Init => Room!Init
  BY DEF Init, Room!Init, Present
<1>. QED
  BY <1>1, InvariantHolds, StepIsRoomStep, PTL DEF Spec, ImplementsRoom, Room!Spec
=============================================================================
