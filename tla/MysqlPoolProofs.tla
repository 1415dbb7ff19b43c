-------------------------- MODULE MysqlPoolProofs --------------------------
(***************************************************************************)
(* Proofs about MysqlPool: its safety properties hold for every set of     *)
(* threads and connections and every configuration, and the pool           *)
(* implements ConnectionLender.                                            *)
(***************************************************************************)
EXTENDS MysqlPool, SequenceTheorems, FiniteSetTheorems, TLAPS

(* A thread has a connection exactly while it is past getOneConnect.        *)
HoldersHold == \A t \in Thread : sp[t] # None <=> pc[t] = "holding"

(* The inductive invariant.  _currentCount is only known to be a natural    *)
(* number because it is the number of pooled connections, and that number   *)
(* only stays right because no connection is in two places.                 *)
IInv ==
  /\ TypeOK
  /\ HoldersHold
  /\ CountAccounting
  /\ NoSharing
  /\ CountBound
  /\ PooledNotClosed

-----------------------------------------------------------------------------
(* What is left of the queue without its first n connections.               *)
LEMMA WithoutProperties ==
  ASSUME queue \in Seq(Conn), NEW n \in 0..Len(queue)
  PROVE  /\ Without(n) \in Seq(Conn)
         /\ Len(Without(n)) = Len(queue) - n
         /\ \A i \in 1..(Len(queue) - n) : Without(n)[i] = queue[n + i]
<1>1. Len(queue) \in Nat /\ \A i \in (n + 1)..Len(queue) : queue[i] \in Conn
  BY LenProperties, ElementOfSeq
<1>2. /\ SubSeq(queue, n + 1, Len(queue)) \in Seq(Conn)
      /\ Len(SubSeq(queue, n + 1, Len(queue)))
           = IF n + 1 <= Len(queue) THEN Len(queue) - (n + 1) + 1 ELSE 0
      /\ \A i \in 1..(Len(queue) - (n + 1) + 1) :
           SubSeq(queue, n + 1, Len(queue))[i] = queue[n + 1 + i - 1]
  <2>1. n + 1 \in Int /\ Len(queue) \in Int
    BY <1>1
  <2>. QED
    BY <1>1, <2>1, SubSeqProperties
<1>. QED
  BY <1>1, <1>2 DEF Without

(* The borrowers are finitely many.                                         *)
LEMMA HoldersFinite ==
  IsFiniteSet(Holders) /\ Cardinality(Holders) \in Nat
BY PoolAssumption, FS_Subset, FS_CardinalityType DEF Holders

(* A sequence over distinct positions 1..n is a sequence of length n.       *)
LEMMA FunctionIsSeq ==
  ASSUME NEW S, NEW n \in Nat, NEW s \in [1..n -> S]
  PROVE  s \in Seq(S) /\ Len(s) = n
<1>1. s \in Seq(S)
  BY SeqDef
<1>. QED
  BY <1>1, LenProperties

-----------------------------------------------------------------------------
(* The constructor establishes the invariant.                               *)
LEMMA InitIInv == Init => IInv
<1> SUFFICES ASSUME Init PROVE IInv
  OBVIOUS
<1>1. PICK n \in 1..InitCount :
        /\ queue \in [1..n -> Conn]
        /\ \A i, j \in 1..n : queue[i] = queue[j] => i = j
  BY DEF Init
<1>2. queue \in Seq(Conn) /\ Len(queue) = n
  BY <1>1, FunctionIsSeq, PoolAssumption
<1>3. Holders = {} /\ Cardinality(Holders) = 0
  BY FS_EmptySet DEF Init, Holders
<1>4. TypeOK
  BY <1>2, PoolAssumption DEF Init, TypeOK, Link, Blocked
<1>5. HoldersHold
  BY DEF Init, HoldersHold
<1>6. CountAccounting
  BY <1>2, <1>3 DEF Init, CountAccounting
<1>7. NoSharing
  BY <1>1, <1>2, <1>3 DEF NoSharing
<1>8. CountBound
  BY <1>2, PoolAssumption DEF Init, CountBound, Limit
<1>9. PooledNotClosed
  <2>1. Queued \subseteq Conn
    BY <1>1, <1>2 DEF Queued
  <2>. QED
    BY <1>3, <2>1 DEF Init, PooledNotClosed
<1>. QED
  BY <1>4, <1>5, <1>6, <1>7, <1>8, <1>9 DEF IInv

(* Steps that move nobody's connections keep what the invariant says of     *)
(* them.                                                                    *)
LEMMA SameConnections ==
  ASSUME IInv, TypeOK', HoldersHold',
         UNCHANGED <<queue, currentCount, sp>>,
         \A c \in Conn : link[c] \in {"open", "dead"} =>
                           link'[c] \in {"open", "dead"}
  PROVE  IInv'
<1>1. Holders' = Holders /\ Queued' = Queued
  BY DEF Holders, Queued
<1>2. \A i \in 1..Len(queue) : queue[i] \in Conn
  BY ElementOfSeq DEF IInv, TypeOK
<1>3. \A t \in Holders : sp[t] \in Conn
  BY DEF IInv, TypeOK, Holders
<1>4. CountAccounting' /\ CountBound'
  BY <1>1 DEF IInv, CountAccounting, CountBound, Limit
<1>5. NoSharing'
  BY <1>1 DEF IInv, NoSharing
<1>6. PooledNotClosed'
  BY <1>1, <1>2, <1>3 DEF IInv, PooledNotClosed, Queued
<1>. QED
  BY <1>4, <1>5, <1>6 DEF IInv

-----------------------------------------------------------------------------
(* The producer.                                                            *)
LEMMA ProducerIInv ==
  ASSUME IInv, Producer
  PROVE  IInv'
<1> USE PoolAssumption
<1>1. CASE ProduceConnection
  <2>1. PICK c \in Conn :
          /\ link[c] = "none"
          /\ \E l \in {"open", "dead"} : link' = [link EXCEPT ![c] = l]
          /\ age' = Refreshed(c)
          /\ queue' = Append(queue, c)
    BY <1>1 DEF ProduceConnection
  <2>2. queue = <<>> /\ currentCount < MaxCount
    BY <1>1 DEF ProduceConnection, CanCreate
  <2>3. queue' \in Seq(Conn) /\ Len(queue') = 1 /\ queue'[1] = c
    BY <2>1, <2>2, AppendProperties, EmptySeq DEF IInv, TypeOK
  <2>4. Queued' = {c}
    BY <2>3 DEF Queued
  <2>5. Holders' = Holders /\ sp' = sp
    BY <1>1 DEF ProduceConnection, Holders
  <2>6. \A t \in Holders : sp[t] # c /\ sp[t] \in Conn
    BY <2>1 DEF IInv, PooledNotClosed, TypeOK, Holders
  <2>7. TypeOK'
    BY <1>1, <2>1, <2>3
    DEF ProduceConnection, IInv, TypeOK, Refreshed, AfterNotifyAll, Blocked, Link
  <2>8. HoldersHold'
    BY <1>1 DEF ProduceConnection, IInv, HoldersHold, AfterNotifyAll, TypeOK
  <2>9. CountAccounting'
    <3>1. Len(queue) = 0
      BY <2>2
    <3>. QED
      BY <1>1, <2>3, <2>5, <3>1, HoldersFinite
      DEF ProduceConnection, IInv, CountAccounting, TypeOK
  <2>10. NoSharing'
    BY <2>3, <2>4, <2>5, <2>6 DEF IInv, NoSharing
  <2>11. CountBound'
    BY <1>1, <2>2 DEF ProduceConnection, CountBound, Limit, IInv, TypeOK
  <2>12. PooledNotClosed'
    BY <2>1, <2>4, <2>5, <2>6 DEF IInv, PooledNotClosed, TypeOK
  <2>. QED
    BY <2>7, <2>8, <2>9, <2>10, <2>11, <2>12 DEF IInv
<1>2. CASE ProduceNothing
  <2>1. TypeOK' /\ HoldersHold'
    BY <1>2 DEF ProduceNothing, IInv, TypeOK, HoldersHold, AfterNotifyAll, Blocked
  <2>. QED
    BY <1>2, <2>1, SameConnections DEF ProduceNothing
<1>3. CASE ProducerWait
  <2>1. TypeOK' /\ HoldersHold'
    BY <1>3 DEF ProducerWait, IInv, TypeOK, HoldersHold
  <2>. QED
    BY <1>3, <2>1, SameConnections DEF ProducerWait
<1>. QED
  BY <1>1, <1>2, <1>3 DEF Producer

-----------------------------------------------------------------------------
(* What dropping the first n connections of the queue means for the set of  *)
(* queued ones, given that the queue has no repetitions.                    *)
LEMMA WithoutQueued ==
  ASSUME IInv, NEW n \in 0..Len(queue), queue' = Without(n)
  PROVE  /\ queue' \in Seq(Conn)
         /\ Len(queue') = Len(queue) - n
         /\ Queued' \subseteq Queued
         /\ \A i \in 1..n : queue[i] \notin Queued'
         /\ \A i, j \in 1..Len(queue') : queue'[i] = queue'[j] => i = j
<1>1. /\ queue' \in Seq(Conn)
      /\ Len(queue') = Len(queue) - n
      /\ \A i \in 1..(Len(queue) - n) : queue'[i] = queue[n + i]
  BY WithoutProperties DEF IInv, TypeOK
<1>2. Len(queue) \in Nat /\ Len(queue) - n \in Nat
  BY LenProperties DEF IInv, TypeOK
<1>3. \A i \in 1..(Len(queue) - n) : n + i \in 1..Len(queue)
  BY <1>2
<1>4. Queued' \subseteq Queued
  BY <1>1, <1>3 DEF Queued
<1>5. \A i \in 1..n : queue[i] \notin Queued'
  <2> SUFFICES ASSUME NEW i \in 1..n,
                      NEW j \in 1..(Len(queue) - n), queue[i] = queue'[j]
               PROVE  FALSE
    BY <1>1 DEF Queued
  <2>1. queue[i] = queue[n + j] /\ i \in 1..Len(queue) /\ n + j \in 1..Len(queue)
    BY <1>1, <1>2, <1>3
  <2>2. i = n + j
    BY <2>1 DEF IInv, NoSharing
  <2>. QED
    BY <2>2, <1>2
<1>6. \A i, j \in 1..Len(queue') : queue'[i] = queue'[j] => i = j
  <2> SUFFICES ASSUME NEW i \in 1..Len(queue'), NEW j \in 1..Len(queue'),
                      queue'[i] = queue'[j]
               PROVE  i = j
    OBVIOUS
  <2>1. queue[n + i] = queue[n + j]
    BY <1>1
  <2>2. n + i = n + j
    BY <1>1, <1>3, <2>1 DEF IInv, NoSharing
  <2>. QED
    BY <1>1, <1>2, <2>2
<1>. QED
  BY <1>1, <1>4, <1>5, <1>6

(* The end of getOneConnect.                                                *)
LEMMA TakeIInv ==
  ASSUME IInv, NEW t \in Thread, pc[t] # "holding", Take(t)
  PROVE  IInv'
<1> USE PoolAssumption
<1>0. Len(queue) \in Nat /\ currentCount \in Nat
  BY LenProperties DEF IInv, TypeOK
<1>1. PICK k \in 0..Len(queue) :
        /\ DeadPrefix(k)
        /\ currentCount' = currentCount - k
        /\ link' = Closed(k)
        /\ age' = age
        /\ \/ /\ k < Len(queue)
              /\ sp' = [sp EXCEPT ![t] = queue[k + 1]]
              /\ queue' = Popped(k)
              /\ pc' = AfterNotifyAll([pc EXCEPT ![t] = "holding"])
              /\ timer' = [timer EXCEPT ![t] = 0]
              /\ producer' = "running"
              /\ fault' = fault
           \/ /\ k = Len(queue)
              /\ queue' = <<>>
              /\ fault' = "getOneConnect"
              /\ UNCHANGED <<producer, pc, timer, sp>>
  <2>1. \A k \in 0..Len(queue) : CountAfter(k, 0) = currentCount - k
    BY <1>0 DEF CountAfter
  <2>. QED
    BY <2>1, Zenon DEF Take, ProducerNotified
<1>2. Len(queue) \in Nat /\ \A i \in 1..Len(queue) : queue[i] \in Conn
  BY LenProperties, ElementOfSeq DEF IInv, TypeOK
<1>3. \A c \in Conn : (\A i \in 1..k : queue[i] # c) => link'[c] = link[c]
  BY <1>1 DEF Closed
<1>4. link' \in [Conn -> Link]
  BY <1>1 DEF Closed, IInv, TypeOK, Link
<1>5. \A u \in Holders : sp[u] \in Conn /\ sp[u] \notin Queued
  BY DEF IInv, TypeOK, Holders, NoSharing
<1>6. sp[t] = None /\ t \notin Holders
  BY DEF IInv, HoldersHold, Holders
<1>7. CASE k = Len(queue)
  <2>1. /\ queue' = <<>>
        /\ fault' = "getOneConnect"
        /\ UNCHANGED <<producer, pc, timer, sp>>
    BY <1>1, <1>2, <1>7
  <2>2. queue' \in Seq(Conn) /\ Len(queue') = 0 /\ Queued' = {}
    BY <2>1, EmptySeq DEF Queued
  <2>3. Holders' = Holders
    BY <2>1 DEF Holders
  <2>4. currentCount' = Cardinality(Holders)
    BY <1>1, <1>2, <1>7, HoldersFinite DEF IInv, CountAccounting, TypeOK
  <2>5. TypeOK'
    BY <1>1, <1>4, <2>1, <2>2, <2>4, HoldersFinite DEF IInv, TypeOK
  <2>6. HoldersHold' /\ NoSharing'
    BY <2>1, <2>2, <2>3 DEF IInv, HoldersHold, NoSharing
  <2>7. CountAccounting'
    BY <2>2, <2>3, <2>4, HoldersFinite DEF CountAccounting
  <2>8. CountBound'
    BY <1>1, <1>2 DEF IInv, TypeOK, CountBound, Limit
  <2>9. PooledNotClosed'
    BY <1>3, <1>5, <2>1, <2>2, <2>3 DEF IInv, PooledNotClosed, Queued
  <2>. QED
    BY <2>5, <2>6, <2>7, <2>8, <2>9 DEF IInv
<1>8. CASE k < Len(queue)
  <2> DEFINE n == k + 1
             c == queue[n]
  <2>1. /\ n \in 0..Len(queue) /\ n \in 1..Len(queue) /\ c \in Conn
        /\ queue' = Without(n)
        /\ sp' = [sp EXCEPT ![t] = c]
        /\ pc' = AfterNotifyAll([pc EXCEPT ![t] = "holding"])
        /\ timer' = [timer EXCEPT ![t] = 0]
        /\ producer' = "running"
        /\ fault' = fault
    BY <1>1, <1>2, <1>8 DEF Popped
  <2> HIDE DEF n
  <2>2. /\ queue' \in Seq(Conn)
        /\ Len(queue') = Len(queue) - n
        /\ Queued' \subseteq Queued
        /\ \A i \in 1..n : queue[i] \notin Queued'
        /\ \A i, j \in 1..Len(queue') : queue'[i] = queue'[j] => i = j
    BY <2>1, WithoutQueued
  <2>3. c \in Queued /\ c \notin Queued'
    BY <2>1, <2>2 DEF Queued
  <2>4. c # None /\ Holders' = Holders \cup {t}
    BY <2>1 DEF Holders, IInv, TypeOK
  <2>5. Cardinality(Holders') = Cardinality(Holders) + 1
    BY <1>6, <2>4, HoldersFinite, FS_AddElement
  <2>6. currentCount' = Len(queue') + Cardinality(Holders')
    <3>1. currentCount = Len(queue) + Cardinality(Holders)
      BY DEF IInv, CountAccounting
    <3>. QED
      BY <1>0, <1>1, <2>2, <2>5, <3>1, HoldersFinite DEF n
  <2>7. Len(queue') \in Nat /\ Cardinality(Holders') \in Nat
    BY <1>2, <2>1, <2>2, <2>5, HoldersFinite
  <2>8. TypeOK'
    <3>1. currentCount' \in Nat
      BY <2>6, <2>7
    <3>2. pc' \in [Thread -> Blocked \cup {"idle", "holding"}]
      BY <2>1 DEF IInv, TypeOK, AfterNotifyAll, Blocked
    <3>3. timer' \in [Thread -> 0..Timeout] /\ sp' \in [Thread -> Conn \cup {None}]
      BY <2>1 DEF IInv, TypeOK
    <3>. QED
      BY <1>1, <1>4, <2>1, <2>2, <3>1, <3>2, <3>3 DEF IInv, TypeOK
  <2>9. HoldersHold'
    BY <2>1, <2>4 DEF IInv, HoldersHold, TypeOK, AfterNotifyAll
  <2>10. NoSharing'
    BY <1>5, <1>6, <2>1, <2>2, <2>3, <2>4
    DEF IInv, NoSharing, TypeOK, Holders
  <2>11. CountBound'
    BY <1>1, <1>2 DEF IInv, TypeOK, CountBound, Limit
  <2>12. PooledNotClosed'
    <3>1. \A d \in Queued' \cup {c} : link'[d] = link[d] /\ d \in Queued
      <4>1. \A d \in Queued' : \A i \in 1..k : queue[i] # d
        BY <2>2, <1>1, <1>2 DEF n
      <4>2. \A i \in 1..k : queue[i] # c
        BY <1>2, <2>1 DEF IInv, NoSharing, n
      <4>3. Queued \subseteq Conn
        BY <1>2 DEF Queued
      <4>. QED
        BY <1>3, <2>2, <2>3, <4>1, <4>2, <4>3
    <3>2. \A u \in Holders : link'[sp[u]] = link[sp[u]]
      BY <1>1, <1>2, <1>3, <1>5 DEF Queued
    <3>3. \A u \in Holders' : (u = t /\ sp'[u] = c) \/ (u \in Holders /\ sp'[u] = sp[u])
      BY <1>6, <2>1, <2>4 DEF IInv, TypeOK, Holders
    <3>4. \A d \in Queued' \cup {sp'[u] : u \in Holders'} :
            link'[d] \in {"open", "dead"}
      BY <3>1, <3>2, <3>3 DEF IInv, PooledNotClosed
    <3>. QED
      BY <3>4 DEF PooledNotClosed
  <2>. QED
    BY <2>6, <2>8, <2>9, <2>10, <2>11, <2>12 DEF IInv, CountAccounting
<1>. QED
  BY <1>1, <1>2, <1>7, <1>8

(* Waiting and giving up.                                                   *)
LEMMA WaitIInv ==
  ASSUME IInv, NEW t \in Thread, pc[t] # "holding", Wait(t) \/ GiveUp(t)
  PROVE  IInv'
<1> USE PoolAssumption
<1>1. /\ pc' \in {[pc EXCEPT ![t] = "waiting"], [pc EXCEPT ![t] = "idle"]}
      /\ timer' = [timer EXCEPT ![t] = 0]
      /\ UNCHANGED <<queue, currentCount, link, age, producer, sp, fault>>
  BY DEF Wait, GiveUp
<1>2. TypeOK'
  <2>1. pc' \in [Thread -> Blocked \cup {"idle", "holding"}]
    BY <1>1 DEF IInv, TypeOK, Blocked
  <2>2. timer' \in [Thread -> 0..Timeout]
    BY <1>1 DEF IInv, TypeOK
  <2>. QED
    BY <1>1, <2>1, <2>2 DEF IInv, TypeOK
<1>3. HoldersHold'
  BY <1>1 DEF IInv, TypeOK, HoldersHold
<1>. QED
  BY <1>1, <1>2, <1>3, SameConnections

(* A whole call of getOneConnect, or the part of it after a wait.           *)
LEMMA GetIInv ==
  ASSUME IInv, NEW t \in Thread, GetOneConnect(t) \/ Resume(t)
  PROVE  IInv'
<1>1. pc[t] # "holding" /\ (Take(t) \/ Wait(t) \/ GiveUp(t))
  BY DEF GetOneConnect, Resume
<1>. QED
  BY <1>1, TakeIInv, WaitIInv

(* The deleter.                                                             *)
LEMMA ReturnIInv ==
  ASSUME IInv, NEW t \in Thread, ReturnConn(t)
  PROVE  IInv'
<1> USE PoolAssumption
<1> DEFINE c == sp[t]
<1>1. /\ t \in Holders /\ c \in Conn
      /\ queue' = Append(queue, c)
      /\ age' = Refreshed(c)
      /\ sp' = [sp EXCEPT ![t] = None]
      /\ pc' = [pc EXCEPT ![t] = "idle"]
      /\ UNCHANGED <<currentCount, link, producer, timer, fault>>
  BY DEF ReturnConn, IInv, TypeOK, HoldersHold, Holders
<1> HIDE DEF c
<1>2. /\ queue' \in Seq(Conn)
      /\ Len(queue) \in Nat /\ Len(queue') = Len(queue) + 1
      /\ \A i \in 1..Len(queue) : queue'[i] = queue[i]
      /\ queue'[Len(queue) + 1] = c
  BY <1>1, AppendProperties, LenProperties DEF IInv, TypeOK
<1>3. Queued' = Queued \cup {c}
  BY <1>2 DEF Queued
<1>4. c \notin Queued /\ \A u \in Holders : u # t => sp[u] # c
  BY <1>1 DEF IInv, NoSharing, c
<1>5. Holders' = Holders \ {t}
  BY <1>1 DEF Holders, IInv, TypeOK
<1>6. \A u \in Holders' : u \in Holders /\ u # t /\ sp'[u] = sp[u]
  BY <1>1, <1>5 DEF IInv, TypeOK, Holders
<1>7. Cardinality(Holders') = Cardinality(Holders) - 1
  BY <1>1, <1>5, HoldersFinite, FS_RemoveElement
<1>8. TypeOK'
  BY <1>1, <1>2 DEF IInv, TypeOK, Refreshed
<1>9. HoldersHold'
  BY <1>1 DEF IInv, TypeOK, HoldersHold
<1>10. CountAccounting'
  BY <1>1, <1>2, <1>7, HoldersFinite DEF IInv, CountAccounting
<1>11. NoSharing'
  <2>1. \A i, j \in 1..Len(queue') : queue'[i] = queue'[j] => i = j
    <3>1. \A i \in 1..Len(queue) : queue[i] # c
      BY <1>4 DEF Queued
    <3>2. \A i, j \in 1..Len(queue) : queue[i] = queue[j] => i = j
      BY DEF IInv, NoSharing
    <3>. QED
      BY <1>2, <3>1, <3>2
  <2>2. \A u \in Holders' : sp'[u] \notin Queued'
    BY <1>3, <1>4, <1>6 DEF IInv, NoSharing
  <2>3. \A u, v \in Holders' : sp'[u] = sp'[v] => u = v
    BY <1>6 DEF IInv, NoSharing
  <2>. QED
    BY <2>1, <2>2, <2>3 DEF NoSharing
<1>12. CountBound'
  BY <1>1 DEF IInv, CountBound, Limit
<1>13. PooledNotClosed'
  <2>1. link[c] \in {"open", "dead"}
    BY <1>1 DEF IInv, PooledNotClosed, c
  <2>2. \A d \in Queued' \cup {sp'[u] : u \in Holders'} :
          link'[d] \in {"open", "dead"}
    BY <1>1, <1>3, <1>6, <2>1 DEF IInv, PooledNotClosed
  <2>. QED
    BY <2>2 DEF PooledNotClosed
<1>. QED
  BY <1>8, <1>9, <1>10, <1>11, <1>12, <1>13 DEF IInv

(* The scanner.                                                             *)
LEMMA ScanIInv ==
  ASSUME IInv, Scan
  PROVE  IInv'
<1> USE PoolAssumption
<1>0. Len(queue) \in Nat /\ currentCount \in Nat
  BY LenProperties DEF IInv, TypeOK
<1>1. PICK k \in 0..Len(queue) : \E m \in 0..(Len(queue) - k) :
        /\ currentCount' = CountAfter(k, m)
        /\ queue' = Without(k + m)
        /\ link' = [c \in Conn |->
                      IF \E i \in (k + 1)..(k + m) : queue[i] = c
                      THEN "none" ELSE Closed(k)[c]]
        /\ fault' \in {"scanner", fault}
        /\ UNCHANGED <<age, producer, pc, timer, sp>>
  BY Zenon DEF Scan
<1>2. PICK m \in 0..(Len(queue) - k) :
        /\ currentCount' = CountAfter(k, m)
        /\ queue' = Without(k + m)
        /\ link' = [c \in Conn |->
                      IF \E i \in (k + 1)..(k + m) : queue[i] = c
                      THEN "none" ELSE Closed(k)[c]]
        /\ fault' \in {"scanner", fault}
        /\ UNCHANGED <<age, producer, pc, timer, sp>>
  BY <1>1
<1> DEFINE n == k + m
<1>3. n \in 0..Len(queue) /\ currentCount' = currentCount - n /\ queue' = Without(n)
  BY <1>0, <1>2 DEF CountAfter
<1>4. /\ link' \in [Conn -> Link]
      /\ \A c \in Conn : (\A i \in 1..n : queue[i] # c) => link'[c] = link[c]
  <2>1. (k + 1)..(k + m) \subseteq 1..n /\ 1..k \subseteq 1..n
    BY <1>0
  <2>. QED
    BY <1>2, <2>1 DEF Closed, IInv, TypeOK, Link
<1> HIDE DEF n
<1>5. /\ queue' \in Seq(Conn)
      /\ Len(queue') = Len(queue) - n
      /\ Queued' \subseteq Queued
      /\ \A i \in 1..n : queue[i] \notin Queued'
      /\ \A i, j \in 1..Len(queue') : queue'[i] = queue'[j] => i = j
  BY <1>3, WithoutQueued
<1>6. Holders' = Holders /\ sp' = sp
  BY <1>2 DEF Holders
<1>7. currentCount = Len(queue) + Cardinality(Holders)
  BY DEF IInv, CountAccounting
<1>8. currentCount' \in Nat /\ currentCount' = Len(queue') + Cardinality(Holders')
  BY <1>0, <1>3, <1>5, <1>6, <1>7, HoldersFinite
<1>9. TypeOK' /\ HoldersHold'
  BY <1>2, <1>4, <1>5, <1>8 DEF IInv, TypeOK, HoldersHold
<1>10. NoSharing'
  BY <1>5, <1>6 DEF IInv, NoSharing
<1>11. CountBound'
  BY <1>0, <1>3 DEF IInv, CountBound, Limit
<1>12. PooledNotClosed'
  <2>1. Queued \subseteq Conn
    BY ElementOfSeq DEF Queued, IInv, TypeOK
  <2>2. \A d \in Queued' : link'[d] = link[d] /\ d \in Queued
    BY <1>4, <1>5, <2>1
  <2>3. \A u \in Holders : sp[u] \in Conn /\ \A i \in 1..n : queue[i] # sp[u]
    BY <1>0, <1>3 DEF IInv, TypeOK, NoSharing, Holders, Queued
  <2>4. \A d \in Queued' \cup {sp'[u] : u \in Holders'} :
          link'[d] \in {"open", "dead"}
    BY <1>4, <1>6, <2>2, <2>3 DEF IInv, PooledNotClosed
  <2>. QED
    BY <2>4 DEF PooledNotClosed
<1>. QED
  BY <1>8, <1>9, <1>10, <1>11, <1>12 DEF IInv, CountAccounting

(* The environment, the clocks and spurious wakeups.                        *)
LEMMA EnvironmentIInv ==
  ASSUME IInv,
         (\E c \in Conn : Break(c)) \/ Tick \/ ClockTick \/ SpuriousWakeup
  PROVE  IInv'
<1> USE PoolAssumption
<1>1. CASE \E c \in Conn : Break(c)
  <2>1. TypeOK' /\ HoldersHold'
    BY <1>1 DEF Break, IInv, TypeOK, HoldersHold, Link
  <2>2. /\ UNCHANGED <<queue, currentCount, sp>>
        /\ \A c \in Conn : link[c] \in {"open", "dead"} =>
                             link'[c] \in {"open", "dead"}
    BY <1>1 DEF Break, IInv, TypeOK
  <2>. QED
    BY <2>1, <2>2, SameConnections
<1>2. CASE Tick
  <2>1. TypeOK' /\ HoldersHold'
    BY <1>2 DEF Tick, IInv, TypeOK, HoldersHold
  <2>. QED
    BY <1>2, <2>1, SameConnections DEF Tick
<1>3. CASE ClockTick
  <2>1. TypeOK' /\ HoldersHold'
    BY <1>3 DEF ClockTick, IInv, TypeOK, HoldersHold
  <2>. QED
    BY <1>3, <2>1, SameConnections DEF ClockTick
<1>4. CASE SpuriousWakeup
  <2>1. TypeOK' /\ HoldersHold'
    BY <1>4 DEF SpuriousWakeup, IInv, TypeOK, HoldersHold, Blocked
  <2>. QED
    BY <1>4, <2>1, SameConnections DEF SpuriousWakeup
<1>. QED
  BY <1>1, <1>2, <1>3, <1>4

-----------------------------------------------------------------------------
(* Every step keeps the invariant.                                          *)
LEMMA NextIInv == IInv /\ [Next]_vars => IInv'
<1> SUFFICES ASSUME IInv, [Next]_vars PROVE IInv'
  OBVIOUS
<1>1. CASE Next
  BY <1>1, ProducerIInv, ScanIInv, GetIInv, ReturnIInv, EnvironmentIInv
  DEF Next, Step
<1>2. CASE UNCHANGED vars
  <2>1. TypeOK' /\ HoldersHold'
    BY <1>2 DEF vars, IInv, TypeOK, HoldersHold
  <2>2. UNCHANGED <<queue, currentCount, sp, link>>
    BY <1>2 DEF vars
  <2>. QED
    BY <2>1, <2>2, SameConnections
<1>. QED
  BY <1>1, <1>2

(* The inductive invariant holds in every reachable state, whatever the     *)
(* configuration, the number of threads and the sessions that break.        *)
THEOREM InvariantHolds == Spec => []IInv
BY InitIInv, NextIInv, PTL DEF Spec

(* The state of the pool is well typed; in particular _currentCount is      *)
(* never negative.                                                          *)
THEOREM TypeCorrect == Spec => []TypeOK
<1>1. IInv => TypeOK
  BY DEF IInv
<1>. QED
  BY InvariantHolds, <1>1, PTL

(* _currentCount is exact at all times: the queue's connections and the     *)
(* borrowed ones.                                                           *)
THEOREM CountIsExact == Spec => []CountAccounting
<1>1. IInv => CountAccounting
  BY DEF IInv
<1>. QED
  BY InvariantHolds, <1>1, PTL

(* No two threads ever have the same MYSQL handle, and none has one that is *)
(* also in the queue.                                                       *)
THEOREM NoHandleShared == Spec => []NoSharing
<1>1. IInv => NoSharing
  BY DEF IInv
<1>. QED
  BY InvariantHolds, <1>1, PTL

(* The pool never holds more than the configured number of connections.     *)
THEOREM PoolBounded == Spec => []CountBound
<1>1. IInv => CountBound
  BY DEF IInv
<1>. QED
  BY InvariantHolds, <1>1, PTL

(* A closed or deleted connection is out of reach of the queue and of every *)
(* borrower.                                                                *)
THEOREM NoUseAfterClose == Spec => []PooledNotClosed
<1>1. IInv => PooledNotClosed
  BY DEF IInv
<1>. QED
  BY InvariantHolds, <1>1, PTL

-----------------------------------------------------------------------------
(* The idle order survives when connections leave the queue anywhere at the *)
(* front and when refreshed ones join at the back.                          *)
LEMMA ShrinkIdleOrder ==
  ASSUME IInv, IdleOrder, NEW n \in 0..Len(queue), queue' = Without(n),
         age' = age
  PROVE  IdleOrder'
<1>1. /\ Len(queue) \in Nat
      /\ Len(queue') = Len(queue) - n
      /\ \A i \in 1..(Len(queue) - n) : queue'[i] = queue[n + i]
  BY WithoutProperties, LenProperties DEF IInv, TypeOK
<1>2. SUFFICES ASSUME NEW i \in 1..Len(queue'), NEW j \in 1..Len(queue'), i < j
               PROVE  age[queue'[i]] >= age[queue'[j]]
  BY DEF IdleOrder
<1>3. n + i \in 1..Len(queue) /\ n + j \in 1..Len(queue) /\ n + i < n + j
  BY <1>1, <1>2
<1>. QED
  BY <1>1, <1>2, <1>3 DEF IdleOrder

LEMMA AppendIdleOrder ==
  ASSUME IInv, IdleOrder, NEW c \in Conn \ Queued, queue' = Append(queue, c),
         age' = Refreshed(c)
  PROVE  IdleOrder'
<1>1. /\ Len(queue) \in Nat /\ Len(queue') = Len(queue) + 1
      /\ \A i \in 1..Len(queue) : queue'[i] = queue[i] /\ queue[i] \in Conn
      /\ queue'[Len(queue) + 1] = c
  BY AppendProperties, LenProperties, ElementOfSeq DEF IInv, TypeOK
<1>2. /\ age'[c] = 0
      /\ \A i \in 1..Len(queue) : age'[queue[i]] = age[queue[i]] /\ age[queue[i]] \in Nat
  BY <1>1, PoolAssumption DEF IInv, TypeOK, Refreshed, Queued
<1>3. SUFFICES ASSUME NEW i \in 1..Len(queue'), NEW j \in 1..Len(queue'), i < j
               PROVE  age'[queue'[i]] >= age'[queue'[j]]
  BY DEF IdleOrder
<1>4. i \in 1..Len(queue)
  BY <1>1, <1>3
<1>5. CASE j = Len(queue) + 1
  <2>1. age'[queue'[i]] = age[queue[i]] /\ age'[queue'[j]] = 0
    BY <1>1, <1>2, <1>4, <1>5
  <2>2. age[queue[i]] \in Nat
    BY <1>2, <1>4
  <2>. QED
    BY <2>1, <2>2
<1>6. CASE j \in 1..Len(queue)
  BY <1>1, <1>2, <1>3, <1>4, <1>6 DEF IdleOrder
<1>. QED
  BY <1>1, <1>5, <1>6

LEMMA NextIdleOrder == IInv /\ IdleOrder /\ [Next]_vars => IdleOrder'
<1> SUFFICES ASSUME IInv, IdleOrder, [Next]_vars PROVE IdleOrder'
  OBVIOUS
<1>0. Len(queue) \in Nat /\ \A i \in 1..Len(queue) : queue[i] \in Conn
  BY LenProperties, ElementOfSeq DEF IInv, TypeOK
<1>1. CASE ProduceConnection
  <2>1. PICK c \in Conn : age' = Refreshed(c) /\ queue' = Append(queue, c)
    BY <1>1 DEF ProduceConnection
  <2>2. Queued = {}
    BY <1>1 DEF ProduceConnection, Queued
  <2>. QED
    BY <2>1, <2>2, AppendIdleOrder
<1>2. CASE Scan
  <2>1. PICK k \in 0..Len(queue) : \E m \in 0..(Len(queue) - k) :
          queue' = Without(k + m) /\ age' = age
    BY <1>2, Zenon DEF Scan
  <2>2. PICK m \in 0..(Len(queue) - k) : queue' = Without(k + m) /\ age' = age
    BY <2>1
  <2>3. k + m \in 0..Len(queue)
    BY <1>0
  <2>. QED
    BY <2>2, <2>3, ShrinkIdleOrder
<1>3. ASSUME NEW t \in Thread, Take(t)
      PROVE  IdleOrder'
  <2>1. PICK k \in 0..Len(queue) :
          /\ age' = age
          /\ queue' = <<>> \/ (k < Len(queue) /\ queue' = Popped(k))
    BY <1>3, Zenon DEF Take
  <2>2. CASE queue' = <<>>
    BY <2>2 DEF IdleOrder
  <2>3. CASE k < Len(queue) /\ queue' = Popped(k)
    <3>1. k + 1 \in 0..Len(queue) /\ queue' = Without(k + 1)
      BY <1>0, <2>3 DEF Popped
    <3>. QED
      BY <2>1, <3>1, ShrinkIdleOrder
  <2>. QED
    BY <2>1, <2>2, <2>3
<1>4. ASSUME NEW t \in Thread, ReturnConn(t)
      PROVE  IdleOrder'
  <2>1. t \in Holders /\ sp[t] \in Conn \ Queued
    BY <1>4 DEF ReturnConn, IInv, TypeOK, HoldersHold, NoSharing, Holders
  <2>. QED
    BY <1>4, <2>1, AppendIdleOrder DEF ReturnConn
<1>5. CASE ClockTick
  <2>1. \A i \in 1..Len(queue) :
          /\ age[queue[i]] \in 0..MaxIdle
          /\ age'[queue[i]] = IF age[queue[i]] < MaxIdle
                              THEN age[queue[i]] + 1 ELSE age[queue[i]]
    BY <1>0, <1>5 DEF ClockTick, Queued, IInv, TypeOK
  <2>2. queue' = queue
    BY <1>5 DEF ClockTick
  <2>3. SUFFICES ASSUME NEW i \in 1..Len(queue), NEW j \in 1..Len(queue), i < j
                 PROVE  age'[queue[i]] >= age'[queue[j]]
    BY <2>2 DEF IdleOrder
  <2>4. age[queue[i]] >= age[queue[j]]
    BY <2>3 DEF IdleOrder
  <2> DEFINE x == age[queue[i]]
             y == age[queue[j]]
  <2>5. x \in 0..MaxIdle /\ y \in 0..MaxIdle /\ x >= y
    BY <2>1, <2>4
  <2>6. /\ age'[queue[i]] = IF x < MaxIdle THEN x + 1 ELSE x
        /\ age'[queue[j]] = IF y < MaxIdle THEN y + 1 ELSE y
    BY <2>1
  <2> HIDE DEF x, y
  <2>7. (IF x < MaxIdle THEN x + 1 ELSE x) >= (IF y < MaxIdle THEN y + 1 ELSE y)
    BY <2>5, PoolAssumption
  <2>. QED
    BY <2>6, <2>7
<1>6. CASE UNCHANGED <<queue, age>>
  BY <1>6 DEF IdleOrder
<1>7. \/ ProduceConnection \/ Scan \/ ClockTick
      \/ \E t \in Thread : Take(t) \/ ReturnConn(t)
      \/ UNCHANGED <<queue, age>>
  BY DEF Next, Step, vars, Producer, ProduceNothing, ProducerWait,
         GetOneConnect, Resume, Wait, GiveUp, Break, Tick, SpuriousWakeup
<1>. QED
  BY <1>1, <1>2, <1>3, <1>4, <1>5, <1>6, <1>7

(* The connections are always queued in the order of their idle times, so   *)
(* the scanner misses none when it stops at the first that is young enough. *)
THEOREM IdleOrderHolds == Spec => []IdleOrder
<1>1. Init => IdleOrder
  <2> SUFFICES ASSUME Init PROVE IdleOrder
    OBVIOUS
  <2>1. PICK n \in 1..InitCount : queue \in [1..n -> Conn]
    BY DEF Init
  <2>2. Len(queue) = n
    BY <2>1, FunctionIsSeq, PoolAssumption
  <2>. QED
    BY <2>1, <2>2 DEF Init, IdleOrder
<1>. QED
  BY <1>1, InvariantHolds, NextIdleOrder, PTL DEF Spec

(* Whoever gets a connection gets one whose session was up when it was      *)
(* handed out: the ping loop skips the broken ones, and nothing closed is   *)
(* left in the queue.                                                       *)
THEOREM OnlyLiveHandedOut == Spec => HandsOutLive
<1> DEFINE P == \A t \in Thread :
                  pc[t] # "holding" /\ pc'[t] = "holding" => link[sp'[t]] = "open"
<1>1. IInv /\ [Next]_vars => [P]_vars
  <2> SUFFICES ASSUME IInv, Next, NEW u \in Thread,
                      pc[u] # "holding", pc'[u] = "holding"
               PROVE  link[sp'[u]] = "open"
    BY DEF P
  <2>1. PICK t \in Thread : Take(t)
    BY DEF Next, Step, Producer, ProduceConnection, ProduceNothing,
           ProducerWait, Scan, GetOneConnect, Resume, Wait, GiveUp, ReturnConn,
           Break, Tick, ClockTick, SpuriousWakeup, AfterNotifyAll, IInv, TypeOK
  <2>2. PICK k \in 0..Len(queue) :
          /\ DeadPrefix(k)
          /\ \/ /\ k < Len(queue)
                /\ sp' = [sp EXCEPT ![t] = queue[k + 1]]
                /\ pc' = AfterNotifyAll([pc EXCEPT ![t] = "holding"])
             \/ pc' = pc
    BY <2>1, Zenon DEF Take
  <2>3. /\ u = t /\ k < Len(queue)
        /\ sp'[u] = queue[k + 1]
    BY <2>2 DEF AfterNotifyAll, IInv, TypeOK
  <2>4. k + 1 \in 1..Len(queue)
    BY <2>2, <2>3, LenProperties DEF IInv, TypeOK
  <2>5. link[queue[k + 1]] \in {"open", "dead"}
    BY <2>4 DEF IInv, PooledNotClosed, Queued
  <2>. QED
    BY <2>2, <2>3, <2>5 DEF DeadPrefix
<1>. QED
  BY <1>1, InvariantHolds, PTL DEF Spec, HandsOutLive
-----------------------------------------------------------------------------
(* No connection is lost: one whose session works is in the queue or with a *)
(* borrower, only a faulty one can be dead, and without faulty ones the     *)
(* scanner never takes the last.                                            *)
OpenKnown ==
  \A c \in Conn : link[c] = "open" =>
    c \in Queued \/ \E t \in Holders : sp[t] = c
OnlyFaultyDie == \A c \in Conn : link[c] = "dead" => c \in Faulty
OneKept == Faulty = {} => currentCount >= 1

(* What the refinement of ConnectionLender needs beyond IInv.               *)
Kept == OpenKnown /\ OnlyFaultyDie /\ OneKept

LEMMA InitKept == Init => Kept
<1> SUFFICES ASSUME Init PROVE Kept
  OBVIOUS
<1>1. PICK n \in 1..InitCount : queue \in [1..n -> Conn]
  BY DEF Init
<1>2. Len(queue) = n
  BY <1>1, FunctionIsSeq, PoolAssumption
<1>3. OpenKnown /\ OnlyFaultyDie
  BY DEF Init, OpenKnown, OnlyFaultyDie
<1>4. OneKept
  BY <1>2, PoolAssumption DEF Init, OneKept
<1>. QED
  BY <1>3, <1>4 DEF Kept

(* Steps that neither move a connection nor open or close a session.        *)
LEMMA SameKept ==
  ASSUME Kept, UNCHANGED <<queue, currentCount, sp, link>>
  PROVE  Kept'
<1>1. Holders' = Holders /\ Queued' = Queued
  BY DEF Holders, Queued
<1>2. OpenKnown' /\ OnlyFaultyDie'
  BY <1>1 DEF Kept, OpenKnown, OnlyFaultyDie
<1>3. OneKept'
  BY DEF Kept, OneKept
<1>. QED
  BY <1>2, <1>3 DEF Kept

(* Connections that leave the front of the queue when none of the others    *)
(* moves: whatever was queued is behind them or among them.                 *)
LEMMA QueuedOrDropped ==
  ASSUME IInv, NEW n \in 0..Len(queue), queue' = Without(n)
  PROVE  \A c \in Queued : c \in Queued' \/ \E i \in 1..n : queue[i] = c
<1>1. /\ Len(queue) \in Nat
      /\ Len(queue') = Len(queue) - n
      /\ \A i \in 1..(Len(queue) - n) : queue'[i] = queue[n + i]
  BY WithoutProperties, LenProperties DEF IInv, TypeOK
<1>2. SUFFICES ASSUME NEW j \in 1..Len(queue), j \notin 1..n
               PROVE  queue[j] \in Queued'
  BY DEF Queued
<1>3. j - n \in 1..(Len(queue) - n) /\ queue'[j - n] = queue[n + (j - n)]
  BY <1>1, <1>2
<1>4. n + (j - n) = j
  BY <1>1, <1>2
<1>5. queue'[j - n] = queue[j]
  BY <1>3, <1>4
<1>. QED
  BY <1>1, <1>3, <1>5 DEF Queued

LEMMA TakeKept ==
  ASSUME IInv, Kept, NEW t \in Thread, pc[t] # "holding", queue # <<>>, Take(t)
  PROVE  Kept'
<1> USE PoolAssumption
<1>0. Len(queue) \in Nat \ {0} /\ \A i \in 1..Len(queue) : queue[i] \in Conn
  BY LenProperties, ElementOfSeq, EmptySeq DEF IInv, TypeOK
<1>1. PICK k \in 0..Len(queue) :
        /\ DeadPrefix(k)
        /\ currentCount' = CountAfter(k, 0)
        /\ link' = Closed(k)
        /\ \/ /\ k < Len(queue)
              /\ sp' = [sp EXCEPT ![t] = queue[k + 1]]
              /\ queue' = Popped(k)
           \/ /\ k = Len(queue)
              /\ queue' = <<>>
              /\ sp' = sp
  BY Zenon DEF Take
<1>2. \A c \in Conn : link'[c] = IF \E i \in 1..k : queue[i] = c
                                 THEN "closed" ELSE link[c]
  BY <1>1 DEF Closed
<1>3. \A i \in 1..k : link[queue[i]] = "dead"
  BY <1>1 DEF DeadPrefix
<1>4. OnlyFaultyDie'
  BY <1>2 DEF Kept, OnlyFaultyDie
<1>5. OneKept'
  <2> SUFFICES ASSUME Faulty = {} PROVE currentCount' >= 1
    BY DEF OneKept
  <2>1. k = 0
    BY <1>0, <1>3 DEF Kept, OnlyFaultyDie
  <2>2. currentCount' = currentCount
    BY <1>1, <2>1 DEF CountAfter, IInv, TypeOK
  <2>. QED
    BY <2>2 DEF Kept, OneKept
<1>6. sp[t] = None
  BY DEF IInv, HoldersHold
<1>7. \A u \in Holders : sp'[u] = sp[u] /\ u \in Holders'
  BY <1>1, <1>6 DEF Holders, IInv, TypeOK
<1>8. OpenKnown'
  <2> SUFFICES ASSUME NEW c \in Conn, link'[c] = "open"
               PROVE  c \in Queued' \/ \E u \in Holders' : sp'[u] = c
    BY DEF OpenKnown
  <2>1. link[c] = "open" /\ \A i \in 1..k : queue[i] # c
    BY <1>2
  <2>2. CASE \E u \in Holders : sp[u] = c
    BY <1>7, <2>2
  <2>3. CASE c \in Queued
    <3>1. k < Len(queue)
      BY <1>0, <1>1, <2>1, <2>3 DEF Queued
    <3>2. /\ k + 1 \in 1..Len(queue) /\ k + 1 \in 0..Len(queue)
          /\ queue' = Without(k + 1)
          /\ sp' = [sp EXCEPT ![t] = queue[k + 1]]
      BY <1>0, <1>1, <3>1 DEF Popped
    <3>3. c \in Queued' \/ \E i \in 1..(k + 1) : queue[i] = c
      BY <2>3, <3>2, QueuedOrDropped
    <3>4. (\E i \in 1..(k + 1) : queue[i] = c) => c = queue[k + 1]
      BY <1>0, <2>1, <3>2
    <3>5. c = queue[k + 1] => t \in Holders' /\ sp'[t] = c
      BY <3>2 DEF Holders, IInv, TypeOK
    <3>. QED
      BY <3>3, <3>4, <3>5
  <2>. QED
    BY <2>1, <2>2, <2>3 DEF Kept, OpenKnown
<1>. QED
  BY <1>4, <1>5, <1>8 DEF Kept

LEMMA ScanKept ==
  ASSUME IInv, Kept, Scan
  PROVE  Kept'
<1> USE PoolAssumption
<1>0. Len(queue) \in Nat /\ \A i \in 1..Len(queue) : queue[i] \in Conn
  BY LenProperties, ElementOfSeq DEF IInv, TypeOK
<1>1. PICK k \in 0..Len(queue) : \E m \in 0..(Len(queue) - k) :
        /\ DeadPrefix(k)
        /\ m > 0 => Surplus(CountAfter(k, m) + 1)
        /\ currentCount' = CountAfter(k, m)
        /\ queue' = Without(k + m)
        /\ link' = [c \in Conn |->
                      IF \E i \in (k + 1)..(k + m) : queue[i] = c
                      THEN "none" ELSE Closed(k)[c]]
        /\ sp' = sp
  BY Zenon DEF Scan
<1>2. PICK m \in 0..(Len(queue) - k) :
        /\ m > 0 => Surplus(CountAfter(k, m) + 1)
        /\ currentCount' = CountAfter(k, m)
        /\ queue' = Without(k + m)
        /\ link' = [c \in Conn |->
                      IF \E i \in (k + 1)..(k + m) : queue[i] = c
                      THEN "none" ELSE Closed(k)[c]]
        /\ sp' = sp
  BY <1>1
<1> DEFINE n == k + m
<1>3. n \in 0..Len(queue) /\ queue' = Without(n)
  BY <1>0, <1>2
<1>4. \A c \in Conn :
        link'[c] \in {"open", "dead"} =>
          link'[c] = link[c] /\ \A i \in 1..n : queue[i] # c
  <2> SUFFICES ASSUME NEW c \in Conn, link'[c] \in {"open", "dead"},
                      NEW i \in 1..n
               PROVE  link'[c] = link[c] /\ queue[i] # c
    BY <1>2 DEF Closed
  <2>1. i \in (k + 1)..(k + m) \/ i \in 1..k
    BY <1>0
  <2>. QED
    BY <1>2, <2>1 DEF Closed
<1> HIDE DEF n
<1>5. Holders' = Holders /\ sp' = sp
  BY <1>2 DEF Holders
<1>6. OnlyFaultyDie'
  BY <1>4 DEF Kept, OnlyFaultyDie
<1>7. OneKept'
  <2> SUFFICES ASSUME Faulty = {} PROVE currentCount' >= 1
    BY DEF OneKept
  <2>1. k = 0
    BY <1>0, <1>1 DEF DeadPrefix, Kept, OnlyFaultyDie
  <2>2. currentCount \in Nat /\ currentCount >= 1
    BY DEF IInv, TypeOK, Kept, OneKept
  <2>3. m \in Nat /\ currentCount' = currentCount - m
    BY <1>0, <1>2, <2>1, <2>2 DEF CountAfter
  <2>4. m > 0 => currentCount' + 1 > InitCount
    BY <1>2 DEF Surplus
  <2>. QED
    BY <2>2, <2>3, <2>4
<1>8. OpenKnown'
  <2> SUFFICES ASSUME NEW c \in Conn, link'[c] = "open"
               PROVE  c \in Queued' \/ \E u \in Holders : sp[u] = c
    BY <1>5 DEF OpenKnown
  <2>1. link[c] = "open" /\ \A i \in 1..n : queue[i] # c
    BY <1>4
  <2>. QED
    BY <1>3, <2>1, QueuedOrDropped DEF Kept, OpenKnown
<1>. QED
  BY <1>6, <1>7, <1>8 DEF Kept

LEMMA NextKept == IInv /\ Kept /\ [Next]_vars => Kept'
<1> SUFFICES ASSUME IInv, Kept, [Next]_vars PROVE Kept'
  OBVIOUS
<1> USE PoolAssumption
<1>1. CASE ProduceConnection
  <2>1. PICK c \in Conn :
          /\ link[c] = "none"
          /\ \E l \in IF c \in Faulty THEN {"open", "dead"} ELSE {"open"} :
               link' = [link EXCEPT ![c] = l]
          /\ queue' = Append(queue, c)
    BY <1>1, Zenon DEF ProduceConnection
  <2>2. queue = <<>> /\ currentCount' = currentCount + 1 /\ sp' = sp
    BY <1>1 DEF ProduceConnection
  <2>3. Len(queue') = 1 /\ queue'[1] = c
    BY <2>1, <2>2, AppendProperties, EmptySeq
  <2>4. c \in Queued' /\ Queued = {} /\ Holders' = Holders
    BY <2>2, <2>3 DEF Queued, Holders
  <2>5. \A d \in Conn : d # c => link'[d] = link[d]
    BY <2>1 DEF IInv, TypeOK
  <2>6. link'[c] = "dead" => c \in Faulty
    BY <2>1 DEF IInv, TypeOK
  <2>7. OpenKnown' /\ OnlyFaultyDie'
    BY <2>2, <2>4, <2>5, <2>6 DEF Kept, OpenKnown, OnlyFaultyDie
  <2>8. OneKept'
    BY <2>2 DEF Kept, OneKept, IInv, TypeOK
  <2>. QED
    BY <2>7, <2>8 DEF Kept
<1>2. CASE Scan
  BY <1>2, ScanKept
<1>3. ASSUME NEW t \in Thread, GetOneConnect(t) \/ Resume(t)
      PROVE  Kept'
  <2>1. CASE pc[t] # "holding" /\ queue # <<>> /\ Take(t)
    BY <2>1, TakeKept
  <2>2. CASE Wait(t) \/ GiveUp(t)
    BY <2>2, SameKept DEF Wait, GiveUp
  <2>. QED
    BY <1>3, <2>1, <2>2 DEF GetOneConnect, Resume
<1>4. ASSUME NEW t \in Thread, ReturnConn(t)
      PROVE  Kept'
  <2>1. /\ queue \in Seq(Conn) /\ sp[t] \in Conn
        /\ queue' = Append(queue, sp[t])
        /\ sp' = [sp EXCEPT ![t] = None]
        /\ UNCHANGED <<currentCount, link>>
    BY <1>4 DEF ReturnConn, IInv, TypeOK, HoldersHold
  <2>2. Queued \cup {sp[t]} \subseteq Queued'
    <3>1. /\ Len(queue) \in Nat /\ Len(queue') = Len(queue) + 1
          /\ \A i \in 1..Len(queue) : queue'[i] = queue[i]
          /\ queue'[Len(queue) + 1] = sp[t]
      BY <2>1, AppendProperties, LenProperties
    <3>. QED
      BY <3>1 DEF Queued
  <2>3. \A u \in Holders : u = t \/ (u \in Holders' /\ sp'[u] = sp[u])
    BY <2>1 DEF Holders, IInv, TypeOK
  <2>4. OpenKnown' /\ OnlyFaultyDie'
    BY <2>1, <2>2, <2>3 DEF Kept, OpenKnown, OnlyFaultyDie
  <2>5. OneKept'
    BY <2>1 DEF Kept, OneKept
  <2>. QED
    BY <2>4, <2>5 DEF Kept
<1>5. CASE \E c \in Conn : Break(c)
  <2>1. PICK c \in Faulty : /\ link' = [link EXCEPT ![c] = "dead"]
                            /\ UNCHANGED <<queue, currentCount, sp>>
    BY <1>5 DEF Break
  <2>2. Holders' = Holders /\ Queued' = Queued
    BY <2>1 DEF Holders, Queued
  <2>3. OpenKnown' /\ OnlyFaultyDie'
    BY <2>1, <2>2 DEF Kept, OpenKnown, OnlyFaultyDie, IInv, TypeOK
  <2>4. OneKept'
    BY <2>1 DEF Kept, OneKept
  <2>. QED
    BY <2>3, <2>4 DEF Kept
<1>6. CASE ProduceNothing \/ ProducerWait \/ Tick \/ ClockTick \/ SpuriousWakeup
           \/ UNCHANGED vars
  BY <1>6, SameKept
  DEF ProduceNothing, ProducerWait, Tick, ClockTick, SpuriousWakeup, vars
<1>. QED
  BY <1>1, <1>2, <1>3, <1>4, <1>5, <1>6 DEF Next, Step, Producer

-----------------------------------------------------------------------------
(* The lender's borrowed connections are those of the holders.              *)
LEMMA LentByHolders == Lender!Lent = {sp[t] : t \in Holders}
BY DEF Lender!Lent, Holders

(* There are no more connections than the pool counts, so no more sessions  *)
(* than it may have; with no faulty one, some session works.                *)
SessionsWithin ==
  /\ Cardinality({c \in Conn : link[c] = "open"} \cup Lender!Lent) <= Limit
  /\ Faulty = {} => {c \in Conn : link[c] = "open"} # {}

LEMMA SessionsCounted == IInv /\ Kept => SessionsWithin
<1> SUFFICES ASSUME IInv, Kept PROVE SessionsWithin
  OBVIOUS
<1> USE PoolAssumption
<1> DEFINE usable == {c \in Conn : link[c] = "open"}
           Borrowed == {sp[t] : t \in Holders}
<1>1. Len(queue) \in Nat /\ currentCount \in Nat /\ Limit \in Nat
  BY LenProperties DEF IInv, TypeOK, Limit
<1>2. IsFiniteSet(Queued) /\ Cardinality(Queued) <= Len(queue)
  <2>1. queue \in [1..Len(queue) -> Queued]
    BY LenProperties DEF IInv, TypeOK, Queued
  <2>2. queue \in Surjection(1..Len(queue), Queued)
    BY <2>1 DEF Surjection, Queued
  <2>3. ExistsSurjection(1..Len(queue), Queued)
    BY <2>2 DEF ExistsSurjection
  <2>. QED
    BY <1>1, <2>3, FS_NatSurjection, FS_SurjCardinalityBound
<1>3. IsFiniteSet(Borrowed) /\ Cardinality(Borrowed) <= Cardinality(Holders)
  <2> DEFINE f == [t \in Holders |-> sp[t]]
  <2>1. f \in Surjection(Holders, Borrowed)
    BY DEF Surjection
  <2> HIDE DEF f
  <2>. QED
    BY <2>1, HoldersFinite, FS_Surjection
<1>4. usable \cup Lender!Lent \subseteq Queued \cup Borrowed
  BY LentByHolders DEF Kept, OpenKnown
<1> HIDE DEF Borrowed, usable
<1>5. Cardinality(Queued) \in Nat /\ Cardinality(Borrowed) \in Nat
      /\ Cardinality(Queued \cap Borrowed) \in Nat
  <2>1. IsFiniteSet(Queued \cap Borrowed)
    BY <1>2, FS_Subset
  <2>. QED
    BY <1>2, <1>3, <2>1, FS_CardinalityType
<1>6. /\ IsFiniteSet(Queued \cup Borrowed)
      /\ Cardinality(Queued \cup Borrowed)
           = Cardinality(Queued) + Cardinality(Borrowed)
               - Cardinality(Queued \cap Borrowed)
  BY <1>2, <1>3, FS_Union
<1>7. Cardinality(Queued \cup Borrowed) <= Limit
  BY <1>1, <1>2, <1>3, <1>5, <1>6, HoldersFinite
  DEF IInv, CountAccounting, CountBound
<1>8. /\ IsFiniteSet(usable \cup Lender!Lent)
      /\ Cardinality(usable \cup Lender!Lent) <= Cardinality(Queued \cup Borrowed)
  BY <1>4, <1>6, FS_Subset
<1>9. Cardinality(usable \cup Lender!Lent) <= Limit
  <2>1. /\ Cardinality(usable \cup Lender!Lent) \in Nat
        /\ Cardinality(Queued \cup Borrowed) \in Nat
    BY <1>6, <1>8, FS_CardinalityType
  <2>. QED
    BY <1>1, <1>7, <1>8, <2>1
<1>10. ASSUME Faulty = {} PROVE usable # {}
  <2>1. Len(queue) > 0 \/ Cardinality(Holders) > 0
    BY <1>1, <1>10, HoldersFinite DEF IInv, CountAccounting, Kept, OneKept
  <2>2. Queued # {} \/ Holders # {}
    <3>1. Len(queue) > 0 => queue[1] \in Queued
      BY <1>1 DEF Queued
    <3>2. Holders = {} => Cardinality(Holders) = 0
      BY FS_EmptySet
    <3>. QED
      BY <1>1, <2>1, <3>1, <3>2
  <2>3. PICK c \in Queued \cup {sp[t] : t \in Holders} : TRUE
    BY <2>2
  <2>4. c \in Conn
    BY <1>1, ElementOfSeq DEF Queued, Holders, IInv, TypeOK
  <2>5. link[c] \in {"open", "dead"}
    BY <2>3 DEF IInv, PooledNotClosed
  <2>. QED
    BY <1>10, <2>4, <2>5 DEF Kept, OnlyFaultyDie, usable
<1>. QED
  BY <1>9, <1>10 DEF usable, SessionsWithin

LEMMA SessionsCountedNext == IInv' /\ Kept' => SessionsWithin'
BY SessionsCounted, PTL

(* The lender counts as the pool does.                                      *)
LEMMA SameCardinality == \A S : Lender!Cardinality(S) = Cardinality(S)
BY DEF Lender!Cardinality, Cardinality

(* What a borrower has is neither closed nor deleted by anybody else.       *)
LEMMA SessionsStep ==
  ASSUME IInv, IInv', Kept', sp' = sp,
         \A t \in Holders : link[sp[t]] = "open" /\ sp[t] \notin Faulty =>
                              link'[sp[t]] = "open"
  PROVE  Lender!Sessions
<1> DEFINE usable == {c \in Conn : link[c] = "open"}
<1>1. Lender!Lent' = Lender!Lent
  BY DEF Lender!Lent
<1>2. /\ Cardinality(usable' \cup Lender!Lent) <= Limit
      /\ Faulty = {} => usable' # {}
  <2>1. /\ Cardinality((usable \cup Lender!Lent)') <= Limit'
        /\ Faulty = {} => usable' # {}
    BY SessionsCountedNext DEF SessionsWithin
  <2>2. Limit' = Limit /\ (usable \cup Lender!Lent)' = usable' \cup Lender!Lent
    BY <1>1 DEF Limit
  <2>. QED
    BY <2>1, <2>2
<1>3. (usable \cap Lender!Lent) \ Faulty \subseteq usable'
  BY LentByHolders
<1>4. usable' \in SUBSET Conn
  OBVIOUS
<1>. QED
  BY <1>2, <1>3, <1>4, SameCardinality DEF Lender!Sessions

(* Every step of the pool is a step of the lender, or invisible to it.      *)
LEMMA TakeLends ==
  ASSUME IInv, Kept, NEW t \in Thread, pc[t] # "holding", queue # <<>>, Take(t)
  PROVE  Lender!Lend(t) \/ UNCHANGED Lender!lenderVars
<1> DEFINE usable == {c \in Conn : link[c] = "open"}
<1>0. Len(queue) \in Nat /\ \A i \in 1..Len(queue) : queue[i] \in Conn
  BY LenProperties, ElementOfSeq DEF IInv, TypeOK
<1>1. PICK k \in 0..Len(queue) :
        /\ DeadPrefix(k)
        /\ link' = Closed(k)
        /\ \/ k < Len(queue) /\ sp' = [sp EXCEPT ![t] = queue[k + 1]]
           \/ sp' = sp
  BY Zenon DEF Take
<1>2. usable' = usable
  <2>1. \A i \in 1..k : link[queue[i]] = "dead"
    BY <1>1 DEF DeadPrefix
  <2>2. \A c \in Conn : link'[c] = IF \E i \in 1..k : queue[i] = c
                                   THEN "closed" ELSE link[c]
    BY <1>1 DEF Closed
  <2>. QED
    BY <2>1, <2>2
<1>3. CASE k < Len(queue) /\ sp' = [sp EXCEPT ![t] = queue[k + 1]]
  <2> DEFINE c == queue[k + 1]
  <2>1. c \in Queued /\ c \in Conn
    BY <1>0, <1>3 DEF Queued
  <2>2. link[c] = "open"
    BY <1>1, <1>3, <2>1 DEF DeadPrefix, IInv, PooledNotClosed
  <2>3. c \notin Lender!Lent
    BY <2>1, LentByHolders DEF IInv, NoSharing
  <2>4. sp[t] = None
    BY DEF IInv, HoldersHold
  <2>5. c \in usable \ Lender!Lent
    BY <2>1, <2>2, <2>3
  <2>. QED
    BY <1>2, <1>3, <2>4, <2>5 DEF Lender!Lend
<1>4. CASE sp' = sp
  BY <1>2, <1>4 DEF Lender!lenderVars
<1>. QED
  BY <1>1, <1>3, <1>4

(* With an empty queue every working session is with a borrower.            *)
LEMMA GiveUpRefuses ==
  ASSUME IInv, Kept, NEW t \in Thread, pc[t] # "holding", queue = <<>>,
         UNCHANGED <<sp, link>>
  PROVE  Lender!Refuse(t)
<1>1. Queued = {}
  BY DEF Queued
<1>2. {c \in Conn : link[c] = "open"} \subseteq Lender!Lent
  BY <1>1, LentByHolders DEF Kept, OpenKnown
<1>3. sp[t] = None
  BY DEF IInv, HoldersHold
<1>. QED
  BY <1>2, <1>3 DEF Lender!Refuse, Lender!lenderVars

LEMMA NextLends == 
  IInv /\ Kept /\ IInv' /\ Kept' /\ [Next]_vars => [Lender!Next]_(Lender!lenderVars)
<1> SUFFICES ASSUME IInv, Kept, IInv', Kept', [Next]_vars
             PROVE  Lender!Next \/ UNCHANGED Lender!lenderVars
  OBVIOUS
<1>0. /\ \A i \in 1..Len(queue) : queue[i] \in Conn
      /\ \A t \in Holders : sp[t] \in Conn /\ sp[t] \notin Queued
      /\ \A t \in Holders : link[sp[t]] \in {"open", "dead"}
  BY ElementOfSeq DEF IInv, TypeOK, Holders, NoSharing, PooledNotClosed
<1>1. CASE ProduceConnection
  <2>1. PICK c \in Conn : /\ link[c] = "none"
                          /\ \E l : link' = [link EXCEPT ![c] = l]
                          /\ sp' = sp
    BY <1>1, Zenon DEF ProduceConnection
  <2>2. \A t \in Holders : link'[sp[t]] = link[sp[t]]
    BY <1>0, <2>1 DEF IInv, TypeOK
  <2>3. Lender!Sessions
    BY <2>1, <2>2, SessionsStep
  <2>. QED
    BY <2>3 DEF Lender!Next
<1>2. CASE Scan
  <2>1. PICK k \in 0..Len(queue) : \E m \in 0..(Len(queue) - k) :
          /\ link' = [c \in Conn |->
                        IF \E i \in (k + 1)..(k + m) : queue[i] = c
                        THEN "none" ELSE Closed(k)[c]]
          /\ sp' = sp
    BY <1>2, Zenon DEF Scan
  <2>2. PICK m \in 0..(Len(queue) - k) :
          /\ link' = [c \in Conn |->
                        IF \E i \in (k + 1)..(k + m) : queue[i] = c
                        THEN "none" ELSE Closed(k)[c]]
          /\ sp' = sp
    BY <2>1
  <2>3. 1..k \subseteq 1..Len(queue) /\ (k + 1)..(k + m) \subseteq 1..Len(queue)
    BY LenProperties DEF IInv, TypeOK
  <2>4. \A t \in Holders : link'[sp[t]] = link[sp[t]]
    BY <1>0, <2>2, <2>3 DEF Closed, Queued
  <2>5. Lender!Sessions
    BY <2>2, <2>4, SessionsStep
  <2>. QED
    BY <2>5 DEF Lender!Next
<1>3. CASE \E c \in Conn : Break(c)
  <2>1. PICK c \in Faulty : link' = [link EXCEPT ![c] = "dead"] /\ sp' = sp
    BY <1>3 DEF Break
  <2>2. \A t \in Holders : sp[t] \notin Faulty => link'[sp[t]] = link[sp[t]]
    BY <1>0, <2>1 DEF IInv, TypeOK
  <2>3. Lender!Sessions
    BY <2>1, <2>2, SessionsStep
  <2>. QED
    BY <2>3 DEF Lender!Next
<1>4. ASSUME NEW t \in Thread, GetOneConnect(t) \/ Resume(t)
      PROVE  Lender!Next \/ UNCHANGED Lender!lenderVars
  <2>1. CASE pc[t] # "holding" /\ queue # <<>> /\ Take(t)
    BY <2>1, TakeLends DEF Lender!Next
  <2>2. CASE Wait(t) \/ GiveUp(t)
    BY <2>2 DEF Wait, GiveUp, Lender!lenderVars
  <2>. QED
    BY <1>4, <2>1, <2>2 DEF GetOneConnect, Resume
<1>5. ASSUME NEW t \in Thread, ReturnConn(t)
      PROVE  Lender!Next
  <2>1. Lender!Return(t)
    BY <1>5 DEF ReturnConn, Lender!Return, IInv, HoldersHold
  <2>. QED
    BY <2>1 DEF Lender!Next
<1>6. CASE ProduceNothing \/ ProducerWait \/ Tick \/ ClockTick \/ SpuriousWakeup
           \/ UNCHANGED vars
  BY <1>6 DEF ProduceNothing, ProducerWait, Tick, ClockTick, SpuriousWakeup, vars,
              Lender!lenderVars
<1>. QED
  BY <1>1, <1>2, <1>3, <1>4, <1>5, <1>6 DEF Next, Step, Producer

THEOREM KeptHolds == Spec => []Kept
BY InitKept, InvariantHolds, NextKept, PTL DEF Spec

(* The pool implements ConnectionLender: whatever producer, scanner and     *)
(* deleter do, a working session is lent to one thread at a time, and only  *)
(* its own server ends it while it is lent.                                 *)
THEOREM PoolLends == Spec => LendsSafely
<1>1. Init => Lender!Init
  <2> SUFFICES ASSUME Init PROVE Lender!Init
    OBVIOUS
  <2>1. PICK n \in 1..InitCount : queue \in [1..n -> Conn]
    BY DEF Init
  <2>2. Len(queue) = n /\ 1 \in 1..n /\ queue[1] \in Conn
    BY <2>1, FunctionIsSeq, PoolAssumption
  <2>3. queue[1] \in {c \in Conn : link[c] = "open"}
    BY <2>2 DEF Init, Queued
  <2>4. SessionsWithin
    BY InitIInv, InitKept, SessionsCounted
  <2>5. Lender!Lent = {}
    BY DEF Init, Lender!Lent
  <2>6. Cardinality({c \in Conn : link[c] = "open"}) <= Limit
    <3>1. {c \in Conn : link[c] = "open"} \cup Lender!Lent
            = {c \in Conn : link[c] = "open"}
      BY <2>5
    <3>. QED
      BY <2>4, <3>1 DEF SessionsWithin
  <2>7. sp = [t \in Thread |-> None]
    BY DEF Init
  <2>. QED
    BY <2>3, <2>6, <2>7, SameCardinality DEF Lender!Init
<1>. QED
  BY <1>1, InvariantHolds, KeptHolds, NextLends, PTL
  DEF Spec, LendsSafely, Lender!Spec

(* getOneConnect returns nullptr only while every working session is lent.  *)
THEOREM NullMeansAllLent == Spec => NullOnlyIfAllLent
<1> DEFINE P == \A t \in Thread :
                  pc[t] \in Blocked /\ pc'[t] = "idle" => Lender!Refuse(t)
<1>1. IInv /\ Kept /\ [Next]_vars => [P]_vars
  <2> SUFFICES ASSUME IInv, Kept, Next, NEW u \in Thread,
                      pc[u] \in Blocked, pc'[u] = "idle"
               PROVE  Lender!Refuse(u)
    BY DEF P
  <2>1. pc \in [Thread -> Blocked \cup {"idle", "holding"}] /\ pc[u] \notin {"idle", "holding"}
    BY DEF IInv, TypeOK, Blocked
  <2>2. ~Wait(u)
    BY <2>1 DEF Wait
  <2>3. \A t \in Thread : ~Take(t)
    <3> SUFFICES ASSUME NEW t \in Thread, Take(t) PROVE FALSE
      OBVIOUS
    <3>1. pc' = pc \/ pc' = AfterNotifyAll([pc EXCEPT ![t] = "holding"])
      BY Zenon DEF Take
    <3>. QED
      BY <2>1, <3>1 DEF AfterNotifyAll, Blocked
  <2>4. \A t \in Thread : t # u => ~Wait(t) /\ ~GiveUp(t) /\ ~ReturnConn(t)
    BY <2>1 DEF Wait, GiveUp, ReturnConn
  <2>5. ~GetOneConnect(u) /\ ~ReturnConn(u)
    BY <2>1 DEF GetOneConnect, ReturnConn
  <2>6. Resume(u)
    BY <2>1, <2>3, <2>4, <2>5
    DEF Next, Step, Producer, ProduceConnection, ProduceNothing, ProducerWait,
        Scan, GetOneConnect, Resume, Break, Tick, ClockTick, SpuriousWakeup,
        AfterNotifyAll, Blocked
  <2>7. queue = <<>> /\ GiveUp(u)
    BY <2>2, <2>3, <2>6 DEF Resume
  <2>. QED
    BY <2>1, <2>7, GiveUpRefuses DEF GiveUp
<1>. QED
  BY <1>1, InvariantHolds, KeptHolds, PTL DEF Spec, NullOnlyIfAllLent

-----------------------------------------------------------------------------
(* A scan with connections to spare leaves none that has been idle too      *)
(* long, and never goes below initCount for a working one.  The first half  *)
(* needs IdleOrder: the scan stops at the first that is young enough.       *)
THEOREM ScanReclaimsIdle == Spec => ScanReclaims
<1> DEFINE P == Scan =>
       /\ currentCount' > InitCount /\ fault' = "none" =>
            \A c \in Queued' : age[c] < MaxIdle
       /\ (\E c \in Queued \ Queued' : link[c] = "open") =>
            currentCount' >= InitCount
<1>1. IInv /\ IdleOrder => P
  <2> SUFFICES ASSUME IInv, IdleOrder, Scan
               PROVE  /\ currentCount' > InitCount /\ fault' = "none" =>
                           \A c \in Queued' : age[c] < MaxIdle
                      /\ (\E c \in Queued \ Queued' : link[c] = "open") =>
                           currentCount' >= InitCount
    BY DEF P
  <2> USE PoolAssumption
  <2>0. /\ Len(queue) \in Nat /\ currentCount \in Nat
        /\ \A i \in 1..Len(queue) : queue[i] \in Conn /\ age[queue[i]] \in 0..MaxIdle
    BY LenProperties, ElementOfSeq DEF IInv, TypeOK
  <2>1. PICK k \in 0..Len(queue) : \E m \in 0..(Len(queue) - k) :
          /\ DeadPrefix(k)
          /\ m > 0 => Surplus(CountAfter(k, m) + 1)
          /\ Surplus(CountAfter(k, m)) /\ k + m + 1 <= Len(queue)
               => ~IdleTooLong(queue[k + m + 1])
          /\ currentCount' = CountAfter(k, m)
          /\ queue' = Without(k + m)
          /\ fault' = IF Surplus(CountAfter(k, m)) /\ k + m + 1 > Len(queue)
                      THEN "scanner" ELSE fault
    BY Zenon DEF Scan
  <2>2. PICK m \in 0..(Len(queue) - k) :
          /\ m > 0 => Surplus(currentCount' + 1)
          /\ Surplus(currentCount') /\ k + m + 1 <= Len(queue)
               => ~IdleTooLong(queue[k + m + 1])
          /\ currentCount' = CountAfter(k, m)
          /\ queue' = Without(k + m)
          /\ fault' = IF Surplus(currentCount') /\ k + m + 1 > Len(queue)
                      THEN "scanner" ELSE fault
    BY <2>1
  <2> DEFINE n == k + m
  <2>3. /\ n \in 0..Len(queue) /\ queue' = Without(n)
        /\ currentCount' = currentCount - k - m
    BY <2>0, <2>2 DEF CountAfter
  <2>4. ASSUME currentCount' > InitCount, fault' = "none", NEW c \in Queued'
        PROVE  age[c] < MaxIdle
    <3>1. n + 1 <= Len(queue) /\ ~IdleTooLong(queue[n + 1])
      BY <2>0, <2>2, <2>4 DEF Surplus
    <3>2. /\ Len(queue') = Len(queue) - n
          /\ \A i \in 1..(Len(queue) - n) : queue'[i] = queue[n + i]
      BY <2>3, WithoutProperties DEF IInv, TypeOK
    <3>3. PICK i \in 1..(Len(queue) - n) : c = queue[n + i]
      BY <2>4, <3>2 DEF Queued
    <3> HIDE DEF n
    <3>4. n + i \in 1..Len(queue) /\ n + 1 \in 1..Len(queue) /\ n + 1 <= n + i
      BY <2>0, <2>3, <3>1, <3>3
    <3>5. age[queue[n + 1]] >= age[queue[n + i]]
      BY <2>0, <3>4 DEF IdleOrder
    <3>6. age[queue[n + 1]] < MaxIdle
      BY <2>0, <3>1, <3>4 DEF IdleTooLong
    <3>. QED
      BY <2>0, <3>3, <3>4, <3>5, <3>6
  <2>5. ASSUME NEW c \in Queued \ Queued', link[c] = "open"
        PROVE  currentCount' >= InitCount
    <3>1. PICK i \in 1..n : queue[i] = c
      BY <2>3, <2>5, QueuedOrDropped
    <3>2. i \notin 1..k
      BY <2>1, <2>5, <3>1 DEF DeadPrefix
    <3>3. m > 0
      BY <2>0, <3>2
    <3>. QED
      BY <2>0, <2>2, <2>3, <3>3 DEF Surplus
  <2>. QED
    BY <2>4, <2>5
<1>2. IInv /\ IdleOrder /\ [Next]_vars => [P]_vars
  BY <1>1
<1>. QED
  BY <1>2, InvariantHolds, IdleOrderHolds, PTL DEF Spec, ScanReclaims

(* Whatever the configuration, the front of an empty queue is taken by a    *)
(* caller that found nothing but dead connections, or by the scanner while  *)
(* more than initCount connections are lent: the count it compares is exact *)
(* and what it has not deleted is in the borrowers' hands.                  *)
THEOREM EmptyFrontExplained == Spec => EmptyFrontCause
<1> DEFINE P == fault' # fault =>
             \/ /\ fault' = "getOneConnect"
                /\ queue # <<>>
                /\ \A c \in Queued : link[c] = "dead"
             \/ /\ fault' = "scanner"
                /\ Cardinality(Holders) > InitCount
<1>1. IInv /\ [Next]_vars => [P]_vars
  <2> SUFFICES ASSUME IInv, Next, fault' # fault PROVE P
    BY DEF vars
  <2> USE PoolAssumption
  <2>0. Len(queue) \in Nat /\ Cardinality(Holders) \in Nat
    BY LenProperties, HoldersFinite DEF IInv, TypeOK
  <2>1. CASE Scan
    <3>1. PICK k \in 0..Len(queue) : \E m \in 0..(Len(queue) - k) :
            fault' = IF Surplus(CountAfter(k, m)) /\ k + m + 1 > Len(queue)
                     THEN "scanner" ELSE fault
      BY <2>1, Zenon DEF Scan
    <3>2. PICK m \in 0..(Len(queue) - k) :
            fault' = IF Surplus(CountAfter(k, m)) /\ k + m + 1 > Len(queue)
                     THEN "scanner" ELSE fault
      BY <3>1
    <3>3. /\ fault' = "scanner" /\ currentCount - k - m > InitCount
          /\ k + m + 1 > Len(queue)
      BY <3>2 DEF Surplus, CountAfter
    <3>4. currentCount = Len(queue) + Cardinality(Holders)
      BY DEF IInv, CountAccounting
    <3>5. Cardinality(Holders) > InitCount
      BY <2>0, <3>3, <3>4
    <3>. QED
      BY <3>3, <3>5
  <2>2. ASSUME NEW t \in Thread, queue # <<>>, Take(t)
        PROVE  P
    <3>1. PICK k \in 0..Len(queue) :
            /\ DeadPrefix(k)
            /\ fault' = fault \/ (k = Len(queue) /\ fault' = "getOneConnect")
      BY <2>2, Zenon DEF Take
    <3>2. \A c \in Queued : link[c] = "dead"
      BY <3>1 DEF DeadPrefix, Queued
    <3>. QED
      BY <2>2, <3>1, <3>2
  <2>. QED
    BY <2>1, <2>2
    DEF Next, Step, Producer, ProduceConnection, ProduceNothing,
        ProducerWait, GetOneConnect, Resume, Wait, GiveUp, ReturnConn, Break,
        Tick, ClockTick, SpuriousWakeup
<1>. QED
  BY <1>1, InvariantHolds, PTL DEF Spec, EmptyFrontCause
=============================================================================
