-------------------------- MODULE DeliPoolProofs --------------------------
(***************************************************************************)
(* Proofs about DeliPool: the constructor's connections stay counted twice,*)
(* so the pool is smaller than it is configured to be, for any numbers of  *)
(* workers, connections and configuration.                                 *)
(***************************************************************************)
EXTENDS DeliPool, FiniteSetTheorems, TLAPS

Shape ==
  /\ queue \in Seq(Conn \cup {None})
  /\ currentCount \in Int
  /\ link \in [Conn -> {"none", "open", "dead", "closed"}]
  /\ mysql \in [Worker -> Conn \cup {None}]
  /\ IsFiniteSet(Live)
  /\ poollock # None => poollock \in Worker /\ mysql[poollock] = None

IInv == Shape /\ CountsTwice /\ OneHand /\ SmallerThanMax /\ NotClosed

LEMMA InitIInv ==
  ASSUME DeliAssumption, Init
  PROVE  IInv
<1> USE DEF DeliAssumption
<1>1. /\ queue \in [1..InitCount -> Conn \cup {None}]
      /\ \A i, j \in 1..InitCount : queue[i] # None /\ queue[i] = queue[j] => i = j
  BY DEF Init
<1>2. queue \in Seq(Conn \cup {None}) /\ Len(queue) = InitCount
  BY <1>1
<1>3. Held = {} /\ Live = Pooled
  BY DEF Init, Held, Live
<1> DEFINE All == {queue[i] : i \in 1..InitCount}
<1>4. IsFiniteSet(All) /\ Cardinality(All) <= InitCount
  <2>1. queue \in Surjection(1..InitCount, All)
    BY <1>1 DEF Surjection
  <2>2. ExistsSurjection(1..InitCount, All)
    BY <2>1 DEF ExistsSurjection
  <2> QED BY <2>2, FS_NatSurjection, FS_SurjCardinalityBound
<1>5. IsFiniteSet(Pooled) /\ Cardinality(Pooled) <= InitCount /\ Cardinality(Pooled) \in Nat
  <2>1. Pooled \subseteq All
    BY <1>2 DEF Pooled
  <2> HIDE DEF All
  <2>2. IsFiniteSet(Pooled) /\ Cardinality(Pooled) <= Cardinality(All)
    BY <1>4, <2>1, FS_Subset
  <2>3. Cardinality(Pooled) \in Nat /\ Cardinality(All) \in Nat
    BY <1>4, <2>2, FS_CardinalityType
  <2> QED BY <1>4, <2>2, <2>3
<1>6. Shape
  BY <1>2, <1>3, <1>5 DEF Init, Shape, Counted
<1>7. CountsTwice
  BY <1>3, <1>5 DEF Init, CountsTwice, Counted
<1>8. OneHand
  BY <1>1, <1>2, <1>3 DEF Init, OneHand
<1>9. SmallerThanMax
  BY <1>3, <1>5 DEF SmallerThanMax, Limit
<1>10. NotClosed
  <2>1. Pooled \subseteq Conn
    BY <1>1, <1>2 DEF Pooled
  <2> QED BY <1>3, <2>1 DEF Init, NotClosed
<1> QED BY <1>6, <1>7, <1>8, <1>9, <1>10 DEF IInv

-----------------------------------------------------------------------------
(* The front leaves the queue.                                              *)
LEMMA FrontLeaves ==
  ASSUME IInv, queue # <<>>, Head(queue) # None, queue' = Tail(queue)
  PROVE  /\ Head(queue) \in Pooled /\ Head(queue) \in Conn
         /\ Pooled' = Pooled \ {Head(queue)}
         /\ queue' \in Seq(Conn \cup {None})
         /\ \A i, j \in 1..Len(queue') : queue'[i] # None /\ queue'[i] = queue'[j] => i = j
<1> DEFINE c == Head(queue)
<1>1. queue \in Seq(Conn \cup {None})
  BY DEF IInv, Shape
<1>2. /\ Len(queue) \in Nat \ {0} /\ c = queue[1] /\ c \in Conn
      /\ queue' \in Seq(Conn \cup {None}) /\ Len(queue') = Len(queue) - 1
      /\ \A i \in 1..Len(queue') : queue'[i] = queue[i + 1]
  BY <1>1
<1> HIDE DEF c
<1>3. \A i, j \in 1..Len(queue) : queue[i] # None /\ queue[i] = queue[j] => i = j
  BY DEF IInv, OneHand
<1>4. c \in Pooled
  BY <1>2 DEF Pooled, c
<1>5. \A i, j \in 1..Len(queue') : queue'[i] # None /\ queue'[i] = queue'[j] => i = j
  <2> SUFFICES ASSUME NEW i \in 1..Len(queue'), NEW j \in 1..Len(queue'),
                      queue'[i] # None, queue'[i] = queue'[j]
               PROVE  i = j
    OBVIOUS
  <2>1. i + 1 \in 1..Len(queue) /\ j + 1 \in 1..Len(queue)
    BY <1>2
  <2>2. i + 1 = j + 1
    BY <1>2, <1>3, <2>1
  <2> QED BY <2>2
<1>6. Pooled' = Pooled \ {c}
  <2>1. ASSUME NEW x \in Pooled' PROVE x \in Pooled \ {c}
    <3>1. PICK i \in 1..Len(queue') : x = queue'[i]
      BY DEF Pooled
    <3>2. i + 1 \in 1..Len(queue) /\ x = queue[i + 1] /\ 1 \in 1..Len(queue) /\ i + 1 # 1
      BY <1>2, <3>1
    <3>3. x # None
      BY DEF Pooled
    <3>4. x # c
      BY <1>2, <1>3, <3>2, <3>3
    <3> QED BY <3>2, <3>3, <3>4 DEF Pooled
  <2>2. ASSUME NEW x \in Pooled, x # c PROVE x \in Pooled'
    <3>1. PICK i \in 1..Len(queue) : x = queue[i]
      BY DEF Pooled
    <3>2. i # 1
      BY <1>2, <2>2, <3>1
    <3>3. i - 1 \in 1..Len(queue') /\ (i - 1) + 1 = i
      BY <1>2, <3>2
    <3>4. queue'[i - 1] = x
      BY <1>2, <3>1, <3>3
    <3>5. x # None
      BY DEF Pooled
    <3> QED BY <3>3, <3>4, <3>5 DEF Pooled
  <2> QED BY <2>1, <2>2
<1> QED BY <1>2, <1>4, <1>5, <1>6 DEF c

(* It is closed.                                                            *)
LEMMA DropIInv ==
  ASSUME DeliAssumption, IInv, Drop
  PROVE  IInv'
<1> DEFINE c == Head(queue)
<1>1. /\ c # None /\ queue # <<>> /\ queue' = Tail(queue)
      /\ link' = [link EXCEPT ![c] = "closed"]
      /\ currentCount' = currentCount - 1 /\ UNCHANGED <<mysql, poollock>>
  BY DEF Drop
<1>2. /\ c \in Pooled /\ c \in Conn /\ Pooled' = Pooled \ {c}
      /\ queue' \in Seq(Conn \cup {None})
      /\ \A i, j \in 1..Len(queue') : queue'[i] # None /\ queue'[i] = queue'[j] => i = j
  BY <1>1, FrontLeaves
<1> HIDE DEF c
<1>3. Held' = Held /\ c \notin Held
  BY <1>1, <1>2 DEF Held, IInv, OneHand
<1>4. Live' = Live \ {c} /\ c \in Live
  BY <1>2, <1>3 DEF Live
<1>5. /\ IsFiniteSet(Live') /\ Cardinality(Live') = Cardinality(Live) - 1
      /\ Cardinality(Live) \in Nat
  BY <1>4, FS_RemoveElement, FS_CardinalityType DEF IInv, Shape
<1>6. Shape'
  BY <1>1, <1>2, <1>5 DEF IInv, Shape
<1>7. CountsTwice' /\ SmallerThanMax'
  <2>1. Limit \in Int /\ Limit' = Limit
    BY DEF Limit, DeliAssumption
  <2>2. CountsTwice'
    BY <1>1, <1>5 DEF IInv, CountsTwice, Shape, DeliAssumption
  <2>3. Cardinality(Live) <= Limit
    BY DEF IInv, SmallerThanMax
  <2>4. Cardinality(Live') <= Limit
    BY <1>5, <2>1, <2>3
  <2> QED BY <2>1, <2>2, <2>4 DEF SmallerThanMax
<1>8. OneHand'
  BY <1>1, <1>2, <1>3 DEF IInv, OneHand
<1>9. NotClosed'
  BY <1>1, <1>4 DEF IInv, NotClosed, Shape
<1> QED BY <1>6, <1>7, <1>8, <1>9 DEF IInv

(* It is taken.                                                             *)
LEMMA TakeIInv ==
  ASSUME DeliAssumption, IInv, NEW w \in Worker, poollock = w, Take(w)
  PROVE  IInv'
<1> DEFINE c == Head(queue)
<1>1. /\ c # None /\ queue # <<>> /\ queue' = Tail(queue)
      /\ mysql' = [mysql EXCEPT ![w] = c] /\ poollock' = None
      /\ UNCHANGED <<currentCount, link>>
  BY DEF Take
<1>2. /\ c \in Pooled /\ c \in Conn /\ Pooled' = Pooled \ {c}
      /\ queue' \in Seq(Conn \cup {None})
      /\ \A i, j \in 1..Len(queue') : queue'[i] # None /\ queue'[i] = queue'[j] => i = j
  BY <1>1, FrontLeaves
<1> HIDE DEF c
<1>3. mysql \in [Worker -> Conn \cup {None}] /\ mysql[w] = None /\ c \notin Held
  BY <1>2 DEF IInv, Shape, OneHand, DeliAssumption
<1>4. /\ mysql'[w] = c
      /\ \A v \in Worker : v # w => mysql'[v] = mysql[v]
  BY <1>1, <1>3
<1>5. Held' = Held \cup {c}
  <2>1. ASSUME NEW x \in Held' PROVE x \in Held \cup {c}
    BY <1>4 DEF Held
  <2>2. ASSUME NEW x \in Held \cup {c} PROVE x \in Held'
    BY <1>1, <1>3, <1>4 DEF Held
  <2> QED BY <2>1, <2>2
<1>6. Live' = Live
  BY <1>2, <1>5 DEF Live
<1>7. Shape'
  BY <1>1, <1>2, <1>3, <1>6 DEF IInv, Shape
<1>8. CountsTwice' /\ SmallerThanMax' /\ NotClosed'
  BY <1>1, <1>6 DEF IInv, CountsTwice, SmallerThanMax, NotClosed, Limit
<1>9. OneHand'
  <2>1. Pooled' \cap Held' = {}
    BY <1>2, <1>5 DEF IInv, OneHand
  <2>2. \A u, v \in Worker : mysql'[u] # None /\ mysql'[u] = mysql'[v] => u = v
    <3> SUFFICES ASSUME NEW u \in Worker, NEW v \in Worker, mysql'[u] # None,
                        mysql'[u] = mysql'[v]
                 PROVE  u = v
      OBVIOUS
    <3>1. \A x \in Worker : mysql[x] # c
      BY <1>1, <1>3 DEF Held
    <3> QED BY <1>4, <3>1 DEF IInv, OneHand
  <2> QED BY <1>2, <2>1, <2>2 DEF OneHand
<1> QED BY <1>7, <1>8, <1>9 DEF IInv

(* One is opened: only now does the pool grow.                              *)
LEMMA CreateIInv ==
  ASSUME DeliAssumption, IInv, NEW w \in Worker, poollock = w, Create(w)
  PROVE  IInv'
<1>1. PICK c \in Conn : /\ link[c] = "none"
                       /\ link' = [link EXCEPT ![c] = "open"]
                       /\ mysql' = [mysql EXCEPT ![w] = c]
  BY DEF Create
<1>2. /\ queue = <<>> /\ queue' = queue /\ currentCount < MaxCount
      /\ currentCount' = currentCount + 1 /\ poollock' = None
  BY DEF Create
<1>3. /\ mysql \in [Worker -> Conn \cup {None}] /\ mysql[w] = None
      /\ c # None /\ c \notin Live
  BY <1>1 DEF IInv, Shape, NotClosed, DeliAssumption
<1>4. /\ mysql'[w] = c
      /\ \A v \in Worker : v # w => mysql'[v] = mysql[v]
  BY <1>1, <1>3
<1>5. Held' = Held \cup {c}
  <2>1. ASSUME NEW x \in Held' PROVE x \in Held \cup {c}
    BY <1>4 DEF Held
  <2>2. ASSUME NEW x \in Held \cup {c} PROVE x \in Held'
    BY <1>3, <1>4 DEF Held
  <2> QED BY <2>1, <2>2
<1>6. Pooled' = Pooled
  BY <1>2 DEF Pooled
<1>7. Live' = Live \cup {c}
  BY <1>5, <1>6 DEF Live
<1>8. /\ IsFiniteSet(Live') /\ Cardinality(Live') = Cardinality(Live) + 1
      /\ Cardinality(Live) \in Nat
  BY <1>3, <1>7, FS_AddElement, FS_CardinalityType DEF IInv, Shape
<1>9. Shape'
  BY <1>1, <1>2, <1>3, <1>8 DEF IInv, Shape
<1>10. CountsTwice' /\ SmallerThanMax'
  <2>1. Cardinality(Live) + InitCount < MaxCount
    BY <1>2, <1>8 DEF IInv, CountsTwice, DeliAssumption
  <2>2. CountsTwice'
    BY <1>2, <1>8 DEF IInv, CountsTwice, DeliAssumption
  <2> QED BY <1>8, <2>1, <2>2 DEF SmallerThanMax, Limit, DeliAssumption
<1>11. OneHand'
  <2>1. Pooled' \cap Held' = {}
    BY <1>3, <1>5, <1>6 DEF IInv, OneHand, Live
  <2>2. \A u, v \in Worker : mysql'[u] # None /\ mysql'[u] = mysql'[v] => u = v
    <3> SUFFICES ASSUME NEW u \in Worker, NEW v \in Worker, mysql'[u] # None,
                        mysql'[u] = mysql'[v]
                 PROVE  u = v
      OBVIOUS
    <3>1. \A x \in Worker : mysql[x] # c
      BY <1>3 DEF Held, Live
    <3> QED BY <1>4, <3>1 DEF IInv, OneHand
  <2> QED BY <1>2, <2>1, <2>2 DEF IInv, OneHand
<1>12. NotClosed'
  BY <1>1, <1>7 DEF IInv, NotClosed, Shape
<1> QED BY <1>9, <1>10, <1>11, <1>12 DEF IInv

(* One is given back.                                                       *)
LEMMA CloseIInv ==
  ASSUME DeliAssumption, IInv, NEW w \in Worker, Close(w)
  PROVE  IInv'
<1> DEFINE c == mysql[w]
<1>1. /\ poollock = None /\ poollock' = None /\ c # None
      /\ queue' = Append(queue, c) /\ mysql' = [mysql EXCEPT ![w] = None]
      /\ UNCHANGED <<currentCount, link>>
  BY DEF Close
<1>2. /\ mysql \in [Worker -> Conn \cup {None}] /\ c \in Conn
      /\ queue \in Seq(Conn \cup {None}) /\ c \in Held /\ c \notin Pooled
  BY <1>1 DEF IInv, Shape, Held, OneHand
<1>3. /\ mysql'[w] = None
      /\ \A v \in Worker : v # w => mysql'[v] = mysql[v] /\ mysql[v] # c
  BY <1>1, <1>2 DEF IInv, OneHand
<1> HIDE DEF c
<1>4. /\ queue' \in Seq(Conn \cup {None}) /\ Len(queue) \in Nat
      /\ Len(queue') = Len(queue) + 1 /\ queue'[Len(queue) + 1] = c
      /\ \A i \in 1..Len(queue) : queue'[i] = queue[i]
  BY <1>1, <1>2
<1>5. \A i \in 1..Len(queue') : i \in 1..Len(queue) \/ i = Len(queue) + 1
  BY <1>4
<1>6. Pooled' = Pooled \cup {c}
  <2>1. ASSUME NEW x \in Pooled' PROVE x \in Pooled \cup {c}
    BY <1>4, <1>5 DEF Pooled
  <2>2. ASSUME NEW x \in Pooled PROVE x \in Pooled'
    <3>1. PICK i \in 1..Len(queue) : x = queue[i] /\ x # None
      BY DEF Pooled
    <3>2. i \in 1..Len(queue') /\ queue'[i] = x
      BY <1>4, <3>1
    <3> QED BY <3>1, <3>2 DEF Pooled
  <2>3. c \in Pooled'
    <3>1. Len(queue) + 1 \in 1..Len(queue')
      BY <1>4
    <3> QED BY <1>1, <1>4, <3>1 DEF Pooled
  <2> QED BY <2>1, <2>2, <2>3
<1>7. Held' = Held \ {c}
  <2>1. ASSUME NEW x \in Held' PROVE x \in Held \ {c}
    BY <1>3 DEF Held
  <2>2. ASSUME NEW x \in Held \ {c} PROVE x \in Held'
    <3>1. PICK v \in Worker : x = mysql[v] /\ x # None
      BY DEF Held
    <3>2. v # w
      BY <3>1 DEF c
    <3> QED BY <1>3, <3>1, <3>2 DEF Held
  <2> QED BY <2>1, <2>2
<1>8. Live' = Live
  BY <1>2, <1>6, <1>7 DEF Live
<1>9. Shape'
  BY <1>1, <1>2, <1>4, <1>8 DEF IInv, Shape
<1>10. CountsTwice' /\ SmallerThanMax' /\ NotClosed'
  BY <1>1, <1>8 DEF IInv, CountsTwice, SmallerThanMax, NotClosed, Limit
<1>11. OneHand'
  <2>1. \A i, j \in 1..Len(queue') : queue'[i] # None /\ queue'[i] = queue'[j] => i = j
    <3>1. \A i \in 1..Len(queue) : queue[i] # c
      BY <1>1, <1>2 DEF Pooled
    <3> QED BY <1>4, <1>5, <3>1 DEF IInv, OneHand
  <2>2. \A u, v \in Worker : mysql'[u] # None /\ mysql'[u] = mysql'[v] => u = v
    BY <1>3 DEF IInv, OneHand
  <2>3. Pooled' \cap Held' = {}
    BY <1>6, <1>7 DEF IInv, OneHand
  <2> QED BY <2>1, <2>2, <2>3 DEF OneHand
<1> QED BY <1>9, <1>10, <1>11 DEF IInv

(* Nobody's connection changes hands.                                       *)
LEMMA SameIInv ==
  ASSUME IInv, UNCHANGED <<queue, currentCount, mysql>>,
         link' \in [Conn -> {"none", "open", "dead", "closed"}],
         \A c \in Conn : link'[c] = link[c] \/ link'[c] = "dead",
         poollock' # None => poollock' \in Worker /\ mysql[poollock'] = None
  PROVE  IInv'
<1>1. Pooled' = Pooled /\ Held' = Held /\ Live' = Live
  BY DEF Pooled, Held, Live
<1>2. Live \subseteq Conn
  <2>1. queue \in Seq(Conn \cup {None}) /\ mysql \in [Worker -> Conn \cup {None}]
    BY DEF IInv, Shape
  <2> QED BY <2>1 DEF Live, Pooled, Held
<1> QED BY <1>1, <1>2 DEF IInv, Shape, CountsTwice, OneHand, SmallerThanMax, NotClosed, Limit

LEMMA StepIInv ==
  ASSUME DeliAssumption, IInv, [Next]_vars
  PROVE  IInv'
<1>1. /\ link \in [Conn -> {"none", "open", "dead", "closed"}]
      /\ poollock # None => poollock \in Worker /\ mysql[poollock] = None
  BY DEF IInv, Shape
<1>2. ASSUME NEW w \in Worker, getOneConnect(w) PROVE IInv'
  BY <1>1, <1>2, SameIInv DEF getOneConnect
<1>3. ASSUME UseNull PROVE IInv'
  BY <1>1, <1>3, SameIInv DEF UseNull
<1>4. ASSUME NEW c \in Conn, Break(c) PROVE IInv'
  BY <1>1, <1>4, SameIInv DEF Break
<1>5. CASE UNCHANGED vars
  BY <1>1, <1>5, SameIInv DEF vars
<1> QED BY <1>2, <1>3, <1>4, <1>5, DropIInv, TakeIInv, CreateIInv, CloseIInv DEF Next

(* The constructor's connections stay counted twice: _currentCount is not   *)
(* the number of connections that its comment says it is.                   *)
THEOREM AlwaysCountsTwice ==
  ASSUME DeliAssumption
  PROVE  Spec => []CountsTwice
<1>1. IInv => CountsTwice
  BY DEF IInv
<1>2. Init => IInv
  BY InitIInv
<1>3. IInv /\ [Next]_vars => IInv'
  BY StepIInv
<1> QED BY <1>1, <1>2, <1>3, PTL DEF Spec

(* No handle ever serves two threads, and none that was closed is reached.  *)
THEOREM NoHandleTwice ==
  ASSUME DeliAssumption
  PROVE  Spec => [](OneHand /\ NotClosed)
<1>1. IInv => OneHand /\ NotClosed
  BY DEF IInv
<1>2. Init => IInv
  BY InitIInv
<1>3. IInv /\ [Next]_vars => IInv'
  BY StepIInv
<1> QED BY <1>1, <1>2, <1>3, PTL DEF Spec

(* The pool never has more than MaxCount - InitCount connections, or none   *)
(* but those of its constructor.                                            *)
THEOREM NeverFull ==
  ASSUME DeliAssumption
  PROVE  Spec => []SmallerThanMax
<1>1. IInv => SmallerThanMax
  BY DEF IInv
<1>2. Init => IInv
  BY InitIInv
<1>3. IInv /\ [Next]_vars => IInv'
  BY StepIInv
<1> QED BY <1>1, <1>2, <1>3, PTL DEF Spec
=============================================================================
