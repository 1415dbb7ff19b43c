----------------------------- MODULE MysqlPool -----------------------------
(***************************************************************************)
(* The MySQL connection pool of the comServer process                      *)
(* (src/log_time_server/log_time_server/mysqlPool.cc).                     *)
(*                                                                         *)
(* Three kinds of threads share the pool: the producer, which creates      *)
(* connections when the queue runs empty; the scanner, which once a second *)
(* drops broken and idle connections; and the threads of the server's      *)
(* thread pool, which borrow a connection with getOneConnect and give it   *)
(* back when the last shared_ptr to it goes away.  Everything they share   *)
(* is read and written under the one mutex _queueLock, so each critical    *)
(* section between two waits on the condition variable is one action.      *)
(*                                                                         *)
(* front() and pop() of an empty std::queue are undefined: the slot they   *)
(* touch was never written and the pointer read from it is indeterminate.  *)
(* Its caller dereferences it next, so no defined step follows: the        *)
(* variable fault records where it happened and the system stops.          *)
(***************************************************************************)
EXTENDS Integers, Sequences, FiniteSets

CONSTANTS
  Conn,       \* MysqlConnection objects that the process may allocate
  Faulty,     \* those whose connect may fail and whose session may break
  Thread,     \* threads that call getOneConnect
  InitCount,  \* initSize in mysql.conf
  MaxCount,   \* maxSize in mysql.conf
  MaxIdle,    \* maxIdleTime, in ticks of clock()
  Timeout,    \* connectionTimeOut, in ticks of the steady clock
  None        \* a null shared_ptr

(* loadConfigFile compares neither initSize with maxSize nor the times with *)
(* anything; the constructor exits when not one connection was made.        *)
ASSUME PoolAssumption ==
  /\ Faulty \subseteq Conn
  /\ IsFiniteSet(Thread)
  /\ InitCount \in Nat \ {0}
  /\ MaxCount \in Nat
  /\ MaxIdle \in Nat
  /\ Timeout \in Nat
  /\ None \notin Conn

VARIABLES
  queue,         \* _connQueue
  currentCount,  \* _currentCount
  link,          \* what each object's MYSQL handle is worth
  age,           \* getAliveeTime() of each object, up to MaxIdle
  producer,      \* the producer thread: "running", or "waiting" in cv.wait
  pc,            \* each thread's place in getOneConnect
  timer,         \* how much of its wait_for each thread has used
  sp,            \* the connection each thread has borrowed
  fault          \* the function that took the front of an empty queue

vars == <<queue, currentCount, link, age, producer, pc, timer, sp, fault>>

Link == {"none",    \* not allocated, or deleted
         "open",    \* mysql_ping succeeds
         "dead",    \* never connected, or broken: mysql_ping fails
         "closed"}  \* mysql_close was called; the object itself is leaked

Blocked == {"waiting", "woken"}  \* inside cv.wait_for

Queued == {queue[i] : i \in 1..Len(queue)}
Holders == {t \in Thread : sp[t] # None}
Limit == IF InitCount > MaxCount THEN InitCount ELSE MaxCount

TypeOK ==
  /\ queue \in Seq(Conn)
  /\ currentCount \in Nat
  /\ link \in [Conn -> Link]
  /\ age \in [Conn -> 0..MaxIdle]
  /\ producer \in {"running", "waiting"}
  /\ pc \in [Thread -> Blocked \cup {"idle", "holding"}]
  /\ timer \in [Thread -> 0..Timeout]
  /\ sp \in [Thread -> Conn \cup {None}]
  /\ fault \in {"none", "getOneConnect", "scanner"}

-----------------------------------------------------------------------------
(* MysqlPool(): initCount attempts to connect, of which at least one must   *)
(* succeed; then the producer and the scanner are detached.                 *)
Init ==
  /\ \E n \in 1..InitCount :
       queue \in {q \in [1..n -> Conn] :
                    \A i, j \in 1..n : q[i] = q[j] => i = j}
  /\ currentCount = Len(queue)
  /\ link = [c \in Conn |-> IF c \in Queued THEN "open" ELSE "none"]
  /\ age = [c \in Conn |-> 0]
  /\ producer = "running"
  /\ pc = [t \in Thread |-> "idle"]
  /\ timer = [t \in Thread |-> 0]
  /\ sp = [t \in Thread |-> None]
  /\ fault = "none"

-----------------------------------------------------------------------------
(* Operators named Mut... are what a plausible bug would turn the           *)
(* definition after them into; only the mutation runs use them.             *)

(* cv.notify_all() by a thread that leaves the threads' places as in p, and *)
(* what it does to the producer.                                            *)
AfterNotifyAll(p) ==
  [t \in Thread |-> IF p[t] = "waiting" THEN "woken" ELSE p[t]]

ProducerNotified == "running"

(* while (!isEmpty() && poolFront()->mysqlPing()): the first k connections  *)
(* of the queue are all that fail the ping before one passes.               *)
MutNoPing(k) == k = 0
DeadPrefix(k) ==
  /\ \A i \in 1..k : link[queue[i]] = "dead"
  /\ k < Len(queue) => link[queue[k + 1]] # "dead"

(* mysqlClose() of the connections of that prefix.  poolPop() forgets the   *)
(* only pointer to them.                                                    *)
MutCloseOneMore(k) ==
  [c \in Conn |-> IF \E i \in 1..(k + 1) : i <= Len(queue) /\ queue[i] = c
                 THEN "closed" ELSE link[c]]
Closed(k) ==
  [c \in Conn |-> IF \E i \in 1..k : queue[i] = c THEN "closed" ELSE link[c]]

(* _currentCount when the prefix and m idle connections are gone.           *)
MutUncounted(k, m) == currentCount - m
CountAfter(k, m) == currentCount - k - m

(* The queue without its first n connections; poolPop() of the one that     *)
(* follows the prefix when it is borrowed.                                  *)
Without(n) == SubSeq(queue, n + 1, Len(queue))
MutNotPopped(k) == Without(k)
Popped(k) == Without(k + 1)

(* pcon->refreshAliveTime()                                                 *)
MutNotRefreshed(c) == age
Refreshed(c) == [age EXCEPT ![c] = 0]

(* p->getAliveeTime() >= (_maxIdleTime * 1000)                              *)
IdleTooLong(c) == age[c] >= MaxIdle

(* while (_currentCount > _initCount), when _currentCount is n              *)
MutAtLeastInit(n) == n >= InitCount
Surplus(n) == n > InitCount

(* if ((int)_currentCount < _maxCount)                                      *)
MutAtMostMax == currentCount <= MaxCount
CanCreate == currentCount < MaxCount

(* produceConnectionTask with an empty queue and room for a connection.     *)
(* The result of connect is not looked at.                                  *)
ProduceConnection ==
  /\ producer = "running"
  /\ queue = <<>>
  /\ CanCreate
  /\ \E c \in Conn :
       /\ link[c] = "none"
       /\ \E l \in IF c \in Faulty THEN {"open", "dead"} ELSE {"open"} :
            link' = [link EXCEPT ![c] = l]
       /\ age' = Refreshed(c)
       /\ queue' = Append(queue, c)
  /\ currentCount' = currentCount + 1
  /\ pc' = AfterNotifyAll(pc)
  /\ UNCHANGED <<producer, timer, sp, fault>>

(* produceConnectionTask with an empty queue and maxCount reached: it only  *)
(* notifies, releases the lock and starts over.                             *)
ProduceNothing ==
  /\ producer = "running"
  /\ queue = <<>>
  /\ ~CanCreate
  /\ pc' = AfterNotifyAll(pc)
  /\ UNCHANGED <<queue, currentCount, link, age, producer, timer, sp, fault>>

(* produceConnectionTask with connections in the queue: cv.wait.            *)
ProducerWait ==
  /\ producer = "running"
  /\ queue # <<>>
  /\ producer' = "waiting"
  /\ UNCHANGED <<queue, currentCount, link, age, pc, timer, sp, fault>>

-----------------------------------------------------------------------------
(* The end of getOneConnect, with a queue that was not empty: drop the dead *)
(* prefix, borrow the front, notify.                                        *)
Take(t) ==
  \E k \in 0..Len(queue) :
    /\ DeadPrefix(k)
    /\ currentCount' = CountAfter(k, 0)
    /\ link' = Closed(k)
    /\ \/ /\ k < Len(queue)
          /\ sp' = [sp EXCEPT ![t] = queue[k + 1]]
          /\ queue' = Popped(k)
          /\ pc' = AfterNotifyAll([pc EXCEPT ![t] = "holding"])
          /\ timer' = [timer EXCEPT ![t] = 0]
          /\ producer' = ProducerNotified
          /\ UNCHANGED fault
       \/ /\ k = Len(queue)
          /\ queue' = <<>>
          /\ fault' = "getOneConnect"
          /\ UNCHANGED <<producer, pc, timer, sp>>
    /\ UNCHANGED age

(* cv.wait_for(lock, _connectionTimeout) with a fresh deadline.             *)
Wait(t) ==
  /\ pc' = [pc EXCEPT ![t] = "waiting"]
  /\ timer' = [timer EXCEPT ![t] = 0]
  /\ UNCHANGED <<queue, currentCount, link, age, producer, sp, fault>>

(* return nullptr                                                           *)
GiveUp(t) ==
  /\ pc' = [pc EXCEPT ![t] = "idle"]
  /\ timer' = [timer EXCEPT ![t] = 0]
  /\ UNCHANGED <<queue, currentCount, link, age, producer, sp, fault>>

(* A call of getOneConnect, up to its first wait if it has to wait.         *)
GetOneConnect(t) ==
  /\ pc[t] = "idle"
  /\ \/ queue # <<>> /\ Take(t)
     \/ queue = <<>> /\ Wait(t)

(* wait_for returns, notified or timed out, and has the lock again.  Its    *)
(* status is cv_status::timeout when the deadline has passed by then.       *)
MutNoRecheck(t) ==
  /\ \/ pc[t] = "woken"
     \/ pc[t] = "waiting" /\ timer[t] = Timeout
  /\ \/ timer[t] = Timeout /\ GiveUp(t)
     \/ timer[t] < Timeout /\ queue # <<>> /\ Take(t)
     \/ timer[t] < Timeout /\ queue = <<>> /\ Wait(t)
MutNoTimeout(t) ==
  /\ pc[t] = "woken"
  /\ \/ queue # <<>> /\ Take(t)
     \/ queue = <<>> /\ Wait(t)
MutWaitsAgain(t) ==
  \/ pc[t] = "waiting" /\ timer[t] = Timeout /\ Wait(t)
  \/ pc[t] = "woken" /\ queue # <<>> /\ Take(t)
  \/ pc[t] = "woken" /\ queue = <<>> /\ timer[t] < Timeout /\ Wait(t)
  \/ pc[t] = "woken" /\ queue = <<>> /\ timer[t] = Timeout /\ GiveUp(t)
Resume(t) ==
  /\ \/ pc[t] = "woken"
     \/ pc[t] = "waiting" /\ timer[t] = Timeout
  /\ \/ queue # <<>> /\ Take(t)
     \/ queue = <<>> /\ timer[t] < Timeout /\ Wait(t)
     \/ queue = <<>> /\ timer[t] = Timeout /\ GiveUp(t)

(* The deleter of the shared_ptr: the connection goes to the back of the    *)
(* queue.  It notifies nobody.                                              *)
ReturnConn(t) ==
  /\ pc[t] = "holding"
  /\ queue' = Append(queue, sp[t])
  /\ age' = Refreshed(sp[t])
  /\ sp' = [sp EXCEPT ![t] = None]
  /\ pc' = [pc EXCEPT ![t] = "idle"]
  /\ UNCHANGED <<currentCount, link, producer, timer, fault>>

-----------------------------------------------------------------------------
(* The body of scannerConnectionTask after usleep: drop the dead prefix,    *)
(* of length k, then delete the next m connections, the ones idle for too   *)
(* long, while there are more than initCount.  The loop asks for the front  *)
(* whenever currentCount > initCount, also when the queue is empty.         *)
Scan ==
  \E k \in 0..Len(queue) : \E m \in 0..(Len(queue) - k) :
    LET left == CountAfter(k, m)
        next == k + m + 1
    IN
    /\ DeadPrefix(k)
    /\ \A i \in (k + 1)..(k + m) : IdleTooLong(queue[i])
    /\ m > 0 => Surplus(left + 1)
    /\ Surplus(left) /\ next <= Len(queue) => ~IdleTooLong(queue[next])
    /\ currentCount' = left
    /\ queue' = Without(k + m)
    /\ link' = [c \in Conn |->
                  IF \E i \in (k + 1)..(k + m) : queue[i] = c
                  THEN "none" ELSE Closed(k)[c]]
    /\ fault' = IF Surplus(left) /\ next > Len(queue)
                THEN "scanner" ELSE fault
    /\ UNCHANGED <<age, producer, pc, timer, sp>>

-----------------------------------------------------------------------------
(* The environment.  The server or the network ends a session.              *)
Break(c) ==
  /\ c \in Faulty
  /\ link[c] = "open"
  /\ link' = [link EXCEPT ![c] = "dead"]
  /\ UNCHANGED <<queue, currentCount, age, producer, pc, timer, sp, fault>>

(* The steady clock that wait_for measures with advances.                   *)
Tick ==
  /\ \E t \in Thread : pc[t] \in Blocked /\ timer[t] < Timeout
  /\ timer' = [t \in Thread |->
                 IF pc[t] \in Blocked /\ timer[t] < Timeout
                 THEN timer[t] + 1 ELSE timer[t]]
  /\ UNCHANGED <<queue, currentCount, link, age, producer, pc, sp, fault>>

(* clock(), the processor time by which connections age, advances.          *)
ClockTick ==
  /\ \E c \in Queued : age[c] < MaxIdle
  /\ age' = [c \in Conn |-> IF c \in Queued /\ age[c] < MaxIdle
                            THEN age[c] + 1 ELSE age[c]]
  /\ UNCHANGED <<queue, currentCount, link, producer, pc, timer, sp, fault>>

(* A wait on a condition variable may end without a notification.           *)
SpuriousWakeup ==
  /\ \/ /\ producer = "waiting"
        /\ producer' = "running"
        /\ UNCHANGED pc
     \/ /\ \E t \in Thread :
             /\ pc[t] = "waiting"
             /\ pc' = [pc EXCEPT ![t] = "woken"]
        /\ UNCHANGED producer
  /\ UNCHANGED <<queue, currentCount, link, age, timer, sp, fault>>

-----------------------------------------------------------------------------
Producer == ProduceConnection \/ ProduceNothing \/ ProducerWait

Step ==
  \/ Producer
  \/ Scan
  \/ \E t \in Thread : GetOneConnect(t) \/ Resume(t) \/ ReturnConn(t)
  \/ \E c \in Conn : Break(c)
  \/ Tick
  \/ ClockTick
  \/ SpuriousWakeup

Next == fault = "none" /\ Step

Spec == Init /\ [][Next]_vars

(* A thread that can take the lock gets it in the end, time passes, and a   *)
(* borrower finishes its query.  Nobody has to call getOneConnect, no       *)
(* session has to break, and processor time need not pass.                  *)
Fairness ==
  /\ WF_vars(fault = "none" /\ Producer)
  /\ WF_vars(fault = "none" /\ Scan)
  /\ WF_vars(fault = "none" /\ Tick)
  /\ \A t \in Thread :
       /\ WF_vars(fault = "none" /\ Resume(t))
       /\ WF_vars(fault = "none" /\ ReturnConn(t))

FairSpec == Spec /\ Fairness

-----------------------------------------------------------------------------
(* _currentCount counts the connections in the queue and the borrowed ones, *)
(* neither more nor fewer, although five functions adjust it.               *)
CountAccounting == currentCount = Len(queue) + Cardinality(Holders)

(* No connection is in two hands: not twice in the queue, not queued while  *)
(* borrowed, not borrowed by two threads.  A MYSQL handle must never serve  *)
(* two threads.                                                             *)
NoSharing ==
  /\ \A i, j \in 1..Len(queue) : queue[i] = queue[j] => i = j
  /\ \A t \in Holders : sp[t] \notin Queued
  /\ \A t, u \in Holders : sp[t] = sp[u] => t = u

(* The pool never opens more connections than configured (mysqlPool.h:      *)
(* _maxCount is the largest number of connections allowed at a time).       *)
CountBound == currentCount <= Limit

(* No connection that was closed or deleted can be reached again, from the  *)
(* queue or from a borrower: no use after free, no second mysql_close.      *)
PooledNotClosed ==
  \A c \in Queued \cup {sp[t] : t \in Holders} : link[c] \in {"open", "dead"}

(* The queue is ordered by idle time, the longest idle connection first:    *)
(* the scanner's early break relies on it.                                  *)
IdleOrder ==
  \A i, j \in 1..Len(queue) : i < j => age[queue[i]] >= age[queue[j]]

(* A connection is handed out only if its session is up, whatever broke     *)
(* while it was in the queue.                                               *)
HandsOutLive ==
  [][\A t \in Thread :
       pc[t] # "holding" /\ pc'[t] = "holding" => link[sp'[t]] = "open"]_vars

(* A scan that finds more than initCount connections leaves none that has   *)
(* been idle for maxIdleTime, and it never deletes a working connection     *)
(* when that would leave fewer than initCount.                              *)
ScanReclaims ==
  [][Scan =>
       /\ currentCount' > InitCount /\ fault' = "none" =>
            \A c \in Queued' : age[c] < MaxIdle
       /\ (\E c \in Queued \ Queued' : link[c] = "open") =>
            currentCount' >= InitCount]_vars

(* The front of an empty queue is taken in two situations only: by a caller *)
(* that found nothing but dead connections queued, and by the scanner while *)
(* more than initCount connections are lent out.                            *)
EmptyFrontCause ==
  [][fault' # fault =>
       \/ /\ fault' = "getOneConnect"
          /\ queue # <<>>
          /\ \A c \in Queued : link[c] = "dead"
       \/ /\ fault' = "scanner"
          /\ Cardinality(Holders) > InitCount]_vars

(* As long as no session breaks, a thread does not wait while every         *)
(* connection lies in the queue: although the deleter notifies nobody, some *)
(* thread gets hold of a connection.                                        *)
NobodyStranded ==
  \A t \in Thread :
    pc[t] \in Blocked ~>
      \/ pc[t] \notin Blocked
      \/ Holders # {}
      \/ \E c \in Conn : link[c] \in {"dead", "closed"}

(* While some thread waits and some working connection is queued all the    *)
(* time, connections go on being lent, though not to everybody: GetReturns  *)
(* fails.  The callers of the pool may rely on this much.                   *)
Wanted ==
  /\ \E t \in Thread : pc[t] \in Blocked
  /\ \E c \in Queued : link[c] = "open"
LendStep == \E t \in Thread : pc[t] # "holding" /\ pc'[t] = "holding"
LendsOn == <>[](Wanted /\ fault = "none") => []<><<LendStep>>_vars

(* What the comment above getOneConnect says: it takes a connection if the  *)
(* queue has one and creates one otherwise, so it never reads the front of  *)
(* an empty queue.                                                          *)
GetTakesExisting == fault # "getOneConnect"

(* What mysqlPool.h says of the scanner: it looks at idle connections, the  *)
(* ones in the queue.                                                       *)
ScansOnlyIdle == fault # "scanner"

(* What mysqlPool.h says of _connectionTimeout: it bounds how long          *)
(* getOneConnect takes.                                                     *)
GetReturns == \A t \in Thread : pc[t] \in Blocked ~> pc[t] \notin Blocked

(* What mysqlPool.h says of the producer: it is there to make connections;  *)
(* an empty queue below maxCount is filled again.                           *)
Replenished ==
  queue = <<>> /\ currentCount < MaxCount ~> queue # <<>> \/ fault # "none"

(* To its borrowers the pool is a lender: see ConnectionLender.  Opening,   *)
(* pinging, scanning and counting are invisible, and nothing they do takes  *)
(* a session away from a borrower.                                          *)
Lender == INSTANCE ConnectionLender WITH
            lent <- sp, usable <- {c \in Conn : link[c] = "open"}
LendsSafely == Lender!Spec

(* getOneConnect gives up only while every working session is lent out,     *)
(* also when a connection is returned just as its wait ends: no session is  *)
(* lost between queue, borrowers and scanner.                               *)
NullOnlyIfAllLent ==
  [][\A t \in Thread :
       pc[t] \in Blocked /\ pc'[t] = "idle" => Lender!Refuse(t)]_vars
=============================================================================
