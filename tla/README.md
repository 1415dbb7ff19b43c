# TLA+ models of the servers and the database layer

The repository is a collection of Visual Studio projects for Linux, written in
C++ on the muduo network library: a server that stores JSON texts of its users
in MySQL (`log_time_server`, with its earlier stages beside it), a chat server,
a client that follows market quotes, and a database layer.  This directory holds
TLA+ specifications of their concurrent parts, the TLC configurations that check
them, and proofs.

## 1. Inventory

Paths are relative to `src/`; `LTS/` is `log_time_server/log_time_server/`.

### 1.1 The store server, `LTS/`

`main.cc` starts an event loop with IO threads (4 unless told otherwise) and a
pool of 8 worker threads.  An IO thread cuts its connections' byte streams into
messages and puts each one into the pool; a worker parses it, borrows a MySQL
connection, runs a statement, and replies.

| part | state | operations | what makes it right |
|---|---|---|---|
| MySQL pool, `mysqlPool.cc` | `_connQueue`, `_currentCount`, idle time and session of each connection, waiters on `cv` | constructor, `produceConnectionTask`, `scannerConnectionTask`, `getOneConnect`, deleter of its `shared_ptr` | the count is exact, no handle in two hands, nothing used after close, only working sessions handed out, a waiter gets a connection or its timeout |
| thread pool, `ThreadPool.cc` | `queue_`, `running_`, `threads_`, sleepers on `notEmpty_` | `start`, `run`, `take`, `runInThread`, `stop` | tasks run once and are begun in order, no wakeup is lost, `stop` returns and nothing runs after it |
| dispatch, `server.cc` | `connections_`, a worker's place in `dealMessage`, the table in MySQL | `onConnection`, `onStringMessage`, `dealMessage` with RQUPJ (put), RQDPJ (get), HBET (heartbeat) | one reply to the right peer, a get returns a text of its row, an acknowledged put is seen |
| codec, `codec.cc` | the buffer of a connection | `onMessage`, `send` | messages do not depend on how the stream was cut |

The parts interact by calls and by shared state: `onStringMessage` calls
`ThreadPool::run`; a task calls `getOneConnect`, and letting go of the
`shared_ptr` calls the deleter in the worker; workers and IO threads share
`connections_` under `mutex_`.  What is hard: condition variables whose
notifications are sent in some places and not in others, a timeout racing a
return, sessions that die while they are pooled, and requests of one connection
served by several workers in any order.

### 1.2 The chat server, `Project2_chat/Project2_chat/server.cc`

Each IO thread keeps its own set of connections (`LocalConnections`).  The thread
that reads a message queues a functor in every loop of `loops_` while it holds
`mutex_`; each loop sends the message to its own connections.  It is right if all
clients see one order of messages, without gaps, from the moment they connect
to the moment they leave.  A length that does not fit (`codec.h:31`) shuts the
sender's connection in one direction, while it stays in its thread's set.

### 1.3 The quote client, `quote_client/quote_client/`

Ticks arrive in `client.cc`, which keeps those not seen before in `tickSet` and
`tickList` (at most 5000); two detached threads (`utils.cc`) take them, keep
windows of 60, 180 and 300 s per contract in `queueMap`, and push results on
`resQue`, from which `QuoteServer::loopSend` sends them to the logged-in clients
in `checkConns_`.  It is right if the set is always the set of the list's
elements, each tick is used once, results leave in the order of the ticks, and
nobody walks a container that another thread changes.

### 1.4 The database layer, `dblayer/`

`CDBOperation` (`DBOperation.cpp`, 6862 lines, some 140 functions) stores and reads the
tables of a trading system (`Tables.h`).  Its functions have one shape: build a
statement, ping, call `ConnectDB` if the ping fails, execute, fetch a record set,
answer.  Some send a second statement that depends on the first, four read back the
number their row was given.  `CDataBase` (`MysqlDataBase.cpp`) wraps one MYSQL handle:
`Connect` with MYSQL_OPT_RECONNECT and a read timeout of one second, `Ping`, `ExecQuery`,
`Start_Transaction`, `Commit`, `Rollback`; `CRecordSet` (`MysqlRecordSet.cpp`) runs a query
and stores its result.  State: the handle, the session behind it, the library's flag
that a transaction is open, the rows at the server.  What is hard: a session may be
lost between any two calls and is replaced silently; a statement may fail for the client
and be carried out all the same; a program of its own may hold rows locked; the
clauses of some 50 pairs of functions are written out twice.  It is right if a
transaction is whole or lost, an answer is true, and an operation returns.

### 1.5 The server with one handle, `comServer_Delimiter/comServer_Delimiter/`

An IO thread cuts the streams of its connections into messages (`codec.cc`, the same text as
in `LTS/`), each message becomes a task of the thread pool, and the workers carry the tasks out with
one `MysqlTrans` object, that is, on one MYSQL handle without a lock.  A put unpacks its body, deletes the user's
rows, resets AUTO_INCREMENT and inserts a row: four statements that others may come
between.  A get packs the text it has found.  It is right if messages do not depend on how TCP cuts the stream, a put that
nobody disturbed leaves exactly its row, and each message is dealt with.

### 1.6 The first pool, `Deli_Pool_Server/Deli_Pool_Server/mysqlPool.cc`

`getOneConnect` drops the dead connections at the front of `mysqlpool`, takes the first that
answers, or creates one in the worker's own thread; `close` pushes it back.  There is no producer and no
scanner.  It is right if no handle is in two hands and the count is the number of
connections, which it is not: the constructor counts each of its connections twice
(lines 27 and 93).

### 1.7 Earlier stages and the rest

`Deli_time_server` and `press_test_server` have earlier versions of the pool of
`LTS/`; `comServer`, `Custom_rules`, `固定包头` and `分隔符`
echo messages under different framings; `Client_Delimiter` and `Project2_client` are
console clients.  `ThreadPool.cc` is the same in all of them up to encoding.
`echo`, `Throughput`, `ThrouputClient`, `finger`, `Test`, `Project1` are exercises with
the network library; `testJson`, `testMysql`, `Mysql_test`, `test_core`, `test_log` try a
library call; `cmake-examples-master`, `Mysql_test/Mysql_test/mysql` and gtest are
third-party.  None of these (1.7) is modelled; `PROJECT.json` lists them with the reason.

Of the 78105 lines that count as implementation some 23500 are the repository's own;
the rest are copies of catch2, gtest and the MySQL connector's headers.

## 2. Modules

    Executor <---- implements ---- ThreadPool        ConnectionLender <-- implements -- MysqlPool
       \                                                 /
        +----------------- ComServer -------------------+
    ChatRoom <---- implements ---- ChatServer            QuoteFeed
    DbTables <- DbStatements <- DbRows <- DbLayer ---- implements ----> DbStore
    DelimiterCodec <- DelimiterServer                    DeliPool

| module | what it is |
|---|---|
| `MysqlPool` | the pool of `LTS/mysqlPool.cc` |
| `ConnectionLender` | what the pool promises: a connection is lent to one thread at a time and works when it is lent |
| `ThreadPool` | `LTS/ThreadPool.cc` |
| `Executor` | what the thread pool promises: tasks begin in order and run once |
| `ComServer` | `LTS/server.cc` and `LTS/mysqlConnection.cc`, over `Executor` and `ConnectionLender` |
| `ChatServer`, `ChatRoom` | the chat server and the one conversation it promises |
| `QuoteFeed` | the quote client: `client.cc`, `utils.cc` and `server.cc` of `quote_client/quote_client/` |
| `DbTables`, `DbStatements` | the tables of `Tables.h`; every statement of `DBOperation.cpp`, and what its function answers |
| `DbRows` | what the statements do to rows (the MySQL server's part) |
| `DbLayer` | `DBOperation.cpp`, `MysqlDataBase.cpp` and `MysqlRecordSet.cpp` over sessions that may be lost |
| `DbStore` | what the layer promises: a statement takes effect at most once, a transaction is stored or lost as a whole |
| `DelimiterCodec` | `codec.cc` of `LTS/`: messages over a byte stream |
| `DelimiterServer` | `server.cc`, `mysqlJsonTrans.cc` of `comServer_Delimiter`, over `DelimiterCodec` |
| `DeliPool` | the pool of `Deli_Pool_Server/mysqlPool.cc` |
| `MC...` | instances of these for TLC |
| `...Proofs` | theorems about them, checked by TLAPS |

Because `ComServer` is written over the two abstract specifications and the two
pools are shown to implement them, its runs need no queue, producer or scanner.

Operators whose names begin with `Mut`, or whose comment calls them a mutant, are
deliberate bugs: each is the operator that follows it, changed in a way a programmer might have written it.  They are in
no specification.  `PROJECT.json` pairs each with the property that must find it.

### 2.1 MysqlPool

Every critical section under `_queueLock`, up to its end or to a wait on `cv`, is one
action.

| code | action |
|---|---|
| constructor (11-44) | `Init`: some of the `InitCount` attempts succeeded |
| `produceConnectionTask` (126-148) | `ProduceConnection`, `ProduceNothing` (maxCount reached: only the notification), `ProducerWait` |
| `getOneConnect` (185-224) | `GetOneConnect` up to the first wait, `Resume` after a wait; both end in `Take` (ping loop, borrow, notify), `Wait` or `GiveUp` |
| deleter (211-219) | `ReturnConn`: back of the queue, no notification |
| `scannerConnectionTask` (227-256) | `Scan`: the ping loop, then the deletion of idle connections |

The environment is `Break` (a session ends), `Tick` (the steady clock of `wait_for`),
`ClockTick` (processor time, by which `getAliveeTime` measures idleness) and
`SpuriousWakeup`.  `wait_for` that is notified returns `no_timeout` unless its deadline
has passed when it has the lock again; `timer` says how much has passed.

`front()` and `pop()` of an empty queue are undefined.  The pointer they yield is used at
once, so no later step has a meaning: `fault` records the function and the system
stops.  The safety properties thus speak of every behaviour up to that point, and
the two places are findings of their own.

### 2.2 ThreadPool

The critical sections of `run`, `take` and `stop` are actions; `TestRunning` is the read of
`running_` outside the lock in `runInThread`; `Join` is the end of `stop`.  `phase` is where
the owner of the pool is, since `start` and `stop` are called by it alone.  `accepted`
and `taken` are history variables.

### 2.3 ComServer

`OnStringMessage` submits a task; a worker goes through `Begin` and then `Dismiss`, or
`Ask`, `Connect` or `Refuse`, `Insert` or `Query`, `Reply` and `Release`.  Between any two of them
other workers, clients and sessions act.  A broken session answers FAIL, and for a put
the row may or may not have been stored.  `QueryDies` is what `mysqlQuery` does wrong: its statement never fits into
`query[64]` (`mysqlConnection.cc:55-58`), so the process may die of any get, and it dies when the session breaks after the server has
accepted the SELECT, because the result is then a null pointer (lines 68-69).  `fault` says what has ended the process.  The header's user and key are short
sequences of characters padded with blanks, cut as `dealMessage` cuts them
(lines 75-96: the key is cut at the user name's length).  `ComServerAssumption` says what the
fixed header layout does: the fields are sequences of characters and every key field has the same
width.  A text is represented by the request that stored it; `table[x]` is the history of row `x`.

### 2.4 ChatServer

`Receive`, `Lock`, `QueueInLoop` for each loop in any order (the set is ordered by
addresses), `Unlock` are the steps of `onStringMessage`; `DistributeMessage` is a functor's run.
`InvalidLength` is the codec's refusal of a length: the connection is `"shut"`, which for the room
means that its client has left (`Present`).
A loop runs one thing at a time (`Idle`).  `order`, `start` and `ran` are history variables.

### 2.5 QuoteFeed

`Receive` is `onStringMessage` of a source's connection, with the eviction at its end.
`TakeTick`, `Compare` and `Push` are the body of `dealMessage`'s loop; the worker holds `tickMutex`
from the first to the last, because `tickLock` lives to the end of the body (a comment
at `utils.cc:39` says that it ends there, which it does not).  `mapMutex` is taken only by
that worker and is left out.  `PopResult`, `SendTo` and `SentAll` are `loopSend`, which holds
`resMutex` meanwhile, so that `Push` waits.  `Up`, `Down` and `LogIn` run in the server's loop.

`loopSend` walks through `checkConns_` without `checkMutex_`.  A login at that time has three
outcomes: the new connection is part of the walk, it is not, or the walk goes astray
(`fault`), after which nothing is said about `loopSend`.  A price is named by the position of
its tick in the order of taking; a result is such a position and, for each window,
the position of the price it was compared with.  `taken`, `made` and `start` are history
variables.

### 2.6 DbLayer

A statement is a record: what it does (`"replace"`, `"delete"`, `"select"`, ...), its table and its
condition or row.  `DbStatements` has one definition for each function of `CDBOperation`; an
operation is its first statement, how its result is answered (`answer`) and which second
statement follows (`then`).  Columns that no condition reads are left out of the rows.

| code | action |
|---|---|
| a function up to its ping | `Begin` |
| `CDataBase::Ping` | `Ping` (the session is there or replaced), `PingFails`, `PingFreed` (a handle that a failed `Connect` has closed) |
| `ConnectDB()` | `Connect`, `ConnectFails` |
| `ExecQuery`, `ExecuteSQL`, `mysql_stmt_execute` | `Run`, and its failures `Refused`, `RefusedElse`, `Deadlocked`, `Unprepared`, `PrepareFails`, `ExecGone`, `TimesOut`, `ResultLost` |
| `Start_Transaction`, `Commit`, `Rollback` | actions of these names, `CommandFails`, `CommandTimesOut`, `CommandUnconnected` (no handle, or a freed one: the process dies, or the call fails) |
| `ConnectDB(host, ...)`, `DisConnectDB` | actions of these names; on an open handle `ConnectDB` forgets it without closing it, and `DisConnectDB` closes a freed one again |

The server's part: a statement of a transaction waits in `work` until Commit, TRUNCATE or CREATE; a lost
session loses its `work`; a statement waits (`Blocked`) for the tables another transaction has
written (InnoDB locks rows: a table is what rows without a common index come to); a
statement whose client has timed out stays in `late` and is carried out or dropped
(`RunLate`).  `inTrans` is the library's flag: with MYSQL_OPT_RECONNECT a command on a lost
session gets a new one, unless the flag says that a transaction is open; then it fails and
clears the flag.  `accepted`, `whole`, `warned`, `mine`, `alone` are history variables.  `leaked` is what a session that `ConnectDB` has forgotten has
changed; its locks stay until the server ends it (`LeakEnds`).  `Missing` says which tables a database lacks: the last
scene has no login log, and since `CreateLoginLogTable` names a column for the primary key that the table does not
have (`DBOperation.cpp:109`), it is refused there, and so is every statement on the table.

`accepted` is what the server has carried out in a transaction, not what the program was told of.  The two differ in both directions: a
`_Prepare` operation whose execution fails is told true (`DBOperation.cpp:175-178`), and `UpdCloudOrder` is told
false when its row was stored and its SELECT MAX failed (lines 3904-3917).  `AtomicUnlessBroken`
is about the first; what programs are told, with these exceptions, is part of `DbStore` and so of `ImplementsStore`.

Two assumptions say what the constant `Calls` may be.  `DbLayerAssumption`: operations are of the kinds that
`DbStatements` has (one whose statement writes answers "true" when it is done; a second statement is a query).
`NumbersAssumption`: a table with an AUTO_INCREMENT number is empty at first, its first number is 1, and only
the three functions that choose numbers (`UpdCloudOrder`, `UpdHisCloudOrder`, `UpdTradeCounter`) write its rows.

### 2.7 DelimiterCodec and DelimiterServer

`wire` is what TCP has yet to deliver; `Arrive` delivers any part of it, and `OnMessage` is one
round of `onMessage`'s loop, `Wait` its end.  The delimiter's four bytes are elements of the stream of their own, so
that it can be cut anywhere; a header field, which has a fixed place, is one element.  `dealMessage`
takes a task, `Query` puts a statement on the handle and `Done`, `NotDone`, `Answer`, `SetNames` are its outcomes.
An INSERT that the server refuses, because the text has a quote in it (`mysqlJsonTrans.cc:72`), stores nothing (`Stored`), after the
DELETE has taken the old row away.

What is packed is data, so bodies and texts fall into kinds, which are constants.  A body may be no stream (the text is empty), a
stream without its end (`Cut`), or empty.  For the last two the loop of `server.cc:87-97` never ends: the worker stays
at `"unpack"`, and for a cut body the buffer grows until the process dies.  `gzCompress` gets
twice the length of the text (`server.cc:122`): `Short` texts do not fit and are not answered; of `Tiny` ones even the header does
not fit, and `gzip.cc:27` returns what is left of the input as if it were the size of the result.  `LongName` users
overrun `query[64]` (`mysqlJsonTrans.cc:190-194`), with any outcome.  Not modelled: a text that fills its buffer to the last
byte, which line 98 reads beyond its end.
Two statements on the handle at once are a data race: both workers are `tangled`, and each
statement may then be carried out or not, may get the other's answer, or the process may die (`Dies`).  `Dies` is also
what a lost session does to a SELECT that the server has accepted (lines 204-205).

### 2.8 DeliPool

The constructor is `Init`: any of its attempts to connect may have failed, and a null handle is queued like any
other.  `getOneConnect` is the lock, `Drop` a round of its ping loop, `Take` and `Create` its ends,
`Close` is `close`.  `UseNull` is the ping or the statement on a null handle, after which the process has no
defined step.

## 3. What is checked

Runs that pass:

| run | instance | what it shows |
|---|---|---|
| `pool_safety` | 2 borrowers, 4 connections of which 2 may break, initCount 1, maxCount 2, 13311 states (with symmetry) | `CountAccounting`, `NoSharing`, `IdleOrder`, `HandsOutLive`, `ScanReclaims`; `LendsSafely`: the pool implements `ConnectionLender`; `NullOnlyIfAllLent`: a null pointer is returned only while every working session is lent; `EmptyFrontCause`: the front of an empty queue is taken in two situations only |
| `pool_progress` | 3 borrowers, 3 connections of which 1 may break, initCount = maxCount = 2, 23392 states | `NobodyStranded`: as long as no session breaks no thread waits for ever while all connections lie in the queue; `LendsOn`: while somebody waits and a working connection is queued, connections go on being lent |
| `thread_pool` | 3 tasks, 3 workers, 25897 states | `FirstInFirstOut`, `RunOnce`, `NoLostWakeup`, `QuietAfterStop`, `StopReturns`, `AcceptedRuns`; `ActsAsExecutor`: it implements `Executor` with its fairness |
| `server_rows` | 2 clients, 4 requests for one row, 2 workers, 2 sessions of which 1 may break, 461215 states (with symmetry) | `OneReply`, `AckedIsSeen` |
| `server_keys` | 4 requests for two keys, 2 workers, 1 session that may break, 89814 states | `OwnText`: a get returns a text of its user, side and key as far as the code compares keys; `Handled` |
| `chat` | 2 loops, 2 clients, 3 messages, 52802 states | `SegmentOfOrder`, `EveryoneHears`; `ImplementsRoom` |
| `quote_feed` | 2 sources, 3 ticks of 2 contracts of which one comes twice, maxSize 2, 2 windows, 2 workers, 1 client, 32524 states | `SetIsList`, `ResultsInOrder`, `ComparedInWindow`, `SentSinceLogin`, `NothingStays` |
| `db_layer` | 26 scenarios with 134 operations on 1 or 2 objects, 241476 states | `AtomicUnlessBroken`, `OwnNumber`, `Returns`; `ImplementsStore`: the layer implements `DbStore` |
| `delimiter` | 1 connection with up to 2 of 10 messages, 2 workers, rows from before, 185282 states | `MessagesWhole`, `RowKept`, `GetSeesPut`, `Handled` |

Runs that find a violation, each of what a comment of the code says:

| run | what happens |
|---|---|
| `pool_empty_front` | every queued connection is dead: the ping loop of `getOneConnect` empties the queue and line 211 takes its front |
| `server_null` | a get uses the result of `getOneConnect` without looking whether it is null |
| `db_transaction` | a session breaks between two operations of a transaction: the second one's ping reconnects, its statement is stored at once, and `Commit` returns 0 although the first statement is lost |

Two more configurations pass and are run by hand: `DelimiterThree.cfg` is `delimiter` with up to three messages of four kinds (1031672
states), and `DeliPool.cfg` (3 workers, 5 connections, initCount 2,
maxCount 5, 313 states with symmetry) checks `CountsTwice`, `OneHand`, `SmallerThanMax` and `NotClosed`, which section 4
proves.  Four further configurations each show a property violated by the code, and are run by hand too
(`tlc -config PoolTimeout.cfg MCMysqlPool`):

| configuration | property | what happens |
|---|---|---|
| `PoolScannerFront.cfg` | `ScansOnlyIdle` | more than initCount connections exist and all are borrowed: `mysqlPool.cc:243` takes the front of an empty queue |
| `PoolTimeout.cfg` | `GetReturns` | each notification starts a full timeout anew (line 191); a waiter that finds the queue empty every time never returns |
| `MixedKeys.cfg` (of `MCComServer`) | `OwnKey` | a user name shorter than the key cuts the key (`server.cc:91`): a get returns the text of another key with the same beginning |
| `PoolReplenish.cfg` | `Replenished` | the scanner drops the last connection and wakes nobody (line 236): the producer sleeps on an empty queue |

`TypeOK` of `MysqlPool`, `ThreadPool` and `ChatServer`, `CountBound`, `PooledNotClosed` and `LoopInStep` are parts of the
inductive invariants of section 4 and are proved there; no run repeats them.

Seen while modelling, where no property says more than the line does: `GetHisTrade` with a
period builds a statement MySQL cannot parse (a quote without a partner, `DBOperation.cpp:3073`;
modelled as one that is refused); `GetTradingAccount` answers 0, "no data", also when it fails
(`DBOperation.cpp:3325`), although `DBOperation.h:135` keeps the two apart; the `_Prepare` functions answer `true` whatever the
statement's execution returns (modelled as the answer `"blind"`); `Connect` leaves `m_Data` pointing to the handle it
closed (`MysqlDataBase.cpp:70`); `ExecuteSQL` uses the result of `mysql_store_result` without a test (`MysqlRecordSet.cpp:51`);
`CreateLoginLogTable` cannot create its table (`DBOperation.cpp:109`); an operation on a handle that was never opened dies in the
client library (`MysqlDataBase.cpp:155`).

### 3.1 Bounds, and why they are enough

- *MysqlPool*: initCount 1 and maxCount 2 separate "below initCount", "between" and "full".
  A connection that was closed is gone for good (the code leaks it), so `Conn` bounds how
  many are ever made: with four, the pool is filled, loses connections to the ping loop
  or the scanner, and is filled again.  `MaxIdle = 2` and `Timeout = 1` or 2 are the least
  values for which "not yet" and "just now" differ; all comparisons are with these.
- *ThreadPool*: three workers can be asleep, woken and busy at the same time, and three
  tasks can outnumber the woken workers, which is where a wakeup could be lost.
- *ComServer*: header fields of three and two characters stand for 32 and 4; what
  matters is which of a field's first blank, the other field's and the length
  comes first.  `server_rows` needs two puts and a get of one row for a stale read;
  `server_keys` needs more workers than sessions for a refusal.
- *ChatServer*: two loops and two senders are what it takes for two messages to be queued in
  different orders; the third message lets a client connect between two others.
- *QuoteFeed*: with maxSize 2 the third tick evicts the first.  The two ticks of one contract
  are farther apart than one window and not than the other; as they come in any order and
  one comes again, time also goes backwards.  One client is enough, since what
  is sent to one does not depend on the others: a longer walk only keeps `resMutex`
  longer, and a walk may take any time already.
- *DbLayer*: a scenario is the set of operations that the programs of a behaviour may call, in any
  order and any number of times; there are 4 with transactions, of which one has two
  programs, and 22 without, which between them call every function once at least.  Two accounts and two
  rows of a table tell "the account's rows" from "all rows".  `MaxWork = 2` statements in a transaction are
  what it takes to lose one and keep one; `MaxLate = 1` statement outlives its client at a time; `MaxNumber = 1`
  bounds the numbers given out to two (the last is given at the bound), so that another's
  number can come between.  `Steady = {o2}`: the second program's session meets only deadlocks and lock
  waits; the first one's meets every fault.
- *DelimiterServer*: rows of an earlier run (`OldRows`) stand for puts of before, so that two messages are a put over an old row and a get, or
  two puts; each kind of body and of text is put.  Three messages are `DelimiterThree.cfg`.  The stream is cut at every
  place, also inside the delimiter and after a body that ends in "@".  Two workers
  are what it takes to tangle.  One connection is enough, since connections share only the pool's queue.

Each `Request`, `Task`, `Message`, and each `Tick` from one source, is used at most once; that is the only bound on how
much clients do.  Deadlock is checked in `thread_pool`, where the pool may rest after `stop`; elsewhere the system may really stop: after undefined behaviour, or when
clients have nothing more to say.

### 3.2 Fairness, and why the code justifies it

- *MysqlPool*: the producer and the scanner loop for ever, a thread that waits for
  `_queueLock` gets it, time passes, and a borrower finishes its statement.
  Each is weak fairness.  Nothing is assumed of sessions (they need not break), of callers
  (they need not call) or of processor time (an idle process uses none).
- *ThreadPool*: workers are scheduled and tasks return, and the joining caller goes on.
  `start`, `run` and `stop` need never be called.
- *ComServer*: an idle worker takes the next task, which `ThreadPool` is shown to guarantee, and
  a worker that does not wait goes on.  A call of `getOneConnect` need not end, and no timeout need come (`PoolTimeout.cfg`): all that is
  assumed of the pool is that while connections are to be had some waiting worker gets one, which is what `LendsOn` of `MysqlPool` says.
  `Handled` follows because there are finitely many messages and each worker gives back what it has borrowed.
- *ChatServer*: loops run.  Clients need not do anything.
- *QuoteFeed*: `loopSend` and one of the workers go on.  Both spin, and the locks they wait for are
  released by each other.  As only finitely many ticks come, weak fairness of the two
  workers together is enough; no worker is promised a turn of its own.
- *DbLayer*: an operation's own steps happen (`Step`), by one object's thread.  A wait for a lock ends because
  `Connect` sets MYSQL_OPT_READ_TIMEOUT to one second (`MysqlDataBase.cpp:53`): `TimesOut` is a step, not a
  fault.  Commit and the faults need never happen, and no program need give its lock up.
- *DelimiterServer*: TCP delivers and the loop reads (`Read`), workers run (`Work`), and nothing is assumed of a worker that unpacks a body without an end.  Each worker has its own weak
  fairness: while there is a task, or it has a statement, its next step stays enabled.

## 4. What is proved

For every set of threads, connections, tasks, loops, clients and messages and every
configuration that satisfies the modules' `ASSUME`s:

**MysqlPoolProofs**: `TypeCorrect`, `CountIsExact`, `NoHandleShared`, `PoolBounded`,
`NoUseAfterClose`, `IdleOrderHolds`, `OnlyLiveHandedOut`.  The inductive invariant `IInv` joins
them with `HoldersHold` (a thread has a connection exactly when it is past `getOneConnect`).
None is inductive alone: that `_currentCount` stays a natural number follows from its being
a number of connections; that it stays this number, when the ping loop drops a
prefix, needs that no connection is in two places; that what is dropped is not in
use needs it too; and the bound is the count compared with maxCount at the moment of
creation.  `IdleOrderHolds` has an invariant of its own, `OnlyLiveHandedOut` is an action property that
follows from the step and `IInv`.

`PoolLends` (`Spec => Lender!Spec`, that is `LendsSafely`) and `NullMeansAllLent` need to know where a working
session is.  `Kept` (theorem `KeptHolds`) says it: an open session is queued or in a holder's hands
(`OpenKnown`), and only sessions of `Faulty` die (`OnlyFaultyDie`); its third part, `OneKept`, says that without faults the
last connection is never given up.  The refinement goes action by action.  What the ping loop drops is dead, so
that `getOneConnect` is the lender's `Lend` alone; the deleter is `Return`; producer, scanner and `Break` are
`Sessions`, which may change what is not lent; the lender's bound is `CountAccounting` with
`CountBound`.  `NullMeansAllLent`: whoever gives up has found the queue empty under the lock.
`ScanReclaimsIdle` needs `IdleOrder`: what is behind the first young connection is younger still.
`EmptyFrontExplained` (`EmptyFrontCause`) has no such assumption.  It says when the front of an empty queue is taken: the ping
loop has found nothing but dead connections, or the count (`CountIsExact`) exceeds initCount while nothing is queued, so that all
these connections are lent.  `pool_empty_front` and `PoolScannerFront.cfg` show that both happen.

**ThreadPoolProofs**: `TypeCorrect`, `FifoHolds`, `ExecutedOnce`, `WakeupsSuffice`, `StoppedIsQuiet` and
`PoolIsExecutor` (`Spec => Abstract!Spec`).  The invariant says that `accepted` is `taken`
followed by the queue and has no task twice; that a worker's task was taken; and that nothing
queued was executed.  `WakeupsSuffice` counts: `run` adds one task and, if anybody sleeps,
one woken worker; a woken worker that goes back to sleep found no task; one that takes
a task lowers both sides.  `StoppedIsQuiet` assumes at least one worker: without workers
`run` executes the task in its caller, also after `stop`.

**ChatServerProofs**: `TypeCorrect`, `TotalOrder`, `ServerIsRoom`.  The invariant `QueueIsOrder` says of
every loop that the functors it has run, those queued in it, and the one that the holder of
`mutex_` still owes it, are the order of locking; with `LoopInStep` (all connections of
a loop are at the loop's own position) a step of `DistributeMessage` is a step of the
room in which an audience hears the next message.

**ComServerProofs**: `TypeCorrect`, `AnsweredOnce`, `ReadsAcknowledged`, `GetsOwnText`.  `OneReply` needs to
know that a request is in one place only, queued, with one worker, or done (`TasksApart`), and
that what was answered is done or has just been answered by its worker (`Answered`).  For the two
about rows, `ResultsRight` says that a result that a worker holds or has sent is a version of its row no older
than the one known to be acknowledged when the request came (`AckedBound`); it stays true because a row's history only grows.
`RowsFit` says that a row holds only texts put under that row's key.  From there to the
client's own user, side and beginning of the key is arithmetic on the header: equal rows are equal sequences, and a key that is
cut agrees with the header up to the user name's length (`KeyNameProperties`, `SameRow`), which is all that
`GetsOwnText` claims, for any header.  That the first blank exists, where there is one, is the least-number argument.

**QuoteFeedProofs**: `SetStaysList`, `QueuedInOrder`, `ComparedRightly`, `SentInStep` and `TypeCorrect`.  `SetIsList` is inductive with the type of
`tickList`; the step of an eviction needs that a list without doubles loses its head
from the set of its elements when it loses its front (`TailLosesHead`).  For the order,
`OrderInv` says that a worker has a tick exactly when it holds `tickMutex`, that this tick is the
last one taken, and that the results are one fewer than the ticks while somebody holds
it; so the result that is queued is the one that is due.

`ComparedInWindow` speaks of results; `WindowInv` says why: each window in `queueMap` is a stretch of the positions of its
contract that have been compared, what is missing was too old for some later price, and a shorter window is the end
of a longer one.  `SentSinceLogin`: `resQue` is what is left of all the results (`QueueIsRest`), `loopSend` holds the
last one popped (`SendingIsLast`), and each client is level with it, or one behind if its turn in the walk is still to
come (`InStep`).

**DbLayerProofs**: `TypeCorrect`, `Atomic`, `CommitsWhole`.  The inductive invariant `IInv` says object by
object what `TypeOK` and `AtomicUnlessBroken` say, and that an operation about to connect
(`pc = "connect"`) has no session.  The two are not inductive without this: a `ConnectDB` that fails closes the handle,
and with a live session behind it would take away `work` while `whole` says that nothing broke; the code gets there
only from a ping that failed.  As every action changes one object, each has a lemma that says what
becomes of its object, and `IInvKept` that the others keep what they had.  `CommitsWhole` follows for the step of `Commit`:
what it stores is `ApplyAll(accepted, rows)`.  These three hold for any
objects, operations, scenarios and bounds.

`LayerIsStore` (`ImplementsStore`) maps every action of an object to a step of `DbStore` or to none: a begin is `Ask`, a
statement whose client hears that it was carried out is `Do`, one that fails or is given up is `Fail`, an answer after a second
statement is `Tell`, and so on (`Mapped`).  `OpInv` supplies what
the mapping reads off the state: a first statement is the call's own, a second one only reads, and the words an operation ends
with are those `DbStore` knows.  It needs `DbLayerAssumption`.

`ReadsOwnNumber` (`OwnNumber`) rests on `NumberInv` and `NumbersAssumption`: every number in the table, in a transaction or in
a late statement's row is below the next one to be given; hence a new row has the highest number its session sees, and
still has it when the operation reads the maximum, if nobody else has changed the table and its session is
still the one that stored it.  The steps are sorted by what they do to the rows and to `work` (`Effects`).
`ApplyAll` is a fold over the statements of a transaction; as the induction theorems take an operator, the proofs that need it
unroll it with the least-number theorem (`Steps`): the first statement after which a property fails would be one that breaks it.

**DelimiterProofs**: `MessagesArriveWhole`, `RowsAreKept`, `GetsSeePuts`.  A message is any sequence of the constant `Piece`,
which has the delimiter's four bytes.  `CodecInv` says that the messages got, the
buffer and the wire are together the stream that was sent (each message followed by the delimiter), and that the messages
got end where messages end.  Its one hard step is that the first delimiter of the buffer ends the
message that is due: the delimiter has no part of itself at its beginning and its
end, so none can straddle the end of a message that does not hold it.  `RowInv` says of a put that nobody has
disturbed where it is and what the table then holds for its user: nothing after the delete (`Cleared`), its row and no other after the
insert, or none if that was refused (`Stays`); by `Apart` no other put of its user is under way
meanwhile.  For
gets also `Once`: a message is waiting, in one worker's hands or done with; the answer is `Packed` of the text.

**DeliPoolProofs**: `AlwaysCountsTwice`, `NoHandleTwice`, `NeverFull`, each on `DeliAssumption`.  The count is initCount plus
the number of handles in the queue or in hand; that this number goes down by one when one is
closed needs `OneHand`: the handle is nowhere else.  So creation stops when there are
maxCount - initCount connections, and with the configuration of `server.cc` (14 and 50) the pool never has more than 36.

TLC checked `IInv`, `Kept`, `RowInv`, `Once`, `WindowInv`, `ServeInv`, `OpInv` and `NumberInv` as invariants of
the runs' instances; of `OrderInv` it checked `ResultsInOrder`.

Only model-checked: all liveness (`NobodyStranded`, `LendsOn`, `StopReturns`, `AcceptedRuns`, `Handled`,
`EveryoneHears`, `NothingStays`, `Returns`, the fairness in `ActsAsExecutor`), which the prover does not do; of the refinements of
`Executor`, `ConnectionLender`, `ChatRoom` and `DbStore` the safety part is proved.  What the three violated properties say is false of the code.

## 5. What is left out of the models

`~MysqlPool`, which runs when the process exits; the reading of `mysql.conf`, whose values are
constants; `~MysqlPool` and the statements of `Deli_Pool_Server`, which are `LTS/`'s; the text of SQL statements, escaping and MySQL's comparison of trailing
blanks; the coding of gzip, which `LTS/` stores as is and of which `comServer_Delimiter` uses what 2.7 says; logging; ticks with too few fields
(`utils.cc:54-64`); whether the clauses of a Get and a Del function of `dblayer` that belong together agree, which can be read off `DbStatements`; the
framing of the chat programs' messages by their length; the copying of columns into the fields
of `dblayer`'s records, and its functions `ShutDown` and `ReBoot`, which nothing calls;
`connections_` of `comServer_Delimiter`, which nothing reads; muduo's own code, of which only the order of `queueInLoop` and the
thread a callback runs in are used; an exception thrown by a task, which aborts
the process.

## 6. Plan

Done: `MysqlPool`, `ThreadPool`, `ComServer`, `ChatServer`, `QuoteFeed`, `DbLayer`, `DelimiterCodec`, `DelimiterServer`, `DeliPool`, their abstract
specifications, and the proofs of section 4.  Next, in this order:

1. The timed pool variants (`Deli_time_server`, `press_test_server`): the scanner's manual unlock.
2. The framing of the length-header codec, and the merge of JSON texts by the console client.

Hazards without a property in `PROJECT.json` belong to these modules, unless their note says otherwise.
