----------------------------- MODULE ComServer -----------------------------
(***************************************************************************)
(* The server of src/log_time_server/log_time_server (server.cc): clients  *)
(* store a text under (user, key, side) with RQUPJ and fetch it with       *)
(* RQDPJ.  IO threads put each message into the thread pool, whose workers *)
(* run dealMessage with a connection borrowed from the MySQL pool.         *)
(*                                                                         *)
(* The two pools appear as what they promise: Executor, which ThreadPool   *)
(* implements, and ConnectionLender, which MysqlPool implements.  main     *)
(* starts the workers before the server and never stops them.              *)
(***************************************************************************)
EXTENDS Integers, Sequences, FiniteSets

CONSTANTS
  Peer,     \* client connections
  Request,  \* messages that arrive, each once
  Msg,      \* the fields of each request
  Blank,    \* the padding character of the header
  Worker,   \* the pool's threads
  Conn,     \* MySQL connections
  Faulty,   \* MySQL connections whose session may break
  Limit,    \* the maximal number of MySQL connections
  None

Kind == {"RQUPJ", "RQDPJ", "HBET", "short", "other"}

(* kind "short" is a message without a complete header; "other" includes    *)
(* RQUPJ with a format other than GZIP.  user and key are the fixed-width   *)
(* header fields, as sequences of characters; full says whether a body      *)
(* follows.                                                                 *)
ASSUME ComServerAssumption ==
  /\ None \notin Request /\ None \notin Conn
  /\ \A r \in Request :
       /\ Msg[r].peer \in Peer
       /\ Msg[r].kind \in Kind
       /\ Msg[r].full \in BOOLEAN
       /\ Msg[r].user \in Seq(STRING) /\ Msg[r].key \in Seq(STRING)
  /\ \A r, q \in Request : Len(Msg[r].key) = Len(Msg[q].key)

VARIABLES
  queue,        \* the thread pool: tasks that no worker has begun,
  current,      \*   the task of each worker,
  done,         \*   the tasks that have returned
  lent,         \* the MySQL pool: the connection each worker has borrowed,
  usable,       \*   the connections with a working session
  step,         \* where in dealMessage each worker is
  res,          \* res or sqlQueryRes in each worker: [ok, text]
  table,        \* per row, history: the requests stored there, the last one
                \*   being the row's content
  link,         \* the state of each TcpConnection
  connections,  \* connections_
  arrived,      \* the requests that have arrived
  replies,      \* what was sent to each peer
  acked,        \* history: per request, how many versions of its row had
                \*   been acknowledged when it arrived
  fault         \* what has ended the process

tcpVars == <<link, connections>>
execVars == <<queue, current, done>>
vars == <<queue, current, done, lent, usable, step, res, table, link,
          connections, arrived, replies, acked, fault>>

Exec == INSTANCE Executor WITH
          Task <- Request, open <- TRUE, dropped <- {}
Pool == INSTANCE ConnectionLender WITH Thread <- Worker

-----------------------------------------------------------------------------
(* buf.find(' '), with the length of buf for npos: substr takes no more.    *)
FirstBlank(buf) ==
  CHOOSE n \in 0..Len(buf) :
    /\ \A i \in 1..n : buf[i] # Blank
    /\ n < Len(buf) => buf[n + 1] = Blank

UserName(r) ==
  LET buf == Msg[r].user IN
  IF FirstBlank(buf) > 0 THEN SubSeq(buf, 1, FirstBlank(buf)) ELSE buf

(* keyBuf.substr(0, userNameBuf.find(' ')): the key is cut to the length of *)
(* the user name.                                                           *)
MutKeyCutShort(r) == SubSeq(Msg[r].key, 1, 1)
KeyName(r) ==
  LET buf == Msg[r].key
      n == FirstBlank(Msg[r].user)
  IN IF FirstBlank(buf) = 0 THEN buf
     ELSE SubSeq(buf, 1, IF n < Len(buf) THEN n ELSE Len(buf))

(* The primary key of the table.                                            *)
Row(r) == <<UserName(r), KeyName(r), Msg[r].side>>
Rows == {Row(r) : r \in Request}

Fail == [ok |-> FALSE, text |-> None]
Success == [ok |-> TRUE, text |-> None]
Result == [ok : BOOLEAN, text : Request \cup {None}]

TypeOK ==
  /\ queue \in Seq(Request)
  /\ current \in [Worker -> Request \cup {None}]
  /\ done \subseteq Request
  /\ lent \in [Worker -> Conn \cup {None}]
  /\ usable \subseteq Conn
  /\ step \in [Worker -> {"begin", "asking", "lent", "queried", "replied"}]
  /\ res \in [Worker -> Result]
  /\ table \in [Rows -> Seq(Request)]
  /\ link \in [Peer -> {"new", "up", "closing", "down"}]
  /\ connections \subseteq Peer
  /\ arrived \subseteq Request
  /\ replies \in [Peer -> Seq([to : Request, res : Result])]
  /\ acked \in [Request -> Nat]
  /\ fault \in {"none", "null pointer", "overrun", "no result"}

Init ==
  /\ queue = <<>>
  /\ current = [w \in Worker |-> None]
  /\ done = {}
  /\ Pool!Init
  /\ step = [w \in Worker |-> "begin"]
  /\ res = [w \in Worker |-> Fail]
  /\ table = [x \in Rows |-> <<>>]
  /\ link = [p \in Peer |-> "new"]
  /\ connections = {}
  /\ arrived = {}
  /\ replies = [p \in Peer |-> <<>>]
  /\ acked = [r \in Request |-> 0]
  /\ fault = "none"

-----------------------------------------------------------------------------
(* onConnection.                                                            *)
Up(p) ==
  /\ link[p] = "new"
  /\ link' = [link EXCEPT ![p] = "up"]
  /\ connections' = connections \cup {p}
  /\ UNCHANGED <<queue, current, done, lent, usable, step, res, table,
                 arrived, replies, acked, fault>>

Down(p) ==
  /\ link[p] \in {"up", "closing"}
  /\ link' = [link EXCEPT ![p] = "down"]
  /\ connections' = connections \ {p}
  /\ UNCHANGED <<queue, current, done, lent, usable, step, res, table,
                 arrived, replies, acked, fault>>

(* How many versions of r's row its clients know to be stored: the position *)
(* of the last one that was acknowledged.                                   *)
AckedVersions(r) ==
  LET known == {i \in 1..Len(table[Row(r)]) :
        \E p \in Peer : \E k \in 1..Len(replies[p]) :
          replies[p][k] = [to |-> table[Row(r)][i], res |-> Success]}
  IN CHOOSE n \in {0} \cup known : \A i \in known : i <= n

(* onStringMessage, in the IO thread of the peer.  A connection on which    *)
(* the server has called shutdown is closed in one direction only.          *)
OnStringMessage(r) ==
  /\ r \notin arrived
  /\ link[Msg[r].peer] \in {"up", "closing"}
  /\ Exec!Submit(r)
  /\ arrived' = arrived \cup {r}
  /\ acked' = [acked EXCEPT ![r] = AckedVersions(r)]
  /\ UNCHANGED <<lent, usable, step, res, table, link, connections, replies, fault>>

-----------------------------------------------------------------------------
(* dealMessage, in worker w.                                                *)
Begin(w) ==
  /\ Exec!Begin(w)
  /\ UNCHANGED <<lent, usable, step, res, table, link, connections,
                 arrived, replies, acked, fault>>

(* A message that needs no database.  Unknown commands end the connection.  *)
Kicked(p) == connections \ {p}
Dismiss(w) ==
  /\ current[w] # None
  /\ step[w] = "begin"
  /\ LET m == Msg[current[w]] IN
     \/ /\ m.kind \in {"short", "HBET"}
        /\ UNCHANGED <<link, connections>>
     \/ /\ m.kind = "other"
        /\ connections' = Kicked(m.peer)
        /\ link' = [link EXCEPT ![m.peer] = IF @ = "up" THEN "closing" ELSE @]
  /\ Exec!End(w)
  /\ UNCHANGED <<lent, usable, step, res, table, arrived, replies, acked, fault>>

(* RQUPJ and RQDPJ call getOneConnect.                                      *)
Ask(w) ==
  /\ current[w] # None
  /\ step[w] = "begin"
  /\ Msg[current[w]].kind \in {"RQUPJ", "RQDPJ"}
  /\ step' = [step EXCEPT ![w] = "asking"]
  /\ UNCHANGED <<queue, current, done, lent, usable, res, table, link,
                 connections, arrived, replies, acked, fault>>

Connect(w) ==
  /\ step[w] = "asking"
  /\ Pool!Lend(w)
  /\ step' = [step EXCEPT ![w] = "lent"]
  /\ UNCHANGED <<queue, current, done, res, table, link, connections,
                 arrived, replies, acked, fault>>

(* getOneConnect times out and returns nullptr: RQUPJ returns without a     *)
(* reply, RQDPJ goes on to use the pointer.                                 *)
Refuse(w) ==
  /\ step[w] = "asking"
  /\ Pool!Refuse(w)
  /\ \/ /\ Msg[current[w]].kind = "RQUPJ"
        /\ step' = [step EXCEPT ![w] = "begin"]
        /\ Exec!End(w)
        /\ UNCHANGED fault
     \/ /\ Msg[current[w]].kind = "RQDPJ"
        /\ fault' = "null pointer"
        /\ UNCHANGED <<queue, current, done, step>>
  /\ UNCHANGED <<res, table, link, connections, arrived, replies, acked>>

(* mysqlInsert: REPLACE INTO the row.  A session that breaks yields "FAIL", *)
(* before or after the server has stored the text.                          *)
Stored(r) == [table EXCEPT ![Row(r)] = Append(@, r)]
Insert(w) ==
  /\ step[w] = "lent"
  /\ Msg[current[w]].kind = "RQUPJ"
  /\ \/ /\ lent[w] \in usable
        /\ table' = Stored(current[w])
        /\ res' = [res EXCEPT ![w] = Success]
     \/ /\ lent[w] \in Faulty
        /\ table' = table \/ table' = Stored(current[w])
        /\ res' = [res EXCEPT ![w] = Fail]
  /\ step' = [step EXCEPT ![w] = "queried"]
  /\ UNCHANGED <<queue, current, done, lent, usable, link, connections,
                 arrived, replies, acked, fault>>

(* mysqlQuery: SELECT content of the row; "FAIL" if there is none.          *)
MutFirstVersion(x) == [ok |-> TRUE, text |-> table[x][1]]
Content(x) == [ok |-> TRUE, text |-> table[x][Len(table[x])]]
Query(w) ==
  /\ step[w] = "lent"
  /\ Msg[current[w]].kind = "RQDPJ"
  /\ LET x == Row(current[w]) IN
     \/ /\ lent[w] \in usable
        /\ res' = [res EXCEPT ![w] = IF table[x] = <<>> THEN Fail ELSE Content(x)]
     \/ /\ lent[w] \in Faulty
        /\ res' = [res EXCEPT ![w] = Fail]
  /\ step' = [step EXCEPT ![w] = "queried"]
  /\ UNCHANGED <<queue, current, done, lent, usable, table, link, connections,
                 arrived, replies, acked, fault>>

(* The statement never fits into query[64]: what stands behind it on the    *)
(* stack is overwritten, and whether the process survives is the build's    *)
(* choice.  When the session breaks after the server has accepted the       *)
(* SELECT, mysql_store_result gives the null pointer that mysql_fetch_row   *)
(* then reads.                                                              *)
QueryDies(w) ==
  /\ step[w] = "lent"
  /\ Msg[current[w]].kind = "RQDPJ"
  /\ \/ fault' = "overrun"
     \/ lent[w] \in usable \cap Faulty /\ fault' = "no result"
  /\ UNCHANGED <<queue, current, done, lent, usable, step, res, table, link,
                 connections, arrived, replies, acked>>

(* sqlQueryRes.size() <= 0: an empty text was stored; no reply.             *)
NothingToSend(w) ==
  /\ Msg[current[w]].kind = "RQDPJ"
  /\ res[w].ok
  /\ ~Msg[res[w].text].full

(* codec_.send, which a TcpConnection ignores unless it is up.              *)
MutReplyUntagged(r, x) == <<[to |-> None, res |-> x]>>
MutReplyTwice(r, x) == <<[to |-> r, res |-> x], [to |-> r, res |-> x]>>
Packet(r, x) == <<[to |-> r, res |-> x]>>
Reply(w) ==
  /\ step[w] = "queried"
  /\ LET r == current[w]
         p == Msg[r].peer
     IN replies' = [replies EXCEPT ![p] =
          IF NothingToSend(w) \/ link[p] # "up" THEN @ ELSE @ \o Packet(r, res[w])]
  /\ step' = [step EXCEPT ![w] = "replied"]
  /\ UNCHANGED <<queue, current, done, lent, usable, res, table, link,
                 connections, arrived, acked, fault>>

(* The end of dealMessage: sqlConn goes back to the pool.                   *)
MutReleaseKeeps(w) ==
  /\ step[w] = "replied"
  /\ Exec!End(w)
  /\ step' = [step EXCEPT ![w] = "begin"]
  /\ res' = [res EXCEPT ![w] = Fail]
  /\ UNCHANGED <<lent, usable, table, link, connections, arrived, replies,
                 acked, fault>>
Release(w) ==
  /\ step[w] = "replied"
  /\ Pool!Return(w)
  /\ Exec!End(w)
  /\ step' = [step EXCEPT ![w] = "begin"]
  /\ res' = [res EXCEPT ![w] = Fail]
  /\ UNCHANGED <<table, link, connections, arrived, replies, acked, fault>>

-----------------------------------------------------------------------------
(* The MySQL server and the pool's own threads change the sessions.         *)
Sessions ==
  /\ Pool!Sessions
  /\ UNCHANGED <<queue, current, done, step, res, table, link, connections,
                 arrived, replies, acked, fault>>

(* What worker w does by itself, without waiting for a connection.          *)
Goes(w) ==
  Dismiss(w) \/ Ask(w) \/ Insert(w) \/ Query(w) \/ QueryDies(w) \/ Reply(w)
    \/ Release(w)

Deal(w) == Goes(w) \/ Connect(w) \/ Refuse(w)

Step ==
  \/ \E p \in Peer : Up(p) \/ Down(p)
  \/ \E r \in Request : OnStringMessage(r)
  \/ \E w \in Worker : Begin(w) \/ Deal(w)
  \/ Sessions

Running == fault = "none"

Next == Running /\ Step

Spec == Init /\ [][Next]_vars

(* An idle worker begins the next task, as Executor promises, and a worker  *)
(* that does not wait goes on.  Of the pool only LendsOn of MysqlPool is    *)
(* assumed: while connections are to be had, somebody gets one.  No call of *)
(* getOneConnect has to end, and none has to time out: each notification    *)
(* restarts the wait.                                                       *)
Fairness ==
  /\ WF_vars(Running /\ \E w \in Worker : Begin(w))
  /\ WF_vars(Running /\ \E w \in Worker : Connect(w))
  /\ \A w \in Worker : WF_vars(Running /\ Goes(w))

FairSpec == Spec /\ Fairness

-----------------------------------------------------------------------------
Sent == UNION {{replies[p][k] : k \in 1..Len(replies[p])} : p \in Peer}

(* A request is answered at most once, and to the connection it came from.  *)
OneReply ==
  /\ \A p \in Peer : \A k \in 1..Len(replies[p]) :
       /\ Msg[replies[p][k].to].peer = p
       /\ \A l \in 1..Len(replies[p]) :
            replies[p][l].to = replies[p][k].to => l = k

(* Workers answer out of order, several connections reach the database, and *)
(* the key is cut where the user name ends (server.cc:91).  Still, a text   *)
(* that a client gets was stored for the same user and side, under a key    *)
(* that agrees with the one asked for as far as the user name is long.      *)
OwnText ==
  \A s \in Sent : s.res.ok /\ s.res.text # None =>
    LET a == Msg[s.to]
        b == Msg[s.res.text]
    IN /\ b.kind = "RQUPJ"
       /\ UserName(s.to) = UserName(s.res.text)
       /\ a.side = b.side
       /\ \A i \in 1..Len(a.key) :
            i <= FirstBlank(a.user) => a.key[i] = b.key[i]

(* What one would expect: the key is the one asked for.  The rows of a user *)
(* whose name is shorter than the keys are mixed up.                        *)
OwnKey ==
  \A s \in Sent : s.res.ok /\ s.res.text # None =>
    Msg[s.to].key = Msg[s.res.text].key

(* Whoever asks after a put of the row was acknowledged, on any connection, *)
(* gets that text or a later one.                                           *)
AckedIsSeen ==
  \A s \in Sent : Msg[s.to].kind = "RQDPJ" /\ s.res.ok =>
    \E i \in 1..Len(table[Row(s.to)]) :
      i >= acked[s.to] /\ table[Row(s.to)][i] = s.res.text

(* "For a get the result of the query is returned directly" (server.cc:144) *)
GetReturnsResult ==
  /\ fault # "null pointer"
  /\ \A r \in done : Msg[r].kind = "RQDPJ" /\ link[Msg[r].peer] = "up" =>
       \E s \in Sent : s.to = r

(* However few connections there are for the workers, every message is      *)
(* dealt with if in the end there always is a session that works, unless    *)
(* the process has died.  A worker returns what it borrowed and does not    *)
(* wait while it holds a connection.                                        *)
Handled ==
  <>[](usable # {}) =>
    \A r \in Request : r \in arrived ~> (r \in done \/ ~Running)
=============================================================================
