------------------------------ MODULE DbLayer ------------------------------
(***************************************************************************)
(* Programs that use the trading database through CDBOperation objects     *)
(* (src/dblayer/src/mysql/DBOperation.cpp, MysqlDataBase.cpp and           *)
(* MysqlRecordSet.cpp), one thread and one MYSQL handle to an object.      *)
(*                                                                         *)
(* An operation pings the server, calls ConnectDB when the ping fails,     *)
(* sends its statement and turns the result into an answer; some send a    *)
(* second statement.  Sessions may be lost at any moment: the client       *)
(* library then reconnects by itself, but refuses once when it knows of an *)
(* open transaction, and a statement that takes longer than the read       *)
(* timeout fails for the client while the server may still carry it out.   *)
(***************************************************************************)
EXTENDS DbRows, FiniteSets

CONSTANTS
  Objects,     \* the CDBOperation objects
  Scenarios,   \* what the programs of a behaviour do:
  Calls,       \* the operations each object calls, in each scenario
  Transacting, \* the scenarios whose programs use transactions
  Missing,     \* the tables the database does not have, in each scenario
  NoCall,
  Given,       \* the rows there are to begin with
  Steady,      \* bound: objects whose sessions meet no faults but deadlocks
  MaxWork,     \* bound: statements of one transaction
  MaxLate,     \* bound: statements a timeout left to the server
  MaxNumber    \* bound: AUTO_INCREMENT numbers given out

(* The calls are operations of DbStatements: one whose statement writes     *)
(* tells "true" when it is done, and the second statement of those that     *)
(* carry it with them is a query.                                           *)
ASSUME DbLayerAssumption ==
  \A x \in Scenarios, o \in Objects : \A c \in Calls[x][o] :
    /\ c # NoCall
    /\ c.answer \in DOMAIN Answer
    /\ c.then \in DOMAIN SecondAnswer \cup {"none"}
    /\ IsWrite(c.stmt) => Answer[c.answer].some = "true"
    /\ c.then \in {"max", "again", "model"} => IsRead(c.next)

(* The operations that store a row under a number.                          *)
StoresNumber(c) ==
  LET f == c.stmt.field IN
  \/ /\ c.stmt.table = CLOUDORDER_TABLE
     /\ "CloudOrderID" \in DOMAIN f /\ f["CloudOrderID"] \in Int
     /\ c = UpdCloudOrder(f)
  \/ /\ c.stmt.table = HISCLOUDORDER_TABLE
     /\ "CloudOrderID" \in DOMAIN f /\ f["CloudOrderID"] \in Int
     /\ c = UpdHisCloudOrder(f)
  \/ /\ c.stmt.table = TRADECOUNTER_TABLE
     /\ "TradeCounterID" \in DOMAIN f /\ f["TradeCounterID"] \in Int
     /\ c = UpdTradeCounter(f)

(* Nothing else writes to their tables, which are empty to begin with: the  *)
(* first number is 1.                                                       *)
ASSUME NumbersAssumption ==
  /\ \A r \in Given : r.table \notin DOMAIN NumberColumn
  /\ \A x \in Scenarios, o \in Objects : \A c \in Calls[x][o] :
       /\ c.stmt.op = "insert" => c.stmt.table \notin DOMAIN NumberColumn
       /\ HasNumber(c.stmt) \/ c.then = "max" => StoresNumber(c)

VARIABLES
  scene,     \* the scenario
  rows,      \* server: committed rows
  nextId,    \* server: next AUTO_INCREMENT numbers
  open,      \* server: has the object's session an explicit transaction?
  work,      \* server: the statements of that transaction, in order
  late,      \* server: statements whose client has given up
  leaked,    \* server: tables with changes of sessions no handle leads to
  handle,    \* m_Data: "none", "open" or "freed"
  link,      \* is the handle's session alive?
  inTrans,   \* the library's flag SERVER_STATUS_IN_TRANS
  pc, call, now, second,   \* the operation in progress
  ret,       \* what the last operation told, and the number it read
  begun, accepted, whole,  \* history: the program's transaction, what the
  warned,                  \*   server has done for it; has anything failed?
  mine, alone              \* history: the number given, undisturbed since?

server == <<rows, nextId, open, work, late, leaked>>
client == <<handle, link, inTrans>>
program == <<pc, call, now, second, ret>>
history == <<begun, accepted, whole, warned, mine, alone>>
vars == <<scene, server, client, program, history>>

Nothing == [op |-> "none", table |-> ""]
Told(r, n) == [told |-> r, number |-> n]

Init ==
  /\ scene \in Scenarios
  /\ rows = Given
  /\ nextId = [t \in DOMAIN NumberColumn |-> 1]
  /\ open = [o \in Objects |-> FALSE]
  /\ work = [o \in Objects |-> <<>>]
  /\ late = {}
  /\ leaked = {}
  /\ handle = [o \in Objects |-> "none"]
  /\ link = [o \in Objects |-> FALSE]
  /\ inTrans = [o \in Objects |-> FALSE]
  /\ pc = [o \in Objects |-> "idle"]
  /\ call = [o \in Objects |-> NoCall]
  /\ now = [o \in Objects |-> Nothing]
  /\ second = [o \in Objects |-> FALSE]
  /\ ret = [o \in Objects |-> Told("", 0)]
  /\ begun = [o \in Objects |-> FALSE]
  /\ accepted = [o \in Objects |-> <<>>]
  /\ whole = [o \in Objects |-> TRUE]
  /\ warned = [o \in Objects |-> FALSE]
  /\ mine = [o \in Objects |-> 0]
  /\ alone = [o \in Objects |-> TRUE]

(***************************************************************************)
(* Sessions.                                                               *)
(***************************************************************************)

(* The server ends o's session and rolls its transaction back.              *)
SessionEnds(o) ==
  /\ open' = [open EXCEPT ![o] = FALSE]
  /\ work' = [work EXCEPT ![o] = <<>>]

(* o's handle gets a new session.                                           *)
NewSession(o) ==
  /\ link' = [link EXCEPT ![o] = TRUE]
  /\ inTrans' = [inTrans EXCEPT ![o] = FALSE]

(* With MYSQL_OPT_RECONNECT a command on a lost session gets a new one,     *)
(* unless the library believes a transaction is open.                       *)
Reaches(o) == handle[o] = "open" /\ (link[o] \/ ~inTrans[o])
Reached(o) ==
  /\ link' = [link EXCEPT ![o] = TRUE]
  /\ UNCHANGED <<handle, inTrans>>

(* The command fails, and the flag with it.                                 *)
Gone(o) ==
  /\ handle[o] = "open"
  /\ ~link[o]
  /\ inTrans' = [inTrans EXCEPT ![o] = FALSE]
  /\ UNCHANGED <<handle, link>>

(* A transaction the program has begun loses a part.                        *)
Breaks(o) == whole' = [whole EXCEPT ![o] = ~begun[o]]

(* A statement or a command of the program's transaction fails.             *)
Warns(o) == warned' = [warned EXCEPT ![o] = begun[o]]

(* The process dies: of a NULL result, of a handle that was freed, or of    *)
(* none at all.                                                             *)
Dies(o) ==
  /\ pc' = [pc EXCEPT ![o] = "crashed"]
  /\ link' = [link EXCEPT ![o] = FALSE]
  /\ SessionEnds(o)
  /\ UNCHANGED <<rows, nextId, late, leaked, handle, inTrans, call, now, second, ret>>
  /\ UNCHANGED <<begun, accepted, mine, alone, warned>>
  /\ Breaks(o)

(* Another session's uncommitted change of the table holds s up: a program's *)
(* that may itself be waiting, or one that nobody ends.                     *)
Changed(o) == {work[o][i].table : i \in DOMAIN work[o]}
Contended(o, s) == IsWrite(s) /\ \E p \in Objects \ {o} : s.table \in Changed(p)
Blocked(o, s) == Contended(o, s) \/ (IsWrite(s) /\ s.table \in leaked)

(* The server does not have s's table, or refuses s for its key or form.    *)
(* CREATE TABLE IF NOT EXISTS has a key over a column it does not define,   *)
(* so that it is refused as well when the table is not there.               *)
Absent(s) == s.table \in Missing[scene]
Unfit(s, R) == Absent(s) \/ Refusable(s, R)

(* Every operation in progress but o's finds the tables T changed.          *)
Undisturbed(p, T) == pc[p] \in {"idle", "crashed"} \/ call[p].stmt.table \notin T
Disturbed(o, T) ==
  alone' = [p \in Objects |-> p = o \/ (alone[p] /\ Undisturbed(p, T))]

(***************************************************************************)
(* An operation.                                                           *)
(***************************************************************************)

(* The operation answers r.                                                 *)
Finish(o, r) ==
  /\ pc' = [pc EXCEPT ![o] = "idle"]
  /\ call' = [call EXCEPT ![o] = NoCall]
  /\ now' = [now EXCEPT ![o] = Nothing]
  /\ second' = [second EXCEPT ![o] = FALSE]
  /\ ret' = [ret EXCEPT ![o] = r]

Goes(o, place) ==
  /\ pc' = [pc EXCEPT ![o] = place]
  /\ UNCHANGED <<call, now, second, ret>>

TellsOf(o) == IF second[o] THEN SecondAnswer[call[o].then] ELSE Answer[call[o].answer]

(* The second statement follows: the largest number without a ping.         *)
GoesOn(o, f) ==
  /\ now' = [now EXCEPT ![o] = Second(call[o], f)]
  /\ second' = [second EXCEPT ![o] = TRUE]
  /\ pc' = [pc EXCEPT ![o] = IF call[o].then = "max" THEN "exec" ELSE "ping"]
  /\ UNCHANGED <<call, ret>>

(* After a statement: fs is what it returned.                               *)
Answered(o, outcome, fs) ==
  IF outcome = "some" /\ ~second[o] /\ call[o].then # "none"
  THEN IF fs = {} THEN GoesOn(o, Nothing) ELSE \E f \in fs : GoesOn(o, f)
  ELSE \E n \in (IF second[o] /\ call[o].then = "max" /\ fs # {}
                 THEN {f[now[o].column] : f \in fs} ELSE {0}) :
         Finish(o, Told(TellsOf(o)[outcome], n))

NeedsNumber(c) == HasNumber(c.stmt) /\ NumberOf(c.stmt) = 0

(* The program calls an operation.                                          *)
Begin(o) ==
  /\ pc[o] = "idle"
  /\ \E c \in Calls[scene][o] :
       /\ IsWrite(c.stmt) => Len(accepted[o]) < MaxWork
       /\ NeedsNumber(c) => nextId[c.stmt.table] <= MaxNumber
       /\ call' = [call EXCEPT ![o] = c]
       /\ now' = [now EXCEPT ![o] = c.stmt]
  /\ pc' = [pc EXCEPT ![o] = "ping"]
  /\ ret' = [ret EXCEPT ![o] = Told("", 0)]
  /\ mine' = [mine EXCEPT ![o] = 0]
  /\ alone' = [alone EXCEPT ![o] = TRUE]
  /\ UNCHANGED <<scene, server, client, second, begun, accepted, whole, warned>>

(* Mutant: a new connection for every operation.                            *)
PingAnew(o) ==
  /\ pc[o] = "ping"
  /\ handle[o] = "open"
  /\ NewSession(o)
  /\ SessionEnds(o)
  /\ Goes(o, "exec")
  /\ UNCHANGED <<scene, rows, nextId, late, leaked, handle, history>>

(* Ping: mysql_ping finds the session alive or gets a new one.              *)
Ping(o) ==
  /\ pc[o] = "ping"
  /\ Reaches(o)
  /\ Reached(o)
  /\ Goes(o, "exec")
  /\ UNCHANGED <<scene, server, history>>

(* Ping returns -1.                                                         *)
PingFails(o) ==
  /\ pc[o] = "ping"
  /\ \/ Gone(o)
     \/ handle[o] = "none" /\ UNCHANGED client
  /\ Goes(o, "connect")
  /\ UNCHANGED <<scene, server, history>>

(* m_Data is not NULL but its handle was freed by a ConnectDB that failed:  *)
(* mysql_ping reads freed memory.                                           *)
PingFreed(o) ==
  /\ pc[o] = "ping"
  /\ handle[o] = "freed"
  /\ \/ Goes(o, "connect") /\ UNCHANGED <<server, client, history>>
     \/ Dies(o)
  /\ UNCHANGED scene

(* Mutant: the new handle is not kept.                                      *)
ConnectForgets(o) ==
  /\ pc[o] = "connect"
  /\ Goes(o, "exec")
  /\ UNCHANGED <<scene, server, client, history>>

(* ConnectDB: a new handle takes the place of the old one.                  *)
Connect(o) ==
  /\ pc[o] = "connect"
  /\ handle' = [handle EXCEPT ![o] = "open"]
  /\ NewSession(o)
  /\ Goes(o, "exec")
  /\ UNCHANGED <<scene, server, history>>

(* ConnectDB closes the new handle, keeps m_Data and throws.                *)
ConnectFails(o) ==
  /\ o \notin Steady
  /\ pc[o] = "connect"
  /\ handle' = [handle EXCEPT ![o] = "freed"]
  /\ link' = [link EXCEPT ![o] = FALSE]
  /\ inTrans' = [inTrans EXCEPT ![o] = FALSE]
  /\ Finish(o, Told(IF second[o] THEN SecondAnswer[call[o].then].failed
                                 ELSE Unconnected[call[o].answer], 0))
  /\ Warns(o)
  /\ UNCHANGED <<scene, server>>
  /\ UNCHANGED <<begun, accepted, whole, mine, alone>>

(***************************************************************************)
(* Its statements: ExecQuery, ExecuteSQL or mysql_stmt_execute.            *)
(***************************************************************************)

View(o) == ApplyAll(work[o], rows)

(* The server has carried s out in a session that is in a transaction.      *)
InWork(o, s) ==
  /\ IF IsWrite(s) THEN /\ work' = [work EXCEPT ![o] = Append(@, s)]
                        /\ alone' = [alone EXCEPT ![o] = TRUE]
                   ELSE UNCHANGED <<work, alone>>
  /\ UNCHANGED <<rows, open>>

(* ... or is not, or is no longer: TRUNCATE and CREATE commit it first.     *)
InRows(o, s) ==
  /\ rows' = Apply(s, View(o))
  /\ SessionEnds(o)
  /\ Disturbed(o, {s.table} \cup Changed(o))

Run(o) ==
  LET s == WithNumber(now[o], nextId) IN
  /\ pc[o] = "exec"
  /\ Reaches(o)
  /\ ~Blocked(o, s)
  /\ ~Unfit(s, View(o))
  /\ IF open[o] /\ ~EndsWork(s)
     THEN InWork(o, s)
     ELSE IF IsRead(s) THEN UNCHANGED <<rows, open, work, alone>> ELSE InRows(o, s)
  /\ link' = [link EXCEPT ![o] = TRUE]
  /\ inTrans' = [inTrans EXCEPT ![o] = open'[o]]
  /\ nextId' = NextAfter(s, nextId)
  /\ mine' = IF HasNumber(s) THEN [mine EXCEPT ![o] = NumberOf(s)] ELSE mine
  /\ accepted' = IF begun[o] /\ IsWrite(s) THEN [accepted EXCEPT ![o] = Append(@, s)]
                                           ELSE accepted
  /\ whole' = IF EndsWork(s) THEN [whole EXCEPT ![o] = ~begun[o]] ELSE whole
  /\ Answered(o, Outcome(s, View(o)), Got(s, View(o)))
  /\ UNCHANGED <<scene, late, leaked, handle, begun, warned>>

(* The server refuses the statement: no such table, its key is taken, it is *)
(* broken, ...                                                              *)
Rejected(o) ==
  /\ pc[o] = "exec"
  /\ Reaches(o)
  /\ Reached(o)
  /\ IF EndsWork(now[o])
     THEN /\ rows' = View(o)
          /\ SessionEnds(o)
          /\ Disturbed(o, Changed(o))
          /\ Breaks(o)
     ELSE UNCHANGED <<rows, open, work, alone, whole>>
  /\ Answered(o, "failed", {})
  /\ Warns(o)
  /\ UNCHANGED <<scene, nextId, late, leaked, begun, accepted, mine>>
Refused(o) ==
  /\ Unfit(WithNumber(now[o], nextId), View(o))
  /\ ~(call[o].answer = "blind" /\ Absent(now[o]))
  /\ Rejected(o)

(* ... for a reason outside the model, ...                                  *)
RefusedElse(o) == o \notin Steady /\ Rejected(o)

(* ... because of a deadlock: it rolls the transaction back.                *)
Deadlocked(o) ==
  /\ pc[o] = "exec"
  /\ link[o] /\ open[o]
  /\ Contended(o, now[o])
  /\ SessionEnds(o)
  /\ Breaks(o)
  /\ Answered(o, "failed", {})
  /\ Warns(o)
  /\ UNCHANGED <<scene, rows, nextId, late, leaked, client, begun, accepted, mine, alone>>

(* mysql_stmt_prepare fails: the table is not there, or for another reason. *)
NotPrepared(o) ==
  /\ pc[o] = "exec"
  /\ call[o].answer = "blind"
  /\ Reaches(o) /\ Reached(o)
  /\ Finish(o, Told("false", 0))
  /\ Warns(o)
  /\ UNCHANGED <<scene, server>>
  /\ UNCHANGED <<begun, accepted, whole, mine, alone>>
Unprepared(o) == Absent(now[o]) /\ NotPrepared(o)
PrepareFails(o) == o \notin Steady /\ NotPrepared(o)

(* The session is gone since the ping.                                      *)
ExecGone(o) ==
  /\ pc[o] = "exec"
  /\ Gone(o)
  /\ Answered(o, "failed", {})
  /\ Warns(o)
  /\ UNCHANGED <<scene, server>>
  /\ UNCHANGED <<begun, accepted, whole, mine, alone>>

(* Mutants: a statement that timed out is tried again; there is no timeout. *)
TimesOutRetries(o) ==
  /\ pc[o] = "exec"
  /\ handle[o] = "open" /\ link[o]
  /\ IsWrite(now[o]) /\ ~open[o]
  /\ Cardinality(late) < MaxLate
  /\ late' = late \cup {now[o]}
  /\ link' = [link EXCEPT ![o] = FALSE]
  /\ Goes(o, "ping")
  /\ UNCHANGED <<scene, rows, nextId, open, work, leaked, handle, inTrans, history>>
TimesOutNever(o) == pc[o] = "none" /\ UNCHANGED vars

(* No answer within the read timeout of Connect.  The library closes the    *)
(* connection; the server may still carry the statement out, and rolls back *)
(* if it was part of a transaction.                                         *)
TimesOut(o) ==
  /\ pc[o] = "exec"
  /\ handle[o] = "open" /\ link[o]
  /\ o \in Steady => Blocked(o, now[o])
  /\ link' = [link EXCEPT ![o] = FALSE]
  /\ SessionEnds(o)
  /\ Breaks(o)
  /\ \/ UNCHANGED late
     \/ /\ IsWrite(now[o]) /\ ~open[o]
        /\ Cardinality(late) < MaxLate
        /\ late' = late \cup {now[o]}
  /\ Answered(o, "failed", {})
  /\ Warns(o)
  /\ UNCHANGED <<scene, rows, nextId, leaked, handle, inTrans, begun, accepted, mine, alone>>

(* The query succeeds but its result does not arrive: mysql_store_result    *)
(* returns NULL and mysql_num_rows is called with it.                       *)
ResultLost(o) ==
  /\ o \notin Steady
  /\ pc[o] = "exec"
  /\ handle[o] = "open" /\ link[o]
  /\ IsRead(now[o])
  /\ Dies(o)
  /\ UNCHANGED scene

(***************************************************************************)
(* Transactions and connections: one command each.                         *)
(***************************************************************************)

Tells(o, r) == ret' = [ret EXCEPT ![o] = Told(r, 0)]

(* The program's transaction starts or is over.                             *)
Begins(o, b) ==
  /\ begun' = [begun EXCEPT ![o] = b]
  /\ accepted' = [accepted EXCEPT ![o] = <<>>]
  /\ whole' = [whole EXCEPT ![o] = TRUE]
  /\ warned' = [warned EXCEPT ![o] = FALSE]

(* The session's work is committed.                                         *)
Commits(o) ==
  /\ rows' = View(o)
  /\ Disturbed(o, Changed(o))

Start_Transaction(o) ==
  /\ scene \in Transacting
  /\ pc[o] = "idle"
  /\ Reaches(o)
  /\ Commits(o)
  /\ open' = [open EXCEPT ![o] = TRUE]
  /\ work' = [work EXCEPT ![o] = <<>>]
  /\ link' = [link EXCEPT ![o] = TRUE]
  /\ inTrans' = [inTrans EXCEPT ![o] = TRUE]
  /\ Tells(o, "0")
  /\ Begins(o, TRUE)
  /\ UNCHANGED <<scene, nextId, late, leaked, handle, pc, call, now, second, mine>>

Commit(o) ==
  /\ pc[o] = "idle"
  /\ Reaches(o)
  /\ Commits(o)
  /\ SessionEnds(o)
  /\ NewSession(o)
  /\ Tells(o, "0")
  /\ Begins(o, FALSE)
  /\ UNCHANGED <<scene, nextId, late, leaked, handle, pc, call, now, second, mine>>

Rollback(o) ==
  /\ pc[o] = "idle"
  /\ Reaches(o)
  /\ SessionEnds(o)
  /\ NewSession(o)
  /\ Tells(o, "0")
  /\ Begins(o, FALSE)
  /\ UNCHANGED <<scene, rows, nextId, late, leaked, handle, pc, call, now, second, mine, alone>>

(* Any of the three returns -1.                                             *)
CommandFails(o) ==
  /\ pc[o] = "idle"
  /\ Gone(o)
  /\ Tells(o, "-1")
  /\ Warns(o)
  /\ UNCHANGED <<scene, server, pc, call, now, second>>
  /\ UNCHANGED <<begun, accepted, whole, mine, alone>>

(* ... also when the answer does not come within the read timeout: the work  *)
(* may be committed all the same, or rolled back with the session.          *)
CommandTimesOut(o) ==
  /\ o \notin Steady
  /\ pc[o] = "idle"
  /\ open[o]
  /\ link' = [link EXCEPT ![o] = FALSE]
  /\ Commits(o) \/ UNCHANGED <<rows, alone>>
  /\ SessionEnds(o)
  /\ Breaks(o)
  /\ Tells(o, "-1")
  /\ Warns(o)
  /\ UNCHANGED <<scene, nextId, late, leaked, handle, inTrans, pc, call, now, second>>
  /\ UNCHANGED <<begun, accepted, mine>>

(* ... or uses a handle that was freed, or NULL, of which the process dies.  *)
CommandUnconnected(o) ==
  /\ pc[o] = "idle"
  /\ \/ /\ handle[o] = "freed"
        /\ Tells(o, "-1")
        /\ Warns(o)
        /\ UNCHANGED <<server, client, pc, call, now, second>>
        /\ UNCHANGED <<begun, accepted, whole, mine, alone>>
     \/ handle[o] # "open" /\ Dies(o)
  /\ UNCHANGED scene

(* ConnectDB(host, ...): the new handle takes the place of the old one,     *)
(* which is not closed.  A session it had lives on with its transaction.    *)
ConnectDB(o) ==
  /\ o \notin Steady
  /\ pc[o] = "idle"
  /\ leaked' = leaked \cup Changed(o)
  /\ SessionEnds(o)
  /\ Begins(o, FALSE)
  /\ \/ /\ handle' = [handle EXCEPT ![o] = "open"]
        /\ NewSession(o)
        /\ Tells(o, "true")
     \/ /\ handle' = [handle EXCEPT ![o] = "freed"]
        /\ link' = [link EXCEPT ![o] = FALSE]
        /\ inTrans' = [inTrans EXCEPT ![o] = FALSE]
        /\ Tells(o, "false")
  /\ UNCHANGED <<scene, rows, nextId, late, pc, call, now, second, mine, alone>>

(* DisConnectDB: the program gives its transaction up.  A handle that was   *)
(* freed is freed again.                                                    *)
DisConnectDB(o) ==
  /\ o \notin Steady
  /\ pc[o] = "idle"
  /\ \/ /\ handle' = [handle EXCEPT ![o] = "none"]
        /\ link' = [link EXCEPT ![o] = FALSE]
        /\ inTrans' = [inTrans EXCEPT ![o] = FALSE]
        /\ SessionEnds(o)
        /\ Begins(o, FALSE)
        /\ Tells(o, "")
        /\ UNCHANGED <<rows, nextId, late, leaked, pc, call, now, second, mine, alone>>
     \/ handle[o] = "freed" /\ Dies(o)
  /\ UNCHANGED scene

(***************************************************************************)
(* The network and the server.                                             *)
(***************************************************************************)

(* o's session is lost: idle for too long, killed, the server restarted.    *)
Break(o) ==
  /\ o \notin Steady
  /\ link[o]
  /\ link' = [link EXCEPT ![o] = FALSE]
  /\ SessionEnds(o)
  /\ Breaks(o)
  /\ UNCHANGED <<scene, rows, nextId, late, leaked, handle, inTrans, program>>
  /\ UNCHANGED <<begun, accepted, mine, alone, warned>>

(* A statement whose client has given up is carried out, or is not.         *)
RunLate ==
  \E s \in late :
    LET w == WithNumber(s, nextId) IN
    /\ late' = late \ {s}
    /\ \/ /\ s.table \notin leaked \cup UNION {Changed(o) : o \in Objects}
          /\ ~Unfit(w, rows)
          /\ rows' = Apply(w, rows)
          /\ nextId' = NextAfter(w, nextId)
          /\ alone' = [p \in Objects |-> alone[p] /\ Undisturbed(p, {s.table})]
       \/ UNCHANGED <<rows, nextId, alone>>
    /\ UNCHANGED <<scene, open, work, leaked, client, program>>
    /\ UNCHANGED <<begun, accepted, whole, mine, warned>>

(* A session that no handle leads to ends with its process, or is closed by *)
(* the server, and its changes are rolled back.                             *)
LeakEnds ==
  /\ \E t \in leaked : leaked' = leaked \ {t}
  /\ UNCHANGED <<scene, rows, nextId, open, work, late, client, program, history>>

(* An operation goes on, or ends, by itself ...                             *)
Step(o) ==
  \/ Ping(o) \/ PingFails(o) \/ PingFreed(o) \/ Connect(o)
  \/ Run(o) \/ Refused(o) \/ Unprepared(o) \/ Deadlocked(o) \/ ExecGone(o) \/ TimesOut(o)

(* ... or by a fault that need not happen.                                  *)
Fault(o) ==
  \/ ConnectFails(o) \/ RefusedElse(o) \/ PrepareFails(o) \/ ResultLost(o) \/ Break(o)

Command(o) ==
  \/ Start_Transaction(o) \/ Commit(o) \/ Rollback(o)
  \/ CommandFails(o) \/ CommandTimesOut(o) \/ CommandUnconnected(o)
  \/ ConnectDB(o) \/ DisConnectDB(o)

Next ==
  \/ RunLate \/ LeakEnds
  \/ \E o \in Objects : Begin(o) \/ Step(o) \/ Command(o) \/ Fault(o)

Spec == Init /\ [][Next]_vars

(* An operation's own steps happen; nothing else need.                      *)
FairSpec == Spec /\ \A o \in Objects : WF_vars(Step(o))

-----------------------------------------------------------------------------
Places == {"idle", "ping", "connect", "exec", "crashed"}

(* The state has the shape the operations expect: an operation in progress  *)
(* has its statement, a session that is lost has no transaction, a freed    *)
(* handle has no session.                                                   *)
TypeOK ==
  /\ pc \in [Objects -> Places]
  /\ handle \in [Objects -> {"none", "open", "freed"}]
  /\ {link, inTrans, open, second, begun, whole, warned, alone} \subseteq [Objects -> BOOLEAN]
  /\ \A o \in Objects :
       /\ pc[o] \in {"ping", "connect", "exec"} => call[o] \in Calls[scene][o]
       /\ pc[o] = "exec" => handle[o] = "open"
       /\ open[o] => link[o]
       /\ link[o] => handle[o] = "open"
       /\ work[o] # <<>> => open[o]

(* What the library and the operations do by themselves never costs a       *)
(* program a part of its transaction: as long as the session is not lost,   *)
(* no deadlock rolls it back and no TRUNCATE ends it, the transaction at    *)
(* the server is made of exactly the statements the server has carried out  *)
(* for the program since Start_Transaction, in their order.  What the       *)
(* program is told of each is ImplementsStore's matter.                     *)
AtomicUnlessBroken ==
  \A o \in Objects :
    begun[o] /\ whole[o] => open[o] /\ work[o] = accepted[o]

(* Every operation behaves as an operation of the plain store of DbStore:   *)
(* whatever pings, reconnections, refusals and timeouts it meets, its       *)
(* statement takes effect at most once, and a program that is told "true"   *)
(* can rely on it, unless the transaction is lost as a whole.               *)
Busy(o) == pc[o] \in {"ping", "connect", "exec"}
AllCalls == UNION {Calls[c][o] : c \in Scenarios, o \in Objects}
Store == INSTANCE DbStore WITH
  Call <- AllCalls,
  asked <- [o \in Objects |-> IF Busy(o) THEN call[o] ELSE NoCall],
  done <- [o \in Objects |-> Busy(o) /\ second[o]],
  told <- [o \in Objects |-> ret[o].told]
ImplementsStore == Store!Spec

(* "3 处理事务" (MysqlDataBase.cpp:13), "主要功能:提交事务", "返回值:0 表示成功   *)
(* -1 表示失败" (MysqlDataBase.cpp:165-166): when Commit returns 0, the rows are *)
(* as the statements leave them that the server has carried out since       *)
(* Start_Transaction, all of them, if nothing has failed in between (and no *)
(* other program changes the rows).                                         *)
CommitsAll ==
  [][\A o \in Objects :
       begun[o] /\ ~warned[o] /\ Commit(o) => ApplyAll(accepted[o], rows') = rows']_vars

(* The number an operation reads back after storing a new cloud order or    *)
(* trade counter is the number of the row it stored, if no other program    *)
(* has changed the table since.                                             *)
OwnNumber ==
  [][\A o \in Objects :
       /\ pc[o] = "exec" /\ second[o] /\ call[o].then = "max" /\ alone[o]
       /\ ret'[o].told = "true"
       => ret'[o].number = mine[o]]_vars

(* An operation returns, whatever other programs hold locked.               *)
Returns ==
  \A o \in Objects :
    pc[o] \in {"ping", "connect", "exec"} ~> pc[o] \in {"idle", "crashed"}
=============================================================================
