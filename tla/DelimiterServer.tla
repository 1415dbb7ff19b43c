-------------------------- MODULE DelimiterServer --------------------------
(***************************************************************************)
(* The comServer of src/comServer_Delimiter: messages framed by            *)
(* DelimiterCodec are handed to a thread pool (see Executor), whose        *)
(* workers carry them out with MysqlTrans on one MYSQL handle.             *)
(*                                                                         *)
(* "RQUPJ" stores a user's text: it unpacks the body, deletes the user's   *)
(* rows, resets AUTO_INCREMENT and inserts a row.  "RQDPJ" selects the     *)
(* text and packs it.  Nothing locks the handle, and nothing connects it   *)
(* again.  Two statements on it at once are a data race: each may be       *)
(* carried out or not, may be given an answer that is not its own, and the *)
(* process may die of it.                                                  *)
(***************************************************************************)
EXTENDS DelimiterCodec, FiniteSets

CONSTANTS
  Worker,   \* the threads of the pool
  User,
  Cut,      \* bodies: gzip streams without their end
  NotGzip,  \* bodies: no gzip streams
  Quoted,   \* texts the server takes in no INSERT: they hold a quote
  Tiny, Short, \* texts too short for gzCompress: 1 to 4 characters, some more
  OldRows,  \* what an earlier run of the server has left in the table
  LongName, \* users whose name, of 13 characters or more, overruns query[64]
  None

ASSUME DataAssumption ==
  /\ Cut \cup NotGzip \cup Quoted \cup Tiny \cup Short \subseteq Seq(Piece)
  /\ LongName \subseteq User

VARIABLES
  queue,    \* the pool's tasks: <<connection, number of the message>>
  pc, task, \* what each worker does, and for which message
  table,    \* the database table: rows [user, text, by]
  link,     \* is the MYSQL handle connected?
  using,    \* the workers with a statement on the handle
  tangled,  \* those whose statement met another one there
  replies,  \* what each connection was sent
  alive,    \* has the process survived?
  alone,    \* history: has a worker's put met no other and no failure?
  kept      \* history: the put that each user's row must come from

pool == <<queue, pc, task>>
database == <<table, link, using, tangled>>
vars == <<codecVars, pool, database, replies, alive, alone, kept>>

(* A message, its header and its body.  A put must have the format "GZIP";  *)
(* with another one it is none of the commands here.                        *)
headerLen == 2
Message(t) == got[t[1]][t[2]]
Cmd(t) == IF Len(Message(t)) < headerLen THEN "" ELSE Message(t)[1]
UserName(t) == Message(t)[2]
Body(t) == SubSeq(Message(t), headerLen + 1, Len(Message(t)))
RowsOf(u) == {r \in table : r.user = u}

(***************************************************************************)
(* gzDecompress and gzCompress.  A body stands for the text it is the      *)
(* stream of; one that is no stream gives no text.  Of a stream without    *)
(* its end inflate asks, whatever the buffer, for a larger one: the loop   *)
(* doubles it until there is no memory.  For an empty body it doubles 0.   *)
(*                                                                         *)
(* A text is packed into twice its length.  If that is less than gzip's    *)
(* header, the number of characters left over passes for the length of the *)
(* result, and the reply is a piece of the header; if it only is too       *)
(* little, that is an error, and there is no reply.                        *)
(***************************************************************************)
Endless(b) == b = <<>> \/ b \in Cut
Text(b) == IF b \in NotGzip THEN <<>> ELSE b
Failure == <<"FAIL">>
Rubbish == <<"header">>
Packed(x) ==
  CASE x = Failure -> {x}
    [] x = <<>> \/ x \in Short -> {}
    [] x \in Tiny -> {Rubbish}
    [] OTHER -> {x}

Init ==
  /\ CodecInit
  /\ queue = <<>>
  /\ pc = [w \in Worker |-> "take"]
  /\ task = [w \in Worker |-> None]
  /\ table = OldRows
  /\ link = TRUE
  /\ using = {}
  /\ tangled = {}
  /\ replies = [c \in Conn |-> {}]
  /\ alive = TRUE
  /\ alone = [w \in Worker |-> FALSE]
  /\ kept = [u \in User |-> None]

(* The clients and the network.                                             *)
Client(c) ==
  /\ alive
  /\ Send(c)
  /\ UNCHANGED <<pool, database, replies, alive, alone, kept>>
Receive(c) ==
  /\ alive
  /\ Arrive(c)
  /\ UNCHANGED <<pool, database, replies, alive, alone, kept>>

(* The loop thread.  Each message is passed on to onStringMessage, which    *)
(* queues dealMessage.                                                      *)
onStringMessage(c) ==
  /\ alive
  /\ OnMessage(c)
  /\ queue' = Append(queue, <<c, Len(got'[c])>>)
  /\ UNCHANGED <<pc, task, database, replies, alive, alone, kept>>
Rest(c) ==
  /\ alive
  /\ Wait(c)
  /\ UNCHANGED <<pool, database, replies, alive, alone, kept>>

(***************************************************************************)
(* dealMessage: the statements of a put and of a get.                      *)
(***************************************************************************)
Put == {"delete", "alter", "names", "insert"}
Get == {"get names", "select"}
After == [p \in Put \cup Get |->
  CASE p = "delete" -> "alter" [] p = "alter" -> "names" [] p = "names" -> "insert"
    [] p = "get names" -> "select" [] OTHER -> "take"]

(* A put of u begins: it is alone if no other is under way.                 *)
BeginPut(w, u) ==
  LET others == {v \in Worker : pc[v] \in Put /\ UserName(task[v]) = u} IN
  /\ alone' = [v \in Worker |-> IF v = w THEN others = {} ELSE alone[v] /\ v \notin others]
  /\ kept' = [kept EXCEPT ![u] = None]

(* A worker takes a task.  It does not come out of an endless loop; a       *)
(* message that is too short, or has another command, is dropped.           *)
Take(w, first) ==
  LET t == Head(queue) IN
  /\ alive
  /\ pc[w] = "take"
  /\ queue # <<>>
  /\ queue' = Tail(queue)
  /\ CASE Cmd(t) = "RQUPJ" /\ Endless(Body(t)) ->
            /\ pc' = [pc EXCEPT ![w] = "unpack"]
            /\ task' = [task EXCEPT ![w] = t]
            /\ UNCHANGED <<alone, kept>>
       [] Cmd(t) = "RQUPJ" /\ ~Endless(Body(t)) ->
            /\ pc' = [pc EXCEPT ![w] = first]
            /\ task' = [task EXCEPT ![w] = t]
            /\ BeginPut(w, UserName(t))
       [] Cmd(t) = "RQDPJ" ->
            /\ pc' = [pc EXCEPT ![w] = "get names"]
            /\ task' = [task EXCEPT ![w] = t]
            /\ UNCHANGED <<alone, kept>>
       [] OTHER -> UNCHANGED <<pc, task, alone, kept>>
  /\ UNCHANGED <<codecVars, database, replies, alive>>
dealMessageAdds(w) == Take(w, "alter")   \* mutant: a put deletes nothing
dealMessage(w) == Take(w, "delete")

(* A statement goes out on the handle.                                      *)
Query(w) ==
  /\ alive
  /\ pc[w] \in Put \cup Get /\ w \notin using
  /\ using' = using \cup {w}
  /\ tangled' = IF using = {} THEN tangled ELSE tangled \cup using \cup {w}
  /\ UNCHANGED <<codecVars, pool, table, link, replies, alive, alone, kept>>

(* The worker goes on after it; the last one ends the task.                 *)
Goes(w) ==
  /\ using' = using \ {w}
  /\ tangled' = tangled \ {w}
  /\ pc' = [pc EXCEPT ![w] = After[@]]
  /\ task' = IF After[pc[w]] = "take" THEN [task EXCEPT ![w] = None] ELSE task
  /\ UNCHANGED <<codecVars, queue>>

(* A put's statement is carried out, or the server refuses its INSERT after  *)
(* the user's rows are gone; what w stored is kept if nothing came between. *)
Row(t) == [user |-> UserName(t), text |-> Text(Body(t)), by |-> t]
Stored(t) == IF Text(Body(t)) \in Quoted THEN {} ELSE {Row(t)}
Done(w) ==
  /\ alive /\ w \in using /\ pc[w] \in Put
  /\ link \/ w \in tangled
  /\ table' = CASE pc[w] = "delete" -> table \ RowsOf(UserName(task[w]))
                [] pc[w] = "insert" -> table \cup Stored(task[w])
                [] OTHER -> table
  /\ alone' = [alone EXCEPT ![w] = @ /\ w \notin tangled]
  /\ kept' = IF pc[w] = "insert" /\ alone'[w]
             THEN [kept EXCEPT ![UserName(task[w])] = task[w]] ELSE kept
  /\ Goes(w)
  /\ UNCHANGED <<link, replies, alive>>

(* ... or it is not: the result is not looked at.                           *)
NotDone(w) ==
  /\ alive /\ w \in using /\ pc[w] \in Put
  /\ ~link \/ w \in tangled
  /\ alone' = [alone EXCEPT ![w] = FALSE]
  /\ Goes(w)
  /\ UNCHANGED <<table, link, replies, alive, kept>>

(* What a query gives: the text of a row, "FAIL" if there is none.          *)
Texts(R) == IF R = {} THEN {Failure} ELSE {r.text : r \in R}

(* An empty text, like a query that failed, is not answered.                *)
Reply(w, text) ==
  replies' = [replies EXCEPT ![task[w][1]] =
                @ \cup {[to |-> task[w], text |-> x] : x \in Packed(text)}]
Spoilt(w) == w \in tangled \/ UserName(task[w]) \in LongName
AnswerAny(w) ==   \* mutant: the query names no user
  /\ alive /\ w \in using /\ pc[w] = "select"
  /\ \E x \in Texts(table) : Reply(w, x)
  /\ Goes(w)
  /\ UNCHANGED <<table, link, alive, alone, kept>>
Answer(w) ==
  /\ alive /\ w \in using /\ pc[w] = "select"
  /\ \/ /\ link /\ ~Spoilt(w)
        /\ \E x \in Texts(RowsOf(UserName(task[w]))) : Reply(w, x)
     \/ /\ Spoilt(w)
        /\ \E R \in {{}, RowsOf(UserName(task[w])), table} :
             \E x \in Texts(R) \cup {<<>>} : Reply(w, x)
     \/ ~link /\ UNCHANGED replies
  /\ Goes(w)
  /\ UNCHANGED <<table, link, alive, alone, kept>>
SetNames(w) ==
  /\ alive /\ w \in using /\ pc[w] = "get names"
  /\ Goes(w)
  /\ UNCHANGED <<table, link, replies, alive, alone, kept>>

(* The process dies: of the data race, of the buffer that cannot grow, of    *)
(* the overrun, or of a link that breaks after the query was sent, when      *)
(* mysql_store_result gives NULL.                                           *)
Dies ==
  /\ alive
  /\ \/ tangled # {}
     \/ \E w \in Worker : pc[w] = "unpack" /\ Body(task[w]) # <<>>
     \/ \E w \in using : pc[w] = "select" /\ (~link \/ Spoilt(w))
  /\ alive' = FALSE
  /\ UNCHANGED <<codecVars, pool, database, replies, alone, kept>>

(* The database server closes the connection.                               *)
Break ==
  /\ alive /\ link
  /\ link' = FALSE
  /\ alone' = [w \in Worker |-> FALSE]
  /\ UNCHANGED <<codecVars, pool, table, using, tangled, replies, alive, kept>>

Work(w) == dealMessage(w) \/ Query(w) \/ Done(w) \/ NotDone(w) \/ Answer(w) \/ SetNames(w)
Read(c) == Receive(c) \/ onStringMessage(c) \/ Rest(c)

Next ==
  \/ \E c \in Conn : Client(c) \/ Read(c)
  \/ \E w \in Worker : Work(w)
  \/ Dies \/ Break

Spec == Init /\ [][Next]_vars

(* TCP delivers, the loop and the workers run; clients need not send.       *)
FairSpec ==
  /\ Spec
  /\ \A c \in Conn : WF_vars(Read(c))
  /\ \A w \in Worker : WF_vars(Work(w))

-----------------------------------------------------------------------------
(* A put that met no other put of its user, no other worker on the handle   *)
(* and no failure of the link leaves one row of the user, its own, and the  *)
(* row stays until the next put begins: no text is lost and none is left    *)
(* behind.  If its INSERT is refused, it leaves none: what was there before *)
(* is gone.                                                                 *)
RowKept ==
  \A u \in User : kept[u] # None => RowsOf(u) = Stored(kept[u])

(* A get that has the handle to itself while such a put holds is answered   *)
(* with what gzCompress makes of the text that was put, or with "FAIL" if   *)
(* the text was refused: never with an older text or another user's.  (A    *)
(* name that overruns query[64] has an answer of its own only by chance.)   *)
GetSeesPut ==
  [][\A w \in Worker :
       LET u == UserName(task[w])
           new == (UNION {replies'[c] : c \in Conn}) \ (UNION {replies[c] : c \in Conn}) IN
       Answer(w) /\ link /\ ~Spoilt(w) /\ u \in User /\ kept[u] # None =>
         {r.text : r \in new} = UNION {Packed(x) : x \in Texts(Stored(kept[u]))}]_vars

(* Every message is dealt with, wherever TCP cuts the stream: none stays in *)
(* a buffer, in the queue or on the handle, unless the process has died or  *)
(* every worker is in the loop that unpacks a body with no end to it.  Such *)
(* a body takes a worker for good and stops no other message as long as one *)
(* worker is left.                                                          *)
Stuck(w) == pc[w] = "unpack"
Pending(c) ==
  \/ Len(got[c]) < Len(sent[c])
  \/ \E i \in DOMAIN queue : queue[i][1] = c
  \/ \E w \in Worker : ~Stuck(w) /\ task[w] # None /\ task[w][1] = c
Handled ==
  \A c \in Conn :
    Pending(c) ~> ~Pending(c) \/ ~alive \/ \A w \in Worker : Stuck(w)
=============================================================================
