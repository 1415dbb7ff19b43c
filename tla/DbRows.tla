------------------------------- MODULE DbRows -------------------------------
(***************************************************************************)
(* What the database server does with a statement: the part of MySQL that  *)
(* the operations of CDBOperation rely on.  The schema is not in src/:     *)
(* which columns identify a row is a parameter.                            *)
(***************************************************************************)
EXTENDS DbStatements, SequencesExt

CONSTANT KeyColumns   \* the columns of each table's primary key

RowOf(s) == [table |-> s.table, field |-> s.field]
SameKey(r, q) ==
  /\ r.table = q.table
  /\ \A c \in KeyColumns[r.table] : r.field[c] = q.field[c]

RowsIn(t, R) == {r \in R : r.table = t}

Matches(f, s) ==
  /\ \A c \in DOMAIN s.where : f[c] \in s.where[c]
  /\ \A c \in DOMAIN s.unless : f[c] \notin s.unless[c]
Selected(s, R) == {r \in RowsIn(s.table, R) : Matches(r.field, s)}

IsWrite(s) == s.op \in {"replace", "insert", "delete", "truncate"}

(* A statement that ends the session's transaction by committing it.        *)
EndsWork(s) == s.op \in {"truncate", "create"}

(* The rows after s.                                                        *)
Apply(s, R) ==
  CASE s.op = "replace"  -> {r \in R : ~SameKey(r, RowOf(s))} \cup {RowOf(s)}
    [] s.op = "insert"   -> R \cup {RowOf(s)}
    [] s.op = "delete"   -> R \ Selected(s, R)
    [] s.op = "truncate" -> R \ RowsIn(s.table, R)
    [] OTHER             -> R
ApplyAll(q, R) == FoldLeft(LAMBDA r, s : Apply(s, r), R, q)

(* An INSERT whose key is taken is refused, and so is a broken statement.   *)
Refusable(s, R) ==
  \/ s.op = "malformed"
  \/ s.op = "insert" /\ \E r \in R : SameKey(r, RowOf(s))

(* The records a query returns.                                             *)
Top(s, R) ==
  {r \in RowsIn(s.table, R) :
     \A q \in RowsIn(s.table, R) : q.field[s.column] <= r.field[s.column]}
Got(s, R) ==
  CASE s.op = "select" -> {r.field : r \in Selected(s, R)}
    [] s.op = "last"   -> {r.field : r \in Top(s, R)}
    [] s.op = "max"    -> {[c \in {s.column} |-> r.field[c]] : r \in Top(s, R)}
    [] OTHER           -> {}
IsRead(s) == s.op \in {"select", "last", "max"}
Outcome(s, R) == IF IsRead(s) /\ Got(s, R) = {} THEN "none" ELSE "some"

(* AUTO_INCREMENT columns: a row stored with number 0 gets the next one.    *)
NumberColumn ==
  [t \in {CLOUDORDER_TABLE, HISCLOUDORDER_TABLE, TRADECOUNTER_TABLE} |->
     IF t = TRADECOUNTER_TABLE THEN "TradeCounterID" ELSE "CloudOrderID"]
HasNumber(s) == s.op = "replace" /\ s.table \in DOMAIN NumberColumn
NumberOf(s) == s.field[NumberColumn[s.table]]
WithNumber(s, next) ==
  IF HasNumber(s) /\ NumberOf(s) = 0
  THEN [s EXCEPT !.field[NumberColumn[s.table]] = next[s.table]]
  ELSE s
NextAfter(s, next) ==
  IF HasNumber(s) /\ NumberOf(s) >= next[s.table]
  THEN [next EXCEPT ![s.table] = NumberOf(s) + 1]
  ELSE next
=============================================================================
