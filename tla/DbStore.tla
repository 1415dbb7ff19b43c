------------------------------ MODULE DbStore ------------------------------
(***************************************************************************)
(* What the database layer promises to the programs that call it, without  *)
(* connections, pings and handles: a statement of an operation takes       *)
(* effect at most once, at the rows or at the end of the program's         *)
(* transaction; the program is told "true" only after it has, except by    *)
(* the operations that do not look, and nothing else unless a second       *)
(* statement was to follow; what an object has done in a transaction is    *)
(* stored together or lost together.                                       *)
(***************************************************************************)
EXTENDS DbRows, FiniteSets

CONSTANTS Objects, Call, NoCall, Given

VARIABLES
  rows, nextId,
  work,     \* statements done but not stored yet, per object
  late,     \* statements the server may still carry out
  asked,    \* the operation of each object, NoCall if it has none
  done,     \* has that operation's statement taken effect?
  told      \* what each object was last told

vars == <<rows, nextId, work, late, asked, done, told>>

Words == {"", "true", "false", "throw", "-1", "0", "1"}

Init ==
  /\ rows = Given
  /\ nextId = [t \in DOMAIN NumberColumn |-> 1]
  /\ work = [o \in Objects |-> <<>>]
  /\ late = {}
  /\ asked = [o \in Objects |-> NoCall]
  /\ done = [o \in Objects |-> FALSE]
  /\ told = [o \in Objects |-> ""]

Stored(o) == ApplyAll(work[o], rows)
Forget(o) == work' = [work EXCEPT ![o] = <<>>]

(* The operation of o is over and has told w.                               *)
Over(o, w) ==
  /\ asked' = [asked EXCEPT ![o] = NoCall]
  /\ done' = [done EXCEPT ![o] = FALSE]
  /\ told' = [told EXCEPT ![o] = w]

(* A program asks for an operation.                                         *)
Ask(o) ==
  /\ asked[o] = NoCall
  /\ asked'[o] \in Call
  /\ asked' = [asked EXCEPT ![o] = asked'[o]]
  /\ told' = [told EXCEPT ![o] = ""]
  /\ UNCHANGED <<rows, nextId, work, late, done>>

(* Its statement takes effect: on the rows, or kept until the transaction   *)
(* ends.  The program is told now or after a second statement.              *)
Do(o) ==
  LET s == WithNumber(asked[o].stmt, nextId) IN
  /\ asked[o] # NoCall /\ ~done[o]
  /\ \/ /\ ~EndsWork(s)
        /\ work' = IF IsWrite(s) THEN [work EXCEPT ![o] = Append(@, s)] ELSE work
        /\ UNCHANGED rows
     \/ /\ EndsWork(s) \/ work[o] = <<>>
        /\ rows' = Apply(s, Stored(o))
        /\ Forget(o)
  /\ nextId' = NextAfter(s, nextId)
  /\ \/ \E w \in Words : Over(o, w) /\ (IsWrite(s) => w = "true")
     \/ done' = [done EXCEPT ![o] = TRUE] /\ UNCHANGED <<asked, told>>
  /\ UNCHANGED late

(* Its statement has no effect, or none yet, and no program is told that it *)
(* had, except by the operations that do not look.  The object's work may   *)
(* be lost or, by a TRUNCATE that fails, stored.                            *)
Fail(o) ==
  /\ asked[o] # NoCall /\ ~done[o]
  /\ \E w \in Words : Over(o, w) /\ (w = "true" => asked[o].answer = "blind")
  /\ \/ UNCHANGED <<rows, work, late>>
     \/ Forget(o) /\ UNCHANGED <<rows, late>>
     \/ Forget(o) /\ late' = late \cup {asked[o].stmt} /\ UNCHANGED rows
     \/ /\ EndsWork(asked[o].stmt)
        /\ rows' = Stored(o)
        /\ Forget(o)
        /\ UNCHANGED late
  /\ UNCHANGED nextId

(* An operation that was done tells its program.                            *)
Tell(o) ==
  /\ done[o]
  /\ \E w \in Words : Over(o, w)
  /\ UNCHANGED work \/ Forget(o)
  /\ UNCHANGED <<rows, nextId, late>>

(* Between operations all that an object has done is stored, or lost.       *)
Settle(o) ==
  /\ asked[o] = NoCall
  /\ rows' = Stored(o)
  /\ Forget(o)
  /\ \E w \in Words : told' = [told EXCEPT ![o] = w]
  /\ UNCHANGED <<nextId, late, asked, done>>

Lose(o) ==
  /\ Forget(o)
  /\ IF asked[o] = NoCall THEN \E w \in Words : told' = [told EXCEPT ![o] = w]
                          ELSE UNCHANGED told
  /\ UNCHANGED <<rows, nextId, late, asked, done>>

(* A statement that was given up is carried out, once, or dropped.          *)
Late ==
  \E s \in late :
    LET w == WithNumber(s, nextId) IN
    /\ late' = late \ {s}
    /\ \/ rows' = Apply(w, rows) /\ nextId' = NextAfter(w, nextId)
       \/ UNCHANGED <<rows, nextId>>
    /\ UNCHANGED <<work, asked, done, told>>

Next ==
  \/ Late
  \/ \E o \in Objects :
       Ask(o) \/ Do(o) \/ Fail(o) \/ Tell(o) \/ Settle(o) \/ Lose(o)

Spec == Init /\ [][Next]_vars
=============================================================================
