----------------------------- MODULE QuoteFeed -----------------------------
(***************************************************************************)
(* The quote client, src/quote_client/quote_client.  Two connections to    *)
(* quote sources, each in a thread of its own, put ticks into tickList     *)
(* (client.cc); two threads take them out and compare each price with the  *)
(* oldest ones of the last minutes (utils.cc, dealMessage); one thread     *)
(* sends the results to the clients that have logged in (server.cc).       *)
(*                                                                         *)
(* tickLock is declared in the body of dealMessage's loop and is held to   *)
(* its end, while prices are compared and the result is queued.  mapMutex  *)
(* is only ever taken by the holder of tickMutex.  A tick is named by its  *)
(* position in the order of taking, since a tick that comes from both      *)
(* sources may be taken twice.                                             *)
(***************************************************************************)
EXTENDS Integers, Sequences

CONSTANTS
  Source,    \* quoteClient objects, client1 and client2
  Tick,      \* the bodies of HQDY messages
  Sends,     \* those that come from each source
  Contract,  \* commodity, contract and exchange of each tick
  Time,      \* its trade time
  Span,      \* the lengths of the windows: 60, 180 and 300 seconds
  MaxSize,   \* maxSize
  Worker,    \* the threads in dealMessage
  Client,    \* connections of the QuoteServer, each accepted at most once
  None

ASSUME QuoteFeedAssumption ==
  /\ MaxSize \in Nat \ {0}
  /\ Span \subseteq Nat
  /\ Sends \in [Source -> SUBSET Tick]
  /\ Time \in [Tick -> Nat]
  /\ DOMAIN Contract = Tick
  /\ None \notin Worker

VARIABLES
  received,   \* the ticks each source has sent
  tickSet, tickList,
  tickMutex,  \* the worker that holds tickMutex
  pos,        \* the position of the tick each worker works on, or 0
  res,        \* res of each worker: a result, or NoResult
  queueMap,   \* the windows of each contract, as positions
  resQue,
  sending,    \* loopSend: the result it is sending, or NoResult
  rest,       \*   and the connections still to come in its loop
  link,       \* the state of each connection: "new", "up" or "down"
  checkConns, \* checkConns_
  out,        \* what has been sent to each client
  taken,      \* history: the ticks in the order of taking
  made,       \* history: the results in the order of resQue.push
  start,      \* history: how many of them had been popped when a client
              \*   became part of the walks
  fault       \* loopSend has gone astray in a set that was being changed

feed == <<received, tickSet, tickList>>
work == <<tickMutex, pos, res, queueMap, taken, made>>
serve == <<sending, rest, link, checkConns, out, start, fault>>
vars == <<feed, work, resQue, serve>>

Position == 1..Len(taken)
NoResult == [n |-> 0, ref |-> [s \in Span |-> 0]]
Result == [n : Nat, ref : [Span -> Nat]]
Listed == {tickList[i] : i \in 1..Len(tickList)}
Popped == Len(made) - Len(resQue)

TypeOK ==
  /\ received \in [Source -> SUBSET Tick]
  /\ tickSet \subseteq Tick /\ tickList \in Seq(Tick)
  /\ tickMutex \in Worker \cup {None}
  /\ taken \in Seq(Tick)
  /\ pos \in [Worker -> Position \cup {0}]
  /\ res \in [Worker -> Result]
  /\ queueMap \in [{Contract[t] : t \in Tick} -> [Span -> Seq(Position)]]
  /\ resQue \in Seq(Result) /\ made \in Seq(Result)
  /\ \A i \in 1..Len(made) :
       made[i] \in [n : Position, ref : [Span -> Position]]
  /\ sending \in Result
  /\ rest \subseteq Client
  /\ link \in [Client -> {"new", "up", "down"}]
  /\ checkConns \subseteq Client
  /\ out \in [Client -> Seq(Result)]
  /\ start \in [Client -> Nat]
  /\ fault \in BOOLEAN

Init ==
  /\ received = [f \in Source |-> {}]
  /\ tickSet = {} /\ tickList = <<>>
  /\ tickMutex = None
  /\ pos = [w \in Worker |-> 0]
  /\ res = [w \in Worker |-> NoResult]
  /\ queueMap = [c \in {Contract[t] : t \in Tick} |-> [s \in Span |-> <<>>]]
  /\ resQue = <<>>
  /\ sending = NoResult /\ rest = {}
  /\ link = [c \in Client |-> "new"]
  /\ checkConns = {}
  /\ out = [c \in Client |-> <<>>]
  /\ taken = <<>> /\ made = <<>>
  /\ start = [c \in Client |-> 0]
  /\ fault = FALSE

-----------------------------------------------------------------------------
(* quoteClient::onStringMessage with an HQDY message: a tick that is not in *)
(* the list is appended; a list that has grown too long loses its front.    *)
MutEvicted(set, list) == set
Evicted(set, list) == set \ {Head(list)}
Receive(f, t) ==
  LET set == tickSet \cup {t}
      list == IF t \in tickSet THEN tickList ELSE Append(tickList, t)
  IN
  /\ tickMutex = None
  /\ t \in Sends[f] \ received[f]
  /\ received' = [received EXCEPT ![f] = @ \cup {t}]
  /\ \/ /\ Len(list) <= MaxSize
        /\ tickSet' = set /\ tickList' = list
     \/ /\ Len(list) > MaxSize
        /\ tickSet' = Evicted(set, list) /\ tickList' = Tail(list)
  /\ UNCHANGED <<work, resQue, serve>>

-----------------------------------------------------------------------------
(* dealMessage: lock tickMutex and take the front of the list ...           *)
MutReleased(w) == None
Locked(w) == w
TakeTick(w) ==
  /\ pos[w] = 0
  /\ tickMutex = None
  /\ tickList # <<>> /\ tickSet # {}
  /\ tickMutex' = Locked(w)
  /\ tickList' = Tail(tickList)
  /\ tickSet' = tickSet \ {Head(tickList)}
  /\ taken' = Append(taken, Head(tickList))
  /\ pos' = [pos EXCEPT ![w] = Len(taken) + 1]
  /\ UNCHANGED <<received, res, queueMap, made, resQue, serve>>

(* ... drop from the front of each window what is too old, add the new      *)
(* price, and compare it with the front ...                                 *)
TooOld(i, n, s) == Time[taken[n]] - Time[taken[i]] > s
Kept(q, n, s) ==
  LET k == CHOOSE k \in 0..Len(q) :
             /\ \A i \in 1..k : TooOld(q[i], n, s)
             /\ k < Len(q) => ~TooOld(q[k + 1], n, s)
  IN SubSeq(q, k + 1, Len(q))
Window(q, n, s) == Append(Kept(q, n, s), n)

MutFrontFirst(q, n, s) == IF q = <<>> THEN n ELSE Head(q)
MutFrontOfKept(q, n, s) ==
  IF Kept(q, n, s) = <<>> THEN 0 ELSE Head(Kept(q, n, s))
Front(q, n, s) == Head(Window(q, n, s))
Compare(w) ==
  LET n == pos[w]
      c == Contract[taken[n]]
  IN
  /\ n # 0
  /\ res[w] = NoResult
  /\ queueMap' = [queueMap EXCEPT ![c] = [s \in Span |-> Window(@[s], n, s)]]
  /\ res' = [res EXCEPT ![w] =
               [n |-> n, ref |-> [s \in Span |-> Front(queueMap[c][s], n, s)]]]
  /\ UNCHANGED <<feed, tickMutex, pos, taken, made, resQue, serve>>

(* ... and queue the result under resMutex, which loopSend holds while it   *)
(* sends.  All locks are released.                                          *)
MutForgotten == tickMutex
Unlocked == None
Push(w) ==
  /\ res[w] # NoResult
  /\ sending = NoResult
  /\ resQue' = Append(resQue, res[w])
  /\ made' = Append(made, res[w])
  /\ res' = [res EXCEPT ![w] = NoResult]
  /\ pos' = [pos EXCEPT ![w] = 0]
  /\ tickMutex' = Unlocked
  /\ UNCHANGED <<feed, queueMap, taken, serve>>

-----------------------------------------------------------------------------
(* QuoteServer::onConnection.  It does not touch checkConns_.               *)
Up(c) ==
  /\ link[c] = "new"
  /\ link' = [link EXCEPT ![c] = "up"]
  /\ UNCHANGED <<feed, work, resQue, sending, rest, checkConns, out, start,
                 fault>>

Down(c) ==
  /\ link[c] = "up"
  /\ link' = [link EXCEPT ![c] = "down"]
  /\ UNCHANGED <<feed, work, resQue, sending, rest, checkConns, out, start,
                 fault>>

(* QuoteServer::onStringMessage with the right LGIN message, in the thread  *)
(* of the server's loop.  loopSend walks through the set without            *)
(* checkMutex_: a connection added meanwhile may be part of the walk, or    *)
(* not, or the walk goes astray in a tree that is being rebalanced; what    *)
(* loopSend does from then on is left out.                                  *)
LogIn(c) ==
  /\ link[c] = "up"
  /\ c \notin checkConns
  /\ checkConns' = checkConns \cup {c}
  /\ \/ /\ start' = [start EXCEPT ![c] = Popped]
        /\ UNCHANGED <<rest, fault>>
     \/ /\ sending # NoResult
        /\ start' = [start EXCEPT ![c] = Popped - 1]
        /\ rest' = rest \cup {c}
        /\ UNCHANGED fault
     \/ /\ sending # NoResult
        /\ fault' = TRUE
        /\ UNCHANGED <<start, rest>>
  /\ UNCHANGED <<feed, work, resQue, sending, link, out>>

(* loopSend: pop a result and send it to one connection after another,      *)
(* those that are down included, whose send does nothing.                   *)
MutAllConnections == {c \in Client : link[c] = "up"}
Addressees == checkConns
PopResult ==
  /\ ~fault
  /\ sending = NoResult
  /\ resQue # <<>>
  /\ sending' = Head(resQue)
  /\ rest' = Addressees
  /\ resQue' = Tail(resQue)
  /\ UNCHANGED <<feed, work, link, checkConns, out, start, fault>>

SendTo(c) ==
  /\ ~fault
  /\ sending # NoResult
  /\ c \in rest
  /\ rest' = rest \ {c}
  /\ out' = [out EXCEPT ![c] =
               IF link[c] = "up" THEN Append(@, sending) ELSE @]
  /\ UNCHANGED <<feed, work, resQue, sending, link, checkConns, start, fault>>

SentAll ==
  /\ ~fault
  /\ sending # NoResult
  /\ rest = {}
  /\ sending' = NoResult
  /\ UNCHANGED <<feed, work, resQue, rest, link, checkConns, out, start, fault>>

-----------------------------------------------------------------------------
DealMessage(w) == TakeTick(w) \/ Compare(w) \/ Push(w)
LoopSend == PopResult \/ SentAll \/ \E c \in Client : SendTo(c)

Next ==
  \/ \E f \in Source, t \in Tick : Receive(f, t)
  \/ \E w \in Worker : DealMessage(w)
  \/ LoopSend
  \/ \E c \in Client : Up(c) \/ Down(c) \/ LogIn(c)

Spec == Init /\ [][Next]_vars

(* The threads spin, and one of the workers gets tickMutex; sources and     *)
(* clients need not do anything.                                            *)
Fairness ==
  /\ WF_vars(\E w \in Worker : DealMessage(w))
  /\ WF_vars(LoopSend)

FairSpec == Spec /\ Fairness

-----------------------------------------------------------------------------
(* Through ticks that come twice, evictions and two takers, tickSet holds   *)
(* what tickList holds, each tick once, and no more than maxSize of them.   *)
SetIsList ==
  /\ tickSet = Listed
  /\ \A i, j \in 1..Len(tickList) : tickList[i] = tickList[j] => i = j
  /\ Len(tickList) <= MaxSize

(* Two threads compute the results, yet they are queued in the order in     *)
(* which the ticks were taken, none is missing and none comes twice.        *)
ResultsInOrder ==
  /\ \A i \in 1..Len(made) : made[i].n = i
  /\ Len(taken) - Len(made) <= 1

(* The price that a price is compared with is one of the same contract and  *)
(* not older than the window; a longer window never gives a newer one.  If  *)
(* the ticks of the contract came in the order of time, it is the oldest in *)
(* the window.                                                              *)
ComparedInWindow ==
  \A i \in 1..Len(made) : \A s \in Span :
    LET n == made[i].n
        r == made[i].ref[s]
        mine == {j \in 1..n : Contract[taken[j]] = Contract[taken[n]]}
    IN /\ r \in mine /\ ~TooOld(r, n, s)
       /\ \A l \in Span : l >= s => made[i].ref[l] <= r
       /\ (\A j, k \in mine : j < k => Time[taken[j]] <= Time[taken[k]]) =>
            \A j \in mine : j < r => TooOld(j, n, s)

(* A client is sent, without gaps, the results popped since it logged in    *)
(* until it went down, and nobody else is sent any.                         *)
SentSinceLogin ==
  \A c \in Client :
    /\ c \notin checkConns => out[c] = <<>>
    /\ \A i \in 1..Len(out[c]) : out[c][i] = made[start[c] + i]
    /\ c \in checkConns /\ link[c] = "up" /\ ~fault =>
         start[c] + Len(out[c]) = Popped - (IF c \in rest THEN 1 ELSE 0)

(* No tick stays in the list and no result in the queue, unless loopSend    *)
(* has gone astray in a set that was being changed.                         *)
NothingStays ==
  /\ \A t \in Tick : t \in tickSet ~> t \notin tickSet \/ fault
  /\ resQue # <<>> ~> resQue = <<>> \/ fault
=============================================================================
