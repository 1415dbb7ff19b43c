-------------------------- MODULE QuoteFeedProofs --------------------------
(***************************************************************************)
(* Proofs about QuoteFeed, for any number of sources, ticks, workers and   *)
(* clients, any maxSize and any windows: tickSet and tickList stay in      *)
(* step, the results are queued in the order in which the ticks were       *)
(* taken, each price is compared with the right one, and every client is   *)
(* sent all results from its login on.                                     *)
(***************************************************************************)
EXTENDS QuoteFeed, SequenceTheorems, WellFoundedInduction, TLAPS

Elems(s) == {s[i] : i \in 1..Len(s)}
NoDoubles(s) == \A i, j \in 1..Len(s) : s[i] = s[j] => i = j

(* The front of a list without doubles leaves: it was there only once.      *)
LEMMA TailLosesHead ==
  ASSUME NEW s \in Seq(Tick), s # <<>>, NoDoubles(s)
  PROVE  /\ Tail(s) \in Seq(Tick)
         /\ Len(Tail(s)) = Len(s) - 1
         /\ NoDoubles(Tail(s))
         /\ Elems(Tail(s)) = Elems(s) \ {Head(s)}
<1>1. /\ Tail(s) \in Seq(Tick) /\ Len(s) \in Nat \ {0}
      /\ Len(Tail(s)) = Len(s) - 1 /\ Head(s) = s[1]
  OBVIOUS
<1>2. \A i \in 1..Len(Tail(s)) : i + 1 \in 1..Len(s) /\ Tail(s)[i] = s[i + 1]
  BY <1>1
<1>3. NoDoubles(Tail(s))
  <2> SUFFICES ASSUME NEW i \in 1..Len(Tail(s)), NEW j \in 1..Len(Tail(s)),
                      Tail(s)[i] = Tail(s)[j]
               PROVE  i = j
    BY DEF NoDoubles
  <2>1. s[i + 1] = s[j + 1] /\ i + 1 \in 1..Len(s) /\ j + 1 \in 1..Len(s)
    BY <1>2
  <2>2. i + 1 = j + 1
    BY <2>1 DEF NoDoubles
  <2> QED BY <2>2, <1>1
<1>4. ASSUME NEW x \in Elems(Tail(s)) PROVE x \in Elems(s) \ {Head(s)}
  <2>1. PICK i \in 1..Len(Tail(s)) : x = Tail(s)[i]
    BY DEF Elems
  <2>2. x = s[i + 1] /\ i + 1 \in 1..Len(s) /\ i + 1 # 1
    BY <2>1, <1>1, <1>2
  <2>3. 1 \in 1..Len(s)
    BY <1>1
  <2>4. x # s[1]
    BY <2>2, <2>3 DEF NoDoubles
  <2> QED BY <2>2, <2>4, <1>1 DEF Elems
<1>5. ASSUME NEW x \in Elems(s), x # Head(s) PROVE x \in Elems(Tail(s))
  <2>1. PICK i \in 1..Len(s) : x = s[i]
    BY DEF Elems
  <2>2. i - 1 \in 1..Len(Tail(s))
    BY <2>1, <1>1, <1>5
  <2>3. Tail(s)[i - 1] = x
    BY <2>1, <2>2, <1>2
  <2> QED BY <2>2, <2>3 DEF Elems
<1> QED BY <1>1, <1>3, <1>4, <1>5

(* A tick that is not in the list is added at its back.                     *)
LEMMA AppendAddsOne ==
  ASSUME NEW s \in Seq(Tick), NEW t \in Tick, t \notin Elems(s), NoDoubles(s)
  PROVE  /\ Append(s, t) \in Seq(Tick)
         /\ Append(s, t) # <<>>
         /\ Len(Append(s, t)) = Len(s) + 1
         /\ NoDoubles(Append(s, t))
         /\ Elems(Append(s, t)) = Elems(s) \cup {t}
<1> DEFINE a == Append(s, t)
<1>1. /\ a \in Seq(Tick) /\ Len(s) \in Nat /\ Len(a) = Len(s) + 1
      /\ \A i \in 1..Len(s) : a[i] = s[i]
      /\ a[Len(s) + 1] = t
  OBVIOUS
<1>2. a # <<>>
  BY <1>1
<1> HIDE DEF a
<1>3. \A i \in 1..Len(s) : s[i] # t
  BY DEF Elems
<1>4. NoDoubles(a)
  <2> SUFFICES ASSUME NEW i \in 1..Len(a), NEW j \in 1..Len(a), a[i] = a[j]
               PROVE  i = j
    BY DEF NoDoubles
  <2>1. CASE i \in 1..Len(s) /\ j \in 1..Len(s)
    BY <2>1, <1>1 DEF NoDoubles
  <2>2. CASE i \notin 1..Len(s) \/ j \notin 1..Len(s)
    <3>1. i = Len(s) + 1 \/ j = Len(s) + 1
      BY <2>2, <1>1
    <3> QED BY <3>1, <1>1, <1>3
  <2> QED BY <2>1, <2>2
<1>5. Elems(a) = Elems(s) \cup {t}
  <2>1. ASSUME NEW x \in Elems(a) PROVE x \in Elems(s) \cup {t}
    <3>1. PICK i \in 1..Len(a) : x = a[i]
      BY DEF Elems
    <3>2. i \in 1..Len(s) \/ i = Len(s) + 1
      BY <1>1
    <3> QED BY <3>1, <3>2, <1>1 DEF Elems
  <2>2. ASSUME NEW x \in Elems(s) PROVE x \in Elems(a)
    <3>1. PICK i \in 1..Len(s) : x = s[i]
      BY DEF Elems
    <3>2. i \in 1..Len(a) /\ a[i] = x
      BY <3>1, <1>1
    <3> QED BY <3>2 DEF Elems
  <2>3. Len(s) + 1 \in 1..Len(a)
    BY <1>1
  <2>4. t \in Elems(a)
    BY <2>3, <1>1 DEF Elems
  <2> QED BY <2>1, <2>2, <2>4
<1> QED BY <1>1, <1>2, <1>4, <1>5 DEF a

-----------------------------------------------------------------------------
(* The list holds ticks, and SetIsList.                                     *)
ListInv ==
  /\ tickList \in Seq(Tick)
  /\ tickSet = Elems(tickList)
  /\ NoDoubles(tickList)
  /\ Len(tickList) <= MaxSize

LEMMA ListInvInit == Init => ListInv
BY QuoteFeedAssumption DEF Init, ListInv, Elems, NoDoubles

(* onStringMessage of a source, with its eviction.                          *)
LEMMA ReceiveKeepsList ==
  ASSUME ListInv, NEW f \in Source, NEW t \in Tick, Receive(f, t)
  PROVE  ListInv'
<1> DEFINE set == tickSet \cup {t}
           list == IF t \in tickSet THEN tickList ELSE Append(tickList, t)
<1>1. /\ list \in Seq(Tick) /\ set = Elems(list) /\ NoDoubles(list)
      /\ Len(list) <= MaxSize + 1
  <2>1. CASE t \in tickSet
    BY <2>1, QuoteFeedAssumption DEF ListInv
  <2>2. CASE t \notin tickSet
    <3>1. list = Append(tickList, t) /\ Len(tickList) <= MaxSize
          /\ Len(tickList) \in Nat
      BY <2>2 DEF ListInv
    <3>2. /\ list \in Seq(Tick) /\ set = Elems(list) /\ NoDoubles(list)
          /\ Len(list) = Len(tickList) + 1
      BY <2>2, <3>1, AppendAddsOne DEF ListInv
    <3> QED BY <3>1, <3>2, QuoteFeedAssumption
  <2> QED BY <2>1, <2>2
<1>2. \/ /\ Len(list) <= MaxSize
         /\ tickSet' = set /\ tickList' = list
      \/ /\ Len(list) > MaxSize
         /\ tickSet' = set \ {Head(list)} /\ tickList' = Tail(list)
  BY DEF Receive, Evicted
<1> HIDE DEF set, list
<1>3. CASE Len(list) <= MaxSize /\ tickSet' = set /\ tickList' = list
  BY <1>1, <1>3 DEF ListInv
<1>4. CASE Len(list) > MaxSize /\ tickSet' = set \ {Head(list)}
           /\ tickList' = Tail(list)
  <2>1. list # <<>> /\ Len(list) \in Nat
    BY <1>1, <1>4, QuoteFeedAssumption
  <2>2. /\ Tail(list) \in Seq(Tick) /\ NoDoubles(Tail(list))
        /\ Len(Tail(list)) = Len(list) - 1
        /\ Elems(Tail(list)) = set \ {Head(list)}
    BY <1>1, <2>1, TailLosesHead
  <2>3. Len(Tail(list)) <= MaxSize
    BY <1>1, <2>1, <2>2, QuoteFeedAssumption
  <2> QED BY <1>4, <2>2, <2>3 DEF ListInv
<1> QED BY <1>2, <1>3, <1>4

(* dealMessage takes the front.                                             *)
LEMMA TakeKeepsList ==
  ASSUME ListInv, NEW w \in Worker, TakeTick(w)
  PROVE  ListInv'
<1>1. /\ tickList # <<>> /\ tickList' = Tail(tickList)
      /\ tickSet' = tickSet \ {Head(tickList)}
  BY DEF TakeTick
<1>2. /\ Tail(tickList) \in Seq(Tick) /\ NoDoubles(Tail(tickList))
      /\ Len(Tail(tickList)) = Len(tickList) - 1
      /\ Elems(Tail(tickList)) = tickSet \ {Head(tickList)}
  BY <1>1, TailLosesHead DEF ListInv
<1>3. Len(Tail(tickList)) <= MaxSize
  BY <1>2, QuoteFeedAssumption DEF ListInv
<1> QED BY <1>1, <1>2, <1>3 DEF ListInv

LEMMA ListInvStep == ListInv /\ [Next]_vars => ListInv'
<1> SUFFICES ASSUME ListInv, [Next]_vars PROVE ListInv'
  OBVIOUS
<1>1. ASSUME NEW f \in Source, NEW t \in Tick, Receive(f, t) PROVE ListInv'
  BY <1>1, ReceiveKeepsList
<1>2. ASSUME NEW w \in Worker, DealMessage(w) PROVE ListInv'
  <2>1. CASE TakeTick(w)
    BY <2>1, TakeKeepsList
  <2>2. CASE Compare(w) \/ Push(w)
    BY <2>2 DEF ListInv, Compare, Push, feed
  <2> QED BY <1>2, <2>1, <2>2 DEF DealMessage
<1>3. CASE LoopSend
  BY <1>3 DEF LoopSend, PopResult, SendTo, SentAll, ListInv, feed
<1>4. ASSUME NEW c \in Client, Up(c) \/ Down(c) \/ LogIn(c) PROVE ListInv'
  BY <1>4 DEF Up, Down, LogIn, ListInv, feed
<1>5. CASE UNCHANGED vars
  BY <1>5 DEF vars, feed, ListInv
<1> QED BY <1>1, <1>2, <1>3, <1>4, <1>5 DEF Next

(* tickSet holds exactly what tickList holds, each tick once, and never     *)
(* more than maxSize, whoever interleaves with whom: client.cc 83-95 and    *)
(* utils.cc 32-39.                                                          *)
THEOREM SetStaysList == Spec => []SetIsList
<1>1. ListInv => SetIsList
  BY DEF ListInv, SetIsList, Listed, Elems, NoDoubles
<1> QED BY <1>1, ListInvInit, ListInvStep, PTL DEF Spec

-----------------------------------------------------------------------------
(* Who works on a tick holds tickMutex, and the tick is the last one taken. *)
OrderInv ==
  /\ pos \in [Worker -> Nat]
  /\ \E S : res \in [Worker -> S]
  /\ taken \in Seq(Tick)
  /\ tickMutex \in Worker \cup {None}
  /\ \A w \in Worker : pos[w] # 0 <=> tickMutex = w
  /\ \A w \in Worker : res[w] # NoResult => pos[w] # 0 /\ res[w].n = pos[w]
  /\ \A w \in Worker : pos[w] # 0 => pos[w] = Len(taken)
  /\ \E S : made \in Seq(S)
  /\ Len(taken) = Len(made) + (IF tickMutex = None THEN 0 ELSE 1)
  /\ \A i \in 1..Len(made) : made[i].n = i

LEMMA OrderInvInit == Init => OrderInv
<1> SUFFICES ASSUME Init PROVE OrderInv
  OBVIOUS
<1>1. made \in Seq({}) /\ res \in [Worker -> {NoResult}]
  BY DEF Init
<1>2. \E S : res \in [Worker -> S]
  BY <1>1
<1>3. \E S : made \in Seq(S)
  BY <1>1
<1>4. /\ pos \in [Worker -> Nat] /\ \A w \in Worker : pos[w] = 0
      /\ \A w \in Worker : res[w] = NoResult
      /\ tickMutex = None /\ taken = <<>> /\ made = <<>>
  BY DEF Init
<1>5. \A w \in Worker : pos[w] # 0 <=> tickMutex = w
  BY <1>4, QuoteFeedAssumption
<1> QED BY <1>2, <1>3, <1>4, <1>5 DEF OrderInv

(* dealMessage takes a tick: nobody else is working on one.                 *)
LEMMA TakeKeepsOrder ==
  ASSUME OrderInv, NEW w \in Worker, TakeTick(w), ListInv
  PROVE  OrderInv'
<1>1. Head(tickList) \in Tick
  BY DEF ListInv, TakeTick
<1>2. /\ taken' \in Seq(Tick) /\ Len(taken') = Len(taken) + 1
      /\ Len(taken) \in Nat
  BY <1>1 DEF TakeTick, OrderInv
<1>3. /\ pos' = [pos EXCEPT ![w] = Len(taken')] /\ pos[w] = 0
      /\ tickMutex = None /\ tickMutex' = w
      /\ res' = res /\ made' = made
  BY <1>2 DEF TakeTick, Locked
<1>4. w # None
  BY QuoteFeedAssumption
<1>5. \A v \in Worker : pos[v] = 0 /\ res[v] = NoResult
  BY <1>3, QuoteFeedAssumption DEF OrderInv
<1>6. pos' \in [Worker -> Nat] /\ pos'[w] = Len(taken') /\ pos'[w] # 0
      /\ \A v \in Worker : v # w => pos'[v] = 0
  BY <1>2, <1>3, <1>5 DEF OrderInv
<1>7. \A v \in Worker : pos'[v] # 0 <=> tickMutex' = v
  BY <1>3, <1>6
<1>8. Len(taken') = Len(made') + (IF tickMutex' = None THEN 0 ELSE 1)
  BY <1>2, <1>3, <1>4 DEF OrderInv
<1> QED BY <1>2, <1>3, <1>5, <1>6, <1>7, <1>8 DEF OrderInv

(* dealMessage compares: the result is that of its tick.                    *)
LEMMA CompareKeepsOrder ==
  ASSUME OrderInv, NEW w \in Worker, Compare(w)
  PROVE  OrderInv'
<1>1. PICK S : res \in [Worker -> S]
  BY DEF OrderInv
<1>2. PICK r : res' = [res EXCEPT ![w] = r] /\ r.n = pos[w] /\ pos[w] # 0
  BY DEF Compare
<1>3. /\ res' \in [Worker -> S \cup {r}] /\ res'[w] = r
      /\ \A v \in Worker : v # w => res'[v] = res[v]
  BY <1>1, <1>2
<1>4. UNCHANGED <<tickMutex, pos, taken, made>>
  BY DEF Compare
<1> QED BY <1>2, <1>3, <1>4 DEF OrderInv

(* dealMessage queues its result: it is the one that is due.                *)
LEMMA PushKeepsOrder ==
  ASSUME OrderInv, NEW w \in Worker, Push(w)
  PROVE  OrderInv'
<1>1. PICK S : made \in Seq(S)
  BY DEF OrderInv
<1>2. PICK R : res \in [Worker -> R]
  BY DEF OrderInv
<1>3. /\ res[w] # NoResult /\ pos[w] # 0 /\ res[w].n = pos[w]
      /\ tickMutex = w /\ pos[w] = Len(taken) /\ w # None
  BY QuoteFeedAssumption DEF OrderInv, Push
<1>4. /\ made' = Append(made, res[w])
      /\ res' = [res EXCEPT ![w] = NoResult]
      /\ pos' = [pos EXCEPT ![w] = 0]
      /\ tickMutex' = None /\ taken' = taken
  BY DEF Push, Unlocked
<1>5. made \in Seq(S \cup {res[w]})
  BY <1>1
<1>6. /\ made' \in Seq(S \cup {res[w]}) /\ Len(made') = Len(made) + 1
      /\ Len(made) \in Nat
      /\ made'[Len(made) + 1] = res[w]
      /\ \A i \in 1..Len(made) : made'[i] = made[i]
  BY <1>4, <1>5
<1>7. Len(taken') = Len(made') /\ res[w].n = Len(made')
  BY <1>3, <1>4, <1>6 DEF OrderInv
<1>8. \A i \in 1..Len(made') : made'[i].n = i
  BY <1>6, <1>7 DEF OrderInv
<1>9. /\ res' \in [Worker -> R \cup {NoResult}] /\ res'[w] = NoResult
      /\ \A v \in Worker : v # w => res'[v] = res[v]
  BY <1>2, <1>4
<1>10. \A v \in Worker : v # w => pos[v] = 0
  BY <1>3 DEF OrderInv
<1>11. pos' \in [Worker -> Nat] /\ \A v \in Worker : pos'[v] = 0
  BY <1>4, <1>10 DEF OrderInv
<1>12. \A v \in Worker : res'[v] = NoResult
  BY <1>9, <1>10 DEF OrderInv
<1>13. \A v \in Worker : pos'[v] # 0 <=> tickMutex' = v
  BY <1>4, <1>11, QuoteFeedAssumption
<1>14. \E T : res' \in [Worker -> T]
  BY <1>9
<1>15. \E T : made' \in Seq(T)
  BY <1>6
<1>16. taken' \in Seq(Tick)
  BY <1>4 DEF OrderInv
<1> QED BY <1>4, <1>7, <1>8, <1>11, <1>12, <1>13, <1>14, <1>15, <1>16
        DEF OrderInv

LEMMA OrderInvStep == ListInv /\ OrderInv /\ [Next]_vars => OrderInv'
<1> SUFFICES ASSUME ListInv, OrderInv, [Next]_vars PROVE OrderInv'
  OBVIOUS
<1> DEFINE kept == UNCHANGED <<tickMutex, pos, res, taken, made>>
<1>1. kept => OrderInv'
  BY DEF OrderInv
<1>2. ASSUME NEW f \in Source, NEW t \in Tick, Receive(f, t) PROVE kept
  BY <1>2 DEF Receive, work
<1>3. ASSUME NEW w \in Worker, DealMessage(w) PROVE OrderInv'
  BY <1>3, TakeKeepsOrder, CompareKeepsOrder, PushKeepsOrder DEF DealMessage
<1>4. CASE LoopSend
  BY <1>1, <1>4 DEF LoopSend, PopResult, SendTo, SentAll, work
<1>5. ASSUME NEW c \in Client, Up(c) \/ Down(c) \/ LogIn(c) PROVE kept
  BY <1>5 DEF Up, Down, LogIn, work
<1>6. CASE UNCHANGED vars
  BY <1>1, <1>6 DEF vars, work
<1> QED BY <1>1, <1>2, <1>3, <1>4, <1>5, <1>6 DEF Next

(* The results are queued in the order in which the ticks were taken, each  *)
(* once, although several threads compute them: tickLock is held from the   *)
(* take to resQue.push, utils.cc 32-117.                                    *)
THEOREM QueuedInOrder == Spec => []ResultsInOrder
<1>1. OrderInv => ResultsInOrder
  <2> SUFFICES ASSUME OrderInv PROVE ResultsInOrder
    OBVIOUS
  <2>1. /\ Len(made) \in Nat
        /\ Len(taken) = Len(made) + (IF tickMutex = None THEN 0 ELSE 1)
    BY DEF OrderInv
  <2> QED BY <2>1 DEF OrderInv, ResultsInOrder
<1> QED BY <1>1, ListInvInit, ListInvStep, OrderInvInit, OrderInvStep, PTL DEF Spec
-----------------------------------------------------------------------------
(* The windows.  h is the sequence of ticks taken and d the set of the      *)
(* positions in it whose prices have been compared.                         *)
Contracts == {Contract[t] : t \in Tick}
Older(h, i, n, s) == Time[h[n]] - Time[h[i]] > s

Compared == {j \in Position : \A w \in Worker : pos[w] = j => res[w] # NoResult}

(* A window of contract c: positions of c in increasing order.  What has    *)
(* been compared and is not in it was too old for a later price of c.       *)
IsWindow(h, d, q, c, s) ==
  /\ q \in Seq(d)
  /\ \A i, j \in 1..Len(q) : i < j => q[i] < q[j]
  /\ \A i \in 1..Len(q) : Contract[h[q[i]]] = c
  /\ \A j \in d : Contract[h[j]] = c =>
       \/ \E i \in 1..Len(q) : q[i] = j
       \/ \E n \in d : j < n /\ Contract[h[n]] = c /\ Older(h, j, n, s)

(* A shorter window ends like a longer one.                                 *)
IsSuffix(p, q) ==
  /\ Len(p) <= Len(q)
  /\ \A i \in 1..Len(p) : p[i] = q[Len(q) - Len(p) + i]

Windows(h, d, m) ==
  \A c \in Contracts : \A s \in Span :
    /\ IsWindow(h, d, m[c][s], c, s)
    /\ \A l \in Span : l >= s => IsSuffix(m[c][s], m[c][l])

(* What ComparedInWindow says of one result.                                *)
Mine(h, n) == {j \in 1..n : Contract[h[j]] = Contract[h[n]]}
InWindow(h, x) ==
  /\ x \in [n : 1..Len(h), ref : [Span -> 1..Len(h)]]
  /\ \A s \in Span :
       /\ x.ref[s] \in Mine(h, x.n) /\ ~Older(h, x.ref[s], x.n, s)
       /\ \A l \in Span : l >= s => x.ref[l] <= x.ref[s]
       /\ (\A j, k \in Mine(h, x.n) : j < k => Time[h[j]] <= Time[h[k]]) =>
            \A j \in Mine(h, x.n) : j < x.ref[s] => Older(h, j, x.n, s)

WindowInv ==
  /\ queueMap \in [Contracts -> [Span -> Seq(Compared)]]
  /\ Windows(taken, Compared, queueMap)
  /\ \A w \in Worker : res[w] # NoResult => InWindow(taken, res[w])
  /\ \A i \in 1..Len(made) : InWindow(taken, made[i])

LEMMA TimesAndSpans ==
  ASSUME NEW h \in Seq(Tick)
  PROVE  /\ \A i \in 1..Len(h) :
              h[i] \in Tick /\ Time[h[i]] \in Nat /\ Contract[h[i]] \in Contracts
         /\ \A s \in Span : s \in Nat
BY QuoteFeedAssumption, ElementOfSeq DEF Contracts

(* What has been said of the ticks taken stays true when one more is taken. *)
LEMMA StaysWindow ==
  ASSUME NEW h \in Seq(Tick), NEW t \in Tick, NEW d \in SUBSET (1..Len(h)),
         NEW q, NEW c, NEW s, IsWindow(h, d, q, c, s)
  PROVE  IsWindow(Append(h, t), d, q, c, s)
<1>1. \A i \in d : Append(h, t)[i] = h[i]
  BY AppendProperties, LenProperties
<1>2. \A i \in 1..Len(q) : q[i] \in d
  BY ElementOfSeq DEF IsWindow
<1>. QED
  BY <1>1, <1>2 DEF IsWindow, Older

LEMMA StaysInWindow ==
  ASSUME NEW h \in Seq(Tick), NEW t \in Tick, NEW x, InWindow(h, x)
  PROVE  InWindow(Append(h, t), x)
<1> DEFINE g == Append(h, t)
<1>1. /\ Len(h) \in Nat /\ Len(g) = Len(h) + 1
      /\ \A i \in 1..Len(h) : g[i] = h[i]
  BY AppendProperties, LenProperties
<1> HIDE DEF g
<1>2. x \in [n : 1..Len(h), ref : [Span -> 1..Len(h)]]
  BY DEF InWindow
<1>3. 1..Len(h) \subseteq 1..Len(g)
  BY <1>1
<1>4. x \in [n : 1..Len(g), ref : [Span -> 1..Len(g)]]
  BY <1>2, <1>3
<1>5. x.n \in 1..Len(h) /\ \A j \in 1..x.n : j \in 1..Len(h) /\ g[j] = h[j]
  BY <1>1, <1>2
<1>6. Mine(g, x.n) = Mine(h, x.n)
  BY <1>1, <1>5 DEF Mine
<1>7. \A j \in Mine(h, x.n) : j \in 1..x.n /\ g[j] = h[j] /\ g[x.n] = h[x.n]
  BY <1>1, <1>5 DEF Mine
<1>8. \A j \in Mine(h, x.n) : \A s : Older(g, j, x.n, s) <=> Older(h, j, x.n, s)
  BY <1>7 DEF Older
<1>9. \A j, k \in Mine(h, x.n) : (Time[g[j]] <= Time[g[k]]) <=> (Time[h[j]] <= Time[h[k]])
  BY <1>7
<1>10. InWindow(g, x)
  <2> SUFFICES ASSUME NEW s \in Span
               PROVE  /\ x.ref[s] \in Mine(h, x.n) /\ ~Older(g, x.ref[s], x.n, s)
                      /\ \A l \in Span : l >= s => x.ref[l] <= x.ref[s]
                      /\ (\A j, k \in Mine(h, x.n) : j < k => Time[g[j]] <= Time[g[k]]) =>
                           \A j \in Mine(h, x.n) : j < x.ref[s] => Older(g, j, x.n, s)
    BY <1>4, <1>6 DEF InWindow
  <2>. QED
    BY <1>8, <1>9, Zenon DEF InWindow
<1>. QED
  BY <1>10 DEF g

-----------------------------------------------------------------------------
(* A set of natural numbers has a least element.                            *)
LEMMA LeastExists ==
  ASSUME NEW S, S \subseteq Nat, S # {}
  PROVE  \E m \in S : \A k \in S : m <= k
<1> DEFINE R == OpToRel(<, Nat)
<1>1. IsWellFoundedOn(R, Nat)
  BY NatLessThanWellFounded
<1>2. \A x, y \in Nat : x < y => <<x, y>> \in R
  BY DEF OpToRel
<1> HIDE DEF R
<1>3. PICK m \in S : \A k \in S : ~(<<k, m>> \in R)
  BY <1>1, WFMin
<1>4. \A k \in S : ~(k < m)
  BY <1>2, <1>3
<1>5. \A k \in S : k \in Nat /\ m \in Nat
  OBVIOUS
<1>6. \A k \in S : m <= k
  BY <1>4, <1>5
<1>. QED
  BY <1>6

(* The loop that drops what is too old stops: Kept is the window without    *)
(* its first k elements, which are all that are too old before one that is  *)
(* not.                                                                     *)
Dropped(q, n, s, k) ==
  /\ \A i \in 1..k : TooOld(q[i], n, s)
  /\ k < Len(q) => ~TooOld(q[k + 1], n, s)

LEMMA KeptProperties ==
  ASSUME NEW S, NEW q \in Seq(S), NEW n, NEW s
  PROVE  \E k \in 0..Len(q) :
           Dropped(q, n, s, k) /\ Kept(q, n, s) = SubSeq(q, k + 1, Len(q))
<1>0. Len(q) \in Nat
  BY LenProperties
<1> DEFINE Stop == {k \in 0..Len(q) : k < Len(q) => ~TooOld(q[k + 1], n, s)}
<1>1. PICK k \in Stop : \A j \in Stop : k <= j
  <2>1. Len(q) \in Stop /\ Stop \subseteq Nat
    BY <1>0
  <2> HIDE DEF Stop
  <2>. QED
    BY <2>1, LeastExists
<1>2. ASSUME NEW i \in 1..k, ~TooOld(q[i], n, s) PROVE FALSE
  <2>1. i - 1 \in 0..Len(q) /\ (i - 1) + 1 = i
    BY <1>0, <1>1
  <2>2. i - 1 \in Stop
    BY <1>2, <2>1
  <2>3. k <= i - 1
    BY <1>1, <2>2
  <2>. QED
    BY <1>0, <1>1, <2>3
<1>3. \E j \in 0..Len(q) : Dropped(q, n, s, j)
  BY <1>1, <1>2 DEF Dropped
<1>4. Kept(q, n, s) = LET j == CHOOSE j \in 0..Len(q) : Dropped(q, n, s, j)
                      IN SubSeq(q, j + 1, Len(q))
  BY DEF Kept, Dropped
<1>. QED
  BY <1>3, <1>4

MadeBy(q, n, s, k) ==
  /\ Dropped(q, n, s, k)
  /\ Len(Window(q, n, s)) = Len(q) - k + 1
  /\ \A i \in 1..(Len(q) - k) : Window(q, n, s)[i] = q[k + i]
  /\ Window(q, n, s)[Len(q) - k + 1] = n

LEMMA WindowProperties ==
  ASSUME NEW S, NEW q \in Seq(S), NEW n, NEW s
  PROVE  /\ Window(q, n, s) \in Seq(S \cup {n})
         /\ Front(q, n, s) = Window(q, n, s)[1]
         /\ \E k \in 0..Len(q) : MadeBy(q, n, s, k)
<1>1. PICK k \in 0..Len(q) :
        Dropped(q, n, s, k) /\ Kept(q, n, s) = SubSeq(q, k + 1, Len(q))
  BY KeptProperties
<1> DEFINE p == SubSeq(q, k + 1, Len(q))
<1>2. Len(q) \in Nat /\ \A i \in (k + 1)..Len(q) : q[i] \in S
  BY LenProperties, ElementOfSeq
<1>3. /\ p \in Seq(S) /\ Len(p) = Len(q) - k
      /\ \A i \in 1..(Len(q) - k) : p[i] = q[k + i]
  <2>1. /\ p \in Seq(S)
        /\ Len(p) = IF k + 1 <= Len(q) THEN Len(q) - (k + 1) + 1 ELSE 0
        /\ \A i \in 1..(Len(q) - (k + 1) + 1) : p[i] = q[k + 1 + i - 1]
    <3>1. k + 1 \in Int /\ Len(q) \in Int
      BY <1>2
    <3>. QED
      BY <1>2, <3>1, SubSeqProperties
  <2>. QED
    BY <1>2, <2>1
<1> HIDE DEF p
<1>4. p \in Seq(S \cup {n})
  <2>1. \A i \in 1..Len(p) : p[i] \in S \cup {n}
    BY <1>3, ElementOfSeq
  <2>2. Len(p) \in Nat /\ p = [i \in 1..Len(p) |-> p[i]]
    BY <1>3, LenProperties
  <2>. QED
    BY <2>1, <2>2, SeqDef
<1>5. Window(q, n, s) = Append(p, n)
  BY <1>1 DEF Window, p
<1>6. /\ Append(p, n) \in Seq(S \cup {n}) /\ Append(p, n) # <<>>
      /\ Len(Append(p, n)) = Len(p) + 1
      /\ \A i \in 1..Len(p) : Append(p, n)[i] = p[i]
      /\ Append(p, n)[Len(p) + 1] = n
  BY <1>4, AppendProperties
<1>7. Front(q, n, s) = Append(p, n)[1]
  BY <1>5, <1>6, HeadTailProperties DEF Front
<1>8. MadeBy(q, n, s, k)
  BY <1>1, <1>2, <1>3, <1>5, <1>6 DEF MadeBy
<1>. QED
  BY <1>5, <1>6, <1>7, <1>8

-----------------------------------------------------------------------------
(* A new price in the windows of its contract.  d are the positions         *)
(* compared before.                                                         *)
LEMMA SeqWidens ==
  ASSUME NEW S, NEW T, S \subseteq T, NEW x \in Seq(S)
  PROVE  x \in Seq(T)
<1>1. Len(x) \in Nat /\ x = [i \in 1..Len(x) |-> x[i]]
      /\ \A i \in 1..Len(x) : x[i] \in T
  BY LenProperties, ElementOfSeq
<1>. QED
  BY <1>1, SeqDef

LEMMA PositionsAndTimes ==
  ASSUME taken \in Seq(Tick)
  PROVE  \A i, n \in 1..Len(taken) : \A s :
           /\ Time[taken[i]] \in Nat
           /\ TooOld(i, n, s) <=> Time[taken[n]] - Time[taken[i]] > s
           /\ TooOld(i, n, s) <=> Older(taken, i, n, s)
BY TimesAndSpans DEF TooOld, Older

LEMMA WindowStaysWindow ==
  ASSUME taken \in Seq(Tick), NEW n \in 1..Len(taken),
         NEW d \in SUBSET (1..(n - 1)), NEW s \in Span, NEW q,
         IsWindow(taken, d, q, Contract[taken[n]], s)
  PROVE  IsWindow(taken, d \cup {n}, Window(q, n, s), Contract[taken[n]], s)
<1> DEFINE w == Window(q, n, s)
           c == Contract[taken[n]]
<1>1. q \in Seq(d) /\ Len(q) \in Nat /\ \A i \in 1..Len(q) : q[i] \in d
  BY ElementOfSeq, LenProperties DEF IsWindow
<1>0. PICK k \in 0..Len(q) : w \in Seq(d \cup {n}) /\ MadeBy(q, n, s, k)
  BY <1>1, WindowProperties
<1>2. /\ Dropped(q, n, s, k)
      /\ w \in Seq(d \cup {n}) /\ Len(w) = Len(q) - k + 1
      /\ \A i \in 1..(Len(q) - k) : w[i] = q[k + i]
      /\ w[Len(q) - k + 1] = n
  BY <1>0 DEF MadeBy
<1> HIDE DEF w
<1>3. /\ k \in Nat /\ Len(q) - k \in Nat /\ n \in Nat
      /\ \A i \in 1..(Len(q) - k) : k + i \in 1..Len(q)
      /\ \A j \in d : j \in 1..Len(taken) /\ j < n
  <2>1. Len(taken) \in Nat /\ d \subseteq 1..(n - 1)
    BY LenProperties
  <2>. QED
    BY <1>1, <2>1
<1>4. \A i \in 1..Len(w) : i \in 1..(Len(q) - k) \/ i = Len(q) - k + 1
  BY <1>2, <1>3
<1>5. \A i, j \in 1..Len(w) : i < j => w[i] < w[j]
  <2> SUFFICES ASSUME NEW i \in 1..Len(w), NEW j \in 1..Len(w), i < j
               PROVE  w[i] < w[j]
    OBVIOUS
  <2>1. i \in 1..(Len(q) - k) /\ w[i] = q[k + i] /\ k + i \in 1..Len(q)
    BY <1>2, <1>3, <1>4
  <2>2. CASE j \in 1..(Len(q) - k)
    <3>1. w[j] = q[k + j] /\ k + j \in 1..Len(q) /\ k + i < k + j
      BY <1>2, <1>3, <2>2
    <3>. QED
      BY <2>1, <3>1 DEF IsWindow
  <2>3. CASE j = Len(q) - k + 1
    BY <1>1, <1>2, <1>3, <2>1, <2>3
  <2>. QED
    BY <1>4, <2>2, <2>3
<1>6. \A i \in 1..Len(w) : Contract[taken[w[i]]] = c
  <2> SUFFICES ASSUME NEW i \in 1..Len(w) PROVE Contract[taken[w[i]]] = c
    OBVIOUS
  <2>1. CASE i \in 1..(Len(q) - k)
    BY <1>2, <1>3, <2>1 DEF IsWindow
  <2>2. CASE i = Len(q) - k + 1
    BY <1>2, <2>2
  <2>. QED
    BY <1>4, <2>1, <2>2
<1>7. ASSUME NEW j \in d \cup {n}, Contract[taken[j]] = c
      PROVE  \/ \E i \in 1..Len(w) : w[i] = j
             \/ \E m \in d \cup {n} : j < m /\ Contract[taken[m]] = c
                                      /\ Older(taken, j, m, s)
  <2>1. CASE j = n
    <3>1. Len(q) - k + 1 \in 1..Len(w)
      BY <1>2, <1>3
    <3>. QED
      BY <1>2, <2>1, <3>1
  <2>2. CASE j \in d /\ \E i \in 1..Len(q) : q[i] = j
    <3>1. PICK i \in 1..Len(q) : q[i] = j
      BY <2>2
    <3>2. CASE i <= k
      <4>1. TooOld(q[i], n, s)
        BY <1>2, <1>3, <3>2 DEF Dropped
      <4>2. Older(taken, j, n, s) /\ j < n
        BY <1>3, <2>2, <3>1, <4>1, PositionsAndTimes
      <4>. QED
        BY <4>2
    <3>3. CASE i > k
      <4>1. i - k \in 1..(Len(q) - k) /\ k + (i - k) = i /\ i - k \in 1..Len(w)
        BY <1>1, <1>2, <1>3, <3>3
      <4>2. w[i - k] = j
        BY <1>2, <3>1, <4>1
      <4>. QED
        BY <4>1, <4>2
    <3>. QED
      BY <1>3, <3>2, <3>3
  <2>3. CASE j \in d /\ ~\E i \in 1..Len(q) : q[i] = j
    <3>1. \E m \in d : j < m /\ Contract[taken[m]] = c /\ Older(taken, j, m, s)
      BY <1>7, <2>3 DEF IsWindow
    <3>. QED
      BY <3>1
  <2>. QED
    BY <1>7, <2>1, <2>2, <2>3
<1>8. IsWindow(taken, d \cup {n}, w, c, s)
  BY <1>2, <1>5, <1>6, <1>7 DEF IsWindow
<1>. QED
  BY <1>8 DEF w

(* The windows of the other contracts are left alone.                       *)
LEMMA OtherStaysWindow ==
  ASSUME NEW h, NEW d, NEW n, NEW q, NEW c, NEW s, IsWindow(h, d, q, c, s),
         Contract[h[n]] # c
  PROVE  IsWindow(h, d \cup {n}, q, c, s)
<1>1. q \in Seq(d \cup {n})
  <2>1. q \in Seq(d)
    BY DEF IsWindow
  <2>. QED
    BY <2>1, SeqWidens
<1>2. \A j \in d \cup {n} : Contract[h[j]] = c =>
        \/ \E i \in 1..Len(q) : q[i] = j
        \/ \E m \in d \cup {n} : j < m /\ Contract[h[m]] = c /\ Older(h, j, m, s)
  <2> SUFFICES ASSUME NEW j \in d, Contract[h[j]] = c
               PROVE  \/ \E i \in 1..Len(q) : q[i] = j
                      \/ \E m \in d \cup {n} :
                           j < m /\ Contract[h[m]] = c /\ Older(h, j, m, s)
    OBVIOUS
  <2>. QED
    BY DEF IsWindow
<1>. QED
  BY <1>1, <1>2 DEF IsWindow

(* What is too old for a longer window is too old for a shorter one.        *)
LEMMA SuffixStays ==
  ASSUME taken \in Seq(Tick), NEW n \in 1..Len(taken),
         NEW p \in Seq(1..Len(taken)), NEW q \in Seq(1..Len(taken)),
         NEW s \in Span, NEW l \in Span, l >= s, IsSuffix(p, q)
  PROVE  IsSuffix(Window(p, n, s), Window(q, n, l))
<1> DEFINE v == Window(p, n, s)
           w == Window(q, n, l)
<1>1. Len(p) \in Nat /\ Len(q) \in Nat /\ Len(p) <= Len(q) /\ s \in Nat /\ l \in Nat
  BY LenProperties, TimesAndSpans DEF IsSuffix
<1>a. PICK kp \in 0..Len(p) : MadeBy(p, n, s, kp)
  BY WindowProperties
<1>b. PICK kq \in 0..Len(q) : MadeBy(q, n, l, kq)
  BY WindowProperties
<1>2. /\ Dropped(p, n, s, kp) /\ Len(v) = Len(p) - kp + 1
      /\ \A i \in 1..(Len(p) - kp) : v[i] = p[kp + i]
      /\ v[Len(p) - kp + 1] = n
  BY <1>a DEF MadeBy
<1>3. /\ Dropped(q, n, l, kq) /\ Len(w) = Len(q) - kq + 1
      /\ \A i \in 1..(Len(q) - kq) : w[i] = q[kq + i]
      /\ w[Len(q) - kq + 1] = n
  BY <1>b DEF MadeBy
<1> HIDE DEF v, w
<1>4. /\ kp \in Nat /\ Len(p) - kp \in Nat
      /\ kq \in Nat /\ Len(q) - kq \in Nat
  BY <1>1
<1>5. Len(p) - kp <= Len(q) - kq
  <2> SUFFICES ASSUME Len(p) - kp > Len(q) - kq PROVE FALSE
    BY <1>4
  <2> DEFINE i == Len(q) - Len(p) + (kp + 1)
  <2>1. i \in 1..kq /\ kp < Len(p) /\ kp + 1 \in 1..Len(p)
    BY <1>1, <1>4
  <2>2. q[i] = p[kp + 1]
    BY <2>1 DEF IsSuffix
  <2>3. TooOld(q[i], n, l) /\ ~TooOld(p[kp + 1], n, s)
    BY <1>2, <1>3, <2>1 DEF Dropped
  <2>4. p[kp + 1] \in 1..Len(taken)
    BY <2>1, ElementOfSeq
  <2> DEFINE t == Time[taken[n]] - Time[taken[p[kp + 1]]]
  <2>5. TooOld(p[kp + 1], n, l)
    BY <2>2, <2>3
  <2>7. Time[taken[n]] \in Nat /\ Time[taken[p[kp + 1]]] \in Nat
    BY <2>4, PositionsAndTimes
  <2>6. t \in Int
    BY <2>7
  <2>8. t > l
    BY <2>5 DEF TooOld
  <2>9. ~(t > s)
    BY <2>3 DEF TooOld
  <2>. QED
    BY <1>1, <2>6, <2>8, <2>9
<1>6. Len(v) <= Len(w)
  BY <1>2, <1>3, <1>4, <1>5
<1>7. ASSUME NEW i \in 1..Len(v) PROVE v[i] = w[Len(w) - Len(v) + i]
  <2>1. CASE i = Len(p) - kp + 1
    <3>1. Len(w) - Len(v) + i = Len(q) - kq + 1
      BY <1>2, <1>3, <1>4, <2>1
    <3>. QED
      BY <1>2, <1>3, <2>1, <3>1
  <2>2. CASE i # Len(p) - kp + 1
    <3> DEFINE j == Len(w) - Len(v) + i
    <3>1. i \in 1..(Len(p) - kp) /\ kp + i \in 1..Len(p)
      BY <1>1, <1>2, <1>4, <2>2
    <3>2. j = (Len(q) - kq) - (Len(p) - kp) + i
      <4>1. Len(w) = Len(q) - kq + 1 /\ Len(v) = Len(p) - kp + 1
        BY <1>2, <1>3
      <4>2. i \in Int /\ Len(q) \in Int /\ Len(p) \in Int /\ kp \in Int /\ kq \in Int
        BY <1>1, <1>4, <3>1
      <4>. QED
        BY <4>1, <4>2
    <3>5. /\ j \in 1..(Len(q) - kq)
          /\ kq + j = Len(q) - Len(p) + (kp + i)
      <4> HIDE DEF j
      <4>1. i \in Int /\ Len(q) \in Int /\ Len(p) \in Int /\ kp \in Int /\ kq \in Int
        BY <1>1, <1>4, <3>1
      <4>2. i >= 1 /\ i <= Len(p) - kp
        BY <3>1, <4>1
      <4>3. j \in Int /\ j >= 1 /\ j <= Len(q) - kq
        BY <1>5, <3>2, <4>1, <4>2
      <4>. QED
        BY <3>2, <4>1, <4>3
    <3>3. w[j] = q[kq + j] /\ v[i] = p[kp + i]
      BY <1>2, <1>3, <3>1, <3>5
    <3>4. p[kp + i] = q[Len(q) - Len(p) + (kp + i)]
      BY <3>1 DEF IsSuffix
    <3>. QED
      BY <3>5, <3>3, <3>4
  <2>. QED
    BY <2>1, <2>2
<1>8. IsSuffix(v, w)
  BY <1>6, <1>7 DEF IsSuffix
<1>. QED
  BY <1>8 DEF v, w

-----------------------------------------------------------------------------
(* The price compared with is the front of the window.                      *)
LEMMA FrontOfWindow ==
  ASSUME taken \in Seq(Tick), NEW n \in 1..Len(taken), NEW s \in Span, NEW q,
         IsWindow(taken, 1..(n - 1), q, Contract[taken[n]], s)
  PROVE  /\ Front(q, n, s) \in Mine(taken, n)
         /\ ~Older(taken, Front(q, n, s), n, s)
         /\ (\A j, k \in Mine(taken, n) :
               j < k => Time[taken[j]] <= Time[taken[k]]) =>
              \A j \in Mine(taken, n) :
                j < Front(q, n, s) => Older(taken, j, n, s)
<1> DEFINE d == 1..(n - 1)
           w == Window(q, n, s)
           c == Contract[taken[n]]
<1>1. /\ q \in Seq(d) /\ Len(q) \in Nat
      /\ n \in Nat /\ Len(taken) \in Nat /\ n <= Len(taken) /\ s \in Nat
      /\ d \cup {n} = 1..n /\ d \in SUBSET (1..(n - 1))
  <2>1. q \in Seq(d)
    BY DEF IsWindow
  <2>2. Len(taken) \in Nat /\ Len(q) \in Nat /\ s \in Nat
    BY <2>1, LenProperties, TimesAndSpans
  <2>. QED
    BY <2>1, <2>2
<1>2. /\ w \in Seq(d \cup {n}) /\ Front(q, n, s) = w[1]
      /\ \E k \in 0..Len(q) : MadeBy(q, n, s, k)
  BY <1>1, WindowProperties
<1>3. IsWindow(taken, d \cup {n}, w, c, s)
  BY WindowStaysWindow
<1>4. PICK k \in 0..Len(q) : MadeBy(q, n, s, k)
  BY <1>2
<1>5. Len(w) = Len(q) - k + 1 /\ 1 \in 1..Len(w) /\ Len(w) \in Nat
  BY <1>1, <1>4 DEF MadeBy
<1>6. w[1] \in 1..n /\ Contract[taken[w[1]]] = c
  BY <1>1, <1>2, <1>3, <1>5, ElementOfSeq DEF IsWindow
<1>7. ~TooOld(w[1], n, s)
  <2>1. CASE k = Len(q)
    <3>1. w[1] = n
      BY <1>1, <1>4, <2>1 DEF MadeBy
    <3>2. Time[taken[n]] \in Nat
      BY TimesAndSpans
    <3>3. ~(Time[taken[n]] - Time[taken[n]] > s)
      BY <1>1, <3>2
    <3>. QED
      BY <3>1, <3>3 DEF TooOld
  <2>2. CASE k # Len(q)
    <3>1. k < Len(q) /\ 1 \in 1..(Len(q) - k)
      BY <1>1, <2>2
    <3>2. w[1] = q[k + 1]
      BY <1>4, <3>1 DEF MadeBy
    <3>. QED
      BY <1>4, <3>1, <3>2 DEF MadeBy, Dropped
  <2>. QED
    BY <2>1, <2>2
<1> HIDE DEF w
<1>8. ASSUME \A j, k1 \in Mine(taken, n) :
               j < k1 => Time[taken[j]] <= Time[taken[k1]],
             NEW j \in Mine(taken, n), j < w[1]
      PROVE  Older(taken, j, n, s)
  <2>1. j \in 1..n /\ Contract[taken[j]] = c
    BY DEF Mine
  <2>2. ASSUME NEW i \in 1..Len(w), w[i] = j PROVE FALSE
    <3>1. w[1] <= w[i]
      <4>1. i \in Nat /\ (i = 1 \/ 1 < i)
        BY <1>5
      <4>2. 1 < i => w[1] < w[i]
        BY <1>3, <1>5 DEF IsWindow
      <4>3. w[i] \in Nat /\ w[1] \in Nat
        BY <1>6, <2>1, <2>2
      <4>. QED
        BY <4>1, <4>2, <4>3
    <3>. QED
      BY <1>6, <1>8, <2>1, <2>2, <3>1
  <2>3. PICK m \in 1..n :
          j < m /\ Contract[taken[m]] = c /\ Older(taken, j, m, s)
    BY <1>1, <1>3, <2>1, <2>2 DEF IsWindow
  <2>4. m \in Mine(taken, n) /\ n \in Mine(taken, n)
    BY <1>1, <2>3 DEF Mine
  <2>5. /\ Time[taken[j]] \in Nat /\ Time[taken[m]] \in Nat
        /\ Time[taken[n]] \in Nat
    BY <1>1, <2>1, <2>3, TimesAndSpans
  <2>6. Time[taken[m]] <= Time[taken[n]]
    <3>1. m = n \/ m < n
      BY <1>1, <2>3
    <3>. QED
      BY <1>8, <2>4, <2>5, <3>1
  <2>7. Time[taken[m]] - Time[taken[j]] > s
    BY <2>3 DEF Older
  <2>8. Time[taken[n]] - Time[taken[j]] > s
    BY <1>1, <2>5, <2>6, <2>7
  <2>. QED
    BY <2>8 DEF Older
<1>9. w[1] \in Mine(taken, n)
  BY <1>6 DEF Mine
<1>10. ~Older(taken, w[1], n, s)
  BY <1>7 DEF TooOld, Older
<1>. QED
  BY <1>2, <1>8, <1>9, <1>10, Zenon

(* Among windows that end alike the longer one starts no later.             *)
LEMMA LongerStartsEarlier ==
  ASSUME taken \in Seq(Tick), NEW n \in 1..Len(taken),
         NEW s \in Span, NEW l \in Span, l >= s, NEW p, NEW q,
         IsWindow(taken, 1..(n - 1), p, Contract[taken[n]], s),
         IsWindow(taken, 1..(n - 1), q, Contract[taken[n]], l),
         IsSuffix(p, q)
  PROVE  Front(q, n, l) <= Front(p, n, s)
<1> DEFINE d == 1..(n - 1)
           v == Window(p, n, s)
           w == Window(q, n, l)
<1>1. d \in SUBSET (1..(n - 1)) /\ d \subseteq 1..Len(taken)
      /\ d \cup {n} \subseteq Nat
  <2>1. Len(taken) \in Nat
    BY LenProperties
  <2>. QED
    BY <2>1
<1>2. p \in Seq(d) /\ q \in Seq(d)
  BY DEF IsWindow
<1>3. p \in Seq(1..Len(taken)) /\ q \in Seq(1..Len(taken))
  <2> HIDE DEF d
  <2>. QED
    BY <1>1, <1>2, SeqWidens
<1>4. IsSuffix(v, w)
  BY <1>3, SuffixStays
<1>5. IsWindow(taken, d \cup {n}, w, Contract[taken[n]], l)
  BY WindowStaysWindow
<1>6. /\ Front(p, n, s) = v[1] /\ Front(q, n, l) = w[1]
      /\ v \in Seq(d \cup {n}) /\ w \in Seq(d \cup {n})
      /\ \E k \in 0..Len(p) : MadeBy(p, n, s, k)
  BY <1>2, WindowProperties
<1>7. PICK k \in 0..Len(p) : MadeBy(p, n, s, k)
  BY <1>6
<1>8. Len(v) = Len(p) - k + 1 /\ Len(p) \in Nat
  BY <1>2, <1>7, LenProperties DEF MadeBy
<1>9. Len(v) \in Nat /\ Len(w) \in Nat /\ 1 \in 1..Len(v) /\ Len(v) <= Len(w)
  BY <1>4, <1>6, <1>8, LenProperties DEF IsSuffix
<1> HIDE DEF v, w, d
<1> DEFINE i == Len(w) - Len(v) + 1
<1>10. v[1] = w[i] /\ i \in 1..Len(w) /\ (i = 1 \/ 1 < i) /\ 1 \in 1..Len(w)
  BY <1>4, <1>9 DEF IsSuffix
<1> HIDE DEF i
<1>11. 1 < i => w[1] < w[i]
  BY <1>5, <1>10 DEF IsWindow
<1>12. w[1] \in Nat /\ w[i] \in Nat
  BY <1>1, <1>6, <1>10, ElementOfSeq
<1>. QED
  BY <1>6, <1>10, <1>11, <1>12

(* The result of a comparison.                                              *)
LEMMA NewInWindow ==
  ASSUME taken \in Seq(Tick), NEW n \in 1..Len(taken), NEW m,
         \A s \in Span :
           /\ IsWindow(taken, 1..(n - 1), m[s], Contract[taken[n]], s)
           /\ \A l \in Span : l >= s => IsSuffix(m[s], m[l])
  PROVE  InWindow(taken, [n |-> n, ref |-> [s \in Span |-> Front(m[s], n, s)]])
<1> DEFINE ref == [s \in Span |-> Front(m[s], n, s)]
           x == [n |-> n, ref |-> ref]
<1>0. Mine(taken, n) \subseteq 1..Len(taken)
  <2>1. Len(taken) \in Nat
    BY LenProperties
  <2>. QED
    BY <2>1 DEF Mine
<1>1. ASSUME NEW s \in Span
      PROVE  /\ ref[s] \in Mine(taken, n) /\ ~Older(taken, ref[s], n, s)
             /\ (\A j, k \in Mine(taken, n) :
                   j < k => Time[taken[j]] <= Time[taken[k]]) =>
                  \A j \in Mine(taken, n) :
                    j < ref[s] => Older(taken, j, n, s)
  <2>1. ref[s] = Front(m[s], n, s)
    OBVIOUS
  <2> HIDE DEF ref
  <2>. QED
    BY <2>1, FrontOfWindow
<1>2. ASSUME NEW s \in Span, NEW l \in Span, l >= s PROVE ref[l] <= ref[s]
  <2>1. ref[s] = Front(m[s], n, s) /\ ref[l] = Front(m[l], n, l)
    OBVIOUS
  <2>2. IsSuffix(m[s], m[l])
    BY <1>2
  <2> HIDE DEF ref
  <2>. QED
    BY <1>2, <2>1, <2>2, LongerStartsEarlier
<1>3. ref \in [Span -> 1..Len(taken)]
  BY <1>0, <1>1
<1> HIDE DEF ref
<1>4. x \in [n : 1..Len(taken), ref : [Span -> 1..Len(taken)]]
      /\ x.n = n /\ x.ref = ref
  BY <1>3
<1> HIDE DEF x
<1>5. InWindow(taken, x)
  BY <1>1, <1>2, <1>4, Zenon DEF InWindow
<1>. QED
  BY <1>5 DEF x, ref

-----------------------------------------------------------------------------
(* The windows hold the positions compared, and stay so.                    *)
LEMMA WindowInvInit == Init => WindowInv
<1> SUFFICES ASSUME Init PROVE WindowInv
  OBVIOUS
<1>1. taken = <<>> /\ made = <<>> /\ \A w \in Worker : res[w] = NoResult
  BY DEF Init
<1>2. Compared = {}
  BY <1>1 DEF Compared, Position
<1>3. queueMap = [c \in Contracts |-> [s \in Span |-> <<>>]]
  BY DEF Init, Contracts
<1>4. queueMap \in [Contracts -> [Span -> Seq(Compared)]]
  BY <1>2, <1>3
<1>5. Windows(taken, Compared, queueMap)
  <2> SUFFICES ASSUME NEW c \in Contracts, NEW s \in Span
               PROVE  /\ IsWindow(taken, {}, queueMap[c][s], c, s)
                      /\ \A l \in Span : IsSuffix(queueMap[c][s], queueMap[c][l])
    BY <1>2 DEF Windows
  <2>1. queueMap[c][s] = <<>> /\ \A l \in Span : queueMap[c][l] = <<>>
    BY <1>3
  <2>2. IsWindow(taken, {}, <<>>, c, s) /\ IsSuffix(<<>>, <<>>)
    BY DEF IsWindow, IsSuffix
  <2>. QED
    BY <2>1, <2>2
<1>. QED
  BY <1>1, <1>4, <1>5 DEF WindowInv

(* A worker that holds a tick holds the last one; the others are compared.  *)
AllButLast ==
  /\ Len(taken) \in Nat
  /\ \A w \in Worker : pos[w] # 0 /\ res[w] = NoResult =>
       /\ Compared = 1..(pos[w] - 1)
       /\ pos[w] \in 1..Len(taken) /\ pos[w] = Len(taken)
  /\ \A w \in Worker : pos[w] # 0 /\ res[w] # NoResult =>
       Compared = 1..Len(taken) /\ pos[w] = Len(taken)
  /\ (\A w \in Worker : pos[w] = 0) => Compared = 1..Len(taken)

LEMMA ComparedPositions == OrderInv => AllButLast
<1> SUFFICES ASSUME OrderInv PROVE AllButLast
  OBVIOUS
<1>1. Len(taken) \in Nat
  BY LenProperties DEF OrderInv
<1>2. Compared \subseteq 1..Len(taken)
  BY DEF Compared, Position
<1>3. \A v, w \in Worker : pos[w] # 0 /\ pos[v] # 0 => v = w
  BY DEF OrderInv
<1>4. \A w \in Worker : pos[w] \in Nat /\ (pos[w] # 0 => pos[w] = Len(taken))
  BY DEF OrderInv
<1>5. ASSUME NEW w \in Worker, pos[w] # 0, res[w] = NoResult
      PROVE  Compared = 1..(pos[w] - 1) /\ pos[w] \in 1..Len(taken)
  <2>1. pos[w] = Len(taken) /\ pos[w] \in 1..Len(taken)
    BY <1>1, <1>4, <1>5
  <2>2. ASSUME NEW j \in 1..Len(taken)
        PROVE  j \in Compared <=> j # Len(taken)
    <3>1. \A v \in Worker : pos[v] = j => v = w
      BY <1>3, <1>5
    <3>. QED
      BY <1>4, <1>5, <2>1, <3>1 DEF Compared, Position
  <2>3. \A j : j \in 1..(Len(taken) - 1) <=> j \in 1..Len(taken) /\ j # Len(taken)
    BY <1>1
  <2>4. Compared = 1..(Len(taken) - 1)
    BY <1>2, <2>2, <2>3
  <2>. QED
    BY <2>1, <2>4
<1>6. ASSUME NEW w \in Worker, pos[w] # 0, res[w] # NoResult
      PROVE  Compared = 1..Len(taken)
  <2>1. ASSUME NEW j \in 1..Len(taken), NEW v \in Worker, pos[v] = j
        PROVE  res[v] # NoResult
    <3>1. v = w
      BY <1>3, <1>6, <2>1
    <3>. QED
      BY <1>6, <3>1
  <2>. QED
    BY <2>1 DEF Compared, Position
<1>7. ASSUME \A w \in Worker : pos[w] = 0
      PROVE  Compared = 1..Len(taken)
  BY <1>7 DEF Compared, Position
<1>. QED
  BY <1>1, <1>4, <1>5, <1>6, <1>7 DEF AllButLast

(* dealMessage compares: utils.cc 41-94.                                    *)
LEMMA CompareKeepsWindow ==
  ASSUME OrderInv, WindowInv, NEW w \in Worker, Compare(w)
  PROVE  WindowInv'
<1> DEFINE n == pos[w]
           c == Contract[taken[n]]
           d == 1..(n - 1)
<1>1. /\ n # 0 /\ res[w] = NoResult /\ taken \in Seq(Tick)
      /\ taken' = taken /\ made' = made /\ pos' = pos
      /\ queueMap' = [queueMap EXCEPT ![c] = [s \in Span |-> Window(@[s], n, s)]]
  BY DEF Compare, OrderInv
<1>2. /\ Compared = d /\ n \in 1..Len(taken) /\ n = Len(taken)
      /\ Len(taken) \in Nat
  BY <1>1, ComparedPositions DEF AllButLast
<1>3. c \in Contracts
  BY <1>1, <1>2, TimesAndSpans
<1>4. /\ queueMap \in [Contracts -> [Span -> Seq(d)]]
      /\ Windows(taken, d, queueMap)
      /\ \A v \in Worker : res[v] # NoResult => InWindow(taken, res[v])
      /\ \A i \in 1..Len(made) : InWindow(taken, made[i])
  BY <1>2 DEF WindowInv
<1>5. \A s \in Span :
        /\ IsWindow(taken, d, queueMap[c][s], c, s)
        /\ \A l \in Span : l >= s => IsSuffix(queueMap[c][s], queueMap[c][l])
  BY <1>3, <1>4 DEF Windows
<1> DEFINE x == [n |-> n, ref |-> [s \in Span |-> Front(queueMap[c][s], n, s)]]
<1>6. res' = [res EXCEPT ![w] = x]
  BY DEF Compare
<1>7. InWindow(taken, x)
  BY <1>1, <1>2, <1>5, NewInWindow
<1>8. x # NoResult
  <2>1. x.n # NoResult.n
    BY <1>1 DEF NoResult
  <2>. QED
    BY <2>1
<1> HIDE DEF x
<1>9. \E S : res \in [Worker -> S]
  BY DEF OrderInv
<1>10. res'[w] = x /\ \A v \in Worker : v # w => res'[v] = res[v]
  BY <1>6, <1>9
<1>11. OrderInv'
  BY CompareKeepsOrder
<1>12. AllButLast'
  BY <1>11, ComparedPositions, PTL
<1>13. Compared' = 1..n
  BY <1>1, <1>2, <1>8, <1>10, <1>12 DEF AllButLast
<1>14. d \cup {n} = 1..n /\ d \in SUBSET (1..(n - 1))
  BY <1>2
<1> DEFINE new == [s \in Span |-> Window(queueMap[c][s], n, s)]
<1>15. /\ queueMap'[c] = new
       /\ \A b \in Contracts : b # c => queueMap'[b] = queueMap[b]
       /\ DOMAIN queueMap' = Contracts
       /\ queueMap' = [b \in Contracts |-> queueMap'[b]]
  BY <1>1, <1>3, <1>4
<1>16. \A s \in Span : new[s] = Window(queueMap[c][s], n, s)
  OBVIOUS
<1>17. \A s \in Span : IsWindow(taken, 1..n, new[s], c, s)
  <2> HIDE DEF new
  <2>. QED
    BY <1>1, <1>2, <1>5, <1>14, <1>16, WindowStaysWindow
<1>18. \A s \in Span : \A l \in Span : l >= s => IsSuffix(new[s], new[l])
  <2>1. \A s \in Span : queueMap[c][s] \in Seq(1..Len(taken))
    <3>1. \A s \in Span : queueMap[c][s] \in Seq(d)
      BY <1>5 DEF IsWindow
    <3>2. d \subseteq 1..Len(taken)
      BY <1>2
    <3> HIDE DEF d
    <3>. QED
      BY <3>1, <3>2, SeqWidens
  <2> HIDE DEF new
  <2>. QED
    BY <1>1, <1>2, <1>5, <1>16, <2>1, SuffixStays
<1> HIDE DEF new
<1>19. ASSUME NEW b \in Contracts, NEW s \in Span
       PROVE  /\ IsWindow(taken, 1..n, queueMap'[b][s], b, s)
              /\ \A l \in Span : l >= s => IsSuffix(queueMap'[b][s], queueMap'[b][l])
  <2>1. CASE b = c
    BY <1>15, <1>17, <1>18, <2>1
  <2>2. CASE b # c
    <3>1. /\ IsWindow(taken, d, queueMap[b][s], b, s)
          /\ \A l \in Span : l >= s => IsSuffix(queueMap[b][s], queueMap[b][l])
      BY <1>4 DEF Windows
    <3>2. IsWindow(taken, d \cup {n}, queueMap[b][s], b, s)
      BY <2>2, <3>1, OtherStaysWindow
    <3>. QED
      BY <1>14, <1>15, <2>2, <3>1, <3>2
  <2>. QED
    BY <2>1, <2>2
<1>20. Windows(taken', Compared', queueMap')
  BY <1>1, <1>13, <1>19 DEF Windows
<1>21. queueMap' \in [Contracts -> [Span -> Seq(1..n)]]
  <2>1. \A b \in Contracts : \A s \in Span : queueMap'[b][s] \in Seq(1..n)
    BY <1>19 DEF IsWindow
  <2>2. \A b \in Contracts : queueMap'[b] = [s \in Span |-> queueMap'[b][s]]
    <3>1. new = [s \in Span |-> new[s]]
      BY DEF new
    <3>2. \A b \in Contracts : queueMap[b] = [s \in Span |-> queueMap[b][s]]
      BY <1>4
    <3>. QED
      BY <1>15, <3>1, <3>2
  <2>3. \A b \in Contracts : queueMap'[b] \in [Span -> Seq(1..n)]
    BY <2>1, <2>2
  <2>. QED
    BY <1>15, <2>3
<1>22. \A v \in Worker : res'[v] # NoResult => InWindow(taken', res'[v])
  BY <1>1, <1>4, <1>7, <1>10
<1>23. \A i \in 1..Len(made') : InWindow(taken', made'[i])
  BY <1>1, <1>4
<1>. QED
  BY <1>13, <1>20, <1>21, <1>22, <1>23 DEF WindowInv

(* dealMessage takes a tick, which is not compared yet.                     *)
LEMMA TakeKeepsWindow ==
  ASSUME ListInv, OrderInv, WindowInv, NEW w \in Worker, TakeTick(w)
  PROVE  WindowInv'
<1> DEFINE t == Head(tickList)
<1>1. /\ t \in Tick /\ taken \in Seq(Tick)
      /\ taken' = Append(taken, t) /\ pos[w] = 0 /\ tickMutex = None
      /\ pos' = [pos EXCEPT ![w] = Len(taken) + 1]
      /\ res' = res /\ queueMap' = queueMap /\ made' = made
  BY DEF TakeTick, ListInv, OrderInv
<1>2. Len(taken') = Len(taken) + 1 /\ Len(taken) \in Nat
  BY <1>1, AppendProperties, LenProperties
<1>3. \A v \in Worker : pos[v] = 0 /\ res[v] = NoResult
  BY <1>1, QuoteFeedAssumption DEF OrderInv
<1>4. Compared = 1..Len(taken)
  BY <1>3, ComparedPositions DEF AllButLast
<1>5. OrderInv'
  BY TakeKeepsOrder
<1>6. AllButLast'
  BY <1>5, ComparedPositions, PTL
<1>7. pos'[w] = Len(taken) + 1
  BY <1>1 DEF OrderInv
<1>8. pos'[w] # 0 /\ res'[w] = NoResult
  BY <1>1, <1>2, <1>3, <1>7
<1>9. Compared' = 1..(pos'[w] - 1)
  BY <1>6, <1>8 DEF AllButLast
<1>10. Compared' = Compared
  BY <1>2, <1>4, <1>7, <1>9
<1>11. ASSUME NEW c \in Contracts, NEW s \in Span
       PROVE  /\ IsWindow(taken', Compared, queueMap[c][s], c, s)
              /\ \A l \in Span : l >= s => IsSuffix(queueMap[c][s], queueMap[c][l])
  <2>1. /\ IsWindow(taken, Compared, queueMap[c][s], c, s)
        /\ \A l \in Span : l >= s => IsSuffix(queueMap[c][s], queueMap[c][l])
    BY DEF WindowInv, Windows
  <2>. QED
    BY <1>1, <1>4, <2>1, StaysWindow
<1>12. Windows(taken', Compared', queueMap')
  BY <1>1, <1>10, <1>11 DEF Windows
<1>13. \A v \in Worker : res'[v] # NoResult => InWindow(taken', res'[v])
  BY <1>1, <1>3
<1>14. \A i \in 1..Len(made') : InWindow(taken', made'[i])
  <2>1. \A i \in 1..Len(made) : InWindow(taken, made[i])
    BY DEF WindowInv
  <2>. QED
    BY <1>1, <2>1, StaysInWindow
<1>15. queueMap' \in [Contracts -> [Span -> Seq(Compared')]]
  BY <1>1, <1>10 DEF WindowInv
<1>. QED
  BY <1>12, <1>13, <1>14, <1>15 DEF WindowInv

(* dealMessage queues the result of a comparison made.                      *)
LEMMA PushKeepsWindow ==
  ASSUME OrderInv, WindowInv, NEW w \in Worker, Push(w)
  PROVE  WindowInv'
<1>1. /\ res[w] # NoResult /\ taken' = taken /\ queueMap' = queueMap
      /\ made' = Append(made, res[w])
      /\ res' = [res EXCEPT ![w] = NoResult]
      /\ pos' = [pos EXCEPT ![w] = 0]
  BY DEF Push
<1>2. pos[w] # 0
  BY <1>1 DEF OrderInv
<1>3. Compared = 1..Len(taken)
  BY <1>1, <1>2, ComparedPositions DEF AllButLast
<1>4. OrderInv'
  BY PushKeepsOrder
<1>5. \A v \in Worker : pos'[v] = 0
  <2>1. pos'[w] = 0
    BY <1>1 DEF OrderInv
  <2>2. \A v \in Worker : v # w => pos[v] = 0 /\ pos'[v] = pos[v]
    BY <1>1, <1>2 DEF OrderInv
  <2>. QED
    BY <2>1, <2>2
<1>6. AllButLast'
  BY <1>4, ComparedPositions, PTL
<1>7. Compared' = Compared
  BY <1>1, <1>3, <1>5, <1>6 DEF AllButLast
<1>8. \A v \in Worker : res'[v] # NoResult => InWindow(taken', res'[v])
  <2>1. \E S : res \in [Worker -> S]
    BY DEF OrderInv
  <2>2. res'[w] = NoResult /\ \A v \in Worker : v # w => res'[v] = res[v]
    BY <1>1, <2>1
  <2>. QED
    BY <1>1, <2>2 DEF WindowInv
<1>9. \A i \in 1..Len(made') : InWindow(taken', made'[i])
  <2>1. PICK S : made \in Seq(S)
    BY DEF OrderInv
  <2>2. made \in Seq(S \cup {res[w]})
    BY <2>1
  <2>3. /\ Len(made') = Len(made) + 1 /\ Len(made) \in Nat
        /\ made'[Len(made) + 1] = res[w]
        /\ \A i \in 1..Len(made) : made'[i] = made[i]
    BY <1>1, <2>2
  <2>4. InWindow(taken, res[w]) /\ \A i \in 1..Len(made) : InWindow(taken, made[i])
    BY <1>1 DEF WindowInv
  <2>5. \A i \in 1..Len(made') : i \in 1..Len(made) \/ i = Len(made) + 1
    BY <2>3
  <2>. QED
    BY <1>1, <2>3, <2>4, <2>5
<1>. QED
  BY <1>1, <1>7, <1>8, <1>9 DEF WindowInv

LEMMA WindowInvStep ==
  ListInv /\ OrderInv /\ WindowInv /\ [Next]_vars => WindowInv'
<1> SUFFICES ASSUME ListInv, OrderInv, WindowInv, [Next]_vars PROVE WindowInv'
  OBVIOUS
<1> DEFINE kept == UNCHANGED <<pos, res, queueMap, taken, made>>
<1>1. ASSUME kept PROVE WindowInv'
  <2>1. Compared' = Compared
    BY <1>1 DEF Compared, Position
  <2>. QED
    BY <1>1, <2>1 DEF WindowInv
<1>2. ASSUME NEW f \in Source, NEW t \in Tick, Receive(f, t) PROVE kept
  BY <1>2 DEF Receive, work
<1>3. ASSUME NEW w \in Worker, DealMessage(w) PROVE WindowInv'
  BY <1>3, TakeKeepsWindow, CompareKeepsWindow, PushKeepsWindow DEF DealMessage
<1>4. ASSUME LoopSend PROVE kept
  BY <1>4 DEF LoopSend, PopResult, SendTo, SentAll, work
<1>5. ASSUME NEW c \in Client, Up(c) \/ Down(c) \/ LogIn(c) PROVE kept
  BY <1>5 DEF Up, Down, LogIn, work
<1>6. ASSUME UNCHANGED vars PROVE kept
  BY <1>6 DEF vars, work
<1> HIDE DEF kept
<1>. QED
  BY <1>1, <1>2, <1>3, <1>4, <1>5, <1>6 DEF Next

(* Each price is compared with one of its own contract that is not older    *)
(* than the window, a longer window never gives a newer one, and if the     *)
(* ticks of the contract came in the order of time it is the oldest in the  *)
(* window: utils.cc 41-94.                                                  *)
THEOREM ComparedRightly == Spec => []ComparedInWindow
<1>1. WindowInv /\ OrderInv => ComparedInWindow
  <2> SUFFICES ASSUME WindowInv, OrderInv,
                      NEW i \in 1..Len(made), NEW s \in Span
               PROVE  LET n == made[i].n
                          r == made[i].ref[s]
                          mine == {j \in 1..n : Contract[taken[j]] = Contract[taken[n]]}
                      IN /\ r \in mine /\ ~TooOld(r, n, s)
                         /\ \A l \in Span : l >= s => made[i].ref[l] <= r
                         /\ (\A j, k \in mine :
                               j < k => Time[taken[j]] <= Time[taken[k]]) =>
                              \A j \in mine : j < r => TooOld(j, n, s)
    BY DEF ComparedInWindow
  <2>1. InWindow(taken, made[i])
    BY DEF WindowInv
  <2>2. \A j, n : TooOld(j, n, s) <=> Older(taken, j, n, s)
    BY DEF TooOld, Older
  <2>. QED
    BY <2>1, <2>2, Zenon DEF InWindow, Mine
<1>. QED
  BY <1>1, ListInvInit, ListInvStep, OrderInvInit, OrderInvStep,
     WindowInvInit, WindowInvStep, PTL DEF Spec

-----------------------------------------------------------------------------
(* resQue is what is left of made, loopSend holds the result popped last,   *)
(* and no client is ahead of it.                                            *)
QueueIsRest ==
  /\ Len(resQue) <= Len(made)
  /\ \A i \in 1..Len(resQue) : resQue[i] = made[Popped + i]

SendingIsLast ==
  IF sending = NoResult THEN rest = {}
  ELSE Popped >= 1 /\ sending = made[Popped]

InStep(c) ==
  /\ link[c] = "new" => c \notin checkConns
  /\ c \notin checkConns => out[c] = <<>>
  /\ start[c] + Len(out[c]) <= Popped
  /\ \A i \in 1..Len(out[c]) : out[c][i] = made[start[c] + i]
  /\ c \in checkConns /\ link[c] = "up" /\ ~fault =>
       start[c] + Len(out[c]) = Popped - (IF c \in rest THEN 1 ELSE 0)

(* Types of what loopSend and the server use.                               *)
ServeTypes ==
  /\ resQue \in Seq(Result) /\ made \in Seq(Result)
  /\ sending \in Result
  /\ rest \subseteq checkConns /\ checkConns \subseteq Client
  /\ link \in [Client -> {"new", "up", "down"}]
  /\ out \in [Client -> Seq(Result)]
  /\ start \in [Client -> Nat]
  /\ fault \in BOOLEAN

ServeInv ==
  ServeTypes /\ QueueIsRest /\ SendingIsLast /\ \A c \in Client : InStep(c)

LEMMA NoResultIsResult == NoResult \in Result
BY DEF NoResult, Result

LEMMA ServeInvInit == Init => ServeInv
<1> SUFFICES ASSUME Init PROVE ServeInv
  OBVIOUS
<1>1. /\ resQue = <<>> /\ made = <<>> /\ sending = NoResult /\ rest = {}
      /\ link = [c \in Client |-> "new"] /\ checkConns = {}
      /\ out = [c \in Client |-> <<>>] /\ start = [c \in Client |-> 0]
      /\ fault = FALSE
  BY DEF Init
<1>2. Popped = 0
  BY <1>1 DEF Popped
<1>3. ServeTypes
  <2>1. resQue \in Seq(Result) /\ made \in Seq(Result)
    BY <1>1, EmptySeq
  <2>2. out \in [Client -> Seq(Result)]
    <3>1. <<>> \in Seq(Result)
      BY EmptySeq
    <3>. QED
      BY <1>1, <3>1
  <2>. QED
    BY <1>1, <2>1, <2>2, NoResultIsResult DEF ServeTypes
<1>4. QueueIsRest /\ SendingIsLast
  BY <1>1 DEF QueueIsRest, SendingIsLast
<1>5. \A c \in Client : InStep(c)
  BY <1>1, <1>2 DEF InStep
<1>. QED
  BY <1>3, <1>4, <1>5 DEF ServeInv

(* What is in the queue and has been popped, in numbers.                    *)
LEMMA PoppedIsNat ==
  ASSUME ServeInv
  PROVE  /\ Len(resQue) \in Nat /\ Len(made) \in Nat
         /\ Popped \in Nat /\ Popped + Len(resQue) = Len(made)
         /\ \A c \in Client : start[c] \in Nat /\ Len(out[c]) \in Nat
BY LenProperties DEF ServeInv, ServeTypes, QueueIsRest, Popped

(* dealMessage queues a result: loopSend is not sending.                    *)
LEMMA PushKeepsServe ==
  ASSUME ServeInv, OrderInv, WindowInv, NEW w \in Worker, Push(w)
  PROVE  ServeInv'
<1> DEFINE r == res[w]
<1>1. /\ r # NoResult /\ sending = NoResult
      /\ resQue' = Append(resQue, r) /\ made' = Append(made, r)
      /\ UNCHANGED <<sending, rest, link, checkConns, out, start, fault>>
  BY DEF Push, serve
<1>2. r \in Result
  <2>1. InWindow(taken, r) /\ Len(taken) \in Nat
    BY <1>1, LenProperties DEF WindowInv, OrderInv
  <2> HIDE DEF r
  <2>. QED
    BY <2>1 DEF InWindow, Result
<1> HIDE DEF r
<1>3. /\ resQue \in Seq(Result) /\ made \in Seq(Result) /\ Popped \in Nat
      /\ Len(resQue) \in Nat /\ Len(made) \in Nat
      /\ Popped + Len(resQue) = Len(made)
  BY PoppedIsNat DEF ServeInv, ServeTypes
<1>4. /\ resQue' \in Seq(Result) /\ Len(resQue') = Len(resQue) + 1
      /\ \A i \in 1..Len(resQue) : resQue'[i] = resQue[i]
      /\ resQue'[Len(resQue) + 1] = r
  BY <1>1, <1>2, <1>3, AppendProperties
<1>5. /\ made' \in Seq(Result) /\ Len(made') = Len(made) + 1
      /\ \A i \in 1..Len(made) : made'[i] = made[i]
      /\ made'[Len(made) + 1] = r
  BY <1>1, <1>2, <1>3, AppendProperties
<1>6. Popped' = Popped
  BY <1>3, <1>4, <1>5 DEF Popped
<1>7. ServeTypes'
  BY <1>1, <1>4, <1>5 DEF ServeInv, ServeTypes
<1>8. QueueIsRest'
  <2>1. Len(resQue') <= Len(made')
    BY <1>3, <1>4, <1>5
  <2>2. ASSUME NEW i \in 1..Len(resQue') PROVE resQue'[i] = made'[Popped + i]
    <3>1. CASE i \in 1..Len(resQue)
      <4>1. Popped + i \in 1..Len(made)
        BY <1>3, <3>1
      <4>. QED
        BY <1>4, <1>5, <3>1, <4>1 DEF ServeInv, QueueIsRest
    <3>2. CASE i = Len(resQue) + 1
      <4>1. Popped + i = Len(made) + 1
        BY <1>3, <3>2
      <4>. QED
        BY <1>4, <1>5, <3>2, <4>1
    <3>. QED
      BY <1>3, <1>4, <3>1, <3>2
  <2>. QED
    BY <1>6, <2>1, <2>2 DEF QueueIsRest
<1>9. SendingIsLast'
  BY <1>1 DEF ServeInv, SendingIsLast
<1>10. ASSUME NEW c \in Client PROVE InStep(c)'
  <2>1. start[c] \in Nat /\ Len(out[c]) \in Nat /\ InStep(c)
    BY PoppedIsNat DEF ServeInv
  <2>2. \A i \in 1..Len(out[c]) : start[c] + i \in 1..Len(made)
    BY <1>3, <2>1 DEF InStep
  <2>. QED
    BY <1>1, <1>5, <1>6, <2>1, <2>2 DEF InStep
<1>. QED
  BY <1>7, <1>8, <1>9, <1>10 DEF ServeInv

(* loopSend pops a result: everyone who is logged in has been sent the one  *)
(* before.                                                                  *)
LEMMA PopKeepsServe ==
  ASSUME ServeInv, OrderInv, PopResult
  PROVE  ServeInv'
<1>1. /\ ~fault /\ sending = NoResult /\ resQue # <<>>
      /\ sending' = Head(resQue) /\ rest' = checkConns /\ resQue' = Tail(resQue)
      /\ UNCHANGED <<made, link, checkConns, out, start, fault>>
  BY DEF PopResult, Addressees, work
<1>2. /\ resQue \in Seq(Result) /\ made \in Seq(Result) /\ Popped \in Nat
      /\ Len(resQue) \in Nat /\ Len(made) \in Nat
      /\ Popped + Len(resQue) = Len(made) /\ rest = {}
  BY <1>1, PoppedIsNat DEF ServeInv, ServeTypes, SendingIsLast
<1>3. /\ Len(resQue) >= 1 /\ sending' = resQue[1] /\ sending' \in Result
      /\ resQue' \in Seq(Result) /\ Len(resQue') = Len(resQue) - 1
      /\ \A i \in 1..(Len(resQue) - 1) : resQue'[i] = resQue[i + 1]
  <2>1. Len(resQue) >= 1 /\ 1 \in 1..Len(resQue)
    BY <1>1, <1>2, EmptySeq
  <2>2. resQue[1] \in Result
    BY <1>2, <2>1, ElementOfSeq
  <2>. QED
    BY <1>1, <1>2, <2>1, <2>2, HeadTailProperties
<1>4. Popped' = Popped + 1
  BY <1>1, <1>2, <1>3 DEF Popped
<1>5. Popped + 1 \in 1..Len(made) /\ sending' = made[Popped + 1]
  BY <1>2, <1>3 DEF ServeInv, QueueIsRest
<1>6. sending' # NoResult
  <2>1. made[Popped + 1].n # NoResult.n
    BY <1>2, <1>5 DEF OrderInv, NoResult
  <2>. QED
    BY <1>5, <2>1
<1>7. ServeTypes'
  BY <1>1, <1>3 DEF ServeInv, ServeTypes
<1>8. QueueIsRest'
  <2>1. Len(resQue') <= Len(made')
    BY <1>1, <1>2, <1>3
  <2>2. ASSUME NEW i \in 1..Len(resQue') PROVE resQue'[i] = made'[(Popped + 1) + i]
    <3>1. i \in 1..(Len(resQue) - 1) /\ i + 1 \in 1..Len(resQue)
          /\ (Popped + 1) + i = Popped + (i + 1)
      BY <1>2, <1>3
    <3>. QED
      BY <1>1, <1>3, <3>1 DEF ServeInv, QueueIsRest
  <2>. QED
    BY <1>4, <2>1, <2>2 DEF QueueIsRest
<1>9. SendingIsLast'
  BY <1>1, <1>2, <1>4, <1>5, <1>6 DEF SendingIsLast
<1>10. ASSUME NEW c \in Client PROVE InStep(c)'
  <2>1. start[c] \in Nat /\ Len(out[c]) \in Nat /\ InStep(c)
    BY PoppedIsNat DEF ServeInv
  <2>2. start[c] + Len(out[c]) <= Popped'
    BY <1>2, <1>4, <2>1 DEF InStep
  <2>3. c \in checkConns /\ link[c] = "up" =>
          c \in rest' /\ start[c] + Len(out[c]) = Popped' - 1
    BY <1>1, <1>2, <1>4, <2>1 DEF InStep
  <2>. QED
    BY <1>1, <2>1, <2>2, <2>3 DEF InStep
<1>. QED
  BY <1>7, <1>8, <1>9, <1>10 DEF ServeInv

(* loopSend sends to one of the connections still to come.                  *)
LEMMA SendKeepsServe ==
  ASSUME ServeInv, NEW c \in Client, SendTo(c)
  PROVE  ServeInv'
<1>1. /\ ~fault /\ sending # NoResult /\ c \in rest
      /\ rest' = rest \ {c}
      /\ out' = [out EXCEPT ![c] =
                   IF link[c] = "up" THEN Append(@, sending) ELSE @]
      /\ UNCHANGED <<made, resQue, sending, link, checkConns, start, fault>>
  BY DEF SendTo, work
<1>2. /\ Popped \in Nat /\ Popped' = Popped /\ Popped >= 1
      /\ sending = made[Popped] /\ sending \in Result
      /\ rest \subseteq checkConns /\ c \in checkConns
      /\ out \in [Client -> Seq(Result)]
  BY <1>1, PoppedIsNat DEF ServeInv, ServeTypes, SendingIsLast, Popped
<1>3. /\ out[c] \in Seq(Result) /\ Len(out[c]) \in Nat /\ start[c] \in Nat
      /\ InStep(c)
  BY <1>2, PoppedIsNat DEF ServeInv
<1> DEFINE o == IF link[c] = "up" THEN Append(out[c], sending) ELSE out[c]
<1>4. out'[c] = o /\ \A b \in Client : b # c => out'[b] = out[b]
  BY <1>1, <1>2
<1>5. ASSUME link[c] = "up" PROVE o \in Seq(Result) /\ InStep(c)'
  <2>1. /\ o \in Seq(Result) /\ Len(o) = Len(out[c]) + 1
        /\ \A i \in 1..Len(out[c]) : o[i] = out[c][i]
        /\ o[Len(out[c]) + 1] = sending
    BY <1>2, <1>3, <1>5, AppendProperties
  <2>2. start[c] + Len(out[c]) = Popped - 1
    BY <1>1, <1>2, <1>3, <1>5 DEF InStep
  <2> HIDE DEF o
  <2>3. \A i \in 1..Len(o) : o[i] = made[start[c] + i]
    <3> SUFFICES ASSUME NEW i \in 1..Len(o) PROVE o[i] = made[start[c] + i]
      OBVIOUS
    <3>1. CASE i \in 1..Len(out[c])
      BY <1>3, <2>1, <3>1 DEF InStep
    <3>2. CASE i = Len(out[c]) + 1
      <4>1. start[c] + i = (start[c] + Len(out[c])) + 1
        BY <1>3, <3>2
      <4>2. start[c] + i = Popped
        BY <1>2, <2>2, <4>1
      <4>. QED
        BY <1>2, <2>1, <3>2, <4>2
    <3>. QED
      BY <1>3, <2>1, <3>1, <3>2
  <2>4. start[c] + Len(o) = Popped
    BY <1>2, <1>3, <2>1, <2>2
  <2>5. InStep(c)'
    <3>1. /\ out'[c] = o /\ start'[c] = start[c] /\ made' = made
          /\ c \in checkConns' /\ c \notin rest' /\ link'[c] = "up"
      BY <1>1, <1>2, <1>4, <1>5
    <3>2. start[c] + Len(o) <= Popped'
      BY <1>2, <2>4
    <3>3. start[c] + Len(o) = Popped' - 0
      BY <1>2, <2>4
    <3>. QED
      BY <2>3, <3>1, <3>2, <3>3 DEF InStep
  <2>. QED
    BY <2>1, <2>5
<1>6. ASSUME link[c] # "up" PROVE o \in Seq(Result) /\ InStep(c)'
  <2>1. out'[c] = out[c]
    BY <1>4, <1>6
  <2>2. InStep(c)'
    BY <1>1, <1>2, <1>3, <1>6, <2>1 DEF InStep
  <2>. QED
    BY <1>3, <1>6, <2>2
<1>7. o \in Seq(Result) /\ InStep(c)'
  BY <1>5, <1>6
<1> HIDE DEF o
<1>8. ASSUME NEW b \in Client, b # c PROVE InStep(b)'
  <2>1. InStep(b)
    BY DEF ServeInv
  <2>. QED
    BY <1>1, <1>2, <1>4, <1>8, <2>1 DEF InStep
<1>9. ServeTypes'
  <2>1. out' \in [Client -> Seq(Result)]
    BY <1>1, <1>2, <1>7 DEF o
  <2>. QED
    BY <1>1, <2>1 DEF ServeInv, ServeTypes
<1>10. QueueIsRest' /\ SendingIsLast'
  BY <1>1, <1>2 DEF ServeInv, QueueIsRest, SendingIsLast
<1>. QED
  BY <1>7, <1>8, <1>9, <1>10 DEF ServeInv

(* A client logs in, also in the midst of a walk.                           *)
LEMMA LogInKeepsServe ==
  ASSUME ServeInv, NEW c \in Client, LogIn(c)
  PROVE  ServeInv'
<1>1. /\ link[c] = "up" /\ c \notin checkConns
      /\ checkConns' = checkConns \cup {c}
      /\ UNCHANGED <<made, resQue, sending, link, out>>
  BY DEF LogIn, work
<1>2. /\ Popped \in Nat /\ Popped' = Popped
      /\ rest \subseteq checkConns /\ c \notin rest
      /\ start \in [Client -> Nat] /\ out[c] = <<>>
      /\ sending # NoResult => Popped >= 1
  BY <1>1, PoppedIsNat DEF ServeInv, ServeTypes, SendingIsLast, InStep, Popped
<1>3. \/ /\ start' = [start EXCEPT ![c] = Popped]
         /\ rest' = rest /\ fault' = fault
      \/ /\ sending # NoResult
         /\ start' = [start EXCEPT ![c] = Popped - 1]
         /\ rest' = rest \cup {c} /\ fault' = fault
      \/ /\ sending # NoResult /\ fault' = TRUE
         /\ start' = start /\ rest' = rest
  BY DEF LogIn
<1>4. start' \in [Client -> Nat] /\ \A b \in Client : b # c => start'[b] = start[b]
  BY <1>2, <1>3
<1>5. rest' \subseteq rest \cup {c} /\ fault' \in BOOLEAN /\ (fault => fault')
  BY <1>3 DEF ServeInv, ServeTypes
<1>6. ServeTypes'
  BY <1>1, <1>4, <1>5 DEF ServeInv, ServeTypes
<1>7. QueueIsRest' /\ SendingIsLast'
  BY <1>1, <1>2, <1>3 DEF ServeInv, QueueIsRest, SendingIsLast
<1>8. InStep(c)'
  <2>1. Len(out[c]) = 0 /\ start[c] + 0 <= Popped
    BY <1>2 DEF ServeInv, InStep
  <2>2. start'[c] <= Popped
    BY <1>2, <1>3, <2>1
  <2>3. ~fault' => start'[c] = Popped - (IF c \in rest' THEN 1 ELSE 0)
    BY <1>2, <1>3
  <2>4. start'[c] \in Nat
    BY <1>4
  <2>. QED
    BY <1>1, <1>2, <2>1, <2>2, <2>3, <2>4 DEF InStep
<1>9. ASSUME NEW b \in Client, b # c PROVE InStep(b)'
  <2>1. InStep(b) /\ (b \in rest' <=> b \in rest)
        /\ (b \in checkConns' <=> b \in checkConns)
    BY <1>1, <1>3, <1>9 DEF ServeInv
  <2>. QED
    BY <1>1, <1>2, <1>4, <1>5, <1>9, <2>1 DEF InStep
<1>. QED
  BY <1>6, <1>7, <1>8, <1>9 DEF ServeInv

(* A connection comes up, which is not logged in, or goes down.             *)
LEMMA LinkKeepsServe ==
  ASSUME ServeInv, NEW c \in Client, Up(c) \/ Down(c)
  PROVE  ServeInv'
<1>1. /\ UNCHANGED <<made, resQue, sending, rest, checkConns, out, start, fault>>
      /\ \/ link[c] = "new" /\ link' = [link EXCEPT ![c] = "up"]
         \/ link[c] = "up" /\ link' = [link EXCEPT ![c] = "down"]
  BY DEF Up, Down, work
<1>2. Popped' = Popped
  BY <1>1 DEF Popped
<1>3. /\ link' \in [Client -> {"new", "up", "down"}]
      /\ \A b \in Client : b # c => link'[b] = link[b]
      /\ link[c] = "new" => link'[c] = "up"
      /\ link[c] = "up" => link'[c] = "down"
  BY <1>1 DEF ServeInv, ServeTypes
<1>4. ServeTypes' /\ QueueIsRest' /\ SendingIsLast'
  BY <1>1, <1>2, <1>3
     DEF ServeInv, ServeTypes, QueueIsRest, SendingIsLast
<1>5. ASSUME NEW b \in Client PROVE InStep(b)'
  <2>1. InStep(b)
    BY DEF ServeInv
  <2>2. link'[b] = "new" => link[b] = "new"
    BY <1>1, <1>3
  <2>3. b \in checkConns /\ link'[b] = "up" => link[b] = "up"
    BY <1>1, <1>3, <2>1 DEF InStep
  <2>. QED
    BY <1>1, <1>2, <2>1, <2>2, <2>3 DEF InStep
<1>. QED
  BY <1>4, <1>5 DEF ServeInv

LEMMA ServeInvStep ==
  OrderInv /\ WindowInv /\ ServeInv /\ [Next]_vars => ServeInv'
<1> SUFFICES ASSUME OrderInv, WindowInv, ServeInv, [Next]_vars PROVE ServeInv'
  OBVIOUS
<1>1. ASSUME UNCHANGED <<made, resQue, serve>> PROVE ServeInv'
  <2>1. UNCHANGED <<made, resQue, sending, rest, link, checkConns, out, start, fault>>
    BY <1>1 DEF serve
  <2>2. Popped' = Popped
    BY <2>1 DEF Popped
  <2>. QED
    BY <2>1, <2>2
       DEF ServeInv, ServeTypes, QueueIsRest, SendingIsLast, InStep
<1>2. ASSUME NEW f \in Source, NEW t \in Tick, Receive(f, t) PROVE ServeInv'
  BY <1>1, <1>2 DEF Receive, work
<1>3. ASSUME NEW w \in Worker, DealMessage(w) PROVE ServeInv'
  <2>1. CASE TakeTick(w)
    BY <1>1, <2>1 DEF TakeTick
  <2>2. CASE Compare(w)
    BY <1>1, <2>2 DEF Compare
  <2>3. CASE Push(w)
    BY <2>3, PushKeepsServe
  <2>. QED
    BY <1>3, <2>1, <2>2, <2>3 DEF DealMessage
<1>4. CASE LoopSend
  <2>1. CASE SentAll
    <3>1. /\ sending # NoResult /\ rest = {} /\ sending' = NoResult
          /\ UNCHANGED <<made, resQue, rest, link, checkConns, out, start, fault>>
      BY <2>1 DEF SentAll, work
    <3>2. Popped' = Popped
      BY <3>1 DEF Popped
    <3>3. ServeTypes' /\ QueueIsRest' /\ SendingIsLast'
      BY <3>1, <3>2, NoResultIsResult
         DEF ServeInv, ServeTypes, QueueIsRest, SendingIsLast
    <3>4. \A c \in Client : InStep(c)'
      BY <3>1, <3>2 DEF ServeInv, InStep
    <3>. QED
      BY <3>3, <3>4 DEF ServeInv
  <2>. QED
    BY <1>4, <2>1, PopKeepsServe, SendKeepsServe DEF LoopSend
<1>5. ASSUME NEW c \in Client, Up(c) \/ Down(c) \/ LogIn(c) PROVE ServeInv'
  BY <1>5, LinkKeepsServe, LogInKeepsServe
<1>6. CASE UNCHANGED vars
  BY <1>1, <1>6 DEF vars, work
<1>. QED
  BY <1>1, <1>2, <1>3, <1>4, <1>5, <1>6 DEF Next

(* A client is sent, without gaps, the results popped since it logged in    *)
(* until it went down, and nobody else is sent any, although the set is     *)
(* changed while loopSend walks through it: server.cc, loopSend.            *)
THEOREM SentInStep == Spec => []SentSinceLogin
<1>1. ServeInv => SentSinceLogin
  BY DEF ServeInv, InStep, SentSinceLogin
<1>. QED
  BY <1>1, ListInvInit, ListInvStep, OrderInvInit, OrderInvStep,
     WindowInvInit, WindowInvStep, ServeInvInit, ServeInvStep, PTL DEF Spec

-----------------------------------------------------------------------------
(* What the sources have sent is of their own ticks.                        *)
SentByThem == received \in [Source -> SUBSET Tick]

LEMMA SentByThemInit == Init => SentByThem
BY DEF Init, SentByThem

LEMMA SentByThemStep == SentByThem /\ [Next]_vars => SentByThem'
<1> SUFFICES ASSUME SentByThem, [Next]_vars PROVE SentByThem'
  OBVIOUS
<1>1. ASSUME NEW f \in Source, NEW t \in Tick, Receive(f, t) PROVE SentByThem'
  BY <1>1 DEF Receive, SentByThem
<1>2. ASSUME NEW w \in Worker, DealMessage(w) PROVE SentByThem'
  BY <1>2 DEF DealMessage, TakeTick, Compare, Push, feed, SentByThem
<1>3. CASE LoopSend
  BY <1>3 DEF LoopSend, PopResult, SendTo, SentAll, feed, SentByThem
<1>4. ASSUME NEW c \in Client, Up(c) \/ Down(c) \/ LogIn(c) PROVE SentByThem'
  BY <1>4 DEF Up, Down, LogIn, feed, SentByThem
<1>5. CASE UNCHANGED vars
  BY <1>5 DEF vars, feed, SentByThem
<1>. QED
  BY <1>1, <1>2, <1>3, <1>4, <1>5 DEF Next

(* The variables keep their types: what was a bounded set of positions in   *)
(* the runs is the length of the history here.                              *)
THEOREM TypeCorrect == Spec => []TypeOK
<1>1. ASSUME ListInv, OrderInv, WindowInv, ServeInv, SentByThem PROVE TypeOK
  <2>1. /\ received \in [Source -> SUBSET Tick]
        /\ tickList \in Seq(Tick) /\ taken \in Seq(Tick)
        /\ tickMutex \in Worker \cup {None}
    BY <1>1 DEF ListInv, OrderInv, SentByThem
  <2>2. tickSet \subseteq Tick
    <3>1. \A i \in 1..Len(tickList) : tickList[i] \in Tick
      BY <2>1, ElementOfSeq
    <3>. QED
      BY <1>1, <3>1 DEF ListInv, Elems
  <2>3. pos \in [Worker -> Position \cup {0}]
    <3>1. \A w \in Worker : pos[w] \in Position \cup {0}
      <4>1. Len(taken) \in Nat /\ \A w \in Worker : pos[w] \in Nat
        BY <1>1, <2>1, LenProperties DEF OrderInv
      <4>2. \A w \in Worker : pos[w] # 0 => pos[w] = Len(taken)
        BY <1>1 DEF OrderInv
      <4>. QED
        BY <4>1, <4>2 DEF Position
    <3>. QED
      BY <1>1, <3>1 DEF OrderInv
  <2>4. \A x : InWindow(taken, x) =>
          x \in [n : Position, ref : [Span -> Position]] /\ x \in Result
    <3>1. Len(taken) \in Nat
      BY <2>1, LenProperties
    <3>. QED
      BY <3>1 DEF InWindow, Position, Result
  <2>5. res \in [Worker -> Result]
    <3>1. \A w \in Worker : res[w] \in Result
      BY <1>1, <2>4, NoResultIsResult DEF WindowInv
    <3>. QED
      BY <1>1, <3>1 DEF OrderInv
  <2>6. queueMap \in [{Contract[t] : t \in Tick} -> [Span -> Seq(Position)]]
    <3>1. Compared \subseteq Position
      BY DEF Compared
    <3>2. \A x \in Seq(Compared) : x \in Seq(Position)
      <4> HIDE DEF Compared, Position
      <4>. QED
        BY <3>1, SeqWidens
    <3>3. queueMap \in [Contracts -> [Span -> Seq(Compared)]]
      BY <1>1 DEF WindowInv
    <3>. QED
      BY <3>2, <3>3 DEF Contracts
  <2>7. \A i \in 1..Len(made) :
          made[i] \in [n : Position, ref : [Span -> Position]]
    BY <1>1, <2>4 DEF WindowInv
  <2>8. /\ resQue \in Seq(Result) /\ made \in Seq(Result)
        /\ sending \in Result /\ rest \subseteq Client
        /\ link \in [Client -> {"new", "up", "down"}]
        /\ checkConns \subseteq Client
        /\ out \in [Client -> Seq(Result)] /\ start \in [Client -> Nat]
        /\ fault \in BOOLEAN
    BY <1>1 DEF ServeInv, ServeTypes
  <2>. QED
    BY <2>1, <2>2, <2>3, <2>5, <2>6, <2>7, <2>8 DEF TypeOK
<1>. QED
  BY <1>1, ListInvInit, ListInvStep, OrderInvInit, OrderInvStep,
     WindowInvInit, WindowInvStep, ServeInvInit, ServeInvStep,
     SentByThemInit, SentByThemStep, PTL DEF Spec

=============================================================================
