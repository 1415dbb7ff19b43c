-------------------------- MODULE DelimiterProofs --------------------------
(***************************************************************************)
(* Proofs that the codec of DelimiterCodec gives the callback the messages *)
(* that were sent, wherever TCP cuts the stream, and that a put of         *)
(* DelimiterServer that nothing disturbed leaves its row, for any number   *)
(* of connections, workers and users and any messages.                     *)
(***************************************************************************)
EXTENDS DelimiterServer, WellFoundedInduction, TLAPS

-----------------------------------------------------------------------------
(* The delimiter's place.                                                   *)

LEMMA DeliIs == /\ deliLen = 4 /\ Len(deli) = 4 /\ deli \in Seq(Piece)
                /\ deli[1] = "@" /\ deli[2] = "%" /\ deli[3] = "&" /\ deli[4] = ")"
<1>1. deli \in Seq(Piece)
  BY PieceAssumption DEF deli
<1> QED BY <1>1 DEF deli, deliLen

LEMMA Concatenated ==
  ASSUME NEW s \in Seq(Piece), NEW t \in Seq(Piece)
  PROVE  /\ s \o t \in Seq(Piece)
         /\ Len(s \o t) = Len(s) + Len(t)
         /\ \A i \in 1..Len(s) : (s \o t)[i] = s[i]
         /\ \A i \in 1..Len(t) : (s \o t)[Len(s) + i] = t[i]
OBVIOUS

LEMMA DeliFollows ==
  ASSUME NEW s \in Seq(Piece)
  PROVE  /\ s \o deli \in Seq(Piece)
         /\ Len(s \o deli) = Len(s) + 4
         /\ \A i \in 1..Len(s) : (s \o deli)[i] = s[i]
         /\ \A i \in 1..4 : (s \o deli)[Len(s) + i] = deli[i]
<1>1. deli \in Seq(Piece) /\ Len(deli) = 4
  BY DeliIs
<1>2. /\ s \o deli \in Seq(Piece)
      /\ Len(s \o deli) = Len(s) + Len(deli)
      /\ \A i \in 1..Len(s) : (s \o deli)[i] = s[i]
      /\ \A i \in 1..Len(deli) : (s \o deli)[Len(s) + i] = deli[i]
  <2> DEFINE t == deli
  <2>1. t \in Seq(Piece)
    BY <1>1
  <2> HIDE DEF t
  <2>2. /\ s \o t \in Seq(Piece)
        /\ Len(s \o t) = Len(s) + Len(t)
        /\ \A i \in 1..Len(s) : (s \o t)[i] = s[i]
        /\ \A i \in 1..Len(t) : (s \o t)[Len(s) + i] = t[i]
    BY <2>1, Concatenated
  <2> QED BY <2>2 DEF t
<1> QED BY <1>1, <1>2

(* The delimiter begins at i, byte by byte.                                 *)
Begins(b, i) == b[i] = "@" /\ b[i + 1] = "%" /\ b[i + 2] = "&" /\ b[i + 3] = ")"

LEMMA PlaceBegins ==
  ASSUME NEW b \in Seq(Piece), NEW i \in Int
  PROVE  i \in Places(b) <=> i \in 1..(Len(b) - 3) /\ Begins(b, i)
<1>1. i \in Places(b) <=> i \in 1..(Len(b) - 3) /\ SubSeq(b, i, i + 3) = deli
  BY DeliIs DEF Places
<1>2. ASSUME i \in 1..(Len(b) - 3)
      PROVE  SubSeq(b, i, i + 3) = deli <=> Begins(b, i)
  <2> DEFINE s == SubSeq(b, i, i + 3)
  <2>1. s \in Seq(Piece) /\ Len(s) = 4
    BY <1>2
  <2>2. s[1] = b[i] /\ s[2] = b[i + 1] /\ s[3] = b[i + 2] /\ s[4] = b[i + 3]
    BY <1>2
  <2>3. s = deli <=> \A j \in 1..4 : s[j] = deli[j]
    BY <2>1, DeliIs
  <2> QED BY <2>2, <2>3, DeliIs DEF Begins
<1> QED BY <1>1, <1>2

(* Behind a message that does not hold the delimiter, the first delimiter   *)
(* is the one that ends it: the message's end cannot be part of another,    *)
(* for the delimiter's first byte is none of its others.                    *)
LEMMA FirstEndsMessage ==
  ASSUME NEW m \in Seq(Piece), Whole(m), NEW b \in Seq(Piece), Places(b) # {},
         \A j \in 1..Len(m) : j <= Len(b) => b[j] = m[j],
         \A j \in 1..4 : Len(m) + j <= Len(b) => b[Len(m) + j] = deli[j]
  PROVE  /\ First(b) = Len(m) + 1
         /\ Len(m) + 4 <= Len(b)
<1>1. \A i \in Places(b) : i \in 1..(Len(b) - 3) /\ Begins(b, i)
  BY PlaceBegins, DeliIs DEF Places
<1>2. ASSUME NEW i \in Places(b)
      PROVE  i >= Len(m) + 1
  <2> SUFFICES ASSUME i <= Len(m) PROVE FALSE
    BY <1>1
  <2>1. i \in 1..(Len(b) - 3) /\ Begins(b, i)
    BY <1>1
  <2>2. CASE i + 3 <= Len(m)
    <3>0. /\ {i, i + 1, i + 2, i + 3} \subseteq 1..Len(m)
          /\ i <= Len(b) /\ i + 1 <= Len(b) /\ i + 2 <= Len(b) /\ i + 3 <= Len(b)
      BY <2>1, <2>2
    <3>1. m[i] = b[i] /\ m[i + 1] = b[i + 1] /\ m[i + 2] = b[i + 2] /\ m[i + 3] = b[i + 3]
      BY <3>0
    <3>2. i \in Places(m)
      BY <2>1, <2>2, <3>1, PlaceBegins DEF Begins
    <3> QED BY <3>2 DEF Whole
  <2>3. CASE i + 3 > Len(m)
    <3>1. b[Len(m) + 1] = "@"
      BY <2>1, <2>3, DeliIs
    <3>2. \/ Len(m) + 1 = i + 1
          \/ Len(m) + 1 = i + 2
          \/ Len(m) + 1 = i + 3
      BY <2>1, <2>3
    <3> QED BY <2>1, <3>1, <3>2 DEF Begins
  <2> QED BY <2>1, <2>2, <2>3
<1>3. Len(m) + 4 <= Len(b) /\ Len(m) + 1 \in Places(b)
  <2>1. Len(m) + 4 <= Len(b)
    <3>1. PICK i \in Places(b) : TRUE
      OBVIOUS
    <3>2. i \in 1..(Len(b) - 3) /\ i >= Len(m) + 1
      BY <1>1, <1>2
    <3> QED BY <3>2
  <2>2. Begins(b, Len(m) + 1)
    BY <2>1, DeliIs DEF Begins
  <2> QED BY <2>1, <2>2, PlaceBegins
<1>4. /\ Len(m) + 1 \in Places(b)
      /\ \A j \in Places(b) : Len(m) + 1 <= j
  BY <1>1, <1>2, <1>3
<1>5. First(b) \in Places(b) /\ \A j \in Places(b) : First(b) <= j
  BY <1>4 DEF First
<1>6. First(b) \in Int
  BY <1>1, <1>5
<1> QED BY <1>2, <1>3, <1>4, <1>5, <1>6

-----------------------------------------------------------------------------
(***************************************************************************)
(* The stream.                                                             *)
(***************************************************************************)

CodecType ==
  /\ sent \in [Conn -> Seq(Messages)]
  /\ wire \in [Conn -> Seq(Piece)]
  /\ buf \in [Conn -> Seq(Piece)]
  /\ reading \in [Conn -> BOOLEAN]
  /\ got \in [Conn -> Seq(Seq(Piece))]

(* The stream that is not read yet: what is in the buffer b, then what is   *)
(* on the wire w.                                                           *)
At(b, w, i) == IF i <= Len(b) THEN b[i] ELSE w[i - Len(b)]

(* The messages ms after the first k make up the stream; the i-th one and   *)
(* its delimiter end at P[i].                                               *)
EndsAt(ms, k, b, w, P) ==
  /\ P \in [Nat -> Int]
  /\ P[k] = 0
  /\ P[Len(ms)] = Len(b) + Len(w)
  /\ \A i, j \in k..Len(ms) : i <= j => P[i] <= P[j]
  /\ \A i \in (k + 1)..Len(ms) :
       /\ P[i] = P[i - 1] + Len(ms[i]) + 4
       /\ \A j \in 1..Len(ms[i]) : At(b, w, P[i - 1] + j) = ms[i][j]
       /\ \A j \in 1..4 : At(b, w, P[i - 1] + Len(ms[i]) + j) = deli[j]

(* The messages got are the first of ms, and the others follow.             *)
InStep(ms, g, b, w) ==
  /\ Len(g) <= Len(ms)
  /\ \A i \in 1..Len(g) : g[i] = ms[i]
  /\ \E P : EndsAt(ms, Len(g), b, w, P)

AllWhole(ms) == \A i \in 1..Len(ms) : Whole(ms[i])

LEMMA SentInStep ==
  ASSUME NEW ms \in Seq(Messages), NEW m \in Messages, NEW g \in Seq(Seq(Piece)),
         NEW b \in Seq(Piece), NEW w \in Seq(Piece), InStep(ms, g, b, w)
  PROVE  InStep(Append(ms, m), g, b, w \o m \o deli)
<1> DEFINE n == Len(ms)
           l == Len(b) + Len(w)
           nms == Append(ms, m)
           nw == w \o m \o deli
<1>1. PICK P : EndsAt(ms, Len(g), b, w, P)
  BY DEF InStep
<1> DEFINE Q == [P EXCEPT ![n + 1] = l + Len(m) + 4]
<1>2. /\ n \in Nat /\ Len(g) \in Nat /\ Len(b) \in Nat /\ Len(w) \in Nat
      /\ m \in Seq(Piece) /\ Len(m) \in Nat
  BY PieceAssumption
<1>3. /\ Len(nms) = n + 1 /\ nms[n + 1] = m
      /\ \A i \in 1..n : nms[i] = ms[i]
  BY <1>2
<1>4. /\ nw \in Seq(Piece) /\ Len(nw) = Len(w) + Len(m) + 4
      /\ \A i \in 1..Len(w) : nw[i] = w[i]
      /\ \A i \in 1..Len(m) : nw[Len(w) + i] = m[i]
      /\ \A i \in 1..4 : nw[Len(w) + Len(m) + i] = deli[i]
  <2> DEFINE wm == w \o m
  <2>1. /\ wm \in Seq(Piece) /\ Len(wm) = Len(w) + Len(m)
        /\ \A i \in 1..Len(w) : wm[i] = w[i]
        /\ \A i \in 1..Len(m) : wm[Len(w) + i] = m[i]
    BY <1>2, Concatenated
  <2>2. nw = wm \o deli
    OBVIOUS
  <2> HIDE DEF wm, nw
  <2>3. /\ nw \in Seq(Piece) /\ Len(nw) = Len(wm) + 4
        /\ \A i \in 1..Len(wm) : nw[i] = wm[i]
        /\ \A i \in 1..4 : nw[Len(wm) + i] = deli[i]
    BY <2>1, <2>2, DeliFollows
  <2>4. \A i \in 1..Len(w) : i \in 1..Len(wm)
    BY <1>2, <2>1
  <2>5. \A i \in 1..Len(m) : Len(w) + i \in 1..Len(wm)
    BY <1>2, <2>1
  <2>6. nw \in Seq(Piece) /\ Len(nw) = Len(w) + Len(m) + 4
    BY <2>1, <2>3
  <2>7. \A i \in 1..Len(w) : nw[i] = w[i]
    BY <2>1, <2>3, <2>4
  <2>8. \A i \in 1..Len(m) : nw[Len(w) + i] = m[i]
    BY <2>1, <2>3, <2>5
  <2>9. \A i \in 1..4 : nw[Len(w) + Len(m) + i] = deli[i]
    BY <2>1, <2>3
  <2> QED BY <2>6, <2>7, <2>8, <2>9
<1> HIDE DEF nms, nw
<1>5. /\ \A i \in 1..l : At(b, nw, i) = At(b, w, i)
      /\ \A i \in 1..Len(m) : At(b, nw, l + i) = m[i]
      /\ \A i \in 1..4 : At(b, nw, l + Len(m) + i) = deli[i]
  <2>1. ASSUME NEW i \in 1..l PROVE At(b, nw, i) = At(b, w, i)
    <3>1. CASE i <= Len(b)
      BY <3>1 DEF At
    <3>2. CASE i > Len(b)
      <4>1. ~(i <= Len(b)) /\ i - Len(b) \in 1..Len(w)
        BY <1>2, <3>2
      <4>2. nw[i - Len(b)] = w[i - Len(b)]
        BY <1>4, <4>1
      <4> QED BY <4>1, <4>2 DEF At
    <3> QED BY <1>2, <3>1, <3>2
  <2>2. ASSUME NEW i \in 1..Len(m) PROVE At(b, nw, l + i) = m[i]
    <3>1. l + i > Len(b) /\ l + i - Len(b) = Len(w) + i
      BY <1>2
    <3> QED BY <1>4, <3>1 DEF At
  <2>3. ASSUME NEW i \in 1..4 PROVE At(b, nw, l + Len(m) + i) = deli[i]
    <3>1. ~(l + Len(m) + i <= Len(b)) /\ l + Len(m) + i - Len(b) = Len(w) + Len(m) + i
      BY <1>2
    <3>2. nw[Len(w) + Len(m) + i] = deli[i]
      BY <1>4
    <3> QED BY <3>1, <3>2 DEF At
  <2> QED BY <2>1, <2>2, <2>3
<1>6. /\ Q \in [Nat -> Int] /\ Q[n + 1] = l + Len(m) + 4
      /\ \A i \in 0..n : Q[i] = P[i]
  BY <1>1, <1>2 DEF EndsAt
<1> HIDE DEF Q
<1>7. /\ Len(g) <= n /\ l \in Nat
      /\ P \in [Nat -> Int] /\ P[Len(g)] = 0 /\ P[n] = l
      /\ \A i, j \in Len(g)..n : i <= j => P[i] <= P[j]
  <2>1. Len(g) <= n
    BY DEF InStep
  <2>2. /\ P \in [Nat -> Int] /\ P[Len(g)] = 0 /\ P[n] = l
        /\ \A i, j \in Len(g)..n : i <= j => P[i] <= P[j]
    BY <1>1 DEF EndsAt
  <2> QED BY <1>2, <2>1, <2>2
<1>8. ASSUME NEW i \in Len(g)..n PROVE P[i] \in Nat /\ P[i] <= l
  <2>1. i \in Nat /\ Len(g) \in Len(g)..n /\ n \in Len(g)..n /\ Len(g) <= i /\ i <= n
    BY <1>2, <1>7
  <2>2. P[Len(g)] <= P[i] /\ P[i] <= P[n] /\ P[i] \in Int
    BY <1>7, <2>1
  <2> QED BY <1>7, <2>2
<1>9. ASSUME NEW i \in (Len(g) + 1)..n
      PROVE  /\ ms[i] \in Seq(Piece) /\ Len(ms[i]) \in Nat
             /\ P[i] = P[i - 1] + Len(ms[i]) + 4
             /\ \A j \in 1..Len(ms[i]) : At(b, nw, P[i - 1] + j) = ms[i][j]
             /\ \A j \in 1..4 : At(b, nw, P[i - 1] + Len(ms[i]) + j) = deli[j]
  <2>1. i \in 1..n /\ i - 1 \in Len(g)..n /\ i \in Len(g)..n
    BY <1>2, <1>7
  <2>2. ms[i] \in Seq(Piece) /\ Len(ms[i]) \in Nat
    <3>1. ms[i] \in Messages
      BY <2>1
    <3> QED BY <3>1, PieceAssumption
  <2>3. /\ P[i] = P[i - 1] + Len(ms[i]) + 4
        /\ \A j \in 1..Len(ms[i]) : At(b, w, P[i - 1] + j) = ms[i][j]
        /\ \A j \in 1..4 : At(b, w, P[i - 1] + Len(ms[i]) + j) = deli[j]
    BY <1>1 DEF EndsAt
  <2>4. P[i - 1] \in Nat /\ P[i] <= l
    BY <1>8, <2>1
  <2> DEFINE p == P[i - 1]
             k == Len(ms[i])
  <2>5. p \in Nat /\ k \in Nat /\ l \in Nat /\ p + k + 4 <= l
    BY <1>7, <2>2, <2>3, <2>4
  <2>6. /\ \A j \in 1..k : p + j \in 1..l
        /\ \A j \in 1..4 : p + k + j \in 1..l
    <3> HIDE DEF p, k, l
    <3> QED BY <2>5
  <2> QED BY <1>5, <2>2, <2>3, <2>6
<1> HIDE DEF n, l
<1>10. EndsAt(nms, Len(g), b, nw, Q)
  <2>1. Q[Len(g)] = 0 /\ Q[n + 1] = Len(b) + Len(nw)
    <3>1. Len(g) \in 0..n
      BY <1>2, <1>7
    <3> QED BY <1>2, <1>4, <1>6, <1>7, <3>1 DEF l
  <2>2. ASSUME NEW i \in Len(g)..(n + 1), NEW j \in Len(g)..(n + 1), i <= j
        PROVE  Q[i] <= Q[j]
    <3>1. CASE j = n + 1 /\ i = n + 1
      BY <1>2, <1>6, <1>7, <3>1
    <3>2. CASE j = n + 1 /\ i # n + 1
      <4>1. i \in Len(g)..n /\ i \in 0..n
        BY <1>2, <1>7, <3>2
      <4>2. P[i] \in Nat /\ P[i] <= l
        BY <1>8, <4>1
      <4> QED BY <1>2, <1>6, <1>7, <3>2, <4>1, <4>2
    <3>3. CASE j # n + 1
      <4>1. {i, j} \subseteq Len(g)..n /\ {i, j} \subseteq 0..n
        BY <1>2, <1>7, <2>2, <3>3
      <4> QED BY <1>6, <1>7, <2>2, <4>1
    <3> QED BY <3>1, <3>2, <3>3
  <2>3. ASSUME NEW i \in (Len(g) + 1)..(n + 1)
        PROVE  /\ Q[i] = Q[i - 1] + Len(nms[i]) + 4
               /\ \A j \in 1..Len(nms[i]) : At(b, nw, Q[i - 1] + j) = nms[i][j]
               /\ \A j \in 1..4 : At(b, nw, Q[i - 1] + Len(nms[i]) + j) = deli[j]
    <3>1. CASE i = n + 1
      <4>1. i - 1 = n /\ n \in 0..n
        BY <1>2, <3>1
      <4>2. nms[i] = m /\ Q[i - 1] = l /\ Q[i] = l + Len(m) + 4
        BY <1>3, <1>6, <1>7, <3>1, <4>1
      <4> QED BY <4>2, <1>5
    <3>2. CASE i # n + 1
      <4>1. i \in (Len(g) + 1)..n /\ i \in 1..n /\ i \in 0..n /\ i - 1 \in 0..n
        BY <1>2, <1>7, <3>2
      <4>2. nms[i] = ms[i] /\ Q[i] = P[i] /\ Q[i - 1] = P[i - 1]
        BY <1>3, <1>6, <4>1
      <4> QED BY <1>9, <4>1, <4>2
    <3> QED BY <3>1, <3>2
  <2> QED BY <1>3, <1>6, <2>1, <2>2, <2>3 DEF EndsAt
<1>11. /\ Len(g) <= Len(nms)
       /\ \A i \in 1..Len(g) : g[i] = nms[i]
  <2>1. /\ Len(g) <= n
        /\ \A i \in 1..Len(g) : g[i] = ms[i]
    BY DEF InStep, n
  <2>2. ASSUME NEW i \in 1..Len(g) PROVE i \in 1..n
    BY <1>2, <2>1
  <2>3. Len(g) <= Len(nms)
    BY <1>2, <1>3, <2>1
  <2>4. ASSUME NEW i \in 1..Len(g) PROVE g[i] = nms[i]
    BY <1>3, <2>1, <2>2
  <2> QED BY <2>3, <2>4
<1> QED BY <1>10, <1>11 DEF InStep, nms, nw
(* Bytes that arrive move the cut, not the stream.                          *)
LEMMA ArrivedInStep ==
  ASSUME NEW ms \in Seq(Messages), NEW g \in Seq(Seq(Piece)),
         NEW b \in Seq(Piece), NEW w \in Seq(Piece), InStep(ms, g, b, w),
         NEW n \in 1..Len(w)
  PROVE  InStep(ms, g, b \o SubSeq(w, 1, n), SubSeq(w, n + 1, Len(w)))
<1> DEFINE x == SubSeq(w, 1, n)
           nb == b \o x
           nw == SubSeq(w, n + 1, Len(w))
<1>1. /\ Len(b) \in Nat /\ Len(w) \in Nat /\ n \in Nat
      /\ x \in Seq(Piece) /\ Len(x) = n /\ \A i \in 1..n : x[i] = w[i]
  OBVIOUS
<1>2. /\ nw \in Seq(Piece) /\ Len(nw) = Len(w) - n
      /\ \A i \in 1..(Len(w) - n) : nw[i] = w[n + i]
  OBVIOUS
<1> HIDE DEF x, nw
<1>3. /\ nb \in Seq(Piece) /\ Len(nb) = Len(b) + n
      /\ \A i \in 1..Len(b) : nb[i] = b[i]
      /\ \A i \in 1..n : nb[Len(b) + i] = x[i]
  BY <1>1, Concatenated
<1> HIDE DEF nb
<1>4. ASSUME NEW i \in 1..(Len(b) + Len(w)) PROVE At(nb, nw, i) = At(b, w, i)
  <2>1. CASE i <= Len(b)
    <3>1. i <= Len(nb) /\ i \in 1..Len(b)
      BY <1>1, <1>3, <2>1
    <3> QED BY <1>3, <2>1, <3>1 DEF At
  <2>2. CASE i > Len(b) /\ i <= Len(b) + n
    <3>1. i - Len(b) \in 1..n /\ i = Len(b) + (i - Len(b))
      BY <1>1, <2>2
    <3>2. nb[i] = w[i - Len(b)]
      BY <1>1, <1>3, <3>1
    <3>3. ~(i <= Len(b)) /\ i <= Len(nb)
      BY <1>1, <1>3, <2>2
    <3> QED BY <3>2, <3>3 DEF At
  <2>3. CASE i > Len(b) + n
    <3>1. /\ i - Len(nb) \in 1..(Len(w) - n) /\ n + (i - Len(nb)) = i - Len(b)
          /\ ~(i <= Len(b)) /\ ~(i <= Len(nb))
      BY <1>1, <1>3, <2>3
    <3>2. nw[i - Len(nb)] = w[i - Len(b)]
      BY <1>2, <3>1
    <3> QED BY <3>1, <3>2 DEF At
  <2> QED BY <1>1, <2>1, <2>2, <2>3
<1>5. PICK P : EndsAt(ms, Len(g), b, w, P)
  BY DEF InStep
<1>6. EndsAt(ms, Len(g), nb, nw, P)
  <2>1. /\ P \in [Nat -> Int]
        /\ P[Len(g)] = 0
        /\ P[Len(ms)] = Len(b) + Len(w)
        /\ \A i, j \in Len(g)..Len(ms) : i <= j => P[i] <= P[j]
    BY <1>5 DEF EndsAt
  <2>2. P[Len(ms)] = Len(nb) + Len(nw)
    BY <1>1, <1>2, <1>3, <2>1
  <2>3. Len(g) \in Nat /\ Len(ms) \in Nat /\ Len(g) <= Len(ms)
    BY DEF InStep
  <2>4. ASSUME NEW i \in (Len(g) + 1)..Len(ms)
        PROVE  /\ P[i] = P[i - 1] + Len(ms[i]) + 4
               /\ \A j \in 1..Len(ms[i]) : At(nb, nw, P[i - 1] + j) = ms[i][j]
               /\ \A j \in 1..4 : At(nb, nw, P[i - 1] + Len(ms[i]) + j) = deli[j]
    <3>1. /\ P[i] = P[i - 1] + Len(ms[i]) + 4
          /\ \A j \in 1..Len(ms[i]) : At(b, w, P[i - 1] + j) = ms[i][j]
          /\ \A j \in 1..4 : At(b, w, P[i - 1] + Len(ms[i]) + j) = deli[j]
      BY <1>5 DEF EndsAt
    <3>2. Len(ms[i]) \in Nat
      <4>1. ms[i] \in Messages
        BY <2>3
      <4> QED BY <4>1, PieceAssumption
    <3>3. P[i - 1] \in Nat /\ P[i] <= Len(b) + Len(w)
      <4>1. /\ i - 1 \in Len(g)..Len(ms) /\ Len(g) <= i - 1 /\ Len(g) \in Len(g)..Len(ms)
            /\ i \in Len(g)..Len(ms) /\ i <= Len(ms) /\ Len(ms) \in Len(g)..Len(ms)
            /\ i - 1 \in Nat
        BY <2>3
      <4>2. P[Len(g)] <= P[i - 1] /\ P[i] <= P[Len(ms)] /\ P[i - 1] \in Int
        BY <2>1, <4>1
      <4> QED BY <2>1, <4>2
    <3> DEFINE p == P[i - 1]
               k == Len(ms[i])
    <3>4. /\ \A j \in 1..k : p + j \in 1..(Len(b) + Len(w))
          /\ \A j \in 1..4 : p + k + j \in 1..(Len(b) + Len(w))
      <4>1. p \in Nat /\ k \in Nat /\ p + k + 4 <= Len(b) + Len(w)
        BY <3>1, <3>2, <3>3
      <4> HIDE DEF p, k
      <4> QED BY <1>1, <4>1
    <3> QED BY <1>4, <3>1, <3>4
  <2> QED BY <2>1, <2>2, <2>4 DEF EndsAt
<1> QED BY <1>6 DEF InStep, nb, nw, x

LEMMA SameSequence ==
  ASSUME NEW s \in Seq(Piece), NEW t \in Seq(Piece), Len(s) = Len(t),
         \A i \in 1..Len(s) : s[i] = t[i]
  PROVE  s = t
OBVIOUS

LEMMA Appended ==
  ASSUME NEW s \in Seq(Seq(Piece)), NEW x
  PROVE  /\ Len(Append(s, x)) = Len(s) + 1
         /\ \A i \in 1..Len(s) : Append(s, x)[i] = s[i]
         /\ Append(s, x)[Len(s) + 1] = x
OBVIOUS

LEMMA SuffixIs ==
  ASSUME NEW b \in Seq(Piece), NEW l \in Nat, l <= Len(b)
  PROVE  /\ SubSeq(b, l + 1, Len(b)) \in Seq(Piece)
         /\ Len(SubSeq(b, l + 1, Len(b))) = Len(b) - l
         /\ \A i \in 1..(Len(b) - l) : SubSeq(b, l + 1, Len(b))[i] = b[l + i]
OBVIOUS

LEMMA Shifted ==
  ASSUME NEW c \in Int, NEW x \in Int, NEW y \in Int, NEW e \in Nat, y = x + e + 4
  PROVE  y - c = (x - c) + e + 4
OBVIOUS

(* A round of onMessage's loop takes the next message, whole.               *)
LEMMA ReadInStep ==
  ASSUME NEW ms \in Seq(Messages), AllWhole(ms), NEW g \in Seq(Seq(Piece)),
         NEW b \in Seq(Piece), NEW w \in Seq(Piece), InStep(ms, g, b, w), Places(b) # {}
  PROVE  InStep(ms, Append(g, SubSeq(b, 1, First(b) - 1)),
                SubSeq(b, First(b) + deliLen, Len(b)), w)
<1> DEFINE k == Len(g) + 1
           n == Len(ms)
           ng == Append(g, SubSeq(b, 1, First(b) - 1))
           nb == SubSeq(b, First(b) + deliLen, Len(b))
<1>1. PICK P : EndsAt(ms, Len(g), b, w, P)
  BY DEF InStep
<1>2. /\ n \in Nat /\ Len(g) \in Nat /\ Len(g) <= n /\ Len(b) \in Nat /\ Len(w) \in Nat
      /\ \A i \in 1..Len(g) : g[i] = ms[i]
  BY DEF InStep
<1>3. /\ P \in [Nat -> Int] /\ P[Len(g)] = 0 /\ P[n] = Len(b) + Len(w)
      /\ \A i, j \in Len(g)..n : i <= j => P[i] <= P[j]
  BY <1>1 DEF EndsAt
<1>4. k \in 1..n
  <2> SUFFICES ASSUME Len(g) = n PROVE FALSE
    BY <1>2
  <2>1. Len(b) = 0
    BY <1>2, <1>3
  <2>2. \A i \in Places(b) : i \in 1..(Len(b) - 3)
    BY DeliIs DEF Places
  <2> QED BY <2>1, <2>2
<1>5. /\ ms[k] \in Seq(Piece) /\ Len(ms[k]) \in Nat /\ Whole(ms[k])
  <2>1. ms[k] \in Messages
    BY <1>4
  <2> QED BY <1>4, <2>1, PieceAssumption DEF AllWhole
<1>b. PICK l \in Nat : l = Len(ms[k]) + 4
  BY <1>5
<1>6. /\ P[k] = l
      /\ \A j \in 1..Len(ms[k]) : At(b, w, j) = ms[k][j]
      /\ \A j \in 1..4 : At(b, w, Len(ms[k]) + j) = deli[j]
  <2>1. k \in (Len(g) + 1)..n /\ k - 1 = Len(g)
    BY <1>2, <1>4
  <2>2. /\ P[k] = P[k - 1] + Len(ms[k]) + 4
        /\ \A j \in 1..Len(ms[k]) : At(b, w, P[k - 1] + j) = ms[k][j]
        /\ \A j \in 1..4 : At(b, w, P[k - 1] + Len(ms[k]) + j) = deli[j]
    BY <1>1, <2>1 DEF EndsAt
  <2>3. P[k - 1] = 0
    BY <1>3, <2>1
  <2>4. /\ \A j \in 1..Len(ms[k]) : P[k - 1] + j = j
        /\ \A j \in 1..4 : P[k - 1] + Len(ms[k]) + j = Len(ms[k]) + j
    BY <1>5, <2>3
  <2> QED BY <1>5, <1>b, <2>2, <2>3, <2>4
<1>7. First(b) = Len(ms[k]) + 1 /\ l <= Len(b)
  <2>1. \A j \in 1..Len(ms[k]) : j <= Len(b) => b[j] = ms[k][j]
    BY <1>6 DEF At
  <2>2. \A j \in 1..4 : Len(ms[k]) + j <= Len(b) => b[Len(ms[k]) + j] = deli[j]
    BY <1>6 DEF At
  <2> QED BY <1>5, <1>b, <2>1, <2>2, FirstEndsMessage
<1>8. /\ First(b) - 1 = Len(ms[k]) /\ First(b) + deliLen = l + 1
  BY <1>5, <1>b, <1>7, DeliIs
<1>9. SubSeq(b, 1, First(b) - 1) = ms[k]
  <2> DEFINE s == SubSeq(b, 1, Len(ms[k]))
  <2>1. s \in Seq(Piece) /\ Len(s) = Len(ms[k]) /\ \A i \in 1..Len(ms[k]) : s[i] = b[i]
    BY <1>2, <1>5, <1>b, <1>7
  <2>2. \A i \in 1..Len(ms[k]) : i <= Len(b)
    BY <1>2, <1>5, <1>b, <1>7
  <2>3. \A i \in 1..Len(ms[k]) : b[i] = ms[k][i]
    BY <1>6, <2>2 DEF At
  <2>4. \A i \in 1..Len(ms[k]) : s[i] = ms[k][i]
    BY <2>1, <2>3
  <2> HIDE DEF s
  <2>5. s = ms[k]
    BY <1>5, <2>1, <2>4, SameSequence
  <2> QED BY <1>8, <2>5 DEF s
<1>10. /\ Len(ng) = k /\ \A i \in 1..k : ng[i] = ms[i]
  <2>1. ng = Append(g, ms[k])
    BY <1>9
  <2>2. Len(ng) = k /\ (\A i \in 1..Len(g) : ng[i] = g[i]) /\ ng[k] = ms[k]
    BY <2>1, Appended
  <2>3. \A i \in 1..k : i \in 1..Len(g) \/ i = k
    BY <1>2
  <2> QED BY <1>2, <2>2, <2>3
<1>11. /\ nb \in Seq(Piece) /\ Len(nb) = Len(b) - l
       /\ \A i \in 1..(Len(b) - l) : nb[i] = b[l + i]
  <2>1. nb = SubSeq(b, l + 1, Len(b))
    BY <1>8
  <2>2. l \in Nat /\ l <= Len(b)
    BY <1>5, <1>b, <1>7
  <2> HIDE DEF nb
  <2> QED BY <2>1, <2>2, SuffixIs
<1> HIDE DEF ng, nb
<1>a. l \in Nat /\ l <= Len(b) /\ Len(nb) = Len(b) - l /\ P[k] = l
  BY <1>5, <1>6, <1>7, <1>11
<1> HIDE DEF k, n
<1>12. \A i \in Nat \ {0} : At(nb, w, i) = At(b, w, l + i)
  <2> SUFFICES ASSUME NEW i \in Nat \ {0} PROVE At(nb, w, i) = At(b, w, l + i)
    OBVIOUS
  <2>1. CASE i <= Len(b) - l
    <3>1. i \in 1..(Len(b) - l) /\ i <= Len(nb) /\ l + i <= Len(b)
      BY <1>2, <1>a, <2>1
    <3> QED BY <1>11, <3>1 DEF At
  <2>2. CASE i > Len(b) - l
    <3>1. ~(i <= Len(nb)) /\ ~(l + i <= Len(b)) /\ i - Len(nb) = l + i - Len(b)
      BY <1>2, <1>a, <2>2
    <3>2. At(nb, w, i) = w[i - Len(nb)]
      BY <3>1 DEF At
    <3>3. At(b, w, l + i) = w[l + i - Len(b)]
      BY <1>2, <1>a, <3>1 DEF At
    <3> QED BY <3>1, <3>2, <3>3
  <2> QED BY <1>2, <1>a, <2>1, <2>2
<1> DEFINE Q == [i \in Nat |-> P[i] - l]
<1>13. Q \in [Nat -> Int] /\ \A i \in Nat : Q[i] = P[i] - l /\ P[i] \in Int
  <2>1. \A i \in Nat : P[i] \in Int
    BY <1>3
  <2>2. \A i \in Nat : P[i] - l \in Int
    BY <1>a, <2>1
  <2> QED BY <2>1, <2>2
<1> HIDE DEF Q
<1>14. EndsAt(ms, k, nb, w, Q)
  <2>1. Q[k] = 0 /\ Q[n] = Len(nb) + Len(w)
    BY <1>2, <1>3, <1>4, <1>a, <1>13
  <2>2. ASSUME NEW i \in k..n, NEW j \in k..n, i <= j PROVE Q[i] <= Q[j]
    <3>1. i \in Nat /\ j \in Nat /\ i \in Len(g)..n /\ j \in Len(g)..n
      BY <1>2, <1>4 DEF k
    <3>2. P[i] <= P[j]
      BY <1>3, <2>2, <3>1
    <3>3. /\ Q[i] = P[i] - l /\ P[i] \in Int
          /\ Q[j] = P[j] - l /\ P[j] \in Int
      BY <1>13, <3>1
    <3>4. l \in Int
      BY <1>a
    <3> QED BY <3>2, <3>3, <3>4
  <2>3. ASSUME NEW i \in (k + 1)..n
        PROVE  /\ Q[i] = Q[i - 1] + Len(ms[i]) + 4
               /\ \A j \in 1..Len(ms[i]) : At(nb, w, Q[i - 1] + j) = ms[i][j]
               /\ \A j \in 1..4 : At(nb, w, Q[i - 1] + Len(ms[i]) + j) = deli[j]
    <3>1. /\ i \in (Len(g) + 1)..n /\ i \in Nat /\ i - 1 \in Nat /\ i \in 1..n
          /\ i - 1 \in Len(g)..n /\ k \in Len(g)..n /\ k <= i - 1
      BY <1>2, <1>4 DEF k
    <3>2. /\ P[i] = P[i - 1] + Len(ms[i]) + 4
          /\ \A j \in 1..Len(ms[i]) : At(b, w, P[i - 1] + j) = ms[i][j]
          /\ \A j \in 1..4 : At(b, w, P[i - 1] + Len(ms[i]) + j) = deli[j]
      BY <1>1, <3>1 DEF EndsAt, n
    <3>3. Len(ms[i]) \in Nat
      <4>1. ms[i] \in Messages
        BY <3>1 DEF n
      <4> QED BY <4>1, PieceAssumption
    <3>4. Q[i - 1] \in Nat /\ P[i - 1] = l + Q[i - 1]
      <4>1. P[k] <= P[i - 1]
        BY <1>3, <3>1
      <4>2. Q[i - 1] = P[i - 1] - l /\ P[i - 1] \in Int /\ l \in Int /\ l <= P[i - 1]
        <5>1. Q[i - 1] = P[i - 1] - l /\ P[i - 1] \in Int
          BY <1>13, <3>1
        <5>2. l <= P[i - 1]
          BY <1>a, <4>1
        <5> QED BY <5>1, <5>2
      <4> QED BY <4>2
    <3> DEFINE q == Q[i - 1]
               m == Len(ms[i])
    <3>5. /\ \A j \in 1..m : q + j \in Nat \ {0} /\ P[i - 1] + j = l + (q + j)
          /\ \A j \in 1..4 : q + m + j \in Nat \ {0} /\ P[i - 1] + m + j = l + (q + m + j)
      <4>1. q \in Nat /\ m \in Nat /\ l \in Nat /\ P[i - 1] = l + q
        BY <1>a, <3>3, <3>4
      <4> HIDE DEF q, m
      <4> QED BY <4>1
    <3>6. Q[i] = Q[i - 1] + Len(ms[i]) + 4
      <4>1. /\ Q[i] = P[i] - l /\ P[i] \in Int
            /\ Q[i - 1] = P[i - 1] - l /\ P[i - 1] \in Int
        BY <1>13, <3>1
      <4>2. l \in Int /\ P[i] = P[i - 1] + Len(ms[i]) + 4
        BY <1>a, <3>2
      <4>3. P[i] - l = (P[i - 1] - l) + Len(ms[i]) + 4
        BY <3>3, <4>1, <4>2, Shifted
      <4> QED BY <4>1, <4>3
    <3>7. \A j \in 1..m : At(nb, w, q + j) = ms[i][j]
      BY <1>12, <3>2, <3>5
    <3>8. \A j \in 1..4 : At(nb, w, q + m + j) = deli[j]
      BY <1>12, <3>2, <3>5
    <3> QED BY <3>6, <3>7, <3>8
  <2> QED BY <1>13, <2>1, <2>2, <2>3 DEF EndsAt, n
<1> QED BY <1>4, <1>10, <1>14 DEF InStep, n, ng, nb
-----------------------------------------------------------------------------
(***************************************************************************)
(* The codec's steps.                                                      *)
(***************************************************************************)

CodecInv ==
  /\ CodecType
  /\ \A c \in Conn : AllWhole(sent[c]) => InStep(sent[c], got[c], buf[c], wire[c])

LEMMA FirstIsPlace ==
  ASSUME NEW b \in Seq(Piece), Places(b) # {}
  PROVE  First(b) \in 1..(Len(b) - 3)
<1>1. \A i \in Places(b) : i \in 1..(Len(b) - 3)
  BY DeliIs DEF Places
<1>2. PICK p \in Places(b) : TRUE
  OBVIOUS
<1> DEFINE R == OpToRel(<, Nat)
<1>3. \E i \in Places(b) : \A j \in Places(b) : <<j, i>> \notin R
  <2>1. IsWellFoundedOn(R, Nat)
    BY NatLessThanWellFounded
  <2>2. Places(b) \subseteq Nat /\ Places(b) # {}
    BY <1>1
  <2> HIDE DEF R
  <2> QED BY <2>1, <2>2, WFMin
<1>4. \E i \in Places(b) : \A j \in Places(b) : i <= j
  <2>1. R = {r \in Nat \X Nat : r[1] < r[2]}
    BY DEF OpToRel
  <2>2. Places(b) \subseteq Nat
    BY <1>1
  <2> HIDE DEF R
  <2>3. ASSUME NEW i \in Places(b), NEW j \in Places(b), <<j, i>> \notin R
        PROVE  i <= j
    BY <2>1, <2>2, <2>3
  <2> QED BY <1>3, <2>3
<1> QED BY <1>1, <1>4 DEF First

LEMMA CodecStarts == CodecInit => CodecInv
<1> SUFFICES ASSUME CodecInit PROVE CodecInv
  OBVIOUS
<1>1. CodecType
  BY DEF CodecInit, CodecType
<1>2. ASSUME NEW c \in Conn PROVE InStep(sent[c], got[c], buf[c], wire[c])
  <2>1. sent[c] = <<>> /\ got[c] = <<>> /\ buf[c] = <<>> /\ wire[c] = <<>>
    BY DEF CodecInit
  <2> DEFINE P == [i \in Nat |-> 0]
  <2>2. EndsAt(<<>>, 0, <<>>, <<>>, P)
    BY DEF EndsAt
  <2> QED BY <2>1, <2>2 DEF InStep
<1> QED BY <1>1, <1>2 DEF CodecInv

LEMMA SendKeeps ==
  ASSUME CodecInv, NEW c \in Conn, Send(c)
  PROVE  CodecInv'
<1>1. PICK m \in Messages : /\ sent' = [sent EXCEPT ![c] = Append(@, m)]
                            /\ wire' = [wire EXCEPT ![c] = @ \o m \o deli]
  BY DEF Send
<1>2. CodecType /\ UNCHANGED <<buf, reading, got>>
  BY DEF CodecInv, Send
<1>3. /\ sent[c] \in Seq(Messages) /\ wire[c] \in Seq(Piece)
      /\ buf[c] \in Seq(Piece) /\ got[c] \in Seq(Seq(Piece))
  BY <1>2 DEF CodecType
<1>4. /\ sent'[c] = Append(sent[c], m) /\ wire'[c] = wire[c] \o m \o deli
      /\ \A d \in Conn : d # c => sent'[d] = sent[d] /\ wire'[d] = wire[d]
  BY <1>1, <1>2 DEF CodecType
<1>5. m \in Seq(Piece) /\ deli \in Seq(Piece)
  BY PieceAssumption, DeliIs
<1>6. Append(sent[c], m) \in Seq(Messages) /\ wire[c] \o m \o deli \in Seq(Piece)
  BY <1>3, <1>5
<1>7. CodecType'
  BY <1>1, <1>2, <1>6 DEF CodecType
<1>8. ASSUME NEW d \in Conn, AllWhole(sent[d])'
      PROVE  InStep(sent[d], got[d], buf[d], wire[d])'
  <2>1. CASE d # c
    BY <1>2, <1>4, <1>8, <2>1 DEF CodecInv
  <2>2. CASE d = c
    <3>1. AllWhole(Append(sent[c], m))
      BY <1>4, <1>8, <2>2
    <3>2. AllWhole(sent[c])
      <4>1. /\ Len(sent[c]) \in Nat /\ Len(Append(sent[c], m)) = Len(sent[c]) + 1
            /\ \A i \in 1..Len(sent[c]) : Append(sent[c], m)[i] = sent[c][i]
        BY <1>3
      <4> QED BY <3>1, <4>1 DEF AllWhole
    <3>3. InStep(sent[c], got[c], buf[c], wire[c])
      BY <3>2 DEF CodecInv
    <3>4. InStep(Append(sent[c], m), got[c], buf[c], wire[c] \o m \o deli)
      BY <1>3, <3>3, SentInStep
    <3> QED BY <1>2, <1>4, <2>2, <3>4
  <2> QED BY <2>1, <2>2
<1> QED BY <1>7, <1>8 DEF CodecInv

LEMMA ArriveKeeps ==
  ASSUME CodecInv, NEW c \in Conn, Arrive(c)
  PROVE  CodecInv'
<1>1. PICK n \in 1..Len(wire[c]) :
        /\ buf' = [buf EXCEPT ![c] = @ \o SubSeq(wire[c], 1, n)]
        /\ wire' = [wire EXCEPT ![c] = SubSeq(@, n + 1, Len(@))]
  BY DEF Arrive
<1>2. /\ CodecType /\ UNCHANGED <<sent, got>>
      /\ reading' = [reading EXCEPT ![c] = TRUE]
  BY DEF CodecInv, Arrive
<1>3. /\ sent[c] \in Seq(Messages) /\ wire[c] \in Seq(Piece)
      /\ buf[c] \in Seq(Piece) /\ got[c] \in Seq(Seq(Piece))
  BY <1>2 DEF CodecType
<1>4. /\ buf'[c] = buf[c] \o SubSeq(wire[c], 1, n)
      /\ wire'[c] = SubSeq(wire[c], n + 1, Len(wire[c]))
      /\ \A d \in Conn : d # c => buf'[d] = buf[d] /\ wire'[d] = wire[d]
  BY <1>1, <1>2 DEF CodecType
<1>5. /\ buf[c] \o SubSeq(wire[c], 1, n) \in Seq(Piece)
      /\ SubSeq(wire[c], n + 1, Len(wire[c])) \in Seq(Piece)
  BY <1>3
<1>6. CodecType'
  BY <1>1, <1>2, <1>5 DEF CodecType
<1>7. ASSUME NEW d \in Conn, AllWhole(sent[d])'
      PROVE  InStep(sent[d], got[d], buf[d], wire[d])'
  <2>1. InStep(sent[d], got[d], buf[d], wire[d])
    BY <1>2, <1>7 DEF CodecInv
  <2>2. CASE d # c
    BY <1>2, <1>4, <2>1, <2>2
  <2>3. CASE d = c
    <3>1. InStep(sent[c], got[c], buf[c] \o SubSeq(wire[c], 1, n),
                 SubSeq(wire[c], n + 1, Len(wire[c])))
      BY <1>3, <2>1, <2>3, ArrivedInStep
    <3> QED BY <1>2, <1>4, <2>3, <3>1
  <2> QED BY <2>2, <2>3
<1> QED BY <1>6, <1>7 DEF CodecInv

LEMMA OnMessageKeeps ==
  ASSUME CodecInv, NEW c \in Conn, OnMessage(c)
  PROVE  /\ CodecInv'
         /\ got' = [got EXCEPT ![c] = Append(@, NextMessage(c))]
         /\ NextMessage(c) \in Seq(Piece)
<1> DEFINE b == SubSeq(buf[c], First(buf[c]) + deliLen, Len(buf[c]))
<1>1. /\ CodecType /\ UNCHANGED <<sent, wire, reading>>
      /\ Places(buf[c]) # {}
      /\ got' = [got EXCEPT ![c] = Append(@, NextMessage(c))]
      /\ buf' = [buf EXCEPT ![c] = b]
  BY DEF CodecInv, CodecType, OnMessage
<1>2. /\ sent[c] \in Seq(Messages) /\ wire[c] \in Seq(Piece)
      /\ buf[c] \in Seq(Piece) /\ got[c] \in Seq(Seq(Piece))
  BY <1>1 DEF CodecType
<1>3. First(buf[c]) \in 1..(Len(buf[c]) - 3)
  BY <1>1, <1>2, FirstIsPlace
<1>4. NextMessage(c) \in Seq(Piece)
  BY <1>2, <1>3 DEF NextMessage
<1>5. b \in Seq(Piece)
  <2>1. deliLen = 4
    BY DeliIs
  <2> QED BY <1>2, <1>3, <2>1
<1> HIDE DEF b
<1>6. /\ got'[c] = Append(got[c], NextMessage(c)) /\ buf'[c] = b
      /\ \A d \in Conn : d # c => got'[d] = got[d] /\ buf'[d] = buf[d]
  BY <1>1 DEF CodecType
<1>7. CodecType'
  <2>1. Append(got[c], NextMessage(c)) \in Seq(Seq(Piece))
    BY <1>2, <1>4
  <2> QED BY <1>1, <1>5, <2>1 DEF CodecType
<1>8. ASSUME NEW d \in Conn, AllWhole(sent[d])'
      PROVE  InStep(sent[d], got[d], buf[d], wire[d])'
  <2>1. AllWhole(sent[d]) /\ InStep(sent[d], got[d], buf[d], wire[d])
    BY <1>1, <1>8 DEF CodecInv
  <2>2. CASE d # c
    BY <1>1, <1>6, <2>1, <2>2
  <2>3. CASE d = c
    <3>1. InStep(sent[c], Append(got[c], NextMessage(c)), b, wire[c])
      BY <1>1, <1>2, <2>1, <2>3, ReadInStep DEF NextMessage, b
    <3> QED BY <1>1, <1>6, <2>3, <3>1
  <2> QED BY <2>2, <2>3
<1> QED BY <1>1, <1>4, <1>7, <1>8 DEF CodecInv

LEMMA WaitKeeps ==
  ASSUME CodecInv, NEW c \in Conn, Wait(c)
  PROVE  CodecInv' /\ UNCHANGED got
<1>1. UNCHANGED <<sent, wire, buf, got>> /\ reading' = [reading EXCEPT ![c] = FALSE]
  BY DEF Wait
<1> QED BY <1>1 DEF CodecInv, CodecType

LEMMA CodecSame ==
  ASSUME CodecInv, UNCHANGED codecVars
  PROVE  CodecInv'
BY DEF CodecInv, CodecType, codecVars

(* Everything else leaves the stream alone.                                 *)
LEMMA CodecKeeps == CodecInv /\ [Next]_vars => CodecInv'
<1> SUFFICES ASSUME CodecInv, [Next]_vars PROVE CodecInv'
  OBVIOUS
<1>1. ASSUME NEW c \in Conn, Client(c) \/ Read(c) PROVE CodecInv'
  BY <1>1, SendKeeps, ArriveKeeps, OnMessageKeeps, WaitKeeps
     DEF Client, Read, Receive, onStringMessage, Rest
<1>2. ASSUME NEW w \in Worker, Work(w) PROVE CodecInv'
  <2>1. UNCHANGED codecVars
    BY <1>2 DEF Work, dealMessage, Take, Query, Done, NotDone, Answer, SetNames, Goes
  <2> QED BY <2>1, CodecSame
<1>3. CASE Dies \/ Break \/ UNCHANGED vars
  <2>1. UNCHANGED codecVars
    BY <1>3 DEF Dies, Break, vars
  <2> QED BY <2>1, CodecSame
<1> QED BY <1>1, <1>2, <1>3 DEF Next

(* For any clients, messages and network: the callback gets exactly the     *)
(* messages that were sent, in order, if none of them holds the delimiter.  *)
THEOREM MessagesArriveWhole == Spec => []MessagesWhole
<1>1. Init => CodecInv
  BY CodecStarts DEF Init
<1>2. CodecInv => MessagesWhole
  <2> SUFFICES ASSUME CodecInv, NEW c \in Conn,
                      \A i \in DOMAIN sent[c] : Whole(sent[c][i])
               PROVE  IsPrefix(got[c], sent[c])
    BY DEF MessagesWhole
  <2>1. sent[c] \in Seq(Messages) /\ got[c] \in Seq(Seq(Piece))
    BY DEF CodecInv, CodecType
  <2>2. AllWhole(sent[c])
    BY <2>1 DEF AllWhole
  <2>3. /\ Len(got[c]) <= Len(sent[c])
        /\ \A i \in 1..Len(got[c]) : got[c][i] = sent[c][i]
    BY <2>2 DEF CodecInv, InStep
  <2>4. SubSeq(sent[c], 1, Len(got[c])) = got[c]
    BY <2>1, <2>3
  <2> QED BY <2>1, <2>3, <2>4 DEF IsPrefix
<1> QED BY <1>1, <1>2, CodecKeeps, PTL DEF Spec

-----------------------------------------------------------------------------
(***************************************************************************)
(* The row of a put that nothing disturbed.                                *)
(***************************************************************************)

Task == Conn \X (Nat \ {0})
Valid(t) == t \in Task /\ t[2] \in 1..Len(got[t[1]])
Who(w) == UserName(task[w])

RowType ==
  /\ pc \in [Worker -> {"take", "unpack"} \cup Put \cup Get]
  /\ task \in [Worker -> Task \cup {None}]
  /\ alone \in [Worker -> BOOLEAN]
  /\ kept \in [User -> Task \cup {None}]
  /\ queue \in Seq(Task)
  /\ \A i \in 1..Len(queue) : Valid(queue[i])
  /\ \A w \in Worker : pc[w] # "take" => Valid(task[w])

(* No other put of the user is under way beside one that is alone.          *)
Apart ==
  \A w, v \in Worker :
    w # v /\ alone[w] /\ pc[w] \in Put /\ pc[v] \in Put => Who(w) # Who(v)

(* After its DELETE the user has no row until its INSERT.                   *)
Cleared ==
  \A w \in Worker : alone[w] /\ pc[w] \in Put \ {"delete"} => RowsOf(Who(w)) = {}

(* The row of a put that is kept is the only one, and nobody is about to    *)
(* change it.                                                               *)
Stays ==
  \A u \in User :
    kept[u] # None =>
      /\ Valid(kept[u])
      /\ RowsOf(u) = Stored(kept[u])
      /\ \A v \in Worker : pc[v] \in Put => Who(v) # u

RowInv == RowType /\ Apart /\ Cleared /\ Stays

LEMMA RowStarts == Init => RowInv
<1> SUFFICES ASSUME Init PROVE RowInv
  OBVIOUS
<1>1. RowType
  BY DEF Init, RowType
<1>2. (\A w \in Worker : pc[w] = "take") /\ (\A u \in User : kept[u] = None)
  BY DEF Init
<1>3. "take" \notin Put
  BY DEF Put
<1> QED BY <1>1, <1>2, <1>3 DEF RowInv, Apart, Cleared, Stays

LEMMA Steps ==
  /\ After["delete"] = "alter" /\ After["alter"] = "names"
  /\ After["names"] = "insert" /\ After["insert"] = "take"
  /\ \A p \in Get : After[p] \in Get \cup {"take"}
  /\ Put = {"delete", "alter", "names", "insert"}
  /\ Get \cap Put = {} /\ "take" \notin Put /\ "take" \notin Get
  /\ "delete" \in Put /\ "get names" \in Get
  /\ "unpack" \notin Put /\ "unpack" \notin Get /\ "unpack" # "take"
BY DEF After, Put, Get

(* A step that moves no worker, touches no row and takes no message away.   *)
LEMMA RowSame ==
  ASSUME RowInv, UNCHANGED <<pc, task, table, kept>>,
         alone' \in [Worker -> BOOLEAN], \A w \in Worker : alone'[w] => alone[w],
         \A t : Valid(t) => Valid(t)' /\ got'[t[1]][t[2]] = got[t[1]][t[2]],
         queue' \in Seq(Task), (\A i \in 1..Len(queue) : Valid(queue[i]))'
  PROVE  RowInv'
<1>1. RowType'
  <2>1. \A w \in Worker : pc[w] # "take" => Valid(task[w])
    BY DEF RowInv, RowType
  <2>2. \A w \in Worker : pc'[w] # "take" => Valid(task[w])'
    BY <2>1 DEF Valid
  <2>3. /\ pc' \in [Worker -> {"take", "unpack"} \cup Put \cup Get]
        /\ task' \in [Worker -> Task \cup {None}]
        /\ kept' \in [User -> Task \cup {None}]
    BY DEF RowInv, RowType
  <2> QED BY <2>2, <2>3 DEF RowType, Put, Get, Task
<1>2. ASSUME NEW w \in Worker, pc[w] # "take"
      PROVE  Who(w)' = Who(w)
  <2>1. Valid(task[w])
    BY <1>2 DEF RowInv, RowType
  <2> QED BY <2>1 DEF Who, UserName, Message
<1>3. "take" \notin Put
  BY Steps
<1>4. \A u : RowsOf(u)' = RowsOf(u)
  BY DEF RowsOf
<1>5. Apart'
  BY <1>2, <1>3 DEF RowInv, Apart
<1>6. Cleared'
  <2> SUFFICES ASSUME NEW w \in Worker, alone'[w], pc'[w] \in Put \ {"delete"}
               PROVE  RowsOf(Who(w))' = {}
    BY DEF Cleared
  <2>1. alone[w] /\ pc[w] \in Put \ {"delete"} /\ Who(w)' = Who(w)
    BY <1>2, <1>3
  <2>2. RowsOf(Who(w)) = {}
    BY <2>1 DEF RowInv, Cleared
  <2> QED BY <2>1, <2>2 DEF RowsOf
<1>7. Stays'
  <2> SUFFICES ASSUME NEW u \in User, kept[u] # None
               PROVE  /\ Valid(kept[u])'
                      /\ RowsOf(u)' = Stored(kept[u])'
                      /\ \A v \in Worker : pc'[v] \in Put => Who(v)' # u
    BY DEF Stays
  <2>1. /\ Valid(kept[u]) /\ RowsOf(u) = Stored(kept[u])
        /\ \A v \in Worker : pc[v] \in Put => Who(v) # u
    BY DEF RowInv, Stays
  <2>2. Valid(kept[u])'
    BY <2>1 DEF Valid
  <2>3. Stored(kept[u])' = Stored(kept[u])
    BY <2>1 DEF Stored, Row, UserName, Body, Message
  <2>4. RowsOf(u)' = Stored(kept[u])'
    BY <1>4, <2>1, <2>3
  <2>5. \A v \in Worker : pc'[v] \in Put => Who(v)' # u
    BY <1>2, <1>3, <2>1
  <2> QED BY <2>2, <2>4, <2>5
<1> QED BY <1>1, <1>5, <1>6, <1>7 DEF RowInv

LEMMA RowQuiet ==
  ASSUME RowInv, UNCHANGED <<got, queue, pc, task, table, kept>>,
         alone' \in [Worker -> BOOLEAN], \A w \in Worker : alone'[w] => alone[w]
  PROVE  RowInv'
<1>1. \A t : Valid(t) => Valid(t)' /\ got'[t[1]][t[2]] = got[t[1]][t[2]]
  BY DEF Valid
<1>2. queue \in Seq(Task) /\ \A i \in 1..Len(queue) : Valid(queue[i])
  BY DEF RowInv, RowType
<1>3. queue' \in Seq(Task) /\ (\A i \in 1..Len(queue) : Valid(queue[i]))'
  BY <1>2 DEF Valid
<1> QED BY <1>1, <1>3, RowSame

LEMMA RowUndisturbed ==
  ASSUME RowInv, UNCHANGED <<got, queue, pc, task, table, alone, kept>>
  PROVE  RowInv'
<1>1. alone' \in [Worker -> BOOLEAN] /\ \A w \in Worker : alone'[w] => alone[w]
  BY DEF RowInv, RowType
<1> QED BY <1>1, RowQuiet

(* A message that arrives changes none that is there.                       *)
LEMMA MessageQueued ==
  ASSUME RowInv, CodecInv, NEW c \in Conn, onStringMessage(c)
  PROVE  RowInv'
<1> DEFINE m == NextMessage(c)
<1>1. /\ OnMessage(c) /\ UNCHANGED <<pc, task, table, alone, kept>>
      /\ queue' = Append(queue, <<c, Len(got'[c])>>)
  BY DEF onStringMessage, database
<1>2. /\ got \in [Conn -> Seq(Seq(Piece))] /\ m \in Seq(Piece)
      /\ got' = [got EXCEPT ![c] = Append(@, m)]
  BY <1>1, OnMessageKeeps DEF CodecInv, CodecType
<1> HIDE DEF m
<1>3. /\ got[c] \in Seq(Seq(Piece)) /\ got'[c] = Append(got[c], m)
      /\ \A d \in Conn : d # c => got'[d] = got[d]
  BY <1>2
<1>4. PICK n \in Nat : n = Len(got[c])
  BY <1>3
<1>5. Len(got'[c]) = n + 1 /\ \A i \in 1..n : got'[c][i] = got[c][i]
  BY <1>3, <1>4, Appended
<1>6. \A t : Valid(t) => Valid(t)' /\ got'[t[1]][t[2]] = got[t[1]][t[2]]
  <2> SUFFICES ASSUME NEW t, Valid(t)
               PROVE  Valid(t)' /\ got'[t[1]][t[2]] = got[t[1]][t[2]]
    OBVIOUS
  <2>1. t \in Task /\ t[1] \in Conn /\ t[2] \in 1..Len(got[t[1]])
    BY DEF Valid, Task
  <2>2. CASE t[1] # c
    BY <1>3, <2>1, <2>2 DEF Valid, Task
  <2>3. CASE t[1] = c
    <3>1. t[2] \in 1..n /\ t[2] \in 1..(n + 1)
      BY <1>4, <2>1, <2>3
    <3> QED BY <1>5, <2>1, <2>3, <3>1 DEF Valid, Task
  <2> QED BY <2>2, <2>3
<1> DEFINE x == <<c, n + 1>>
<1>7. queue \in Seq(Task) /\ \A i \in 1..Len(queue) : Valid(queue[i])
  BY DEF RowInv, RowType
<1>8. x \in Task /\ queue' = Append(queue, x) /\ Valid(x)'
  BY <1>1, <1>5 DEF Task, Valid
<1> HIDE DEF x
<1>9. queue' \in Seq(Task)
  BY <1>7, <1>8
<1>10. /\ Len(queue') = Len(queue) + 1 /\ Len(queue) \in Nat /\ queue'[Len(queue) + 1] = x
       /\ \A i \in 1..Len(queue) : queue'[i] = queue[i]
  BY <1>7, <1>8
<1>11. (\A i \in 1..Len(queue) : Valid(queue[i]))'
  <2> SUFFICES ASSUME NEW i \in 1..Len(queue') PROVE Valid(queue[i])'
    OBVIOUS
  <2>1. CASE i = Len(queue) + 1
    BY <1>8, <1>10, <2>1 DEF Valid
  <2>2. CASE i \in 1..Len(queue)
    <3>1. Valid(queue[i])
      BY <1>7, <2>2
    <3>2. queue'[i] = queue[i]
      BY <1>10, <2>2
    <3> QED BY <1>6, <3>1, <3>2 DEF Valid
  <2> QED BY <1>10, <2>1, <2>2
<1>12. alone' \in [Worker -> BOOLEAN] /\ \A w \in Worker : alone'[w] => alone[w]
  BY <1>1 DEF RowInv, RowType
<1> QED BY <1>1, <1>6, <1>9, <1>11, <1>12, RowSame

LEMMA Taken ==
  ASSUME NEW S, NEW q \in Seq(S), q # <<>>
  PROVE  /\ Len(q) \in Nat \ {0} /\ Head(q) = q[1]
         /\ Tail(q) \in Seq(S) /\ Len(Tail(q)) = Len(q) - 1
         /\ \A i \in 1..Len(Tail(q)) : Tail(q)[i] = q[i + 1]
OBVIOUS

(* A worker takes a task: it puts, it gets, or it drops the message.        *)
LEMMA TakeKeeps ==
  ASSUME RowInv, NEW w \in Worker, dealMessage(w)
  PROVE  RowInv'
<1> DEFINE t == Head(queue)
           u == UserName(t)
<1>1. /\ pc[w] = "take" /\ queue # <<>> /\ queue' = Tail(queue)
      /\ UNCHANGED <<got, table>>
      /\ \/ /\ pc' = [pc EXCEPT ![w] = "delete"]
            /\ task' = [task EXCEPT ![w] = t]
            /\ BeginPut(w, u)
         \/ /\ \E p \in {"get names", "unpack"} : pc' = [pc EXCEPT ![w] = p]
            /\ task' = [task EXCEPT ![w] = t]
            /\ UNCHANGED <<alone, kept>>
         \/ UNCHANGED <<pc, task, alone, kept>>
  BY DEF dealMessage, Take, codecVars, database
<1>2. queue \in Seq(Task) /\ \A i \in 1..Len(queue) : Valid(queue[i])
  BY DEF RowInv, RowType
<1>3. /\ Len(queue) \in Nat \ {0} /\ t = queue[1]
      /\ queue' \in Seq(Task) /\ Len(queue') = Len(queue) - 1
      /\ \A i \in 1..Len(queue') : queue'[i] = queue[i + 1]
  BY <1>1, <1>2, Taken
<1>4. Valid(t) /\ t \in Task
  <2>1. Valid(queue[1])
    BY <1>2, <1>3
  <2> HIDE DEF t
  <2> QED BY <1>3, <2>1 DEF Valid
<1>5. (\A i \in 1..Len(queue) : Valid(queue[i]))'
  <2> SUFFICES ASSUME NEW i \in 1..Len(queue') PROVE Valid(queue[i])'
    OBVIOUS
  <2>1. i + 1 \in 1..Len(queue) /\ queue'[i] = queue[i + 1]
    BY <1>3
  <2>2. Valid(queue[i + 1])
    BY <1>2, <2>1
  <2> QED BY <1>1, <2>1, <2>2 DEF Valid
<1>6. \A x : Valid(x) => Valid(x)' /\ got'[x[1]][x[2]] = got[x[1]][x[2]]
  BY <1>1 DEF Valid
<1>7. CASE UNCHANGED <<pc, task, alone, kept>>
  <2>1. alone' \in [Worker -> BOOLEAN] /\ \A v \in Worker : alone'[v] => alone[v]
    BY <1>7 DEF RowInv, RowType
  <2> QED BY <1>1, <1>3, <1>5, <1>6, <1>7, <2>1, RowSame
<1>8. ASSUME NEW p \in {"delete", "get names", "unpack"},
             pc' = [pc EXCEPT ![w] = p], task' = [task EXCEPT ![w] = t],
             alone' \in [Worker -> BOOLEAN], kept' \in [User -> Task \cup {None}],
             \A v \in Worker : v # w /\ alone'[v] => alone[v],
             \A x \in User : kept'[x] # None => kept'[x] = kept[x],
             p = "delete" => \A v \in Worker : v # w /\ pc[v] \in Put /\ Who(v) = u =>
                               ~alone'[v] /\ ~alone'[w],
             p = "delete" => \A x \in User : kept'[x] # None => x # u
      PROVE  RowInv'
  <2>1. /\ pc'[w] = p /\ task'[w] = t
        /\ \A v \in Worker : v # w => pc'[v] = pc[v] /\ task'[v] = task[v]
    BY <1>8 DEF RowInv, RowType
  <2>2. /\ Who(w)' = u
        /\ \A v \in Worker : v # w => Who(v)' = Who(v)
    BY <1>1, <2>1 DEF Who, UserName, Message
  <2>3. RowType'
    <3>1. /\ pc' \in [Worker -> {"take", "unpack"} \cup Put \cup Get]
          /\ task' \in [Worker -> Task \cup {None}]
      BY <1>4, <1>8, Steps DEF RowInv, RowType
    <3>2. \A v \in Worker : pc'[v] # "take" => Valid(task[v])'
      <4> SUFFICES ASSUME NEW v \in Worker, pc'[v] # "take" PROVE Valid(task[v])'
        OBVIOUS
      <4>1. CASE v = w
        BY <1>1, <1>4, <2>1, <4>1 DEF Valid
      <4>2. CASE v # w
        <5>1. Valid(task[v]) /\ task'[v] = task[v]
          BY <2>1, <4>2 DEF RowInv, RowType
        <5> QED BY <1>1, <5>1 DEF Valid
      <4> QED BY <4>1, <4>2
    <3> QED BY <1>3, <1>5, <1>8, <3>1, <3>2 DEF RowType, Put, Get, Task
  <2>4. p \in Put => p = "delete"
    BY Steps, <1>8
  <2> HIDE DEF u, t
  <2>5. Apart'
    <3> SUFFICES ASSUME NEW x \in Worker, NEW v \in Worker, x # v, alone'[x],
                        pc'[x] \in Put, pc'[v] \in Put
                 PROVE  Who(x)' # Who(v)'
      BY DEF Apart
    <3>1. CASE x = w
      BY <1>8, <2>1, <2>2, <2>4, <3>1
    <3>2. CASE v = w
      BY <1>8, <2>1, <2>2, <2>4, <3>2
    <3>3. CASE x # w /\ v # w
      <4>1. alone[x] /\ pc[x] \in Put /\ pc[v] \in Put
        BY <1>8, <2>1, <3>3
      <4>2. Who(x) # Who(v)
        BY <4>1 DEF RowInv, Apart
      <4>3. Who(x)' = Who(x) /\ Who(v)' = Who(v)
        BY <2>2, <3>3
      <4> QED BY <4>2, <4>3
    <3> QED BY <3>1, <3>2, <3>3
  <2>6. \A x : RowsOf(x)' = RowsOf(x)
    BY <1>1 DEF RowsOf
  <2>7. Cleared'
    <3> SUFFICES ASSUME NEW x \in Worker, alone'[x], pc'[x] \in Put \ {"delete"}
                 PROVE  RowsOf(Who(x))' = {}
      BY DEF Cleared
    <3>1. x # w
      BY <2>1, <2>4
    <3>2. alone[x] /\ pc[x] \in Put \ {"delete"} /\ Who(x)' = Who(x)
      BY <1>8, <2>1, <2>2, <3>1
    <3>3. RowsOf(Who(x)) = {}
      BY <3>2 DEF RowInv, Cleared
    <3> QED BY <1>1, <3>2, <3>3 DEF RowsOf
  <2>8. Stays'
    <3> SUFFICES ASSUME NEW x \in User, kept'[x] # None
                 PROVE  /\ Valid(kept[x])'
                        /\ RowsOf(x)' = Stored(kept[x])'
                        /\ \A v \in Worker : pc'[v] \in Put => Who(v)' # x
      BY DEF Stays
    <3>1. kept'[x] = kept[x] /\ kept[x] # None
      BY <1>8
    <3>2. /\ Valid(kept[x]) /\ RowsOf(x) = Stored(kept[x])
          /\ \A v \in Worker : pc[v] \in Put => Who(v) # x
      BY <3>1 DEF RowInv, Stays
    <3>3. Valid(kept[x])'
      BY <1>1, <3>1, <3>2 DEF Valid
    <3>4. Stored(kept[x])' = Stored(kept[x])
      BY <1>1, <3>1 DEF Stored, Row, UserName, Body, Message
    <3>5. RowsOf(x)' = Stored(kept[x])'
      BY <2>6, <3>2, <3>4
    <3>6. ASSUME NEW v \in Worker, pc'[v] \in Put PROVE Who(v)' # x
      <4>1. CASE v = w
        BY <1>8, <2>1, <2>2, <2>4, <3>6, <4>1
      <4>2. CASE v # w
        BY <2>1, <2>2, <3>2, <3>6, <4>2
      <4> QED BY <4>1, <4>2
    <3> QED BY <3>3, <3>5, <3>6
  <2> QED BY <2>3, <2>5, <2>7, <2>8 DEF RowInv
<1>9. CASE /\ pc' = [pc EXCEPT ![w] = "delete"]
           /\ task' = [task EXCEPT ![w] = t]
           /\ BeginPut(w, u)
  <2> DEFINE others == {v \in Worker : pc[v] \in Put /\ UserName(task[v]) = u}
  <2>1. /\ alone' = [v \in Worker |-> IF v = w THEN others = {} ELSE alone[v] /\ v \notin others]
        /\ kept' = [kept EXCEPT ![u] = None]
    BY <1>9, Zenon DEF BeginPut
  <2> HIDE DEF t, u
  <2>2. /\ alone'[w] = (others = {})
        /\ \A v \in Worker : v # w => alone'[v] = (alone[v] /\ v \notin others)
    BY <2>1, Zenon
  <2>3. alone' \in [Worker -> BOOLEAN]
    BY <2>1 DEF RowInv, RowType
  <2>4. \A v \in Worker : v # w /\ alone'[v] => alone[v]
    BY <2>2
  <2>5. \A v \in Worker : v # w /\ pc[v] \in Put /\ Who(v) = u => ~alone'[v] /\ ~alone'[w]
    BY <2>2 DEF Who
  <2>6. /\ kept' \in [User -> Task \cup {None}]
        /\ \A x \in User : kept'[x] # None => kept'[x] = kept[x] /\ x # u
    BY <2>1 DEF RowInv, RowType
  <2> QED BY <1>8, <1>9, <2>3, <2>4, <2>5, <2>6
<1>10. CASE /\ \E p \in {"get names", "unpack"} : pc' = [pc EXCEPT ![w] = p]
            /\ task' = [task EXCEPT ![w] = t]
            /\ UNCHANGED <<alone, kept>>
  <2> PICK p \in {"get names", "unpack"} : pc' = [pc EXCEPT ![w] = p]
    BY <1>10
  <2>1. alone' \in [Worker -> BOOLEAN] /\ kept' \in [User -> Task \cup {None}]
    BY <1>10 DEF RowInv, RowType, Task
  <2> HIDE DEF t, u
  <2> QED BY <1>8, <1>10, <2>1
<1> QED BY <1>1, <1>7, <1>9, <1>10

(* A worker goes on after a statement.                                      *)
LEMMA Went ==
  ASSUME RowInv, NEW w \in Worker, pc[w] \in Put \cup Get, Goes(w),
         alone' \in [Worker -> BOOLEAN], \A v \in Worker : alone'[v] => alone[v],
         kept' \in [User -> Task \cup {None}]
  PROVE  /\ RowType' /\ Apart'
         /\ UNCHANGED got /\ Valid(task[w])
         /\ pc'[w] = After[pc[w]] /\ pc'[w] \in Put \cup Get \cup {"take"}
         /\ \A v \in Worker : v # w => pc'[v] = pc[v]
         /\ \A v \in Worker : pc'[v] \in Put => pc[v] \in Put /\ Who(v)' = Who(v)
<1>1. /\ pc' = [pc EXCEPT ![w] = After[@]]
      /\ task' = IF After[pc[w]] = "take" THEN [task EXCEPT ![w] = None] ELSE task
      /\ UNCHANGED <<got, queue>>
  BY DEF Goes, codecVars
<1>2. pc[w] # "take" /\ Valid(task[w])
  BY Steps DEF RowInv, RowType
<1>3. /\ pc'[w] = After[pc[w]]
      /\ \A v \in Worker : v # w => pc'[v] = pc[v] /\ task'[v] = task[v]
      /\ pc'[w] # "take" => task'[w] = task[w]
  BY <1>1 DEF RowInv, RowType
<1>4. /\ pc'[w] \in Put \cup Get \cup {"take"}
      /\ pc'[w] \in Put => pc[w] \in Put
  <2>1. CASE pc[w] \in Put
    BY <1>3, <2>1, Steps
  <2>2. CASE pc[w] \in Get
    BY <1>3, <2>2, Steps
  <2> QED BY <2>1, <2>2
<1>5. \A v \in Worker : pc'[v] # "take" => task'[v] = task[v] /\ pc[v] # "take"
  BY <1>2, <1>3
<1>6. RowType'
  <2>1. \A v \in Worker : pc'[v] # "take" => Valid(task[v])
    BY <1>5 DEF RowInv, RowType
  <2>2. (\A v \in Worker : pc[v] # "take" => Valid(task[v]))'
    BY <1>1, <1>5, <2>1 DEF Valid
  <2>3. pc' \in [Worker -> {"take", "unpack"} \cup Put \cup Get]
    BY <1>1, <1>3, <1>4 DEF RowInv, RowType
  <2>4. task' \in [Worker -> Task \cup {None}]
    BY <1>1 DEF RowInv, RowType
  <2>5. queue \in Seq(Task) /\ \A i \in 1..Len(queue) : Valid(queue[i])
    BY DEF RowInv, RowType
  <2>6. queue' \in Seq(Task) /\ (\A i \in 1..Len(queue) : Valid(queue[i]))'
    BY <1>1, <2>5 DEF Valid
  <2> QED BY <2>2, <2>3, <2>4, <2>6 DEF RowType, Put, Get, Task
<1>7. \A v \in Worker : pc'[v] \in Put => pc[v] \in Put /\ Who(v)' = Who(v)
  <2> SUFFICES ASSUME NEW v \in Worker, pc'[v] \in Put
               PROVE  pc[v] \in Put /\ Who(v)' = Who(v)
    OBVIOUS
  <2>1. pc[v] \in Put
    BY <1>3, <1>4
  <2>2. task'[v] = task[v]
    BY <1>5, Steps
  <2> QED BY <1>1, <2>1, <2>2 DEF Who, UserName, Message
<1>8. Apart'
  <2> SUFFICES ASSUME NEW x \in Worker, NEW v \in Worker, x # v, alone'[x],
                      pc'[x] \in Put, pc'[v] \in Put
               PROVE  Who(x)' # Who(v)'
    BY DEF Apart
  <2>1. Who(x) # Who(v)
    BY <1>7 DEF RowInv, Apart
  <2> QED BY <1>7, <2>1
<1> QED BY <1>1, <1>2, <1>3, <1>4, <1>6, <1>7, <1>8

(* It has changed no row: it was no DELETE, or its put is spoilt.           *)
LEMMA WentSame ==
  ASSUME RowInv, NEW w \in Worker, pc[w] \in Put \cup Get, Goes(w), UNCHANGED <<table, kept>>,
         alone' \in [Worker -> BOOLEAN], \A v \in Worker : alone'[v] => alone[v],
         pc[w] = "delete" => ~alone'[w]
  PROVE  RowInv'
<1>1. kept' \in [User -> Task \cup {None}]
  BY DEF RowInv, RowType
<1>2. /\ RowType' /\ Apart' /\ UNCHANGED got
      /\ pc'[w] = After[pc[w]]
      /\ \A v \in Worker : v # w => pc'[v] = pc[v]
      /\ \A v \in Worker : pc'[v] \in Put => pc[v] \in Put /\ Who(v)' = Who(v)
  BY <1>1, Went
<1>3. \A u : RowsOf(u)' = RowsOf(u)
  BY DEF RowsOf
<1>4. Cleared'
  <2> SUFFICES ASSUME NEW v \in Worker, alone'[v], pc'[v] \in Put \ {"delete"}
               PROVE  RowsOf(Who(v))' = {}
    BY DEF Cleared
  <2>1. pc[v] \in Put /\ Who(v)' = Who(v) /\ alone[v]
    BY <1>2
  <2>2. pc[v] # "delete"
    BY <1>2
  <2>3. RowsOf(Who(v)) = {}
    BY <2>1, <2>2 DEF RowInv, Cleared
  <2> QED BY <2>1, <2>3 DEF RowsOf
<1>5. Stays'
  <2> SUFFICES ASSUME NEW u \in User, kept[u] # None
               PROVE  /\ Valid(kept[u])'
                      /\ RowsOf(u)' = Stored(kept[u])'
                      /\ \A v \in Worker : pc'[v] \in Put => Who(v)' # u
    BY DEF Stays
  <2>1. /\ Valid(kept[u]) /\ RowsOf(u) = Stored(kept[u])
        /\ \A v \in Worker : pc[v] \in Put => Who(v) # u
    BY DEF RowInv, Stays
  <2>2. Valid(kept[u])' /\ Stored(kept[u])' = Stored(kept[u])
    BY <1>2, <2>1 DEF Valid, Stored, Row, UserName, Body, Message
  <2> QED BY <1>2, <1>3, <2>1, <2>2
<1> QED BY <1>2, <1>4, <1>5 DEF RowInv

LEMMA DeleteKeeps ==
  ASSUME RowInv, NEW w \in Worker, pc[w] = "delete", Done(w)
  PROVE  RowInv'
<1> DEFINE u == Who(w)
<1>1. /\ table' = table \ RowsOf(u) /\ UNCHANGED kept /\ Goes(w)
      /\ alone' = [alone EXCEPT ![w] = @ /\ w \notin tangled]
  BY DEF Done, Who
<1>2. alone' \in [Worker -> BOOLEAN] /\ \A v \in Worker : alone'[v] => alone[v]
  BY <1>1 DEF RowInv, RowType
<1>3. kept' \in [User -> Task \cup {None}]
  BY <1>1 DEF RowInv, RowType, Task
<1>4. /\ RowType' /\ Apart' /\ UNCHANGED got
      /\ \A v \in Worker : v # w => pc'[v] = pc[v]
      /\ \A v \in Worker : pc'[v] \in Put => pc[v] \in Put /\ Who(v)' = Who(v)
  BY <1>1, <1>2, <1>3, Steps, Went
<1> HIDE DEF u
<1>5. \A x : RowsOf(x)' \subseteq RowsOf(x) /\ (x # u => RowsOf(x)' = RowsOf(x))
  BY <1>1 DEF RowsOf
<1>7. Cleared'
  <2> SUFFICES ASSUME NEW v \in Worker, alone'[v], pc'[v] \in Put \ {"delete"}
               PROVE  RowsOf(Who(v))' = {}
    BY DEF Cleared
  <2>1. pc[v] \in Put /\ Who(v)' = Who(v) /\ alone[v]
    BY <1>2, <1>4
  <2>2. CASE v = w
    <3>1. Who(v) = u
      BY <2>2 DEF u
    <3>2. \A r \in table' : r.user # u
      BY <1>1 DEF RowsOf
    <3>3. Who(v)' = u
      BY <2>1, <3>1
    <3> QED BY <3>2, <3>3 DEF RowsOf
  <2>3. CASE v # w
    <3>1. RowsOf(Who(v)) = {}
      BY <1>4, <2>1, <2>3 DEF RowInv, Cleared
    <3> QED BY <1>1, <2>1, <3>1 DEF RowsOf
  <2> QED BY <2>2, <2>3
<1>8. Stays'
  <2> SUFFICES ASSUME NEW x \in User, kept[x] # None
               PROVE  /\ Valid(kept[x])'
                      /\ RowsOf(x)' = Stored(kept[x])'
                      /\ \A v \in Worker : pc'[v] \in Put => Who(v)' # x
    BY <1>1 DEF Stays
  <2>1. /\ Valid(kept[x]) /\ RowsOf(x) = Stored(kept[x])
        /\ \A v \in Worker : pc[v] \in Put => Who(v) # x
    BY DEF RowInv, Stays
  <2>2. Valid(kept[x])' /\ Stored(kept[x])' = Stored(kept[x])
    BY <1>1, <1>4, <2>1 DEF Valid, Stored, Row, UserName, Body, Message
  <2>3. x # u
    BY <2>1, Steps DEF u
  <2> QED BY <1>4, <1>5, <2>1, <2>2, <2>3
<1> QED BY <1>4, <1>7, <1>8 DEF RowInv

LEMMA InsertKeeps ==
  ASSUME RowInv, NEW w \in Worker, pc[w] = "insert", Done(w)
  PROVE  RowInv'
<1> DEFINE t == task[w]
           u == UserName(t)
<1>1. /\ table' = table \cup Stored(t) /\ Goes(w) /\ pc[w] \in Put
      /\ alone' = [alone EXCEPT ![w] = @ /\ w \notin tangled]
      /\ kept' = IF alone'[w] THEN [kept EXCEPT ![u] = t] ELSE kept
  BY DEF Done
<1>2. alone' \in [Worker -> BOOLEAN] /\ \A v \in Worker : alone'[v] => alone[v]
  BY <1>1 DEF RowInv, RowType
<1>3. kept' \in [User -> Task \cup {None}]
  BY <1>1 DEF RowInv, RowType
<1>4. /\ RowType' /\ Apart' /\ UNCHANGED got /\ Valid(t) /\ pc'[w] = "take"
      /\ \A v \in Worker : v # w => pc'[v] = pc[v]
      /\ \A v \in Worker : pc'[v] \in Put => pc[v] \in Put /\ Who(v)' = Who(v)
  BY <1>1, <1>2, <1>3, Went, Steps
<1>5. Who(w) = u /\ \A r \in Stored(t) : r.user = u
  BY DEF Who, Row, Stored
<1> DEFINE new == Stored(t)
<1>9. table' = table \cup new /\ \A r \in new : r.user = u
  BY <1>1, <1>5
<1> HIDE DEF new, u, t
<1>10. ASSUME NEW x
       PROVE  /\ x # u => RowsOf(x)' = RowsOf(x)
              /\ x = u => RowsOf(x)' = RowsOf(x) \cup new
  BY <1>9 DEF RowsOf
<1>11. Cleared'
  <2> SUFFICES ASSUME NEW v \in Worker, alone'[v], pc'[v] \in Put \ {"delete"}
               PROVE  RowsOf(Who(v))' = {}
    BY DEF Cleared
  <2>1. pc[v] \in Put /\ Who(v)' = Who(v) /\ alone[v]
    BY <1>2, <1>4
  <2>2. v # w /\ pc'[v] = pc[v]
    BY <1>4, Steps
  <2>3. RowsOf(Who(v)) = {}
    BY <2>1, <2>2 DEF RowInv, Cleared
  <2>4. Who(v) # u
    BY <1>5, <2>1, <2>2, Steps DEF RowInv, Apart
  <2> QED BY <1>9, <2>1, <2>3, <2>4 DEF RowsOf
<1>12. Stays'
  <2> SUFFICES ASSUME NEW x \in User, kept'[x] # None
               PROVE  /\ Valid(kept[x])'
                      /\ RowsOf(x)' = Stored(kept[x])'
                      /\ \A v \in Worker : pc'[v] \in Put => Who(v)' # x
    BY DEF Stays
  <2>1. CASE alone'[w] /\ x = u
    <3>1. kept'[x] = t
      BY <1>1, <2>1 DEF RowInv, RowType
    <3>2. RowsOf(u) = {}
      BY <1>2, <1>5, <2>1, Steps DEF RowInv, Cleared
    <3>3. RowsOf(x)' = new
      BY <1>10, <2>1, <3>2
    <3>4. Stored(kept[x])' = new
      BY <1>4, <3>1 DEF new, Stored, Row, UserName, Body, Message
    <3>5. Valid(kept[x])'
      BY <1>4, <3>1 DEF Valid
    <3>6. ASSUME NEW v \in Worker, pc'[v] \in Put PROVE Who(v)' # x
      <4>1. v # w /\ pc[v] \in Put /\ Who(v)' = Who(v)
        BY <1>4, <3>6, Steps
      <4>2. Who(w) # Who(v)
        BY <1>2, <2>1, <4>1, Steps DEF RowInv, Apart
      <4> QED BY <1>5, <2>1, <4>1, <4>2
    <3> QED BY <3>3, <3>4, <3>5, <3>6
  <2>2. CASE ~(alone'[w] /\ x = u)
    <3>1. kept'[x] = kept[x]
      BY <1>1, <2>2 DEF RowInv, RowType
    <3>2. /\ Valid(kept[x]) /\ RowsOf(x) = Stored(kept[x])
          /\ \A v \in Worker : pc[v] \in Put => Who(v) # x
      BY <3>1 DEF RowInv, Stays
    <3>3. x # u
      BY <1>5, <3>2, Steps
    <3>4. Valid(kept[x])' /\ Stored(kept[x])' = Stored(kept[x])
      BY <1>4, <3>1, <3>2 DEF Valid, Stored, Row, UserName, Body, Message
    <3>5. RowsOf(x)' = Stored(kept[x])'
      BY <1>10, <3>2, <3>3, <3>4
    <3>6. \A v \in Worker : pc'[v] \in Put => Who(v)' # x
      BY <1>4, <3>2
    <3> QED BY <3>4, <3>5, <3>6
  <2> QED BY <2>1, <2>2
<1> QED BY <1>4, <1>11, <1>12 DEF RowInv

LEMMA DoneKeeps ==
  ASSUME RowInv, NEW w \in Worker, Done(w)
  PROVE  RowInv'
<1>1. CASE pc[w] = "delete"
  BY <1>1, DeleteKeeps
<1>2. CASE pc[w] = "insert"
  BY <1>2, InsertKeeps
<1>3. CASE pc[w] \in {"alter", "names"}
  <2>1. /\ UNCHANGED <<table, kept>> /\ Goes(w)
        /\ alone' = [alone EXCEPT ![w] = @ /\ w \notin tangled]
    BY <1>3 DEF Done
  <2>2. alone' \in [Worker -> BOOLEAN] /\ \A v \in Worker : alone'[v] => alone[v]
    BY <2>1 DEF RowInv, RowType
  <2> QED BY <1>3, <2>1, <2>2, Steps, WentSame
<1> QED BY <1>1, <1>2, <1>3 DEF Done, Put

LEMMA SpoiltKeeps ==
  ASSUME RowInv, NEW w \in Worker, NotDone(w)
  PROVE  RowInv'
<1>1. /\ UNCHANGED <<table, kept>> /\ Goes(w) /\ pc[w] \in Put
      /\ alone' = [alone EXCEPT ![w] = FALSE]
  BY DEF NotDone
<1>2. alone' \in [Worker -> BOOLEAN] /\ ~alone'[w] /\ \A v \in Worker : alone'[v] => alone[v]
  BY <1>1 DEF RowInv, RowType
<1> QED BY <1>1, <1>2, WentSame

LEMMA GetKeeps ==
  ASSUME RowInv, NEW w \in Worker, Answer(w) \/ SetNames(w)
  PROVE  RowInv'
<1>1. /\ UNCHANGED <<table, alone, kept>> /\ Goes(w)
      /\ pc[w] \in Get /\ pc[w] # "delete"
  BY DEF Answer, SetNames, Get
<1>2. alone' \in [Worker -> BOOLEAN] /\ \A v \in Worker : alone'[v] => alone[v]
  BY <1>1 DEF RowInv, RowType
<1> QED BY <1>1, <1>2, WentSame

LEMMA RowKeeps == CodecInv /\ RowInv /\ [Next]_vars => RowInv'
<1> SUFFICES ASSUME CodecInv, RowInv, [Next]_vars PROVE RowInv'
  OBVIOUS
<1>1. ASSUME NEW c \in Conn, Client(c) \/ Receive(c) \/ Rest(c) PROVE RowInv'
  <2>1. UNCHANGED <<got, queue, pc, task, table, alone, kept>>
    BY <1>1 DEF Client, Receive, Rest, Send, Arrive, Wait, pool, database
  <2> QED BY <2>1, RowUndisturbed
<1>2. ASSUME NEW c \in Conn, onStringMessage(c) PROVE RowInv'
  BY <1>2, MessageQueued
<1>3. ASSUME NEW w \in Worker, Query(w) PROVE RowInv'
  <2>1. UNCHANGED <<got, queue, pc, task, table, alone, kept>>
    BY <1>3 DEF Query, codecVars, pool
  <2> QED BY <2>1, RowUndisturbed
<1>4. ASSUME NEW w \in Worker, Work(w) PROVE RowInv'
  BY <1>3, <1>4, TakeKeeps, DoneKeeps, SpoiltKeeps, GetKeeps DEF Work
<1>5. CASE Dies \/ UNCHANGED vars
  <2>1. UNCHANGED <<got, queue, pc, task, table, alone, kept>>
    BY <1>5 DEF Dies, vars, codecVars, pool, database
  <2> QED BY <2>1, RowUndisturbed
<1>6. CASE Break
  <2>1. /\ UNCHANGED <<got, queue, pc, task, table, kept>>
        /\ alone' = [w \in Worker |-> FALSE]
    BY <1>6 DEF Break, codecVars, pool
  <2> QED BY <2>1, RowQuiet
<1> QED BY <1>1, <1>2, <1>4, <1>5, <1>6 DEF Next, Read

(* With any workers, users and messages: a put that met no other put of its *)
(* user, no other worker on the handle and no failure leaves the user one   *)
(* row, its own, until the user's next put begins.                          *)
THEOREM RowsAreKept == Spec => []RowKept
<1>1. Init => CodecInv /\ RowInv
  BY CodecStarts, RowStarts DEF Init
<1>2. CodecInv /\ RowInv /\ [Next]_vars => (CodecInv /\ RowInv)'
  BY CodecKeeps, RowKeeps
<1>3. CodecInv /\ RowInv => RowKept
  BY DEF RowInv, Stays, RowKept
<1> QED BY <1>1, <1>2, <1>3, PTL DEF Spec

-----------------------------------------------------------------------------
(***************************************************************************)
(* Each message is dealt with once: what is queued, what the workers have  *)
(* and what has been answered are different messages.                      *)
(***************************************************************************)

Busy(w) == pc[w] # "take"
Once ==
  /\ replies = [c \in Conn |-> replies[c]]
  /\ \A i, j \in 1..Len(queue) : queue[i] = queue[j] => i = j
  /\ \A w \in Worker, i \in 1..Len(queue) : Busy(w) => task[w] # queue[i]
  /\ \A w, v \in Worker : w # v /\ Busy(w) /\ Busy(v) => task[w] # task[v]
  /\ \A c \in Conn : \A r \in replies[c] :
       /\ Valid(r.to)
       /\ \A i \in 1..Len(queue) : r.to # queue[i]
       /\ \A w \in Worker : Busy(w) => r.to # task[w]

LEMMA OnceStarts == Init => Once
BY DEF Init, Once, Busy

LEMMA OnceSame ==
  ASSUME Once, UNCHANGED <<got, queue, pc, task, replies>>
  PROVE  Once'
BY DEF Once, Busy, Valid

LEMMA OnceQueued ==
  ASSUME CodecInv, RowInv, Once, NEW c \in Conn, onStringMessage(c)
  PROVE  Once'
<1>1. /\ OnMessage(c) /\ UNCHANGED <<pc, task, replies>>
      /\ queue' = Append(queue, <<c, Len(got'[c])>>)
  BY DEF onStringMessage
<1>2. /\ got \in [Conn -> Seq(Seq(Piece))] /\ NextMessage(c) \in Seq(Piece)
      /\ got' = [got EXCEPT ![c] = Append(@, NextMessage(c))]
  BY <1>1, OnMessageKeeps DEF CodecInv, CodecType
<1>3. /\ got[c] \in Seq(Seq(Piece)) /\ got'[c] = Append(got[c], NextMessage(c))
      /\ \A d \in Conn : d # c => got'[d] = got[d]
  BY <1>2
<1>4. PICK n \in Nat : n = Len(got[c]) /\ Len(got'[c]) = n + 1
  BY <1>3, Appended
<1> DEFINE x == <<c, n + 1>>
<1>5. /\ queue \in Seq(Task) /\ \A i \in 1..Len(queue) : Valid(queue[i])
      /\ \A w \in Worker : Busy(w) => Valid(task[w])
  BY DEF RowInv, RowType, Busy
<1>6. ~Valid(x)
  BY <1>4 DEF Valid
<1>7. queue' = Append(queue, x) /\ x \in Task
  BY <1>1, <1>4 DEF Task
<1> HIDE DEF x
<1>8. /\ Len(queue') = Len(queue) + 1 /\ Len(queue) \in Nat /\ queue'[Len(queue) + 1] = x
      /\ \A i \in 1..Len(queue) : queue'[i] = queue[i]
  BY <1>5, <1>7
<1>9. \A i \in 1..Len(queue') :
        \/ i \in 1..Len(queue) /\ queue'[i] = queue[i]
        \/ i = Len(queue) + 1 /\ queue'[i] = x
  BY <1>8
<1>10. ASSUME NEW t, Valid(t) PROVE Valid(t)'
  <2>1. t \in Task /\ t[1] \in Conn /\ t[2] \in 1..Len(got[t[1]])
    BY <1>10 DEF Valid, Task
  <2>2. CASE t[1] # c
    BY <1>3, <2>1, <2>2 DEF Valid, Task
  <2>3. CASE t[1] = c
    <3>1. t[2] \in 1..(n + 1)
      BY <1>4, <2>1, <2>3
    <3> QED BY <1>4, <2>1, <2>3, <3>1 DEF Valid, Task
  <2> QED BY <2>2, <2>3
<1>11. ASSUME NEW i \in 1..Len(queue'), NEW j \in 1..Len(queue'), queue'[i] = queue'[j]
       PROVE  i = j
  <2>1. CASE i \in 1..Len(queue) /\ j \in 1..Len(queue)
    BY <1>8, <1>11, <2>1 DEF Once
  <2>2. CASE i = Len(queue) + 1 \/ j = Len(queue) + 1
    BY <1>5, <1>6, <1>8, <1>9, <1>11, <2>2
  <2> QED BY <1>9, <2>1, <2>2
<1>12. ASSUME NEW w \in Worker, NEW i \in 1..Len(queue'), Busy(w)
       PROVE  task[w] # queue'[i]
  BY <1>5, <1>6, <1>9, <1>12 DEF Once
<1>13. ASSUME NEW d \in Conn, NEW r \in replies[d]
       PROVE  /\ Valid(r.to)'
              /\ \A i \in 1..Len(queue') : r.to # queue'[i]
  <2>1. Valid(r.to) /\ \A i \in 1..Len(queue) : r.to # queue[i]
    BY <1>13 DEF Once
  <2>2. Valid(r.to)'
    BY <1>10, <2>1 DEF Valid
  <2> QED BY <1>6, <1>9, <2>1, <2>2
<1> QED BY <1>1, <1>11, <1>12, <1>13 DEF Once, Busy, Valid

LEMMA OnceTaken ==
  ASSUME RowInv, Once, NEW w \in Worker, dealMessage(w)
  PROVE  Once'
<1>1. /\ ~Busy(w) /\ queue # <<>> /\ queue' = Tail(queue)
      /\ UNCHANGED <<got, replies>>
      /\ \/ /\ \E p \in {"delete", "get names", "unpack"} : pc' = [pc EXCEPT ![w] = p]
            /\ task' = [task EXCEPT ![w] = Head(queue)]
         \/ UNCHANGED <<pc, task>>
  BY DEF dealMessage, Take, codecVars, Busy
<1>2. /\ pc \in [Worker -> {"take", "unpack"} \cup Put \cup Get]
      /\ task \in [Worker -> Task \cup {None}] /\ queue \in Seq(Task)
  BY DEF RowInv, RowType
<1>3. /\ Len(queue) \in Nat \ {0} /\ Head(queue) = queue[1] /\ Len(queue') = Len(queue) - 1
      /\ \A i \in 1..Len(queue') : queue'[i] = queue[i + 1]
  BY <1>1, <1>2, Taken
<1>4. /\ 1 \in 1..Len(queue)
      /\ \A i \in 1..Len(queue') : i + 1 \in 1..Len(queue) /\ i + 1 # 1
      /\ \A i, j \in 1..Len(queue') : i + 1 = j + 1 => i = j
  BY <1>3
<1>5. /\ \A v \in Worker : v # w => pc'[v] = pc[v] /\ task'[v] = task[v]
      /\ pc'[w] # "take" => task'[w] = queue[1]
  BY <1>1, <1>2, <1>3 DEF Busy
<1>6. \A i, j \in 1..Len(queue') : queue'[i] = queue'[j] => i = j
  BY <1>3, <1>4 DEF Once
<1>7. ASSUME NEW v \in Worker, NEW i \in 1..Len(queue'), pc'[v] # "take"
      PROVE  task'[v] # queue'[i]
  <2>1. CASE v = w
    BY <1>3, <1>4, <1>5, <1>7, <2>1 DEF Once
  <2>2. CASE v # w
    BY <1>3, <1>4, <1>5, <1>7, <2>2 DEF Once, Busy
  <2> QED BY <2>1, <2>2
<1>8. ASSUME NEW v \in Worker, NEW x \in Worker, v # x, pc'[v] # "take", pc'[x] # "take"
      PROVE  task'[v] # task'[x]
  BY <1>4, <1>5, <1>8 DEF Once, Busy
<1>9. ASSUME NEW c \in Conn, NEW r \in replies[c]
      PROVE  /\ Valid(r.to)'
             /\ \A i \in 1..Len(queue') : r.to # queue'[i]
             /\ \A v \in Worker : pc'[v] # "take" => r.to # task'[v]
  <2>1. /\ Valid(r.to) /\ \A i \in 1..Len(queue) : r.to # queue[i]
        /\ \A v \in Worker : pc[v] # "take" => r.to # task[v]
    BY <1>9 DEF Once, Busy
  <2>2. Valid(r.to)'
    BY <1>1, <2>1 DEF Valid
  <2>3. \A v \in Worker : pc'[v] # "take" => r.to # task'[v]
    BY <1>4, <1>5, <2>1
  <2> QED BY <1>3, <1>4, <2>1, <2>2, <2>3
<1> QED BY <1>1, <1>6, <1>7, <1>8, <1>9 DEF Once, Busy, Valid

(* A worker goes on; what it answers is its own message, with which it is    *)
(* through.                                                                 *)
LEMMA OnceWent ==
  ASSUME RowInv, Once, NEW w \in Worker, Busy(w), Goes(w),
         replies' = [c \in Conn |-> replies'[c]],
         \A c \in Conn : \A r \in replies'[c] :
           r \in replies[c] \/ (r.to = task[w] /\ After[pc[w]] = "take")
  PROVE  Once'
<1>1. /\ pc' = [pc EXCEPT ![w] = After[@]]
      /\ task' = IF After[pc[w]] = "take" THEN [task EXCEPT ![w] = None] ELSE task
      /\ UNCHANGED <<got, queue>>
  BY DEF Goes, codecVars
<1>2. /\ pc \in [Worker -> {"take", "unpack"} \cup Put \cup Get]
      /\ task \in [Worker -> Task \cup {None}] /\ Valid(task[w])
  BY DEF RowInv, RowType, Busy
<1>3. /\ \A v \in Worker : pc'[v] # "take" => pc[v] # "take" /\ task'[v] = task[v]
      /\ pc'[w] = After[pc[w]]
  BY <1>1, <1>2 DEF Busy
<1>4. ASSUME NEW c \in Conn, NEW r \in replies'[c]
      PROVE  /\ Valid(r.to)'
             /\ \A i \in 1..Len(queue) : r.to # queue[i]
             /\ \A v \in Worker : pc'[v] # "take" => r.to # task[v]
  <2>1. CASE r \in replies[c]
    BY <1>1, <1>3, <2>1 DEF Once, Busy, Valid
  <2>2. CASE r.to = task[w] /\ After[pc[w]] = "take"
    BY <1>1, <1>2, <1>3, <2>2 DEF Once, Busy, Valid
  <2> QED BY <1>4, <2>1, <2>2
<1> QED BY <1>1, <1>3, <1>4 DEF Once, Busy, Valid

LEMMA AnswerGives ==
  ASSUME RowInv, Once, NEW w \in Worker, Answer(w)
  PROVE  /\ replies' = [c \in Conn |-> replies'[c]]
         /\ \A c \in Conn : \A r \in replies'[c] : r \in replies[c] \/ r.to = task[w]
<1>1. replies' = replies \/ \E x : Reply(w, x)
  BY DEF Answer
<1>2. replies = [c \in Conn |-> replies[c]]
  BY DEF Once
<1>3. CASE replies' = replies
  BY <1>2, <1>3
<1>4. ASSUME NEW x, Reply(w, x)
      PROVE  /\ replies' = [c \in Conn |-> replies'[c]]
             /\ \A c \in Conn : \A r \in replies'[c] : r \in replies[c] \/ r.to = task[w]
  <2> DEFINE new == {[to |-> task[w], text |-> y] : y \in Packed(x)}
  <2>1. \A r \in new : r.to = task[w]
    OBVIOUS
  <2>2. replies' = [replies EXCEPT ![task[w][1]] = @ \cup new]
    BY <1>4, Zenon DEF Reply
  <2> HIDE DEF new
  <2>3. replies' = [c \in Conn |-> IF c = task[w][1] THEN replies[c] \cup new ELSE replies[c]]
    BY <1>2, <2>2, Zenon
  <2>4. \A c \in Conn : replies'[c] = replies[c] \/ replies'[c] = replies[c] \cup new
    BY <2>3
  <2>5. replies' = [c \in Conn |-> replies'[c]]
    BY <2>3
  <2> QED BY <2>1, <2>4, <2>5
<1> QED BY <1>1, <1>3, <1>4

LEMMA OnceKeeps == CodecInv /\ RowInv /\ Once /\ [Next]_vars => Once'
<1> SUFFICES ASSUME CodecInv, RowInv, Once, [Next]_vars PROVE Once'
  OBVIOUS
<1>1. ASSUME NEW c \in Conn, Client(c) \/ Receive(c) \/ Rest(c) PROVE Once'
  <2>1. UNCHANGED <<got, queue, pc, task, replies>>
    BY <1>1 DEF Client, Receive, Rest, Send, Arrive, Wait, pool
  <2> QED BY <2>1, OnceSame
<1>2. ASSUME NEW c \in Conn, onStringMessage(c) PROVE Once'
  BY <1>2, OnceQueued
<1>3. ASSUME NEW w \in Worker, Query(w) PROVE Once'
  <2>1. UNCHANGED <<got, queue, pc, task, replies>>
    BY <1>3 DEF Query, codecVars, pool
  <2> QED BY <2>1, OnceSame
<1>4. ASSUME NEW w \in Worker, Done(w) \/ NotDone(w) \/ SetNames(w) PROVE Once'
  <2>1. Busy(w) /\ Goes(w) /\ UNCHANGED replies
    BY <1>4, Steps DEF Done, NotDone, SetNames, Busy
  <2>2. replies' = [c \in Conn |-> replies'[c]]
    BY <2>1 DEF Once
  <2> QED BY <2>1, <2>2, OnceWent
<1>5. ASSUME NEW w \in Worker, Answer(w) PROVE Once'
  <2>1. Busy(w) /\ Goes(w) /\ After[pc[w]] = "take"
    BY <1>5 DEF Answer, Busy, After, Put, Get
  <2> QED BY <1>5, <2>1, AnswerGives, OnceWent
<1>6. ASSUME NEW w \in Worker, Work(w) PROVE Once'
  BY <1>3, <1>4, <1>5, <1>6, OnceTaken DEF Work
<1>7. CASE Dies \/ Break \/ UNCHANGED vars
  <2>1. UNCHANGED <<got, queue, pc, task, replies>>
    BY <1>7 DEF Dies, Break, vars, codecVars, pool, database
  <2> QED BY <2>1, OnceSame
<1> QED BY <1>1, <1>2, <1>6, <1>7 DEF Next, Read

(* With any workers, users and messages: a get that has the handle to       *)
(* itself after such a put is answered with what gzCompress makes of the    *)
(* text that was put, or "FAIL" if it was refused, and with nothing else.   *)
THEOREM GetsSeePuts == Spec => GetSeesPut
<1> DEFINE Inv == CodecInv /\ RowInv /\ Once
           Now == UNION {replies'[c] : c \in Conn}
           Before == UNION {replies[c] : c \in Conn}
           New == Now \ Before
           Sees == \A w \in Worker :
             LET u == UserName(task[w])
                 new == (UNION {replies'[c] : c \in Conn}) \ (UNION {replies[c] : c \in Conn}) IN
             Answer(w) /\ link /\ ~Spoilt(w) /\ u \in User /\ kept[u] # None =>
               {r.text : r \in new} = UNION {Packed(x) : x \in Texts(Stored(kept[u]))}
<1>1. Init => Inv
  BY CodecStarts, RowStarts, OnceStarts DEF Init
<1>2. Inv /\ [Next]_vars => Inv'
  BY CodecKeeps, RowKeeps, OnceKeeps
<1>3. Inv => Sees
  <2> SUFFICES ASSUME Inv, NEW w \in Worker, Answer(w), link, ~Spoilt(w),
                      UserName(task[w]) \in User, kept[UserName(task[w])] # None
               PROVE  {r.text : r \in New} =
                        UNION {Packed(x) : x \in Texts(Stored(kept[UserName(task[w])]))}
    OBVIOUS
  <2> DEFINE u == UserName(task[w])
             t == task[w]
             S == Texts(Stored(kept[u]))
  <2>1. RowsOf(u) = Stored(kept[u])
    BY DEF RowInv, Stays
  <2>2. w \notin tangled
    BY DEF Spoilt
  <2>3. PICK b \in S : Reply(w, b)
    BY <2>1, <2>2 DEF Answer
  <2>4. S = {b}
    <3>1. Stored(kept[u]) = {} \/ Stored(kept[u]) = {Row(kept[u])}
      BY DEF Stored
    <3> QED BY <2>3, <3>1 DEF Texts
  <2>5. Busy(w) /\ Valid(t) /\ t[1] \in Conn
    BY DEF Answer, Busy, RowInv, RowType, Valid, Task
  <2>6. /\ replies = [c \in Conn |-> replies[c]]
        /\ \A c \in Conn : \A r \in replies[c] : r.to # t
    BY <2>5 DEF Once
  <2> DEFINE sent_now == {[to |-> t, text |-> y] : y \in Packed(b)}
  <2>7. \A r : r \in New <=> /\ \E c \in Conn : r \in replies'[c]
                            /\ \A c \in Conn : r \notin replies[c]
    <3>1. \A r : r \in Now <=> \E c \in Conn : r \in replies'[c]
      OBVIOUS
    <3>2. \A r : r \in Before <=> \E c \in Conn : r \in replies[c]
      OBVIOUS
    <3> HIDE DEF Now, Before
    <3> QED BY <3>1, <3>2
  <2> HIDE DEF New
  <2>8. replies' = [replies EXCEPT ![t[1]] = @ \cup sent_now]
    BY <2>3, Zenon DEF Reply
  <2>9. /\ \A r \in sent_now : r.to = t
        /\ {r.text : r \in sent_now} = Packed(b)
    <3> HIDE DEF t
    <3>1. ASSUME NEW r \in sent_now PROVE r.to = t /\ r.text \in Packed(b)
      BY <3>1
    <3>2. ASSUME NEW y \in Packed(b) PROVE \E r \in sent_now : r.text = y
      <4>1. [to |-> t, text |-> y] \in sent_now
        BY <3>2
      <4>2. [to |-> t, text |-> y].text = y
        OBVIOUS
      <4> HIDE DEF sent_now
      <4> QED BY <4>1, <4>2
    <3> HIDE DEF sent_now
    <3> QED BY <3>1, <3>2
  <2> HIDE DEF sent_now, t
  <2>10. /\ replies'[t[1]] = replies[t[1]] \cup sent_now
         /\ \A c \in Conn : c # t[1] => replies'[c] = replies[c]
    BY <2>5, <2>6, <2>8
  <2>11. New = sent_now
    <3>1. ASSUME NEW r \in sent_now PROVE r \in New
      BY <2>5, <2>6, <2>7, <2>9, <2>10
    <3>2. ASSUME NEW r \in New PROVE r \in sent_now
      <4>1. PICK c \in Conn : r \in replies'[c]
        BY <2>7
      <4>2. r \notin replies[c]
        BY <2>7
      <4> QED BY <2>10, <4>1, <4>2
    <3> QED BY <3>1, <3>2
  <2>12. {r.text : r \in New} = Packed(b)
    BY <2>9, <2>11
  <2>13. UNION {Packed(x) : x \in S} = Packed(b)
    BY <2>4
  <2> QED BY <2>12, <2>13
<1>4. Inv /\ [Next]_vars => [Sees]_vars
  BY <1>3
<1> QED BY <1>1, <1>2, <1>4, PTL DEF Spec, GetSeesPut
=============================================================================
