--------------------------- MODULE DbLayerProofs ---------------------------
(***************************************************************************)
(* Theorems about DbLayer, for any objects, calls, rows and keys, and with  *)
(* no bound on faults.                                                     *)
(***************************************************************************)
EXTENDS DbLayer, TLAPS, NaturalsInduction, SequenceTheorems, WellFoundedInduction

(***************************************************************************)
(* The inductive invariant behind TypeOK and AtomicUnlessBroken, object by  *)
(* object.  The conjunct the two lack: an operation that is about to        *)
(* connect has no session, so that the failure of ConnectDB costs no       *)
(* transaction.                                                            *)
(***************************************************************************)
Local(o) ==
  /\ pc[o] \in Places
  /\ handle[o] \in {"none", "open", "freed"}
  /\ link[o] \in BOOLEAN /\ inTrans[o] \in BOOLEAN /\ open[o] \in BOOLEAN
  /\ second[o] \in BOOLEAN /\ begun[o] \in BOOLEAN /\ whole[o] \in BOOLEAN
  /\ warned[o] \in BOOLEAN
  /\ pc[o] \in {"ping", "connect", "exec"} => call[o] \in Calls[scene][o]
  /\ pc[o] = "exec" => handle[o] = "open"
  /\ pc[o] = "connect" => ~link[o]
  /\ open[o] => link[o] /\ inTrans[o]
  /\ link[o] => handle[o] = "open"
  /\ work[o] # <<>> => open[o]
  /\ begun[o] /\ whole[o] => open[o] /\ work[o] = accepted[o]

Fun(f) == f = [o \in Objects |-> f[o]]
Shape ==
  /\ Fun(pc) /\ Fun(handle) /\ Fun(link) /\ Fun(inTrans) /\ Fun(open)
  /\ Fun(second) /\ Fun(begun) /\ Fun(whole) /\ Fun(warned)
  /\ Fun(call) /\ Fun(work) /\ Fun(accepted)
  /\ alone \in [Objects -> BOOLEAN]

IInv == Shape /\ \A o \in Objects : Local(o)

(* A step of o leaves what Local(p) reads to every other p.                 *)
At(f, g, o) == g = [f EXCEPT ![o] = g[o]]

LEMMA SameAt ==
  ASSUME NEW o \in Objects, NEW f, Fun(f), NEW g, g = f
  PROVE  At(f, g, o) /\ g[o] = f[o]
BY DEF Fun, At

LEMMA ExceptAt ==
  ASSUME NEW o \in Objects, NEW x, NEW f, Fun(f), NEW g, g = [f EXCEPT ![o] = x]
  PROVE  At(f, g, o) /\ g[o] = x
BY DEF Fun, At

OnlyAt(o) ==
  /\ At(pc, pc', o) /\ At(call, call', o) /\ At(second, second', o)
  /\ At(handle, handle', o) /\ At(link, link', o) /\ At(inTrans, inTrans', o)
  /\ At(open, open', o) /\ At(work, work', o)
  /\ At(begun, begun', o) /\ At(accepted, accepted', o)
  /\ At(whole, whole', o) /\ At(warned, warned', o)
  /\ scene' = scene
  /\ alone' \in [Objects -> BOOLEAN]

LEMMA IInvKept ==
  ASSUME IInv, NEW o \in Objects, OnlyAt(o), Local(o)'
  PROVE  IInv'
<1>1. Shape'
  BY DEF IInv, Shape, Fun, OnlyAt, At
<1>2. ASSUME NEW p \in Objects PROVE Local(p)'
  <2>1. CASE p = o BY <2>1
  <2>2. CASE p # o
    <3>1. Local(p) BY DEF IInv
    <3>2. /\ pc'[p] = pc[p] /\ handle'[p] = handle[p] /\ link'[p] = link[p]
          /\ inTrans'[p] = inTrans[p] /\ open'[p] = open[p] /\ second'[p] = second[p]
      BY <2>2 DEF IInv, Shape, Fun, OnlyAt, At
    <3>3. /\ begun'[p] = begun[p] /\ whole'[p] = whole[p] /\ warned'[p] = warned[p]
          /\ call'[p] = call[p] /\ work'[p] = work[p] /\ accepted'[p] = accepted[p]
          /\ scene' = scene
      BY <2>2 DEF IInv, Shape, Fun, OnlyAt, At
    <3> QED BY <3>1, <3>2, <3>3 DEF Local
  <2> QED BY <2>1, <2>2
<1> QED BY <1>1, <1>2 DEF IInv

LEMMA InitEstablishes == Init => IInv
<1> SUFFICES ASSUME Init PROVE IInv OBVIOUS
<1>1. Shape BY DEF Init, Shape, Fun
<1>2. ASSUME NEW o \in Objects PROVE Local(o) BY DEF Init, Local, Places
<1> QED BY <1>1, <1>2 DEF IInv

(* The program moves: an operation ends, or goes on with its call.          *)
Moves(o) ==
  /\ At(pc, pc', o) /\ At(call, call', o) /\ At(second, second', o)
  /\ second'[o] \in BOOLEAN
  /\ pc'[o] \in {"idle", "ping", "exec"}
  /\ pc'[o] # "idle" => call'[o] = call[o]

LEMMA FinishMoves ==
  ASSUME Shape, NEW o \in Objects, NEW r, Finish(o, r)
  PROVE  Moves(o) /\ pc'[o] = "idle"
BY DEF Finish, Moves, At, Shape, Fun

LEMMA GoesOnMoves ==
  ASSUME Shape, NEW o \in Objects, NEW f, GoesOn(o, f)
  PROVE  Moves(o)
BY DEF GoesOn, Moves, At, Shape, Fun

LEMMA AnsweredMoves ==
  ASSUME Shape, NEW o \in Objects, NEW w, NEW fs, Answered(o, w, fs)
  PROVE  Moves(o)
<1>1. (\E f : GoesOn(o, f)) \/ (\E r : Finish(o, r))
  BY Zenon DEF Answered
<1> QED BY <1>1, FinishMoves, GoesOnMoves

(* What a step leaves to its own object.                                    *)
ProgramSame(o) == pc'[o] = pc[o] /\ call'[o] = call[o] /\ second'[o] = second[o]
LinkSame(o) == handle'[o] = handle[o] /\ link'[o] = link[o] /\ inTrans'[o] = inTrans[o]
WorkSame(o) == open'[o] = open[o] /\ work'[o] = work[o]
StorySame(o) == /\ begun'[o] = begun[o] /\ accepted'[o] = accepted[o]
                /\ whole'[o] = whole[o] /\ warned'[o] = warned[o]

(***************************************************************************)
(* The steps of an operation.                                              *)
(***************************************************************************)
LEMMA PingKeeps ==
  ASSUME IInv, NEW o \in Objects, Ping(o)
  PROVE  IInv' /\ OnlyAt(o)
<1>1. Shape /\ Local(o)
  BY DEF IInv
<1>2. /\ pc'[o] = "exec" /\ call'[o] = call[o] /\ second'[o] = second[o]
      /\ pc[o] = "ping" /\ handle[o] = "open"
      /\ handle'[o] = handle[o] /\ link'[o] = TRUE /\ inTrans'[o] = inTrans[o]
      /\ WorkSame(o)
      /\ StorySame(o)
  BY <1>1 DEF Shape, Fun, Ping, Reaches, Reached, Goes, server, history, WorkSame,
       StorySame
<1>3. OnlyAt(o)
  BY <1>1, SameAt, ExceptAt, Zenon DEF OnlyAt, Shape, Ping, Reaches, Reached, Goes,
       server, history
<1>4. Local(o)'
  BY <1>1, <1>2, <1>3 DEF Local, Places, OnlyAt, WorkSame, StorySame
<1> QED BY <1>3, <1>4, IInvKept

LEMMA PingFailsKeeps ==
  ASSUME IInv, NEW o \in Objects, PingFails(o)
  PROVE  IInv' /\ OnlyAt(o)
<1>1. Shape /\ Local(o)
  BY DEF IInv
<1>2. /\ pc'[o] = "connect" /\ call'[o] = call[o] /\ second'[o] = second[o]
      /\ pc[o] = "ping" /\ ((handle[o] = "open" /\ ~link[o]) \/ handle[o] = "none")
      /\ handle'[o] = handle[o] /\ link'[o] = link[o]
      /\ inTrans'[o] \in {FALSE, inTrans[o]}
      /\ WorkSame(o)
      /\ StorySame(o)
  BY <1>1 DEF Shape, Fun, PingFails, Gone, Goes, client, server, history, WorkSame,
       StorySame
<1>3. OnlyAt(o)
  BY <1>1, SameAt, ExceptAt, Zenon DEF OnlyAt, Shape, PingFails, Gone, Goes, client,
       server, history
<1>4. Local(o)'
  BY <1>1, <1>2, <1>3 DEF Local, Places, OnlyAt, WorkSame, StorySame
<1> QED BY <1>3, <1>4, IInvKept

LEMMA ConnectKeeps ==
  ASSUME IInv, NEW o \in Objects, Connect(o)
  PROVE  IInv' /\ OnlyAt(o)
<1>1. Shape /\ Local(o)
  BY DEF IInv
<1>2. /\ pc'[o] = "exec" /\ call'[o] = call[o] /\ second'[o] = second[o]
      /\ pc[o] = "connect"
      /\ handle'[o] = "open" /\ link'[o] = TRUE /\ inTrans'[o] = FALSE
      /\ WorkSame(o)
      /\ StorySame(o)
  BY <1>1 DEF Shape, Fun, Connect, NewSession, Goes, server, history, WorkSame, StorySame
<1>3. OnlyAt(o)
  BY <1>1, SameAt, ExceptAt, Zenon DEF OnlyAt, Shape, Connect, NewSession, Goes,
       server, history
<1>4. Local(o)'
  BY <1>1, <1>2, <1>3 DEF Local, Places, OnlyAt, WorkSame, StorySame
<1> QED BY <1>3, <1>4, IInvKept

LEMMA ConnectFailsKeeps ==
  ASSUME IInv, NEW o \in Objects, ConnectFails(o)
  PROVE  IInv' /\ OnlyAt(o)
<1>1. Shape /\ Local(o)
  BY DEF IInv
<1>2. Moves(o) /\ pc'[o] = "idle"
  BY <1>1, FinishMoves DEF ConnectFails
<1>3. /\ pc[o] = "connect"
      /\ handle'[o] = "freed" /\ link'[o] = FALSE /\ inTrans'[o] = FALSE
      /\ WorkSame(o)
      /\ begun'[o] = begun[o] /\ accepted'[o] = accepted[o] /\ whole'[o] = whole[o]
      /\ warned'[o] = begun[o]
  BY <1>1, <1>2 DEF Shape, Fun, ConnectFails, Warns, server, Moves, WorkSame
<1>4. OnlyAt(o)
  BY <1>1, <1>2, SameAt, ExceptAt, Zenon DEF OnlyAt, Shape, ConnectFails, Warns,
       server, Moves
<1>5. Local(o)'
  BY <1>1, <1>2, <1>3, <1>4 DEF Local, Places, OnlyAt, WorkSame, Moves
<1> QED BY <1>4, <1>5, IInvKept

LEMMA NotPreparedKeeps ==
  ASSUME IInv, NEW o \in Objects, NotPrepared(o)
  PROVE  IInv' /\ OnlyAt(o)
<1>1. Shape /\ Local(o)
  BY DEF IInv
<1>2. Moves(o) /\ pc'[o] = "idle"
  BY <1>1, FinishMoves DEF NotPrepared
<1>3. /\ pc[o] = "exec"
      /\ handle'[o] = handle[o] /\ link'[o] = TRUE /\ inTrans'[o] = inTrans[o]
      /\ WorkSame(o)
      /\ begun'[o] = begun[o] /\ accepted'[o] = accepted[o] /\ whole'[o] = whole[o]
      /\ warned'[o] = begun[o]
  BY <1>1, <1>2 DEF Shape, Fun, NotPrepared, Reaches, Reached, Warns, server, Moves,
       WorkSame
<1>4. OnlyAt(o)
  BY <1>1, <1>2, SameAt, ExceptAt, Zenon DEF OnlyAt, Shape, NotPrepared, Reaches,
       Reached, Warns, server, Moves
<1>5. Local(o)'
  BY <1>1, <1>2, <1>3, <1>4 DEF Local, Places, OnlyAt, WorkSame, Moves
<1> QED BY <1>4, <1>5, IInvKept

LEMMA ExecGoneKeeps ==
  ASSUME IInv, NEW o \in Objects, ExecGone(o)
  PROVE  IInv' /\ OnlyAt(o)
<1>1. Shape /\ Local(o)
  BY DEF IInv
<1>2. Moves(o)
  BY <1>1, AnsweredMoves DEF ExecGone
<1>3. /\ pc[o] = "exec" /\ ~link[o]
      /\ handle'[o] = handle[o] /\ link'[o] = link[o] /\ inTrans'[o] = FALSE
      /\ WorkSame(o)
      /\ begun'[o] = begun[o] /\ accepted'[o] = accepted[o] /\ whole'[o] = whole[o]
      /\ warned'[o] = begun[o]
  BY <1>1, <1>2 DEF Shape, Fun, ExecGone, Gone, Warns, server, Moves, WorkSame
<1>4. OnlyAt(o)
  BY <1>1, <1>2, SameAt, ExceptAt, Zenon DEF OnlyAt, Shape, ExecGone, Gone, Warns,
       server, Moves
<1>5. Local(o)'
  BY <1>1, <1>2, <1>3, <1>4 DEF Local, Places, OnlyAt, WorkSame, Moves
<1> QED BY <1>4, <1>5, IInvKept

LEMMA DeadlockedKeeps ==
  ASSUME IInv, NEW o \in Objects, Deadlocked(o)
  PROVE  IInv' /\ OnlyAt(o)
<1>1. Shape /\ Local(o)
  BY DEF IInv
<1>2. Moves(o)
  BY <1>1, AnsweredMoves DEF Deadlocked
<1>3. /\ pc[o] = "exec"
      /\ LinkSame(o)
      /\ open'[o] = FALSE /\ work'[o] = <<>>
      /\ begun'[o] = begun[o] /\ accepted'[o] = accepted[o] /\ whole'[o] = ~begun[o]
      /\ warned'[o] = begun[o]
  BY <1>1, <1>2 DEF Shape, Fun, Deadlocked, SessionEnds, Breaks, Warns, client, Moves,
       LinkSame
<1>4. OnlyAt(o)
  BY <1>1, <1>2, SameAt, ExceptAt, Zenon DEF OnlyAt, Shape, Deadlocked, SessionEnds,
       Breaks, Warns, client, Moves
<1>5. Local(o)'
  BY <1>1, <1>2, <1>3, <1>4 DEF Local, Places, OnlyAt, LinkSame, Moves
<1> QED BY <1>4, <1>5, IInvKept

LEMMA TimesOutKeeps ==
  ASSUME IInv, NEW o \in Objects, TimesOut(o)
  PROVE  IInv' /\ OnlyAt(o)
<1>1. Shape /\ Local(o)
  BY DEF IInv
<1>2. Moves(o)
  BY <1>1, AnsweredMoves DEF TimesOut
<1>3. /\ pc[o] = "exec"
      /\ handle'[o] = handle[o] /\ link'[o] = FALSE /\ inTrans'[o] = inTrans[o]
      /\ open'[o] = FALSE /\ work'[o] = <<>>
      /\ begun'[o] = begun[o] /\ accepted'[o] = accepted[o] /\ whole'[o] = ~begun[o]
      /\ warned'[o] = begun[o]
  BY <1>1, <1>2 DEF Shape, Fun, TimesOut, SessionEnds, Breaks, Warns, Moves
<1>4. OnlyAt(o)
  BY <1>1, <1>2, SameAt, ExceptAt, Zenon DEF OnlyAt, Shape, TimesOut, SessionEnds,
       Breaks, Warns, Moves
<1>5. Local(o)'
  BY <1>1, <1>2, <1>3, <1>4 DEF Local, Places, OnlyAt, Moves
<1> QED BY <1>4, <1>5, IInvKept

LEMMA BeginKeeps ==
  ASSUME IInv, NEW o \in Objects, Begin(o)
  PROVE  IInv' /\ OnlyAt(o)
<1>1. Shape /\ Local(o)
  BY DEF IInv
<1>2. /\ pc[o] = "idle" /\ pc'[o] = "ping" /\ call'[o] \in Calls[scene][o]
      /\ LinkSame(o)
      /\ WorkSame(o)
      /\ StorySame(o)
      /\ second'[o] = second[o]
  BY <1>1 DEF Shape, Fun, Begin, client, server, LinkSame, WorkSame, StorySame
<1>3. OnlyAt(o)
  BY <1>1, SameAt, ExceptAt, Zenon DEF OnlyAt, Shape, Begin, client, server
<1>4. Local(o)'
  BY <1>1, <1>2, <1>3 DEF Local, Places, OnlyAt, LinkSame, WorkSame, StorySame
<1> QED BY <1>3, <1>4, IInvKept

LEMMA DiesKeeps ==
  ASSUME IInv, NEW o \in Objects, Dies(o), scene' = scene
  PROVE  IInv' /\ OnlyAt(o)
<1>1. Shape /\ Local(o)
  BY DEF IInv
<1>2. /\ pc'[o] = "crashed" /\ call'[o] = call[o] /\ second'[o] = second[o]
      /\ handle'[o] = handle[o] /\ link'[o] = FALSE /\ inTrans'[o] = inTrans[o]
      /\ open'[o] = FALSE /\ work'[o] = <<>>
      /\ begun'[o] = begun[o] /\ accepted'[o] = accepted[o] /\ whole'[o] = ~begun[o]
      /\ warned'[o] = warned[o]
  BY <1>1 DEF Shape, Fun, Dies, SessionEnds, Breaks
<1>3. OnlyAt(o)
  BY <1>1, SameAt, ExceptAt, Zenon DEF OnlyAt, Shape, Dies, SessionEnds, Breaks
<1>4. Local(o)'
  BY <1>1, <1>2, <1>3 DEF Local, Places, OnlyAt
<1> QED BY <1>3, <1>4, IInvKept

LEMMA PingFreedKeeps ==
  ASSUME IInv, NEW o \in Objects, PingFreed(o)
  PROVE  IInv' /\ OnlyAt(o)
<1>1. CASE Dies(o)
  BY <1>1, DiesKeeps DEF PingFreed
<1>2. CASE Goes(o, "connect") /\ UNCHANGED <<server, client, history>>
  <2>1. Shape /\ Local(o)
    BY DEF IInv
  <2>2. /\ pc'[o] = "connect" /\ call'[o] = call[o] /\ second'[o] = second[o]
        /\ pc[o] = "ping" /\ scene' = scene /\ handle[o] = "freed" /\ LinkSame(o) /\ WorkSame(o) /\ StorySame(o)
    BY <1>2, <2>1 DEF Shape, Fun, PingFreed, Goes, server, client, history, LinkSame,
         WorkSame, StorySame
  <2>3. OnlyAt(o)
    BY <1>2, <2>1, <2>2, SameAt, ExceptAt, Zenon DEF OnlyAt, Shape, Goes, server,
         client, history
  <2>4. Local(o)'
    BY <2>1, <2>2, <2>3 DEF Local, Places, OnlyAt, LinkSame, WorkSame, StorySame
  <2> QED BY <2>3, <2>4, IInvKept
<1> QED BY <1>1, <1>2, Zenon DEF PingFreed

LEMMA ResultLostKeeps ==
  ASSUME IInv, NEW o \in Objects, ResultLost(o)
  PROVE  IInv' /\ OnlyAt(o)
BY DiesKeeps DEF ResultLost

LEMMA DisturbedTyped ==
  ASSUME Shape, NEW o, NEW T, Disturbed(o, T)
  PROVE  alone' \in [Objects -> BOOLEAN]
BY DEF Disturbed, Shape

(***************************************************************************)
(* Commands and faults.                                                    *)
(***************************************************************************)
LEMMA Start_TransactionKeeps ==
  ASSUME IInv, NEW o \in Objects, Start_Transaction(o)
  PROVE  IInv' /\ OnlyAt(o)
<1>1. Shape /\ Local(o)
  BY DEF IInv
<1>2. /\ ProgramSame(o)
      /\ pc[o] = "idle" /\ handle[o] = "open" /\ handle'[o] = handle[o]
      /\ link'[o] = TRUE /\ inTrans'[o] = TRUE
      /\ open'[o] = TRUE /\ work'[o] = <<>>
      /\ begun'[o] = TRUE /\ accepted'[o] = <<>> /\ whole'[o] = TRUE /\ warned'[o] = FALSE
  BY <1>1 DEF Shape, Fun, Start_Transaction, Reaches, Commits, Begins, ProgramSame
<1>3. alone' \in [Objects -> BOOLEAN]
  BY <1>1, DisturbedTyped DEF Start_Transaction, Reaches, Commits, Begins, Shape
<1>4. OnlyAt(o)
  BY <1>1, <1>3, SameAt, ExceptAt, Zenon DEF OnlyAt, Shape, Start_Transaction, Reaches,
       Commits, Begins
<1>5. Local(o)'
  BY <1>1, <1>2, <1>4 DEF Local, Places, OnlyAt, ProgramSame
<1> QED BY <1>4, <1>5, IInvKept

LEMMA CommitKeeps ==
  ASSUME IInv, NEW o \in Objects, Commit(o)
  PROVE  IInv' /\ OnlyAt(o)
<1>1. Shape /\ Local(o)
  BY DEF IInv
<1>2. /\ ProgramSame(o)
      /\ pc[o] = "idle" /\ handle[o] = "open" /\ handle'[o] = handle[o]
      /\ link'[o] = TRUE /\ inTrans'[o] = FALSE
      /\ open'[o] = FALSE /\ work'[o] = <<>>
      /\ begun'[o] = FALSE /\ accepted'[o] = <<>> /\ whole'[o] = TRUE /\ warned'[o] = FALSE
  BY <1>1 DEF Shape, Fun, Commit, Reaches, Commits, SessionEnds, NewSession, Begins,
       ProgramSame
<1>3. alone' \in [Objects -> BOOLEAN]
  BY <1>1, DisturbedTyped DEF Commit, Reaches, Commits, SessionEnds, NewSession,
       Begins, Shape
<1>4. OnlyAt(o)
  BY <1>1, <1>3, SameAt, ExceptAt, Zenon DEF OnlyAt, Shape, Commit, Reaches, Commits,
       SessionEnds, NewSession, Begins
<1>5. Local(o)'
  BY <1>1, <1>2, <1>4 DEF Local, Places, OnlyAt, ProgramSame
<1> QED BY <1>4, <1>5, IInvKept

LEMMA RollbackKeeps ==
  ASSUME IInv, NEW o \in Objects, Rollback(o)
  PROVE  IInv' /\ OnlyAt(o)
<1>1. Shape /\ Local(o)
  BY DEF IInv
<1>2. /\ ProgramSame(o)
      /\ pc[o] = "idle" /\ handle[o] = "open" /\ handle'[o] = handle[o]
      /\ link'[o] = TRUE /\ inTrans'[o] = FALSE
      /\ open'[o] = FALSE /\ work'[o] = <<>>
      /\ begun'[o] = FALSE /\ accepted'[o] = <<>> /\ whole'[o] = TRUE /\ warned'[o] = FALSE
  BY <1>1 DEF Shape, Fun, Rollback, Reaches, SessionEnds, NewSession, Begins, ProgramSame
<1>3. OnlyAt(o)
  BY <1>1, SameAt, ExceptAt, Zenon DEF OnlyAt, Shape, Rollback, Reaches, SessionEnds,
       NewSession, Begins
<1>4. Local(o)'
  BY <1>1, <1>2, <1>3 DEF Local, Places, OnlyAt, ProgramSame
<1> QED BY <1>3, <1>4, IInvKept

LEMMA CommandFailsKeeps ==
  ASSUME IInv, NEW o \in Objects, CommandFails(o)
  PROVE  IInv' /\ OnlyAt(o)
<1>1. Shape /\ Local(o)
  BY DEF IInv
<1>2. /\ ProgramSame(o)
      /\ pc[o] = "idle" /\ ~link[o]
      /\ handle'[o] = handle[o] /\ link'[o] = link[o] /\ inTrans'[o] = FALSE
      /\ WorkSame(o)
      /\ begun'[o] = begun[o] /\ accepted'[o] = accepted[o] /\ whole'[o] = whole[o]
      /\ warned'[o] = begun[o]
  BY <1>1 DEF Shape, Fun, CommandFails, Gone, Warns, server, ProgramSame, WorkSame
<1>3. OnlyAt(o)
  BY <1>1, SameAt, ExceptAt, Zenon DEF OnlyAt, Shape, CommandFails, Gone, Warns, server
<1>4. Local(o)'
  BY <1>1, <1>2, <1>3 DEF Local, Places, OnlyAt, ProgramSame, WorkSame
<1> QED BY <1>3, <1>4, IInvKept

LEMMA CommandTimesOutKeeps ==
  ASSUME IInv, NEW o \in Objects, CommandTimesOut(o)
  PROVE  IInv' /\ OnlyAt(o)
<1>1. Shape /\ Local(o)
  BY DEF IInv
<1>2. /\ ProgramSame(o)
      /\ pc[o] = "idle"
      /\ handle'[o] = handle[o] /\ link'[o] = FALSE /\ inTrans'[o] = inTrans[o]
      /\ open'[o] = FALSE /\ work'[o] = <<>>
      /\ begun'[o] = begun[o] /\ accepted'[o] = accepted[o] /\ whole'[o] = ~begun[o]
      /\ warned'[o] = begun[o]
  BY <1>1 DEF Shape, Fun, CommandTimesOut, Commits, SessionEnds, Breaks, Warns,
       ProgramSame
<1>3. alone' \in [Objects -> BOOLEAN]
  BY <1>1, DisturbedTyped DEF CommandTimesOut, Commits, SessionEnds, Breaks, Warns, Shape
<1>4. OnlyAt(o)
  BY <1>1, <1>3, SameAt, ExceptAt, Zenon DEF OnlyAt, Shape, CommandTimesOut, Commits,
       SessionEnds, Breaks, Warns
<1>5. Local(o)'
  BY <1>1, <1>2, <1>4 DEF Local, Places, OnlyAt, ProgramSame
<1> QED BY <1>4, <1>5, IInvKept

LEMMA BreakKeeps ==
  ASSUME IInv, NEW o \in Objects, Break(o)
  PROVE  IInv' /\ OnlyAt(o)
<1>1. Shape /\ Local(o)
  BY DEF IInv
<1>2. /\ ProgramSame(o)
      /\ handle'[o] = handle[o] /\ link'[o] = FALSE /\ inTrans'[o] = inTrans[o]
      /\ link[o]
      /\ open'[o] = FALSE /\ work'[o] = <<>>
      /\ begun'[o] = begun[o] /\ accepted'[o] = accepted[o] /\ whole'[o] = ~begun[o]
      /\ warned'[o] = warned[o]
  BY <1>1 DEF Shape, Fun, Break, SessionEnds, Breaks, program, ProgramSame
<1>3. OnlyAt(o)
  BY <1>1, SameAt, ExceptAt, Zenon DEF OnlyAt, Shape, Break, SessionEnds, Breaks, program
<1>4. Local(o)'
  BY <1>1, <1>2, <1>3 DEF Local, Places, OnlyAt, ProgramSame
<1> QED BY <1>3, <1>4, IInvKept

LEMMA DisConnectDBKeeps ==
  ASSUME IInv, NEW o \in Objects, DisConnectDB(o)
  PROVE  IInv' /\ OnlyAt(o)
<1>1. CASE Dies(o)
  BY <1>1, DiesKeeps DEF DisConnectDB
<1>2. CASE ~Dies(o)
  <2>1. Shape /\ Local(o)
    BY DEF IInv
  <2>2. /\ ProgramSame(o)
        /\ pc[o] = "idle"
        /\ handle'[o] = "none" /\ link'[o] = FALSE /\ inTrans'[o] = FALSE
        /\ open'[o] = FALSE /\ work'[o] = <<>>
        /\ begun'[o] = FALSE /\ accepted'[o] = <<>> /\ whole'[o] = TRUE
        /\ warned'[o] = FALSE
    BY <1>2, <2>1 DEF Shape, Fun, DisConnectDB, SessionEnds, Begins, ProgramSame
  <2>3. OnlyAt(o)
    BY <1>2, <2>1, SameAt, ExceptAt, Zenon DEF OnlyAt, Shape, DisConnectDB, SessionEnds,
       Begins
  <2>4. Local(o)'
    BY <2>1, <2>2, <2>3 DEF Local, Places, OnlyAt, ProgramSame
  <2> QED BY <2>3, <2>4, IInvKept
<1> QED BY <1>1, <1>2

LEMMA ConnectDBKeeps ==
  ASSUME IInv, NEW o \in Objects, ConnectDB(o)
  PROVE  IInv' /\ OnlyAt(o)
<1>1. Shape /\ Local(o)
  BY DEF IInv
<1>2. /\ ProgramSame(o)
      /\ pc[o] = "idle"
      /\ inTrans'[o] = FALSE
      /\ (handle'[o] = "open" /\ link'[o] = TRUE) \/ (handle'[o] = "freed" /\ link'[o] = FALSE)
      /\ open'[o] = FALSE /\ work'[o] = <<>>
      /\ begun'[o] = FALSE /\ accepted'[o] = <<>> /\ whole'[o] = TRUE /\ warned'[o] = FALSE
  BY <1>1 DEF Shape, Fun, ConnectDB, NewSession, SessionEnds, Begins, ProgramSame
<1>3. OnlyAt(o)
  BY <1>1, SameAt, ExceptAt, Zenon DEF OnlyAt, Shape, ConnectDB, NewSession, SessionEnds,
       Begins
<1>4. Local(o)'
  BY <1>1, <1>2, <1>3 DEF Local, Places, OnlyAt, ProgramSame
<1> QED BY <1>3, <1>4, IInvKept

LEMMA CommandUnconnectedKeeps ==
  ASSUME IInv, NEW o \in Objects, CommandUnconnected(o)
  PROVE  IInv' /\ OnlyAt(o)
<1>1. CASE Dies(o)
  BY <1>1, DiesKeeps DEF CommandUnconnected
<1>2. CASE /\ Warns(o)
           /\ UNCHANGED <<server, client, pc, call, now, second>>
           /\ UNCHANGED <<begun, accepted, whole, mine, alone>>
  <2>1. Shape /\ Local(o)
    BY DEF IInv
  <2>2. /\ pc[o] = "idle" /\ scene' = scene /\ ProgramSame(o) /\ LinkSame(o) /\ WorkSame(o)
        /\ begun'[o] = begun[o] /\ accepted'[o] = accepted[o] /\ whole'[o] = whole[o]
        /\ warned'[o] = begun[o]
    BY <1>2, <2>1 DEF Shape, Fun, CommandUnconnected, Warns, server, client, ProgramSame,
         LinkSame, WorkSame
  <2>3. OnlyAt(o)
    BY <1>2, <2>1, <2>2, SameAt, ExceptAt, Zenon DEF OnlyAt, Shape, Warns, server, client
  <2>4. Local(o)'
    BY <2>1, <2>2, <2>3 DEF Local, Places, OnlyAt, ProgramSame, LinkSame, WorkSame
  <2> QED BY <2>3, <2>4, IInvKept
<1> QED BY <1>1, <1>2, Zenon DEF CommandUnconnected

LEMMA RejectedKeeps ==
  ASSUME IInv, NEW o \in Objects, Rejected(o)
  PROVE  IInv' /\ OnlyAt(o)
<1>1. Shape /\ Local(o)
  BY DEF IInv
<1>2. Moves(o)
  BY <1>1, AnsweredMoves DEF Rejected
<1>3. /\ pc[o] = "exec"
      /\ handle'[o] = handle[o] /\ link'[o] = TRUE /\ inTrans'[o] = inTrans[o]
      /\ begun'[o] = begun[o] /\ accepted'[o] = accepted[o] /\ warned'[o] = begun[o]
      /\ \/ open'[o] = FALSE /\ work'[o] = <<>> /\ whole'[o] = ~begun[o]
         \/ open'[o] = open[o] /\ work'[o] = work[o] /\ whole'[o] = whole[o]
  BY <1>1, <1>2 DEF Shape, Fun, Rejected, Reaches, Reached, SessionEnds, Breaks, Warns
<1>4. alone' \in [Objects -> BOOLEAN]
  BY <1>1, DisturbedTyped DEF Rejected, Shape
<1>5. OnlyAt(o)
  BY <1>1, <1>2, <1>4, SameAt, ExceptAt, Zenon
     DEF OnlyAt, Shape, Rejected, Reached, SessionEnds, Breaks, Warns, Moves
<1>6. Local(o)'
  BY <1>1, <1>2, <1>3, <1>5 DEF Local, Places, OnlyAt, Moves
<1> QED BY <1>5, <1>6, IInvKept

(***************************************************************************)
(* A statement: kept in the transaction, stored at once, or only read.      *)
(***************************************************************************)
LEMMA RunKeeps ==
  ASSUME IInv, NEW o \in Objects, Run(o)
  PROVE  IInv' /\ OnlyAt(o)
<1> DEFINE s == WithNumber(now[o], nextId)
<1>1. Shape /\ Local(o)
  BY DEF IInv
<1>2. Moves(o)
  BY <1>1, AnsweredMoves DEF Run
<1>3. /\ pc[o] = "exec" /\ handle'[o] = handle[o] /\ link'[o] = TRUE
      /\ inTrans'[o] = open'[o]
      /\ begun'[o] = begun[o] /\ warned'[o] = warned[o]
  BY <1>1, <1>2 DEF Shape, Fun, Run, Reaches
<1>4. accepted'[o] = IF begun[o] /\ IsWrite(s) THEN Append(accepted[o], s) ELSE accepted[o]
  BY <1>1 DEF Shape, Fun, Run
<1>5. whole'[o] = IF EndsWork(s) THEN ~begun[o] ELSE whole[o]
  BY <1>1 DEF Shape, Fun, Run
<1>6. \/ open[o] /\ ~EndsWork(s) /\ InWork(o, s)
      \/ IsRead(s) /\ UNCHANGED <<rows, open, work, alone>>
      \/ (open[o] => EndsWork(s)) /\ InRows(o, s)
  BY Zenon DEF Run
<1>7. \/ /\ open[o] /\ ~EndsWork(s) /\ open'[o] = open[o]
         /\ work'[o] = IF IsWrite(s) THEN Append(work[o], s) ELSE work[o]
      \/ IsRead(s) /\ open'[o] = open[o] /\ work'[o] = work[o]
      \/ (open[o] => EndsWork(s)) /\ open'[o] = FALSE /\ work'[o] = <<>>
  BY <1>1, <1>6 DEF Shape, Fun, InWork, InRows, SessionEnds
<1>8. At(open, open', o) /\ At(work, work', o)
  <2> HIDE DEF s
  <2> QED BY <1>1, <1>6, SameAt, ExceptAt, Zenon DEF Shape, InWork, InRows, SessionEnds
<1>9. alone' \in [Objects -> BOOLEAN]
  <2>1. CASE InRows(o, s)
    BY <1>1, <2>1, DisturbedTyped DEF InRows
  <2>2. CASE InWork(o, s) \/ alone' = alone
    BY <1>1, <2>2 DEF InWork, Shape
  <2> QED BY <1>6, <2>1, <2>2
<1>10. IsRead(s) => ~IsWrite(s) /\ ~EndsWork(s)
  BY DEF IsRead, IsWrite, EndsWork
<1>11. OnlyAt(o)
  <2>1. At(whole, whole', o) /\ At(accepted, accepted', o)
    BY <1>1, SameAt, ExceptAt, Zenon DEF Shape, Run
  <2>2. At(link, link', o) /\ At(inTrans, inTrans', o) /\ At(handle, handle', o)
    BY <1>1, SameAt, ExceptAt, Zenon DEF Shape, Run
  <2>3. At(begun, begun', o) /\ At(warned, warned', o) /\ scene' = scene
    BY <1>1, SameAt, ExceptAt, Zenon DEF Shape, Run
  <2> QED BY <1>2, <1>8, <1>9, <2>1, <2>2, <2>3 DEF OnlyAt, Moves
<1>12. Local(o)'
  <2> HIDE DEF s
  <2> QED BY <1>1, <1>2, <1>3, <1>4, <1>5, <1>7, <1>10, <1>11 DEF Local, Places, OnlyAt, Moves
<1> QED BY <1>11, <1>12, IInvKept

(***************************************************************************)
(* The server carries out, or drops, what was given up.                     *)
(***************************************************************************)
LEMMA RunLateKeeps ==
  ASSUME IInv, RunLate
  PROVE  IInv'
<1>1. alone' \in [Objects -> BOOLEAN]
  BY DEF IInv, Shape, RunLate
<1>2. UNCHANGED <<scene, pc, handle, link, inTrans, open, second, begun, whole, warned, call,
                  work, accepted>>
  BY Zenon DEF RunLate, client, program
<1> QED BY <1>1, <1>2 DEF IInv, Shape, Fun, Local

(* A leaked session ends: nothing else changes.                             *)
LEMMA LeakEndsRests ==
  ASSUME LeakEnds \/ UNCHANGED vars
  PROVE  /\ UNCHANGED <<scene, rows, nextId, open, work, late, handle, link, inTrans>>
         /\ UNCHANGED <<pc, call, now, second, ret>>
         /\ UNCHANGED <<begun, accepted, whole, warned, mine, alone>>
<1>1. CASE LeakEnds
  BY <1>1 DEF LeakEnds, client, program, history
<1>2. CASE UNCHANGED vars
  BY <1>2 DEF vars, server, client, program, history
<1> QED BY <1>1, <1>2

LEMMA NextKeeps ==
  ASSUME IInv, [Next]_vars
  PROVE  IInv'
<1>1. CASE RunLate
  BY <1>1, RunLateKeeps
<1>2. ASSUME NEW o \in Objects, Begin(o) \/ Step(o) PROVE IInv'
  BY <1>2, BeginKeeps, PingKeeps, PingFailsKeeps, PingFreedKeeps, ConnectKeeps, RunKeeps,
     RejectedKeeps, NotPreparedKeeps, DeadlockedKeeps, ExecGoneKeeps, TimesOutKeeps, Zenon
     DEF Step, Refused, Unprepared
<1>3. ASSUME NEW o \in Objects, Command(o) PROVE IInv'
  BY <1>3, Start_TransactionKeeps, CommitKeeps, RollbackKeeps, CommandFailsKeeps,
     CommandTimesOutKeeps, CommandUnconnectedKeeps, ConnectDBKeeps, DisConnectDBKeeps, Zenon DEF Command
<1>4. ASSUME NEW o \in Objects, Fault(o) PROVE IInv'
  BY <1>4, ConnectFailsKeeps, RejectedKeeps, NotPreparedKeeps, ResultLostKeeps,
       BreakKeeps, Zenon
     DEF Fault, RefusedElse, PrepareFails
<1>5. CASE LeakEnds \/ UNCHANGED vars
  <2>1. UNCHANGED <<scene, open, work, handle, link, inTrans, pc, call, second,
                    begun, accepted, whole, warned, alone>>
    BY <1>5, LeakEndsRests
  <2>2. \A o \in Objects : Local(o)'
    BY <2>1 DEF IInv, Local
  <2> QED BY <2>1, <2>2 DEF IInv, Shape, Fun
<1> QED BY <1>1, <1>2, <1>3, <1>4, <1>5 DEF Next

(* The inductive invariant holds, with any faults and any number of them.   *)
THEOREM Inductive == Spec => []IInv
<1>1. IInv /\ [Next]_vars => IInv'
  BY NextKeeps
<1> QED BY InitEstablishes, <1>1, PTL DEF Spec

(* The operations find the state they expect: a statement is sent on an open *)
(* handle, a lost session has no transaction, a freed handle no session.    *)
THEOREM TypeCorrect == Spec => []TypeOK
<1>1. IInv => TypeOK
  <2> SUFFICES ASSUME IInv PROVE TypeOK OBVIOUS
  <2>1. pc \in [Objects -> Places] /\ handle \in [Objects -> {"none", "open", "freed"}]
    BY DEF IInv, Shape, Fun, Local
  <2>2. /\ link \in [Objects -> BOOLEAN] /\ inTrans \in [Objects -> BOOLEAN]
        /\ open \in [Objects -> BOOLEAN] /\ second \in [Objects -> BOOLEAN]
    BY DEF IInv, Shape, Fun, Local
  <2>3. /\ begun \in [Objects -> BOOLEAN] /\ whole \in [Objects -> BOOLEAN]
        /\ warned \in [Objects -> BOOLEAN] /\ alone \in [Objects -> BOOLEAN]
    BY DEF IInv, Shape, Fun, Local
  <2> QED BY <2>1, <2>2, <2>3 DEF TypeOK, IInv, Local
<1> QED BY Inductive, <1>1, PTL

(* As long as a program's session is not lost, no deadlock rolls its        *)
(* transaction back and no TRUNCATE ends it, the transaction at the server  *)
(* is made of exactly the statements the server has carried out for it.     *)
THEOREM Atomic == Spec => []AtomicUnlessBroken
<1>1. IInv => AtomicUnlessBroken
  BY DEF IInv, Local, AtomicUnlessBroken
<1> QED BY Inductive, <1>1, PTL

(* If nothing has taken the transaction from the program, a Commit that      *)
(* returns 0 stores exactly what the server has carried out for it since.   *)
CommitStores ==
  [][\A o \in Objects :
       begun[o] /\ whole[o] /\ Commit(o) => rows' = ApplyAll(accepted[o], rows)]_vars
THEOREM CommitsWhole == Spec => CommitStores
<1>1. IInv /\ [Next]_vars =>
        [\A o \in Objects :
           begun[o] /\ whole[o] /\ Commit(o) => rows' = ApplyAll(accepted[o], rows)]_vars
  <2> SUFFICES ASSUME IInv, NEW o \in Objects, begun[o], whole[o], Commit(o)
               PROVE  rows' = ApplyAll(accepted[o], rows)
    BY DEF vars
  <2>1. work[o] = accepted[o]
    BY DEF IInv, Local
  <2> QED BY <2>1 DEF Commit, Commits, View
<1> QED BY Inductive, <1>1, PTL DEF CommitStores, Spec

-----------------------------------------------------------------------------
(***************************************************************************)
(* DbStore reads statements as DbLayer does.                                *)
(***************************************************************************)
LEMMA SameNumberColumn == Store!NumberColumn = NumberColumn
BY Zenon DEF Store!NumberColumn, NumberColumn, Store!CLOUDORDER_TABLE,
   CLOUDORDER_TABLE, Store!HISCLOUDORDER_TABLE, HISCLOUDORDER_TABLE,
   Store!TRADECOUNTER_TABLE, TRADECOUNTER_TABLE

LEMMA SameStatements ==
  \A s : /\ Store!IsWrite(s) <=> IsWrite(s)
         /\ Store!EndsWork(s) <=> EndsWork(s)
         /\ \A n : /\ Store!WithNumber(s, n) = WithNumber(s, n)
                   /\ Store!NextAfter(s, n) = NextAfter(s, n)
<1>1. \A s : Store!HasNumber(s) <=> HasNumber(s)
  BY SameNumberColumn DEF Store!HasNumber, HasNumber
<1>2. \A s : Store!NumberOf(s) = NumberOf(s)
  BY SameNumberColumn, Zenon DEF Store!NumberOf, NumberOf
<1>3. \A s, n : Store!WithNumber(s, n) = WithNumber(s, n)
  BY SameNumberColumn, Zenon
     DEF Store!WithNumber, WithNumber, Store!HasNumber, HasNumber,
         Store!NumberOf, NumberOf
<1>4. \A s, n : Store!NextAfter(s, n) = NextAfter(s, n)
  BY SameNumberColumn, Zenon
     DEF Store!NextAfter, NextAfter, Store!HasNumber, HasNumber,
         Store!NumberOf, NumberOf
<1>. QED
  BY <1>3, <1>4 DEF Store!IsWrite, IsWrite, Store!EndsWork, EndsWork

LEMMA SameApply == \A s, R : Store!Apply(s, R) = Apply(s, R)
BY Zenon DEF Store!Apply, Apply, Store!Selected, Selected, Store!SameKey, SameKey,
   Store!RowsIn, RowsIn, Store!RowOf, RowOf, Store!Matches, Matches

LEMMA SameApplyAll == \A q, R : Store!ApplyAll(q, R) = ApplyAll(q, R)
BY Zenon DEF Store!ApplyAll, ApplyAll, Store!Apply, Apply, Store!Selected, Selected,
   Store!SameKey, SameKey, Store!RowsIn, RowsIn, Store!RowOf, RowOf,
   Store!Matches, Matches, Store!FoldLeft, FoldLeft,
   Store!MapThenFoldSet, MapThenFoldSet, Store!Max, Max

LEMMA StoredIsView == \A o : Store!Stored(o) = View(o)
BY SameApplyAll DEF Store!Stored, View

(* A query changes nothing and is given no number.                          *)
LEMMA ReadsOnly ==
  ASSUME NEW s, IsRead(s)
  PROVE  /\ ~IsWrite(s) /\ ~EndsWork(s) /\ ~HasNumber(s)
         /\ \A n : WithNumber(s, n) = s /\ NextAfter(s, n) = n
<1>1. ~IsWrite(s) /\ ~EndsWork(s) /\ ~HasNumber(s)
  BY DEF IsRead, IsWrite, EndsWork, HasNumber
<1>. QED
  BY <1>1 DEF WithNumber, NextAfter

(* What an operation may tell.                                              *)
Outcomes == {"failed", "none", "some"}
LEMMA AnswersAreWords ==
  /\ \A a \in DOMAIN Answer :
       /\ \A w \in Outcomes : Answer[a][w] \in Store!Words
       /\ Answer[a]["failed"] = "true" => a = "blind"
       /\ Unconnected[a] \in Store!Words /\ Unconnected[a] # "true"
  /\ \A a \in DOMAIN SecondAnswer :
       \A w \in Outcomes : SecondAnswer[a][w] \in Store!Words
<1>1. DOMAIN Answer =
        {"done", "safe", "blind", "create", "rows", "some", "coded", "account"}
  BY DEF Answer
<1>2. DOMAIN SecondAnswer = {"max", "again", "model", "range", "info"}
  BY DEF SecondAnswer
<1>3. ASSUME NEW a \in DOMAIN Answer
      PROVE  /\ \A w \in Outcomes : Answer[a][w] \in Store!Words
             /\ Answer[a]["failed"] = "true" => a = "blind"
             /\ Unconnected[a] \in Store!Words /\ Unconnected[a] # "true"
  <2>1. CASE a = "done"
    <3>1. Answer[a] = [failed |-> "false", none |-> "true", some |-> "true"]
      BY <2>1 DEF Answer
    <3>2. Unconnected[a] = "throw"
      BY <2>1 DEF Unconnected
    <3>. QED
      BY <2>1, <3>1, <3>2 DEF Outcomes, Store!Words
  <2>2. CASE a = "safe"
    <3>1. Answer[a] = [failed |-> "false", none |-> "true", some |-> "true"]
      BY <2>2 DEF Answer
    <3>2. Unconnected[a] = "false"
      BY <2>2 DEF Unconnected
    <3>. QED
      BY <2>2, <3>1, <3>2 DEF Outcomes, Store!Words
  <2>3. CASE a = "blind"
    <3>1. Answer[a] = [failed |-> "true", none |-> "true", some |-> "true"]
      BY <2>3 DEF Answer
    <3>2. Unconnected[a] = "false"
      BY <2>3 DEF Unconnected
    <3>. QED
      BY <2>3, <3>1, <3>2 DEF Outcomes, Store!Words
  <2>4. CASE a = "create"
    <3>1. Answer[a] = [failed |-> "throw", none |-> "true", some |-> "true"]
      BY <2>4 DEF Answer
    <3>2. Unconnected[a] = "throw"
      BY <2>4 DEF Unconnected
    <3>. QED
      BY <2>4, <3>1, <3>2 DEF Outcomes, Store!Words
  <2>5. CASE a = "rows"
    <3>1. Answer[a] = [failed |-> "false", none |-> "true", some |-> "true"]
      BY <2>5 DEF Answer
    <3>2. Unconnected[a] = "false"
      BY <2>5 DEF Unconnected
    <3>. QED
      BY <2>5, <3>1, <3>2 DEF Outcomes, Store!Words
  <2>6. CASE a = "some"
    <3>1. Answer[a] = [failed |-> "false", none |-> "false", some |-> "true"]
      BY <2>6 DEF Answer
    <3>2. Unconnected[a] = "false"
      BY <2>6 DEF Unconnected
    <3>. QED
      BY <2>6, <3>1, <3>2 DEF Outcomes, Store!Words
  <2>7. CASE a = "coded"
    <3>1. Answer[a] = [failed |-> "-1", none |-> "0", some |-> "1"]
      BY <2>7 DEF Answer
    <3>2. Unconnected[a] = "-1"
      BY <2>7 DEF Unconnected
    <3>. QED
      BY <2>7, <3>1, <3>2 DEF Outcomes, Store!Words
  <2>8. CASE a = "account"
    <3>1. Answer[a] = [failed |-> "0", none |-> "0", some |-> "1"]
      BY <2>8 DEF Answer
    <3>2. Unconnected[a] = "-1"
      BY <2>8 DEF Unconnected
    <3>. QED
      BY <2>8, <3>1, <3>2 DEF Outcomes, Store!Words
  <2>. QED
    BY <1>1, <2>1, <2>2, <2>3, <2>4, <2>5, <2>6, <2>7, <2>8
<1>4. ASSUME NEW a \in DOMAIN SecondAnswer
      PROVE  \A w \in Outcomes : SecondAnswer[a][w] \in Store!Words
  <2> DEFINE x == SecondAnswer[a]
  <2>6. SUFFICES /\ x["failed"] \in Store!Words /\ x["none"] \in Store!Words
                 /\ x["some"] \in Store!Words
    BY DEF Outcomes
  <2> HIDE DEF x
  <2>1. CASE a = "max"
    <3>1. x = [failed |-> "false", none |-> "true", some |-> "true"]
      BY <2>1 DEF x, SecondAnswer
    <3>. QED
      BY <3>1 DEF Store!Words
  <2>2. CASE a = "again"
    <3>1. x = [failed |-> "true", none |-> "true", some |-> "true"]
      BY <2>2 DEF x, SecondAnswer
    <3>. QED
      BY <3>1 DEF Store!Words
  <2>3. CASE a = "model"
    <3>1. x = [failed |-> "true", none |-> "true", some |-> "true"]
      BY <2>3 DEF x, SecondAnswer
    <3>. QED
      BY <3>1 DEF Store!Words
  <2>4. CASE a = "range"
    <3>1. x = [failed |-> "false", none |-> "false", some |-> "true"]
      BY <2>4 DEF x, SecondAnswer
    <3>. QED
      BY <3>1 DEF Store!Words
  <2>5. CASE a = "info"
    <3>1. x = [failed |-> "false", none |-> "false", some |-> "true"]
      BY <2>5 DEF x, SecondAnswer
    <3>. QED
      BY <3>1 DEF Store!Words
  <2>. QED
    BY <1>2, <2>1, <2>2, <2>3, <2>4, <2>5
<1>. QED
  BY <1>3, <1>4

(* What an operation of DbStatements is.                                    *)
LEMMA CallsAreOperations ==
  ASSUME NEW c \in AllCalls
  PROVE  /\ c # NoCall
         /\ c.answer \in DOMAIN Answer
         /\ c.then \in DOMAIN SecondAnswer \cup {"none"}
         /\ IsWrite(c.stmt) => Answer[c.answer]["some"] = "true"
         /\ c.then # "none" => \A f : IsRead(Second(c, f))
<1>1. PICK x \in Scenarios, o \in Objects : c \in Calls[x][o]
  BY DEF AllCalls
<1>2. /\ c # NoCall
      /\ c.answer \in DOMAIN Answer
      /\ c.then \in DOMAIN SecondAnswer \cup {"none"}
      /\ IsWrite(c.stmt) => Answer[c.answer]["some"] = "true"
      /\ c.then \in {"max", "again", "model"} => IsRead(c.next)
  BY <1>1, DbLayerAssumption
<1>3. ASSUME c.then # "none", NEW f PROVE IsRead(Second(c, f))
  <2>1. c.then \in {"max", "again", "model", "range", "info"}
    BY <1>2, <1>3 DEF SecondAnswer
  <2>2. CASE c.then \in {"max", "again", "model"}
    <3>1. Second(c, f) = c.next
      BY <2>2 DEF Second
    <3>. QED
      BY <1>2, <2>2, <3>1
  <2>3. CASE c.then = "range"
    <3>1. Second(c, f) = SelectFrom(INVESTOR_TABLE, [ID |-> f.From .. f.To], All)
      BY <2>3 DEF Second
    <3>. QED
      BY <3>1 DEF SelectFrom, IsRead
  <2>4. CASE c.then = "info"
    <3>1. Second(c, f) = SelectFrom(INFO_TABLE, [ID |-> {f.MatchID}], [IsCash |-> {0}])
      BY <2>4 DEF Second
    <3>. QED
      BY <3>1 DEF SelectFrom, IsRead
  <2>. QED
    BY <2>1, <2>2, <2>3, <2>4
<1>. QED
  BY <1>2, <1>3

-----------------------------------------------------------------------------
(* An operation is about to read the largest number back.                   *)
Reading(o) == Busy(o) /\ second[o] /\ call[o].then = "max"

(***************************************************************************)
(* The operation in progress: its statement is the one it was called with  *)
(* or, once that is done, a query, and it has told nothing yet.             *)
(***************************************************************************)
Operating(o) ==
  /\ Busy(o) => call[o] \in AllCalls /\ ret[o].told = ""
  /\ ret[o].told \in Store!Words
  /\ pc[o] = "idle" => ~second[o]
  /\ Busy(o) /\ ~second[o] => now[o] = call[o].stmt
  /\ Busy(o) /\ second[o] => IsRead(now[o]) /\ call[o].then # "none"
  /\ Reading(o) => pc[o] = "exec" /\ now[o] = call[o].next

OpInv ==
  /\ scene \in Scenarios
  /\ Fun(now) /\ Fun(ret)
  /\ \A o \in Objects : Operating(o)

(* A step of o moves no other program.                                      *)
MovesOnly(o) ==
  /\ At(pc, pc', o) /\ At(call, call', o) /\ At(now, now', o)
  /\ At(second, second', o) /\ At(ret, ret', o)
  /\ scene' = scene

LEMMA OthersStay ==
  ASSUME IInv, OpInv, NEW o \in Objects, MovesOnly(o), NEW p \in Objects, p # o
  PROVE  /\ pc'[p] = pc[p] /\ call'[p] = call[p] /\ now'[p] = now[p]
         /\ second'[p] = second[p] /\ ret'[p] = ret[p]
         /\ Busy(p)' <=> Busy(p)
<1>1. Fun(pc) /\ Fun(call) /\ Fun(second) /\ Fun(now) /\ Fun(ret)
  BY DEF IInv, Shape, OpInv
<1>2. \A f, g : Fun(f) /\ At(f, g, o) => g[p] = f[p]
  BY DEF Fun, At
<1>3. /\ pc'[p] = pc[p] /\ call'[p] = call[p] /\ now'[p] = now[p]
      /\ second'[p] = second[p] /\ ret'[p] = ret[p]
  BY <1>1, <1>2 DEF MovesOnly
<1>. QED
  BY <1>3 DEF Busy

LEMMA OpInvKept ==
  ASSUME IInv, OpInv, NEW o \in Objects, MovesOnly(o), Operating(o)'
  PROVE  OpInv'
<1>1. Fun(now)' /\ Fun(ret)'
  BY DEF OpInv, MovesOnly, Fun, At
<1>2. ASSUME NEW p \in Objects, p # o PROVE Operating(p)'
  <2>1. Operating(p)
    BY DEF OpInv
  <2>. QED
    BY <1>2, <2>1, OthersStay DEF Operating, Reading
<1>. QED
  BY <1>1, <1>2 DEF OpInv, MovesOnly

(* The ways a program moves.  It is told w and has no operation any more;   *)
(* its operation goes on with a second statement; nothing it sees changes.  *)
Quits(o, w) ==
  /\ MovesOnly(o)
  /\ pc'[o] \in {"idle", "crashed"}
  /\ pc'[o] = "idle" => ~second'[o]
  /\ ret'[o].told = w /\ w \in Store!Words

GoesSecond(o) ==
  /\ MovesOnly(o)
  /\ Busy(o) /\ ~second[o]
  /\ pc'[o] \in {"ping", "exec"} /\ call'[o] = call[o] /\ second'[o] = TRUE
  /\ ret'[o] = ret[o]
  /\ IsRead(now'[o]) /\ call[o].then # "none"
  /\ call[o].then = "max" => pc'[o] = "exec" /\ now'[o] = call[o].next

Waits(o) ==
  /\ MovesOnly(o)
  /\ \/ Busy(o) /\ pc[o] # "exec" /\ pc'[o] \in {"ping", "connect", "exec"}
     \/ pc'[o] = pc[o]
  /\ call'[o] = call[o] /\ now'[o] = now[o] /\ second'[o] = second[o]
  /\ ret'[o] = ret[o]

LEMMA MovesKeep ==
  ASSUME IInv, OpInv, NEW o \in Objects
  PROVE  /\ \A w : Quits(o, w) => OpInv'
         /\ GoesSecond(o) => OpInv'
         /\ Waits(o) => OpInv'
<1>1. Operating(o)
  BY DEF OpInv
<1>2. ASSUME NEW w, Quits(o, w) PROVE OpInv'
  <2>1. Operating(o)'
    BY <1>2 DEF Quits, Operating, Busy, Reading
  <2>. QED
    BY <1>2, <2>1, OpInvKept DEF Quits
<1>3. ASSUME GoesSecond(o) PROVE OpInv'
  <2>1. Busy(o)' /\ pc'[o] # "idle"
    BY <1>3 DEF GoesSecond, Busy
  <2>2. Operating(o)'
    BY <1>1, <1>3, <2>1 DEF GoesSecond, Operating, Reading
  <2>. QED
    BY <1>3, <2>2, OpInvKept DEF GoesSecond
<1>4. ASSUME Waits(o) PROVE OpInv'
  <2>1. Busy(o)' <=> Busy(o)
    BY <1>4 DEF Waits, Busy
  <2>2. pc'[o] = "idle" => pc[o] = "idle"
    BY <1>4 DEF Waits
  <2>3. Operating(o)'
    BY <1>1, <1>4, <2>1, <2>2 DEF Waits, Operating, Reading
  <2>. QED
    BY <1>4, <2>3, OpInvKept DEF Waits
<1>. QED
  BY <1>2, <1>3, <1>4

(* The same in the terms of DbStore.                                        *)
Asked == [o \in Objects |-> IF Busy(o) THEN call[o] ELSE NoCall]
Done == [o \in Objects |-> Busy(o) /\ second[o]]
ToldBy == [o \in Objects |-> ret[o].told]

LEMMA QuitsIsOver ==
  ASSUME IInv, OpInv, NEW o \in Objects, NEW w, Quits(o, w)
  PROVE  /\ Asked' = [Asked EXCEPT ![o] = NoCall]
         /\ Done' = [Done EXCEPT ![o] = FALSE]
         /\ ToldBy' = [ToldBy EXCEPT ![o] = w]
<1>1. ~Busy(o)' /\ ret'[o].told = w
  BY DEF Quits, Busy
<1>2. \A p \in Objects : p # o =>
        /\ call'[p] = call[p] /\ second'[p] = second[p] /\ ret'[p] = ret[p]
        /\ Busy(p)' <=> Busy(p)
  BY OthersStay DEF Quits
<1>3. \A p \in Objects :
        Asked'[p] = IF p = o THEN NoCall ELSE Asked[p]
  BY <1>1, <1>2 DEF Asked
<1>4. \A p \in Objects :
        Done'[p] = IF p = o THEN FALSE ELSE Done[p]
  BY <1>1, <1>2 DEF Done
<1>5. \A p \in Objects :
        ToldBy'[p] = IF p = o THEN w ELSE ToldBy[p]
  BY <1>1, <1>2 DEF ToldBy
<1>. QED
  BY <1>3, <1>4, <1>5 DEF Asked, Done, ToldBy

LEMMA GoesSecondIsDone ==
  ASSUME IInv, OpInv, NEW o \in Objects, GoesSecond(o)
  PROVE  /\ Asked' = Asked /\ ToldBy' = ToldBy
         /\ Done' = [Done EXCEPT ![o] = TRUE]
<1>1. /\ Busy(o) /\ Busy(o)' /\ call'[o] = call[o] /\ second'[o] = TRUE
      /\ ret'[o] = ret[o]
  BY DEF GoesSecond, Busy
<1>2. \A p \in Objects : p # o =>
        /\ call'[p] = call[p] /\ second'[p] = second[p] /\ ret'[p] = ret[p]
        /\ Busy(p)' <=> Busy(p)
  BY OthersStay DEF GoesSecond
<1>3. \A p \in Objects : Asked'[p] = Asked[p] /\ ToldBy'[p] = ToldBy[p]
  BY <1>1, <1>2 DEF Asked, ToldBy
<1>4. \A p \in Objects : Done'[p] = IF p = o THEN TRUE ELSE Done[p]
  BY <1>1, <1>2 DEF Done
<1>. QED
  BY <1>3, <1>4 DEF Asked, Done, ToldBy

LEMMA WaitsIsSame ==
  ASSUME IInv, OpInv, NEW o \in Objects, Waits(o)
  PROVE  Asked' = Asked /\ Done' = Done /\ ToldBy' = ToldBy
<1>1. /\ Busy(o)' <=> Busy(o)
      /\ call'[o] = call[o] /\ second'[o] = second[o] /\ ret'[o] = ret[o]
  BY DEF Waits, Busy
<1>2. \A p \in Objects : p # o =>
        /\ call'[p] = call[p] /\ second'[p] = second[p] /\ ret'[p] = ret[p]
        /\ Busy(p)' <=> Busy(p)
  BY OthersStay DEF Waits
<1>3. \A p \in Objects :
        Asked'[p] = Asked[p] /\ ToldBy'[p] = ToldBy[p] /\ (Done'[p] <=> Done[p])
  BY <1>1, <1>2 DEF Asked, ToldBy, Done
<1>. QED
  BY <1>3 DEF Asked, Done, ToldBy

-----------------------------------------------------------------------------
(***************************************************************************)
(* The steps of DbStore, from what the rows and the program show.           *)
(***************************************************************************)
Forgets(o) == work' = [work EXCEPT ![o] = <<>>]
KeepsRows == UNCHANGED <<rows, nextId, late>>

LEMMA AskedAndDone ==
  ASSUME OpInv, NEW o \in Objects
  PROVE  /\ Busy(o) => Asked[o] = call[o] /\ Asked[o] # NoCall
         /\ ~Busy(o) => Asked[o] = NoCall
         /\ Done[o] <=> Busy(o) /\ second[o]
BY CallsAreOperations DEF OpInv, Operating, Asked, Done

LEMMA QuitsOver ==
  ASSUME IInv, OpInv, NEW o \in Objects, NEW w, Quits(o, w)
  PROVE  Store!Over(o, w) /\ w \in Store!Words
<1>1. w \in Store!Words
  BY DEF Quits
<1>. QED
  BY <1>1, QuitsIsOver DEF Store!Over, Asked, Done, ToldBy

LEMMA StoreFails ==
  ASSUME IInv, OpInv, NEW o \in Objects, Busy(o), ~second[o],
         NEW w, Quits(o, w), w = "true" => call[o].answer = "blind",
         nextId' = nextId,
         \/ UNCHANGED <<rows, work, late>>
         \/ Forgets(o) /\ UNCHANGED <<rows, late>>
         \/ Forgets(o) /\ late' = late \cup {call[o].stmt} /\ UNCHANGED rows
         \/ /\ EndsWork(call[o].stmt) /\ rows' = View(o)
            /\ Forgets(o) /\ UNCHANGED late
  PROVE  Store!Fail(o)
<1>1. Store!Over(o, w) /\ w \in Store!Words
  BY QuitsOver
<1>2. Asked[o] = call[o] /\ Asked[o] # NoCall /\ ~Done[o]
  BY AskedAndDone
<1>3. \/ UNCHANGED <<rows, work, late>>
      \/ Store!Forget(o) /\ UNCHANGED <<rows, late>>
      \/ Store!Forget(o) /\ late' = late \cup {Asked[o].stmt} /\ UNCHANGED rows
      \/ /\ Store!EndsWork(Asked[o].stmt) /\ rows' = Store!Stored(o)
         /\ Store!Forget(o) /\ UNCHANGED late
  BY <1>2, SameStatements, StoredIsView, Zenon DEF Forgets, Store!Forget
<1>4. \E u \in Store!Words :
        Store!Over(o, u) /\ (u = "true" => Asked[o].answer = "blind")
  BY <1>1, <1>2
<1>. QED
  BY <1>2, <1>3, <1>4, Zenon DEF Store!Fail, Asked, Done

LEMMA StoreTells ==
  ASSUME IInv, OpInv, NEW o \in Objects, Busy(o), second[o],
         NEW w, Quits(o, w), KeepsRows, UNCHANGED work \/ Forgets(o)
  PROVE  Store!Tell(o)
<1>1. Store!Over(o, w) /\ w \in Store!Words
  BY QuitsOver
<1>2. Done[o]
  BY AskedAndDone
<1>3. UNCHANGED <<rows, nextId, late>> /\ (UNCHANGED work \/ Store!Forget(o))
  BY DEF KeepsRows, Forgets, Store!Forget
<1>. QED
  BY <1>1, <1>2, <1>3, Zenon DEF Store!Tell, Done

(* A statement takes effect.                                                *)
LEMMA StoreDoes ==
  ASSUME IInv, OpInv, NEW o \in Objects, Busy(o), ~second[o], NEW s,
         s = WithNumber(call[o].stmt, nextId),
         \/ /\ ~EndsWork(s) /\ rows' = rows
            /\ work' = IF IsWrite(s) THEN [work EXCEPT ![o] = Append(@, s)] ELSE work
         \/ /\ EndsWork(s) \/ work[o] = <<>>
            /\ rows' = Apply(s, View(o)) /\ Forgets(o),
         nextId' = NextAfter(s, nextId),
         \/ \E w : Quits(o, w) /\ (IsWrite(s) => w = "true")
         \/ GoesSecond(o),
         late' = late
  PROVE  Store!Do(o)
<1>1. Asked[o] = call[o] /\ Asked[o] # NoCall /\ ~Done[o]
  BY AskedAndDone
<1>2. s = Store!WithNumber(Asked[o].stmt, nextId)
  BY <1>1, SameStatements
<1>3. \/ /\ ~Store!EndsWork(s)
         /\ work' = IF Store!IsWrite(s) THEN [work EXCEPT ![o] = Append(@, s)]
                    ELSE work
         /\ UNCHANGED rows
      \/ /\ Store!EndsWork(s) \/ work[o] = <<>>
         /\ rows' = Store!Apply(s, Store!Stored(o))
         /\ Store!Forget(o)
  BY SameStatements, SameApply, StoredIsView, Zenon DEF Forgets, Store!Forget
<1>4. nextId' = Store!NextAfter(s, nextId)
  BY SameStatements
<1>5. \/ \E w \in Store!Words : Store!Over(o, w) /\ (Store!IsWrite(s) => w = "true")
      \/ Done' = [Done EXCEPT ![o] = TRUE] /\ UNCHANGED <<Asked, ToldBy>>
  <2>1. CASE GoesSecond(o)
    BY <2>1, GoesSecondIsDone
  <2>2. CASE \E w : Quits(o, w) /\ (IsWrite(s) => w = "true")
    BY <2>2, QuitsOver, SameStatements
  <2>. QED
    BY <2>1, <2>2
<1> DEFINE Does(z) ==
      /\ Asked[o] # NoCall /\ ~Done[o]
      /\ \/ /\ ~Store!EndsWork(z)
            /\ work' = IF Store!IsWrite(z) THEN [work EXCEPT ![o] = Append(@, z)]
                       ELSE work
            /\ UNCHANGED rows
         \/ /\ Store!EndsWork(z) \/ work[o] = <<>>
            /\ rows' = Store!Apply(z, Store!Stored(o))
            /\ Store!Forget(o)
      /\ nextId' = Store!NextAfter(z, nextId)
      /\ \/ \E w \in Store!Words : Store!Over(o, w) /\ (Store!IsWrite(z) => w = "true")
         \/ Done' = [Done EXCEPT ![o] = TRUE] /\ UNCHANGED <<Asked, ToldBy>>
      /\ UNCHANGED late
<1>6. Does(s)
  BY <1>1, <1>3, <1>4, <1>5
<1>7. Store!Do(o) <=> Does(Store!WithNumber(Asked[o].stmt, nextId))
  BY Zenon DEF Store!Do, Asked, Done, ToldBy
<1> HIDE DEF Does
<1>. QED
  BY <1>2, <1>6, <1>7

(* Between operations: the work is stored or lost.                          *)
LEMMA IdleQuits ==
  ASSUME IInv, OpInv, NEW o \in Objects, ~Busy(o), NEW w, Quits(o, w)
  PROVE  /\ Asked[o] = NoCall /\ Asked' = Asked /\ Done' = Done
         /\ ToldBy' = [ToldBy EXCEPT ![o] = w] /\ w \in Store!Words
<1>1. Asked[o] = NoCall /\ ~Done[o] /\ Done[o] \in BOOLEAN
  BY AskedAndDone DEF Done
<1>2. Asked = [Asked EXCEPT ![o] = NoCall] /\ Done = [Done EXCEPT ![o] = FALSE]
  BY <1>1 DEF Asked, Done
<1>3. w \in Store!Words
  BY DEF Quits
<1>. QED
  BY <1>1, <1>2, <1>3, QuitsIsOver

LEMMA StoreSettles ==
  ASSUME IInv, OpInv, NEW o \in Objects, ~Busy(o), NEW w, Quits(o, w),
         rows' = View(o), Forgets(o), UNCHANGED <<nextId, late>>
  PROVE  Store!Settle(o)
<1>1. /\ Asked[o] = NoCall /\ Asked' = Asked /\ Done' = Done
      /\ \E u \in Store!Words : ToldBy' = [ToldBy EXCEPT ![o] = u]
  BY IdleQuits
<1>2. rows' = Store!Stored(o) /\ Store!Forget(o)
  BY StoredIsView DEF Forgets, Store!Forget
<1>3. UNCHANGED <<nextId, late, Asked, Done>>
  BY <1>1
<1>. QED
  BY <1>1, <1>2, <1>3, Zenon DEF Store!Settle, Asked, Done, ToldBy

LEMMA StoreLoses ==
  ASSUME IInv, OpInv, NEW o \in Objects, Forgets(o), KeepsRows,
         \/ ~Busy(o) /\ \E w : Quits(o, w)
         \/ Waits(o)
  PROVE  Store!Lose(o)
<1>1. Store!Forget(o) /\ UNCHANGED <<rows, nextId, late>>
  BY DEF Forgets, Store!Forget, KeepsRows
<1>2. CASE ~Busy(o) /\ \E w : Quits(o, w)
  <2>1. /\ Asked[o] = NoCall /\ UNCHANGED <<Asked, Done>>
        /\ \E u \in Store!Words : ToldBy' = [ToldBy EXCEPT ![o] = u]
    BY <1>2, IdleQuits
  <2>2. IF Asked[o] = NoCall
        THEN \E u \in Store!Words : ToldBy' = [ToldBy EXCEPT ![o] = u]
        ELSE UNCHANGED ToldBy
    BY <2>1
  <2>. QED
    BY <1>1, <2>1, <2>2, Zenon DEF Store!Lose, Asked, Done, ToldBy
<1>3. CASE Waits(o)
  <2>1. UNCHANGED <<Asked, Done, ToldBy>>
    BY <1>3, WaitsIsSame
  <2>2. ToldBy[o] \in Store!Words /\ ToldBy = [ToldBy EXCEPT ![o] = ToldBy[o]]
    BY DEF OpInv, Operating, ToldBy
  <2>3. IF Asked[o] = NoCall
        THEN \E u \in Store!Words : ToldBy' = [ToldBy EXCEPT ![o] = u]
        ELSE UNCHANGED ToldBy
    BY <2>1, <2>2, Zenon
  <2>. QED
    BY <1>1, <2>1, <2>3, Zenon DEF Store!Lose, Asked, Done, ToldBy
<1>. QED
  BY <1>2, <1>3

-----------------------------------------------------------------------------
(***************************************************************************)
(* Every step of the layer is a step of the store, or one it does not see. *)
(***************************************************************************)
Mapped(o) ==
  \/ Store!Ask(o) \/ Store!Do(o) \/ Store!Fail(o) \/ Store!Tell(o)
  \/ Store!Settle(o) \/ Store!Lose(o)
  \/ UNCHANGED <<rows, nextId, work, late, Asked, Done, ToldBy>>

(* ... after which o is not about to read a number back.                    *)
Unread(o) == MovesOnly(o) /\ ~Reading(o)'

LEMMA MovesUnread ==
  ASSUME OpInv, NEW o \in Objects
  PROVE  /\ \A w : Quits(o, w) => Unread(o)
         /\ Waits(o) /\ pc[o] # "exec" => Unread(o)
<1>1. Reading(o) => pc[o] = "exec"
  BY DEF OpInv, Operating
<1>2. ASSUME Waits(o), pc[o] # "exec" PROVE Unread(o)
  <2>1. ~Reading(o) /\ (Busy(o)' <=> Busy(o))
    BY <1>1, <1>2 DEF Waits, Busy
  <2>. QED
    BY <1>2, <2>1 DEF Waits, Unread, Reading
<1>3. \A w : Quits(o, w) => Unread(o)
  BY DEF Quits, Unread, Reading, Busy
<1>. QED
  BY <1>2, <1>3

LEMMA FinishQuits ==
  ASSUME IInv, OpInv, NEW o \in Objects, NEW r, Finish(o, r), scene' = scene,
         r.told \in Store!Words
  PROVE  Quits(o, r.told)
<1>1. Fun(pc) /\ Fun(call) /\ Fun(now) /\ Fun(second) /\ Fun(ret)
  BY DEF IInv, Shape, OpInv
<1>2. /\ At(pc, pc', o) /\ pc'[o] = "idle" /\ At(call, call', o)
      /\ At(now, now', o) /\ At(second, second', o) /\ second'[o] = FALSE
      /\ At(ret, ret', o) /\ ret'[o] = r
  BY <1>1, ExceptAt, Zenon DEF Finish
<1>. QED
  BY <1>2 DEF Quits, MovesOnly

LEMMA GoesOnSecond ==
  ASSUME IInv, OpInv, NEW o \in Objects, Busy(o), ~second[o],
         call[o].then # "none", NEW f, GoesOn(o, f), scene' = scene
  PROVE  GoesSecond(o)
<1>1. Fun(pc) /\ Fun(call) /\ Fun(now) /\ Fun(second) /\ Fun(ret)
  BY DEF IInv, Shape, OpInv
<1>2. /\ At(pc, pc', o) /\ At(call, call', o) /\ call'[o] = call[o]
      /\ At(now, now', o) /\ now'[o] = Second(call[o], f)
      /\ At(second, second', o) /\ second'[o] = TRUE
      /\ At(ret, ret', o) /\ ret'[o] = ret[o]
  <2>1. call' = call /\ ret' = ret
    BY DEF GoesOn
  <2>2. now' = [now EXCEPT ![o] = Second(call[o], f)]
    BY DEF GoesOn
  <2>3. second' = [second EXCEPT ![o] = TRUE]
    BY DEF GoesOn
  <2>4. pc' = [pc EXCEPT ![o] = IF call[o].then = "max" THEN "exec" ELSE "ping"]
    BY DEF GoesOn
  <2>5. At(call, call', o) /\ At(ret, ret', o) /\ call'[o] = call[o] /\ ret'[o] = ret[o]
    BY <1>1, <2>1, SameAt
  <2>6. At(now, now', o) /\ now'[o] = Second(call[o], f)
    BY <1>1, <2>2 DEF At, Fun
  <2>7. At(second, second', o) /\ second'[o] = TRUE
    BY <1>1, <2>3, ExceptAt
  <2>8. At(pc, pc', o)
    BY <1>1, <2>4 DEF At, Fun
  <2>. QED
    BY <2>5, <2>6, <2>7, <2>8
<1>3. /\ pc'[o] \in {"ping", "exec"}
      /\ call[o].then = "max" => pc'[o] = "exec"
  BY <1>1 DEF GoesOn, Fun
<1>4. IsRead(now'[o])
  <2>1. call[o] \in AllCalls
    BY DEF OpInv, Operating
  <2>. QED
    BY <1>2, <2>1, CallsAreOperations
<1>5. call[o].then = "max" => now'[o] = call[o].next
  BY <1>2 DEF Second
<1>. QED
  BY <1>2, <1>3, <1>4, <1>5 DEF GoesSecond, MovesOnly

(* What an operation in progress tells of an outcome.                       *)
LEMMA TellsWords ==
  ASSUME IInv, OpInv, NEW o \in Objects, Busy(o)
  PROVE  /\ \A w \in Outcomes : TellsOf(o)[w] \in Store!Words
         /\ ~second[o] => /\ TellsOf(o)["failed"] = "true" => call[o].answer = "blind"
                          /\ IsWrite(call[o].stmt) => TellsOf(o)["some"] = "true"
<1>1. call[o] \in AllCalls /\ (second[o] => call[o].then # "none")
  BY DEF OpInv, Operating
<1>2. /\ call[o].answer \in DOMAIN Answer
      /\ call[o].then \in DOMAIN SecondAnswer \cup {"none"}
      /\ IsWrite(call[o].stmt) => Answer[call[o].answer]["some"] = "true"
  BY <1>1, CallsAreOperations
<1>3. CASE second[o]
  <2>1. TellsOf(o) = SecondAnswer[call[o].then] /\ call[o].then \in DOMAIN SecondAnswer
    BY <1>1, <1>2, <1>3 DEF TellsOf
  <2>. QED
    BY <1>3, <2>1, AnswersAreWords
<1>4. CASE ~second[o]
  <2>1. TellsOf(o) = Answer[call[o].answer]
    BY <1>4 DEF TellsOf
  <2>. QED
    BY <1>2, <2>1, AnswersAreWords
<1>. QED
  BY <1>3, <1>4

(* A statement has returned: the operation goes on with its second, or it   *)
(* ends and tells the outcome.                                              *)
LEMMA AnsweredEnds ==
  ASSUME IInv, OpInv, NEW o \in Objects, Busy(o), scene' = scene,
         NEW w \in Outcomes, NEW fs, Answered(o, w, fs)
  PROVE  \/ w = "some" /\ ~second[o] /\ GoesSecond(o)
         \/ Quits(o, TellsOf(o)[w])
<1>1. CASE w = "some" /\ ~second[o] /\ call[o].then # "none"
  <2>1. \E f : GoesOn(o, f)
    BY <1>1, Zenon DEF Answered
  <2>. QED
    BY <1>1, <2>1, GoesOnSecond
<1>2. CASE ~(w = "some" /\ ~second[o] /\ call[o].then # "none")
  <2>1. \E n : Finish(o, Told(TellsOf(o)[w], n))
    BY <1>2, Zenon DEF Answered
  <2>2. PICK n : Finish(o, Told(TellsOf(o)[w], n))
    BY <2>1
  <2>3. Told(TellsOf(o)[w], n).told = TellsOf(o)[w]
    BY DEF Told
  <2>4. TellsOf(o)[w] \in Store!Words
    BY TellsWords
  <2>. QED
    BY <2>2, <2>3, <2>4, FinishQuits
<1>. QED
  BY <1>1, <1>2

(* A statement that failed.                                                 *)
LEMMA FailedEnds ==
  ASSUME IInv, OpInv, NEW o \in Objects, Busy(o), scene' = scene,
         NEW fs, Answered(o, "failed", fs)
  PROVE  \E w : /\ Quits(o, w)
                /\ ~second[o] /\ w = "true" => call[o].answer = "blind"
<1>1. Quits(o, TellsOf(o)["failed"])
  BY AnsweredEnds DEF Outcomes
<1>. QED
  BY <1>1, TellsWords

(* ... and what was done on the server meanwhile.                           *)
LEMMA FailedMaps ==
  ASSUME IInv, OpInv, NEW o \in Objects, Busy(o),
         NEW w, Quits(o, w), ~second[o] /\ w = "true" => call[o].answer = "blind",
         nextId' = nextId,
         \/ UNCHANGED <<rows, work, late>>
         \/ Forgets(o) /\ UNCHANGED <<rows, late>>
         \/ /\ IsWrite(now[o])
            /\ Forgets(o) /\ late' = late \cup {now[o]} /\ UNCHANGED rows
         \/ /\ EndsWork(now[o]) /\ rows' = View(o)
            /\ Forgets(o) /\ UNCHANGED late
  PROVE  OpInv' /\ Mapped(o) /\ Unread(o)
<1>1. OpInv' /\ Unread(o)
  BY MovesKeep, MovesUnread
<1>2. CASE second[o]
  <2>1. ~IsWrite(now[o]) /\ ~EndsWork(now[o])
    BY <1>2, ReadsOnly DEF OpInv, Operating
  <2>2. KeepsRows /\ (UNCHANGED work \/ Forgets(o))
    BY <2>1 DEF KeepsRows
  <2>. QED
    BY <1>1, <1>2, <2>2, StoreTells DEF Mapped
<1>3. CASE ~second[o]
  <2>1. now[o] = call[o].stmt
    BY <1>3 DEF OpInv, Operating
  <2>2. \/ UNCHANGED <<rows, work, late>>
        \/ Forgets(o) /\ UNCHANGED <<rows, late>>
        \/ Forgets(o) /\ late' = late \cup {call[o].stmt} /\ UNCHANGED rows
        \/ /\ EndsWork(call[o].stmt) /\ rows' = View(o)
           /\ Forgets(o) /\ UNCHANGED late
    BY <2>1
  <2>3. w = "true" => call[o].answer = "blind"
    BY <1>3
  <2>. QED
    BY <1>1, <1>3, <2>2, <2>3, StoreFails DEF Mapped
<1>. QED
  BY <1>2, <1>3

(* An operation goes on and nothing it sees changes.                        *)
LEMMA GoesWaits ==
  ASSUME IInv, OpInv, NEW o \in Objects, Busy(o), pc[o] # "exec", scene' = scene,
         NEW place \in {"ping", "connect", "exec"}, Goes(o, place)
  PROVE  Waits(o)
<1>1. Fun(pc) /\ Fun(call) /\ Fun(now) /\ Fun(second) /\ Fun(ret)
  BY DEF IInv, Shape, OpInv
<1>2. /\ At(pc, pc', o) /\ pc'[o] = place
      /\ At(call, call', o) /\ call'[o] = call[o]
      /\ At(now, now', o) /\ now'[o] = now[o]
      /\ At(second, second', o) /\ second'[o] = second[o]
      /\ At(ret, ret', o) /\ ret'[o] = ret[o]
  BY <1>1 DEF Goes, At, Fun
<1>. QED
  BY <1>2 DEF Waits, MovesOnly

LEMMA WaitsMaps ==
  ASSUME IInv, OpInv, NEW o \in Objects, Waits(o), pc[o] # "exec", KeepsRows,
         UNCHANGED work
  PROVE  OpInv' /\ Mapped(o) /\ Unread(o)
BY MovesKeep, MovesUnread, WaitsIsSame DEF Mapped, KeepsRows

(* A command tells r and the program moves on.                              *)
LEMMA TellsQuits ==
  ASSUME IInv, OpInv, NEW o \in Objects, pc[o] = "idle",
         UNCHANGED <<scene, pc, call, now, second>>,
         NEW r \in Store!Words, Tells(o, r)
  PROVE  Quits(o, r) /\ ~Busy(o)
<1>1. Fun(pc) /\ Fun(call) /\ Fun(now) /\ Fun(second) /\ Fun(ret)
  BY DEF IInv, Shape, OpInv
<1>2. UNCHANGED pc /\ UNCHANGED call /\ UNCHANGED now /\ UNCHANGED second /\ scene' = scene
  OBVIOUS
<1>3. /\ At(pc, pc', o) /\ pc'[o] = pc[o]
      /\ At(call, call', o) /\ At(now, now', o)
      /\ At(second, second', o) /\ second'[o] = second[o]
      /\ At(ret, ret', o) /\ ret'[o] = Told(r, 0)
  BY <1>1, <1>2 DEF Tells, At, Fun
<1>4. ~second[o]
  BY DEF OpInv, Operating
<1>. QED
  BY <1>2, <1>3, <1>4 DEF Quits, MovesOnly, Busy, Told

(* The program dies.                                                        *)
LEMMA DiesMaps ==
  ASSUME IInv, OpInv, NEW o \in Objects, Dies(o), scene' = scene, pc[o] # "crashed"
  PROVE  OpInv' /\ Mapped(o) /\ Unread(o)
<1>1. Fun(pc) /\ Fun(call) /\ Fun(now) /\ Fun(second) /\ Fun(ret)
  BY DEF IInv, Shape, OpInv
<1>2. UNCHANGED call /\ UNCHANGED now /\ UNCHANGED second /\ UNCHANGED ret
  BY DEF Dies
<1>3. /\ At(pc, pc', o) /\ pc'[o] = "crashed"
      /\ At(call, call', o) /\ At(now, now', o) /\ At(second, second', o)
      /\ At(ret, ret', o) /\ ret'[o] = ret[o]
  BY <1>1, <1>2 DEF Dies, At, Fun
<1>4. Quits(o, ret[o].told)
  BY <1>3 DEF Quits, MovesOnly, OpInv, Operating
<1>5. Forgets(o) /\ KeepsRows
  BY DEF Dies, SessionEnds, Forgets, KeepsRows
<1>6. CASE Busy(o)
  <2>1. ret[o].told = ""
    BY <1>6 DEF OpInv, Operating
  <2>. QED
    BY <1>4, <1>5, <1>6, <2>1, FailedMaps DEF KeepsRows
<1>7. CASE ~Busy(o)
  BY <1>4, <1>5, <1>7, StoreLoses, MovesKeep, MovesUnread DEF Mapped
<1>. QED
  BY <1>6, <1>7

(* What a lost session leaves of the transaction.                           *)
LEMMA NothingToForget ==
  ASSUME IInv, NEW o \in Objects, ~link[o], UNCHANGED work
  PROVE  Forgets(o)
<1>1. work[o] = <<>> /\ Fun(work)
  BY DEF IInv, Local, Shape
<1>. QED
  BY <1>1 DEF Forgets, Fun

-----------------------------------------------------------------------------
LEMMA BeginMaps ==
  ASSUME IInv, OpInv, NEW o \in Objects, Begin(o)
  PROVE  OpInv' /\ Mapped(o) /\ Unread(o)
<1>1. Fun(pc) /\ Fun(call) /\ Fun(now) /\ Fun(second) /\ Fun(ret)
  BY DEF IInv, Shape, OpInv
<1>2. PICK c \in Calls[scene][o] :
        call' = [call EXCEPT ![o] = c] /\ now' = [now EXCEPT ![o] = c.stmt]
  BY DEF Begin
<1>3. /\ At(pc, pc', o) /\ pc'[o] = "ping"
      /\ At(call, call', o) /\ call'[o] = c
      /\ At(second, second', o) /\ second'[o] = second[o]
      /\ At(ret, ret', o) /\ ret'[o] = Told("", 0)
      /\ scene' = scene
  BY <1>1, <1>2 DEF Begin, At, Fun
<1>4. At(now, now', o) /\ now'[o] = c.stmt
  BY <1>1, <1>2 DEF Fun, At
<1>5. pc[o] = "idle" /\ ~Busy(o) /\ ~second[o]
  BY DEF Begin, Busy, OpInv, Operating
<1>6. c \in AllCalls
  BY <1>2 DEF AllCalls, OpInv
<1>7. MovesOnly(o)
  BY <1>3, <1>4 DEF MovesOnly
<1>8. Busy(o)' /\ ret'[o].told = ""
  <2>1. Told("", 0).told = ""
    BY DEF Told
  <2>. QED
    BY <1>3, <2>1 DEF Busy
<1>9. Operating(o)'
  BY <1>3, <1>4, <1>5, <1>6, <1>8 DEF Operating, Reading, Store!Words
<1>10. OpInv'
  BY <1>7, <1>9, OpInvKept
<1>11. \A p \in Objects : p # o =>
         /\ call'[p] = call[p] /\ second'[p] = second[p] /\ ret'[p] = ret[p]
         /\ Busy(p)' <=> Busy(p)
  BY <1>7, OthersStay
<1>12. \A p \in Objects : Asked'[p] = IF p = o THEN c ELSE Asked[p]
  BY <1>3, <1>8, <1>11 DEF Asked
<1>13. \A p \in Objects : Done'[p] <=> Done[p]
  BY <1>3, <1>5, <1>11 DEF Done
<1>14. \A p \in Objects : ToldBy'[p] = IF p = o THEN "" ELSE ToldBy[p]
  BY <1>8, <1>11 DEF ToldBy
<1>15. /\ Asked[o] = NoCall /\ Asked'[o] \in AllCalls
       /\ Asked' = [Asked EXCEPT ![o] = Asked'[o]]
  BY <1>5, <1>6, <1>12, AskedAndDone DEF Asked
<1>16. ToldBy' = [ToldBy EXCEPT ![o] = ""]
  BY <1>14 DEF ToldBy
<1>17. Done' = Done
  BY <1>13 DEF Done
<1>18. UNCHANGED <<rows, nextId, work, late>>
  BY DEF Begin, server
<1>19. Store!Ask(o)
  BY <1>15, <1>16, <1>17, <1>18, Zenon DEF Store!Ask, Asked, Done, ToldBy
<1>20. ~Reading(o)'
  BY <1>3, <1>5 DEF Reading
<1>. QED
  BY <1>7, <1>10, <1>19, <1>20 DEF Mapped, Unread

LEMMA PingMaps ==
  ASSUME IInv, OpInv, NEW o \in Objects, Ping(o)
  PROVE  OpInv' /\ Mapped(o) /\ Unread(o)
<1>1. Busy(o) /\ pc[o] # "exec" /\ scene' = scene /\ Goes(o, "exec") /\ KeepsRows /\ UNCHANGED work
  BY DEF Ping, Busy, server, KeepsRows
<1>. QED
  BY <1>1, GoesWaits, WaitsMaps

LEMMA PingFailsMaps ==
  ASSUME IInv, OpInv, NEW o \in Objects, PingFails(o)
  PROVE  OpInv' /\ Mapped(o) /\ Unread(o)
<1>1. Busy(o) /\ pc[o] # "exec" /\ scene' = scene /\ Goes(o, "connect") /\ KeepsRows /\ UNCHANGED work
  BY DEF PingFails, Busy, server, KeepsRows
<1>. QED
  BY <1>1, GoesWaits, WaitsMaps

LEMMA PingFreedMaps ==
  ASSUME IInv, OpInv, NEW o \in Objects, PingFreed(o)
  PROVE  OpInv' /\ Mapped(o) /\ Unread(o)
<1>1. Busy(o) /\ pc[o] \notin {"exec", "crashed"} /\ scene' = scene
  BY DEF PingFreed, Busy
<1>2. CASE Dies(o)
  BY <1>1, <1>2, DiesMaps
<1>3. CASE Goes(o, "connect") /\ UNCHANGED <<server, client, history>>
  <2>1. KeepsRows /\ UNCHANGED work
    BY <1>3 DEF server, KeepsRows
  <2>. QED
    BY <1>1, <1>3, <2>1, GoesWaits, WaitsMaps
<1>. QED
  BY <1>2, <1>3, Zenon DEF PingFreed

LEMMA ConnectMaps ==
  ASSUME IInv, OpInv, NEW o \in Objects, Connect(o)
  PROVE  OpInv' /\ Mapped(o) /\ Unread(o)
<1>1. Busy(o) /\ pc[o] # "exec" /\ scene' = scene /\ Goes(o, "exec") /\ KeepsRows /\ UNCHANGED work
  BY DEF Connect, Busy, server, KeepsRows
<1>. QED
  BY <1>1, GoesWaits, WaitsMaps

LEMMA ConnectFailsMaps ==
  ASSUME IInv, OpInv, NEW o \in Objects, ConnectFails(o)
  PROVE  OpInv' /\ Mapped(o) /\ Unread(o)
<1> DEFINE w == IF second[o] THEN SecondAnswer[call[o].then]["failed"]
                             ELSE Unconnected[call[o].answer]
<1>1. Busy(o) /\ scene' = scene /\ UNCHANGED <<rows, nextId, work, late>>
  BY DEF ConnectFails, Busy, server
<1>2. call[o] \in AllCalls /\ (second[o] => call[o].then # "none")
  BY <1>1 DEF OpInv, Operating
<1>3. call[o].answer \in DOMAIN Answer /\ call[o].then \in DOMAIN SecondAnswer \cup {"none"}
  BY <1>2, CallsAreOperations
<1>4. w \in Store!Words /\ (~second[o] => w # "true")
  BY <1>2, <1>3, AnswersAreWords DEF Outcomes
<1>5. Finish(o, Told(w, 0))
  BY DEF ConnectFails
<1> HIDE DEF w
<1>6. Told(w, 0).told = w
  BY DEF Told
<1>7. Quits(o, w)
  BY <1>1, <1>4, <1>5, <1>6, FinishQuits
<1>. QED
  BY <1>1, <1>4, <1>7, FailedMaps

LEMMA NotPreparedMaps ==
  ASSUME IInv, OpInv, NEW o \in Objects, NotPrepared(o)
  PROVE  OpInv' /\ Mapped(o) /\ Unread(o)
<1>1. Busy(o) /\ scene' = scene /\ UNCHANGED <<rows, nextId, work, late>>
  BY DEF NotPrepared, Busy, server
<1>2. Finish(o, Told("false", 0)) /\ Told("false", 0).told = "false"
  BY DEF NotPrepared, Told
<1>3. "false" \in Store!Words
  BY DEF Store!Words
<1>4. Quits(o, "false")
  BY <1>1, <1>2, <1>3, FinishQuits
<1>. QED
  BY <1>1, <1>4, FailedMaps

LEMMA ExecGoneMaps ==
  ASSUME IInv, OpInv, NEW o \in Objects, ExecGone(o)
  PROVE  OpInv' /\ Mapped(o) /\ Unread(o)
<1>1. /\ Busy(o) /\ scene' = scene /\ UNCHANGED <<rows, nextId, work, late>>
      /\ Answered(o, "failed", {})
  BY DEF ExecGone, Busy, server
<1>2. PICK w : Quits(o, w) /\ (~second[o] /\ w = "true" => call[o].answer = "blind")
  BY <1>1, FailedEnds
<1>. QED
  BY <1>1, <1>2, FailedMaps

LEMMA DeadlockedMaps ==
  ASSUME IInv, OpInv, NEW o \in Objects, Deadlocked(o)
  PROVE  OpInv' /\ Mapped(o) /\ Unread(o)
<1>1. /\ Busy(o) /\ scene' = scene /\ UNCHANGED <<rows, nextId, late>> /\ Forgets(o)
      /\ Answered(o, "failed", {})
  BY DEF Deadlocked, Busy, SessionEnds, Forgets
<1>2. PICK w : Quits(o, w) /\ (~second[o] /\ w = "true" => call[o].answer = "blind")
  BY <1>1, FailedEnds
<1>. QED
  BY <1>1, <1>2, FailedMaps

LEMMA TimesOutMaps ==
  ASSUME IInv, OpInv, NEW o \in Objects, TimesOut(o)
  PROVE  OpInv' /\ Mapped(o) /\ Unread(o)
<1>1. /\ Busy(o) /\ scene' = scene /\ UNCHANGED <<rows, nextId>> /\ Forgets(o)
      /\ Answered(o, "failed", {})
      /\ UNCHANGED late \/ (IsWrite(now[o]) /\ late' = late \cup {now[o]})
  <2>1. Forgets(o) /\ Answered(o, "failed", {})
    BY DEF TimesOut, SessionEnds, Forgets
  <2>2. UNCHANGED late \/ (IsWrite(now[o]) /\ late' = late \cup {now[o]})
    BY Zenon DEF TimesOut
  <2>3. Busy(o) /\ scene' = scene /\ UNCHANGED <<rows, nextId>>
    BY DEF TimesOut, Busy
  <2>. QED
    BY <2>1, <2>2, <2>3
<1>2. PICK w : Quits(o, w) /\ (~second[o] /\ w = "true" => call[o].answer = "blind")
  BY <1>1, FailedEnds
<1>. QED
  BY <1>1, <1>2, FailedMaps

LEMMA RejectedMaps ==
  ASSUME IInv, OpInv, NEW o \in Objects, Rejected(o)
  PROVE  OpInv' /\ Mapped(o) /\ Unread(o)
<1>1. /\ Busy(o) /\ scene' = scene /\ UNCHANGED <<nextId, late>>
      /\ Answered(o, "failed", {})
      /\ \/ EndsWork(now[o]) /\ rows' = View(o) /\ Forgets(o)
         \/ UNCHANGED <<rows, work>>
  BY Zenon DEF Rejected, Busy, SessionEnds, Forgets
<1>2. PICK w : Quits(o, w) /\ (~second[o] /\ w = "true" => call[o].answer = "blind")
  BY <1>1, FailedEnds
<1>. QED
  BY <1>1, <1>2, FailedMaps

LEMMA ResultLostMaps ==
  ASSUME IInv, OpInv, NEW o \in Objects, ResultLost(o)
  PROVE  OpInv' /\ Mapped(o) /\ Unread(o)
BY DiesMaps DEF ResultLost

LEMMA SettlesMaps ==
  ASSUME IInv, OpInv, NEW o \in Objects, ~Busy(o), NEW w, Quits(o, w),
         rows' = View(o), Forgets(o), UNCHANGED <<nextId, late>>
  PROVE  OpInv' /\ Mapped(o) /\ Unread(o)
BY StoreSettles, MovesKeep, MovesUnread DEF Mapped

LEMMA LosesMaps ==
  ASSUME IInv, OpInv, NEW o \in Objects, Forgets(o), KeepsRows,
         ~Busy(o), \E w : Quits(o, w)
  PROVE  OpInv' /\ Mapped(o) /\ Unread(o)
BY StoreLoses, MovesKeep, MovesUnread DEF Mapped

LEMMA Start_TransactionMaps ==
  ASSUME IInv, OpInv, NEW o \in Objects, Start_Transaction(o)
  PROVE  OpInv' /\ Mapped(o) /\ Unread(o)
<1>1. /\ pc[o] = "idle" /\ UNCHANGED <<scene, pc, call, now, second>>
      /\ rows' = View(o) /\ Forgets(o) /\ UNCHANGED <<nextId, late>> /\ Tells(o, "0")
  BY DEF Start_Transaction, Commits, Forgets
<1>2. Quits(o, "0") /\ ~Busy(o)
  BY <1>1, TellsQuits DEF Store!Words
<1>. QED
  BY <1>1, <1>2, SettlesMaps

LEMMA CommitMaps ==
  ASSUME IInv, OpInv, NEW o \in Objects, Commit(o)
  PROVE  OpInv' /\ Mapped(o) /\ Unread(o)
<1>1. /\ pc[o] = "idle" /\ UNCHANGED <<scene, pc, call, now, second>>
      /\ rows' = View(o) /\ Forgets(o) /\ UNCHANGED <<nextId, late>> /\ Tells(o, "0")
  BY DEF Commit, Commits, SessionEnds, Forgets
<1>2. Quits(o, "0") /\ ~Busy(o)
  BY <1>1, TellsQuits DEF Store!Words
<1>. QED
  BY <1>1, <1>2, SettlesMaps

LEMMA RollbackMaps ==
  ASSUME IInv, OpInv, NEW o \in Objects, Rollback(o)
  PROVE  OpInv' /\ Mapped(o) /\ Unread(o)
<1>1. /\ pc[o] = "idle" /\ UNCHANGED <<scene, pc, call, now, second>>
      /\ Forgets(o) /\ KeepsRows /\ Tells(o, "0")
  BY DEF Rollback, SessionEnds, Forgets, KeepsRows
<1>2. Quits(o, "0") /\ ~Busy(o)
  BY <1>1, TellsQuits DEF Store!Words
<1>. QED
  BY <1>1, <1>2, LosesMaps

LEMMA CommandFailsMaps ==
  ASSUME IInv, OpInv, NEW o \in Objects, CommandFails(o)
  PROVE  OpInv' /\ Mapped(o) /\ Unread(o)
<1>1. /\ pc[o] = "idle" /\ UNCHANGED <<scene, pc, call, now, second>>
      /\ ~link[o] /\ UNCHANGED work /\ KeepsRows /\ Tells(o, "-1")
  BY DEF CommandFails, Gone, server, KeepsRows
<1>2. Quits(o, "-1") /\ ~Busy(o)
  BY <1>1, TellsQuits DEF Store!Words
<1>. QED
  BY <1>1, <1>2, NothingToForget, LosesMaps

LEMMA CommandTimesOutMaps ==
  ASSUME IInv, OpInv, NEW o \in Objects, CommandTimesOut(o)
  PROVE  OpInv' /\ Mapped(o) /\ Unread(o)
<1>1. /\ pc[o] = "idle" /\ UNCHANGED <<scene, pc, call, now, second>>
      /\ Forgets(o) /\ UNCHANGED <<nextId, late>> /\ Tells(o, "-1")
      /\ rows' = View(o) \/ UNCHANGED rows
  BY DEF CommandTimesOut, Commits, SessionEnds, Forgets
<1>2. Quits(o, "-1") /\ ~Busy(o)
  BY <1>1, TellsQuits DEF Store!Words
<1>3. CASE rows' = View(o)
  BY <1>1, <1>2, <1>3, SettlesMaps
<1>4. CASE UNCHANGED rows
  BY <1>1, <1>2, <1>4, LosesMaps DEF KeepsRows
<1>. QED
  BY <1>1, <1>3, <1>4

LEMMA CommandUnconnectedMaps ==
  ASSUME IInv, OpInv, NEW o \in Objects, CommandUnconnected(o)
  PROVE  OpInv' /\ Mapped(o) /\ Unread(o)
<1>1. pc[o] = "idle" /\ scene' = scene
  BY DEF CommandUnconnected
<1>2. CASE Dies(o)
  BY <1>1, <1>2, DiesMaps
<1>3. CASE /\ handle[o] = "freed" /\ Tells(o, "-1")
           /\ UNCHANGED <<server, client, pc, call, now, second>>
  <2>1. /\ UNCHANGED <<scene, pc, call, now, second>> /\ UNCHANGED work /\ KeepsRows
    BY <1>1, <1>3 DEF server, KeepsRows
  <2>2. ~link[o]
    BY <1>3 DEF IInv, Local
  <2>3. Quits(o, "-1") /\ ~Busy(o)
    BY <1>1, <1>3, <2>1, TellsQuits DEF Store!Words
  <2>. QED
    BY <2>1, <2>2, <2>3, NothingToForget, LosesMaps
<1>. QED
  BY <1>2, <1>3, Zenon DEF CommandUnconnected

LEMMA ConnectDBMaps ==
  ASSUME IInv, OpInv, NEW o \in Objects, ConnectDB(o)
  PROVE  OpInv' /\ Mapped(o) /\ Unread(o)
<1>1. /\ pc[o] = "idle" /\ UNCHANGED <<scene, pc, call, now, second>>
      /\ Forgets(o) /\ KeepsRows
      /\ Tells(o, "true") \/ Tells(o, "false")
  BY DEF ConnectDB, SessionEnds, Forgets, KeepsRows
<1>2. ~Busy(o) /\ \E w : Quits(o, w)
  BY <1>1, TellsQuits DEF Store!Words
<1>. QED
  BY <1>1, <1>2, LosesMaps

LEMMA DisConnectDBMaps ==
  ASSUME IInv, OpInv, NEW o \in Objects, DisConnectDB(o)
  PROVE  OpInv' /\ Mapped(o) /\ Unread(o)
<1>1. pc[o] = "idle" /\ scene' = scene
  BY DEF DisConnectDB
<1>2. CASE Dies(o)
  BY <1>1, <1>2, DiesMaps
<1>3. CASE ~Dies(o)
  <2>1. /\ UNCHANGED <<scene, pc, call, now, second>>
        /\ Forgets(o) /\ KeepsRows /\ Tells(o, "")
    BY <1>3 DEF DisConnectDB, SessionEnds, Forgets, KeepsRows
  <2>2. Quits(o, "") /\ ~Busy(o)
    BY <1>1, <2>1, TellsQuits DEF Store!Words
  <2>. QED
    BY <2>1, <2>2, LosesMaps
<1>. QED
  BY <1>2, <1>3

LEMMA BreakMaps ==
  ASSUME IInv, OpInv, NEW o \in Objects, Break(o)
  PROVE  OpInv' /\ Mapped(o) /\ MovesOnly(o)
<1>1. scene' = scene /\ UNCHANGED <<pc, call, now, second, ret>> /\ Forgets(o) /\ KeepsRows
  BY DEF Break, SessionEnds, Forgets, KeepsRows, program
<1>2. Fun(pc) /\ Fun(call) /\ Fun(now) /\ Fun(second) /\ Fun(ret)
  BY DEF IInv, Shape, OpInv
<1>3. /\ At(pc, pc', o) /\ At(call, call', o) /\ At(now, now', o)
      /\ At(second, second', o) /\ At(ret, ret', o)
  BY <1>1, <1>2 DEF At, Fun
<1>4. Waits(o) /\ MovesOnly(o)
  BY <1>1, <1>3 DEF Waits, MovesOnly
<1>. QED
  BY <1>1, <1>4, StoreLoses, MovesKeep DEF Mapped

(***************************************************************************)
(* A statement takes effect.                                               *)
(***************************************************************************)
LEMMA NumberedWrite ==
  ASSUME NEW s, NEW n, IsWrite(WithNumber(s, n))
  PROVE  IsWrite(s)
<1>1. CASE HasNumber(s)
  BY <1>1 DEF HasNumber, IsWrite
<1>2. CASE ~HasNumber(s)
  BY <1>2 DEF WithNumber
<1>. QED
  BY <1>1, <1>2

LEMMA RunMaps ==
  ASSUME IInv, OpInv, NEW o \in Objects, Run(o)
  PROVE  OpInv' /\ Mapped(o)
<1> DEFINE s == WithNumber(now[o], nextId)
           w == Outcome(s, View(o))
<1>1. /\ Busy(o) /\ scene' = scene /\ late' = late /\ nextId' = NextAfter(s, nextId)
      /\ Answered(o, w, Got(s, View(o)))
  BY DEF Run, Busy
<1>2. /\ ~IsRead(s) => w = "some"
      /\ w \in Outcomes
  BY DEF Outcome, Outcomes
<1>3. \/ open[o] /\ ~EndsWork(s) /\ InWork(o, s)
      \/ IsRead(s) /\ UNCHANGED <<rows, open, work, alone>>
      \/ ~IsRead(s) /\ (open[o] => EndsWork(s)) /\ InRows(o, s)
  BY Zenon DEF Run
<1> HIDE DEF s, w
<1>4. \/ w = "some" /\ ~second[o] /\ GoesSecond(o)
      \/ Quits(o, TellsOf(o)[w])
  BY <1>1, <1>2, AnsweredEnds
<1>5. CASE second[o]
  <2>1. IsRead(now[o])
    BY <1>1, <1>5 DEF OpInv, Operating
  <2>2. s = now[o] /\ NextAfter(s, nextId) = nextId /\ ~IsWrite(s) /\ IsRead(s)
    BY <2>1, ReadsOnly DEF s
  <2>3. UNCHANGED rows /\ UNCHANGED work
    BY <1>3, <2>2 DEF InWork
  <2>4. KeepsRows
    BY <1>1, <2>2, <2>3 DEF KeepsRows
  <2>5. Quits(o, TellsOf(o)[w])
    BY <1>4, <1>5
  <2>. QED
    BY <1>1, <1>5, <2>3, <2>4, <2>5, StoreTells, MovesKeep DEF Mapped
<1>6. CASE ~second[o]
  <2>1. s = WithNumber(call[o].stmt, nextId)
    BY <1>1, <1>6 DEF s, OpInv, Operating
  <2>2. \/ /\ ~EndsWork(s) /\ rows' = rows
           /\ work' = IF IsWrite(s) THEN [work EXCEPT ![o] = Append(@, s)] ELSE work
        \/ /\ EndsWork(s) \/ work[o] = <<>>
           /\ rows' = Apply(s, View(o)) /\ Forgets(o)
    <3>1. CASE open[o] /\ ~EndsWork(s) /\ InWork(o, s)
      BY <3>1 DEF InWork
    <3>2. CASE IsRead(s) /\ UNCHANGED <<rows, open, work, alone>>
      BY <3>2, ReadsOnly
    <3>3. CASE ~IsRead(s) /\ (open[o] => EndsWork(s)) /\ InRows(o, s)
      <4>1. work[o] # <<>> => open[o]
        BY DEF IInv, Local
      <4>2. rows' = Apply(s, View(o)) /\ Forgets(o)
        BY <3>3 DEF InRows, SessionEnds, Forgets
      <4>. QED
        BY <3>3, <4>1, <4>2
    <3>. QED
      BY <1>3, <3>1, <3>2, <3>3
  <2>3. Quits(o, TellsOf(o)[w]) => (IsWrite(s) => TellsOf(o)[w] = "true")
    <3>1. IsWrite(s) => IsWrite(call[o].stmt) /\ w = "some"
      BY <1>2, <2>1, NumberedWrite, ReadsOnly
    <3>. QED
      BY <1>1, <1>6, <3>1, TellsWords
  <2>4. \/ \E u : Quits(o, u) /\ (IsWrite(s) => u = "true")
        \/ GoesSecond(o)
    BY <1>4, <2>3
  <2>5. Store!Do(o)
    BY <1>1, <1>6, <2>1, <2>2, <2>4, StoreDoes
  <2>. QED
    BY <1>4, <2>5, MovesKeep DEF Mapped
<1>. QED
  BY <1>5, <1>6

LEMMA RunLateMaps ==
  ASSUME OpInv, RunLate
  PROVE  OpInv' /\ Store!Late
<1>1. PICK s \in late :
        /\ late' = late \ {s}
        /\ \/ /\ rows' = Apply(WithNumber(s, nextId), rows)
              /\ nextId' = NextAfter(WithNumber(s, nextId), nextId)
           \/ UNCHANGED <<rows, nextId>>
        /\ UNCHANGED <<scene, work, program>>
  BY Zenon DEF RunLate
<1>2. UNCHANGED <<scene, pc, call, now, second, ret>>
  BY <1>1 DEF program
<1>3. OpInv'
  BY <1>2 DEF OpInv, Operating, Reading, Busy, Fun
<1>4. Asked' = Asked /\ Done' = Done /\ ToldBy' = ToldBy
  BY <1>2 DEF Asked, Done, ToldBy, Busy
<1>5. /\ late' = late \ {s}
      /\ \/ /\ rows' = Store!Apply(Store!WithNumber(s, nextId), rows)
            /\ nextId' = Store!NextAfter(Store!WithNumber(s, nextId), nextId)
         \/ UNCHANGED <<rows, nextId>>
      /\ UNCHANGED <<work, Asked, Done, ToldBy>>
  BY <1>1, <1>4, SameStatements, SameApply
<1>6. Store!Late
  BY <1>5, Zenon DEF Store!Late, Asked, Done, ToldBy
<1>. QED
  BY <1>3, <1>6

LEMMA InitMaps == Init => OpInv /\ Store!Init
<1> SUFFICES ASSUME Init PROVE OpInv /\ Store!Init
  OBVIOUS
<1>1. ASSUME NEW o \in Objects PROVE ~Busy(o) /\ ~second[o] /\ ret[o].told = ""
  BY DEF Init, Busy, Told
<1>2. OpInv
  BY <1>1 DEF Init, OpInv, Operating, Reading, Fun, Store!Words
<1>3. /\ Asked = [o \in Objects |-> NoCall] /\ Done = [o \in Objects |-> FALSE]
      /\ ToldBy = [o \in Objects |-> ""]
  BY <1>1 DEF Asked, Done, ToldBy
<1>4. /\ rows = Given /\ nextId = [t \in DOMAIN Store!NumberColumn |-> 1]
      /\ work = [o \in Objects |-> <<>>] /\ late = {}
  BY SameNumberColumn DEF Init
<1>5. Store!Init
  BY <1>3, <1>4, Zenon DEF Store!Init, Asked, Done, ToldBy
<1>. QED
  BY <1>2, <1>5

LEMMA NextMaps ==
  ASSUME IInv, OpInv, [Next]_vars
  PROVE  OpInv' /\ [Store!Next]_(Store!vars)
<1>1. CASE RunLate
  BY <1>1, RunLateMaps DEF Store!Next
<1>2. ASSUME NEW o \in Objects, OpInv' /\ Mapped(o)
      PROVE  OpInv' /\ [Store!Next]_(Store!vars)
  BY <1>2, Zenon DEF Mapped, Store!Next, Store!vars, Asked, Done, ToldBy
<1>3. ASSUME NEW o \in Objects, Begin(o) \/ Step(o) PROVE OpInv' /\ Mapped(o)
  BY <1>3, BeginMaps, PingMaps, PingFailsMaps, PingFreedMaps, ConnectMaps, RunMaps,
     RejectedMaps, NotPreparedMaps, DeadlockedMaps, ExecGoneMaps, TimesOutMaps, Zenon
     DEF Step, Refused, Unprepared
<1>4. ASSUME NEW o \in Objects, Command(o) PROVE OpInv' /\ Mapped(o)
  BY <1>4, Start_TransactionMaps, CommitMaps, RollbackMaps, CommandFailsMaps,
     CommandTimesOutMaps, CommandUnconnectedMaps, ConnectDBMaps, DisConnectDBMaps, Zenon
     DEF Command
<1>5. ASSUME NEW o \in Objects, Fault(o) PROVE OpInv' /\ Mapped(o)
  BY <1>5, ConnectFailsMaps, RejectedMaps, NotPreparedMaps, ResultLostMaps, BreakMaps,
     Zenon DEF Fault, RefusedElse, PrepareFails
<1>6. CASE LeakEnds \/ UNCHANGED vars
  <2>1. UNCHANGED <<scene, pc, call, now, second, ret, rows, nextId, work, late>>
    BY <1>6, LeakEndsRests
  <2>2. OpInv'
    BY <2>1 DEF OpInv, Operating, Reading, Busy, Fun
  <2>3. Asked' = Asked /\ Done' = Done /\ ToldBy' = ToldBy
    BY <2>1 DEF Asked, Done, ToldBy, Busy
  <2>4. UNCHANGED <<rows, nextId, work, late, Asked, Done, ToldBy>>
    BY <2>1, <2>3
  <2>. QED
    BY <2>2, <2>4, Zenon DEF Store!vars, Asked, Done, ToldBy
<1>. QED
  BY <1>1, <1>2, <1>3, <1>4, <1>5, <1>6, Zenon DEF Next

(* Whatever pings, reconnections, refusals, deadlocks, timeouts and crashes *)
(* the operations meet, and however many, they are operations of the plain  *)
(* store: a statement takes effect at most once, a program that is told     *)
(* "true" of it can rely on it, unless the operation does not look, and a   *)
(* transaction is stored or lost as a whole.                                *)
THEOREM LayerIsStore == Spec => ImplementsStore
<1>1. IInv /\ OpInv /\ [Next]_vars => OpInv' /\ [Store!Next]_(Store!vars)
  BY NextMaps
<1>2. IInv /\ [Next]_vars => IInv'
  BY NextKeeps
<1>. QED
  BY InitEstablishes, InitMaps, <1>1, <1>2, PTL DEF Spec, ImplementsStore, Store!Spec

-----------------------------------------------------------------------------
(***************************************************************************)
(* ApplyAll goes through the statements in order.                          *)
(***************************************************************************)
(* A set of natural numbers has a least element.                            *)
LEMMA LeastExists ==
  ASSUME NEW S, S \subseteq Nat, S # {}
  PROVE  \E m \in S : \A k \in S : m <= k
<1> DEFINE R == OpToRel(<, Nat)
<1>1. IsWellFoundedOn(R, Nat)
  BY NatLessThanWellFounded
<1>2. \A x, y \in Nat : x < y => <<x, y>> \in R
  BY DEF OpToRel
<1> HIDE DEF R
<1>3. PICK m \in S : \A k \in S : ~(<<k, m>> \in R)
  BY <1>1, WFMin
<1>4. \A k \in S : ~(k < m)
  BY <1>2, <1>3
<1>5. \A k \in S : k \in Nat /\ m \in Nat
  OBVIOUS
<1>6. \A k \in S : m <= k
  BY <1>4, <1>5
<1>. QED
  BY <1>6

(* The greatest element Max chooses.                                        *)
LEMMA MaxIsGreatest ==
  ASSUME NEW n \in Nat, NEW S, S \subseteq 1..n, S # {}
  PROVE  Max(S) \in S /\ \A k \in S : k <= Max(S)
<1> DEFINE U == {m \in Nat : \A k \in S : k <= m}
<1>1. n \in U /\ U \subseteq Nat
  OBVIOUS
<1>2. PICK m \in U : \A k \in U : m <= k
  BY <1>1, LeastExists
<1>3. m \in Nat /\ \A k \in S : k <= m
  BY <1>2
<1>4. m \in S
  <2>1. SUFFICES ASSUME m \notin S PROVE FALSE
    OBVIOUS
  <2>2. \A k \in S : k \in Nat /\ k >= 1 /\ k < m
    BY <1>3, <2>1
  <2>3. m >= 1 /\ m - 1 \in Nat
    <3>1. PICK k \in S : TRUE
      OBVIOUS
    <3>2. k >= 1 /\ k < m /\ k \in Nat /\ m \in Nat
      BY <1>3, <2>2, <3>1
    <3>. QED
      BY <3>2
  <2>4. \A k \in S : k <= m - 1
    BY <1>3, <2>2
  <2>5. m - 1 \in U
    BY <2>3, <2>4
  <2>6. m <= m - 1
    BY <1>2, <2>5
  <2>. QED
    BY <1>3, <2>6
<1>5. \E x \in S : \A y \in S : x >= y
  <2>1. \A y \in S : m >= y
    BY <1>3
  <2>. QED
    BY <1>4, <2>1
<1>. QED
  BY <1>5 DEF Max

(* The function behind FoldLeft, by the set of statements still to apply.    *)
Unfolds(it, T, q, R) ==
  it = [s \in SUBSET T |->
          IF s = {} THEN R ELSE Apply(q[Max(s)], it[s \ {Max(s)}])]

LEMMA ApplyAllIs ==
  ASSUME NEW q, NEW R
  PROVE  ApplyAll(q, R) = (CHOOSE it : Unfolds(it, DOMAIN q, q, R))[DOMAIN q]
BY Zenon DEF ApplyAll, FoldLeft, MapThenFoldSet, Unfolds

LEMMA UnfoldingExists ==
  ASSUME NEW q, NEW R, NEW n \in Nat
  PROVE  \E it : Unfolds(it, 1..n, q, R)
<1> DEFINE Fails == {k \in Nat : ~\E it : Unfolds(it, 1..k, q, R)}
<1>1. SUFFICES ASSUME Fails # {} PROVE FALSE
  OBVIOUS
<1>2. PICK m \in Fails : \A k \in Fails : m <= k
  BY <1>1, LeastExists
<1>3. m \in Nat /\ ~\E it : Unfolds(it, 1..m, q, R)
  BY <1>2
<1>4. CASE m = 0
  <2> DEFINE it == [s \in SUBSET (1..m) |-> R]
  <2>1. \A s \in SUBSET (1..m) : s = {}
    BY <1>4
  <2>2. Unfolds(it, 1..m, q, R)
    BY <2>1 DEF Unfolds
  <2>. QED
    BY <1>3, <2>2
<1>5. CASE m # 0
  <2>1. m - 1 \in Nat /\ m - 1 \notin Fails
    BY <1>2, <1>3, <1>5
  <2>2. PICK g : Unfolds(g, 1..(m-1), q, R)
    BY <2>1
  <2> DEFINE it == [s \in SUBSET (1..m) |->
                      IF m \in s THEN Apply(q[m], g[s \ {m}]) ELSE g[s]]
             Then(s) == IF s = {} THEN R ELSE Apply(q[Max(s)], it[s \ {Max(s)}])
  <2>3. ASSUME NEW s \in SUBSET (1..m), m \in s PROVE it[s] = Then(s)
    <3>1. Max(s) = m
      <4>1. Max(s) \in s /\ m <= Max(s)
        BY <1>3, <2>3, MaxIsGreatest
      <4>2. Max(s) \in 1..m
        BY <4>1
      <4>. QED
        BY <1>3, <4>1, <4>2
    <3>2. s \ {m} \in SUBSET (1..m) /\ m \notin s \ {m}
      OBVIOUS
    <3>3. it[s \ {m}] = g[s \ {m}]
      BY <3>2
    <3>4. it[s] = Apply(q[m], g[s \ {m}])
      BY <2>3
    <3>. QED
      BY <2>3, <3>1, <3>3, <3>4
  <2>4. ASSUME NEW s \in SUBSET (1..m), m \notin s PROVE it[s] = Then(s)
    <3>1. s \in SUBSET (1..(m-1))
      BY <1>3, <2>1, <2>4
    <3>2. it[s] = g[s]
      BY <2>4
    <3>3. g[s] = IF s = {} THEN R ELSE Apply(q[Max(s)], g[s \ {Max(s)}])
      BY <2>2, <3>1 DEF Unfolds
    <3>4. s \ {Max(s)} \in SUBSET (1..m) /\ m \notin s \ {Max(s)}
      BY <2>4
    <3>5. it[s \ {Max(s)}] = g[s \ {Max(s)}]
      BY <3>4
    <3>. QED
      BY <3>2, <3>3, <3>5
  <2>5. \A s \in SUBSET (1..m) : it[s] = Then(s)
    BY <2>3, <2>4
  <2>6. it = [s \in SUBSET (1..m) |-> it[s]]
    OBVIOUS
  <2>7. Unfolds(it, 1..m, q, R)
    <3> HIDE DEF it
    <3>. QED
      BY <2>5, <2>6 DEF Unfolds
  <2>. QED
    BY <1>3, <2>7
<1>. QED
  BY <1>4, <1>5

(* What is left after each statement.                                       *)
Steps(h, q, R) ==
  /\ h[0] = R
  /\ \A i \in 1..Len(q) : h[i] = Apply(q[i], h[i - 1])

LEMMA AppliedInSteps ==
  ASSUME NEW T, NEW q \in Seq(T), NEW R
  PROVE  \E h : Steps(h, q, R) /\ ApplyAll(q, R) = h[Len(q)]
<1>1. Len(q) \in Nat /\ DOMAIN q = 1..Len(q)
  BY LenProperties
<1> DEFINE it == CHOOSE x : Unfolds(x, DOMAIN q, q, R)
           h == [i \in 0..Len(q) |-> it[1..i]]
<1>2. Unfolds(it, 1..Len(q), q, R)
  BY <1>1, UnfoldingExists
<1> HIDE DEF it
<1>3. ApplyAll(q, R) = it[1..Len(q)]
  BY <1>1, ApplyAllIs DEF it
<1>4. h[0] = R
  <2>1. 1..0 = {} /\ {} \in SUBSET (1..Len(q))
    OBVIOUS
  <2>2. it[{}] = R
    BY <1>2, <2>1 DEF Unfolds
  <2>. QED
    BY <1>1, <2>1, <2>2
<1>5. ASSUME NEW i \in 1..Len(q) PROVE h[i] = Apply(q[i], h[i - 1])
  <2>1. i \in Nat /\ i >= 1 /\ i \in 0..Len(q) /\ i - 1 \in 0..Len(q)
    BY <1>1
  <2>2. 1..i \in SUBSET (1..Len(q)) /\ i \in 1..i /\ (1..i) \ {i} = 1..(i-1)
    BY <1>1, <2>1
  <2>3. Max(1..i) = i
    <3>1. Max(1..i) \in 1..i /\ i <= Max(1..i)
      BY <2>1, <2>2, MaxIsGreatest
    <3>. QED
      BY <2>1, <3>1
  <2>4. it[1..i] = Apply(q[i], it[1..(i-1)])
    BY <1>2, <2>2, <2>3 DEF Unfolds
  <2>. QED
    BY <2>1, <2>4
<1>6. h[Len(q)] = it[1..Len(q)]
  BY <1>1
<1> HIDE DEF h
<1>. QED
  BY <1>3, <1>4, <1>5, <1>6 DEF Steps

(* ... so a statement more is applied to what the others left.              *)
LEMMA ApplyAllAppend ==
  ASSUME NEW T, NEW q \in Seq(T), NEW s \in T, NEW R
  PROVE  ApplyAll(Append(q, s), R) = Apply(s, ApplyAll(q, R))
<1> DEFINE p == Append(q, s)
<1>1. Len(q) \in Nat
  BY LenProperties
<1>2. /\ p \in Seq(T) /\ Len(p) = Len(q) + 1 /\ p[Len(q) + 1] = s
      /\ \A i \in 1..Len(q) : p[i] = q[i]
  BY AppendProperties
<1> HIDE DEF p
<1>3. PICK h : Steps(h, q, R) /\ ApplyAll(q, R) = h[Len(q)]
  BY AppliedInSteps
<1>4. PICK g : Steps(g, p, R) /\ ApplyAll(p, R) = g[Len(p)]
  BY <1>2, AppliedInSteps
<1> DEFINE Differ == {i \in 0..Len(q) : h[i] # g[i]}
<1>5. Differ = {}
  <2>1. SUFFICES ASSUME Differ # {} PROVE FALSE
    OBVIOUS
  <2>2. Differ \subseteq Nat
    BY <1>1
  <2>3. PICK m \in Differ : \A i \in Differ : m <= i
    BY <2>1, <2>2, LeastExists
  <2>4. m \in Nat /\ m <= Len(q) /\ h[m] # g[m]
    BY <1>1, <2>3
  <2>5. m # 0
    BY <1>3, <1>4, <2>4 DEF Steps
  <2>6. m \in 1..Len(q) /\ m \in 1..Len(p) /\ m - 1 \in 0..Len(q) /\ ~(m <= m - 1)
    BY <1>1, <1>2, <2>4, <2>5
  <2>7. h[m - 1] = g[m - 1]
    BY <2>3, <2>6
  <2>8. h[m] = Apply(q[m], h[m - 1]) /\ g[m] = Apply(p[m], g[m - 1])
    BY <1>3, <1>4, <2>6 DEF Steps
  <2>. QED
    BY <1>2, <2>4, <2>6, <2>7, <2>8
<1>6. h[Len(q)] = g[Len(q)]
  BY <1>1, <1>5
<1>7. g[Len(q) + 1] = Apply(s, g[Len(q)])
  <2>1. Len(q) + 1 \in 1..Len(p) /\ (Len(q) + 1) - 1 = Len(q)
    BY <1>1, <1>2
  <2>2. g[Len(q) + 1] = Apply(p[Len(q) + 1], g[(Len(q) + 1) - 1])
    BY <1>4, <2>1 DEF Steps
  <2>. QED
    BY <1>2, <2>1, <2>2
<1>. QED
  BY <1>2, <1>3, <1>4, <1>6, <1>7 DEF p

LEMMA ApplyAllNone ==
  ASSUME NEW R
  PROVE  ApplyAll(<<>>, R) = R
<1>1. <<>> \in Seq({}) /\ Len(<<>>) = 0
  OBVIOUS
<1>2. PICK h : Steps(h, <<>>, R) /\ ApplyAll(<<>>, R) = h[Len(<<>>)]
  BY <1>1, AppliedInSteps
<1>. QED
  BY <1>1, <1>2 DEF Steps

(***************************************************************************)
(* Statements and the tables they are about.                               *)
(***************************************************************************)
LEMMA AppliedRows ==
  ASSUME NEW s, NEW R, NEW r \in Apply(s, R)
  PROVE  r \in R \/ (s.op \in {"replace", "insert"} /\ r = RowOf(s))
<1>1. CASE s.op = "replace"
  BY <1>1 DEF Apply
<1>2. CASE s.op = "insert"
  BY <1>2 DEF Apply
<1>3. CASE s.op = "delete"
  BY <1>3 DEF Apply
<1>4. CASE s.op = "truncate"
  BY <1>4 DEF Apply
<1>5. CASE s.op \notin {"replace", "insert", "delete", "truncate"}
  BY <1>5 DEF Apply
<1>. QED
  BY <1>1, <1>2, <1>3, <1>4, <1>5

LEMMA RowOfTable == \A s : RowOf(s).table = s.table /\ RowOf(s).field = s.field
BY DEF RowOf

(* What s leaves of a table depends on the rows of that table only, ...     *)
LEMMA ApplyWithin ==
  ASSUME NEW s, NEW t, NEW R, NEW P, RowsIn(t, R) = RowsIn(t, P)
  PROVE  RowsIn(t, Apply(s, R)) = RowsIn(t, Apply(s, P))
<1>1. \A r : r.table = t => (r \in R <=> r \in P)
  BY DEF RowsIn
<1>2. SUFFICES ASSUME NEW r, r.table = t PROVE r \in Apply(s, R) <=> r \in Apply(s, P)
  BY DEF RowsIn
<1>3. r \in R <=> r \in P
  BY <1>1, <1>2
<1>4. CASE s.op = "replace"
  BY <1>3, <1>4 DEF Apply
<1>5. CASE s.op = "insert"
  BY <1>3, <1>5 DEF Apply
<1>6. CASE s.op = "delete"
  BY <1>3, <1>6 DEF Apply, Selected, RowsIn
<1>7. CASE s.op = "truncate"
  BY <1>3, <1>7 DEF Apply, RowsIn
<1>8. CASE s.op \notin {"replace", "insert", "delete", "truncate"}
  BY <1>3, <1>8 DEF Apply
<1>. QED
  BY <1>4, <1>5, <1>6, <1>7, <1>8

(* ... and other tables it leaves alone.                                    *)
LEMMA ApplyElsewhere ==
  ASSUME NEW s, NEW t, s.table # t, NEW R
  PROVE  RowsIn(t, Apply(s, R)) = RowsIn(t, R)
<1>1. SUFFICES ASSUME NEW r, r.table = t PROVE r \in Apply(s, R) <=> r \in R
  BY DEF RowsIn
<1>2. r # RowOf(s) /\ ~SameKey(r, RowOf(s))
  BY <1>1, RowOfTable DEF SameKey
<1>3. CASE s.op = "replace"
  BY <1>2, <1>3 DEF Apply
<1>4. CASE s.op = "insert"
  BY <1>2, <1>4 DEF Apply
<1>5. CASE s.op = "delete"
  BY <1>1, <1>5 DEF Apply, Selected, RowsIn
<1>6. CASE s.op = "truncate"
  BY <1>1, <1>6 DEF Apply, RowsIn
<1>7. CASE s.op \notin {"replace", "insert", "delete", "truncate"}
  BY <1>7 DEF Apply
<1>. QED
  BY <1>3, <1>4, <1>5, <1>6, <1>7

LEMMA ApplyAllWithin ==
  ASSUME NEW T, NEW q \in Seq(T), NEW t, NEW R, NEW P, RowsIn(t, R) = RowsIn(t, P)
  PROVE  RowsIn(t, ApplyAll(q, R)) = RowsIn(t, ApplyAll(q, P))
<1>1. Len(q) \in Nat
  BY LenProperties
<1>2. PICK h : Steps(h, q, R) /\ ApplyAll(q, R) = h[Len(q)]
  BY AppliedInSteps
<1>3. PICK g : Steps(g, q, P) /\ ApplyAll(q, P) = g[Len(q)]
  BY AppliedInSteps
<1> DEFINE Differ == {i \in 0..Len(q) : RowsIn(t, h[i]) # RowsIn(t, g[i])}
<1>4. SUFFICES ASSUME Differ # {} PROVE FALSE
  BY <1>1, <1>2, <1>3
<1>5. Differ \subseteq Nat
  BY <1>1
<1>6. PICK m \in Differ : \A i \in Differ : m <= i
  BY <1>4, <1>5, LeastExists
<1>7. m \in Nat /\ m <= Len(q) /\ RowsIn(t, h[m]) # RowsIn(t, g[m])
  BY <1>1, <1>6
<1>8. m # 0
  BY <1>2, <1>3, <1>7 DEF Steps
<1>9. m \in 1..Len(q) /\ m - 1 \in 0..Len(q) /\ ~(m <= m - 1)
  BY <1>1, <1>7, <1>8
<1>10. RowsIn(t, h[m - 1]) = RowsIn(t, g[m - 1])
  BY <1>6, <1>9
<1>11. h[m] = Apply(q[m], h[m - 1]) /\ g[m] = Apply(q[m], g[m - 1])
  BY <1>2, <1>3, <1>9 DEF Steps
<1>. QED
  BY <1>7, <1>10, <1>11, ApplyWithin

(* The same of a transaction.                                               *)
LEMMA ApplyAllElsewhere ==
  ASSUME NEW T, NEW q \in Seq(T), NEW t, \A i \in 1..Len(q) : q[i].table # t, NEW R
  PROVE  RowsIn(t, ApplyAll(q, R)) = RowsIn(t, R)
<1>1. Len(q) \in Nat
  BY LenProperties
<1>2. PICK h : Steps(h, q, R) /\ ApplyAll(q, R) = h[Len(q)]
  BY AppliedInSteps
<1> DEFINE Differ == {i \in 0..Len(q) : RowsIn(t, h[i]) # RowsIn(t, R)}
<1>4. SUFFICES ASSUME Differ # {} PROVE FALSE
  BY <1>1, <1>2
<1>5. Differ \subseteq Nat
  BY <1>1
<1>6. PICK m \in Differ : \A i \in Differ : m <= i
  BY <1>4, <1>5, LeastExists
<1>7. m \in Nat /\ m <= Len(q) /\ RowsIn(t, h[m]) # RowsIn(t, R)
  BY <1>1, <1>6
<1>8. m # 0
  BY <1>2, <1>7 DEF Steps
<1>9. m \in 1..Len(q) /\ m - 1 \in 0..Len(q) /\ ~(m <= m - 1)
  BY <1>1, <1>7, <1>8
<1>10. RowsIn(t, h[m - 1]) = RowsIn(t, R)
  BY <1>6, <1>9
<1>11. h[m] = Apply(q[m], h[m - 1])
  BY <1>2, <1>9 DEF Steps
<1>. QED
  BY <1>7, <1>9, <1>10, <1>11, ApplyElsewhere

-----------------------------------------------------------------------------
(***************************************************************************)
(* Numbers.                                                                *)
(***************************************************************************)
NumberedTables == DOMAIN NumberColumn
Num(r) == r.field[NumberColumn[r.table]]

LEMMA NumberColumnIs ==
  /\ NumberedTables = {CLOUDORDER_TABLE, HISCLOUDORDER_TABLE, TRADECOUNTER_TABLE}
  /\ NumberColumn[CLOUDORDER_TABLE] = "CloudOrderID"
  /\ NumberColumn[HISCLOUDORDER_TABLE] = "CloudOrderID"
  /\ NumberColumn[TRADECOUNTER_TABLE] = "TradeCounterID"
BY DEF NumberedTables, NumberColumn, CLOUDORDER_TABLE, HISCLOUDORDER_TABLE,
       TRADECOUNTER_TABLE

(* A statement as the program sends it, ...                                 *)
Storable(s) ==
  /\ s.op = "insert" => s.table \notin NumberedTables
  /\ HasNumber(s) => /\ s = ReplaceInto(s.table, s.field)
                     /\ NumberColumn[s.table] \in DOMAIN s.field
                     /\ NumberOf(s) \in Nat

(* ... and once it has its number, n being the next ones.                   *)
Placed(s, n) ==
  /\ s.op = "insert" => s.table \notin NumberedTables
  /\ HasNumber(s) => NumberOf(s) \in Nat /\ NumberOf(s) < n[s.table]

Below(R, n) ==
  \A r \in R : r.table \in NumberedTables => Num(r) \in Nat /\ Num(r) < n[r.table]

NextNumbers == [NumberedTables -> Nat \ {0}]

(* An operation that reads a number back asks for the largest of the table  *)
(* it has stored a row in, without a number.                                *)
ReadsBack(c) ==
  /\ HasNumber(c.stmt) /\ NumberOf(c.stmt) = 0
  /\ c.next = SelectMax(c.stmt.table, NumberColumn[c.stmt.table])

LEMMA UpdNumberedStores ==
  ASSUME NEW t \in NumberedTables, NEW C, C = NumberColumn[t],
         NEW f, C \in DOMAIN f, f[C] \in Int,
         NEW c, c = UpdNumbered(t, f, C)
  PROVE  Storable(c.stmt) /\ (c.then = "max" => ReadsBack(c))
<1> DEFINE g == Numbered(f, C)
<1>1. g = [f EXCEPT ![C] = IF @ <= 0 THEN 0 ELSE @]
  BY DEF Numbered
<1>2. C \in DOMAIN g /\ g[C] = IF f[C] <= 0 THEN 0 ELSE f[C]
  BY <1>1
<1>3. g[C] \in Nat
  BY <1>2
<1> HIDE DEF g
<1> DEFINE s == ReplaceInto(t, g)
<1>4. s.op = "replace" /\ s.table = t /\ s.field = g
  BY DEF ReplaceInto
<1>5. s = ReplaceInto(s.table, s.field) /\ HasNumber(s) /\ NumberOf(s) = g[C]
  BY <1>4 DEF HasNumber, NumberOf, NumberedTables
<1> HIDE DEF s
<1>6. Storable(s)
  BY <1>2, <1>3, <1>4, <1>5 DEF Storable
<1>7. CASE f[C] = 0
  <2>1. c = Followed(s, "done", "max", SelectMax(t, C))
    BY <1>7 DEF UpdNumbered, s, g
  <2>2. c.stmt = s /\ c.then = "max" /\ c.next = SelectMax(t, C)
    BY <2>1 DEF Followed
  <2>3. NumberOf(s) = 0
    BY <1>2, <1>5, <1>7
  <2>. QED
    BY <1>4, <1>5, <1>6, <2>2, <2>3 DEF ReadsBack
<1>8. CASE f[C] # 0
  <2>1. c = Operation(s, "done")
    BY <1>8 DEF UpdNumbered, Upd, s, g
  <2>2. c.stmt = s /\ c.then = "none"
    BY <2>1 DEF Operation
  <2>. QED
    BY <1>6, <2>2
<1>. QED
  BY <1>7, <1>8

LEMMA CallsStorable ==
  ASSUME NEW c \in AllCalls
  PROVE  Storable(c.stmt) /\ (c.then = "max" => ReadsBack(c))
<1>1. PICK x \in Scenarios, o \in Objects : c \in Calls[x][o]
  BY DEF AllCalls
<1>2. /\ c.stmt.op = "insert" => c.stmt.table \notin NumberedTables
      /\ HasNumber(c.stmt) \/ c.then = "max" => StoresNumber(c)
  BY <1>1, NumbersAssumption DEF NumberedTables
<1>3. CASE ~StoresNumber(c)
  BY <1>2, <1>3 DEF Storable
<1>4. CASE StoresNumber(c)
  <2> DEFINE f == c.stmt.field
  <2>1. CASE /\ "CloudOrderID" \in DOMAIN f /\ f["CloudOrderID"] \in Int
             /\ c = UpdCloudOrder(f)
    <3>1. c = UpdNumbered(CLOUDORDER_TABLE, f, "CloudOrderID")
      BY <2>1 DEF UpdCloudOrder
    <3> HIDE DEF f
    <3>. QED
      BY <2>1, <3>1, NumberColumnIs, UpdNumberedStores
  <2>2. CASE /\ "CloudOrderID" \in DOMAIN f /\ f["CloudOrderID"] \in Int
             /\ c = UpdHisCloudOrder(f)
    <3>1. c = UpdNumbered(HISCLOUDORDER_TABLE, f, "CloudOrderID")
      BY <2>2 DEF UpdHisCloudOrder
    <3> HIDE DEF f
    <3>. QED
      BY <2>2, <3>1, NumberColumnIs, UpdNumberedStores
  <2>3. CASE /\ "TradeCounterID" \in DOMAIN f /\ f["TradeCounterID"] \in Int
             /\ c = UpdTradeCounter(f)
    <3>1. c = UpdNumbered(TRADECOUNTER_TABLE, f, "TradeCounterID")
      BY <2>3 DEF UpdTradeCounter
    <3> HIDE DEF f
    <3>. QED
      BY <2>3, <3>1, NumberColumnIs, UpdNumberedStores
  <2>. QED
    BY <1>4, <2>1, <2>2, <2>3, Zenon DEF StoresNumber
<1>. QED
  BY <1>3, <1>4

(* The server gives a row without a number the next one.                    *)
LEMMA Numbering ==
  ASSUME NEW s, Storable(s), NEW n \in NextNumbers,
         NEW z, z = WithNumber(s, n), NEW m, m = NextAfter(z, n)
  PROVE  /\ m \in NextNumbers /\ \A t \in NumberedTables : n[t] <= m[t]
         /\ z.op = s.op /\ z.table = s.table
         /\ Placed(z, m)
         /\ HasNumber(s) /\ NumberOf(s) = 0 =>
              /\ HasNumber(z) /\ NumberOf(z) = n[s.table]
              /\ m[s.table] = NumberOf(z) + 1
<1> DEFINE t == s.table
           C == NumberColumn[t]
<1>1. CASE ~HasNumber(s)
  <2>1. z = s /\ m = n
    BY <1>1 DEF WithNumber, NextAfter
  <2>2. \A u \in NumberedTables : n[u] \in Nat
    BY DEF NextNumbers
  <2>. QED
    BY <1>1, <2>1, <2>2 DEF Storable, Placed
<1>2. CASE HasNumber(s)
  <2>1. /\ s = ReplaceInto(t, s.field) /\ C \in DOMAIN s.field /\ NumberOf(s) \in Nat
        /\ t \in NumberedTables /\ s.op = "replace"
    BY <1>2 DEF Storable, HasNumber, NumberedTables
  <2>2. n[t] \in Nat /\ n[t] > 0
    BY <2>1 DEF NextNumbers
  <2>3. /\ z.op = "replace" /\ z.table = t
        /\ z.field[C] = IF NumberOf(s) = 0 THEN n[t] ELSE NumberOf(s)
    <3>1. CASE NumberOf(s) = 0
      <4>1. z = [s EXCEPT !.field[C] = n[t]]
        BY <1>2, <3>1 DEF WithNumber
      <4>2. s = [op |-> "replace", table |-> t, field |-> s.field]
        BY <2>1 DEF ReplaceInto
      <4> DEFINE g == [s.field EXCEPT ![C] = n[t]]
      <4>3. z = [op |-> "replace", table |-> t, field |-> g]
        BY <4>1, <4>2
      <4>4. g[C] = n[t]
        BY <2>1
      <4> HIDE DEF g
      <4>. QED
        BY <3>1, <4>3, <4>4
    <3>2. CASE NumberOf(s) # 0
      <4>1. z = s
        BY <3>2 DEF WithNumber
      <4>. QED
        BY <2>1, <3>2, <4>1 DEF NumberOf
    <3>. QED
      BY <3>1, <3>2
  <2>4. HasNumber(z) /\ NumberOf(z) = IF NumberOf(s) = 0 THEN n[t] ELSE NumberOf(s)
    BY <2>1, <2>3 DEF HasNumber, NumberOf, NumberedTables
  <2>5. NumberOf(z) \in Nat
    BY <2>1, <2>2, <2>4
  <2>6. CASE NumberOf(z) >= n[t]
    <3>1. m = [n EXCEPT ![t] = NumberOf(z) + 1]
      BY <2>3, <2>4, <2>6 DEF NextAfter
    <3>2. m[t] = NumberOf(z) + 1 /\ \A u \in NumberedTables : u # t => m[u] = n[u]
      BY <2>1, <3>1 DEF NextNumbers
    <3>3. m \in NextNumbers
      BY <2>1, <2>5, <3>1 DEF NextNumbers
    <3>4. n[t] <= m[t] /\ NumberOf(z) < m[t]
      BY <2>2, <2>5, <2>6, <3>2
    <3>5. \A u \in NumberedTables : n[u] <= m[u]
      BY <3>2, <3>4 DEF NextNumbers
    <3>6. Placed(z, m)
      BY <2>3, <2>5, <3>4 DEF Placed
    <3>. QED
      BY <2>1, <2>3, <2>4, <3>2, <3>3, <3>5, <3>6
  <2>7. CASE NumberOf(z) < n[t]
    <3>1. m = n
      BY <2>2, <2>3, <2>5, <2>7 DEF NextAfter
    <3>2. Placed(z, m)
      BY <2>3, <2>5, <2>7, <3>1 DEF Placed
    <3>3. NumberOf(s) # 0
      BY <2>2, <2>4, <2>7
    <3>4. \A u \in NumberedTables : n[u] <= m[u]
      BY <3>1 DEF NextNumbers
    <3>. QED
      BY <2>1, <2>3, <3>1, <3>2, <3>3, <3>4
  <2>. QED
    BY <2>2, <2>5, <2>6, <2>7
<1>. QED
  BY <1>1, <1>2

LEMMA PlacedLonger ==
  ASSUME NEW n \in NextNumbers, NEW m \in NextNumbers,
         \A t \in NumberedTables : n[t] <= m[t]
  PROVE  /\ \A s : Placed(s, n) => Placed(s, m)
         /\ \A R : Below(R, n) => Below(R, m)
<1>1. \A t \in NumberedTables : n[t] \in Nat /\ m[t] \in Nat /\ n[t] <= m[t]
  BY DEF NextNumbers
<1>2. ASSUME NEW s, Placed(s, n) PROVE Placed(s, m)
  BY <1>1, <1>2 DEF Placed, HasNumber, NumberedTables
<1>3. ASSUME NEW R, Below(R, n) PROVE Below(R, m)
  BY <1>1, <1>3 DEF Below
<1>. QED
  BY <1>2, <1>3

LEMMA ApplyBelow ==
  ASSUME NEW s, NEW R, NEW n, Below(R, n), Placed(s, n)
  PROVE  Below(Apply(s, R), n)
<1>1. SUFFICES ASSUME NEW r \in Apply(s, R), r.table \in NumberedTables
               PROVE  Num(r) \in Nat /\ Num(r) < n[r.table]
  BY DEF Below
<1>2. CASE r \in R
  BY <1>1, <1>2 DEF Below
<1>3. CASE s.op \in {"replace", "insert"} /\ r = RowOf(s)
  <2>1. r.table = s.table /\ r.field = s.field
    BY <1>3, RowOfTable
  <2>2. HasNumber(s) /\ Num(r) = NumberOf(s)
    BY <1>1, <1>3, <2>1 DEF Placed, HasNumber, NumberedTables, Num, NumberOf
  <2>. QED
    BY <2>1, <2>2 DEF Placed
<1>. QED
  BY <1>2, <1>3, AppliedRows

LEMMA ApplyAllBelow ==
  ASSUME NEW T, NEW q \in Seq(T), NEW R, NEW n, Below(R, n),
         \A i \in 1..Len(q) : Placed(q[i], n)
  PROVE  Below(ApplyAll(q, R), n)
<1>1. Len(q) \in Nat
  BY LenProperties
<1>2. PICK h : Steps(h, q, R) /\ ApplyAll(q, R) = h[Len(q)]
  BY AppliedInSteps
<1> DEFINE Above == {i \in 0..Len(q) : ~Below(h[i], n)}
<1>3. SUFFICES ASSUME Above # {} PROVE FALSE
  BY <1>1, <1>2
<1>4. Above \subseteq Nat
  BY <1>1
<1>5. PICK m \in Above : \A i \in Above : m <= i
  BY <1>3, <1>4, LeastExists
<1>6. m \in Nat /\ m <= Len(q) /\ ~Below(h[m], n)
  BY <1>1, <1>5
<1>7. m # 0
  BY <1>2, <1>6 DEF Steps
<1>8. m \in 1..Len(q) /\ m - 1 \in 0..Len(q) /\ ~(m <= m - 1)
  BY <1>1, <1>6, <1>7
<1>9. Below(h[m - 1], n)
  BY <1>5, <1>8
<1>10. h[m] = Apply(q[m], h[m - 1])
  BY <1>2, <1>8 DEF Steps
<1>. QED
  BY <1>6, <1>8, <1>9, <1>10, ApplyBelow

-----------------------------------------------------------------------------
(***************************************************************************)
(* The numbers stored and kept in transactions are below the next ones.    *)
(* The number of an operation that is about to read one back is the        *)
(* largest its session sees, as long as the session lasts and no other     *)
(* program has changed the table.                                          *)
(***************************************************************************)
Highest(n, t, R) ==
  /\ \E r \in RowsIn(t, R) : Num(r) = n
  /\ \A r \in RowsIn(t, R) : Num(r) <= n

IsSequence(q) == \E T : q \in Seq(T)

Numbers(o) ==
  /\ IsSequence(work[o])
  /\ \A i \in DOMAIN work[o] : Placed(work[o][i], nextId)
  /\ Reading(o) /\ alone[o] /\ Reaches(o) =>
       Highest(mine[o], call[o].stmt.table, View(o))

NumberInv ==
  /\ nextId \in NextNumbers
  /\ Below(rows, nextId)
  /\ \A s \in late : Storable(s)
  /\ Fun(mine)
  /\ \A o \in Objects : Numbers(o)

LEMMA NumberInvInit == Init => NumberInv
<1> SUFFICES ASSUME Init PROVE NumberInv
  OBVIOUS
<1>1. nextId \in NextNumbers
  <2>1. nextId = [t \in NumberedTables |-> 1]
    BY DEF Init, NumberedTables
  <2>. QED
    BY <2>1 DEF NextNumbers
<1>2. Below(rows, nextId)
  <2>1. \A r \in Given : r.table \notin NumberedTables
    BY NumbersAssumption, Zenon DEF NumberedTables
  <2>2. rows = Given
    BY DEF Init
  <2>. QED
    BY <2>1, <2>2 DEF Below
<1>3. ASSUME NEW o \in Objects PROVE Numbers(o)
  <2>1. work[o] = <<>> /\ ~Reading(o)
    BY DEF Init, Reading, Busy
  <2>2. <<>> \in Seq({}) /\ DOMAIN <<>> = {}
    OBVIOUS
  <2>. QED
    BY <2>1, <2>2 DEF Numbers, IsSequence
<1>. QED
  BY <1>1, <1>2, <1>3 DEF Init, NumberInv, Fun

LEMMA ViewBelow ==
  ASSUME NumberInv, NEW o \in Objects, NEW n, Below(rows, n),
         \A i \in DOMAIN work[o] : Placed(work[o][i], n)
  PROVE  Below(View(o), n)
<1>1. PICK T : work[o] \in Seq(T)
  BY DEF NumberInv, Numbers, IsSequence
<1>2. DOMAIN work[o] = 1..Len(work[o])
  BY <1>1, LenProperties
<1>. QED
  BY <1>1, <1>2, ApplyAllBelow DEF View

(* A table that o's transaction does not write to.                          *)
LEMMA ViewElsewhere ==
  ASSUME NumberInv, NEW o \in Objects,
         NEW t, t \notin Changed(o)
  PROVE  RowsIn(t, View(o)) = RowsIn(t, rows)
<1>1. PICK T : work[o] \in Seq(T)
  BY DEF NumberInv, Numbers, IsSequence
<1>2. DOMAIN work[o] = 1..Len(work[o])
  BY <1>1, LenProperties
<1>3. \A i \in 1..Len(work[o]) : work[o][i].table # t
  BY <1>2 DEF Changed
<1>. QED
  BY <1>1, <1>3, ApplyAllElsewhere DEF View

(* A reader is not concerned by what happens to other tables.               *)
LEMMA ReaderKeeps ==
  ASSUME NumberInv, NEW p \in Objects, Reading(p)' => Reading(p),
         call'[p] = call[p], mine'[p] = mine[p], work'[p] = work[p],
         Reaches(p)' => Reaches(p),
         Reading(p) /\ alone'[p] =>
           /\ alone[p]
           /\ RowsIn(call[p].stmt.table, rows') = RowsIn(call[p].stmt.table, rows)
  PROVE  Reading(p)' /\ alone'[p] /\ Reaches(p)' =>
           Highest(mine'[p], call'[p].stmt.table, View(p)')
<1> SUFFICES ASSUME Reading(p)', alone'[p], Reaches(p)'
             PROVE  Highest(mine'[p], call'[p].stmt.table, View(p)')
  OBVIOUS
<1> DEFINE t == call[p].stmt.table
<1>1. Highest(mine[p], t, View(p))
  BY DEF NumberInv, Numbers
<1>2. PICK T : work[p] \in Seq(T)
  BY DEF NumberInv, Numbers, IsSequence
<1>3. RowsIn(t, rows') = RowsIn(t, rows)
  OBVIOUS
<1>4. RowsIn(t, ApplyAll(work[p], rows')) = RowsIn(t, ApplyAll(work[p], rows))
  BY <1>2, <1>3, ApplyAllWithin
<1>5. RowsIn(t, View(p)') = RowsIn(t, View(p))
  BY <1>4 DEF View
<1>. QED
  BY <1>1, <1>5 DEF Highest

(* What most steps of o do to the rows and to the readers.                  *)
Effects(o) ==
  /\ nextId' = nextId /\ At(mine, mine', o)
  /\ \/ /\ rows' = rows /\ (work' = work \/ Forgets(o))
        /\ \A p \in Objects \ {o} : alone'[p] => alone[p]
     \/ /\ rows' = View(o) /\ Forgets(o)
        /\ Disturbed(o, Changed(o))
  /\ \/ late' = late
     \/ Busy(o) /\ IsWrite(now[o]) /\ late' = late \cup {now[o]}

LEMMA EffectsOnOther ==
  ASSUME IInv, OpInv, NumberInv, NEW o \in Objects, OnlyAt(o), MovesOnly(o), Effects(o),
         NEW p \in Objects, p # o
  PROVE  Numbers(p)'
<1>1. /\ call'[p] = call[p] /\ (Reading(p)' <=> Reading(p))
  BY OthersStay DEF Reading
<1>2. work'[p] = work[p] /\ mine'[p] = mine[p] /\ (Reaches(p)' <=> Reaches(p))
  BY DEF IInv, Shape, NumberInv, OnlyAt, Effects, At, Fun, Reaches
<1>3. ASSUME Reading(p), alone'[p]
      PROVE  alone[p] /\ RowsIn(call[p].stmt.table, rows') = RowsIn(call[p].stmt.table, rows)
  <2>1. CASE rows' = rows /\ \A q \in Objects \ {o} : alone'[q] => alone[q]
    BY <1>3, <2>1
  <2>2. CASE rows' = View(o) /\ Disturbed(o, Changed(o))
    <3>1. alone[p] /\ Undisturbed(p, Changed(o))
      BY <1>3, <2>2 DEF Disturbed
    <3>2. call[p].stmt.table \notin Changed(o)
      BY <1>3, <3>1 DEF Undisturbed, Reading, Busy
    <3>. QED
      BY <2>2, <3>1, <3>2, ViewElsewhere
  <2>. QED
    BY <2>1, <2>2 DEF Effects
<1>4. Reading(p)' /\ alone'[p] /\ Reaches(p)' =>
        Highest(mine'[p], call'[p].stmt.table, View(p)')
  BY <1>1, <1>2, <1>3, ReaderKeeps
<1>5. Numbers(p) /\ nextId' = nextId
  BY DEF NumberInv, Effects
<1>. QED
  BY <1>2, <1>4, <1>5 DEF Numbers

LEMMA EffectsKeep ==
  ASSUME IInv, OpInv, NumberInv, NEW o \in Objects, OnlyAt(o), MovesOnly(o), Effects(o),
         Reading(o)' /\ alone'[o] /\ Reaches(o)' =>
           Highest(mine'[o], call'[o].stmt.table, View(o)')
  PROVE  NumberInv'
<1>1. nextId' \in NextNumbers /\ Fun(mine)'
  BY DEF NumberInv, Effects, Fun, At
<1>2. Below(rows', nextId')
  <2>1. Below(View(o), nextId)
    BY ViewBelow DEF NumberInv, Numbers
  <2>. QED
    BY <2>1 DEF NumberInv, Effects
<1>3. \A s \in late' : Storable(s)
  <2>1. ASSUME Busy(o), IsWrite(now[o]) PROVE Storable(now[o])
    <3>1. ~second[o]
      BY <2>1, ReadsOnly DEF OpInv, Operating
    <3>2. now[o] = call[o].stmt /\ call[o] \in AllCalls
      BY <2>1, <3>1 DEF OpInv, Operating
    <3>. QED
      BY <3>2, CallsStorable
  <2>. QED
    BY <2>1 DEF NumberInv, Effects
<1>4. Numbers(o)'
  <2>1. CASE work' = work
    BY <2>1 DEF NumberInv, Numbers, Effects
  <2>2. CASE Forgets(o)
    <3>1. work'[o] = <<>>
      BY <2>2 DEF Forgets, IInv, Shape, Fun
    <3>2. <<>> \in Seq({}) /\ DOMAIN <<>> = {}
      OBVIOUS
    <3>. QED
      BY <3>1, <3>2 DEF Numbers, IsSequence
  <2>. QED
    BY <2>1, <2>2 DEF Effects
<1>5. \A p \in Objects : Numbers(p)'
  BY <1>4, EffectsOnOther
<1>. QED
  BY <1>1, <1>2, <1>3, <1>5 DEF NumberInv


-----------------------------------------------------------------------------
(***************************************************************************)
(* The effects of the steps but Run.                                       *)
(***************************************************************************)
(* Nothing but o's transaction changes.                                     *)
LEMMA QuietEffects ==
  ASSUME NumberInv, NEW o \in Objects, UNCHANGED <<rows, nextId, mine, alone>>,
         UNCHANGED work \/ Forgets(o),
         \/ UNCHANGED late
         \/ Busy(o) /\ IsWrite(now[o]) /\ late' = late \cup {now[o]}
  PROVE  Effects(o)
<1>1. At(mine, mine', o)
  BY DEF NumberInv, Fun, At
<1>. QED
  BY <1>1 DEF Effects

(* o's transaction is stored.                                               *)
LEMMA CommitEffects ==
  ASSUME NumberInv, NEW o \in Objects, Commits(o), Forgets(o),
         UNCHANGED <<nextId, mine, late>>
  PROVE  Effects(o)
<1>1. At(mine, mine', o)
  BY DEF NumberInv, Fun, At
<1>. QED
  BY <1>1 DEF Effects, Commits

LEMMA BeginEffects ==
  ASSUME IInv, NumberInv, NEW o \in Objects, Begin(o)
  PROVE  Effects(o)
<1>1. /\ UNCHANGED <<rows, nextId, work, late>>
      /\ mine' = [mine EXCEPT ![o] = 0] /\ alone' = [alone EXCEPT ![o] = TRUE]
  BY DEF Begin, server
<1>2. At(mine, mine', o)
  BY <1>1, ExceptAt DEF NumberInv
<1>3. \A p \in Objects \ {o} : alone'[p] => alone[p]
  BY <1>1 DEF IInv, Shape
<1>. QED
  BY <1>1, <1>2, <1>3 DEF Effects

LEMMA DiesEffects ==
  ASSUME NumberInv, NEW o \in Objects, Dies(o)
  PROVE  Effects(o)
BY QuietEffects DEF Dies, SessionEnds, Forgets

LEMMA RejectedEffects ==
  ASSUME NumberInv, NEW o \in Objects, Rejected(o)
  PROVE  Effects(o)
<1>1. UNCHANGED <<nextId, late, mine>>
  BY DEF Rejected
<1>2. \/ Commits(o) /\ Forgets(o)
      \/ UNCHANGED <<rows, work, alone>>
  BY Zenon DEF Rejected, SessionEnds, Commits, Forgets
<1>. QED
  BY <1>1, <1>2, CommitEffects, QuietEffects

LEMMA StepEffects ==
  ASSUME NumberInv, NEW o \in Objects, Step(o), ~Run(o)
  PROVE  Effects(o)
<1>1. CASE Ping(o)
  BY <1>1, QuietEffects DEF Ping, server, history
<1>2. CASE PingFails(o)
  BY <1>2, QuietEffects DEF PingFails, server, history
<1>3. CASE PingFreed(o)
  <2>1. Dies(o) \/ UNCHANGED <<server, client, history>>
    BY <1>3, Zenon DEF PingFreed
  <2>. QED
    BY <2>1, DiesEffects, QuietEffects DEF server, history
<1>4. CASE Connect(o)
  BY <1>4, QuietEffects DEF Connect, server, history
<1>5. CASE Refused(o)
  BY <1>5, RejectedEffects DEF Refused
<1>6. CASE Deadlocked(o)
  BY <1>6, QuietEffects DEF Deadlocked, SessionEnds, Forgets
<1>7. CASE ExecGone(o)
  BY <1>7, QuietEffects DEF ExecGone, server
<1>8. CASE TimesOut(o)
  <2>1. Busy(o) /\ UNCHANGED <<rows, nextId, mine, alone>> /\ Forgets(o)
    BY <1>8 DEF TimesOut, SessionEnds, Forgets, Busy
  <2>2. UNCHANGED late \/ (IsWrite(now[o]) /\ late' = late \cup {now[o]})
    BY <1>8, Zenon DEF TimesOut
  <2>. QED
    BY <2>1, <2>2, QuietEffects
<1>9. CASE Unprepared(o)
  BY <1>9, QuietEffects DEF Unprepared, NotPrepared, server
<1>. QED
  BY <1>1, <1>2, <1>3, <1>4, <1>5, <1>6, <1>7, <1>8, <1>9, Zenon DEF Step

LEMMA CommandEffects ==
  ASSUME NumberInv, NEW o \in Objects, Command(o)
  PROVE  Effects(o)
<1>1. CASE Start_Transaction(o)
  BY <1>1, CommitEffects DEF Start_Transaction, Forgets
<1>2. CASE Commit(o)
  BY <1>2, CommitEffects DEF Commit, SessionEnds, Forgets
<1>3. CASE Rollback(o)
  BY <1>3, QuietEffects DEF Rollback, SessionEnds, Forgets
<1>4. CASE CommandFails(o)
  BY <1>4, QuietEffects DEF CommandFails, server
<1>5. CASE CommandTimesOut(o)
  <2>1. Forgets(o) /\ UNCHANGED <<nextId, late, mine>>
    BY <1>5 DEF CommandTimesOut, SessionEnds, Forgets
  <2>2. Commits(o) \/ UNCHANGED <<rows, alone>>
    BY <1>5, Zenon DEF CommandTimesOut
  <2>. QED
    BY <2>1, <2>2, CommitEffects, QuietEffects
<1>6. CASE CommandUnconnected(o)
  <2>1. Dies(o) \/ (UNCHANGED <<server, mine, alone>>)
    BY <1>6, Zenon DEF CommandUnconnected
  <2>. QED
    BY <2>1, DiesEffects, QuietEffects DEF server
<1>7. CASE ConnectDB(o)
  BY <1>7, QuietEffects DEF ConnectDB, SessionEnds, Forgets
<1>8. CASE DisConnectDB(o)
  <2>1. Dies(o) \/ (Forgets(o) /\ UNCHANGED <<rows, nextId, late, mine, alone>>)
    BY <1>8, Zenon DEF DisConnectDB, SessionEnds, Forgets
  <2>. QED
    BY <2>1, DiesEffects, QuietEffects
<1>. QED
  BY <1>1, <1>2, <1>3, <1>4, <1>5, <1>6, <1>7, <1>8, Zenon DEF Command

LEMMA FaultEffects ==
  ASSUME NumberInv, NEW o \in Objects, Fault(o)
  PROVE  Effects(o)
<1>1. CASE ConnectFails(o)
  BY <1>1, QuietEffects DEF ConnectFails, server
<1>2. CASE RefusedElse(o)
  BY <1>2, RejectedEffects DEF RefusedElse
<1>3. CASE PrepareFails(o)
  BY <1>3, QuietEffects DEF PrepareFails, NotPrepared, server
<1>4. CASE ResultLost(o)
  BY <1>4, DiesEffects DEF ResultLost
<1>5. CASE Break(o)
  BY <1>5, QuietEffects DEF Break, SessionEnds, Forgets
<1>. QED
  BY <1>1, <1>2, <1>3, <1>4, <1>5, Zenon DEF Fault

(* Losing a session that had no transaction takes nothing away from what is *)
(* seen; one that had a transaction cannot be reached any more.             *)
LEMMA BreakReads ==
  ASSUME IInv, OpInv, NumberInv, NEW o \in Objects, Break(o),
         Reading(o)', alone'[o], Reaches(o)'
  PROVE  Highest(mine'[o], call'[o].stmt.table, View(o)')
<1>1. /\ link[o] /\ link'[o] = FALSE /\ work'[o] = <<>>
      /\ UNCHANGED <<rows, handle, inTrans, pc, call, second, mine, alone>>
  BY DEF Break, SessionEnds, program, IInv, Shape, Fun
<1>2. Reading(o) /\ alone[o]
  BY <1>1 DEF Reading, Busy
<1>3. handle[o] = "open" /\ ~inTrans[o]
  BY <1>1 DEF Reaches
<1>4. Reaches(o) /\ work[o] = <<>>
  BY <1>1, <1>3 DEF Reaches, IInv, Local
<1>5. View(o)' = View(o)
  BY <1>1, <1>4 DEF View
<1>6. Highest(mine[o], call[o].stmt.table, View(o))
  BY <1>2, <1>4 DEF NumberInv, Numbers
<1>. QED
  BY <1>1, <1>5, <1>6 DEF Highest

-----------------------------------------------------------------------------
(***************************************************************************)
(* A statement is stored under its number.                                  *)
(***************************************************************************)
LEMMA AppendedPlaced ==
  ASSUME NEW q, IsSequence(q), NEW s, NEW m, Placed(s, m),
         \A i \in DOMAIN q : Placed(q[i], m)
  PROVE  /\ IsSequence(Append(q, s))
         /\ \A i \in DOMAIN Append(q, s) : Placed(Append(q, s)[i], m)
<1>1. PICK T : q \in Seq(T)
  BY DEF IsSequence
<1> DEFINE U == T \cup {s}
           p == Append(q, s)
<1>2. q \in Seq(U)
  BY <1>1, SeqDef, ElementOfSeq, LenProperties
<1>3. Len(q) \in Nat /\ DOMAIN q = 1..Len(q)
  BY <1>1, LenProperties
<1>4. /\ p \in Seq(U) /\ Len(p) = Len(q) + 1 /\ p[Len(q) + 1] = s
      /\ \A i \in 1..Len(q) : p[i] = q[i]
  BY <1>2, AppendProperties
<1>5. DOMAIN p = 1..Len(p)
  BY <1>4, LenProperties
<1> HIDE DEF p, U
<1>6. ASSUME NEW i \in DOMAIN p PROVE Placed(p[i], m)
  <2>1. i \in 1..Len(q) \/ i = Len(q) + 1
    BY <1>3, <1>4, <1>5
  <2>. QED
    BY <1>3, <1>4, <2>1
<1>. QED
  BY <1>4, <1>6 DEF p, IsSequence

LEMMA EmptyPlaced ==
  IsSequence(<<>>) /\ \A m : \A i \in DOMAIN <<>> : Placed(<<>>[i], m)
<1>1. <<>> \in Seq({}) /\ DOMAIN <<>> = {}
  OBVIOUS
<1>. QED
  BY <1>1 DEF IsSequence

(* What the row of a stored statement is among the others.                  *)
LEMMA StoredIsHighest ==
  ASSUME NEW s, s.op = "replace", HasNumber(s), NEW R, NEW m,
         Below(Apply(s, R), m), m[s.table] = NumberOf(s) + 1, NumberOf(s) \in Nat
  PROVE  Highest(NumberOf(s), s.table, Apply(s, R))
<1>1. RowOf(s) \in Apply(s, R)
  BY DEF Apply
<1>2. RowOf(s).table = s.table /\ Num(RowOf(s)) = NumberOf(s)
  BY RowOfTable DEF Num, NumberOf
<1>3. ASSUME NEW r \in Apply(s, R), r.table = s.table PROVE Num(r) <= NumberOf(s)
  <2>1. Num(r) \in Nat /\ Num(r) < NumberOf(s) + 1
    BY <1>3 DEF Below, HasNumber, NumberedTables
  <2>. QED
    BY <2>1
<1>. QED
  BY <1>1, <1>2, <1>3 DEF Highest, RowsIn

(* The three places a statement's effect goes to.                           *)
LEMMA RunPlaces ==
  ASSUME IInv, NEW o \in Objects, Run(o), NEW s, s = WithNumber(now[o], nextId)
  PROVE  /\ \/ /\ IsWrite(s) /\ rows' = rows /\ work'[o] = Append(work[o], s)
               /\ alone' = [alone EXCEPT ![o] = TRUE]
            \/ ~IsWrite(s) /\ UNCHANGED <<rows, work, alone>>
            \/ ~IsRead(s) /\ InRows(o, s) /\ work'[o] = <<>>
         /\ late' = late /\ nextId' = NextAfter(s, nextId)
         /\ mine' = IF HasNumber(s) THEN [mine EXCEPT ![o] = NumberOf(s)] ELSE mine
         /\ pc[o] = "exec" /\ Busy(o) /\ Reaches(o)
<1>1. \/ InWork(o, s)
      \/ IsRead(s) /\ UNCHANGED <<rows, open, work, alone>>
      \/ ~IsRead(s) /\ InRows(o, s)
  BY Zenon DEF Run
<1>2. Fun(work)
  BY DEF IInv, Shape
<1>3. InWork(o, s) =>
        \/ /\ IsWrite(s) /\ rows' = rows /\ work'[o] = Append(work[o], s)
           /\ alone' = [alone EXCEPT ![o] = TRUE]
        \/ ~IsWrite(s) /\ UNCHANGED <<rows, work, alone>>
  BY <1>2 DEF InWork, Fun
<1>4. InRows(o, s) => work'[o] = <<>>
  BY <1>2 DEF InRows, SessionEnds, Fun
<1>5. IsRead(s) => ~IsWrite(s)
  BY ReadsOnly
<1>6. /\ late' = late /\ nextId' = NextAfter(s, nextId)
      /\ mine' = IF HasNumber(s) THEN [mine EXCEPT ![o] = NumberOf(s)] ELSE mine
      /\ pc[o] = "exec" /\ Reaches(o)
  BY DEF Run
<1>. QED
  BY <1>1, <1>3, <1>4, <1>5, <1>6 DEF Busy

LEMMA RunEnds ==
  ASSUME IInv, OpInv, NEW o \in Objects, Run(o)
  PROVE  MovesOnly(o) /\ (Reading(o)' => ~second[o] /\ GoesSecond(o))
<1> DEFINE s == WithNumber(now[o], nextId)
           w == Outcome(s, View(o))
<1>1. Busy(o) /\ scene' = scene /\ Answered(o, w, Got(s, View(o)))
  BY DEF Run, Busy
<1>2. w \in Outcomes
  BY DEF Outcome, Outcomes
<1> HIDE DEF s, w
<1>3. \/ ~second[o] /\ GoesSecond(o)
      \/ Quits(o, TellsOf(o)[w])
  BY <1>1, <1>2, AnsweredEnds
<1>4. Quits(o, TellsOf(o)[w]) => ~Reading(o)'
  BY MovesUnread DEF Unread
<1>. QED
  BY <1>3, <1>4 DEF Quits, GoesSecond

(* The second statement changes nothing; ...                                *)
LEMMA RunSecondKeeps ==
  ASSUME IInv, OpInv, NumberInv, NEW o \in Objects, Run(o), second[o]
  PROVE  NumberInv'
<1>1. Busy(o) /\ IsRead(now[o])
  BY DEF Run, Busy, OpInv, Operating
<1>2. WithNumber(now[o], nextId) = now[o] /\ NextAfter(now[o], nextId) = nextId
      /\ ~IsWrite(now[o]) /\ ~HasNumber(now[o])
  BY <1>1, ReadsOnly
<1>3. UNCHANGED <<rows, work, alone, late, nextId, mine>>
  BY <1>1, <1>2, RunPlaces
<1>4. Effects(o)
  BY <1>3, QuietEffects
<1>5. MovesOnly(o) /\ ~Reading(o)' /\ OnlyAt(o)
  BY RunEnds, RunKeeps
<1>. QED
  BY <1>4, <1>5, EffectsKeep

(* ... the first is given its number and stored.                            *)
LEMMA RunFirstKeeps ==
  ASSUME IInv, OpInv, NumberInv, NEW o \in Objects, Run(o), ~second[o]
  PROVE  NumberInv'
<1> DEFINE s == WithNumber(now[o], nextId)
           c == call[o]
<1>1. /\ \/ /\ IsWrite(s) /\ rows' = rows /\ work'[o] = Append(work[o], s)
            /\ alone' = [alone EXCEPT ![o] = TRUE]
         \/ ~IsWrite(s) /\ UNCHANGED <<rows, work, alone>>
         \/ ~IsRead(s) /\ InRows(o, s) /\ work'[o] = <<>>
      /\ late' = late /\ nextId' = NextAfter(s, nextId)
      /\ mine' = IF HasNumber(s) THEN [mine EXCEPT ![o] = NumberOf(s)] ELSE mine
      /\ pc[o] = "exec" /\ Busy(o) /\ Reaches(o)
  BY RunPlaces
<1>2. c \in AllCalls /\ now[o] = c.stmt
  BY <1>1 DEF OpInv, Operating
<1>3. Storable(c.stmt) /\ (c.then = "max" => ReadsBack(c))
  BY <1>2, CallsStorable
<1>4. s = WithNumber(c.stmt, nextId)
  BY <1>2
<1> HIDE DEF s
<1>5. nextId \in NextNumbers
  BY DEF NumberInv
<1>6. /\ nextId' \in NextNumbers /\ \A t \in NumberedTables : nextId[t] <= nextId'[t]
      /\ s.op = c.stmt.op /\ s.table = c.stmt.table
      /\ Placed(s, nextId')
      /\ HasNumber(c.stmt) /\ NumberOf(c.stmt) = 0 =>
           /\ HasNumber(s) /\ NumberOf(s) = nextId[c.stmt.table]
           /\ nextId'[c.stmt.table] = NumberOf(s) + 1
  BY <1>1, <1>3, <1>4, <1>5, Numbering
<1>7. /\ \A z : Placed(z, nextId) => Placed(z, nextId')
      /\ \A R : Below(R, nextId) => Below(R, nextId')
  BY <1>5, <1>6, PlacedLonger
<1>8. /\ Below(rows, nextId')
      /\ \A p \in Objects : \A i \in DOMAIN work[p] : Placed(work[p][i], nextId')
  BY <1>7 DEF NumberInv, Numbers
<1>9. Below(View(o), nextId')
  BY <1>8, ViewBelow
<1>10. Below(Apply(s, View(o)), nextId')
  BY <1>6, <1>9, ApplyBelow
<1>11. Below(rows', nextId')
  BY <1>1, <1>8, <1>10 DEF InRows
<1>12. OnlyAt(o) /\ MovesOnly(o) /\ (Reading(o)' => GoesSecond(o))
  BY RunKeeps, RunEnds
<1>13. Fun(mine)' /\ At(mine, mine', o) /\ (HasNumber(s) => mine'[o] = NumberOf(s))
  BY <1>1 DEF NumberInv, Fun, At
<1>14. ASSUME NEW p \in Objects, p # o PROVE Numbers(p)'
  <2>1. call'[p] = call[p] /\ (Reading(p)' <=> Reading(p))
    BY <1>12, <1>14, OthersStay DEF Reading
  <2>2. work'[p] = work[p] /\ mine'[p] = mine[p] /\ (Reaches(p)' <=> Reaches(p))
    BY <1>12, <1>13, <1>14 DEF IInv, Shape, NumberInv, OnlyAt, At, Fun, Reaches
  <2>3. ASSUME Reading(p), alone'[p]
        PROVE  alone[p] /\ RowsIn(call[p].stmt.table, rows') = RowsIn(call[p].stmt.table, rows)
    <3>1. CASE rows' = rows /\ alone' = [alone EXCEPT ![o] = TRUE]
      BY <1>14, <2>3, <3>1 DEF IInv, Shape
    <3>2. CASE UNCHANGED <<rows, work, alone>>
      BY <2>3, <3>2
    <3>3. CASE InRows(o, s)
      <4> DEFINE T == Changed(o)
      <4>1. alone[p] /\ Undisturbed(p, {s.table} \cup T)
        BY <1>14, <2>3, <3>3 DEF InRows, Disturbed
      <4>2. call[p].stmt.table \notin {s.table} \cup T
        BY <2>3, <4>1 DEF Undisturbed, Reading, Busy
      <4>3. RowsIn(call[p].stmt.table, View(o)) = RowsIn(call[p].stmt.table, rows)
        BY <4>2, ViewElsewhere
      <4>4. RowsIn(call[p].stmt.table, Apply(s, View(o))) = RowsIn(call[p].stmt.table, View(o))
        BY <4>2, ApplyElsewhere
      <4>. QED
        BY <3>3, <4>1, <4>3, <4>4 DEF InRows
    <3>. QED
      BY <1>1, <3>1, <3>2, <3>3
  <2>4. Reading(p)' /\ alone'[p] /\ Reaches(p)' =>
          Highest(mine'[p], call'[p].stmt.table, View(p)')
    BY <2>1, <2>2, <2>3, ReaderKeeps
  <2>5. IsSequence(work[p]) /\ \A i \in DOMAIN work[p] : Placed(work[p][i], nextId')
    BY <1>8 DEF NumberInv, Numbers
  <2>. QED
    BY <2>2, <2>4, <2>5 DEF Numbers
<1>15. IsSequence(work'[o]) /\ \A i \in DOMAIN work'[o] : Placed(work'[o][i], nextId')
  <2>1. IsSequence(work[o]) /\ \A i \in DOMAIN work[o] : Placed(work[o][i], nextId')
    BY <1>8 DEF NumberInv, Numbers
  <2>2. /\ IsSequence(Append(work[o], s))
        /\ \A i \in DOMAIN Append(work[o], s) : Placed(Append(work[o], s)[i], nextId')
    BY <1>6, <2>1, AppendedPlaced
  <2>3. work'[o] \in {work[o], Append(work[o], s), <<>>}
    BY <1>1
  <2>. QED
    BY <2>1, <2>2, <2>3, EmptyPlaced
<1>16. ASSUME Reading(o)' PROVE Highest(mine'[o], call'[o].stmt.table, View(o)')
  <2>1. call'[o] = c /\ c.then = "max"
    BY <1>12, <1>16 DEF GoesSecond, Reading
  <2>2. HasNumber(c.stmt) /\ NumberOf(c.stmt) = 0
    BY <1>3, <2>1 DEF ReadsBack
  <2>3. /\ HasNumber(s) /\ NumberOf(s) = nextId[s.table]
        /\ nextId'[s.table] = NumberOf(s) + 1 /\ s.table = c.stmt.table
    BY <1>6, <2>2
  <2>4. s.op = "replace" /\ IsWrite(s) /\ mine'[o] = NumberOf(s)
    BY <1>13, <2>3 DEF HasNumber, IsWrite
  <2>5. NumberOf(s) \in Nat
    BY <1>6, <2>3 DEF Placed
  <2>6. View(o)' = Apply(s, View(o))
    <3>1. CASE rows' = rows /\ work'[o] = Append(work[o], s)
      <4>1. PICK T : work[o] \in Seq(T)
        BY DEF NumberInv, Numbers, IsSequence
      <4>2. work[o] \in Seq(T \cup {s})
        BY <4>1, SeqDef, ElementOfSeq, LenProperties
      <4>3. ApplyAll(Append(work[o], s), rows) = Apply(s, ApplyAll(work[o], rows))
        BY <4>2, ApplyAllAppend
      <4>. QED
        BY <3>1, <4>3 DEF View
    <3>2. CASE InRows(o, s) /\ work'[o] = <<>>
      <4>1. ApplyAll(<<>>, rows') = rows'
        BY ApplyAllNone
      <4>. QED
        BY <3>2, <4>1 DEF View, InRows
    <3>. QED
      BY <1>1, <2>4, <3>1, <3>2
  <2>7. Highest(NumberOf(s), s.table, Apply(s, View(o)))
    BY <1>10, <2>3, <2>4, <2>5, StoredIsHighest
  <2>. QED
    BY <2>1, <2>3, <2>4, <2>6, <2>7
<1>17. Numbers(o)'
  BY <1>15, <1>16 DEF Numbers
<1>18. \A z \in late' : Storable(z)
  BY <1>1 DEF NumberInv
<1>19. \A p \in Objects : Numbers(p)'
  BY <1>14, <1>17
<1>. QED
  BY <1>6, <1>11, <1>13, <1>18, <1>19 DEF NumberInv

(* A statement left to the server is given its number then, and concerns    *)
(* the operations on its table.                                             *)
LEMMA RunLateNumbers ==
  ASSUME IInv, NumberInv, RunLate
  PROVE  NumberInv'
<1>1. PICK s \in late :
        /\ late' = late \ {s}
        /\ \/ /\ rows' = Apply(WithNumber(s, nextId), rows)
              /\ nextId' = NextAfter(WithNumber(s, nextId), nextId)
              /\ alone' = [p \in Objects |-> alone[p] /\ Undisturbed(p, {s.table})]
           \/ UNCHANGED <<rows, nextId, alone>>
        /\ UNCHANGED <<work, client, program, mine>>
  BY Zenon DEF RunLate
<1>2. UNCHANGED <<work, handle, link, inTrans, pc, call, second, mine>>
  BY <1>1 DEF client, program
<1> DEFINE z == WithNumber(s, nextId)
           m == NextAfter(z, nextId)
<1>3. nextId \in NextNumbers /\ Storable(s)
  BY DEF NumberInv
<1>4. /\ m \in NextNumbers /\ \A t \in NumberedTables : nextId[t] <= m[t]
      /\ z.table = s.table /\ Placed(z, m)
  BY <1>3, Numbering
<1>5. /\ \A q : Placed(q, nextId) => Placed(q, m)
      /\ \A R : Below(R, nextId) => Below(R, m)
  BY <1>3, <1>4, PlacedLonger
<1> HIDE DEF z, m
<1>6. \/ /\ rows' = Apply(z, rows) /\ nextId' = m
         /\ alone' = [p \in Objects |-> alone[p] /\ Undisturbed(p, {s.table})]
      \/ UNCHANGED <<rows, nextId, alone>>
  BY <1>1 DEF z, m
<1>7. nextId' \in NextNumbers /\ Below(rows', nextId')
  <2>1. Below(rows, m)
    BY <1>5 DEF NumberInv
  <2>2. Below(Apply(z, rows), m)
    BY <1>4, <2>1, ApplyBelow
  <2>. QED
    BY <1>4, <1>6, <2>2 DEF NumberInv
<1>8. ASSUME NEW p \in Objects PROVE Numbers(p)'
  <2>1. IsSequence(work[p]) /\ \A i \in DOMAIN work[p] : Placed(work[p][i], nextId)
    BY DEF NumberInv, Numbers
  <2>2. IsSequence(work'[p]) /\ \A i \in DOMAIN work'[p] : Placed(work'[p][i], nextId')
    BY <1>2, <1>5, <1>6, <2>1
  <2>3. (Reading(p)' <=> Reading(p)) /\ (Reaches(p)' <=> Reaches(p))
    BY <1>2 DEF Reading, Busy, Reaches
  <2>4. ASSUME Reading(p), alone'[p]
        PROVE  alone[p] /\ RowsIn(call[p].stmt.table, rows') = RowsIn(call[p].stmt.table, rows)
    <3>1. CASE UNCHANGED <<rows, nextId, alone>>
      BY <2>4, <3>1
    <3>2. CASE /\ rows' = Apply(z, rows)
               /\ alone' = [q \in Objects |-> alone[q] /\ Undisturbed(q, {s.table})]
      <4>1. alone[p] /\ Undisturbed(p, {s.table})
        BY <2>4, <3>2
      <4>2. z.table # call[p].stmt.table
        BY <1>4, <2>4, <4>1 DEF Undisturbed, Reading, Busy
      <4>. QED
        BY <3>2, <4>1, <4>2, ApplyElsewhere
    <3>. QED
      BY <1>6, <3>1, <3>2
  <2>5. Reading(p)' /\ alone'[p] /\ Reaches(p)' =>
          Highest(mine'[p], call'[p].stmt.table, View(p)')
    BY <1>2, <2>3, <2>4, ReaderKeeps
  <2>. QED
    BY <2>2, <2>5 DEF Numbers
<1>9. Fun(mine)' /\ \A q \in late' : Storable(q)
  BY <1>1, <1>2 DEF NumberInv, Fun
<1>. QED
  BY <1>7, <1>8, <1>9 DEF NumberInv

-----------------------------------------------------------------------------
(* Every step of o that is not Run, and no loss of its session.             *)
LEMMA UnreadSteps ==
  ASSUME IInv, OpInv, NEW o \in Objects,
         Begin(o) \/ Step(o) \/ Command(o) \/ Fault(o), ~Run(o), ~Break(o)
  PROVE  Unread(o) /\ OnlyAt(o)
<1>1. CASE Begin(o) \/ Step(o)
  <2>1. Unread(o)
    BY <1>1, BeginMaps, PingMaps, PingFailsMaps, PingFreedMaps, ConnectMaps,
       RejectedMaps, NotPreparedMaps, DeadlockedMaps, ExecGoneMaps, TimesOutMaps, Zenon
       DEF Step, Refused, Unprepared
  <2>2. OnlyAt(o)
    BY <1>1, BeginKeeps, PingKeeps, PingFailsKeeps, PingFreedKeeps, ConnectKeeps,
       RejectedKeeps, NotPreparedKeeps, DeadlockedKeeps, ExecGoneKeeps, TimesOutKeeps, Zenon
       DEF Step, Refused, Unprepared
  <2>. QED
    BY <2>1, <2>2
<1>2. CASE Command(o)
  <2>1. Unread(o)
    BY <1>2, Start_TransactionMaps, CommitMaps, RollbackMaps, CommandFailsMaps,
       CommandTimesOutMaps, CommandUnconnectedMaps, ConnectDBMaps, DisConnectDBMaps, Zenon
       DEF Command
  <2>2. OnlyAt(o)
    BY <1>2, Start_TransactionKeeps, CommitKeeps, RollbackKeeps, CommandFailsKeeps,
       CommandTimesOutKeeps, CommandUnconnectedKeeps, ConnectDBKeeps, DisConnectDBKeeps, Zenon
       DEF Command
  <2>. QED
    BY <2>1, <2>2
<1>3. CASE Fault(o)
  <2>1. Unread(o)
    BY <1>3, ConnectFailsMaps, RejectedMaps, NotPreparedMaps, ResultLostMaps, Zenon
       DEF Fault, RefusedElse, PrepareFails
  <2>2. OnlyAt(o)
    BY <1>3, ConnectFailsKeeps, RejectedKeeps, NotPreparedKeeps, ResultLostKeeps, Zenon
       DEF Fault, RefusedElse, PrepareFails
  <2>. QED
    BY <2>1, <2>2
<1>. QED
  BY <1>1, <1>2, <1>3

LEMMA NumbersKept ==
  ASSUME IInv, OpInv, NumberInv, [Next]_vars
  PROVE  NumberInv'
<1>1. CASE RunLate
  BY <1>1, RunLateNumbers
<1>2. ASSUME NEW o \in Objects, Begin(o) \/ Step(o) \/ Command(o) \/ Fault(o)
      PROVE  NumberInv'
  <2>1. CASE Run(o)
    BY <2>1, RunFirstKeeps, RunSecondKeeps
  <2>2. CASE Break(o)
    <3>1. Effects(o)
      BY <2>2, FaultEffects DEF Fault
    <3>2. OnlyAt(o) /\ MovesOnly(o)
      BY <2>2, BreakKeeps, BreakMaps
    <3>3. alone' = alone
      BY <2>2 DEF Break
    <3>4. Reading(o)' /\ alone'[o] /\ Reaches(o)' =>
            Highest(mine'[o], call'[o].stmt.table, View(o)')
      BY <2>2, <3>3, BreakReads
    <3>. QED
      BY <3>1, <3>2, <3>4, EffectsKeep
  <2>3. CASE ~Run(o) /\ ~Break(o)
    <3>1. Unread(o) /\ OnlyAt(o)
      BY <1>2, <2>3, UnreadSteps
    <3>2. Effects(o)
      BY <1>2, <2>3, BeginEffects, StepEffects, CommandEffects, FaultEffects
    <3>. QED
      BY <3>1, <3>2, EffectsKeep DEF Unread
  <2>. QED
    BY <2>1, <2>2, <2>3
<1>3. CASE LeakEnds \/ UNCHANGED vars
  <2>1. UNCHANGED <<rows, nextId, work, late, handle, link, inTrans, pc, call, second, mine, alone>>
    BY <1>3, LeakEndsRests
  <2>2. \A o \in Objects : Numbers(o)'
    BY <2>1 DEF NumberInv, Numbers, Reading, Busy, Reaches, View, Highest
  <2>. QED
    BY <2>1, <2>2 DEF NumberInv, Fun
<1>. QED
  BY <1>1, <1>2, <1>3 DEF Next

-----------------------------------------------------------------------------
(* What the steps of an operation that reads its number back may tell:      *)
(* "true" is told by the query alone.                                       *)
LEMMA OnlyRunTellsTrue ==
  ASSUME IInv, OpInv, NEW o \in Objects, Reading(o),
         Begin(o) \/ Step(o) \/ Command(o) \/ Fault(o), ~Run(o)
  PROVE  ret'[o].told # "true"
<1>1. /\ pc[o] = "exec" /\ second[o] /\ Busy(o) /\ ret[o].told = ""
      /\ call[o].then = "max"
  BY DEF Reading, OpInv, Operating
<1>2. TellsOf(o)["failed"] = "false"
  <2>1. SecondAnswer["max"] = [failed |-> "false", none |-> "true", some |-> "true"]
    BY DEF SecondAnswer
  <2>2. TellsOf(o) = SecondAnswer["max"]
    BY <1>1 DEF TellsOf
  <2>. QED
    BY <2>1, <2>2
<1>3. ASSUME scene' = scene, Answered(o, "failed", {}) PROVE ret'[o].told # "true"
  <2>1. Quits(o, TellsOf(o)["failed"])
    BY <1>1, <1>3, AnsweredEnds DEF Outcomes
  <2>. QED
    BY <1>2, <2>1 DEF Quits
<1>4. CASE Begin(o) \/ Command(o)
  BY <1>1, <1>4 DEF Begin, Command, Start_Transaction, Commit, Rollback, CommandFails,
     CommandTimesOut, CommandUnconnected, ConnectDB, DisConnectDB
<1>5. ASSUME NotPrepared(o) PROVE ret'[o].told # "true"
  <2>1. Finish(o, Told("false", 0)) /\ Told("false", 0).told = "false"
    BY <1>5 DEF NotPrepared, Told
  <2>2. "false" \in Store!Words /\ scene' = scene
    BY <1>5 DEF Store!Words, NotPrepared
  <2>3. Quits(o, "false")
    BY <2>1, <2>2, FinishQuits
  <2>. QED
    BY <2>3 DEF Quits
<1>6. CASE Step(o)
  <2>1. ~Ping(o) /\ ~PingFails(o) /\ ~PingFreed(o) /\ ~Connect(o)
    BY <1>1 DEF Ping, PingFails, PingFreed, Connect
  <2>2. Rejected(o) \/ NotPrepared(o) \/ Deadlocked(o) \/ ExecGone(o) \/ TimesOut(o)
    BY <1>6, <2>1, Zenon DEF Step, Refused, Unprepared
  <2>3. ASSUME ~NotPrepared(o) PROVE scene' = scene /\ Answered(o, "failed", {})
    BY <2>2, <2>3 DEF Rejected, Deadlocked, ExecGone, TimesOut
  <2>. QED
    BY <1>3, <1>5, <2>3
<1>7. CASE Fault(o)
  <2>1. CASE ConnectFails(o)
    BY <1>1, <2>1 DEF ConnectFails
  <2>2. CASE Rejected(o)
    BY <1>3, <2>2 DEF Rejected
  <2>3. CASE NotPrepared(o)
    BY <1>5, <2>3
  <2>4. CASE ResultLost(o) \/ Break(o)
    <3>1. ret' = ret
      BY <2>4 DEF ResultLost, Dies, Break, program
    <3>. QED
      BY <1>1, <3>1
  <2>. QED
    BY <1>7, <2>1, <2>2, <2>3, <2>4, Zenon DEF Fault, RefusedElse, PrepareFails
<1>. QED
  BY <1>4, <1>6, <1>7

(* The query returns the number the row was stored under.                   *)
LEMMA RunTellsOwn ==
  ASSUME IInv, OpInv, NumberInv, NEW o \in Objects, Reading(o), alone[o], Run(o)
  PROVE  ret'[o].number = mine[o]
<1> DEFINE t == call[o].stmt.table
           C == NumberColumn[t]
           s == now[o]
           R == View(o)
           fs == Got(s, R)
           w == Outcome(s, R)
<1>1. second[o] /\ Busy(o) /\ call[o].then = "max" /\ s = call[o].next /\ call[o] \in AllCalls
  BY DEF Reading, OpInv, Operating
<1>2. HasNumber(call[o].stmt) /\ s = SelectMax(t, C)
  BY <1>1, CallsStorable DEF ReadsBack
<1>3. s.op = "max" /\ s.table = t /\ s.column = C /\ t \in NumberedTables
  BY <1>2 DEF SelectMax, HasNumber, NumberedTables
<1>4. IsRead(s) /\ WithNumber(s, nextId) = s
  BY <1>3, ReadsOnly DEF IsRead
<1>5. Reaches(o) /\ Answered(o, w, fs)
  BY <1>4 DEF Run
<1>6. Highest(mine[o], t, R)
  BY <1>5 DEF NumberInv, Numbers
<1>7. Below(R, nextId)
  BY ViewBelow DEF NumberInv, Numbers
<1> HIDE DEF R, s
<1>8. \A r \in RowsIn(t, R) : Num(r) = r.field[C] /\ Num(r) \in Nat
  BY <1>3, <1>7 DEF RowsIn, Below, Num
<1>9. PICK r0 \in RowsIn(t, R) : Num(r0) = mine[o]
  BY <1>6 DEF Highest
<1>10. r0 \in Top(s, R)
  BY <1>3, <1>6, <1>8, <1>9 DEF Top, Highest
<1>11. ASSUME NEW r \in Top(s, R) PROVE r.field[C] = mine[o]
  <2>1. r \in RowsIn(t, R) /\ r0.field[C] <= r.field[C]
    BY <1>3, <1>9, <1>11 DEF Top
  <2>2. r.field[C] \in Nat /\ mine[o] \in Nat /\ r.field[C] <= mine[o] /\ mine[o] <= r.field[C]
    BY <1>6, <1>8, <1>9, <2>1 DEF Highest
  <2>. QED
    BY <2>2
<1> DEFINE Shown(r) == [c \in {C} |-> r.field[c]]
<1>12. fs = {Shown(r) : r \in Top(s, R)}
  BY <1>3 DEF Got
<1>13. fs # {} /\ \A f \in fs : f[s.column] = mine[o]
  <2>1. \A r : Shown(r)[C] = r.field[C]
    OBVIOUS
  <2> HIDE DEF Shown, fs, C
  <2>2. fs # {}
    BY <1>10, <1>12
  <2>. QED
    BY <1>3, <1>11, <1>12, <2>1, <2>2
<1> HIDE DEF fs, w
<1>14. PICK n \in (IF second[o] /\ call[o].then = "max" /\ fs # {}
                   THEN {f[now[o].column] : f \in fs} ELSE {0}) :
         Finish(o, Told(TellsOf(o)[w], n))
  BY <1>1, <1>5, Zenon DEF Answered
<1>15. n = mine[o]
  BY <1>1, <1>13, <1>14 DEF s
<1>16. ret'[o] = Told(TellsOf(o)[w], n)
  BY <1>14 DEF Finish, OpInv, Fun
<1>. QED
  BY <1>15, <1>16 DEF Told

LEMMA ReadsOwn ==
  ASSUME IInv, OpInv, NumberInv, [Next]_vars, NEW o \in Objects, pc[o] = "exec",
         second[o], call[o].then = "max", alone[o], ret'[o].told = "true"
  PROVE  ret'[o].number = mine[o]
<1>1. Reading(o) /\ ret[o].told = ""
  BY DEF Reading, Busy, OpInv, Operating
<1>2. ret' # ret
  BY <1>1
<1>3. ~RunLate /\ ~LeakEnds /\ ~UNCHANGED vars
  <2>1. RunLate => ret' = ret
    BY Zenon DEF RunLate, program
  <2>2. LeakEnds \/ UNCHANGED vars => ret' = ret
    BY LeakEndsRests
  <2>. QED
    BY <1>2, <2>1, <2>2
<1>4. PICK p \in Objects : Begin(p) \/ Step(p) \/ Command(p) \/ Fault(p)
  BY <1>3 DEF Next
<1>5. MovesOnly(p)
  <2>1. CASE Run(p)
    BY <2>1, RunEnds
  <2>2. CASE Break(p)
    BY <2>2, BreakMaps
  <2>3. CASE ~Run(p) /\ ~Break(p)
    BY <1>4, <2>3, UnreadSteps DEF Unread
  <2>. QED
    BY <2>1, <2>2, <2>3
<1>6. p = o
  BY <1>1, <1>5, OthersStay
<1>7. Run(o)
  BY <1>1, <1>4, <1>6, OnlyRunTellsTrue
<1>. QED
  BY <1>1, <1>7, RunTellsOwn

(* The number an operation answers with after storing a new row is the      *)
(* number of that row, in or out of a transaction and whatever faults the   *)
(* sessions meet, if no other program has changed the table meanwhile.      *)
THEOREM ReadsOwnNumber == Spec => OwnNumber
<1>1. IInv /\ OpInv /\ NumberInv /\ [Next]_vars =>
        [\A o \in Objects :
           /\ pc[o] = "exec" /\ second[o] /\ call[o].then = "max" /\ alone[o]
           /\ ret'[o].told = "true"
           => ret'[o].number = mine[o]]_vars
  BY ReadsOwn
<1>2. IInv /\ OpInv /\ NumberInv /\ [Next]_vars => IInv' /\ OpInv' /\ NumberInv'
  BY NextKeeps, NextMaps, NumbersKept
<1>3. Init => IInv /\ OpInv /\ NumberInv
  BY InitEstablishes, InitMaps, NumberInvInit
<1>. QED
  BY <1>1, <1>2, <1>3, PTL DEF Spec, OwnNumber
=============================================================================
